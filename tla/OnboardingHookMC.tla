-------------------------- MODULE OnboardingHookMC --------------------------
(***************************************************************************)
(* Small instances of OnboardingHook.                                      *)
(***************************************************************************)
EXTENDS OnboardingHook, TLC

=============================================================================
