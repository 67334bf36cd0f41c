---------------------------- MODULE GoogleKeysMC ----------------------------
(***************************************************************************)
(* Small instances of GoogleKeys.                                          *)
(***************************************************************************)
EXTENDS GoogleKeys, TLC

GuestSymmetry == Permutations(Guests)

OneEach == [k \in FaultKinds |-> 1]

=============================================================================
