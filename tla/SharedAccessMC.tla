--------------------------- MODULE SharedAccessMC ---------------------------
(***************************************************************************)
(* Small instances of SharedAccess.                                        *)
(***************************************************************************)
EXTENDS SharedAccess, TLC

\* Every lookup is about ann; bob only authorizes.
AboutAnn == [r \in Requests |-> "ann"]

=============================================================================
