--------------------------- MODULE CoordinatorMC ---------------------------
(***************************************************************************)
(* Small instances of Coordinator: ann owns a mailbox, bob asks about it.  *)
(***************************************************************************)
EXTENDS Coordinator, TLC

FromSlack == [e \in Events |-> Slack]

\* The legacy record's event comes again from a command.
OldFromCli == [e \in Events |-> IF e = "old" THEN CHOOSE p \in CliProcs : TRUE ELSE Slack]

ByBob == [e \in Events |-> "bob"]

AboutAnn == [e \in Events |-> "ann"]

NoLegacy == [r \in {} |-> None]

OneLegacy ==
  [r \in {"r2"} |->
     [event |-> "old", requester |-> "bob", owner |-> "ann",
      status |-> "owner_review_pending", result |-> CHOOSE a \in Results : TRUE]]

\* Fault bounds.
Faults(kills, posts, disks) == [kill |-> kills, post |-> posts, disk |-> disks]

NoFaults == Faults(0, 0, 0)
OnePost == Faults(0, 1, 0)
EachFault == Faults(1, 1, 1)

=============================================================================
