--------------------------- MODULE GuestConfigMC ---------------------------
(***************************************************************************)
(* Small instances of GuestConfig.                                         *)
(***************************************************************************)
EXTENDS GuestConfig, TLC

NoProfiles == [p \in Profiles |-> None]

\* Two employees' setups that have nothing in common, the second in the older
\* form; one that moves a profile to another key, has both Slack sections and a
\* null shared_access; one that says nothing; and two that are not valid.
SomeManifests == {
  [env |-> {"k1"}, profiles |-> [NoProfiles EXCEPT !["p1"] = "k1"],
   slack |-> [token |-> "t1", allow |-> "l1"], legacy |-> None,
   model |-> "d1", access |-> "opt_in", owner |-> TRUE],
  [env |-> {"k2"}, profiles |-> [NoProfiles EXCEPT !["p2"] = "k2"],
   slack |-> None, legacy |-> [token |-> "t2", allow |-> None],
   model |-> "d2", access |-> "opt_out", owner |-> FALSE],
  [env |-> {"k1", "k2"}, profiles |-> [NoProfiles EXCEPT !["p1"] = "k2"],
   slack |-> [token |-> "t2", allow |-> "l2"], legacy |-> [token |-> "t1", allow |-> "l1"],
   model |-> "d1", access |-> None, owner |-> TRUE],
  [env |-> {}, profiles |-> NoProfiles, slack |-> None, legacy |-> None,
   model |-> None, access |-> None, owner |-> FALSE],
  [env |-> {"k2"}, profiles |-> [NoProfiles EXCEPT !["p1"] = "k1"],
   slack |-> None, legacy |-> None, model |-> "d1", access |-> "opt_out", owner |-> TRUE],
  [env |-> {"k1"}, profiles |-> NoProfiles, slack |-> [token |-> None, allow |-> "l1"],
   legacy |-> None, model |-> "d1", access |-> "opt_in", owner |-> FALSE]}

OneEach == [k \in FaultKinds |-> 1]

=============================================================================
