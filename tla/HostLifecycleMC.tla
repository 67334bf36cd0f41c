-------------------------- MODULE HostLifecycleMC --------------------------
(***************************************************************************)
(* Small instances of HostLifecycle.                                       *)
(***************************************************************************)
EXTENDS HostLifecycle, TLC

SnapshotSymmetry == Permutations(Snapshots)

\* Fault bounds.
Some(kinds) == [k \in FaultKinds |-> IF k \in kinds THEN 1 ELSE 0]

PowerDiskVmError == Some({"power", "disk", "vm", "error"})
KillPowerUmountError == Some({"kill", "power", "umount", "error"})
OneVm == Some({"vm"})

=============================================================================
