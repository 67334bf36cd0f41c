--------------------------- MODULE HostLifecycle ---------------------------
(***************************************************************************)
(* The life of guests' disks: the openclaw-hostctl commands of operators   *)
(* (hostctl.py, disk.py), each a sequence of steps with no lock, against   *)
(* the openclaw-vm@ units, which systemd restarts by itself.               *)
(*                                                                         *)
(* A disk image is its data (a number: 0 in the base image, a new one each *)
(* time the guest writes) and a state: whole, damaged (cut short, written  *)
(* by two parties, copied while written, or emptied), or still being       *)
(* copied by an operator.                                                  *)
(*                                                                         *)
(* A copy that cp has finished is taken to be on the disk: disk.py has no  *)
(* fsync, and what the kernel had still to write when the power fails is   *)
(* not modelled.                                                           *)
(***************************************************************************)
EXTENDS Naturals, Sequences

CONSTANTS
  Guests,       \* user ids
  Operators,    \* openclaw-hostctl processes
  Commands,     \* the commands they use
  Manifests,    \* the manifests they give: "none", "plain", "listed", "bad"
  Snapshots,    \* the snapshot names timestamps and labels can give
  Addresses,    \* the guest addresses, as numbers
  MaxWrites,    \* bound on the guests' writes
  MaxFaults,    \* bounds on the faults of each kind
  Absent, Empty, None

Locations == Snapshots \cup {"disk"}

\* A command is killed, the host loses power, the disk is full, a VM process
\* fails, umount finds the mount busy, a step raises an exception.
FaultKinds == {"kill", "power", "disk", "vm", "umount", "error"}

Image == [data : Nat, state : {"whole", "damaged"} \cup Operators]

Whole(i) == i \in Image /\ i.state = "whole"

ASSUME HostAssumption ==
  /\ Addresses \subseteq Nat
  /\ Commands \subseteq
       {"provision", "activate", "snapshot", "restore", "start", "stop"}
  /\ Manifests \subseteq {"none", "plain", "listed", "bad"}
  /\ MaxWrites \in Nat
  /\ MaxFaults \in [FaultKinds -> Nat]
  /\ "disk" \notin Snapshots /\ None \notin Snapshots
  /\ Operators \cap {"whole", "damaged"} = {}
  /\ Absent \notin Image /\ Empty \notin Image /\ Absent # Empty
  /\ None \notin Nat /\ None \notin Guests

VARIABLES
  home,       \* the guests whose directory exists
  record,     \* the address in vm.json, None when there is no record
  image,      \* rootfs.ext4 and the snapshots of each guest
  manifest,   \* the stored manifest
  directory,  \* the address in the guest's entry of directory.json
  mounts,     \* what is mounted on the guest's mount point, the top one last
  unit,       \* the state of openclaw-vm@<guest>
  vm,         \* the image firecracker has open
  tap,        \* the guests whose tap device exists
  pc,         \* what each operator's command does next
  work,       \* its arguments and local variables
  written,    \* how many writes guests have made
  faults      \* how many faults of each kind there were

files == <<home, record, image, manifest, directory>>
units == <<unit, vm, tap>>
bounds == <<written, faults>>
vars == <<files, mounts, units, pc, work, bounds>>

NoWork ==
  [guest |-> None, cmd |-> None, manifest |-> "none", restart |-> FALSE,
   snap |-> None, into |-> None, address |-> None,
   entries |-> [g \in Guests |-> None], failed |-> FALSE]

Init ==
  /\ home = {} /\ tap = {}
  /\ record = [g \in Guests |-> None]
  /\ image = [gl \in Guests \X Locations |-> Absent]
  /\ manifest = [g \in Guests |-> "none"]
  /\ directory = [g \in Guests |-> None]
  /\ mounts = [g \in Guests |-> << >>]
  /\ unit = [g \in Guests |-> "inactive"]
  /\ vm = [g \in Guests |-> "none"]
  /\ pc = [p \in Operators |-> "idle"]
  /\ work = [p \in Operators |-> NoWork]
  /\ written = 0
  /\ faults = [k \in FaultKinds |-> 0]

Goto(p, l, w) == pc' = [pc EXCEPT ![p] = l] /\ work' = [work EXCEPT ![p] = w]

Continue(p, l) == pc' = [pc EXCEPT ![p] = l] /\ UNCHANGED work

\* The command returns, or an exception ends it.
Finish(p) == Goto(p, "idle", NoWork)

Fault(k) ==
  /\ faults[k] < MaxFaults[k]
  /\ faults' = [faults EXCEPT ![k] = @ + 1]

Put(g, l, i) == image' = [image EXCEPT ![<<g, l>>] = i]

\* A file that is deleted stays what it is for those who have it open.
Orphan(g) ==
  /\ vm' = [vm EXCEPT ![g] = IF @ = "disk" THEN "orphan" ELSE @]
  /\ mounts' = [mounts EXCEPT ![g] = [i \in DOMAIN @ |-> "orphan"]]

-----------------------------------------------------------------------------
(* The unit of a guest. *)

\* is-active answers "active": a unit waiting to be restarted is not running.
IsRunning(g) == unit[g] = "active"

\* ExecStopPost runs `runtime cleanup`, which needs the record.
VmEnds(g, next) ==
  /\ unit' = [unit EXCEPT ![g] = next]
  /\ vm' = [vm EXCEPT ![g] = "none"]
  /\ tap' = IF record[g] = None THEN tap ELSE tap \ {g}

StartUnit(g) ==
  /\ unit' = [unit EXCEPT ![g] = IF @ = "active" THEN @ ELSE "starting"]
  /\ UNCHANGED <<vm, tap>>

\* Mutant: a start that fails is not tried again (Restart=no).
MutBoot(g) ==
  /\ unit[g] = "starting"
  /\ IF record[g] # None /\ image[<<g, "disk">>] # Absent
       THEN /\ unit' = [unit EXCEPT ![g] = "active"]
            /\ vm' = [vm EXCEPT ![g] = "disk"]
            /\ tap' = tap \cup {g}
       ELSE VmEnds(g, "failed")
  /\ UNCHANGED <<files, mounts, pc, work, bounds>>

\* `runtime prepare` makes the tap; firecracker opens the disk.  Without a
\* record or a disk the start fails and systemd tries again later.
Boot(g) ==
  /\ unit[g] = "starting"
  /\ IF record[g] # None /\ image[<<g, "disk">>] # Absent
       THEN /\ unit' = [unit EXCEPT ![g] = "active"]
            /\ vm' = [vm EXCEPT ![g] = "disk"]
            /\ tap' = tap \cup {g}
       ELSE VmEnds(g, "auto-restart")
  /\ UNCHANGED <<files, mounts, pc, work, bounds>>

\* Restart=on-failure, RestartSec=5.
Restart(g) ==
  /\ unit[g] = "auto-restart"
  /\ unit' = [unit EXCEPT ![g] = "starting"]
  /\ UNCHANGED <<files, mounts, vm, tap, pc, work, bounds>>

VmFails(g) ==
  /\ unit[g] = "active" /\ Fault("vm")
  /\ VmEnds(g, "auto-restart")
  /\ UNCHANGED <<files, mounts, pc, work, written>>

\* The guest powers off or reboots: firecracker exits with success.
VmExits(g) ==
  /\ unit[g] = "active"
  /\ VmEnds(g, "inactive")
  /\ UNCHANGED <<files, mounts, pc, work, bounds>>

\* A disk that is mounted on the host too ends up inconsistent.
VmWrites(g) ==
  /\ vm[g] = "disk" /\ written < MaxWrites
  /\ written' = written + 1
  /\ Put(g, "disk", [data |-> written + 1,
                     state |-> IF mounts[g] = << >> THEN image[<<g, "disk">>].state
                                                    ELSE "damaged"])
  /\ UNCHANGED <<home, record, manifest, directory, mounts, units, pc, work, faults>>

-----------------------------------------------------------------------------
(* Copying an image: cp takes its time. *)

Base == [data |-> 0, state |-> "whole"]

\* What each copying step reads and what it writes.
SourceOf(p) ==
  CASE pc[p] = "cloning" -> Base
    [] pc[p] = "snapshotting" -> image[<<work[p].guest, "disk">>]
    [] pc[p] = "replacing" -> image[<<work[p].guest, work[p].snap>>]

TargetOf(p) == IF pc[p] = "snapshotting" THEN work[p].into ELSE "disk"

Copying(p) == pc[p] \in {"cloning", "snapshotting", "replacing"}

\* Is the target still the file this command created?
OwnsTarget(p) ==
  LET target == image[<<work[p].guest, TargetOf(p)>>] IN
  target \in Image /\ target.state = p

\* The copy is good if its source was, and nobody wrote to either meanwhile.
CopyEnds(p, ok) ==
  LET g == work[p].guest
      source == SourceOf(p)
      copy == image[<<g, TargetOf(p)>>]
      good == source = Absent \/ (source.state = "whole" /\ source.data = copy.data)
  IN IF OwnsTarget(p)
       THEN Put(g, TargetOf(p), [data |-> copy.data,
                                 state |-> IF ok /\ good THEN "whole" ELSE "damaged"])
       ELSE UNCHANGED image

FinishCopy(p) ==
  /\ Copying(p)
  /\ CopyEnds(p, TRUE)
  /\ \/ pc[p] = "cloning" /\ Continue(p, "manifest")
     \/ pc[p] = "snapshotting" /\ work[p].cmd = "restore" /\ Continue(p, "unlink")
     \/ pc[p] = "snapshotting" /\ work[p].cmd # "restore" /\ Finish(p)
     \/ pc[p] = "replacing" /\ Finish(p)
  /\ UNCHANGED <<home, record, manifest, directory, mounts, units, bounds>>

\* The disk fills up: cp leaves a short file behind and the command fails.
CopyFails(p) ==
  /\ Copying(p) /\ Fault("disk")
  /\ CopyEnds(p, FALSE)
  /\ Finish(p)
  /\ UNCHANGED <<home, record, manifest, directory, mounts, units, written>>

-----------------------------------------------------------------------------
(* provision *)

\* Mutant: only a guest that runs is taken for an existing one.
MutProvision(p) ==
  /\ pc[p] = "idle" /\ "provision" \in Commands
  /\ \E g \in Guests, m \in Manifests :
       LET w == [NoWork EXCEPT !.cmd = "provision", !.guest = g, !.manifest = m] IN
       \/ g \notin home /\ Goto(p, "create", w)
       \/ g \in home /\ ~IsRunning(g) /\ Goto(p, "rmtree", w)
  /\ UNCHANGED <<files, mounts, units, bounds>>

Provision(p) ==
  /\ pc[p] = "idle" /\ "provision" \in Commands
  /\ \E g \in Guests, m \in Manifests :
       LET w == [NoWork EXCEPT !.cmd = "provision", !.guest = g, !.manifest = m] IN
       \/ g \notin home /\ Goto(p, "create", w)
       \/ g \in home /\ record[g] = None /\ ~IsRunning(g) /\ Goto(p, "rmtree", w)
  /\ UNCHANGED <<files, mounts, units, bounds>>

\* What an earlier attempt left is removed, whatever it is by now.
RemoveHome(p) ==
  LET g == work[p].guest IN
  /\ pc[p] = "rmtree"
  /\ \/ /\ g \in home
        /\ home' = home \ {g}
        /\ record' = [record EXCEPT ![g] = None]
        /\ manifest' = [manifest EXCEPT ![g] = "none"]
        /\ image' = [gl \in Guests \X Locations |->
                       IF gl[1] = g THEN Absent ELSE image[gl]]
        /\ Orphan(g)
        /\ Continue(p, "create")
     \/ /\ g \notin home /\ Finish(p)
        /\ UNCHANGED <<home, record, manifest, image, vm, mounts>>
  /\ UNCHANGED <<directory, unit, tap, bounds>>

\* Mutant: only the addresses of guests that run count as used.
MutFree == Addresses \ {record[g] : g \in {h \in Guests : IsRunning(h)}}

Free == Addresses \ {record[g] : g \in Guests}

\* The lowest free address, the directory, and the start of the clone.
Create(p) ==
  LET g == work[p].guest IN
  /\ pc[p] = "create"
  /\ \/ /\ g \notin home
        /\ home' = home \cup {g}
        /\ Put(g, "disk", [data |-> 0, state |-> p])
        /\ \E a \in Free :
             /\ \A b \in Free : a <= b
             /\ Goto(p, "cloning", [work[p] EXCEPT !.address = a])
     \/ /\ Free = {} \/ g \in home
        /\ Finish(p)
        /\ UNCHANGED <<home, image>>
  /\ UNCHANGED <<record, manifest, directory, mounts, units, bounds>>

SaveRecord(p) ==
  LET g == work[p].guest IN
  /\ pc[p] = "save"
  /\ \/ /\ g \in home
        /\ record' = [record EXCEPT ![g] = work[p].address]
        /\ Continue(p, "snapshot")
     \/ g \notin home /\ Finish(p) /\ UNCHANGED record
  /\ UNCHANGED <<home, image, manifest, directory, mounts, units, bounds>>

-----------------------------------------------------------------------------
(* activate *)

Activate(p) ==
  /\ pc[p] = "idle" /\ "activate" \in Commands
  /\ \E g \in Guests, m \in Manifests, force, restart \in BOOLEAN :
       LET w == [NoWork EXCEPT !.cmd = "activate", !.guest = g, !.manifest = m,
                               !.restart = restart \/ IsRunning(g)] IN
       /\ record[g] # None
       /\ \/ ~IsRunning(g) /\ Goto(p, "manifest", w)
          \/ IsRunning(g) /\ force /\ Goto(p, "stop", w)
  /\ UNCHANGED <<files, mounts, units, bounds>>

\* The manifest given replaces the stored one before it is validated.
StoreManifest(p) ==
  LET g == work[p].guest
      given == work[p].manifest
      m == IF given = "none" THEN manifest[g] ELSE given
  IN /\ pc[p] = "manifest"
     /\ manifest' = [manifest EXCEPT ![g] = m]
     /\ home' = IF given = "none" THEN home ELSE home \cup {g}
     /\ LET w == [work[p] EXCEPT !.manifest = m] IN
        IF m = "bad" \/ (m = "none" /\ work[p].cmd = "activate") THEN Finish(p)
        ELSE IF m = "listed" /\ work[p].cmd = "provision" THEN Goto(p, "load", w)
        ELSE Goto(p, "mount", w)
     /\ UNCHANGED <<record, image, directory, mounts, units, bounds>>

\* directory.json is read, the entry is put in, the whole file is written.
LoadDirectory(p) ==
  /\ pc[p] = "load"
  /\ Goto(p, "publish", [work[p] EXCEPT !.entries = directory])
  /\ UNCHANGED <<files, mounts, units, bounds>>

\* Mutant: activation publishes an address it never loaded.
MutAddressOf(p) == work[p].address

AddressOf(p) ==
  IF work[p].cmd = "provision" THEN work[p].address ELSE record[work[p].guest]

PublishEntry(p) ==
  /\ pc[p] = "publish"
  /\ directory' = [work[p].entries EXCEPT ![work[p].guest] = AddressOf(p)]
  /\ Continue(p, IF work[p].cmd = "provision" THEN "mount" ELSE "unmount")
  /\ UNCHANGED <<home, record, image, manifest, mounts, units, bounds>>

Top(g) == mounts[g][Len(mounts[g])]

\* An image that is not whole may not mount; where something is mounted
\* already, mount stacks or refuses.  When mount fails, the mount point is
\* cleared all the same.
Mount(p) ==
  LET g == work[p].guest IN
  /\ pc[p] = "mount"
  /\ \/ /\ image[<<g, "disk">>] # Absent
        /\ mounts' = [mounts EXCEPT ![g] = Append(@, "disk")]
        /\ Continue(p, "apply")
     \/ /\ ~Whole(image[<<g, "disk">>]) \/ mounts[g] # << >>
        /\ Goto(p, "clear", [work[p] EXCEPT !.failed = TRUE])
        /\ UNCHANGED mounts
  /\ UNCHANGED <<files, units, bounds>>

\* The guest's files are written, to what is mounted on top.  On an image that
\* is not whole this may raise (no passwd entry, a read error); on any it may
\* raise as the steps after it do (Raise).
Apply(p) ==
  LET g == work[p].guest
      onDisk == mounts[g] # << >> /\ Top(g) = "disk"
  IN /\ pc[p] = "apply"
     /\ \/ Continue(p, IF work[p].cmd = "activate" /\ work[p].manifest = "listed"
                         THEN "load" ELSE "unmount")
        \/ /\ ~onDisk \/ ~Whole(image[<<g, "disk">>])
           /\ Goto(p, "unmount", [work[p] EXCEPT !.failed = TRUE])
     /\ IF onDisk /\ vm[g] = "disk"
          THEN Put(g, "disk", [data |-> image[<<g, "disk">>].data, state |-> "damaged"])
          ELSE UNCHANGED image
     /\ UNCHANGED <<home, record, manifest, directory, mounts, units, bounds>>

\* A step with the manifest raises: a file of the guest or directory.json cannot
\* be read or written, or the broker's key is not refreshed in time.  A disk that
\* is mounted by now is unmounted, and the command ends after that.
Raise(p) ==
  /\ pc[p] \in {"load", "publish", "apply", "unmount"} /\ Fault("error")
  /\ IF work[p].cmd = "provision" /\ pc[p] \in {"load", "publish"}
       THEN Finish(p)
       ELSE Goto(p, "unmount", [work[p] EXCEPT !.failed = TRUE])
  /\ UNCHANGED <<files, mounts, units, written>>

\* A failing umount is not noticed.
Unmount(p) ==
  LET g == work[p].guest IN
  /\ pc[p] = "unmount"
  /\ \/ /\ mounts' = [mounts EXCEPT ![g] =
                        IF @ = << >> THEN @ ELSE SubSeq(@, 1, Len(@) - 1)]
        /\ UNCHANGED faults
     \/ mounts[g] # << >> /\ Fault("umount") /\ UNCHANGED mounts
  /\ Continue(p, "clear")
  /\ UNCHANGED <<files, units, written>>

\* Mutant: an activation ends when the mount point is cleared.
MutClear(p) ==
  LET g == work[p].guest IN
  /\ pc[p] = "clear"
  /\ IF mounts[g] # << >> /\ Top(g) = "disk"
       THEN Put(g, "disk", [data |-> image[<<g, "disk">>].data, state |-> "damaged"])
       ELSE UNCHANGED image
  /\ IF ~work[p].failed /\ work[p].cmd = "provision" THEN Continue(p, "save") ELSE Finish(p)
  /\ UNCHANGED <<home, record, manifest, directory, mounts, units, bounds>>

\* rmtree on the mount point deletes what is still mounted there.
Clear(p) ==
  LET g == work[p].guest IN
  /\ pc[p] = "clear"
  /\ IF mounts[g] # << >> /\ Top(g) = "disk"
       THEN Put(g, "disk", [data |-> image[<<g, "disk">>].data, state |-> "damaged"])
       ELSE UNCHANGED image
  /\ \/ work[p].failed /\ Finish(p)
     \/ ~work[p].failed /\ work[p].cmd = "provision" /\ Continue(p, "save")
     \/ /\ ~work[p].failed /\ work[p].cmd = "activate"
        /\ IF work[p].restart THEN Continue(p, "start") ELSE Finish(p)
  /\ UNCHANGED <<home, record, manifest, directory, mounts, units, bounds>>

-----------------------------------------------------------------------------
(* start and stop, as commands and as steps of the others *)

\* `systemctl start` returns when the unit started or failed to.
Start(p) ==
  /\ \/ /\ pc[p] = "idle" /\ "start" \in Commands
        /\ \E g \in Guests :
             /\ record[g] # None /\ StartUnit(g)
             /\ Goto(p, "starting", [NoWork EXCEPT !.cmd = "start", !.guest = g])
     \/ /\ pc[p] = "start" /\ record[work[p].guest] # None
        /\ StartUnit(work[p].guest)
        /\ Continue(p, "starting")
     \/ /\ pc[p] = "start" /\ record[work[p].guest] = None
        /\ Finish(p) /\ UNCHANGED units
  /\ UNCHANGED <<files, mounts, bounds>>

Started(p) ==
  /\ pc[p] = "starting" /\ unit[work[p].guest] # "starting"
  /\ Finish(p)
  /\ UNCHANGED <<files, mounts, units, bounds>>

Stop(p) ==
  /\ \/ /\ pc[p] = "idle" /\ "stop" \in Commands
        /\ \E g \in Guests : record[g] # None /\ VmEnds(g, "inactive")
        /\ Finish(p)
     \/ /\ pc[p] = "stop" /\ record[work[p].guest] # None
        /\ VmEnds(work[p].guest, "inactive")
        /\ Continue(p, IF work[p].cmd = "activate" THEN "manifest" ELSE "snapshot")
     \/ /\ pc[p] = "stop" /\ record[work[p].guest] = None
        /\ Finish(p) /\ UNCHANGED units
  /\ UNCHANGED <<files, mounts, bounds>>

-----------------------------------------------------------------------------
(* snapshot and restore *)

SnapshotCreate(p) ==
  /\ pc[p] = "idle" /\ "snapshot" \in Commands
  /\ \E g \in Guests :
       /\ record[g] # None
       /\ Goto(p, "snapshot", [NoWork EXCEPT !.cmd = "snapshot", !.guest = g])
  /\ UNCHANGED <<files, mounts, units, bounds>>

Restore(p) ==
  /\ pc[p] = "idle" /\ "restore" \in Commands
  /\ \E g \in Guests, s \in Snapshots, force \in BOOLEAN :
       LET w == [NoWork EXCEPT !.cmd = "restore", !.guest = g, !.snap = s] IN
       /\ record[g] # None
       /\ \/ ~IsRunning(g) /\ Goto(p, "snapshot", w)
          \/ IsRunning(g) /\ force /\ Goto(p, "stop", w)
  /\ UNCHANGED <<files, mounts, units, bounds>>

\* Mutant: nobody asks whether the VM runs.
MutMaySnapshot(p) ==
  LET w == work[p] IN
  /\ record[w.guest] # None
  /\ w.cmd = "restore" => image[<<w.guest, w.snap>>] \in Image

\* May the snapshot (of a restore: the pre-restore one) be taken?
MaySnapshot(p) ==
  LET w == work[p] IN
  /\ record[w.guest] # None /\ ~IsRunning(w.guest)
  /\ w.cmd = "restore" => image[<<w.guest, w.snap>>] \in Image

\* Mutant: mkdir with exist_ok, so that a second snapshot replaces the first.
MutTakeSnapshot(p) ==
  LET g == work[p].guest IN
  /\ pc[p] = "snapshot"
  /\ \/ /\ MaySnapshot(p)
        /\ \E s \in Snapshots :
             IF image[<<g, "disk">>] = Absent
               THEN Put(g, s, Empty) /\ Finish(p)
               ELSE /\ Put(g, s, [data |-> image[<<g, "disk">>].data, state |-> p])
                    /\ Goto(p, "snapshotting", [work[p] EXCEPT !.into = s])
     \/ ~MaySnapshot(p) /\ Finish(p) /\ UNCHANGED image
  /\ UNCHANGED <<home, record, manifest, directory, mounts, units, bounds>>

\* The name has the second in it: one taken in the same second is refused.
TakeSnapshot(p) ==
  LET g == work[p].guest IN
  /\ pc[p] = "snapshot"
  /\ \/ /\ MaySnapshot(p)
        /\ \E s \in Snapshots :
             /\ image[<<g, s>>] = Absent
             /\ IF image[<<g, "disk">>] = Absent
                  THEN Put(g, s, Empty) /\ Finish(p)
                  ELSE /\ Put(g, s, [data |-> image[<<g, "disk">>].data, state |-> p])
                       /\ Goto(p, "snapshotting", [work[p] EXCEPT !.into = s])
     \/ /\ ~MaySnapshot(p) \/ \E s \in Snapshots : image[<<g, s>>] # Absent
        /\ Finish(p) /\ UNCHANGED image
  /\ UNCHANGED <<home, record, manifest, directory, mounts, units, bounds>>

UnlinkDisk(p) ==
  LET g == work[p].guest IN
  /\ pc[p] = "unlink"
  /\ \/ /\ image[<<g, "disk">>] # Absent
        /\ Put(g, "disk", Absent)
        /\ Orphan(g)
        /\ Continue(p, "replace")
     \/ /\ image[<<g, "disk">>] = Absent
        /\ Finish(p) /\ UNCHANGED <<image, vm, mounts>>
  /\ UNCHANGED <<home, record, manifest, directory, unit, tap, bounds>>

ReplaceDisk(p) ==
  LET g == work[p].guest
      snapshot == image[<<g, work[p].snap>>]
  IN /\ pc[p] = "replace"
     /\ \/ /\ snapshot \in Image
           /\ Put(g, "disk", [data |-> snapshot.data, state |-> p])
           /\ Continue(p, "replacing")
        \/ snapshot \notin Image /\ Finish(p) /\ UNCHANGED image
     /\ UNCHANGED <<home, record, manifest, directory, mounts, units, bounds>>

-----------------------------------------------------------------------------
(* Faults *)

\* SIGKILL: what the command mounted stays mounted.
Kill(p) ==
  /\ pc[p] # "idle" /\ Fault("kill")
  /\ Finish(p)
  /\ UNCHANGED <<files, mounts, units, written>>

PowerFailure ==
  /\ Fault("power")
  /\ mounts' = [g \in Guests |-> << >>]
  /\ unit' = [g \in Guests |-> "inactive"]
  /\ vm' = [g \in Guests |-> "none"]
  /\ tap' = {}
  /\ pc' = [p \in Operators |-> "idle"]
  /\ work' = [p \in Operators |-> NoWork]
  /\ UNCHANGED <<files, written>>

-----------------------------------------------------------------------------
Proceed(p) ==
  \/ FinishCopy(p) \/ RemoveHome(p) \/ Create(p) \/ SaveRecord(p)
  \/ StoreManifest(p) \/ LoadDirectory(p) \/ PublishEntry(p)
  \/ Mount(p) \/ Apply(p) \/ Unmount(p) \/ Clear(p)
  \/ (pc[p] # "idle" /\ Start(p)) \/ Started(p) \/ (pc[p] # "idle" /\ Stop(p))
  \/ TakeSnapshot(p) \/ UnlinkDisk(p) \/ ReplaceDisk(p)

Invoke(p) ==
  \/ Provision(p) \/ Activate(p) \/ SnapshotCreate(p) \/ Restore(p)
  \/ (pc[p] = "idle" /\ Start(p)) \/ (pc[p] = "idle" /\ Stop(p))

Systemd(g) ==
  \/ Boot(g) \/ Restart(g)

Guest(g) == VmFails(g) \/ VmExits(g) \/ VmWrites(g)

Next ==
  \/ \E p \in Operators : Invoke(p) \/ Proceed(p) \/ CopyFails(p) \/ Raise(p) \/ Kill(p)
  \/ \E g \in Guests : Systemd(g) \/ Guest(g)
  \/ PowerFailure

\* A command that runs goes on; systemd does what it is told.
Fairness ==
  /\ \A p \in Operators : WF_vars(Proceed(p))
  /\ \A g \in Guests : WF_vars(Systemd(g))

Spec == Init /\ [][Next]_vars

LiveSpec == Spec /\ Fairness

-----------------------------------------------------------------------------
(* Properties *)

Labels ==
  {"idle", "rmtree", "create", "cloning", "manifest", "load", "publish", "mount",
   "apply", "unmount", "clear", "save", "stop", "start", "starting", "snapshot",
   "snapshotting", "unlink", "replace", "replacing"}

\* The type invariant.
TypeOK ==
  /\ home \subseteq Guests /\ tap \subseteq Guests
  /\ record \in [Guests -> Addresses \cup {None}]
  /\ image \in [Guests \X Locations -> Image \cup {Absent, Empty}]
  /\ \A g \in Guests : image[<<g, "disk">>] # Empty
  /\ manifest \in [Guests -> {"none", "plain", "listed", "bad"}]
  /\ directory \in [Guests -> Addresses \cup {None}]
  /\ mounts \in [Guests -> Seq({"disk", "orphan"})]
  /\ unit \in [Guests -> {"inactive", "starting", "active", "auto-restart"}]
  /\ vm \in [Guests -> {"none", "disk", "orphan"}]
  /\ pc \in [Operators -> Labels]
  /\ work \in [Operators ->
       [guest : Guests \cup {None}, cmd : Commands \cup {None},
        manifest : {"none", "plain", "listed", "bad"}, restart : BOOLEAN,
        snap : Snapshots \cup {None}, into : Snapshots \cup {None},
        address : Addresses \cup {None},
        entries : [Guests -> Addresses \cup {None}], failed : BOOLEAN]]
  /\ written \in 0..MaxWrites
  /\ faults \in [FaultKinds -> Nat]

CopiesDisk(p, g) == Copying(p) /\ work[p].guest = g

\* The guest's disk is used by one party at a time: the running VM, a mount on
\* the host, or a copy of it (is_running, the steps' order and the unmounting
\* keep them apart).  A VM that fails by itself is not covered: see
\* SnapshotOfStoppedDisk.
DiskHasOneUser ==
  faults["vm"] = 0 =>
  \A g \in Guests :
    /\ Len(mounts[g]) <= 1
    /\ vm[g] = "disk" => mounts[g] = << >>
    /\ \A p \in Operators :
         CopiesDisk(p, g) => vm[g] # "disk" /\ mounts[g] = << >>
    /\ \A p, q \in Operators : CopiesDisk(p, g) /\ CopiesDisk(q, g) => p = q

\* A snapshot is copied while its guest is stopped.
SnapshotOfStoppedDisk ==
  \A p \in Operators : pc[p] = "snapshotting" => vm[work[p].guest] # "disk"

\* A whole snapshot of a provisioned guest is never written again: a name that
\* comes up a second time is refused (mkdir without exist_ok), and a restore
\* only reads it.
WholeSnapshotIsKept ==
  [][\A g \in Guests, s \in Snapshots :
       Whole(image[<<g, s>>]) => image'[<<g, s>>] = image[<<g, s>>] \/ g \notin home']_vars

\* No two guests have one address.
DistinctAddresses ==
  \A g, h \in Guests : record[g] = record[h] /\ record[g] # None => g = h

\* The coordinator's directory has the address of the guest's record.
EntryMatchesRecord ==
  \A g \in Guests : record[g] # None => directory[g] = record[g]

\* Provisioning never replaces a guest that exists.
ProvisionedIsKept ==
  [][\A g \in Guests : record[g] # None => record'[g] = record[g]]_vars

\* A guest whose VM failed runs again, even when the operator is replacing its
\* disk meanwhile, unless it is stopped.  A restore that is cut short after the
\* unlink leaves no disk to start from.
FailedGuestComesBack ==
  [](faults["kill"] + faults["power"] = 0) =>
  \A g \in Guests : unit[g] = "auto-restart" ~> unit[g] \in {"active", "inactive"}

GoodManifest(p) ==
  LET given == work[p].manifest IN
  (IF given = "none" THEN manifest[work[p].guest] ELSE given) \in {"plain", "listed"}

\* An activation that stopped a guest whose disk is whole starts it again, when
\* the manifest is good and nothing fails (a step that raises leaves it
\* stopped).
ActivatedGuestRuns ==
  [](\A k \in FaultKinds : faults[k] = 0) =>
  \A p \in Operators, g \in Guests :
    /\ pc[p] = "manifest" /\ work[p].cmd = "activate" /\ work[p].restart
    /\ work[p].guest = g /\ GoodManifest(p) /\ Whole(image[<<g, "disk">>])
    ~> unit[g] = "active"

\* The steps about one guest are those of GuestDisk, until a VM fails by itself.
Disk(g) == INSTANCE GuestDisk WITH
  Lost <- None,
  owned <- record[g] # None,
  running <- vm[g] # "none",
  data <- IF Whole(image[<<g, "disk">>]) THEN image[<<g, "disk">>].data ELSE None,
  saved <- {image[<<g, s>>].data : s \in {x \in Snapshots : Whole(image[<<g, x>>])}}

ImplementsGuestDisk ==
  /\ \A g \in Guests : Disk(g)!Init
  /\ [][faults'["vm"] = 0 =>
          \A g \in Guests : [Disk(g)!Next]_(Disk(g)!diskVars)]_vars

=============================================================================
