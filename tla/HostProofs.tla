----------------------------- MODULE HostProofs -----------------------------
(***************************************************************************)
(* Guests' disks keep their types and snapshots that were finished stay    *)
(* what they are, for any guests, operators, commands and faults.  With    *)
(* one operator, no address is given twice, no guest that exists is        *)
(* replaced, the directory has the address of every record and, when no    *)
(* command is killed and umount succeeds, no disk has two users and every  *)
(* step about a guest is one of GuestDisk.                                 *)
(***************************************************************************)
EXTENDS HostLifecycle, TLAPS

WorkSet ==
  [guest : Guests \cup {None}, cmd : Commands \cup {None},
   manifest : {"none", "plain", "listed", "bad"}, restart : BOOLEAN,
   snap : Snapshots \cup {None}, into : Snapshots \cup {None},
   address : Addresses \cup {None},
   entries : [Guests -> Addresses \cup {None}], failed : BOOLEAN]

\* The labels at which an activation's disk may be mounted.
Mounting == {"apply", "load", "publish", "unmount"}

\* What a command's local variables are when it is about to do l.
Fits(l, w) ==
  /\ l # "idle" => w.guest \in Guests
  /\ l = "snapshotting" => w.into \in Snapshots

Running ==
  /\ pc \in [Operators -> Labels] /\ work \in [Operators -> WorkSet]
  /\ \A p \in Operators : Fits(pc[p], work[p])

Images ==
  /\ image \in [Guests \X Locations -> Image \cup {Absent, Empty}]
  /\ \A g \in Guests : image[<<g, "disk">>] # Empty

\* The image that a VM or a mount has open by its name is there.
Opened ==
  /\ vm \in [Guests -> {"none", "disk", "orphan"}]
  /\ mounts \in [Guests -> Seq({"disk", "orphan"})]
  /\ \A g \in Guests :
       vm[g] = "disk" \/ (\E i \in DOMAIN mounts[g] : mounts[g][i] = "disk")
         => image[<<g, "disk">>] \in Image

Recorded ==
  /\ home \subseteq Guests
  /\ record \in [Guests -> Addresses \cup {None}]
  /\ manifest \in [Guests -> {"none", "plain", "listed", "bad"}]
  /\ directory \in [Guests -> Addresses \cup {None}]

Counted ==
  /\ tap \subseteq Guests
  /\ unit \in [Guests -> {"inactive", "starting", "active", "auto-restart"}]
  /\ written \in 0 .. MaxWrites /\ faults \in [FaultKinds -> Nat]

Typed == Running /\ Images /\ Opened /\ Recorded /\ Counted

LEMMA TypedImplies == Typed => TypeOK
  BY DEF Typed, Running, Images, Opened, Recorded, Counted, TypeOK, WorkSet

LEMMA NoWorkTyped == NoWork \in WorkSet /\ Fits("idle", NoWork)
  BY DEF NoWork, WorkSet, Fits

LEMMA Names ==
  /\ "disk" \in Locations /\ "disk" \notin Snapshots /\ Snapshots \subseteq Locations
  /\ None \notin Guests /\ None \notin Snapshots /\ None \notin Addresses
  /\ Absent \notin Image /\ Empty \notin Image /\ Absent # Empty
  /\ \A p \in Operators : p \notin {"whole", "damaged"}
  BY HostAssumption DEF Locations

LEMMA ImageFields ==
  /\ \A i \in Image : i.data \in Nat
  /\ \A d \in Nat, s \in {"whole", "damaged"} \cup Operators : [data |-> d, state |-> s] \in Image
  BY DEF Image

LEMMA InitTyped == Init => Typed
<1> SUFFICES ASSUME Init PROVE Typed
  OBVIOUS
<1> USE DEF Init
<1>1. Running
  BY NoWorkTyped DEF Running, Labels
<1>2. Images
  BY Names DEF Images
<1>3. Opened
  BY DEF Opened
<1>4. Recorded
  BY DEF Recorded
<1>5. Counted
  BY HostAssumption DEF Counted, FaultKinds
<1> QED
  BY <1>1, <1>2, <1>3, <1>4, <1>5 DEF Typed

-----------------------------------------------------------------------------
(* Moves of a command *)

LEMMA GotoRuns ==
  ASSUME Running, NEW p \in Operators, NEW l \in Labels, NEW w \in WorkSet, Fits(l, w),
         Goto(p, l, w)
  PROVE  Running'
  BY DEF Running, Goto

LEMMA ContinueRuns ==
  ASSUME Running, NEW p \in Operators, NEW l \in Labels, Fits(l, work[p]), Continue(p, l)
  PROVE  Running'
  BY DEF Running, Continue

LEMMA FinishRuns ==
  ASSUME Running, NEW p \in Operators, Finish(p)
  PROVE  Running'
<1>1. "idle" \in Labels
  BY DEF Labels
<1> QED
  BY <1>1, NoWorkTyped, GotoRuns DEF Finish

LEMMA FaultCounted ==
  ASSUME Counted, NEW k \in FaultKinds, Fault(k)
  PROVE  faults' \in [FaultKinds -> Nat]
  BY DEF Counted, Fault

\* An image is put at a place where none was that is open, or in the place of one.
LEMMA PutTyped ==
  ASSUME Images, NEW g \in Guests, NEW l \in Locations, NEW i \in Image \cup {Absent, Empty},
         l = "disk" => i # Empty, Put(g, l, i)
  PROVE  /\ Images'
         /\ image'[<<g, l>>] = i
         /\ \A h \in Guests, k \in Locations : h # g \/ k # l => image'[<<h, k>>] = image[<<h, k>>]
<1>1. <<g, l>> \in Guests \X Locations
  OBVIOUS
<1>2. image' \in [Guests \X Locations -> Image \cup {Absent, Empty}]
  BY <1>1 DEF Put, Images
<1>3. image'[<<g, l>>] = i
  BY <1>1 DEF Put, Images
<1>4. ASSUME NEW h \in Guests, NEW k \in Locations, h # g \/ k # l
      PROVE  image'[<<h, k>>] = image[<<h, k>>]
  BY <1>4, <1>1 DEF Put, Images
<1>5. ASSUME NEW h \in Guests PROVE image'[<<h, "disk">>] # Empty
  BY <1>3, <1>4, Names DEF Images
<1> QED
  BY <1>2, <1>3, <1>4, <1>5 DEF Images


LEMMA OpenedStays ==
  ASSUME Opened, UNCHANGED <<vm, mounts>>,
         \A g \in Guests : image[<<g, "disk">>] \in Image => image'[<<g, "disk">>] \in Image
  PROVE  Opened'
  BY DEF Opened

LEMMA OrphansTyped ==
  ASSUME NEW s \in Seq({"disk", "orphan"})
  PROVE  [i \in DOMAIN s |-> "orphan"] \in Seq({"disk", "orphan"})
<1>1. DOMAIN s = 1 .. Len(s) /\ Len(s) \in Nat
  OBVIOUS
<1> QED
  BY <1>1

\* A file that is deleted is open by its name no longer.
LEMMA OrphanOpened ==
  ASSUME Opened, NEW g \in Guests, Orphan(g),
         \A h \in Guests : h # g => image'[<<h, "disk">>] = image[<<h, "disk">>]
  PROVE  Opened'
<1>1. vm' \in [Guests -> {"none", "disk", "orphan"}]
  BY DEF Opened, Orphan
<1>2. mounts' \in [Guests -> Seq({"disk", "orphan"})]
  BY OrphansTyped DEF Opened, Orphan
<1>3. ASSUME NEW h \in Guests,
             vm'[h] = "disk" \/ (\E i \in DOMAIN mounts'[h] : mounts'[h][i] = "disk")
      PROVE  image'[<<h, "disk">>] \in Image
  <2>1. vm'[g] # "disk"
    BY DEF Opened, Orphan
  <2>2. \A i \in DOMAIN mounts'[g] : mounts'[g][i] # "disk"
    BY DEF Opened, Orphan
  <2>3. h # g
    BY <1>3, <2>1, <2>2
  <2>4. vm'[h] = vm[h] /\ mounts'[h] = mounts[h]
    BY <2>3 DEF Opened, Orphan
  <2> QED
    BY <1>3, <2>3, <2>4 DEF Opened
<1> QED
  BY <1>1, <1>2, <1>3 DEF Opened

LEMMA MountsTyped ==
  ASSUME NEW s \in Seq({"disk", "orphan"})
  PROVE  /\ Append(s, "disk") \in Seq({"disk", "orphan"})
         /\ s # << >> => /\ SubSeq(s, 1, Len(s) - 1) \in Seq({"disk", "orphan"})
                         /\ \A i \in DOMAIN SubSeq(s, 1, Len(s) - 1) :
                              i \in DOMAIN s /\ SubSeq(s, 1, Len(s) - 1)[i] = s[i]
<1>1. Append(s, "disk") \in Seq({"disk", "orphan"})
  OBVIOUS
<1>2. ASSUME s # << >>
      PROVE  /\ SubSeq(s, 1, Len(s) - 1) \in Seq({"disk", "orphan"})
             /\ \A i \in DOMAIN SubSeq(s, 1, Len(s) - 1) :
                  i \in DOMAIN s /\ SubSeq(s, 1, Len(s) - 1)[i] = s[i]
  <2>1. Len(s) - 1 \in Nat /\ Len(s) - 1 <= Len(s)
    BY <1>2
  <2>2. \A i \in 1 .. Len(s) - 1 : s[i] \in {"disk", "orphan"}
    BY <2>1
  <2> QED
    BY <2>1, <2>2
<1> QED
  BY <1>1, <1>2


-----------------------------------------------------------------------------
(* Writing to images *)

Keeps(g, s) == Whole(image[<<g, s>>]) => image'[<<g, s>>] = image[<<g, s>>] \/ g \notin home'

DiskStays == \A g \in Guests : image[<<g, "disk">>] \in Image => image'[<<g, "disk">>] \in Image

AllKept == \A g \in Guests, s \in Snapshots : Keeps(g, s)

LEMMA UnchangedKept == UNCHANGED image => AllKept /\ DiskStays
  BY DEF AllKept, Keeps, DiskStays

\* What is put in the place of the disk, or of what is not a finished snapshot.
LEMMA PutKept ==
  ASSUME Images, NEW g \in Guests, NEW l \in Locations, NEW i \in Image \cup {Absent, Empty},
         l = "disk" => i # Empty, Put(g, l, i),
         l # "disk" => ~Whole(image[<<g, l>>])
  PROVE  /\ Images' /\ AllKept
         /\ i \in Image \/ l # "disk" => DiskStays
         /\ \A h \in Guests : h # g => image'[<<h, "disk">>] = image[<<h, "disk">>]
<1>1. /\ Images'
      /\ image'[<<g, l>>] = i
      /\ \A h \in Guests, k \in Locations : h # g \/ k # l => image'[<<h, k>>] = image[<<h, k>>]
  BY PutTyped
<1>2. AllKept
  BY <1>1, Names DEF AllKept, Keeps
<1>3. ASSUME i \in Image \/ l # "disk" PROVE DiskStays
  BY <1>1, <1>3, Names DEF DiskStays
<1> QED
  BY <1>1, <1>2, <1>3, Names

LEMMA TargetTyped ==
  ASSUME Running, NEW p \in Operators, Copying(p)
  PROVE  work[p].guest \in Guests /\ TargetOf(p) \in Locations
<1>1. Fits(pc[p], work[p])
  BY DEF Running
<1> QED
  BY <1>1, Names DEF Copying, TargetOf, Fits

LEMMA CopyEndsKept ==
  ASSUME Running, Images, NEW p \in Operators, Copying(p), NEW ok, CopyEnds(p, ok)
  PROVE  Images' /\ AllKept /\ DiskStays
<1> DEFINE g == work[p].guest
           l == TargetOf(p)
           d == image[<<g, l>>].data
<1>1. g \in Guests /\ l \in Locations
  BY TargetTyped
<1>2. CASE ~OwnsTarget(p)
  BY <1>2, UnchangedKept DEF CopyEnds, Images
<1>3. CASE OwnsTarget(p)
  <2>1. image[<<g, l>>] \in Image /\ image[<<g, l>>].state = p
    BY <1>3 DEF OwnsTarget
  <2>2. d \in Nat
    BY <2>1, ImageFields
  <2>3. ~Whole(image[<<g, l>>])
    BY <2>1, Names DEF Whole
  <2>4. \/ Put(g, l, [data |-> d, state |-> "whole"])
        \/ Put(g, l, [data |-> d, state |-> "damaged"])
    BY <1>3 DEF CopyEnds
  <2>5. /\ [data |-> d, state |-> "whole"] \in Image
        /\ [data |-> d, state |-> "damaged"] \in Image
    BY <2>2, ImageFields
  <2> HIDE DEF g, l, d
  <2>6. CASE Put(g, l, [data |-> d, state |-> "whole"])
    BY <1>1, <2>3, <2>5, <2>6, PutKept, Names
  <2>7. CASE Put(g, l, [data |-> d, state |-> "damaged"])
    BY <1>1, <2>3, <2>5, <2>7, PutKept, Names
  <2> QED
    BY <2>4, <2>6, <2>7
<1> QED
  BY <1>2, <1>3

\* The guest's files, written to what is mounted.
LEMMA WriteKept ==
  ASSUME Images, NEW g \in Guests, image[<<g, "disk">>] \in Image, NEW d \in Nat,
         NEW s \in {"whole", "damaged"} \cup Operators, Put(g, "disk", [data |-> d, state |-> s])
  PROVE  Images' /\ AllKept /\ DiskStays
<1>1. [data |-> d, state |-> s] \in Image
  BY ImageFields
<1> QED
  BY <1>1, PutKept, Names

\* What is mounted on top is an image that is there.
LEMMA TopOpened ==
  ASSUME Opened, NEW g \in Guests, mounts[g] # << >>, Top(g) = "disk"
  PROVE  image[<<g, "disk">>] \in Image
<1>1. mounts[g] \in Seq({"disk", "orphan"})
  BY DEF Opened
<1>2. Len(mounts[g]) \in DOMAIN mounts[g]
  BY <1>1
<1> QED
  BY <1>2 DEF Opened, Top


-----------------------------------------------------------------------------
(* Steps of commands that leave the images alone *)

LEMMA MovesTyped ==
  ASSUME Typed, Running', UNCHANGED <<files, mounts, units, written>>,
         faults' \in [FaultKinds -> Nat]
  PROVE  Typed' /\ AllKept
<1>1. Opened'
  BY DEF Typed, Opened, files, units
<1>2. AllKept
  BY UnchangedKept DEF files
<1> QED
  BY <1>1, <1>2 DEF Typed, Images, Recorded, Counted, files, units

LEMMA BeginTyped ==
  ASSUME Typed, NEW p \in Operators, Provision(p) \/ Activate(p) \/ SnapshotCreate(p) \/ Restore(p)
  PROVE  Typed' /\ AllKept
<1> USE DEF Typed
<1>1. ASSUME NEW l \in Labels, NEW w \in WorkSet, w.guest \in Guests, l # "snapshotting", Goto(p, l, w)
      PROVE  Running'
  BY <1>1, GotoRuns DEF Fits
<1>2. CASE Provision(p)
  <2>1. PICK g \in Guests, m \in Manifests :
          LET w == [NoWork EXCEPT !.cmd = "provision", !.guest = g, !.manifest = m]
          IN Goto(p, "create", w) \/ Goto(p, "rmtree", w)
    BY <1>2 DEF Provision
  <2> DEFINE w == [NoWork EXCEPT !.cmd = "provision", !.guest = g, !.manifest = m]
  <2>2. w \in WorkSet /\ w.guest = g
    BY <1>2, HostAssumption DEF Provision, NoWork, WorkSet
  <2>3. Goto(p, "create", w) \/ Goto(p, "rmtree", w)
    BY <2>1
  <2> HIDE DEF w
  <2>4. Running'
    BY <1>1, <2>2, <2>3 DEF Labels
  <2> QED
    BY <1>2, <2>4, MovesTyped DEF Provision, bounds, Counted
<1>3. CASE Activate(p)
  <2>1. PICK g \in Guests, m \in Manifests, restart \in BOOLEAN :
          LET w == [NoWork EXCEPT !.cmd = "activate", !.guest = g, !.manifest = m,
                                  !.restart = restart \/ IsRunning(g)]
          IN Goto(p, "manifest", w) \/ Goto(p, "stop", w)
    BY <1>3 DEF Activate
  <2> DEFINE w == [NoWork EXCEPT !.cmd = "activate", !.guest = g, !.manifest = m,
                                 !.restart = restart \/ IsRunning(g)]
  <2>2. (restart \/ IsRunning(g)) \in BOOLEAN
    OBVIOUS
  <2>3. w \in WorkSet /\ w.guest = g
    BY <1>3, <2>2, HostAssumption DEF Activate, NoWork, WorkSet
  <2>4. Goto(p, "manifest", w) \/ Goto(p, "stop", w)
    BY <2>1
  <2> HIDE DEF w
  <2>5. Running'
    BY <1>1, <2>3, <2>4 DEF Labels
  <2> QED
    BY <1>3, <2>5, MovesTyped DEF Activate, bounds, Counted
<1>4. CASE SnapshotCreate(p)
  <2>1. PICK g \in Guests : Goto(p, "snapshot", [NoWork EXCEPT !.cmd = "snapshot", !.guest = g])
    BY <1>4 DEF SnapshotCreate
  <2> DEFINE w == [NoWork EXCEPT !.cmd = "snapshot", !.guest = g]
  <2>2. w \in WorkSet /\ w.guest = g
    BY <1>4, HostAssumption DEF SnapshotCreate, NoWork, WorkSet
  <2>3. Goto(p, "snapshot", w)
    BY <2>1
  <2> HIDE DEF w
  <2>4. Running'
    BY <1>1, <2>2, <2>3 DEF Labels
  <2> QED
    BY <1>4, <2>4, MovesTyped DEF SnapshotCreate, bounds, Counted
<1>5. CASE Restore(p)
  <2>1. PICK g \in Guests, s \in Snapshots :
          LET w == [NoWork EXCEPT !.cmd = "restore", !.guest = g, !.snap = s]
          IN Goto(p, "snapshot", w) \/ Goto(p, "stop", w)
    BY <1>5 DEF Restore
  <2> DEFINE w == [NoWork EXCEPT !.cmd = "restore", !.guest = g, !.snap = s]
  <2>2. w \in WorkSet /\ w.guest = g
    BY <1>5, HostAssumption DEF Restore, NoWork, WorkSet
  <2>3. Goto(p, "snapshot", w) \/ Goto(p, "stop", w)
    BY <2>1
  <2> HIDE DEF w
  <2>4. Running'
    BY <1>1, <2>2, <2>3 DEF Labels
  <2> QED
    BY <1>5, <2>4, MovesTyped DEF Restore, bounds, Counted
<1> QED
  BY <1>2, <1>3, <1>4, <1>5

LEMMA LabelFits ==
  ASSUME Running, NEW p \in Operators, pc[p] # "idle", NEW l \in Labels, l # "snapshotting"
  PROVE  /\ work[p] \in WorkSet /\ work[p].guest \in Guests /\ Fits(l, work[p])
         /\ Continue(p, l) => Running'
<1>1. work[p] \in WorkSet /\ work[p].guest \in Guests /\ Fits(l, work[p])
  BY DEF Running, Fits
<1> QED
  BY <1>1, ContinueRuns

LEMMA MiddleTyped ==
  ASSUME Typed, NEW p \in Operators, LoadDirectory(p) \/ Started(p) \/ Kill(p)
  PROVE  Typed' /\ AllKept
<1> USE DEF Typed
<1>1. CASE LoadDirectory(p)
  <2> DEFINE w == [work[p] EXCEPT !.entries = directory]
  <2>1. pc[p] # "idle" /\ Goto(p, "publish", w)
    BY <1>1 DEF LoadDirectory
  <2>2. work[p] \in WorkSet /\ work[p].guest \in Guests
    BY <2>1, LabelFits DEF Labels
  <2>3. w \in WorkSet /\ w.guest \in Guests
    BY <2>2 DEF WorkSet, Recorded
  <2> HIDE DEF w
  <2>4. Running'
    BY <2>1, <2>3, GotoRuns DEF Fits, Labels
  <2> QED
    BY <1>1, <2>4, MovesTyped DEF LoadDirectory, bounds, Counted
<1>2. CASE Started(p)
  BY <1>2, FinishRuns, MovesTyped DEF Started, bounds, Counted
<1>3. CASE Kill(p)
  BY <1>3, FinishRuns, FaultCounted, MovesTyped DEF Kill, FaultKinds
<1> QED
  BY <1>1, <1>2, <1>3


-----------------------------------------------------------------------------
(* The steps of provision and activate *)

LEMMA RecordsTyped ==
  ASSUME Typed, Running', Recorded', UNCHANGED <<image, mounts, units, bounds>>
  PROVE  Typed' /\ AllKept
<1>1. Opened'
  BY DEF Typed, Opened, units
<1> QED
  BY <1>1, UnchangedKept DEF Typed, Images, Counted, units, bounds

LEMMA RemoveHomeTyped ==
  ASSUME Typed, NEW p \in Operators, RemoveHome(p)
  PROVE  Typed' /\ AllKept
<1> USE DEF Typed
<1> DEFINE g == work[p].guest
<1>1. pc[p] # "idle"
  BY DEF RemoveHome
<1>2. g \in Guests
  BY <1>1, LabelFits DEF Labels
<1>3. CASE g \in home
  <2>1. /\ home' = home \ {g} /\ record' = [record EXCEPT ![g] = None]
        /\ manifest' = [manifest EXCEPT ![g] = "none"]
        /\ image' = [gl \in Guests \X Locations |-> IF gl[1] = g THEN Absent ELSE image[gl]]
        /\ Orphan(g) /\ Continue(p, "create") /\ UNCHANGED <<directory, unit, tap, bounds>>
    BY <1>3 DEF RemoveHome
  <2> HIDE DEF g
  <2>2. /\ \A l \in Locations : image'[<<g, l>>] = Absent
        /\ \A h \in Guests, l \in Locations : h # g => image'[<<h, l>>] = image[<<h, l>>]
    BY <2>1, <1>2
  <2>3. image' \in [Guests \X Locations -> Image \cup {Absent, Empty}]
    BY <2>1 DEF Images
  <2>4. Images'
    BY <2>2, <2>3, Names DEF Images
  <2>5. AllKept
    BY <2>1, <2>2, Names DEF AllKept, Keeps
  <2>6. Opened'
    BY <1>2, <2>1, <2>2, Names, OrphanOpened
  <2>7. Recorded'
    BY <1>2, <2>1 DEF Recorded
  <2>8. Running'
    BY <1>1, <2>1, LabelFits DEF Labels
  <2> QED
    BY <2>1, <2>4, <2>5, <2>6, <2>7, <2>8 DEF Counted, bounds
<1>4. CASE g \notin home
  <2>1. Finish(p) /\ UNCHANGED <<files, mounts, units, bounds>>
    BY <1>4 DEF RemoveHome, files, units
  <2> QED
    BY <2>1, FinishRuns, MovesTyped DEF bounds, Counted
<1> QED
  BY <1>3, <1>4

LEMMA CreateTyped ==
  ASSUME Typed, NEW p \in Operators, Create(p)
  PROVE  Typed' /\ AllKept
<1> USE DEF Typed
<1> DEFINE g == work[p].guest
<1>1. pc[p] # "idle"
  BY DEF Create
<1>2. g \in Guests /\ work[p] \in WorkSet
  BY <1>1, LabelFits DEF Labels
<1>3. ASSUME NEW a \in Free, g \notin home, home' = home \cup {g},
             Put(g, "disk", [data |-> 0, state |-> p]),
             Goto(p, "cloning", [work[p] EXCEPT !.address = a])
      PROVE  Typed' /\ AllKept
  <2> DEFINE w == [work[p] EXCEPT !.address = a]
  <2>1. a \in Addresses
    BY DEF Free
  <2>2. w \in WorkSet /\ w.guest = g
    BY <1>2, <2>1 DEF WorkSet
  <2>3. Goto(p, "cloning", w)
    BY <1>3
  <2> HIDE DEF w, g
  <2>4. Running'
    BY <1>2, <2>2, <2>3, GotoRuns DEF Fits, Labels
  <2>5. [data |-> 0, state |-> p] \in Image
    BY ImageFields
  <2>6. Images' /\ AllKept /\ DiskStays
    BY <1>2, <1>3, <2>5, PutKept, Names
  <2>7. UNCHANGED <<record, manifest, directory, mounts, units, bounds>>
    BY DEF Create
  <2>8. Opened'
    BY <2>6, <2>7, OpenedStays DEF DiskStays, units
  <2> QED
    BY <1>2, <1>3, <2>4, <2>6, <2>7, <2>8 DEF Recorded, Counted, units, bounds
<1>4. ASSUME Finish(p), UNCHANGED <<home, image>> PROVE Typed' /\ AllKept
  <2>1. UNCHANGED <<files, mounts, units, bounds>>
    BY <1>4 DEF Create, files
  <2> QED
    BY <1>4, <2>1, FinishRuns, MovesTyped DEF bounds, Counted
<1> QED
  BY <1>3, <1>4 DEF Create

LEMMA SaveRecordTyped ==
  ASSUME Typed, NEW p \in Operators, SaveRecord(p)
  PROVE  Typed' /\ AllKept
<1> USE DEF Typed
<1>1. pc[p] # "idle"
  BY DEF SaveRecord
<1>2. work[p].guest \in Guests /\ work[p] \in WorkSet
  BY <1>1, LabelFits DEF Labels
<1>3. Recorded'
  BY <1>2 DEF SaveRecord, Recorded, WorkSet
<1>4. Running'
  BY <1>1, LabelFits, FinishRuns DEF SaveRecord, Labels
<1> QED
  BY <1>3, <1>4, RecordsTyped DEF SaveRecord

LEMMA StoreManifestTyped ==
  ASSUME Typed, NEW p \in Operators, StoreManifest(p)
  PROVE  Typed' /\ AllKept
<1> USE DEF Typed
<1> DEFINE g == work[p].guest
           given == work[p].manifest
           m == IF given = "none" THEN manifest[g] ELSE given
           w == [work[p] EXCEPT !.manifest = m]
<1>1. pc[p] # "idle"
  BY DEF StoreManifest
<1>2. g \in Guests /\ work[p] \in WorkSet
  BY <1>1, LabelFits DEF Labels
<1>3. m \in {"none", "plain", "listed", "bad"}
  BY <1>2 DEF WorkSet, Recorded
<1>4. /\ manifest' = [manifest EXCEPT ![g] = m]
      /\ home' = home \/ home' = home \cup {g}
      /\ Finish(p) \/ Goto(p, "load", w) \/ Goto(p, "mount", w)
      /\ UNCHANGED <<record, image, directory, mounts, units, bounds>>
  BY DEF StoreManifest
<1>5. w \in WorkSet /\ w.guest = g
  BY <1>2, <1>3 DEF WorkSet
<1> HIDE DEF w, m, g
<1>6. Running'
  BY <1>2, <1>4, <1>5, GotoRuns, FinishRuns DEF Fits, Labels
<1>7. Recorded'
  BY <1>2, <1>3, <1>4 DEF Recorded
<1> QED
  BY <1>4, <1>6, <1>7, RecordsTyped

LEMMA PublishEntryTyped ==
  ASSUME Typed, NEW p \in Operators, PublishEntry(p)
  PROVE  Typed' /\ AllKept
<1> USE DEF Typed
<1>1. pc[p] # "idle"
  BY DEF PublishEntry
<1>2. work[p].guest \in Guests /\ work[p] \in WorkSet
  BY <1>1, LabelFits DEF Labels
<1>3. AddressOf(p) \in Addresses \cup {None} /\ work[p].entries \in [Guests -> Addresses \cup {None}]
  BY <1>2 DEF WorkSet, AddressOf, Recorded
<1>4. directory' \in [Guests -> Addresses \cup {None}]
  BY <1>2, <1>3 DEF PublishEntry
<1>5. Recorded'
  BY <1>4 DEF PublishEntry, Recorded
<1>6. Running'
  BY <1>1, LabelFits DEF PublishEntry, Labels
<1> QED
  BY <1>5, <1>6, RecordsTyped DEF PublishEntry


LEMMA MountTyped ==
  ASSUME Typed, NEW p \in Operators, Mount(p)
  PROVE  Typed' /\ AllKept
<1> USE DEF Typed
<1> DEFINE g == work[p].guest
           w == [work[p] EXCEPT !.failed = TRUE]
<1>1. pc[p] # "idle"
  BY DEF Mount
<1>2. g \in Guests /\ work[p] \in WorkSet
  BY <1>1, LabelFits DEF Labels
<1>3. w \in WorkSet /\ w.guest = g
  BY <1>2 DEF WorkSet
<1>4. UNCHANGED <<files, units, bounds>>
  BY DEF Mount
<1>5. CASE image[<<g, "disk">>] # Absent /\ mounts' = [mounts EXCEPT ![g] = Append(@, "disk")]
           /\ Continue(p, "apply")
  <2>1. image[<<g, "disk">>] \in Image
    BY <1>2, <1>5, Names DEF Images
  <2> HIDE DEF g
  <2>2. mounts' \in [Guests -> Seq({"disk", "orphan"})]
    BY <1>2, <1>5, MountsTyped DEF Opened
  <2>3. Opened'
    BY <1>2, <1>4, <1>5, <2>1, <2>2 DEF Opened, files, units
  <2>4. Running'
    BY <1>1, <1>5, LabelFits DEF Labels
  <2> QED
    BY <1>4, <2>3, <2>4, UnchangedKept DEF Images, Recorded, Counted, files, units, bounds
<1>6. CASE Goto(p, "clear", w) /\ UNCHANGED mounts
  <2> HIDE DEF w, g
  <2>1. Running'
    BY <1>2, <1>3, <1>6, GotoRuns DEF Fits, Labels
  <2> QED
    BY <1>4, <1>6, <2>1, MovesTyped DEF bounds, Counted
<1> QED
  BY <1>5, <1>6 DEF Mount

LEMMA WriteTyped ==
  ASSUME Typed, Running', NEW g \in Guests,
         \/ UNCHANGED image
         \/ /\ image[<<g, "disk">>] \in Image
            /\ Put(g, "disk", [data |-> image[<<g, "disk">>].data, state |-> "damaged"]),
         UNCHANGED <<home, record, manifest, directory, mounts, units, bounds>>
  PROVE  Typed' /\ AllKept
<1> USE DEF Typed
<1>1. Images' /\ AllKept /\ DiskStays
  <2>1. CASE UNCHANGED image
    BY <2>1, UnchangedKept DEF Images
  <2>2. CASE /\ image[<<g, "disk">>] \in Image
             /\ Put(g, "disk", [data |-> image[<<g, "disk">>].data, state |-> "damaged"])
    BY <2>2, ImageFields, WriteKept
  <2> QED
    BY <2>1, <2>2
<1>2. Opened'
  BY <1>1, OpenedStays DEF DiskStays, units
<1> QED
  BY <1>1, <1>2 DEF Recorded, Counted, units, bounds

LEMMA ApplyTyped ==
  ASSUME Typed, NEW p \in Operators, Apply(p)
  PROVE  Typed' /\ AllKept
<1> USE DEF Typed
<1> DEFINE g == work[p].guest
           w == [work[p] EXCEPT !.failed = TRUE]
<1>1. pc[p] # "idle"
  BY DEF Apply
<1>2. g \in Guests /\ work[p] \in WorkSet
  BY <1>1, LabelFits DEF Labels
<1>3. w \in WorkSet /\ w.guest = g
  BY <1>2 DEF WorkSet
<1>4. Continue(p, "load") \/ Continue(p, "unmount") \/ Goto(p, "unmount", w)
  BY DEF Apply
<1>5. \/ UNCHANGED image
      \/ /\ mounts[g] # << >> /\ Top(g) = "disk"
         /\ Put(g, "disk", [data |-> image[<<g, "disk">>].data, state |-> "damaged"])
  BY DEF Apply
<1>6. UNCHANGED <<home, record, manifest, directory, mounts, units, bounds>>
  BY DEF Apply
<1> HIDE DEF w, g
<1>7. Running'
  BY <1>1, <1>2, <1>3, <1>4, GotoRuns, LabelFits DEF Fits, Labels
<1> QED
  BY <1>2, <1>5, <1>6, <1>7, TopOpened, WriteTyped

LEMMA UnmountTyped ==
  ASSUME Typed, NEW p \in Operators, Unmount(p)
  PROVE  Typed' /\ AllKept
<1> USE DEF Typed
<1> DEFINE g == work[p].guest
<1>1. pc[p] # "idle"
  BY DEF Unmount
<1>2. g \in Guests
  BY <1>1, LabelFits DEF Labels
<1>3. Running'
  BY <1>1, LabelFits DEF Unmount, Labels
<1>4. UNCHANGED <<files, units, written>>
  BY DEF Unmount
<1>5. CASE UNCHANGED mounts
  BY <1>3, <1>4, <1>5, MovesTyped, FaultCounted DEF Unmount, FaultKinds, Counted
<1>6. CASE mounts[g] # << >> /\ UNCHANGED faults
           /\ mounts' = [mounts EXCEPT ![g] = SubSeq(@, 1, Len(@) - 1)]
  <2> HIDE DEF g
  <2>1. mounts[g] \in Seq({"disk", "orphan"})
    BY <1>2 DEF Opened
  <2>2. /\ mounts'[g] \in Seq({"disk", "orphan"})
        /\ \A i \in DOMAIN mounts'[g] : i \in DOMAIN mounts[g] /\ mounts'[g][i] = mounts[g][i]
    BY <1>2, <1>6, <2>1, MountsTyped DEF Opened
  <2>3. /\ mounts' \in [Guests -> Seq({"disk", "orphan"})]
        /\ \A h \in Guests : h # g => mounts'[h] = mounts[h]
    BY <1>2, <1>6, <2>2 DEF Opened
  <2>4. ASSUME NEW h \in Guests, NEW i \in DOMAIN mounts'[h], mounts'[h][i] = "disk"
        PROVE  \E j \in DOMAIN mounts[h] : mounts[h][j] = "disk"
    BY <2>2, <2>3, <2>4
  <2>5. Opened'
    BY <1>4, <2>3, <2>4 DEF Opened, files, units
  <2> QED
    BY <1>3, <1>4, <1>6, <2>5, UnchangedKept DEF Images, Recorded, Counted, files, units
<1>7. CASE mounts[g] = << >>
  <2>1. mounts' = mounts
    BY <1>2, <1>7 DEF Unmount, Opened
  <2> QED
    BY <1>5, <2>1
<1> QED
  BY <1>5, <1>6, <1>7 DEF Unmount

LEMMA ClearTyped ==
  ASSUME Typed, NEW p \in Operators, Clear(p)
  PROVE  Typed' /\ AllKept
<1> USE DEF Typed
<1> DEFINE g == work[p].guest
<1>1. pc[p] # "idle"
  BY DEF Clear
<1>2. g \in Guests
  BY <1>1, LabelFits DEF Labels
<1>3. Finish(p) \/ Continue(p, "save") \/ Continue(p, "start")
  BY DEF Clear
<1>4. Running'
  BY <1>1, <1>3, LabelFits, FinishRuns DEF Labels
<1>5. \/ UNCHANGED image
      \/ /\ mounts[g] # << >> /\ Top(g) = "disk"
         /\ Put(g, "disk", [data |-> image[<<g, "disk">>].data, state |-> "damaged"])
  BY DEF Clear
<1>6. UNCHANGED <<home, record, manifest, directory, mounts, units, bounds>>
  BY DEF Clear
<1> HIDE DEF g
<1> QED
  BY <1>2, <1>4, <1>5, <1>6, TopOpened, WriteTyped

-----------------------------------------------------------------------------
(* start, stop, snapshot and restore *)

LEMMA VmEndsTyped ==
  ASSUME Opened, Counted, NEW g \in Guests, NEW u \in {"inactive", "auto-restart"}, VmEnds(g, u)
  PROVE  /\ vm' \in [Guests -> {"none", "disk", "orphan"}]
         /\ \A h \in Guests : vm'[h] = "disk" => vm[h] = "disk"
         /\ tap' \subseteq Guests
         /\ unit' \in [Guests -> {"inactive", "starting", "active", "auto-restart"}]
  BY DEF Opened, Counted, VmEnds

\* A unit that ends, or is asked to start, opens no image.
LEMMA UnitsTyped ==
  ASSUME Typed, Running', UNCHANGED <<files, mounts, written>>, faults' \in [FaultKinds -> Nat],
         vm' \in [Guests -> {"none", "disk", "orphan"}],
         \A h \in Guests : vm'[h] = "disk" => vm[h] = "disk",
         tap' \subseteq Guests,
         unit' \in [Guests -> {"inactive", "starting", "active", "auto-restart"}]
  PROVE  Typed' /\ AllKept
<1>1. Opened'
  BY DEF Typed, Opened, files
<1> QED
  BY <1>1, UnchangedKept DEF Typed, Images, Recorded, Counted, files

LEMMA StartTyped ==
  ASSUME Typed, NEW p \in Operators, Start(p)
  PROVE  Typed' /\ AllKept
<1> USE DEF Typed
<1>1. UNCHANGED <<files, mounts, bounds>>
  BY DEF Start
<1>2. ASSUME NEW g \in Guests, StartUnit(g), Running'
      PROVE  Typed' /\ AllKept
  <2>1. unit' \in [Guests -> {"inactive", "starting", "active", "auto-restart"}]
    BY <1>2 DEF StartUnit, Counted
  <2> QED
    BY <1>1, <1>2, <2>1, UnitsTyped DEF StartUnit, Counted, Opened, bounds
<1>3. ASSUME NEW g \in Guests, StartUnit(g), "start" \in Commands,
             Goto(p, "starting", [NoWork EXCEPT !.cmd = "start", !.guest = g])
      PROVE  Running'
  <2> DEFINE w == [NoWork EXCEPT !.cmd = "start", !.guest = g]
  <2>1. w \in WorkSet /\ w.guest = g
    BY <1>3 DEF NoWork, WorkSet
  <2>2. Goto(p, "starting", w)
    BY <1>3
  <2> HIDE DEF w
  <2> QED
    BY <2>1, <2>2, GotoRuns DEF Fits, Labels
<1>4. ASSUME pc[p] = "start", StartUnit(work[p].guest), Continue(p, "starting")
      PROVE  Typed' /\ AllKept
  <2>1. work[p].guest \in Guests /\ Running'
    BY <1>4, LabelFits DEF Labels
  <2> QED
    BY <1>2, <1>4, <2>1
<1>5. ASSUME Finish(p), UNCHANGED units PROVE Typed' /\ AllKept
  BY <1>1, <1>5, FinishRuns, MovesTyped DEF bounds, Counted
<1> QED
  BY <1>2, <1>3, <1>4, <1>5 DEF Start

LEMMA StopTyped ==
  ASSUME Typed, NEW p \in Operators, Stop(p)
  PROVE  Typed' /\ AllKept
<1> USE DEF Typed
<1>1. UNCHANGED <<files, mounts, bounds>>
  BY DEF Stop
<1>2. ASSUME NEW g \in Guests, VmEnds(g, "inactive"), Running'
      PROVE  Typed' /\ AllKept
  BY <1>1, <1>2, VmEndsTyped, UnitsTyped DEF bounds, Counted
<1>3. ASSUME NEW g \in Guests, VmEnds(g, "inactive"), Finish(p) PROVE Typed' /\ AllKept
  BY <1>2, <1>3, FinishRuns
<1>4. ASSUME pc[p] = "stop", VmEnds(work[p].guest, "inactive"),
             Continue(p, "manifest") \/ Continue(p, "snapshot")
      PROVE  Typed' /\ AllKept
  <2>1. work[p].guest \in Guests /\ Running'
    BY <1>4, LabelFits DEF Labels
  <2> QED
    BY <1>2, <1>4, <2>1
<1>5. ASSUME Finish(p), UNCHANGED units PROVE Typed' /\ AllKept
  BY <1>1, <1>5, FinishRuns, MovesTyped DEF bounds, Counted
<1> QED
  BY <1>3, <1>4, <1>5 DEF Stop

\* An image is put where no VM or mount loses what it has open.
LEMMA PlacedTyped ==
  ASSUME Typed, Running', Images', AllKept, DiskStays,
         UNCHANGED <<home, record, manifest, directory, mounts, units, written>>,
         faults' \in [FaultKinds -> Nat]
  PROVE  Typed'
<1>1. Opened'
  BY OpenedStays DEF Typed, DiskStays, units
<1> QED
  BY <1>1 DEF Typed, Recorded, Counted, units

LEMMA TakeSnapshotTyped ==
  ASSUME Typed, NEW p \in Operators, TakeSnapshot(p)
  PROVE  Typed' /\ AllKept
<1> USE DEF Typed
<1> DEFINE g == work[p].guest
<1>1. pc[p] # "idle" /\ UNCHANGED <<home, record, manifest, directory, mounts, units, bounds>>
  BY DEF TakeSnapshot
<1>2. g \in Guests /\ work[p] \in WorkSet
  BY <1>1, LabelFits DEF Labels
<1>3. ASSUME NEW s \in Snapshots, image[<<g, s>>] = Absent, Put(g, s, Empty), Finish(p)
      PROVE  Typed' /\ AllKept
  <2> HIDE DEF g
  <2>1. ~Whole(image[<<g, s>>])
    BY <1>3, Names DEF Whole
  <2>2. Images' /\ AllKept /\ DiskStays
    BY <1>2, <1>3, <2>1, PutKept, Names
  <2> QED
    BY <1>1, <1>3, <2>2, FinishRuns, PlacedTyped DEF bounds, Counted
<1>4. ASSUME NEW s \in Snapshots, image[<<g, s>>] = Absent, image[<<g, "disk">>] # Absent,
             Put(g, s, [data |-> image[<<g, "disk">>].data, state |-> p]),
             Goto(p, "snapshotting", [work[p] EXCEPT !.into = s])
      PROVE  Typed' /\ AllKept
  <2> DEFINE w == [work[p] EXCEPT !.into = s]
             i == [data |-> image[<<g, "disk">>].data, state |-> p]
  <2>1. image[<<g, "disk">>] \in Image
    BY <1>2, <1>4, Names DEF Images
  <2>2. i \in Image
    BY <2>1, ImageFields
  <2>3. w \in WorkSet /\ w.guest = g /\ w.into = s
    BY <1>2 DEF WorkSet
  <2>4. Put(g, s, i) /\ Goto(p, "snapshotting", w)
    BY <1>4
  <2>5. ~Whole(image[<<g, s>>])
    BY <1>4, Names DEF Whole
  <2> HIDE DEF w, i, g
  <2>6. Images' /\ AllKept /\ DiskStays
    BY <1>2, <2>2, <2>4, <2>5, PutKept, Names
  <2>7. Running'
    BY <1>2, <2>3, <2>4, GotoRuns DEF Fits, Labels
  <2> QED
    BY <1>1, <2>6, <2>7, PlacedTyped DEF bounds, Counted
<1>5. ASSUME Finish(p), UNCHANGED image PROVE Typed' /\ AllKept
  BY <1>1, <1>5, FinishRuns, MovesTyped DEF files, bounds, Counted
<1> QED
  BY <1>3, <1>4, <1>5 DEF TakeSnapshot

LEMMA UnlinkDiskTyped ==
  ASSUME Typed, NEW p \in Operators, UnlinkDisk(p)
  PROVE  Typed' /\ AllKept
<1> USE DEF Typed
<1> DEFINE g == work[p].guest
<1>1. pc[p] # "idle" /\ UNCHANGED <<home, record, manifest, directory, unit, tap, bounds>>
  BY DEF UnlinkDisk
<1>2. g \in Guests
  BY <1>1, LabelFits DEF Labels
<1>3. ASSUME Put(g, "disk", Absent), Orphan(g), Continue(p, "replace")
      PROVE  Typed' /\ AllKept
  <2>1. Running'
    BY <1>1, <1>3, LabelFits DEF Labels
  <2> HIDE DEF g
  <2>2. Images' /\ AllKept /\ \A h \in Guests : h # g => image'[<<h, "disk">>] = image[<<h, "disk">>]
    BY <1>2, <1>3, PutKept, Names
  <2>3. Opened'
    BY <1>2, <1>3, <2>2, OrphanOpened
  <2> QED
    BY <1>1, <2>1, <2>2, <2>3 DEF Recorded, Counted, bounds
<1>4. ASSUME Finish(p), UNCHANGED <<image, vm, mounts>> PROVE Typed' /\ AllKept
  BY <1>1, <1>4, FinishRuns, MovesTyped DEF files, units, bounds, Counted
<1> QED
  BY <1>3, <1>4 DEF UnlinkDisk

LEMMA ReplaceDiskTyped ==
  ASSUME Typed, NEW p \in Operators, ReplaceDisk(p)
  PROVE  Typed' /\ AllKept
<1> USE DEF Typed
<1> DEFINE g == work[p].guest
           snapshot == image[<<g, work[p].snap>>]
           i == [data |-> snapshot.data, state |-> p]
<1>1. pc[p] # "idle" /\ UNCHANGED <<home, record, manifest, directory, mounts, units, bounds>>
  BY DEF ReplaceDisk
<1>2. g \in Guests
  BY <1>1, LabelFits DEF Labels
<1>3. ASSUME snapshot \in Image, Put(g, "disk", i), Continue(p, "replacing")
      PROVE  Typed' /\ AllKept
  <2>1. i \in Image
    BY <1>3, ImageFields
  <2>2. Running'
    BY <1>1, <1>3, LabelFits DEF Labels
  <2> HIDE DEF g, i
  <2>3. Images' /\ AllKept /\ DiskStays
    BY <1>2, <1>3, <2>1, PutKept, Names
  <2> QED
    BY <1>1, <2>2, <2>3, PlacedTyped DEF bounds, Counted
<1>4. ASSUME Finish(p), UNCHANGED image PROVE Typed' /\ AllKept
  BY <1>1, <1>4, FinishRuns, MovesTyped DEF files, bounds, Counted
<1> QED
  BY <1>3, <1>4 DEF ReplaceDisk

LEMMA CopyTyped ==
  ASSUME Typed, NEW p \in Operators, FinishCopy(p) \/ CopyFails(p)
  PROVE  Typed' /\ AllKept
<1> USE DEF Typed
<1>1. Copying(p) /\ pc[p] # "idle"
  BY DEF FinishCopy, CopyFails, Copying
<1>2. Images' /\ AllKept /\ DiskStays
  BY <1>1, CopyEndsKept DEF FinishCopy, CopyFails
<1>3. Continue(p, "manifest") \/ Continue(p, "unlink") \/ Finish(p)
  BY DEF FinishCopy, CopyFails
<1>4. Running'
  BY <1>1, <1>3, LabelFits, FinishRuns DEF Labels
<1>5. faults' \in [FaultKinds -> Nat]
  BY FaultCounted DEF FinishCopy, CopyFails, FaultKinds, bounds, Counted
<1>6. UNCHANGED <<home, record, manifest, directory, mounts, units, written>>
  BY DEF FinishCopy, CopyFails, bounds
<1> QED
  BY <1>2, <1>4, <1>5, <1>6, PlacedTyped

\* What a step that raises leads to.
LEMMA RaiseGoes ==
  ASSUME Typed, NEW p \in Operators, Raise(p)
  PROVE  /\ pc[p] \in Mounting /\ work[p].guest \in Guests
         /\ UNCHANGED <<files, mounts, units, written>>
         /\ \/ /\ Finish(p) /\ pc[p] \in {"load", "publish"} /\ work[p].cmd = "provision"
            \/ \E w \in WorkSet :
                 /\ w.cmd = work[p].cmd /\ w.guest = work[p].guest
                 /\ w.address = work[p].address /\ w.snap = work[p].snap
                 /\ pc[p] \in {"load", "publish"} => w.cmd # "provision"
                 /\ Goto(p, "unmount", w)
<1> USE DEF Typed
<1> DEFINE w == [work[p] EXCEPT !.failed = TRUE]
<1>1. pc[p] \in {"load", "publish", "apply", "unmount"}
  BY DEF Raise
<1>2. work[p] \in WorkSet /\ work[p].guest \in Guests
  BY <1>1, LabelFits DEF Labels
<1>3. /\ w \in WorkSet /\ w.cmd = work[p].cmd /\ w.guest = work[p].guest
      /\ w.address = work[p].address /\ w.snap = work[p].snap
  BY <1>2 DEF WorkSet
<1>4. \/ Finish(p) /\ pc[p] \in {"load", "publish"} /\ work[p].cmd = "provision"
      \/ /\ Goto(p, "unmount", w)
         /\ pc[p] \in {"load", "publish"} => work[p].cmd # "provision"
  BY DEF Raise
<1>5. UNCHANGED <<files, mounts, units, written>>
  BY DEF Raise
<1> HIDE DEF w
<1> QED
  BY <1>1, <1>2, <1>3, <1>4, <1>5 DEF Mounting

LEMMA RaiseTyped ==
  ASSUME Typed, NEW p \in Operators, Raise(p)
  PROVE  Typed' /\ AllKept
<1> USE DEF Typed
<1>1. UNCHANGED <<files, mounts, units, written>>
  BY RaiseGoes
<1>2. faults' \in [FaultKinds -> Nat]
  BY FaultCounted DEF Raise, FaultKinds
<1>3. Running'
  <2>1. CASE Finish(p)
    BY <2>1, FinishRuns
  <2>2. ASSUME NEW w \in WorkSet, w.guest = work[p].guest, Goto(p, "unmount", w)
        PROVE  Running'
    BY <2>2, RaiseGoes, GotoRuns DEF Fits, Labels
  <2> QED
    BY <2>1, <2>2, RaiseGoes
<1> QED
  BY <1>1, <1>2, <1>3, MovesTyped

-----------------------------------------------------------------------------
(* The unit, the guest, and a power failure *)

LEMMA SystemdTyped ==
  ASSUME Typed, NEW g \in Guests, Systemd(g)
  PROVE  Typed' /\ AllKept
<1> USE DEF Typed
<1>1. UNCHANGED <<files, mounts, pc, work, bounds>>
  BY DEF Systemd, Boot, Restart
<1>2. Running'
  BY <1>1 DEF Running
<1>3. CASE Restart(g)
  <2>1. unit' \in [Guests -> {"inactive", "starting", "active", "auto-restart"}]
    BY <1>3 DEF Restart, Counted
  <2> QED
    BY <1>1, <1>2, <1>3, <2>1, UnitsTyped DEF Restart, Counted, Opened, bounds
<1>4. CASE VmEnds(g, "auto-restart")
  BY <1>1, <1>2, <1>4, VmEndsTyped, UnitsTyped DEF bounds, Counted
<1>5. CASE /\ image[<<g, "disk">>] # Absent
           /\ unit' = [unit EXCEPT ![g] = "active"]
           /\ vm' = [vm EXCEPT ![g] = "disk"]
           /\ tap' = tap \cup {g}
  <2>1. image[<<g, "disk">>] \in Image
    BY <1>5, Names DEF Images
  <2>2. Opened'
    BY <1>1, <1>5, <2>1 DEF Opened, files
  <2>3. Counted'
    BY <1>1, <1>5 DEF Counted, bounds
  <2> QED
    BY <1>1, <1>2, <2>2, <2>3, UnchangedKept DEF Images, Recorded, files
<1> QED
  BY <1>3, <1>4, <1>5 DEF Systemd, Boot

LEMMA GuestTyped ==
  ASSUME Typed, NEW g \in Guests, Guest(g)
  PROVE  Typed' /\ AllKept
<1> USE DEF Typed
<1>1. Running'
  BY DEF Guest, VmFails, VmExits, VmWrites, Running
<1>2. CASE VmFails(g) \/ VmExits(g)
  <2>1. faults' \in [FaultKinds -> Nat]
    BY <1>2, FaultCounted DEF VmFails, VmExits, FaultKinds, bounds, Counted
  <2>2. VmEnds(g, "auto-restart") \/ VmEnds(g, "inactive")
    BY <1>2 DEF VmFails, VmExits
  <2>3. UNCHANGED <<files, mounts, written>>
    BY <1>2 DEF VmFails, VmExits, bounds
  <2> QED
    BY <1>1, <2>1, <2>2, <2>3, VmEndsTyped, UnitsTyped
<1>3. CASE VmWrites(g)
  <2>1. /\ vm[g] = "disk" /\ written < MaxWrites /\ written' = written + 1
        /\ UNCHANGED <<home, record, manifest, directory, mounts, units, pc, work, faults>>
    BY <1>3 DEF VmWrites
  <2>2. image[<<g, "disk">>] \in Image
    BY <2>1 DEF Opened
  <2>3. PICK s \in {"whole", "damaged"} \cup Operators :
          Put(g, "disk", [data |-> written + 1, state |-> s])
    BY <1>3, <2>2 DEF VmWrites, Image
  <2>4. written + 1 \in Nat /\ written' \in 0 .. MaxWrites
    BY <2>1, HostAssumption DEF Counted
  <2>5. Images' /\ AllKept /\ DiskStays
    BY <2>2, <2>3, <2>4, WriteKept
  <2>6. Opened'
    BY <2>1, <2>5, OpenedStays DEF DiskStays, units
  <2> QED
    BY <1>1, <2>1, <2>4, <2>5, <2>6 DEF Recorded, Counted, units
<1> QED
  BY <1>2, <1>3 DEF Guest

LEMMA PowerFailureTyped == Typed /\ PowerFailure => Typed' /\ AllKept
<1> SUFFICES ASSUME Typed, PowerFailure PROVE Typed' /\ AllKept
  OBVIOUS
<1> USE DEF Typed
<1>1. Running'
  BY NoWorkTyped DEF PowerFailure, Running, Labels
<1>2. faults' \in [FaultKinds -> Nat]
  BY FaultCounted DEF PowerFailure, FaultKinds
<1>3. Opened'
  BY DEF PowerFailure, Opened
<1> QED
  BY <1>1, <1>2, <1>3, UnchangedKept DEF PowerFailure, Images, Recorded, Counted, files

-----------------------------------------------------------------------------
LEMMA StutterTyped == Typed /\ UNCHANGED vars => Typed' /\ AllKept
<1> SUFFICES ASSUME Typed, UNCHANGED vars PROVE Typed' /\ AllKept
  OBVIOUS
<1>1. Running'
  BY DEF vars, Typed, Running
<1> QED
  BY <1>1, MovesTyped DEF vars, bounds, Typed, Counted

LEMMA NextTyped == Typed /\ [Next]_vars => Typed' /\ AllKept
<1> SUFFICES ASSUME Typed, [Next]_vars PROVE Typed' /\ AllKept
  OBVIOUS
<1>1. ASSUME NEW p \in Operators, Invoke(p) PROVE Typed' /\ AllKept
  BY <1>1, BeginTyped, StartTyped, StopTyped DEF Invoke
<1>2. ASSUME NEW p \in Operators, Proceed(p) PROVE Typed' /\ AllKept
  BY <1>2, CopyTyped, RemoveHomeTyped, CreateTyped, SaveRecordTyped, StoreManifestTyped, MiddleTyped,
     PublishEntryTyped, MountTyped, ApplyTyped, UnmountTyped, ClearTyped, StartTyped, StopTyped,
     TakeSnapshotTyped, UnlinkDiskTyped, ReplaceDiskTyped DEF Proceed
<1>3. ASSUME NEW p \in Operators, CopyFails(p) \/ Raise(p) \/ Kill(p) PROVE Typed' /\ AllKept
  BY <1>3, CopyTyped, RaiseTyped, MiddleTyped
<1>4. ASSUME NEW g \in Guests, Systemd(g) \/ Guest(g) PROVE Typed' /\ AllKept
  BY <1>4, SystemdTyped, GuestTyped
<1> QED
  BY <1>1, <1>2, <1>3, <1>4, PowerFailureTyped, StutterTyped DEF Next

\* Every variable keeps its type, and the image that a VM or a mount has open
\* by its name is there (restore unlinks the disk before it copies the new one).
THEOREM TypeCorrect == Spec => []TypeOK
<1>1. Spec => []Typed
  BY InitTyped, NextTyped, PTL DEF Spec
<1> QED
  BY <1>1, TypedImplies, PTL

\* A snapshot that was finished stays what it is, whatever the operators, the
\* guests and systemd do meanwhile and whatever fails (snapshot create refuses a
\* name that is taken, and nothing else writes there).
THEOREM SnapshotIsSafe == Spec => WholeSnapshotIsKept
<1>1. Spec => []Typed
  BY InitTyped, NextTyped, PTL DEF Spec
<1>2. ASSUME Typed, [Next]_vars
      PROVE  [\A g \in Guests, s \in Snapshots :
                Whole(image[<<g, s>>]) => image'[<<g, s>>] = image[<<g, s>>] \/ g \notin home']_vars
  BY <1>2, NextTyped DEF AllKept, Keeps
<1> QED
  BY <1>1, <1>2, PTL DEF Spec, WholeSnapshotIsKept

-----------------------------------------------------------------------------
(* Addresses and provisioned guests, with one operator: nothing locks what a *)
(* command reads, so two can give one address away (see the README).          *)

OneOperator == \A p, q \in Operators : p = q

Holding ==
  {"cloning", "manifest", "load", "publish", "mount", "apply", "unmount", "clear", "save"}

\* What a command that is about to do l relies on: the guest it provisions has
\* no record and nobody has the address it chose.
Sound(l, w) ==
  /\ l \in {"rmtree", "create", "cloning", "save"} => w.cmd = "provision"
  /\ l \in {"rmtree", "create"} => record[w.guest] = None
  /\ l \in Holding /\ w.cmd = "provision" =>
       /\ w.address \in Addresses /\ record[w.guest] = None
       /\ \A h \in Guests : record[h] # w.address

Homed == \A g \in Guests : record[g] # None => g \in home

Alone == Homed /\ DistinctAddresses /\ \A p \in Operators : Sound(pc[p], work[p])

RecordsKept == \A g \in Guests : record[g] # None => record'[g] = record[g]

LEMMA InitAlone == Init => Alone
  BY DEF Init, Alone, Homed, DistinctAddresses, Sound, Holding

\* The records stay, and the command goes where what it relies on holds.
LEMMA GoesOn ==
  ASSUME Running, Alone, NEW p \in Operators, NEW l \in Labels, NEW w \in WorkSet, Goto(p, l, w),
         Sound(l, w), UNCHANGED record, home \subseteq home'
  PROVE  Alone' /\ RecordsKept
<1>1. ASSUME NEW q \in Operators PROVE Sound(pc[q], work[q])'
  <2>1. CASE q = p
    <3>1. pc'[p] = l /\ work'[p] = w
      BY DEF Goto, Running
    <3> QED
      BY <2>1, <3>1 DEF Sound
  <2>2. CASE q # p
    <3>1. pc'[q] = pc[q] /\ work'[q] = work[q]
      BY <2>2 DEF Goto, Running
    <3> QED
      BY <3>1 DEF Sound, Alone
  <2> QED
    BY <2>1, <2>2
<1> QED
  BY <1>1 DEF Alone, Homed, DistinctAddresses, RecordsKept

LEMMA Continues ==
  ASSUME Running, Alone, NEW p \in Operators, NEW l \in Labels, Continue(p, l),
         Sound(l, work[p]), UNCHANGED record, home \subseteq home'
  PROVE  Alone' /\ RecordsKept
<1>1. work[p] \in WorkSet /\ Goto(p, l, work[p])
  BY DEF Running, Continue, Goto
<1> QED
  BY <1>1, GoesOn

LEMMA Finishes ==
  ASSUME Running, Alone, NEW p \in Operators, Finish(p), UNCHANGED record, home \subseteq home'
  PROVE  Alone' /\ RecordsKept
<1>1. "idle" \in Labels /\ Sound("idle", NoWork)
  BY DEF Labels, Sound, Holding
<1> QED
  BY <1>1, NoWorkTyped, GoesOn DEF Finish

LEMMA StaysAlone ==
  ASSUME Alone, UNCHANGED <<home, record, pc, work>>
  PROVE  Alone' /\ RecordsKept
  BY DEF Alone, Homed, DistinctAddresses, Sound, RecordsKept

LEMMA BeginAlone ==
  ASSUME Running, Alone, NEW p \in Operators,
         Provision(p) \/ Activate(p) \/ SnapshotCreate(p) \/ Restore(p)
  PROVE  Alone' /\ RecordsKept
<1>1. UNCHANGED <<home, record>>
  BY DEF Provision, Activate, SnapshotCreate, Restore, files
<1>2. CASE Provision(p)
  <2>1. PICK g \in Guests, m \in Manifests :
          LET w == [NoWork EXCEPT !.cmd = "provision", !.guest = g, !.manifest = m]
          IN /\ g \notin home \/ record[g] = None
             /\ Goto(p, "create", w) \/ Goto(p, "rmtree", w)
    BY <1>2 DEF Provision
  <2> DEFINE w == [NoWork EXCEPT !.cmd = "provision", !.guest = g, !.manifest = m]
  <2>2. w \in WorkSet /\ w.guest = g /\ w.cmd = "provision"
    BY <1>2, HostAssumption DEF Provision, NoWork, WorkSet
  <2>3. Goto(p, "create", w) \/ Goto(p, "rmtree", w)
    BY <2>1
  <2> HIDE DEF w
  <2>4. record[g] = None
    BY <2>1 DEF Alone, Homed
  <2>5. Sound("create", w) /\ Sound("rmtree", w)
    BY <2>2, <2>4 DEF Sound, Holding
  <2> QED
    BY <1>1, <2>2, <2>3, <2>5, GoesOn DEF Labels
<1>3. CASE Activate(p)
  <2>1. PICK g \in Guests, m \in Manifests, restart \in BOOLEAN :
          LET w == [NoWork EXCEPT !.cmd = "activate", !.guest = g, !.manifest = m,
                                  !.restart = restart \/ IsRunning(g)]
          IN Goto(p, "manifest", w) \/ Goto(p, "stop", w)
    BY <1>3 DEF Activate
  <2> DEFINE w == [NoWork EXCEPT !.cmd = "activate", !.guest = g, !.manifest = m,
                                 !.restart = restart \/ IsRunning(g)]
  <2>2. (restart \/ IsRunning(g)) \in BOOLEAN
    OBVIOUS
  <2>3. w \in WorkSet /\ w.cmd = "activate"
    BY <1>3, <2>2, HostAssumption DEF Activate, NoWork, WorkSet
  <2>4. Goto(p, "manifest", w) \/ Goto(p, "stop", w)
    BY <2>1
  <2> HIDE DEF w
  <2>5. Sound("manifest", w) /\ Sound("stop", w)
    BY <2>3 DEF Sound, Holding
  <2> QED
    BY <1>1, <2>3, <2>4, <2>5, GoesOn DEF Labels
<1>4. CASE SnapshotCreate(p)
  <2>1. PICK g \in Guests : Goto(p, "snapshot", [NoWork EXCEPT !.cmd = "snapshot", !.guest = g])
    BY <1>4 DEF SnapshotCreate
  <2> DEFINE w == [NoWork EXCEPT !.cmd = "snapshot", !.guest = g]
  <2>2. w \in WorkSet
    BY <1>4, HostAssumption DEF SnapshotCreate, NoWork, WorkSet
  <2>3. Goto(p, "snapshot", w)
    BY <2>1
  <2> HIDE DEF w
  <2> QED
    BY <1>1, <2>2, <2>3, GoesOn DEF Labels, Sound, Holding
<1>5. CASE Restore(p)
  <2>1. PICK g \in Guests, s \in Snapshots :
          LET w == [NoWork EXCEPT !.cmd = "restore", !.guest = g, !.snap = s]
          IN Goto(p, "snapshot", w) \/ Goto(p, "stop", w)
    BY <1>5 DEF Restore
  <2> DEFINE w == [NoWork EXCEPT !.cmd = "restore", !.guest = g, !.snap = s]
  <2>2. w \in WorkSet
    BY <1>5, HostAssumption DEF Restore, NoWork, WorkSet
  <2>3. Goto(p, "snapshot", w) \/ Goto(p, "stop", w)
    BY <2>1
  <2> HIDE DEF w
  <2> QED
    BY <1>1, <2>2, <2>3, GoesOn DEF Labels, Sound, Holding
<1> QED
  BY <1>2, <1>3, <1>4, <1>5

\* The steps between the choice of the address and the saving of the record.
LEMMA HoldingAlone ==
  ASSUME Typed, Alone, NEW p \in Operators,
         \/ FinishCopy(p) \/ StoreManifest(p) \/ LoadDirectory(p) \/ PublishEntry(p)
         \/ Mount(p) \/ Apply(p) \/ Unmount(p) \/ Clear(p)
  PROVE  Alone' /\ RecordsKept
<1> USE DEF Typed
<1> DEFINE u == work[p]
<1>1. pc[p] # "idle" /\ UNCHANGED record /\ home \subseteq home'
  BY DEF FinishCopy, Copying, StoreManifest, LoadDirectory, PublishEntry, Mount, Apply, Unmount, Clear,
         files
<1>2. u \in WorkSet /\ u.guest \in Guests /\ Sound(pc[p], u)
  BY <1>1, LabelFits DEF Labels, Alone
<1>3. ASSUME NEW w \in WorkSet, w.cmd = u.cmd, w.address = u.address, w.guest = u.guest,
             pc[p] \in Holding, NEW l \in Holding \ {"cloning", "save"}, Goto(p, l, w)
      PROVE  Alone' /\ RecordsKept
  <2>1. Sound(l, w)
    BY <1>2, <1>3 DEF Sound, Holding
  <2>2. l \in Labels
    BY DEF Labels, Holding
  <2> HIDE DEF u
  <2> QED
    BY <1>1, <1>3, <2>1, <2>2, GoesOn
<1>4. ASSUME pc[p] \in Holding, NEW l \in Holding \ {"cloning", "save"}, Continue(p, l)
      PROVE  Alone' /\ RecordsKept
  <2>1. Sound(l, u) /\ l \in Labels
    BY <1>2, <1>4 DEF Sound, Holding, Labels
  <2> QED
    BY <1>1, <1>4, <2>1, Continues
<1>5. ASSUME Finish(p) PROVE Alone' /\ RecordsKept
  BY <1>1, <1>5, Finishes
<1>6. CASE FinishCopy(p)
  <2>1. CASE pc[p] = "cloning" /\ Continue(p, "manifest")
    BY <1>4, <2>1 DEF Holding
  <2>2. CASE Continue(p, "unlink")
    BY <1>1, <2>2, Continues DEF Labels, Sound, Holding
  <2> QED
    BY <1>5, <1>6, <2>1, <2>2 DEF FinishCopy
<1>7. CASE StoreManifest(p)
  <2> DEFINE m == IF u.manifest = "none" THEN manifest[u.guest] ELSE u.manifest
             w == [u EXCEPT !.manifest = m]
  <2>1. pc[p] \in Holding /\ (Finish(p) \/ Goto(p, "load", w) \/ Goto(p, "mount", w))
    BY <1>7 DEF StoreManifest, Holding
  <2>2. m \in {"none", "plain", "listed", "bad"}
    BY <1>2 DEF WorkSet, Recorded
  <2>3. w \in WorkSet /\ w.cmd = u.cmd /\ w.address = u.address /\ w.guest = u.guest
    BY <1>2, <2>2 DEF WorkSet
  <2> HIDE DEF w, u
  <2> QED
    BY <1>3, <1>5, <2>1, <2>3 DEF Holding
<1>8. CASE LoadDirectory(p)
  <2> DEFINE w == [u EXCEPT !.entries = directory]
  <2>1. pc[p] \in Holding /\ Goto(p, "publish", w)
    BY <1>8 DEF LoadDirectory, Holding
  <2>2. w \in WorkSet /\ w.cmd = u.cmd /\ w.address = u.address /\ w.guest = u.guest
    BY <1>2 DEF WorkSet, Recorded
  <2> HIDE DEF w, u
  <2> QED
    BY <1>3, <2>1, <2>2 DEF Holding
<1>9. CASE PublishEntry(p)
  <2>1. pc[p] \in Holding /\ (Continue(p, "mount") \/ Continue(p, "unmount"))
    BY <1>9 DEF PublishEntry, Holding
  <2> QED
    BY <1>4, <2>1 DEF Holding
<1>10. CASE Mount(p) \/ Apply(p)
  <2> DEFINE w == [u EXCEPT !.failed = TRUE]
  <2>1. /\ pc[p] \in Holding
        /\ \/ Continue(p, "apply") \/ Continue(p, "load") \/ Continue(p, "unmount")
           \/ Goto(p, "clear", w) \/ Goto(p, "unmount", w)
    BY <1>10 DEF Mount, Apply, Holding
  <2>2. w \in WorkSet /\ w.cmd = u.cmd /\ w.address = u.address /\ w.guest = u.guest
    BY <1>2 DEF WorkSet
  <2> HIDE DEF w, u
  <2> QED
    BY <1>3, <1>4, <2>1, <2>2 DEF Holding
<1>11. CASE Unmount(p)
  BY <1>4, <1>11 DEF Unmount, Holding
<1>12. CASE Clear(p)
  <2>1. CASE u.cmd = "provision" /\ Continue(p, "save")
    <3>1. Sound("save", u)
      BY <1>2, <1>12, <2>1 DEF Clear, Sound, Holding
    <3> QED
      BY <1>1, <2>1, <3>1, Continues DEF Labels
  <2>2. CASE Continue(p, "start")
    BY <1>1, <2>2, Continues DEF Labels, Sound, Holding
  <2> QED
    BY <1>5, <1>12, <2>1, <2>2 DEF Clear
<1> QED
  BY <1>6, <1>7, <1>8, <1>9, <1>10, <1>11, <1>12

LEMMA StopAlone ==
  ASSUME Typed, Alone, NEW p \in Operators, Start(p) \/ Started(p) \/ Stop(p)
  PROVE  Alone' /\ RecordsKept
<1> USE DEF Typed
<1>1. UNCHANGED <<home, record>>
  BY DEF Start, Started, Stop, files
<1>2. ASSUME Finish(p) PROVE Alone' /\ RecordsKept
  BY <1>1, <1>2, Finishes
<1>3. ASSUME Continue(p, "snapshot") \/ Continue(p, "starting") PROVE Alone' /\ RecordsKept
  BY <1>1, <1>3, Continues DEF Labels, Sound, Holding
<1>4. ASSUME NEW g \in Guests, "start" \in Commands,
             Goto(p, "starting", [NoWork EXCEPT !.cmd = "start", !.guest = g])
      PROVE  Alone' /\ RecordsKept
  <2> DEFINE w == [NoWork EXCEPT !.cmd = "start", !.guest = g]
  <2>1. w \in WorkSet /\ Goto(p, "starting", w)
    BY <1>4 DEF NoWork, WorkSet
  <2> HIDE DEF w
  <2> QED
    BY <1>1, <2>1, GoesOn DEF Labels, Sound, Holding
<1>5. ASSUME work[p].cmd = "activate", Continue(p, "manifest") PROVE Alone' /\ RecordsKept
  BY <1>1, <1>5, Continues DEF Labels, Sound, Holding
<1> QED
  BY <1>2, <1>3, <1>4, <1>5 DEF Start, Started, Stop

LEMMA SnapshotAlone ==
  ASSUME Typed, Alone, NEW p \in Operators,
         TakeSnapshot(p) \/ UnlinkDisk(p) \/ ReplaceDisk(p) \/ CopyFails(p) \/ Kill(p)
  PROVE  Alone' /\ RecordsKept
<1> USE DEF Typed
<1>1. UNCHANGED <<home, record>>
  BY DEF TakeSnapshot, UnlinkDisk, ReplaceDisk, CopyFails, Kill, files
<1>2. ASSUME Finish(p) PROVE Alone' /\ RecordsKept
  BY <1>1, <1>2, Finishes
<1>3. ASSUME Continue(p, "replace") \/ Continue(p, "replacing") PROVE Alone' /\ RecordsKept
  BY <1>1, <1>3, Continues DEF Labels, Sound, Holding
<1>4. ASSUME NEW s \in Snapshots, pc[p] # "idle", Goto(p, "snapshotting", [work[p] EXCEPT !.into = s])
      PROVE  Alone' /\ RecordsKept
  <2> DEFINE w == [work[p] EXCEPT !.into = s]
  <2>1. work[p] \in WorkSet
    BY <1>4, LabelFits DEF Labels
  <2>2. w \in WorkSet /\ Goto(p, "snapshotting", w)
    BY <1>4, <2>1 DEF WorkSet
  <2> HIDE DEF w
  <2> QED
    BY <1>1, <2>2, GoesOn DEF Labels, Sound, Holding
<1> QED
  BY <1>2, <1>3, <1>4 DEF TakeSnapshot, UnlinkDisk, ReplaceDisk, CopyFails, Kill

LEMMA RaiseAlone ==
  ASSUME Typed, Alone, NEW p \in Operators, Raise(p)
  PROVE  Alone' /\ RecordsKept
<1> USE DEF Typed
<1>1. UNCHANGED <<home, record>>
  BY RaiseGoes DEF files
<1>2. Sound(pc[p], work[p]) /\ pc[p] \in Holding
  BY RaiseGoes DEF Alone, Mounting, Holding
<1>3. CASE Finish(p)
  BY <1>1, <1>3, Finishes
<1>4. ASSUME NEW w \in WorkSet, w.cmd = work[p].cmd, w.guest = work[p].guest,
             w.address = work[p].address, Goto(p, "unmount", w)
      PROVE  Alone' /\ RecordsKept
  <2>1. Sound("unmount", w)
    BY <1>2, <1>4 DEF Sound, Holding
  <2> QED
    BY <1>1, <1>4, <2>1, GoesOn DEF Labels
<1> QED
  BY <1>3, <1>4, RaiseGoes

LEMMA RemoveHomeAlone ==
  ASSUME OneOperator, Typed, Alone, NEW p \in Operators, RemoveHome(p)
  PROVE  Alone' /\ RecordsKept
<1> USE DEF Typed
<1> DEFINE g == work[p].guest
<1>1. pc[p] = "rmtree"
  BY DEF RemoveHome
<1>2. g \in Guests /\ work[p] \in WorkSet
  BY <1>1, LabelFits DEF Labels
<1>3. work[p].cmd = "provision" /\ record[g] = None
  BY <1>1 DEF Alone, Sound
<1>4. CASE home' = home \ {g} /\ record' = [record EXCEPT ![g] = None] /\ Continue(p, "create")
  <2> HIDE DEF g
  <2>1. record' = record
    BY <1>2, <1>3, <1>4 DEF g, Recorded
  <2>2. \A q \in Operators : pc'[q] = "create" /\ work'[q] = work[p]
    BY <1>4 DEF OneOperator, Continue, Running
  <2>3. \A q \in Operators : Sound(pc[q], work[q])'
    BY <1>3, <2>1, <2>2 DEF Sound, Holding, g
  <2> QED
    BY <1>3, <1>4, <2>1, <2>3 DEF Alone, Homed, DistinctAddresses, RecordsKept, g
<1>5. CASE Finish(p) /\ UNCHANGED <<home, record>>
  BY <1>5, Finishes
<1> QED
  BY <1>4, <1>5 DEF RemoveHome

LEMMA CreateAlone ==
  ASSUME Typed, Alone, NEW p \in Operators, Create(p)
  PROVE  Alone' /\ RecordsKept
<1> USE DEF Typed
<1>1. pc[p] = "create" /\ UNCHANGED record
  BY DEF Create
<1>2. work[p].guest \in Guests /\ work[p] \in WorkSet
  BY <1>1, LabelFits DEF Labels
<1>3. ASSUME NEW a \in Free, home \subseteq home', Goto(p, "cloning", [work[p] EXCEPT !.address = a])
      PROVE  Alone' /\ RecordsKept
  <2> DEFINE w == [work[p] EXCEPT !.address = a]
  <2>1. a \in Addresses /\ \A h \in Guests : record[h] # a
    BY DEF Free
  <2>2. w \in WorkSet /\ w.guest = work[p].guest /\ w.cmd = work[p].cmd /\ w.address = a
    BY <1>2, <2>1 DEF WorkSet
  <2>3. Goto(p, "cloning", w)
    BY <1>3
  <2> HIDE DEF w
  <2>4. work[p].cmd = "provision" /\ record[work[p].guest] = None
    BY <1>1 DEF Alone, Sound
  <2>5. Sound("cloning", w)
    BY <2>1, <2>2, <2>4 DEF Sound, Holding
  <2> QED
    BY <1>1, <1>3, <2>2, <2>3, <2>5, GoesOn DEF Labels
<1>4. ASSUME Finish(p), UNCHANGED home PROVE Alone' /\ RecordsKept
  BY <1>1, <1>4, Finishes
<1> QED
  BY <1>3, <1>4 DEF Create

LEMMA SaveRecordAlone ==
  ASSUME OneOperator, Typed, Alone, NEW p \in Operators, SaveRecord(p)
  PROVE  Alone' /\ RecordsKept
<1> USE DEF Typed
<1> DEFINE g == work[p].guest
           a == work[p].address
<1>1. pc[p] = "save" /\ UNCHANGED home
  BY DEF SaveRecord
<1>2. g \in Guests
  BY <1>1, LabelFits DEF Labels
<1>3. /\ a \in Addresses /\ record[g] = None
      /\ \A h \in Guests : record[h] # a
  BY <1>1 DEF Alone, Sound, Holding
<1>4. CASE g \in home /\ record' = [record EXCEPT ![g] = a] /\ Continue(p, "snapshot")
  <2>1. \A q \in Operators : pc'[q] = "snapshot"
    BY <1>4 DEF OneOperator, Continue, Running
  <2>2. \A q \in Operators : Sound(pc[q], work[q])'
    BY <2>1 DEF Sound, Holding
  <2> HIDE DEF g, a
  <2>3. record'[g] = a /\ \A h \in Guests : h # g => record'[h] = record[h]
    BY <1>2, <1>4 DEF Recorded
  <2> QED
    BY <1>1, <1>3, <1>4, <2>2, <2>3 DEF Alone, Homed, DistinctAddresses, RecordsKept
<1>5. CASE Finish(p) /\ UNCHANGED record
  BY <1>1, <1>5, Finishes
<1> QED
  BY <1>4, <1>5 DEF SaveRecord

LEMMA NextAlone == OneOperator /\ Typed /\ Alone /\ [Next]_vars => Alone' /\ RecordsKept
<1> SUFFICES ASSUME OneOperator, Typed, Alone, [Next]_vars PROVE Alone' /\ RecordsKept
  OBVIOUS
<1>1. ASSUME NEW p \in Operators, Invoke(p) \/ Proceed(p) \/ CopyFails(p) \/ Raise(p) \/ Kill(p)
      PROVE  Alone' /\ RecordsKept
  BY <1>1, BeginAlone, HoldingAlone, StopAlone, SnapshotAlone, RaiseAlone, RemoveHomeAlone,
     CreateAlone, SaveRecordAlone DEF Invoke, Proceed, Typed
<1>2. ASSUME NEW g \in Guests, Systemd(g) \/ Guest(g) PROVE Alone' /\ RecordsKept
  BY <1>2, StaysAlone DEF Systemd, Boot, Restart, Guest, VmFails, VmExits, VmWrites, files
<1>3. CASE PowerFailure
  BY <1>3 DEF PowerFailure, files, Alone, Homed, DistinctAddresses, Sound, Holding, RecordsKept
<1>4. CASE UNCHANGED vars
  BY <1>4, StaysAlone DEF vars, files
<1> QED
  BY <1>1, <1>2, <1>3, <1>4 DEF Next

\* While one operator works at a time, no two guests have one address, whatever
\* is killed or fails between the choice of an address and the saving of the
\* record (_allocate_guest_ip reads the records, save_user_record writes one).
THEOREM AddressIsSafe == OneOperator => (Spec => []DistinctAddresses)
<1>1. OneOperator /\ Typed /\ Alone /\ [Next]_vars => Typed' /\ Alone'
  BY NextTyped, NextAlone
<1>2. Init => Typed /\ Alone
  BY InitTyped, InitAlone
<1>3. OneOperator /\ Typed /\ Alone => DistinctAddresses
  BY DEF Alone
<1> SUFFICES ASSUME OneOperator PROVE Spec => []DistinctAddresses
  OBVIOUS
<1>4. Typed /\ Alone /\ [Next]_vars => Typed' /\ Alone'
  BY <1>1
<1> QED
  BY <1>2, <1>3, <1>4, PTL DEF Spec

\* While one operator works at a time, a guest that was provisioned keeps its
\* record: nothing removes its home, and no second record replaces it.
THEOREM ProvisionedIsSafe == OneOperator => (Spec => ProvisionedIsKept)
<1> SUFFICES ASSUME OneOperator PROVE Spec => ProvisionedIsKept
  OBVIOUS
<1>1. Init => Typed /\ Alone
  BY InitTyped, InitAlone
<1>2. Typed /\ Alone /\ [Next]_vars => Typed' /\ Alone'
  BY NextTyped, NextAlone
<1>3. Typed /\ Alone /\ [Next]_vars =>
        [\A g \in Guests : record[g] # None => record'[g] = record[g]]_vars
  BY NextAlone DEF RecordsKept
<1> QED
  BY <1>1, <1>2, <1>3, PTL DEF Spec, ProvisionedIsKept

-----------------------------------------------------------------------------
(* The coordinator's directory, with one operator and manifests that name a  *)
(* Slack user: no entry is published for the others.                         *)

Listed == Manifests \subseteq {"listed", "bad"}

Published(l, w) ==
  /\ l \in {"rmtree", "create", "cloning", "manifest"} /\ w.cmd = "provision"
       => w.manifest \in {"listed", "bad"}
  /\ l = "publish" => w.entries = directory
  /\ l \in {"mount", "apply", "unmount", "clear", "save"} /\ w.cmd = "provision"
       => directory[w.guest] = w.address

Entries == EntryMatchesRecord /\ \A p \in Operators : Published(pc[p], work[p])

LEMMA InitEntries == Init => Entries
  BY DEF Init, Entries, EntryMatchesRecord, Published

\* The records and the directory stay, and the command goes on.
LEMMA EntriesStay ==
  ASSUME Running, Entries, NEW p \in Operators, NEW l \in Labels, NEW w \in WorkSet, Goto(p, l, w),
         Published(l, w), UNCHANGED <<record, directory>>
  PROVE  Entries'
<1>1. ASSUME NEW q \in Operators PROVE Published(pc[q], work[q])'
  <2>1. CASE q = p
    <3>1. pc'[p] = l /\ work'[p] = w
      BY DEF Goto, Running
    <3> QED
      BY <2>1, <3>1 DEF Published
  <2>2. CASE q # p
    <3>1. pc'[q] = pc[q] /\ work'[q] = work[q]
      BY <2>2 DEF Goto, Running
    <3> QED
      BY <3>1 DEF Published, Entries
  <2> QED
    BY <2>1, <2>2
<1> QED
  BY <1>1 DEF Entries, EntryMatchesRecord

LEMMA EntriesContinue ==
  ASSUME Running, Entries, NEW p \in Operators, NEW l \in Labels, Continue(p, l),
         Published(l, work[p]), UNCHANGED <<record, directory>>
  PROVE  Entries'
<1>1. work[p] \in WorkSet /\ Goto(p, l, work[p])
  BY DEF Running, Continue, Goto
<1> QED
  BY <1>1, EntriesStay

LEMMA EntriesFinish ==
  ASSUME Running, Entries, NEW p \in Operators, Finish(p), UNCHANGED <<record, directory>>
  PROVE  Entries'
<1>1. "idle" \in Labels /\ Published("idle", NoWork)
  BY DEF Labels, Published
<1> QED
  BY <1>1, NoWorkTyped, EntriesStay DEF Finish

\* The labels at which nothing is relied on.
Elsewhere ==
  {"stop", "start", "starting", "load", "snapshot", "snapshotting", "unlink", "replace",
   "replacing"}

LEMMA EntriesBegin ==
  ASSUME Listed, Running, Entries, NEW p \in Operators,
         Provision(p) \/ Activate(p) \/ SnapshotCreate(p) \/ Restore(p)
  PROVE  Entries'
<1>1. UNCHANGED <<record, directory>>
  BY DEF Provision, Activate, SnapshotCreate, Restore, files
<1>2. CASE Provision(p)
  <2>1. PICK g \in Guests, m \in Manifests :
          LET w == [NoWork EXCEPT !.cmd = "provision", !.guest = g, !.manifest = m]
          IN Goto(p, "create", w) \/ Goto(p, "rmtree", w)
    BY <1>2 DEF Provision
  <2> DEFINE w == [NoWork EXCEPT !.cmd = "provision", !.guest = g, !.manifest = m]
  <2>2. w \in WorkSet /\ w.manifest = m
    BY <1>2, HostAssumption DEF Provision, NoWork, WorkSet
  <2>3. Goto(p, "create", w) \/ Goto(p, "rmtree", w)
    BY <2>1
  <2> HIDE DEF w
  <2>4. Published("create", w) /\ Published("rmtree", w)
    BY <2>2 DEF Published, Listed
  <2> QED
    BY <1>1, <2>2, <2>3, <2>4, EntriesStay DEF Labels
<1>3. CASE Activate(p)
  <2>1. PICK g \in Guests, m \in Manifests, restart \in BOOLEAN :
          LET w == [NoWork EXCEPT !.cmd = "activate", !.guest = g, !.manifest = m,
                                  !.restart = restart \/ IsRunning(g)]
          IN Goto(p, "manifest", w) \/ Goto(p, "stop", w)
    BY <1>3 DEF Activate
  <2> DEFINE w == [NoWork EXCEPT !.cmd = "activate", !.guest = g, !.manifest = m,
                                 !.restart = restart \/ IsRunning(g)]
  <2>2. (restart \/ IsRunning(g)) \in BOOLEAN
    OBVIOUS
  <2>3. w \in WorkSet /\ w.cmd = "activate"
    BY <1>3, <2>2, HostAssumption DEF Activate, NoWork, WorkSet
  <2>4. Goto(p, "manifest", w) \/ Goto(p, "stop", w)
    BY <2>1
  <2> HIDE DEF w
  <2>5. Published("manifest", w) /\ Published("stop", w)
    BY <2>3 DEF Published
  <2> QED
    BY <1>1, <2>3, <2>4, <2>5, EntriesStay DEF Labels
<1>4. CASE SnapshotCreate(p)
  <2>1. PICK g \in Guests : Goto(p, "snapshot", [NoWork EXCEPT !.cmd = "snapshot", !.guest = g])
    BY <1>4 DEF SnapshotCreate
  <2> DEFINE w == [NoWork EXCEPT !.cmd = "snapshot", !.guest = g]
  <2>2. w \in WorkSet
    BY <1>4, HostAssumption DEF SnapshotCreate, NoWork, WorkSet
  <2>3. Goto(p, "snapshot", w)
    BY <2>1
  <2> HIDE DEF w
  <2> QED
    BY <1>1, <2>2, <2>3, EntriesStay DEF Labels, Published
<1>5. CASE Restore(p)
  <2>1. PICK g \in Guests, s \in Snapshots :
          LET w == [NoWork EXCEPT !.cmd = "restore", !.guest = g, !.snap = s]
          IN Goto(p, "snapshot", w) \/ Goto(p, "stop", w)
    BY <1>5 DEF Restore
  <2> DEFINE w == [NoWork EXCEPT !.cmd = "restore", !.guest = g, !.snap = s]
  <2>2. w \in WorkSet
    BY <1>5, HostAssumption DEF Restore, NoWork, WorkSet
  <2>3. Goto(p, "snapshot", w) \/ Goto(p, "stop", w)
    BY <2>1
  <2> HIDE DEF w
  <2> QED
    BY <1>1, <2>2, <2>3, EntriesStay DEF Labels, Published
<1> QED
  BY <1>2, <1>3, <1>4, <1>5

\* The steps of a provision up to the publication of its entry.
LEMMA EntriesToLoad ==
  ASSUME Listed, Typed, Alone, Entries, NEW p \in Operators,
         Create(p) \/ FinishCopy(p) \/ StoreManifest(p) \/ LoadDirectory(p)
  PROVE  Entries'
<1> USE DEF Typed
<1> DEFINE u == work[p]
<1>1. pc[p] # "idle" /\ UNCHANGED <<record, directory>>
  BY DEF Create, FinishCopy, Copying, StoreManifest, LoadDirectory, files
<1>2. u \in WorkSet /\ u.guest \in Guests /\ Sound(pc[p], u) /\ Published(pc[p], u)
  BY <1>1, LabelFits DEF Labels, Alone, Entries
<1>3. ASSUME Finish(p) PROVE Entries'
  BY <1>1, <1>3, EntriesFinish
<1>4. CASE Create(p)
  <2>1. CASE Finish(p)
    BY <1>3, <2>1
  <2>2. ASSUME NEW a \in Free, Goto(p, "cloning", [u EXCEPT !.address = a]) PROVE Entries'
    <3> DEFINE w == [u EXCEPT !.address = a]
    <3>1. w \in WorkSet /\ w.cmd = u.cmd /\ w.manifest = u.manifest
      BY <1>2 DEF WorkSet, Free
    <3>2. Goto(p, "cloning", w)
      BY <2>2
    <3>3. u.cmd = "provision" => u.manifest \in {"listed", "bad"}
      BY <1>2, <1>4 DEF Create, Published
    <3> HIDE DEF w, u
    <3> QED
      BY <1>1, <3>1, <3>2, <3>3, EntriesStay DEF Labels, Published
  <2> QED
    BY <1>4, <2>1, <2>2 DEF Create
<1>5. CASE FinishCopy(p)
  <2>1. CASE pc[p] = "cloning" /\ Continue(p, "manifest")
    <3>1. Published("manifest", u)
      BY <1>2, <2>1 DEF Published
    <3> QED
      BY <1>1, <2>1, <3>1, EntriesContinue DEF Labels
  <2>2. CASE Continue(p, "unlink")
    BY <1>1, <2>2, EntriesContinue DEF Labels, Published
  <2> QED
    BY <1>3, <1>5, <2>1, <2>2 DEF FinishCopy
<1>6. CASE StoreManifest(p)
  <2> DEFINE m == IF u.manifest = "none" THEN manifest[u.guest] ELSE u.manifest
             w == [u EXCEPT !.manifest = m]
  <2>1. \/ Finish(p) \/ Goto(p, "load", w)
        \/ Goto(p, "mount", w) /\ m # "bad" /\ ~(m = "listed" /\ u.cmd = "provision")
    BY <1>6 DEF StoreManifest
  <2>2. m \in {"none", "plain", "listed", "bad"}
    BY <1>2 DEF WorkSet, Recorded
  <2>3. w \in WorkSet /\ w.cmd = u.cmd
    BY <1>2, <2>2 DEF WorkSet
  <2>4. u.cmd = "provision" => m \in {"listed", "bad"}
    BY <1>2, <1>6 DEF StoreManifest, Published
  <2> HIDE DEF w, u, m
  <2>5. CASE Goto(p, "mount", w) /\ w.cmd # "provision"
    BY <1>1, <2>3, <2>5, EntriesStay DEF Labels, Published
  <2>6. CASE Goto(p, "load", w)
    BY <1>1, <2>3, <2>6, EntriesStay DEF Labels, Published
  <2> QED
    BY <1>3, <2>1, <2>3, <2>4, <2>5, <2>6
<1>7. CASE LoadDirectory(p)
  <2> DEFINE w == [u EXCEPT !.entries = directory]
  <2>1. Goto(p, "publish", w)
    BY <1>7 DEF LoadDirectory
  <2>2. w \in WorkSet /\ w.entries = directory
    BY <1>2 DEF WorkSet, Recorded
  <2> HIDE DEF w, u
  <2> QED
    BY <1>1, <2>1, <2>2, EntriesStay DEF Labels, Published
<1> QED
  BY <1>4, <1>5, <1>6, <1>7

\* The entry written is the only change, since nobody else writes the directory
\* between the read and the write.
LEMMA EntriesPublish ==
  ASSUME OneOperator, Typed, Alone, Entries, NEW p \in Operators, PublishEntry(p)
  PROVE  Entries'
<1> USE DEF Typed
<1> DEFINE u == work[p]
           g == u.guest
<1>1. pc[p] = "publish" /\ UNCHANGED record
  BY DEF PublishEntry
<1>2. u \in WorkSet /\ g \in Guests /\ Sound(pc[p], u) /\ u.entries = directory
  BY <1>1, LabelFits DEF Labels, Alone, Entries, Published
<1>3. directory' = [directory EXCEPT ![g] = AddressOf(p)]
  BY <1>2 DEF PublishEntry
<1>4. AddressOf(p) = IF u.cmd = "provision" THEN u.address ELSE record[g]
  BY DEF AddressOf
<1>5. u.cmd = "provision" => record[g] = None
  BY <1>1, <1>2 DEF Sound, Holding
<1>6. \A q \in Operators : pc'[q] \in {"mount", "unmount"} /\ work'[q] = work[p]
  BY DEF PublishEntry, Continue, OneOperator, Running
<1> HIDE DEF g
<1>7. directory'[g] = AddressOf(p) /\ \A h \in Guests : h # g => directory'[h] = directory[h]
  BY <1>2, <1>3 DEF Recorded
<1>8. \A q \in Operators : Published(pc[q], work[q])'
  BY <1>4, <1>6, <1>7 DEF Published, g
<1> HIDE DEF u
<1>9. EntryMatchesRecord'
  BY <1>1, <1>4, <1>5, <1>7 DEF EntryMatchesRecord, Entries
<1> QED
  BY <1>8, <1>9 DEF Entries

\* The steps of a provision or an activation after it.
LEMMA EntriesToSave ==
  ASSUME Typed, Alone, Entries, NEW p \in Operators,
         Mount(p) \/ Apply(p) \/ Unmount(p) \/ Clear(p)
  PROVE  Entries'
<1> USE DEF Typed
<1> DEFINE u == work[p]
           v == [u EXCEPT !.failed = TRUE]
<1>1. /\ pc[p] \in {"mount", "apply", "unmount", "clear"} /\ UNCHANGED <<record, directory>>
      /\ \/ Finish(p) \/ Continue(p, "load") \/ Continue(p, "start")
         \/ \E l \in {"apply", "unmount", "clear", "save"} : Continue(p, l) \/ Goto(p, l, v)
  BY DEF Mount, Apply, Unmount, Clear, files
<1>2. u \in WorkSet /\ Published(pc[p], u)
  BY <1>1, LabelFits DEF Labels, Entries
<1>3. v \in WorkSet /\ v.cmd = u.cmd /\ v.guest = u.guest /\ v.address = u.address
  BY <1>2 DEF WorkSet
<1> HIDE DEF u, v
<1>4. \A l \in {"apply", "unmount", "clear", "save", "load", "start"} :
        l \in Labels /\ Published(l, u) /\ Published(l, v)
  BY <1>1, <1>2, <1>3 DEF Published, Labels
<1>5. CASE Finish(p)
  BY <1>1, <1>5, EntriesFinish
<1>6. ASSUME NEW l \in {"apply", "unmount", "clear", "save", "load", "start"}, Continue(p, l)
      PROVE  Entries'
  BY <1>1, <1>4, <1>6, EntriesContinue DEF u
<1>7. ASSUME NEW l \in {"apply", "unmount", "clear", "save"}, Goto(p, l, v) PROVE Entries'
  BY <1>1, <1>3, <1>4, <1>7, EntriesStay
<1> QED
  BY <1>1, <1>5, <1>6, <1>7

LEMMA EntriesRaise ==
  ASSUME Typed, Entries, NEW p \in Operators, Raise(p)
  PROVE  Entries'
<1> USE DEF Typed
<1>1. UNCHANGED <<record, directory>>
  BY RaiseGoes DEF files
<1>2. CASE Finish(p)
  BY <1>1, <1>2, EntriesFinish
<1>3. ASSUME NEW w \in WorkSet, w.cmd = work[p].cmd, w.guest = work[p].guest,
             w.address = work[p].address, Goto(p, "unmount", w),
             pc[p] \in {"load", "publish"} => w.cmd # "provision"
      PROVE  Entries'
  <2>1. Published(pc[p], work[p]) /\ pc[p] \in Mounting
    BY RaiseGoes DEF Entries
  <2>2. Published("unmount", w)
    BY <1>3, <2>1 DEF Published, Mounting
  <2> QED
    BY <1>1, <1>3, <2>2, EntriesStay DEF Labels
<1> QED
  BY <1>2, <1>3, RaiseGoes

\* The commands that neither provision nor publish.
LEMMA EntriesElsewhere ==
  ASSUME Typed, Entries, NEW p \in Operators,
         \/ Start(p) \/ Started(p) \/ Stop(p) \/ TakeSnapshot(p) \/ UnlinkDisk(p)
         \/ ReplaceDisk(p) \/ CopyFails(p) \/ Kill(p)
  PROVE  Entries'
<1> USE DEF Typed
<1>1. UNCHANGED <<record, directory>>
  BY DEF Start, Started, Stop, TakeSnapshot, UnlinkDisk, ReplaceDisk, CopyFails, Kill, files
<1>2. ASSUME Finish(p) PROVE Entries'
  BY <1>1, <1>2, EntriesFinish
<1>3. ASSUME NEW l \in Elsewhere, Continue(p, l) PROVE Entries'
  BY <1>1, <1>3, EntriesContinue DEF Labels, Published, Elsewhere
<1>4. ASSUME NEW g \in Guests, "start" \in Commands,
             Goto(p, "starting", [NoWork EXCEPT !.cmd = "start", !.guest = g])
      PROVE  Entries'
  <2> DEFINE w == [NoWork EXCEPT !.cmd = "start", !.guest = g]
  <2>1. w \in WorkSet /\ Goto(p, "starting", w)
    BY <1>4 DEF NoWork, WorkSet
  <2> HIDE DEF w
  <2> QED
    BY <1>1, <2>1, EntriesStay DEF Labels, Published
<1>5. ASSUME work[p].cmd = "activate", Continue(p, "manifest") PROVE Entries'
  BY <1>1, <1>5, EntriesContinue DEF Labels, Published
<1>6. ASSUME NEW s \in Snapshots, pc[p] # "idle", Goto(p, "snapshotting", [work[p] EXCEPT !.into = s])
      PROVE  Entries'
  <2> DEFINE w == [work[p] EXCEPT !.into = s]
  <2>1. work[p] \in WorkSet
    BY <1>6, LabelFits DEF Labels
  <2>2. w \in WorkSet /\ Goto(p, "snapshotting", w)
    BY <1>6, <2>1 DEF WorkSet
  <2> HIDE DEF w
  <2> QED
    BY <1>1, <2>2, EntriesStay DEF Labels, Published
<1>7. CASE Start(p) \/ Started(p) \/ Stop(p)
  BY <1>2, <1>3, <1>4, <1>5, <1>7 DEF Start, Started, Stop, Elsewhere
<1> QED
  BY <1>2, <1>3, <1>6, <1>7 DEF TakeSnapshot, UnlinkDisk, ReplaceDisk, CopyFails, Kill, Elsewhere

LEMMA EntriesRecords ==
  ASSUME OneOperator, Typed, Alone, Entries, NEW p \in Operators, RemoveHome(p) \/ SaveRecord(p)
  PROVE  Entries'
<1> USE DEF Typed
<1> DEFINE g == work[p].guest
<1>1. pc[p] \in {"rmtree", "save"} /\ UNCHANGED directory
  BY DEF RemoveHome, SaveRecord
<1>2. g \in Guests /\ Sound(pc[p], work[p]) /\ Published(pc[p], work[p])
  BY <1>1, LabelFits DEF Labels, Alone, Entries
<1>3. CASE pc[p] = "rmtree" /\ record' = [record EXCEPT ![g] = None] /\ Continue(p, "create")
  <2>1. record' = record
    BY <1>2, <1>3 DEF Sound, Recorded
  <2>2. Published("create", work[p])
    BY <1>2, <1>3 DEF Published
  <2> QED
    BY <1>1, <1>3, <2>1, <2>2, EntriesContinue DEF Labels
<1>4. CASE /\ pc[p] = "save" /\ record' = [record EXCEPT ![g] = work[p].address]
           /\ Continue(p, "snapshot")
  <2>1. directory[g] = work[p].address
    BY <1>2, <1>4 DEF Sound, Published
  <2>2. \A q \in Operators : pc'[q] = "snapshot"
    BY <1>4 DEF OneOperator, Continue, Running
  <2>3. \A q \in Operators : Published(pc[q], work[q])'
    BY <2>2 DEF Published
  <2>4. record'[g] = work[p].address /\ \A h \in Guests : h # g => record'[h] = record[h]
    BY <1>2, <1>4 DEF Recorded
  <2> HIDE DEF g
  <2> QED
    BY <1>1, <2>1, <2>3, <2>4 DEF Entries, EntryMatchesRecord
<1>5. CASE Finish(p) /\ UNCHANGED record
  BY <1>1, <1>5, EntriesFinish
<1> QED
  BY <1>3, <1>4, <1>5 DEF RemoveHome, SaveRecord

LEMMA NextEntries ==
  OneOperator /\ Listed /\ Typed /\ Alone /\ Entries /\ [Next]_vars => Entries'
<1> SUFFICES ASSUME OneOperator, Listed, Typed, Alone, Entries, [Next]_vars PROVE Entries'
  OBVIOUS
<1>1. ASSUME NEW p \in Operators, Invoke(p) \/ Proceed(p) \/ CopyFails(p) \/ Raise(p) \/ Kill(p)
      PROVE  Entries'
  BY <1>1, EntriesBegin, EntriesToLoad, EntriesPublish, EntriesToSave, EntriesRaise,
     EntriesElsewhere, EntriesRecords DEF Invoke, Proceed, Typed
<1>2. ASSUME UNCHANGED <<record, directory, pc, work>> PROVE Entries'
  BY <1>2 DEF Entries, EntryMatchesRecord, Published
<1>3. ASSUME NEW g \in Guests, Systemd(g) \/ Guest(g) PROVE Entries'
  BY <1>2, <1>3 DEF Systemd, Boot, Restart, Guest, VmFails, VmExits, VmWrites, files
<1>4. CASE PowerFailure
  BY <1>4 DEF PowerFailure, files, Entries, EntryMatchesRecord, Published
<1>5. CASE UNCHANGED vars
  BY <1>2, <1>5 DEF vars, files
<1> QED
  BY <1>1, <1>3, <1>4, <1>5 DEF Next

\* While one operator works at a time, with manifests that name a Slack user,
\* the coordinator finds every guest at the address of its record, whatever is
\* killed or fails between the publication of the entry and the saving of the
\* record (_sync_coordinator_directory_from_manifest before save_user_record).
THEOREM EntryIsSafe == OneOperator /\ Listed => (Spec => []EntryMatchesRecord)
<1> SUFFICES ASSUME OneOperator, Listed PROVE Spec => []EntryMatchesRecord
  OBVIOUS
<1>1. Init => Typed /\ Alone /\ Entries
  BY InitTyped, InitAlone, InitEntries
<1>2. Typed /\ Alone /\ Entries /\ [Next]_vars => Typed' /\ Alone' /\ Entries'
  BY NextTyped, NextAlone, NextEntries
<1>3. Typed /\ Alone /\ Entries => EntryMatchesRecord
  BY DEF Entries
<1> QED
  BY <1>1, <1>2, <1>3, PTL DEF Spec

-----------------------------------------------------------------------------
(* The users of a disk, with one operator whose commands are not killed and   *)
(* whose umount succeeds: what a killed command mounted stays mounted.        *)

Unharmed == MaxFaults["kill"] = 0 /\ MaxFaults["umount"] = 0

Off == Holding \cup {"rmtree", "create"}
Replaces == {"snapshotting", "unlink", "replace", "replacing"}

\* What a command that is about to do l relies on: the guest is off, and does
\* not start when its disk is put back.
Rests(l, w) ==
  /\ l \in Off => unit[w.guest] # "active"
  /\ l \in Replaces => unit[w.guest] = "inactive"

\* A unit that has yet to start has no disk to start from, or its command waits.
Runs(g) ==
  /\ vm[g] = IF unit[g] = "active" THEN "disk" ELSE "none"
  /\ unit[g] # "inactive" => record[g] # None
  /\ unit[g] = "auto-restart" => image[<<g, "disk">>] = Absent
  /\ unit[g] = "starting" /\ image[<<g, "disk">>] # Absent
       => \E p \in Operators : pc[p] = "starting" /\ work[p].guest = g

\* What is mounted is so once, by a command that goes on to unmount it.
MountedOnce(g) ==
  /\ Len(mounts[g]) <= 1
  /\ mounts[g] # << >> =>
       \E p \in Operators :
         /\ pc[p] \in Mounting /\ work[p].guest = g
         /\ pc[p] \in {"load", "publish"} => work[p].cmd # "provision"

Exclusive ==
  /\ \A p \in Operators : Rests(pc[p], work[p])
  /\ \A g \in Guests : Runs(g) /\ MountedOnce(g)

\* Disks appear and go only where no unit could notice.
DisksStay(g) ==
  unit[g] # "inactive" => (image'[<<g, "disk">>] = Absent <=> image[<<g, "disk">>] = Absent)

LEMMA InitExclusive == Init => Exclusive
  BY DEF Init, Exclusive, Rests, Runs, MountedOnce, Off, Holding, Replaces

LEMMA DiskUsedOnce ==
  ASSUME OneOperator, Typed, Exclusive
  PROVE  DiskHasOneUser
<1>1. ASSUME NEW g \in Guests, mounts[g] # << >>
      PROVE  vm[g] # "disk" /\ \A p \in Operators : ~CopiesDisk(p, g)
  <2>1. PICK p \in Operators : pc[p] \in Mounting /\ work[p].guest = g
    BY <1>1 DEF Exclusive, MountedOnce
  <2>2. pc[p] \in Off
    BY <2>1 DEF Mounting, Off, Holding
  <2>3. vm[g] # "disk"
    BY <2>1, <2>2 DEF Exclusive, Rests, Runs
  <2> QED
    BY <2>1, <2>3 DEF CopiesDisk, Copying, Mounting, OneOperator
<1>2. ASSUME NEW g \in Guests, NEW p \in Operators, CopiesDisk(p, g) PROVE vm[g] # "disk"
  <2>1. pc[p] \in Off \cup Replaces
    BY <1>2 DEF CopiesDisk, Copying, Off, Holding, Replaces
  <2> QED
    BY <1>2, <2>1 DEF CopiesDisk, Exclusive, Rests, Runs
<1> QED
  BY <1>1, <1>2 DEF DiskHasOneUser, OneOperator, Exclusive, MountedOnce

LEMMA DiskPresent ==
  ASSUME Images, NEW g \in Guests, NEW l \in Locations, NEW i \in Image \cup {Absent, Empty},
         l = "disk" => i # Empty, Put(g, l, i)
  PROVE  /\ \A h \in Guests : h # g => DisksStay(h)
         /\ l # "disk" \/ (i \in Image /\ image[<<g, "disk">>] # Absent) => DisksStay(g)
<1>1. /\ image'[<<g, l>>] = i
      /\ \A h \in Guests, k \in Locations : h # g \/ k # l => image'[<<h, k>>] = image[<<h, k>>]
  BY PutTyped
<1> QED
  BY <1>1, Names DEF DisksStay

\* The command goes on, and nothing else that matters changes.
LEMMA ExclusiveMove ==
  ASSUME OneOperator, Running, Exclusive, NEW p \in Operators, NEW l \in Labels, NEW w \in WorkSet,
         Goto(p, l, w), UNCHANGED <<units, mounts>>, RecordsKept, Rests(l, w),
         \A g \in Guests : DisksStay(g),
         pc[p] = "starting" => unit[work[p].guest] # "starting",
         \A g \in Guests : mounts[g] # << >> =>
            l \in Mounting /\ w.guest = g /\ (l \in {"load", "publish"} => w.cmd # "provision")
  PROVE  Exclusive'
<1>1. UNCHANGED <<unit, vm>>
  BY DEF units
<1>2. \A q \in Operators : q = p /\ pc'[q] = l /\ work'[q] = w
  BY DEF OneOperator, Goto, Running
<1>3. \A q \in Operators : Rests(pc[q], work[q])'
  BY <1>1, <1>2 DEF Rests
<1>4. ASSUME NEW g \in Guests PROVE Runs(g)'
  <2>1. ~(unit[g] = "starting" /\ image[<<g, "disk">>] # Absent)
    BY <1>2 DEF Exclusive, Runs
  <2>2. Runs(g)
    BY DEF Exclusive
  <2>3. DisksStay(g) /\ (record[g] # None => record'[g] = record[g])
    BY DEF RecordsKept
  <2> QED
    BY <1>1, <2>1, <2>2, <2>3 DEF Runs, DisksStay
<1>5. ASSUME NEW g \in Guests PROVE MountedOnce(g)'
  BY <1>2 DEF Exclusive, MountedOnce
<1> QED
  BY <1>3, <1>4, <1>5 DEF Exclusive

\* What the current command has mounted.
LEMMA MountedByUs ==
  ASSUME OneOperator, Exclusive, NEW p \in Operators, NEW g \in Guests, mounts[g] # << >>
  PROVE  /\ pc[p] \in Mounting /\ work[p].guest = g
         /\ pc[p] \in {"load", "publish"} => work[p].cmd # "provision"
  BY DEF OneOperator, Exclusive, MountedOnce

LEMMA ExclusiveFinish ==
  ASSUME OneOperator, Running, Exclusive, NEW p \in Operators, Finish(p),
         UNCHANGED <<units, mounts>>, RecordsKept, \A g \in Guests : DisksStay(g),
         pc[p] = "starting" => unit[work[p].guest] # "starting", pc[p] \notin Mounting
  PROVE  Exclusive'
<1>1. "idle" \in Labels /\ Rests("idle", NoWork)
  BY DEF Labels, Rests, Off, Holding, Replaces
<1>2. \A g \in Guests : mounts[g] = << >>
  BY MountedByUs
<1> QED
  BY <1>1, <1>2, NoWorkTyped, ExclusiveMove DEF Finish

\* A step at which nothing is mounted.
LEMMA ExclusiveStep ==
  ASSUME OneOperator, Running, Exclusive, NEW p \in Operators, NEW l \in Labels, NEW w \in WorkSet,
         Goto(p, l, w), UNCHANGED <<units, mounts>>, RecordsKept, Rests(l, w),
         \A g \in Guests : DisksStay(g), pc[p] \notin Mounting \cup {"starting"}
  PROVE  Exclusive'
<1>1. \A g \in Guests : mounts[g] = << >>
  BY MountedByUs
<1> QED
  BY <1>1, ExclusiveMove

LEMMA ExclusiveContinue ==
  ASSUME OneOperator, Running, Exclusive, NEW p \in Operators, NEW l \in Labels,
         Continue(p, l), UNCHANGED <<units, mounts>>, RecordsKept, Rests(l, work[p]),
         \A g \in Guests : DisksStay(g), pc[p] \notin Mounting \cup {"starting"}
  PROVE  Exclusive'
<1>1. work[p] \in WorkSet /\ Goto(p, l, work[p])
  BY DEF Running, Continue, Goto
<1> QED
  BY <1>1, ExclusiveStep

LEMMA ImagesStay == UNCHANGED image => \A g \in Guests : DisksStay(g)
  BY DEF DisksStay

LEMMA RestsElsewhere ==
  ASSUME NEW l, NEW w, l \notin Off \cup Replaces
  PROVE  Rests(l, w)
  BY DEF Rests

\* A unit that is not running cannot start while the command has its guest.
LEMMA OffNow ==
  ASSUME OneOperator, Exclusive, NEW p \in Operators, pc[p] # "starting", NEW g \in Guests
  PROVE  /\ record[g] = None => unit[g] = "inactive"
         /\ Counted /\ unit[g] # "active" /\ image[<<g, "disk">>] # Absent => unit[g] = "inactive"
  BY DEF OneOperator, Exclusive, Runs, Counted

LEMMA BeginExclusive ==
  ASSUME OneOperator, Typed, Alone, Exclusive, RecordsKept, NEW p \in Operators,
         Provision(p) \/ Activate(p) \/ SnapshotCreate(p) \/ Restore(p)
  PROVE  Exclusive'
<1> USE DEF Typed
<1>1. UNCHANGED <<image, units, mounts>> /\ pc[p] = "idle"
  BY DEF Provision, Activate, SnapshotCreate, Restore, files
<1>2. (\A g \in Guests : DisksStay(g)) /\ pc[p] \notin Mounting \cup {"starting"}
  BY <1>1, ImagesStay DEF Mounting
<1>3. CASE Provision(p)
  <2>1. PICK g \in Guests, m \in Manifests :
          LET w == [NoWork EXCEPT !.cmd = "provision", !.guest = g, !.manifest = m]
          IN /\ g \notin home \/ record[g] = None
             /\ Goto(p, "create", w) \/ Goto(p, "rmtree", w)
    BY <1>3 DEF Provision
  <2> DEFINE w == [NoWork EXCEPT !.cmd = "provision", !.guest = g, !.manifest = m]
  <2>2. w \in WorkSet /\ w.guest = g
    BY <1>3, HostAssumption DEF Provision, NoWork, WorkSet
  <2>3. Goto(p, "create", w) \/ Goto(p, "rmtree", w)
    BY <2>1
  <2> HIDE DEF w
  <2>4. record[g] = None
    BY <2>1 DEF Alone, Homed
  <2>5. unit[w.guest] = "inactive"
    BY <1>1, <2>2, <2>4, OffNow
  <2>6. Rests("create", w) /\ Rests("rmtree", w)
    BY <2>5 DEF Rests
  <2> QED
    BY <1>1, <1>2, <2>2, <2>3, <2>6, ExclusiveStep DEF Labels
<1>4. CASE Activate(p)
  <2>1. PICK g \in Guests, m \in Manifests, restart \in BOOLEAN :
          LET w == [NoWork EXCEPT !.cmd = "activate", !.guest = g, !.manifest = m,
                                  !.restart = restart \/ IsRunning(g)]
          IN (Goto(p, "manifest", w) /\ ~IsRunning(g)) \/ Goto(p, "stop", w)
    BY <1>4 DEF Activate
  <2> DEFINE w == [NoWork EXCEPT !.cmd = "activate", !.guest = g, !.manifest = m,
                                 !.restart = restart \/ IsRunning(g)]
  <2>2. (restart \/ IsRunning(g)) \in BOOLEAN
    OBVIOUS
  <2>3. w \in WorkSet /\ w.guest = g
    BY <1>4, <2>2, HostAssumption DEF Activate, NoWork, WorkSet
  <2>4. (Goto(p, "manifest", w) /\ unit[g] # "active") \/ Goto(p, "stop", w)
    BY <2>1 DEF IsRunning
  <2> HIDE DEF w
  <2>5. unit[g] # "active" => Rests("manifest", w)
    BY <2>3 DEF Rests, Replaces
  <2>6. Rests("stop", w)
    BY RestsElsewhere DEF Off, Holding, Replaces
  <2> QED
    BY <1>1, <1>2, <2>3, <2>4, <2>5, <2>6, ExclusiveStep DEF Labels
<1>5. CASE SnapshotCreate(p)
  <2>1. PICK g \in Guests : Goto(p, "snapshot", [NoWork EXCEPT !.cmd = "snapshot", !.guest = g])
    BY <1>5 DEF SnapshotCreate
  <2> DEFINE w == [NoWork EXCEPT !.cmd = "snapshot", !.guest = g]
  <2>2. w \in WorkSet
    BY <1>5, HostAssumption DEF SnapshotCreate, NoWork, WorkSet
  <2>3. Goto(p, "snapshot", w)
    BY <2>1
  <2> HIDE DEF w
  <2>4. Rests("snapshot", w)
    BY RestsElsewhere DEF Off, Holding, Replaces
  <2> QED
    BY <1>1, <1>2, <2>2, <2>3, <2>4, ExclusiveStep DEF Labels
<1>6. CASE Restore(p)
  <2>1. PICK g \in Guests, s \in Snapshots :
          LET w == [NoWork EXCEPT !.cmd = "restore", !.guest = g, !.snap = s]
          IN Goto(p, "snapshot", w) \/ Goto(p, "stop", w)
    BY <1>6 DEF Restore
  <2> DEFINE w == [NoWork EXCEPT !.cmd = "restore", !.guest = g, !.snap = s]
  <2>2. w \in WorkSet
    BY <1>6, HostAssumption DEF Restore, NoWork, WorkSet
  <2>3. Goto(p, "snapshot", w) \/ Goto(p, "stop", w)
    BY <2>1
  <2> HIDE DEF w
  <2>4. Rests("snapshot", w) /\ Rests("stop", w)
    BY RestsElsewhere DEF Off, Holding, Replaces
  <2> QED
    BY <1>1, <1>2, <2>2, <2>3, <2>4, ExclusiveStep DEF Labels
<1> QED
  BY <1>3, <1>4, <1>5, <1>6


LEMMA CopyExclusive ==
  ASSUME OneOperator, Typed, Exclusive, RecordsKept, NEW p \in Operators,
         FinishCopy(p) \/ CopyFails(p)
  PROVE  Exclusive'
<1> USE DEF Typed
<1> DEFINE g == work[p].guest
           t == TargetOf(p)
           d == image[<<g, t>>].data
<1>1. Copying(p) /\ UNCHANGED <<units, mounts>> /\ \E ok \in BOOLEAN : CopyEnds(p, ok)
  BY DEF FinishCopy, CopyFails
<1>2. g \in Guests /\ t \in Locations
  BY <1>1, TargetTyped
<1>3. \A h \in Guests : DisksStay(h)
  <2>1. CASE ~OwnsTarget(p)
    BY <1>1, <2>1, ImagesStay DEF CopyEnds
  <2>2. CASE OwnsTarget(p)
    <3>1. image[<<g, t>>] \in Image
      BY <2>2 DEF OwnsTarget
    <3>2. \/ Put(g, t, [data |-> d, state |-> "whole"])
          \/ Put(g, t, [data |-> d, state |-> "damaged"])
      BY <1>1, <2>2 DEF CopyEnds
    <3>3. /\ [data |-> d, state |-> "whole"] \in Image
          /\ [data |-> d, state |-> "damaged"] \in Image
      BY <3>1, ImageFields
    <3>4. t = "disk" => image[<<g, "disk">>] # Absent
      BY <3>1, Names
    <3> HIDE DEF g, t, d
    <3>5. CASE Put(g, t, [data |-> d, state |-> "whole"])
      BY <1>2, <3>3, <3>4, <3>5, DiskPresent, Names
    <3>6. CASE Put(g, t, [data |-> d, state |-> "damaged"])
      BY <1>2, <3>3, <3>4, <3>6, DiskPresent, Names
    <3> QED
      BY <3>2, <3>5, <3>6
  <2> QED
    BY <2>1, <2>2
<1>4. pc[p] \notin Mounting \cup {"starting"}
  BY <1>1 DEF Copying, Mounting
<1>5. Rests(pc[p], work[p])
  BY DEF Exclusive
<1>6. CASE Finish(p)
  BY <1>1, <1>3, <1>4, <1>6, ExclusiveFinish
<1>7. CASE pc[p] = "cloning" /\ Continue(p, "manifest")
  <2>1. Rests("manifest", work[p])
    BY <1>5, <1>7 DEF Rests, Off, Holding, Replaces
  <2> QED
    BY <1>1, <1>3, <1>4, <1>7, <2>1, ExclusiveContinue DEF Labels
<1>8. CASE pc[p] = "snapshotting" /\ Continue(p, "unlink")
  <2>1. Rests("unlink", work[p])
    BY <1>5, <1>8 DEF Rests, Off, Holding, Replaces
  <2> QED
    BY <1>1, <1>3, <1>4, <1>8, <2>1, ExclusiveContinue DEF Labels
<1> QED
  BY <1>6, <1>7, <1>8 DEF FinishCopy, CopyFails

LEMMA RaiseExclusive ==
  ASSUME OneOperator, Typed, Exclusive, RecordsKept, NEW p \in Operators, Raise(p)
  PROVE  Exclusive'
<1> USE DEF Typed
<1>1. UNCHANGED <<units, mounts, image>> /\ pc[p] \in Mounting /\ work[p].guest \in Guests
  BY RaiseGoes DEF files
<1>2. unit[work[p].guest] # "active"
  BY <1>1 DEF Exclusive, Rests, Off, Holding, Mounting
<1>3. \A h \in Guests : DisksStay(h)
  BY <1>1, ImagesStay
<1>4. CASE Finish(p) /\ pc[p] \in {"load", "publish"} /\ work[p].cmd = "provision"
  <2>1. \A h \in Guests : mounts[h] = << >>
    BY <1>4, MountedByUs
  <2>2. "idle" \in Labels /\ Rests("idle", NoWork)
    BY DEF Labels, Rests, Off, Holding, Replaces
  <2> QED
    BY <1>1, <1>3, <1>4, <2>1, <2>2, NoWorkTyped, ExclusiveMove DEF Finish
<1>5. ASSUME NEW w \in WorkSet, w.guest = work[p].guest, Goto(p, "unmount", w)
      PROVE  Exclusive'
  <2>1. \A h \in Guests : mounts[h] # << >> => w.guest = h
    BY <1>5, MountedByUs
  <2>2. Rests("unmount", w)
    BY <1>2, <1>5 DEF Rests, Replaces
  <2> QED
    BY <1>1, <1>3, <1>5, <2>1, <2>2, ExclusiveMove DEF Labels, Mounting
<1> QED
  BY <1>4, <1>5, RaiseGoes

\* The steps of a provision and an activation that neither mount nor unmount.
LEMMA HoldingExclusive ==
  ASSUME OneOperator, Typed, Alone, Exclusive, RecordsKept, NEW p \in Operators,
         \/ StoreManifest(p) \/ LoadDirectory(p) \/ PublishEntry(p) \/ Apply(p) \/ Clear(p)
         \/ SaveRecord(p)
  PROVE  Exclusive'
<1> USE DEF Typed
<1> DEFINE u == work[p]
           g == u.guest
<1>1. /\ pc[p] \in {"manifest", "load", "publish", "apply", "clear", "save"}
      /\ UNCHANGED <<units, mounts>>
  BY DEF StoreManifest, LoadDirectory, PublishEntry, Apply, Clear, SaveRecord
<1>2. u \in WorkSet /\ g \in Guests
  BY <1>1, LabelFits DEF Labels
<1>3. unit[g] # "active"
  BY <1>1 DEF Exclusive, Rests, Off, Holding
<1>4. \A h \in Guests : DisksStay(h)
  <2>1. CASE UNCHANGED image
    BY <2>1, ImagesStay
  <2>2. CASE /\ mounts[g] # << >> /\ Top(g) = "disk"
             /\ Put(g, "disk", [data |-> image[<<g, "disk">>].data, state |-> "damaged"])
    <3>1. image[<<g, "disk">>] \in Image
      BY <1>2, <2>2, TopOpened
    <3>2. [data |-> image[<<g, "disk">>].data, state |-> "damaged"] \in Image
      BY <3>1, ImageFields
    <3> HIDE DEF g
    <3> QED
      BY <1>2, <2>2, <3>1, <3>2, DiskPresent, Names
  <2> QED
    BY <2>1, <2>2 DEF StoreManifest, LoadDirectory, PublishEntry, Apply, Clear, SaveRecord, files
<1>5. ASSUME NEW l \in Holding, NEW w \in WorkSet, w.guest = g, Goto(p, l, w),
             \A h \in Guests : mounts[h] # << >> =>
               l \in Mounting /\ w.guest = h /\ (l \in {"load", "publish"} => w.cmd # "provision")
      PROVE  Exclusive'
  <2>1. Rests(l, w) /\ l \in Labels
    BY <1>3, <1>5 DEF Rests, Off, Holding, Replaces, Labels
  <2> HIDE DEF u, g
  <2> QED
    BY <1>1, <1>4, <1>5, <2>1, ExclusiveMove
<1>6. CASE StoreManifest(p)
  <2> DEFINE m == IF u.manifest = "none" THEN manifest[g] ELSE u.manifest
             w == [u EXCEPT !.manifest = m]
  <2>1. pc[p] = "manifest" /\ (Finish(p) \/ Goto(p, "load", w) \/ Goto(p, "mount", w))
    BY <1>6 DEF StoreManifest
  <2>2. m \in {"none", "plain", "listed", "bad"}
    BY <1>2 DEF WorkSet, Recorded
  <2>3. w \in WorkSet /\ w.guest = g
    BY <1>2, <2>2 DEF WorkSet
  <2>4. \A h \in Guests : mounts[h] = << >>
    BY <2>1, MountedByUs DEF Mounting
  <2>5. CASE Finish(p)
    BY <1>1, <1>4, <2>1, <2>5, ExclusiveFinish DEF Mounting
  <2> HIDE DEF w, u, g
  <2> QED
    BY <1>5, <2>1, <2>3, <2>4, <2>5 DEF Holding
<1>7. CASE LoadDirectory(p)
  <2> DEFINE w == [u EXCEPT !.entries = directory]
  <2>1. pc[p] = "load" /\ Goto(p, "publish", w)
    BY <1>7 DEF LoadDirectory
  <2>2. w \in WorkSet /\ w.guest = g /\ w.cmd = u.cmd
    BY <1>2 DEF WorkSet, Recorded
  <2>3. \A h \in Guests : mounts[h] # << >> => g = h /\ u.cmd # "provision"
    BY <2>1, MountedByUs
  <2> HIDE DEF w, u, g
  <2> QED
    BY <1>5, <2>1, <2>2, <2>3 DEF Holding, Mounting
<1>8. CASE PublishEntry(p)
  <2>1. /\ pc[p] = "publish"
        /\ Continue(p, IF u.cmd = "provision" THEN "mount" ELSE "unmount")
    BY <1>8 DEF PublishEntry
  <2>2. \A h \in Guests : mounts[h] # << >> => g = h /\ u.cmd # "provision"
    BY <2>1, MountedByUs
  <2>3. CASE u.cmd = "provision"
    <3>1. Goto(p, "mount", u)
      BY <2>1, <2>3 DEF Continue, Goto, Running
    <3> HIDE DEF u, g
    <3> QED
      BY <1>2, <1>5, <2>2, <2>3, <3>1 DEF Holding, g
  <2>4. CASE u.cmd # "provision"
    <3>1. Goto(p, "unmount", u)
      BY <2>1, <2>4 DEF Continue, Goto, Running
    <3> HIDE DEF u, g
    <3> QED
      BY <1>2, <1>5, <2>2, <2>4, <3>1 DEF Holding, Mounting, g
  <2> QED
    BY <2>3, <2>4
<1>9. CASE Apply(p)
  <2> DEFINE w == [u EXCEPT !.failed = TRUE]
  <2>1. /\ pc[p] = "apply"
        /\ \/ Continue(p, "load") /\ u.cmd = "activate"
           \/ Continue(p, "unmount") \/ Goto(p, "unmount", w)
    BY <1>9 DEF Apply
  <2>2. w \in WorkSet /\ w.guest = g
    BY <1>2 DEF WorkSet
  <2>3. \A h \in Guests : mounts[h] # << >> => g = h
    BY <2>1, MountedByUs
  <2>4. \/ Goto(p, "load", u) /\ u.cmd = "activate"
        \/ Goto(p, "unmount", u) \/ Goto(p, "unmount", w)
    BY <2>1 DEF Continue, Goto, Running
  <2> HIDE DEF w, u, g
  <2>5. CASE Goto(p, "load", u) /\ u.cmd = "activate"
    BY <1>2, <1>5, <2>3, <2>5 DEF Holding, Mounting, g
  <2>6. CASE Goto(p, "unmount", u)
    BY <1>2, <1>5, <2>3, <2>6 DEF Holding, Mounting, g
  <2>7. CASE Goto(p, "unmount", w)
    BY <1>5, <2>2, <2>3, <2>7 DEF Holding, Mounting
  <2> QED
    BY <2>4, <2>5, <2>6, <2>7
<1>10. CASE Clear(p) \/ SaveRecord(p)
  <2>1. /\ pc[p] \in {"clear", "save"} /\ pc[p] \notin Mounting \cup {"starting"}
        /\ \/ Finish(p) \/ Continue(p, "save") \/ Continue(p, "start") \/ Continue(p, "snapshot")
    BY <1>10 DEF Clear, SaveRecord, Mounting
  <2>2. Rests("save", u)
    BY <1>3 DEF Rests, Replaces
  <2>3. Rests("start", u) /\ Rests("snapshot", u)
    BY RestsElsewhere DEF Off, Holding, Replaces
  <2>4. CASE Finish(p)
    BY <1>1, <1>4, <2>1, <2>4, ExclusiveFinish
  <2>5. CASE Continue(p, "save")
    BY <1>1, <1>4, <2>1, <2>2, <2>5, ExclusiveContinue DEF Labels
  <2>6. CASE Continue(p, "start") \/ Continue(p, "snapshot")
    BY <1>1, <1>4, <2>1, <2>3, <2>6, ExclusiveContinue DEF Labels
  <2> QED
    BY <2>1, <2>4, <2>5, <2>6
<1> QED
  BY <1>6, <1>7, <1>8, <1>9, <1>10

\* The guest's directory and its disk, removed and made.
LEMMA HomeExclusive ==
  ASSUME OneOperator, Typed, Alone, Exclusive, RecordsKept, NEW p \in Operators,
         RemoveHome(p) \/ Create(p)
  PROVE  Exclusive'
<1> USE DEF Typed
<1> DEFINE g == work[p].guest
<1>1. pc[p] \in {"rmtree", "create"} /\ pc[p] \notin Mounting \cup {"starting"}
  BY DEF RemoveHome, Create, Mounting
<1>2. g \in Guests /\ work[p] \in WorkSet
  BY <1>1, LabelFits DEF Labels
<1>3. record[g] = None
  BY <1>1 DEF Alone, Sound
<1>4. unit[g] = "inactive" /\ vm[g] = "none" /\ \A h \in Guests : mounts[h] = << >>
  BY <1>1, <1>2, <1>3, OffNow, MountedByUs DEF Exclusive, Runs
<1>5. CASE Create(p)
  <2>1. UNCHANGED <<units, mounts>>
    BY <1>5 DEF Create
  <2>2. CASE Finish(p) /\ UNCHANGED image
    BY <1>1, <2>1, <2>2, ImagesStay, ExclusiveFinish
  <2>3. ASSUME NEW a \in Free, Put(g, "disk", [data |-> 0, state |-> p]),
               Goto(p, "cloning", [work[p] EXCEPT !.address = a])
        PROVE  Exclusive'
    <3> DEFINE w == [work[p] EXCEPT !.address = a]
    <3>1. w \in WorkSet /\ w.guest = g
      BY <1>2 DEF WorkSet, Free
    <3>2. Goto(p, "cloning", w)
      BY <2>3
    <3>3. [data |-> 0, state |-> p] \in Image
      BY ImageFields
    <3> HIDE DEF w, g
    <3>4. \A h \in Guests : DisksStay(h)
      <4>1. \A h \in Guests : h # g => DisksStay(h)
        BY <1>2, <2>3, <3>3, DiskPresent, Names
      <4> QED
        BY <1>4, <4>1 DEF DisksStay
    <3>5. Rests("cloning", w)
      BY <1>4, <3>1 DEF Rests
    <3> QED
      BY <1>1, <2>1, <3>1, <3>2, <3>4, <3>5, ExclusiveStep DEF Labels
  <2> QED
    BY <1>5, <2>2, <2>3 DEF Create
<1>6. CASE RemoveHome(p)
  <2>1. CASE Finish(p) /\ UNCHANGED <<image, vm, mounts, unit, tap>>
    BY <1>1, <2>1, ImagesStay, ExclusiveFinish DEF units
  <2>2. CASE /\ image' = [gl \in Guests \X Locations |-> IF gl[1] = g THEN Absent ELSE image[gl]]
             /\ Orphan(g) /\ Continue(p, "create") /\ UNCHANGED <<unit, tap>>
    <3> HIDE DEF g
    <3>1. vm' = vm
      BY <1>2, <1>4, <2>2 DEF Orphan, Opened
    <3>2. mounts' = mounts
      <4>1. mounts[g] = << >>
        BY <1>2, <1>4
      <4>2. [i \in DOMAIN mounts[g] |-> "orphan"] = mounts[g]
        BY <4>1
      <4> QED
        BY <1>2, <2>2, <4>2 DEF Orphan, Opened
    <3>3. \A h \in Guests : DisksStay(h)
      <4>1. \A h \in Guests : h # g => image'[<<h, "disk">>] = image[<<h, "disk">>]
        BY <2>2, Names
      <4> QED
        BY <1>4, <4>1 DEF DisksStay
    <3>4. Rests("create", work[p])
      BY <1>4 DEF Rests, Replaces, g
    <3> QED
      BY <1>1, <2>2, <3>1, <3>2, <3>3, <3>4, ExclusiveContinue DEF units, Labels
  <2> QED
    BY <1>6, <2>1, <2>2 DEF RemoveHome
<1> QED
  BY <1>5, <1>6

LEMMA RestoreExclusive ==
  ASSUME OneOperator, Typed, Alone, Exclusive, RecordsKept, NEW p \in Operators,
         TakeSnapshot(p) \/ UnlinkDisk(p) \/ ReplaceDisk(p)
  PROVE  Exclusive'
<1> USE DEF Typed
<1> DEFINE g == work[p].guest
<1>1. /\ pc[p] \in {"snapshot", "unlink", "replace"} /\ pc[p] \notin Mounting \cup {"starting"}
      /\ pc[p] # "idle"
  BY DEF TakeSnapshot, UnlinkDisk, ReplaceDisk, Mounting
<1>2. g \in Guests /\ work[p] \in WorkSet
  BY <1>1, LabelFits DEF Labels
<1>3. \A h \in Guests : mounts[h] = << >>
  BY <1>1, MountedByUs
<1>4. pc[p] \in Replaces => unit[g] = "inactive" /\ vm[g] = "none"
  BY <1>2 DEF Exclusive, Rests, Runs
<1>5. CASE TakeSnapshot(p)
  <2>1. pc[p] = "snapshot" /\ UNCHANGED <<units, mounts>>
    BY <1>5 DEF TakeSnapshot
  <2>2. CASE Finish(p) /\ UNCHANGED image
    BY <1>1, <2>1, <2>2, ImagesStay, ExclusiveFinish
  <2>3. ASSUME NEW s \in Snapshots, Put(g, s, Empty), Finish(p) PROVE Exclusive'
    <3> HIDE DEF g
    <3>1. \A h \in Guests : DisksStay(h)
      BY <1>2, <2>3, DiskPresent, Names
    <3> QED
      BY <1>1, <2>1, <2>3, <3>1, ExclusiveFinish
  <2>4. ASSUME NEW s \in Snapshots, MaySnapshot(p), image[<<g, "disk">>] # Absent,
               Put(g, s, [data |-> image[<<g, "disk">>].data, state |-> p]),
               Goto(p, "snapshotting", [work[p] EXCEPT !.into = s])
        PROVE  Exclusive'
    <3> DEFINE w == [work[p] EXCEPT !.into = s]
               d == image[<<g, "disk">>].data
    <3>1. w \in WorkSet /\ w.guest = g /\ Goto(p, "snapshotting", w)
      BY <1>2, <2>4 DEF WorkSet
    <3>2. image[<<g, "disk">>] \in Image
      BY <1>2, <2>4, Names DEF Images
    <3>3. [data |-> d, state |-> p] \in Image /\ Put(g, s, [data |-> d, state |-> p])
      BY <2>4, <3>2, ImageFields
    <3>4. unit[g] = "inactive"
      BY <1>1, <1>2, <2>4, OffNow DEF MaySnapshot, IsRunning
    <3> HIDE DEF w, g, d
    <3>5. \A h \in Guests : DisksStay(h)
      BY <1>2, <3>3, DiskPresent, Names
    <3>6. Rests("snapshotting", w)
      BY <3>1, <3>4 DEF Rests
    <3> QED
      BY <1>1, <2>1, <3>1, <3>5, <3>6, ExclusiveStep DEF Labels
  <2> QED
    BY <1>5, <2>2, <2>3, <2>4 DEF TakeSnapshot
<1>6. CASE UnlinkDisk(p)
  <2>1. pc[p] = "unlink" /\ unit[g] = "inactive" /\ vm[g] = "none"
    BY <1>4, <1>6 DEF UnlinkDisk, Replaces
  <2>2. CASE Finish(p) /\ UNCHANGED <<image, units, mounts>>
    BY <1>1, <2>2, ImagesStay, ExclusiveFinish
  <2>3. CASE /\ Put(g, "disk", Absent) /\ Orphan(g) /\ Continue(p, "replace")
             /\ UNCHANGED <<unit, tap>>
    <3> HIDE DEF g
    <3>1. vm' = vm
      BY <1>2, <2>1, <2>3 DEF Orphan, Opened
    <3>2. mounts' = mounts
      <4>1. mounts[g] = << >>
        BY <1>2, <1>3
      <4>2. [i \in DOMAIN mounts[g] |-> "orphan"] = mounts[g]
        BY <4>1
      <4> QED
        BY <1>2, <2>3, <4>2 DEF Orphan, Opened
    <3>3. \A h \in Guests : DisksStay(h)
      <4>1. \A h \in Guests : h # g => DisksStay(h)
        BY <1>2, <2>3, DiskPresent, Names
      <4> QED
        BY <2>1, <4>1 DEF DisksStay
    <3>4. Rests("replace", work[p])
      BY <2>1 DEF Rests, Replaces, Off, Holding, g
    <3> QED
      BY <1>1, <2>3, <3>1, <3>2, <3>3, <3>4, ExclusiveContinue DEF units, Labels
  <2> QED
    BY <1>6, <2>2, <2>3 DEF UnlinkDisk, units
<1>7. CASE ReplaceDisk(p)
  <2>1. pc[p] = "replace" /\ unit[g] = "inactive" /\ UNCHANGED <<units, mounts>>
    BY <1>4, <1>7 DEF ReplaceDisk, Replaces
  <2>2. CASE Finish(p) /\ UNCHANGED image
    BY <1>1, <2>1, <2>2, ImagesStay, ExclusiveFinish
  <2> DEFINE d == image[<<g, work[p].snap>>].data
  <2>3. CASE /\ image[<<g, work[p].snap>>] \in Image
             /\ Put(g, "disk", [data |-> d, state |-> p]) /\ Continue(p, "replacing")
    <3>1. [data |-> d, state |-> p] \in Image
      BY <2>3, ImageFields
    <3> HIDE DEF g, d
    <3>2. \A h \in Guests : DisksStay(h)
      <4>1. \A h \in Guests : h # g => DisksStay(h)
        BY <1>2, <2>3, <3>1, DiskPresent, Names
      <4> QED
        BY <2>1, <4>1 DEF DisksStay
    <3>3. Rests("replacing", work[p])
      BY <2>1 DEF Rests, Replaces, Off, Holding, g
    <3> QED
      BY <1>1, <2>1, <2>3, <3>2, <3>3, ExclusiveContinue DEF Labels
  <2> QED
    BY <1>7, <2>2, <2>3 DEF ReplaceDisk
<1> QED
  BY <1>5, <1>6, <1>7


LEMMA MountExclusive ==
  ASSUME OneOperator, Typed, Exclusive, RecordsKept, NEW p \in Operators, Mount(p)
  PROVE  Exclusive'
<1> USE DEF Typed
<1> DEFINE g == work[p].guest
           w == [work[p] EXCEPT !.failed = TRUE]
<1>1. pc[p] = "mount" /\ pc[p] \notin Mounting \cup {"starting"}
      /\ UNCHANGED <<image, record, unit, vm, units>>
  BY DEF Mount, Mounting, files, units
<1>2. g \in Guests /\ work[p] \in WorkSet
  BY <1>1, LabelFits DEF Labels
<1>3. w \in WorkSet /\ w.guest = g
  BY <1>2 DEF WorkSet
<1>4. \A h \in Guests : mounts[h] = << >>
  BY <1>1, MountedByUs
<1>5. unit[g] # "active"
  BY <1>1 DEF Exclusive, Rests, Off, Holding
<1>6. CASE Goto(p, "clear", w) /\ UNCHANGED mounts
  <2>1. Rests("clear", w)
    BY <1>3, <1>5 DEF Rests, Replaces
  <2> HIDE DEF w
  <2> QED
    BY <1>1, <1>3, <1>6, <2>1, ImagesStay, ExclusiveStep DEF Labels
<1>7. CASE mounts' = [mounts EXCEPT ![g] = Append(@, "disk")] /\ Continue(p, "apply")
  <2>1. \A q \in Operators : q = p /\ pc'[q] = "apply" /\ work'[q] = work[p]
    BY <1>7 DEF OneOperator, Continue, Running
  <2>2. \A q \in Operators : Rests(pc[q], work[q])'
    BY <1>1, <1>5, <2>1 DEF Rests, Replaces
  <2>3. ASSUME NEW h \in Guests PROVE Runs(h)'
    BY <1>1, <2>1 DEF Exclusive, Runs
  <2> HIDE DEF g
  <2>4. Len(mounts'[g]) = 1 /\ \A h \in Guests : h # g => mounts'[h] = << >>
    <3>1. mounts'[g] = Append(<< >>, "disk")
      BY <1>2, <1>4, <1>7 DEF Opened
    <3>2. Len(Append(<< >>, "disk")) = 1
      OBVIOUS
    <3> QED
      BY <1>2, <1>4, <1>7, <3>1, <3>2 DEF Opened
  <2>5. Len(<< >>) = 0
    OBVIOUS
  <2>6. ASSUME NEW h \in Guests PROVE MountedOnce(h)'
    <3>1. CASE h = g
      <4>1. Len(mounts'[h]) <= 1
        <5>1. mounts'[h] = mounts'[g]
          BY <3>1
        <5>2. Len(mounts'[h]) = 1
          BY <2>4, <5>1
        <5> QED
          BY <5>2
      <4>2. pc'[p] \in Mounting /\ pc'[p] \notin {"load", "publish"}
        BY <2>1 DEF Mounting
      <4>3. work'[p].guest = h
        BY <2>1, <3>1 DEF g
      <4> QED
        BY <4>1, <4>2, <4>3 DEF MountedOnce
    <3>2. CASE h # g
      BY <2>4, <2>5, <3>2 DEF MountedOnce
    <3> QED
      BY <3>1, <3>2
  <2> QED
    BY <2>2, <2>3, <2>6 DEF Exclusive
<1> QED
  BY <1>6, <1>7 DEF Mount

LEMMA OneLong ==
  ASSUME NEW S, NEW s \in Seq(S), Len(s) <= 1, s # << >>
  PROVE  Len(s) = 1
<1>1. Len(s) \in Nat /\ DOMAIN s = 1 .. Len(s) /\ s = [i \in 1 .. Len(s) |-> s[i]]
  OBVIOUS
<1>2. CASE Len(s) = 0
  <2>1. s = << >>
    BY <1>2
  <2> QED
    BY <2>1
<1> QED
  BY <1>1, <1>2

LEMMA UnmountExclusive ==
  ASSUME OneOperator, Unharmed, Typed, Exclusive, NEW p \in Operators, Unmount(p)
  PROVE  Exclusive'
<1> USE DEF Typed
<1> DEFINE g == work[p].guest
<1>1. pc[p] = "unmount" /\ UNCHANGED <<image, record, unit, vm>>
  BY DEF Unmount, files, units
<1>2. g \in Guests
  BY <1>1, LabelFits DEF Labels
<1>3. ~Fault("umount")
  <2>1. faults["umount"] \in Nat /\ MaxFaults["umount"] = 0
    BY DEF Counted, FaultKinds, Unharmed
  <2> QED
    BY <2>1 DEF Fault
<1>4. mounts' = [mounts EXCEPT ![g] = IF @ = << >> THEN @ ELSE SubSeq(@, 1, Len(@) - 1)]
  BY <1>3 DEF Unmount
<1>5. unit[g] # "active"
  BY <1>1 DEF Exclusive, Rests, Off, Holding
<1>6. \A q \in Operators : q = p /\ pc'[q] = "clear" /\ work'[q] = work[p]
  BY DEF OneOperator, Continue, Running, Unmount
<1>7. \A q \in Operators : Rests(pc[q], work[q])'
  BY <1>1, <1>5, <1>6 DEF Rests, Replaces
<1>8. ASSUME NEW h \in Guests PROVE Runs(h)'
  BY <1>1, <1>6 DEF Exclusive, Runs
<1>9. \A h \in Guests : h # g => mounts[h] = << >>
  BY MountedByUs
<1> HIDE DEF g
<1>10. mounts[g] \in Seq({"disk", "orphan"}) /\ Len(mounts[g]) <= 1
  BY <1>2 DEF Opened, Exclusive, MountedOnce
<1>11. mounts'[g] = << >>
  <2>1. CASE mounts[g] = << >>
    BY <1>2, <1>4, <2>1 DEF Opened
  <2>2. CASE mounts[g] # << >>
    <3>1. Len(mounts[g]) = 1
      BY <1>10, <2>2, OneLong
    <3>2. SubSeq(mounts[g], 1, 0) = << >>
      BY <1>10
    <3> QED
      BY <1>2, <1>4, <2>2, <3>1, <3>2 DEF Opened
  <2> QED
    BY <2>1, <2>2
<1>12. \A h \in Guests : mounts'[h] = << >>
  BY <1>2, <1>4, <1>9, <1>11 DEF Opened
<1>13. ASSUME NEW h \in Guests PROVE MountedOnce(h)'
  <2>1. Len(<< >>) = 0
    OBVIOUS
  <2> QED
    BY <1>12, <2>1 DEF MountedOnce
<1> QED
  BY <1>7, <1>8, <1>13 DEF Exclusive

\* A unit is started or stopped while nothing is mounted and no disk is replaced.
LEMMA UnitExclusive ==
  ASSUME OneOperator, Typed, Exclusive, NEW p \in Operators, NEW g \in Guests, NEW l,
         pc[p] \in {"idle", "start", "stop"}, l \in {"idle", "starting", "manifest", "snapshot"},
         record[g] # None, UNCHANGED <<image, record, mounts>>, pc'[p] = l,
         l \in {"starting", "manifest"} => work'[p].guest = g,
         \/ StartUnit(g) /\ l = "starting"
         \/ VmEnds(g, "inactive") /\ l # "starting"
  PROVE  Exclusive'
<1> USE DEF Typed
<1>1. \A q \in Operators : q = p
  BY DEF OneOperator
<1>2. \A h \in Guests : mounts'[h] = << >>
  BY MountedByUs DEF Mounting
<1>3. Len(<< >>) = 0
  OBVIOUS
<1>4. \A h \in Guests : MountedOnce(h)'
  BY <1>2, <1>3 DEF MountedOnce
<1>5. \A h \in Guests : Runs(h) /\ ~(unit[h] = "starting" /\ image[<<h, "disk">>] # Absent)
  BY <1>1 DEF Exclusive, Runs
<1>6. CASE StartUnit(g) /\ l = "starting"
  <2>1. /\ vm' = vm /\ unit'[g] = (IF unit[g] = "active" THEN "active" ELSE "starting")
        /\ \A h \in Guests : h # g => unit'[h] = unit[h]
    BY <1>6 DEF StartUnit, Counted
  <2>2. \A h \in Guests : Runs(h)'
    BY <1>5, <1>6, <2>1 DEF Runs
  <2>3. \A q \in Operators : Rests(pc[q], work[q])'
    BY <1>1, <1>6 DEF Rests, Off, Holding, Replaces
  <2> QED
    BY <1>4, <2>2, <2>3 DEF Exclusive
<1>7. CASE VmEnds(g, "inactive") /\ l # "starting"
  <2>1. /\ vm'[g] = "none" /\ unit'[g] = "inactive"
        /\ \A h \in Guests : h # g => unit'[h] = unit[h] /\ vm'[h] = vm[h]
    BY <1>7 DEF VmEnds, Counted, Opened
  <2>2. \A h \in Guests : Runs(h)'
    BY <1>5, <2>1 DEF Runs
  <2>3. \A q \in Operators : Rests(pc[q], work[q])'
    BY <1>1, <1>7, <2>1 DEF Rests, Off, Holding, Replaces
  <2> QED
    BY <1>4, <2>2, <2>3 DEF Exclusive
<1> QED
  BY <1>6, <1>7

LEMMA StopExclusive ==
  ASSUME OneOperator, Typed, Exclusive, RecordsKept, NEW p \in Operators,
         Start(p) \/ Started(p) \/ Stop(p)
  PROVE  Exclusive'
<1> USE DEF Typed
<1>1. UNCHANGED <<image, record, mounts>>
  BY DEF Start, Started, Stop, files
<1>2. pc[p] \notin Mounting
  BY DEF Start, Started, Stop, Mounting
<1>3. ASSUME UNCHANGED units, Finish(p), pc[p] = "starting" => unit[work[p].guest] # "starting"
      PROVE  Exclusive'
  BY <1>1, <1>2, <1>3, ImagesStay, ExclusiveFinish
<1>4. CASE Started(p)
  BY <1>3, <1>4 DEF Started
<1>5. CASE Start(p)
  <2>1. ASSUME NEW g \in Guests, pc[p] = "idle", "start" \in Commands, record[g] # None,
               StartUnit(g), Goto(p, "starting", [NoWork EXCEPT !.cmd = "start", !.guest = g])
        PROVE  Exclusive'
    <3>1. pc'[p] = "starting" /\ work'[p].guest = g
      BY <2>1 DEF Goto, Running, NoWork
    <3> QED
      BY <1>1, <2>1, <3>1, UnitExclusive
  <2>2. CASE /\ pc[p] = "start" /\ record[work[p].guest] # None
             /\ StartUnit(work[p].guest) /\ Continue(p, "starting")
    <3>1. work[p].guest \in Guests
      BY <2>2, LabelFits DEF Labels
    <3>2. pc'[p] = "starting" /\ work'[p].guest = work[p].guest
      BY <2>2 DEF Continue, Running
    <3> QED
      BY <1>1, <2>2, <3>1, <3>2, UnitExclusive
  <2> QED
    BY <1>3, <1>5, <2>1, <2>2 DEF Start
<1>6. CASE Stop(p)
  <2>1. ASSUME NEW g \in Guests, pc[p] = "idle", record[g] # None, VmEnds(g, "inactive"), Finish(p)
        PROVE  Exclusive'
    <3>1. pc'[p] = "idle"
      BY <2>1 DEF Finish, Goto, Running
    <3> QED
      BY <1>1, <2>1, <3>1, UnitExclusive
  <2>2. ASSUME NEW l \in {"manifest", "snapshot"}, pc[p] = "stop", record[work[p].guest] # None,
               VmEnds(work[p].guest, "inactive"), Continue(p, l)
        PROVE  Exclusive'
    <3>1. work[p].guest \in Guests
      BY <2>2, LabelFits DEF Labels
    <3>2. pc'[p] = l /\ work'[p].guest = work[p].guest
      BY <2>2 DEF Continue, Running
    <3> QED
      BY <1>1, <2>2, <3>1, <3>2, UnitExclusive
  <2> QED
    BY <1>3, <1>6, <2>1, <2>2 DEF Stop
<1> QED
  BY <1>4, <1>5, <1>6

\* systemd and the guest: only the unit its command waits for starts.
LEMMA GuestExclusive ==
  ASSUME OneOperator, Typed, Exclusive, NEW g \in Guests,
         Boot(g) \/ Restart(g) \/ VmExits(g) \/ VmWrites(g)
  PROVE  Exclusive'
<1> USE DEF Typed
<1>1. UNCHANGED <<record, mounts, pc, work>>
  BY DEF Boot, Restart, VmExits, VmWrites, files
<1>2. \A h \in Guests : MountedOnce(h)'
  BY <1>1 DEF Exclusive, MountedOnce
<1>3. ASSUME UNCHANGED image, NEW u \in {"starting", "auto-restart", "inactive", "active"},
             unit' = [unit EXCEPT ![g] = u], unit[g] # "inactive",
             vm'[g] = (IF u = "active" THEN "disk" ELSE "none"),
             \A h \in Guests : h # g => vm'[h] = vm[h],
             u \in {"starting", "auto-restart"} => image[<<g, "disk">>] = Absent,
             u = "active" => \E p \in Operators : pc[p] = "starting"
      PROVE  Exclusive'
  <2>1. unit'[g] = u /\ \A h \in Guests : h # g => unit'[h] = unit[h]
    BY <1>3 DEF Counted
  <2>2. ASSUME NEW h \in Guests PROVE Runs(h)'
    <3>1. Runs(h)
      BY DEF Exclusive
    <3>2. CASE h = g
      BY <1>1, <1>3, <2>1, <3>1, <3>2 DEF Runs
    <3>3. CASE h # g
      BY <1>1, <1>3, <2>1, <3>1, <3>3 DEF Runs
    <3> QED
      BY <3>2, <3>3
  <2>3. ASSUME NEW q \in Operators PROVE Rests(pc[q], work[q])'
    <3>1. Rests(pc[q], work[q])
      BY DEF Exclusive
    <3>2. CASE u = "active"
      <4>1. pc[q] = "starting"
        BY <1>3, <3>2 DEF OneOperator
      <4> QED
        BY <1>1, <4>1 DEF Rests, Off, Holding, Replaces
    <3>3. CASE u # "active"
      <4>1. pc[q] \in Off \cup Replaces => work[q].guest \in Guests
        BY DEF Running, Fits, Off, Holding, Replaces
      <4> QED
        BY <1>1, <1>3, <2>1, <3>1, <3>3, <4>1 DEF Rests
    <3> QED
      BY <3>2, <3>3
  <2> QED
    BY <1>2, <2>2, <2>3 DEF Exclusive
<1>4. Runs(g)
  BY DEF Exclusive
<1>5. CASE Boot(g)
  <2>1. unit[g] = "starting" /\ UNCHANGED image /\ record[g] # None
    BY <1>4, <1>5 DEF Boot, Runs, files
  <2>2. CASE image[<<g, "disk">>] = Absent
    <3>1. VmEnds(g, "auto-restart")
      BY <1>5, <2>2 DEF Boot
    <3>2. vm'[g] = "none" /\ \A h \in Guests : h # g => vm'[h] = vm[h]
      BY <3>1 DEF VmEnds, Opened
    <3> QED
      BY <1>3, <2>1, <2>2, <3>1, <3>2 DEF VmEnds
  <2>3. CASE image[<<g, "disk">>] # Absent
    <3>1. unit' = [unit EXCEPT ![g] = "active"] /\ vm' = [vm EXCEPT ![g] = "disk"]
      BY <1>5, <2>1, <2>3 DEF Boot
    <3>2. vm'[g] = "disk" /\ \A h \in Guests : h # g => vm'[h] = vm[h]
      BY <3>1 DEF Opened
    <3>3. \E p \in Operators : pc[p] = "starting"
      BY <1>4, <2>1, <2>3 DEF Runs
    <3> QED
      BY <1>3, <2>1, <3>1, <3>2, <3>3
  <2> QED
    BY <2>2, <2>3
<1>6. CASE Restart(g)
  <2>1. unit[g] = "auto-restart" /\ unit' = [unit EXCEPT ![g] = "starting"] /\ UNCHANGED <<image, vm>>
    BY <1>6 DEF Restart, files
  <2>2. vm'[g] = "none" /\ image[<<g, "disk">>] = Absent
    BY <1>4, <2>1 DEF Runs
  <2> QED
    BY <1>3, <2>1, <2>2
<1>7. CASE VmExits(g)
  <2>1. unit[g] = "active" /\ VmEnds(g, "inactive") /\ UNCHANGED image
    BY <1>7 DEF VmExits, files
  <2>2. vm'[g] = "none" /\ \A h \in Guests : h # g => vm'[h] = vm[h]
    BY <2>1 DEF VmEnds, Opened
  <2> QED
    BY <1>3, <2>1, <2>2 DEF VmEnds
<1>8. CASE VmWrites(g)
  <2>1. image[<<g, "disk">>] \in Image /\ UNCHANGED <<unit, vm>> /\ written + 1 \in Nat
    BY <1>8 DEF VmWrites, Opened, units, Counted
  <2>2. PICK s \in {"whole", "damaged"} \cup Operators :
          Put(g, "disk", [data |-> written + 1, state |-> s])
    BY <1>8, <2>1 DEF VmWrites, Image
  <2>3. [data |-> written + 1, state |-> s] \in Image
    BY <2>1, ImageFields
  <2>4. \A h \in Guests : DisksStay(h)
    BY <2>1, <2>2, <2>3, DiskPresent, Names
  <2>5. ASSUME NEW h \in Guests PROVE Runs(h)'
    <3>1. Runs(h) /\ DisksStay(h)
      BY <2>4 DEF Exclusive
    <3> QED
      BY <1>1, <2>1, <3>1 DEF Runs, DisksStay
  <2>6. \A q \in Operators : Rests(pc[q], work[q])'
    BY <1>1, <2>1 DEF Exclusive, Rests
  <2> QED
    BY <1>2, <2>5, <2>6 DEF Exclusive
<1> QED
  BY <1>5, <1>6, <1>7, <1>8

LEMMA PowerExclusive ==
  ASSUME PowerFailure
  PROVE  Exclusive'
<1>1. /\ \A g \in Guests : mounts'[g] = << >> /\ unit'[g] = "inactive" /\ vm'[g] = "none"
      /\ \A p \in Operators : pc'[p] = "idle"
  BY DEF PowerFailure
<1>2. Len(<< >>) = 0
  OBVIOUS
<1>3. \A p \in Operators : Rests(pc[p], work[p])'
  BY <1>1 DEF Rests, Off, Holding, Replaces
<1>4. \A g \in Guests : Runs(g)' /\ MountedOnce(g)'
  BY <1>1, <1>2 DEF Runs, MountedOnce
<1> QED
  BY <1>3, <1>4 DEF Exclusive

\* Until a VM fails by itself.
Undisturbed == faults["vm"] = 0 => Exclusive

LEMMA NextUndisturbed ==
  OneOperator /\ Unharmed /\ Typed /\ Alone /\ Undisturbed /\ [Next]_vars => Undisturbed'
<1> SUFFICES ASSUME OneOperator, Unharmed, Typed, Alone, Undisturbed, [Next]_vars,
                    faults'["vm"] = 0
             PROVE  Exclusive'
  BY DEF Undisturbed
<1>1. RecordsKept
  BY NextAlone
<1>2. faults \in [FaultKinds -> Nat] /\ "vm" \in FaultKinds /\ "kill" \in FaultKinds
  BY DEF Typed, Counted, FaultKinds
<1>3. ASSUME NEW k \in FaultKinds, Fault(k) PROVE k # "vm" /\ k # "kill" /\ faults["vm"] = 0
  <2>1. k # "vm"
    BY <1>2, <1>3 DEF Fault
  <2>2. k # "kill"
    BY <1>2, <1>3 DEF Fault, Unharmed
  <2> QED
    BY <1>2, <1>3, <2>1, <2>2 DEF Fault
<1>4. ASSUME NEW p \in Operators, Invoke(p) \/ Proceed(p) \/ CopyFails(p) \/ Raise(p) \/ Kill(p)
      PROVE  Exclusive'
  <2>1. ~Kill(p)
    BY <1>2, <1>3 DEF Kill
  <2>2. faults["vm"] = 0
    <3>1. CASE UNCHANGED faults
      BY <3>1
    <3>2. CASE \E k \in FaultKinds : Fault(k)
      BY <1>3, <3>2
    <3> QED
      BY <1>4, <2>1, <3>1, <3>2 DEF Invoke, Proceed, CopyFails, Raise, bounds, Provision, Activate,
         SnapshotCreate, Restore, Start, Stop, Started, FinishCopy, RemoveHome, Create, SaveRecord,
         StoreManifest, LoadDirectory, PublishEntry, Mount, Apply, Unmount, Clear, TakeSnapshot,
         UnlinkDisk, ReplaceDisk, FaultKinds
  <2>3. Exclusive
    BY <2>2 DEF Undisturbed
  <2> QED
    BY <1>1, <1>4, <2>1, <2>3, BeginExclusive, CopyExclusive, HoldingExclusive, HomeExclusive,
       RestoreExclusive, MountExclusive, UnmountExclusive, StopExclusive,
       RaiseExclusive DEF Invoke, Proceed
<1>5. ASSUME NEW g \in Guests, Systemd(g) \/ Guest(g) PROVE Exclusive'
  <2>1. ~VmFails(g)
    BY <1>2, <1>3 DEF VmFails
  <2>2. Boot(g) \/ Restart(g) \/ VmExits(g) \/ VmWrites(g)
    BY <1>5, <2>1 DEF Systemd, Guest
  <2>3. UNCHANGED faults
    BY <2>2 DEF Boot, Restart, VmExits, VmWrites, bounds
  <2> QED
    BY <2>2, <2>3, GuestExclusive DEF Undisturbed
<1>6. CASE UNCHANGED vars
  BY <1>6 DEF vars, files, units, bounds, Undisturbed, Exclusive, Rests, Runs, MountedOnce
<1> QED
  BY <1>4, <1>5, <1>6, PowerExclusive DEF Next

\* While one operator works at a time, whose commands are not killed and whose
\* umount succeeds, a guest's disk is used by its VM, a mount or a copy, and by
\* one of them, through power failures and full disks, until a VM fails by itself
\* (is_running, mounted_image, stop before activate and restore).
THEOREM DiskIsSafe == OneOperator /\ Unharmed => (Spec => []DiskHasOneUser)
<1> SUFFICES ASSUME OneOperator, Unharmed PROVE Spec => []DiskHasOneUser
  OBVIOUS
<1>1. Init => Typed /\ Alone /\ Undisturbed
  BY InitTyped, InitAlone, InitExclusive DEF Undisturbed
<1>2. Typed /\ Alone /\ Undisturbed /\ [Next]_vars => Typed' /\ Alone' /\ Undisturbed'
  BY NextTyped, NextAlone, NextUndisturbed
<1>3. Typed /\ Undisturbed => DiskHasOneUser
  BY DiskUsedOnce DEF Undisturbed, DiskHasOneUser
<1> QED
  BY <1>1, <1>2, <1>3, PTL DEF Spec

-----------------------------------------------------------------------------
(***************************************************************************)
(* What happens to the data, under the same assumptions.  A copy holds     *)
(* what it reads until it ends, since nobody else writes to either         *)
(* image, and a restore takes the disk away when its data was saved.       *)
(***************************************************************************)

DiskOf(g) == image[<<g, "disk">>]

\* What a command that is about to do l relies on.
Carried(p, l, w) ==
  /\ l # "idle" /\ w.cmd = "restore" => w.snap \in Snapshots
  /\ l \in {"unlink", "replace", "replacing"} => w.cmd = "restore"
  /\ l \in Replaces => record[w.guest] # None
  /\ l = "cloning" => DiskOf(w.guest) = [data |-> 0, state |-> p]
  /\ l \in Holding \ {"cloning"} /\ w.cmd = "provision" => DiskOf(w.guest) = Base
  /\ l = "snapshotting" =>
       /\ DiskOf(w.guest) \in Image
       /\ image[<<w.guest, w.into>>] = [data |-> DiskOf(w.guest).data, state |-> p]
  /\ l = "unlink" /\ Whole(DiskOf(w.guest)) =>
       \E s \in Snapshots : /\ Whole(image[<<w.guest, s>>])
                            /\ image[<<w.guest, s>>].data = DiskOf(w.guest).data
  /\ l = "replace" => DiskOf(w.guest) = Absent
  /\ l = "replacing" =>
       /\ image[<<w.guest, w.snap>>] \in Image
       /\ DiskOf(w.guest) = [data |-> image[<<w.guest, w.snap>>].data, state |-> p]

\* A guest without a record has no snapshots.
Unsaved == \A g \in Guests, s \in Snapshots : record[g] = None => image[<<g, s>>] = Absent

\* What a guest writes is new.
Older == \A g \in Guests, l \in Locations : image[<<g, l>>] \in Image => image[<<g, l>>].data <= written

Carries == Unsaved /\ Older /\ \A p \in Operators : Carried(p, pc[p], work[p])

-----------------------------------------------------------------------------
(* The steps of GuestDisk *)

DataOf(g) == IF Whole(DiskOf(g)) THEN DiskOf(g).data ELSE None
SavedOf(g) == {image[<<g, s>>].data : s \in {x \in Snapshots : Whole(image[<<g, x>>])}}

DiskStep(g) == [Disk(g)!Next]_(Disk(g)!diskVars)

LEMMA DiskStutters ==
  ASSUME NEW g \in Guests, (record'[g] # None) <=> (record[g] # None),
         (vm'[g] # "none") <=> (vm[g] # "none"), DataOf(g)' = DataOf(g), SavedOf(g)' = SavedOf(g)
  PROVE  DiskStep(g)
  BY DEF DiskStep, DataOf, SavedOf, DiskOf, Disk!diskVars

LEMMA DiskBuilds ==
  ASSUME NEW g \in Guests, record[g] = None, record'[g] = None, vm[g] = "none", vm'[g] = "none",
         DataOf(g)' \in {0, None}, SavedOf(g)' = {}
  PROVE  DiskStep(g)
  BY DEF DiskStep, DataOf, SavedOf, DiskOf, Disk!Next, Disk!Build

LEMMA DiskOwned ==
  ASSUME NEW g \in Guests, record[g] = None, record'[g] # None, vm'[g] = vm[g],
         DataOf(g) = 0, DataOf(g)' = 0, SavedOf(g)' = SavedOf(g)
  PROVE  DiskStep(g)
  BY DEF DiskStep, DataOf, SavedOf, DiskOf, Disk!Next, Disk!Own

LEMMA DiskTurned ==
  ASSUME NEW g \in Guests, record'[g] = record[g],
         vm[g] = "none" /\ vm'[g] # "none" => record[g] # None,
         DataOf(g)' = DataOf(g), SavedOf(g)' = SavedOf(g)
  PROVE  DiskStep(g)
<1>1. CASE vm[g] = "none" /\ vm'[g] # "none"
  BY <1>1 DEF DiskStep, DataOf, SavedOf, DiskOf, Disk!Next, Disk!TurnOn
<1>2. CASE vm[g] # "none" /\ vm'[g] = "none"
  BY <1>2 DEF DiskStep, DataOf, SavedOf, DiskOf, Disk!Next, Disk!TurnOff
<1>3. CASE (vm[g] # "none") <=> (vm'[g] # "none")
  BY <1>3, DiskStutters
<1> QED
  BY <1>1, <1>2, <1>3

LEMMA DiskWritten ==
  ASSUME NEW g \in Guests, record'[g] = record[g], vm[g] # "none", vm'[g] # "none",
         DataOf(g) # None, DataOf(g)' \in Nat \ ({DataOf(g)} \cup SavedOf(g)),
         SavedOf(g)' = SavedOf(g)
  PROVE  DiskStep(g)
  BY DEF DiskStep, DataOf, SavedOf, DiskOf, Disk!Next, Disk!Write

LEMMA DiskSaved ==
  ASSUME NEW g \in Guests, record'[g] = record[g], record[g] # None, vm[g] = "none",
         vm'[g] = "none", DataOf(g) # None, DataOf(g)' = DataOf(g),
         SavedOf(g)' = SavedOf(g) \cup {DataOf(g)}
  PROVE  DiskStep(g)
  BY DEF DiskStep, DataOf, SavedOf, DiskOf, Disk!Next, Disk!Save

LEMMA DiskGivenUp ==
  ASSUME NEW g \in Guests, record'[g] = record[g], record[g] # None, vm[g] = "none",
         vm'[g] = "none", DataOf(g) \in SavedOf(g), DataOf(g)' = None,
         SavedOf(g)' = SavedOf(g)
  PROVE  DiskStep(g)
  BY DEF DiskStep, DataOf, SavedOf, DiskOf, Disk!Next, Disk!GiveUp

LEMMA DiskPutBack ==
  ASSUME NEW g \in Guests, record'[g] = record[g], record[g] # None, vm[g] = "none",
         vm'[g] = "none", DataOf(g) = None, DataOf(g)' \in SavedOf(g),
         SavedOf(g)' = SavedOf(g)
  PROVE  DiskStep(g)
  BY DEF DiskStep, DataOf, SavedOf, DiskOf, Disk!Next, Disk!PutBack

\* Nothing of a guest's record, VM and images changes.
Untouched(g) ==
  /\ record'[g] = record[g] /\ vm'[g] = vm[g]
  /\ \A l \in Locations : image'[<<g, l>>] = image[<<g, l>>]

LEMMA SameData ==
  ASSUME NEW g \in Guests, \A l \in Locations : image'[<<g, l>>] = image[<<g, l>>]
  PROVE  DiskOf(g)' = DiskOf(g) /\ DataOf(g)' = DataOf(g) /\ SavedOf(g)' = SavedOf(g)
<1>1. \A s \in Snapshots : image'[<<g, s>>] = image[<<g, s>>]
  BY Names
<1>2. DiskOf(g)' = DiskOf(g)
  BY Names DEF DiskOf
<1>3. DataOf(g)' = DataOf(g)
  BY <1>2 DEF DataOf
<1>4. SavedOf(g)' = SavedOf(g)
  BY <1>1 DEF SavedOf
<1> QED
  BY <1>2, <1>3, <1>4

LEMMA UntouchedStutters ==
  ASSUME NEW g \in Guests, Untouched(g)
  PROVE  DiskStep(g)
<1>1. DataOf(g)' = DataOf(g) /\ SavedOf(g)' = SavedOf(g)
  BY SameData DEF Untouched
<1> QED
  BY <1>1, DiskStutters DEF Untouched

Implemented == Carries' /\ \A g \in Guests : DiskStep(g)

\* A step of the command that touches no record and no image.
LEMMA CarriesMove ==
  ASSUME OneOperator, Running, Carries, NEW p \in Operators, NEW l \in Labels, NEW w \in WorkSet,
         Goto(p, l, w), UNCHANGED <<image, record, written>>, Carried(p, l, w)
  PROVE  Carries'
<1>1. \A q \in Operators : q = p /\ pc'[q] = l /\ work'[q] = w
  BY DEF OneOperator, Goto, Running
<1>2. Carried(p, l, w)'
  BY DEF Carried, DiskOf
<1>3. \A q \in Operators : Carried(q, pc[q], work[q])'
  BY <1>1 DEF Carried, DiskOf
<1> QED
  BY <1>3 DEF Carries, Unsaved, Older

LEMMA IdleCarried == \A p \in Operators : Carried(p, "idle", NoWork)
  BY DEF Carried, Holding, Replaces

LEMMA MoveImplemented ==
  ASSUME OneOperator, Running, Carries, NEW p \in Operators, NEW l \in Labels, NEW w \in WorkSet,
         Goto(p, l, w), UNCHANGED <<image, record, vm, written>>, Carried(p, l, w)
  PROVE  Implemented
<1>1. Carries'
  BY CarriesMove
<1>2. \A g \in Guests : DiskStep(g)
  BY UntouchedStutters DEF Untouched
<1> QED
  BY <1>1, <1>2 DEF Implemented

LEMMA ContinueImplemented ==
  ASSUME OneOperator, Running, Carries, NEW p \in Operators, NEW l \in Labels,
         Continue(p, l), UNCHANGED <<image, record, vm, written>>, Carried(p, l, work[p])
  PROVE  Implemented
<1>1. work[p] \in WorkSet /\ Goto(p, l, work[p])
  BY DEF Running, Continue, Goto
<1> QED
  BY <1>1, MoveImplemented

LEMMA FinishImplemented ==
  ASSUME OneOperator, Running, Carries, NEW p \in Operators,
         Finish(p), UNCHANGED <<image, record, vm, written>>
  PROVE  Implemented
<1>1. "idle" \in Labels
  BY DEF Labels
<1> QED
  BY <1>1, IdleCarried, NoWorkTyped, MoveImplemented DEF Finish

\* Where nothing is relied on, except that a restore knows its snapshot.
LEMMA NotCarried ==
  ASSUME NEW p \in Operators, NEW l, NEW w, l \notin Holding \cup Replaces,
         w.cmd = "restore" => w.snap \in Snapshots
  PROVE  Carried(p, l, w)
  BY DEF Carried, Holding, Replaces

LEMMA BeginImplemented ==
  ASSUME OneOperator, Running, Carries, NEW p \in Operators,
         Provision(p) \/ Activate(p) \/ SnapshotCreate(p) \/ Restore(p)
  PROVE  Implemented
<1>1. UNCHANGED <<image, record, vm, written>>
  BY DEF Provision, Activate, SnapshotCreate, Restore, files, units, bounds
<1>2. \E l \in Labels, w \in WorkSet : Goto(p, l, w) /\ Carried(p, l, w)
  <2>1. CASE Provision(p)
    <3>1. PICK g \in Guests, m \in Manifests :
            \E l \in {"create", "rmtree"} :
              Goto(p, l, [NoWork EXCEPT !.cmd = "provision", !.guest = g, !.manifest = m])
      BY <2>1 DEF Provision
    <3> DEFINE w == [NoWork EXCEPT !.cmd = "provision", !.guest = g, !.manifest = m]
    <3>2. w \in WorkSet /\ w.cmd = "provision"
      BY <2>1, HostAssumption DEF Provision, NoWork, WorkSet
    <3>3. \E l \in {"create", "rmtree"} : Goto(p, l, w)
      BY <3>1
    <3> HIDE DEF w
    <3>4. \A l \in {"create", "rmtree"} : Carried(p, l, w)
      BY <3>2, NotCarried DEF Holding, Replaces
    <3> QED
      BY <3>2, <3>3, <3>4 DEF Labels
  <2>2. CASE Activate(p)
    <3>1. PICK g \in Guests, m \in Manifests, restart \in BOOLEAN :
            \E l \in {"manifest", "stop"} :
              Goto(p, l, [NoWork EXCEPT !.cmd = "activate", !.guest = g, !.manifest = m,
                                        !.restart = restart \/ IsRunning(g)])
      BY <2>2 DEF Activate
    <3> DEFINE w == [NoWork EXCEPT !.cmd = "activate", !.guest = g, !.manifest = m,
                                   !.restart = restart \/ IsRunning(g)]
    <3>2. w \in WorkSet /\ w.cmd = "activate"
      <4>1. (restart \/ IsRunning(g)) \in BOOLEAN
        OBVIOUS
      <4> QED
        BY <2>2, <4>1, HostAssumption DEF Activate, NoWork, WorkSet
    <3>3. \E l \in {"manifest", "stop"} : Goto(p, l, w)
      BY <3>1
    <3> HIDE DEF w
    <3>4. \A l \in {"manifest", "stop"} : Carried(p, l, w)
      BY <3>2 DEF Carried, Replaces
    <3> QED
      BY <3>2, <3>3, <3>4 DEF Labels
  <2>3. CASE SnapshotCreate(p)
    <3>1. PICK g \in Guests : Goto(p, "snapshot", [NoWork EXCEPT !.cmd = "snapshot", !.guest = g])
      BY <2>3 DEF SnapshotCreate
    <3> DEFINE w == [NoWork EXCEPT !.cmd = "snapshot", !.guest = g]
    <3>2. w \in WorkSet /\ w.cmd = "snapshot"
      BY <2>3, HostAssumption DEF SnapshotCreate, NoWork, WorkSet
    <3>3. Goto(p, "snapshot", w)
      BY <3>1
    <3> HIDE DEF w
    <3>4. Carried(p, "snapshot", w)
      BY <3>2, NotCarried DEF Holding, Replaces
    <3> QED
      BY <3>2, <3>3, <3>4 DEF Labels
  <2>4. CASE Restore(p)
    <3>1. PICK g \in Guests, s \in Snapshots :
            \E l \in {"snapshot", "stop"} :
              Goto(p, l, [NoWork EXCEPT !.cmd = "restore", !.guest = g, !.snap = s])
      BY <2>4 DEF Restore
    <3> DEFINE w == [NoWork EXCEPT !.cmd = "restore", !.guest = g, !.snap = s]
    <3>2. w \in WorkSet /\ w.snap \in Snapshots
      BY <2>4, HostAssumption DEF Restore, NoWork, WorkSet
    <3>3. \E l \in {"snapshot", "stop"} : Goto(p, l, w)
      BY <3>1
    <3> HIDE DEF w
    <3>4. \A l \in {"snapshot", "stop"} : Carried(p, l, w)
      BY <3>2, NotCarried DEF Holding, Replaces
    <3> QED
      BY <3>2, <3>3, <3>4 DEF Labels
  <2> QED
    BY <2>1, <2>2, <2>3, <2>4
<1> QED
  BY <1>1, <1>2, MoveImplemented

LEMMA HoldingImplemented ==
  ASSUME OneOperator, Typed, Exclusive, Carries, NEW p \in Operators,
         \/ StoreManifest(p) \/ LoadDirectory(p) \/ PublishEntry(p) \/ Mount(p) \/ Apply(p)
         \/ Unmount(p) \/ Clear(p)
  PROVE  Implemented
<1> USE DEF Typed
<1> DEFINE u == work[p]
<1>1. pc[p] \in Holding \ {"cloning", "save"} /\ UNCHANGED <<record, vm, written>>
  BY DEF StoreManifest, LoadDirectory, PublishEntry, Mount, Apply, Unmount, Clear, Holding,
         files, units, bounds
<1>2. u \in WorkSet /\ u.guest \in Guests /\ Carried(p, pc[p], u)
  <2>1. pc[p] # "idle"
    BY <1>1 DEF Holding
  <2> QED
    BY <2>1, LabelFits DEF Labels, Carries
<1>3. UNCHANGED image
  <2>1. unit[u.guest] # "active" /\ vm[u.guest] # "disk"
    BY <1>1, <1>2 DEF Exclusive, Rests, Runs, Off
  <2>2. pc[p] = "clear" => mounts[u.guest] = << >>
    BY <1>2, MountedByUs DEF Mounting
  <2> QED
    BY <2>1, <2>2 DEF StoreManifest, LoadDirectory, PublishEntry, Mount, Apply, Unmount, Clear, files
<1>4. ASSUME NEW w \in WorkSet, w.cmd = u.cmd, w.snap = u.snap, w.guest = u.guest,
             NEW l \in (Holding \ {"cloning"}) \cup {"start"}, Goto(p, l, w)
      PROVE  Implemented
  <2>1. Carried(p, l, w)
    BY <1>1, <1>2, <1>4 DEF Carried, Holding, Replaces
  <2>2. l \in Labels
    BY DEF Labels, Holding
  <2> HIDE DEF u
  <2> QED
    BY <1>1, <1>3, <1>4, <2>1, <2>2, MoveImplemented
<1>5. ASSUME NEW l \in (Holding \ {"cloning"}) \cup {"start"}, Continue(p, l) PROVE Implemented
  <2>1. Goto(p, l, u)
    BY <1>5 DEF Continue, Goto, Running
  <2> QED
    BY <1>2, <1>4, <2>1
<1>6. ASSUME Finish(p) PROVE Implemented
  BY <1>1, <1>3, <1>6, FinishImplemented
<1>7. CASE StoreManifest(p)
  <2> DEFINE m == IF u.manifest = "none" THEN manifest[u.guest] ELSE u.manifest
             w == [u EXCEPT !.manifest = m]
  <2>1. Finish(p) \/ Goto(p, "load", w) \/ Goto(p, "mount", w)
    BY <1>7 DEF StoreManifest
  <2>2. m \in {"none", "plain", "listed", "bad"}
    BY <1>2 DEF WorkSet, Recorded
  <2>3. w \in WorkSet /\ w.cmd = u.cmd /\ w.snap = u.snap /\ w.guest = u.guest
    BY <1>2, <2>2 DEF WorkSet
  <2> HIDE DEF w, u
  <2> QED
    BY <1>4, <1>6, <2>1, <2>3 DEF Holding
<1>8. CASE LoadDirectory(p)
  <2> DEFINE w == [u EXCEPT !.entries = directory]
  <2>1. Goto(p, "publish", w)
    BY <1>8 DEF LoadDirectory
  <2>2. w \in WorkSet /\ w.cmd = u.cmd /\ w.snap = u.snap /\ w.guest = u.guest
    BY <1>2 DEF WorkSet, Recorded
  <2> HIDE DEF w, u
  <2> QED
    BY <1>4, <2>1, <2>2 DEF Holding
<1>9. CASE PublishEntry(p)
  <2>1. Continue(p, "mount") \/ Continue(p, "unmount")
    BY <1>9 DEF PublishEntry
  <2> QED
    BY <1>5, <2>1 DEF Holding
<1>10. CASE Mount(p) \/ Apply(p)
  <2> DEFINE w == [u EXCEPT !.failed = TRUE]
  <2>1. \/ Continue(p, "apply") \/ Continue(p, "load") \/ Continue(p, "unmount")
        \/ Goto(p, "clear", w) \/ Goto(p, "unmount", w)
    BY <1>10 DEF Mount, Apply
  <2>2. w \in WorkSet /\ w.cmd = u.cmd /\ w.snap = u.snap /\ w.guest = u.guest
    BY <1>2 DEF WorkSet
  <2> HIDE DEF w, u
  <2> QED
    BY <1>4, <1>5, <2>1, <2>2 DEF Holding
<1>11. CASE Unmount(p)
  BY <1>5, <1>11 DEF Unmount, Holding
<1>12. CASE Clear(p)
  <2>1. Continue(p, "save") \/ Continue(p, "start") \/ Finish(p)
    BY <1>12 DEF Clear
  <2> QED
    BY <1>5, <1>6, <2>1 DEF Holding
<1> QED
  BY <1>7, <1>8, <1>9, <1>10, <1>11, <1>12

LEMMA StopImplemented ==
  ASSUME OneOperator, Typed, Carries, NEW p \in Operators, Start(p) \/ Started(p) \/ Stop(p)
  PROVE  Implemented
<1> USE DEF Typed
<1>1. UNCHANGED <<image, record, written>>
  BY DEF Start, Started, Stop, files, bounds
<1>2. ASSUME pc[p] # "idle" PROVE work[p] \in WorkSet /\ Carried(p, pc[p], work[p])
  BY <1>2, LabelFits DEF Labels, Carries
<1>3. CASE Start(p) \/ Started(p)
  <2>0. UNCHANGED vm
    BY <1>3 DEF Start, Started, StartUnit, units
  <2>1. CASE Finish(p)
    BY <1>1, <2>0, <2>1, FinishImplemented
  <2>2. CASE pc[p] = "start" /\ Continue(p, "starting")
    <3>1. Carried(p, "starting", work[p])
      BY <1>2, <2>2 DEF Carried, Holding, Replaces
    <3> QED
      BY <1>1, <2>0, <2>2, <3>1, ContinueImplemented DEF Labels
  <2>3. ASSUME NEW g \in Guests, "start" \in Commands,
               Goto(p, "starting", [NoWork EXCEPT !.cmd = "start", !.guest = g])
        PROVE  Implemented
    <3> DEFINE w == [NoWork EXCEPT !.cmd = "start", !.guest = g]
    <3>1. w \in WorkSet /\ w.cmd = "start" /\ Goto(p, "starting", w)
      BY <2>3 DEF NoWork, WorkSet
    <3> HIDE DEF w
    <3>2. Carried(p, "starting", w)
      BY <3>1, NotCarried DEF Holding, Replaces
    <3> QED
      BY <1>1, <2>0, <3>1, <3>2, MoveImplemented DEF Labels
  <2> QED
    BY <1>3, <2>1, <2>2, <2>3 DEF Start, Started
<1>4. CASE Stop(p)
  <2>1. Carries'
    <3>1. CASE Finish(p)
      BY <1>1, <3>1, IdleCarried, NoWorkTyped, CarriesMove DEF Finish, Labels
    <3>2. CASE ~Finish(p)
      <4>1. /\ pc[p] = "stop"
            /\ \/ Continue(p, "snapshot")
               \/ work[p].cmd = "activate" /\ Continue(p, "manifest")
        BY <1>4, <3>2 DEF Stop
      <4>2. work[p] \in WorkSet /\ Carried(p, "snapshot", work[p])
            /\ (work[p].cmd = "activate" => Carried(p, "manifest", work[p]))
        BY <1>2, <4>1 DEF Carried, Holding, Replaces
      <4>3. \/ Goto(p, "snapshot", work[p])
            \/ work[p].cmd = "activate" /\ Goto(p, "manifest", work[p])
        BY <4>1, <4>2 DEF Continue, Goto, Running
      <4> QED
        BY <1>1, <4>2, <4>3, CarriesMove DEF Labels
    <3> QED
      BY <3>1, <3>2
  <2>2. ASSUME NEW g \in Guests PROVE DiskStep(g)
    <3>1. vm'[g] = vm[g] \/ vm'[g] = "none"
      BY <1>4 DEF Stop, VmEnds, units, Opened
    <3>2. DataOf(g)' = DataOf(g) /\ SavedOf(g)' = SavedOf(g)
      BY <1>1, SameData
    <3> QED
      BY <1>1, <3>1, <3>2, DiskTurned
  <2> QED
    BY <2>1, <2>2 DEF Implemented
<1> QED
  BY <1>3, <1>4

LEMMA CarriesAt ==
  ASSUME OneOperator, Running, NEW p \in Operators, NEW l \in Labels, NEW w \in WorkSet,
         Goto(p, l, w), Unsaved', Older', Carried(p, l, w)'
  PROVE  Carries'
<1>1. \A q \in Operators : q = p /\ pc'[q] = l /\ work'[q] = w
  BY DEF OneOperator, Goto, Running
<1>2. \A q \in Operators : Carried(q, pc[q], work[q])'
  BY <1>1 DEF Carried, DiskOf
<1> QED
  BY <1>2 DEF Carries

\* What an image that is put somewhere changes.
LEMMA PutData ==
  ASSUME Images, Unsaved, Older, UNCHANGED <<record, written>>, written \in Nat,
         NEW g \in Guests, NEW l \in Locations, NEW i \in Image \cup {Absent, Empty},
         l = "disk" => i # Empty, Put(g, l, i), i \in Image => i.data <= written,
         l = "disk" \/ record[g] # None
  PROVE  /\ Unsaved' /\ Older' /\ image'[<<g, l>>] = i
         /\ \A h \in Guests, k \in Locations : h # g \/ k # l => image'[<<h, k>>] = image[<<h, k>>]
         /\ vm' = vm => \A h \in Guests : h # g => DiskStep(h)
         /\ l = "disk" => SavedOf(g)' = SavedOf(g)
         /\ l # "disk" => DataOf(g)' = DataOf(g)
<1>1. /\ image'[<<g, l>>] = i
      /\ \A h \in Guests, k \in Locations : h # g \/ k # l => image'[<<h, k>>] = image[<<h, k>>]
  BY PutTyped
<1>2. Unsaved'
  BY <1>1, Names DEF Unsaved
<1>3. Older'
  BY <1>1 DEF Older
<1>4. ASSUME vm' = vm, NEW h \in Guests, h # g PROVE DiskStep(h)
  BY <1>1, <1>4, UntouchedStutters DEF Untouched
<1>5. ASSUME l = "disk" PROVE SavedOf(g)' = SavedOf(g)
  <2>1. \A s \in Snapshots : image'[<<g, s>>] = image[<<g, s>>]
    BY <1>1, <1>5, Names
  <2> QED
    BY <2>1 DEF SavedOf
<1>6. ASSUME l # "disk" PROVE DataOf(g)' = DataOf(g)
  <2>1. image'[<<g, "disk">>] = image[<<g, "disk">>]
    BY <1>1, <1>6, Names
  <2> QED
    BY <2>1 DEF DataOf, DiskOf
<1> QED
  BY <1>1, <1>2, <1>3, <1>4, <1>5, <1>6

\* A copy ends as good as what it read.
LEMMA CopyIs ==
  ASSUME Typed, Carries, NEW p \in Operators, Copying(p), NEW ok \in BOOLEAN, CopyEnds(p, ok)
  PROVE  LET g == work[p].guest
             i == image[<<g, TargetOf(p)>>]
         IN /\ i \in Image /\ i.state = p /\ SourceOf(p) \in Image /\ SourceOf(p).data = i.data
            /\ Put(g, TargetOf(p),
                   [data |-> i.data,
                    state |-> IF ok /\ SourceOf(p).state = "whole" THEN "whole" ELSE "damaged"])
<1> DEFINE g == work[p].guest
           i == image[<<g, TargetOf(p)>>]
<1>1. Carried(p, pc[p], work[p]) /\ Running /\ Images
  BY DEF Carries, Typed
<1>2. i \in Image /\ i.state = p /\ SourceOf(p) \in Image /\ SourceOf(p).data = i.data
  <2>1. CASE pc[p] = "cloning"
    <3>1. DiskOf(g) = [data |-> 0, state |-> p]
      BY <1>1, <2>1 DEF Carried
    <3>2. [data |-> 0, state |-> p] \in Image /\ Base \in Image
      BY ImageFields DEF Base
    <3> QED
      BY <2>1, <3>1, <3>2 DEF TargetOf, SourceOf, DiskOf, Base
  <2>2. CASE pc[p] = "snapshotting"
    <3>1. /\ DiskOf(g) \in Image
          /\ image[<<g, work[p].into>>] = [data |-> DiskOf(g).data, state |-> p]
      BY <1>1, <2>2 DEF Carried
    <3>2. [data |-> DiskOf(g).data, state |-> p] \in Image
      BY <3>1, ImageFields
    <3> QED
      BY <2>2, <3>1, <3>2 DEF TargetOf, SourceOf, DiskOf
  <2>3. CASE pc[p] = "replacing"
    <3> DEFINE j == image[<<g, work[p].snap>>]
    <3>1. j \in Image /\ DiskOf(g) = [data |-> j.data, state |-> p]
      BY <1>1, <2>3 DEF Carried
    <3>2. [data |-> j.data, state |-> p] \in Image
      BY <3>1, ImageFields
    <3> QED
      BY <2>3, <3>1, <3>2 DEF TargetOf, SourceOf, DiskOf
  <2> QED
    BY <2>1, <2>2, <2>3 DEF Copying
<1>3. SourceOf(p) # Absent
  BY <1>2, Names
<1> QED
  BY <1>2, <1>3 DEF CopyEnds, OwnsTarget

\* The command's guest is off while its disk is copied or replaced.
LEMMA GuestOff ==
  ASSUME Typed, Exclusive, NEW p \in Operators, pc[p] \in Off \cup Replaces
  PROVE  work[p].guest \in Guests /\ vm[work[p].guest] = "none" /\ work[p] \in WorkSet
<1>1. work[p].guest \in Guests /\ work[p] \in WorkSet
  BY LabelFits DEF Typed, Labels, Off, Holding, Replaces
<1> QED
  BY <1>1 DEF Exclusive, Rests, Runs

LEMMA CloneImplemented ==
  ASSUME OneOperator, Typed, Alone, Exclusive, Carries, NEW p \in Operators, pc[p] = "cloning",
         UNCHANGED <<record, vm, written>>,
         \/ CopyEnds(p, TRUE) /\ Continue(p, "manifest")
         \/ CopyEnds(p, FALSE) /\ Finish(p)
  PROVE  Implemented
<1> USE DEF Typed
<1>1. PICK w \in WorkSet, g \in Guests :
        w = work[p] /\ g = w.guest /\ vm[g] = "none"
  BY GuestOff DEF Off, Holding
<1>2. /\ w.cmd = "provision" /\ record[g] = None
      /\ DiskOf(g) = [data |-> 0, state |-> p] /\ Unsaved /\ Older
  BY <1>1 DEF Alone, Sound, Holding, Carries, Carried
<1>3. \/ Put(g, "disk", Base) /\ Continue(p, "manifest")
      \/ \E s \in {"whole", "damaged"} :
           Put(g, "disk", [data |-> 0, state |-> s]) /\ Finish(p)
  <2>1. Copying(p) /\ TargetOf(p) = "disk" /\ SourceOf(p) = Base
    BY DEF Copying, TargetOf, SourceOf
  <2>2. image[<<g, "disk">>].data = 0
    BY <1>2 DEF DiskOf
  <2>3. CASE CopyEnds(p, TRUE) /\ Continue(p, "manifest")
    <3>0. SourceOf(p).state = "whole"
      BY <2>1 DEF Base
    <3>1. Put(g, "disk", [data |-> 0, state |-> "whole"])
      BY <1>1, <2>1, <2>2, <2>3, <3>0, CopyIs
    <3> QED
      BY <2>3, <3>1 DEF Base
  <2>4. CASE CopyEnds(p, FALSE) /\ Finish(p)
    <3>1. Put(g, "disk", [data |-> 0, state |-> "damaged"])
      BY <1>1, <2>1, <2>2, <2>4, CopyIs
    <3> QED
      BY <2>4, <3>1
  <2> QED
    BY <2>3, <2>4
<1>4. PICK s \in {"whole", "damaged"} :
        /\ Put(g, "disk", [data |-> 0, state |-> s])
        /\ \/ Continue(p, "manifest") /\ [data |-> 0, state |-> s] = Base
           \/ Finish(p)
  BY <1>3 DEF Base
<1> DEFINE i == [data |-> 0, state |-> s]
<1>5. i \in Image /\ i.data = 0 /\ i.state = s
  BY ImageFields
<1>6. /\ Put(g, "disk", i) /\ written \in Nat /\ i.data <= written
      /\ i = Base \/ Finish(p)
  BY <1>4, <1>5, HostAssumption DEF Counted
<1> HIDE DEF i
<1>7. /\ Unsaved' /\ Older' /\ image'[<<g, "disk">>] = i
      /\ \A h \in Guests : h # g => DiskStep(h)
      /\ SavedOf(g)' = SavedOf(g)
  BY <1>2, <1>5, <1>6, PutData, Names
<1>8. DiskStep(g)
  <2>1. SavedOf(g) = {}
    BY <1>2, Names DEF SavedOf, Unsaved, Whole
  <2>2. DataOf(g)' \in {0, None}
    BY <1>5, <1>7 DEF DataOf, DiskOf
  <2> QED
    BY <1>1, <1>2, <1>7, <2>1, <2>2, DiskBuilds
<1>9. Carries'
  <2>1. CASE Finish(p)
    <3>1. Carried(p, "idle", NoWork)'
      BY DEF Carried, Holding, Replaces
    <3> QED
      BY <1>7, <2>1, <3>1, NoWorkTyped, CarriesAt DEF Finish, Labels
  <2>2. CASE Continue(p, "manifest") /\ i = Base
    <3>1. Carried(p, "manifest", w)'
      BY <1>1, <1>2, <1>7, <2>2 DEF Carried, Holding, Replaces, DiskOf, Base
    <3>2. Goto(p, "manifest", w)
      BY <1>1, <2>2 DEF Continue, Goto, Running
    <3> QED
      BY <1>7, <3>1, <3>2, CarriesAt DEF Labels
  <2> QED
    BY <1>4, <2>1, <2>2 DEF i
<1> QED
  BY <1>7, <1>8, <1>9 DEF Implemented

LEMMA SaveImplemented ==
  ASSUME OneOperator, Typed, Exclusive, Carries, NEW p \in Operators, pc[p] = "snapshotting",
         UNCHANGED <<record, vm, written>>,
         \/ CopyEnds(p, TRUE) /\ work[p].cmd = "restore" /\ Continue(p, "unlink")
         \/ CopyEnds(p, TRUE) /\ Finish(p)
         \/ CopyEnds(p, FALSE) /\ Finish(p)
  PROVE  Implemented
<1> USE DEF Typed
<1>1. PICK w \in WorkSet, g \in Guests :
        w = work[p] /\ g = w.guest /\ vm[g] = "none"
  BY GuestOff DEF Replaces
<1>2. PICK s \in Snapshots : s = w.into /\ s # "disk" /\ s \in Locations
  BY <1>1, Names DEF Running, Fits
<1>3. PICK d \in Image : d = DiskOf(g)
  BY <1>1 DEF Carries, Carried
<1>4. /\ record[g] # None /\ image[<<g, s>>] = [data |-> d.data, state |-> p]
      /\ Unsaved /\ Older /\ d.data \in Nat /\ d.data <= written /\ written \in Nat
      /\ w.cmd = "restore" => w.snap \in Snapshots
  <2>1. record[g] # None /\ image[<<g, s>>] = [data |-> d.data, state |-> p] /\ Unsaved /\ Older
    BY <1>1, <1>2, <1>3 DEF Carries, Carried, Replaces
  <2>2. d.data \in Nat /\ written \in Nat
    BY ImageFields, HostAssumption DEF Counted
  <2>3. d.data <= written
    BY <1>3, <2>1, Names DEF Older, DiskOf
  <2>4. w.cmd = "restore" => w.snap \in Snapshots
    BY <1>1 DEF Carries, Carried
  <2> QED
    BY <2>1, <2>2, <2>3, <2>4
<1>5. PICK t \in {"whole", "damaged"} :
        /\ Put(g, s, [data |-> d.data, state |-> t])
        /\ Finish(p) \/ (w.cmd = "restore" /\ Continue(p, "unlink") /\ (Whole(d) => t = "whole"))
        /\ t = "whole" => Whole(d)
  <2>1. Copying(p) /\ TargetOf(p) = s /\ SourceOf(p) = d
    BY <1>1, <1>2, <1>3 DEF Copying, TargetOf, SourceOf, DiskOf
  <2>2. image[<<g, s>>].data = d.data
    BY <1>4
  <2>3. CASE CopyEnds(p, TRUE)
    <3> DEFINE t == IF d.state = "whole" THEN "whole" ELSE "damaged"
    <3>1. Put(g, s, [data |-> d.data, state |-> t])
      BY <1>1, <2>1, <2>2, <2>3, CopyIs
    <3>2. t \in {"whole", "damaged"} /\ (t = "whole" <=> Whole(d))
      BY DEF Whole
    <3>3. Finish(p) \/ (w.cmd = "restore" /\ Continue(p, "unlink"))
      BY <1>1
    <3> QED
      BY <3>1, <3>2, <3>3
  <2>4. CASE CopyEnds(p, FALSE) /\ Finish(p)
    <3>1. Put(g, s, [data |-> d.data, state |-> "damaged"])
      BY <1>1, <2>1, <2>2, <2>4, CopyIs
    <3> QED
      BY <2>4, <3>1
  <2> QED
    BY <2>3, <2>4
<1> DEFINE i == [data |-> d.data, state |-> t]
<1>6. i \in Image /\ i.data = d.data /\ i.state = t /\ (Whole(i) <=> t = "whole")
  BY <1>4, ImageFields DEF Whole
<1>7. Put(g, s, i)
  BY <1>5
<1> HIDE DEF i
<1>8. /\ Unsaved' /\ Older' /\ image'[<<g, s>>] = i
      /\ \A k \in Locations : k # s => image'[<<g, k>>] = image[<<g, k>>]
      /\ \A h \in Guests : h # g => DiskStep(h)
      /\ DataOf(g)' = DataOf(g)
  <2>1. i \in Image \cup {Absent, Empty} /\ i.data <= written
    BY <1>4, <1>6
  <2> QED
    BY <1>2, <1>4, <1>6, <1>7, <2>1, PutData
<1>9. DiskOf(g)' = d
  BY <1>2, <1>3, <1>8, Names DEF DiskOf
<1>10. ~Whole(image[<<g, s>>])
  BY <1>4, Names DEF Whole
<1>11. SavedOf(g)' = IF t = "whole" THEN SavedOf(g) \cup {d.data} ELSE SavedOf(g)
  <2>1. \A x \in Snapshots : x # s => image'[<<g, x>>] = image[<<g, x>>]
    BY <1>8, Names
  <2>2. Whole(image[<<g, s>>])' <=> t = "whole"
    BY <1>6, <1>8 DEF Whole
  <2>3. image'[<<g, s>>].data = d.data
    BY <1>6, <1>8
  <2>4. \A x \in Snapshots : x # s => (Whole(image[<<g, x>>])' <=> Whole(image[<<g, x>>]))
    BY <2>1 DEF Whole
  <2>5. ASSUME NEW e PROVE e \in SavedOf(g)' <=> e \in SavedOf(g) \/ (t = "whole" /\ e = d.data)
    <3>1. e \in SavedOf(g)' <=>
            \E x \in Snapshots : Whole(image[<<g, x>>])' /\ e = image'[<<g, x>>].data
      BY DEF SavedOf
    <3>2. e \in SavedOf(g) <=>
            \E x \in Snapshots : Whole(image[<<g, x>>]) /\ e = image[<<g, x>>].data
      BY DEF SavedOf
    <3> QED
      BY <1>10, <2>1, <2>2, <2>3, <2>4, <3>1, <3>2
  <2>6. \A e : e \in SavedOf(g)' <=> e \in SavedOf(g) \/ (t = "whole" /\ e = d.data)
    BY <2>5
  <2>7. \A e : e \in (IF t = "whole" THEN SavedOf(g) \cup {d.data} ELSE SavedOf(g))
              <=> e \in SavedOf(g) \/ (t = "whole" /\ e = d.data)
    OBVIOUS
  <2> QED
    BY <2>6, <2>7
<1>12. DiskStep(g)
  <2>1. CASE t = "whole"
    <3>1. DataOf(g) = d.data /\ d.data # None
      BY <1>3, <1>4, <1>5, <2>1, HostAssumption DEF DataOf
    <3> QED
      BY <1>1, <1>4, <1>8, <1>11, <2>1, <3>1, DiskSaved
  <2>2. CASE t # "whole"
    BY <1>8, <1>11, <2>2, DiskStutters
  <2> QED
    BY <2>1, <2>2
<1>13. Carries'
  <2>1. CASE Finish(p)
    <3>1. Carried(p, "idle", NoWork)'
      BY DEF Carried, Holding, Replaces
    <3> QED
      BY <1>8, <2>1, <3>1, NoWorkTyped, CarriesAt DEF Finish, Labels
  <2>2. CASE w.cmd = "restore" /\ Continue(p, "unlink") /\ (Whole(d) => t = "whole")
    <3>1. Whole(DiskOf(g))' => Whole(image[<<g, s>>])' /\ (image[<<g, s>>].data)' = (DiskOf(g).data)'
      <4>1. Whole(DiskOf(g))' => Whole(d)
        BY <1>9 DEF Whole
      <4>2. Whole(d) => Whole(image[<<g, s>>])'
        BY <1>6, <1>8, <2>2 DEF Whole
      <4> QED
        BY <1>6, <1>8, <1>9, <4>1, <4>2
    <3>2. Carried(p, "unlink", w)'
      BY <1>1, <1>4, <2>2, <3>1 DEF Carried, Holding, Replaces
    <3>3. Goto(p, "unlink", w)
      BY <1>1, <2>2 DEF Continue, Goto, Running
    <3> QED
      BY <1>8, <3>2, <3>3, CarriesAt DEF Labels
  <2> QED
    BY <1>5, <2>1, <2>2
<1> QED
  BY <1>8, <1>12, <1>13 DEF Implemented

LEMMA ReplacedImplemented ==
  ASSUME OneOperator, Typed, Exclusive, Carries, NEW p \in Operators, pc[p] = "replacing",
         UNCHANGED <<record, vm, written>>, Finish(p),
         CopyEnds(p, TRUE) \/ CopyEnds(p, FALSE)
  PROVE  Implemented
<1> USE DEF Typed
<1>1. PICK w \in WorkSet, g \in Guests :
        w = work[p] /\ g = w.guest /\ vm[g] = "none"
  BY GuestOff DEF Replaces
<1>2. PICK s \in Snapshots : s = w.snap
  BY <1>1 DEF Carries, Carried
<1>3. PICK c \in Image : c = image[<<g, s>>]
  BY <1>1, <1>2 DEF Carries, Carried
<1>4. /\ record[g] # None /\ DiskOf(g) = [data |-> c.data, state |-> p]
      /\ Unsaved /\ Older /\ c.data \in Nat /\ c.data <= written /\ written \in Nat
  <2>1. record[g] # None /\ DiskOf(g) = [data |-> c.data, state |-> p] /\ Unsaved /\ Older
    BY <1>1, <1>2, <1>3 DEF Carries, Carried, Replaces
  <2>2. c.data \in Nat /\ written \in Nat
    BY ImageFields, HostAssumption DEF Counted
  <2>3. c.data <= written
    BY <1>3, <2>1, Names DEF Older
  <2> QED
    BY <2>1, <2>2, <2>3
<1>5. PICK t \in {"whole", "damaged"} :
        Put(g, "disk", [data |-> c.data, state |-> t]) /\ (t = "whole" => Whole(c))
  <2>1. Copying(p) /\ TargetOf(p) = "disk" /\ SourceOf(p) = c
    BY <1>1, <1>2, <1>3 DEF Copying, TargetOf, SourceOf
  <2>2. image[<<g, "disk">>].data = c.data
    BY <1>4 DEF DiskOf
  <2>3. CASE CopyEnds(p, TRUE)
    <3> DEFINE t == IF c.state = "whole" THEN "whole" ELSE "damaged"
    <3>1. Put(g, "disk", [data |-> c.data, state |-> t])
      BY <1>1, <2>1, <2>2, <2>3, CopyIs
    <3> QED
      BY <3>1 DEF Whole
  <2>4. CASE CopyEnds(p, FALSE)
    <3>1. Put(g, "disk", [data |-> c.data, state |-> "damaged"])
      BY <1>1, <2>1, <2>2, <2>4, CopyIs
    <3> QED
      BY <3>1
  <2> QED
    BY <2>3, <2>4
<1> DEFINE i == [data |-> c.data, state |-> t]
<1>6. i \in Image /\ i.data = c.data /\ i.state = t
  BY <1>4, ImageFields
<1>7. Put(g, "disk", i)
  BY <1>5
<1> HIDE DEF i
<1>8. /\ Unsaved' /\ Older' /\ image'[<<g, "disk">>] = i
      /\ \A h \in Guests : h # g => DiskStep(h)
      /\ SavedOf(g)' = SavedOf(g)
  <2>1. i \in Image \cup {Absent, Empty} /\ i.data <= written /\ i # Empty
    BY <1>4, <1>6, Names
  <2> QED
    BY <1>4, <1>6, <1>7, <2>1, PutData, Names
<1>9. DataOf(g) = None
  BY <1>4, Names DEF DataOf, Whole
<1>10. DataOf(g)' = IF t = "whole" THEN c.data ELSE None
  BY <1>6, <1>8 DEF DataOf, DiskOf, Whole
<1>11. DiskStep(g)
  <2>1. CASE t = "whole"
    <3>1. c.data \in SavedOf(g)
      BY <1>3, <1>5, <2>1 DEF SavedOf
    <3> QED
      BY <1>1, <1>4, <1>8, <1>9, <1>10, <2>1, <3>1, DiskPutBack
  <2>2. CASE t # "whole"
    BY <1>8, <1>9, <1>10, <2>2, DiskStutters
  <2> QED
    BY <2>1, <2>2
<1>12. Carries'
  <2>1. Carried(p, "idle", NoWork)'
    BY DEF Carried, Holding, Replaces
  <2> QED
    BY <1>8, <2>1, NoWorkTyped, CarriesAt DEF Finish, Labels
<1> QED
  BY <1>8, <1>11, <1>12 DEF Implemented

LEMMA CopyImplemented ==
  ASSUME OneOperator, Typed, Alone, Exclusive, Carries, NEW p \in Operators,
         FinishCopy(p) \/ CopyFails(p)
  PROVE  Implemented
<1>1. UNCHANGED <<record, vm, written>>
  BY DEF FinishCopy, CopyFails, units, bounds
<1>2. CASE pc[p] = "cloning"
  <2>1. \/ CopyEnds(p, TRUE) /\ Continue(p, "manifest")
        \/ CopyEnds(p, FALSE) /\ Finish(p)
    BY <1>2 DEF FinishCopy, CopyFails
  <2> QED
    BY <1>1, <1>2, <2>1, CloneImplemented
<1>3. CASE pc[p] = "snapshotting"
  <2>1. \/ CopyEnds(p, TRUE) /\ work[p].cmd = "restore" /\ Continue(p, "unlink")
        \/ CopyEnds(p, TRUE) /\ Finish(p)
        \/ CopyEnds(p, FALSE) /\ Finish(p)
    BY <1>3 DEF FinishCopy, CopyFails
  <2> QED
    BY <1>1, <1>3, <2>1, SaveImplemented
<1>4. CASE pc[p] = "replacing"
  <2>1. Finish(p) /\ (CopyEnds(p, TRUE) \/ CopyEnds(p, FALSE))
    BY <1>4 DEF FinishCopy, CopyFails
  <2> QED
    BY <1>1, <1>4, <2>1, ReplacedImplemented
<1> QED
  BY <1>2, <1>3, <1>4 DEF FinishCopy, CopyFails, Copying

LEMMA RemoveHomeImplemented ==
  ASSUME OneOperator, Typed, Alone, Exclusive, Carries, NEW p \in Operators, RemoveHome(p)
  PROVE  Implemented
<1> USE DEF Typed
<1>1. pc[p] = "rmtree" /\ written' = written
  BY DEF RemoveHome, bounds
<1>2. PICK w \in WorkSet, g \in Guests :
        w = work[p] /\ g = w.guest /\ vm[g] = "none"
  BY <1>1, GuestOff DEF Off
<1>3. record[g] = None /\ w.cmd = "provision" /\ Unsaved /\ Older
  BY <1>1, <1>2 DEF Alone, Sound, Carries
<1>4. CASE Finish(p) /\ UNCHANGED <<image, record, vm>>
  BY <1>1, <1>4, FinishImplemented
<1>5. CASE /\ record' = [record EXCEPT ![g] = None]
           /\ image' = [gl \in Guests \X Locations |-> IF gl[1] = g THEN Absent ELSE image[gl]]
           /\ Orphan(g) /\ Continue(p, "create")
  <2>1. vm' = vm
    BY <1>2, <1>5 DEF Orphan, Opened
  <2>2. \A h \in Guests : record'[h] = record[h]
    BY <1>3, <1>5 DEF Recorded
  <2>3. /\ \A l \in Locations : image'[<<g, l>>] = Absent
        /\ \A h \in Guests, l \in Locations : h # g => image'[<<h, l>>] = image[<<h, l>>]
    <3>1. ASSUME NEW h \in Guests, NEW l \in Locations
          PROVE  image'[<<h, l>>] = IF h = g THEN Absent ELSE image[<<h, l>>]
      <4>1. <<h, l>> \in Guests \X Locations /\ <<h, l>>[1] = h
        OBVIOUS
      <4> QED
        BY <1>5, <4>1
    <3> QED
      BY <3>1
  <2>4. Unsaved' /\ Older'
    <3>1. Unsaved'
      <4>1. ASSUME NEW h \in Guests, NEW s \in Snapshots, record'[h] = None
            PROVE  image'[<<h, s>>] = Absent
        BY <1>3, <2>2, <2>3, <4>1, Names DEF Unsaved
      <4> QED
        BY <4>1 DEF Unsaved
    <3>2. Older'
      BY <1>1, <1>3, <2>3, Names DEF Older
    <3> QED
      BY <3>1, <3>2
  <2>5. Carries'
    <3>1. Carried(p, "create", w)'
      BY <1>3 DEF Carried, Holding, Replaces
    <3>2. Goto(p, "create", w)
      BY <1>2, <1>5 DEF Continue, Goto, Running
    <3> QED
      BY <2>4, <3>1, <3>2, CarriesAt DEF Labels
  <2>6. DiskStep(g)
    <3>1. DataOf(g)' = None /\ SavedOf(g)' = {}
      BY <2>3, Names DEF DataOf, DiskOf, SavedOf, Whole
    <3> QED
      BY <1>2, <1>3, <2>1, <2>2, <3>1, DiskBuilds
  <2>7. \A h \in Guests : h # g => DiskStep(h)
    BY <2>1, <2>2, <2>3, UntouchedStutters DEF Untouched
  <2> QED
    BY <2>5, <2>6, <2>7 DEF Implemented
<1> QED
  BY <1>2, <1>4, <1>5 DEF RemoveHome

LEMMA CreateImplemented ==
  ASSUME OneOperator, Typed, Alone, Exclusive, Carries, NEW p \in Operators, Create(p)
  PROVE  Implemented
<1> USE DEF Typed
<1>1. pc[p] = "create" /\ UNCHANGED <<record, vm, written>>
  BY DEF Create, units, bounds
<1>2. PICK u \in WorkSet, g \in Guests :
        u = work[p] /\ g = u.guest /\ vm[g] = "none"
  BY <1>1, GuestOff DEF Off
<1>3. record[g] = None /\ u.cmd = "provision" /\ Unsaved /\ Older
  BY <1>1, <1>2 DEF Alone, Sound, Carries
<1>4. CASE Finish(p) /\ UNCHANGED image
  BY <1>1, <1>4, FinishImplemented
<1>5. CASE ~(Finish(p) /\ UNCHANGED image)
  <2>1. PICK a \in Addresses :
          /\ Put(g, "disk", [data |-> 0, state |-> p])
          /\ Goto(p, "cloning", [work[p] EXCEPT !.address = a])
    BY <1>2, <1>5 DEF Create, Free
  <2> DEFINE i == [data |-> 0, state |-> p]
             w == [u EXCEPT !.address = a]
  <2>2. w \in WorkSet /\ w.guest = g /\ w.cmd = "provision" /\ Goto(p, "cloning", w)
    BY <1>2, <1>3, <2>1 DEF WorkSet
  <2>3. i \in Image /\ i.data = 0 /\ i.state = p
    BY ImageFields
  <2>4. Put(g, "disk", i) /\ written \in Nat /\ i.data <= written
    BY <2>1, <2>3, HostAssumption DEF Counted
  <2> HIDE DEF w
  <2>5. /\ Unsaved' /\ Older' /\ image'[<<g, "disk">>] = [data |-> 0, state |-> p]
        /\ \A h \in Guests : h # g => DiskStep(h)
        /\ SavedOf(g)' = SavedOf(g)
    <3> HIDE DEF i
    <3>1. /\ Unsaved' /\ Older' /\ image'[<<g, "disk">>] = i
          /\ \A h \in Guests : h # g => DiskStep(h)
          /\ SavedOf(g)' = SavedOf(g)
      BY <1>1, <1>3, <2>3, <2>4, PutData, Names
    <3> QED
      BY <3>1 DEF i
  <2>6. DiskStep(g)
    <3>1. SavedOf(g) = {}
      BY <1>3, Names DEF SavedOf, Unsaved, Whole
    <3>2. DataOf(g)' = None
      BY <2>5, Names DEF DataOf, DiskOf, Whole
    <3> QED
      BY <1>1, <1>2, <1>3, <2>5, <3>1, <3>2, DiskBuilds
  <2>7. Carried(p, "cloning", w)'
    BY <2>2, <2>5 DEF Carried, Holding, Replaces, DiskOf
  <2>8. Carries'
    BY <2>2, <2>5, <2>7, CarriesAt DEF Labels
  <2> QED
    BY <2>5, <2>6, <2>8 DEF Implemented
<1> QED
  BY <1>4, <1>5

LEMMA SaveRecordImplemented ==
  ASSUME OneOperator, Typed, Alone, Exclusive, Carries, NEW p \in Operators, SaveRecord(p)
  PROVE  Implemented
<1> USE DEF Typed
<1>1. pc[p] = "save" /\ UNCHANGED <<image, vm, written>>
  BY DEF SaveRecord, units, bounds
<1>2. PICK w \in WorkSet, g \in Guests :
        w = work[p] /\ g = w.guest /\ vm[g] = "none"
  BY <1>1, GuestOff DEF Off, Holding
<1>3. /\ record[g] = None /\ w.cmd = "provision" /\ Unsaved /\ Older
      /\ DiskOf(g) = Base /\ w.address # None
  <2>1. record[g] = None /\ w.cmd = "provision" /\ w.address \in Addresses
    BY <1>1, <1>2 DEF Alone, Sound, Holding
  <2>2. Unsaved /\ Older /\ Carried(p, "save", w)
    BY <1>1, <1>2 DEF Carries
  <2>3. DiskOf(g) = Base
    BY <1>2, <2>1, <2>2 DEF Carried, Holding
  <2> QED
    BY <2>1, <2>2, <2>3, Names
<1>4. CASE Finish(p) /\ UNCHANGED record
  BY <1>1, <1>4, FinishImplemented
<1>5. CASE record' = [record EXCEPT ![g] = w.address] /\ Continue(p, "snapshot")
  <2>1. record'[g] # None /\ \A h \in Guests : h # g => record'[h] = record[h]
    BY <1>3, <1>5 DEF Recorded
  <2>2. Unsaved' /\ Older'
    BY <1>1, <1>3, <2>1 DEF Unsaved, Older
  <2>3. Carries'
    <3>1. Carried(p, "snapshot", w)'
      BY <1>3 DEF Carried, Holding, Replaces
    <3>2. Goto(p, "snapshot", w)
      BY <1>2, <1>5 DEF Continue, Goto, Running
    <3> QED
      BY <2>2, <3>1, <3>2, CarriesAt DEF Labels
  <2>4. DiskStep(g)
    <3>1. DataOf(g) = 0
      BY <1>3, ImageFields DEF DataOf, Whole, Base
    <3>2. DataOf(g)' = DataOf(g) /\ SavedOf(g)' = SavedOf(g)
      BY <1>1, SameData
    <3> QED
      BY <1>1, <1>3, <2>1, <3>1, <3>2, DiskOwned
  <2>5. \A h \in Guests : h # g => DiskStep(h)
    BY <1>1, <2>1, UntouchedStutters DEF Untouched
  <2> QED
    BY <2>3, <2>4, <2>5 DEF Implemented
<1> QED
  BY <1>2, <1>4, <1>5 DEF SaveRecord

\* A snapshot that is begun, or of no disk, is none yet.
LEMMA SavedStays ==
  ASSUME NEW g \in Guests, NEW s \in Snapshots, ~Whole(image[<<g, s>>]), ~Whole(image[<<g, s>>])',
         \A k \in Locations : k # s => image'[<<g, k>>] = image[<<g, k>>]
  PROVE  SavedOf(g)' = SavedOf(g)
<1>1. \A x \in Snapshots : x # s => image'[<<g, x>>] = image[<<g, x>>]
  BY Names
<1>2. \A x \in Snapshots : Whole(image[<<g, x>>])' <=> Whole(image[<<g, x>>])
  BY <1>1 DEF Whole
<1>3. ASSUME NEW e PROVE e \in SavedOf(g)' <=> e \in SavedOf(g)
  <2>1. e \in SavedOf(g)' <=>
          \E x \in Snapshots : Whole(image[<<g, x>>])' /\ e = image'[<<g, x>>].data
    BY DEF SavedOf
  <2>2. e \in SavedOf(g) <=>
          \E x \in Snapshots : Whole(image[<<g, x>>]) /\ e = image[<<g, x>>].data
    BY DEF SavedOf
  <2> QED
    BY <1>1, <1>2, <2>1, <2>2
<1>4. \A e : e \in SavedOf(g)' <=> e \in SavedOf(g)
  BY <1>3
<1> QED
  BY <1>4

LEMMA TakeSnapshotImplemented ==
  ASSUME OneOperator, Typed, Exclusive, Carries, NEW p \in Operators, TakeSnapshot(p)
  PROVE  Implemented
<1> USE DEF Typed
<1>1. pc[p] = "snapshot" /\ UNCHANGED <<record, vm, written>>
  BY DEF TakeSnapshot, units, bounds
<1>2. PICK u \in WorkSet, g \in Guests : u = work[p] /\ g = u.guest
  BY <1>1, LabelFits DEF Labels
<1>3. /\ Unsaved /\ Older /\ written \in Nat
      /\ u.cmd = "restore" => u.snap \in Snapshots
  <2>1. written \in Nat
    BY HostAssumption DEF Counted
  <2>2. Unsaved /\ Older /\ Carried(p, "snapshot", u)
    BY <1>1, <1>2 DEF Carries
  <2> QED
    BY <2>1, <2>2 DEF Carried
<1>4. CASE Finish(p) /\ UNCHANGED image
  BY <1>1, <1>4, FinishImplemented
<1>5. ASSUME NEW s \in Snapshots, image[<<g, s>>] = Absent, record[g] # None,
             NEW i \in Image \cup {Empty}, ~Whole(i), i \in Image => i.data <= written, Put(g, s, i)
      PROVE  /\ Unsaved' /\ Older' /\ image'[<<g, s>>] = i /\ DiskOf(g)' = DiskOf(g)
             /\ \A h \in Guests : DiskStep(h)
  <2>1. /\ Unsaved' /\ Older' /\ image'[<<g, s>>] = i
        /\ \A k \in Locations : k # s => image'[<<g, k>>] = image[<<g, k>>]
        /\ \A h \in Guests : h # g => DiskStep(h)
        /\ DataOf(g)' = DataOf(g)
    <3>1. s \in Locations /\ s # "disk" /\ i \in Image \cup {Absent, Empty}
      BY Names
    <3> QED
      BY <1>1, <1>3, <1>5, <3>1, PutData
  <2>2. ~Whole(image[<<g, s>>]) /\ ~Whole(image[<<g, s>>])'
    BY <1>5, <2>1, Names DEF Whole
  <2>3. SavedOf(g)' = SavedOf(g)
    BY <2>1, <2>2, SavedStays
  <2>4. DiskStep(g)
    BY <1>1, <2>1, <2>3, DiskStutters
  <2>5. DiskOf(g)' = DiskOf(g)
    BY <2>1, Names DEF DiskOf
  <2> QED
    BY <2>1, <2>4, <2>5
<1>6. ASSUME NEW s \in Snapshots, image[<<g, s>>] = Absent, record[g] # None,
             Put(g, s, Empty), Finish(p)
      PROVE  Implemented
  <2>1. Empty \in Image \cup {Empty} /\ Empty \notin Image /\ ~Whole(Empty)
    BY Names DEF Whole
  <2>2. /\ Unsaved' /\ Older'
        /\ \A h \in Guests : DiskStep(h)
    BY <1>5, <1>6, <2>1
  <2>3. Carried(p, "idle", NoWork)'
    BY DEF Carried, Holding, Replaces
  <2>4. Carries'
    BY <1>6, <2>2, <2>3, NoWorkTyped, CarriesAt DEF Finish, Labels
  <2> QED
    BY <2>2, <2>4 DEF Implemented
<1>7. ASSUME NEW s \in Snapshots, image[<<g, s>>] = Absent, record[g] # None,
             DiskOf(g) # Absent, Put(g, s, [data |-> DiskOf(g).data, state |-> p]),
             Goto(p, "snapshotting", [u EXCEPT !.into = s])
      PROVE  Implemented
  <2>1. DiskOf(g) \in Image
    BY <1>7, Names DEF DiskOf, Images
  <2>2. DiskOf(g).data \in Nat /\ DiskOf(g).data <= written
    BY <1>3, <2>1, ImageFields, Names DEF Older, DiskOf
  <2>3. PICK i \in Image : i = [data |-> DiskOf(g).data, state |-> p]
    BY <2>2, ImageFields
  <2>4. i.data <= written /\ ~Whole(i) /\ Put(g, s, i)
    BY <1>7, <2>2, <2>3, Names DEF Whole
  <2>5. /\ Unsaved' /\ Older' /\ image'[<<g, s>>] = i /\ DiskOf(g)' = DiskOf(g)
        /\ \A h \in Guests : DiskStep(h)
    BY <1>5, <1>7, <2>4
  <2>6. PICK w \in WorkSet : w = [u EXCEPT !.into = s]
    BY DEF WorkSet
  <2>7. w.guest = g /\ w.into = s /\ w.cmd = u.cmd /\ w.snap = u.snap
    BY <1>2, <2>6 DEF WorkSet
  <2>8. image'[<<g, s>>] = [data |-> (DiskOf(g)').data, state |-> p] /\ DiskOf(g)' \in Image
    BY <2>1, <2>3, <2>5
  <2>9. Carried(p, "snapshotting", w)'
    BY <1>1, <1>3, <1>7, <2>7, <2>8 DEF Carried, Holding, Replaces
  <2>10. Carries'
    BY <1>7, <2>5, <2>6, <2>9, CarriesAt DEF Labels
  <2> QED
    BY <2>5, <2>10 DEF Implemented
<1>8. \/ Finish(p) /\ UNCHANGED image
      \/ /\ record[g] # None
         /\ \E s \in Snapshots :
              /\ image[<<g, s>>] = Absent
              /\ \/ Put(g, s, Empty) /\ Finish(p)
                 \/ /\ DiskOf(g) # Absent
                    /\ Put(g, s, [data |-> DiskOf(g).data, state |-> p])
                    /\ Goto(p, "snapshotting", [u EXCEPT !.into = s])
  BY <1>2 DEF TakeSnapshot, MaySnapshot, DiskOf
<1> QED
  BY <1>4, <1>6, <1>7, <1>8

LEMMA UnlinkImplemented ==
  ASSUME OneOperator, Typed, Exclusive, Carries, NEW p \in Operators, UnlinkDisk(p)
  PROVE  Implemented
<1> USE DEF Typed
<1>1. pc[p] = "unlink" /\ UNCHANGED <<record, written>>
  BY DEF UnlinkDisk, bounds
<1>2. PICK w \in WorkSet, g \in Guests : w = work[p] /\ g = w.guest /\ vm[g] = "none"
  BY <1>1, GuestOff DEF Replaces
<1>3. /\ Unsaved /\ Older /\ written \in Nat /\ record[g] # None
      /\ w.cmd = "restore" /\ w.snap \in Snapshots
      /\ Whole(DiskOf(g)) => DiskOf(g).data \in SavedOf(g)
  <2>1. Whole(DiskOf(g)) =>
          \E s \in Snapshots : /\ Whole(image[<<g, s>>])
                               /\ image[<<g, s>>].data = DiskOf(g).data
    BY <1>1, <1>2 DEF Carries, Carried
  <2>2. Whole(DiskOf(g)) => DiskOf(g).data \in SavedOf(g)
    BY <2>1 DEF SavedOf
  <2>3. written \in Nat
    BY HostAssumption DEF Counted
  <2>4. Unsaved /\ Older /\ Carried(p, "unlink", w)
    BY <1>1, <1>2 DEF Carries
  <2> QED
    BY <1>2, <2>2, <2>3, <2>4 DEF Carried, Replaces
<1>4. CASE Finish(p) /\ UNCHANGED <<image, vm>>
  BY <1>1, <1>4, FinishImplemented
<1>5. CASE Put(g, "disk", Absent) /\ Orphan(g) /\ Continue(p, "replace")
  <2>1. vm' = vm
    BY <1>2, <1>5 DEF Orphan, Opened
  <2>2. /\ Unsaved' /\ Older' /\ image'[<<g, "disk">>] = Absent
        /\ \A h \in Guests : h # g => DiskStep(h)
        /\ SavedOf(g)' = SavedOf(g)
    <3>1. Absent \in Image \cup {Absent, Empty} /\ Absent # Empty /\ Absent \notin Image
      BY Names
    <3> QED
      BY <1>1, <1>3, <1>5, <2>1, <3>1, PutData, Names
  <2>3. DiskOf(g)' = Absent /\ DataOf(g)' = None
    BY <2>2, Names DEF DiskOf, DataOf, Whole
  <2>4. DiskStep(g)
    <3>1. CASE Whole(DiskOf(g))
      <4>1. DataOf(g) \in SavedOf(g)
        BY <1>3, <3>1 DEF DataOf
      <4> QED
        BY <1>1, <1>2, <1>3, <2>1, <2>2, <2>3, <4>1, DiskGivenUp
    <3>2. CASE ~Whole(DiskOf(g))
      <4>1. DataOf(g) = None
        BY <3>2 DEF DataOf
      <4> QED
        BY <1>1, <2>1, <2>2, <2>3, <4>1, DiskStutters
    <3> QED
      BY <3>1, <3>2
  <2>5. Carried(p, "replace", w)'
    BY <1>1, <1>2, <1>3, <2>3 DEF Carried, Holding, Replaces
  <2>6. Goto(p, "replace", w)
    BY <1>2, <1>5 DEF Continue, Goto, Running
  <2>7. Carries'
    BY <2>2, <2>5, <2>6, CarriesAt DEF Labels
  <2> QED
    BY <2>2, <2>4, <2>7 DEF Implemented
<1> QED
  BY <1>2, <1>4, <1>5 DEF UnlinkDisk

LEMMA ReplaceImplemented ==
  ASSUME OneOperator, Typed, Exclusive, Carries, NEW p \in Operators, ReplaceDisk(p)
  PROVE  Implemented
<1> USE DEF Typed
<1>1. pc[p] = "replace" /\ UNCHANGED <<record, vm, written>>
  BY DEF ReplaceDisk, units, bounds
<1>2. PICK w \in WorkSet, g \in Guests : w = work[p] /\ g = w.guest /\ vm[g] = "none"
  BY <1>1, GuestOff DEF Replaces
<1>3. /\ Unsaved /\ Older /\ written \in Nat /\ record[g] # None
      /\ w.cmd = "restore" /\ w.snap \in Snapshots /\ DiskOf(g) = Absent
  <2>1. written \in Nat
    BY HostAssumption DEF Counted
  <2>2. Unsaved /\ Older /\ Carried(p, "replace", w)
    BY <1>1, <1>2 DEF Carries
  <2> QED
    BY <1>2, <2>1, <2>2 DEF Carried, Replaces
<1>4. CASE Finish(p) /\ UNCHANGED image
  BY <1>1, <1>4, FinishImplemented
<1>5. CASE ~(Finish(p) /\ UNCHANGED image)
  <2>1. PICK s \in Snapshots : s = w.snap
    BY <1>3
  <2>2. /\ image[<<g, s>>] \in Image
        /\ Put(g, "disk", [data |-> image[<<g, s>>].data, state |-> p])
        /\ Continue(p, "replacing")
    BY <1>2, <1>5, <2>1 DEF ReplaceDisk
  <2>3. PICK c \in Image : c = image[<<g, s>>]
    BY <2>2
  <2>4. c.data \in Nat /\ c.data <= written
    BY <1>3, <2>3, ImageFields, Names DEF Older
  <2>5. PICK i \in Image : i = [data |-> c.data, state |-> p]
    BY <2>4, ImageFields
  <2>6. i.data <= written /\ Put(g, "disk", i)
    BY <2>2, <2>3, <2>4, <2>5
  <2>7. /\ Unsaved' /\ Older' /\ image'[<<g, "disk">>] = i
        /\ image'[<<g, s>>] = image[<<g, s>>]
        /\ \A h \in Guests : h # g => DiskStep(h)
        /\ SavedOf(g)' = SavedOf(g)
    <3>1. i \in Image \cup {Absent, Empty} /\ i # Empty /\ s # "disk" /\ s \in Locations
      BY Names
    <3> QED
      BY <1>1, <1>3, <2>6, <3>1, PutData, Names
  <2>8. DiskStep(g)
    <3>1. DataOf(g) = None
      BY <1>3, Names DEF DataOf, Whole
    <3>2. DataOf(g)' = None
      BY <2>5, <2>7, Names DEF DataOf, DiskOf, Whole
    <3> QED
      BY <1>1, <2>7, <3>1, <3>2, DiskStutters
  <2>9. DiskOf(g)' = [data |-> image'[<<g, s>>].data, state |-> p] /\ image'[<<g, s>>] \in Image
    BY <2>3, <2>5, <2>7 DEF DiskOf
  <2>10. Carried(p, "replacing", w)'
    BY <1>1, <1>2, <1>3, <2>1, <2>9 DEF Carried, Holding, Replaces
  <2>11. Goto(p, "replacing", w)
    BY <1>2, <2>2 DEF Continue, Goto, Running
  <2>12. Carries'
    BY <2>7, <2>10, <2>11, CarriesAt DEF Labels
  <2> QED
    BY <2>7, <2>8, <2>12 DEF Implemented
<1> QED
  BY <1>4, <1>5

LEMMA VmWritesImplemented ==
  ASSUME OneOperator, Typed, Exclusive, Carries, NEW g \in Guests, VmWrites(g)
  PROVE  Implemented
<1> USE DEF Typed
<1>1. vm[g] = "disk" /\ written' = written + 1 /\ UNCHANGED <<record, vm, mounts, pc, work>>
  BY DEF VmWrites, units
<1>2. \A p \in Operators : pc[p] \in Off \cup Replaces => work[p].guest \in Guests \ {g}
  BY <1>1, GuestOff
<1>3. mounts[g] = << >>
  <2>1. Mounting \subseteq Off
    BY DEF Mounting, Off, Holding
  <2> QED
    BY <1>2, <2>1 DEF Exclusive, MountedOnce
<1>4. PICK d \in Image : d = DiskOf(g)
  BY <1>1 DEF Opened, DiskOf
<1>5. written \in Nat
  BY HostAssumption DEF Counted
<1>6. Put(g, "disk", [data |-> written + 1, state |-> d.state])
  BY <1>3, <1>4 DEF VmWrites, DiskOf
<1>7. d.state \in {"whole", "damaged"} \cup Operators /\ written + 1 \in Nat
  BY <1>5 DEF Image
<1>8. PICK i \in Image : i = [data |-> written + 1, state |-> d.state]
  BY <1>7, ImageFields
<1>9. i.data = written + 1 /\ i.state = d.state /\ (Whole(i) <=> Whole(d))
  BY <1>8 DEF Whole
<1>10. /\ image'[<<g, "disk">>] = i
       /\ \A h \in Guests, k \in Locations : h # g \/ k # "disk" => image'[<<h, k>>] = image[<<h, k>>]
  BY <1>6, <1>8, PutTyped, Names
<1>11. \A s \in Snapshots, h \in Guests : image'[<<h, s>>] = image[<<h, s>>]
  BY <1>10, Names
<1>12. Unsaved'
  BY <1>1, <1>11 DEF Unsaved, Carries
<1>13. Older'
  <2>1. ASSUME NEW h \in Guests, NEW l \in Locations, image'[<<h, l>>] \in Image
        PROVE  image'[<<h, l>>].data <= written + 1
    <3>1. CASE h = g /\ l = "disk"
      BY <1>5, <1>9, <1>10, <3>1
    <3>2. CASE h # g \/ l # "disk"
      <4>1. image'[<<h, l>>] = image[<<h, l>>]
        BY <1>10, <3>2
      <4>2. PICK e \in Image : e = image[<<h, l>>]
        BY <2>1, <4>1
      <4>3. e.data <= written /\ e.data \in Nat
        BY <4>2, ImageFields DEF Carries, Older
      <4> QED
        BY <1>5, <4>1, <4>2, <4>3
    <3> QED
      BY <3>1, <3>2
  <2> QED
    BY <1>1, <2>1 DEF Older
<1>14. ASSUME NEW q \in Operators PROVE Carried(q, pc[q], work[q])'
  <2>1. PICK l \in Labels, w \in WorkSet : l = pc[q] /\ w = work[q]
    BY DEF Running
  <2>2. Carried(q, l, w) /\ Fits(l, w)
    BY <2>1 DEF Carries, Running
  <2>3. Carried(q, l, w)'
    <3>1. CASE l \notin Off \cup Replaces
      BY <2>2, <3>1 DEF Carried, Off, Holding, Replaces
    <3>2. CASE l \in Off \cup Replaces
      <4>1. PICK h \in Guests : h = w.guest /\ h # g
        BY <1>2, <2>1, <3>2
      <4>2. \A k \in Locations : image'[<<h, k>>] = image[<<h, k>>]
        BY <1>10, <4>1
      <4>3. DiskOf(h)' = DiskOf(h) /\ \A s \in Snapshots : image'[<<h, s>>] = image[<<h, s>>]
        BY <4>2, Names DEF DiskOf
      <4>4. record'[h] = record[h]
        BY <1>1
      <4>5. l = "snapshotting" => w.into \in Snapshots
        BY <2>2 DEF Fits
      <4>6. l = "replacing" => w.snap \in Snapshots
        BY <2>2 DEF Carried
      <4>7. l = "snapshotting" => image'[<<h, w.into>>] = image[<<h, w.into>>]
        BY <4>3, <4>5
      <4>8. l = "replacing" => image'[<<h, w.snap>>] = image[<<h, w.snap>>]
        BY <4>3, <4>6
      <4>9. Whole(DiskOf(h))' <=> Whole(DiskOf(h))
        BY <4>3 DEF Whole
      <4>10. \A s \in Snapshots : Whole(image[<<h, s>>])' <=> Whole(image[<<h, s>>])
        BY <4>3 DEF Whole
      <4> QED
        BY <2>2, <4>1, <4>3, <4>4, <4>7, <4>8, <4>9, <4>10 DEF Carried
    <3> QED
      BY <3>1, <3>2
  <2> QED
    BY <1>1, <2>1, <2>3
<1>15. DiskStep(g)
  <2>1. SavedOf(g)' = SavedOf(g)
    BY <1>11 DEF SavedOf
  <2>2. CASE Whole(d)
    <3>1. DataOf(g) = d.data /\ DataOf(g)' = written + 1
      BY <1>4, <1>9, <1>10, <2>2 DEF DataOf, DiskOf, Whole
    <3>2. d.data \in Nat /\ d.data <= written
      BY <1>4, ImageFields, Names DEF Carries, Older, DiskOf
    <3>3. ASSUME NEW e \in SavedOf(g) PROVE e \in Nat /\ e <= written
      <4>1. PICK s \in Snapshots : Whole(image[<<g, s>>]) /\ e = image[<<g, s>>].data
        BY <3>3 DEF SavedOf
      <4>2. image[<<g, s>>] \in Image
        BY <4>1 DEF Whole
      <4> QED
        BY <4>1, <4>2, ImageFields, Names DEF Carries, Older
    <3>4. written + 1 \notin SavedOf(g) /\ written + 1 # d.data
      BY <1>5, <3>2, <3>3
    <3>5. DataOf(g) # None
      BY <3>1, <3>2, HostAssumption
    <3>6. DataOf(g)' \in Nat \ ({DataOf(g)} \cup SavedOf(g))
      BY <1>7, <3>1, <3>4
    <3> QED
      BY <1>1, <2>1, <3>5, <3>6, DiskWritten
  <2>3. CASE ~Whole(d)
    <3>1. DataOf(g) = None /\ DataOf(g)' = None
      BY <1>4, <1>9, <1>10, <2>3 DEF DataOf, DiskOf, Whole
    <3> QED
      BY <1>1, <2>1, <3>1, DiskStutters
  <2> QED
    BY <2>2, <2>3
<1>16. ASSUME NEW h \in Guests, h # g PROVE DiskStep(h)
  BY <1>1, <1>10, <1>16, UntouchedStutters DEF Untouched
<1>17. Carries'
  BY <1>12, <1>13, <1>14 DEF Carries
<1> QED
  BY <1>15, <1>16, <1>17 DEF Implemented

\* No step of a unit touches the images.
LEMMA UnitImplemented ==
  ASSUME Typed, Carries, NEW g \in Guests, Boot(g) \/ Restart(g) \/ VmExits(g)
  PROVE  Implemented
<1> USE DEF Typed
<1>1. UNCHANGED <<image, record, pc, work, written>>
  BY DEF Boot, Restart, VmExits, files, bounds
<1>2. Carries'
  <2>1. Unsaved' /\ Older'
    BY <1>1 DEF Carries, Unsaved, Older
  <2>2. ASSUME NEW p \in Operators PROVE Carried(p, pc[p], work[p])'
    BY <1>1 DEF Carries, Carried, DiskOf, Whole
  <2> QED
    BY <2>1, <2>2 DEF Carries
<1>3. ASSUME NEW h \in Guests PROVE DiskStep(h)
  <2>1. vm[h] = "none" /\ vm'[h] # "none" => record[h] # None
    BY DEF Boot, Restart, VmExits, VmEnds, Opened
  <2>2. DataOf(h)' = DataOf(h) /\ SavedOf(h)' = SavedOf(h)
    BY <1>1, SameData
  <2> QED
    BY <1>1, <2>1, <2>2, DiskTurned
<1> QED
  BY <1>2, <1>3 DEF Implemented

LEMMA PowerImplemented ==
  ASSUME Typed, Carries, PowerFailure
  PROVE  Implemented
<1> USE DEF Typed
<1>1. /\ UNCHANGED <<image, record, written>>
      /\ \A h \in Guests : vm'[h] = "none"
      /\ \A p \in Operators : pc'[p] = "idle" /\ work'[p] = NoWork
  BY DEF PowerFailure, files
<1>2. Carries'
  <2>1. \A p \in Operators : Carried(p, "idle", NoWork)'
    BY DEF Carried, Holding, Replaces
  <2>2. \A p \in Operators : Carried(p, pc[p], work[p])'
    BY <1>1, <2>1
  <2> QED
    BY <1>1, <2>2 DEF Carries, Unsaved, Older
<1>3. ASSUME NEW h \in Guests PROVE DiskStep(h)
  <2>1. DataOf(h)' = DataOf(h) /\ SavedOf(h)' = SavedOf(h)
    BY <1>1, SameData
  <2> QED
    BY <1>1, <2>1, DiskTurned
<1> QED
  BY <1>2, <1>3 DEF Implemented

\* A VM that failed has failed for good.
LEMMA FaultsGrow ==
  ASSUME Counted, [Next]_vars, faults'["vm"] = 0
  PROVE  faults["vm"] = 0
<1>1. faults \in [FaultKinds -> Nat] /\ "vm" \in FaultKinds
  BY DEF Counted, FaultKinds
<1>2. CASE UNCHANGED faults
  BY <1>2
<1>3. CASE \E k \in FaultKinds : Fault(k)
  BY <1>1, <1>3 DEF Fault
<1>4. CASE UNCHANGED vars
  BY <1>2, <1>4 DEF vars, bounds
<1>5. ASSUME NEW p \in Operators, Invoke(p) \/ Proceed(p) \/ CopyFails(p) \/ Raise(p) \/ Kill(p)
      PROVE  faults["vm"] = 0
  BY <1>2, <1>3, <1>5 DEF Invoke, Proceed, CopyFails, Raise, Kill, bounds, Provision, Activate,
     SnapshotCreate, Restore, Start, Stop, Started, FinishCopy, RemoveHome, Create, SaveRecord,
     StoreManifest, LoadDirectory, PublishEntry, Mount, Apply, Unmount, Clear, TakeSnapshot,
     UnlinkDisk, ReplaceDisk, FaultKinds
<1>6. ASSUME NEW g \in Guests, Systemd(g) \/ Guest(g) PROVE faults["vm"] = 0
  BY <1>1, <1>2, <1>3, <1>6 DEF Systemd, Guest, Boot, Restart, VmFails, VmExits, VmWrites, bounds
<1>7. CASE PowerFailure
  BY <1>3, <1>7 DEF PowerFailure, FaultKinds
<1> QED
  BY <1>4, <1>5, <1>6, <1>7 DEF Next

LEMMA RaiseImplemented ==
  ASSUME OneOperator, Typed, Carries, NEW p \in Operators, Raise(p)
  PROVE  Implemented
<1> USE DEF Typed
<1>1. UNCHANGED <<image, record, vm, written>>
  BY RaiseGoes DEF files, units
<1>2. CASE Finish(p)
  BY <1>1, <1>2, FinishImplemented
<1>3. ASSUME NEW w \in WorkSet, w.cmd = work[p].cmd, w.guest = work[p].guest, w.snap = work[p].snap,
             Goto(p, "unmount", w)
      PROVE  Implemented
  <2>1. Carried(p, pc[p], work[p]) /\ pc[p] \in Mounting
    BY RaiseGoes DEF Carries
  <2>2. Carried(p, "unmount", w)
    BY <1>3, <2>1 DEF Carried, Holding, Mounting, Replaces
  <2> QED
    BY <1>1, <1>3, <2>2, MoveImplemented DEF Labels
<1> QED
  BY <1>2, <1>3, RaiseGoes

LEMMA NextImplemented ==
  ASSUME OneOperator, Typed, Alone, Undisturbed, faults["vm"] = 0 => Carries, [Next]_vars,
         faults'["vm"] = 0
  PROVE  Implemented
<1> USE DEF Typed
<1>1. Exclusive /\ Carries
  BY FaultsGrow DEF Undisturbed
<1>2. ASSUME NEW p \in Operators, Invoke(p) \/ Proceed(p) \/ CopyFails(p) \/ Raise(p)
      PROVE  Implemented
  BY <1>1, <1>2, BeginImplemented, CopyImplemented, HoldingImplemented, RemoveHomeImplemented,
     CreateImplemented, SaveRecordImplemented, TakeSnapshotImplemented, UnlinkImplemented,
     ReplaceImplemented, StopImplemented, RaiseImplemented DEF Invoke, Proceed
<1>3. ASSUME NEW p \in Operators, Kill(p) PROVE Implemented
  <2>1. Finish(p) /\ UNCHANGED <<image, record, vm, written>>
    BY <1>3 DEF Kill, files, units
  <2> QED
    BY <1>1, <2>1, FinishImplemented
<1>4. ASSUME NEW g \in Guests, Systemd(g) \/ Guest(g) PROVE Implemented
  <2>1. ~VmFails(g)
    <3>1. faults["vm"] \in Nat /\ faults \in [FaultKinds -> Nat] /\ "vm" \in FaultKinds
      BY DEF Counted, FaultKinds
    <3> QED
      BY <3>1 DEF VmFails, Fault
  <2> QED
    BY <1>1, <1>4, <2>1, UnitImplemented, VmWritesImplemented DEF Systemd, Guest
<1>5. CASE UNCHANGED vars
  <2>1. UNCHANGED <<image, record, vm, written, pc, work>>
    BY <1>5 DEF vars, files, units, bounds
  <2>2. Carries'
    <3>1. Unsaved' /\ Older'
      BY <1>1, <2>1 DEF Carries, Unsaved, Older
    <3>2. ASSUME NEW p \in Operators PROVE Carried(p, pc[p], work[p])'
      BY <1>1, <2>1 DEF Carries, Carried, DiskOf, Whole
    <3> QED
      BY <3>1, <3>2 DEF Carries
  <2>3. \A g \in Guests : DiskStep(g)
    BY <2>1, UntouchedStutters DEF Untouched
  <2> QED
    BY <2>2, <2>3 DEF Implemented
<1> QED
  BY <1>1, <1>2, <1>3, <1>4, <1>5, PowerImplemented DEF Next

LEMMA InitCarries == Init => Carries
<1> SUFFICES ASSUME Init PROVE Carries
  OBVIOUS
<1>1. \A g \in Guests, l \in Locations : image[<<g, l>>] = Absent
  BY DEF Init
<1>2. Unsaved /\ Older
  BY <1>1, Names DEF Unsaved, Older
<1>3. \A p \in Operators : Carried(p, pc[p], work[p])
  BY IdleCarried DEF Init
<1> QED
  BY <1>2, <1>3 DEF Carries

LEMMA InitDisk == Init => \A g \in Guests : Disk(g)!Init
<1> SUFFICES ASSUME Init, NEW g \in Guests PROVE Disk(g)!Init
  OBVIOUS
<1>1. \A l \in Locations : image[<<g, l>>] = Absent
  BY DEF Init
<1>2. ~Whole(image[<<g, "disk">>]) /\ \A s \in Snapshots : ~Whole(image[<<g, s>>])
  BY <1>1, Names DEF Whole
<1>3. record[g] = None /\ vm[g] = "none"
  BY DEF Init
<1> QED
  BY <1>2, <1>3 DEF Disk!Init

\* While one operator works at a time, whose commands are not killed and whose
\* umount succeeds, the steps about each guest are those of GuestDisk: a disk is
\* given up only after its data was saved, nobody does it while the guest runs,
\* and what was saved stays (the pre-restore snapshot before unlink and cp, and
\* is_running), until a VM fails by itself.
THEOREM DiskImplemented == OneOperator /\ Unharmed => (Spec => ImplementsGuestDisk)
<1> SUFFICES ASSUME OneOperator, Unharmed PROVE Spec => ImplementsGuestDisk
  OBVIOUS
<1> DEFINE Inv == Typed /\ Alone /\ Undisturbed /\ (faults["vm"] = 0 => Carries)
           Steps == faults'["vm"] = 0 => \A g \in Guests : DiskStep(g)
<1>1. Init => Inv /\ \A g \in Guests : Disk(g)!Init
  BY InitTyped, InitAlone, InitExclusive, InitCarries, InitDisk DEF Undisturbed
<1>2. Inv /\ [Next]_vars => Inv' /\ Steps
  <2> SUFFICES ASSUME Inv, [Next]_vars PROVE Inv' /\ Steps
    OBVIOUS
  <2>1. Typed' /\ Alone' /\ Undisturbed'
    BY NextTyped, NextAlone, NextUndisturbed
  <2>2. faults'["vm"] = 0 => Carries' /\ \A g \in Guests : DiskStep(g)
    BY NextImplemented DEF Implemented
  <2> QED
    BY <2>1, <2>2
<1>3. Inv /\ [Next]_vars =>
        (faults'["vm"] = 0 => \A g \in Guests : [Disk(g)!Next]_(Disk(g)!diskVars))
  BY <1>2 DEF DiskStep
<1> QED
  BY <1>1, <1>2, <1>3, PTL DEF Spec, ImplementsGuestDisk
=============================================================================
