----------------------------- MODULE GuestDisk -----------------------------
(***************************************************************************)
(* What the host promises about the disk of one guest.  The disk holds     *)
(* data or is lost; it is only given up after its data was saved, by       *)
(* nobody while the guest runs, and a saved copy stays.                    *)
(***************************************************************************)
EXTENDS Naturals

CONSTANTS Lost

VARIABLES
  owned,    \* has provisioning finished?
  running,  \* does the guest run on the disk?
  data,     \* what is on it, 0 being the base image
  saved     \* what the snapshots hold

diskVars == <<owned, running, data, saved>>

Init == ~owned /\ ~running /\ data = Lost /\ saved = {}

\* Until then the directory may be removed and built again.
Build ==
  /\ ~owned /\ ~running
  /\ data' \in {0, Lost} /\ saved' = {}
  /\ UNCHANGED <<owned, running>>

Own ==
  /\ ~owned /\ data = 0
  /\ owned' = TRUE
  /\ UNCHANGED <<running, data, saved>>

TurnOn == owned /\ ~running /\ running' = TRUE /\ UNCHANGED <<owned, data, saved>>

TurnOff == running /\ running' = FALSE /\ UNCHANGED <<owned, data, saved>>

\* The guest writes something that was never on the disk before.
Write ==
  /\ running /\ data # Lost
  /\ data' \in Nat \ ({data} \cup saved)
  /\ UNCHANGED <<owned, running, saved>>

Save ==
  /\ owned /\ ~running /\ data # Lost
  /\ saved' = saved \cup {data}
  /\ UNCHANGED <<owned, running, data>>

\* A restore first gives the disk up, then puts saved data in its place.
GiveUp ==
  /\ owned /\ ~running /\ data \in saved
  /\ data' = Lost
  /\ UNCHANGED <<owned, running, saved>>

PutBack ==
  /\ owned /\ ~running /\ data = Lost
  /\ data' \in saved
  /\ UNCHANGED <<owned, running, saved>>

Next == Build \/ Own \/ TurnOn \/ TurnOff \/ Write \/ Save \/ GiveUp \/ PutBack

Spec == Init /\ [][Next]_diskVars

=============================================================================
