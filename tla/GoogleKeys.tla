----------------------------- MODULE GoogleKeys -----------------------------
(***************************************************************************)
(* The keys by which guests reach the host's Google OAuth broker           *)
(* (hostctl.py): the pair the host keeps of each guest, the private key    *)
(* on the guest's disk, and the broker's authorized_keys, rebuilt from the *)
(* pairs by every provision, activation and reconcile, without a lock.     *)
(*                                                                         *)
(* Simplifications: two commands are never about one guest (that is        *)
(* HostLifecycle's subject), and a guest is off while a command is about   *)
(* it; a truncated file is empty; ssh-keygen writes each file at once; the *)
(* public keys are read in one step.                                       *)
(***************************************************************************)
EXTENDS Naturals, FiniteSets

CONSTANTS
  Guests,
  Operators,    \* openclaw-hostctl processes
  MaxKeys,      \* bound on the keys ssh-keygen makes
  MaxFaults,    \* bounds on the faults of each kind
  Absent, Torn, None

\* A command is cut short (killed, or write_text meets a full disk), a guest's ssh
\* hangs, the broker's directory is lost.
FaultKinds == {"cut", "hang", "loss"}

\* A key says whose guest it was made for (the comment of ssh-keygen).
Keys == [guest : Guests, serial : 1 .. MaxKeys]

ASSUME KeysAssumption ==
  /\ MaxKeys \in Nat /\ MaxFaults \in [FaultKinds -> Nat]
  /\ {Absent, Torn, None} \cap Keys = {} /\ Absent # Torn
  /\ None \notin Guests

VARIABLES
  record,      \* the guests with a vm.json
  awake,       \* those that run
  priv, pub,   \* the pair the host keeps of each guest
  disk,        \* the private key on the guest's disk
  saved,       \* those in its snapshots
  authorized,  \* the key of the guest's line in authorized_keys
  pc, work,    \* what each command does next, and its local variables
  minted,      \* how many keys were made
  faults

guests == <<record, awake, disk, saved>>
broker == <<priv, pub, authorized>>
vars == <<guests, broker, pc, work, minted, faults>>

NoLines == [g \in Guests |-> None]

\* `missing` and `kept` are only for the properties: which guests that ran had no
\* pair when the command began, and which were connected.
NoWork ==
  [cmd |-> None, guest |-> None, at |-> None, todo |-> {}, key |-> None,
   lines |-> NoLines, again |-> FALSE, missing |-> {}, kept |-> {}]

Init ==
  /\ record = {} /\ awake = {} /\ minted = 0
  /\ priv = [g \in Guests |-> Absent] /\ pub = [g \in Guests |-> Absent]
  /\ disk = [g \in Guests |-> Absent] /\ saved = [g \in Guests |-> {}]
  /\ authorized = NoLines
  /\ pc = [p \in Operators |-> "idle"]
  /\ work = [p \in Operators |-> NoWork]
  /\ faults = [k \in FaultKinds |-> 0]

Goto(p, l, w) == pc' = [pc EXCEPT ![p] = l] /\ work' = [work EXCEPT ![p] = w]

\* The command returns, or an exception ends it.
Finish(p) == Goto(p, "idle", NoWork)

Fault(k) == faults[k] < MaxFaults[k] /\ faults' = [faults EXCEPT ![k] = @ + 1]

\* No command is about the guest.
Free(g) == \A p \in Operators : work[p].guest # g

HasPair(g) == priv[g] # Absent /\ pub[g] # Absent

\* The guest's key opens the broker, and the host has the pair of it.
Connected(g) ==
  disk[g] \in Keys /\ authorized[g] = disk[g] /\ priv[g] = disk[g] /\ pub[g] = disk[g]

Begin(cmd, g) ==
  [NoWork EXCEPT !.cmd = cmd, !.guest = g,
                 !.missing = {h \in record \cap awake : ~HasPair(h)},
                 !.kept = {h \in record : Connected(h)}]

-----------------------------------------------------------------------------
(* provision, activate, reconcile *)

\* A provision starts from a new disk (see HostLifecycle), an activation from
\* that of a guest that is off.
Ensure(p) ==
  /\ pc[p] = "idle"
  /\ \E g \in Guests :
       /\ Free(g)
       /\ \/ /\ g \notin record /\ Goto(p, "keygen", Begin("provision", g))
             /\ disk' = [disk EXCEPT ![g] = Absent]
          \/ /\ g \in record /\ Goto(p, "keygen", Begin("activate", g))
             /\ UNCHANGED disk
       /\ awake' = awake \ {g}
  /\ UNCHANGED <<record, saved, broker, minted, faults>>

\* reconcile goes through the guests twice, and is about none of them.
Reconcile(p) ==
  /\ pc[p] = "idle"
  /\ Goto(p, "sync", [Begin("reconcile", None) EXCEPT !.again = TRUE, !.todo = record])
  /\ UNCHANGED <<guests, broker, minted, faults>>

NeedsKey(g) == ~HasPair(g)

\* ssh-keygen writes the private key first.  It can fail, as it does when it
\* asks whether to overwrite a private key and nobody answers.
Keygen(p) ==
  LET g == work[p].guest IN
  /\ pc[p] = "keygen"
  /\ \/ /\ ~NeedsKey(g)
        /\ Goto(p, "sync", [work[p] EXCEPT !.todo = record])
        /\ UNCHANGED <<priv, minted>>
     \/ /\ NeedsKey(g) /\ minted < MaxKeys
        /\ minted' = minted + 1
        /\ LET k == [guest |-> g, serial |-> minted + 1] IN
           /\ priv' = [priv EXCEPT ![g] = k]
           /\ Goto(p, "keygen_pub", [work[p] EXCEPT !.key = k])
     \/ NeedsKey(g) /\ Finish(p) /\ UNCHANGED <<priv, minted>>
  /\ UNCHANGED <<guests, pub, authorized, faults>>

\* Mutant: a public key that is there is kept.
MutKeygenPub(p) ==
  /\ pc[p] = "keygen_pub"
  /\ pub' = [pub EXCEPT ![work[p].guest] = IF @ = Absent THEN work[p].key ELSE @]
  /\ Goto(p, "sync", [work[p] EXCEPT !.todo = record, !.key = None])
  /\ UNCHANGED <<guests, priv, authorized, minted, faults>>

KeygenPub(p) ==
  /\ pc[p] = "keygen_pub"
  /\ pub' = [pub EXCEPT ![work[p].guest] = work[p].key]
  /\ Goto(p, "sync", [work[p] EXCEPT !.todo = record, !.key = None])
  /\ UNCHANGED <<guests, priv, authorized, minted, faults>>

-----------------------------------------------------------------------------
(* Fetching the keys of guests of which the host has no pair *)

\* A guest that is off or has no key is passed over.
Answers(g) == g \in awake /\ disk[g] \in Keys

SkipGuest(p) ==
  /\ pc[p] = "sync"
  /\ \E g \in work[p].todo :
       /\ HasPair(g) \/ ~Answers(g)
       /\ Goto(p, "sync", [work[p] EXCEPT !.todo = @ \ {g}])
  /\ UNCHANGED <<guests, broker, minted, faults>>

\* The key is fetched, and write_text empties the file it will be in.
FetchKey(p) ==
  /\ pc[p] = "sync"
  /\ \E g \in work[p].todo :
       /\ ~HasPair(g) /\ Answers(g)
       /\ priv' = [priv EXCEPT ![g] = Torn]
       /\ Goto(p, "fill_priv", [work[p] EXCEPT !.at = g, !.key = disk[g]])
  /\ UNCHANGED <<guests, pub, authorized, minted, faults>>

\* ssh ends with an error although the guest is up (its sshd has not started, it
\* refuses the automation's key), and the guest is passed over.  A first pass
\* that fails is made good by the second.
FetchFails(p) ==
  /\ pc[p] = "sync"
  /\ \E g \in work[p].todo :
       /\ ~HasPair(g) /\ Answers(g)
       /\ Goto(p, "sync", [work[p] EXCEPT !.todo = @ \ {g},
                                         !.missing = IF work[p].again THEN @ ELSE @ \ {g}])
  /\ UNCHANGED <<guests, broker, minted, faults>>

\* The 20 s of ssh are over: TimeoutExpired ends the command.
FetchHangs(p) ==
  /\ pc[p] = "sync" /\ Fault("hang")
  /\ \E g \in work[p].todo : ~HasPair(g) /\ g \in awake
  /\ Finish(p)
  /\ UNCHANGED <<guests, broker, minted>>

FillPriv(p) ==
  /\ pc[p] = "fill_priv"
  /\ priv' = [priv EXCEPT ![work[p].at] = work[p].key]
  /\ Goto(p, "derive", work[p])
  /\ UNCHANGED <<guests, pub, authorized, minted, faults>>

\* Mutant: the public key of a fetched key is left to the next ssh-keygen.
MutDerive(p) ==
  /\ pc[p] = "derive"
  /\ Goto(p, "sync", [work[p] EXCEPT !.todo = @ \ {work[p].at}, !.at = None, !.key = None])
  /\ UNCHANGED <<guests, broker, minted, faults>>

\* ssh-keygen -y reads the private key's file, which may have changed.
Derive(p) ==
  LET g == work[p].at IN
  /\ pc[p] = "derive"
  /\ \/ /\ priv[g] \in Keys
        /\ pub' = [pub EXCEPT ![g] = Torn]
        /\ Goto(p, "fill_pub", [work[p] EXCEPT !.key = priv[g]])
     \/ priv[g] \notin Keys /\ Finish(p) /\ UNCHANGED pub
  /\ UNCHANGED <<guests, priv, authorized, minted, faults>>

FillPub(p) ==
  LET g == work[p].at IN
  /\ pc[p] = "fill_pub"
  /\ pub' = [pub EXCEPT ![g] = work[p].key]
  /\ Goto(p, "sync", [work[p] EXCEPT !.todo = @ \ {g}, !.at = None, !.key = None])
  /\ UNCHANGED <<guests, priv, authorized, minted, faults>>

Synced(p) ==
  /\ pc[p] = "sync" /\ work[p].todo = {}
  /\ IF work[p].again
       THEN Goto(p, "sync", [work[p] EXCEPT !.again = FALSE, !.todo = record])
       ELSE Goto(p, "orphans", work[p])
  /\ UNCHANGED <<guests, broker, minted, faults>>

-----------------------------------------------------------------------------
(* Pruning, and authorized_keys *)

\* Mutant: the guest being provisioned has no record yet, and is pruned.
MutValid(p) == record

\* Mutant: only the command's own guest is kept, and those that run.
MutValidAwake(p) == awake \cup {work[p].guest}

Valid(p) == record \cup {work[p].guest}

Orphans(p) ==
  /\ pc[p] = "orphans"
  /\ Goto(p, "prune", [work[p] EXCEPT !.todo =
                         {g \in Guests : priv[g] # Absent} \ Valid(p)])
  /\ UNCHANGED <<guests, broker, minted, faults>>

Prune(p) ==
  /\ pc[p] = "prune"
  /\ \E g \in work[p].todo :
       /\ priv' = [priv EXCEPT ![g] = Absent]
       /\ Goto(p, "prune_pub", [work[p] EXCEPT !.at = g])
  /\ UNCHANGED <<guests, pub, authorized, minted, faults>>

PrunePub(p) ==
  LET g == work[p].at IN
  /\ pc[p] = "prune_pub"
  /\ pub' = [pub EXCEPT ![g] = Absent]
  /\ Goto(p, "prune", [work[p] EXCEPT !.todo = @ \ {g}, !.at = None])
  /\ UNCHANGED <<guests, priv, authorized, minted, faults>>

\* Mutant: a line for every guest that has a private key, with the first public
\* key that is found.
MutLines ==
  [g \in Guests |->
     IF priv[g] # Absent /\ \E h \in Guests : pub[h] \in Keys
       THEN pub[CHOOSE h \in Guests : pub[h] \in Keys] ELSE None]

\* A pair whose public key is missing or empty gets no line.
Lines == [g \in Guests |-> IF priv[g] # Absent /\ pub[g] \in Keys THEN pub[g] ELSE None]

\* The lines are made, and write_text empties authorized_keys.
Collect(p) ==
  /\ pc[p] = "prune" /\ work[p].todo = {}
  /\ authorized' = NoLines
  /\ Goto(p, "fill", [work[p] EXCEPT !.lines = Lines])
  /\ UNCHANGED <<guests, priv, pub, minted, faults>>

Fill(p) ==
  /\ pc[p] = "fill"
  /\ authorized' = work[p].lines
  /\ IF work[p].cmd = "reconcile" THEN Finish(p) ELSE Goto(p, "install", work[p])
  /\ UNCHANGED <<guests, priv, pub, minted, faults>>

\* The private key is written to the guest's disk, mounted on the host.  An
\* empty one is no key; a missing one is an error.
Install(p) ==
  LET g == work[p].guest IN
  /\ pc[p] = "install"
  /\ \/ /\ priv[g] # Absent
        /\ disk' = [disk EXCEPT ![g] = IF priv[g] = Torn THEN Absent ELSE priv[g]]
        /\ IF work[p].cmd = "provision" THEN Goto(p, "save", work[p]) ELSE Finish(p)
     \/ priv[g] = Absent /\ Finish(p) /\ UNCHANGED disk
  /\ UNCHANGED <<record, awake, saved, broker, minted, faults>>

\* The record, and the first snapshot.
Save(p) ==
  LET g == work[p].guest IN
  /\ pc[p] = "save"
  /\ record' = record \cup {g}
  /\ saved' = [saved EXCEPT ![g] = {disk[g]}]
  /\ Finish(p)
  /\ UNCHANGED <<awake, disk, broker, minted, faults>>

-----------------------------------------------------------------------------
(* What happens around *)

\* What a command under way has noted of a guest no longer holds.
Forget(g) ==
  work' = [p \in Operators |-> [work[p] EXCEPT !.kept = @ \ {g}, !.missing = @ \ {g}]]

StartGuest(g) ==
  /\ g \in record \ awake /\ Free(g)
  /\ awake' = awake \cup {g}
  /\ UNCHANGED <<record, disk, saved, broker, pc, work, minted, faults>>

StopGuest(g) ==
  /\ g \in awake
  /\ awake' = awake \ {g}
  /\ work' = [p \in Operators |-> [work[p] EXCEPT !.missing = @ \ {g}]]
  /\ UNCHANGED <<record, disk, saved, broker, pc, minted, faults>>

Snapshot(g) ==
  /\ g \in record \ awake /\ Free(g)
  /\ saved' = [saved EXCEPT ![g] = @ \cup {disk[g]}]
  /\ UNCHANGED <<record, awake, disk, broker, pc, work, minted, faults>>

\* A restore brings an old key back.
RestoreGuest(g) ==
  /\ g \in record \ awake /\ Free(g)
  /\ \E k \in saved[g] : disk' = [disk EXCEPT ![g] = k]
  /\ Forget(g)
  /\ UNCHANGED <<record, awake, saved, broker, pc, minted, faults>>

\* The operator deletes the guest's directory.
RemoveGuest(g) ==
  /\ g \in record \ awake /\ Free(g)
  /\ record' = record \ {g}
  /\ disk' = [disk EXCEPT ![g] = Absent]
  /\ saved' = [saved EXCEPT ![g] = {}]
  /\ Forget(g)
  /\ UNCHANGED <<awake, broker, pc, minted, faults>>

\* The host is rebuilt without the broker's directory.
LoseBroker ==
  /\ Fault("loss") /\ \A p \in Operators : pc[p] = "idle"
  /\ priv' = [g \in Guests |-> Absent]
  /\ pub' = [g \in Guests |-> Absent]
  /\ authorized' = NoLines
  /\ UNCHANGED <<guests, pc, work, minted>>

\* SIGKILL, anywhere; or a full disk, on which write_text has emptied the file
\* already when it raises.  Both leave the files as they are between two steps,
\* or empty the key that is being written to the guest's disk.
CutShort(p) ==
  /\ pc[p] # "idle" /\ Fault("cut")
  /\ Finish(p)
  /\ \/ UNCHANGED disk
     \/ pc[p] = "install" /\ disk' = [disk EXCEPT ![work[p].guest] = Absent]
  /\ UNCHANGED <<record, awake, saved, broker, minted>>

-----------------------------------------------------------------------------
Step(p) ==
  \/ Ensure(p) \/ Reconcile(p) \/ Keygen(p) \/ KeygenPub(p)
  \/ SkipGuest(p) \/ FetchKey(p) \/ FetchFails(p) \/ FetchHangs(p) \/ FillPriv(p)
  \/ Derive(p) \/ FillPub(p) \/ Synced(p) \/ Orphans(p) \/ Prune(p) \/ PrunePub(p)
  \/ Collect(p) \/ Fill(p) \/ Install(p) \/ Save(p) \/ CutShort(p)

Around(g) ==
  StartGuest(g) \/ StopGuest(g) \/ Snapshot(g) \/ RestoreGuest(g) \/ RemoveGuest(g)

Next ==
  \/ \E p \in Operators : Step(p)
  \/ \E g \in Guests : Around(g)
  \/ LoseBroker

Spec == Init /\ [][Next]_vars

-----------------------------------------------------------------------------
(* Properties *)

Labels ==
  {"idle", "keygen", "keygen_pub", "sync", "fill_priv", "derive", "fill_pub",
   "orphans", "prune", "prune_pub", "fill", "install", "save"}

LineSet == [Guests -> Keys \cup {None}]

Work ==
  [cmd : {None, "provision", "activate", "reconcile"}, guest : Guests \cup {None},
   at : Guests \cup {None}, todo : SUBSET Guests, key : Keys \cup {None},
   lines : LineSet, again : BOOLEAN, missing : SUBSET Guests, kept : SUBSET Guests]

\* The type invariant.
TypeOK ==
  /\ record \in SUBSET Guests /\ awake \in SUBSET Guests
  /\ priv \in [Guests -> Keys \cup {Absent, Torn}]
  /\ pub \in [Guests -> Keys \cup {Absent, Torn}]
  /\ disk \in [Guests -> Keys \cup {Absent}]
  /\ saved \in [Guests -> SUBSET (Keys \cup {Absent})]
  /\ authorized \in LineSet
  /\ pc \in [Operators -> Labels]
  /\ work \in [Operators -> Work]
  /\ minted \in 0 .. MaxKeys
  /\ faults \in [FaultKinds -> Nat]

\* No key opens the broker as somebody else's guest: a line of authorized_keys
\* names the guest its key was made for, whatever commands run at once.
KeyNamesItsGuest ==
  \A g \in Guests : authorized[g] # None => authorized[g].guest = g

\* A guest that is provisioned or activated reaches the broker with the key it
\* was given: the line rewritten just before has that key.  So it is as long as at
\* most one command has been cut short, now or earlier, and did not leave the
\* host an empty public key, which no command replaces.  (Two that were can
\* leave a pair of two keys.)
InstalledKeyConnects ==
  [][\A p \in Operators :
       LET g == work[p].guest IN
       pc[p] = "install" /\ pc'[p] # "install" /\ faults["cut"] = faults'["cut"]
         => \/ disk'[g] \in Keys /\ authorized[g] = disk'[g]
            \/ pub[g] = Torn \/ faults["cut"] > 1]_vars

\* A pair is of one key: one command cut short, wherever in the pruning,
\* ssh-keygen or the writing of a fetched key, leaves at worst an empty public key.
PairMatches ==
  \A g \in Guests :
    HasPair(g) /\ faults["cut"] <= 1 =>
      \/ priv[g] = pub[g] \/ pub[g] = Torn
      \/ \E p \in Operators : pc[p] \in {"keygen_pub", "fill_priv", "derive", "fill_pub"}

\* No command that ends, at its end or because a guest's ssh hangs, ssh-keygen
\* fails or a key is missing, cuts off a guest that had the key the host has.
\* One that is cut short can: authorized_keys is empty while it is written.
ConnectionsAreKept ==
  [][\A p \in Operators :
       pc[p] # "idle" /\ pc'[p] = "idle" /\ faults["cut"] = faults'["cut"] =>
         \A g \in work[p].kept : authorized'[g] \in Keys /\ authorized'[g] = disk'[g]]_vars

\* After a reconcile that ran to its end, every guest that was up all the time,
\* had lost its pair and has a key is connected again with that key, unless its
\* ssh failed in the second of the two passes: then it is passed over in silence.
ReconcileHeals ==
  [][\A p \in Operators :
       pc[p] = "fill" /\ pc'[p] = "idle" /\ faults["cut"] = faults'["cut"] =>
         \A g \in work[p].missing \cap awake :
           disk[g] \in Keys => authorized'[g] = disk[g]]_vars

=============================================================================
