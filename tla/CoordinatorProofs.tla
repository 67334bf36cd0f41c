------------------------- MODULE CoordinatorProofs -------------------------
(***************************************************************************)
(* Proofs about Coordinator, for any number of requests, events, users and *)
(* command-line processes and for any bounds on crashes and failed calls.  *)
(***************************************************************************)
EXTENDS Coordinator, TLAPS

(***************************************************************************)
(* Control: what a process holds at each of its steps.                     *)
(***************************************************************************)
Drafted(p) ==
  /\ work[p].req \in Requests
  /\ work[p].step \in Steps
  /\ work[p].draft \in Record
  /\ work[p].draft.status = StatusAfter[work[p].step]
  /\ work[p].step \in Decisions => work[p].who = work[p].draft.owner
  /\ work[p].step \in {"approve", "publish"} => work[p].draft.result # NoResult
  /\ work[p].step \in {"answered", "lookup_failed"} => p = Slack
  /\ work[p].step = "submit" => work[p].event \in Events

ControlOf(p) ==
  /\ pc[p] \in {"find", "parse"} =>
       work[p].event \in Events /\ work[p].step = "submit"
  /\ pc[p] \in {"ack_click", "decide"} =>
       /\ work[p].step \in Decisions
       /\ work[p].req \in Requests
       /\ work[p].who \in Users
  /\ pc[p] \in Saving \cup {"post"} => Drafted(p)
  /\ pc[p] \in {"load", "lookup"} =>
       p = Slack /\ work[p].req \in Requests /\ work[p].step = "load"
  /\ pc[p] = "lookup" =>
       work[p].draft \in Record /\ work[p].draft.status = "executing"
  /\ pc[p] \in {"ack_click", "post", "complain", "refresh"} => p = Slack
  /\ pc[p] = "complain" /\ work[p].step = "submit" => work[p].event \in Events
  /\ pc[p] = "refresh" => work[p].req \in Requests
  /\ work[p].button => work[p].req \in Requests

Control == \A p \in Procs : ControlOf(p)

\* Only records of an older release await a review, and they have a result.
ReviewHasResult ==
  \A r \in Requests :
    Readable(r) /\ file[r].status = "owner_review_pending" =>
      file[r].result # NoResult

Typed == TypeOK /\ Control /\ ReviewHasResult

USE ConstantsAssumption, LegacyAssumption

LEMMA Tables ==
  /\ StatusAfter \in [Steps -> Statuses]
  /\ AuditAfter \in [Steps -> AuditEvents]
  /\ \A s \in Steps : StatusAfter[s] # "owner_review_pending"
  /\ \A s \in Steps : MessageAfter[s] \in {MessageAfter[t] : t \in Steps}
  /\ NoWork \in Work
BY DEF StatusAfter, AuditAfter, MessageAfter, Steps, Decisions, Statuses,
       AuditEvents, NoWork, Work, Task

LEMMA InitTyped == Init => Typed
<1> SUFFICES ASSUME Init PROVE Typed
  OBVIOUS
<1>1. TypeOK
  BY Tables DEF Init, TypeOK, PCs, Saving, Cards
<1>2. Control
  BY DEF Init, Control, ControlOf, NoWork, Task, Saving
<1>3. ReviewHasResult
  BY DEF Init, ReviewHasResult, Readable
<1> QED
  BY <1>1, <1>2, <1>3 DEF Typed

\* A step of p leaves what the other processes hold as it is.
LEMMA OneProcessMoves ==
  ASSUME TypeOK, Control, NEW p \in Procs, NEW l \in PCs, NEW w \in Work,
         pc' = [pc EXCEPT ![p] = l],
         work' = [work EXCEPT ![p] = w],
         ControlOf(p)'
  PROVE  /\ pc' \in [Procs -> PCs]
         /\ work' \in [Procs -> Work]
         /\ Control'
<1>1. pc' \in [Procs -> PCs] /\ work' \in [Procs -> Work]
  BY DEF TypeOK
<1>2. ASSUME NEW q \in Procs, q # p PROVE ControlOf(q)'
  <2>1. pc'[q] = pc[q] /\ work'[q] = work[q]
    BY <1>2 DEF TypeOK
  <2> QED
    BY <2>1 DEF Control, ControlOf, Drafted
<1> QED
  BY <1>1, <1>2 DEF Control

LEMMA FaultTyped ==
  ASSUME TypeOK, NEW k \in FaultKinds, Fault(k)
  PROVE  faults' \in [FaultKinds -> Nat]
BY DEF Fault, TypeOK

LEMMA FinishControl ==
  ASSUME TypeOK, Control, NEW p \in Procs, Finish(p)
  PROVE  /\ pc' \in [Procs -> PCs]
         /\ work' \in [Procs -> Work]
         /\ Control'
<1>1. "idle" \in PCs /\ NoWork \in Work
  BY Tables DEF PCs
<1>2. ControlOf(p)'
  BY DEF Finish, ControlOf, NoWork, Task, Saving, TypeOK
<1> QED
  BY <1>1, <1>2, OneProcessMoves DEF Finish

LEMMA RaiseControl ==
  ASSUME TypeOK, Control, NEW p \in Procs, Raise(p),
         pc[p] \in {"find", "parse", "load", "lookup", "decide", "write", "audit"}
  PROVE  /\ pc' \in [Procs -> PCs]
         /\ work' \in [Procs -> Work]
         /\ Control'
<1>1. CASE p = Slack
  <2>1. pc' = [pc EXCEPT ![p] = "complain"] /\ work' = [work EXCEPT ![p] = work[p]]
    BY <1>1 DEF Raise, Goto, TypeOK
  <2>2. "complain" \in PCs /\ work[p] \in Work
    BY DEF PCs, TypeOK
  <2>3. ControlOf(p)'
    BY <1>1, <2>1 DEF Control, ControlOf, Drafted, TypeOK, Saving, Decisions
  <2> QED
    BY <2>1, <2>2, <2>3, OneProcessMoves
<1>2. CASE p # Slack
  BY <1>2, FinishControl DEF Raise
<1> QED
  BY <1>1, <1>2

\* Save puts a draft into what p holds.
LEMMA SaveControl ==
  ASSUME TypeOK, Control, NEW p \in Procs, NEW r \in Requests, NEW s \in Steps,
         NEW rec \in Record, Save(p, r, s, rec),
         rec.status = StatusAfter[s],
         s \in Decisions => work[p].who = rec.owner,
         s \in {"approve", "publish"} => rec.result # NoResult,
         s \in {"answered", "lookup_failed"} => p = Slack,
         s = "submit" => work[p].event \in Events
  PROVE  /\ pc' \in [Procs -> PCs]
         /\ work' \in [Procs -> Work]
         /\ Control'
<1> DEFINE w == [work[p] EXCEPT !.req = r, !.step = s, !.draft = rec]
<1>1. work[p] \in Work
  BY DEF TypeOK
<1>2. w \in Work
  BY <1>1 DEF Work
<1>3. /\ w.req = r /\ w.step = s /\ w.draft = rec /\ w.who = work[p].who
      /\ w.event = work[p].event
  BY <1>1 DEF Work
<1>4. pc' = [pc EXCEPT ![p] = "truncate"] /\ work' = [work EXCEPT ![p] = w]
  BY <1>1 DEF Save, Goto, TypeOK, Work
<1>5. "truncate" \in PCs
  BY DEF PCs, Saving
<1>6. ControlOf(p)'
  <2>1. pc'[p] = "truncate" /\ work'[p] = w
    BY <1>4 DEF TypeOK
  <2>2. Drafted(p)'
    BY <2>1, <1>3 DEF Drafted
  <2> QED
    BY <2>1, <2>2, <1>3 DEF ControlOf, Saving
<1> QED
  BY <1>2, <1>4, <1>5, <1>6, OneProcessMoves

(***************************************************************************)
(* Each action keeps the types and the control.                            *)
(***************************************************************************)
LEMMA StartTyped ==
  ASSUME Typed, NEW p \in Procs, NEW l \in {"find", "ack_click", "decide"},
         NEW e \in Events \cup {None}, NEW r \in Requests \cup {None},
         NEW s \in Decisions \cup {"submit"}, NEW u \in Users \cup {None},
         NEW b \in BOOLEAN,
         l = "find" => e \in Events /\ s = "submit",
         l \in {"ack_click", "decide"} =>
           r \in Requests /\ s \in Decisions /\ u \in Users,
         l = "ack_click" => p = Slack,
         b => r \in Requests,
         Goto(p, l),
         work' = [work EXCEPT ![p] = Task(e, r, s, u, b)],
         inbox' \in SUBSET Events,
         UNCHANGED <<store, card, observers, faults>>
  PROVE  Typed'
<1>1. Task(e, r, s, u, b) \in Work /\ l \in PCs
  BY DEF Task, Work, PCs, Steps
<1>2. pc' = [pc EXCEPT ![p] = l]
  BY DEF Goto
<1>3. ControlOf(p)'
  BY <1>2 DEF Typed, TypeOK, ControlOf, Task, Saving
<1>4. /\ pc' \in [Procs -> PCs]
      /\ work' \in [Procs -> Work]
      /\ Control'
  BY <1>1, <1>2, <1>3, OneProcessMoves DEF Typed
<1> QED
  BY <1>4 DEF Typed, TypeOK, ReviewHasResult, Readable, store, observers

LEMMA ReceiveRequestTyped ==
  ASSUME Typed, NEW e \in Events, ReceiveRequest(e)
  PROVE  Typed'
<1>1. inbox' \in SUBSET Events
  BY DEF Typed, TypeOK, ReceiveRequest
<1> QED
  BY <1>1, StartTyped DEF ReceiveRequest, Procs

LEMMA ReceiveDecisionTyped ==
  ASSUME Typed, NEW u \in Users, NEW r \in Requests, NEW d \in Decisions,
         NEW b \in BOOLEAN, ReceiveDecision(u, r, d, b)
  PROVE  Typed'
<1>1. inbox' \in SUBSET Events
  BY DEF Typed, TypeOK, ReceiveDecision
<1>2. Slack \in Procs
  BY DEF Procs
<1>3. CASE b
  BY <1>1, <1>2, <1>3, StartTyped DEF ReceiveDecision
<1>4. CASE ~b
  BY <1>1, <1>2, <1>4, StartTyped DEF ReceiveDecision
<1> QED
  BY <1>3, <1>4

LEMMA RunSubmitTyped ==
  ASSUME Typed, NEW p \in CliProcs, NEW e \in Events, RunSubmit(p, e)
  PROVE  Typed'
<1>1. inbox' \in SUBSET Events
  BY DEF Typed, TypeOK, RunSubmit
<1> QED
  BY <1>1, StartTyped DEF RunSubmit, Procs

LEMMA RunDecisionTyped ==
  ASSUME Typed, NEW p \in CliProcs, NEW u \in Users, NEW r \in Requests,
         NEW d \in Decisions, RunDecision(p, u, r, d)
  PROVE  Typed'
<1>1. inbox' \in SUBSET Events
  BY DEF Typed, TypeOK, RunDecision
<1> QED
  BY <1>1, StartTyped DEF RunDecision, Procs

LEMMA FindDuplicateTyped ==
  ASSUME Typed, NEW p \in Procs, FindDuplicate(p)
  PROVE  Typed'
<1> USE DEF Typed
<1>1. pc[p] = "find" /\ UNCHANGED <<store, observers, inbox, card, faults>>
  BY DEF FindDuplicate, Raise
<1>2. /\ pc' \in [Procs -> PCs]
      /\ work' \in [Procs -> Work]
      /\ Control'
  <2>1. CASE Raise(p)
    BY <1>1, <2>1, RaiseControl
  <2>2. CASE Finish(p)
    BY <2>2, FinishControl
  <2>3. CASE Goto(p, "parse") /\ UNCHANGED work
    <3>1. "parse" \in PCs /\ work[p] \in Work
      BY DEF PCs, TypeOK
    <3>2. work' = [work EXCEPT ![p] = work[p]] /\ pc' = [pc EXCEPT ![p] = "parse"]
      BY <2>3 DEF TypeOK, Goto
    <3>3. ControlOf(p)'
      BY <1>1, <3>2 DEF Control, ControlOf, TypeOK, Saving
    <3> QED
      BY <3>1, <3>2, <3>3, OneProcessMoves
  <2> QED
    BY <2>1, <2>2, <2>3 DEF FindDuplicate
<1> QED
  BY <1>1, <1>2 DEF TypeOK, ReviewHasResult, Readable, store, observers

LEMMA ParseTyped ==
  ASSUME Typed, NEW p \in Procs, Parse(p)
  PROVE  Typed'
<1> USE DEF Typed
<1>1. pc[p] = "parse" /\ UNCHANGED <<store, observers, inbox, card, faults>>
  BY DEF Parse, Raise
<1>2. work[p].event \in Events
  BY <1>1 DEF Control, ControlOf
<1>3. /\ pc' \in [Procs -> PCs]
      /\ work' \in [Procs -> Work]
      /\ Control'
  <2>1. CASE Raise(p)
    BY <1>1, <2>1, RaiseControl
  <2>2. ASSUME NEW r \in Requests, OwnerOf[work[p].event] \in registered
        PROVE  /\ [event |-> work[p].event,
                   requester |-> RequesterOf[work[p].event],
                   owner |-> OwnerOf[work[p].event], status |-> "executing",
                   result |-> NoResult] \in Record
               /\ StatusAfter["submit"] = "executing"
               /\ "submit" \in Steps /\ "submit" \notin Decisions
    BY <1>2, <2>2, Tables DEF Record, Statuses, TypeOK, Owners, StatusAfter, Steps,
         Decisions
  <2> QED
    BY <1>1, <1>2, <2>1, <2>2, SaveControl DEF Parse, Decisions
<1> QED
  BY <1>1, <1>3 DEF TypeOK, ReviewHasResult, Readable, store, observers

LEMMA LoadTyped ==
  ASSUME Typed, NEW p \in Procs, Load(p)
  PROVE  Typed'
<1> USE DEF Typed
<1>1. pc[p] = "load" /\ UNCHANGED <<store, posted, refused, decidedBy, inbox, card, faults>>
  BY DEF Load, Raise, observers
<1>2. p = Slack /\ work[p].req \in Requests /\ work[p].step = "load"
  BY <1>1 DEF Control, ControlOf
<1>3. CASE Raise(p)
  <2>1. /\ pc' \in [Procs -> PCs]
        /\ work' \in [Procs -> Work]
        /\ Control'
    BY <1>1, <1>3, RaiseControl
  <2> QED
    BY <1>1, <1>3, <2>1 DEF TypeOK, ReviewHasResult, Readable, Raise, store,
         observers
<1>4. CASE /\ MayExecute(work[p].req)
           /\ Goto(p, "lookup")
           /\ work' = [work EXCEPT ![p].draft = file[work[p].req]]
           /\ lookups' = [lookups EXCEPT ![work[p].req] = @ + 1]
  <2> DEFINE rec == file[work[p].req]
             w == [work[p] EXCEPT !.draft = rec]
  <2>1. rec \in Record /\ rec.status = "executing"
    BY <1>2, <1>4 DEF MayExecute, Readable, TypeOK
  <2>2. work[p] \in Work
    BY DEF TypeOK
  <2>3. w \in Work /\ w.draft = rec /\ w.req = work[p].req /\ w.step = work[p].step
    BY <2>1, <2>2 DEF Work
  <2>4. work' = [work EXCEPT ![p] = w] /\ pc' = [pc EXCEPT ![p] = "lookup"]
    BY <1>4, <2>2 DEF Goto, TypeOK, Work
  <2>5. "lookup" \in PCs
    BY DEF PCs
  <2>6. ControlOf(p)'
    <3>1. pc'[p] = "lookup" /\ work'[p] = w
      BY <2>4 DEF TypeOK
    <3> HIDE DEF w, rec
    <3> QED
      BY <3>1, <2>1, <2>3, <1>2 DEF ControlOf, Saving
  <2>7. /\ pc' \in [Procs -> PCs]
        /\ work' \in [Procs -> Work]
        /\ Control'
    BY <2>3, <2>4, <2>5, <2>6, OneProcessMoves
  <2>8. lookups' \in [Requests -> Nat]
    BY <1>2, <1>4 DEF TypeOK
  <2> QED
    BY <1>1, <2>7, <2>8 DEF TypeOK, ReviewHasResult, Readable, store
<1> QED
  BY <1>3, <1>4 DEF Load

LEMMA LookupTyped ==
  ASSUME Typed, NEW p \in Procs, Lookup(p)
  PROVE  Typed'
<1> USE DEF Typed
<1>1. pc[p] = "lookup" /\ UNCHANGED <<store, observers, inbox, card, faults>>
  BY DEF Lookup, Raise
<1>2. /\ p = Slack /\ work[p].req \in Requests
      /\ work[p].draft \in Record
  BY <1>1 DEF Control, ControlOf
<1>3. /\ pc' \in [Procs -> PCs]
      /\ work' \in [Procs -> Work]
      /\ Control'
  <2>1. CASE Raise(p)
    BY <1>1, <2>1, RaiseControl
  <2>2. ASSUME NEW a \in Results \cup {NoResult}
        PROVE  LET rec == [work[p].draft EXCEPT
                             !.status = "pending_owner_approval", !.result = a]
               IN rec \in Record /\ rec.status = StatusAfter["answered"]
    BY <1>2, Tables DEF Record, StatusAfter, Steps, Statuses
  <2>3. LET rec == [work[p].draft EXCEPT !.status = "failed"]
        IN rec \in Record /\ rec.status = StatusAfter["lookup_failed"]
    BY <1>2, Tables DEF Record, StatusAfter, Steps, Statuses
  <2>4. /\ "answered" \in Steps /\ "lookup_failed" \in Steps
        /\ {"answered", "lookup_failed"} \cap Decisions = {}
    BY DEF Steps, Decisions
  <2>5. CASE \E a \in Results \cup {NoResult} :
               Save(p, work[p].req, "answered",
                    [work[p].draft EXCEPT !.status = "pending_owner_approval",
                                          !.result = a])
    BY <1>2, <2>2, <2>4, <2>5, SaveControl
  <2>6. CASE Save(p, work[p].req, "lookup_failed",
                  [work[p].draft EXCEPT !.status = "failed"])
    BY <1>2, <2>3, <2>4, <2>6, SaveControl
  <2> QED
    BY <2>1, <2>5, <2>6 DEF Lookup
<1> QED
  BY <1>1, <1>3 DEF TypeOK, ReviewHasResult, Readable, store, observers

LEMMA DecideTyped ==
  ASSUME Typed, NEW p \in Procs, Decide(p)
  PROVE  Typed'
<1> USE DEF Typed
<1>1. pc[p] = "decide" /\ UNCHANGED <<store, observers, inbox, card, faults>>
  BY DEF Decide, Raise
<1>2. work[p].req \in Requests /\ work[p].step \in Decisions
  BY <1>1 DEF Control, ControlOf
<1>3. /\ pc' \in [Procs -> PCs]
      /\ work' \in [Procs -> Work]
      /\ Control'
  <2>1. CASE Raise(p)
    BY <1>1, <2>1, RaiseControl
  <2>2. CASE /\ MayDecide(work[p].who, work[p].req, work[p].step)
             /\ Save(p, work[p].req, work[p].step,
                     [file[work[p].req] EXCEPT !.status = StatusAfter[work[p].step]])
    <3> DEFINE old == file[work[p].req]
               rec == [old EXCEPT !.status = StatusAfter[work[p].step]]
    <3>1. old \in Record
      BY <1>2, <2>2 DEF MayDecide, Readable, TypeOK
    <3>2. /\ work[p].step \in Steps
          /\ work[p].step \notin {"submit", "answered", "lookup_failed"}
      BY <1>2 DEF Steps, Decisions
    <3>3. /\ rec \in Record /\ rec.status = StatusAfter[work[p].step]
          /\ rec.owner = old.owner /\ rec.result = old.result
      BY <3>1, <3>2, Tables DEF Record
    <3>4. work[p].step \in {"approve", "publish"} => old.result # NoResult
      <4>1. CASE work[p].step = "approve"
        BY <2>2, <4>1 DEF MayDecide
      <4>2. CASE work[p].step = "publish"
        <5>1. Readable(work[p].req) /\ old.status = "owner_review_pending"
          BY <2>2, <4>2 DEF MayDecide, StatusFor
        <5> QED
          BY <1>2, <5>1 DEF ReviewHasResult
      <4> QED
        BY <4>1, <4>2
    <3>5. work[p].who = old.owner
      BY <2>2 DEF MayDecide
    <3>6. Save(p, work[p].req, work[p].step, rec)
      BY <2>2
    <3> HIDE DEF old, rec
    <3> QED
      BY <1>2, <3>2, <3>3, <3>4, <3>5, <3>6, SaveControl
  <2> QED
    BY <2>1, <2>2 DEF Decide
<1> QED
  BY <1>1, <1>3 DEF TypeOK, ReviewHasResult, Readable, store, observers

LEMMA TruncateTyped ==
  ASSUME Typed, NEW p \in Procs, Truncate(p)
  PROVE  Typed'
<1> USE DEF Typed
<1>1. /\ pc' = [pc EXCEPT ![p] = "write"]
      /\ work' = [work EXCEPT ![p] = work[p]]
      /\ "write" \in PCs /\ work[p] \in Work
  BY DEF Truncate, Goto, TypeOK, PCs, Saving
<1>2. ControlOf(p)'
  BY <1>1 DEF Truncate, Control, ControlOf, Drafted, TypeOK, Saving
<1>3. /\ pc' \in [Procs -> PCs]
      /\ work' \in [Procs -> Work]
      /\ Control'
  BY <1>1, <1>2, OneProcessMoves
<1> QED
  BY <1>3 DEF Truncate, TypeOK, ReviewHasResult, Readable, observers

\* The disk is full while a process saves or logs.
LEMMA DiskFullTyped ==
  ASSUME Typed, NEW p \in Procs, pc[p] \in {"write", "audit"}, Fault("disk"),
         Raise(p), UNCHANGED <<inbox, card>>
  PROVE  Typed'
<1> USE DEF Typed
<1>1. /\ pc' \in [Procs -> PCs]
      /\ work' \in [Procs -> Work]
      /\ Control'
  BY RaiseControl
<1>2. faults' \in [FaultKinds -> Nat]
  BY FaultTyped DEF FaultKinds
<1> QED
  BY <1>1, <1>2 DEF Raise, TypeOK, ReviewHasResult, Readable, store, observers

LEMMA WriteTyped ==
  ASSUME Typed, NEW p \in Procs, Write(p)
  PROVE  Typed'
<1> USE DEF Typed
<1> DEFINE w == work[p]
<1>1. CASE Fault("disk") /\ Raise(p)
  BY <1>1, DiskFullTyped DEF Write
<1>2. CASE /\ file' = [file EXCEPT ![w.req] = w.draft]
           /\ decidedBy' = IF w.step \in Decisions
                           THEN [decidedBy EXCEPT ![w.req] = @ \cup {w.who}]
                           ELSE decidedBy
           /\ Goto(p, "audit")
           /\ UNCHANGED <<audit, registered, work, posted, refused, lookups, faults>>
  <2>1. /\ pc[p] = "write" /\ UNCHANGED <<inbox, card>>
        /\ pc' = [pc EXCEPT ![p] = "audit"]
        /\ work' = [work EXCEPT ![p] = work[p]]
        /\ "audit" \in PCs /\ work[p] \in Work
    BY <1>2 DEF Write, Goto, TypeOK, PCs, Saving
  <2>2. ControlOf(p)'
    BY <2>1 DEF Control, ControlOf, Drafted, TypeOK, Saving
  <2>3. /\ pc' \in [Procs -> PCs]
        /\ work' \in [Procs -> Work]
        /\ Control'
    BY <2>1, <2>2, OneProcessMoves
  <2>4. /\ w.req \in Requests /\ w.draft \in Record /\ w.step \in Steps
        /\ w.draft.status = StatusAfter[w.step]
        /\ w.step \in Decisions => w.who = w.draft.owner
    BY <2>1 DEF Control, ControlOf, Drafted, Saving
  <2>5. file' \in [Requests -> Record \cup {Absent, Torn}]
    BY <1>2, <2>4 DEF TypeOK
  <2>6. decidedBy' \in [Requests -> SUBSET Users]
    BY <1>2, <2>4 DEF TypeOK, Record
  <2>7. ReviewHasResult'
    BY <1>2, <2>4, Tables DEF TypeOK, ReviewHasResult, Readable
  <2> QED
    BY <1>2, <2>1, <2>3, <2>5, <2>6, <2>7 DEF TypeOK
<1> QED
  BY <1>1, <1>2 DEF Write

LEMMA AuditTyped ==
  ASSUME Typed, NEW p \in Procs, Audit(p)
  PROVE  Typed'
<1> USE DEF Typed
<1>1. CASE Fault("disk") /\ Raise(p)
  BY <1>1, DiskFullTyped DEF Audit
<1>2. CASE /\ audit' = [audit EXCEPT ![work[p].req] =
                                      @ \cup {AuditAfter[work[p].step]}]
           /\ IF p = Slack THEN Goto(p, "post") /\ UNCHANGED work ELSE Finish(p)
           /\ UNCHANGED <<file, registered, observers, faults>>
  <2>1. /\ pc[p] = "audit" /\ UNCHANGED <<inbox, card>>
        /\ work[p].req \in Requests /\ work[p].step \in Steps
    BY DEF Audit, Control, ControlOf, Drafted, Saving
  <2>2. /\ pc' \in [Procs -> PCs]
        /\ work' \in [Procs -> Work]
        /\ Control'
    <3>1. CASE p = Slack
      <4>1. /\ pc' = [pc EXCEPT ![p] = "post"]
            /\ work' = [work EXCEPT ![p] = work[p]]
            /\ "post" \in PCs /\ work[p] \in Work
        BY <1>2, <3>1 DEF Goto, TypeOK, PCs
      <4>2. ControlOf(p)'
        BY <2>1, <3>1, <4>1 DEF Control, ControlOf, Drafted, TypeOK, Saving
      <4> QED
        BY <4>1, <4>2, OneProcessMoves
    <3>2. CASE p # Slack
      BY <1>2, <3>2, FinishControl
    <3> QED
      BY <3>1, <3>2
  <2>3. audit' \in [Requests -> SUBSET AuditEvents]
    BY <1>2, <2>1, Tables DEF TypeOK
  <2> QED
    BY <1>2, <2>1, <2>2, <2>3 DEF TypeOK, ReviewHasResult, Readable, observers
<1> QED
  BY <1>1, <1>2 DEF Audit

LEMMA PostTyped ==
  ASSUME Typed, Post
  PROVE  Typed'
<1> USE DEF Typed
<1> DEFINE w == work[Slack]
<1>1. Slack \in Procs
  BY DEF Procs
<1>2. /\ w.req \in Requests /\ w.step \in Steps /\ w.draft \in Record
      /\ w \in Work /\ pc[Slack] = "post"
  BY <1>1 DEF Post, Control, ControlOf, Drafted, TypeOK
<1>3. OutgoingMessage \in Message
  BY <1>2, Tables DEF OutgoingMessage, Message, Content, Record
<1>4. /\ pc' \in [Procs -> PCs]
      /\ work' \in [Procs -> Work]
      /\ Control'
  <2>1. CASE Finish(Slack)
    BY <1>1, <2>1, FinishControl
  <2>2. CASE /\ Goto(Slack, "load")
             /\ work' = [work EXCEPT ![Slack] = Task(None, w.req, "load", None, FALSE)]
    <3>1. Task(None, w.req, "load", None, FALSE) \in Work /\ "load" \in PCs
      BY <1>2 DEF Task, Work, PCs
    <3>2. ControlOf(Slack)'
      BY <1>1, <1>2, <2>2 DEF Goto, ControlOf, Task, Saving, TypeOK
    <3> QED
      BY <1>1, <2>2, <3>1, <3>2, OneProcessMoves DEF Goto
  <2>3. CASE Goto(Slack, "refresh") /\ UNCHANGED work
    <3>1. /\ pc' = [pc EXCEPT ![Slack] = "refresh"]
          /\ work' = [work EXCEPT ![Slack] = w] /\ "refresh" \in PCs
      BY <2>3 DEF Goto, TypeOK, PCs
    <3>2. ControlOf(Slack)'
      BY <1>1, <1>2, <3>1 DEF ControlOf, Saving, TypeOK
    <3> QED
      BY <1>1, <1>2, <3>1, <3>2, OneProcessMoves
  <2> QED
    BY <2>1, <2>2, <2>3 DEF Post, Reconnect
<1>5. posted' \in [Requests -> SUBSET Message]
  <2>1. \/ posted' = [posted EXCEPT ![w.req] = @ \cup {OutgoingMessage}]
        \/ posted' = posted
    BY DEF Post
  <2>2. posted \in [Requests -> SUBSET Message]
    BY DEF TypeOK
  <2> HIDE DEF w
  <2> QED
    BY <1>2, <1>3, <2>1, <2>2
<1>6. card' \in [Requests -> Cards]
  <2>1. card' = [card EXCEPT ![w.req] = "buttons"] \/ card' = card
    BY DEF Post
  <2>2. card \in [Requests -> Cards] /\ "buttons" \in Cards
    BY DEF TypeOK, Cards
  <2> HIDE DEF w
  <2> QED
    BY <1>2, <2>1, <2>2
<1>7. faults' \in [FaultKinds -> Nat]
  <2>1. UNCHANGED faults \/ CallFails
    BY DEF Post
  <2> QED
    BY <2>1, FaultTyped DEF CallFails, FaultKinds, TypeOK
<1>8. UNCHANGED <<file, audit, registered, inbox, refused, lookups, decidedBy>>
  BY DEF Post, store
<1> QED
  BY <1>4, <1>5, <1>6, <1>7, <1>8 DEF TypeOK, ReviewHasResult, Readable

\* Slack's work without the draft.
Undrafted == [work[Slack] EXCEPT !.draft = None]

LEMMA UndraftedIs ==
  ASSUME TypeOK
  PROVE  /\ Undrafted \in Work /\ Undrafted.req = work[Slack].req
         /\ Undrafted.event = work[Slack].event /\ Undrafted.button = work[Slack].button
         /\ work' = [work EXCEPT ![Slack].draft = None] => work' = [work EXCEPT ![Slack] = Undrafted]
<1>1. work[Slack] \in Work
  BY DEF TypeOK, Procs
<1>2. Undrafted \in Work
  BY <1>1 DEF Undrafted, Work
<1> QED
  BY <1>1, <1>2 DEF Undrafted, Work

LEMMA ComplainTyped ==
  ASSUME Typed, Complain
  PROVE  Typed'
<1> USE DEF Typed
<1> DEFINE w == work[Slack]
<1>1. Slack \in Procs /\ w \in Work /\ pc[Slack] = "complain"
  BY DEF Procs, TypeOK, Complain
<1>2. /\ w.step = "submit" => w.event \in Events
      /\ w.button => w.req \in Requests
  BY <1>1 DEF Control, ControlOf
<1>3. /\ pc' \in [Procs -> PCs]
      /\ work' \in [Procs -> Work]
      /\ Control'
  <2>1. CASE Finish(Slack)
    BY <1>1, <2>1, FinishControl
  <2>2. CASE w.button /\ Goto(Slack, "refresh") /\ work' = [work EXCEPT ![Slack].draft = None]
    <3>1. /\ pc' = [pc EXCEPT ![Slack] = "refresh"] /\ "refresh" \in PCs
          /\ work' = [work EXCEPT ![Slack] = Undrafted] /\ Undrafted \in Work
          /\ Undrafted.req = w.req
      BY <2>2, UndraftedIs DEF Goto, PCs
    <3>2. ControlOf(Slack)'
      BY <1>1, <1>2, <2>2, <3>1 DEF ControlOf, Saving, TypeOK
    <3> QED
      BY <1>1, <3>1, <3>2, OneProcessMoves
  <2> QED
    BY <2>1, <2>2 DEF Complain, Reconnect
<1>4. refused' \in SUBSET Events
  BY <1>2 DEF Complain, TypeOK
<1>5. faults' \in [FaultKinds -> Nat]
  BY FaultTyped DEF Complain, CallFails, FaultKinds, TypeOK
<1>6. UNCHANGED <<file, audit, registered, inbox, card, posted, lookups, decidedBy>>
  BY DEF Complain, store
<1> QED
  BY <1>3, <1>4, <1>5, <1>6 DEF TypeOK, ReviewHasResult, Readable

LEMMA AckClickTyped ==
  ASSUME Typed, AckClick
  PROVE  Typed'
<1> USE DEF Typed
<1> DEFINE w == work[Slack]
<1>1. /\ Slack \in Procs /\ w \in Work /\ w.req \in Requests
      /\ w.step \in Decisions /\ w.who \in Users
  BY DEF Procs, TypeOK, AckClick, Control, ControlOf
<1>2. /\ pc' = [pc EXCEPT ![Slack] = "decide"]
      /\ work' = [work EXCEPT ![Slack] = w] /\ "decide" \in PCs
  BY DEF AckClick, Goto, TypeOK, PCs
<1>3. ControlOf(Slack)'
  BY <1>1, <1>2 DEF ControlOf, Saving, TypeOK
<1>4. /\ pc' \in [Procs -> PCs]
      /\ work' \in [Procs -> Work]
      /\ Control'
  BY <1>1, <1>2, <1>3, OneProcessMoves
<1>5. card' \in [Requests -> Cards]
  BY <1>1 DEF AckClick, TypeOK, Cards
<1>6. faults' \in [FaultKinds -> Nat]
  BY FaultTyped DEF AckClick, CallFails, FaultKinds, TypeOK
<1>7. UNCHANGED <<store, inbox, observers>>
  BY DEF AckClick
<1> QED
  BY <1>4, <1>5, <1>6, <1>7 DEF TypeOK, ReviewHasResult, Readable, store, observers

LEMMA RefreshTyped ==
  ASSUME Typed, Refresh
  PROVE  Typed'
<1> USE DEF Typed
<1> DEFINE w == work[Slack]
           rec == IF w.draft # None THEN w.draft ELSE file[w.req]
<1>1. Slack \in Procs /\ w \in Work /\ w.req \in Requests
  BY DEF Procs, TypeOK, Refresh, Control, ControlOf
<1>2. rec \in Record \cup {Absent, Torn}
  BY <1>1 DEF TypeOK, Work
<1>3. /\ pc' \in [Procs -> PCs]
      /\ work' \in [Procs -> Work]
      /\ Control'
  BY <1>1, FinishControl DEF Refresh
<1>4. card' \in [Requests -> Cards]
  <2>1. rec \notin {Absent, Torn} => rec.status \in Cards
    BY <1>2 DEF Record, Cards
  <2> QED
    BY <1>1, <2>1 DEF Refresh, TypeOK
<1>5. faults' \in [FaultKinds -> Nat]
  BY FaultTyped DEF Refresh, CallFails, FaultKinds, TypeOK
<1>6. UNCHANGED <<store, inbox, observers>>
  BY DEF Refresh
<1> QED
  BY <1>3, <1>4, <1>5, <1>6 DEF TypeOK, ReviewHasResult, Readable, store, observers

LEMMA EnvironmentTyped ==
  ASSUME Typed,
         \/ \E u \in Owners : Register(u) \/ Unregister(u)
         \/ \E p \in Procs : Crash(p)
  PROVE  Typed'
<1> USE DEF Typed
<1>1. CASE \E u \in Owners : Register(u) \/ Unregister(u)
  <2>1. registered' \in SUBSET Owners
    BY <1>1 DEF Register, Unregister, TypeOK
  <2>2. UNCHANGED <<file, audit, inbox, pc, work, card, observers, faults>>
    BY <1>1 DEF Register, Unregister
  <2>3. Control'
    BY <2>2 DEF Control, ControlOf, Drafted
  <2> QED
    BY <2>1, <2>2, <2>3 DEF TypeOK, ReviewHasResult, Readable, observers
<1>2. ASSUME NEW p \in Procs, Crash(p) PROVE Typed'
  <2>1. /\ pc' \in [Procs -> PCs]
        /\ work' \in [Procs -> Work]
        /\ Control'
    BY <1>2, FinishControl DEF Crash
  <2>2. faults' \in [FaultKinds -> Nat] /\ UNCHANGED <<store, inbox, card, observers>>
    BY <1>2, FaultTyped DEF Crash, FaultKinds
  <2> QED
    BY <2>1, <2>2 DEF TypeOK, ReviewHasResult, Readable, store, observers
<1> QED
  BY <1>1, <1>2

LEMMA StutterTyped == ASSUME Typed, UNCHANGED vars PROVE Typed'
BY DEF Typed, vars, store, observers, TypeOK, Control, ControlOf, Drafted,
       ReviewHasResult, Readable

LEMMA NextTyped == Typed /\ [Next]_vars => Typed'
<1> SUFFICES ASSUME Typed, [Next]_vars PROVE Typed'
  OBVIOUS
<1>1. ASSUME NEW p \in Procs, ServiceStep(p) PROVE Typed'
  BY <1>1, FindDuplicateTyped, ParseTyped, LoadTyped, LookupTyped, DecideTyped,
     TruncateTyped, WriteTyped, AuditTyped DEF ServiceStep
<1>2. CASE RunnerStep
  BY <1>2, PostTyped, ComplainTyped, AckClickTyped, RefreshTyped DEF RunnerStep
<1> QED
  BY <1>1, <1>2, ReceiveRequestTyped, ReceiveDecisionTyped, RunSubmitTyped,
     RunDecisionTyped, EnvironmentTyped, StutterTyped DEF Next

LEMMA AlwaysTyped == Spec => []Typed
BY InitTyped, NextTyped, PTL DEF Spec

\* The state keeps its types: no process ever saves, logs or posts anything but
\* a well-formed record, event or message, whatever the interleaving.
THEOREM TypeCorrect == Spec => []TypeOK
<1>1. Typed => TypeOK
  BY DEF Typed
<1> QED
  BY <1>1, AlwaysTyped, PTL

=============================================================================
