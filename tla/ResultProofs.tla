---------------------------- MODULE ResultProofs ----------------------------
(***************************************************************************)
(* The safety properties of Coordinator.  For every interleaving of the    *)
(* Slack runner with any number of commands: what is posted as the result  *)
(* is the stored content its owner decided on; one search, one record, one *)
(* verdict, no message twice.  For the runner alone: the audit log follows *)
(* the records, and the program implements SharedRequest.                  *)
(*                                                                         *)
(* A process decides a request from the moment it passed the checks of a   *)
(* decision, and prepares it from its creation to the save of its lookup.  *)
(* The two exclude each other, and those who decide agree with each other, *)
(* with the file and with what was posted.  The rest is built on that.     *)
(***************************************************************************)
EXTENDS CoordinatorProofs, FiniteSetTheorems

USE ConstantsAssumption

Decides(p, r) ==
  /\ pc[p] \in Saving \cup {"post"}
  /\ work[p].req = r /\ work[p].step \in Decisions

Prepares(p, r) ==
  /\ work[p].req = r
  /\ \/ pc[p] \in {"load", "lookup"}
     \/ /\ pc[p] \in {"truncate", "write"}
        /\ work[p].step \in {"submit", "answered", "lookup_failed"}
     \/ pc[p] \in {"audit", "post"} /\ work[p].step = "submit"

Same(a, b) == a.result = b.result /\ a.owner = b.owner

PublishedTo(r) == {m \in posted[r] : m.kind = "requester_dm_published"}

DecidersAgree ==
  \A r \in Requests : \A p, q \in Procs :
    Decides(p, r) /\ Decides(q, r) => Same(work[p].draft, work[q].draft)

DeciderFile ==
  \A r \in Requests : \A p \in Procs : Decides(p, r) =>
    /\ file[r] # Absent
    /\ Readable(r) => file[r].status # "executing" /\ Same(file[r], work[p].draft)
    /\ pc[p] \in {"audit", "post"} => work[p].draft.owner \in decidedBy[r]
    /\ pc[p] = "post" => AuditAfter[work[p].step] \in audit[r]

PreparerAlone ==
  \A r \in Requests : \A p \in Procs : Prepares(p, r) =>
    /\ Readable(r) => file[r].status = "executing"
    /\ PublishedTo(r) = {}
    /\ \A q \in Procs : ~Decides(q, r) /\ (Prepares(q, r) => q = p)

ResultStored ==
  \A r \in Requests : \A m \in PublishedTo(r) :
    /\ file[r] # Absent
    /\ Readable(r) => /\ file[r].status # "executing"
                      /\ file[r].result = m.content
                      /\ file[r].owner \in decidedBy[r]
    /\ \A p \in Procs : Decides(p, r) =>
         work[p].draft.result = m.content /\ work[p].draft.owner \in decidedBy[r]
    /\ "published" \in audit[r]
    /\ m.content # NoResult

Settled == DecidersAgree /\ DeciderFile /\ PreparerAlone /\ ResultStored

LEMMA InitSettled == Init => Settled
<1> SUFFICES ASSUME Init PROVE Settled
  OBVIOUS
<1>1. \A r \in Requests : \A p \in Procs : ~Decides(p, r) /\ ~Prepares(p, r)
  BY DEF Init, Decides, Prepares, NoWork, Task, Saving
<1>2. \A r \in Requests : PublishedTo(r) = {}
  BY DEF Init, PublishedTo
<1> QED
  BY <1>1, <1>2 DEF Settled, DecidersAgree, DeciderFile, PreparerAlone, ResultStored

\* A step after which nobody decides or prepares who did not before, and that
\* writes no file and posts no result.
LEMMA QuietSettled ==
  ASSUME Settled, UNCHANGED file,
         \A r \in Requests : /\ audit[r] \subseteq audit'[r]
                             /\ decidedBy[r] \subseteq decidedBy'[r]
                             /\ PublishedTo(r)' = PublishedTo(r),
         \A r \in Requests : \A p \in Procs : Prepares(p, r)' => Prepares(p, r),
         \A r \in Requests : \A p \in Procs : Decides(p, r)' =>
           /\ Decides(p, r)
           /\ work'[p].draft = work[p].draft
           /\ pc'[p] \in {"audit", "post"} => pc[p] \in {"audit", "post"}
           /\ pc'[p] = "post" => AuditAfter[work'[p].step] \in audit'[r]
  PROVE  Settled'
<1>1. DecidersAgree'
  BY DEF Settled, DecidersAgree
<1>2. DeciderFile'
  BY DEF Settled, DeciderFile, Readable
<1>3. PreparerAlone'
  BY DEF Settled, PreparerAlone, Readable
<1>4. ResultStored'
  BY DEF Settled, ResultStored, Readable
<1> QED
  BY <1>1, <1>2, <1>3, <1>4 DEF Settled

\* A step that takes p to where it neither decides nor prepares.
LEMMA LeavingSettled ==
  ASSUME Typed, Settled, NEW p \in Procs, NEW l \in PCs, NEW w \in Work,
         l \notin Saving \cup {"post", "load", "lookup"},
         pc' = [pc EXCEPT ![p] = l], work' = [work EXCEPT ![p] = w],
         UNCHANGED <<file, audit, posted, decidedBy>>
  PROVE  Settled'
<1>1. ASSUME NEW r \in Requests, NEW q \in Procs
      PROVE  /\ Prepares(q, r)' => Prepares(q, r)
             /\ Decides(q, r)' => /\ Decides(q, r)
                                  /\ work'[q] = work[q] /\ pc'[q] = pc[q]
  <2>1. CASE q = p
    BY <2>1 DEF Typed, TypeOK, Prepares, Decides, Saving
  <2>2. CASE q # p
    <3>1. pc'[q] = pc[q] /\ work'[q] = work[q]
      BY <2>2 DEF Typed, TypeOK
    <3> QED
      BY <3>1 DEF Prepares, Decides
  <2> QED
    BY <2>1, <2>2
<1>2. \A r \in Requests : PublishedTo(r)' = PublishedTo(r)
  BY DEF PublishedTo
<1>3. \A r \in Requests : \A q \in Procs :
        Decides(q, r) /\ pc[q] = "post" => AuditAfter[work[q].step] \in audit[r]
  BY DEF Settled, DeciderFile
<1> QED
  BY <1>1, <1>2, <1>3, QuietSettled

LEMMA FinishSettled ==
  ASSUME Typed, Settled, NEW p \in Procs, Finish(p),
         UNCHANGED <<file, audit, posted, decidedBy>>
  PROVE  Settled'
<1>1. "idle" \in PCs /\ NoWork \in Work /\ "idle" \notin Saving \cup {"post", "load", "lookup"}
  BY Tables DEF PCs, Saving
<1> QED
  BY <1>1, LeavingSettled DEF Finish

LEMMA RaiseSettled ==
  ASSUME Typed, Settled, NEW p \in Procs, Raise(p)
  PROVE  Settled'
<1>1. UNCHANGED <<file, audit, posted, decidedBy>>
  BY DEF Raise, store, observers
<1>2. CASE p = Slack
  <2>1. /\ "complain" \in PCs /\ work[p] \in Work
        /\ "complain" \notin Saving \cup {"post", "load", "lookup"}
        /\ pc' = [pc EXCEPT ![p] = "complain"] /\ work' = [work EXCEPT ![p] = work[p]]
    BY <1>2 DEF Raise, Goto, PCs, Saving, Typed, TypeOK
  <2> QED
    BY <1>1, <2>1, LeavingSettled
<1>3. CASE p # Slack
  BY <1>1, <1>3, FinishSettled DEF Raise
<1> QED
  BY <1>2, <1>3

(***************************************************************************)
(* The steps that neither write a file nor post a result.                  *)
(***************************************************************************)
LEMMA StartSettled ==
  ASSUME Typed, Settled,
         \/ \E e \in Events : ReceiveRequest(e)
         \/ \E u \in Users, r \in Requests, d \in Decisions, b \in BOOLEAN :
              ReceiveDecision(u, r, d, b)
         \/ \E p \in CliProcs, e \in Events : RunSubmit(p, e)
         \/ \E p \in CliProcs, u \in Users, r \in Requests, d \in Decisions :
              RunDecision(p, u, r, d)
  PROVE  Settled'
<1>1. ASSUME NEW p \in Procs, NEW l \in {"find", "ack_click", "decide"},
             NEW w \in Work, Goto(p, l), work' = [work EXCEPT ![p] = w],
             UNCHANGED <<store, observers>>
      PROVE  Settled'
  <2>1. l \in PCs /\ l \notin Saving \cup {"post", "load", "lookup"}
    BY DEF PCs, Saving
  <2> QED
    BY <1>1, <2>1, LeavingSettled DEF Goto, store, observers
<1>2. Slack \in Procs /\ CliProcs \subseteq Procs
  BY DEF Procs
<1>3. \A e \in Events : Task(e, None, "submit", None, FALSE) \in Work
  BY DEF Task, Work, Steps
<1>4. \A r \in Requests, d \in Decisions, u \in Users, b \in BOOLEAN :
        Task(None, r, d, u, b) \in Work
  BY DEF Task, Work, Steps
<1>5. ASSUME NEW e \in Events, ReceiveRequest(e) PROVE Settled'
  BY <1>1, <1>2, <1>3, <1>5 DEF ReceiveRequest
<1>6. ASSUME NEW u \in Users, NEW r \in Requests, NEW d \in Decisions,
             NEW b \in BOOLEAN, ReceiveDecision(u, r, d, b)
      PROVE  Settled'
  <2>1. CASE b
    BY <1>1, <1>2, <1>4, <1>6, <2>1 DEF ReceiveDecision
  <2>2. CASE ~b
    BY <1>1, <1>2, <1>4, <1>6, <2>2 DEF ReceiveDecision
  <2> QED
    BY <2>1, <2>2
<1>7. ASSUME NEW p \in CliProcs, NEW e \in Events, RunSubmit(p, e) PROVE Settled'
  BY <1>1, <1>2, <1>3, <1>7 DEF RunSubmit
<1>8. ASSUME NEW p \in CliProcs, NEW u \in Users, NEW r \in Requests,
             NEW d \in Decisions, RunDecision(p, u, r, d)
      PROVE  Settled'
  BY <1>1, <1>2, <1>4, <1>8 DEF RunDecision
<1> QED
  BY <1>5, <1>6, <1>7, <1>8

LEMMA FindDuplicateSettled ==
  ASSUME Typed, Settled, NEW p \in Procs, FindDuplicate(p)
  PROVE  Settled'
<1>1. CASE Raise(p)
  BY <1>1, RaiseSettled
<1>2. CASE Finish(p) /\ UNCHANGED <<store, observers>>
  BY <1>2, FinishSettled DEF store, observers
<1>3. CASE Goto(p, "parse") /\ UNCHANGED <<work, store, observers>>
  <2>1. /\ "parse" \in PCs /\ "parse" \notin Saving \cup {"post", "load", "lookup"}
        /\ work[p] \in Work /\ work' = [work EXCEPT ![p] = work[p]]
    BY <1>3 DEF PCs, Saving, Typed, TypeOK
  <2> QED
    BY <1>3, <2>1, LeavingSettled DEF Goto, store, observers
<1> QED
  BY <1>1, <1>2, <1>3 DEF FindDuplicate

LEMMA SaveMoves ==
  ASSUME TypeOK, NEW p \in Procs, NEW r, NEW s, NEW rec, Save(p, r, s, rec)
  PROVE  /\ pc'[p] = "truncate"
         /\ work'[p].req = r /\ work'[p].step = s /\ work'[p].draft = rec
         /\ \A q \in Procs : q # p => pc'[q] = pc[q] /\ work'[q] = work[q]
<1> DEFINE w == [work[p] EXCEPT !.req = r, !.step = s, !.draft = rec]
<1>1. work[p] \in Work
  BY DEF TypeOK
<1>2. w.req = r /\ w.step = s /\ w.draft = rec
  BY <1>1 DEF Work
<1>3. pc' = [pc EXCEPT ![p] = "truncate"] /\ work' = [work EXCEPT ![p] = w]
  BY <1>1 DEF Save, Goto, TypeOK, Work
<1> HIDE DEF w
<1> QED
  BY <1>2, <1>3 DEF TypeOK

LEMMA LoadMoves ==
  ASSUME TypeOK, NEW p \in Procs, Load(p), ~Raise(p)
  PROVE  /\ pc'[p] = "lookup"
         /\ work'[p].req = work[p].req
         /\ work'[p].step = work[p].step
         /\ work'[p].draft = file[work[p].req]
         /\ \A q \in Procs : q # p => pc'[q] = pc[q] /\ work'[q] = work[q]
<1> DEFINE w == [work[p] EXCEPT !.draft = file[work[p].req]]
<1>1. work[p] \in Work
  BY DEF TypeOK
<1>2. w.req = work[p].req /\ w.step = work[p].step /\ w.draft = file[work[p].req]
  BY <1>1 DEF Work
<1>3. pc' = [pc EXCEPT ![p] = "lookup"] /\ work' = [work EXCEPT ![p] = w]
  BY <1>1 DEF Load, Goto, TypeOK, Work
<1> HIDE DEF w
<1> QED
  BY <1>2, <1>3 DEF TypeOK

\* The lookup keeps the request in preparation.
LEMMA LookingUpSettled ==
  ASSUME Typed, Settled, NEW p \in Procs, Load(p) \/ Lookup(p)
  PROVE  Settled'
<1>1. CASE Raise(p)
  BY <1>1, RaiseSettled
<1>2. CASE ~Raise(p)
  <2>1. /\ pc[p] \in {"load", "lookup"}
        /\ \A q \in Procs : q # p => pc'[q] = pc[q] /\ work'[q] = work[q]
        /\ work'[p].req = work[p].req
        /\ \/ pc'[p] = "lookup" /\ work'[p].step = work[p].step
           \/ pc'[p] = "truncate" /\ work'[p].step \in {"answered", "lookup_failed"}
        /\ UNCHANGED <<file, audit, posted, decidedBy>>
    <3>1. CASE Load(p)
      BY <1>2, <3>1, LoadMoves DEF Typed, Load, store
    <3>2. CASE Lookup(p)
      <4>1. PICK s \in {"answered", "lookup_failed"} :
                \E rec : Save(p, work[p].req, s, rec)
        BY <1>2, <3>2 DEF Lookup
      <4> QED
        BY <1>2, <3>2, <4>1, SaveMoves DEF Typed, Lookup, store, observers
    <3> QED
      BY <3>1, <3>2
  <2>2. ASSUME NEW r \in Requests, NEW q \in Procs
        PROVE  /\ Prepares(q, r)' => Prepares(q, r)
               /\ Decides(q, r)' => /\ Decides(q, r)
                                    /\ work'[q] = work[q] /\ pc'[q] = pc[q]
    <3>1. CASE q = p
      BY <2>1, <3>1 DEF Prepares, Decides, Decisions, Saving
    <3>2. CASE q # p
      BY <2>1, <3>2 DEF Prepares, Decides
    <3> QED
      BY <3>1, <3>2
  <2>3. \A r \in Requests : PublishedTo(r)' = PublishedTo(r)
    BY <2>1 DEF PublishedTo
  <2>4. \A r \in Requests : \A q \in Procs :
          Decides(q, r) /\ pc[q] = "post" => AuditAfter[work[q].step] \in audit[r]
    BY DEF Settled, DeciderFile
  <2> QED
    BY <2>1, <2>2, <2>3, <2>4, QuietSettled
<1> QED
  BY <1>1, <1>2

LEMMA RunnerSettled ==
  ASSUME Typed, Settled, Complain \/ AckClick \/ Refresh
  PROVE  Settled'
<1>1. Slack \in Procs /\ UNCHANGED <<file, audit, posted, decidedBy>>
  BY DEF Procs, Complain, AckClick, Refresh, store, observers
<1>2. CASE Finish(Slack)
  BY <1>1, <1>2, FinishSettled
<1>4. CASE Goto(Slack, "refresh") /\ work' = [work EXCEPT ![Slack].draft = None]
  <2>1. "refresh" \in PCs \ (Saving \cup {"post", "load", "lookup"})
    BY DEF PCs, Saving
  <2>2. Undrafted \in Work /\ work' = [work EXCEPT ![Slack] = Undrafted]
    BY <1>4, UndraftedIs DEF Typed
  <2> QED
    BY <1>1, <1>4, <2>1, <2>2, LeavingSettled DEF Goto
<1>3. CASE \E l \in {"refresh", "decide"} : Goto(Slack, l) /\ UNCHANGED work
  <2>1. {"refresh", "decide"} \subseteq PCs \ (Saving \cup {"post", "load", "lookup"})
    BY DEF PCs, Saving
  <2>2. work[Slack] \in Work /\ work' = [work EXCEPT ![Slack] = work[Slack]]
    BY <1>1, <1>3 DEF Typed, TypeOK
  <2> QED
    BY <1>1, <1>3, <2>1, <2>2, LeavingSettled DEF Goto
<1> QED
  BY <1>2, <1>3, <1>4 DEF Complain, AckClick, Refresh, Reconnect

LEMMA EnvironmentSettled ==
  ASSUME Typed, Settled,
         \/ \E u \in Owners : Register(u) \/ Unregister(u)
         \/ \E p \in Procs : Crash(p)
         \/ UNCHANGED vars
  PROVE  Settled'
<1>1. ASSUME NEW p \in Procs, Crash(p) PROVE Settled'
  BY <1>1, FinishSettled DEF Crash, store, observers
<1>2. CASE UNCHANGED <<file, audit, posted, decidedBy, pc, work>>
  BY <1>2 DEF Settled, DecidersAgree, DeciderFile, PreparerAlone, ResultStored,
     Decides, Prepares, PublishedTo, Readable
<1> QED
  BY <1>1, <1>2 DEF Register, Unregister, vars, store, observers

(***************************************************************************)
(* The steps that start to prepare or to decide a request.                 *)
(***************************************************************************)
LEMMA ParseSettled ==
  ASSUME Typed, Settled, NEW p \in Procs, Parse(p)
  PROVE  Settled'
<1>1. CASE Raise(p)
  BY <1>1, RaiseSettled
<1>2. CASE ~Raise(p)
  <2>1. PICK r, rec : r \in Requests /\ Fresh(r) /\ Save(p, r, "submit", rec)
    BY <1>2 DEF Parse
  <2>2. /\ pc[p] = "parse" /\ UNCHANGED <<file, audit, posted, decidedBy>>
        /\ file[r] = Absent /\ \A q \in Procs : work[q].req # r
    BY <1>2, <2>1 DEF Parse, Fresh, store, observers
  <2>3. PublishedTo(r) = {}
    BY <2>1, <2>2 DEF Settled, ResultStored
  <2>4. ASSUME NEW q \in Procs, q # p, NEW x \in Requests
        PROVE  /\ Decides(q, x)' <=> Decides(q, x)
               /\ Prepares(q, x)' <=> Prepares(q, x)
               /\ work'[q] = work[q] /\ pc'[q] = pc[q]
    BY <2>1, <2>4, SaveMoves DEF Typed, Decides, Prepares
  <2>5. \A x \in Requests : ~Decides(p, x)' /\ (Prepares(p, x)' => x = r)
    BY <2>1, SaveMoves DEF Typed, Decides, Prepares, Decisions
  <2>6. \A q \in Procs : ~Decides(q, r) /\ ~Prepares(q, r)
    BY <2>2 DEF Decides, Prepares
  <2>7. \A x \in Requests : PublishedTo(x)' = PublishedTo(x) /\ (Readable(x)' <=> Readable(x))
    BY <2>2 DEF PublishedTo, Readable
  <2>8. ~Readable(r)
    BY <2>2 DEF Readable
  <2>9. DecidersAgree'
    BY <2>4, <2>5 DEF Settled, DecidersAgree
  <2>10. DeciderFile'
    BY <2>2, <2>4, <2>5, <2>7 DEF Settled, DeciderFile
  <2>11. PreparerAlone'
    BY <2>2, <2>3, <2>4, <2>5, <2>6, <2>7, <2>8 DEF Settled, PreparerAlone
  <2>12. ResultStored'
    BY <2>2, <2>4, <2>5, <2>7 DEF Settled, ResultStored
  <2> QED
    BY <2>9, <2>10, <2>11, <2>12 DEF Settled
<1> QED
  BY <1>1, <1>2

LEMMA DecideSettled ==
  ASSUME Typed, Settled, NEW p \in Procs, Decide(p)
  PROVE  Settled'
<1>1. CASE Raise(p)
  BY <1>1, RaiseSettled
<1>2. CASE ~Raise(p)
  <2> DEFINE r == work[p].req
             d == work[p].step
             rec == [file[r] EXCEPT !.status = StatusAfter[d]]
  <2>1. /\ pc[p] = "decide" /\ UNCHANGED <<file, audit, posted, decidedBy>>
        /\ MayDecide(work[p].who, r, d) /\ Save(p, r, d, rec)
    BY <1>2 DEF Decide, store, observers
  <2>2. r \in Requests /\ d \in Decisions
    BY <2>1 DEF Typed, Control, ControlOf
  <2>3. Readable(r) /\ file[r] \in Record /\ file[r].status # "executing"
    BY <2>1, <2>2 DEF MayDecide, StatusFor, Decisions, Readable, Typed, TypeOK
  <2>4. Same(file[r], rec)
    BY <2>3 DEF Same, Record
  <2>5. /\ pc'[p] = "truncate" /\ work'[p].req = r /\ work'[p].step = d
        /\ work'[p].draft = rec
        /\ \A q \in Procs : q # p => pc'[q] = pc[q] /\ work'[q] = work[q]
    <3> HIDE DEF rec, r, d
    <3> QED
      BY <2>1, SaveMoves DEF Typed
  <2> HIDE DEF rec, r, d
  <2>6. ASSUME NEW q \in Procs, q # p, NEW x \in Requests
        PROVE  /\ Decides(q, x)' <=> Decides(q, x)
               /\ Prepares(q, x)' <=> Prepares(q, x)
               /\ work'[q] = work[q] /\ pc'[q] = pc[q]
    BY <2>5, <2>6 DEF Decides, Prepares
  <2>7. \A x \in Requests : ~Prepares(p, x)' /\ (Decides(p, x)' => x = r)
    BY <2>2, <2>5 DEF Decides, Prepares, Decisions
  <2>8. \A q \in Procs : ~Prepares(q, r)
    BY <2>2, <2>3 DEF Settled, PreparerAlone
  <2>9. \A x \in Requests : PublishedTo(x)' = PublishedTo(x) /\ (Readable(x)' <=> Readable(x))
    BY <2>1 DEF PublishedTo, Readable
  <2>10. \A q \in Procs : Decides(q, r) => Same(file[r], work[q].draft)
    BY <2>2, <2>3 DEF Settled, DeciderFile
  <2>11. DecidersAgree'
    BY <2>4, <2>5, <2>6, <2>7, <2>10 DEF Settled, DecidersAgree, Same
  <2>12. DeciderFile'
    BY <2>1, <2>3, <2>4, <2>5, <2>6, <2>7, <2>9 DEF Settled, DeciderFile, Same, Readable
  <2>13. PreparerAlone'
    BY <2>1, <2>6, <2>7, <2>8, <2>9 DEF Settled, PreparerAlone
  <2>14. ResultStored'
    BY <2>1, <2>3, <2>4, <2>5, <2>6, <2>7, <2>9 DEF Settled, ResultStored, Same
  <2> QED
    BY <2>11, <2>12, <2>13, <2>14 DEF Settled
<1> QED
  BY <1>1, <1>2

(***************************************************************************)
(* The steps of a save, and the post.                                      *)
(***************************************************************************)
LEMMA TruncateSettled ==
  ASSUME Typed, Settled, NEW p \in Procs, Truncate(p)
  PROVE  Settled'
<1> DEFINE r == work[p].req
<1>1. /\ r \in Requests /\ pc[p] = "truncate" /\ pc' = [pc EXCEPT ![p] = "write"]
      /\ file' = [file EXCEPT ![r] = Torn]
      /\ UNCHANGED <<work, audit, posted, decidedBy>>
  BY DEF Truncate, Goto, Typed, Control, ControlOf, Drafted, Saving, observers
<1>2. ASSUME NEW q \in Procs, NEW x \in Requests
      PROVE  /\ Decides(q, x)' <=> Decides(q, x)
             /\ Prepares(q, x)' <=> Prepares(q, x)
             /\ pc'[q] \in {"audit", "post"} => pc[q] = pc'[q]
  BY <1>1 DEF Decides, Prepares, Saving, Typed, TypeOK
<1>3. ASSUME NEW x \in Requests
      PROVE  /\ PublishedTo(x)' = PublishedTo(x)
             /\ file[x] # Absent => file'[x] # Absent
             /\ Readable(x)' => Readable(x) /\ file'[x] = file[x]
  BY <1>1 DEF PublishedTo, Readable, Typed, TypeOK
<1>4. DecidersAgree'
  BY <1>1, <1>2 DEF Settled, DecidersAgree
<1>5. DeciderFile'
  BY <1>1, <1>2, <1>3 DEF Settled, DeciderFile
<1>6. PreparerAlone'
  BY <1>2, <1>3 DEF Settled, PreparerAlone
<1>7. ResultStored'
  BY <1>1, <1>2, <1>3 DEF Settled, ResultStored
<1> QED
  BY <1>4, <1>5, <1>6, <1>7 DEF Settled

LEMMA WriteSettled ==
  ASSUME Typed, Settled, NEW p \in Procs, Write(p)
  PROVE  Settled'
<1>1. CASE Raise(p)
  BY <1>1, RaiseSettled
<1>2. CASE ~Raise(p)
  <2> DEFINE r == work[p].req
             rec == work[p].draft
             s == work[p].step
  <2>1. /\ pc[p] = "write" /\ pc' = [pc EXCEPT ![p] = "audit"]
        /\ file' = [file EXCEPT ![r] = rec]
        /\ decidedBy' = IF s \in Decisions
                        THEN [decidedBy EXCEPT ![r] = @ \cup {work[p].who}]
                        ELSE decidedBy
        /\ UNCHANGED <<work, audit, posted>>
    BY <1>2 DEF Write, Goto
  <2>2. /\ r \in Requests /\ s \in Steps /\ rec \in Record
        /\ rec.status = StatusAfter[s]
        /\ s \in Decisions => work[p].who = rec.owner
    BY <2>1 DEF Typed, Control, ControlOf, Drafted, Saving
  <2>3. /\ file'[r] = rec /\ rec \notin {Absent, Torn}
        /\ \A x \in Requests \ {r} : file'[x] = file[x]
        /\ \A x \in Requests : decidedBy[x] \subseteq decidedBy'[x]
        /\ s \in Decisions => rec.owner \in decidedBy'[r]
    BY <2>1, <2>2 DEF Typed, TypeOK
  <2>4. ASSUME NEW q \in Procs, NEW x \in Requests
        PROVE  /\ Decides(q, x)' <=> Decides(q, x)
               /\ Prepares(q, x)' => Prepares(q, x)
               /\ q = p /\ Prepares(q, x)' => s = "submit"
               /\ q # p => pc'[q] = pc[q]
               /\ pc'[q] = "post" => pc[q] = "post"
    BY <2>1 DEF Decides, Prepares, Saving, Typed, TypeOK
  <2>5. ASSUME NEW x \in Requests
        PROVE  /\ PublishedTo(x)' = PublishedTo(x)
               /\ x # r => (Readable(x)' <=> Readable(x))
    BY <2>1, <2>3 DEF PublishedTo, Readable
  <2>6. CASE s \in Decisions
    <3>1. Decides(p, r) /\ rec.status # "executing"
      BY <2>1, <2>2, <2>6 DEF Decides, Saving, StatusAfter, Decisions
    <3>2. \A q \in Procs : ~Prepares(q, r)
      BY <2>2, <3>1 DEF Settled, PreparerAlone
    <3>3. \A q \in Procs : Decides(q, r) => Same(rec, work[q].draft)
      BY <2>2, <3>1 DEF Settled, DecidersAgree
    <3>4. DecidersAgree'
      BY <2>1, <2>4 DEF Settled, DecidersAgree
    <3>5. DeciderFile'
      <4> SUFFICES ASSUME NEW x \in Requests, NEW q \in Procs, Decides(q, x)'
                   PROVE  /\ file'[x] # Absent
                          /\ Readable(x)' => /\ file'[x].status # "executing"
                                             /\ Same(file'[x], work'[q].draft)
                          /\ pc'[q] \in {"audit", "post"} =>
                               work'[q].draft.owner \in decidedBy'[x]
                          /\ pc'[q] = "post" => AuditAfter[work'[q].step] \in audit'[x]
        BY DEF DeciderFile
      <4>1. Decides(q, x) /\ work'[q] = work[q]
        BY <2>1, <2>4
      <4>2. pc'[q] \in {"audit", "post"} => work'[q].draft.owner \in decidedBy'[x]
        <5>1. CASE q = p
          BY <2>3, <2>6, <4>1, <5>1 DEF Decides
        <5>2. CASE q # p
          BY <2>3, <2>4, <4>1, <5>2 DEF Settled, DeciderFile
        <5> QED
          BY <5>1, <5>2
      <4>3. pc'[q] = "post" => AuditAfter[work'[q].step] \in audit'[x]
        BY <2>1, <2>4, <4>1 DEF Settled, DeciderFile
      <4>4. CASE x = r
        BY <2>3, <3>1, <3>3, <4>1, <4>2, <4>3, <4>4
      <4>5. CASE x # r
        BY <2>3, <2>5, <4>1, <4>2, <4>3, <4>5 DEF Settled, DeciderFile
      <4> QED
        BY <4>4, <4>5
    <3>6. PreparerAlone'
      BY <2>3, <2>4, <2>5, <3>2 DEF Settled, PreparerAlone
    <3>7. ResultStored'
      <4> SUFFICES ASSUME NEW x \in Requests, NEW m \in PublishedTo(x)
                   PROVE  /\ file'[x] # Absent
                          /\ Readable(x)' => /\ file'[x].status # "executing"
                                             /\ file'[x].result = m.content
                                             /\ file'[x].owner \in decidedBy'[x]
                          /\ \A q \in Procs : Decides(q, x)' =>
                               /\ work'[q].draft.result = m.content
                               /\ work'[q].draft.owner \in decidedBy'[x]
                          /\ "published" \in audit'[x]
                          /\ m.content # NoResult
        BY <2>5 DEF ResultStored
      <4>1. /\ \A q \in Procs : Decides(q, x) =>
                 work[q].draft.result = m.content /\ work[q].draft.owner \in decidedBy[x]
            /\ "published" \in audit[x] /\ m.content # NoResult
        BY DEF Settled, ResultStored
      <4>2. CASE x = r
        BY <2>1, <2>3, <2>4, <3>1, <4>1, <4>2
      <4>3. CASE x # r
        BY <2>1, <2>3, <2>4, <2>5, <4>1, <4>3 DEF Settled, ResultStored
      <4> QED
        BY <4>2, <4>3
    <3> QED
      BY <3>4, <3>5, <3>6, <3>7 DEF Settled
  <2>7. CASE s \notin Decisions
    <3>1. Prepares(p, r)
      BY <2>1, <2>2, <2>7 DEF Prepares, Steps
    <3>2. /\ PublishedTo(r) = {}
          /\ \A q \in Procs : ~Decides(q, r) /\ (Prepares(q, r) => q = p)
      BY <2>2, <3>1 DEF Settled, PreparerAlone
    <3>3. s = "submit" => rec.status = "executing"
      BY <2>2 DEF StatusAfter
    <3>4. DecidersAgree'
      BY <2>1, <2>4 DEF Settled, DecidersAgree
    <3>5. DeciderFile'
      <4> SUFFICES ASSUME NEW x \in Requests, NEW q \in Procs, Decides(q, x)'
                   PROVE  /\ file'[x] # Absent
                          /\ Readable(x)' => /\ file'[x].status # "executing"
                                             /\ Same(file'[x], work'[q].draft)
                          /\ pc'[q] \in {"audit", "post"} =>
                               work'[q].draft.owner \in decidedBy'[x]
                          /\ pc'[q] = "post" => AuditAfter[work'[q].step] \in audit'[x]
        BY DEF DeciderFile
      <4>1. Decides(q, x) /\ work'[q] = work[q] /\ x # r
        BY <2>1, <2>4, <3>2
      <4>2. q # p
        BY <2>7, <4>1 DEF Decides
      <4> QED
        BY <2>1, <2>3, <2>4, <2>5, <4>1, <4>2 DEF Settled, DeciderFile
    <3>6. PreparerAlone'
      BY <2>3, <2>4, <2>5, <3>2, <3>3 DEF Settled, PreparerAlone
    <3>7. ResultStored'
      BY <2>1, <2>3, <2>4, <2>5, <2>7, <3>2 DEF Settled, ResultStored
    <3> QED
      BY <3>4, <3>5, <3>6, <3>7 DEF Settled
  <2> QED
    BY <2>6, <2>7
<1> QED
  BY <1>1, <1>2

LEMMA AuditSettled ==
  ASSUME Typed, Settled, NEW p \in Procs, Audit(p)
  PROVE  Settled'
<1>1. CASE Raise(p)
  BY <1>1, RaiseSettled
<1>2. CASE ~Raise(p)
  <2>1. /\ pc[p] = "audit" /\ work[p].req \in Requests /\ work[p].step \in Steps
        /\ audit' = [audit EXCEPT ![work[p].req] = @ \cup {AuditAfter[work[p].step]}]
        /\ UNCHANGED <<file, posted, decidedBy>>
        /\ \A q \in Procs : q # p => pc'[q] = pc[q] /\ work'[q] = work[q]
        /\ \/ pc'[p] = "post" /\ work'[p] = work[p]
           \/ pc'[p] = "idle"
    BY <1>2 DEF Audit, Goto, Finish, observers, Typed, TypeOK, Control, ControlOf,
       Drafted, Saving
  <2>2. /\ \A r \in Requests : audit[r] \subseteq audit'[r]
        /\ AuditAfter[work[p].step] \in audit'[work[p].req]
    BY <2>1 DEF Typed, TypeOK
  <2>3. ASSUME NEW r \in Requests, NEW q \in Procs
        PROVE  /\ Prepares(q, r)' => Prepares(q, r)
               /\ Decides(q, r)' =>
                    /\ Decides(q, r)
                    /\ work'[q].draft = work[q].draft
                    /\ pc'[q] \in {"audit", "post"} => pc[q] \in {"audit", "post"}
                    /\ pc'[q] = "post" => AuditAfter[work'[q].step] \in audit'[r]
    <3>1. CASE q = p
      BY <2>1, <2>2, <3>1 DEF Prepares, Decides, Saving
    <3>2. CASE q # p
      <4>1. Decides(q, r) /\ pc[q] = "post" => AuditAfter[work[q].step] \in audit[r]
        BY DEF Settled, DeciderFile
      <4> QED
        BY <2>1, <2>2, <3>2, <4>1 DEF Prepares, Decides
    <3> QED
      BY <3>1, <3>2
  <2>4. \A r \in Requests : PublishedTo(r)' = PublishedTo(r)
    BY <2>1 DEF PublishedTo
  <2> QED
    BY <2>1, <2>2, <2>3, <2>4, QuietSettled
<1> QED
  BY <1>1, <1>2

LEMMA PostSettled ==
  ASSUME Typed, Settled, Post
  PROVE  Settled'
<1> DEFINE w == work[Slack]
           r == w.req
<1>1. /\ Slack \in Procs /\ pc[Slack] = "post"
      /\ r \in Requests /\ w.step \in Steps /\ w.draft \in Record
      /\ w.step \in {"approve", "publish"} => w.draft.result # NoResult
      /\ UNCHANGED <<file, audit, decidedBy>>
  BY DEF Procs, Post, Typed, Control, ControlOf, Drafted, Saving, store
<1>2. CASE UNCHANGED posted /\ Finish(Slack)
  BY <1>1, <1>2, FinishSettled
<1>3. CASE /\ posted' = [posted EXCEPT ![r] = @ \cup {OutgoingMessage}]
           /\ w.step = "submit"
           /\ Goto(Slack, "load")
           /\ work' = [work EXCEPT ![Slack] = Task(None, r, "load", None, FALSE)]
  <2>1. ASSUME NEW x \in Requests, NEW q \in Procs
        PROVE  /\ Prepares(q, x)' => Prepares(q, x)
               /\ Decides(q, x)' => /\ Decides(q, x)
                                    /\ work'[q] = work[q] /\ pc'[q] = pc[q]
    <3>1. CASE q = Slack
      BY <1>1, <1>3, <3>1 DEF Goto, Task, Prepares, Decides, Saving, Typed, TypeOK
    <3>2. CASE q # Slack
      BY <1>1, <1>3, <3>2 DEF Goto, Prepares, Decides, Typed, TypeOK
    <3> QED
      BY <3>1, <3>2
  <2>2. OutgoingMessage.kind # "requester_dm_published"
    BY <1>3 DEF OutgoingMessage, MessageAfter
  <2>3. \A x \in Requests : PublishedTo(x)' = PublishedTo(x)
    BY <1>1, <1>3, <2>2 DEF PublishedTo, Typed, TypeOK
  <2>4. \A x \in Requests : \A q \in Procs :
          Decides(q, x) /\ pc[q] = "post" => AuditAfter[work[q].step] \in audit[x]
    BY DEF Settled, DeciderFile
  <2> QED
    BY <1>1, <2>1, <2>3, <2>4, QuietSettled
<1>4. CASE /\ posted' = [posted EXCEPT ![r] = @ \cup {OutgoingMessage}]
           /\ w.step # "submit"
           /\ \/ Finish(Slack)
              \/ Goto(Slack, "refresh") /\ UNCHANGED work
  <2>1. /\ pc'[Slack] \in {"idle", "refresh"}
        /\ \A q \in Procs : q # Slack => pc'[q] = pc[q] /\ work'[q] = work[q]
    BY <1>1, <1>4 DEF Finish, Goto, Typed, TypeOK
  <2>2. ASSUME NEW x \in Requests, NEW q \in Procs
        PROVE  /\ Prepares(q, x)' => Prepares(q, x)
               /\ Decides(q, x)' => /\ Decides(q, x) /\ q # Slack
                                    /\ work'[q] = work[q] /\ pc'[q] = pc[q]
    BY <2>1 DEF Prepares, Decides, Saving
  <2>3. \A x \in Requests : \A q \in Procs :
          Decides(q, x) /\ pc[q] = "post" => AuditAfter[work[q].step] \in audit[x]
    BY DEF Settled, DeciderFile
  <2>4. CASE w.step \notin {"approve", "publish"}
    <3>1. OutgoingMessage.kind # "requester_dm_published"
      BY <1>1, <2>4 DEF OutgoingMessage, MessageAfter, Steps, Decisions
    <3>2. \A x \in Requests : PublishedTo(x)' = PublishedTo(x)
      BY <1>1, <1>4, <3>1 DEF PublishedTo, Typed, TypeOK
    <3> QED
      BY <1>1, <2>2, <2>3, <3>2, QuietSettled
  <2>5. CASE w.step \in {"approve", "publish"}
    <3>1. Decides(Slack, r) /\ AuditAfter[w.step] = "published"
      BY <1>1, <2>5 DEF Decides, Decisions, AuditAfter
    <3>2. /\ file[r] # Absent /\ "published" \in audit[r]
          /\ Readable(r) => file[r].status # "executing" /\ Same(file[r], w.draft)
          /\ w.draft.owner \in decidedBy[r]
          /\ \A q \in Procs : Decides(q, r) => Same(work[q].draft, w.draft)
      BY <1>1, <2>3, <3>1 DEF Settled, DeciderFile, DecidersAgree, Same
    <3>3. OutgoingMessage.content = w.draft.result
      BY <2>5 DEF OutgoingMessage, Content
    <3>4. ASSUME NEW x \in Requests
          PROVE  /\ x # r => PublishedTo(x)' = PublishedTo(x)
                 /\ PublishedTo(x)' \subseteq PublishedTo(x) \cup {OutgoingMessage}
                 /\ Readable(x)' <=> Readable(x)
      BY <1>1, <1>4 DEF PublishedTo, Readable, Typed, TypeOK
    <3>5. DecidersAgree'
      BY <2>2 DEF Settled, DecidersAgree
    <3>6. DeciderFile'
      BY <1>1, <2>2, <3>4 DEF Settled, DeciderFile
    <3>7. PreparerAlone'
      <4>1. \A q \in Procs : ~Prepares(q, r)
        BY <1>1, <3>1 DEF Settled, PreparerAlone
      <4> QED
        BY <1>1, <2>2, <3>4, <4>1 DEF Settled, PreparerAlone
    <3>8. ResultStored'
      <4> SUFFICES ASSUME NEW x \in Requests, NEW m \in PublishedTo(x)'
                   PROVE  /\ file[x] # Absent
                          /\ Readable(x) => /\ file[x].status # "executing"
                                            /\ file[x].result = m.content
                                            /\ file[x].owner \in decidedBy[x]
                          /\ \A q \in Procs : Decides(q, x) =>
                               /\ work[q].draft.result = m.content
                               /\ work[q].draft.owner \in decidedBy[x]
                          /\ "published" \in audit[x]
                          /\ m.content # NoResult
        BY <1>1, <2>2, <3>4 DEF ResultStored
      <4>1. CASE m \in PublishedTo(x)
        BY <4>1 DEF Settled, ResultStored
      <4>2. CASE m \notin PublishedTo(x)
        <5>1. x = r /\ m.content = w.draft.result
          BY <3>3, <3>4, <4>2
        <5> QED
          BY <1>1, <2>5, <3>2, <5>1 DEF Same
      <4> QED
        BY <4>1, <4>2
    <3> QED
      BY <3>5, <3>6, <3>7, <3>8 DEF Settled
  <2> QED
    BY <2>4, <2>5
<1> QED
  <2>1. \/ UNCHANGED posted /\ Finish(Slack)
        \/ /\ posted' = [posted EXCEPT ![r] = @ \cup {OutgoingMessage}]
           /\ \/ /\ w.step = "submit"
                 /\ Goto(Slack, "load")
                 /\ work' = [work EXCEPT ![Slack] = Task(None, r, "load", None, FALSE)]
              \/ /\ w.step # "submit"
                 /\ \/ Finish(Slack)
                    \/ Goto(Slack, "refresh") /\ UNCHANGED work
    BY DEF Post, Reconnect
  <2> QED
    BY <1>2, <1>3, <1>4, <2>1

LEMMA NextSettled == Typed /\ Settled /\ [Next]_vars => Settled'
<1> SUFFICES ASSUME Typed, Settled, [Next]_vars PROVE Settled'
  OBVIOUS
<1>1. ASSUME NEW p \in Procs, ServiceStep(p) PROVE Settled'
  BY <1>1, FindDuplicateSettled, ParseSettled, LookingUpSettled, DecideSettled,
     TruncateSettled, WriteSettled, AuditSettled DEF ServiceStep
<1>2. CASE RunnerStep
  BY <1>2, PostSettled, RunnerSettled DEF RunnerStep
<1> QED
  BY <1>1, <1>2, StartSettled, EnvironmentSettled DEF Next

\* Whatever the interleaving of Slack and the command line, with any kills,
\* failed calls and full disks, the result a requester gets is the stored one,
\* logged as published after its owner's decision.
THEOREM ResultIsSafe == Spec => []ResultIsTheOwnersDecision
<1>1. Settled => ResultIsTheOwnersDecision
  BY DEF Settled, ResultStored, ResultIsTheOwnersDecision, PublishedTo
<1>2. Typed /\ Settled /\ [Next]_vars => Settled'
  BY NextSettled
<1> QED
  BY <1>1, <1>2, InitSettled, AlwaysTyped, PTL DEF Spec

-----------------------------------------------------------------------------
(* A mailbox is searched at most once for a request, and only after its       *)
(* requester was told: a proof that rests on a request being prepared by one  *)
(* process alone.                                                             *)

Acked(r) == "requester_dm_ack" \in PostedKinds(r)

\* How often a process finds the mailbox of its request searched.
SearchesOf(p) ==
  LET r == work[p].req IN
  /\ pc[p] \in Saving \cup {"post"} /\ work[p].step = "submit" => lookups[r] = 0
  /\ pc[p] = "load" => lookups[r] = 0 /\ Acked(r)
  /\ pc[p] = "lookup" => lookups[r] = 1
  /\ pc[p] \in Saving \cup {"post"} /\ work[p].step = "answered" => lookups[r] = 1

SearchedOnce(r) ==
  /\ file[r] = Absent => lookups[r] = 0
  /\ lookups[r] <= 1
  /\ lookups[r] = 1 => Acked(r)
  /\ "owner_dm_approval" \in PostedKinds(r) => lookups[r] = 1

Searches ==
  (\A p \in Procs : SearchesOf(p)) /\ (\A r \in Requests : SearchedOnce(r))

LEMMA InitSearches == Init => Searches
BY DEF Init, Searches, SearchesOf, SearchedOnce, PostedKinds, Saving, NoWork, Task

\* A step of p that starts no lookup and posts nothing.
LEMMA SilentSearches ==
  ASSUME Searches, NEW p \in Procs,
         \A q \in Procs : q # p => pc'[q] = pc[q] /\ work'[q] = work[q],
         UNCHANGED <<lookups, posted>>,
         \A r \in Requests : file'[r] = Absent => file[r] = Absent,
         SearchesOf(p)'
  PROVE  Searches'
<1>1. \A q \in Procs : SearchesOf(q)'
  BY DEF Searches, SearchesOf, Acked, PostedKinds
<1>2. \A r \in Requests : SearchedOnce(r)'
  BY DEF Searches, SearchedOnce, Acked, PostedKinds
<1> QED
  BY <1>1, <1>2 DEF Searches

\* So does a step that takes p away from saving, posting and searching.
LEMMA LeavingSearches ==
  ASSUME TypeOK, Searches, NEW p \in Procs, NEW l \in PCs, NEW w \in Work,
         l \notin Saving \cup {"post", "load", "lookup"},
         pc' = [pc EXCEPT ![p] = l], work' = [work EXCEPT ![p] = w],
         UNCHANGED <<lookups, posted, file>>
  PROVE  Searches'
<1>1. SearchesOf(p)'
  BY DEF SearchesOf, TypeOK
<1> QED
  BY <1>1, SilentSearches DEF TypeOK

LEMMA FinishSearches ==
  ASSUME TypeOK, Searches, NEW p \in Procs, Finish(p),
         UNCHANGED <<lookups, posted, file>>
  PROVE  Searches'
<1>1. "idle" \in PCs /\ NoWork \in Work /\ "idle" \notin Saving \cup {"post", "load", "lookup"}
  BY Tables DEF PCs, Saving
<1> QED
  BY <1>1, LeavingSearches DEF Finish

LEMMA RaiseSearches ==
  ASSUME TypeOK, Searches, NEW p \in Procs, Raise(p)
  PROVE  Searches'
<1>1. UNCHANGED <<lookups, posted, file>>
  BY DEF Raise, store, observers
<1>2. CASE p = Slack
  <2>1. /\ "complain" \in PCs /\ work[p] \in Work
        /\ "complain" \notin Saving \cup {"post", "load", "lookup"}
        /\ pc' = [pc EXCEPT ![p] = "complain"] /\ work' = [work EXCEPT ![p] = work[p]]
    BY <1>2 DEF Raise, Goto, PCs, Saving, TypeOK
  <2> QED
    BY <1>1, <2>1, LeavingSearches
<1>3. CASE p # Slack
  BY <1>1, <1>3, FinishSearches DEF Raise
<1> QED
  BY <1>2, <1>3

LEMMA StartSearches ==
  ASSUME TypeOK, Searches,
         \/ \E e \in Events : ReceiveRequest(e)
         \/ \E u \in Users, r \in Requests, d \in Decisions, b \in BOOLEAN :
              ReceiveDecision(u, r, d, b)
         \/ \E p \in CliProcs, e \in Events : RunSubmit(p, e)
         \/ \E p \in CliProcs, u \in Users, r \in Requests, d \in Decisions :
              RunDecision(p, u, r, d)
         \/ AckClick
         \/ \E p \in Procs : FindDuplicate(p) /\ ~Raise(p) /\ ~Finish(p)
  PROVE  Searches'
<1>1. Slack \in Procs /\ CliProcs \subseteq Procs
  BY DEF Procs
<1>2. PICK p \in Procs, l \in {"find", "parse", "ack_click", "decide"} :
        /\ pc' = [pc EXCEPT ![p] = l]
        /\ \A q \in Procs : q # p => work'[q] = work[q]
        /\ UNCHANGED <<file, lookups, posted>>
  <2>1. CASE \E b \in BOOLEAN : \E u \in Users, r \in Requests, d \in Decisions :
               ReceiveDecision(u, r, d, b)
    BY <1>1, <2>1 DEF ReceiveDecision, Goto, TypeOK, store, observers
  <2>2. CASE \E e \in Events : ReceiveRequest(e)
    BY <1>1, <2>2 DEF ReceiveRequest, Goto, TypeOK, store, observers
  <2>4. CASE \/ \E q \in CliProcs, e \in Events : RunSubmit(q, e)
             \/ \E q \in CliProcs, u \in Users, r \in Requests, d \in Decisions :
                  RunDecision(q, u, r, d)
    <3>1. PICK q, l, w :
            /\ q \in CliProcs /\ l \in {"find", "decide"}
            /\ pc' = [pc EXCEPT ![q] = l] /\ work' = [work EXCEPT ![q] = w]
            /\ UNCHANGED <<store, observers>>
      BY <2>4 DEF RunSubmit, RunDecision, Goto
    <3> QED
      BY <1>1, <3>1 DEF TypeOK, store, observers
  <2>3. CASE AckClick \/ \E q \in Procs : FindDuplicate(q) /\ ~Raise(q) /\ ~Finish(q)
    BY <1>1, <2>3 DEF AckClick, FindDuplicate, Goto, store, observers
  <2> QED
    BY <2>1, <2>2, <2>3, <2>4
<1>3. SearchesOf(p)'
  BY <1>2 DEF SearchesOf, TypeOK, Saving
<1> QED
  BY <1>2, <1>3, SilentSearches DEF TypeOK

LEMMA ParseSearches ==
  ASSUME TypeOK, Searches, NEW p \in Procs, Parse(p)
  PROVE  Searches'
<1>1. CASE Raise(p)
  BY <1>1, RaiseSearches
<1>2. CASE ~Raise(p)
  <2>1. PICK r, rec : r \in Requests /\ Fresh(r) /\ Save(p, r, "submit", rec)
    BY <1>2 DEF Parse
  <2>2. lookups[r] = 0 /\ UNCHANGED <<file, lookups, posted>>
    BY <1>2, <2>1 DEF Parse, Fresh, Searches, SearchedOnce, store, observers
  <2>3. SearchesOf(p)'
    BY <2>1, <2>2, SaveMoves DEF SearchesOf, Saving
  <2> QED
    BY <2>1, <2>2, <2>3, SaveMoves, SilentSearches
<1> QED
  BY <1>1, <1>2

\* The one step that starts a lookup.
LEMMA LoadSearches ==
  ASSUME Typed, Settled, Searches, NEW p \in Procs, Load(p)
  PROVE  Searches'
<1>1. CASE Raise(p)
  BY <1>1, RaiseSearches DEF Typed
<1>2. CASE ~Raise(p)
  <2> DEFINE r == work[p].req
  <2>1. /\ pc[p] = "load" /\ r \in Requests /\ UNCHANGED <<file, posted>>
        /\ lookups' = [lookups EXCEPT ![r] = @ + 1]
        /\ file[r] # Absent
    BY <1>2 DEF Load, MayExecute, Readable, store, Typed, Control, ControlOf
  <2>2. /\ pc'[p] = "lookup" /\ work'[p].req = r
        /\ \A q \in Procs : q # p => pc'[q] = pc[q] /\ work'[q] = work[q]
    BY <1>2, LoadMoves DEF Typed
  <2>3. lookups[r] = 0 /\ Acked(r)
    BY <2>1 DEF Searches, SearchesOf
  <2>4. lookups \in [Requests -> Nat]
    BY DEF Typed, TypeOK
  <2> HIDE DEF r
  <2>5. /\ lookups'[r] = 1 /\ \A x \in Requests : x # r => lookups'[x] = lookups[x]
        /\ \A x \in Requests : PostedKinds(x)' = PostedKinds(x)
    BY <2>1, <2>3, <2>4 DEF PostedKinds
  <2>6. ASSUME NEW q \in Procs, q # p PROVE SearchesOf(q)'
    <3>1. CASE work[q].req # r
      <4>1. SearchesOf(q) /\ work'[q] = work[q] /\ pc'[q] = pc[q]
        BY <2>2, <2>6 DEF Searches
      <4>2. pc[q] \in Saving \cup {"post", "load", "lookup"} => work[q].req \in Requests
        BY DEF Typed, Control, ControlOf, Drafted
      <4> QED
        BY <2>5, <3>1, <4>1, <4>2 DEF SearchesOf, Acked
    <3>2. CASE work[q].req = r
      <4>1. ~Prepares(q, r)
        BY <2>1, <2>6 DEF Settled, PreparerAlone, Prepares, r
      <4>2. /\ pc[q] \notin {"load", "lookup"}
            /\ ~(pc[q] \in Saving \cup {"post"} /\ work[q].step = "submit")
        BY <3>2, <4>1 DEF Prepares, Saving
      <4> QED
        BY <2>2, <2>5, <2>6, <3>2, <4>2 DEF SearchesOf
    <3> QED
      BY <3>1, <3>2
  <2>7. SearchesOf(p)'
    BY <2>2, <2>5 DEF SearchesOf, Saving
  <2>8. \A x \in Requests : SearchedOnce(x)'
    BY <2>1, <2>3, <2>5 DEF Searches, SearchedOnce, Acked
  <2> QED
    BY <2>6, <2>7, <2>8 DEF Searches
<1> QED
  BY <1>1, <1>2

LEMMA SavingSearches ==
  ASSUME Typed, Searches, NEW p \in Procs,
         Lookup(p) \/ Decide(p) \/ Truncate(p) \/ Write(p) \/ Audit(p)
  PROVE  Searches'
<1>1. CASE Raise(p)
  BY <1>1, RaiseSearches DEF Typed
<1>2. CASE ~Raise(p)
  <2>1. CASE Lookup(p)
    <3>1. PICK s \in {"answered", "lookup_failed"} :
                \E rec : Save(p, work[p].req, s, rec)
      BY <1>2, <2>1 DEF Lookup
    <3>2. pc[p] = "lookup" /\ UNCHANGED <<file, lookups, posted>>
      BY <1>2, <2>1 DEF Lookup, store, observers
    <3>3. lookups[work[p].req] = 1
      BY <3>2 DEF Searches, SearchesOf
    <3>4. SearchesOf(p)'
      BY <3>1, <3>2, <3>3, SaveMoves DEF Typed, SearchesOf
    <3> QED
      BY <3>1, <3>2, <3>4, SaveMoves, SilentSearches DEF Typed
  <2>2. CASE Decide(p)
    <3>1. PICK rec : Save(p, work[p].req, work[p].step, rec)
      BY <1>2, <2>2 DEF Decide
    <3>2. work[p].step \in Decisions
      BY <2>2 DEF Decide, Typed, Control, ControlOf
    <3>3. SearchesOf(p)'
      BY <3>1, <3>2, SaveMoves DEF Typed, SearchesOf, Decisions
    <3> QED
      BY <1>2, <2>2, <3>1, <3>3, SaveMoves, SilentSearches DEF Typed, Decide, store,
         observers
  <2>3. CASE Truncate(p) \/ Write(p) \/ Audit(p)
    <3>1. /\ pc[p] \in Saving /\ UNCHANGED <<lookups, posted>>
          /\ \/ pc'[p] \in {"write", "audit", "post"} /\ work'[p] = work[p]
             \/ pc'[p] = "idle"
          /\ \A q \in Procs : q # p => pc'[q] = pc[q] /\ work'[q] = work[q]
      BY <1>2, <2>3 DEF Truncate, Write, Audit, Goto, Finish, observers, Typed, TypeOK,
         Saving
    <3>2. \A r \in Requests : file'[r] = Absent => file[r] = Absent
      <4>1. work[p].draft \in Record
        BY <3>1 DEF Typed, Control, ControlOf, Drafted
      <4> QED
        BY <1>2, <2>3, <4>1 DEF Truncate, Write, Audit, Typed, TypeOK
    <3>3. SearchesOf(p)'
      BY <3>1 DEF Searches, SearchesOf, Saving, Acked, PostedKinds
    <3> QED
      BY <3>1, <3>2, <3>3, SilentSearches
  <2> QED
    BY <2>1, <2>2, <2>3
<1> QED
  BY <1>1, <1>2

LEMMA PostSearches ==
  ASSUME Typed, Searches, Post
  PROVE  Searches'
<1> DEFINE w == work[Slack]
<1>1. /\ Slack \in Procs /\ pc[Slack] = "post" /\ w.req \in Requests
      /\ w.step \in Steps /\ UNCHANGED <<file, lookups>>
  BY DEF Procs, Post, Typed, Control, ControlOf, Drafted, store
<1>2. PICK r \in Requests : r = w.req
  BY <1>1
<1>3. CASE UNCHANGED posted /\ Finish(Slack)
  BY <1>1, <1>3, FinishSearches DEF Typed
<1>4. CASE /\ posted' = [posted EXCEPT ![w.req] = @ \cup {OutgoingMessage}]
           /\ \/ /\ w.step = "submit"
                 /\ Goto(Slack, "load")
                 /\ work' = [work EXCEPT ![Slack] =
                               Task(None, w.req, "load", None, FALSE)]
              \/ /\ w.step # "submit"
                 /\ \/ Finish(Slack)
                    \/ Goto(Slack, "refresh") /\ UNCHANGED work
  <2>1. /\ posted'[r] = posted[r] \cup {OutgoingMessage}
        /\ \A x \in Requests : x # r => posted'[x] = posted[x]
        /\ OutgoingMessage.kind = MessageAfter[w.step]
    BY <1>2, <1>4 DEF OutgoingMessage, Typed, TypeOK
  <2>2. /\ \A x \in Requests : PostedKinds(x) \subseteq PostedKinds(x)'
        /\ \A x \in Requests : x # r => PostedKinds(x)' = PostedKinds(x)
        /\ PostedKinds(r)' = PostedKinds(r) \cup {MessageAfter[w.step]}
    BY <2>1 DEF PostedKinds
  <2>3. /\ w.step = "submit" => MessageAfter[w.step] = "requester_dm_ack"
        /\ MessageAfter[w.step] = "owner_dm_approval" => w.step = "answered"
    BY <1>1 DEF MessageAfter, Steps, Decisions
  <2>4. /\ \A q \in Procs : q # Slack => pc'[q] = pc[q] /\ work'[q] = work[q]
        /\ \/ pc'[Slack] = "load" /\ work'[Slack].req = r /\ w.step = "submit"
           \/ pc'[Slack] \in {"idle", "refresh"}
    BY <1>1, <1>2, <1>4 DEF Finish, Goto, Task, Typed, TypeOK
  <2>5. /\ w.step = "submit" => lookups[r] = 0
        /\ w.step = "answered" => lookups[r] = 1
    BY <1>1, <1>2 DEF Searches, SearchesOf
  <2>6. \A q \in Procs : SearchesOf(q)'
    <3>1. SearchesOf(Slack)'
      BY <1>1, <2>2, <2>3, <2>4, <2>5 DEF SearchesOf, Acked, Saving
    <3>2. ASSUME NEW q \in Procs, q # Slack PROVE SearchesOf(q)'
      <4>1. pc[q] # "load"
        BY <3>2 DEF Typed, Control, ControlOf
      <4> QED
        BY <1>1, <2>4, <3>2, <4>1 DEF Searches, SearchesOf
    <3> QED
      BY <3>1, <3>2
  <2>7. \A x \in Requests : SearchedOnce(x)'
    BY <1>1, <2>2, <2>3, <2>5 DEF Searches, SearchedOnce, Acked
  <2> QED
    BY <2>6, <2>7 DEF Searches
<1>5. \/ UNCHANGED posted /\ Finish(Slack)
      \/ /\ posted' = [posted EXCEPT ![w.req] = @ \cup {OutgoingMessage}]
         /\ \/ /\ w.step = "submit"
               /\ Goto(Slack, "load")
               /\ work' = [work EXCEPT ![Slack] =
                             Task(None, w.req, "load", None, FALSE)]
            \/ /\ w.step # "submit"
               /\ \/ Finish(Slack)
                  \/ Goto(Slack, "refresh") /\ UNCHANGED work
  BY DEF Post, Reconnect
<1> QED
  BY <1>3, <1>4, <1>5

LEMMA OthersSearches ==
  ASSUME TypeOK, Searches,
         \/ Complain \/ Refresh
         \/ \E u \in Owners : Register(u) \/ Unregister(u)
         \/ \E p \in Procs : Crash(p)
         \/ UNCHANGED vars
  PROVE  Searches'
<1>1. Slack \in Procs
  BY DEF Procs
<1>2. CASE \E p \in Procs : Finish(p) /\ UNCHANGED <<lookups, posted, file>>
  BY <1>2, FinishSearches
<1>3. CASE /\ Goto(Slack, "refresh") /\ work' = [work EXCEPT ![Slack].draft = None]
           /\ UNCHANGED <<lookups, posted, file>>
  <2>1. /\ "refresh" \in PCs /\ "refresh" \notin Saving \cup {"post", "load", "lookup"}
        /\ Undrafted \in Work /\ work' = [work EXCEPT ![Slack] = Undrafted]
    BY <1>1, <1>3, UndraftedIs DEF PCs, Saving
  <2> QED
    BY <1>1, <1>3, <2>1, LeavingSearches DEF Goto
<1>4. CASE UNCHANGED <<pc, work, lookups, posted, file>>
  BY <1>4 DEF Searches, SearchesOf, SearchedOnce, Acked, PostedKinds
<1> QED
  BY <1>1, <1>2, <1>3, <1>4 DEF Complain, Refresh, Reconnect, Register, Unregister,
     Crash, vars, store, observers

LEMMA NextSearches == Typed /\ Settled /\ Searches /\ [Next]_vars => Searches'
<1> SUFFICES ASSUME Typed, Settled, Searches, [Next]_vars PROVE Searches'
  OBVIOUS
<1>1. TypeOK
  BY DEF Typed
<1>2. ASSUME NEW p \in Procs, FindDuplicate(p) PROVE Searches'
  <2>1. CASE Raise(p)
    BY <1>1, <2>1, RaiseSearches
  <2>2. CASE Finish(p) /\ ~Raise(p)
    BY <1>1, <1>2, <2>2, FinishSearches DEF FindDuplicate, store, observers
  <2> QED
    BY <1>1, <1>2, <2>1, <2>2, StartSearches
<1>3. ASSUME NEW p \in Procs, ServiceStep(p) PROVE Searches'
  BY <1>1, <1>2, <1>3, ParseSearches, LoadSearches, SavingSearches DEF ServiceStep
<1>4. CASE RunnerStep
  BY <1>1, <1>4, PostSearches, OthersSearches, StartSearches DEF RunnerStep
<1> QED
  BY <1>1, <1>3, <1>4, StartSearches, OthersSearches DEF Next

\* However often a DM is delivered and whatever fails, a request's mailbox is
\* searched once at most, after the requester's acknowledgement was posted, and
\* its owner is asked only about an answer of that search.
THEOREM LookupIsSafe == Spec => []LookupOnceAfterAck
<1>1. Typed /\ Searches => LookupOnceAfterAck
  BY DEF Searches, SearchedOnce, Acked, LookupOnceAfterAck
<1>2. Typed /\ Settled /\ [Next]_vars => Settled'
  BY NextSettled
<1>3. Typed /\ Settled /\ Searches /\ [Next]_vars => Searches'
  BY NextSearches
<1> QED
  BY <1>1, <1>2, <1>3, InitSettled, InitSearches, AlwaysTyped, PTL DEF Spec

HIDE ConstantsAssumption

-----------------------------------------------------------------------------
(***************************************************************************)
(* What a step does to the files, the log, the messages and what processes *)
(* hold, in one formula: the later proofs have one case per disjunct.      *)
(***************************************************************************)
Others(p) == \A q \in Procs \ {p} : pc'[q] = pc[q] /\ work'[q] = work[q]

Outside == {"idle", "find", "ack_click", "decide", "complain", "refresh"}

Faulty == faults["kill"] + faults["disk"] > 0

\* p begins an operation, or ends one; a save only ends in a fault.
Leaves(p) ==
  /\ pc'[p] \in Outside
  /\ pc'[p] = "find" => Source[work'[p].event] = p
  /\ pc[p] \in Saving => Faulty'
  /\ UNCHANGED <<file, audit, posted>>

\* No record is found for p's event.
Searched(p) ==
  /\ pc[p] = "find" /\ pc'[p] = "parse" /\ work'[p] = work[p]
  /\ ~StoreUnreadable /\ ~Recorded(work[p].event)
  /\ UNCHANGED <<file, audit, posted>>

\* p goes on to save a record.
Saves(p) ==
  /\ pc'[p] = "truncate" /\ work'[p].req \in Requests /\ work'[p].draft \in Record
  /\ UNCHANGED <<file, audit, posted>>

Opens(p) ==
  /\ pc[p] = "parse" /\ Saves(p) /\ work'[p].step = "submit"
  /\ file[work'[p].req] = Absent /\ \A q \in Procs : work[q].req # work'[p].req
  /\ work'[p].draft.event = work[p].event
  /\ work'[p].draft.status = "executing" /\ work'[p].draft.result = NoResult

Loads(p) ==
  /\ p = Slack /\ pc[p] = "load" /\ pc'[p] = "lookup"
  /\ work[p].req \in Requests /\ work'[p].req = work[p].req
  /\ Readable(work[p].req) /\ file[work[p].req].status = "executing"
  /\ work'[p].draft = file[work[p].req]
  /\ UNCHANGED <<file, audit, posted>>

Answers(p) ==
  /\ p = Slack /\ pc[p] = "lookup" /\ Saves(p)
  /\ work[p].draft \in Record /\ work'[p].req = work[p].req
  /\ work'[p].step \in {"answered", "lookup_failed"}
  /\ work'[p].draft.event = work[p].draft.event
  /\ work'[p].step = "lookup_failed" => work'[p].draft.result = work[p].draft.result

Chooses(p) ==
  LET r == work[p].req  d == work[p].step IN
  /\ pc[p] = "decide" /\ Saves(p)
  /\ work'[p].req = r /\ work'[p].step = d /\ d \in Decisions
  /\ Readable(r) /\ file[r] \in Record /\ file[r].status = StatusFor[d]
  /\ work'[p].draft = [file[r] EXCEPT !.status = StatusAfter[d]]

Empties(p) ==
  /\ pc[p] = "truncate" /\ pc'[p] = "write" /\ work'[p] = work[p]
  /\ file' = [file EXCEPT ![work[p].req] = Torn]
  /\ UNCHANGED <<audit, posted>>

Fills(p) ==
  /\ pc[p] = "write" /\ pc'[p] = "audit" /\ work'[p] = work[p]
  /\ file' = [file EXCEPT ![work[p].req] = work[p].draft]
  /\ UNCHANGED <<audit, posted>>

Logs(p) ==
  /\ pc[p] = "audit"
  /\ \/ p = Slack /\ pc'[p] = "post" /\ work'[p] = work[p]
     \/ p # Slack /\ pc'[p] = "idle"
  /\ audit' = [audit EXCEPT ![work[p].req] = @ \cup {AuditAfter[work[p].step]}]
  /\ UNCHANGED <<file, posted>>

Posts(p) ==
  /\ p = Slack /\ pc[p] = "post"
  /\ \/ pc'[p] \in {"idle", "refresh"} /\ work[p].step # "submit"
     \/ /\ work[p].step = "submit" /\ pc'[p] = "load"
        /\ work'[p].req = work[p].req
  /\ posted' = [posted EXCEPT ![work[p].req] = @ \cup {OutgoingMessage}]
  /\ UNCHANGED <<file, audit>>

StepOf(p) ==
  /\ Others(p)
  /\ \/ Leaves(p) \/ Searched(p) \/ Opens(p) \/ Loads(p) \/ Answers(p) \/ Chooses(p)
     \/ Empties(p) \/ Fills(p) \/ Logs(p) \/ Posts(p)

Quiet == UNCHANGED <<file, audit, posted, pc, work>>

Sourced == \A e \in inbox : Source[e] = Slack

LEMMA FaultsGrow ==
  ASSUME TypeOK, [Next]_vars
  PROVE  Faulty => Faulty'
<1>1. ASSUME NEW k \in FaultKinds, Fault(k) PROVE Faulty => Faulty'
  BY <1>1 DEF Fault, TypeOK, Faulty, FaultKinds
<1>2. CASE UNCHANGED faults
  BY <1>2 DEF Faulty
<1>3. "kill" \in FaultKinds /\ "disk" \in FaultKinds /\ "post" \in FaultKinds
  BY DEF FaultKinds
<1>4. ASSUME NEW p \in Procs, Write(p) PROVE Faulty => Faulty'
  BY <1>1, <1>2, <1>3, <1>4 DEF Write
<1>5. ASSUME NEW p \in Procs, Audit(p) PROVE Faulty => Faulty'
  BY <1>1, <1>2, <1>3, <1>5 DEF Audit
<1>6. ASSUME NEW p \in Procs, ServiceStep(p) PROVE Faulty => Faulty'
  BY <1>2, <1>4, <1>5, <1>6 DEF ServiceStep, FindDuplicate, Parse, Load, Lookup, Decide, Truncate
<1>7. CASE RunnerStep
  BY <1>1, <1>2, <1>3, <1>7 DEF RunnerStep, Post, Complain, AckClick, Refresh, CallFails
<1>8. ASSUME NEW p \in Procs, Crash(p) PROVE Faulty => Faulty'
  BY <1>1, <1>3, <1>8 DEF Crash
<1>9. CASE \E u \in Owners : Register(u) \/ Unregister(u)
  BY <1>2, <1>9 DEF Register, Unregister
<1>10. CASE \/ \E e \in Events : ReceiveRequest(e)
            \/ \E u \in Users, r \in Requests, d \in Decisions, b \in BOOLEAN :
                 ReceiveDecision(u, r, d, b)
            \/ \E p \in CliProcs, e \in Events : RunSubmit(p, e)
            \/ \E p \in CliProcs, u \in Users, r \in Requests, d \in Decisions :
                 RunDecision(p, u, r, d)
  BY <1>2, <1>10 DEF ReceiveRequest, ReceiveDecision, RunSubmit, RunDecision
<1> QED
  BY <1>2, <1>6, <1>7, <1>8, <1>9, <1>10 DEF Next, vars

LEMMA FaultIsFaulty ==
  ASSUME TypeOK, NEW k \in {"kill", "disk"}, Fault(k)
  PROVE  Faulty'
<1>1. k \in FaultKinds /\ \A j \in FaultKinds : faults[j] \in Nat
  BY DEF TypeOK, FaultKinds
<1>2. \A j \in FaultKinds : faults'[j] = IF j = k THEN faults[j] + 1 ELSE faults[j]
  BY <1>1 DEF Fault, TypeOK
<1>3. faults'[k] > 0
  BY <1>1, <1>2
<1>4. "kill" \in FaultKinds /\ "disk" \in FaultKinds
  BY DEF FaultKinds
<1>5. faults'["kill"] \in Nat /\ faults'["disk"] \in Nat
  BY <1>1, <1>2, <1>4
<1> QED
  BY <1>3, <1>5 DEF Faulty

LEMMA SomewhereElse ==
  ASSUME TypeOK, NEW p \in Procs, NEW l, NEW w,
         pc' = [pc EXCEPT ![p] = l], work' = [work EXCEPT ![p] = w]
  PROVE  pc'[p] = l /\ work'[p] = w /\ Others(p)
BY DEF TypeOK, Others

LEMMA FinishIsStep ==
  ASSUME TypeOK, NEW p \in Procs, Finish(p), pc[p] \in Saving => Faulty',
         UNCHANGED <<file, audit, posted>>
  PROVE  StepOf(p)
<1>1. pc'[p] = "idle" /\ work'[p] = NoWork /\ Others(p)
  BY SomewhereElse DEF Finish
<1>2. Leaves(p)
  BY <1>1 DEF Leaves, Outside
<1> QED
  BY <1>1, <1>2 DEF StepOf

LEMMA RaiseIsStep ==
  ASSUME TypeOK, NEW p \in Procs, Raise(p), pc[p] \in Saving => Faulty'
  PROVE  StepOf(p)
<1>1. UNCHANGED <<file, audit, posted>>
  BY DEF Raise, store, observers
<1>2. CASE p = Slack
  <2>1. pc' = [pc EXCEPT ![p] = "complain"] /\ work' = [work EXCEPT ![p] = work[p]]
    BY <1>2 DEF Raise, Goto, TypeOK
  <2> QED
    BY <1>1, <2>1, SomewhereElse DEF StepOf, Leaves, Outside
<1>3. CASE p # Slack
  BY <1>1, <1>3, FinishIsStep DEF Raise
<1> QED
  BY <1>2, <1>3

\* p goes to l and holds what it held.
LEMMA GotoIsStep ==
  ASSUME TypeOK, NEW p \in Procs, NEW l, Goto(p, l), UNCHANGED work
  PROVE  pc'[p] = l /\ work'[p] = work[p] /\ Others(p)
<1>1. pc' = [pc EXCEPT ![p] = l] /\ work' = [work EXCEPT ![p] = work[p]]
  BY DEF Goto, TypeOK
<1> QED
  BY <1>1, SomewhereElse

LEMMA SaveIsStep ==
  ASSUME TypeOK, NEW p \in Procs, NEW r \in Requests, NEW s, NEW rec \in Record, Save(p, r, s, rec),
         UNCHANGED <<file, audit, posted>>
  PROVE  /\ Saves(p) /\ Others(p)
         /\ work'[p].req = r /\ work'[p].step = s /\ work'[p].draft = rec
BY SaveMoves DEF Saves, Others

LEMMA StartIsStep ==
  ASSUME TypeOK, Control, Sourced,
         \/ \E e \in Events : ReceiveRequest(e)
         \/ \E u \in Users, r \in Requests, d \in Decisions, b \in BOOLEAN :
              ReceiveDecision(u, r, d, b)
         \/ \E p \in CliProcs, e \in Events : RunSubmit(p, e)
         \/ \E p \in CliProcs, u \in Users, r \in Requests, d \in Decisions :
              RunDecision(p, u, r, d)
  PROVE  \E p \in Procs : StepOf(p)
<1>1. Slack \in Procs /\ CliProcs \subseteq Procs
  BY DEF Procs
<1>2. ASSUME NEW p \in Procs, NEW l \in {"find", "ack_click", "decide"}, NEW w, pc[p] = "idle",
             l = "find" => Source[w.event] = p,
             Goto(p, l), work' = [work EXCEPT ![p] = w], UNCHANGED <<file, audit, posted>>
      PROVE  StepOf(p)
  <2>1. pc'[p] = l /\ work'[p] = w /\ Others(p)
    BY <1>2, SomewhereElse DEF Goto
  <2> QED
    BY <1>2, <2>1 DEF StepOf, Leaves, Outside, Saving
<1>3. ASSUME NEW e \in Events, ReceiveRequest(e) PROVE StepOf(Slack)
  <2> DEFINE w == Task(e, None, "submit", None, FALSE)
  <2>1. w.event = e /\ Source[e] = Slack
    BY <1>3 DEF Task, ReceiveRequest, Sourced
  <2>2. /\ pc[Slack] = "idle" /\ Goto(Slack, "find") /\ work' = [work EXCEPT ![Slack] = w]
        /\ UNCHANGED <<file, audit, posted>>
    BY <1>3 DEF ReceiveRequest, store, observers
  <2> HIDE DEF w
  <2> QED
    BY <1>1, <1>2, <2>1, <2>2
<1>4. ASSUME NEW p \in CliProcs, NEW e \in Events, RunSubmit(p, e) PROVE StepOf(p)
  <2> DEFINE w == Task(e, None, "submit", None, FALSE)
  <2>1. w.event = e /\ Source[e] = p
    BY <1>4 DEF Task, RunSubmit
  <2>2. /\ pc[p] = "idle" /\ Goto(p, "find") /\ work' = [work EXCEPT ![p] = w]
        /\ UNCHANGED <<file, audit, posted>>
    BY <1>4 DEF RunSubmit, store, observers
  <2> HIDE DEF w
  <2> QED
    BY <1>1, <1>2, <2>1, <2>2
<1>5. ASSUME NEW u \in Users, NEW r \in Requests, NEW d \in Decisions, NEW b \in BOOLEAN,
             ReceiveDecision(u, r, d, b)
      PROVE  StepOf(Slack)
  <2>1. PICK l \in {"ack_click", "decide"} : Goto(Slack, l)
    BY <1>5 DEF ReceiveDecision
  <2>2. /\ pc[Slack] = "idle" /\ work' = [work EXCEPT ![Slack] = Task(None, r, d, u, b)]
        /\ UNCHANGED <<file, audit, posted>>
    BY <1>5 DEF ReceiveDecision, store, observers
  <2> QED
    BY <1>1, <1>2, <2>1, <2>2
<1>6. ASSUME NEW p \in CliProcs, NEW u \in Users, NEW r \in Requests, NEW d \in Decisions,
             RunDecision(p, u, r, d)
      PROVE  StepOf(p)
  <2>1. /\ pc[p] = "idle" /\ Goto(p, "decide")
        /\ work' = [work EXCEPT ![p] = Task(None, r, d, u, FALSE)]
        /\ UNCHANGED <<file, audit, posted>>
    BY <1>6 DEF RunDecision, store, observers
  <2> QED
    BY <1>1, <1>2, <2>1
<1> QED
  BY <1>1, <1>3, <1>4, <1>5, <1>6

LEMMA FindIsStep ==
  ASSUME TypeOK, NEW p \in Procs, FindDuplicate(p)
  PROVE  StepOf(p)
<1>1. pc[p] \notin Saving
  BY DEF FindDuplicate, Saving
<1>2. CASE Raise(p)
  BY <1>1, <1>2, RaiseIsStep
<1>3. CASE Finish(p) /\ UNCHANGED <<store, observers>>
  BY <1>1, <1>3, FinishIsStep DEF store, observers
<1>4. CASE /\ ~StoreUnreadable /\ ~Recorded(work[p].event) /\ Goto(p, "parse")
           /\ UNCHANGED <<work, store, observers>>
  BY <1>4, GotoIsStep DEF FindDuplicate, StepOf, Searched, store, observers
<1> QED
  BY <1>2, <1>3, <1>4 DEF FindDuplicate

LEMMA ParseIsStep ==
  ASSUME TypeOK, Control, NEW p \in Procs, Parse(p)
  PROVE  StepOf(p)
<1>1. pc[p] \notin Saving
  BY DEF Parse, Saving
<1>2. CASE Raise(p)
  BY <1>1, <1>2, RaiseIsStep
<1>3. CASE ~Raise(p)
  <2> DEFINE e == work[p].event
             rec == [event |-> e, requester |-> RequesterOf[e], owner |-> OwnerOf[e],
                     status |-> "executing", result |-> NoResult]
  <2>1. PICK r \in Requests : Fresh(r) /\ Save(p, r, "submit", rec)
    BY <1>3 DEF Parse
  <2>2. OwnerOf[e] \in registered /\ pc[p] = "parse" /\ UNCHANGED <<file, audit, posted>>
    BY <1>3 DEF Parse, store, observers
  <2>3. e \in Events
    BY <2>2 DEF Control, ControlOf
  <2>4. rec \in Record /\ rec.event = e /\ rec.status = "executing" /\ rec.result = NoResult
    <3>1. RequesterOf[e] \in Users /\ OwnerOf[e] \in Users
      <4>1. registered \subseteq Owners /\ Owners \subseteq Users
        BY DEF TypeOK, Owners
      <4>2. RequesterOf[e] \in Users
        BY <2>3, ConstantsAssumption
      <4> QED
        BY <2>2, <4>1, <4>2
    <3>2. "executing" \in Statuses
      BY DEF Statuses, StatusAfter, Steps
    <3> QED
      BY <2>3, <3>1, <3>2 DEF Record
  <2> HIDE DEF rec, e
  <2>5. Saves(p) /\ Others(p) /\ work'[p].req = r /\ work'[p].step = "submit" /\ work'[p].draft = rec
    BY <2>1, <2>2, <2>4, SaveIsStep
  <2> QED
    BY <2>1, <2>2, <2>4, <2>5 DEF StepOf, Opens, Fresh, e
<1> QED
  BY <1>2, <1>3

LEMMA LoadIsStep ==
  ASSUME TypeOK, Control, NEW p \in Procs, Load(p)
  PROVE  StepOf(p)
<1>1. pc[p] = "load" /\ p = Slack /\ work[p].req \in Requests
  BY DEF Load, Control, ControlOf
<1>2. CASE Raise(p)
  BY <1>1, <1>2, RaiseIsStep DEF Saving
<1>3. CASE ~Raise(p)
  <2>1. /\ MayExecute(work[p].req) /\ UNCHANGED <<file, audit, posted>>
    BY <1>3 DEF Load, store
  <2> QED
    BY <1>1, <1>3, <2>1, LoadMoves DEF StepOf, Loads, Others, MayExecute
<1> QED
  BY <1>2, <1>3

LEMMA LookupIsStep ==
  ASSUME TypeOK, Control, NEW p \in Procs, Lookup(p)
  PROVE  StepOf(p)
<1> DEFINE w == work[p]
<1>1. pc[p] = "lookup" /\ p = Slack /\ w.req \in Requests /\ w.draft \in Record
  BY DEF Lookup, Control, ControlOf
<1>2. CASE Raise(p)
  BY <1>1, <1>2, RaiseIsStep DEF Saving
<1>3. ASSUME NEW s \in {"answered", "lookup_failed"}, NEW rec \in Record, Save(p, w.req, s, rec),
             rec.event = w.draft.event, s = "lookup_failed" => rec.result = w.draft.result,
             UNCHANGED <<store, observers>>
      PROVE  StepOf(p)
  <2> HIDE DEF w
  <2>1. Saves(p) /\ Others(p) /\ work'[p].req = w.req /\ work'[p].step = s /\ work'[p].draft = rec
    BY <1>1, <1>3, SaveIsStep DEF store, observers
  <2> QED
    BY <1>1, <1>3, <2>1 DEF StepOf, Answers, w
<1>4. ASSUME NEW a \in Results \cup {NoResult}
      PROVE  /\ [w.draft EXCEPT !.status = "pending_owner_approval", !.result = a] \in Record
             /\ [w.draft EXCEPT !.status = "pending_owner_approval", !.result = a].event = w.draft.event
  <2>1. "pending_owner_approval" \in Statuses
    BY DEF Statuses, StatusAfter, Steps
  <2> QED
    BY <1>1, <2>1 DEF Record
<1>5. /\ [w.draft EXCEPT !.status = "failed"] \in Record
      /\ [w.draft EXCEPT !.status = "failed"].event = w.draft.event
      /\ [w.draft EXCEPT !.status = "failed"].result = w.draft.result
  <2>1. "failed" \in Statuses
    BY DEF Statuses, StatusAfter, Steps
  <2> QED
    BY <1>1, <2>1 DEF Record
<1> QED
  BY <1>2, <1>3, <1>4, <1>5 DEF Lookup

LEMMA DecideIsStep ==
  ASSUME TypeOK, Control, NEW p \in Procs, Decide(p)
  PROVE  StepOf(p)
<1> DEFINE r == work[p].req
           d == work[p].step
           rec == [file[r] EXCEPT !.status = StatusAfter[d]]
<1>1. pc[p] = "decide" /\ r \in Requests /\ d \in Decisions
  BY DEF Decide, Control, ControlOf
<1>2. CASE Raise(p)
  BY <1>1, <1>2, RaiseIsStep DEF Saving
<1>3. CASE ~Raise(p)
  <2>1. MayDecide(work[p].who, r, d) /\ Save(p, r, d, rec) /\ UNCHANGED <<file, audit, posted>>
    BY <1>3 DEF Decide, store, observers
  <2>2. Readable(r) /\ file[r] \in Record /\ file[r].status = StatusFor[d]
    BY <1>1, <2>1 DEF MayDecide, Readable, TypeOK
  <2>3. StatusAfter[d] \in Statuses
    BY <1>1, Tables DEF Steps
  <2>4. rec \in Record
    BY <2>2, <2>3 DEF Record
  <2>5. Saves(p) /\ Others(p) /\ work'[p].req = r /\ work'[p].step = d /\ work'[p].draft = rec
    <3> HIDE DEF rec, r, d
    <3> QED
      BY <1>1, <2>1, <2>4, SaveIsStep
  <2> QED
    BY <1>1, <2>2, <2>5 DEF StepOf, Chooses
<1> QED
  BY <1>2, <1>3

LEMMA SavingIsStep ==
  ASSUME TypeOK, Control, NEW p \in Procs, Truncate(p) \/ Write(p) \/ Audit(p)
  PROVE  StepOf(p)
<1>1. CASE Truncate(p)
  BY <1>1, GotoIsStep DEF Truncate, StepOf, Empties, observers
<1>2. CASE Raise(p) /\ Fault("disk")
  BY <1>2, RaiseIsStep, FaultIsFaulty
<1>3. CASE Write(p) /\ ~(Raise(p) /\ Fault("disk"))
  BY <1>3, GotoIsStep DEF Write, StepOf, Fills
<1>4. CASE Audit(p) /\ ~(Raise(p) /\ Fault("disk"))
  <2>1. /\ pc[p] = "audit" /\ UNCHANGED <<file, posted>>
        /\ audit' = [audit EXCEPT ![work[p].req] = @ \cup {AuditAfter[work[p].step]}]
        /\ IF p = Slack THEN Goto(p, "post") /\ UNCHANGED work ELSE Finish(p)
    BY <1>4 DEF Audit, observers
  <2>2. CASE p = Slack
    BY <2>1, <2>2, GotoIsStep DEF StepOf, Logs
  <2>3. CASE p # Slack
    <3>1. pc'[p] = "idle" /\ Others(p)
      BY <2>1, <2>3, SomewhereElse DEF Finish
    <3> QED
      BY <2>1, <2>3, <3>1 DEF StepOf, Logs
  <2> QED
    BY <2>2, <2>3
<1> QED
  BY <1>1, <1>2, <1>3, <1>4

LEMMA PostIsStep ==
  ASSUME TypeOK, Post
  PROVE  StepOf(Slack)
<1> DEFINE w == work[Slack]
<1>1. Slack \in Procs /\ pc[Slack] = "post" /\ UNCHANGED <<file, audit>>
  BY DEF Procs, Post, store
<1>2. CASE Finish(Slack) /\ UNCHANGED posted
  BY <1>1, <1>2, FinishIsStep DEF Saving
<1>3. CASE /\ posted' = [posted EXCEPT ![w.req] = @ \cup {OutgoingMessage}]
           /\ w.step = "submit" /\ Goto(Slack, "load")
           /\ work' = [work EXCEPT ![Slack] = Task(None, w.req, "load", None, FALSE)]
  <2> DEFINE t == Task(None, w.req, "load", None, FALSE)
  <2>0. t.req = w.req
    BY DEF Task
  <2> HIDE DEF t
  <2>1. pc'[Slack] = "load" /\ Others(Slack) /\ work'[Slack].req = w.req
    BY <1>1, <1>3, <2>0, SomewhereElse DEF Goto, t
  <2> QED
    BY <1>1, <1>3, <2>1 DEF StepOf, Posts
<1>4. CASE /\ posted' = [posted EXCEPT ![w.req] = @ \cup {OutgoingMessage}]
           /\ w.step # "submit"
           /\ \/ Finish(Slack)
              \/ Goto(Slack, "refresh") /\ UNCHANGED work
  <2>1. pc'[Slack] \in {"idle", "refresh"} /\ Others(Slack)
    BY <1>1, <1>4, SomewhereElse, GotoIsStep DEF Finish
  <2> QED
    BY <1>1, <1>4, <2>1 DEF StepOf, Posts
<1>5. \/ UNCHANGED posted /\ Finish(Slack)
      \/ /\ posted' = [posted EXCEPT ![w.req] = @ \cup {OutgoingMessage}]
         /\ \/ /\ w.step = "submit"
               /\ Goto(Slack, "load")
               /\ work' = [work EXCEPT ![Slack] = Task(None, w.req, "load", None, FALSE)]
            \/ /\ w.step # "submit"
               /\ \/ Finish(Slack)
                  \/ Goto(Slack, "refresh") /\ UNCHANGED work
  BY DEF Post, Reconnect
<1> QED
  BY <1>2, <1>3, <1>4, <1>5

LEMMA RunnerIsStep ==
  ASSUME TypeOK, Complain \/ AckClick \/ Refresh
  PROVE  StepOf(Slack)
<1>1. Slack \in Procs /\ pc[Slack] \notin Saving /\ UNCHANGED <<file, audit, posted>>
  BY DEF Procs, Saving, Complain, AckClick, Refresh, store, observers
<1>2. CASE Finish(Slack)
  BY <1>1, <1>2, FinishIsStep
<1>3. CASE \E l \in {"refresh", "decide"} : Goto(Slack, l) /\ UNCHANGED work
  BY <1>1, <1>3, GotoIsStep DEF StepOf, Leaves, Outside
<1>7. CASE Goto(Slack, "refresh") /\ work' = [work EXCEPT ![Slack].draft = None]
  <2>1. /\ pc' = [pc EXCEPT ![Slack] = "refresh"]
        /\ Undrafted \in Work /\ work' = [work EXCEPT ![Slack] = Undrafted]
    BY <1>7, UndraftedIs DEF Goto
  <2> QED
    BY <1>1, <2>1, SomewhereElse DEF StepOf, Leaves, Outside, TypeOK
<1>4. Complain => \/ Finish(Slack)
                  \/ Goto(Slack, "refresh") /\ work' = [work EXCEPT ![Slack].draft = None]
  BY DEF Complain, Reconnect
<1>5. AckClick => Goto(Slack, "decide") /\ UNCHANGED work
  BY DEF AckClick
<1>6. Refresh => Finish(Slack)
  BY DEF Refresh
<1> QED
  BY <1>2, <1>3, <1>4, <1>5, <1>6, <1>7

LEMMA NextIsStep ==
  ASSUME TypeOK, Control, Sourced, [Next]_vars
  PROVE  (\E p \in Procs : StepOf(p)) \/ Quiet
<1>1. ASSUME NEW p \in Procs, Crash(p) PROVE StepOf(p)
  BY <1>1, FinishIsStep, FaultIsFaulty DEF Crash, store, observers
<1>2. ASSUME NEW p \in Procs, ServiceStep(p) PROVE StepOf(p)
  BY <1>2, FindIsStep, ParseIsStep, LoadIsStep, LookupIsStep, DecideIsStep, SavingIsStep DEF ServiceStep
<1>3. CASE RunnerStep
  BY <1>3, PostIsStep, RunnerIsStep DEF RunnerStep, Procs
<1>4. CASE \E u \in Owners : Register(u) \/ Unregister(u)
  BY <1>4 DEF Register, Unregister, Quiet, observers
<1>5. CASE UNCHANGED vars
  BY <1>5 DEF vars, store, observers, Quiet
<1> QED
  BY <1>1, <1>2, <1>3, <1>4, <1>5, StartIsStep DEF Next

LEMMA InboxSourced ==
  ASSUME Sourced, [Next]_vars
  PROVE  Sourced'
<1>1. inbox' \subseteq inbox
  BY DEF Next, vars, ReceiveRequest, ReceiveDecision, RunSubmit, RunDecision, ServiceStep, RunnerStep,
     FindDuplicate, Parse, Load, Lookup, Decide, Truncate, Write, Audit, Post, Complain, AckClick,
     Refresh, Register, Unregister, Crash
<1> QED
  BY <1>1 DEF Sourced

-----------------------------------------------------------------------------
(***************************************************************************)
(* One record for an event: a record is claimed for it from the moment its *)
(* id is drawn, and an event is only submitted by the process it came to.  *)
(***************************************************************************)

\* Request r is, or is about to be, the record of event e.
Claims(r, e) ==
  \/ Readable(r) /\ file[r].event = e
  \/ \E p \in Procs : /\ pc[p] \in {"lookup", "truncate", "write"}
                      /\ work[p].req = r /\ work[p].draft.event = e

FromSource(p) ==
  /\ pc[p] \in {"find", "parse"} => Source[work[p].event] = p
  /\ pc[p] \in {"lookup", "truncate", "write"} /\ file[work[p].req] = Absent
       => Source[work[p].draft.event] = p
  /\ pc[p] = "parse" => \A r \in Requests : ~Claims(r, work[p].event)

Claimed ==
  /\ \A p \in Procs : FromSource(p)
  /\ \A r \in Requests, e, f \in Events : Claims(r, e) /\ Claims(r, f) => e = f
  /\ \A q, r \in Requests, e \in Events : Claims(q, e) /\ Claims(r, e) => q = r

LEMMA InitClaimed == Init => Claimed /\ Sourced
<1> SUFFICES ASSUME Init PROVE Claimed /\ Sourced
  OBVIOUS
<1>1. Sourced
  BY DEF Init, Sourced
<1>2. \A p \in Procs : pc[p] = "idle"
  BY DEF Init
<1>3. \A r \in Requests, e \in Events : Claims(r, e) => r \in DOMAIN Legacy /\ Legacy[r].event = e
  BY <1>2 DEF Init, Claims, Readable
<1> QED
  BY <1>1, <1>2, <1>3, LegacyAssumption DEF Claimed, FromSource

\* A step of p that claims nothing new.
LEMMA NoNewClaims ==
  ASSUME TypeOK, Control, Claimed, NEW p \in Procs, Others(p),
         \A r \in Requests : file'[r] = Absent => file[r] = Absent,
         \A r \in Requests, e \in Events : Readable(r)' /\ file'[r].event = e => Claims(r, e),
         \A r \in Requests, e \in Events :
           pc'[p] \in {"lookup", "truncate", "write"} /\ work'[p].req = r
             /\ work'[p].draft.event = e => Claims(r, e),
         FromSource(p)'
  PROVE  Claimed'
<1>1. ASSUME NEW r \in Requests, NEW e \in Events, Claims(r, e)' PROVE Claims(r, e)
  <2>1. CASE Readable(r)' /\ file'[r].event = e
    BY <2>1
  <2>2. ASSUME NEW q \in Procs, pc'[q] \in {"lookup", "truncate", "write"},
               work'[q].req = r, work'[q].draft.event = e
        PROVE  Claims(r, e)
    <3>1. CASE q = p
      BY <2>2, <3>1
    <3>2. CASE q # p
      <4>1. pc'[q] = pc[q] /\ work'[q] = work[q]
        BY <3>2 DEF Others
      <4> QED
        BY <2>2, <4>1 DEF Claims
    <3> QED
      BY <3>1, <3>2
  <2> QED
    BY <1>1, <2>1, <2>2 DEF Claims
<1>2. ASSUME NEW q \in Procs, q # p PROVE FromSource(q)'
  <2>1. pc'[q] = pc[q] /\ work'[q] = work[q] /\ FromSource(q) /\ ControlOf(q)
    BY <1>2 DEF Others, Claimed, Control
  <2>2. pc[q] \in {"lookup", "truncate", "write"} => work[q].req \in Requests
    BY <2>1 DEF ControlOf, Drafted, Saving
  <2>3. pc[q] = "parse" => work[q].event \in Events
    BY <2>1 DEF ControlOf
  <2> QED
    BY <1>1, <2>1, <2>2, <2>3 DEF FromSource
<1> QED
  BY <1>1, <1>2 DEF Claimed

LEMMA SearchedClaimed ==
  ASSUME TypeOK, Control, Claimed, NEW p \in Procs, Others(p), Searched(p)
  PROVE  Claimed'
<1> DEFINE e == work[p].event
<1>1. e \in Events /\ Source[e] = p /\ UNCHANGED file
  BY DEF Searched, Control, ControlOf, Claimed, FromSource
<1> HIDE DEF e
<1>2. ASSUME NEW r \in Requests, Claims(r, e) PROVE FALSE
  <2>1. ~(Readable(r) /\ file[r].event = e) /\ file[r] # Torn
    BY DEF Searched, Recorded, StoreUnreadable, e
  <2>2. PICK q \in Procs : /\ pc[q] \in {"lookup", "truncate", "write"}
                           /\ work[q].req = r /\ work[q].draft.event = e
    BY <1>2, <2>1 DEF Claims
  <2>3. CASE file[r] = Absent
    <3>1. Source[e] = q
      BY <2>2, <2>3 DEF Claimed, FromSource
    <3> QED
      BY <1>1, <2>2, <3>1 DEF Searched
  <2>4. CASE file[r] # Absent
    <3>1. Readable(r) /\ file[r].event \in Events
      BY <2>1, <2>4 DEF Readable, TypeOK, Record
    <3>2. Claims(r, file[r].event)
      BY <3>1 DEF Claims
    <3> QED
      BY <1>1, <1>2, <2>1, <3>1, <3>2 DEF Claimed
  <2> QED
    BY <2>3, <2>4
<1>3. pc'[p] = "parse" /\ work'[p] = work[p]
  BY DEF Searched
<1>4. ASSUME NEW r \in Requests PROVE ~Claims(r, e)'
  <2>1. ASSUME NEW q \in Procs, pc'[q] \in {"lookup", "truncate", "write"},
               work'[q].req = r, work'[q].draft.event = e
        PROVE  Claims(r, e)
    <3>1. q # p /\ pc'[q] = pc[q] /\ work'[q] = work[q]
      BY <1>3, <2>1 DEF Others
    <3> QED
      BY <2>1, <3>1 DEF Claims
  <2>2. Readable(r)' /\ file'[r].event = e => Claims(r, e)
    BY <1>1 DEF Claims, Readable
  <2>3. e' = e
    BY <1>3 DEF e
  <2> QED
    BY <1>2, <2>1, <2>2, <2>3 DEF Claims
<1>5. e' = e
  BY <1>3 DEF e
<1>6. FromSource(p)'
  BY <1>1, <1>3, <1>4, <1>5 DEF FromSource, e
<1>7. \A r \in Requests, f \in Events : Readable(r)' /\ file'[r].event = f => Claims(r, f)
  BY <1>1 DEF Claims, Readable
<1> QED
  BY <1>1, <1>3, <1>6, <1>7, NoNewClaims

LEMMA OpensClaimed ==
  ASSUME TypeOK, Control, Claimed, NEW p \in Procs, Others(p), Opens(p)
  PROVE  Claimed'
<1> DEFINE e == work[p].event
           r == work'[p].req
<1>1. /\ e \in Events /\ Source[e] = p /\ UNCHANGED file /\ r \in Requests
      /\ \A x \in Requests : ~Claims(x, e)
  BY DEF Opens, Saves, Control, ControlOf, Claimed, FromSource
<1>2. /\ pc'[p] = "truncate" /\ work'[p].draft.event = e
      /\ file[r] = Absent /\ \A q \in Procs : work[q].req # r
  BY DEF Opens, Saves
<1> HIDE DEF e, r
<1>3. \A f \in Events : ~Claims(r, f)
  BY <1>1, <1>2 DEF Claims, Readable
<1>4. ASSUME NEW x \in Requests, NEW f \in Events, Claims(x, f)'
      PROVE  Claims(x, f) \/ (x = r /\ f = e)
  <2>1. Readable(x)' /\ file'[x].event = f => Claims(x, f)
    BY <1>1 DEF Claims, Readable
  <2>2. ASSUME NEW q \in Procs, pc'[q] \in {"lookup", "truncate", "write"},
               work'[q].req = x, work'[q].draft.event = f
        PROVE  Claims(x, f) \/ (x = r /\ f = e)
    <3>1. CASE q = p
      BY <1>2, <2>2, <3>1 DEF r
    <3>2. CASE q # p
      <4>1. pc'[q] = pc[q] /\ work'[q] = work[q]
        BY <3>2 DEF Others
      <4> QED
        BY <2>2, <4>1 DEF Claims
    <3> QED
      BY <3>1, <3>2
  <2> QED
    BY <1>4, <2>1, <2>2 DEF Claims
<1>5. FromSource(p)'
  BY <1>1, <1>2 DEF FromSource
<1>6. ASSUME NEW q \in Procs, q # p PROVE FromSource(q)'
  <2>1. pc'[q] = pc[q] /\ work'[q] = work[q] /\ FromSource(q) /\ ControlOf(q)
    BY <1>6 DEF Others, Claimed, Control
  <2>2. pc[q] = "parse" => work[q].event \in Events /\ work[q].event # e
    BY <1>1, <1>6, <2>1 DEF ControlOf, FromSource
  <2> QED
    BY <1>1, <1>4, <2>1, <2>2 DEF FromSource
<1>7. \A x \in Requests, f, g \in Events : Claims(x, f)' /\ Claims(x, g)' => f = g
  BY <1>3, <1>4 DEF Claimed
<1>8. \A x, y \in Requests, f \in Events : Claims(x, f)' /\ Claims(y, f)' => x = y
  BY <1>1, <1>4 DEF Claimed
<1> QED
  BY <1>5, <1>6, <1>7, <1>8 DEF Claimed

LEMMA FilesClaimed ==
  ASSUME TypeOK, Control, Claimed, NEW p \in Procs, Others(p),
         Leaves(p) \/ Logs(p) \/ Posts(p) \/ Empties(p) \/ Fills(p)
  PROVE  Claimed'
<1>1. CASE Leaves(p) \/ Logs(p) \/ Posts(p)
  <2>1. /\ UNCHANGED file /\ pc'[p] \notin {"lookup", "truncate", "write", "parse"}
        /\ pc'[p] = "find" => Source[work'[p].event] = p
    BY <1>1 DEF Leaves, Logs, Posts, Outside
  <2>2. FromSource(p)'
    BY <2>1 DEF FromSource
  <2>3. \A r \in Requests, e \in Events : Readable(r)' /\ file'[r].event = e => Claims(r, e)
    BY <2>1 DEF Claims, Readable
  <2> QED
    BY <2>1, <2>2, <2>3, NoNewClaims
<1>2. ASSUME NEW new, file' = [file EXCEPT ![work[p].req] = new], new # Absent,
             pc[p] \in {"truncate", "write"}, pc'[p] \in {"write", "audit"}, work'[p] = work[p],
             new = Torn \/ (new = work[p].draft /\ pc[p] = "write")
      PROVE  Claimed'
  <2>1. work[p].req \in Requests
    BY <1>2 DEF Control, ControlOf, Drafted, Saving
  <2>2. \A r \in Requests : file'[r] = IF r = work[p].req THEN new ELSE file[r]
    BY <1>2, <2>1 DEF TypeOK
  <2>3. FromSource(p)'
    BY <1>2, <2>1, <2>2 DEF FromSource
  <2>4. \A r \in Requests, e \in Events : Readable(r)' /\ file'[r].event = e => Claims(r, e)
    BY <1>2, <2>2 DEF Claims, Readable
  <2>5. \A r \in Requests, e \in Events :
           pc'[p] \in {"lookup", "truncate", "write"} /\ work'[p].req = r
             /\ work'[p].draft.event = e => Claims(r, e)
    BY <1>2 DEF Claims
  <2> QED
    BY <1>2, <2>2, <2>3, <2>4, <2>5, NoNewClaims
<1>3. CASE Empties(p)
  BY <1>2, <1>3, ConstantsAssumption DEF Empties
<1>4. CASE Fills(p)
  <2>1. work[p].draft # Absent
    BY <1>4, ConstantsAssumption DEF Fills, Control, ControlOf, Drafted, Saving
  <2> QED
    BY <1>2, <1>4, <2>1 DEF Fills
<1> QED
  BY <1>1, <1>3, <1>4

LEMMA HeldClaimed ==
  ASSUME TypeOK, Control, Claimed, NEW p \in Procs, Others(p), Loads(p) \/ Answers(p) \/ Chooses(p)
  PROVE  Claimed'
<1> DEFINE r == work[p].req
           e == work'[p].draft.event
<1>1. /\ UNCHANGED file /\ work'[p].req = r /\ pc'[p] \in {"lookup", "truncate"}
  BY DEF Loads, Answers, Chooses, Saves
<1>2. Claims(r, e) /\ (file[r] = Absent => Source[e] = p)
  <2>1. CASE Loads(p)
    BY <2>1 DEF Loads, Claims, Readable
  <2>2. CASE Answers(p)
    BY <2>2 DEF Answers, Claims, Claimed, FromSource
  <2>3. CASE Chooses(p)
    <3>1. Readable(r) /\ file[r] \in Record /\ e = file[r].event
      BY <2>3 DEF Chooses, Record
    <3> QED
      BY <3>1 DEF Claims, Readable
  <2> QED
    BY <2>1, <2>2, <2>3
<1> HIDE DEF r
<1>3. FromSource(p)'
  BY <1>1, <1>2 DEF FromSource
<1>4. \A x \in Requests, f \in Events : Readable(x)' /\ file'[x].event = f => Claims(x, f)
  BY <1>1 DEF Claims, Readable
<1> QED
  BY <1>1, <1>2, <1>3, <1>4, NoNewClaims

LEMMA NextClaimed ==
  Typed /\ Sourced /\ Claimed /\ [Next]_vars => Sourced' /\ Claimed'
<1> SUFFICES ASSUME Typed, Sourced, Claimed, [Next]_vars PROVE Sourced' /\ Claimed'
  OBVIOUS
<1>1. TypeOK /\ Control
  BY DEF Typed
<1>2. ASSUME NEW p \in Procs, StepOf(p) PROVE Claimed'
  BY <1>1, <1>2, SearchedClaimed, OpensClaimed, FilesClaimed, HeldClaimed DEF StepOf
<1>3. Quiet => Claimed'
  BY DEF Quiet, Claimed, FromSource, Claims, Readable
<1>4. (\E p \in Procs : StepOf(p)) \/ Quiet
  BY <1>1, NextIsStep
<1>5. Sourced'
  BY InboxSourced
<1> QED
  BY <1>2, <1>3, <1>4, <1>5

\* However often a DM is delivered and whatever interrupts its handling, there
\* is one record for it at most: submit_slack_request compares every stored
\* record before it draws an id, and an event is submitted by one process.
THEOREM RecordIsSafe == Spec => []OneRecordPerEvent
<1>1. Typed /\ Claimed => OneRecordPerEvent
  <2> SUFFICES ASSUME Typed, Claimed, NEW q \in Requests, NEW r \in Requests,
                      Readable(q), Readable(r), file[q].event = file[r].event
               PROVE  q = r
    BY DEF OneRecordPerEvent
  <2>1. file[q].event \in Events
    BY DEF Typed, TypeOK, Readable, Record
  <2> QED
    BY <2>1 DEF Claimed, Claims
<1>2. Typed /\ Sourced /\ Claimed /\ [Next]_vars => Sourced' /\ Claimed'
  BY NextClaimed
<1> QED
  BY <1>1, <1>2, InitClaimed, AlwaysTyped, PTL DEF Spec

-----------------------------------------------------------------------------
(***************************************************************************)
(* One verdict, and no message twice: once a request is past its lookup it *)
(* is never prepared again, and once it has ended nothing more is decided. *)
(***************************************************************************)
VerdictSteps == Decisions \cup {"lookup_failed"}
VerdictsOf(r) == {m \in posted[r] : m.kind \in Verdicts}

Past(r) ==
  /\ file[r] # Absent
  /\ Readable(r) => file[r].status # "executing"
  /\ \A p \in Procs : ~Prepares(p, r)

Ended(r) == Past(r) /\ (Readable(r) => file[r].status \in Terminal)

PostedOf(r) ==
  /\ file[r] = Absent => posted[r] = {}
  /\ VerdictsOf(r) # {} => Ended(r)
  /\ "owner_dm_approval" \in PostedKinds(r) => Past(r)
  /\ \A m, n \in VerdictsOf(r) : m = n

SaidOf(p) ==
  LET r == work[p].req  s == work[p].step IN
  /\ pc[p] \in {"audit", "post"} => file[r] # Absent
  /\ pc[p] \in {"audit", "post"} /\ s \in VerdictSteps => Ended(r)
  /\ pc[p] \in {"audit", "post"} /\ s = "answered" => Past(r)
  /\ p = Slack /\ pc[p] \in Saving \cup {"post"} =>
       /\ s = "submit" => posted[r] = {}
       /\ s = "answered" => "owner_dm_approval" \notin PostedKinds(r)
       /\ s \in VerdictSteps => VerdictsOf(r) = {}

Once == (\A r \in Requests : PostedOf(r)) /\ (\A p \in Procs : SaidOf(p))

LEMMA InitOnce == Init => Once
<1> SUFFICES ASSUME Init PROVE Once
  OBVIOUS
<1>1. \A r \in Requests : posted[r] = {}
  BY DEF Init
<1>2. \A p \in Procs : pc[p] = "idle"
  BY DEF Init
<1> QED
  BY <1>1, <1>2 DEF Once, PostedOf, SaidOf, VerdictsOf, PostedKinds, Saving

LEMMA StepTables ==
  /\ \A s \in VerdictSteps : MessageAfter[s] \in Verdicts /\ MessageAfter[s] # "owner_dm_approval"
  /\ MessageAfter["submit"] = "requester_dm_ack" /\ MessageAfter["answered"] = "owner_dm_approval"
  /\ "requester_dm_ack" \notin Verdicts /\ "owner_dm_approval" \notin Verdicts
  /\ \A s \in VerdictSteps : StatusAfter[s] \in Terminal
  /\ StatusAfter["answered"] # "executing" /\ "executing" \notin Terminal
  /\ \A d \in Decisions : StatusFor[d] \notin Terminal /\ d \notin {"submit", "answered", "lookup_failed"}
  /\ Steps = VerdictSteps \cup {"submit", "answered"}
BY DEF VerdictSteps, Decisions, MessageAfter, Verdicts, StatusAfter, StatusFor, Terminal, Steps

\* What p holds while it saves.
LEMMA SavedIs ==
  ASSUME Typed, NEW p \in Procs, pc[p] \in Saving \cup {"post"}
  PROVE  /\ work[p].req \in Requests /\ work[p].step \in Steps /\ work[p].draft \in Record
         /\ work[p].draft.status = StatusAfter[work[p].step]
         /\ work[p].draft \notin {Absent, Torn}
BY ConstantsAssumption DEF Typed, Control, ControlOf, Drafted

LEMMA FilesMove ==
  ASSUME Typed, NEW p \in Procs, StepOf(p), NEW r \in Requests
  PROVE  /\ file'[r] = Absent => file[r] = Absent
         /\ \/ file'[r] = file[r]
            \/ file'[r] = Torn
            \/ Fills(p) /\ work[p].req = r /\ file'[r] = work[p].draft
<1>1. CASE UNCHANGED file
  BY <1>1
<1>2. CASE Empties(p)
  <2>1. work[p].req \in Requests
    BY <1>2, SavedIs DEF Empties, Saving
  <2> QED
    BY <1>2, <2>1, ConstantsAssumption DEF Empties, Typed, TypeOK
<1>3. CASE Fills(p)
  <2>1. work[p].req \in Requests /\ work[p].draft \notin {Absent, Torn}
    BY <1>3, SavedIs DEF Fills, Saving
  <2> QED
    BY <1>3, <2>1 DEF Fills, Typed, TypeOK
<1> QED
  BY <1>1, <1>2, <1>3 DEF StepOf, Leaves, Searched, Opens, Loads, Answers, Chooses, Saves, Logs, Posts

LEMMA NobodyPrepares ==
  ASSUME Typed, NEW p \in Procs, StepOf(p), NEW r \in Requests, Past(r), NEW q \in Procs
  PROVE  ~Prepares(q, r)'
<1>1. CASE q # p
  <2>1. pc'[q] = pc[q] /\ work'[q] = work[q]
    BY <1>1 DEF StepOf, Others
  <2> QED
    BY <2>1 DEF Past, Prepares
<1>2. CASE q = p
  <2>1. CASE Leaves(p) \/ Searched(p)
    BY <1>2, <2>1 DEF Leaves, Searched, Outside, Prepares
  <2>2. CASE Opens(p) \/ Loads(p)
    BY <1>2, <2>2 DEF Opens, Saves, Loads, Past, Prepares
  <2>3. CASE Answers(p)
    BY <1>2, <2>3 DEF Answers, Past, Prepares
  <2>4. CASE Chooses(p)
    BY <1>2, <2>4 DEF Chooses, Saves, Decisions, Prepares
  <2>5. CASE Empties(p) \/ Fills(p) \/ Logs(p)
    BY <1>2, <2>5 DEF Empties, Fills, Logs, Past, Prepares
  <2>6. CASE Posts(p)
    BY <1>2, <2>6 DEF Posts, Past, Prepares
  <2> QED
    BY <2>1, <2>2, <2>3, <2>4, <2>5, <2>6 DEF StepOf
<1> QED
  BY <1>1, <1>2

LEMMA EndedStays ==
  ASSUME Typed, NEW p \in Procs, StepOf(p), NEW r \in Requests
  PROVE  (Past(r) => Past(r)') /\ (Ended(r) => Ended(r)')
<1> SUFFICES ASSUME Past(r)
             PROVE  /\ file'[r] # Absent
                    /\ Readable(r)' => file'[r].status # "executing"
                    /\ Ended(r) => (Readable(r)' => file'[r].status \in Terminal)
  BY NobodyPrepares DEF Past, Ended
<1>1. CASE file'[r] = file[r] \/ file'[r] = Torn
  BY <1>1, ConstantsAssumption DEF Past, Ended, Readable
<1>2. CASE Fills(p) /\ work[p].req = r /\ file'[r] = work[p].draft
  <2>1. /\ work[p].step \in Steps /\ work[p].draft.status = StatusAfter[work[p].step]
        /\ work[p].draft # Absent
    BY <1>2, SavedIs DEF Fills, Saving
  <2>2. work[p].step \notin {"submit", "answered", "lookup_failed"}
    BY <1>2 DEF Fills, Past, Prepares
  <2>3. work[p].draft.status \in Terminal
    BY <2>1, <2>2, StepTables
  <2> QED
    BY <1>2, <2>1, <2>3, StepTables
<1> QED
  BY <1>1, <1>2, FilesMove

\* A step that posts nothing keeps what is said of the posted messages.
LEMMA PostedStays ==
  ASSUME Typed, Once, NEW p \in Procs, StepOf(p), UNCHANGED posted, NEW r \in Requests
  PROVE  PostedOf(r)'
<1>1. PostedOf(r) /\ VerdictsOf(r)' = VerdictsOf(r) /\ PostedKinds(r)' = PostedKinds(r)
  BY DEF Once, VerdictsOf, PostedKinds
<1>2. /\ file'[r] = Absent => file[r] = Absent
      /\ (Past(r) => Past(r)') /\ (Ended(r) => Ended(r)')
  BY FilesMove, EndedStays
<1> QED
  BY <1>1, <1>2 DEF PostedOf

LEMMA OthersSaid ==
  ASSUME Typed, Once, NEW p \in Procs, StepOf(p), NEW q \in Procs, q # p
  PROVE  SaidOf(q)'
<1>1. pc'[q] = pc[q] /\ work'[q] = work[q] /\ SaidOf(q)
  BY DEF StepOf, Others, Once
<1>2. q = Slack => UNCHANGED posted
  BY DEF StepOf, Leaves, Searched, Opens, Loads, Answers, Chooses, Saves, Empties, Fills, Logs, Posts
<1>3. CASE pc[q] \in Saving \cup {"post"}
  <2>1. PICK r \in Requests : r = work[q].req
    BY <1>3, SavedIs
  <2>2. /\ (Past(r) => Past(r)') /\ (Ended(r) => Ended(r)')
        /\ file'[r] = Absent => file[r] = Absent
    BY EndedStays, FilesMove
  <2>3. q = Slack => PostedKinds(r)' = PostedKinds(r) /\ VerdictsOf(r)' = VerdictsOf(r)
    BY <1>2 DEF PostedKinds, VerdictsOf
  <2> QED
    BY <1>1, <1>2, <2>1, <2>2, <2>3 DEF SaidOf
<1>4. CASE pc[q] \notin Saving \cup {"post"}
  BY <1>1, <1>4 DEF SaidOf, Saving
<1> QED
  BY <1>3, <1>4

\* The steps at which p comes to save something.
LEMMA SavesSaid ==
  ASSUME Typed, Once, NEW p \in Procs, StepOf(p), Opens(p) \/ Answers(p) \/ Chooses(p)
  PROVE  SaidOf(p)'
<1>0. PICK r \in Requests : r = work'[p].req
  BY DEF Opens, Answers, Chooses, Saves
<1> DEFINE s == work'[p].step
<1>1. pc'[p] = "truncate" /\ UNCHANGED posted
  BY DEF Opens, Answers, Chooses, Saves
<1>2. PostedKinds(r)' = PostedKinds(r) /\ VerdictsOf(r)' = VerdictsOf(r)
  BY <1>1 DEF PostedKinds, VerdictsOf
<1>3. PostedOf(r)
  BY <1>1 DEF Once
<1>4. CASE Opens(p)
  <2>1. s = "submit" /\ posted[r] = {}
    BY <1>0, <1>3, <1>4 DEF Opens, PostedOf
  <2> QED
    BY <1>0, <1>1, <2>1 DEF SaidOf, VerdictSteps, Decisions
<1>5. CASE Answers(p)
  <2>1. s \in {"answered", "lookup_failed"} /\ Prepares(p, r)
    BY <1>0, <1>5 DEF Answers, Prepares
  <2>2. ~Past(r) /\ ~Ended(r)
    BY <2>1 DEF Past, Ended
  <2>3. VerdictsOf(r) = {} /\ "owner_dm_approval" \notin PostedKinds(r)
    BY <1>3, <2>2 DEF PostedOf
  <2> QED
    BY <1>0, <1>1, <1>2, <2>1, <2>3 DEF SaidOf
<1>6. CASE Chooses(p)
  <2>1. s \in Decisions /\ Readable(r) /\ file[r].status = StatusFor[s]
    BY <1>0, <1>6 DEF Chooses
  <2>2. ~Ended(r) /\ s \notin {"submit", "answered"}
    BY <2>1, StepTables DEF Ended
  <2>3. VerdictsOf(r) = {}
    BY <1>3, <2>2 DEF PostedOf
  <2> QED
    BY <1>0, <1>1, <1>2, <2>2, <2>3 DEF SaidOf
<1> QED
  BY <1>4, <1>5, <1>6

\* A record that was saved is past what led to it.
LEMMA FillsSaid ==
  ASSUME Typed, Settled, Once, NEW p \in Procs, StepOf(p), Fills(p)
  PROVE  SaidOf(p)'
<1>0. PICK r \in Requests : r = work[p].req
  BY SavedIs DEF Fills, Saving
<1> DEFINE s == work[p].step
<1>1. /\ s \in Steps /\ work[p].draft.status = StatusAfter[s]
      /\ work[p].draft \notin {Absent, Torn}
      /\ pc[p] = "write" /\ pc'[p] = "audit" /\ work'[p] = work[p] /\ UNCHANGED posted
  BY SavedIs DEF Fills, Saving
<1>2. file'[r] = work[p].draft
  BY <1>0, <1>1 DEF Fills, Typed, TypeOK
<1>3. ASSUME s # "submit" PROVE Past(r)' /\ (s \in VerdictSteps => Ended(r)')
  <2>1. StatusAfter[s] # "executing" /\ (s \in VerdictSteps => StatusAfter[s] \in Terminal)
    BY <1>1, <1>3, StepTables
  <2>2. \A q \in Procs : Prepares(q, r) => q = p
    <3>1. CASE s \in Decisions
      <4>1. Decides(p, r)
        BY <1>0, <1>1, <3>1 DEF Decides, Saving
      <4> QED
        BY <1>1, <4>1 DEF Settled, PreparerAlone
    <3>2. CASE s \notin Decisions
      <4>1. Prepares(p, r)
        BY <1>0, <1>1, <3>2 DEF Prepares, Steps
      <4> QED
        BY <1>1, <4>1 DEF Settled, PreparerAlone
    <3> QED
      BY <3>1, <3>2
  <2>3. ASSUME NEW q \in Procs PROVE ~Prepares(q, r)'
    <3>2. CASE q = p
      BY <1>1, <1>3, <3>2 DEF Prepares
    <3>3. CASE q # p
      <4>1. pc'[q] = pc[q] /\ work'[q] = work[q] /\ ~Prepares(q, r)
        BY <2>2, <3>3 DEF StepOf, Others
      <4> QED
        BY <4>1 DEF Prepares
    <3> QED
      BY <3>2, <3>3
  <2> QED
    BY <1>1, <1>2, <2>1, <2>3 DEF Past, Ended
<1>4. SaidOf(p)
  BY DEF Once
<1>5. PostedKinds(r)' = PostedKinds(r) /\ VerdictsOf(r)' = VerdictsOf(r)
  BY <1>1 DEF PostedKinds, VerdictsOf
<1>6. s \in VerdictSteps \cup {"answered"} => s # "submit"
  BY DEF VerdictSteps, Decisions
<1> QED
  BY <1>0, <1>1, <1>2, <1>3, <1>4, <1>5, <1>6 DEF SaidOf, Saving

LEMMA SelfSaid ==
  ASSUME Typed, Settled, Once, NEW p \in Procs, StepOf(p)
  PROVE  SaidOf(p)'
<1>1. CASE Leaves(p) \/ Searched(p) \/ Loads(p) \/ Posts(p)
  BY <1>1 DEF Leaves, Searched, Loads, Posts, Outside, SaidOf, Saving
<1>2. CASE Empties(p)
  <2>1. /\ pc'[p] = "write" /\ pc[p] = "truncate" /\ work'[p] = work[p] /\ UNCHANGED posted
        /\ SaidOf(p)
    BY <1>2 DEF Empties, Once
  <2>2. \A r : PostedKinds(r)' = PostedKinds(r) /\ VerdictsOf(r)' = VerdictsOf(r)
    BY <2>1 DEF PostedKinds, VerdictsOf
  <2> QED
    BY <2>1, <2>2 DEF SaidOf, Saving
<1>3. CASE Logs(p)
  <2>1. CASE pc'[p] = "idle"
    BY <2>1 DEF SaidOf, Saving
  <2>2. CASE pc'[p] # "idle"
    <3>1. /\ pc'[p] = "post" /\ pc[p] = "audit" /\ work'[p] = work[p] /\ UNCHANGED posted
          /\ SaidOf(p) /\ work[p].req \in Requests
      BY <1>3, <2>2, SavedIs DEF Logs, Once, Saving
    <3>2. \A r \in Requests : PostedKinds(r)' = PostedKinds(r) /\ VerdictsOf(r)' = VerdictsOf(r)
      BY <3>1 DEF PostedKinds, VerdictsOf
    <3>3. \A r \in Requests : (Past(r) => Past(r)') /\ (Ended(r) => Ended(r)')
      BY EndedStays
    <3> QED
      BY <1>3, <3>1, <3>2, <3>3 DEF SaidOf, Saving, Logs
  <2> QED
    BY <2>1, <2>2
<1> QED
  BY <1>1, <1>2, <1>3, SavesSaid, FillsSaid DEF StepOf

LEMMA PostsOnce ==
  ASSUME Typed, Once, Posts(Slack), StepOf(Slack), NEW x \in Requests
  PROVE  PostedOf(x)'
<1> DEFINE r == work[Slack].req
           s == work[Slack].step
           m == OutgoingMessage
<1>1. Slack \in Procs /\ pc[Slack] = "post"
  BY DEF Procs, Posts
<1>2. /\ r \in Requests /\ s \in Steps /\ SaidOf(Slack) /\ m.kind = MessageAfter[s]
      /\ posted' = [posted EXCEPT ![r] = @ \cup {m}] /\ UNCHANGED file
  BY <1>1, SavedIs DEF Posts, Once, OutgoingMessage
<1>3. (Past(x) => Past(x)') /\ (Ended(x) => Ended(x)') /\ PostedOf(x)
  BY <1>1, EndedStays DEF Once
<1> HIDE DEF r, s, m
<1>4. CASE x # r
  <2>1. posted'[x] = posted[x]
    BY <1>2, <1>4 DEF Typed, TypeOK
  <2>2. PostedKinds(x)' = PostedKinds(x) /\ VerdictsOf(x)' = VerdictsOf(x)
    BY <2>1 DEF PostedKinds, VerdictsOf
  <2> QED
    BY <1>2, <1>3, <2>1, <2>2 DEF PostedOf
<1>5. CASE x = r
  <2>1. posted'[x] = posted[x] \cup {m}
    BY <1>2, <1>5 DEF Typed, TypeOK
  <2>2. /\ PostedKinds(x)' = PostedKinds(x) \cup {m.kind}
        /\ VerdictsOf(x)' = VerdictsOf(x) \cup (IF m.kind \in Verdicts THEN {m} ELSE {})
    BY <2>1 DEF PostedKinds, VerdictsOf
  <2>3. /\ s \in VerdictSteps => Ended(x) /\ VerdictsOf(x) = {}
        /\ s = "answered" => Past(x)
    BY <1>1, <1>2, <1>5 DEF SaidOf, r, s
  <2>4. /\ m.kind \in Verdicts => s \in VerdictSteps
        /\ m.kind = "owner_dm_approval" => s = "answered"
    BY <1>2, StepTables
  <2>5. file[x] # Absent
    BY <1>1, <1>2, <1>5 DEF SaidOf, r
  <2> QED
    BY <1>2, <1>3, <2>2, <2>3, <2>4, <2>5 DEF PostedOf
<1> QED
  BY <1>4, <1>5

LEMMA NextOnce ==
  Typed /\ Settled /\ Sourced /\ Once /\ [Next]_vars => Once'
<1> SUFFICES ASSUME Typed, Settled, Sourced, Once, [Next]_vars PROVE Once'
  OBVIOUS
<1>1. ASSUME NEW p \in Procs, StepOf(p) PROVE Once'
  <2>1. \A q \in Procs : SaidOf(q)'
    BY <1>1, SelfSaid, OthersSaid
  <2>2. CASE UNCHANGED posted
    BY <1>1, <2>1, <2>2, PostedStays DEF Once
  <2>3. CASE Posts(p)
    <3>1. p = Slack
      BY <2>3 DEF Posts
    <3> QED
      BY <1>1, <2>1, <2>3, <3>1, PostsOnce DEF Once
  <2> QED
    BY <1>1, <2>2, <2>3
    DEF StepOf, Leaves, Searched, Opens, Loads, Answers, Chooses, Saves, Empties, Fills, Logs
<1>2. CASE Quiet
  <2>1. \A r \in Requests : /\ VerdictsOf(r)' = VerdictsOf(r) /\ PostedKinds(r)' = PostedKinds(r)
                            /\ Past(r)' = Past(r) /\ Ended(r)' = Ended(r)
    BY <1>2 DEF Quiet, VerdictsOf, PostedKinds, Past, Ended, Readable, Prepares
  <2>2. ASSUME NEW r \in Requests PROVE PostedOf(r)'
    BY <1>2, <2>1 DEF Once, PostedOf, Quiet
  <2>3. ASSUME NEW p \in Procs PROVE SaidOf(p)'
    <3>1. pc[p] \in Saving \cup {"post"} => work[p].req \in Requests
      BY SavedIs
    <3> QED
      BY <1>2, <2>1, <3>1 DEF Once, SaidOf, Quiet, Saving
  <2> QED
    BY <2>2, <2>3 DEF Once
<1> QED
  BY <1>1, <1>2, NextIsStep DEF Typed

LEMMA AlwaysOnce == Spec => [](Typed /\ Settled /\ Sourced /\ Once)
<1>1. Init => Sourced
  BY DEF Init, Sourced
<1>2. Sourced /\ [Next]_vars => Sourced'
  BY InboxSourced
<1> QED
  BY <1>1, <1>2, InitOnce, NextOnce, InitSettled, NextSettled, AlwaysTyped, PTL DEF Spec

\* The requester is told one outcome at most, for any number of processes.  The
\* runner posts an outcome only after it saved one, after which the request has
\* ended; and while it is about to, none was posted, as none comes before.
THEOREM VerdictIsSafe == Spec => []OneVerdict
<1>1. Once => OneVerdict
  <2> SUFFICES ASSUME Once, NEW r \in Requests PROVE Cardinality(VerdictsOf(r)) <= 1
    BY DEF OneVerdict, VerdictsOf
  <2>1. \A m, n \in VerdictsOf(r) : m = n
    BY DEF Once, PostedOf
  <2>2. CASE VerdictsOf(r) = {}
    BY <2>2, FS_EmptySet
  <2>3. CASE VerdictsOf(r) # {}
    <3>1. PICK m : VerdictsOf(r) = {m}
      BY <2>1, <2>3
    <3> QED
      BY <3>1, FS_Singleton
  <2> QED
    BY <2>2, <2>3
<1> QED
  BY <1>1, AlwaysOnce, PTL

\* Nothing the runner is about to post was posted before.
THEOREM MessageIsSafe == Spec => []NoRepeatedMessage
<1>1. Typed /\ Once => NoRepeatedMessage
  <2> SUFFICES ASSUME Typed, Once, pc[Slack] = "post", OutgoingMessage \in posted[work[Slack].req]
               PROVE  FALSE
    BY DEF NoRepeatedMessage
  <2> DEFINE r == work[Slack].req
             s == work[Slack].step
  <2>1. Slack \in Procs /\ r \in Requests /\ s \in Steps
    BY SavedIs DEF Procs
  <2>2. OutgoingMessage.kind = MessageAfter[s] /\ OutgoingMessage.kind \in PostedKinds(r)
    BY DEF OutgoingMessage, PostedKinds
  <2>3. s \in VerdictSteps => OutgoingMessage \in VerdictsOf(r)
    BY <2>2, StepTables DEF VerdictsOf
  <2>4. /\ s = "submit" => posted[r] = {}
        /\ s = "answered" => "owner_dm_approval" \notin PostedKinds(r)
        /\ s \in VerdictSteps => VerdictsOf(r) = {}
    BY <2>1 DEF Once, SaidOf
  <2> QED
    BY <2>1, <2>2, <2>3, <2>4, StepTables
<1> QED
  BY <1>1, AlwaysOnce, PTL

-----------------------------------------------------------------------------
(***************************************************************************)
(* The runner alone.  Without commands nothing changes a file between the  *)
(* check of an operation and its save, so the runner saves over the record *)
(* it checked, and the log follows the records.                            *)
(***************************************************************************)

\* The status a record has when it is saved by this step.
Origin(step) ==
  CASE step \in {"answered", "lookup_failed"} -> "executing"
    [] step \in Decisions -> StatusFor[step]
    [] OTHER -> "none"

\* The record that a save of the runner replaces.
Replaced(r, step, rec) ==
  IF step = "submit" THEN file[r] = Absent /\ rec.result = NoResult
  ELSE /\ Readable(r) /\ file[r].status = Origin(step)
       /\ step # "answered" => file[r].result = rec.result

HeldByRunner ==
  LET w == work[Slack] IN
  /\ pc[Slack] = "truncate" => Replaced(w.req, w.step, w.draft)
  /\ pc[Slack] = "write" => file[w.req] = Torn
  /\ pc[Slack] \in {"lookup", "audit", "post"} => file[w.req] = w.draft
  /\ pc[Slack] \in Saving \cup {"post"} =>
       (w.step \in {"publish", "cancel"} <=> w.req \in DOMAIN Legacy)

ImportsApart ==
  \A r \in Requests :
    /\ r \in DOMAIN Legacy => file[r] # Absent
    /\ Readable(r) => IF r \in DOMAIN Legacy
                      THEN file[r].status \in {"owner_review_pending", "published", "failed"}
                      ELSE file[r].status # "owner_review_pending"

Holding == HeldByRunner /\ ImportsApart

Told(r, trail) == audit[r] \subseteq trail /\ (audit[r] = trail \/ Faulty)

LoggedFor(r) ==
  /\ file[r] = Absent => audit[r] = {}
  /\ Readable(r) /\ ~(pc[Slack] = "audit" /\ work[Slack].req = r) =>
       \A trail \in Trail(r, file[r].status) : Told(r, trail)

LoggedBefore ==
  LET w == work[Slack] IN
  pc[Slack] \in Saving =>
    IF w.step = "submit" THEN audit[w.req] = {}
    ELSE \A trail \in Trail(w.req, Origin(w.step)) : Told(w.req, trail)

Logged == (\A r \in Requests : LoggedFor(r)) /\ LoggedBefore

LEMMA OriginTables ==
  /\ \A d \in Decisions : Origin(d) = StatusFor[d] /\ d \in Steps /\ d # "submit"
  /\ Origin("answered") = "executing" /\ Origin("lookup_failed") = "executing"
  /\ \A s \in {"publish", "cancel"} :
       Origin(s) = "owner_review_pending" /\ StatusAfter[s] \in {"published", "failed"}
  /\ \A s \in {"approve", "reject"} : Origin(s) = "pending_owner_approval"
  /\ \A s \in Steps : StatusAfter[s] # "owner_review_pending"
  /\ Steps = {"submit", "answered", "lookup_failed", "approve", "reject", "publish", "cancel"}
  /\ Decisions = {"approve", "reject", "publish", "cancel"}
BY DEF Origin, Decisions, StatusFor, StatusAfter, Steps

LEMMA InitHolding == Init => Holding /\ Logged
<1> SUFFICES ASSUME Init PROVE Holding /\ Logged
  OBVIOUS
<1>1. pc[Slack] = "idle"
  BY DEF Init, Procs
<1>2. ASSUME NEW r \in Requests
      PROVE  /\ audit[r] = {}
             /\ r \in DOMAIN Legacy =>
                  Readable(r) /\ file[r] # Absent /\ file[r].status = "owner_review_pending"
             /\ r \notin DOMAIN Legacy => file[r] = Absent
  BY LegacyAssumption, ConstantsAssumption DEF Init, Readable
<1>3. Holding
  BY <1>1, <1>2 DEF Holding, HeldByRunner, ImportsApart, Saving, Readable
<1>4. ASSUME NEW r \in Requests, Readable(r), NEW trail \in Trail(r, file[r].status)
      PROVE  Told(r, trail)
  <2>1. r \in DOMAIN Legacy /\ file[r].status = "owner_review_pending" /\ audit[r] = {}
    BY <1>2, <1>4 DEF Readable
  <2>2. trail = {}
    BY <1>4, <2>1 DEF Trail
  <2> QED
    BY <2>1, <2>2 DEF Told
<1> QED
  BY <1>1, <1>2, <1>3, <1>4 DEF Logged, LoggedFor, LoggedBefore, Saving

\* What the runner is about to save, for the steps that lead there.
LEMMA HeldStarts ==
  ASSUME Typed, Settled, Holding, Opens(Slack) \/ Answers(Slack) \/ Chooses(Slack)
  PROVE  /\ work'[Slack].req \in Requests
         /\ Replaced(work'[Slack].req, work'[Slack].step, work'[Slack].draft)
         /\ work'[Slack].step \in {"publish", "cancel"} <=> work'[Slack].req \in DOMAIN Legacy
<1>0. Slack \in Procs
  BY DEF Procs
<1> DEFINE r == work'[Slack].req
           s == work'[Slack].step
<1>1. CASE Opens(Slack)
  BY <1>1 DEF Opens, Saves, Replaced, Holding, ImportsApart
<1>2. CASE Answers(Slack)
  <2>1. /\ r \in Requests /\ file[r] = work[Slack].draft /\ Readable(r)
        /\ s \in {"answered", "lookup_failed"}
    BY <1>2, ConstantsAssumption DEF Answers, Saves, Holding, HeldByRunner, Readable
  <2>2. file[r].status = "executing"
    <3>1. Prepares(Slack, r)
      BY <1>2 DEF Answers, Prepares
    <3> QED
      BY <1>0, <2>1, <3>1 DEF Settled, PreparerAlone
  <2>3. r \notin DOMAIN Legacy
    BY <2>1, <2>2 DEF Holding, ImportsApart
  <2>4. s # "answered" => file[r].result = work'[Slack].draft.result
    BY <1>2, <2>1 DEF Answers
  <2> QED
    BY <2>1, <2>2, <2>3, <2>4, OriginTables DEF Replaced
<1>3. CASE Chooses(Slack)
  <2>1. /\ r \in Requests /\ s \in Decisions /\ Readable(r) /\ file[r] \in Record
        /\ file[r].status = StatusFor[s]
        /\ work'[Slack].draft = [file[r] EXCEPT !.status = StatusAfter[s]]
    BY <1>3 DEF Chooses, Saves
  <2>2. work'[Slack].draft.result = file[r].result
    BY <2>1 DEF Record
  <2>3. r \in DOMAIN Legacy => file[r].status # "pending_owner_approval"
    BY <2>1 DEF Holding, ImportsApart
  <2>4. r \notin DOMAIN Legacy => file[r].status # "owner_review_pending"
    BY <2>1 DEF Holding, ImportsApart
  <2>5. Replaced(r, s, work'[Slack].draft)
    BY <2>1, <2>2, OriginTables DEF Replaced
  <2> QED
    BY <2>1, <2>3, <2>4, <2>5, OriginTables
<1> QED
  BY <1>1, <1>2, <1>3

LEMMA NextHeld ==
  ASSUME Typed, Settled, Holding, StepOf(Slack)
  PROVE  HeldByRunner'
<1>0. Slack \in Procs
  BY DEF Procs
<1>1. CASE Leaves(Slack) \/ Searched(Slack) \/ Posts(Slack)
  BY <1>1 DEF Leaves, Searched, Posts, Outside, HeldByRunner, Saving
<1>2. CASE Loads(Slack)
  BY <1>2 DEF Loads, HeldByRunner, Saving
<1>3. CASE Opens(Slack) \/ Answers(Slack) \/ Chooses(Slack)
  <2>1. pc'[Slack] = "truncate" /\ UNCHANGED file
    BY <1>3 DEF Opens, Answers, Chooses, Saves
  <2> QED
    BY <1>3, <2>1, HeldStarts DEF HeldByRunner, Replaced, Readable
<1>4. CASE Empties(Slack)
  <2>1. work[Slack].req \in Requests
    BY <1>0, <1>4, SavedIs DEF Empties, Saving
  <2> QED
    BY <1>4, <2>1 DEF Empties, Holding, HeldByRunner, Saving, Typed, TypeOK
<1>5. CASE Fills(Slack)
  <2>1. work[Slack].req \in Requests
    BY <1>0, <1>5, SavedIs DEF Fills, Saving
  <2> QED
    BY <1>5, <2>1 DEF Fills, Holding, HeldByRunner, Saving, Typed, TypeOK
<1>6. CASE Logs(Slack)
  BY <1>6 DEF Logs, Holding, HeldByRunner, Saving
<1> QED
  BY <1>1, <1>2, <1>3, <1>4, <1>5, <1>6 DEF StepOf

LEMMA NextImports ==
  ASSUME Typed, Holding, StepOf(Slack)
  PROVE  ImportsApart'
<1>0. Slack \in Procs
  BY DEF Procs
<1> SUFFICES ASSUME NEW r \in Requests
             PROVE  /\ r \in DOMAIN Legacy => file'[r] # Absent
                    /\ Readable(r)' =>
                         IF r \in DOMAIN Legacy
                         THEN file'[r].status \in {"owner_review_pending", "published", "failed"}
                         ELSE file'[r].status # "owner_review_pending"
  BY DEF ImportsApart
<1>1. CASE file'[r] = file[r]
  BY <1>0, <1>1 DEF Holding, ImportsApart, Readable
<1>2. CASE file'[r] = Torn
  BY <1>2, ConstantsAssumption DEF Readable
<1>3. CASE Fills(Slack) /\ work[Slack].req = r /\ file'[r] = work[Slack].draft
  <2> DEFINE s == work[Slack].step
  <2>1. /\ s \in Steps /\ work[Slack].draft.status = StatusAfter[s]
        /\ work[Slack].draft # Absent
    BY <1>0, <1>3, SavedIs DEF Fills, Saving
  <2>2. s \in {"publish", "cancel"} <=> r \in DOMAIN Legacy
    BY <1>3 DEF Fills, Saving, Holding, HeldByRunner
  <2> QED
    BY <1>3, <2>1, <2>2, OriginTables
<1> QED
  BY <1>0, <1>1, <1>2, <1>3, FilesMove

\* Each save lengthens the trail of its record by its audit event.
LEMMA TrailGrows ==
  ASSUME NEW r \in Requests, NEW s \in Steps \ {"submit"},
         s \in {"publish", "cancel"} <=> r \in DOMAIN Legacy
  PROVE  \E t : /\ Trail(r, Origin(s)) = {t}
                /\ Trail(r, StatusAfter[s]) = {t \cup {AuditAfter[s]}}
<1> DEFINE start == IF r \in DOMAIN Legacy THEN {} ELSE {"request_submitted"}
           asked == IF r \in DOMAIN Legacy THEN {}
                    ELSE {"request_submitted", "owner_approval_pending"}
<1>1. CASE s = "answered"
  <2>1. Origin(s) = "executing" /\ StatusAfter[s] = "pending_owner_approval"
        /\ AuditAfter[s] = "owner_approval_pending" /\ r \notin DOMAIN Legacy
    BY <1>1, OriginTables DEF StatusAfter, AuditAfter
  <2>2. Trail(r, "executing") = {start} /\ Trail(r, "pending_owner_approval") = {asked}
    BY DEF Trail
  <2>3. asked = start \cup {"owner_approval_pending"}
    BY <2>1
  <2> QED
    BY <2>1, <2>2, <2>3
<1>2. CASE s = "lookup_failed"
  <2>1. Origin(s) = "executing" /\ StatusAfter[s] = "failed"
        /\ AuditAfter[s] = "execution_failed" /\ r \notin DOMAIN Legacy
    BY <1>2, OriginTables DEF StatusAfter, AuditAfter
  <2>2. Trail(r, "executing") = {start} /\ Trail(r, "failed") = {start \cup {"execution_failed"}}
    BY <2>1 DEF Trail
  <2> QED
    BY <2>1, <2>2
<1>3. CASE s \in {"approve", "publish"}
  <2>1. /\ Origin(s) = IF s = "approve" THEN "pending_owner_approval" ELSE "owner_review_pending"
        /\ StatusAfter[s] = "published" /\ AuditAfter[s] = "published"
        /\ s = "publish" <=> r \in DOMAIN Legacy
    BY <1>3 DEF Origin, Decisions, StatusFor, StatusAfter, AuditAfter
  <2>2. /\ Trail(r, "pending_owner_approval") = {asked} /\ Trail(r, "owner_review_pending") = {{}}
        /\ Trail(r, "published") = {asked \cup {"published"}}
    BY DEF Trail
  <2>3. s = "publish" => asked = {}
    BY <2>1
  <2> QED
    BY <1>3, <2>1, <2>2, <2>3
<1>4. CASE s = "reject"
  <2>1. Origin(s) = "pending_owner_approval" /\ StatusAfter[s] = "owner_rejected"
        /\ AuditAfter[s] = "owner_rejected"
    BY <1>4 DEF Origin, Decisions, StatusFor, StatusAfter, AuditAfter
  <2>2. /\ Trail(r, "pending_owner_approval") = {asked}
        /\ Trail(r, "owner_rejected") = {asked \cup {"owner_rejected"}}
    BY DEF Trail
  <2> QED
    BY <2>1, <2>2
<1>5. CASE s = "cancel"
  <2>1. Origin(s) = "owner_review_pending" /\ StatusAfter[s] = "failed"
        /\ AuditAfter[s] = "owner_review_cancelled" /\ r \in DOMAIN Legacy
    BY <1>5 DEF Origin, Decisions, StatusFor, StatusAfter, AuditAfter
  <2>2. /\ Trail(r, "owner_review_pending") = {{}}
        /\ Trail(r, "failed") = {{} \cup {"owner_review_cancelled"}}
    BY <2>1 DEF Trail
  <2> QED
    BY <2>1, <2>2
<1> QED
  BY <1>1, <1>2, <1>3, <1>4, <1>5 DEF Steps, Decisions

LEMMA TrailExists ==
  ASSUME NEW r, NEW s \in Statuses
  PROVE  Trail(r, s) # {}
<1> Trail(r, "executing") # {}
  BY DEF Trail
<1> Trail(r, "pending_owner_approval") # {}
  BY DEF Trail
<1> Trail(r, "owner_review_pending") # {}
  BY DEF Trail
<1> Trail(r, "published") # {}
  BY DEF Trail
<1> Trail(r, "owner_rejected") # {}
  BY DEF Trail
<1> Trail(r, "failed") # {}
  BY DEF Trail
<1> QED
  BY DEF Statuses, Steps, Decisions, StatusAfter

LEMMA TrailStarts ==
  ASSUME NEW r \in Requests \ DOMAIN Legacy
  PROVE  Trail(r, StatusAfter["submit"]) = {{AuditAfter["submit"]}}
BY DEF Trail, StatusAfter, AuditAfter

\* What the trail of a record that is being saved is before and after.
LEMMA SavedTrail ==
  ASSUME Typed, Holding, Logged, pc[Slack] \in Saving,
         NEW trail \in Trail(work[Slack].req, work[Slack].draft.status)
  PROVE  /\ audit[work[Slack].req] \subseteq trail
         /\ trail \subseteq audit[work[Slack].req] \cup {AuditAfter[work[Slack].step]} \/ Faulty
         /\ AuditAfter[work[Slack].step] \in trail
<1> DEFINE r == work[Slack].req
           s == work[Slack].step
<1>1. /\ r \in Requests /\ s \in Steps /\ work[Slack].draft.status = StatusAfter[s]
      /\ s \in {"publish", "cancel"} <=> r \in DOMAIN Legacy
  BY SavedIs DEF Procs, Holding, HeldByRunner
<1>2. CASE s = "submit"
  <2>1. trail = {AuditAfter["submit"]}
    BY <1>1, <1>2, TrailStarts
  <2> QED
    BY <1>2, <2>1 DEF Logged, LoggedBefore
<1>3. CASE s # "submit"
  <2>1. PICK t : /\ Trail(r, Origin(s)) = {t}
                 /\ Trail(r, StatusAfter[s]) = {t \cup {AuditAfter[s]}}
    BY <1>1, <1>3, TrailGrows
  <2>2. trail = t \cup {AuditAfter[s]} /\ Told(r, t)
    BY <1>1, <1>3, <2>1 DEF Logged, LoggedBefore
  <2> QED
    BY <2>2 DEF Told
<1> QED
  BY <1>2, <1>3

LEMMA ToldStays ==
  ASSUME Faulty => Faulty', NEW r, audit'[r] = audit[r], NEW trail, Told(r, trail)
  PROVE  Told(r, trail)'
BY DEF Told

LEMMA NextLogged ==
  ASSUME Typed, Settled, Sourced, Holding, Logged, Holding', StepOf(Slack), Faulty => Faulty'
  PROVE  Logged'
<1> SUFFICES (\A r \in Requests : LoggedFor(r)') /\ LoggedBefore'
  BY DEF Logged
<1>0. Slack \in Procs
  BY DEF Procs
<1>1. ASSUME UNCHANGED <<file, audit>>, pc[Slack] # "audit" \/ pc'[Slack] = "audit",
             NEW r \in Requests,
             pc[Slack] = "audit" => work'[Slack].req = work[Slack].req
      PROVE  LoggedFor(r)'
  BY <1>1, ToldStays DEF Logged, LoggedFor, Readable
<1>2. CASE Leaves(Slack)
  <2>1. UNCHANGED <<file, audit>> /\ pc'[Slack] \notin Saving
    BY <1>2 DEF Leaves, Outside, Saving
  <2>2. ASSUME NEW r \in Requests, pc[Slack] = "audit" PROVE LoggedFor(r)'
    <3>1. Faulty' /\ pc[Slack] \in Saving
      BY <1>2, <2>2 DEF Leaves, Saving
    <3>2. CASE work[Slack].req = r
      <4>1. file[r] = work[Slack].draft
        BY <2>2, <3>2 DEF Holding, HeldByRunner
      <4>2. \A trail \in Trail(r, file[r].status) : audit[r] \subseteq trail
        BY <3>1, <3>2, <4>1, SavedTrail
      <4> QED
        BY <2>1, <3>1, <4>2 DEF Told, Logged, LoggedFor
    <3>3. CASE work[Slack].req # r
      BY <2>1, <3>1, <3>3, ToldStays DEF Logged, LoggedFor, Readable
    <3> QED
      BY <3>2, <3>3
  <2>3. \A r \in Requests : LoggedFor(r)'
    BY <1>1, <2>1, <2>2
  <2> QED
    BY <2>1, <2>3 DEF LoggedBefore
<1>3. CASE Searched(Slack) \/ Loads(Slack) \/ Posts(Slack)
  <2>1. /\ UNCHANGED <<file, audit>> /\ pc'[Slack] \notin Saving /\ pc[Slack] # "audit"
    BY <1>3 DEF Searched, Loads, Posts, Saving
  <2> QED
    BY <1>1, <2>1 DEF LoggedBefore
<1>4. CASE Opens(Slack) \/ Answers(Slack) \/ Chooses(Slack)
  <2>1. /\ UNCHANGED <<file, audit>> /\ pc[Slack] # "audit"
    BY <1>4 DEF Opens, Answers, Chooses, Saves
  <2>2. PICK r \in Requests : r = work'[Slack].req
    BY <1>4, HeldStarts
  <2>3. Replaced(r, work'[Slack].step, work'[Slack].draft)
    BY <1>4, <2>2, HeldStarts
  <2>4. CASE work'[Slack].step = "submit"
    BY <2>1, <2>2, <2>3, <2>4, <1>1 DEF Replaced, Logged, LoggedFor, LoggedBefore
  <2>5. CASE work'[Slack].step # "submit"
    <3>1. Readable(r) /\ file[r].status = Origin(work'[Slack].step)
      BY <2>3, <2>5 DEF Replaced
    <3>2. \A trail \in Trail(r, file[r].status) : Told(r, trail)'
      BY <2>1, <3>1, ToldStays DEF Logged, LoggedFor
    <3>3. \A x \in Requests : LoggedFor(x)'
      BY <1>1, <2>1
    <3> QED
      BY <2>2, <2>5, <3>1, <3>2, <3>3 DEF LoggedBefore
  <2> QED
    BY <2>4, <2>5
<1>5. ASSUME NEW new, file' = [file EXCEPT ![work[Slack].req] = new], UNCHANGED audit,
             new # Absent, pc[Slack] \in Saving, work'[Slack] = work[Slack],
             new = Torn \/ pc'[Slack] = "audit", pc[Slack] # "audit"
      PROVE  (\A r \in Requests : LoggedFor(r)') /\ LoggedBefore'
  <2>1. PICK r \in Requests : r = work[Slack].req
    BY <1>0, <1>5, SavedIs
  <2>2. ASSUME NEW x \in Requests PROVE file'[x] = IF x = r THEN new ELSE file[x]
    BY <1>5, <2>1 DEF Typed, TypeOK
  <2>3. ASSUME NEW x \in Requests PROVE LoggedFor(x)'
    <3>1. CASE x = r
      BY <1>5, <2>1, <2>2, <3>1 DEF LoggedFor, Readable
    <3>2. CASE x # r
      BY <1>5, <2>1, <2>2, <3>2, ToldStays DEF Logged, LoggedFor, Readable
    <3> QED
      BY <3>1, <3>2
  <2>4. IF work[Slack].step = "submit" THEN audit[r] = {}
        ELSE \A trail \in Trail(r, Origin(work[Slack].step)) : Told(r, trail)
    BY <1>5, <2>1 DEF Logged, LoggedBefore
  <2>5. LoggedBefore'
    BY <1>5, <2>1, <2>4, ToldStays DEF LoggedBefore
  <2> QED
    BY <2>3, <2>5
<1>6. CASE Empties(Slack)
  BY <1>5, <1>6, ConstantsAssumption DEF Empties, Saving
<1>7. CASE Fills(Slack)
  <2>1. work[Slack].draft # Absent
    BY <1>0, <1>7, SavedIs DEF Fills, Saving
  <2> QED
    BY <1>5, <1>7, <2>1 DEF Fills, Saving
<1>8. CASE Logs(Slack)
  <2>1. PICK r \in Requests : r = work[Slack].req
    BY <1>0, <1>8, SavedIs DEF Logs, Saving
  <2>2. /\ pc[Slack] = "audit" /\ pc'[Slack] = "post" /\ UNCHANGED file
        /\ \A x \in Requests : audit'[x] = IF x = r THEN audit[r] \cup {AuditAfter[work[Slack].step]}
                                           ELSE audit[x]
    BY <1>8, <2>1 DEF Logs, Typed, TypeOK
  <2>3. file[r] = work[Slack].draft /\ file[r] # Absent
    BY <1>0, <2>1, <2>2, SavedIs DEF Holding, HeldByRunner, Saving
  <2>4. ASSUME NEW trail \in Trail(r, file[r].status) PROVE Told(r, trail)'
    <3>1. /\ audit[r] \subseteq trail
          /\ trail \subseteq audit[r] \cup {AuditAfter[work[Slack].step]} \/ Faulty
          /\ AuditAfter[work[Slack].step] \in trail
      BY <2>1, <2>2, <2>3, <2>4, SavedTrail DEF Saving
    <3>2. audit'[r] = audit[r] \cup {AuditAfter[work[Slack].step]}
      BY <2>2
    <3> QED
      BY <3>1, <3>2 DEF Told
  <2>5. ASSUME NEW x \in Requests PROVE LoggedFor(x)'
    <3>1. CASE x = r
      BY <2>2, <2>3, <2>4, <3>1 DEF LoggedFor
    <3>2. CASE x # r
      BY <2>1, <2>2, <3>2, ToldStays DEF Logged, LoggedFor, Readable
    <3> QED
      BY <3>1, <3>2
  <2> QED
    BY <2>2, <2>5 DEF LoggedBefore, Saving
<1> QED
  BY <1>2, <1>3, <1>4, <1>6, <1>7, <1>8 DEF StepOf

LEMMA NextAlone ==
  CliProcs = {} /\ Typed /\ Settled /\ Sourced /\ Holding /\ Logged /\ [Next]_vars
    => Holding' /\ Logged'
<1> SUFFICES ASSUME CliProcs = {}, Typed, Settled, Sourced, Holding, Logged, [Next]_vars
             PROVE  Holding' /\ Logged'
  OBVIOUS
<1>1. CASE StepOf(Slack)
  <2>1. Holding'
    BY <1>1, NextHeld, NextImports DEF Holding
  <2>2. Faulty => Faulty'
    BY FaultsGrow DEF Typed
  <2> QED
    BY <1>1, <2>1, <2>2, NextLogged
<1>2. CASE Quiet
  <2>1. Holding'
    BY <1>2 DEF Quiet, Holding, HeldByRunner, ImportsApart, Replaced, Readable
  <2>2. Faulty => Faulty'
    BY FaultsGrow DEF Typed
  <2>3. \A r \in Requests : \A trail : Told(r, trail) => Told(r, trail)'
    BY <1>2, <2>2 DEF Quiet, Told
  <2>4. pc[Slack] \in Saving => work[Slack].req \in Requests
    BY SavedIs DEF Procs
  <2>5. Logged'
    BY <1>2, <2>3, <2>4 DEF Logged, LoggedFor, LoggedBefore, Quiet, Readable
  <2> QED
    BY <2>1, <2>5
<1>3. StepOf(Slack) \/ Quiet
  BY NextIsStep DEF Typed, Procs
<1> QED
  BY <1>1, <1>2, <1>3

LEMMA AlwaysAlone ==
  ASSUME CliProcs = {}
  PROVE  Spec => [](Typed /\ Settled /\ Sourced /\ Once /\ Holding /\ Logged)
<1>1. Typed /\ Settled /\ Sourced /\ Holding /\ Logged /\ [Next]_vars => Holding' /\ Logged'
  BY NextAlone
<1> QED
  BY <1>1, InitHolding, AlwaysOnce, PTL DEF Spec

\* When no command runs beside the runner, the audit log tells of each readable
\* record the path its saves took: never more, and less only after a process was
\* killed or the disk was full, or until the entry of the save just made.
THEOREM AuditIsSafe ==
  ASSUME CliProcs = {}
  PROVE  Spec => []AuditMatchesRecords
<1>1. Typed /\ Holding /\ Logged => AuditMatchesRecords
  <2> SUFFICES ASSUME Typed, Holding, Logged, NEW r \in Requests, Readable(r)
               PROVE  \E trail \in Trail(r, file[r].status) :
                        /\ audit[r] \subseteq trail
                        /\ \/ audit[r] = trail
                           \/ Faulty
                           \/ \E p \in Procs : pc[p] = "audit" /\ work[p].req = r
    BY DEF AuditMatchesRecords, Faulty
  <2>1. PICK trail : trail \in Trail(r, file[r].status)
    <3>1. file[r].status \in Statuses
      BY DEF Typed, TypeOK, Readable, Record
    <3> QED
      BY <3>1, TrailExists
  <2>2. CASE pc[Slack] = "audit" /\ work[Slack].req = r
    <3>1. file[r] = work[Slack].draft
      BY <2>2 DEF Holding, HeldByRunner
    <3>2. audit[r] \subseteq trail
      BY <2>1, <2>2, <3>1, SavedTrail DEF Saving
    <3> QED
      BY <2>1, <2>2, <3>2 DEF Procs
  <2>3. CASE ~(pc[Slack] = "audit" /\ work[Slack].req = r)
    BY <2>1, <2>3 DEF Logged, LoggedFor, Told
  <2> QED
    BY <2>2, <2>3
<1> QED
  BY <1>1, AlwaysAlone, PTL

-----------------------------------------------------------------------------
(***************************************************************************)
(* The runner alone implements the life of a shared request.  A request    *)
(* takes its next status when its file is emptied for the save, is lost    *)
(* when that save is cut short, and its outcome is told when the message   *)
(* about it is posted; all other steps stutter.                            *)
(***************************************************************************)
StatusOf(r) ==
  CASE Image(r) = Absent -> "none"
    [] Image(r) = Torn -> "lost"
    [] OTHER -> Image(r).status

ContentOf(r) == IF Image(r) \in {Absent, Torn} THEN NoResult ELSE Image(r).result

LEMMA SharedStutters ==
  ASSUME \A r \in Requests : /\ StatusOf(r)' = StatusOf(r) /\ ContentOf(r)' = ContentOf(r)
                             /\ VerdictsOf(r)' = VerdictsOf(r)
  PROVE  UNCHANGED Shared!shared
BY DEF Shared!shared, StatusOf, ContentOf, VerdictsOf

LEMMA SharedMoves ==
  ASSUME NEW r \in Requests, NEW s, NEW a,
         \A x \in Requests : StatusOf(x)' = IF x = r THEN s ELSE StatusOf(x),
         \A x \in Requests : ContentOf(x)' = IF x = r THEN a ELSE ContentOf(x),
         \A x \in Requests : VerdictsOf(x)' = VerdictsOf(x)
  PROVE  /\ StatusOf(r) = "none" /\ s = "executing" /\ a = ContentOf(r) => Shared!Open(r)
         /\ StatusOf(r) = "executing" /\ s = "pending_owner_approval" => Shared!Answer(r, a)
         /\ StatusOf(r) = "executing" /\ s = "failed" /\ a = ContentOf(r) => Shared!Fail(r)
         /\ /\ StatusOf(r) \in {"pending_owner_approval", "owner_review_pending"}
            /\ s = "published" /\ a = ContentOf(r) /\ a # NoResult
            => Shared!Release(r)
         /\ /\ \/ StatusOf(r) = "pending_owner_approval" /\ s = "owner_rejected"
               \/ StatusOf(r) = "owner_review_pending" /\ s = "failed"
            /\ a = ContentOf(r)
            => Shared!Refuse(r)
         /\ /\ StatusOf(r) # "none" /\ VerdictsOf(r) = {} /\ s = "lost" /\ a = NoResult
            => Shared!Lose(r)
<1>1. /\ [x \in Requests |-> StatusOf(x)]' = [[x \in Requests |-> StatusOf(x)] EXCEPT ![r] = s]
      /\ [x \in Requests |-> ContentOf(x)]' = [[x \in Requests |-> ContentOf(x)] EXCEPT ![r] = a]
      /\ [x \in Requests |-> VerdictsOf(x)]' = [x \in Requests |-> VerdictsOf(x)]
      /\ a = ContentOf(r) =>
           [x \in Requests |-> ContentOf(x)]' = [x \in Requests |-> ContentOf(x)]
  OBVIOUS
<1>2. /\ [x \in Requests |-> StatusOf(x)][r] = StatusOf(r)
      /\ [x \in Requests |-> ContentOf(x)][r] = ContentOf(r)
      /\ [x \in Requests |-> VerdictsOf(x)][r] = VerdictsOf(r)
  OBVIOUS
<1> QED
  BY <1>1, <1>2
  DEF Shared!Open, Shared!Answer, Shared!Fail, Shared!Release, Shared!Refuse, Shared!Lose, Shared!Set,
      StatusOf, ContentOf, VerdictsOf

LEMMA SharedTells ==
  ASSUME NEW r \in Requests, NEW m,
         \A x \in Requests : StatusOf(x)' = StatusOf(x) /\ ContentOf(x)' = ContentOf(x),
         \A x \in Requests : VerdictsOf(x)' = IF x = r THEN {m} ELSE VerdictsOf(x),
         VerdictsOf(r) = {},
         \/ /\ StatusOf(r) = "published"
            /\ m = [kind |-> "requester_dm_published", content |-> ContentOf(r)]
         \/ /\ StatusOf(r) = "owner_rejected"
            /\ m = [kind |-> "requester_dm_rejected", content |-> NoResult]
         \/ /\ StatusOf(r) = "failed"
            /\ m = [kind |-> IF r \in DOMAIN Legacy THEN "requester_dm_cancelled"
                             ELSE "requester_dm_failed", content |-> NoResult]
  PROVE  Shared!Tell(r)
<1>1. /\ [x \in Requests |-> StatusOf(x)]' = [x \in Requests |-> StatusOf(x)]
      /\ [x \in Requests |-> ContentOf(x)]' = [x \in Requests |-> ContentOf(x)]
      /\ [x \in Requests |-> VerdictsOf(x)]' = [[x \in Requests |-> VerdictsOf(x)] EXCEPT ![r] = {m}]
  OBVIOUS
<1>2. /\ [x \in Requests |-> StatusOf(x)][r] = StatusOf(r)
      /\ [x \in Requests |-> ContentOf(x)][r] = ContentOf(r)
      /\ [x \in Requests |-> VerdictsOf(x)][r] = VerdictsOf(r)
  OBVIOUS
<1>3. m \in Shared!Outcome(r)
  <2>1. CASE StatusOf(r) = "published"
    <3>1. Shared!Outcome(r) = {[kind |-> "requester_dm_published", content |-> ContentOf(r)]}
      BY <1>2, <2>1 DEF Shared!Outcome, StatusOf, ContentOf
    <3> QED
      BY <2>1, <3>1
  <2>2. CASE StatusOf(r) = "owner_rejected"
    <3>1. Shared!Outcome(r) = {[kind |-> "requester_dm_rejected", content |-> NoResult]}
      BY <1>2, <2>2 DEF Shared!Outcome, StatusOf, ContentOf
    <3> QED
      BY <2>2, <3>1
  <2>3. CASE StatusOf(r) = "failed"
    <3>1. Shared!Outcome(r) = {[kind |-> IF r \in DOMAIN Legacy THEN "requester_dm_cancelled"
                                         ELSE "requester_dm_failed", content |-> NoResult]}
      BY <1>2, <2>3 DEF Shared!Outcome, StatusOf, ContentOf
    <3> QED
      BY <2>3, <3>1
  <2> QED
    BY <2>1, <2>2, <2>3
<1> QED
  BY <1>1, <1>2, <1>3 DEF Shared!Tell, StatusOf, ContentOf, VerdictsOf

ImageAlone(r) ==
  IF file[r] # Torn THEN file[r]
  ELSE IF pc[Slack] = "write" /\ work[Slack].req = r THEN work[Slack].draft ELSE Torn

LEMMA ImageIsAlone ==
  ASSUME CliProcs = {}, NEW r
  PROVE  Image(r) = ImageAlone(r) /\ Image(r)' = ImageAlone(r)'
<1>1. Procs = {Slack}
  BY DEF Procs
<1>2. (CHOOSE p \in {Slack} : TRUE) = Slack
  OBVIOUS
<1>3. /\ Writer(r) = IF pc[Slack] = "write" /\ work[Slack].req = r THEN {Slack} ELSE {}
      /\ Writer(r)' = IF pc'[Slack] = "write" /\ work'[Slack].req = r THEN {Slack} ELSE {}
  BY <1>1 DEF Writer
<1> QED
  BY <1>2, <1>3 DEF Image, ImageAlone

LEMMA AbstractionOf ==
  ASSUME CliProcs = {}, NEW r
  PROVE  /\ ImageAlone(r) = Absent => StatusOf(r) = "none" /\ ContentOf(r) = NoResult
         /\ ImageAlone(r) = Torn => StatusOf(r) = "lost" /\ ContentOf(r) = NoResult
         /\ ImageAlone(r) \notin {Absent, Torn} =>
              StatusOf(r) = ImageAlone(r).status /\ ContentOf(r) = ImageAlone(r).result
BY ImageIsAlone, ConstantsAssumption DEF StatusOf, ContentOf

LEMMA AbstractionNext ==
  ASSUME CliProcs = {}, NEW r
  PROVE  /\ ImageAlone(r)' = Absent => StatusOf(r)' = "none" /\ ContentOf(r)' = NoResult
         /\ ImageAlone(r)' = Torn => StatusOf(r)' = "lost" /\ ContentOf(r)' = NoResult
         /\ ImageAlone(r)' \notin {Absent, Torn} =>
              StatusOf(r)' = ImageAlone(r)'.status /\ ContentOf(r)' = ImageAlone(r)'.result
         /\ ImageAlone(r)' = ImageAlone(r) =>
              StatusOf(r)' = StatusOf(r) /\ ContentOf(r)' = ContentOf(r)
BY ImageIsAlone, ConstantsAssumption DEF StatusOf, ContentOf

\* What the runner holds while it saves request r, and how the abstract request
\* changes.
LEMMA EmptiesShared ==
  ASSUME CliProcs = {}, Typed, Holding, StepOf(Slack), Empties(Slack)
  PROVE  \E r \in Requests :
           \/ Shared!Open(r) \/ Shared!Fail(r) \/ Shared!Release(r) \/ Shared!Refuse(r)
           \/ \E a \in Results \cup {NoResult} : Shared!Answer(r, a)
<1>1. PICK r \in Requests : r = work[Slack].req
  BY SavedIs DEF Empties, Saving, Procs
<1> DEFINE s == work[Slack].step
           rec == work[Slack].draft
<1>2. /\ s \in Steps /\ rec \in Record /\ rec \notin {Absent, Torn} /\ rec.status = StatusAfter[s]
      /\ s \in {"approve", "publish"} => rec.result # NoResult
  BY SavedIs DEF Empties, Saving, Procs, Typed, Control, ControlOf, Drafted
<1>3. /\ pc[Slack] = "truncate" /\ pc'[Slack] = "write" /\ work' [Slack] = work[Slack]
      /\ \A x \in Requests : file'[x] = IF x = r THEN Torn ELSE file[x]
      /\ UNCHANGED posted
  BY <1>1 DEF Empties, Typed, TypeOK
<1>4. Replaced(r, s, rec)
  BY <1>1, <1>3 DEF Holding, HeldByRunner
<1>5. /\ ImageAlone(r) = file[r] /\ ImageAlone(r)' = rec
      /\ \A x \in Requests : x # r => ImageAlone(x)' = ImageAlone(x)
  BY <1>1, <1>3, <1>4, ConstantsAssumption DEF ImageAlone, Replaced, Readable
<1>6. /\ \A x \in Requests : StatusOf(x)' = IF x = r THEN rec.status ELSE StatusOf(x)
      /\ \A x \in Requests : ContentOf(x)' = IF x = r THEN rec.result ELSE ContentOf(x)
      /\ \A x \in Requests : VerdictsOf(x)' = VerdictsOf(x)
  BY <1>2, <1>3, <1>5, AbstractionNext DEF VerdictsOf
<1> HIDE DEF s, rec
<1>7. CASE s = "submit"
  <2>1. StatusOf(r) = "none" /\ ContentOf(r) = NoResult /\ rec.result = NoResult
    BY <1>4, <1>5, <1>7, AbstractionOf DEF Replaced
  <2>2. rec.status = "executing"
    BY <1>2, <1>7 DEF StatusAfter
  <2> QED
    BY <1>6, <2>1, <2>2, SharedMoves
<1>8. CASE s # "submit"
  <2>1. /\ StatusOf(r) = Origin(s)
        /\ s # "answered" => rec.result = ContentOf(r)
    BY <1>4, <1>5, <1>8, AbstractionOf DEF Replaced, Readable
  <2>2. CASE s = "answered"
    <3>1. StatusOf(r) = "executing" /\ rec.status = "pending_owner_approval"
      BY <1>2, <2>1, <2>2, OriginTables DEF StatusAfter
    <3>2. rec.result \in Results \cup {NoResult}
      BY <1>2 DEF Record
    <3> QED
      BY <1>6, <3>1, <3>2, SharedMoves
  <2>3. CASE s = "lookup_failed"
    <3>1. StatusOf(r) = "executing" /\ rec.status = "failed" /\ rec.result = ContentOf(r)
      BY <1>2, <2>1, <2>3, OriginTables DEF StatusAfter
    <3> QED
      BY <1>6, <3>1, SharedMoves
  <2>4. CASE s \in {"approve", "publish"}
    <3>1. /\ StatusOf(r) \in {"pending_owner_approval", "owner_review_pending"}
          /\ rec.status = "published" /\ rec.result = ContentOf(r) /\ rec.result # NoResult
      BY <1>2, <2>1, <2>4, OriginTables DEF StatusAfter
    <3> QED
      BY <1>6, <3>1, SharedMoves
  <2>5. CASE s \in {"reject", "cancel"}
    <3>1. /\ \/ StatusOf(r) = "pending_owner_approval" /\ rec.status = "owner_rejected"
             \/ StatusOf(r) = "owner_review_pending" /\ rec.status = "failed"
          /\ rec.result = ContentOf(r)
      BY <1>2, <2>1, <2>5, OriginTables DEF StatusAfter
    <3> QED
      BY <1>6, <3>1, SharedMoves
  <2> QED
    BY <1>2, <1>8, <2>2, <2>3, <2>4, <2>5, OriginTables
<1> QED
  BY <1>7, <1>8

\* The save is cut short.
LEMMA LeavesShared ==
  ASSUME CliProcs = {}, Typed, Once, Holding, StepOf(Slack), Leaves(Slack), pc[Slack] = "write"
  PROVE  \E r \in Requests : Shared!Lose(r)
<1>1. PICK r \in Requests : r = work[Slack].req
  BY SavedIs DEF Saving, Procs
<1> DEFINE s == work[Slack].step
           rec == work[Slack].draft
<1>2. s \in Steps /\ rec \in Record /\ rec \notin {Absent, Torn} /\ rec.status = StatusAfter[s]
  BY SavedIs DEF Saving, Procs
<1>3. /\ pc'[Slack] # "write" /\ UNCHANGED <<file, posted>> /\ file[r] = Torn
  BY <1>1 DEF Leaves, Outside, Holding, HeldByRunner
<1>4. /\ ImageAlone(r) = rec /\ ImageAlone(r)' = Torn
      /\ \A x \in Requests : x # r => ImageAlone(x)' = ImageAlone(x)
  BY <1>1, <1>3 DEF ImageAlone
<1>5. /\ \A x \in Requests : StatusOf(x)' = IF x = r THEN "lost" ELSE StatusOf(x)
      /\ \A x \in Requests : ContentOf(x)' = IF x = r THEN NoResult ELSE ContentOf(x)
      /\ \A x \in Requests : VerdictsOf(x)' = VerdictsOf(x)
  BY <1>3, <1>4, AbstractionNext DEF VerdictsOf
<1>6. StatusOf(r) # "none"
  <2>1. StatusOf(r) = StatusAfter[s]
    BY <1>2, <1>4, AbstractionOf
  <2> QED
    BY <1>2, <2>1 DEF StatusAfter, Steps, Decisions
<1>7. VerdictsOf(r) = {}
  <2>1. SaidOf(Slack) /\ PostedOf(r)
    BY DEF Once, Procs
  <2>2. CASE s \in VerdictSteps
    BY <1>1, <2>1, <2>2 DEF SaidOf, Saving
  <2>3. CASE s \notin VerdictSteps
    <3>1. Prepares(Slack, r)
      BY <1>1, <1>2, <2>3, StepTables DEF Prepares
    <3> QED
      BY <2>1, <3>1 DEF PostedOf, Ended, Past, Procs
  <2> QED
    BY <2>2, <2>3
<1> HIDE DEF s, rec
<1> QED
  BY <1>5, <1>6, <1>7, SharedMoves

LEMMA PostsShared ==
  ASSUME CliProcs = {}, Typed, Once, Holding, StepOf(Slack), Posts(Slack)
  PROVE  (\E r \in Requests : Shared!Tell(r)) \/ UNCHANGED Shared!shared
<1>1. PICK r \in Requests : r = work[Slack].req
  BY SavedIs DEF Posts, Procs
<1> DEFINE s == work[Slack].step
           rec == work[Slack].draft
           m == OutgoingMessage
<1>2. s \in Steps /\ rec \in Record /\ rec \notin {Absent, Torn} /\ rec.status = StatusAfter[s]
  BY SavedIs DEF Posts, Procs
<1>3. /\ pc[Slack] = "post" /\ pc'[Slack] # "write" /\ UNCHANGED file
      /\ \A x \in Requests : posted'[x] = IF x = r THEN posted[x] \cup {m} ELSE posted[x]
  BY <1>1 DEF Posts, Typed, TypeOK
<1>4. m = [kind |-> MessageAfter[s], content |-> Content(s, rec)]
  BY DEF OutgoingMessage
<1>5. \A x \in Requests : ImageAlone(x)' = ImageAlone(x)
  BY <1>3 DEF ImageAlone
<1>6. \A x \in Requests : StatusOf(x)' = StatusOf(x) /\ ContentOf(x)' = ContentOf(x)
  BY <1>5, AbstractionNext
<1>7. file[r] = rec /\ ImageAlone(r) = rec
  BY <1>1, <1>2, <1>3 DEF Holding, HeldByRunner, ImageAlone
<1>8. StatusOf(r) = StatusAfter[s] /\ ContentOf(r) = rec.result
  BY <1>2, <1>7, AbstractionOf
<1> HIDE DEF s, rec, m
<1>9. CASE s \in VerdictSteps
  <2>1. VerdictsOf(r) = {}
    BY <1>1, <1>3, <1>9 DEF Once, SaidOf, Procs, s
  <2>2. m.kind \in Verdicts
    BY <1>4, <1>9, StepTables
  <2>3. \A x \in Requests : VerdictsOf(x)' = IF x = r THEN {m} ELSE VerdictsOf(x)
    BY <1>3, <2>1, <2>2 DEF VerdictsOf
  <2>4. s \in {"publish", "cancel"} <=> r \in DOMAIN Legacy
    BY <1>1, <1>3 DEF Holding, HeldByRunner, s
  <2>5. \/ /\ StatusOf(r) = "published"
           /\ m = [kind |-> "requester_dm_published", content |-> ContentOf(r)]
        \/ /\ StatusOf(r) = "owner_rejected"
           /\ m = [kind |-> "requester_dm_rejected", content |-> NoResult]
        \/ /\ StatusOf(r) = "failed"
           /\ m = [kind |-> IF r \in DOMAIN Legacy THEN "requester_dm_cancelled"
                            ELSE "requester_dm_failed", content |-> NoResult]
    <3>1. CASE s \in {"approve", "publish"}
      BY <1>4, <1>8, <3>1 DEF Content, StatusAfter, MessageAfter
    <3>2. CASE s = "reject"
      BY <1>4, <1>8, <3>2 DEF Content, StatusAfter, MessageAfter
    <3>3. CASE s \in {"cancel", "lookup_failed"}
      BY <1>4, <1>8, <2>4, <3>3 DEF Content, StatusAfter, MessageAfter
    <3> QED
      BY <1>9, <3>1, <3>2, <3>3 DEF VerdictSteps, Decisions
  <2> QED
    BY <1>6, <2>1, <2>3, <2>5, SharedTells
<1>10. CASE s \notin VerdictSteps
  <2>1. m.kind \notin Verdicts
    BY <1>2, <1>4, <1>10, StepTables
  <2>2. \A x \in Requests : VerdictsOf(x)' = VerdictsOf(x)
    BY <1>3, <2>1 DEF VerdictsOf
  <2> QED
    BY <1>6, <2>2, SharedStutters
<1> QED
  BY <1>9, <1>10

LEMMA StepShared ==
  ASSUME CliProcs = {}, Typed, Once, Holding, StepOf(Slack)
  PROVE  [Shared!SharedNext]_(Shared!shared)
<1>1. CASE Empties(Slack)
  BY <1>1, EmptiesShared DEF Shared!SharedNext
<1>2. CASE Leaves(Slack) /\ pc[Slack] = "write"
  BY <1>2, LeavesShared DEF Shared!SharedNext
<1>3. CASE Posts(Slack)
  BY <1>3, PostsShared DEF Shared!SharedNext
<1>4. ASSUME UNCHANGED posted, \A x \in Requests : ImageAlone(x)' = ImageAlone(x)
      PROVE  UNCHANGED Shared!shared
  BY <1>4, AbstractionNext, SharedStutters DEF VerdictsOf
<1>5. CASE Fills(Slack)
  <2>1. PICK r \in Requests : r = work[Slack].req
    BY <1>5, SavedIs DEF Fills, Saving, Procs
  <2>2. /\ pc[Slack] = "write" /\ pc'[Slack] = "audit" /\ UNCHANGED posted
        /\ file[r] = Torn /\ work[Slack].draft # Torn
        /\ \A x \in Requests : file'[x] = IF x = r THEN work[Slack].draft ELSE file[x]
    BY <1>5, <2>1, SavedIs DEF Fills, Typed, TypeOK, Holding, HeldByRunner, Saving, Procs
  <2>3. \A x \in Requests : ImageAlone(x)' = ImageAlone(x)
    BY <2>1, <2>2 DEF ImageAlone
  <2> QED
    BY <1>4, <2>2, <2>3
<1>6. CASE \/ Leaves(Slack) /\ pc[Slack] # "write"
           \/ Searched(Slack) \/ Opens(Slack) \/ Loads(Slack) \/ Answers(Slack) \/ Chooses(Slack)
           \/ Logs(Slack)
  <2>1. pc[Slack] # "write" /\ pc'[Slack] # "write" /\ UNCHANGED <<file, posted>>
    BY <1>6 DEF Leaves, Outside, Searched, Opens, Loads, Answers, Chooses, Saves, Logs
  <2>2. \A x \in Requests : ImageAlone(x)' = ImageAlone(x)
    BY <2>1 DEF ImageAlone
  <2> QED
    BY <1>4, <2>1, <2>2
<1> QED
  BY <1>1, <1>2, <1>3, <1>5, <1>6 DEF StepOf

LEMMA InitShared ==
  ASSUME CliProcs = {}, Init
  PROVE  Shared!SharedInit
<1>1. ASSUME NEW r \in Requests
      PROVE  /\ StatusOf(r) = IF r \in DOMAIN Legacy THEN "owner_review_pending" ELSE "none"
             /\ ContentOf(r) \in Results \cup {NoResult}
             /\ VerdictsOf(r) = {}
  <2>1. VerdictsOf(r) = {}
    BY DEF Init, VerdictsOf
  <2>2. CASE r \in DOMAIN Legacy
    <3>1. /\ file[r] = Legacy[r] /\ Legacy[r] \in Record /\ Legacy[r].status = "owner_review_pending"
          /\ Legacy[r].result \in Results \cup {NoResult}
      BY <2>2, LegacyAssumption DEF Init, Record
    <3>2. ImageAlone(r) = file[r] /\ file[r] \notin {Absent, Torn}
      BY <3>1, ConstantsAssumption DEF ImageAlone
    <3> QED
      BY <2>1, <2>2, <3>1, <3>2, AbstractionOf
  <2>3. CASE r \notin DOMAIN Legacy
    <3>1. ImageAlone(r) = Absent
      BY <2>3, ConstantsAssumption DEF Init, ImageAlone
    <3> QED
      BY <2>1, <2>3, <3>1, AbstractionOf
  <2> QED
    BY <2>2, <2>3
<1>2. /\ [r \in Requests |-> StatusOf(r)] =
           [r \in Requests |-> IF r \in DOMAIN Legacy THEN "owner_review_pending" ELSE "none"]
      /\ [r \in Requests |-> ContentOf(r)] \in [Requests -> Results \cup {NoResult}]
      /\ [r \in Requests |-> VerdictsOf(r)] = [r \in Requests |-> {}]
  BY <1>1
<1> QED
  BY <1>2 DEF Shared!SharedInit, StatusOf, ContentOf, VerdictsOf

\* When no command runs beside the runner, the program implements the life of a
\* shared request: it is opened, looked up, decided, told of its outcome, each
\* once, and is lost only before anyone was told of an outcome.
THEOREM SharedRequestImplemented ==
  ASSUME CliProcs = {}
  PROVE  Spec => ImplementsSharedRequest
<1>1. Init => Shared!SharedInit
  BY InitShared
<1>2. Typed /\ Sourced /\ Once /\ Holding /\ [Next]_vars => [Shared!SharedNext]_(Shared!shared)
  <2> SUFFICES ASSUME Typed, Sourced, Once, Holding, [Next]_vars
               PROVE  [Shared!SharedNext]_(Shared!shared)
    OBVIOUS
  <2>1. CASE StepOf(Slack)
    BY <2>1, StepShared
  <2>2. CASE Quiet
    <3>1. \A x \in Requests : ImageAlone(x)' = ImageAlone(x) /\ VerdictsOf(x)' = VerdictsOf(x)
      BY <2>2 DEF Quiet, ImageAlone, VerdictsOf
    <3> QED
      BY <3>1, AbstractionNext, SharedStutters
  <2> QED
    BY <2>1, <2>2, NextIsStep DEF Typed, Procs
<1> QED
  BY <1>1, <1>2, AlwaysAlone, PTL DEF Spec, ImplementsSharedRequest, Shared!Spec

=============================================================================
