---------------------------- MODULE Coordinator ----------------------------
(***************************************************************************)
(* The shared-access coordinator: the service (service.py), its file store *)
(* (store.py), the single-threaded Slack Socket Mode runner that calls it  *)
(* (slack_transport.py) and the command-line processes that call it too    *)
(* (cli.py).                                                               *)
(*                                                                         *)
(* Every process runs one operation at a time as a sequence of steps; a    *)
(* step is what the process does between two moments at which another      *)
(* process, a crash or a failed Slack call can be noticed.  The Slack      *)
(* runner continues an operation with the messages it posts; a command     *)
(* prints the actions and posts nothing.                                   *)
(***************************************************************************)
EXTENDS Naturals, FiniteSets

CONSTANTS
  Requests,         \* the request ids uuid4 can give
  Events,           \* the source events (Slack event ids, ids in CLI files)
  Users,            \* Slack users
  Results,          \* lookup answers that have content
  Slack,            \* the Slack runner process
  CliProcs,         \* openclaw-coordinatorctl processes
  Source,           \* the process that submits an event
  RequesterOf,      \* the user who wrote the event
  OwnerOf,          \* the user its text targets, or Nobody
  Legacy,           \* records an older release left in owner_review_pending
  MaxFaults,        \* bounds on the faults of each kind
  DirectoryShrinks, \* may an entry disappear from directory.json?
  Absent, Torn,     \* what a request file is when it is not a record
  NoResult, Nobody, None

Procs == CliProcs \cup {Slack}

(***************************************************************************)
(* The seven ways a record is saved, and what goes with each: the status   *)
(* saved, the audit event appended, the Slack message then posted.         *)
(***************************************************************************)
Decisions == {"approve", "reject", "publish", "cancel"}
Steps == Decisions \cup {"submit", "answered", "lookup_failed"}

StatusAfter ==
  [submit |-> "executing", answered |-> "pending_owner_approval",
   lookup_failed |-> "failed", approve |-> "published",
   reject |-> "owner_rejected", publish |-> "published", cancel |-> "failed"]

\* Mutant: a failed lookup is logged as a pending approval.
MutAuditAfter ==
  [submit |-> "request_submitted", answered |-> "owner_approval_pending",
   lookup_failed |-> "owner_approval_pending", approve |-> "published",
   reject |-> "owner_rejected", publish |-> "published",
   cancel |-> "owner_review_cancelled"]

AuditAfter ==
  [submit |-> "request_submitted", answered |-> "owner_approval_pending",
   lookup_failed |-> "execution_failed", approve |-> "published",
   reject |-> "owner_rejected", publish |-> "published",
   cancel |-> "owner_review_cancelled"]

MessageAfter ==
  [submit |-> "requester_dm_ack", answered |-> "owner_dm_approval",
   lookup_failed |-> "requester_dm_failed",
   approve |-> "requester_dm_published", reject |-> "requester_dm_rejected",
   publish |-> "requester_dm_published", cancel |-> "requester_dm_cancelled"]

\* The status a decision requires of the record it is about.
StatusFor ==
  [approve |-> "pending_owner_approval", reject |-> "pending_owner_approval",
   publish |-> "owner_review_pending", cancel |-> "owner_review_pending"]

Statuses == {StatusAfter[s] : s \in Steps} \cup {"owner_review_pending"}
Terminal == {"published", "owner_rejected", "failed"}
AuditEvents == {AuditAfter[s] : s \in Steps}
Verdicts == {"requester_dm_failed", "requester_dm_rejected",
             "requester_dm_cancelled", "requester_dm_published"}

Record == [event : Events, requester : Users, owner : Users,
           status : Statuses, result : Results \cup {NoResult}]

\* A Slack message about a request: its kind and the lookup content in it.
Message == [kind : {MessageAfter[s] : s \in Steps},
            content : Results \cup {NoResult}]

Content(step, rec) ==
  IF step \in {"answered", "approve", "publish"} THEN rec.result ELSE NoResult

\* What the owner's interactive message shows: nothing sent yet, the buttons,
\* the acknowledgement of a click, or the status text of a refresh.
Cards == {"none", "buttons", "received"} \cup Statuses

\* A process is killed, a Slack Web API call fails, the disk is full.
FaultKinds == {"kill", "post", "disk"}

ASSUME ConstantsAssumption ==
  /\ Slack \notin CliProcs
  /\ Source \in [Events -> Procs]
  /\ RequesterOf \in [Events -> Users]
  /\ OwnerOf \in [Events -> Users \cup {Nobody}]
  /\ Nobody \notin Users /\ None \notin Requests \cup Events \cup Users
  /\ None \notin Record
  /\ NoResult \notin Results
  /\ Absent \notin Record /\ Torn \notin Record /\ Absent # Torn
  /\ MaxFaults \in [FaultKinds -> Nat]
  /\ DirectoryShrinks \in BOOLEAN

ASSUME LegacyAssumption ==
  /\ DOMAIN Legacy \subseteq Requests
  /\ \A r \in DOMAIN Legacy :
       /\ Legacy[r] \in Record
       /\ Legacy[r].status = "owner_review_pending"
       /\ Legacy[r].result # NoResult
       /\ \A q \in DOMAIN Legacy : Legacy[q].event = Legacy[r].event => q = r

VARIABLES
  file,         \* requests/<id>.json: a Record, Absent or Torn
  audit,        \* audit.jsonl: the event types logged for each request
  registered,   \* the owners directory.json has an entry for
  inbox,        \* DMs Slack still holds: not sent yet, or not acknowledged
  pc,           \* what each process does next
  work,         \* what each process works on
  card,         \* the owner's interactive message of each request
  posted,       \* observer: the messages Slack accepted for each request
  refused,      \* observer: events whose author was told of an error
  lookups,      \* observer: relay executions started for each request
  decidedBy,    \* observer: users whose decision was saved
  faults        \* the faults there were, of each kind

store == <<file, audit, registered>>
observers == <<posted, refused, lookups, decidedBy>>
vars == <<store, inbox, pc, work, card, observers, faults>>

Readable(r) == file[r] \notin {Absent, Torn}

\* The directory entries that matter: those a request can target.
Owners == {OwnerOf[e] : e \in Events} \cap Users

(***************************************************************************)
(* The steps of a process.  "find" and "parse" are submit_slack_request up *)
(* to the save; "load" and "lookup" are prepare_owner_approval up to the   *)
(* save; "ack_click" updates the clicked message, "decide" is              *)
(* record_owner_decision or record_owner_review up to the save.  A save is *)
(* write_text: "truncate" empties the file, "write" fills it.  "audit"     *)
(* ends the service operation; "post", "complain" and "refresh" are the    *)
(* Slack runner's.                                                         *)
(***************************************************************************)
Saving == {"truncate", "write", "audit"}
PCs == Saving \cup {"idle", "find", "parse", "load", "lookup", "ack_click",
                    "decide", "post", "complain", "refresh"}

Work == [event : Events \cup {None}, req : Requests \cup {None},
         step : Steps \cup {"load", "none"}, who : Users \cup {None},
         button : BOOLEAN, draft : Record \cup {None}]

\* The start of an operation: step on request r or event e, by user u.
Task(e, r, step, u, button) ==
  [event |-> e, req |-> r, step |-> step, who |-> u, button |-> button,
   draft |-> None]

NoWork == Task(None, None, "none", None, FALSE)

Init ==
  /\ file = [r \in Requests |->
               IF r \in DOMAIN Legacy THEN Legacy[r] ELSE Absent]
  /\ audit = [r \in Requests |-> {}]
  /\ registered \in SUBSET Owners
  /\ inbox = {e \in Events : Source[e] = Slack}
                \ {Legacy[r].event : r \in DOMAIN Legacy}
  /\ pc = [p \in Procs |-> "idle"]
  /\ work = [p \in Procs |-> NoWork]
  /\ card = [r \in Requests |->
               IF r \in DOMAIN Legacy THEN "buttons" ELSE "none"]
  /\ posted = [r \in Requests |-> {}]
  /\ refused = {}
  /\ lookups = [r \in Requests |-> 0]
  /\ decidedBy = [r \in Requests |-> {}]
  /\ faults = [k \in FaultKinds |-> 0]

Fault(k) ==
  faults[k] < MaxFaults[k] /\ faults' = [faults EXCEPT ![k] = @ + 1]

Goto(p, l) == pc' = [pc EXCEPT ![p] = l]

Finish(p) ==
  /\ pc' = [pc EXCEPT ![p] = "idle"]
  /\ work' = [work EXCEPT ![p] = NoWork]

\* Mutant: the runner drops the error.
MutRaise(p) == Finish(p) /\ UNCHANGED <<store, observers>>

\* An exception of a service operation: the Slack runner reports it in the
\* channel, a command ends with a traceback.
Raise(p) ==
  /\ IF p = Slack THEN Goto(p, "complain") /\ UNCHANGED work ELSE Finish(p)
  /\ UNCHANGED <<store, observers>>

\* The operation goes on to save rec as request r.
Save(p, r, step, rec) ==
  /\ Goto(p, "truncate")
  /\ work' = [work EXCEPT ![p].req = r, ![p].step = step, ![p].draft = rec]

(***************************************************************************)
(* What starts an operation.                                               *)
(***************************************************************************)

\* The runner reads a DM that asks for a lookup.  It acknowledges the envelope
\* before handling it; Slack keeps the DM when the acknowledgement is lost.
ReceiveRequest(e) ==
  /\ pc[Slack] = "idle" /\ e \in inbox
  /\ inbox' \in {inbox, inbox \ {e}}
  /\ Goto(Slack, "find")
  /\ work' = [work EXCEPT ![Slack] = Task(e, None, "submit", None, FALSE)]
  /\ UNCHANGED <<store, card, observers, faults>>

\* A DM command is anyone's and names any request id.  The buttons are on the
\* message in the owner's DM, two of them as long as Slack shows them; clicks
\* made on a stale message arrive later.
ReceiveDecision(u, r, d, button) ==
  /\ pc[Slack] = "idle"
  /\ button => /\ card[r] # "none"
               /\ Readable(r) => u = file[r].owner
               /\ d \in IF r \in DOMAIN Legacy THEN {"publish", "cancel"}
                                               ELSE {"approve", "reject"}
  /\ Goto(Slack, IF button THEN "ack_click" ELSE "decide")
  /\ work' = [work EXCEPT ![Slack] = Task(None, r, d, u, button)]
  /\ UNCHANGED <<store, inbox, card, observers, faults>>

\* openclaw-coordinatorctl request submit.
RunSubmit(p, e) ==
  /\ pc[p] = "idle" /\ p \in CliProcs /\ Source[e] = p
  /\ Goto(p, "find")
  /\ work' = [work EXCEPT ![p] = Task(e, None, "submit", None, FALSE)]
  /\ UNCHANGED <<store, inbox, card, observers, faults>>

\* openclaw-coordinatorctl request owner-decision and review-decision.
RunDecision(p, u, r, d) ==
  /\ pc[p] = "idle" /\ p \in CliProcs
  /\ Goto(p, "decide")
  /\ work' = [work EXCEPT ![p] = Task(None, r, d, u, FALSE)]
  /\ UNCHANGED <<store, inbox, card, observers, faults>>

(***************************************************************************)
(* submit_slack_request                                                    *)
(***************************************************************************)

\* list_requests parses every file before the first one is compared.
StoreUnreadable == \E r \in Requests : file[r] = Torn

\* Mutant: a request that ended no longer counts as a duplicate.
MutRecorded(e) ==
  \E r \in Requests :
    Readable(r) /\ file[r].event = e /\ file[r].status \notin Terminal

Recorded(e) == \E r \in Requests : Readable(r) /\ file[r].event = e

FindDuplicate(p) ==
  /\ pc[p] = "find"
  /\ \/ StoreUnreadable /\ Raise(p)
     \/ /\ ~StoreUnreadable /\ Recorded(work[p].event)
        /\ Finish(p)
        /\ UNCHANGED <<store, observers>>
     \/ /\ ~StoreUnreadable /\ ~Recorded(work[p].event)
        /\ Goto(p, "parse")
        /\ UNCHANGED <<work, store, observers>>
  /\ UNCHANGED <<inbox, card, faults>>

\* uuid4 gives an id that no file and no process has.
Fresh(r) == file[r] = Absent /\ \A p \in Procs : work[p].req # r

\* Parsing, the directory lookups and the policy: the target must be an owner
\* the directory knows.  An unreadable directory.json ends like an unknown
\* owner, with a ValueError.
Parse(p) ==
  /\ pc[p] = "parse"
  /\ LET e == work[p].event IN
     \/ OwnerOf[e] \notin registered /\ Raise(p)
     \/ /\ OwnerOf[e] \in registered
        /\ \E r \in Requests :
             /\ Fresh(r)
             /\ Save(p, r, "submit",
                     [event |-> e, requester |-> RequesterOf[e],
                      owner |-> OwnerOf[e], status |-> "executing",
                      result |-> NoResult])
        /\ UNCHANGED <<store, observers>>
  /\ UNCHANGED <<inbox, card, faults>>

(***************************************************************************)
(* prepare_owner_approval                                                  *)
(***************************************************************************)
MayExecute(r) ==
  Readable(r) /\ file[r].status = "executing" /\ file[r].owner \in registered

Load(p) ==
  /\ pc[p] = "load"
  /\ LET r == work[p].req IN
     \/ ~MayExecute(r) /\ Raise(p)
     \/ /\ MayExecute(r)
        /\ Goto(p, "lookup")
        /\ work' = [work EXCEPT ![p].draft = file[r]]
        /\ lookups' = [lookups EXCEPT ![r] = @ + 1]
        /\ UNCHANGED <<store, posted, refused, decidedBy>>
  /\ UNCHANGED <<inbox, card, faults>>

\* The relay answers, fails in one of the three caught ways (exit status,
\* timeout, output that is not JSON) or with another exception, which leaves
\* the record as it is.  An answer that is an empty object is no result when
\* the record is loaded again.
Lookup(p) ==
  /\ pc[p] = "lookup"
  /\ LET w == work[p] IN
     \/ /\ \E a \in Results \cup {NoResult} :
             Save(p, w.req, "answered",
                  [w.draft EXCEPT !.status = "pending_owner_approval",
                                  !.result = a])
        /\ UNCHANGED <<store, observers>>
     \/ /\ Save(p, w.req, "lookup_failed", [w.draft EXCEPT !.status = "failed"])
        /\ UNCHANGED <<store, observers>>
     \/ Raise(p)
  /\ UNCHANGED <<inbox, card, faults>>

(***************************************************************************)
(* record_owner_decision and record_owner_review                           *)
(***************************************************************************)
\* Mutants: no owner check; no status check; no check for a result.
MutMayDecideAnyone(u, r, d) ==
  /\ Readable(r)
  /\ file[r].status = StatusFor[d]
  /\ d = "approve" => file[r].result # NoResult

MutMayDecideAgain(u, r, d) ==
  /\ Readable(r)
  /\ file[r].owner = u
  /\ d \in {"approve", "publish"} => file[r].result # NoResult

MutMayDecideBlank(u, r, d) ==
  Readable(r) /\ file[r].owner = u /\ file[r].status = StatusFor[d]

MayDecide(u, r, d) ==
  /\ Readable(r)
  /\ file[r].owner = u
  /\ file[r].status = StatusFor[d]
  /\ d = "approve" => file[r].result # NoResult

Decide(p) ==
  /\ pc[p] = "decide"
  /\ LET w == work[p] IN
     \/ ~MayDecide(w.who, w.req, w.step) /\ Raise(p)
     \/ /\ MayDecide(w.who, w.req, w.step)
        /\ Save(p, w.req, w.step,
                [file[w.req] EXCEPT !.status = StatusAfter[w.step]])
        /\ UNCHANGED <<store, observers>>
  /\ UNCHANGED <<inbox, card, faults>>

(***************************************************************************)
(* save_request and _audit                                                 *)
(***************************************************************************)
Truncate(p) ==
  /\ pc[p] = "truncate"
  /\ file' = [file EXCEPT ![work[p].req] = Torn]
  /\ Goto(p, "write")
  /\ UNCHANGED <<audit, registered, inbox, work, card, observers, faults>>

Write(p) ==
  /\ pc[p] = "write"
  /\ LET w == work[p] IN
     \/ /\ file' = [file EXCEPT ![w.req] = w.draft]
        /\ decidedBy' = IF w.step \in Decisions
                        THEN [decidedBy EXCEPT ![w.req] = @ \cup {w.who}]
                        ELSE decidedBy
        /\ Goto(p, "audit")
        /\ UNCHANGED <<audit, registered, work, posted, refused, lookups, faults>>
     \/ Fault("disk") /\ Raise(p)
  /\ UNCHANGED <<inbox, card>>

\* Mutant: a click goes straight on to the refresh.
MutAudit(p) ==
  /\ pc[p] = "audit"
  /\ LET w == work[p] IN
     /\ audit' = [audit EXCEPT ![w.req] = @ \cup {AuditAfter[w.step]}]
     /\ IF p = Slack
        THEN Goto(p, IF w.button THEN "refresh" ELSE "post") /\ UNCHANGED work
        ELSE Finish(p)
  /\ UNCHANGED <<file, registered, inbox, card, observers, faults>>

Audit(p) ==
  /\ pc[p] = "audit"
  /\ LET w == work[p] IN
     \/ /\ audit' = [audit EXCEPT ![w.req] = @ \cup {AuditAfter[w.step]}]
        /\ IF p = Slack THEN Goto(p, "post") /\ UNCHANGED work ELSE Finish(p)
        /\ UNCHANGED <<file, registered, observers, faults>>
     \/ Fault("disk") /\ Raise(p)
  /\ UNCHANGED <<inbox, card>>

(***************************************************************************)
(* The Slack runner's own steps                                            *)
(***************************************************************************)
CallFails == Fault("post")

\* Mutant: a failed post is swallowed and the queued lookup still runs.
MutReconnect ==
  IF pc[Slack] # "post" \/ work[Slack].step # "submit" THEN Finish(Slack)
  ELSE /\ Goto(Slack, "load")
       /\ work' = [work EXCEPT ![Slack] =
                     Task(None, work[Slack].req, "load", None, FALSE)]

\* An exception while posting reaches run_forever, which reconnects.
Reconnect == Finish(Slack)

OutgoingMessage ==
  LET w == work[Slack] IN
  [kind |-> MessageAfter[w.step], content |-> Content(w.step, w.draft)]

\* The requester's ack is followed by the queued lookup, a click by the
\* refresh of the clicked message.
Post ==
  /\ pc[Slack] = "post"
  /\ LET w == work[Slack] IN
     \/ /\ posted' = [posted EXCEPT ![w.req] = @ \cup {OutgoingMessage}]
        /\ card' = IF w.step = "answered"
                   THEN [card EXCEPT ![w.req] = "buttons"] ELSE card
        /\ IF w.step = "submit"
           THEN /\ Goto(Slack, "load")
                /\ work' = [work EXCEPT ![Slack] =
                              Task(None, w.req, "load", None, FALSE)]
           ELSE IF w.button
                THEN Goto(Slack, "refresh") /\ UNCHANGED work
                ELSE Finish(Slack)
        /\ UNCHANGED faults
     \/ CallFails /\ Reconnect /\ UNCHANGED <<posted, card>>
  /\ UNCHANGED <<store, inbox, refused, lookups, decidedBy>>

\* The operation's result is lost with its error: the refresh has none to show.
Complain ==
  /\ pc[Slack] = "complain"
  /\ LET w == work[Slack] IN
     \/ /\ refused' = IF w.step = "submit" THEN refused \cup {w.event}
                      ELSE refused
        /\ IF w.button
           THEN Goto(Slack, "refresh") /\ work' = [work EXCEPT ![Slack].draft = None]
           ELSE Finish(Slack)
        /\ UNCHANGED faults
     \/ CallFails /\ Reconnect /\ UNCHANGED refused
  /\ UNCHANGED <<store, inbox, card, posted, lookups, decidedBy>>

\* Errors of chat.update are logged and swallowed.
AckClick ==
  /\ pc[Slack] = "ack_click"
  /\ \/ card' = [card EXCEPT ![work[Slack].req] = "received"] /\ UNCHANGED faults
     \/ CallFails /\ UNCHANGED card
  /\ Goto(Slack, "decide")
  /\ UNCHANGED <<store, inbox, work, observers>>

\* The status shown is that of the operation's result, or of the record
\* loaded again when the operation raised an error; half a record shows none.
Refresh ==
  /\ pc[Slack] = "refresh"
  /\ LET r == work[Slack].req
         rec == IF work[Slack].draft # None THEN work[Slack].draft ELSE file[r]
     IN \/ /\ rec \notin {Absent, Torn}
           /\ card' = [card EXCEPT ![r] = rec.status]
           /\ UNCHANGED faults
        \/ rec \in {Absent, Torn} /\ UNCHANGED <<card, faults>>
        \/ rec \notin {Absent, Torn} /\ CallFails /\ UNCHANGED card
  /\ Finish(Slack)
  /\ UNCHANGED <<store, inbox, observers>>

(***************************************************************************)
(* The environment: the directory changes, processes are killed.           *)
(***************************************************************************)
Register(u) ==
  /\ registered' = registered \cup {u}
  /\ UNCHANGED <<file, audit, inbox, pc, work, card, observers, faults>>

\* An entry written by one process is lost when another, which read the
\* directory before, writes it back.
Unregister(u) ==
  /\ DirectoryShrinks
  /\ registered' = registered \ {u}
  /\ UNCHANGED <<file, audit, inbox, pc, work, card, observers, faults>>

Crash(p) ==
  /\ pc[p] # "idle" /\ Fault("kill")
  /\ Finish(p)
  /\ UNCHANGED <<store, inbox, card, observers>>

ServiceStep(p) ==
  \/ FindDuplicate(p) \/ Parse(p) \/ Load(p) \/ Lookup(p) \/ Decide(p)
  \/ Truncate(p) \/ Write(p) \/ Audit(p)

RunnerStep == Post \/ Complain \/ AckClick \/ Refresh

Next ==
  \/ \E e \in Events : ReceiveRequest(e)
  \/ \E u \in Users, r \in Requests, d \in Decisions, b \in BOOLEAN :
       ReceiveDecision(u, r, d, b)
  \/ \E p \in CliProcs, e \in Events : RunSubmit(p, e)
  \/ \E p \in CliProcs, u \in Users, r \in Requests, d \in Decisions :
       RunDecision(p, u, r, d)
  \/ \E p \in Procs : ServiceStep(p)
  \/ RunnerStep
  \/ \E u \in Owners : Register(u) \/ Unregister(u)
  \/ \E p \in Procs : Crash(p)

Spec == Init /\ [][Next]_vars

(***************************************************************************)
(* Invariants and action properties                                        *)
(***************************************************************************)

TypeOK ==
  /\ file \in [Requests -> Record \cup {Absent, Torn}]
  /\ audit \in [Requests -> SUBSET AuditEvents]
  /\ registered \in SUBSET Owners
  /\ inbox \in SUBSET Events
  /\ pc \in [Procs -> PCs]
  /\ work \in [Procs -> Work]
  /\ card \in [Requests -> Cards]
  /\ posted \in [Requests -> SUBSET Message]
  /\ refused \in SUBSET Events
  /\ lookups \in [Requests -> Nat]
  /\ decidedBy \in [Requests -> SUBSET Users]
  /\ faults \in [FaultKinds -> Nat]

PostedKinds(r) == {m.kind : m \in posted[r]}

\* However often Slack redelivers a DM whose acknowledgement was lost, and
\* whatever crash or reconnect interrupts its handling, one record at most is
\* created for it.
OneRecordPerEvent ==
  \A q, r \in Requests :
    Readable(q) /\ Readable(r) /\ file[q].event = file[r].event => q = r

\* The owner's mailbox is searched at most once for a request, after the
\* requester was told that it is queued, and the owner is asked only about an
\* answer that search gave.
LookupOnceAfterAck ==
  \A r \in Requests :
    /\ lookups[r] <= 1
    /\ lookups[r] = 1 => "requester_dm_ack" \in PostedKinds(r)
    /\ "owner_dm_approval" \in PostedKinds(r) => lookups[r] = 1

\* Whatever is posted to the requester as the result is the content of the
\* stored record, which its owner decided on and the audit log has as
\* published.
ResultIsTheOwnersDecision ==
  \A r \in Requests : \A m \in posted[r] :
    m.kind = "requester_dm_published" =>
      /\ Readable(r) => file[r].result = m.content
      /\ Readable(r) => file[r].owner \in decidedBy[r]
      /\ "published" \in audit[r]
      /\ m.content # NoResult

\* The requester never hears two outcomes of one request.
OneVerdict ==
  \A r \in Requests : Cardinality({m \in posted[r] : m.kind \in Verdicts}) <= 1

\* The runner never posts a message it already posted for the request:
\* neither a redelivered DM nor a second click repeats an ack, a request for
\* approval or a result.
NoRepeatedMessage ==
  pc[Slack] = "post" => OutgoingMessage \notin posted[work[Slack].req]

\* What the audit log says of a request whose record has this status: the
\* events of the path that leads there.
Trail(r, status) ==
  LET start == IF r \in DOMAIN Legacy THEN {} ELSE {"request_submitted"}
      asked == IF r \in DOMAIN Legacy THEN {}
               ELSE {"request_submitted", "owner_approval_pending"}
  IN CASE status = "executing" -> {start}
       [] status = "pending_owner_approval" -> {asked}
       [] status = "owner_review_pending" -> {{}}
       [] status = "published" -> {asked \cup {"published"}}
       [] status = "owner_rejected" -> {asked \cup {"owner_rejected"}}
       [] status = "failed" ->
            {start \cup {IF r \in DOMAIN Legacy THEN "owner_review_cancelled"
                         ELSE "execution_failed"}}

\* The audit log never tells of more than the records went through, and of
\* no less either unless a process was killed, or the disk found full, between
\* a save and its entry.
AuditMatchesRecords ==
  \A r \in Requests : Readable(r) =>
    \E trail \in Trail(r, file[r].status) :
      /\ audit[r] \subseteq trail
      /\ \/ audit[r] = trail
         \/ faults["kill"] + faults["disk"] > 0
         \/ \E p \in Procs : pc[p] = "audit" /\ work[p].req = r

(***************************************************************************)
(* A request as its requester sees it                                      *)
(***************************************************************************)
Writer(r) == {p \in Procs : pc[p] = "write" /\ work[p].req = r}

\* The record a file stands for: while it is being saved, the new one.
Image(r) ==
  IF file[r] # Torn THEN file[r]
  ELSE IF Writer(r) = {} THEN Torn
       ELSE work[CHOOSE p \in Writer(r) : TRUE].draft

Shared == INSTANCE SharedRequest WITH
  status <- [r \in Requests |->
               CASE Image(r) = Absent -> "none"
                 [] Image(r) = Torn -> "lost"
                 [] OTHER -> Image(r).status],
  content <- [r \in Requests |->
                IF Image(r) \in {Absent, Torn} THEN NoResult
                ELSE Image(r).result],
  told <- [r \in Requests |-> {m \in posted[r] : m.kind \in Verdicts}],
  Imported <- DOMAIN Legacy

\* The runner alone implements the life of a shared request.
ImplementsSharedRequest == Shared!Spec

(***************************************************************************)
(* Liveness                                                                *)
(***************************************************************************)

\* The runner is one thread that keeps running its loop, and the socket hands
\* it every envelope Slack still holds, in turn.
Fairness ==
  /\ WF_vars(ServiceStep(Slack) \/ RunnerStep)
  /\ \A e \in Events : SF_vars(ReceiveRequest(e))

FairSpec == Spec /\ Fairness

\* Nothing in the code takes up what a fault cut short, so liveness is asked of
\* the behaviours without one.
NoFaultYet == \A k \in FaultKinds : faults[k] = 0

\* Every DM a user sends is answered: its request is acknowledged or refused.
EveryRequestAnswered ==
  []NoFaultYet =>
  \A e \in Events :
    e \in inbox ~> \/ e \in refused
                   \/ \E r \in Requests :
                        /\ Readable(r) /\ file[r].event = e
                        /\ "requester_dm_ack" \in PostedKinds(r)

\* A lookup that the runner turns to ends: the owner is asked about its answer,
\* the requester is told of its failure, or the runner reports why there was
\* none (the owner left the directory, an exception the service does not catch).
EveryLookupEnds ==
  []NoFaultYet =>
  \A r \in Requests :
    pc[Slack] = "load" /\ work[Slack].req = r
      ~> \/ {"owner_dm_approval", "requester_dm_failed"} \cap PostedKinds(r) # {}
         \/ pc[Slack] = "complain" /\ work[Slack].req = r

\* A decision that was accepted reaches the requester.
EveryDecisionReported ==
  []NoFaultYet =>
  \A r \in Requests :
    pc[Slack] = "truncate" /\ work[Slack].req = r /\ work[Slack].step \in Decisions
      ~> Verdicts \cap PostedKinds(r) # {}

(***************************************************************************)
(* What the repository says and the code does not keep                     *)
(***************************************************************************)

\* The message that says a request was "completed and sent to the requester"
\* (slack_transport.py:433) is shown only when the result was sent.
CompletedMeansSent ==
  \A r \in Requests :
    card[r] = "published" => "requester_dm_published" \in PostedKinds(r)

=============================================================================
