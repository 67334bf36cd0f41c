--------------------------- MODULE SharedRequest ---------------------------
(***************************************************************************)
(* What the coordinator promises about a shared request: it is opened,     *)
(* looked up, decided by its owner and reported, each once.  Files,        *)
(* processes, Slack calls and the audit log do not appear.                 *)
(***************************************************************************)
CONSTANTS
  Requests,
  Results,    \* lookup answers that have content
  Imported,   \* requests an older release left for its owner's review
  NoResult

VARIABLES
  status,     \* where each request is, "none" before it is opened
  content,    \* the answer of its lookup
  told        \* the outcomes its requester was told of

shared == <<status, content, told>>

Set(r, s) == status' = [status EXCEPT ![r] = s]

SharedInit ==
  /\ status = [r \in Requests |->
                 IF r \in Imported THEN "owner_review_pending" ELSE "none"]
  /\ content \in [Requests -> Results \cup {NoResult}]
  /\ told = [r \in Requests |-> {}]

Open(r) ==
  /\ status[r] = "none" /\ Set(r, "executing")
  /\ UNCHANGED <<content, told>>

Answer(r, a) ==
  /\ status[r] = "executing" /\ Set(r, "pending_owner_approval")
  /\ content' = [content EXCEPT ![r] = a]
  /\ UNCHANGED told

Fail(r) ==
  /\ status[r] = "executing" /\ Set(r, "failed")
  /\ UNCHANGED <<content, told>>

\* The owner's decision.  An answer without content cannot be approved.
Release(r) ==
  /\ status[r] \in {"pending_owner_approval", "owner_review_pending"}
  /\ content[r] # NoResult
  /\ Set(r, "published")
  /\ UNCHANGED <<content, told>>

Refuse(r) ==
  /\ \/ status[r] = "pending_owner_approval" /\ Set(r, "owner_rejected")
     \/ status[r] = "owner_review_pending" /\ Set(r, "failed")
  /\ UNCHANGED <<content, told>>

\* The record is lost when the program is killed while it saves it.  Nobody
\* was told of the outcome then.
Lose(r) ==
  /\ status[r] # "none" /\ told[r] = {}
  /\ Set(r, "lost")
  /\ content' = [content EXCEPT ![r] = NoResult]
  /\ UNCHANGED told

Outcome(r) ==
  CASE status[r] = "published" ->
         {[kind |-> "requester_dm_published", content |-> content[r]]}
    [] status[r] = "owner_rejected" ->
         {[kind |-> "requester_dm_rejected", content |-> NoResult]}
    [] status[r] = "failed" ->
         {[kind |-> IF r \in Imported THEN "requester_dm_cancelled"
                    ELSE "requester_dm_failed", content |-> NoResult]}
    [] OTHER -> {}

Tell(r) ==
  /\ told[r] = {}
  /\ \E m \in Outcome(r) : told' = [told EXCEPT ![r] = {m}]
  /\ UNCHANGED <<status, content>>

SharedNext ==
  \E r \in Requests :
    \/ Open(r) \/ Fail(r) \/ Release(r) \/ Refuse(r) \/ Lose(r) \/ Tell(r)
    \/ \E a \in Results \cup {NoResult} : Answer(r, a)

Spec == SharedInit /\ [][SharedNext]_shared

=============================================================================
