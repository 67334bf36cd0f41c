---------------------------- MODULE SharedAccess ----------------------------
(***************************************************************************)
(* A lookup in an owner's mailbox, below the coordinator: `openclaw-hostctl *)
(* shared-access execute` checks the owner's Google token, reaches the     *)
(* guest, whose helper has the broker check the token again and then runs  *)
(* a search; and the `google-auth` commands that obtain and refresh the    *)
(* token (hostctl.py, cli.py).  Each of them reads and rewrites one token  *)
(* file in the guest, without a lock and within timeouts.                  *)
(*                                                                         *)
(* Simplifications: time is in units of 5 minutes; of two writers that     *)
(* write at once the last one wins; a search is a step that begins and one *)
(* that ends.                                                              *)
(***************************************************************************)
EXTENDS Naturals

CONSTANTS
  Users,        \* the owners; each has a guest
  Requests,     \* the lookups asked of the relay
  OwnerOf,      \* whose mailbox each is about
  Commands,     \* google-auth commands, and status checks, at one time
  Life,         \* how long an access token lives (Google's expires_in)
  Skew,         \* GOOGLE_ACCESS_TOKEN_REFRESH_SKEW_SECONDS
  SearchTime,   \* the timeout of the helper's search
  MaxStarts,    \* bound on the authorizations that are started
  Offline,      \* those for which Google gives a refresh token
  MaxNow,       \* bound on the time
  Absent, Torn, None

Times == 0 .. MaxNow
States == 1 .. MaxStarts   \* the `state` of an authorization's URL

\* A token is from one authorization and was obtained at one time.
Token == [grant : States, born : Times]

ASSUME AccessAssumption ==
  /\ OwnerOf \in [Requests -> Users]
  /\ Requests \cap Commands = {}
  /\ {Life, Skew, SearchTime, MaxStarts, MaxNow} \subseteq Nat
  /\ {Absent, Torn, None} \cap Token = {} /\ Absent # Torn
  /\ None \notin States /\ Offline \subseteq States
  /\ None \notin Users \cup {"relay", "helper", "command", "pending"}

\* 10 minutes, 15 minutes and an hour in the code.
ASSUME TimesAssumption ==
  SearchTime < Skew /\ Skew < Life /\ SearchTime + 2 < Life

Procs == Requests \cup Commands

VARIABLES
  asked,     \* oauth-state.json: the state each user's finish expects
  starter,   \* the user each authorization was started for
  codes,     \* the authorizations approved in a browser, not yet redeemed
  token,     \* google-gmail-token.json in each user's guest
  config,    \* has the guest's shared-access.json the opt-in?
  awake,     \* the guests that run
  now,
  pc, work,  \* what each process does next, and its local variables
  outcome    \* what the relay returned

google == <<asked, starter, codes>>
guest == <<config, awake>>
vars == <<google, token, guest, now, pc, work, outcome>>

NoWork == [user |-> None, phase |-> None, token |-> None, begun |-> 0]

Init ==
  /\ asked = [u \in Users |-> None]
  /\ starter = [s \in States |-> None]
  /\ codes = {}
  /\ token = [u \in Users |-> Absent]
  /\ config = [u \in Users |-> TRUE]
  /\ awake = Users
  /\ now = 0
  /\ pc = [x \in Procs |-> "idle"]
  /\ work = [x \in Procs |-> NoWork]
  /\ outcome = [r \in Requests |-> None]

Goto(x, l, w) == pc' = [pc EXCEPT ![x] = l] /\ work' = [work EXCEPT ![x] = w]

Continue(x, l) == pc' = [pc EXCEPT ![x] = l] /\ UNCHANGED work

\* The relay returns, if it still waits.
Return(x, o) ==
  outcome' = IF x \in Requests /\ outcome[x] = "pending"
               THEN [outcome EXCEPT ![x] = o] ELSE outcome

\* The process ends; a relay it works for gets a failure.
Fail(x) == Goto(x, "idle", NoWork) /\ Return(x, "failed")

-----------------------------------------------------------------------------
(* The check of a token: google_auth_status *)

\* Mutant: a token is used until it expires.
MutFresh(t) == now < t.born + Life

Fresh(t) == now + Skew < t.born + Life

\* A token without a refresh token is good whatever its age, and is not
\* refreshed by force either.
Renewable(t) == t.grant \in Offline

\* What follows a token that is good.
Checked(x, t) ==
  \/ /\ work[x].phase = "relay" /\ Goto(x, "paired", [work[x] EXCEPT !.token = t])
     /\ UNCHANGED outcome
  \/ /\ work[x].phase = "helper" /\ Goto(x, "gateway", [work[x] EXCEPT !.token = t])
     /\ UNCHANGED outcome
  \/ /\ work[x].phase = "command" /\ Goto(x, "idle", NoWork)
     /\ UNCHANGED outcome

\* No file or no guest is "not connected", half a file an exception.  Commands
\* may force a refresh.
Read(x) ==
  LET u == work[x].user
      readable == u \in awake /\ token[u] \in Token
  IN /\ pc[x] = "read"
     /\ \/ /\ readable /\ (~Renewable(token[u]) \/ Fresh(token[u]))
           /\ Checked(x, token[u])
        \/ /\ readable /\ Renewable(token[u])
           /\ ~Fresh(token[u]) \/ work[x].phase = "command"
           /\ Goto(x, "exchange", [work[x] EXCEPT !.token = token[u]])
           /\ UNCHANGED outcome
        \/ ~readable /\ Fail(x)
     /\ UNCHANGED <<google, token, guest, now>>

\* Google gives a new access token, unless the grant was withdrawn or the call
\* fails; `cat >` empties the file.
Exchange(x) ==
  LET u == work[x].user IN
  /\ pc[x] = "exchange"
  /\ \/ /\ u \in awake
        /\ token' = [token EXCEPT ![u] = Torn]
        /\ Goto(x, "write", [work[x] EXCEPT !.token = [@ EXCEPT !.born = now]])
        /\ UNCHANGED outcome
     \/ Fail(x) /\ UNCHANGED token
  /\ UNCHANGED <<google, guest, now>>

Write(x) ==
  /\ pc[x] = "write" /\ work[x].user \in awake
  /\ token' = [token EXCEPT ![work[x].user] = work[x].token]
  /\ Checked(x, work[x].token)
  /\ UNCHANGED <<google, guest, now>>

-----------------------------------------------------------------------------
(* A lookup *)

Execute(r) ==
  /\ pc[r] = "idle" /\ outcome[r] = None
  /\ outcome' = [outcome EXCEPT ![r] = "pending"]
  /\ Goto(r, "read", [user |-> OwnerOf[r], phase |-> "relay", token |-> None, begun |-> now])
  /\ UNCHANGED <<google, token, guest, now>>

\* The relay asks whether the guest's gateway has a paired admin, which can
\* change at any time, and then starts the helper.
AskPaired(r) ==
  LET u == work[r].user IN
  /\ pc[r] = "paired"
  /\ \/ /\ u \in awake
        /\ Goto(r, "config", [work[r] EXCEPT !.phase = "helper", !.begun = now])
        /\ UNCHANGED outcome
     \/ Fail(r)
  /\ UNCHANGED <<google, token, guest, now>>

\* The helper reads its configuration, and starts the configured command.
AskConfig(r) ==
  LET u == work[r].user IN
  /\ pc[r] = "config"
  /\ \/ u \in awake /\ config[u] /\ Continue(r, "read") /\ UNCHANGED outcome
     \/ (u \notin awake \/ ~config[u]) /\ Fail(r)
  /\ UNCHANGED <<google, token, guest, now>>

\* The helper asks the same, and starts the search in a session of its own.
AskGateway(r) ==
  /\ pc[r] = "gateway"
  /\ \/ Goto(r, "search", [work[r] EXCEPT !.begun = now]) /\ UNCHANGED outcome
     \/ Fail(r)
  /\ UNCHANGED <<google, token, guest, now>>

\* An answer without references, or with raw content, is a failure.
SearchEnds(r) ==
  /\ pc[r] = "search"
  /\ \/ Goto(r, "idle", NoWork) /\ Return(r, "answer")
     \/ Fail(r)
  /\ UNCHANGED <<google, token, guest, now>>

\* The write of a process that is gone was done or not.
CutWrite(x) ==
  \/ UNCHANGED token
  \/ /\ pc[x] = "write" /\ work[x].user \in awake
     /\ token' = [token EXCEPT ![work[x].user] = work[x].token]

\* Mutant: the ssh that waits for the helper has no timeout.
MutTimeout(r) ==
  /\ outcome[r] = "pending" /\ work[r].phase = "relay"
  /\ Fail(r) /\ CutWrite(r)
  /\ UNCHANGED <<google, guest, now>>

\* The relay's timeout, or the coordinator's, which kills the relay: what runs
\* in the guest goes on.
Timeout(r) ==
  /\ outcome[r] = "pending"
  /\ outcome' = [outcome EXCEPT ![r] = "timeout"]
  /\ \/ work[r].phase = "relay" /\ Goto(r, "idle", NoWork) /\ CutWrite(r)
     \/ work[r].phase = "helper" /\ UNCHANGED <<pc, work, token>>
  /\ UNCHANGED <<google, guest, now>>

\* A process is killed, or gives up at one of its own timeouts.
GiveUp(x) ==
  /\ pc[x] # "idle"
  /\ Fail(x) /\ CutWrite(x)
  /\ UNCHANGED <<google, guest, now>>

-----------------------------------------------------------------------------
(* google-auth *)

\* Each start replaces the state of the one before.
AuthStart(u) ==
  /\ \E s \in States :
       /\ starter[s] = None /\ \A t \in States : t < s => starter[t] # None
       /\ starter' = [starter EXCEPT ![s] = u]
       /\ asked' = [asked EXCEPT ![u] = s]
  /\ UNCHANGED <<codes, token, guest, now, pc, work, outcome>>

\* Somebody opens the URL and agrees: Google makes a code of it.
Approve(s) ==
  /\ starter[s] # None /\ s \notin codes
  /\ codes' = codes \cup {s}
  /\ UNCHANGED <<asked, starter, token, guest, now, pc, work, outcome>>

\* Mutant: any code is taken.
MutExpects(u, s) == asked[u] # None

\* Has this user's finish the state of the callback?
Expects(u, s) == asked[u] = s

\* finish: a code is exchanged once, and the token written to the guest; the
\* code is used up also when the guest is off and the write will fail.  A
\* callback with another state, or whose code Google refuses, is an error.
AuthFinish(x) ==
  /\ pc[x] = "idle"
  /\ \E u \in Users, s \in codes :
       /\ Expects(u, s)
       /\ codes' = codes \ {s}
       /\ token' = IF u \in awake THEN [token EXCEPT ![u] = Torn] ELSE token
       /\ Goto(x, "write", [user |-> u, phase |-> "command",
                            token |-> [grant |-> s, born |-> now], begun |-> now])
  /\ UNCHANGED <<asked, starter, guest, now, outcome>>

\* status, refresh and refresh-all, from the host or from the guest.
AuthStatus(x) ==
  /\ pc[x] = "idle"
  /\ \E u \in Users :
       Goto(x, "read", [user |-> u, phase |-> "command", token |-> None, begun |-> now])
  /\ UNCHANGED <<google, token, guest, now, outcome>>

-----------------------------------------------------------------------------
(* The guest *)

InGuest(x, u) ==
  work[x].user = u /\ work[x].phase = "helper"

\* The guests nobody looks into stay up.
Owners == {OwnerOf[r] : r \in Requests}

\* What runs in the guest ends with it.
StopGuest(u) ==
  /\ u \in awake \cap Owners
  /\ awake' = awake \ {u}
  /\ pc' = [x \in Procs |-> IF InGuest(x, u) THEN "idle" ELSE pc[x]]
  /\ work' = [x \in Procs |-> IF InGuest(x, u) THEN NoWork ELSE work[x]]
  /\ outcome' = [r \in Requests |->
       IF InGuest(r, u) /\ outcome[r] = "pending" THEN "failed" ELSE outcome[r]]
  /\ UNCHANGED <<google, token, config, now>>

StartGuest(u) ==
  /\ u \notin awake
  /\ awake' = awake \cup {u}
  /\ UNCHANGED <<google, token, config, now, pc, work, outcome>>

\* Mutant: an activation rewrites the disk of a guest that runs.
MutConfigure(u) ==
  /\ config' = [config EXCEPT ![u] = ~@]
  /\ UNCHANGED <<google, token, awake, now, pc, work, outcome>>

\* An activation writes shared-access.json to the disk of a guest that is off.
Configure(u) ==
  /\ u \notin awake
  /\ config' = [config EXCEPT ![u] = ~@]
  /\ UNCHANGED <<google, token, awake, now, pc, work, outcome>>

\* A search is over in SearchTime; every other series of steps takes less than
\* a unit, within its timeouts of 20 and 30 s.
Tick ==
  /\ now < MaxNow
  /\ \A x \in Procs :
       pc[x] # "idle" => now < work[x].begun + (IF pc[x] = "search" THEN SearchTime ELSE 1)
  /\ now' = now + 1
  /\ UNCHANGED <<google, token, guest, pc, work, outcome>>

-----------------------------------------------------------------------------
Next ==
  \/ \E x \in Procs : Read(x) \/ Exchange(x) \/ Write(x) \/ GiveUp(x)
  \/ \E r \in Requests :
       \/ Execute(r) \/ AskPaired(r) \/ AskConfig(r) \/ AskGateway(r)
       \/ SearchEnds(r) \/ Timeout(r)
  \/ \E x \in Commands : AuthFinish(x) \/ AuthStatus(x)
  \/ \E s \in States : Approve(s)
  \/ \E u \in Users :
       AuthStart(u) \/ StopGuest(u) \/ StartGuest(u) \/ Configure(u)
  \/ Tick

Spec == Init /\ [][Next]_vars

\* subprocess.run keeps its timeout; nothing is asked of guests or Google.
Fairness == \A r \in Requests : WF_vars(Timeout(r))

LiveSpec == Spec /\ Fairness

-----------------------------------------------------------------------------
(* Properties *)

Work ==
  [user : Users \cup {None}, phase : {None, "relay", "helper", "command"},
   token : Token \cup {None}, begun : Times]

\* The type invariant.
TypeOK ==
  /\ asked \in [Users -> States \cup {None}]
  /\ starter \in [States -> Users \cup {None}]
  /\ codes \in SUBSET States
  /\ token \in [Users -> Token \cup {Absent, Torn}]
  /\ config \in [Users -> BOOLEAN]
  /\ awake \in SUBSET Users
  /\ now \in Times
  /\ pc \in [Procs -> {"idle", "read", "exchange", "write", "paired", "config",
                       "gateway", "search"}]
  /\ work \in [Procs -> Work]
  /\ outcome \in [Requests -> {None, "pending", "answer", "failed", "timeout"}]

\* Preflight is enough for a token that can be renewed: while a search runs, the
\* access token it was begun with does not expire before the search does, nor does
\* one that refreshes and authorizations have put in its place meanwhile
\* (GOOGLE_ACCESS_TOKEN_REFRESH_SKEW_SECONDS).  Of one without a refresh token the
\* check asks no age, and nothing is said.
TokenOutlivesSearch ==
  \A r \in Requests :
    LET t == token[work[r].user] IN
    pc[r] = "search" /\ Renewable(work[r].token) =>
      /\ now < work[r].token.born + Life
      /\ t \in Token => now < t.born + Life

\* A mailbox is searched only while its owner's guest runs with the opt-in: an
\* activation that withdraws it ends the searches under way.
SearchIsAllowed ==
  \A r \in Requests :
    pc[r] = "search" => OwnerOf[r] \in awake /\ config[OwnerOf[r]]

\* A guest's token, or one about to be written to it, is from an authorization
\* that was started for its user, in whatever order starts, approvals and
\* callbacks come (the state of google_auth_finish).
TokenIsOfItsUser ==
  /\ \A u \in Users : token[u] \in Token => starter[token[u].grant] = u
  /\ \A x \in Procs : work[x].token \in Token => starter[work[x].token.grant] = work[x].user

\* The relay ends, whatever hangs: the guest, the broker, Google or the search.
EveryExecuteEnds ==
  \A r \in Requests : outcome[r] = "pending" ~> outcome[r] \in {"answer", "failed", "timeout"}

=============================================================================
