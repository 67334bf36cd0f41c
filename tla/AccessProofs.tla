---------------------------- MODULE AccessProofs ----------------------------
(***************************************************************************)
(* A mailbox is searched only with its owner's token, which lasts, and     *)
(* with the owner's opt-in, for any users, lookups and commands.           *)
(***************************************************************************)
EXTENDS SharedAccess, TLAPS

\* What a process holds at each of its steps, and for how long.
Shape(x) ==
  /\ pc[x] = "idle" => work[x] = NoWork
  /\ pc[x] # "idle" =>
       /\ work[x].user \in Users /\ work[x].phase # None
       /\ work[x].begun <= now
       /\ now <= work[x].begun + (IF pc[x] = "search" THEN SearchTime ELSE 1)
  /\ pc[x] \in {"exchange", "write", "gateway", "search"} => work[x].token \in Token
  /\ work[x].phase \in {"relay", "helper"} => x \in Requests /\ work[x].user = OwnerOf[x]
  /\ pc[x] = "paired" => work[x].phase = "relay"
  /\ pc[x] \in {"config", "gateway", "search"} => work[x].phase = "helper"

Typed == TypeOK /\ \A x \in Procs : Shape(x)

LEMMA NoWorkTyped == NoWork \in Work /\ 0 \in Times
  BY AccessAssumption DEF NoWork, Work, Times

LEMMA TokenTyped ==
  ASSUME NEW t \in Token
  PROVE  /\ t.grant \in States /\ t.born \in Times
         /\ \A b \in Times : [t EXCEPT !.born = b] \in Token
         /\ t # Absent /\ t # Torn /\ t # None
  BY AccessAssumption DEF Token

\* A step that moves one process to a step with local variables that fit.
LEMMA MoveTyped ==
  ASSUME Typed, NEW x \in Procs, NEW l, NEW w \in Work, Goto(x, l, w), now' = now,
         l \in {"idle", "read", "exchange", "write", "paired", "config", "gateway", "search"},
         l = "idle" => w = NoWork,
         l # "idle" =>
           w.user \in Users /\ w.phase # None /\ w.begun <= now,
         l \notin {"idle", "search"} => now <= w.begun + 1,
         l = "search" => now <= w.begun + SearchTime,
         l \in {"exchange", "write", "gateway", "search"} => w.token \in Token,
         w.phase \in {"relay", "helper"} => x \in Requests /\ w.user = OwnerOf[x],
         l = "paired" => w.phase = "relay",
         l \in {"config", "gateway", "search"} => w.phase = "helper"
  PROVE  /\ pc' \in [Procs -> {"idle", "read", "exchange", "write", "paired", "config",
                               "gateway", "search"}]
         /\ work' \in [Procs -> Work]
         /\ \A y \in Procs : Shape(y)'
<1>1. /\ pc \in [Procs -> {"idle", "read", "exchange", "write", "paired", "config",
                           "gateway", "search"}]
      /\ work \in [Procs -> Work]
      /\ \A y \in Procs : Shape(y)
  BY DEF Typed, TypeOK
<1>2. /\ pc'[x] = l /\ work'[x] = w
      /\ \A y \in Procs \ {x} : pc'[y] = pc[y] /\ work'[y] = work[y]
  BY <1>1 DEF Goto
<1>3. Shape(x)'
  BY <1>2 DEF Shape
<1>4. \A y \in Procs \ {x} : Shape(y)'
  BY <1>1, <1>2 DEF Shape
<1> QED
  BY <1>1, <1>3, <1>4 DEF Goto


\* A process that ends.
LEMMA EndTyped ==
  ASSUME Typed, NEW x \in Procs, Goto(x, "idle", NoWork), now' = now
  PROVE  /\ pc' \in [Procs -> {"idle", "read", "exchange", "write", "paired", "config",
                               "gateway", "search"}]
         /\ work' \in [Procs -> Work]
         /\ \A y \in Procs : Shape(y)'
<1>1. /\ NoWork \in Work /\ NoWork.phase \notin {"relay", "helper"}
      /\ NoWork.begun = 0 /\ 0 <= now
  BY NoWorkTyped, AccessAssumption DEF NoWork, Typed, TypeOK, Times
<1> QED
  BY <1>1, MoveTyped

\* What follows a good token, when the process held what it must.
LEMMA CheckedTyped ==
  ASSUME Typed, NEW x \in Procs, NEW t \in Token, Checked(x, t), pc[x] \in {"read", "write"},
         now' = now
  PROVE  /\ pc' \in [Procs -> {"idle", "read", "exchange", "write", "paired", "config",
                               "gateway", "search"}]
         /\ work' \in [Procs -> Work]
         /\ \A y \in Procs : Shape(y)'
         /\ outcome' = outcome
<1>1. Shape(x) /\ work[x] \in Work
  BY DEF Typed, TypeOK
<1> DEFINE w == [work[x] EXCEPT !.token = t]
<1>2. /\ w \in Work /\ w.token = t /\ w.user = work[x].user /\ w.phase = work[x].phase
      /\ w.begun = work[x].begun
      /\ work[x].user \in Users /\ work[x].phase # None
      /\ work[x].begun <= now /\ now <= work[x].begun + 1
      /\ work[x].phase \in {"relay", "helper"} => x \in Requests /\ work[x].user = OwnerOf[x]
  BY <1>1 DEF Work, Shape
<1>2a. /\ outcome' = outcome
      /\ \/ work[x].phase = "relay" /\ Goto(x, "paired", w)
         \/ work[x].phase = "helper" /\ Goto(x, "gateway", w)
         \/ Goto(x, "idle", NoWork)
  BY DEF Checked
<1> HIDE DEF w
<1>3. CASE work[x].phase = "relay" /\ Goto(x, "paired", w)
  BY <1>2, <1>3, <1>2a, MoveTyped
<1>4. CASE work[x].phase = "helper" /\ Goto(x, "gateway", w)
  BY <1>2, <1>4, <1>2a, MoveTyped
<1>5. CASE Goto(x, "idle", NoWork)
  BY <1>5, <1>2a, EndTyped
<1> QED
  BY <1>3, <1>4, <1>5, <1>2a

LEMMA ReturnTyped ==
  ASSUME TypeOK, NEW x, NEW o \in {"answer", "failed"}, Return(x, o)
  PROVE  outcome' \in [Requests -> {None, "pending", "answer", "failed", "timeout"}]
  BY DEF TypeOK, Return

LEMMA CutTyped ==
  ASSUME Typed, NEW x \in Procs, CutWrite(x)
  PROVE  token' \in [Users -> Token \cup {Absent, Torn}]
<1>1. Shape(x) /\ token \in [Users -> Token \cup {Absent, Torn}]
  BY DEF Typed, TypeOK
<1> QED
  BY <1>1 DEF CutWrite, Shape


LEMMA InitTyped == Init => Typed
  BY NoWorkTyped, AccessAssumption DEF Init, Typed, TypeOK, Shape, NoWork

LEMMA TypedStep == Typed /\ [Next]_vars => Typed'
<1> SUFFICES ASSUME Typed, [Next]_vars PROVE Typed'
  OBVIOUS
<1>0. /\ TypeOK /\ now \in Nat /\ now \in Times
      /\ token \in [Users -> Token \cup {Absent, Torn}]
      /\ Requests \subseteq Procs /\ Commands \subseteq Procs
      /\ \A r \in Requests : OwnerOf[r] \in Users
      /\ SearchTime \in Nat
  BY AccessAssumption DEF Typed, TypeOK, Times, Procs
<1>1. ASSUME NEW x \in Procs, Read(x) PROVE Typed'
  <2>1. Shape(x) /\ work[x] \in Work /\ pc[x] = "read"
    BY <1>1 DEF Typed, TypeOK, Read
  <2> DEFINE u == work[x].user  w == [work[x] EXCEPT !.token = token[u]]
  <2>2. UNCHANGED <<google, token, guest, now>>
    BY <1>1 DEF Read
  <2>3. CASE token[u] \in Token /\ Checked(x, token[u])
    BY <2>1, <2>2, <2>3, CheckedTyped, <1>0 DEF Typed, TypeOK, google, guest
  <2>4. CASE token[u] \in Token /\ Goto(x, "exchange", w) /\ outcome' = outcome
    <3>1. /\ w \in Work /\ w.token = token[u] /\ w.user = work[x].user
          /\ w.phase = work[x].phase /\ w.begun = work[x].begun
          /\ work[x].user \in Users /\ work[x].phase # None
          /\ work[x].begun <= now /\ now <= work[x].begun + 1
          /\ work[x].phase \in {"relay", "helper"} => x \in Requests /\ work[x].user = OwnerOf[x]
      BY <2>1, <2>4 DEF Work, Shape
    <3> HIDE DEF w
    <3> QED
      BY <2>2, <2>4, <3>1, MoveTyped, <1>0 DEF Typed, TypeOK, google, guest
  <2>5. CASE Fail(x)
    BY <2>2, <2>5, EndTyped, ReturnTyped, <1>0 DEF Typed, TypeOK, google, guest, Fail
  <2> QED
    BY <1>1, <2>3, <2>4, <2>5 DEF Read
<1>2. ASSUME NEW x \in Procs, Exchange(x) PROVE Typed'
  <2>1. Shape(x) /\ work[x] \in Work /\ pc[x] = "exchange"
    BY <1>2 DEF Typed, TypeOK, Exchange
  <2> DEFINE u == work[x].user  t == [work[x].token EXCEPT !.born = now]
             w == [work[x] EXCEPT !.token = t]
  <2>2. UNCHANGED <<google, guest, now>>
    BY <1>2 DEF Exchange
  <2>3. CASE /\ token' = [token EXCEPT ![u] = Torn]
             /\ Goto(x, "write", w) /\ outcome' = outcome
    <3>1. work[x].token \in Token
      BY <2>1 DEF Shape
    <3>2. t \in Token
      BY <3>1, TokenTyped, <1>0
    <3> HIDE DEF t
    <3>3. /\ w \in Work /\ w.token = t /\ w.user = work[x].user
          /\ w.phase = work[x].phase /\ w.begun = work[x].begun
          /\ work[x].user \in Users /\ work[x].phase # None
          /\ work[x].begun <= now /\ now <= work[x].begun + 1
          /\ work[x].phase \in {"relay", "helper"} => x \in Requests /\ work[x].user = OwnerOf[x]
      BY <2>1, <3>2 DEF Work, Shape
    <3>4. token' \in [Users -> Token \cup {Absent, Torn}]
      BY <2>3, <1>0
    <3> HIDE DEF w
    <3> QED
      BY <2>2, <2>3, <3>2, <3>3, <3>4, MoveTyped, <1>0 DEF Typed, TypeOK, google, guest
  <2>4. CASE Fail(x) /\ token' = token
    BY <2>2, <2>4, EndTyped, ReturnTyped, <1>0 DEF Typed, TypeOK, google, guest, Fail
  <2> QED
    BY <1>2, <2>3, <2>4 DEF Exchange
<1>3. ASSUME NEW x \in Procs, Write(x) PROVE Typed'
  <2>1. Shape(x) /\ pc[x] = "write" /\ work[x].token \in Token
    BY <1>3 DEF Typed, Write, Shape
  <2>2. /\ token' \in [Users -> Token \cup {Absent, Torn}]
        /\ UNCHANGED <<google, guest, now>> /\ Checked(x, work[x].token)
    BY <1>3, <2>1, <1>0 DEF Write
  <2> QED
    BY <2>1, <2>2, CheckedTyped, <1>0 DEF Typed, TypeOK, google, guest
<1>4. ASSUME NEW x \in Procs, GiveUp(x) PROVE Typed'
  BY <1>4, EndTyped, ReturnTyped, CutTyped, <1>0 DEF Typed, TypeOK, google, guest, Fail, GiveUp
<1>5. ASSUME NEW r \in Requests, Execute(r) PROVE Typed'
  <2> DEFINE w == [user |-> OwnerOf[r], phase |-> "relay", token |-> None, begun |-> now]
  <2>1. /\ w \in Work /\ w.user \in Users /\ w.user = OwnerOf[r] /\ w.phase = "relay"
        /\ w.begun = now /\ "relay" # None
    BY <1>0, AccessAssumption DEF Work
  <2> HIDE DEF w
  <2>2. /\ Goto(r, "read", w) /\ UNCHANGED <<google, token, guest, now>>
        /\ outcome' = [outcome EXCEPT ![r] = "pending"]
    BY <1>5 DEF Execute, w
  <2> QED
    BY <2>1, <2>2, MoveTyped, <1>0 DEF Typed, TypeOK, google, guest
<1>6. ASSUME NEW r \in Requests, AskPaired(r) PROVE Typed'
  <2>1. Shape(r) /\ work[r] \in Work /\ pc[r] = "paired"
    BY <1>6, <1>0 DEF Typed, TypeOK, AskPaired
  <2> DEFINE w == [work[r] EXCEPT !.phase = "helper", !.begun = now]
  <2>2. UNCHANGED <<google, token, guest, now>>
    BY <1>6 DEF AskPaired
  <2>3. CASE Goto(r, "config", w) /\ outcome' = outcome
    <3>1. /\ w \in Work /\ w.user = OwnerOf[r] /\ w.user \in Users /\ w.phase = "helper"
          /\ w.begun = now /\ "helper" # None
      BY <2>1, <1>0, AccessAssumption DEF Work, Shape
    <3> HIDE DEF w
    <3> QED
      BY <2>2, <2>3, <3>1, MoveTyped, <1>0 DEF Typed, TypeOK, google, guest
  <2>4. CASE Fail(r)
    BY <2>2, <2>4, EndTyped, ReturnTyped, <1>0 DEF Typed, TypeOK, google, guest, Fail
  <2> QED
    BY <1>6, <2>3, <2>4 DEF AskPaired
<1>7. ASSUME NEW r \in Requests, AskConfig(r) PROVE Typed'
  <2>1. Shape(r) /\ work[r] \in Work /\ pc[r] = "config"
    BY <1>7, <1>0 DEF Typed, TypeOK, AskConfig
  <2>2. UNCHANGED <<google, token, guest, now>>
    BY <1>7 DEF AskConfig
  <2>3. CASE Continue(r, "read") /\ outcome' = outcome
    <3>1. Goto(r, "read", work[r])
      BY <2>3, <1>0 DEF Goto, Continue, TypeOK
    <3>2. /\ work[r].user \in Users /\ work[r].phase # None /\ work[r].begun <= now
          /\ now <= work[r].begun + 1
          /\ work[r].phase \in {"relay", "helper"} => work[r].user = OwnerOf[r]
      BY <2>1 DEF Shape
    <3> QED
      BY <2>1, <2>2, <2>3, <3>1, <3>2, MoveTyped, <1>0 DEF Typed, TypeOK, google, guest
  <2>4. CASE Fail(r)
    BY <2>2, <2>4, EndTyped, ReturnTyped, <1>0 DEF Typed, TypeOK, google, guest, Fail
  <2> QED
    BY <1>7, <2>3, <2>4 DEF AskConfig
<1>8. ASSUME NEW r \in Requests, AskGateway(r) PROVE Typed'
  <2>1. Shape(r) /\ work[r] \in Work /\ pc[r] = "gateway"
    BY <1>8, <1>0 DEF Typed, TypeOK, AskGateway
  <2> DEFINE w == [work[r] EXCEPT !.begun = now]
  <2>2. UNCHANGED <<google, token, guest, now>>
    BY <1>8 DEF AskGateway
  <2>3. CASE Goto(r, "search", w) /\ outcome' = outcome
    <3>1. /\ w \in Work /\ w.user = OwnerOf[r] /\ w.user \in Users /\ w.phase = "helper"
          /\ w.begun = now /\ "helper" # None /\ w.token \in Token
      BY <2>1, <1>0, AccessAssumption DEF Work, Shape
    <3> HIDE DEF w
    <3> QED
      BY <2>2, <2>3, <3>1, MoveTyped, <1>0 DEF Typed, TypeOK, google, guest
  <2>4. CASE Fail(r)
    BY <2>2, <2>4, EndTyped, ReturnTyped, <1>0 DEF Typed, TypeOK, google, guest, Fail
  <2> QED
    BY <1>8, <2>3, <2>4 DEF AskGateway
<1>9. ASSUME NEW r \in Requests, SearchEnds(r) PROVE Typed'
  BY <1>9, EndTyped, ReturnTyped, <1>0 DEF Typed, TypeOK, google, guest, Fail, SearchEnds
<1>10. ASSUME NEW r \in Requests, Timeout(r) PROVE Typed'
  <2>1. /\ outcome' \in [Requests -> {None, "pending", "answer", "failed", "timeout"}]
        /\ UNCHANGED <<google, guest, now>>
    BY <1>10, <1>0 DEF Timeout, TypeOK
  <2>2. CASE Goto(r, "idle", NoWork) /\ CutWrite(r)
    BY <2>1, <2>2, EndTyped, CutTyped, <1>0 DEF Typed, TypeOK, google, guest
  <2>3. CASE UNCHANGED <<pc, work, token>>
    BY <2>1, <2>3, <1>0 DEF Typed, TypeOK, google, guest, Shape
  <2> QED
    BY <1>10, <2>2, <2>3 DEF Timeout
<1>11. ASSUME NEW x \in Commands, AuthFinish(x) PROVE Typed'
  <2> PICK u \in Users, s \in codes :
        /\ Expects(u, s) /\ codes' = codes \ {s}
        /\ token' = IF u \in awake THEN [token EXCEPT ![u] = Torn] ELSE token
        /\ Goto(x, "write", [user |-> u, phase |-> "command",
                             token |-> [grant |-> s, born |-> now], begun |-> now])
    BY <1>11 DEF AuthFinish
  <2> DEFINE w == [user |-> u, phase |-> "command",
                   token |-> [grant |-> s, born |-> now], begun |-> now]
  <2>1. UNCHANGED <<asked, starter, guest, now, outcome>>
    BY <1>11 DEF AuthFinish
  <2>2. /\ w \in Work /\ w.user \in Users /\ w.phase = "command" /\ w.begun = now
        /\ w.token \in Token /\ "command" # None
    BY <1>0, AccessAssumption DEF Work, Token, TypeOK
  <2>3. codes' \in SUBSET States /\ token' \in [Users -> Token \cup {Absent, Torn}]
    BY <1>0 DEF TypeOK
  <2>4. Goto(x, "write", w)
    OBVIOUS
  <2> HIDE DEF w
  <2> QED
    BY <2>1, <2>2, <2>3, <2>4, MoveTyped, <1>0 DEF Typed, TypeOK, guest
<1>12. ASSUME NEW x \in Commands, AuthStatus(x) PROVE Typed'
  <2> PICK u \in Users :
        Goto(x, "read", [user |-> u, phase |-> "command", token |-> None, begun |-> now])
    BY <1>12 DEF AuthStatus
  <2> DEFINE w == [user |-> u, phase |-> "command", token |-> None, begun |-> now]
  <2>1. UNCHANGED <<google, token, guest, now, outcome>>
    BY <1>12 DEF AuthStatus
  <2>2. /\ w \in Work /\ w.user \in Users /\ w.phase = "command" /\ w.begun = now
        /\ "command" # None
    BY <1>0, AccessAssumption DEF Work
  <2>3. Goto(x, "read", w)
    OBVIOUS
  <2> HIDE DEF w
  <2> QED
    BY <2>1, <2>2, <2>3, MoveTyped, <1>0 DEF Typed, TypeOK, google, guest
<1>13. ASSUME NEW s \in States, Approve(s) PROVE Typed'
  BY <1>13, <1>0 DEF Approve, Typed, TypeOK, guest, Shape
<1>14. ASSUME NEW u \in Users, AuthStart(u) PROVE Typed'
  BY <1>14, <1>0 DEF AuthStart, Typed, TypeOK, guest, Shape
<1>15. ASSUME NEW u \in Users, StopGuest(u) PROVE Typed'
  <2>1. /\ awake' \in SUBSET Users /\ UNCHANGED <<google, token, config, now>>
        /\ pc' \in [Procs -> {"idle", "read", "exchange", "write", "paired", "config",
                              "gateway", "search"}]
        /\ work' \in [Procs -> Work]
        /\ outcome' \in [Requests -> {None, "pending", "answer", "failed", "timeout"}]
    BY <1>15, <1>0, NoWorkTyped DEF StopGuest, TypeOK
  <2>2. ASSUME NEW x \in Procs PROVE Shape(x)'
    <3>1. Shape(x) /\ now' = now
      BY <1>15 DEF Typed, StopGuest
    <3>2. \/ pc'[x] = "idle" /\ work'[x] = NoWork
          \/ pc'[x] = pc[x] /\ work'[x] = work[x]
      BY <1>15 DEF StopGuest
    <3>3. NoWork.phase \notin {"relay", "helper"}
      BY AccessAssumption DEF NoWork
    <3> QED
      BY <3>1, <3>2, <3>3 DEF Shape
  <2> QED
    BY <2>1, <2>2, <1>0 DEF Typed, TypeOK, google
<1>16. ASSUME NEW u \in Users, StartGuest(u) PROVE Typed'
  BY <1>16, <1>0 DEF StartGuest, Typed, TypeOK, google, Shape
<1>17. ASSUME NEW u \in Users, Configure(u) PROVE Typed'
  BY <1>17, <1>0 DEF Configure, Typed, TypeOK, google, Shape
<1>18. ASSUME Tick PROVE Typed'
  <2>1. /\ now' = now + 1 /\ now' \in Times /\ UNCHANGED <<google, token, guest, pc, work, outcome>>
    BY <1>18, <1>0, AccessAssumption DEF Tick, Times
  <2>2. ASSUME NEW x \in Procs PROVE Shape(x)'
    <3>1. Shape(x) /\ work[x] \in Work
      BY <1>0 DEF Typed, TypeOK
    <3>2. work[x].begun \in Nat
      BY <3>1, AccessAssumption DEF Work, Times
    <3>3. pc[x] # "idle" => now < work[x].begun + (IF pc[x] = "search" THEN SearchTime ELSE 1)
      BY <1>18 DEF Tick
    <3> QED
      BY <2>1, <3>1, <3>2, <3>3, <1>0 DEF Shape
  <2> QED
    BY <2>1, <2>2, <1>0 DEF Typed, TypeOK, google, guest
<1>19. CASE UNCHANGED vars
  BY <1>19, <1>0 DEF vars, google, guest, Typed, TypeOK, Shape
<1> QED
  BY <1>1, <1>2, <1>3, <1>4, <1>5, <1>6, <1>7, <1>8, <1>9, <1>10, <1>11, <1>12, <1>13, <1>14,
     <1>15, <1>16, <1>17, <1>18, <1>19 DEF Next

THEOREM AlwaysTyped == Spec => []Typed
<1>1. Init => Typed
  BY InitTyped
<1>2. Typed /\ [Next]_vars => Typed'
  BY TypedStep
<1> QED
  BY <1>1, <1>2, PTL DEF Spec

\* Whatever processes do, their local variables and the guests' files are of
\* their types.
THEOREM TypeCorrect == Spec => []TypeOK
<1>1. Typed => TypeOK
  BY DEF Typed
<1> QED
  BY <1>1, AlwaysTyped, PTL

-----------------------------------------------------------------------------
(* What a step can do to one process, and to one guest's file *)

\* The check lets the token pass.
Good(t) == Renewable(t) => Fresh(t)

Same(x) == work'[x].user = work[x].user /\ work'[x].phase = work[x].phase

\* The process moves on with the token t, checked.
Passes(x, t) ==
  /\ t \in Token /\ Same(x) /\ work'[x].token = t /\ work'[x].begun = work[x].begun
  /\ pc'[x] \in {"paired", "gateway"}

Moves(x) ==
  \/ pc'[x] = pc[x] /\ work'[x] = work[x]
  \/ pc'[x] = "idle" /\ work'[x] = NoWork
  \/ pc'[x] = "read" /\ work'[x].phase \in {"relay", "command"} /\ work'[x].token = None
  \/ /\ pc'[x] = "write" /\ work'[x].phase = "command" /\ work'[x].begun = now
     /\ work'[x].token.born = now /\ Expects(work'[x].user, work'[x].token.grant)
     /\ work'[x].token.grant \in States
  \/ pc[x] = "read" /\ Good(token[work[x].user]) /\ Passes(x, token[work[x].user])
  \/ /\ pc[x] = "read" /\ pc'[x] = "exchange" /\ Same(x)
     /\ token[work[x].user] \in Token /\ work'[x].token = token[work[x].user]
  \/ /\ pc[x] = "exchange" /\ pc'[x] = "write" /\ Same(x) /\ work'[x].begun = work[x].begun
     /\ work'[x].token.grant = work[x].token.grant /\ work'[x].token.born = now
  \/ /\ pc[x] = "write" /\ Passes(x, work[x].token)
     /\ token'[work[x].user] = work[x].token
  \/ /\ pc[x] = "paired" /\ pc'[x] = "config" /\ work'[x].user = work[x].user
     /\ work'[x].token = work[x].token /\ work[x].user \in awake
  \/ /\ pc[x] = "config" /\ pc'[x] = "read" /\ work'[x] = work[x]
     /\ config[work[x].user]
  \/ /\ pc[x] = "gateway" /\ pc'[x] = "search" /\ Same(x)
     /\ work'[x].token = work[x].token /\ work'[x].begun = now

FileMoves(u) ==
  \/ token'[u] = token[u]
  \/ token'[u] = Torn
  \/ \E x \in Procs :
       pc[x] = "write" /\ work[x].user = u /\ token'[u] = work[x].token

\* The guest u stays up with its configuration, or nothing runs in it.
GuestMoves(u) ==
  \/ u \in awake /\ u \in awake' /\ config'[u] = config[u]
  \/ u \notin awake
  \/ u \notin awake' /\ \A x \in Procs : ~(work'[x].user = u /\ work'[x].phase = "helper")

\* Authorizations: a new one is of a state that was free.
GoogleMoves ==
  \/ UNCHANGED <<asked, starter>>
  \/ \E u \in Users, s \in States :
       /\ starter[s] = None /\ starter' = [starter EXCEPT ![s] = u]
       /\ asked' = [asked EXCEPT ![u] = s]
       /\ UNCHANGED <<token, pc, work>>

LEMMA GotoMoves ==
  ASSUME Typed, NEW x \in Procs, NEW l, NEW w, Goto(x, l, w)
  PROVE  /\ pc'[x] = l /\ work'[x] = w
         /\ \A y \in Procs \ {x} : pc'[y] = pc[y] /\ work'[y] = work[y]
  BY DEF Typed, TypeOK, Goto

LEMMA CheckedMoves ==
  ASSUME Typed, NEW x \in Procs, NEW t \in Token, Checked(x, t)
  PROVE  /\ \A y \in Procs \ {x} : pc'[y] = pc[y] /\ work'[y] = work[y]
         /\ Passes(x, t) \/ (pc'[x] = "idle" /\ work'[x] = NoWork)
         /\ outcome' = outcome
<1> DEFINE w == [work[x] EXCEPT !.token = t]
<1>1. work[x] \in Work
  BY DEF Typed, TypeOK
<1>2. /\ w.token = t /\ w.user = work[x].user /\ w.phase = work[x].phase
      /\ w.begun = work[x].begun
  BY <1>1 DEF Work
<1>3. /\ \/ Goto(x, "paired", w) \/ Goto(x, "gateway", w)
         \/ Goto(x, "idle", NoWork)
      /\ outcome' = outcome
  BY DEF Checked
<1> HIDE DEF w
<1> QED
  BY <1>2, <1>3, GotoMoves DEF Passes, Same

LEMMA CutMoves ==
  ASSUME Typed, NEW x \in Procs, CutWrite(x)
  PROVE  \A u \in Users : FileMoves(u)
  BY DEF CutWrite, FileMoves, Typed, TypeOK

\* Every step does one of these to each process and to each guest.
LEMMA StepMoves ==
  ASSUME Typed, [Next]_vars
  PROVE  /\ \A x \in Procs : Moves(x)
         /\ \A u \in Users : FileMoves(u) /\ GuestMoves(u)
         /\ GoogleMoves
<1>0. /\ TypeOK /\ Requests \subseteq Procs /\ Commands \subseteq Procs
      /\ pc \in [Procs -> {"idle", "read", "exchange", "write", "paired", "config",
                           "gateway", "search"}]
      /\ work \in [Procs -> Work] /\ token \in [Users -> Token \cup {Absent, Torn}]
      /\ \A x \in Procs : Shape(x)
  BY DEF Typed, TypeOK, Procs
<1> DEFINE Goal == /\ \A x \in Procs : Moves(x)
                   /\ \A u \in Users : FileMoves(u) /\ GuestMoves(u)
                   /\ GoogleMoves
<1>1. ASSUME NEW x \in Procs, NEW l, NEW w, Goto(x, l, w), Moves(x),
             \A u \in Users : FileMoves(u), UNCHANGED <<asked, starter, config, awake>>
      PROVE  Goal
  BY <1>0, <1>1, GotoMoves DEF Moves, GuestMoves, GoogleMoves
<1>2. ASSUME NEW x \in Procs, Goto(x, "idle", NoWork),
             \A u \in Users : FileMoves(u), UNCHANGED <<asked, starter, config, awake>>
      PROVE  Goal
  BY <1>1, <1>2, GotoMoves DEF Moves
<1>3. token' = token => \A u \in Users : FileMoves(u)
  BY DEF FileMoves
<1>4. ASSUME NEW x \in Procs, NEW t \in Token, Checked(x, t), \A u \in Users : FileMoves(u),
             UNCHANGED <<asked, starter, config, awake>>,
             \/ pc[x] = "read" /\ Good(token[work[x].user]) /\ t = token[work[x].user]
             \/ pc[x] = "write" /\ t = work[x].token /\ token'[work[x].user] = t
      PROVE  Goal
  BY <1>0, <1>4, CheckedMoves DEF Moves, GuestMoves, GoogleMoves
<1>5. ASSUME NEW x \in Procs, Read(x) PROVE Goal
  <2> DEFINE u == work[x].user  w == [work[x] EXCEPT !.token = token[u]]
  <2>1. pc[x] = "read" /\ UNCHANGED <<google, token, guest, now>>
    BY <1>5 DEF Read
  <2>2. /\ w.token = token[u] /\ w.user = work[x].user /\ w.phase = work[x].phase
    BY <1>0 DEF Work
  <2>3. \/ token[u] \in Token /\ Good(token[u]) /\ Checked(x, token[u])
        \/ token[u] \in Token /\ Goto(x, "exchange", w)
        \/ Goto(x, "idle", NoWork)
    BY <1>5 DEF Read, Fail, Good
  <2> HIDE DEF w
  <2>4. CASE token[u] \in Token /\ Goto(x, "exchange", w)
    <3>1. Moves(x)
      BY <2>1, <2>2, <2>4, GotoMoves DEF Moves, Same
    <3> QED
      BY <1>1, <1>3, <2>1, <2>4, <3>1 DEF google, guest
  <2> QED
    BY <1>2, <1>3, <1>4, <2>1, <2>3, <2>4 DEF google, guest
<1>6. ASSUME NEW x \in Procs, Exchange(x) PROVE Goal
  <2> DEFINE u == work[x].user  t == [work[x].token EXCEPT !.born = now]
             w == [work[x] EXCEPT !.token = t]
  <2>1. pc[x] = "exchange" /\ UNCHANGED <<google, guest, now>> /\ work[x].token \in Token
    BY <1>6, <1>0 DEF Exchange, Shape
  <2>2. t.born = now /\ t.grant = work[x].token.grant
    BY <2>1 DEF Token
  <2> HIDE DEF t
  <2>3. /\ w.token = t /\ w.user = work[x].user /\ w.phase = work[x].phase
        /\ w.begun = work[x].begun
    BY <1>0 DEF Work
  <2>4. \/ token' = [token EXCEPT ![u] = Torn] /\ Goto(x, "write", w)
        \/ Goto(x, "idle", NoWork) /\ token' = token
    BY <1>6 DEF Exchange, Fail, t
  <2> HIDE DEF w
  <2>5. CASE token' = [token EXCEPT ![u] = Torn] /\ Goto(x, "write", w)
    <3>1. Moves(x)
      BY <2>1, <2>2, <2>3, <2>5, GotoMoves DEF Moves, Same
    <3>2. \A v \in Users : FileMoves(v)
      BY <1>0, <2>5 DEF FileMoves
    <3> QED
      BY <1>1, <2>1, <2>5, <3>1, <3>2 DEF google, guest
  <2> QED
    BY <1>2, <1>3, <2>1, <2>4, <2>5 DEF google, guest
<1>7. ASSUME NEW x \in Procs, Write(x) PROVE Goal
  <2>1. /\ pc[x] = "write" /\ UNCHANGED <<google, guest, now>> /\ work[x].token \in Token
        /\ token' = [token EXCEPT ![work[x].user] = work[x].token] /\ Checked(x, work[x].token)
    BY <1>7, <1>0 DEF Write, Shape
  <2>2. \A v \in Users : FileMoves(v)
    BY <1>0, <2>1 DEF FileMoves
  <2>3. token'[work[x].user] = work[x].token
    BY <1>0, <2>1 DEF Shape
  <2> QED
    BY <1>4, <2>1, <2>2, <2>3 DEF google, guest
<1>8. ASSUME NEW x \in Procs, GiveUp(x) PROVE Goal
  BY <1>2, <1>8, CutMoves DEF GiveUp, Fail, google, guest
<1>9. ASSUME NEW r \in Requests, Execute(r) PROVE Goal
  <2> DEFINE w == [user |-> OwnerOf[r], phase |-> "relay", token |-> None, begun |-> now]
  <2>1. Goto(r, "read", w) /\ UNCHANGED <<google, token, guest, now>>
    BY <1>9 DEF Execute
  <2>2. w.phase = "relay" /\ w.token = None
    OBVIOUS
  <2> HIDE DEF w
  <2>3. Moves(r)
    BY <1>0, <2>1, <2>2, GotoMoves DEF Moves
  <2> QED
    BY <1>0, <1>1, <1>3, <2>1, <2>3 DEF google, guest
<1>10. ASSUME NEW r \in Requests, AskPaired(r) PROVE Goal
  <2> DEFINE w == [work[r] EXCEPT !.phase = "helper", !.begun = now]
  <2>1. pc[r] = "paired" /\ UNCHANGED <<google, token, guest, now>>
    BY <1>10 DEF AskPaired
  <2>2. w.user = work[r].user /\ w.token = work[r].token
    BY <1>0 DEF Work
  <2>3. \/ work[r].user \in awake /\ Goto(r, "config", w)
        \/ Goto(r, "idle", NoWork)
    BY <1>10 DEF AskPaired, Fail
  <2> HIDE DEF w
  <2>4. CASE work[r].user \in awake /\ Goto(r, "config", w)
    <3>1. Moves(r)
      BY <1>0, <2>1, <2>2, <2>4, GotoMoves DEF Moves
    <3> QED
      BY <1>0, <1>1, <1>3, <2>1, <2>4, <3>1 DEF google, guest
  <2> QED
    BY <1>0, <1>2, <1>3, <2>1, <2>3, <2>4 DEF google, guest
<1>11. ASSUME NEW r \in Requests, AskConfig(r) PROVE Goal
  <2>1. pc[r] = "config" /\ UNCHANGED <<google, token, guest, now>>
    BY <1>11 DEF AskConfig
  <2>2. \/ config[work[r].user] /\ Goto(r, "read", work[r])
        \/ Goto(r, "idle", NoWork)
    BY <1>0, <1>11 DEF AskConfig, Fail, Continue, Goto
  <2>3. CASE config[work[r].user] /\ Goto(r, "read", work[r])
    <3>1. Moves(r)
      BY <1>0, <2>1, <2>3, GotoMoves DEF Moves
    <3> QED
      BY <1>0, <1>1, <1>3, <2>1, <2>3, <3>1 DEF google, guest
  <2> QED
    BY <1>0, <1>2, <1>3, <2>1, <2>2, <2>3 DEF google, guest
<1>12. ASSUME NEW r \in Requests, AskGateway(r) PROVE Goal
  <2> DEFINE w == [work[r] EXCEPT !.begun = now]
  <2>1. pc[r] = "gateway" /\ UNCHANGED <<google, token, guest, now>>
    BY <1>12 DEF AskGateway
  <2>2. /\ w.user = work[r].user /\ w.token = work[r].token /\ w.phase = work[r].phase
        /\ w.begun = now
    BY <1>0 DEF Work
  <2>3. Goto(r, "search", w) \/ Goto(r, "idle", NoWork)
    BY <1>12 DEF AskGateway, Fail
  <2> HIDE DEF w
  <2>4. CASE Goto(r, "search", w)
    <3>1. Moves(r)
      BY <1>0, <2>1, <2>2, <2>4, GotoMoves DEF Moves, Same
    <3> QED
      BY <1>0, <1>1, <1>3, <2>1, <2>4, <3>1 DEF google, guest
  <2> QED
    BY <1>0, <1>2, <1>3, <2>1, <2>3, <2>4 DEF google, guest
<1>13. ASSUME NEW r \in Requests, SearchEnds(r) PROVE Goal
  BY <1>0, <1>2, <1>3, <1>13 DEF SearchEnds, Fail, google, guest
<1>14. ASSUME NEW r \in Requests, Timeout(r) PROVE Goal
  <2>1. CASE Goto(r, "idle", NoWork) /\ CutWrite(r)
    BY <1>0, <1>2, <1>14, <2>1, CutMoves DEF Timeout, google, guest
  <2>2. CASE UNCHANGED <<pc, work, token>>
    BY <1>0, <1>3, <1>14, <2>2 DEF Timeout, google, guest, Moves, GuestMoves, GoogleMoves
  <2> QED
    BY <1>14, <2>1, <2>2 DEF Timeout
<1>15. ASSUME NEW x \in Commands, AuthFinish(x) PROVE Goal
  <2> PICK u \in Users, s \in codes :
        /\ Expects(u, s)
        /\ token' = IF u \in awake THEN [token EXCEPT ![u] = Torn] ELSE token
        /\ Goto(x, "write", [user |-> u, phase |-> "command",
                             token |-> [grant |-> s, born |-> now], begun |-> now])
    BY <1>15 DEF AuthFinish
  <2> DEFINE w == [user |-> u, phase |-> "command",
                   token |-> [grant |-> s, born |-> now], begun |-> now]
  <2>1. /\ w.user = u /\ w.phase = "command" /\ w.begun = now /\ w.token.grant = s
        /\ w.token.born = now /\ s \in States
    BY <1>0 DEF TypeOK
  <2>2. Goto(x, "write", w)
    OBVIOUS
  <2> HIDE DEF w
  <2>3. Moves(x)
    BY <1>0, <2>1, <2>2, GotoMoves DEF Moves
  <2>4. \A v \in Users : FileMoves(v)
    BY <1>0 DEF FileMoves
  <2> QED
    BY <1>0, <1>1, <1>15, <2>2, <2>3, <2>4 DEF AuthFinish, guest
<1>16. ASSUME NEW x \in Commands, AuthStatus(x) PROVE Goal
  <2> PICK u \in Users :
        Goto(x, "read", [user |-> u, phase |-> "command", token |-> None, begun |-> now])
    BY <1>16 DEF AuthStatus
  <2>1. Moves(x)
    BY <1>0, GotoMoves DEF Moves
  <2> QED
    BY <1>0, <1>1, <1>3, <1>16, <2>1 DEF AuthStatus, google, guest
<1>17. ASSUME NEW s \in States, Approve(s) PROVE Goal
  BY <1>3, <1>17 DEF Approve, Moves, GuestMoves, GoogleMoves, guest
<1>18. ASSUME NEW u \in Users, AuthStart(u) PROVE Goal
  BY <1>3, <1>18 DEF AuthStart, Moves, GuestMoves, GoogleMoves, guest
<1>19. ASSUME NEW u \in Users, StopGuest(u) PROVE Goal
  <2>1. /\ u \in awake /\ awake' = awake \ {u} /\ UNCHANGED <<google, token, config, now>>
        /\ pc' = [x \in Procs |-> IF InGuest(x, u) THEN "idle" ELSE pc[x]]
        /\ work' = [x \in Procs |-> IF InGuest(x, u) THEN NoWork ELSE work[x]]
    BY <1>19 DEF StopGuest
  <2>2. \A x \in Procs : Moves(x)
    BY <2>1 DEF Moves
  <2>3. NoWork.phase # "helper"
    BY AccessAssumption DEF NoWork
  <2>4. \A v \in Users : GuestMoves(v)
    BY <2>1, <2>3 DEF GuestMoves, InGuest
  <2> QED
    BY <1>3, <2>1, <2>2, <2>4 DEF GoogleMoves, google
<1>20. ASSUME NEW u \in Users, StartGuest(u) PROVE Goal
  BY <1>3, <1>20 DEF StartGuest, Moves, GuestMoves, GoogleMoves, google
<1>21. ASSUME NEW u \in Users, Configure(u) PROVE Goal
  BY <1>0, <1>3, <1>21 DEF Configure, Moves, GuestMoves, GoogleMoves, google, TypeOK
<1>22. CASE Tick
  BY <1>3, <1>22 DEF Tick, Moves, GuestMoves, GoogleMoves, google, guest
<1>23. CASE UNCHANGED vars
  BY <1>3, <1>23 DEF vars, Moves, GuestMoves, GoogleMoves, google, guest
<1> QED
  BY <1>5, <1>6, <1>7, <1>8, <1>9, <1>10, <1>11, <1>12, <1>13, <1>14, <1>15, <1>16, <1>17,
     <1>18, <1>19, <1>20, <1>21, <1>22, <1>23 DEF Next

-----------------------------------------------------------------------------
(* The opt-in *)

\* What runs in a guest read its opt-in, which stays while the guest runs.
Allowed ==
  \A x \in Procs :
    work[x].phase = "helper" =>
      work[x].user \in awake /\ (pc[x] # "config" => config[work[x].user])

LEMMA AllowedStep == Typed /\ Allowed /\ [Next]_vars => Allowed'
<1> SUFFICES ASSUME Typed, Allowed, [Next]_vars, NEW x \in Procs, work'[x].phase = "helper"
             PROVE  /\ work'[x].user \in awake'
                    /\ pc'[x] # "config" => config'[work'[x].user]
  BY DEF Allowed
<1> DEFINE u == work'[x].user
<1>1. Moves(x) /\ Shape(x) /\ \A v \in Users : GuestMoves(v)
  BY StepMoves DEF Typed
<1>2. "helper" \notin {NoWork.phase, "relay", "command"}
  BY AccessAssumption DEF NoWork
<1>3. /\ u = work[x].user /\ u \in awake
      /\ pc'[x] # "config" => config[u]
  BY <1>1, <1>2 DEF Moves, Passes, Same, Shape, Allowed
<1>4. u \in Users
  BY <1>3 DEF Typed, TypeOK
<1> QED
  BY <1>1, <1>3, <1>4 DEF GuestMoves

\* Searches run only in guests that are up and have the opt-in.
THEOREM SearchIsSafe == Spec => []SearchIsAllowed
<1>1. Init => Allowed
  BY AccessAssumption DEF Init, Allowed, NoWork
<1>2. Typed /\ Allowed => SearchIsAllowed
  BY DEF Typed, Allowed, SearchIsAllowed, Shape, Procs
<1> QED
  BY <1>1, <1>2, AllowedStep, AlwaysTyped, PTL DEF Spec

-----------------------------------------------------------------------------
(* Whose token it is *)

\* The state a user's finish expects is one of the user's own.
Owned == TokenIsOfItsUser /\ \A u \in Users : asked[u] \in States => starter[asked[u]] = u

LEMMA OwnedStep == Typed /\ Owned /\ [Next]_vars => Owned'
<1> SUFFICES ASSUME Typed, Owned, [Next]_vars PROVE Owned'
  OBVIOUS
<1>0. /\ starter \in [States -> Users \cup {None}] /\ asked \in [Users -> States \cup {None}]
      /\ None \notin Users \cup States /\ Torn \notin Token /\ None \notin Token
      /\ \A x \in Procs : Shape(x)
      /\ \A t \in Token : t.grant \in States
  BY TokenTyped, AccessAssumption DEF Typed, TypeOK
<1>1. GoogleMoves /\ (\A u \in Users : FileMoves(u)) /\ (\A x \in Procs : Moves(x))
  BY StepMoves
<1>2. CASE UNCHANGED <<asked, starter>>
  <2>1. ASSUME NEW u \in Users, token'[u] \in Token PROVE starter'[token'[u].grant] = u
    BY <1>0, <1>1, <1>2, <2>1 DEF FileMoves, Owned, TokenIsOfItsUser
  <2>2. ASSUME NEW x \in Procs, work'[x].token \in Token
        PROVE  starter'[work'[x].token.grant] = work'[x].user
    <3>1. NoWork.token = None
      BY DEF NoWork
    <3>2. Shape(x) /\ Moves(x) /\ Typed'
      BY <1>0, <1>1, TypedStep
    <3>3. /\ work[x].token \in Token => starter[work[x].token.grant] = work[x].user
          /\ pc[x] = "read" /\ token[work[x].user] \in Token =>
               starter[token[work[x].user].grant] = work[x].user
      BY <3>2 DEF Owned, TokenIsOfItsUser, Shape
    <3>4. Expects(work'[x].user, work'[x].token.grant) /\ pc'[x] = "write"
            => starter[work'[x].token.grant] = work'[x].user
      BY <1>0, <2>2, <3>2 DEF Owned, Expects, Typed, Shape
    <3>5. CASE pc'[x] = pc[x] /\ work'[x] = work[x]
      BY <1>2, <2>2, <3>3, <3>5
    <3>6. CASE work'[x].token = None
      BY <1>0, <2>2, <3>6
    <3> QED
      BY <1>0, <1>2, <2>2, <3>1, <3>2, <3>3, <3>4, <3>5, <3>6 DEF Moves, Passes, Same, Shape
  <2> QED
    BY <1>2, <2>1, <2>2 DEF Owned, TokenIsOfItsUser
<1>3. ASSUME NEW u \in Users, NEW s \in States,
             starter[s] = None, starter' = [starter EXCEPT ![s] = u],
             asked' = [asked EXCEPT ![u] = s], UNCHANGED <<token, pc, work>>
      PROVE  Owned'
  <2>1. \A v \in Users : token'[v] \in Token => starter'[token'[v].grant] = v
    BY <1>0, <1>3 DEF Owned, TokenIsOfItsUser
  <2>2. ASSUME NEW x \in Procs, work'[x].token \in Token
        PROVE  starter'[work'[x].token.grant] = work'[x].user
    <3>1. work[x].user \in Users
      BY <1>0, <1>3, <2>2 DEF Shape, NoWork
    <3> QED
      BY <1>0, <1>3, <2>2, <3>1 DEF Owned, TokenIsOfItsUser
  <2>3. \A v \in Users : asked'[v] \in States => starter'[asked'[v]] = v
    BY <1>0, <1>3 DEF Owned
  <2> QED
    BY <2>1, <2>2, <2>3 DEF Owned, TokenIsOfItsUser
<1> QED
  BY <1>1, <1>2, <1>3 DEF GoogleMoves

\* No guest gets a token of an authorization of somebody else.
THEOREM TokenIsSafe == Spec => []TokenIsOfItsUser
<1>1. Init => Owned
  BY AccessAssumption DEF Init, Owned, TokenIsOfItsUser, NoWork
<1>2. Owned => TokenIsOfItsUser
  BY DEF Owned
<1> QED
  BY <1>1, <1>2, OwnedStep, AlwaysTyped, PTL DEF Spec

-----------------------------------------------------------------------------
(* How long a token lasts *)

\* The token t will do for what x has still to do: up to one unit until the
\* search begins, and the search.
Outlasts(x, t) ==
  work[x].begun + SearchTime + (IF pc[x] = "gateway" THEN 1 ELSE 0) < t.born + Life

\* A token about to be written is as new as its writer's step; one that passed
\* the check and can be renewed outlasts the search, and so does the one in the
\* file, which is the same or a newer one.
Lasting ==
  \A x \in Procs :
    /\ pc[x] = "write" => work[x].begun <= work[x].token.born
    /\ pc[x] \in {"gateway", "search"} /\ Renewable(work[x].token) =>
         /\ Outlasts(x, work[x].token)
         /\ token[work[x].user] \in Token => Outlasts(x, token[work[x].user])

LEMMA TimesTyped ==
  ASSUME Typed
  PROVE  /\ Life \in Nat /\ Skew \in Nat /\ SearchTime \in Nat /\ now \in Nat
         /\ \A t \in Token : t.born \in Nat
         /\ \A x \in Procs : work[x].begun \in Nat /\ Shape(x)
  BY AccessAssumption DEF Typed, TypeOK, Times, Token, Work

LEMMA LastingStep == Typed /\ Lasting /\ [Next]_vars => Lasting'
<1> SUFFICES ASSUME Typed, Lasting, [Next]_vars, NEW x \in Procs
             PROVE  /\ pc'[x] = "write" => work'[x].begun <= work'[x].token.born
                    /\ pc'[x] \in {"gateway", "search"} /\ Renewable(work'[x].token) =>
                         /\ Outlasts(x, work[x].token)'
                         /\ (token[work[x].user] \in Token => Outlasts(x, token[work[x].user]))'
  BY DEF Lasting
<1>0. /\ Life \in Nat /\ Skew \in Nat /\ SearchTime \in Nat /\ now \in Nat
      /\ SearchTime + 1 <= Skew /\ Skew < Life /\ SearchTime + 2 < Life
      /\ \A t \in Token : t.born \in Nat
      /\ \A y \in Procs : work[y].begun \in Nat /\ Shape(y)
      /\ work[x].user \in Users \cup {None}
  BY TimesTyped, TimesAssumption DEF Typed, TypeOK, Work
<1>1. Moves(x) /\ (\A u \in Users : FileMoves(u)) /\ Typed'
  BY StepMoves, TypedStep
<1>2. ASSUME pc'[x] = "write" PROVE work'[x].begun <= work'[x].token.born
  BY <1>0, <1>1, <1>2 DEF Moves, Passes, Same, Lasting, Shape
<1>3. ASSUME pc'[x] \in {"gateway", "search"}, Renewable(work'[x].token)
      PROVE  Outlasts(x, work[x].token)'
  <2>1. CASE pc'[x] = pc[x] /\ work'[x] = work[x]
    BY <1>3, <2>1 DEF Lasting, Outlasts
  <2>2. CASE pc[x] = "read" /\ Good(token[work[x].user]) /\ Passes(x, token[work[x].user])
    <3>1. pc'[x] = "gateway" /\ Fresh(token[work[x].user])
      BY <1>3, <2>2 DEF Passes, Good
    <3> QED
      BY <1>0, <2>2, <3>1 DEF Passes, Fresh, Outlasts, Shape
  <2>3. CASE pc[x] = "write" /\ Passes(x, work[x].token)
    <3>1. pc'[x] = "gateway"
      BY <1>3, <2>3 DEF Passes
    <3> QED
      BY <1>0, <2>3, <3>1 DEF Passes, Outlasts, Lasting
  <2>4. CASE /\ pc[x] = "gateway" /\ pc'[x] = "search" /\ Same(x)
             /\ work'[x].token = work[x].token /\ work'[x].begun = now
    BY <1>0, <1>3, <2>4 DEF Outlasts, Lasting, Shape
  <2> QED
    BY <1>1, <1>3, <2>1, <2>2, <2>3, <2>4 DEF Moves
<1>4. ASSUME pc'[x] \in {"gateway", "search"}, Renewable(work'[x].token),
             token'[work'[x].user] \in Token
      PROVE  Outlasts(x, token[work[x].user])'
  <2> DEFINE u == work[x].user
  <2>1. /\ work'[x].user = u /\ u \in Users
        /\ work'[x].begun \in Nat /\ work'[x].begun <= now
    BY <1>0, <1>1, <1>4 DEF Moves, Passes, Same, Shape
  <2>2. CASE token'[u] = token[u]
    <3>1. CASE pc'[x] = pc[x] /\ work'[x] = work[x]
      BY <1>4, <2>1, <2>2, <3>1 DEF Lasting, Outlasts
    <3>2. CASE pc[x] = "read" /\ Good(token[work[x].user]) /\ Passes(x, token[work[x].user])
      BY <1>3, <1>4, <2>1, <2>2, <3>2 DEF Passes, Outlasts
    <3>3. CASE /\ pc[x] = "write" /\ Passes(x, work[x].token)
               /\ token'[work[x].user] = work[x].token
      BY <1>0, <1>3, <1>4, <2>1, <3>3 DEF Passes, Outlasts, Lasting
    <3>4. CASE /\ pc[x] = "gateway" /\ pc'[x] = "search" /\ Same(x)
               /\ work'[x].token = work[x].token /\ work'[x].begun = now
      BY <1>0, <1>4, <2>1, <2>2, <3>4 DEF Outlasts, Lasting, Shape
    <3> QED
      BY <1>1, <1>4, <3>1, <3>2, <3>3, <3>4 DEF Moves
  <2>3. ASSUME NEW y \in Procs, pc[y] = "write", token'[u] = work[y].token
        PROVE  Outlasts(x, token[work[x].user])'
    <3>1. /\ work[y].token \in Token /\ work[y].begun <= work[y].token.born
          /\ now <= work[y].begun + 1
      BY <1>0, <2>3 DEF Lasting, Shape
    <3> QED
      BY <1>0, <2>1, <2>3, <3>1 DEF Outlasts
  <2> QED
    BY <1>1, <1>4, <2>1, <2>2, <2>3, TokenTyped DEF FileMoves
<1> QED
  BY <1>2, <1>3, <1>4

\* No token that can be renewed expires under a search, and no token that takes
\* its place, with any skew that is longer than a search.
THEOREM TokenLasts == Spec => []TokenOutlivesSearch
<1>1. Init => Lasting
  BY DEF Init, Lasting
<1>2. Typed /\ Lasting => TokenOutlivesSearch
  <2> SUFFICES ASSUME Typed, Lasting, NEW r \in Requests, pc[r] = "search",
                      Renewable(work[r].token)
               PROVE  /\ now < work[r].token.born + Life
                      /\ token[work[r].user] \in Token => now < token[work[r].user].born + Life
    BY DEF TokenOutlivesSearch
  <2>1. Shape(r) /\ r \in Procs /\ work[r].begun \in Nat
    BY TimesTyped DEF Procs
  <2> QED
    BY <2>1, TimesTyped DEF Shape, Lasting, Outlasts
<1> QED
  BY <1>1, <1>2, LastingStep, AlwaysTyped, PTL DEF Spec

=============================================================================
