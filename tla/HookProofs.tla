----------------------------- MODULE HookProofs -----------------------------
(***************************************************************************)
(* The state file of the onboarding interview is the record of one         *)
(* interview, and the profile answers every question, whatever handlers,   *)
(* timers, the script and restarts do to each other.                       *)
(*                                                                         *)
(* No handler sees another's work but through whole files, so the argument *)
(* is about files: what is sound when it is read is sound when it is       *)
(* written back.  The last part is about calls that do not overlap: then   *)
(* a confirmed interview reaches the profile, the fallback repeats         *)
(* nothing, and the file conducts the interview of Interview.              *)
(***************************************************************************)
EXTENDS OnboardingHook, SequenceTheorems, TLAPS

Answers == Seq([question : Sequence, message : Messages])

\* No more ids than answers are remembered, so none was forgotten; an interview
\* that was not paused has no request to stop.
Sound(f) ==
  /\ f \in File /\ Consistent(f)
  /\ Len(f.processed) <= Len(f.answers)
  /\ f.status # "paused" => \A i \in DOMAIN f.answers : f.answers[i].message \notin Stops

LEMMA FreshIsSound == Sound(Fresh)
<1>1. Fresh \in File
  BY HookAssumption DEF Fresh, File, Transition, NoTransition, Ids, Sequence
<1>2. Consistent(Fresh)
  BY HookAssumption DEF Fresh, Consistent, Answered, NoTransition
<1> QED
  BY <1>1, <1>2 DEF Sound, Fresh

\* The heart of the matter: a message that was not processed is recorded.
LEMMA RecordIsSound ==
  ASSUME NEW f, Sound(f), f.status = "active", NEW m \in Messages, ~Processed(f, m)
  PROVE  Sound(Record(f, m))
<1> DEFINE g == Record(f, m)
           n == Len(f.answers)
           a == [question |-> f.current, message |-> m]
<1>1. /\ f \in File /\ Consistent(f) /\ n \in Nat
      /\ f.answers \in Answers /\ f.processed \in Seq(Messages)
      /\ f.current \in Sequence /\ f.current = n + 1
      /\ Questions \in Nat /\ n + 1 <= Questions
      /\ Len(f.processed) \in Nat /\ Len(f.processed) <= n
  BY HookAssumption DEF Sound, File, Answers, Consistent, Answered, Sequence
<1>2. a \in [question : Sequence, message : Messages]
  BY <1>1
<1>3. /\ g.answers = Append(f.answers, a) /\ g.answers \in Answers
      /\ Len(g.answers) = n + 1 /\ DOMAIN g.answers = 1 .. (n + 1)
      /\ \A i \in 1 .. n : g.answers[i] = f.answers[i]
      /\ g.answers[n + 1] = a
      /\ DOMAIN f.answers = 1 .. n
  BY <1>1, <1>2 DEF Record, Answers
<1>4. /\ g.processed \in Seq(Messages) /\ Len(g.processed) <= n + 1
      /\ \A i \in DOMAIN f.processed : i \in DOMAIN g.processed /\ g.processed[i] = f.processed[i]
      /\ Id(m) # None => \E i \in DOMAIN g.processed : g.processed[i] = m
  <2>1. g.processed = Remember(f, m)
    BY DEF Record
  <2>2. CASE Id(m) = None
    BY <2>1, <2>2, <1>1 DEF Remember
  <2>3. CASE Id(m) # None
    <3> DEFINE p == Append(f.processed, m)
    <3>1. /\ p \in Seq(Messages) /\ Len(p) = Len(f.processed) + 1
          /\ \A i \in DOMAIN f.processed : i \in DOMAIN p /\ p[i] = f.processed[i]
          /\ Len(p) \in DOMAIN p /\ p[Len(p)] = m
      BY <1>1
    <3>2. ~ (Len(p) > MaxProcessed)
      BY <3>1, <1>1, HookAssumption
    <3>3. SubSeq(p, 1, Len(p)) = p
      BY <3>1
    <3>4. LastOnes(p) = p
      <4> HIDE DEF p
      <4> QED
        BY <3>2, <3>3, Zenon DEF LastOnes
    <3> QED
      BY <2>1, <2>3, <3>1, <3>4, <1>1 DEF Remember
  <2> QED
    BY <2>2, <2>3
<1>5. /\ g.status \in {"active", "paused", "confirmed"}
      /\ g.status = "active" => m \notin Stops /\ n + 1 < Questions /\ g.current = n + 2
      /\ g.status # "active" => g.current = n + 1
      /\ g.status = "confirmed" => m \notin Stops /\ n + 1 = Questions
      /\ g.status = "paused" => m \in Stops
      /\ g.transition.inbound = Id(m)
      /\ g.transition.to = (IF g.status = "active" THEN g.current ELSE 0)
      /\ g.transition \in Transition
  BY <1>1, HookAssumption DEF Record, NextQuestion, Transition, Ids, Id, Sequence
<1>6. g.current \in Sequence
  BY <1>5, <1>1 DEF Sequence
<1>7. g \in File
  BY <1>3, <1>4, <1>5, <1>6 DEF File, Answers, Record
<1>8. \A i \in DOMAIN g.answers :
        Id(g.answers[i].message) # None => Processed(g, g.answers[i].message)
  BY <1>1, <1>3, <1>4 DEF Consistent, Processed
<1>9. \A i, j \in DOMAIN g.answers :
        g.answers[i].message = g.answers[j].message /\ i # j => g.answers[i].message \in Anonymous
  <2>1. \A i \in 1 .. n : f.answers[i].message = m => m \in Anonymous
    <3>1. \A i \in DOMAIN f.answers :
            Id(f.answers[i].message) # None => Processed(f, f.answers[i].message)
      BY <1>1 DEF Consistent
    <3>2. m \notin Anonymous => Id(m) # None
      BY HookAssumption DEF Id
    <3> HIDE DEF g, a
    <3> QED
      BY <3>1, <3>2, <1>3
  <2>2. \A i, j \in 1 .. n :
          f.answers[i].message = f.answers[j].message /\ i # j => f.answers[i].message \in Anonymous
    BY <1>1, <1>3 DEF Consistent
  <2>3. g.answers[n + 1].message = m
    BY <1>3
  <2> HIDE DEF g, a
  <2> QED
    BY <2>1, <2>2, <2>3, <1>1, <1>3
<1>10. \A i \in DOMAIN g.answers : g.answers[i].question = i
  BY <1>1, <1>3 DEF Consistent
<1>11. Consistent(g)
  <2>1. g.answers # << >> /\ g.answers[Len(g.answers)].message = m
    BY <1>1, <1>3
  <2> HIDE DEF g, a
  <2>2. Len(g.answers) = Answered(g) /\ (g.status = "confirmed" => g.current = Questions)
    BY <1>1, <1>3, <1>5 DEF Answered
  <2> QED
    BY <2>1, <2>2, <1>5, <1>8, <1>9, <1>10 DEF Consistent
<1>12. g.status # "paused" => \A i \in DOMAIN g.answers : g.answers[i].message \notin Stops
  BY <1>1, <1>3, <1>5 DEF Sound
<1> QED
  BY <1>3, <1>4, <1>7, <1>11, <1>12 DEF Sound

LEMMA NoteIsSound ==
  ASSUME NEW f, Sound(f)
  PROVE  /\ Sound([f EXCEPT !.transition.observed = TRUE])
         /\ Sound([f EXCEPT !.transition.fallback = TRUE])
<1>1. ASSUME NEW t \in Transition, t.inbound = f.transition.inbound, t.to = f.transition.to
      PROVE  Sound([f EXCEPT !.transition = t])
  <2> DEFINE g == [f EXCEPT !.transition = t]
  <2>1. /\ g \in File /\ g.transition = t /\ g.status = f.status /\ g.current = f.current
        /\ g.answers = f.answers /\ g.processed = f.processed
    BY <1>1 DEF Sound, File
  <2> HIDE DEF g
  <2>2. Answered(g) = Answered(f) /\ \A x : Processed(g, x) <=> Processed(f, x)
    BY <2>1 DEF Answered, Processed
  <2>3. Sound(g)
    BY <2>1, <2>2, <1>1 DEF Sound, Consistent
  <2> QED
    BY <2>3 DEF g
<1>2. f.transition \in Transition
  BY DEF Sound, File
<1>3. /\ [f.transition EXCEPT !.observed = TRUE] \in Transition
      /\ [f.transition EXCEPT !.observed = TRUE].inbound = f.transition.inbound
      /\ [f.transition EXCEPT !.observed = TRUE].to = f.transition.to
      /\ [f.transition EXCEPT !.fallback = TRUE] \in Transition
      /\ [f.transition EXCEPT !.fallback = TRUE].inbound = f.transition.inbound
      /\ [f.transition EXCEPT !.fallback = TRUE].to = f.transition.to
  BY <1>2 DEF Transition
<1> QED
  BY <1>1, <1>3

LEMMA NextFileIsSound ==
  ASSUME NEW f, Sound(f), f.status = "active",
         NEW t, t.does = "received" => t.message \in Messages, Wanted(f, t)
  PROVE  Sound(NextFile(f, t))
<1>1. CASE t.does = "received"
  <2>1. ~Processed(f, t.message)
    BY <1>1 DEF Wanted
  <2> QED
    BY <1>1, <2>1, RecordIsSound DEF NextFile
<1>2. CASE t.does # "received"
  BY <1>2, NoteIsSound, Zenon DEF NextFile
<1> QED
  BY <1>1, <1>2

Labels == {"idle", "read", "write", "rename", "after", "profile"}

\* What a handler holds where it is.
Holds(l, t) ==
  /\ l \in Labels /\ t \in Task
  /\ l \in {"idle", "read"} => t.file = None
  /\ l # "idle" => t.does # "nothing" /\ (t.does = "received" => t.message \in Messages)
  /\ l \notin {"idle", "read"} => Sound(t.file)
  /\ l = "rename" => t.name \in Stamps
  /\ l = "profile" => t.file.status = "confirmed"

HandlersHold ==
  /\ pc \in [Handlers -> Labels] /\ task \in [Handlers -> Task]
  /\ \A h \in Handlers : Holds(pc[h], task[h])

FilesAreSound ==
  /\ state \in {Absent, Torn} \/ Sound(state)
  /\ tmp \in [Stamps -> File \cup {Absent}]
  /\ \A s \in Stamps : tmp[s] = Absent \/ Sound(tmp[s])

IInv == FilesAreSound /\ HandlersHold /\ ProfileIsComplete

LEMMA NoTaskHolds == NoTask \in Task /\ Holds("idle", NoTask)
BY DEF NoTask, Task, Holds, Labels, Ids

LEMMA GotoHolds ==
  ASSUME HandlersHold, NEW h \in Handlers, NEW l, NEW t, Holds(l, t), Goto(h, l, t)
  PROVE  HandlersHold'
BY DEF HandlersHold, Goto, Holds

LEMMA InitHolds == Init => IInv
BY NoTaskHolds DEF Init, IInv, FilesAreSound, HandlersHold, ProfileIsComplete, Labels

LEMMA EventHolds ==
  ASSUME IInv, NEW h \in Handlers, Event(h)
  PROVE  IInv'
<1>1. ASSUME NEW does \in {"received", "sent", "fallback"}, NEW message \in Ids,
             NEW looks \in SUBSET Sequence, does = "received" => message \in Messages,
             Call(h, does, message, looks), UNCHANGED files
      PROVE  IInv'
  <2> DEFINE t == [does |-> does, message |-> message, looks |-> looks,
                   file |-> None, name |-> None]
  <2>1. t \in Task /\ t.file = None /\ t.does = does /\ t.message = message
    BY DEF Task
  <2>2. Goto(h, "read", t)
    BY <1>1 DEF Call
  <2>3. Holds("read", t)
    BY <2>1, <1>1 DEF Holds, Labels
  <2> HIDE DEF t
  <2>4. HandlersHold'
    BY <2>2, <2>3, GotoHolds DEF IInv
  <2> QED
    BY <2>4, <1>1 DEF IInv, FilesAreSound, ProfileIsComplete, files
<1>2. ASSUME NEW m \in Messages, Receive(h, m)
      PROVE  IInv'
  BY <1>1, <1>2 DEF Receive, Ids, Sequence
<1>3. ASSUME NEW looks \in Looks, AgentWrites(h, looks)
      PROVE  IInv'
  <2>1. looks \in SUBSET Sequence /\ None \in Ids
    BY DEF Looks, Ids
  <2> QED
    BY <1>1, <1>3, <2>1 DEF AgentWrites
<1>4. ASSUME NEW t \in Timers, TimerFires(h, t)
      PROVE  IInv'
  BY <1>1, <1>4 DEF TimerFires, Timers
<1> QED
  BY <1>2, <1>3, <1>4 DEF Event

LEMMA HandleHolds ==
  ASSUME IInv, NEW h \in Handlers, Handle(h)
  PROVE  IInv'
<1> DEFINE t == task[h]
<1>1. Holds(pc[h], t) /\ HandlersHold /\ FilesAreSound /\ ProfileIsComplete /\ t \in Task
  BY DEF IInv, HandlersHold
<1>2. ASSUME Return(h) PROVE HandlersHold'
  BY <1>1, <1>2, NoTaskHolds, GotoHolds DEF Return
<1>3. CASE Read(h)
  <2>1. UNCHANGED files
    BY <1>3 DEF Read
  <2>2. CASE Return(h)
    BY <1>1, <1>2, <2>1, <2>2 DEF IInv, FilesAreSound, ProfileIsComplete, files
  <2>3. CASE /\ state \notin {Absent, Torn} /\ state.status = "active" /\ Wanted(state, t)
             /\ Goto(h, "write", [t EXCEPT !.file = NextFile(state, t)])
    <3> DEFINE next == NextFile(state, t)
    <3>1. Sound(state)
      BY <1>1, <2>3 DEF FilesAreSound
    <3>2. t.does \in {"received", "sent", "fallback"} /\ (t.does = "received" => t.message \in Messages)
      BY <1>1, <1>3 DEF Holds, Task, Read
    <3>3. Sound(next)
      BY <2>3, <3>1, <3>2, NextFileIsSound
    <3> HIDE DEF next
    <3>4. /\ [t EXCEPT !.file = next] \in Task /\ [t EXCEPT !.file = next].file = next
          /\ [t EXCEPT !.file = next].does = t.does /\ [t EXCEPT !.file = next].message = t.message
      BY <1>1, <3>3 DEF Task, Sound
    <3>5. Holds("write", [t EXCEPT !.file = next])
      BY <3>2, <3>3, <3>4 DEF Holds, Labels
    <3>6. HandlersHold'
      BY <1>1, <2>3, <3>5, GotoHolds DEF next
    <3> QED
      BY <1>1, <2>1, <3>6 DEF IInv, FilesAreSound, ProfileIsComplete, files
  <2> QED
    BY <1>3, <2>2, <2>3 DEF Read
<1>4. ASSUME NEW s \in Stamps, WriteTmp(h, s) PROVE IInv'
  <2>1. Sound(t.file)
    BY <1>1, <1>4 DEF Holds, WriteTmp
  <2>2. FilesAreSound'
    BY <1>1, <1>4, <2>1 DEF FilesAreSound, WriteTmp, Sound
  <2>3. /\ [t EXCEPT !.name = s] \in Task
        /\ [t EXCEPT !.name = s].file = t.file /\ [t EXCEPT !.name = s].name = s
        /\ [t EXCEPT !.name = s].does = t.does /\ [t EXCEPT !.name = s].message = t.message
    BY <1>1 DEF Task
  <2>4. Holds("rename", [t EXCEPT !.name = s])
    BY <1>1, <1>4, <2>1, <2>3 DEF Holds, Labels, WriteTmp
  <2>5. HandlersHold'
    BY <1>1, <1>4, <2>4, GotoHolds DEF WriteTmp
  <2> QED
    BY <1>1, <1>4, <2>2, <2>5 DEF IInv, ProfileIsComplete, WriteTmp
<1>5. CASE Rename(h)
  <2>1. t.name \in Stamps /\ Sound(t.file)
    BY <1>1, <1>5 DEF Holds, Rename
  <2>2. FilesAreSound'
    BY <1>1, <1>5, <2>1 DEF FilesAreSound, Rename
  <2>3. Holds("after", t)
    BY <1>1, <1>5, <2>1 DEF Holds, Labels, Rename
  <2>4. HandlersHold'
    BY <1>1, <1>2, <1>5, <2>3, GotoHolds DEF Rename
  <2> QED
    BY <1>1, <1>5, <2>2, <2>4 DEF IInv, ProfileIsComplete, Rename
<1>6. CASE AfterAnswer(h)
  <2>1. UNCHANGED files /\ Sound(t.file)
    BY <1>1, <1>6 DEF AfterAnswer, Holds
  <2>2. t.file.status = "confirmed" => Holds("profile", t)
    BY <1>1, <1>6, <2>1 DEF Holds, Labels, AfterAnswer
  <2>3. HandlersHold'
    BY <1>1, <1>2, <1>6, <2>2, GotoHolds DEF AfterAnswer
  <2> QED
    BY <1>1, <2>1, <2>3 DEF IInv, FilesAreSound, ProfileIsComplete, files
<1>7. CASE WriteProfile(h)
  <2>1. Sound(t.file) /\ t.file.status = "confirmed"
    BY <1>1, <1>7 DEF WriteProfile, Holds
  <2>2. /\ Len(t.file.answers) = Questions
        /\ t.file.answers \in Answers
        /\ \A i \in DOMAIN t.file.answers : t.file.answers[i].question = i /\ t.file.answers[i].message \notin Stops
    BY <2>1 DEF Sound, Consistent, Answered, File, Answers, Sequence
  <2>3. ProfileIsComplete'
    BY <2>2, <1>7 DEF ProfileIsComplete, WriteProfile, Answers, Sequence
  <2>4. HandlersHold'
    BY <1>2, <1>7 DEF WriteProfile
  <2> QED
    BY <1>1, <1>7, <2>3, <2>4 DEF IInv, FilesAreSound, WriteProfile
<1>8. CASE SendFallback(h) \/ AfterSent(h)
  <2>1. UNCHANGED files /\ Return(h)
    BY <1>8 DEF SendFallback, AfterSent
  <2> QED
    BY <1>1, <1>2, <2>1 DEF IInv, FilesAreSound, ProfileIsComplete, files
<1> QED
  BY <1>3, <1>4, <1>5, <1>6, <1>7, <1>8 DEF Handle

LEMMA ScriptHolds ==
  ASSUME IInv,
         \/ \E initial \in BOOLEAN : StartScript(initial)
         \/ ScriptStep \/ Crash \/ ScriptFails
  PROVE  IInv'
<1>1. ASSUME NEW initial \in BOOLEAN, StartScript(initial) PROVE IInv'
  BY <1>1 DEF StartScript, IInv, FilesAreSound, HandlersHold, ProfileIsComplete, gateway
<1>2. CASE WriteState
  BY <1>2, FreshIsSound DEF WriteState, IInv, FilesAreSound, HandlersHold, ProfileIsComplete, gateway
<1>3. CASE Install \/ ScriptFails
  BY <1>3 DEF Install, ScriptFails, IInv, FilesAreSound, HandlersHold, ProfileIsComplete, gateway, files
<1>4. CASE GatewayRestarts
  <2>1. HandlersHold'
    BY <1>4, NoTaskHolds DEF GatewayRestarts, HandlersHold, Labels
  <2> QED
    BY <1>4, <2>1 DEF GatewayRestarts, IInv, FilesAreSound, ProfileIsComplete
<1> QED
  BY <1>1, <1>2, <1>3, <1>4 DEF ScriptStep, ScriptRestarts, Crash

LEMMA NextHolds == IInv /\ [Next]_vars => IInv'
<1> SUFFICES ASSUME IInv, [Next]_vars PROVE IInv'
  OBVIOUS
<1>1. CASE Next
  BY <1>1, EventHolds, HandleHolds, ScriptHolds DEF Next
<1>2. CASE UNCHANGED vars
  BY <1>2 DEF vars, files, gateway, IInv, FilesAreSound, HandlersHold, ProfileIsComplete
<1> QED
  BY <1>1, <1>2

LEMMA SpecHolds == Spec => []IInv
<1> QED
  BY InitHolds, NextHolds, PTL DEF Spec

\* FileIsConsistent holds for any number of questions, messages, handlers and
\* restarts: readJson, markProcessed and writeJson let no handler mix two files.
THEOREM FileIsSafe == Spec => []FileIsConsistent
<1>1. IInv => FileIsConsistent
  BY FileAssumption DEF IInv, FilesAreSound, HandlersHold, Holds, Sound, FileIsConsistent
<1> QED
  BY <1>1, SpecHolds, PTL

\* ProfileIsComplete holds likewise: only a confirmed file is made a profile.
THEOREM ProfileIsSafe == Spec => []ProfileIsComplete
<1>1. IInv => ProfileIsComplete
  BY DEF IInv
<1> QED
  BY <1>1, SpecHolds, PTL

-----------------------------------------------------------------------------
(* What the sound files do not say of the types. *)

Counts ==
  /\ delivered \in SUBSET Messages
  /\ repeats \in Nat /\ replies \in Nat /\ starts \in Nat /\ kills \in Nat /\ fails \in Nat

Observed ==
  /\ shown \subseteq Sequence /\ noticed \subseteq Sequence /\ lost \subseteq Sequence
  /\ fallbacks \in [Sequence -> Nat]

Rest ==
  /\ profile \in Answers \cup {Absent}
  /\ timers \in [Timers -> Nat]
  /\ hook \in {"none", "installed", "loaded"}
  /\ script \in [at : {"idle", "opened", "install", "restart"}, held : BOOLEAN]
  /\ Counts /\ Observed

LEMMA InitRests == Init => Rest
  BY DEF Init, Rest, Counts, Observed, NoScript

LEMMA EventRests ==
  ASSUME IInv, Rest, NEW h \in Handlers, Event(h)
  PROVE  Rest'
<1>1. ASSUME NEW m \in Messages, Receive(h, m) PROVE Rest'
  BY <1>1 DEF Receive, Rest, Counts, Observed, files, observers
<1>2. ASSUME NEW looks \in Looks, AgentWrites(h, looks) PROVE Rest'
  BY <1>2 DEF AgentWrites, Looks, Rest, Counts, Observed, files
<1>3. ASSUME NEW t \in Timers, TimerFires(h, t) PROVE Rest'
  <2>1. timers' \in [Timers -> Nat]
    BY <1>3 DEF TimerFires, Rest
  <2> QED
    BY <1>3, <2>1 DEF TimerFires, Rest, Counts, Observed, files, counts, observers
<1> QED
  BY <1>1, <1>2, <1>3 DEF Event

LEMMA HandleRests ==
  ASSUME IInv, Rest, NEW h \in Handlers, Handle(h)
  PROVE  Rest'
<1> DEFINE t == task[h]
<1>1. Holds(pc[h], t) /\ t \in Task
  BY DEF IInv, HandlersHold
<1>2. CASE Read(h) \/ AfterSent(h) \/ \E s \in Stamps : WriteTmp(h, s)
  BY <1>2 DEF Read, AfterSent, WriteTmp, Rest, Counts, Observed, files, counts, observers
<1>3. CASE Rename(h)
  <2>1. t.file \in File
    BY <1>1, <1>3 DEF Rename, Holds, Sound
  <2>2. Expected(t.file) \in Sequence
    BY <2>1 DEF Expected, File, Transition
  <2>3. noticed' = noticed \/ noticed' = noticed \cup {Expected(t.file)}
    BY <1>3 DEF Rename
  <2>4. script' \in [at : {"idle", "opened", "install", "restart"}, held : BOOLEAN]
    BY <1>3 DEF Rename, Rest
  <2> QED
    BY <1>3, <2>2, <2>3, <2>4 DEF Rename, Rest, Counts, Observed, counts
<1>4. CASE AfterAnswer(h)
  <2> DEFINE timer == [inbound |-> Id(t.message), question |-> t.file.transition.to]
  <2>1. timers' = timers \/ timers' = [timers EXCEPT ![timer] = @ + 1]
    BY <1>4 DEF AfterAnswer
  <2> HIDE DEF timer
  <2>2. timers' \in [Timers -> Nat]
    BY <2>1 DEF Rest
  <2> QED
    BY <1>4, <2>2 DEF AfterAnswer, Rest, Counts, Observed, files, counts, observers
<1>5. CASE WriteProfile(h)
  <2>1. t.file.answers \in Answers
    BY <1>1, <1>5 DEF WriteProfile, Holds, Sound, File, Answers
  <2> QED
    BY <1>5, <2>1 DEF WriteProfile, Rest, Counts, Observed, counts, observers
<1>6. CASE SendFallback(h)
  <2>1. t.looks \subseteq Sequence
    BY <1>1 DEF Task
  <2>2. fallbacks' \in [Sequence -> Nat]
    BY <1>6 DEF SendFallback, Rest, Observed
  <2> QED
    BY <1>6, <2>1, <2>2 DEF SendFallback, Rest, Counts, Observed, files, counts
<1> QED
  BY <1>2, <1>3, <1>4, <1>5, <1>6 DEF Handle

LEMMA ScriptRests ==
  ASSUME IInv, Rest,
         \/ \E initial \in BOOLEAN : StartScript(initial)
         \/ ScriptStep \/ Crash \/ ScriptFails
  PROVE  Rest'
<1> DEFINE ScriptType == [at : {"idle", "opened", "install", "restart"}, held : BOOLEAN]
<1>1. ASSUME NEW l \in {"idle", "install", "restart"}, ScriptGoes(l) PROVE script' \in ScriptType
  BY <1>1 DEF ScriptGoes
<1>2. ASSUME NEW initial \in BOOLEAN, StartScript(initial) PROVE Rest'
  <2>1. script' = [at |-> "opened", held |-> TRUE] \/ ScriptGoes("install")
    BY <1>2, Zenon DEF StartScript
  <2>2. Counts'
    BY <1>2 DEF StartScript, Rest, Counts
  <2>3. [at |-> "opened", held |-> TRUE] \in ScriptType
    OBVIOUS
  <2>4. script' \in ScriptType
    <3> HIDE DEF ScriptType
    <3> QED
      BY <1>1, <2>1, <2>3
  <2> QED
    BY <1>2, <2>2, <2>4 DEF StartScript, Rest, Observed, gateway, observers
<1>3. CASE WriteState
  <2>1. script' \in ScriptType
    BY <1>1, <1>3 DEF WriteState
  <2>2. Observed'
    BY <1>3 DEF WriteState, Rest, Observed, observers
  <2> QED
    BY <1>3, <2>1, <2>2 DEF WriteState, Rest, Counts, gateway, counts
<1>4. CASE Install
  <2>1. script' \in ScriptType
    BY <1>1, <1>4 DEF Install
  <2> QED
    BY <1>4, <2>1 DEF Install, Rest, Counts, Observed, files, counts, observers
<1>5. CASE ScriptFails
  <2>1. script' \in ScriptType
    BY <1>1, <1>5 DEF ScriptFails
  <2> QED
    BY <1>5, <2>1 DEF ScriptFails, Rest, Counts, Observed, files, gateway, observers
<1>6. CASE ScriptRestarts \/ Crash
  <2>1. GatewayRestarts
    BY <1>6 DEF ScriptRestarts, Crash
  <2>2. state \in {Absent, Torn} \/ state.current \in Sequence
    BY DEF IInv, FilesAreSound, Sound, File
  <2>3. Observed' /\ timers' \in [Timers -> Nat] /\ hook' \in {"none", "installed", "loaded"}
    BY <2>1, <2>2 DEF GatewayRestarts, Observed, Rest
  <2>4. script' \in ScriptType
    BY <1>1, <1>6 DEF ScriptRestarts, Crash, Rest
  <2>5. Counts'
    BY <1>6 DEF ScriptRestarts, Crash, Rest, Counts, counts
  <2>6. profile' \in Answers \cup {Absent}
    BY <2>1 DEF GatewayRestarts, Rest
  <2> QED
    BY <2>3, <2>4, <2>5, <2>6 DEF Rest
<1> QED
  BY <1>2, <1>3, <1>4, <1>5, <1>6 DEF ScriptStep

LEMMA NextRests == IInv /\ Rest /\ [Next]_vars => Rest'
<1> SUFFICES ASSUME IInv, Rest, [Next]_vars PROVE Rest'
  OBVIOUS
<1>1. CASE Next
  BY <1>1, EventRests, HandleRests, ScriptRests DEF Next
<1>2. CASE UNCHANGED vars
  BY <1>2 DEF vars, files, gateway, counts, observers, Rest, Counts, Observed
<1> QED
  BY <1>1, <1>2

\* Every variable keeps its type, with or without overlapping calls; that the
\* file the gateway stops with has a current question rests on IInv.
THEOREM TypeCorrect == Spec => []TypeOK
<1>1. Spec => []Rest
  BY InitRests, NextRests, SpecHolds, PTL DEF Spec
<1>2. IInv /\ Rest => TypeOK
  <2> SUFFICES ASSUME IInv, Rest PROVE TypeOK
    OBVIOUS
  <2>1. state \in File \cup {Absent, Torn}
    BY DEF IInv, FilesAreSound, Sound
  <2>2. /\ tmp \in [Stamps -> File \cup {Absent}]
        /\ pc \in [Handlers -> {"idle", "read", "write", "rename", "after", "profile"}]
        /\ task \in [Handlers -> Task]
    BY DEF IInv, FilesAreSound, HandlersHold, Labels
  <2> QED
    BY <2>1, <2>2 DEF Rest, Counts, Observed, TypeOK, Answers
<1> QED
  BY <1>1, <1>2, SpecHolds, PTL

-----------------------------------------------------------------------------
(***************************************************************************)
(* Calls that do not overlap.  Nobody writes the file between what a       *)
(* handler reads and what it renames over it, so each answer is that of    *)
(* the question the file has, and what was asked is written down before    *)
(* the next handler reads it.                                              *)
(***************************************************************************)
Readable == state \notin {Absent, Torn}

\* What the handler h has in hand is still so.
Turn(h) ==
  LET t == task[h] IN
  /\ pc[h] \in {"write", "rename"} =>
       /\ Readable /\ state.status = "active" /\ Wanted(state, t) /\ t.file = NextFile(state, t)
  /\ pc[h] = "rename" => tmp[t.name] = t.file
  /\ pc[h] \in {"after", "profile"} => Readable /\ state = t.file
  /\ pc[h] = "after" /\ t.does # "received" => state.status = "active"
  /\ pc[h] = "after" /\ t.does = "fallback" =>
       /\ t.looks = {state.current} /\ state.transition.fallback
       /\ fallbacks[state.current] = 0 /\ state.current \notin noticed

\* The questions that were asked by the fallback, or noticed to be asked.
Told ==
  Readable =>
    \A q \in Sequence :
      /\ fallbacks[q] > 0 =>
           /\ q <= state.current
           /\ q = state.current /\ state.status = "active" => state.transition.fallback
      /\ q \in noticed =>
           /\ q <= state.current
           /\ q = state.current /\ state.status = "active" => state.transition.observed

InTurn ==
  /\ \A h, k \in Handlers : pc[h] # "idle" /\ pc[k] # "idle" => h = k
  /\ script.at = "opened" => script.held /\ state = Torn /\ \A h \in Handlers : pc[h] = "idle"
  /\ \A h \in Handlers : Turn(h)
  /\ Told
  /\ ConfirmedIsInProfile

\* A handler that goes on is the only one there is.
LEMMA OneGoesOn ==
  ASSUME HandlersHold, InTurn, NEW h \in Handlers, NEW l, NEW t, Goto(h, l, t),
         pc[h] # "idle" \/ (MayBegin /\ ~Overlap)
  PROVE  /\ script.at # "opened" /\ pc'[h] = l /\ task'[h] = t
         /\ \A k \in Handlers : k # h => pc[k] = "idle" /\ pc'[k] = "idle"
<1>1. script.at # "opened" /\ \A k \in Handlers : k # h => pc[k] = "idle"
  BY DEF InTurn, MayBegin
<1>2. pc'[h] = l /\ task'[h] = t /\ \A k \in Handlers : k # h => pc'[k] = pc[k]
  BY DEF HandlersHold, Goto
<1> QED
  BY <1>1, <1>2

\* Then only its own turn, and what it wrote, are to be looked at.
LEMMA OneInTurn ==
  ASSUME HandlersHold, InTurn, NEW h \in Handlers, NEW l, NEW t, Goto(h, l, t),
         pc[h] # "idle" \/ (MayBegin /\ ~Overlap), script'.at = script.at,
         Turn(h)', Told', ConfirmedIsInProfile'
  PROVE  InTurn'
<1>1. script'.at # "opened" /\ \A k \in Handlers : k # h => pc'[k] = "idle"
  BY OneGoesOn
<1>2. ASSUME NEW k \in Handlers PROVE Turn(k)'
  BY <1>1 DEF Turn
<1> QED
  BY <1>1, <1>2 DEF InTurn

\* A handler that returns without a write.
LEMMA ReturnInTurn ==
  ASSUME HandlersHold, InTurn, NEW h \in Handlers, pc[h] # "idle", Return(h),
         script'.at = script.at, Told', ConfirmedIsInProfile'
  PROVE  InTurn'
<1>1. Goto(h, "idle", NoTask) /\ pc'[h] = "idle"
  BY OneGoesOn DEF Return
<1>2. Turn(h)'
  BY <1>1 DEF Turn
<1> QED
  BY <1>1, <1>2, OneInTurn

\* Nobody but a handler that is done writing is about to write the profile.
LEMMA ConfirmedKept ==
  ASSUME InTurn, UNCHANGED <<state, profile, lost>>,
         \A k \in Handlers : pc[k] \notin {"after", "profile"}
  PROVE  ConfirmedIsInProfile'
BY DEF InTurn, ConfirmedIsInProfile

LEMMA ToldKept ==
  ASSUME Told, UNCHANGED <<state, fallbacks, noticed>>
  PROVE  Told'
BY DEF Told, Readable

\* A file that is not the record of a whole answer is not confirmed.
LEMMA SoundReadable ==
  ASSUME FilesAreSound, Readable
  PROVE  Sound(state) /\ state \in File
BY DEF FilesAreSound, Readable, Sound

LEMMA NotFiles == Absent \notin File /\ Torn \notin File /\ None \notin File
BY FileAssumption

LEMMA EventInTurn ==
  ASSUME ~Overlap, IInv, InTurn, NEW h \in Handlers, Event(h)
  PROVE  InTurn'
<1>1. ASSUME NEW does, NEW message, NEW looks, Call(h, does, message, looks),
             UNCHANGED <<files, script, fallbacks, noticed, lost>>
      PROVE  InTurn'
  <2> DEFINE t == [does |-> does, message |-> message, looks |-> looks,
                   file |-> None, name |-> None]
  <2>1. MayBegin /\ Goto(h, "read", t) /\ HandlersHold
    BY <1>1 DEF Call, IInv
  <2> HIDE DEF t
  <2>2. pc'[h] = "read" /\ \A k \in Handlers : pc[k] = "idle"
    BY <2>1, <1>1, OneGoesOn DEF Call
  <2>3. Turn(h)'
    BY <2>2 DEF Turn
  <2>4. Told' /\ ConfirmedIsInProfile'
    BY <1>1, <2>2, ToldKept, ConfirmedKept DEF InTurn, files
  <2> QED
    BY <1>1, <2>1, <2>3, <2>4, OneInTurn
<1>2. ASSUME NEW m \in Messages, Receive(h, m) PROVE InTurn'
  BY <1>1, <1>2 DEF Receive, observers
<1>3. ASSUME NEW looks \in Looks, AgentWrites(h, looks) PROVE InTurn'
  BY <1>1, <1>3 DEF AgentWrites
<1>4. ASSUME NEW t \in Timers, TimerFires(h, t) PROVE InTurn'
  BY <1>1, <1>4 DEF TimerFires, observers
<1> QED
  BY <1>2, <1>3, <1>4 DEF Event

LEMMA ReadInTurn ==
  ASSUME IInv, InTurn, NEW h \in Handlers, Read(h)
  PROVE  InTurn'
<1> DEFINE t == task[h]
           w == [t EXCEPT !.file = NextFile(state, t)]
<1>0. /\ HandlersHold /\ pc[h] = "read" /\ t \in Task
      /\ UNCHANGED <<files, script, fallbacks, noticed, lost>>
  BY DEF IInv, HandlersHold, Read, observers
<1>1. \A k \in Handlers : pc[k] \notin {"after", "profile"}
  BY <1>0 DEF InTurn
<1>2. Told' /\ ConfirmedIsInProfile'
  BY <1>0, <1>1, ToldKept, ConfirmedKept DEF InTurn, files
<1>3. CASE Return(h)
  BY <1>0, <1>2, <1>3, ReturnInTurn
<1>4. CASE Readable /\ state.status = "active" /\ Wanted(state, t) /\ Goto(h, "write", w)
  <2>1. /\ w.does = t.does /\ w.message = t.message /\ w.looks = t.looks
        /\ w.file = NextFile(state, t)
    BY <1>0 DEF Task
  <2>2. Wanted(state, w) /\ w.file = NextFile(state, w)
    BY <1>4, <2>1 DEF Wanted, NextFile
  <2> HIDE DEF w
  <2>3. pc'[h] = "write" /\ task'[h] = w
    BY <1>0, <1>4, OneGoesOn
  <2>4. Turn(h)'
    BY <1>0, <1>4, <2>2, <2>3 DEF Turn, Readable, files
  <2> QED
    BY <1>0, <1>2, <1>4, <2>4, OneInTurn
<1> QED
  BY <1>3, <1>4 DEF Read, Readable

LEMMA WriteTmpInTurn ==
  ASSUME IInv, InTurn, NEW h \in Handlers, NEW s \in Stamps, WriteTmp(h, s)
  PROVE  InTurn'
<1> DEFINE t == task[h]
           w == [t EXCEPT !.name = s]
<1>0. /\ HandlersHold /\ FilesAreSound /\ pc[h] = "write" /\ t \in Task /\ Goto(h, "rename", w)
      /\ UNCHANGED <<state, profile, script, fallbacks, noticed, lost>>
      /\ tmp' = [tmp EXCEPT ![s] = t.file]
  BY DEF IInv, HandlersHold, WriteTmp, observers
<1>1. \A k \in Handlers : pc[k] \notin {"after", "profile"}
  BY <1>0 DEF InTurn
<1>2. Told' /\ ConfirmedIsInProfile'
  BY <1>0, <1>1, ToldKept, ConfirmedKept DEF InTurn
<1>3. /\ w.does = t.does /\ w.message = t.message /\ w.looks = t.looks
      /\ w.file = t.file /\ w.name = s
  BY <1>0 DEF Task
<1> HIDE DEF w
<1>4. Readable /\ state.status = "active" /\ Wanted(state, w) /\ w.file = NextFile(state, w)
  <2>1. Readable /\ state.status = "active" /\ Wanted(state, t) /\ t.file = NextFile(state, t)
    BY <1>0 DEF InTurn, Turn
  <2> QED
    BY <1>3, <2>1 DEF Wanted, NextFile
<1>5. tmp'[s] = w.file
  BY <1>0, <1>3 DEF FilesAreSound
<1>6. pc'[h] = "rename" /\ task'[h] = w
  BY <1>0, OneGoesOn
<1>7. Turn(h)'
  BY <1>0, <1>3, <1>4, <1>5, <1>6 DEF Turn, Readable
<1> QED
  BY <1>0, <1>2, <1>7, OneInTurn

\* What becomes of the file that was read.
LEMMA NextFileMoves ==
  ASSUME NEW f, Sound(f), f.status = "active", NEW t, Wanted(f, t), t.does # "nothing",
         t.does = "received" => t.message \in Messages
  PROVE  LET g == NextFile(f, t) IN
         /\ Sound(g) /\ f.current \in Nat /\ g.current \in Nat
         /\ t.does = "received" =>
              IF g.status = "active" THEN g.current = f.current + 1 ELSE g.current = f.current
         /\ t.does # "received" =>
              /\ g.status = "active" /\ g.current = f.current /\ g.answers = f.answers
         /\ t.does = "sent" =>
              /\ Expected(g) = f.current
              /\ g.transition.observed /\ g.transition.fallback = f.transition.fallback
         /\ t.does \notin {"received", "sent"} =>
              /\ t.looks = {f.current} /\ ~f.transition.observed /\ ~f.transition.fallback
              /\ g.transition.fallback /\ g.transition.observed = f.transition.observed
<1> DEFINE g == NextFile(f, t)
<1>1. Sound(g)
  BY NextFileIsSound
<1>2. /\ f \in File /\ f.transition \in Transition /\ f.current \in Sequence
      /\ f.current \in Nat /\ f.current <= Questions /\ g.current \in Nat
  BY <1>1, HookAssumption DEF Sound, File, Sequence
<1>3. ASSUME t.does = "received"
      PROVE  IF g.status = "active" THEN g.current = f.current + 1 ELSE g.current = f.current
  BY <1>2, <1>3, HookAssumption DEF NextFile, Record, NextQuestion
<1>4. ASSUME t.does = "sent"
      PROVE  /\ g.status = "active" /\ g.current = f.current /\ g.answers = f.answers
             /\ g.transition.to = f.transition.to /\ g.transition.observed
             /\ g.transition.fallback = f.transition.fallback
  BY <1>2, <1>4 DEF NextFile, File, Transition
<1>5. ASSUME t.does \notin {"received", "sent"}
      PROVE  /\ g.status = "active" /\ g.current = f.current /\ g.answers = f.answers
             /\ g.transition.fallback /\ g.transition.observed = f.transition.observed
  BY <1>2, <1>5 DEF NextFile, File, Transition
<1>6. f.transition.to \in {0, f.current}
  BY DEF Sound, Consistent
<1>7. t.does = "sent" => Expected(g) = f.current
  BY <1>4, <1>6 DEF Expected
<1>8. t.does \notin {"received", "sent"} =>
        t.looks = {f.current} /\ ~f.transition.observed /\ ~f.transition.fallback
  BY DEF Wanted
<1> HIDE DEF g
<1>9. /\ Sound(g) /\ f.current \in Nat /\ g.current \in Nat
      /\ t.does = "received" =>
           IF g.status = "active" THEN g.current = f.current + 1 ELSE g.current = f.current
      /\ t.does # "received" =>
           /\ g.status = "active" /\ g.current = f.current /\ g.answers = f.answers
      /\ t.does = "sent" =>
           /\ Expected(g) = f.current
           /\ g.transition.observed /\ g.transition.fallback = f.transition.fallback
      /\ t.does \notin {"received", "sent"} =>
           /\ t.looks = {f.current} /\ ~f.transition.observed /\ ~f.transition.fallback
           /\ g.transition.fallback /\ g.transition.observed = f.transition.observed
  BY <1>1, <1>2, <1>3, <1>4, <1>5, <1>7, <1>8
<1> QED
  BY <1>9 DEF g

\* The handler's file takes the place of the one it read.
LEMMA RenameInTurn ==
  ASSUME IInv, Rest, InTurn, NEW h \in Handlers, Rename(h)
  PROVE  /\ InTurn' /\ Readable /\ state.status = "active" /\ Wanted(state, task[h])
         /\ state' = NextFile(state, task[h])
<1> DEFINE f == state  t == task[h]  g == t.file
<1>0. /\ HandlersHold /\ FilesAreSound /\ pc[h] = "rename" /\ Holds("rename", t)
      /\ UNCHANGED <<profile, fallbacks, lost>>
  BY DEF IInv, HandlersHold, Rename
<1>1. /\ Readable /\ f.status = "active" /\ Wanted(f, t) /\ g = NextFile(f, t) /\ tmp[t.name] = g
  BY <1>0 DEF InTurn, Turn
<1>2. Sound(f) /\ Sound(g) /\ f.current \in Sequence /\ t.does # "nothing"
      /\ (t.does = "received" => t.message \in Messages)
  BY <1>0, <1>1, SoundReadable DEF Holds, Sound, File
<1>3. /\ state' = g /\ Goto(h, "after", t) /\ script' = [script EXCEPT !.held = FALSE]
      /\ noticed' = IF t.does = "sent" THEN noticed \cup {Expected(g)} ELSE noticed
  BY <1>1, <1>2, NotFiles DEF Rename, Sound
<1>4. script'.at = script.at
  BY <1>3 DEF Rest
<1>5. pc'[h] = "after" /\ task'[h] = t
  BY <1>0, <1>3, OneGoesOn
<1>6. /\ f.current \in Nat /\ g.current \in Nat
      /\ t.does = "received" =>
           IF g.status = "active" THEN g.current = f.current + 1 ELSE g.current = f.current
      /\ t.does # "received" => g.status = "active" /\ g.current = f.current
      /\ t.does = "sent" =>
           /\ Expected(g) = f.current
           /\ g.transition.observed /\ g.transition.fallback = f.transition.fallback
      /\ t.does \notin {"received", "sent"} =>
           /\ t.looks = {f.current} /\ ~f.transition.observed /\ ~f.transition.fallback
           /\ g.transition.fallback /\ g.transition.observed = f.transition.observed
  BY <1>1, <1>2, NextFileMoves
<1> HIDE DEF f, t, g
<1>7. Readable'
  BY <1>2, <1>3, NotFiles DEF Readable, Sound
<1>8. \A q \in Sequence :
        /\ fallbacks[q] > 0 =>
             q <= f.current /\ (q = f.current => f.transition.fallback)
        /\ q \in noticed =>
             q <= f.current /\ (q = f.current => f.transition.observed)
  BY <1>1 DEF InTurn, Told, f
<1>9. Told'
  <2> SUFFICES ASSUME NEW q \in Sequence
               PROVE  /\ fallbacks[q] > 0 =>
                           /\ q <= g.current
                           /\ q = g.current /\ g.status = "active" => g.transition.fallback
                      /\ q \in noticed' =>
                           /\ q <= g.current
                           /\ q = g.current /\ g.status = "active" => g.transition.observed
    BY <1>0, <1>3 DEF Told
  <2>0. q \in Nat
    BY HookAssumption DEF Sequence
  <2>1. CASE t.does = "received"
    BY <2>0, <2>1, <1>3, <1>6, <1>8
  <2>2. CASE t.does = "sent"
    BY <2>0, <2>2, <1>3, <1>6, <1>8
  <2>3. CASE t.does \notin {"received", "sent"}
    BY <2>0, <2>3, <1>3, <1>6, <1>8
  <2> QED
    BY <2>1, <2>2, <2>3
<1>10. ConfirmedIsInProfile'
  BY <1>3, <1>5 DEF ConfirmedIsInProfile, g, t
<1>11. t.does = "fallback" =>
         /\ t.looks = {g.current} /\ g.transition.fallback
         /\ fallbacks'[g.current] = 0 /\ g.current \notin noticed'
  <2>1. fallbacks[f.current] \in Nat
    BY <1>2 DEF Rest, Observed
  <2> QED
    BY <2>1, <1>0, <1>2, <1>3, <1>6, <1>8
<1>12. Turn(h)'
  BY <1>3, <1>5, <1>6, <1>7, <1>11 DEF Turn, g, t
<1>13. pc[h] # "idle" /\ Goto(h, "after", t)
  BY <1>0, <1>3
<1>14. InTurn'
  BY <1>0, <1>4, <1>9, <1>10, <1>12, <1>13, OneInTurn
<1> QED
  BY <1>1, <1>3, <1>14 DEF f, t, g

\* What is done after the file was renamed.
LEMMA AfterInTurn ==
  ASSUME IInv, Rest, InTurn, NEW h \in Handlers,
         AfterAnswer(h) \/ WriteProfile(h) \/ SendFallback(h) \/ AfterSent(h)
  PROVE  InTurn'
<1> DEFINE t == task[h]
<1>0. /\ HandlersHold /\ FilesAreSound /\ pc[h] \in {"after", "profile"} /\ UNCHANGED script
      /\ UNCHANGED <<state, lost, noticed>>
  BY DEF IInv, AfterAnswer, WriteProfile, SendFallback, AfterSent, files, observers
<1>1. Readable /\ state = t.file /\ script'.at = script.at
      /\ \A k \in Handlers : k # h => pc[k] = "idle"
  BY <1>0 DEF InTurn, Turn
<1>2. CASE AfterAnswer(h) \/ AfterSent(h)
  <2>1. Told'
    BY <1>0, <1>2, ToldKept DEF InTurn, AfterAnswer, AfterSent, observers
  <2>2. CASE Return(h)
    <3>1. state.status # "confirmed"
      <4>1. CASE AfterSent(h)
        BY <4>1 DEF AfterSent, InTurn, Turn
      <4>2. CASE AfterAnswer(h)
        <5>1. pc'[h] = "idle"
          BY <1>0, <2>2, OneGoesOn DEF Return
        <5>2. ~Goto(h, "profile", t)
          BY <1>0, <5>1, OneGoesOn
        <5> QED
          BY <1>1, <4>2, <5>2 DEF AfterAnswer
      <4> QED
        BY <1>2, <4>1, <4>2
    <3>2. ConfirmedIsInProfile'
      BY <1>0, <3>1 DEF ConfirmedIsInProfile
    <3> QED
      BY <1>0, <1>1, <2>1, <2>2, <3>2, ReturnInTurn
  <2>3. CASE Goto(h, "profile", t)
    <3>1. pc'[h] = "profile" /\ task'[h] = t
      BY <1>0, <2>3, OneGoesOn
    <3>2. Turn(h)'
      BY <1>0, <1>1, <3>1 DEF Turn, Readable
    <3>3. ConfirmedIsInProfile'
      BY <1>0, <1>1, <3>1 DEF ConfirmedIsInProfile
    <3> QED
      BY <1>0, <1>1, <2>1, <2>3, <3>2, <3>3, OneInTurn
  <2> QED
    BY <1>2, <2>2, <2>3 DEF AfterAnswer, AfterSent
<1>3. CASE WriteProfile(h)
  <2>1. Told'
    BY <1>0, <1>3, ToldKept DEF InTurn, WriteProfile, observers
  <2>2. ConfirmedIsInProfile'
    BY <1>0, <1>1, <1>3 DEF WriteProfile, ConfirmedIsInProfile
  <2> QED
    BY <1>0, <1>1, <1>3, <2>1, <2>2, ReturnInTurn DEF WriteProfile
<1>4. CASE SendFallback(h)
  <2>1. /\ state.status = "active" /\ t.looks = {state.current} /\ state.transition.fallback
        /\ fallbacks' = [q \in Sequence |-> fallbacks[q] + (IF q \in t.looks THEN 1 ELSE 0)]
    BY <1>4 DEF SendFallback, InTurn, Turn
  <2>2. ConfirmedIsInProfile'
    BY <1>0, <2>1 DEF ConfirmedIsInProfile
  <2>3. Sound(state) /\ state.current \in Nat /\ fallbacks \in [Sequence -> Nat]
    BY <1>0, <1>1, SoundReadable, HookAssumption DEF Sound, File, Sequence, Rest, Observed
  <2>4. ASSUME NEW q \in Sequence, fallbacks'[q] > 0
        PROVE  q = state.current \/ fallbacks[q] > 0
    BY <2>1, <2>3, <2>4
  <2>5. Told'
    BY <1>0, <2>1, <2>3, <2>4 DEF InTurn, Told, Readable
  <2> QED
    BY <1>0, <1>1, <1>4, <2>2, <2>5, ReturnInTurn DEF SendFallback
<1> QED
  BY <1>2, <1>3, <1>4

LEMMA HandleInTurn ==
  ASSUME IInv, Rest, InTurn, NEW h \in Handlers, Handle(h)
  PROVE  InTurn'
BY ReadInTurn, WriteTmpInTurn, RenameInTurn, AfterInTurn DEF Handle

\* A step of the script by which no handler is disturbed.
LEMMA StillInTurn ==
  ASSUME InTurn, script'.at # "opened", UNCHANGED <<files, pc, task, observers>>
  PROVE  InTurn'
<1>1. ASSUME NEW h \in Handlers PROVE Turn(h)'
  BY DEF InTurn, Turn, Readable, Wanted, NextFile, Record, files, observers
<1>2. Told' /\ ConfirmedIsInProfile'
  BY DEF InTurn, Told, Readable, ConfirmedIsInProfile, files, observers
<1> QED
  BY <1>1, <1>2 DEF InTurn

LEMMA ScriptInTurn ==
  ASSUME ~Overlap, IInv, Rest, InTurn,
         \/ \E initial \in BOOLEAN : StartScript(initial)
         \/ ScriptStep \/ Crash \/ ScriptFails
  PROVE  InTurn'
<1>0. ASSUME \A h \in Handlers : pc'[h] = "idle", Told', ConfirmedIsInProfile',
             script'.at = "opened" => script'.held /\ state' = Torn
      PROVE  InTurn'
  BY <1>0 DEF InTurn, Turn
<1>1. ASSUME NEW initial \in BOOLEAN, StartScript(initial) PROVE InTurn'
  <2>1. (\A h \in Handlers : pc[h] = "idle") /\ UNCHANGED <<pc, task, profile, tmp, observers>>
    BY <1>1 DEF StartScript, MayBegin, gateway
  <2>2. CASE state' = Torn /\ script' = [at |-> "opened", held |-> TRUE]
    BY <1>0, <2>1, <2>2, NotFiles DEF Told, Readable, ConfirmedIsInProfile
  <2>3. CASE ScriptGoes("install") /\ UNCHANGED state
    BY <2>1, <2>3, StillInTurn DEF ScriptGoes, files
  <2> QED
    BY <1>1, <2>2, <2>3 DEF StartScript
<1>2. CASE WriteState
  <2>1. (\A h \in Handlers : pc[h] = "idle") /\ script.held /\ UNCHANGED <<pc, task>>
    BY <1>2 DEF InTurn, WriteState, gateway
  <2>2. /\ state' = Fresh /\ noticed' = {} /\ fallbacks' = [q \in Sequence |-> 0]
        /\ script'.at = "install"
    BY <1>2, <2>1 DEF WriteState, ScriptGoes
  <2>3. Told' /\ ConfirmedIsInProfile'
    BY <2>2 DEF Told, ConfirmedIsInProfile, Fresh
  <2> QED
    BY <1>0, <2>1, <2>2, <2>3
<1>3. CASE Install \/ ScriptFails
  BY <1>3, StillInTurn DEF Install, ScriptFails, ScriptGoes, gateway
<1>4. CASE ScriptRestarts \/ Crash
  <2>1. /\ \A h \in Handlers : pc'[h] = "idle"
        /\ UNCHANGED <<state, profile, noticed, fallbacks>>
        /\ lost' = IF state \in {Absent, Torn} THEN lost ELSE lost \cup {state.current}
    BY <1>4 DEF ScriptRestarts, Crash, GatewayRestarts
  <2>2. Told'
    BY <2>1, ToldKept DEF InTurn
  <2>3. state \in File /\ state.status = "confirmed" => Questions \in lost'
    BY <2>1, NotFiles, SoundReadable DEF IInv, Readable, Sound, Consistent
  <2>4. ConfirmedIsInProfile'
    BY <2>1, <2>3 DEF ConfirmedIsInProfile
  <2>5. script'.at = "opened" => script'.held /\ state' = Torn
    BY <1>4, <2>1 DEF ScriptRestarts, Crash, ScriptGoes, InTurn
  <2> QED
    BY <1>0, <2>1, <2>2, <2>4, <2>5
<1> QED
  BY <1>1, <1>2, <1>3, <1>4 DEF ScriptStep

TurnInv == IInv /\ Rest /\ InTurn

LEMMA AlwaysInTurn ==
  ASSUME Overlap = FALSE
  PROVE  Spec => []TurnInv
<1>1. Init => TurnInv
  <2> SUFFICES ASSUME Init PROVE InTurn
    BY InitHolds, InitRests DEF TurnInv
  <2>1. Told /\ ConfirmedIsInProfile
    BY NotFiles DEF Init, Told, Readable, ConfirmedIsInProfile
  <2> QED
    BY <2>1 DEF Init, InTurn, Turn, NoScript
<1>2. TurnInv /\ [Next]_vars => TurnInv'
  <2> SUFFICES ASSUME TurnInv, [Next]_vars PROVE InTurn'
    BY NextHolds, NextRests DEF TurnInv
  <2>1. CASE Next
    BY <2>1, EventInTurn, HandleInTurn, ScriptInTurn DEF Next, TurnInv
  <2>2. CASE UNCHANGED vars
    <3>1. ASSUME NEW h \in Handlers PROVE Turn(h)'
      BY <2>2 DEF TurnInv, InTurn, Turn, Readable, Wanted, NextFile, Record, vars, files, gateway, observers
    <3> QED
      BY <2>2, <3>1
         DEF TurnInv, InTurn, Told, Readable, ConfirmedIsInProfile, vars, files, gateway, observers
  <2> QED
    BY <2>1, <2>2
<1> QED
  BY <1>1, <1>2, PTL DEF Spec

\* When calls do not overlap, the handler that recorded a confirmation goes on to
\* write the profile, which stays that of the state file unless the gateway was
\* stopped between writeJson and the profile.
THEOREM ConfirmedIsSafe ==
  ASSUME Overlap = FALSE
  PROVE  Spec => []ConfirmedIsInProfile
<1>0. Spec => []TurnInv
  BY AlwaysInTurn
<1>1. TurnInv => ConfirmedIsInProfile
  BY DEF TurnInv, InTurn
<1> QED
  BY <1>0, <1>1, PTL

LEMMA FallbackStep ==
  ASSUME TurnInv, [Next]_vars, NEW q \in Sequence, fallbacks'[q] > fallbacks[q]
  PROVE  fallbacks[q] = 0 /\ q \notin noticed
<1>0. fallbacks \in [Sequence -> Nat] /\ fallbacks' # fallbacks
  BY DEF TurnInv, Rest, Observed
<1>1. ~WriteState
  <2>1. ASSUME WriteState PROVE fallbacks'[q] = 0
    BY <1>0, <2>1 DEF WriteState, observers
  <2> QED
    BY <1>0, <2>1
<1>2. PICK h \in Handlers : SendFallback(h)
  <2>1. ASSUME NEW h \in Handlers, Event(h) PROVE FALSE
    BY <1>0, <2>1 DEF Event, Receive, AgentWrites, TimerFires, observers
  <2>2. ASSUME NEW h \in Handlers, Handle(h) PROVE SendFallback(h)
    BY <1>0, <2>2
       DEF Handle, Read, Rename, AfterAnswer, WriteProfile, AfterSent, WriteTmp, observers
  <2>3. ASSUME NEW initial \in BOOLEAN, StartScript(initial) PROVE FALSE
    BY <1>0, <2>3 DEF StartScript, observers
  <2>4. ~ScriptStep /\ ~Crash /\ ~ScriptFails
    BY <1>0, <1>1
       DEF ScriptStep, Install, ScriptRestarts, Crash, ScriptFails, GatewayRestarts, observers
  <2>5. ~UNCHANGED vars
    BY <1>0 DEF vars, observers
  <2> QED
    BY <2>1, <2>2, <2>3, <2>4, <2>5 DEF Next
<1>3. q \in task[h].looks
  BY <1>0, <1>2 DEF SendFallback
<1> QED
  BY <1>2, <1>3 DEF SendFallback, TurnInv, InTurn, Turn

\* When calls do not overlap, the hook sets out to ask no question twice by the
\* fallback, nor once it noticed the agent ask it: the timer's handler looks at the
\* file before it posts, and marks the question in it first. The assumption leaves
\* out a timer that meets the agent's text at an await, where this can fail.
THEOREM FallbackIsSafe ==
  ASSUME Overlap = FALSE
  PROVE  Spec => FallbackOnce
<1>0. Spec => []TurnInv
  BY AlwaysInTurn
<1>1. TurnInv /\ [Next]_vars =>
        [\A q \in Sequence : fallbacks'[q] > fallbacks[q] => fallbacks[q] = 0 /\ q \notin noticed]_vars
  BY FallbackStep
<1> QED
  BY <1>0, <1>1, PTL DEF Spec, FallbackOnce

-----------------------------------------------------------------------------
(* The file conducts the interview of Interview, each handler at its rename. *)

StatusOf(f) == IF f \in {Absent, Torn} THEN "none" ELSE f.status
SaidOf(f) == IF f \in {Absent, Torn} THEN << >> ELSE [i \in DOMAIN f.answers |-> f.answers[i].message]

LEMMA AnswerAppended ==
  ASSUME NEW a \in Answers, NEW q \in Sequence, NEW m \in Messages
  PROVE  [i \in DOMAIN Append(a, [question |-> q, message |-> m]) |->
            Append(a, [question |-> q, message |-> m])[i].message]
         = Append([i \in DOMAIN a |-> a[i].message], m)
<1> DEFINE x == [question |-> q, message |-> m]
           b == Append(a, x)
           s == [i \in DOMAIN a |-> a[i].message]
<1>1. Len(a) \in Nat /\ DOMAIN a = 1 .. Len(a) /\ \A i \in 1 .. Len(a) : a[i].message \in Messages
  <2>1. \A i \in 1 .. Len(a) : a[i] \in [question : Sequence, message : Messages]
    BY ElementOfSeq DEF Answers
  <2> QED
    BY <2>1 DEF Answers
<1>2. x \in [question : Sequence, message : Messages] /\ x.message = m
  OBVIOUS
<1>3. /\ DOMAIN b = 1 .. (Len(a) + 1) /\ \A i \in 1 .. Len(a) : b[i] = a[i]
      /\ b[Len(a) + 1] = x
  BY <1>1, <1>2 DEF Answers
<1>4. s \in Seq(Messages) /\ Len(s) = Len(a)
  BY <1>1
<1>5. /\ Append(s, m) \in Seq(Messages) /\ Len(Append(s, m)) = Len(a) + 1
      /\ \A i \in 1 .. Len(a) : Append(s, m)[i] = a[i].message
      /\ Append(s, m)[Len(a) + 1] = m
  BY <1>1, <1>4
<1>6. [i \in DOMAIN b |-> b[i].message] \in Seq(Messages)
      /\ Len([i \in DOMAIN b |-> b[i].message]) = Len(a) + 1
  BY <1>1, <1>2, <1>3
<1> HIDE DEF b, s, x
<1>7. \A i \in 1 .. (Len(a) + 1) : [j \in DOMAIN b |-> b[j].message][i] = Append(s, m)[i]
  BY <1>1, <1>2, <1>3, <1>5
<1>8. [i \in DOMAIN b |-> b[i].message] = Append(s, m)
  BY <1>1, <1>5, <1>6, <1>7, SeqEqual
<1> QED
  BY <1>8 DEF b, s, x

\* What a handler's rename is to the interview.
LEMMA RenameConducts ==
  ASSUME TurnInv, NEW h \in Handlers, Rename(h)
  PROVE  \/ StatusOf(state') = StatusOf(state) /\ SaidOf(state') = SaidOf(state)
         \/ \E m \in Messages : Conducted!Stop(m) \/ Conducted!Answer(m) \/ Conducted!Confirm(m)
<1> DEFINE f == state  t == task[h]  g == NextFile(f, t)
<1>1. /\ Readable /\ f.status = "active" /\ Wanted(f, t) /\ state' = g
      /\ Holds("rename", t) /\ Sound(f) /\ Readable'
  <2>1. Readable /\ f.status = "active" /\ Wanted(f, t) /\ state' = g /\ InTurn'
    BY RenameInTurn DEF TurnInv
  <2>2. Sound(f) /\ Holds("rename", t)
    BY <2>1, SoundReadable DEF TurnInv, IInv, HandlersHold, Rename
  <2>3. Sound(g)
    BY <2>1, <2>2, NextFileIsSound DEF Holds
  <2> QED
    BY <2>1, <2>2, <2>3, NotFiles DEF Readable, Sound
<1>2. /\ StatusOf(state) = "active" /\ StatusOf(state') = g.status
      /\ SaidOf(state) = [i \in DOMAIN f.answers |-> f.answers[i].message]
      /\ SaidOf(state') = [i \in DOMAIN g.answers |-> g.answers[i].message]
  BY <1>1 DEF StatusOf, SaidOf, Readable
<1>3. CASE t.does # "received"
  <2>1. g.status = "active" /\ g.answers = f.answers
    BY <1>1, <1>3, NextFileMoves DEF Holds
  <2> QED
    BY <1>2, <2>1
<1>4. CASE t.does = "received"
  <2>0. PICK m \in Messages : m = t.message
    BY <1>1, <1>4 DEF Holds
  <2> DEFINE a == f.answers
  <2>1. /\ m \in Messages /\ ~Processed(f, m) /\ g = Record(f, m)
        /\ a \in Answers /\ f.current \in Sequence /\ f.current = Len(a) + 1 /\ Consistent(f)
        /\ Len(a) \in Nat /\ DOMAIN a = 1 .. Len(a)
    BY <1>1, <1>4, <2>0, HookAssumption
       DEF Holds, Wanted, NextFile, Sound, File, Answers, Consistent, Answered, Sequence
  <2>2. /\ g.answers = Append(a, [question |-> f.current, message |-> m])
        /\ g.status = IF m \in Stops THEN "paused"
                      ELSE IF f.current = Questions THEN "confirmed" ELSE "active"
    BY <2>1 DEF Record
  <2>3. SaidOf(state') = Append(SaidOf(state), m)
    BY <1>2, <2>1, <2>2, AnswerAppended
  <2>4. DOMAIN SaidOf(state) = 1 .. Len(a) /\ Len(SaidOf(state)) = Len(a)
        /\ \A i \in 1 .. Len(a) : SaidOf(state)[i] = a[i].message
    BY <1>2, <2>1
  <2>5. m \in Anonymous \/ \A i \in DOMAIN SaidOf(state) : SaidOf(state)[i] # m
    <3>1. \A i \in DOMAIN a : Id(a[i].message) # None => Processed(f, a[i].message)
      BY <2>1 DEF Consistent
    <3>2. m \notin Anonymous => Id(m) # None
      BY <2>1, HookAssumption DEF Id
    <3> QED
      BY <2>1, <2>4, <3>1, <3>2
  <2>6. Conducted!Hear(m)
    BY <1>2, <2>3, <2>5 DEF Conducted!Hear, Conducted!Fresh, StatusOf, SaidOf
  <2>7. f.current <= Questions /\ Questions \in Nat
    BY <2>1, HookAssumption DEF Sequence
  <2>8. m \in Stops => Conducted!Stop(m)
    BY <1>2, <2>1, <2>2, <2>6 DEF Conducted!Stop, StatusOf
  <2>9. m \notin Stops /\ f.current = Questions => Conducted!Confirm(m)
    BY <1>2, <2>1, <2>2, <2>4, <2>6 DEF Conducted!Confirm, StatusOf, SaidOf
  <2>10. m \notin Stops /\ f.current # Questions => Conducted!Answer(m)
    BY <1>2, <2>1, <2>2, <2>4, <2>6, <2>7 DEF Conducted!Answer, StatusOf, SaidOf
  <2>11. Conducted!Stop(m) \/ Conducted!Answer(m) \/ Conducted!Confirm(m)
    BY <2>8, <2>9, <2>10
  <2> QED
    BY <2>11
<1> QED
  BY <1>3, <1>4

LEMMA StepConducts ==
  ASSUME TurnInv, [Next]_vars
  PROVE  [Conducted!Next]_<<StatusOf(state), SaidOf(state)>>
<1>1. CASE UNCHANGED state
  BY <1>1 DEF StatusOf, SaidOf
<1>2. CASE \E h \in Handlers : Rename(h)
  BY <1>2, RenameConducts DEF Conducted!Next
<1>3. CASE state' = Torn
  BY <1>3 DEF StatusOf, SaidOf, Conducted!Next, Conducted!Discard
<1>4. CASE WriteState /\ state' = Fresh
  <2>1. state = Torn
    BY <1>4 DEF TurnInv, InTurn, WriteState
  <2>2. Fresh \notin {Absent, Torn} /\ Fresh.status = "active" /\ Fresh.answers = << >>
    BY FreshIsSound, NotFiles DEF Sound, Fresh
  <2>3. StatusOf(state) = "none" /\ StatusOf(state') = "active"
    BY <1>4, <2>1, <2>2 DEF StatusOf
  <2>4. SaidOf(state') = << >>
    <3>1. SaidOf(state') = [i \in DOMAIN Fresh.answers |-> Fresh.answers[i].message]
      BY <1>4, <2>2 DEF SaidOf
    <3> QED
      BY <2>2, <3>1
  <2> QED
    BY <2>3, <2>4 DEF Conducted!Next, Conducted!Begin, StatusOf, SaidOf
<1>5. \/ UNCHANGED state \/ (\E h \in Handlers : Rename(h)) \/ state' = Torn
      \/ WriteState /\ state' = Fresh
  <2>1. ASSUME NEW h \in Handlers, Event(h) \/ Handle(h), ~Rename(h) PROVE UNCHANGED state
    BY <2>1 DEF Event, Handle, Receive, AgentWrites, TimerFires, Read, WriteTmp, AfterAnswer,
       WriteProfile, SendFallback, AfterSent, files
  <2>2. ASSUME NEW initial \in BOOLEAN, StartScript(initial) PROVE UNCHANGED state \/ state' = Torn
    BY <2>2 DEF StartScript
  <2>3. CASE ScriptStep \/ Crash \/ ScriptFails
    BY <2>3 DEF ScriptStep, WriteState, Install, ScriptRestarts, Crash, ScriptFails,
       GatewayRestarts, files
  <2>4. CASE UNCHANGED vars
    BY <2>4 DEF vars, files
  <2> QED
    BY <2>1, <2>2, <2>3, <2>4 DEF Next
<1> QED
  BY <1>1, <1>2, <1>3, <1>4, <1>5

\* Handlers that do not overlap take the owner through one interview: an answer
\* each to the questions in order, none twice, and the end is kept.
THEOREM InterviewImplemented ==
  ASSUME Overlap = FALSE
  PROVE  Spec => ImplementsInterview
<1>0. Spec => []TurnInv
  BY AlwaysInTurn
<1>1. Init => Conducted!Init
  BY DEF Init, Conducted!Init
<1>2. TurnInv /\ [Next]_vars => [Conducted!Next]_Conducted!interviewVars
  BY StepConducts DEF StatusOf, SaidOf, Conducted!interviewVars
<1> QED
  BY <1>0, <1>1, <1>2, PTL DEF Spec, ImplementsInterview, Conducted!Spec

=============================================================================
