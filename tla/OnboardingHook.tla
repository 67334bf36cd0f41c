--------------------------- MODULE OnboardingHook ---------------------------
(***************************************************************************)
(* The owner onboarding interview in a guest: the continuation hook        *)
(* (JavaScript in the OpenClaw gateway), the script by which the host      *)
(* starts an interview, and the one state file they share.                 *)
(*                                                                         *)
(* Every handler reads the file, computes the next one and renames it into *)
(* place, with awaits in between at which other handlers run.  Questions   *)
(* are numbers, the last one the summary confirmation; wording and         *)
(* asked_question_ids, which nothing reads, are left out.                  *)
(***************************************************************************)
EXTENDS Naturals, Sequences

CONSTANTS
  Questions,      \* the length of the question sequence
  Messages,       \* the owner's messages in the Slack DM
  Stops,          \* those that say stop or pause
  Anonymous,      \* those delivered without a message id
  Handlers,       \* the hook's calls that can be under way at once
  Stamps,         \* the names temporary files can get in one millisecond
  Overlap,        \* can a handler start before the others are done?
  MaxProcessed,   \* how many message ids are remembered (80)
  MaxRepeats, MaxReplies, MaxStarts, MaxKills, MaxFails, \* bounds
  Absent, Torn, None

Sequence == 1 .. Questions

ASSUME HookAssumption ==
  /\ Questions \in Nat /\ Questions > 1
  /\ Stops \subseteq Messages /\ Anonymous \subseteq Messages
  /\ Overlap \in BOOLEAN
  /\ MaxProcessed \in Nat /\ MaxProcessed >= Questions
  /\ {MaxRepeats, MaxReplies, MaxStarts, MaxKills, MaxFails} \subseteq Nat
  /\ None \notin Messages

\* cleanString(context.messageId)
Id(m) == IF m \in Anonymous THEN None ELSE m
Ids == Messages \cup {None}

Transition == [inbound : Ids, to : {0} \cup Sequence, observed : BOOLEAN, fallback : BOOLEAN]
NoTransition == [inbound |-> None, to |-> 0, observed |-> FALSE, fallback |-> FALSE]

File ==
  [status : {"active", "paused", "confirmed"}, current : Sequence,
   answers : Seq([question : Sequence, message : Messages]),
   processed : Seq(Messages), transition : Transition]

Fresh ==
  [status |-> "active", current |-> 1, answers |-> << >>, processed |-> << >>,
   transition |-> NoTransition]

ASSUME FileAssumption == Absent \notin File /\ Torn \notin File /\ None \notin File /\ Absent # Torn

Timers == [inbound : Ids, question : Sequence]

VARIABLES
  state,      \* owner-onboarding-state.json; Torn when it cannot be parsed
  profile,    \* the answers in owner-profile.md
  tmp,        \* the temporary files
  pc, task,   \* what each handler does next, and for which event
  timers,     \* how many fallback timers of each kind are set
  hook,       \* is the hook on the disk, and in the running gateway?
  script,     \* the script of `owner-onboarding start`
  delivered,  \* the messages that were delivered
  repeats, replies, starts, kills, fails,  \* how often so far
  \* Kept for the properties, about the interview under way:
  shown,      \* the questions a text of the agent looked like
  noticed,    \* those the hook noticed the agent ask
  fallbacks,  \* how often the fallback set out to ask each
  lost        \* those that were current when the gateway stopped

files == <<state, profile, tmp>>
gateway == <<pc, task, timers, hook>>
counts == <<delivered, repeats, replies, starts, kills, fails>>
observers == <<shown, noticed, fallbacks, lost>>
vars == <<files, gateway, script, counts, observers>>

NoTask == [does |-> "nothing", message |-> None, looks |-> {}, file |-> None, name |-> None]
NoScript == [at |-> "idle", held |-> FALSE]

Init ==
  /\ state = Absent /\ profile = Absent
  /\ tmp = [s \in Stamps |-> Absent]
  /\ pc = [h \in Handlers |-> "idle"]
  /\ task = [h \in Handlers |-> NoTask]
  /\ timers = [t \in Timers |-> 0]
  /\ hook = "none" /\ script = NoScript
  /\ delivered = {}
  /\ repeats = 0 /\ replies = 0 /\ starts = 0 /\ kills = 0 /\ fails = 0
  /\ shown = {} /\ noticed = {} /\ lost = {}
  /\ fallbacks = [q \in Sequence |-> 0]

MayBegin ==
  Overlap \/ (script.at # "opened" /\ \A h \in Handlers : pc[h] = "idle")

Goto(h, l, t) == pc' = [pc EXCEPT ![h] = l] /\ task' = [task EXCEPT ![h] = t]

Return(h) == Goto(h, "idle", NoTask)

-----------------------------------------------------------------------------
(* Events *)

\* A handler is called; it first awaits the owner's user id.
Call(h, does, message, looks) ==
  /\ MayBegin /\ pc[h] = "idle" /\ hook = "loaded"
  /\ Goto(h, "read", [does |-> does, message |-> message, looks |-> looks,
                      file |-> None, name |-> None])

\* The owner's DM, perhaps once more.  Messages of others, empty ones and
\* commands are ignored without any effect.
Receive(h, m) ==
  /\ delivered' = delivered \cup {m}
  /\ \/ m \notin delivered /\ UNCHANGED repeats
     \/ m \in delivered /\ repeats < MaxRepeats /\ repeats' = repeats + 1
  /\ Call(h, "received", m, {})
  /\ UNCHANGED <<files, timers, hook, script, replies, starts, kills, fails, observers>>

\* The questions a text may look like.  What has a question mark looks like the
\* first one, which has no keywords, and maybe like others.
Looks == {looks \in SUBSET Sequence : looks # {} => 1 \in looks}

\* The agent writes to the owner.  Whether it asks what it looks to ask is its own.
AgentWrites(h, looks) ==
  /\ replies < MaxReplies
  /\ replies' = replies + 1
  /\ shown' = shown \cup looks
  /\ Call(h, "sent", None, looks)
  /\ UNCHANGED <<files, timers, hook, script, delivered, repeats, starts, kills, fails, noticed, fallbacks, lost>>

\* Ninety seconds are long: a timer goes off at any time after it was set.
TimerFires(h, t) ==
  /\ timers[t] > 0
  /\ timers' = [timers EXCEPT ![t] = @ - 1]
  /\ Call(h, "fallback", t.inbound, {t.question})
  /\ UNCHANGED <<files, hook, script, counts, observers>>

-----------------------------------------------------------------------------
(* The handlers *)

NextQuestion(q) == IF q < Questions THEN q + 1 ELSE Questions

LastOnes(ids) ==
  SubSeq(ids, IF Len(ids) > MaxProcessed THEN Len(ids) - MaxProcessed + 1 ELSE 1, Len(ids))

Processed(f, m) == Id(m) # None /\ \E i \in DOMAIN f.processed : f.processed[i] = m

Remember(f, m) == IF Id(m) = None THEN f.processed ELSE LastOnes(Append(f.processed, m))

\* Mutant: the confirmation is looked at before the request to stop.
MutRecord(f, m) ==
  LET status == IF f.current = Questions THEN "confirmed"
                ELSE IF m \in Stops THEN "paused" ELSE "active"
      to == IF status = "active" THEN NextQuestion(f.current) ELSE 0
  IN [status |-> status,
      current |-> IF to = 0 THEN f.current ELSE to,
      answers |-> Append(f.answers, [question |-> f.current, message |-> m]),
      processed |-> Remember(f, m),
      transition |-> [inbound |-> Id(m), to |-> to, observed |-> FALSE, fallback |-> FALSE]]

\* The file with the owner's message as the answer to the current question.
Record(f, m) ==
  LET status == IF m \in Stops THEN "paused"
                ELSE IF f.current = Questions THEN "confirmed" ELSE "active"
      to == IF status = "active" THEN NextQuestion(f.current) ELSE 0
  IN [status |-> status,
      current |-> IF to = 0 THEN f.current ELSE to,
      answers |-> Append(f.answers, [question |-> f.current, message |-> m]),
      processed |-> Remember(f, m),
      transition |-> [inbound |-> Id(m), to |-> to, observed |-> FALSE, fallback |-> FALSE]]

Expected(f) == IF f.transition.to # 0 THEN f.transition.to ELSE f.current

\* Mutant: markProcessed's answer is not looked at.
MutWanted(f, t) ==
  \/ t.does = "received"
  \/ t.does = "sent" /\ ~f.transition.observed /\ Expected(f) \in t.looks
  \/ /\ t.does = "fallback" /\ f.transition.inbound = t.message
     /\ ~f.transition.observed /\ ~f.transition.fallback
     /\ t.looks = {f.current}

\* Does the event concern the interview as the file has it?
Wanted(f, t) ==
  \/ t.does = "received" /\ ~Processed(f, t.message)
  \/ t.does = "sent" /\ ~f.transition.observed /\ Expected(f) \in t.looks
  \/ /\ t.does = "fallback" /\ f.transition.inbound = t.message
     /\ ~f.transition.observed /\ ~f.transition.fallback
     /\ t.looks = {f.current}

\* Mutant: a fallback is not written down.
MutNextFile(f, t) ==
  IF t.does = "received" THEN Record(f, t.message)
  ELSE IF t.does = "sent" THEN [f EXCEPT !.transition.observed = TRUE]
  ELSE f

NextFile(f, t) ==
  IF t.does = "received" THEN Record(f, t.message)
  ELSE IF t.does = "sent" THEN [f EXCEPT !.transition.observed = TRUE]
  ELSE [f EXCEPT !.transition.fallback = TRUE]

\* Mutant: the status of the interview is not looked at.
MutRead(h) ==
  /\ pc[h] = "read"
  /\ IF state \in {Absent, Torn} THEN Return(h)
     ELSE IF Wanted(state, task[h])
       THEN Goto(h, "write", [task[h] EXCEPT !.file = NextFile(state, task[h])])
       ELSE Return(h)
  /\ UNCHANGED <<files, timers, hook, script, counts, observers>>

\* readJson, and all that is computed from it before the next await.
Read(h) ==
  /\ pc[h] = "read"
  /\ IF state \in {Absent, Torn} THEN Return(h)
     ELSE IF state.status = "active" /\ Wanted(state, task[h])
       THEN Goto(h, "write", [task[h] EXCEPT !.file = NextFile(state, task[h])])
       ELSE Return(h)
  /\ UNCHANGED <<files, timers, hook, script, counts, observers>>

\* writeJson: the temporary file's name is the process id and the time.
WriteTmp(h, s) ==
  /\ pc[h] = "write"
  /\ tmp' = [tmp EXCEPT ![s] = task[h].file]
  /\ Goto(h, "rename", [task[h] EXCEPT !.name = s])
  /\ UNCHANGED <<state, profile, timers, hook, script, counts, observers>>

\* The rename fails when another handler renamed the same name.
Rename(h) ==
  LET t == task[h] IN
  /\ pc[h] = "rename"
  /\ IF tmp[t.name] = Absent
       THEN Return(h) /\ UNCHANGED <<state, tmp, script, noticed>>
       ELSE /\ state' = tmp[t.name]
            /\ tmp' = [tmp EXCEPT ![t.name] = Absent]
            /\ script' = [script EXCEPT !.held = FALSE]
            /\ noticed' = IF t.does = "sent" THEN noticed \cup {Expected(t.file)} ELSE noticed
            /\ Goto(h, "after", t)
  /\ UNCHANGED <<profile, timers, hook, counts, shown, fallbacks, lost>>

\* Mutant: the timer is for the question that was just answered.
MutAfterAnswer(h) ==
  LET t == task[h]
      timer == [inbound |-> Id(t.message), question |-> Len(t.file.answers)] IN
  /\ pc[h] = "after" /\ t.does = "received"
  /\ timers' = IF t.file.status = "active" THEN [timers EXCEPT ![timer] = @ + 1] ELSE timers
  /\ IF t.file.status = "confirmed" THEN Goto(h, "profile", t) ELSE Return(h)
  /\ UNCHANGED <<files, hook, script, counts, observers>>

\* Mutant: the profile is left to the agent.
MutConfirm(h) ==
  LET t == task[h]
      timer == [inbound |-> Id(t.message), question |-> t.file.transition.to] IN
  /\ pc[h] = "after" /\ t.does = "received"
  /\ timers' = IF t.file.status = "active" THEN [timers EXCEPT ![timer] = @ + 1] ELSE timers
  /\ Return(h)
  /\ UNCHANGED <<files, hook, script, counts, observers>>

\* What follows the save: a timer for the next question, or the profile.
AfterAnswer(h) ==
  LET t == task[h]
      timer == [inbound |-> Id(t.message), question |-> t.file.transition.to] IN
  /\ pc[h] = "after" /\ t.does = "received"
  /\ timers' = IF t.file.status = "active" THEN [timers EXCEPT ![timer] = @ + 1] ELSE timers
  /\ IF t.file.status = "confirmed" THEN Goto(h, "profile", t) ELSE Return(h)
  /\ UNCHANGED <<files, hook, script, counts, observers>>

WriteProfile(h) ==
  /\ pc[h] = "profile"
  /\ profile' = task[h].file.answers
  /\ Return(h)
  /\ UNCHANGED <<state, tmp, timers, hook, script, counts, observers>>

\* sendSlackMessage: a process of its own posts; nobody looks whether it does.
SendFallback(h) ==
  /\ pc[h] = "after" /\ task[h].does = "fallback"
  /\ fallbacks' = [q \in Sequence |-> fallbacks[q] + (IF q \in task[h].looks THEN 1 ELSE 0)]
  /\ Return(h)
  /\ UNCHANGED <<files, timers, hook, script, counts, shown, noticed, lost>>

AfterSent(h) ==
  /\ pc[h] = "after" /\ task[h].does = "sent"
  /\ Return(h)
  /\ UNCHANGED <<files, timers, hook, script, counts, observers>>

Handle(h) ==
  \/ Read(h) \/ Rename(h) \/ AfterAnswer(h) \/ WriteProfile(h) \/ SendFallback(h) \/ AfterSent(h)
  \/ \E s \in Stamps : WriteTmp(h, s)

-----------------------------------------------------------------------------
(* The script, and restarts of the gateway *)

ScriptGoes(l) == script' = [at |-> l, held |-> FALSE]

\* `start` resets the interview, `start --skip-trigger` only makes a missing
\* file.  write_text empties the file it opens before it writes.
StartScript(send_initial) ==
  /\ MayBegin /\ script.at = "idle" /\ starts < MaxStarts
  /\ starts' = starts + 1
  /\ IF send_initial \/ state = Absent
       THEN state' = Torn /\ script' = [at |-> "opened", held |-> TRUE]
       ELSE ScriptGoes("install") /\ UNCHANGED state
  /\ UNCHANGED <<profile, tmp, gateway, delivered, repeats, replies, kills, fails, observers>>

\* What is written goes to the file that was opened, which a handler may have
\* replaced since.
WriteState ==
  /\ script.at = "opened"
  /\ IF script.held
       THEN /\ state' = Fresh
            /\ shown' = {} /\ noticed' = {} /\ lost' = {}
            /\ fallbacks' = [q \in Sequence |-> 0]
       ELSE UNCHANGED <<state, observers>>
  /\ ScriptGoes("install")
  /\ UNCHANGED <<profile, tmp, gateway, counts>>

\* The hook, its configuration and the gateway's: the gateway is restarted
\* when one of them changed.  (The agent it then triggers may write.)
Install ==
  /\ script.at = "install"
  /\ hook' = IF hook = "none" THEN "installed" ELSE hook
  /\ \/ ScriptGoes("restart")
     \/ hook # "none" /\ ScriptGoes("idle")
  /\ UNCHANGED <<files, pc, task, timers, counts, observers>>

\* Handlers under way and timers are gone with the process.  The name of a
\* temporary file it leaves is never used again.
GatewayRestarts ==
  /\ pc' = [h \in Handlers |-> "idle"]
  /\ task' = [h \in Handlers |-> NoTask]
  /\ timers' = [t \in Timers |-> 0]
  /\ tmp' = [s \in Stamps |-> Absent]
  /\ hook' = IF hook = "none" THEN "none" ELSE "loaded"
  /\ lost' = IF state \in {Absent, Torn} THEN lost ELSE lost \cup {state.current}
  /\ UNCHANGED <<state, profile, shown, noticed, fallbacks>>

ScriptRestarts ==
  /\ script.at = "restart"
  /\ GatewayRestarts /\ ScriptGoes("idle")
  /\ UNCHANGED counts

Crash ==
  /\ kills < MaxKills
  /\ kills' = kills + 1
  /\ GatewayRestarts
  /\ UNCHANGED <<script, delivered, repeats, replies, starts, fails>>

\* An exception, or the host's ssh is cut off.
ScriptFails ==
  /\ script.at # "idle" /\ fails < MaxFails
  /\ fails' = fails + 1
  /\ ScriptGoes("idle")
  /\ UNCHANGED <<files, gateway, delivered, repeats, replies, starts, kills, observers>>

ScriptStep == WriteState \/ Install \/ ScriptRestarts

Event(h) ==
  \/ \E m \in Messages : Receive(h, m)
  \/ \E looks \in Looks : AgentWrites(h, looks)
  \/ \E t \in Timers : TimerFires(h, t)

Next ==
  \/ \E h \in Handlers : Event(h) \/ Handle(h)
  \/ \E initial \in BOOLEAN : StartScript(initial)
  \/ ScriptStep \/ Crash \/ ScriptFails

Spec == Init /\ [][Next]_vars

\* Node runs every handler it started, and every timer that is due.
Fairness ==
  /\ \A h \in Handlers : WF_vars(Handle(h))
  /\ \A t \in Timers : WF_vars(\E h \in Handlers : TimerFires(h, t))
  /\ WF_vars(ScriptStep)

LiveSpec == Spec /\ Fairness

-----------------------------------------------------------------------------
(* Properties *)

Task ==
  [does : {"nothing", "received", "sent", "fallback"}, message : Ids,
   looks : SUBSET Sequence, file : File \cup {None}, name : Stamps \cup {None}]

\* The variables keep their types.
TypeOK ==
  /\ state \in File \cup {Absent, Torn}
  /\ profile \in Seq([question : Sequence, message : Messages]) \cup {Absent}
  /\ tmp \in [Stamps -> File \cup {Absent}]
  /\ pc \in [Handlers -> {"idle", "read", "write", "rename", "after", "profile"}]
  /\ task \in [Handlers -> Task]
  /\ timers \in [Timers -> Nat]
  /\ hook \in {"none", "installed", "loaded"}
  /\ script \in [at : {"idle", "opened", "install", "restart"}, held : BOOLEAN]
  /\ delivered \in SUBSET Messages
  /\ {repeats, replies, starts, kills, fails} \subseteq Nat
  /\ {shown, noticed, lost} \subseteq SUBSET Sequence
  /\ fallbacks \in [Sequence -> Nat]

Answered(f) == f.current - (IF f.status = "active" THEN 1 ELSE 0)

\* A file is the record of one interview: the questions before the current one
\* are answered in their order, no message answers two, and the transition is
\* that of the last answer.
Consistent(f) ==
  /\ Len(f.answers) = Answered(f)
  /\ \A i \in DOMAIN f.answers :
       /\ f.answers[i].question = i
       /\ \A j \in DOMAIN f.answers :
            f.answers[i].message = f.answers[j].message /\ i # j
              => f.answers[i].message \in Anonymous
       /\ Id(f.answers[i].message) # None => Processed(f, f.answers[i].message)
  /\ f.status = "confirmed" => f.current = Questions
  /\ f.answers = << >> => f.transition.inbound = None /\ f.transition.to = 0
  /\ f.answers # << >> =>
       /\ f.transition.inbound = Id(f.answers[Len(f.answers)].message)
       /\ f.transition.to = (IF f.status = "active" THEN f.current ELSE 0)

\* The file that can be read, and what will be renamed over it, records one
\* interview, through redelivered messages, messages without an id, timers of
\* earlier interviews, restarts at any step of a handler, and a script that is cut
\* off (handler, markProcessed, writeJson).  The run has calls that do not overlap;
\* that overlapping ones keep it too is theorem FileIsSafe.
FileIsConsistent ==
  /\ state \in File => Consistent(state)
  /\ \A s \in Stamps : tmp[s] \in File => Consistent(tmp[s])
  /\ \A h \in Handlers : task[h].file \in File => Consistent(task[h].file)

\* The owner's profile has an answer to every question, none of them a request
\* to stop (the confirmation in handler).
ProfileIsComplete ==
  profile # Absent =>
    /\ Len(profile) = Questions
    /\ \A i \in Sequence : profile[i].question = i /\ profile[i].message \notin Stops

\* A confirmed interview is in the profile, or will be, unless the gateway was
\* stopped at its last question: nothing looks at a confirmed state again
\* (handler, profileMarkdown).
ConfirmedIsInProfile ==
  state \in File /\ state.status = "confirmed" =>
    \/ profile = state.answers \/ Questions \in lost
    \/ \E h \in Handlers : pc[h] \in {"after", "profile"} /\ task[h].file = state

\* Where calls do not overlap, the hook sets out once at most to ask a question by
\* the fallback, and not after it noticed the agent ask it: also not for a timer of
\* an earlier interview, or of another message without an id, or set before the
\* same message came again (sendFallbackIfNeeded).  Where a timer and the agent's
\* text overlap at an await, it can; theorem FallbackIsSafe assumes they do not.
FallbackOnce ==
  [][\A q \in Sequence : fallbacks'[q] > fallbacks[q] => fallbacks[q] = 0 /\ q \notin noticed]_vars

\* After the owner asked to stop, the interview stays paused until an operator
\* starts it again (shouldPause in handler).
StopIsKept ==
  [][(state \in File /\ state.status = "paused" /\ state' \in File)
       => state'.status = "paused"]_vars

\* The hook does not leave a question after the first to nobody: the agent wrote
\* what looks like it, or the fallback sets out to ask it, unless the interview
\* goes on or the gateway is stopped meanwhile (scheduleFallback).  Whether the
\* post arrived, and whether the text did ask, the hook does not know.
QuestionIsPursued ==
  \A q \in 2 .. Questions :
    state \in File /\ state.status = "active" /\ state.current = q
      ~> \/ q \in shown \cup lost \/ fallbacks[q] > 0
         \/ state \notin File \/ state.status # "active" \/ state.current # q

\* Handlers that do not overlap conduct the interview of Interview.
Conducted == INSTANCE Interview WITH
  status <- IF state \in {Absent, Torn} THEN "none" ELSE state.status,
  answers <- IF state \in {Absent, Torn} THEN << >>
             ELSE [i \in DOMAIN state.answers |-> state.answers[i].message]

ImplementsInterview == Conducted!Spec

=============================================================================
