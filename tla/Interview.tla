----------------------------- MODULE Interview -----------------------------
(***************************************************************************)
(* What the owner onboarding interview promises: one answer per question,  *)
(* in the order they came, no message counted twice, and an interview that *)
(* was paused or confirmed stays so until an operator starts it again.     *)
(***************************************************************************)
EXTENDS Naturals, Sequences

CONSTANTS
  Messages,   \* what the owner writes
  Stops,      \* those that ask to stop
  Anonymous,  \* those that cannot be told from others
  Questions   \* the number of questions

VARIABLES
  status,
  answers     \* the owner's messages that answered questions 1, 2, ...

interviewVars == <<status, answers>>

Init == status = "none" /\ answers = << >>

Discard == status' = "none" /\ answers' = << >>

Begin == status = "none" /\ status' = "active" /\ answers' = << >>

Fresh(m) == m \in Anonymous \/ \A i \in DOMAIN answers : answers[i] # m

Hear(m) == status = "active" /\ Fresh(m) /\ answers' = Append(answers, m)

Stop(m) == m \in Stops /\ Hear(m) /\ status' = "paused"

Answer(m) ==
  /\ m \notin Stops /\ Len(answers) + 1 < Questions
  /\ Hear(m) /\ UNCHANGED status

Confirm(m) ==
  /\ m \notin Stops /\ Len(answers) + 1 = Questions
  /\ Hear(m) /\ status' = "confirmed"

Next == Discard \/ Begin \/ \E m \in Messages : Stop(m) \/ Answer(m) \/ Confirm(m)

Spec == Init /\ [][Next]_interviewVars

=============================================================================
