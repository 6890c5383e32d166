--------------------------- MODULE ApprovalPromise ---------------------------
(***************************************************************************)
(* What an approval request promises, whatever process, message or timer    *)
(* carries the answer: a person's answer is recorded once and for good, the *)
(* agent is told one thing, and what it is told is that answer, or that     *)
(* none came.  An answer may still replace a timeout in the record.         *)
(***************************************************************************)
CONSTANT Asks

VARIABLES
  answer,   \* the record: "open", "timeout" or a person's answer
  told      \* what the agent was told, "nothing" so far

vars == <<answer, told>>

Answers == {"selected", "denied"}
NoAnswer == {"timeout", "error"}

Init == answer = [a \in Asks |-> "open"] /\ told = [a \in Asks |-> "nothing"]

Answer(a, o) ==
  /\ answer[a] \notin Answers
  /\ answer' = [answer EXCEPT ![a] = o]
  /\ UNCHANGED told

Expire(a) ==
  /\ answer[a] = "open"
  /\ answer' = [answer EXCEPT ![a] = "timeout"]
  /\ UNCHANGED told

Tell(a, o) ==
  /\ told[a] = "nothing"
  /\ o \in NoAnswer \/ (o \in Answers /\ answer[a] = o)
  /\ told' = [told EXCEPT ![a] = o]
  /\ UNCHANGED answer

Next ==
  \E a \in Asks :
    \/ Expire(a)
    \/ \E o \in Answers : Answer(a, o)
    \/ \E o \in Answers \cup NoAnswer : Tell(a, o)

Spec == Init /\ [][Next]_vars
=============================================================================
