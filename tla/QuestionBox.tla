---------------------------- MODULE QuestionBox ----------------------------
(***************************************************************************)
(* What a run promises about its child's questions, without connections,   *)
(* timers or locks: one question is open at a time, it is closed once, by  *)
(* an answer or without one, and no answer reaches a question asked after  *)
(* the operator saw another.                                               *)
(***************************************************************************)
CONSTANTS
    Question,  \* the questions that can be asked
    None       \* no question

VARIABLES
    open,     \* the open question, None if there is none
    outcome   \* outcome[q]: "unasked", "open", "answered" or "refused"

vars == <<open, outcome>>

Init == open = None /\ outcome = [q \in Question |-> "unasked"]

Open(q) ==
    /\ open = None
    /\ outcome[q] = "unasked"
    /\ open' = q
    /\ outcome' = [outcome EXCEPT ![q] = "open"]

Close(how) ==
    /\ open # None
    /\ open' = None
    /\ outcome' = [outcome EXCEPT ![open] = how]

Next ==
    \/ \E q \in Question : Open(q)
    \/ \E how \in {"answered", "refused"} : Close(how)

Spec == Init /\ [][Next]_vars

=============================================================================
