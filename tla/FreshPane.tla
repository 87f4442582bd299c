------------------------------ MODULE FreshPane ------------------------------
(***************************************************************************)
(* What a pane of the console promises: it shows nothing, or an answer to  *)
(* the question it stands at, and an answer is only replaced by one that   *)
(* is not older.  Requests, timers and failures are left to the detailed   *)
(* specification (ConsoleReads), which implements this one three times.    *)
(***************************************************************************)
EXTENDS Naturals

CONSTANTS
    Topics,      \* what the pane can stand at
    Nothing         \* the pane shows no answer

VARIABLES
    question,       \* what the pane stands at
    answer          \* what it shows

vars == <<question, answer>>

Answers == [to : Topics, version : Nat]

Init == question \in Topics /\ answer = Nothing

\* Another question, or the same one anew: the old answer goes at once.
Turn ==
    /\ question' \in Topics
    /\ answer' = Nothing

Show ==
    /\ answer' \in Answers
    /\ answer'.to = question
    /\ answer # Nothing => answer.version <= answer'.version
    /\ UNCHANGED question

Next == Turn \/ Show

Spec == Init /\ [][Next]_vars
=============================================================================
