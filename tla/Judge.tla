-------------------------------- MODULE Judge --------------------------------
(****************************************************************************)
(* What the judging pipeline promises when nothing fails, seen by a         *)
(* contestant: an accepted submission goes Pending, Running, verdict, and   *)
(* the verdict is final; a key (user, problem, contest) is credited with at *)
(* most one solve, and only after one of its submissions was accepted.      *)
(****************************************************************************)
EXTENDS Integers

CONSTANTS Submission, Key, KeyOf, Verdict

VARIABLES
    row,      \* the state of each submission a contestant can look up
    solves    \* solves credited to each key on the leaderboard

vars == <<row, solves>>

Init ==
    /\ row = [s \in Submission |-> "none"]
    /\ solves = [k \in Key |-> 0]

Accept(s) ==
    /\ row[s] = "none"
    /\ row' = [row EXCEPT ![s] = "Pending"]
    /\ UNCHANGED solves

Start(s) ==
    /\ row[s] = "Pending"
    /\ row' = [row EXCEPT ![s] = "Running"]
    /\ UNCHANGED solves

Decide(s) ==
    /\ row[s] = "Running"
    /\ \E v \in Verdict : row' = [row EXCEPT ![s] = v]
    /\ UNCHANGED solves

Award(s) ==
    /\ row[s] = "AC"
    /\ solves[KeyOf[s]] = 0
    /\ solves' = [solves EXCEPT ![KeyOf[s]] = 1]
    /\ UNCHANGED row

Next == \E s \in Submission : Accept(s) \/ Start(s) \/ Decide(s) \/ Award(s)

Safety == Init /\ [][Next]_vars

\* Every accepted submission is eventually decided; a solve need not be
\* awarded (two accepted submissions graded at once may each defer to the
\* other, see Grading).
Spec == Safety /\ \A s \in Submission : WF_vars(Start(s)) /\ WF_vars(Decide(s))

=============================================================================
