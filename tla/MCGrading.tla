------------------------------ MODULE MCGrading ------------------------------
(* Instances of Grading for TLC. *)
EXTENDS Grading

CONSTANTS s1, s2, r1, a1, k1, c1

\* One or two submissions of one user to one contest problem.
OneSub  == [s \in {s1} |-> k1]
TwoSame == [s \in {s1, s2} |-> k1]

InContest == [k \in {k1} |-> c1]
Practice  == [k \in {k1} |-> NoContest]

=============================================================================
