----------------------------- MODULE MCMossAudit -----------------------------
(* Instances of MossAudit for TLC. *)
EXTENDS MossAudit

CONSTANTS c1, c2, b1, b2

OneContest  == [c \in {c1} |-> {b1, b2}]
TwoContests == [c \in {c1, c2} |-> IF c = c1 THEN {b1, b2} ELSE {}]

=============================================================================
