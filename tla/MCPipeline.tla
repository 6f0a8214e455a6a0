----------------------------- MODULE MCPipeline -----------------------------
(* Pipeline for TLC: two submissions of one key and a run; two handlers of  *)
(* one topic; two jobs with programs that come to different ends; and three *)
(* submissions of one student, of which one is for a contest.               *)
EXTENDS Pipeline

CONSTANTS  \* model values
    s1, s2, r1, k1, c1, first, slow, j1, j2, p1, p2, cache, nobody

TwoSame   == [s \in {s1, s2} |-> k1]
InContest == [k \in {k1} |-> c1]

prg(own, build, a, b) == [custom |-> own, build |-> build, does |-> <<a, b>>]

MCProgram ==
    {prg(FALSE, "none", "wrong", "stubborn"), prg(FALSE, "good", "right", "right"),
     prg(FALSE, "slow", "right", "right"), prg(FALSE, "bad", "right", "right"),
     prg(TRUE, "none", "crash", "right"), prg(TRUE, "empty", "slow", "right")}

MCDuration == [r \in Request |-> IF r = c1 THEN 3 ELSE 2]
=============================================================================
