--------------------------- MODULE MCProblemForge ---------------------------
(* ProblemForge for TLC: the author's AddProblem and an EditProblem. *)
EXTENDS ProblemForge

CONSTANTS add, edit  \* the two pages, model values
=============================================================================
