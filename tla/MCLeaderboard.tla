---------------------------- MODULE MCLeaderboard ----------------------------
(* Instances of Leaderboard for TLC. *)
EXTENDS Leaderboard

CONSTANTS c1, u1, v1, v2

OneStudent == [v \in {v1} |-> "student"]
BothRoles  == [v \in {v1, v2} |-> IF v = v1 THEN "student" ELSE "faculty"]
OneView    == [v \in {v1} |-> c1]
TwoViews   == [v \in {v1, v2} |-> c1]

=============================================================================
