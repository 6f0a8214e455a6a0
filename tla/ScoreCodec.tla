----------------------------- MODULE ScoreCodec -----------------------------
(****************************************************************************)
(* How one number of the Redis sorted set carries a contestant's standing:  *)
(* every solve adds 1 - penalty / 100000, so that the integer part, rounded *)
(* up, counts solves and what is missing to it is the total penalty in      *)
(* minutes.  The worker writes the number, the API reads it back.           *)
(*                                                                          *)
(* A penalty is a whole number of seconds here, and the number is scaled by *)
(* 100000 minutes, so all arithmetic is exact.  The code uses doubles: the  *)
(* distance of a score from the next integer is either 0, when all          *)
(* penalties are (and then the sum is exact), or far above rounding error.  *)
(****************************************************************************)
EXTENDS Integers

Minute == 60
Scale == 100000 * Minute

\* score_increment: what one accepted submission adds to the set.
Increment(penalty) == Scale - penalty

\* The score of a contestant with that many solves and that total penalty.
Encode(solves, penalty) == solves * Scale - penalty

\* Seeded bug: int() in place of math.Ceil.
Solves_Floor(score) == IF score > 0 THEN score \div Scale ELSE 0

\* math.Ceil of a positive score, 0 otherwise.
Solves(score) ==
    IF score > 0 THEN (score + Scale - 1) \div Scale ELSE 0

\* math.Round((solves - score) * 100000): whole minutes, halves away from 0.
\* What is rounded is never negative, since solves >= score.
PenaltyMinutes(score) ==
    (2 * (Solves(score) * Scale - score) + Minute) \div (2 * Minute)

\* A penalty in seconds as the leaderboard shows it.
Rounded(penalty) == (2 * penalty + Minute) \div (2 * Minute)

=============================================================================
