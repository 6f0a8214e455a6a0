------------------------------ MODULE Cooldown ------------------------------
(****************************************************************************)
(* The cooldown of submissions (EnforceCooldown, redis_limiter.go, and      *)
(* SubmitCode): a key of the student that the first request sets with an    *)
(* expiry and later ones look at, each in two calls to Redis, tried twice.  *)
(* A request that is told to wait may come again.                           *)
(*                                                                          *)
(* Redis gives the key to one request at a time; the requests of a student, *)
(* from several tabs, interleave between their calls.  Time is Redis time:  *)
(* expiry and PTTL count the same ticks.  A key is there up to and in the   *)
(* tick it expires at, where PTTL is 0.                                     *)
(****************************************************************************)
EXTENDS Naturals, FiniteSetsExt

CONSTANTS
    Request,    \* requests of one student
    Duration,   \* the cooldown each asks for: longer in a contest
    Second,     \* ticks of a second
    MaxNow,     \* bound: ticks
    MaxReturns, \* bound: how often a refused request comes again
    MaxLost     \* bound: replies of Redis that are lost

CooldownAssumption ==
    /\ Duration \in [Request -> Nat \ {0}] /\ Second \in Nat \ {0}
    /\ MaxNow \in Nat /\ MaxReturns \in Nat /\ MaxLost \in Nat

VARIABLES
    now,
    until,    \* when the key expires; the key is there while now <= until
    pc,       \* "away", "set", "look", "allowed", "refused" or "failed"
    attempt,  \* attempts of EnforceCooldown
    hint,     \* when a refused request may come again, from Retry-After
    patient,  \* refused requests, as long as nobody sets the key since
    owed,     \* end of the cooldown of the last request that set the key and knows
    returns,  \* how often each may still come again
    lost      \* replies still to be lost

vars == <<now, until, pc, attempt, hint, patient, owed, returns, lost>>

Time == 0..MaxNow + Max({Duration[r] : r \in Request} \cup {0}) + Second

TypeOK ==
    /\ now \in 0..MaxNow /\ until \in Time /\ owed \in Time
    /\ pc \in [Request -> {"away", "set", "look", "allowed", "refused", "failed"}]
    /\ attempt \in [Request -> 0..1] /\ hint \in [Request -> Time]
    /\ patient \subseteq Request
    /\ returns \in [Request -> 0..MaxReturns] /\ lost \in 0..MaxLost

\* No cooldown before the first request.
Init ==
    /\ now = 1 /\ until = 0 /\ owed = 0
    /\ pc = [r \in Request |-> "away"] /\ attempt = [r \in Request |-> 0]
    /\ hint = [r \in Request |-> 0] /\ patient = {}
    /\ returns = [r \in Request |-> MaxReturns] /\ lost = MaxLost

Goes(r, from, to) == pc[r] = from /\ pc' = [pc EXCEPT ![r] = to]

Held == now <= until
Pttl == until - now

Tick ==
    /\ now < MaxNow /\ now' = now + 1
    /\ UNCHANGED <<until, pc, attempt, hint, patient, owed, returns, lost>>

\* SubmitCode asks for the cooldown.
Submit(r) ==
    /\ Goes(r, "away", "set")
    /\ UNCHANGED <<now, until, attempt, hint, patient, owed, returns, lost>>

\* The page submits again when the time it was told is over.
Return(r) ==
    /\ now >= hint[r] /\ returns[r] > 0 /\ Goes(r, "refused", "set")
    /\ returns' = [returns EXCEPT ![r] = @ - 1]
    /\ attempt' = [attempt EXCEPT ![r] = 0]
    /\ UNCHANGED <<now, until, hint, patient, owed, lost>>

\* SET with NX and the TTL, executed.
Locks(r) == until' = now + Duration[r] /\ patient' = {}

\* The key is set, or it was there.
Set(r) ==
    /\ IF Held
       THEN Goes(r, "set", "look") /\ UNCHANGED <<until, patient, owed>>
       ELSE Goes(r, "set", "allowed") /\ Locks(r) /\ owed' = now + Duration[r]
    /\ UNCHANGED <<now, attempt, hint, returns, lost>>

\* The key is set and the reply is lost: the client library sends the command
\* again, or gives up and the student is told of a failure.
SetUnanswered(r) ==
    /\ lost > 0 /\ lost' = lost - 1 /\ pc[r] = "set"
    /\ pc' = pc \/ pc' = [pc EXCEPT ![r] = "failed"]
    /\ IF Held THEN UNCHANGED <<until, patient>> ELSE Locks(r)
    /\ UNCHANGED <<now, attempt, hint, owed, returns>>

\* A programmer's slip: the seconds are cut off.
Retry_Cut(pttl) == Max({1, pttl \div Second})

\* Retry-After: whole seconds, at least one.
Retry(pttl) == Max({1, (pttl + Second - 1) \div Second})

\* PTTL: a key that is still there refuses the request.  One that is gone, or
\* in its last tick, is tried once more; after two attempts the request is
\* allowed.
Look(r) ==
    /\ IF Held /\ Pttl > 0
       THEN /\ Goes(r, "look", "refused")
            /\ hint' = [hint EXCEPT ![r] = now + Second * Retry(Pttl)]
            /\ patient' = patient \cup {r} /\ UNCHANGED attempt
       ELSE /\ IF attempt[r] = 0 THEN Goes(r, "look", "set")
                                 ELSE Goes(r, "look", "allowed")
            /\ attempt' = [attempt EXCEPT ![r] = 1] /\ UNCHANGED <<hint, patient>>
    /\ UNCHANGED <<now, until, owed, returns, lost>>

\* PTTL fails.
LookFails(r) ==
    /\ lost > 0 /\ lost' = lost - 1 /\ Goes(r, "look", "failed")
    /\ UNCHANGED <<now, until, attempt, hint, patient, owed, returns>>

Step(r) == Submit(r) \/ Return(r) \/ Set(r) \/ SetUnanswered(r) \/ Look(r)
           \/ LookFails(r)

Next == Tick \/ \E r \in Request : Step(r)

Spec == Init /\ [][Next]_vars

-----------------------------------------------------------------------------

\* No submission is allowed before the cooldown of the last one that set the
\* key is over, not even by the fail-open of a request that found the key
\* changing twice (redis_limiter.go:20, :57).
NoneTooSoon ==
    [][\A r \in Request : pc[r] # "allowed" /\ pc'[r] = "allowed" => now >= owed]_vars

\* Who waits as long as Retry-After says is not refused again, unless some
\* request has set the key meanwhile (submission_controller.go:63).
WaitingSuffices ==
    [][\A r \in patient : pc[r] = "look" => pc'[r] # "refused"]_vars

\* What a student can rely on: neither too soon nor longer than told.
CooldownHolds == NoneTooSoon /\ WaitingSuffices

=============================================================================
