------------------------------ MODULE AddressWatch ------------------------------
(* The tracker of a student's addresses in a contest (TrackContestIP): a     *)
(* script of Redis keeps the addresses in a set and raises an alert when     *)
(* there are three, and a goroutine, which the request does not wait for,    *)
(* stores the alert and marks the contest.  Both keys expire: that of the    *)
(* addresses with the last request, that of the alert with the alert.        *)
EXTENDS Integers, FiniteSets, SequencesExt

CONSTANTS
    Address,   \* addresses the student's requests come from
    Life,      \* ticks a key of Redis lives
    MaxClock,  \* bound: ticks
    MaxTorn    \* bound: calls that fail or stay unanswered, and restarts

AddressWatchAssumption ==
    Life \in Nat \ {0} /\ MaxClock \in Nat /\ MaxTorn \in Nat

VARIABLES
    clock,
    known,      \* the sorted set contest_ips, and when it expires
    quiet,      \* when ip_alerted expires, 0 before it is set
    used,       \* when each address was last used, 0 if it never was
    alerts,     \* the alerts the script has raised, and how far each has come
    torn        \* failures still to come

vars == <<clock, known, quiet, used, alerts, torn>>

\* "told": stored and the contest marked; "unmarked": only stored.
Step == {"insert", "mark", "told", "unmarked", "lost"}

TypeOK ==
    /\ clock \in 1..MaxClock /\ torn \in 0..MaxTorn
    /\ known \in [is : SUBSET Address, till : 0..MaxClock + Life]
    /\ quiet \in 0..MaxClock + Life /\ used \in [Address -> 0..MaxClock]
    /\ alerts \in Seq([at : 1..MaxClock, step : Step])

Init ==
    /\ clock = 1 /\ known = [is |-> {}, till |-> 0] /\ quiet = 0
    /\ used = [a \in Address |-> 0] /\ alerts = <<>> /\ torn = MaxTorn

Tick ==
    /\ clock < MaxClock /\ clock' = clock + 1
    /\ UNCHANGED <<known, quiet, used, alerts, torn>>

Fails == torn > 0 /\ torn' = torn - 1

Held == IF clock < known.till THEN known.is ELSE {}

\* A programmer's slip: EXPIRE is left to the first request.
Add_ExpireOnce(a) ==
    known' = [is   |-> Held \cup {a},
              till |-> IF Held = {} THEN clock + Life ELSE known.till]

\* ZADD and EXPIRE
Add(a) == known' = [is |-> Held \cup {a}, till |-> clock + Life]

\* The script alerts at three addresses or more, unless it has done so lately.
\* What it has alerted of is lost with an answer that is lost, also when the
\* client sends the script again.
Track(a) ==
    /\ Add(a) /\ used' = [used EXCEPT ![a] = clock]
    /\ IF Cardinality(known'.is) >= 3 /\ clock >= quiet
       THEN /\ quiet' = clock + Life
            /\ \/ alerts' = Append(alerts, [at |-> clock, step |-> "insert"])
                  /\ UNCHANGED torn
               \/ alerts' = Append(alerts, [at |-> clock, step |-> "lost"]) /\ Fails
       ELSE UNCHANGED <<quiet, alerts, torn>>
    /\ UNCHANGED clock

Comes(i, from, to) ==
    alerts[i].step = from /\ alerts' = [alerts EXCEPT ![i].step = to]

\* LogTelemetry; an INSERT that fails may have been committed.
LogTelemetry(i) ==
    /\ \/ Comes(i, "insert", "mark") /\ UNCHANGED torn
       \/ (Comes(i, "insert", "lost") \/ Comes(i, "insert", "unmarked")) /\ Fails
    /\ UNCHANGED <<clock, known, quiet, used>>

\* SADD dirty_contests
MarkDirty(i) ==
    /\ \/ Comes(i, "mark", "told") /\ UNCHANGED torn
       \/ Comes(i, "mark", "unmarked") /\ Fails
    /\ UNCHANGED <<clock, known, quiet, used>>

\* The API is restarted: its goroutines are gone.
Restart ==
    /\ Fails
    /\ alerts' = [i \in DOMAIN alerts |->
                    [alerts[i] EXCEPT !.step = CASE @ = "insert" -> "lost"
                                                 [] @ = "mark"   -> "unmarked"
                                                 [] OTHER        -> @]]
    /\ UNCHANGED <<clock, known, quiet, used>>

Next ==
    \/ Tick \/ Restart \/ \E a \in Address : Track(a)
    \/ \E i \in DOMAIN alerts : LogTelemetry(i) \/ MarkDirty(i)

Spec == Init /\ [][Next]_vars

-----------------------------------------------------------------------------
(* Properties. *)

Latest == Max({used[a] : a \in Address} \cup {0})
Recent == {a \in Address : used[a] > 0 /\ used[a] > Latest - Life}

\* A third address within the life of a key has been alerted of, whatever the
\* order of the addresses and the expiry of either key, and no alert is
\* repeated while the key of the one before it lives (ip_tracker.go:68).
AlertedOnce ==
    /\ Cardinality(Recent) >= 3 =>
         \E i \in DOMAIN alerts : alerts[i].at > Latest - Life
    /\ \A i, j \in DOMAIN alerts :
         i < j => alerts[j].at - alerts[i].at >= Life

=============================================================================
