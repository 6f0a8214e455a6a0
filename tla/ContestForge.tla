----------------------------- MODULE ContestForge -----------------------------
(****************************************************************************)
(* Creating, editing and deleting a contest: the pages AddContest and       *)
(* EditContest, the contest handlers of the API, and the row of the contest *)
(* with the problems assigned to it.  Handlers check the row first and      *)
(* change it later; time passes meanwhile, and another user may be at work. *)
(*                                                                          *)
(* Times are hours.  The inputs of the pages hold a text without a zone,    *)
(* which is here the hour it spells; the browser is Zone hours ahead of UTC.*)
(****************************************************************************)
EXTENDS Integers

CONSTANTS
    User,      \* the faculty with a page open
    Admins,    \* those who are admins
    Author,    \* who creates the contest
    Problem,   \* problems that can be assigned
    Zone,      \* the browsers' offset from UTC
    LastHour,  \* bound: the clock, and the times that are typed in
    MaxEdits,  \* bound: inputs changed
    MaxCalls   \* bound: requests sent

ContestForgeAssumption ==
    /\ Admins \subseteq User /\ Author \in User
    /\ Zone \in Int /\ LastHour \in Nat /\ MaxEdits \in Nat /\ MaxCalls \in Nat

Points == {"out", "zero", "full"}   \* not assigned, or worth 0 or 100 points
Empty  == [p \in Problem |-> "out"]

VARIABLES
    now,     \* the clock
    contest, \* the row with its assignments, "none" before and "gone" after it
    desk,    \* each user's page: closed, to add, or to edit
    form,    \* its inputs, and the time they were last rendered
    call,    \* its request, and what the handler has done with it
    late,    \* the contest had started when the handler began
    edits, calls

vars == <<now, contest, desk, form, call, late, edits, calls>>

\* What a row holds; in a form the time may still be missing.
Row  == [start : Int, public : BOOLEAN, problems : [Problem -> Points]]
Form == [dated : BOOLEAN, start : Int, public : BOOLEAN,
         problems : [Problem -> Points], at : 0..LastHour]

NoRow == [start |-> 0, public |-> FALSE, problems |-> Empty]
NoCall == [op |-> "none", step |-> "idle", row |-> NoRow]

Blank == [dated |-> FALSE, start |-> 0, public |-> FALSE, problems |-> Empty,
          at |-> now]

TypeOK ==
    /\ now \in 0..LastHour
    /\ contest \in [is : {"none", "there", "gone"}, row : Row]
    /\ desk \in [User -> {"closed", "add", "edit"}] /\ form \in [User -> Form]
    /\ call \in [User -> [op : {"none", "create", "update", "delete"},
                          step : {"idle", "check", "write"}, row : Row]]
    /\ late \in [User -> BOOLEAN]
    /\ edits \in 0..MaxEdits /\ calls \in 0..MaxCalls

Init ==
    /\ now = 0 /\ contest = [is |-> "none", row |-> NoRow]
    /\ desk = [u \in User |-> "closed"] /\ form = [u \in User |-> Blank]
    /\ call = [u \in User |-> NoCall] /\ late = [u \in User |-> FALSE]
    /\ edits = 0 /\ calls = 0

Tick ==
    /\ now < LastHour /\ now' = now + 1
    /\ UNCHANGED <<contest, desk, form, call, late, edits, calls>>

-----------------------------------------------------------------------------
(* The pages. *)

\* formatForInput: the hour in UTC.
Shown(start) == start

\* The browser reads the text as its local time.
Instant(text) == text - Zone

OpenAdd(u) ==
    /\ desk[u] = "closed" /\ u = Author /\ contest.is = "none"
    /\ desk' = [desk EXCEPT ![u] = "add"] /\ form' = [form EXCEPT ![u] = Blank]
    /\ UNCHANGED <<now, contest, call, late, edits, calls>>

\* EditContest is opened and loads the contest; what its two GETs return is
\* stale by the next save in any case, so they are one step.  A problem worth
\* no points becomes one worth 100.  If they fail, the empty form is shown.
OpenEdit(u) ==
    /\ desk[u] = "closed" /\ contest.is = "there"
    /\ desk' = [desk EXCEPT ![u] = "edit"]
    /\ \/ form' = [form EXCEPT ![u] =
                     [dated    |-> TRUE,
                      start    |-> Shown(contest.row.start),
                      public   |-> contest.row.public,
                      problems |-> [p \in Problem |->
                         IF contest.row.problems[p] = "out" THEN "out" ELSE "full"],
                      at       |-> now]]
       \/ form' = [form EXCEPT ![u] = Blank]
    /\ UNCHANGED <<now, contest, call, late, edits, calls>>

\* handleChange, toggleProblem and updatePoints, all of which render the page.
Edit(u, f) ==
    /\ desk[u] # "closed" /\ edits < MaxEdits /\ edits' = edits + 1
    /\ form' = [form EXCEPT ![u] = [f EXCEPT !.at = now]]
    /\ UNCHANGED <<now, contest, desk, call, late, calls>>

handleChange(u) ==
    \/ Edit(u, [form[u] EXCEPT !.public = ~@])
    \/ \E text \in 0..(LastHour + Zone) :
         Edit(u, [form[u] EXCEPT !.dated = TRUE, !.start = text])

\* A problem is taken in with 100 points, or out.
toggleProblem(u, p) ==
    Edit(u, [form[u] EXCEPT !.problems[p] = IF @ = "out" THEN "full" ELSE "out"])

\* What is not a number counts as 0.
updatePoints(u, p) ==
    /\ form[u].problems[p] # "out"
    /\ \E n \in {"zero", "full"} : Edit(u, [form[u] EXCEPT !.problems[p] = n])

\* isTimeLocked: judged by the time in the form, when the page was rendered.
TimeLocked(u) ==
    /\ desk[u] = "edit" /\ u \notin Admins
    /\ form[u].dated /\ Instant(form[u].start) <= form[u].at

Send(u, op, row, step) ==
    /\ call[u].op = "none" /\ calls < MaxCalls /\ calls' = calls + 1
    /\ call' = [call EXCEPT ![u] = [op |-> op, step |-> step, row |-> row]]
    /\ UNCHANGED <<now, contest, desk, form, late, edits>>

\* handleSubmit: an empty time is no date, and nothing is sent.
handleSubmit(u) ==
    /\ desk[u] # "closed" /\ ~TimeLocked(u) /\ form[u].dated
    /\ LET row == [start |-> Instant(form[u].start), public |-> form[u].public,
                   problems |-> form[u].problems]
       IN IF desk[u] = "add" THEN Send(u, "create", row, "write")
                             ELSE Send(u, "update", row, "check")

\* handleDelete: a professor has the button for a contest that is not public.
handleDelete(u) ==
    /\ desk[u] = "edit" /\ ~TimeLocked(u) /\ (u \in Admins \/ ~form[u].public)
    /\ Send(u, "delete", NoRow, "check")

\* The user goes elsewhere; a request under way is served all the same.
Leave(u) ==
    /\ desk[u] # "closed" /\ desk' = [desk EXCEPT ![u] = "closed"]
    /\ UNCHANGED <<now, contest, form, call, late, edits, calls>>

-----------------------------------------------------------------------------
(* The handlers. *)

\* The answer: the page goes to the list, or shows an alert and stays.
Reply(u, ok) ==
    /\ call' = [call EXCEPT ![u] = NoCall]
    /\ desk' = IF ok THEN [desk EXCEPT ![u] = "closed"] ELSE desk

\* A programmer's slip: the lock looks at the start time that is to be saved.
Locked_NewTime(u) ==
    now > (IF call[u].op = "update" THEN call[u].row.start ELSE contest.row.start)

\* The time lock.
Locked(u) == now > contest.row.start

\* What UpdateContest and DeleteContest refuse.
Refused(u) ==
    \/ contest.is # "there"
    \/ u \notin Admins /\ (u # Author \/ Locked(u))
    \/ u \notin Admins /\ call[u].op = "delete" /\ contest.row.public

\* UpdateContest and DeleteContest up to their checks.
Check(u) ==
    /\ call[u].step = "check"
    /\ late' = [late EXCEPT ![u] =
                  contest.is = "there" /\ now > contest.row.start]
    /\ IF Refused(u) THEN Reply(u, FALSE)
       ELSE call' = [call EXCEPT ![u].step = "write"] /\ UNCHANGED desk
    /\ UNCHANGED <<now, contest, form, edits, calls>>

\* CreateContest.
Create(u) ==
    /\ call[u].op = "create" /\ call[u].step = "write"
    /\ contest' = [is |-> "there", row |-> call[u].row]
    /\ Reply(u, TRUE)
    /\ UNCHANGED <<now, form, late, edits, calls>>

\* UpdateContest: the row and its assignments in one transaction.  If the row
\* has gone there is nothing to update, but nothing a problem could be assigned
\* to either.
Update(u) ==
    /\ call[u].op = "update" /\ call[u].step = "write"
    /\ IF contest.is = "there"
       THEN contest' = [contest EXCEPT !.row = call[u].row] /\ Reply(u, TRUE)
       ELSE UNCHANGED contest /\ Reply(u, call[u].row.problems = Empty)
    /\ UNCHANGED <<now, form, late, edits, calls>>

\* DeleteContest, everything linked to the contest included.
Delete(u) ==
    /\ call[u].op = "delete" /\ call[u].step = "write"
    /\ contest' = [contest EXCEPT !.is = "gone", !.row = NoRow]
    /\ Reply(u, TRUE)
    /\ UNCHANGED <<now, form, late, edits, calls>>

\* The database fails, before or within the transaction.
Fail(u) ==
    /\ call[u].step # "idle" /\ Reply(u, FALSE)
    /\ UNCHANGED <<now, contest, form, late, edits, calls>>

Use(u) ==
    \/ OpenAdd(u) \/ OpenEdit(u) \/ handleChange(u) \/ Leave(u)
    \/ \E p \in Problem : toggleProblem(u, p) \/ updatePoints(u, p)
    \/ handleSubmit(u) \/ handleDelete(u)
    \/ Check(u) \/ Create(u) \/ Update(u) \/ Delete(u) \/ Fail(u)

Next == Tick \/ \E u \in User : Use(u)

Spec == Init /\ [][Next]_vars

-----------------------------------------------------------------------------
(* Properties. *)

\* A request of a professor that reached the API after the contest had started
\* neither changes nor deletes it, whatever start time it brings along; one
\* that was checked in time may do so a moment after the start
\* (contest_controller.go:262, contest_controller.go:318).
RefusesLate ==
    \A u \in User \ Admins :
      call[u].step = "write" /\ call'[u].step = "idle" /\ contest' # contest =>
        ~late[u]

=============================================================================
