------------------------------- MODULE Grading -------------------------------
(****************************************************************************)
(* The judging pipeline of CampusCompile: the Go API stores a submission,   *)
(* inserts its row and pushes its id on the Redis list `submission_queue`;  *)
(* the Python worker pops jobs under a semaphore, grades them in a thread   *)
(* pool, writes the verdict, updates the ICPC leaderboard and publishes the *)
(* result to whoever is listening on the submission's channel.              *)
(*                                                                          *)
(* A thread is modelled one statement at a time: every SQL statement that   *)
(* commits or reads, every Redis command and the grader call is one step,   *)
(* because those are the points at which ten threads interleave and at      *)
(* which an exception can be raised.                                        *)
(****************************************************************************)
EXTENDS Integers, Sequences, FiniteSets

CONSTANTS
    Submission,   \* official submissions (rows of table `submissions`)
    Run,          \* custom runs (no row; result kept in Redis)
    Audit,        \* MOSS audit jobs pushed by the audit daemon
    Key,          \* a user attempting one problem in one context
    Contest,      \* contests
    NoContest,    \* the NULL contest_id of a practice submission
    KeyOf,        \* the key each submission belongs to
    ContestOf,    \* the contest (or NoContest) of each key
    Outcome,      \* verdicts the grader returns in this instance
    MaxWorkers,   \* MAX_WORKERS: permits of job_semaphore, pool threads
    Faults,       \* kinds of failure this instance injects
    MaxFaults     \* bound: how many failures one behaviour contains

Job == Submission \cup Run \cup Audit

\* submission_status of the schema without Pending and Running.
Verdict == {"AC", "WA", "TLE", "MLE", "RE", "CE", "SE"}
Failing == Verdict \ {"AC"}

FaultKind == {"db", "redis", "s3", "crash", "delete"}

ASSUME JobsDisjoint ==
    /\ Submission \cap Run = {} /\ Submission \cap Audit = {}
    /\ Run \cap Audit = {}
ASSUME JobsFinite == IsFiniteSet(Job)
ASSUME KeysTyped ==
    /\ KeyOf \in [Submission -> Key]
    /\ ContestOf \in [Key -> Contest \cup {NoContest}]
    /\ NoContest \notin Contest
ASSUME OutcomesTyped == Outcome \subseteq Verdict
ASSUME BoundsTyped == MaxWorkers \in Nat \ {0} /\ MaxFaults \in Nat
ASSUME FaultsTyped == Faults \subseteq FaultKind

VARIABLES
    api,          \* progress of the HTTP handler that creates each job
    clock,        \* number of rows inserted so far; the source of submitted_at
    row,          \* submissions.status, "none" when there is no row
    submittedAt,  \* submissions.submitted_at (and minutes since contest start)
    contest,      \* "live", "dropped" (row deleted) or "nuked" (keys deleted)
    queue,        \* submission_queue, next job to pop first
    listener,     \* where the loop of start_worker is
    permits,      \* value of job_semaphore
    pc,           \* statement each job's thread executes next
    verdict,      \* local `final_verdict` / `result` of each thread
    fails,        \* local `fails` of each thread
    score,        \* ZSET contest:leaderboard, split by key
    dirty,        \* SET dirty_contests
    runResult,    \* run_result:{id} of each custom run
    stream,       \* SSE stream of each job: closed, open, or the verdict heard
    budget        \* failures still to be injected

apiVars    == <<api, clock, submittedAt>>
listenVars == <<queue, listener, permits>>
localVars  == <<verdict, fails>>
boardVars  == <<score, dirty, contest>>
vars == <<api, clock, submittedAt, row, contest, queue, listener, permits, pc,
          verdict, fails, score, dirty, runResult, stream, budget>>

\* Statements a pool thread can be about to execute.
ThreadStep == {"begin", "announce", "fetch", "grade", "record", "count",
               "tally", "credit", "mark", "reply", "save", "rescue", "alarm",
               "audit", "release"}

RowValue == {"none", "Pending", "Running"} \cup Verdict
PcValue == {"none", "held", "done", "lost"} \cup ThreadStep

\* One group per part of the state, so that a step is checked against the
\* groups it writes.
ApiOK    == /\ api \in [Job -> {"idle", "stored", "inserted", "accepted", "failed"}]
            /\ clock \in Nat
            /\ submittedAt \in [Submission -> Nat]
RowOK    == row \in [Submission -> RowValue]
ListenOK == /\ queue \in Seq(Job)
            /\ listener \in {"acquire", "pop", "hand"}
            /\ permits \in Nat
PcOK     == pc \in [Job -> PcValue] /\ budget \in 0..MaxFaults
LocalOK  == verdict \in [Job -> Verdict] /\ fails \in [Submission -> Nat]
BoardOK  == /\ score \in [Key -> [solves : Nat, penalty : Nat]]
            /\ dirty \subseteq Contest
            /\ contest \in [Contest -> {"live", "dropped", "nuked"}]
ResultOK == runResult \in [Run -> {"none"} \cup Verdict]
StreamOK == stream \in [Job -> {"off", "open"} \cup Verdict]

TypeOK == /\ ApiOK /\ RowOK /\ ListenOK /\ PcOK
          /\ LocalOK /\ BoardOK /\ ResultOK /\ StreamOK

Init ==
    /\ api = [j \in Job |-> "idle"]
    /\ clock = 0
    /\ row = [s \in Submission |-> "none"]
    /\ submittedAt = [s \in Submission |-> 0]
    /\ contest = [c \in Contest |-> "live"]
    /\ queue = <<>>
    /\ listener = "acquire"
    /\ permits = MaxWorkers
    /\ pc = [j \in Job |-> "none"]
    /\ verdict = [j \in Job |-> "SE"]
    /\ fails = [s \in Submission |-> 0]
    /\ score = [k \in Key |-> [solves |-> 0, penalty |-> 0]]
    /\ dirty = {}
    /\ runResult = [r \in Run |-> "none"]
    /\ stream = [j \in Job |-> "off"]
    /\ budget = MaxFaults

-----------------------------------------------------------------------------
(* Failures and shared pieces of the handlers *)

\* One failure of kind f happens here.
Spend(f) == f \in Faults /\ budget > 0 /\ budget' = budget - 1

ApiGoes(j, to) == api' = [api EXCEPT ![j] = to]

\* The thread of job j goes on to its next statement.
Proceeds(j, next) == pc' = [pc EXCEPT ![j] = next] /\ UNCHANGED budget

\* The statement raises and control reaches the except clause.
Raises(j, f) == Spend(f) /\ pc' = [pc EXCEPT ![j] = "rescue"]

\* Seeded bug: an upsert instead of an update.
SetRow_Upserts(s, v) == row' = [row EXCEPT ![s] = v]

\* UPDATE submissions SET status = v: touches no row if it was deleted.
SetRow(s, v) == row' = [row EXCEPT ![s] = IF @ = "none" THEN @ ELSE v]

\* PUBLISH of a terminal message: heard by a stream that is open now, and by
\* nobody afterwards; the page closes its EventSource on the first one.
Publish(j, v) == stream' = [stream EXCEPT ![j] = IF @ = "open" THEN v ELSE @]

Live(s) == LET c == ContestOf[KeyOf[s]] IN c # NoContest => contest[c] = "live"

-----------------------------------------------------------------------------
(* The API: SubmitCode, RunCode, the audit daemon's push, and the SSE streams *)

\* PutObject of the source code.
PutSource(s) ==
    /\ api[s] = "idle"
    /\ \/ ApiGoes(s, "stored") /\ UNCHANGED budget
       \/ ApiGoes(s, "failed") /\ Spend("s3")
    /\ UNCHANGED <<clock, submittedAt, row, pc, listenVars, localVars,
                   boardVars, runResult, stream>>

\* INSERT of the row; the foreign key rejects a deleted contest.  A connection
\* lost during the statement may still have inserted it.
InsertRow(s) ==
    /\ api[s] = "stored"
    /\ \/ /\ Live(s)
          /\ \/ ApiGoes(s, "inserted") /\ UNCHANGED budget
             \/ ApiGoes(s, "failed") /\ Spend("db")
          /\ row' = [row EXCEPT ![s] = "Pending"]
          /\ clock' = clock + 1
          /\ submittedAt' = [submittedAt EXCEPT ![s] = clock + 1]
       \/ /\ \/ ~Live(s) /\ UNCHANGED budget
             \/ Spend("db")
          /\ ApiGoes(s, "failed")
          /\ UNCHANGED <<row, clock, submittedAt>>
    /\ UNCHANGED <<pc, listenVars, localVars, boardVars, runResult, stream>>

\* LPUSH (the list is popped from its other end).  When the command fails the
\* handler answers 500 and leaves the row; the push may have happened anyway.
Enqueue(j) ==
    /\ api[j] = IF j \in Submission THEN "inserted" ELSE "idle"
    /\ \/ /\ ApiGoes(j, "accepted")
          /\ queue' = Append(queue, j)
          /\ UNCHANGED budget
       \/ /\ Spend("redis")
          /\ ApiGoes(j, "failed")
          /\ queue' \in {queue, Append(queue, j)}
    /\ UNCHANGED <<clock, submittedAt, row, pc, listener, permits, localVars,
                   boardVars, runResult, stream>>

\* The page opens its EventSource once the POST has answered 202; the handler
\* subscribes and relays what is published from then on.
Subscribe(j) ==
    /\ j \notin Audit
    /\ api[j] = "accepted" /\ stream[j] = "off"
    /\ stream' = [stream EXCEPT ![j] = "open"]
    /\ UNCHANGED <<apiVars, row, pc, listenVars, localVars, boardVars,
                   runResult, budget>>

\* run_result:{id} is stored with a TTL of 600 seconds.
ResultExpires(r) ==
    /\ runResult[r] # "none"
    /\ runResult' = [runResult EXCEPT ![r] = "none"]
    /\ UNCHANGED <<apiVars, row, pc, listenVars, localVars, boardVars, stream,
                   budget>>

\* DELETE FROM contests: cascades to the contest's submissions.
DropContest(c) ==
    /\ contest[c] = "live"
    /\ Spend("delete")
    /\ contest' = [contest EXCEPT ![c] = "dropped"]
    /\ row' = [s \in Submission |->
                 IF ContestOf[KeyOf[s]] = c THEN "none" ELSE row[s]]
    /\ UNCHANGED <<apiVars, pc, listenVars, localVars, score, dirty, runResult,
                   stream>>

\* DEL contest:leaderboard:{c}; SREM dirty_contests c.
NukeKeys(c) ==
    /\ contest[c] = "dropped"
    /\ contest' = [contest EXCEPT ![c] = "nuked"]
    /\ score' = [k \in Key |-> IF ContestOf[k] = c
                               THEN [solves |-> 0, penalty |-> 0]
                               ELSE score[k]]
    /\ dirty' = dirty \ {c}
    /\ UNCHANGED <<apiVars, row, pc, listenVars, localVars, runResult, stream,
                   budget>>

-----------------------------------------------------------------------------
(* The listener thread: start_worker *)

\* job_semaphore.acquire()
Acquire ==
    /\ listener = "acquire" /\ permits > 0
    /\ permits' = permits - 1
    /\ listener' = "pop"
    /\ UNCHANGED <<apiVars, row, pc, queue, localVars, boardVars, runResult,
                   stream, budget>>

\* BRPOP answers with a job: from here it exists in the worker only.
Pop ==
    /\ listener = "pop" /\ queue # <<>>
    /\ queue' = Tail(queue)
    /\ pc' = [pc EXCEPT ![Head(queue)] = "held"]
    /\ listener' = "hand"
    /\ UNCHANGED <<apiVars, row, permits, localVars, boardVars, runResult,
                   stream, budget>>

\* Seeded bug: an empty poll keeps its permit.
PopTimesOut_Keeps ==
    /\ listener = "pop" /\ queue = <<>>
    /\ listener' = "acquire"
    /\ UNCHANGED <<apiVars, row, pc, queue, permits, localVars, boardVars,
                   runResult, stream, budget>>

\* BRPOP times out: the permit goes back.
PopTimesOut ==
    /\ listener = "pop" /\ queue = <<>>
    /\ permits' = permits + 1
    /\ listener' = "acquire"
    /\ UNCHANGED <<apiVars, row, pc, queue, localVars, boardVars, runResult,
                   stream, budget>>

\* Seeded bug: one of the except clauses forgets the release.
PopFails_Keeps ==
    /\ listener = "pop" /\ Spend("redis")
    /\ listener' = "acquire"
    /\ UNCHANGED <<apiVars, row, pc, queue, permits, localVars, boardVars,
                   runResult, stream>>

\* BRPOP fails: back off, give the permit back.  Redis may have popped a job
\* whose answer was lost.
PopFails ==
    /\ listener = "pop" /\ Spend("redis")
    /\ permits' = permits + 1
    /\ listener' = "acquire"
    /\ \/ UNCHANGED <<queue, pc>>
       \/ /\ queue # <<>>
          /\ queue' = Tail(queue)
          /\ pc' = [pc EXCEPT ![Head(queue)] = "lost"]
    /\ UNCHANGED <<apiVars, row, localVars, boardVars, runResult, stream>>

\* Where route_job sends a job.
FirstStep(j) == IF j \in Submission THEN "begin"
                ELSE IF j \in Run THEN "announce"
                ELSE "audit"

\* executor.submit(route_job, submission_data)
Hand(j) ==
    /\ listener = "hand" /\ pc[j] = "held"
    /\ pc' = [pc EXCEPT ![j] = FirstStep(j)]
    /\ listener' = "acquire"
    /\ UNCHANGED <<apiVars, row, queue, permits, localVars, boardVars,
                   runResult, stream, budget>>

-----------------------------------------------------------------------------
(* A pool thread on an official submission: process_submission *)

\* get_db_connection; UPDATE ... 'Running'; commit.  Without a connection the
\* except clause has nothing to roll back and only publishes.
Begin(s) ==
    /\ pc[s] = "begin"
    /\ \/ Proceeds(s, "announce") /\ SetRow(s, "Running")
       \/ Raises(s, "db") /\ (SetRow(s, "Running") \/ UNCHANGED row)
       \/ Spend("db") /\ pc' = [pc EXCEPT ![s] = "alarm"] /\ UNCHANGED row
    /\ UNCHANGED <<apiVars, listenVars, localVars, boardVars, runResult, stream>>

\* Seeded bug: a problem without test cases leaves the row Running.
Fetch_Silent(s) ==
    /\ pc[s] = "fetch"
    /\ \/ row[s] # "none" /\ Proceeds(s, "grade")
       \/ Proceeds(s, "release")
    /\ UNCHANGED <<apiVars, row, listenVars, localVars, boardVars, runResult,
                   stream>>

\* SELECT the submission and its test cases.  A deleted row ends the job, a
\* problem without test cases is recorded as SE; neither publishes anything.
Fetch(s) ==
    /\ pc[s] = "fetch"
    /\ \/ row[s] # "none" /\ Proceeds(s, "grade") /\ UNCHANGED row
       \/ row[s] = "none" /\ Proceeds(s, "release") /\ UNCHANGED row
       \/ row[s] # "none" /\ Proceeds(s, "release") /\ SetRow(s, "SE")
       \/ Raises(s, "db") /\ UNCHANGED row
    /\ UNCHANGED <<apiVars, listenVars, localVars, boardVars, runResult, stream>>

\* Seeded bug: the verdict is not written.
Record_Unwritten(s) ==
    /\ pc[s] = "record"
    /\ Proceeds(s, "reply")
    /\ UNCHANGED <<apiVars, row, listenVars, localVars, boardVars, runResult,
                   stream>>

\* Seeded bug: every contest submission is scored.
Record_ScoresAll(s) ==
    /\ pc[s] = "record"
    /\ Proceeds(s, "count") /\ SetRow(s, verdict[s])
    /\ UNCHANGED <<apiVars, listenVars, localVars, boardVars, runResult, stream>>

\* UPDATE ... final_verdict; commit
Record(s) ==
    /\ pc[s] = "record"
    /\ \/ /\ Proceeds(s, IF verdict[s] = "AC" /\ ContestOf[KeyOf[s]] # NoContest
                         THEN "count" ELSE "reply")
          /\ SetRow(s, verdict[s])
       \/ Raises(s, "db") /\ (SetRow(s, verdict[s]) \/ UNCHANGED row)
    /\ UNCHANGED <<apiVars, listenVars, localVars, boardVars, runResult, stream>>

\* Seeded bug: the query asks for a status nobody has.
OtherAccepted_WrongLabel(s) ==
    {t \in Submission \ {s} : KeyOf[t] = KeyOf[s] /\ row[t] = "Accepted"}

\* Accepted submissions of the same user, problem and contest, other than s.
OtherAccepted(s) ==
    {t \in Submission \ {s} : KeyOf[t] = KeyOf[s] /\ row[t] = "AC"}

\* Failed ones among them submitted before s.
EarlierFailed(s) ==
    {t \in Submission : /\ KeyOf[t] = KeyOf[s] /\ row[t] \in Failing
                        /\ submittedAt[t] < submittedAt[s]}

\* SELECT COUNT(*) as solved: only the first accepted submission scores.
Count(s) ==
    /\ pc[s] = "count"
    /\ \/ Proceeds(s, IF OtherAccepted(s) = {} THEN "tally" ELSE "reply")
       \/ Raises(s, "db")
    /\ UNCHANGED <<apiVars, row, listenVars, localVars, boardVars, runResult,
                   stream>>

\* Seeded bug: failures after the accepted attempt are charged as well.
Tally_AllFailures(s) ==
    /\ pc[s] = "tally"
    /\ Proceeds(s, "credit")
    /\ fails' = [fails EXCEPT ![s] =
          Cardinality({t \in Submission : /\ KeyOf[t] = KeyOf[s]
                                          /\ row[t] \in Failing})]
    /\ UNCHANGED <<apiVars, row, listenVars, verdict, boardVars, runResult,
                   stream>>

\* SELECT COUNT(*) as fails
Tally(s) ==
    /\ pc[s] = "tally"
    /\ \/ /\ Proceeds(s, "credit")
          /\ fails' = [fails EXCEPT ![s] = Cardinality(EarlierFailed(s))]
       \/ Raises(s, "db") /\ UNCHANGED fails
    /\ UNCHANGED <<apiVars, row, listenVars, verdict, boardVars, runResult,
                   stream>>

\* ZINCRBY leaderboard (1 - penalty/100000) user, as a (solves, penalty) pair;
\* module ScoreCodec relates the pair to the number.
AddCredit(s) ==
    score' = [score EXCEPT ![KeyOf[s]] =
                [solves  |-> @.solves + 1,
                 penalty |-> @.penalty + submittedAt[s] + 20 * fails[s]]]

Credit(s) ==
    /\ pc[s] = "credit"
    /\ \/ Proceeds(s, "mark") /\ AddCredit(s)
       \/ Raises(s, "redis") /\ (AddCredit(s) \/ UNCHANGED score)
    /\ UNCHANGED <<apiVars, row, listenVars, localVars, dirty, contest,
                   runResult, stream>>

\* SADD dirty_contests
Mark(s) ==
    /\ pc[s] = "mark"
    /\ \/ Proceeds(s, "reply") /\ dirty' = dirty \cup {ContestOf[KeyOf[s]]}
       \/ /\ Raises(s, "redis")
          /\ dirty' \in {dirty, dirty \cup {ContestOf[KeyOf[s]]}}
    /\ UNCHANGED <<apiVars, row, listenVars, localVars, score, contest,
                   runResult, stream>>

-----------------------------------------------------------------------------
(* Steps that official and custom jobs share, and custom runs: route_job *)

\* PUBLISH "Running": no terminal message, so no stream settles.
Announce(j) ==
    /\ pc[j] = "announce"
    /\ \/ Proceeds(j, IF j \in Submission THEN "fetch" ELSE "grade")
       \/ Raises(j, "redis")
    /\ UNCHANGED <<apiVars, row, listenVars, localVars, boardVars, runResult,
                   stream>>

\* grade_submission turns every failure of its own into a verdict.
Grade(j) ==
    /\ pc[j] = "grade"
    /\ Proceeds(j, IF j \in Submission THEN "record" ELSE "save")
    /\ \E v \in Outcome : verdict' = [verdict EXCEPT ![j] = v]
    /\ UNCHANGED <<apiVars, row, listenVars, fails, boardVars, runResult, stream>>

\* Seeded bug: only successful runs are stored.
Save_OnlyAccepted(r) ==
    /\ pc[r] = "save"
    /\ Proceeds(r, "reply")
    /\ runResult' = [runResult EXCEPT ![r] = IF verdict[r] = "AC" THEN "AC" ELSE @]
    /\ UNCHANGED <<apiVars, row, listenVars, localVars, boardVars, stream>>

\* SET run_result:{id} ex=600
Save(r) ==
    /\ pc[r] = "save"
    /\ \/ /\ Proceeds(r, "reply")
          /\ runResult' = [runResult EXCEPT ![r] = verdict[r]]
       \/ /\ Raises(r, "redis")
          /\ \/ runResult' = [runResult EXCEPT ![r] = verdict[r]]
             \/ UNCHANGED runResult
    /\ UNCHANGED <<apiVars, row, listenVars, localVars, boardVars, stream>>

\* PUBLISH of the final message.
Reply(j) ==
    /\ pc[j] = "reply"
    /\ \/ Proceeds(j, "release") /\ Publish(j, verdict[j])
       \/ Raises(j, "redis") /\ (Publish(j, verdict[j]) \/ UNCHANGED stream)
    /\ UNCHANGED <<apiVars, row, listenVars, localVars, boardVars, runResult>>

\* The except clauses.  A submission: rollback, UPDATE ... 'SE', commit, whose
\* own failure is only logged.  A run: SET run_result to SE, whose failure
\* skips the publication.
Rescue(j) ==
    /\ pc[j] = "rescue"
    /\ \/ /\ j \in Submission
          /\ \/ Proceeds(j, "alarm") /\ SetRow(j, "SE")
             \/ /\ Spend("db") /\ pc' = [pc EXCEPT ![j] = "alarm"]
                /\ UNCHANGED row
          /\ UNCHANGED runResult
       \/ /\ j \in Run
          /\ \/ /\ Proceeds(j, "alarm")
                /\ runResult' = [runResult EXCEPT ![j] = "SE"]
             \/ /\ Spend("redis") /\ pc' = [pc EXCEPT ![j] = "release"]
                /\ \/ runResult' = [runResult EXCEPT ![j] = "SE"]
                   \/ UNCHANGED runResult
          /\ UNCHANGED row
    /\ UNCHANGED <<apiVars, listenVars, localVars, boardVars, stream>>

\* PUBLISH "SE"
Alarm(j) ==
    /\ pc[j] = "alarm"
    /\ \/ Proceeds(j, "release") /\ Publish(j, "SE")
       \/ /\ Spend("redis") /\ pc' = [pc EXCEPT ![j] = "release"]
          /\ UNCHANGED stream
    /\ UNCHANGED <<apiVars, row, listenVars, localVars, boardVars, runResult>>

\* run_moss_audit (module MossAudit): it catches its own exceptions.
RunAudit(a) ==
    /\ pc[a] = "audit"
    /\ Proceeds(a, "release")
    /\ UNCHANGED <<apiVars, row, listenVars, localVars, boardVars, runResult,
                   stream>>

\* finally: release the connection; finally: job_semaphore.release()
Release(j) ==
    /\ pc[j] = "release"
    /\ Proceeds(j, "done")
    /\ permits' = permits + 1
    /\ UNCHANGED <<apiVars, row, queue, listener, localVars, boardVars,
                   runResult, stream>>

\* The worker process dies and is started again: every popped job is gone.
Crash ==
    /\ Spend("crash")
    /\ pc' = [j \in Job |-> IF pc[j] \in ThreadStep \cup {"held"}
                            THEN "lost" ELSE pc[j]]
    /\ listener' = "acquire"
    /\ permits' = MaxWorkers
    /\ UNCHANGED <<apiVars, row, queue, localVars, boardVars, runResult, stream>>

-----------------------------------------------------------------------------
ApiStep(j) ==
    \/ j \in Submission /\ (PutSource(j) \/ InsertRow(j))
    \/ Enqueue(j)

Listener ==
    \/ Acquire \/ Pop \/ PopTimesOut \/ PopFails
    \/ \E j \in Job : Hand(j)

Worker(j) ==
    \/ /\ j \in Submission
       /\ \/ Begin(j) \/ Fetch(j) \/ Record(j) \/ Count(j) \/ Tally(j)
          \/ Credit(j) \/ Mark(j)
    \/ j \in Run /\ Save(j)
    \/ j \in Audit /\ RunAudit(j)
    \/ Announce(j) \/ Grade(j) \/ Reply(j) \/ Rescue(j) \/ Alarm(j)
    \/ Release(j)

Next ==
    \/ \E j \in Job : ApiStep(j) \/ Subscribe(j) \/ Worker(j)
    \/ \E r \in Run : ResultExpires(r)
    \/ \E c \in Contest : DropContest(c) \/ NukeKeys(c)
    \/ Listener
    \/ Crash

Spec == Init /\ [][Next]_vars

\* A handler that was entered runs to its end, the page opens its stream, the
\* listener loops for ever and a pool thread is never abandoned.  Nobody is
\* obliged to submit, to delete a contest, or to let a result expire.
Fairness ==
    /\ \A s \in Submission : WF_vars(InsertRow(s) \/ Enqueue(s))
    /\ \A j \in Job : WF_vars(Subscribe(j)) /\ WF_vars(Worker(j))
    /\ WF_vars(Listener)

LiveSpec == Spec /\ Fairness

-----------------------------------------------------------------------------
(* Safety *)

Threads == {j \in Job : pc[j] \in ThreadStep}

\* Backpressure: a permit is either in the semaphore, with the listener
\* between acquire and hand-over, or with exactly one running thread.  A path
\* of route_job or start_worker that released twice or not at all would break
\* the sum, whatever fails and whenever the worker is restarted.
PermitsConserved ==
    permits + (IF listener = "acquire" THEN 0 ELSE 1) + Cardinality(Threads)
        = MaxWorkers

\* The leaderboard counts a user's problem once, however many of its accepted
\* submissions are graded at the same time (queue_listener.py counts the other
\* accepted rows after committing its own).
AtMostOneSolve == \A k \in Key : score[k].solves <= 1

\* A solve on the leaderboard is backed by an accepted row of that key.
SolveIsBacked ==
    \A k \in Key : score[k].solves > 0 =>
        \E s \in Submission : KeyOf[s] = k /\ row[s] = "AC"

\* The penalty never exceeds that of some accepted submission of the key with
\* every failure submitted before it: a failure graded late can only be
\* missed, never charged twice or charged from a later attempt.
NeverOvercharged ==
    \A k \in Key : score[k].solves = 1 =>
        \E s \in Submission :
            /\ KeyOf[s] = k /\ row[s] = "AC"
            /\ score[k].penalty
                 <= submittedAt[s] + 20 * Cardinality(EarlierFailed(s))

\* A submission deleted with its contest does not come back, although the
\* worker may still be grading it: its UPDATEs find no row, and the foreign key
\* stops a handler that passed the clearance check before the deletion.
DroppedStaysEmpty ==
    \A s \in Submission :
        LET c == ContestOf[KeyOf[s]] IN
        c # NoContest /\ contest[c] # "live" => row[s] = "none"

(* Action properties *)

\* No outcome of the grader is announced to the student before it is committed,
\* whatever fails in between; only the SE of the except clause, whose UPDATE may
\* fail too, can be.
RecordedBeforeTold ==
    [][\A s \in Submission :
         stream'[s] # stream[s] /\ stream'[s] \in Verdict \ {"SE"}
           => row[s] \in {stream'[s], "none"}]_vars

(* Liveness *)

Queued(j) == \E i \in 1..Len(queue) : queue[i] = j

\* Every job pushed on the queue leaves the worker, graded or lost, whatever
\* fails: no path keeps a permit, so the listener is never blocked for good.
QueueDrains ==
    \A j \in Job : Queued(j) ~> pc[j] \in {"done", "lost"}

\* A custom run that reached the queue leaves a result to poll for, unless
\* the worker died under it.
RunAnswered ==
    \A r \in Run : Queued(r) ~> runResult[r] \in Verdict \/ pc[r] = "lost"

\* A student who follows a submission over SSE is told its verdict.
VerdictStreamed ==
    \A s \in Submission : stream[s] = "open" ~> stream[s] \in Verdict

\* Once every submission of a contest key is graded, an accepted one among
\* them counts as a solve.
Settled(k) ==
    \A s \in Submission : KeyOf[s] = k => pc[s] \in {"none", "done"}
AcceptedIsScored ==
    \A k \in Key :
        /\ ContestOf[k] # NoContest
        /\ Settled(k)
        /\ \E s \in Submission : KeyOf[s] = k /\ row[s] = "AC"
        => score[k].solves > 0

(* Refinement *)

J == INSTANCE Judge WITH solves <- [k \in Key |-> score[k].solves]
JudgeSpec == J!Spec

=============================================================================
