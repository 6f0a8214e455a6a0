------------------------------ MODULE MossAudit ------------------------------
(****************************************************************************)
(* The plagiarism audit of a finished contest.  Every minute the audit      *)
(* daemon of the API claims the finished contests whose audit is pending    *)
(* and pushes one job for each; a thread of the worker sends the last       *)
(* submission of every user to the external MOSS service, one batch per     *)
(* problem and language, stores a report per batch and closes the audit.    *)
(* The leaderboard daemon tells the faculty page how the audit stands.      *)
(*                                                                          *)
(* Three writers share contests.moss_audit_status and nothing locks it, so  *)
(* daemon and worker are modelled one statement at a time.                  *)
(****************************************************************************)
EXTENDS Integers, Sequences, FiniteSets

CONSTANTS
    Contest,      \* contests
    Daemon,       \* instances of the API, each with its audit daemon
    Thread,       \* pool threads of the worker
    Batch,        \* (problem, language) pairs with at least two users
    BatchesOf,    \* the batches of each contest
    MossId,       \* what MOSS_USER_ID may be: "set", "missing"
    Faults,       \* kinds of failure this instance injects
    MaxFaults     \* bound: how many failures one behaviour contains

\* "redis": a command is not executed.  "lostreply": a push is executed but
\* its answer is lost.  "moss": S3, MOSS or the scratch directory.
FaultKind == {"db", "redis", "lostreply", "moss", "crash", "delete"}

ASSUME BatchesTyped ==
    /\ Contest # {} /\ Batch # {}
    /\ BatchesOf \in [Contest -> SUBSET Batch]
ASSUME MossIdTyped == MossId \subseteq {"set", "missing"}
ASSUME FaultsTyped == Faults \subseteq FaultKind /\ MaxFaults \in Nat

VARIABLES
    ended,     \* contests whose end_time has passed
    status,    \* contests.moss_audit_status, "gone" once the row is deleted
    analysed,  \* how often the report of each batch has been committed
    dirty,     \* SET dirty_contests
    queue,     \* audit jobs in submission_queue, next to pop first
    dpc,       \* next statement of each daemon's loop body
    todo,      \* pendingIDs still to be handled in this tick
    claimed,   \* `id` of the loop body (meaningful from push to mark)
    tpc,       \* next statement of each thread's run_moss_audit
    job,       \* its contest_id (meaningful unless idle)
    left,      \* its batches still to be analysed
    batch,     \* its current batch (meaningful from send to clean)
    scratch,   \* batches whose directory /tmp/moss_... exists
    taken,     \* the contest the leaderboard daemon is handling, as a set
    told,      \* audit status last broadcast to the faculty page
    budget     \* failures still to be injected

dbVars     == <<status, analysed>>
daemonVars == <<dpc, todo, claimed>>
threadVars == <<tpc, job, left, batch>>
tellVars   == <<taken, told>>
vars == <<ended, status, analysed, dirty, queue, dpc, todo, claimed, tpc, job,
          left, batch, scratch, taken, told, budget>>

Status == {"pending", "in_progress", "completed", "failed"}
Final == {"completed", "failed"}

DbOK     == /\ ended \subseteq Contest
            /\ status \in [Contest -> Status \cup {"gone"}]
            /\ analysed \in [Contest -> [Batch -> Nat]]
DaemonOK == /\ dpc \in [Daemon -> {"claim", "push", "revert", "mark"}]
            /\ todo \in [Daemon -> SUBSET Contest]
            /\ claimed \in [Daemon -> Contest]
ThreadOK == /\ tpc \in [Thread -> {"idle", "start", "select", "next", "send",
                                   "store", "clean", "mark", "rescue",
                                   "markfailed"}]
            /\ job \in [Thread -> Contest]
            /\ left \in [Thread -> SUBSET Batch]
            /\ batch \in [Thread -> Batch]
            /\ scratch \subseteq Contest \X Batch
RedisOK  == dirty \subseteq Contest /\ queue \in Seq(Contest)
TellOK   == taken \subseteq Contest /\ told \in [Contest -> Status]
TypeOK   == /\ DbOK /\ DaemonOK /\ ThreadOK /\ RedisOK /\ TellOK
            /\ budget \in 0..MaxFaults

Init ==
    /\ ended = {}
    /\ status = [c \in Contest |-> "pending"]
    /\ analysed = [c \in Contest |-> [b \in Batch |-> 0]]
    /\ dirty = {}
    /\ queue = <<>>
    /\ dpc = [d \in Daemon |-> "claim"]
    /\ todo = [d \in Daemon |-> {}]
    /\ claimed = [d \in Daemon |-> CHOOSE c \in Contest : TRUE]
    /\ tpc = [t \in Thread |-> "idle"]
    /\ job = [t \in Thread |-> CHOOSE c \in Contest : TRUE]
    /\ left = [t \in Thread |-> {}]
    /\ batch = [t \in Thread |-> CHOOSE b \in Batch : TRUE]
    /\ scratch = {}
    /\ taken = {}
    /\ told = [c \in Contest |-> "pending"]
    /\ budget = MaxFaults

-----------------------------------------------------------------------------
(* Failures and shared statements *)

Spend(f) == f \in Faults /\ budget > 0 /\ budget' = budget - 1

\* UPDATE contests SET moss_audit_status = v: no row, no effect.
SetStatus(c, v) ==
    status' = [status EXCEPT ![c] = IF @ = "gone" THEN @ ELSE v]

\* An UPDATE that fails may have been committed before the connection broke.
MaybeSetStatus(c, v) == SetStatus(c, v) \/ UNCHANGED status

DaemonGoes(d, to) == dpc' = [dpc EXCEPT ![d] = to]

ThreadGoes(t, to) == tpc' = [tpc EXCEPT ![t] = to]

\* The statement raises.  When the connection itself is broken the rollback
\* of the except clause raises too and nothing more is recorded.
Raises(t, f) ==
    /\ Spend(f)
    /\ \/ ThreadGoes(t, "rescue")
       \/ f = "db" /\ ThreadGoes(t, "idle")

-----------------------------------------------------------------------------
(* The contest itself *)

\* end_time passes.
End(c) ==
    /\ c \notin ended
    /\ ended' = ended \cup {c}
    /\ UNCHANGED <<dbVars, dirty, queue, daemonVars, threadVars, scratch,
                   tellVars, budget>>

\* An administrator deletes the contest: reports and submissions cascade, the
\* dirty mark is removed.
Delete(c) ==
    /\ status[c] # "gone" /\ Spend("delete")
    /\ status' = [status EXCEPT ![c] = "gone"]
    /\ analysed' = [analysed EXCEPT ![c] = [b \in Batch |-> 0]]
    /\ dirty' = dirty \ {c}
    /\ UNCHANGED <<ended, queue, daemonVars, threadVars, scratch, tellVars>>

-----------------------------------------------------------------------------
(* StartAuditDaemon *)

\* Seeded bug: the sweep for stuck audits, without its timeout.
Tick_SweepsStuck(d) ==
    /\ dpc[d] = "claim" /\ todo[d] = {}
    /\ todo' = [todo EXCEPT ![d] =
                  {c \in ended : status[c] \in {"pending", "in_progress"}}]
    /\ UNCHANGED <<ended, dbVars, dirty, queue, dpc, claimed, threadVars,
                   scratch, tellVars, budget>>

\* The SELECT of the tick.  When it fails the daemon waits for the next tick.
Tick(d) ==
    /\ dpc[d] = "claim" /\ todo[d] = {}
    /\ todo' = [todo EXCEPT ![d] = {c \in ended : status[c] = "pending"}]
    /\ UNCHANGED <<ended, dbVars, dirty, queue, dpc, claimed, threadVars,
                   scratch, tellVars, budget>>

\* UPDATE ... 'in_progress', whatever the status is by now.  When it fails the
\* contest is skipped.
Claim(d, c) ==
    /\ dpc[d] = "claim" /\ c \in todo[d]
    /\ todo' = [todo EXCEPT ![d] = @ \ {c}]
    /\ \/ SetStatus(c, "in_progress") /\ DaemonGoes(d, "push")
          /\ claimed' = [claimed EXCEPT ![d] = c] /\ UNCHANGED budget
       \/ MaybeSetStatus(c, "in_progress") /\ Spend("db")
          /\ UNCHANGED <<dpc, claimed>>
    /\ UNCHANGED <<ended, analysed, dirty, queue, threadVars, scratch, tellVars>>

\* LPUSH of the job.
Push(d) ==
    /\ dpc[d] = "push"
    /\ \/ /\ DaemonGoes(d, "mark") /\ UNCHANGED budget
          /\ queue' = Append(queue, claimed[d])
       \/ DaemonGoes(d, "revert") /\ Spend("redis") /\ UNCHANGED queue
       \/ /\ DaemonGoes(d, "revert") /\ Spend("lostreply")
          /\ queue' = Append(queue, claimed[d])
    /\ UNCHANGED <<ended, dbVars, dirty, todo, claimed, threadVars, scratch,
                   tellVars>>

\* UPDATE ... 'pending' after a failed push.
Revert(d) ==
    /\ dpc[d] = "revert" /\ DaemonGoes(d, "claim")
    /\ \/ SetStatus(claimed[d], "pending") /\ UNCHANGED budget
       \/ MaybeSetStatus(claimed[d], "pending") /\ Spend("db")
    /\ UNCHANGED <<ended, analysed, dirty, queue, todo, claimed, threadVars,
                   scratch, tellVars>>

\* SADD dirty_contests; a failure is only logged.
Mark(d) ==
    /\ dpc[d] = "mark" /\ DaemonGoes(d, "claim")
    /\ \/ dirty' = dirty \cup {claimed[d]} /\ UNCHANGED budget
       \/ dirty' \in {dirty, dirty \cup {claimed[d]}} /\ Spend("redis")
    /\ UNCHANGED <<ended, dbVars, queue, todo, claimed, threadVars, scratch,
                   tellVars>>

DaemonStep(d) ==
    \/ Tick(d) \/ Push(d) \/ Revert(d) \/ Mark(d)
    \/ \E c \in Contest : Claim(d, c)

-----------------------------------------------------------------------------
(* run_moss_audit on a pool thread *)

\* BRPOP and hand-over to a free thread (module Grading has the details).
Take(t) ==
    /\ tpc[t] = "idle" /\ queue # <<>>
    /\ job' = [job EXCEPT ![t] = Head(queue)]
    /\ queue' = Tail(queue)
    /\ ThreadGoes(t, "start")
    /\ UNCHANGED <<ended, dbVars, dirty, daemonVars, left, batch, scratch,
                   tellVars, budget>>

\* get_db_connection and the validation of MOSS_USER_ID, which fails the audit
\* at once.  Without a connection the except clause can record nothing.
Start(t) ==
    /\ tpc[t] = "start"
    /\ \/ "set" \in MossId /\ ThreadGoes(t, "select")
          /\ UNCHANGED <<status, budget>>
       \/ "missing" \in MossId /\ ThreadGoes(t, "mark")
          /\ SetStatus(job[t], "failed") /\ UNCHANGED budget
       \/ "missing" \in MossId /\ Raises(t, "db")
          /\ MaybeSetStatus(job[t], "failed")
       \/ Spend("db") /\ ThreadGoes(t, "idle") /\ UNCHANGED status
    /\ UNCHANGED <<ended, analysed, dirty, queue, daemonVars, job, left, batch,
                   scratch, tellVars>>

\* SELECT DISTINCT problem_id: nothing is left of a deleted contest.
Select(t) ==
    /\ tpc[t] = "select"
    /\ \/ /\ ThreadGoes(t, "next") /\ UNCHANGED budget
          /\ left' = [left EXCEPT ![t] =
                IF status[job[t]] = "gone" THEN {} ELSE BatchesOf[job[t]]]
       \/ Raises(t, "db") /\ UNCHANGED left
    /\ UNCHANGED <<ended, dbVars, dirty, queue, daemonVars, job, batch, scratch,
                   tellVars>>

\* The submissions of the next batch are selected and downloaded.  If the
\* contest was deleted meanwhile there are none and the batch is skipped.
Prepare(t, b) ==
    /\ tpc[t] = "next" /\ b \in left[t]
    /\ \/ /\ status[job[t]] # "gone"
          /\ ThreadGoes(t, "send") /\ UNCHANGED <<left, budget>>
          /\ batch' = [batch EXCEPT ![t] = b]
          /\ scratch' = scratch \cup {<<job[t], b>>}
       \/ /\ status[job[t]] = "gone"
          /\ left' = [left EXCEPT ![t] = @ \ {b}]
          /\ UNCHANGED <<tpc, batch, scratch, budget>>
       \/ Raises(t, "db") /\ UNCHANGED <<left, batch, scratch>>
       \/ /\ Raises(t, "moss") /\ scratch' = scratch \cup {<<job[t], b>>}
          /\ UNCHANGED <<left, batch>>
    /\ UNCHANGED <<ended, dbVars, dirty, queue, daemonVars, job, tellVars>>

\* m.send() reads the files of the batch; another audit of the same contest
\* may have removed them.
Send(t) ==
    /\ tpc[t] = "send"
    /\ \/ <<job[t], batch[t]>> \in scratch /\ ThreadGoes(t, "store")
          /\ UNCHANGED budget
       \/ <<job[t], batch[t]>> \notin scratch /\ ThreadGoes(t, "rescue")
          /\ UNCHANGED budget
       \/ Raises(t, "moss")
    /\ UNCHANGED <<ended, dbVars, dirty, queue, daemonVars, job, left, batch,
                   scratch, tellVars>>

\* INSERT of the flagged pairs; commit.  The foreign key rejects them when the
\* contest is gone.
AddReport(t) == analysed' = [analysed EXCEPT ![job[t]][batch[t]] = @ + 1]

Store(t) ==
    /\ tpc[t] = "store"
    /\ \/ /\ status[job[t]] # "gone"
          /\ ThreadGoes(t, "clean") /\ AddReport(t) /\ UNCHANGED budget
       \/ /\ status[job[t]] = "gone"
          /\ ThreadGoes(t, "rescue") /\ UNCHANGED <<analysed, budget>>
       \/ /\ Raises(t, "db")
          /\ \/ status[job[t]] # "gone" /\ AddReport(t)
             \/ UNCHANGED analysed
    /\ UNCHANGED <<ended, status, dirty, queue, daemonVars, job, left, batch,
                   scratch, tellVars>>

\* shutil.rmtree(batch_dir); on to the next batch.
Clean(t) ==
    /\ tpc[t] = "clean" /\ ThreadGoes(t, "next")
    /\ scratch' = scratch \ {<<job[t], batch[t]>>}
    /\ left' = [left EXCEPT ![t] = @ \ {batch[t]}]
    /\ UNCHANGED <<ended, dbVars, dirty, queue, daemonVars, job, batch,
                   tellVars, budget>>

\* Seeded bug: the audit is closed after its first batch.
Finish_Early(t) ==
    /\ tpc[t] = "next" /\ ThreadGoes(t, "mark")
    /\ SetStatus(job[t], "completed")
    /\ UNCHANGED <<ended, analysed, dirty, queue, daemonVars, job, left, batch,
                   scratch, tellVars, budget>>

\* UPDATE ... 'completed'; commit
Finish(t) ==
    /\ tpc[t] = "next" /\ left[t] = {}
    /\ \/ ThreadGoes(t, "mark") /\ SetStatus(job[t], "completed")
          /\ UNCHANGED budget
       \/ Raises(t, "db") /\ MaybeSetStatus(job[t], "completed")
    /\ UNCHANGED <<ended, analysed, dirty, queue, daemonVars, job, left, batch,
                   scratch, tellVars>>

\* Seeded bug: the audit closes without asking for a broadcast.
MarkOutcome_Silent(t) ==
    /\ tpc[t] = "mark" /\ ThreadGoes(t, "idle")
    /\ UNCHANGED <<ended, dbVars, dirty, queue, daemonVars, job, left, batch,
                   scratch, tellVars, budget>>

\* SADD dirty_contests, inside the try: its failure fails the audit.
MarkOutcome(t) ==
    /\ tpc[t] = "mark"
    /\ \/ ThreadGoes(t, "idle") /\ dirty' = dirty \cup {job[t]}
          /\ UNCHANGED budget
       \/ Raises(t, "redis") /\ dirty' \in {dirty, dirty \cup {job[t]}}
    /\ UNCHANGED <<ended, dbVars, queue, daemonVars, job, left, batch, scratch,
                   tellVars>>

\* Seeded bug: a failed audit is put back for the daemon.
Rescue_Requeues(t) ==
    /\ tpc[t] = "rescue" /\ ThreadGoes(t, "markfailed")
    /\ SetStatus(job[t], "pending")
    /\ UNCHANGED <<ended, analysed, dirty, queue, daemonVars, job, left, batch,
                   scratch, tellVars, budget>>

\* The except clause: rollback; UPDATE ... 'failed'; commit.
Rescue(t) ==
    /\ tpc[t] = "rescue"
    /\ \/ ThreadGoes(t, "markfailed") /\ SetStatus(job[t], "failed")
          /\ UNCHANGED budget
       \/ ThreadGoes(t, "idle") /\ MaybeSetStatus(job[t], "failed")
          /\ Spend("db")
    /\ UNCHANGED <<ended, analysed, dirty, queue, daemonVars, job, left, batch,
                   scratch, tellVars>>

\* SADD dirty_contests of the except clause.
MarkFailed(t) ==
    /\ tpc[t] = "markfailed" /\ ThreadGoes(t, "idle")
    /\ \/ dirty' = dirty \cup {job[t]} /\ UNCHANGED budget
       \/ dirty' \in {dirty, dirty \cup {job[t]}} /\ Spend("redis")
    /\ UNCHANGED <<ended, dbVars, queue, daemonVars, job, left, batch, scratch,
                   tellVars>>

ThreadStep(t) ==
    \/ Take(t) \/ Start(t) \/ Select(t) \/ Send(t) \/ Store(t) \/ Clean(t)
    \/ Finish(t) \/ MarkOutcome(t) \/ Rescue(t) \/ MarkFailed(t)
    \/ \E b \in Batch : Prepare(t, b)

\* The worker process dies and is started again: the audits it ran are gone.
Crash ==
    /\ Spend("crash")
    /\ tpc' = [t \in Thread |-> "idle"]
    /\ UNCHANGED <<ended, dbVars, dirty, queue, daemonVars, job, left, batch,
                   scratch, tellVars>>

-----------------------------------------------------------------------------
(* StartLeaderboardDaemon, as far as the audit is concerned *)

\* SREM dirty_contests
Sweep(c) ==
    /\ taken = {} /\ c \in dirty
    /\ dirty' = dirty \ {c}
    /\ taken' = {c}
    /\ UNCHANGED <<ended, dbVars, queue, daemonVars, threadVars, scratch, told,
                   budget>>

\* FetchEnrichedLeaderboard and the two broadcasts.  A deleted contest, or a
\* failed query of the status, reads as "pending".
Tell(c) ==
    /\ c \in taken
    /\ taken' = {}
    /\ \/ /\ told' = [told EXCEPT ![c] =
                        IF status[c] = "gone" THEN "pending" ELSE status[c]]
          /\ UNCHANGED budget
       \/ told' = [told EXCEPT ![c] = "pending"] /\ Spend("db")
       \/ (Spend("db") \/ Spend("redis")) /\ UNCHANGED told
    /\ UNCHANGED <<ended, dbVars, dirty, queue, daemonVars, threadVars, scratch>>

Broadcaster == \E c \in Contest : Sweep(c) \/ Tell(c)

-----------------------------------------------------------------------------
Next ==
    \/ \E c \in Contest : End(c) \/ Delete(c)
    \/ \E d \in Daemon : DaemonStep(d)
    \/ \E t \in Thread : ThreadStep(t)
    \/ Crash
    \/ Broadcaster

Spec == Init /\ [][Next]_vars

\* The daemons loop on tickers, a pool thread is never abandoned.  Nothing
\* obliges a contest to end or anybody to delete one.
Fairness ==
    /\ \A d \in Daemon : WF_vars(DaemonStep(d))
    /\ \A t \in Thread : WF_vars(ThreadStep(t))
    /\ WF_vars(Broadcaster)

LiveSpec == Spec /\ Fairness

-----------------------------------------------------------------------------
(* Safety *)

\* Where a job of contest c is: being pushed, in the queue, on a thread.
Pushing(d) == dpc[d] \in {"push", "revert"}
Holders(c) ==
    ({"daemon"} \X {d \in Daemon : Pushing(d) /\ claimed[d] = c})
    \cup ({"queue"} \X {i \in 1..Len(queue) : queue[i] = c})
    \cup ({"thread"} \X {t \in Thread : tpc[t] # "idle" /\ job[t] = c})

\* A contest is claimed by one daemon, for one job: two audits of it would
\* share /tmp/moss_<contest>_<problem>_<language> and report everything twice.
OneJobPerContest == \A c \in Contest : \A x, y \in Holders(c) : x = y

\* The report of a batch is stored once at most, whatever fails.
ReportedOnce == \A c \in Contest, b \in Batch : analysed[c][b] <= 1

\* A completed audit has analysed every batch of the contest, and no report is
\* stored twice on the way there (moss_auditor.py:139, :154).
ReportsAreWhole ==
    /\ ReportedOnce
    /\ \A c \in Contest : status[c] = "completed" =>
         \A b \in BatchesOf[c] : analysed[c][b] = 1

(* Action properties *)

\* An audit that ended is not put back: neither the revert of a failed push nor
\* a late claim overwrites the outcome the worker recorded.
OutcomeStands ==
    [][\A c \in Contest :
         status[c] \in Final => status'[c] \in Final \cup {"gone"}]_vars

(* Liveness *)

Unharmed == budget = MaxFaults

\* Unless something fails, the audit of a finished contest ends and the faculty
\* page learns its outcome (moss_auditor.py:146, contest_service.go:135).
AuditIsTold ==
    \A c \in Contest :
        c \in ended ~> (status[c] \in Final /\ told[c] = status[c]) \/ ~Unharmed

\* The audit daemon's sweep rescues a contest left in_progress without a job.
Stuck(c) == status[c] = "in_progress" /\ Holders(c) = {}
StuckIsRescued == \A c \in Contest : Stuck(c) ~> ~Stuck(c)

=============================================================================
