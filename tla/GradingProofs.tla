---------------------------- MODULE GradingProofs ----------------------------
(****************************************************************************)
(* Theorems about Grading, for every number of jobs, keys and workers.      *)
(****************************************************************************)
EXTENDS Grading, FiniteSetTheorems, TLAPS

(* Finite sets of jobs. *)

\* Any set of jobs is finite and its cardinality is a natural number.
LEMMA JobSets == ASSUME NEW S \in SUBSET Job
                 PROVE  IsFiniteSet(S) /\ Cardinality(S) \in Nat
BY JobsFinite, FS_Subset, FS_CardinalityType

\* The queries count finitely many rows.
LEMMA EarlierFailedCount ==
    ASSUME NEW s \in Submission
    PROVE  Cardinality(EarlierFailed(s)) \in Nat
<1>1. EarlierFailed(s) \in SUBSET Job
  BY DEF EarlierFailed, Job
<1> QED BY <1>1, JobSets

-----------------------------------------------------------------------------
(* Type correctness *)

LEMMA InitTyped == Init => TypeOK
<1> SUFFICES ASSUME Init PROVE TypeOK
  OBVIOUS
<1>1. ApiOK /\ ResultOK /\ StreamOK
  BY DEF Init, ApiOK, ResultOK, StreamOK
<1>2. RowOK /\ LocalOK
  BY DEF Init, RowOK, RowValue, LocalOK, Verdict
<1>3. ListenOK /\ PcOK /\ BoardOK
  BY BoundsTyped DEF Init, ListenOK, PcOK, PcValue, BoardOK
<1> QED BY <1>1, <1>2, <1>3 DEF TypeOK

\* A group of variables that a step leaves alone keeps its types.
LEMMA Frame ==
    ASSUME TypeOK
    PROVE  /\ UNCHANGED apiVars => ApiOK'
           /\ UNCHANGED row => RowOK'
           /\ UNCHANGED listenVars => ListenOK'
           /\ UNCHANGED <<pc, budget>> => PcOK'
           /\ UNCHANGED localVars => LocalOK'
           /\ UNCHANGED boardVars => BoardOK'
           /\ UNCHANGED runResult => ResultOK'
           /\ UNCHANGED stream => StreamOK'
BY DEF TypeOK, ApiOK, RowOK, ListenOK, PcOK, LocalOK, BoardOK, ResultOK,
       StreamOK, apiVars, listenVars, localVars, boardVars

\* An injected failure keeps the budget in its range.
LEMMA SpendTyped ==
    ASSUME PcOK, NEW f, Spend(f)
    PROVE  budget' \in 0..MaxFaults
BY BoundsTyped DEF PcOK, Spend

\* The ways a thread moves on.
LEMMA MoveTyped ==
    ASSUME PcOK, NEW j \in Job
    PROVE  /\ \A n \in PcValue : Proceeds(j, n) => PcOK'
           /\ \A f : Raises(j, f) => PcOK'
           /\ \A f : \A n \in PcValue :
                Spend(f) /\ pc' = [pc EXCEPT ![j] = n] => PcOK'
<1>1. ASSUME NEW n \in PcValue, Proceeds(j, n) PROVE PcOK'
  BY <1>1 DEF PcOK, Proceeds
<1>2. ASSUME NEW f, NEW n \in PcValue, Spend(f), pc' = [pc EXCEPT ![j] = n]
      PROVE  PcOK'
  BY <1>2, SpendTyped DEF PcOK
<1>3. "rescue" \in PcValue
  BY DEF PcValue, ThreadStep
<1> QED BY <1>1, <1>2, <1>3 DEF Raises

LEMMA SetRowTyped ==
    ASSUME RowOK, NEW s \in Submission, NEW v \in Verdict \cup {"Running"},
           SetRow(s, v)
    PROVE  RowOK'
BY DEF RowOK, RowValue, SetRow

LEMMA PublishTyped ==
    ASSUME StreamOK, NEW j \in Job, NEW v \in Verdict, Publish(j, v)
    PROVE  StreamOK'
BY DEF StreamOK, Publish

\* Each step of the API handlers.
LEMMA ApiTyped ==
    ASSUME TypeOK, NEW j \in Job, ApiStep(j) \/ Subscribe(j)
    PROVE  TypeOK'
<1> USE DEF TypeOK
<1>1. CASE j \in Submission /\ PutSource(j)
  <2>1. ApiOK'
    BY <1>1 DEF PutSource, ApiGoes, ApiOK
  <2>2. PcOK'
    BY <1>1, SpendTyped DEF PutSource, PcOK
  <2> QED BY <1>1, <2>1, <2>2, Frame DEF PutSource
<1>2. CASE j \in Submission /\ InsertRow(j)
  <2>1. ApiOK'
    BY <1>2 DEF InsertRow, ApiGoes, ApiOK
  <2>2. PcOK'
    BY <1>2, SpendTyped DEF InsertRow, PcOK
  <2>3. RowOK'
    BY <1>2 DEF InsertRow, RowOK, RowValue
  <2> QED BY <1>2, <2>1, <2>2, <2>3, Frame DEF InsertRow
<1>3. CASE Enqueue(j)
  <2>1. ApiOK'
    BY <1>3 DEF Enqueue, ApiGoes, ApiOK
  <2>2. PcOK'
    BY <1>3, SpendTyped DEF Enqueue, PcOK
  <2>3. ListenOK'
    BY <1>3 DEF Enqueue, ListenOK
  <2> QED BY <1>3, <2>1, <2>2, <2>3, Frame DEF Enqueue
<1>4. CASE Subscribe(j)
  <2>1. StreamOK'
    BY <1>4 DEF Subscribe, StreamOK
  <2> QED BY <1>4, <2>1, Frame DEF Subscribe
<1> QED BY <1>1, <1>2, <1>3, <1>4 DEF ApiStep

\* Expiry of a run's result and the two steps that delete a contest.
LEMMA StoreTyped ==
    ASSUME TypeOK,
           \/ \E r \in Run : ResultExpires(r)
           \/ \E c \in Contest : DropContest(c) \/ NukeKeys(c)
    PROVE  TypeOK'
<1> USE DEF TypeOK
<1>1. ASSUME NEW r \in Run, ResultExpires(r) PROVE TypeOK'
  <2>1. ResultOK'
    BY <1>1 DEF ResultExpires, ResultOK
  <2> QED BY <1>1, <2>1, Frame DEF ResultExpires
<1>2. ASSUME NEW c \in Contest, DropContest(c) PROVE TypeOK'
  <2>1. PcOK'
    BY <1>2, SpendTyped DEF DropContest, PcOK
  <2>2. BoardOK'
    BY <1>2 DEF DropContest, BoardOK
  <2>3. RowOK'
    BY <1>2 DEF DropContest, RowOK, RowValue
  <2> QED BY <1>2, <2>1, <2>2, <2>3, Frame DEF DropContest
<1>3. ASSUME NEW c \in Contest, NukeKeys(c) PROVE TypeOK'
  <2>1. BoardOK'
    BY <1>3 DEF NukeKeys, BoardOK
  <2> QED BY <1>3, <2>1, Frame DEF NukeKeys
<1> QED BY <1>1, <1>2, <1>3

\* The loop of start_worker, and the death of the process.
LEMMA ListenerTyped ==
    ASSUME TypeOK, Listener \/ Crash
    PROVE  TypeOK'
<1> USE DEF TypeOK
<1>1. CASE Acquire
  <2>1. ListenOK'
    BY <1>1 DEF Acquire, ListenOK
  <2> QED BY <1>1, <2>1, Frame DEF Acquire
<1>2. CASE Pop
  <2>1. ListenOK'
    BY <1>2 DEF Pop, ListenOK
  <2>2. PcOK'
    BY <1>2 DEF Pop, ListenOK, PcOK, PcValue
  <2> QED BY <1>2, <2>1, <2>2, Frame DEF Pop
<1>3. CASE PopTimesOut
  <2>1. ListenOK'
    BY <1>3 DEF PopTimesOut, ListenOK
  <2> QED BY <1>3, <2>1, Frame DEF PopTimesOut
<1>4. CASE PopFails
  <2>1. ListenOK'
    BY <1>4 DEF PopFails, ListenOK
  <2>2. PcOK'
    BY <1>4, SpendTyped DEF PopFails, ListenOK, PcOK, PcValue
  <2> QED BY <1>4, <2>1, <2>2, Frame DEF PopFails
<1>5. ASSUME NEW j \in Job, Hand(j) PROVE TypeOK'
  <2>1. ListenOK'
    BY <1>5 DEF Hand, ListenOK
  <2>2. FirstStep(j) \in PcValue
    BY DEF FirstStep, PcValue, ThreadStep
  <2>3. PcOK'
    BY <1>5, <2>2 DEF Hand, PcOK
  <2> QED BY <1>5, <2>1, <2>3, Frame DEF Hand
<1>6. CASE Crash
  <2>1. ListenOK'
    BY <1>6, BoundsTyped DEF Crash, ListenOK
  <2>2. "lost" \in PcValue
    BY DEF PcValue
  <2>3. PcOK'
    BY <1>6, <2>2, SpendTyped DEF Crash, PcOK
  <2> QED BY <1>6, <2>1, <2>3, Frame DEF Crash
<1> QED BY <1>1, <1>2, <1>3, <1>4, <1>5, <1>6 DEF Listener

\* Only an accepted contest submission reaches the leaderboard statements.
Scoring == {"count", "tally", "credit", "mark"}
ScoresContests ==
    \A s \in Submission : pc[s] \in Scoring => ContestOf[KeyOf[s]] # NoContest

\* Each statement of a pool thread.
LEMMA WorkerTyped ==
    ASSUME TypeOK, ScoresContests, NEW j \in Job, Worker(j)
    PROVE  TypeOK'
<1> USE DEF TypeOK
<1>0. {"announce", "fetch", "grade", "record", "count", "tally", "credit",
       "mark", "reply", "save", "alarm", "release", "done"} \subseteq PcValue
  BY DEF PcValue, ThreadStep
<1>1. CASE j \in Submission /\ Begin(j)
  <2>1. PcOK'  BY <1>0, <1>1, MoveTyped DEF Begin
  <2>2. RowOK' BY <1>1, SetRowTyped, Frame DEF Begin
  <2> QED BY <1>1, <2>1, <2>2, Frame DEF Begin
<1>2. CASE j \in Submission /\ Fetch(j)
  <2>1. PcOK'  BY <1>0, <1>2, MoveTyped DEF Fetch
  <2>2. "SE" \in Verdict BY DEF Verdict
  <2>3. RowOK' BY <1>2, <2>2, SetRowTyped, Frame DEF Fetch
  <2> QED BY <1>2, <2>1, <2>3, Frame DEF Fetch
<1>3. CASE j \in Submission /\ Record(j)
  <2>1. PcOK'  BY <1>0, <1>3, MoveTyped DEF Record
  <2>2. verdict[j] \in Verdict BY DEF LocalOK
  <2>3. RowOK' BY <1>3, <2>2, SetRowTyped, Frame DEF Record
  <2> QED BY <1>3, <2>1, <2>3, Frame DEF Record
<1>4. CASE j \in Submission /\ Count(j)
  <2>1. PcOK'  BY <1>0, <1>4, MoveTyped DEF Count
  <2> QED BY <1>4, <2>1, Frame DEF Count
<1>5. CASE j \in Submission /\ Tally(j)
  <2>1. PcOK'  BY <1>0, <1>5, MoveTyped DEF Tally
  <2>2. LocalOK' BY <1>5, EarlierFailedCount DEF Tally, LocalOK
  <2> QED BY <1>5, <2>1, <2>2, Frame DEF Tally
<1>6. CASE j \in Submission /\ Credit(j)
  <2>1. PcOK'  BY <1>0, <1>6, MoveTyped DEF Credit
  <2>2. /\ KeyOf[j] \in Key /\ fails[j] \in Nat /\ submittedAt[j] \in Nat
    BY <1>6, KeysTyped DEF LocalOK, ApiOK
  <2>3. ASSUME AddCredit(j)
        PROVE  score' \in [Key -> [solves : Nat, penalty : Nat]]
    <3>1. score[KeyOf[j]] \in [solves : Nat, penalty : Nat]
      BY <2>2 DEF BoardOK
    <3> QED BY <2>2, <2>3, <3>1 DEF AddCredit, BoardOK
  <2>4. BoardOK' BY <1>6, <2>3 DEF Credit, BoardOK
  <2> QED BY <1>6, <2>1, <2>4, Frame DEF Credit
<1>7. CASE j \in Submission /\ Mark(j)
  <2>1. PcOK'  BY <1>0, <1>7, MoveTyped DEF Mark
  <2>2. ContestOf[KeyOf[j]] \in Contest
    BY <1>7, KeysTyped DEF ScoresContests, Scoring, Mark
  <2>3. BoardOK' BY <1>7, <2>2 DEF Mark, BoardOK
  <2> QED BY <1>7, <2>1, <2>3, Frame DEF Mark
<1>8. CASE j \in Run /\ Save(j)
  <2>1. PcOK'  BY <1>0, <1>8, MoveTyped DEF Save
  <2>2. ResultOK' BY <1>8 DEF Save, ResultOK, LocalOK
  <2> QED BY <1>8, <2>1, <2>2, Frame DEF Save
<1>9. CASE j \in Audit /\ RunAudit(j)
  <2>1. PcOK'  BY <1>0, <1>9, MoveTyped DEF RunAudit
  <2> QED BY <1>9, <2>1, Frame DEF RunAudit
<1>10. CASE Announce(j)
  <2>1. PcOK'  BY <1>0, <1>10, MoveTyped DEF Announce
  <2> QED BY <1>10, <2>1, Frame DEF Announce
<1>11. CASE Grade(j)
  <2>1. PcOK'  BY <1>0, <1>11, MoveTyped DEF Grade
  <2>2. LocalOK' BY <1>11, OutcomesTyped DEF Grade, LocalOK
  <2> QED BY <1>11, <2>1, <2>2, Frame DEF Grade
<1>12. CASE Reply(j)
  <2>1. PcOK'  BY <1>0, <1>12, MoveTyped DEF Reply
  <2>2. verdict[j] \in Verdict BY DEF LocalOK
  <2>3. StreamOK' BY <1>12, <2>2, PublishTyped, Frame DEF Reply
  <2> QED BY <1>12, <2>1, <2>3, Frame DEF Reply
<1>13. CASE Rescue(j)
  <2>1. PcOK'  BY <1>0, <1>13, MoveTyped DEF Rescue
  <2>2. "SE" \in Verdict BY DEF Verdict
  <2>3. RowOK' BY <1>13, <2>2, SetRowTyped, Frame DEF Rescue
  <2>4. ResultOK' BY <1>13, <2>2 DEF Rescue, ResultOK
  <2> QED BY <1>13, <2>1, <2>3, <2>4, Frame DEF Rescue
<1>14. CASE Alarm(j)
  <2>1. PcOK'  BY <1>0, <1>14, MoveTyped DEF Alarm
  <2>2. "SE" \in Verdict BY DEF Verdict
  <2>3. StreamOK' BY <1>14, <2>2, PublishTyped, Frame DEF Alarm
  <2> QED BY <1>14, <2>1, <2>3, Frame DEF Alarm
<1>15. CASE Release(j)
  <2>1. PcOK'  BY <1>0, <1>15, MoveTyped DEF Release
  <2>2. ListenOK' BY <1>15 DEF Release, ListenOK
  <2> QED BY <1>15, <2>1, <2>2, Frame DEF Release
<1> QED BY <1>1, <1>2, <1>3, <1>4, <1>5, <1>6, <1>7, <1>8, <1>9, <1>10, <1>11,
           <1>12, <1>13, <1>14, <1>15 DEF Worker

LEMMA NextTyped == ASSUME TypeOK, ScoresContests, [Next]_vars PROVE TypeOK'
<1>1. CASE Next
  BY <1>1, ApiTyped, StoreTyped, ListenerTyped, WorkerTyped DEF Next
<1>2. CASE UNCHANGED vars
  BY <1>2, Frame DEF vars, TypeOK, apiVars, listenVars, localVars, boardVars
<1> QED BY <1>1, <1>2

\* How a step changes the statement of one job: not at all, or by the action
\* that owns the statement the job was at.
LEMMA PcSteps ==
    ASSUME TypeOK, Next, NEW s \in Submission, pc'[s] # pc[s]
    PROVE  \/ pc'[s] \in {"held", "lost", "begin", "done"}
           \/ Begin(s) \/ Fetch(s) \/ Record(s) \/ Count(s) \/ Tally(s)
           \/ Credit(s) \/ Mark(s) \/ Announce(s) \/ Grade(s) \/ Reply(s)
           \/ Rescue(s) \/ Alarm(s)
<1>0. s \in Job /\ DOMAIN pc = Job
  BY DEF Job, TypeOK, PcOK
<1>1. ASSUME NEW j \in Job, ApiStep(j) \/ Subscribe(j) PROVE pc' = pc
  BY <1>1 DEF ApiStep, PutSource, InsertRow, Enqueue, Subscribe
<1>2. ASSUME NEW r \in Run, ResultExpires(r) PROVE pc' = pc
  BY <1>2 DEF ResultExpires
<1>3. ASSUME NEW c \in Contest, DropContest(c) \/ NukeKeys(c) PROVE pc' = pc
  BY <1>3 DEF DropContest, NukeKeys
<1>4. CASE Listener
  <2>1. CASE Acquire \/ PopTimesOut
    BY <2>1 DEF Acquire, PopTimesOut
  <2>2. CASE Pop
    BY <2>2, <1>0 DEF Pop, TypeOK, PcOK
  <2>3. CASE PopFails
    BY <2>3, <1>0 DEF PopFails, TypeOK, PcOK
  <2>4. ASSUME NEW j \in Job, Hand(j) PROVE pc'[s] = "begin"
    BY <2>4, <1>0 DEF Hand, FirstStep, TypeOK, PcOK
  <2> QED BY <1>4, <2>1, <2>2, <2>3, <2>4 DEF Listener
<1>5. CASE Crash
  BY <1>5, <1>0 DEF Crash
<1>6. ASSUME NEW j \in Job, Worker(j), j # s PROVE pc'[s] = pc[s]
  BY <1>6, <1>0 DEF Worker, Proceeds, Raises, TypeOK, PcOK,
     Begin, Fetch, Record, Count, Tally, Credit, Mark, Save, RunAudit, Announce,
     Grade, Reply, Rescue, Alarm, Release
<1>7. CASE Worker(s)
  <2>1. ~(s \in Run) /\ ~(s \in Audit)
    BY JobsDisjoint
  <2>2. Release(s) => pc'[s] = "done"
    BY <1>0 DEF Release, Proceeds, TypeOK, PcOK
  <2> QED BY <1>7, <2>1, <2>2 DEF Worker
<1> QED BY <1>0, <1>1, <1>2, <1>3, <1>4, <1>5, <1>6, <1>7 DEF Next

LEMMA NextScoresContests ==
    ASSUME TypeOK, ScoresContests, [Next]_vars
    PROVE  ScoresContests'
<1> SUFFICES ASSUME NEW s \in Submission, pc'[s] \in Scoring, pc'[s] # pc[s]
             PROVE  ContestOf[KeyOf[s]] # NoContest
  BY DEF ScoresContests
<1>0. s \in Job /\ pc \in [Job -> PcValue]
  BY DEF Job, TypeOK, PcOK
<1>1. Next
  BY DEF vars
<1>2. CASE Begin(s) \/ Fetch(s) \/ Announce(s) \/ Grade(s)
  BY <1>0, <1>2 DEF Begin, Fetch, Announce, Grade, Proceeds, Raises, Scoring
<1>3. CASE Record(s)
  BY <1>0, <1>3 DEF Record, Proceeds, Raises, Scoring
<1>4. CASE Count(s) \/ Tally(s) \/ Credit(s) \/ Mark(s)
  BY <1>0, <1>4 DEF Count, Tally, Credit, Mark, ScoresContests, Scoring
<1>5. CASE Reply(s) \/ Rescue(s) \/ Alarm(s)
  BY <1>0, <1>5 DEF Reply, Rescue, Alarm, Proceeds, Raises, Scoring
<1> QED BY <1>1, <1>2, <1>3, <1>4, <1>5, PcSteps DEF Scoring

\* Every variable keeps its type, for every number of jobs, keys, contests and
\* workers, whatever failures are injected.
THEOREM TypeCorrect == Spec => [](TypeOK /\ ScoresContests)
<1>1. Init => TypeOK /\ ScoresContests
  BY InitTyped DEF Init, ScoresContests, Scoring, Job
<1>2. TypeOK /\ ScoresContests /\ [Next]_vars => (TypeOK /\ ScoresContests)'
  BY NextTyped, NextScoresContests
<1> QED BY <1>1, <1>2, PTL DEF Spec

-----------------------------------------------------------------------------
(* Conservation of permits *)

\* A job in the queue, or not pushed yet, is unknown to the worker, and is
\* queued at most once: popping it can only add a thread.
FreshQueue ==
    /\ \A i \in 1..Len(queue) :
         pc[queue[i]] = "none" /\ api[queue[i]] \in {"accepted", "failed"}
    /\ \A i, k \in 1..Len(queue) : queue[i] = queue[k] => i = k
    /\ \A j \in Job : api[j] \in {"idle", "stored", "inserted"} => pc[j] = "none"

PermitInv == TypeOK /\ ScoresContests /\ FreshQueue /\ PermitsConserved

LEMMA ThreadsFinite ==
    IsFiniteSet(Threads) /\ Cardinality(Threads) \in Nat
BY JobSets DEF Threads

\* A thread that starts, ends, or goes from statement to statement.
LEMMA ThreadCount ==
    ASSUME TypeOK, NEW j \in Job, NEW n \in PcValue,
           pc' = [pc EXCEPT ![j] = n]
    PROVE  /\ (pc[j] \in ThreadStep <=> n \in ThreadStep) =>
                Cardinality(Threads') = Cardinality(Threads)
           /\ pc[j] \notin ThreadStep /\ n \in ThreadStep =>
                Cardinality(Threads') = Cardinality(Threads) + 1
           /\ pc[j] \in ThreadStep /\ n \notin ThreadStep =>
                Cardinality(Threads') = Cardinality(Threads) - 1
<1>0. pc \in [Job -> PcValue]
  BY DEF TypeOK, PcOK
<1>1. IsFiniteSet(Threads) /\ Cardinality(Threads) \in Nat
  BY ThreadsFinite
<1>2. CASE pc[j] \in ThreadStep /\ n \in ThreadStep
  <2>1. Threads' = Threads
    BY <1>0, <1>2 DEF Threads
  <2> QED BY <1>1, <1>2, <2>1
<1>3. CASE pc[j] \notin ThreadStep /\ n \notin ThreadStep
  <2>1. Threads' = Threads
    BY <1>0, <1>3 DEF Threads
  <2> QED BY <1>1, <1>3, <2>1
<1>4. CASE pc[j] \notin ThreadStep /\ n \in ThreadStep
  <2>1. Threads' = Threads \cup {j} /\ j \notin Threads
    BY <1>0, <1>4 DEF Threads
  <2>2. Cardinality(Threads \cup {j}) = Cardinality(Threads) + 1
    BY <1>1, <2>1, FS_AddElement
  <2> QED BY <1>1, <1>4, <2>1, <2>2
<1>5. CASE pc[j] \in ThreadStep /\ n \notin ThreadStep
  <2>1. Threads' = Threads \ {j} /\ j \in Threads
    BY <1>0, <1>5 DEF Threads
  <2>2. Cardinality(Threads \ {j}) = Cardinality(Threads) - 1
    BY <1>1, <2>1, FS_RemoveElement
  <2> QED BY <1>1, <1>5, <2>1, <2>2
<1> QED BY <1>2, <1>3, <1>4, <1>5

\* The steps that touch neither the semaphore nor the set of threads.
LEMMA PermitFrame ==
    ASSUME PermitsConserved, UNCHANGED <<permits, listener>>,
           Cardinality(Threads') = Cardinality(Threads)
    PROVE  PermitsConserved'
BY DEF PermitsConserved

\* Statements other than the last one keep the job a thread.
LEMMA WorkerKeeps ==
    ASSUME TypeOK, NEW j \in Job, Worker(j)
    PROVE  /\ pc[j] \in ThreadStep
           /\ Release(j) \/ (/\ UNCHANGED <<permits, listener>>
                             /\ \E n \in ThreadStep : pc' = [pc EXCEPT ![j] = n])
           /\ UNCHANGED <<queue, api>>
<1>1. CASE j \in Submission /\ (Begin(j) \/ Fetch(j) \/ Record(j) \/ Count(j))
  BY <1>1 DEF Begin, Fetch, Record, Count, Proceeds, Raises, ThreadStep,
     listenVars, apiVars
<1>2. CASE j \in Submission /\ (Tally(j) \/ Credit(j) \/ Mark(j))
  BY <1>2 DEF Tally, Credit, Mark, Proceeds, Raises, ThreadStep, listenVars,
     apiVars
<1>3. CASE Save(j) \/ RunAudit(j) \/ Announce(j) \/ Grade(j)
  BY <1>3 DEF Save, RunAudit, Announce, Grade, Proceeds, Raises, ThreadStep,
     listenVars, apiVars
<1>4. CASE Reply(j) \/ Rescue(j) \/ Alarm(j)
  BY <1>4 DEF Reply, Rescue, Alarm, Proceeds, Raises, ThreadStep, listenVars,
     apiVars
<1>5. CASE Release(j)
  BY <1>5 DEF Release, ThreadStep, apiVars
<1> QED BY <1>1, <1>2, <1>3, <1>4, <1>5 DEF Worker

LEMMA NextPermits ==
    ASSUME PermitInv, Next
    PROVE  PermitsConserved'
<1>0. /\ permits \in Nat /\ pc \in [Job -> PcValue] /\ queue \in Seq(Job)
      /\ Cardinality(Threads) \in Nat
      /\ MaxWorkers \in Nat
  BY ThreadsFinite, BoundsTyped DEF PermitInv, TypeOK, ListenOK, PcOK
<1> USE DEF PermitInv
<1>1. ASSUME NEW j \in Job, ApiStep(j) \/ Subscribe(j) PROVE PermitsConserved'
  <2>1. UNCHANGED <<permits, listener, pc>>
    BY <1>1 DEF ApiStep, PutSource, InsertRow, Enqueue, Subscribe, listenVars
  <2> QED BY <2>1, PermitFrame DEF Threads
<1>2. ASSUME NEW j \in Job, Worker(j) PROVE PermitsConserved'
  <2>1. CASE Release(j)
    <3>1. "done" \in PcValue /\ "done" \notin ThreadStep
          /\ pc[j] \in ThreadStep /\ pc' = [pc EXCEPT ![j] = "done"]
      BY <2>1 DEF Release, Proceeds, PcValue, ThreadStep
    <3>2. Cardinality(Threads') = Cardinality(Threads) - 1
      BY <3>1, <1>0, ThreadCount
    <3> QED BY <2>1, <3>2, <1>0 DEF Release, PermitsConserved
  <2>2. CASE ~Release(j)
    <3>1. PICK n \in ThreadStep : pc' = [pc EXCEPT ![j] = n]
      BY <1>2, <2>2, WorkerKeeps
    <3>2. Cardinality(Threads') = Cardinality(Threads)
      BY <1>2, <3>1, <1>0, ThreadCount, WorkerKeeps DEF PcValue
    <3> QED BY <1>2, <2>2, <3>2, PermitFrame, WorkerKeeps
  <2> QED BY <2>1, <2>2
<1>3. ASSUME NEW r \in Run, ResultExpires(r) PROVE PermitsConserved'
  <2>1. UNCHANGED <<permits, listener, pc>>
    BY <1>3 DEF ResultExpires, listenVars
  <2> QED BY <2>1, PermitFrame DEF Threads
<1>4. ASSUME NEW c \in Contest, DropContest(c) \/ NukeKeys(c)
      PROVE  PermitsConserved'
  <2>1. UNCHANGED <<permits, listener, pc>>
    BY <1>4 DEF DropContest, NukeKeys, listenVars
  <2> QED BY <2>1, PermitFrame DEF Threads
<1>5. CASE Acquire \/ PopTimesOut
  <2>1. Threads' = Threads
    BY <1>5 DEF Acquire, PopTimesOut, Threads
  <2> QED BY <1>5, <2>1, <1>0 DEF Acquire, PopTimesOut, PermitsConserved
<1>6. CASE Pop \/ PopFails
  <2>1. CASE pc' = pc
    <3>1. Threads' = Threads
      BY <2>1 DEF Threads
    <3> QED BY <1>6, <3>1, <1>0 DEF Pop, PopFails, PermitsConserved
  <2>2. CASE pc' # pc
    <3>1. queue # <<>> /\ Head(queue) = queue[1] /\ 1 \in 1..Len(queue)
      BY <1>6, <2>2, <1>0 DEF Pop, PopFails
    <3>2. Head(queue) \in Job /\ pc[Head(queue)] = "none"
      BY <3>1, <1>0 DEF FreshQueue
    <3>3. PICK n \in {"held", "lost"} : pc' = [pc EXCEPT ![Head(queue)] = n]
      BY <1>6, <2>2 DEF Pop, PopFails
    <3>4. {"none", "held", "lost"} \cap ThreadStep = {} /\ n \in PcValue
      BY DEF ThreadStep, PcValue
    <3>5. Cardinality(Threads') = Cardinality(Threads)
      BY <3>2, <3>3, <3>4, <1>0, ThreadCount
    <3> QED BY <1>6, <3>5, <1>0 DEF Pop, PopFails, PermitsConserved
  <2> QED BY <2>1, <2>2
<1>7. ASSUME NEW j \in Job, Hand(j) PROVE PermitsConserved'
  <2>1. "held" \notin ThreadStep /\ FirstStep(j) \in ThreadStep \cap PcValue
    BY DEF FirstStep, ThreadStep, PcValue
  <2>2. Cardinality(Threads') = Cardinality(Threads) + 1
    BY <1>7, <2>1, <1>0, ThreadCount DEF Hand
  <2> QED BY <1>7, <2>2, <1>0 DEF Hand, PermitsConserved
<1>8. CASE Crash
  <2>1. "lost" \notin ThreadStep
    BY DEF ThreadStep
  <2>2. Threads' = {}
    BY <1>8, <2>1, <1>0 DEF Crash, Threads
  <2> QED BY <1>8, <2>2, <1>0, FS_EmptySet DEF Crash, PermitsConserved
<1> QED BY <1>1, <1>2, <1>3, <1>4, <1>5, <1>6, <1>7, <1>8 DEF Next, Listener

\* Popping the head keeps the rest of the queue fresh.
LEMMA PopKeepsFresh ==
    ASSUME TypeOK, FreshQueue, queue # <<>>, queue' = Tail(queue),
           NEW n \in {"held", "lost"}, pc' = [pc EXCEPT ![Head(queue)] = n],
           UNCHANGED api
    PROVE  FreshQueue'
<1>0. queue \in Seq(Job) /\ pc \in [Job -> PcValue]
  BY DEF TypeOK, ListenOK, PcOK
<1>1. /\ Len(queue) \in Nat \ {0} /\ Head(queue) = queue[1]
      /\ Len(queue') = Len(queue) - 1
      /\ \A i \in 1..Len(queue') : queue'[i] = queue[i + 1]
  BY <1>0
<1>2. /\ queue[1] \in Job /\ api[queue[1]] \in {"accepted", "failed"}
      /\ \A i \in 1..Len(queue') : queue'[i] # queue[1] /\ queue'[i] \in Job
  BY <1>0, <1>1 DEF FreshQueue
<1>3. \A i \in 1..Len(queue') :
        pc'[queue'[i]] = "none" /\ api'[queue'[i]] \in {"accepted", "failed"}
  BY <1>0, <1>1, <1>2 DEF FreshQueue
<1>4. \A i, k \in 1..Len(queue') : queue'[i] = queue'[k] => i = k
  BY <1>0, <1>1 DEF FreshQueue
<1>5. \A j \in Job : api'[j] \in {"idle", "stored", "inserted"} => pc'[j] = "none"
  BY <1>0, <1>1, <1>2 DEF FreshQueue
<1> QED BY <1>3, <1>4, <1>5 DEF FreshQueue

\* Pushing a job that was not accepted yet keeps the queue fresh.
LEMMA PushKeepsFresh ==
    ASSUME TypeOK, FreshQueue, NEW j \in Job,
           api[j] \in {"idle", "stored", "inserted"},
           NEW a \in {"accepted", "failed"}, api' = [api EXCEPT ![j] = a],
           queue' \in {queue, Append(queue, j)}, UNCHANGED pc
    PROVE  FreshQueue'
<1>0. queue \in Seq(Job) /\ api \in [Job -> {"idle", "stored", "inserted",
                                             "accepted", "failed"}]
  BY DEF TypeOK, ListenOK, ApiOK
<1>1. \A i \in 1..Len(queue) : queue[i] # j /\ queue[i] \in Job
  BY <1>0 DEF FreshQueue
<1>2. pc[j] = "none"
  BY DEF FreshQueue
<1>3. \A i \in Job : api'[i] \in {"idle", "stored", "inserted"} => pc'[i] = "none"
  BY <1>0 DEF FreshQueue
<1>4. CASE queue' = queue
  <2>1. \A i \in 1..Len(queue) : api'[queue[i]] \in {"accepted", "failed"}
    BY <1>0, <1>1 DEF FreshQueue
  <2> QED BY <1>3, <1>4, <2>1 DEF FreshQueue
<1>5. CASE queue' = Append(queue, j)
  <2>1. /\ Len(queue) \in Nat /\ Len(queue') = Len(queue) + 1
        /\ queue'[Len(queue')] = j
        /\ \A i \in 1..Len(queue) : queue'[i] = queue[i]
    BY <1>0, <1>5
  <2>2. \A i \in 1..Len(queue') : i = Len(queue') \/ i \in 1..Len(queue)
    BY <2>1
  <2>3. \A i \in 1..Len(queue') :
          pc'[queue'[i]] = "none" /\ api'[queue'[i]] \in {"accepted", "failed"}
    BY <1>0, <1>1, <1>2, <2>1, <2>2 DEF FreshQueue
  <2>4. \A i, k \in 1..Len(queue') : queue'[i] = queue'[k] => i = k
    BY <1>1, <2>1, <2>2 DEF FreshQueue
  <2> QED BY <1>3, <2>3, <2>4 DEF FreshQueue
<1> QED BY <1>4, <1>5

LEMMA NextFresh ==
    ASSUME TypeOK, FreshQueue, Next
    PROVE  FreshQueue'
<1>0. /\ queue \in Seq(Job) /\ pc \in [Job -> PcValue]
      /\ api \in [Job -> {"idle", "stored", "inserted", "accepted", "failed"}]
      /\ \A i \in 1..Len(queue) : queue[i] \in Job
  BY DEF TypeOK, ListenOK, PcOK, ApiOK
<1>1. ASSUME UNCHANGED <<queue, api>>,
             \A j \in Job : pc[j] = "none" => pc'[j] = "none"
      PROVE  FreshQueue'
  BY <1>0, <1>1 DEF FreshQueue
<1>2. ASSUME NEW j \in Job, ApiStep(j) \/ Subscribe(j) PROVE FreshQueue'
  <2>1. CASE j \in Submission /\ PutSource(j)
    BY <2>1, <1>0 DEF PutSource, ApiGoes, FreshQueue, listenVars
  <2>2. CASE j \in Submission /\ InsertRow(j)
    BY <2>2, <1>0 DEF InsertRow, ApiGoes, FreshQueue, listenVars
  <2>3. CASE Enqueue(j)
    BY <2>3, PushKeepsFresh DEF Enqueue, ApiGoes
  <2>4. CASE Subscribe(j)
    BY <2>4, <1>1 DEF Subscribe, apiVars, listenVars
  <2> QED BY <1>2, <2>1, <2>2, <2>3, <2>4 DEF ApiStep
<1>3. ASSUME NEW j \in Job, Worker(j) PROVE FreshQueue'
  <2>1. pc[j] # "none"
    BY <1>3, WorkerKeeps DEF ThreadStep
  <2>2. \E n \in PcValue : pc' = [pc EXCEPT ![j] = n]
    BY <1>3, WorkerKeeps DEF Release, Proceeds, PcValue
  <2> QED BY <1>0, <1>1, <1>3, <2>1, <2>2, WorkerKeeps
<1>4. ASSUME NEW r \in Run, ResultExpires(r) PROVE FreshQueue'
  BY <1>1, <1>4 DEF ResultExpires, apiVars, listenVars
<1>5. ASSUME NEW c \in Contest, DropContest(c) \/ NukeKeys(c) PROVE FreshQueue'
  BY <1>1, <1>5 DEF DropContest, NukeKeys, apiVars, listenVars
<1>6. CASE Acquire \/ PopTimesOut
  BY <1>1, <1>6 DEF Acquire, PopTimesOut, apiVars
<1>7. CASE Pop
  BY <1>7, PopKeepsFresh DEF Pop, apiVars
<1>8. CASE PopFails
  BY <1>8, <1>1, PopKeepsFresh DEF PopFails, apiVars
<1>9. ASSUME NEW j \in Job, Hand(j) PROVE FreshQueue'
  BY <1>0, <1>1, <1>9 DEF Hand, apiVars
<1>10. CASE Crash
  BY <1>0, <1>1, <1>10 DEF Crash, apiVars, ThreadStep
<1> QED BY <1>2, <1>3, <1>4, <1>5, <1>6, <1>7, <1>8, <1>9, <1>10
        DEF Next, Listener

LEMMA InitPermits == Init => FreshQueue /\ PermitsConserved
<1> SUFFICES ASSUME Init PROVE FreshQueue /\ PermitsConserved
  OBVIOUS
<1>1. Threads = {}
  BY DEF Init, Threads, ThreadStep
<1>2. PermitsConserved
  BY <1>1, FS_EmptySet, BoundsTyped DEF Init, PermitsConserved
<1>3. FreshQueue
  BY DEF Init, FreshQueue
<1> QED BY <1>2, <1>3

LEMMA NextPermitInv == ASSUME PermitInv, [Next]_vars PROVE PermitInv'
<1>1. CASE Next
  BY <1>1, NextTyped, NextScoresContests, NextFresh, NextPermits DEF PermitInv
<1>2. CASE UNCHANGED vars
  <2>1. TypeOK' /\ ScoresContests'
    BY <1>2, NextTyped, NextScoresContests DEF PermitInv
  <2>2. UNCHANGED <<queue, pc, api, permits, listener>>
    BY <1>2 DEF vars
  <2>3. FreshQueue'
    BY <2>2 DEF PermitInv, FreshQueue
  <2>4. PermitsConserved'
    BY <2>2 DEF PermitInv, PermitsConserved, Threads
  <2> QED BY <2>1, <2>3, <2>4 DEF PermitInv
<1> QED BY <1>1, <1>2

\* The semaphore never leaks a permit and never has one too many: at every
\* point the permits left, the listener's and the running threads' add up to
\* MAX_WORKERS, through every failure path and restart.
THEOREM PermitsAreConserved == Spec => []PermitsConserved
<1>1. Init => PermitInv
  BY InitTyped, InitPermits DEF PermitInv, Init, ScoresContests, Scoring, Job
<1>2. PermitInv /\ [Next]_vars => PermitInv'
  BY NextPermitInv
<1>3. PermitInv => PermitsConserved
  BY DEF PermitInv
<1> QED BY <1>1, <1>2, <1>3, PTL DEF Spec

-----------------------------------------------------------------------------
(* Who writes rows, verdicts and streams *)

\* The row of a submission is written by its own handler and thread, and by
\* the deletion of its contest.
LEMMA RowWriters ==
    ASSUME TypeOK, Next, NEW s \in Submission, row'[s] # row[s]
    PROVE  \/ InsertRow(s) /\ Live(s) /\ row'[s] = "Pending"
           \/ row[s] # "none" /\ (Begin(s) \/ Fetch(s) \/ Record(s) \/ Rescue(s))
           \/ /\ \E c \in Contest : DropContest(c) /\ ContestOf[KeyOf[s]] = c
              /\ row'[s] = "none"
<1>0. row \in [Submission -> RowValue]
  BY DEF TypeOK, RowOK
<1>1. ASSUME NEW j \in Job, ApiStep(j) \/ Subscribe(j)
      PROVE  InsertRow(s) /\ Live(s) /\ row'[s] = "Pending"
  <2>1. j \in Submission /\ InsertRow(j)
    BY <1>1 DEF ApiStep, PutSource, Enqueue, Subscribe
  <2>2. Live(j) /\ row' = [row EXCEPT ![j] = "Pending"]
    BY <2>1 DEF InsertRow
  <2> QED BY <1>0, <2>1, <2>2
<1>2. ASSUME NEW j \in Job, Worker(j)
      PROVE  row[s] # "none" /\ (Begin(s) \/ Fetch(s) \/ Record(s) \/ Rescue(s))
  <2>1. /\ j \in Submission /\ (Begin(j) \/ Fetch(j) \/ Record(j) \/ Rescue(j))
        /\ \E v : SetRow(j, v)
    BY <1>2 DEF Worker, Begin, Fetch, Record, Count, Tally, Credit, Mark, Save, RunAudit,
                Announce, Grade, Reply, Rescue, Alarm, Release
  <2> QED BY <1>0, <2>1 DEF SetRow
<1>3. ASSUME NEW c \in Contest, DropContest(c) \/ NukeKeys(c)
      PROVE  DropContest(c) /\ ContestOf[KeyOf[s]] = c /\ row'[s] = "none"
  BY <1>3 DEF DropContest, NukeKeys
<1>4. ~Listener /\ ~Crash /\ ~\E r \in Run : ResultExpires(r)
  BY DEF Listener, Acquire, Pop, PopTimesOut, PopFails, Hand, Crash, ResultExpires
<1> QED BY <1>1, <1>2, <1>3, <1>4 DEF Next

\* What is told comes from the thread: its verdict, or SE.
LEMMA StreamWriters ==
    ASSUME TypeOK, Next, NEW s \in Submission, stream'[s] # stream[s],
           stream'[s] \in Verdict \ {"SE"}
    PROVE  pc[s] = "reply" /\ stream'[s] = verdict[s]
<1>0. stream \in [Job -> {"off", "open"} \cup Verdict] /\ s \in Job
  BY DEF TypeOK, StreamOK, Job
<1>1. ASSUME NEW j \in Job, Worker(j) PROVE pc[s] = "reply" /\ stream'[s] = verdict[s]
  <2>1. Reply(j) \/ Alarm(j)
    BY <1>1 DEF Worker, Begin, Fetch, Record, Count, Tally, Credit, Mark, Save, RunAudit,
                Announce, Grade, Rescue, Release
  <2>2. CASE Alarm(j)
    BY <1>0, <2>2 DEF Alarm, Publish
  <2>3. CASE Reply(j)
    BY <1>0, <2>3 DEF Reply, Publish
  <2> QED BY <2>1, <2>2, <2>3
<1>2. ASSUME NEW j \in Job, ApiStep(j) \/ Subscribe(j) PROVE FALSE
  BY <1>0, <1>2 DEF ApiStep, PutSource, InsertRow, Enqueue, Subscribe, Verdict
<1>3. ASSUME NEW c \in Contest, DropContest(c) \/ NukeKeys(c) PROVE FALSE
  BY <1>3 DEF DropContest, NukeKeys
<1>4. ~Listener /\ ~Crash /\ ~\E r \in Run : ResultExpires(r)
  BY DEF Listener, Acquire, Pop, PopTimesOut, PopFails, Hand, Crash, ResultExpires
<1> QED BY <1>1, <1>2, <1>3, <1>4 DEF Next

\* A thread takes a verdict from the grader and nowhere else.
LEMMA VerdictWriters ==
    ASSUME TypeOK, Next, NEW s \in Submission, verdict'[s] # verdict[s]
    PROVE  Grade(s)
<1>0. verdict \in [Job -> Verdict] /\ s \in Job
  BY DEF TypeOK, LocalOK, Job
<1>1. ASSUME NEW j \in Job, Worker(j) PROVE Grade(s)
  <2>1. Grade(j)
    BY <1>1 DEF Worker, Begin, Fetch, Record, Count, Tally, Credit, Mark, Save, RunAudit,
                Announce, Reply, Alarm, Rescue, Release, localVars
  <2> QED BY <1>0, <2>1 DEF Grade
<1>2. ASSUME NEW j \in Job, ApiStep(j) \/ Subscribe(j) PROVE FALSE
  BY <1>2 DEF ApiStep, PutSource, InsertRow, Enqueue, Subscribe, localVars
<1>3. ASSUME NEW c \in Contest, DropContest(c) \/ NukeKeys(c) PROVE FALSE
  BY <1>3 DEF DropContest, NukeKeys, localVars
<1>4. ~Listener /\ ~Crash /\ ~\E r \in Run : ResultExpires(r)
  BY DEF Listener, Acquire, Pop, PopTimesOut, PopFails, Hand, Crash, ResultExpires, localVars
<1> QED BY <1>1, <1>2, <1>3, <1>4 DEF Next

\* A contest that is not live was not, or is deleted by this step.
LEMMA ContestSteps ==
    ASSUME TypeOK, Next, NEW c \in Contest, contest'[c] # "live"
    PROVE  contest[c] # "live" \/ DropContest(c)
<1>1. ASSUME NEW j \in Job, Worker(j) \/ ApiStep(j) \/ Subscribe(j) PROVE UNCHANGED contest
  BY <1>1 DEF Worker, Begin, Fetch, Record, Count, Tally, Credit, Mark, Save, RunAudit,
              Announce, Grade, Reply, Alarm, Rescue, Release, ApiStep, PutSource, InsertRow,
              Enqueue, Subscribe, boardVars
<1>2. ASSUME NEW d \in Contest, DropContest(d) \/ NukeKeys(d)
      PROVE  contest[c] # "live" \/ DropContest(c)
  BY <1>2 DEF DropContest, NukeKeys, TypeOK, BoardOK
<1>3. Listener \/ Crash \/ (\E r \in Run : ResultExpires(r)) => UNCHANGED contest
  BY DEF Listener, Acquire, Pop, PopTimesOut, PopFails, Hand, Crash, ResultExpires, boardVars
<1> QED BY <1>1, <1>2, <1>3 DEF Next

-----------------------------------------------------------------------------
(* Rows of a deleted contest; verdicts that are told *)

LEMMA NextDropped ==
    ASSUME TypeOK, DroppedStaysEmpty, [Next]_vars
    PROVE  DroppedStaysEmpty'
<1> SUFFICES ASSUME NEW s \in Submission, NEW c, c = ContestOf[KeyOf[s]],
                    c # NoContest, contest'[c] # "live"
             PROVE  row'[s] = "none"
  BY DEF DroppedStaysEmpty
<1>0. c \in Contest /\ row \in [Submission -> RowValue]
  BY KeysTyped DEF TypeOK, RowOK
<1>1. CASE UNCHANGED vars
  BY <1>1 DEF vars, DroppedStaysEmpty
<1>2. CASE Next /\ DropContest(c)
  BY <1>0, <1>2 DEF DropContest
<1>3. CASE Next /\ contest[c] # "live"
  <2>1. row[s] = "none" /\ ~Live(s)
    BY <1>3 DEF DroppedStaysEmpty, Live
  <2> QED BY <1>3, <2>1, RowWriters
<1> QED BY <1>0, <1>1, <1>2, <1>3, ContestSteps

\* A submission deleted with its contest stays deleted, whatever a handler or a
\* thread that still holds it does, whatever fails.
THEOREM DroppedForGood == Spec => []DroppedStaysEmpty
<1>1. Init => DroppedStaysEmpty
  BY DEF Init, DroppedStaysEmpty
<1>2. TypeOK /\ DroppedStaysEmpty /\ [Next]_vars => DroppedStaysEmpty'
  BY NextDropped
<1> QED BY <1>1, <1>2, TypeCorrect, PTL DEF Spec

\* A thread past the UPDATE of its verdict has it in the row, or no row.
Recorded ==
    \A s \in Submission :
        pc[s] \in Scoring \cup {"reply"} => row[s] \in {verdict[s], "none"}

LEMMA NextRecorded ==
    ASSUME PermitInv, Recorded, [Next]_vars
    PROVE  Recorded'
<1> SUFFICES ASSUME NEW s \in Submission, pc'[s] \in Scoring \cup {"reply"}
             PROVE  row'[s] \in {verdict'[s], "none"}
  BY DEF Recorded
<1>0. /\ TypeOK /\ s \in Job /\ pc \in [Job -> PcValue]
      /\ row \in [Submission -> RowValue]
  BY DEF PermitInv, TypeOK, PcOK, RowOK, Job
<1>1. CASE UNCHANGED vars
  BY <1>1 DEF vars, Recorded
<1>2. CASE Next /\ pc'[s] = pc[s]
  <2>1. verdict'[s] = verdict[s]
    BY <1>0, <1>2, VerdictWriters DEF Grade, Proceeds, Scoring
  <2>2. row'[s] = row[s] \/ row'[s] = "none"
    <3>1. InsertRow(s) => pc[s] = "none"
      BY DEF InsertRow, PermitInv, FreshQueue, Job
    <3>2. ~Begin(s) /\ ~Fetch(s) /\ ~Record(s) /\ ~Rescue(s)
      BY <1>2 DEF Begin, Fetch, Record, Rescue, Scoring
    <3> QED BY <1>0, <1>2, <3>1, <3>2, RowWriters DEF Scoring
  <2> QED BY <1>2, <2>1, <2>2 DEF Recorded
<1>3. CASE Next /\ pc'[s] # pc[s]
  <2>1. Record(s) \/ Count(s) \/ Tally(s) \/ Credit(s) \/ Mark(s)
    <3>1. ~Begin(s) /\ ~Fetch(s) /\ ~Announce(s) /\ ~Grade(s) /\ ~Reply(s) /\ ~Rescue(s)
          /\ ~Alarm(s)
      BY <1>0, <1>3 DEF Begin, Fetch, Announce, Grade, Reply, Rescue, Alarm, Proceeds,
                        Raises, Scoring
    <3> QED BY <1>0, <1>3, <3>1, PcSteps DEF Scoring
  <2>2. CASE Record(s)
    <3>1. SetRow(s, verdict[s]) /\ UNCHANGED verdict
      BY <1>0, <1>3, <2>2 DEF Record, Raises, Scoring, localVars
    <3> QED BY <1>0, <3>1 DEF SetRow
  <2>3. CASE Count(s) \/ Tally(s) \/ Credit(s) \/ Mark(s)
    <3>1. pc[s] \in Scoring /\ UNCHANGED <<row, verdict>>
      BY <2>3 DEF Count, Tally, Credit, Mark, Scoring, localVars
    <3> QED BY <3>1 DEF Recorded
  <2> QED BY <2>1, <2>2, <2>3
<1> QED BY <1>1, <1>2, <1>3

\* What the student is told over the stream is in the database already, or its
\* row was deleted, whatever fails in between.
THEOREM ToldIsRecorded == Spec => RecordedBeforeTold
<1>1. Init => PermitInv /\ Recorded
  BY InitTyped, InitPermits
     DEF PermitInv, Init, ScoresContests, Scoring, Recorded, Job
<1>2. PermitInv /\ Recorded /\ [Next]_vars => PermitInv' /\ Recorded'
  BY NextPermitInv, NextRecorded
<1>3. PermitInv /\ Recorded /\ [Next]_vars =>
        [\A s \in Submission :
           stream'[s] # stream[s] /\ stream'[s] \in Verdict \ {"SE"}
             => row[s] \in {stream'[s], "none"}]_vars
  BY StreamWriters DEF PermitInv, Recorded
<1> QED BY <1>1, <1>2, <1>3, PTL DEF Spec, RecordedBeforeTold

=============================================================================
