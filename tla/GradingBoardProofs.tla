-------------------------- MODULE GradingBoardProofs --------------------------
(****************************************************************************)
(* The leaderboard of Grading: a key is credited at most once, however many *)
(* threads grade its submissions at the same time, with database and S3     *)
(* failures and worker crashes, as long as Redis does not fail under a      *)
(* thread and no contest is deleted.  Either exception is real: see the     *)
(* README for the behaviours.  Nor is a key overcharged then; and while     *)
(* nothing but the store of the sources and the worker as a whole fails,    *)
(* Grading implements Judge.                                                *)
(****************************************************************************)
EXTENDS GradingProofs

\* A submission the worker may ever hold has a row.
HasRow ==
    /\ \A i \in 1..Len(queue) : queue[i] \in Submission => row[queue[i]] # "none"
    /\ \A s \in Submission :
         api[s] = "inserted" \/ pc[s] # "none" => row[s] # "none"

\* Statements of a thread that may still credit its key ...
Claiming == {"tally", "credit"}
\* ... and of one that may have done so.
Credited == {"mark", "reply", "release", "done", "lost"}

\* A thread that counts is already visible as accepted to the others, so of
\* two threads of a key the one that counts last gives way.
AcceptedFirst ==
    \A s \in Submission : pc[s] \in Claiming \cup {"count"} => row[s] = "AC"
ClaimsAlone ==
    \A s \in Submission : pc[s] \in Claiming =>
        /\ score[KeyOf[s]].solves = 0
        /\ \A t \in Submission : KeyOf[t] = KeyOf[s] /\ pc[t] \in Claiming => t = s
SolvedOnce ==
    \A k \in Key : score[k].solves # 0 =>
        /\ score[k].solves = 1
        /\ \E s \in Submission :
             KeyOf[s] = k /\ row[s] = "AC" /\ pc[s] \in Credited

AllLive == \A c \in Contest : contest[c] = "live"

BoardInv == PermitInv /\ AllLive /\ HasRow /\ AcceptedFirst /\ ClaimsAlone /\ SolvedOnce

Quiet == Faults \cap {"redis", "delete"} = {}

LEMMA BoardFacts ==
    ASSUME BoardInv
    PROVE  /\ row \in [Submission -> RowValue] /\ pc \in [Job -> PcValue]
           /\ Submission \subseteq Job
           /\ api \in [Job -> {"idle", "stored", "inserted", "accepted", "failed"}]
           /\ queue \in Seq(Job) /\ KeyOf \in [Submission -> Key]
           /\ score \in [Key -> [solves : Nat, penalty : Nat]]
BY KeysTyped DEF BoardInv, PermitInv, TypeOK, RowOK, PcOK, ApiOK, ListenOK,
   BoardOK, Job

-----------------------------------------------------------------------------
(* Which steps write a row, a score or the pc of a credited submission *)

\* A row that exists changes only under its own thread, and never once that
\* thread counts, claims or has credited.
LEMMA RowSteps ==
    ASSUME BoardInv, Quiet, Next, NEW s \in Submission, row[s] # "none"
    PROVE  /\ row'[s] # "none"
           /\ pc[s] \in Claiming \cup Credited \cup {"count"} => row'[s] = row[s]
<1>0. row \in [Submission -> RowValue] /\ Submission \subseteq Job
  BY BoardFacts
<1>1. ASSUME NEW j \in Job, ApiStep(j) \/ Subscribe(j)
      PROVE  row'[s] # "none"
             /\ (pc[s] \in Claiming \cup Credited \cup {"count"} => row'[s] = row[s])
  <2>1. CASE j \in Submission /\ InsertRow(j)
    <3>1. pc[j] = "none"
      BY <2>1 DEF InsertRow, BoardInv, PermitInv, FreshQueue
    <3> QED BY <2>1, <3>1, <1>0 DEF InsertRow, Claiming, Credited
  <2>2. CASE j \in Submission /\ PutSource(j)
    BY <2>2 DEF PutSource
  <2>3. CASE Enqueue(j) \/ Subscribe(j)
    BY <2>3 DEF Enqueue, Subscribe
  <2> QED BY <1>1, <2>1, <2>2, <2>3 DEF ApiStep
<1>2. ASSUME NEW j \in Job, Worker(j)
      PROVE  row'[s] # "none"
             /\ (pc[s] \in Claiming \cup Credited \cup {"count"} => row'[s] = row[s])
  <2>1. CASE j \in Submission /\ (Begin(j) \/ Fetch(j))
    BY <2>1, <1>0 DEF Begin, Fetch, SetRow, Claiming, Credited
  <2>2. CASE j \in Submission /\ Record(j)
    <3>1. verdict[j] # "none"
      BY <2>2 DEF BoardInv, PermitInv, TypeOK, LocalOK, Verdict
    <3> QED BY <2>2, <3>1, <1>0 DEF Record, SetRow, Claiming, Credited
  <2>3. CASE Rescue(j)
    BY <2>3, <1>0, JobsDisjoint DEF Rescue, SetRow, Claiming, Credited
  <2>4. CASE \/ j \in Submission /\ (Count(j) \/ Tally(j) \/ Credit(j) \/ Mark(j))
             \/ Save(j) \/ RunAudit(j) \/ Announce(j) \/ Grade(j) \/ Reply(j)
             \/ Alarm(j) \/ Release(j)
    BY <2>4 DEF Count, Tally, Credit, Mark, Save, RunAudit, Announce, Grade,
       Reply, Alarm, Release
  <2> QED BY <1>2, <2>1, <2>2, <2>3, <2>4 DEF Worker
<1>3. ASSUME NEW c \in Contest, DropContest(c) PROVE FALSE
  BY <1>3 DEF DropContest, Spend, Quiet
<1>4. CASE (\E r \in Run : ResultExpires(r)) \/ (\E c \in Contest : NukeKeys(c))
  BY <1>4 DEF ResultExpires, NukeKeys
<1>5. CASE Listener \/ Crash
  BY <1>5 DEF Listener, Acquire, Pop, PopTimesOut, PopFails, Hand, Crash
<1> QED BY <1>1, <1>2, <1>3, <1>4, <1>5 DEF Next

\* A thread that may have credited its key stays one.
LEMMA CreditedStays ==
    ASSUME BoardInv, Quiet, Next, NEW s \in Submission, pc[s] \in Credited
    PROVE  pc'[s] \in Credited
<1>0. pc \in [Job -> PcValue] /\ s \in Job /\ queue \in Seq(Job)
  BY BoardFacts
<1> SUFFICES ASSUME pc'[s] # pc[s] PROVE pc'[s] \in Credited
  OBVIOUS
<1>1. CASE Mark(s) \/ Reply(s)
  BY <1>0, <1>1 DEF Mark, Reply, Proceeds, Raises, Spend, Quiet, Credited
<1>2. ~ \/ Begin(s) \/ Fetch(s) \/ Record(s) \/ Count(s) \/ Tally(s)
        \/ Credit(s) \/ Announce(s) \/ Grade(s) \/ Rescue(s) \/ Alarm(s)
  BY DEF Begin, Fetch, Record, Count, Tally, Credit, Announce, Grade, Rescue,
     Alarm, Credited
<1>3. CASE pc'[s] \in {"held", "begin"}
  <2>1. CASE Pop \/ PopFails
    <3>1. queue # <<>> /\ pc' # pc => Head(queue) = queue[1] /\ 1 \in 1..Len(queue)
      BY <1>0
    <3>2. queue # <<>> => pc[Head(queue)] = "none"
      BY <1>0, <3>1 DEF BoardInv, PermitInv, FreshQueue
    <3> QED BY <2>1, <3>2, <1>0 DEF Pop, PopFails, Credited
  <2>2. CASE \E j \in Job : Hand(j)
    BY <2>2, <1>0 DEF Hand, Credited
  <2>3. ASSUME NEW j \in Job, Worker(j) PROVE FALSE
    <3>1. \E n \in ThreadStep \cup {"done"} : pc' = [pc EXCEPT ![j] = n]
      BY <2>3, WorkerKeeps DEF BoardInv, PermitInv, Release, Proceeds
    <3> QED BY <2>3, <3>1, <1>0, <1>2, <1>3 DEF Worker, Mark, Reply, Release,
            Proceeds, Raises, Save, RunAudit, Begin, Fetch, Record, Count, Tally,
            Credit, Announce, Grade, Rescue, Alarm
  <2>4. CASE Acquire \/ PopTimesOut \/ Crash
    BY <2>4, <1>0, <1>3 DEF Acquire, PopTimesOut, Crash
  <2>5. ASSUME NEW j \in Job, ApiStep(j) \/ Subscribe(j) PROVE FALSE
    BY <2>5 DEF ApiStep, PutSource, InsertRow, Enqueue, Subscribe
  <2>6. CASE \/ \E r \in Run : ResultExpires(r)
             \/ \E c \in Contest : DropContest(c) \/ NukeKeys(c)
    BY <2>6 DEF ResultExpires, DropContest, NukeKeys
  <2> QED BY <2>1, <2>2, <2>3, <2>4, <2>5, <2>6 DEF Next, Listener
<1> QED BY <1>1, <1>2, <1>3, PcSteps DEF BoardInv, PermitInv, Credited

\* A leaderboard entry changes only by the credit of a claiming thread.
LEMMA ScoreSteps ==
    ASSUME BoardInv, Quiet, Next
    PROVE  \/ UNCHANGED score
           \/ \E s \in Submission :
                /\ pc[s] = "credit" /\ pc' = [pc EXCEPT ![s] = "mark"]
                /\ AddCredit(s)
<1>1. ASSUME NEW s \in Submission, Credit(s)
      PROVE  \/ UNCHANGED score
             \/ pc[s] = "credit" /\ pc' = [pc EXCEPT ![s] = "mark"] /\ AddCredit(s)
  BY <1>1 DEF Credit, Proceeds, Raises, Spend, Quiet
<1>2. ASSUME NEW j \in Job, Worker(j), ~(j \in Submission /\ Credit(j))
      PROVE  UNCHANGED score
  BY <1>2 DEF Worker, Begin, Fetch, Record, Count, Tally, Mark, Save, RunAudit,
     Announce, Grade, Reply, Rescue, Alarm, Release, boardVars
<1>3. ASSUME NEW j \in Job, ApiStep(j) \/ Subscribe(j) PROVE UNCHANGED score
  BY <1>3 DEF ApiStep, PutSource, InsertRow, Enqueue, Subscribe, boardVars
<1>4. CASE Listener \/ Crash
  BY <1>4 DEF Listener, Acquire, Pop, PopTimesOut, PopFails, Hand, Crash,
     boardVars
<1>5. CASE (\E r \in Run : ResultExpires(r)) \/ (\E c \in Contest : DropContest(c))
  BY <1>5 DEF ResultExpires, DropContest, boardVars
<1>6. ASSUME NEW c \in Contest, NukeKeys(c) PROVE FALSE
  BY <1>6 DEF NukeKeys, BoardInv, AllLive
<1> QED BY <1>1, <1>2, <1>3, <1>4, <1>5, <1>6 DEF Next

-----------------------------------------------------------------------------
(* The invariant is inductive *)

LEMMA NextAllLive ==
    ASSUME BoardInv, Quiet, Next
    PROVE  AllLive'
<1>1. ASSUME NEW c \in Contest, DropContest(c) \/ NukeKeys(c) PROVE FALSE
  BY <1>1 DEF DropContest, NukeKeys, Spend, Quiet, BoardInv, AllLive
<1>2. ASSUME NEW j \in Job, ApiStep(j) \/ Subscribe(j) PROVE UNCHANGED contest
  BY <1>2 DEF ApiStep, PutSource, InsertRow, Enqueue, Subscribe, boardVars
<1>3. ASSUME NEW j \in Job, Worker(j) PROVE UNCHANGED contest
  BY <1>3 DEF Worker, Begin, Fetch, Record, Count, Tally, Credit, Mark, Save,
     RunAudit, Announce, Grade, Reply, Rescue, Alarm, Release, boardVars
<1>4. CASE Listener \/ Crash \/ (\E r \in Run : ResultExpires(r))
  BY <1>4 DEF Listener, Acquire, Pop, PopTimesOut, PopFails, Hand, Crash,
     ResultExpires, boardVars, BoardInv, AllLive
<1> QED BY <1>1, <1>2, <1>3, <1>4 DEF Next, BoardInv, AllLive

LEMMA NextHasRow ==
    ASSUME BoardInv, Quiet, Next
    PROVE  HasRow'
<1>0. /\ Submission \subseteq Job /\ pc \in [Job -> PcValue]
      /\ queue \in Seq(Job)
      /\ api \in [Job -> {"idle", "stored", "inserted", "accepted", "failed"}]
      /\ row \in [Submission -> RowValue]
  BY BoardFacts
<1>1. \A s \in Submission : row[s] # "none" => row'[s] # "none"
  BY RowSteps
<1>2. ASSUME UNCHANGED <<queue, api>>,
             \A s \in Submission : pc[s] = "none" => pc'[s] = "none"
      PROVE  HasRow'
  BY <1>1, <1>2 DEF BoardInv, HasRow
<1>3. ASSUME NEW j \in Job, ApiStep(j) \/ Subscribe(j) PROVE HasRow'
  <2>1. CASE j \in Submission /\ PutSource(j)
    BY <2>1, <1>0 DEF PutSource, ApiGoes, BoardInv, HasRow, listenVars
  <2>2. CASE j \in Submission /\ InsertRow(j)
    <3>1. UNCHANGED <<queue, pc>>
      BY <2>2 DEF InsertRow, listenVars
    <3>2. \A s \in Submission : api'[s] = "inserted" => row'[s] # "none"
      BY <2>2, <1>0 DEF InsertRow, ApiGoes, BoardInv, HasRow
    <3> QED BY <1>1, <3>1, <3>2 DEF BoardInv, HasRow
  <2>3. CASE Enqueue(j)
    <3>1. UNCHANGED <<row, pc>> /\ queue' \in {queue, Append(queue, j)}
      BY <2>3 DEF Enqueue
    <3>2. j \in Submission => row[j] # "none"
      BY <2>3 DEF Enqueue, BoardInv, HasRow
    <3>3. \A i \in 1..Len(queue') :
            queue'[i] = j \/ (i \in 1..Len(queue) /\ queue'[i] = queue[i])
      BY <3>1, <1>0
    <3>4. \A s \in Submission : api'[s] = "inserted" => row'[s] # "none"
      BY <2>3, <1>0, <3>1 DEF Enqueue, ApiGoes, BoardInv, HasRow
    <3> QED BY <3>1, <3>2, <3>3, <3>4 DEF BoardInv, HasRow
  <2>4. CASE Subscribe(j)
    BY <2>4, <1>2 DEF Subscribe, apiVars, listenVars
  <2> QED BY <1>3, <2>1, <2>2, <2>3, <2>4 DEF ApiStep
<1>4. ASSUME NEW j \in Job, Worker(j) PROVE HasRow'
  <2>1. pc[j] # "none"
    BY <1>4, WorkerKeeps DEF ThreadStep, BoardInv, PermitInv
  <2>2. \E n \in PcValue : pc' = [pc EXCEPT ![j] = n]
    BY <1>4, WorkerKeeps DEF Release, Proceeds, PcValue, BoardInv, PermitInv
  <2> QED BY <1>0, <1>2, <1>4, <2>1, <2>2, WorkerKeeps DEF BoardInv, PermitInv
<1>5. CASE \E r \in Run : ResultExpires(r)
  BY <1>2, <1>5 DEF ResultExpires, apiVars, listenVars
<1>6. ASSUME NEW c \in Contest, DropContest(c) \/ NukeKeys(c) PROVE HasRow'
  BY <1>2, <1>6 DEF DropContest, NukeKeys, apiVars, listenVars
<1>7. CASE Acquire \/ PopTimesOut
  BY <1>2, <1>7 DEF Acquire, PopTimesOut, apiVars
<1>8. CASE Pop \/ PopFails
  <2>1. CASE UNCHANGED <<queue, pc>>
    BY <1>2, <1>8, <2>1 DEF Pop, PopFails, apiVars
  <2>2. CASE queue # <<>> /\ queue' = Tail(queue)
             /\ \E n \in {"held", "lost"} : pc' = [pc EXCEPT ![Head(queue)] = n]
    <3>1. /\ Head(queue) = queue[1] /\ 1 \in 1..Len(queue)
          /\ \A i \in 1..Len(queue') :
               i + 1 \in 1..Len(queue) /\ queue'[i] = queue[i + 1]
      BY <1>0, <2>2
    <3>2. UNCHANGED <<row, api>>
      BY <1>8 DEF Pop, PopFails, apiVars
    <3> QED BY <1>0, <2>2, <3>1, <3>2 DEF BoardInv, HasRow
  <2> QED BY <1>8, <2>1, <2>2 DEF Pop, PopFails
<1>9. ASSUME NEW j \in Job, Hand(j) PROVE HasRow'
  BY <1>0, <1>2, <1>9 DEF Hand, apiVars
<1>10. CASE Crash
  BY <1>0, <1>2, <1>10 DEF Crash, apiVars, ThreadStep
<1> QED BY <1>3, <1>4, <1>5, <1>6, <1>7, <1>8, <1>9, <1>10 DEF Next, Listener

\* A thread comes to count only by recording AC, and to claim only from there.
LEMMA ClaimSteps ==
    ASSUME BoardInv, Next, NEW s \in Submission,
           pc'[s] \in Claiming \cup {"count"}, pc'[s] # pc[s]
    PROVE  \/ pc'[s] = "count" /\ Record(s)
           \/ pc'[s] = "tally" /\ Count(s)
           \/ pc'[s] = "credit" /\ Tally(s)
<1>0. s \in Job /\ pc \in [Job -> PcValue]
  BY BoardFacts
<1>1. CASE Begin(s) \/ Fetch(s) \/ Announce(s) \/ Grade(s) \/ Reply(s)
           \/ Rescue(s) \/ Alarm(s)
  BY <1>0, <1>1 DEF Begin, Fetch, Announce, Grade, Reply, Rescue, Alarm,
     Proceeds, Raises, Claiming
<1>2. CASE Record(s)
  BY <1>0, <1>2 DEF Record, Proceeds, Raises, Claiming
<1>3. CASE Count(s)
  BY <1>0, <1>3 DEF Count, Proceeds, Raises, Claiming
<1>4. CASE Tally(s)
  BY <1>0, <1>4 DEF Tally, Proceeds, Raises, Claiming
<1>5. CASE Credit(s) \/ Mark(s)
  BY <1>0, <1>5 DEF Credit, Mark, Proceeds, Raises, Claiming
<1> QED BY <1>1, <1>2, <1>3, <1>4, <1>5, PcSteps DEF BoardInv, PermitInv, Claiming

LEMMA NextAcceptedFirst ==
    ASSUME BoardInv, Quiet, Next
    PROVE  AcceptedFirst'
<1> SUFFICES ASSUME NEW s \in Submission, pc'[s] \in Claiming \cup {"count"}
             PROVE  row'[s] = "AC"
  BY DEF AcceptedFirst
<1>0. s \in Job /\ pc \in [Job -> PcValue] /\ row \in [Submission -> RowValue]
  BY BoardFacts
<1>1. CASE pc'[s] = pc[s]
  BY <1>1, RowSteps DEF BoardInv, AcceptedFirst
<1>2. CASE pc'[s] = "count" /\ Record(s)
  <2>1. row[s] # "none"
    BY <1>2 DEF Record, BoardInv, HasRow
  <2>2. verdict[s] = "AC" /\ SetRow(s, verdict[s])
    BY <1>0, <1>2 DEF Record, Proceeds, Raises
  <2> QED BY <1>0, <2>1, <2>2 DEF SetRow
<1>3. CASE Count(s) \/ Tally(s)
  BY <1>3 DEF Count, Tally, BoardInv, AcceptedFirst, Claiming
<1> QED BY <1>1, <1>2, <1>3, ClaimSteps

LEMMA NextSolvedOnce ==
    ASSUME BoardInv, Quiet, Next
    PROVE  SolvedOnce'
<1> SUFFICES ASSUME NEW k \in Key, score'[k].solves # 0
             PROVE  /\ score'[k].solves = 1
                    /\ \E s \in Submission :
                         KeyOf[s] = k /\ row'[s] = "AC" /\ pc'[s] \in Credited
  BY DEF SolvedOnce
<1>0. /\ Submission \subseteq Job /\ pc \in [Job -> PcValue]
      /\ KeyOf \in [Submission -> Key]
      /\ score \in [Key -> [solves : Nat, penalty : Nat]]
  BY BoardFacts
<1>1. CASE score'[k] = score[k]
  <2>1. PICK s \in Submission :
          KeyOf[s] = k /\ row[s] = "AC" /\ pc[s] \in Credited
    BY <1>1 DEF BoardInv, SolvedOnce
  <2>2. row'[s] = "AC" /\ pc'[s] \in Credited
    BY <2>1, RowSteps, CreditedStays
  <2> QED BY <1>1, <2>1, <2>2 DEF BoardInv, SolvedOnce
<1>2. ASSUME NEW s \in Submission, pc[s] = "credit",
             pc' = [pc EXCEPT ![s] = "mark"], AddCredit(s), KeyOf[s] = k
      PROVE  /\ score'[k].solves = 1
             /\ row'[s] = "AC" /\ pc'[s] \in Credited
  <2>1. score[k].solves = 0 /\ row[s] = "AC"
    BY <1>2 DEF BoardInv, ClaimsAlone, AcceptedFirst, Claiming
  <2>2. row'[s] = "AC"
    BY <1>2, <2>1, RowSteps DEF Claiming
  <2>3. score'[k].solves = score[k].solves + 1
    BY <1>2, <1>0 DEF AddCredit
  <2> QED BY <1>0, <1>2, <2>1, <2>2, <2>3 DEF Credited
<1>3. CASE score'[k] # score[k]
  <2>1. PICK s \in Submission : /\ pc[s] = "credit"
                                /\ pc' = [pc EXCEPT ![s] = "mark"]
                                /\ AddCredit(s)
    BY <1>3, ScoreSteps
  <2>2. KeyOf[s] = k
    BY <1>0, <1>3, <2>1 DEF AddCredit
  <2> QED BY <1>2, <2>1, <2>2
<1> QED BY <1>1, <1>3

LEMMA NextClaimsAlone ==
    ASSUME BoardInv, Quiet, Next
    PROVE  ClaimsAlone'
<1> SUFFICES ASSUME NEW s \in Submission, pc'[s] \in Claiming
             PROVE  /\ score'[KeyOf[s]].solves = 0
                    /\ \A t \in Submission :
                         KeyOf[t] = KeyOf[s] /\ pc'[t] \in Claiming => t = s
  BY DEF ClaimsAlone
<1>0. /\ Submission \subseteq Job /\ pc \in [Job -> PcValue]
      /\ KeyOf \in [Submission -> Key]
      /\ score \in [Key -> [solves : Nat, penalty : Nat]]
  BY BoardFacts
\* A new claim finds no other accepted submission of its key.
<1>1. ASSUME NEW u \in Submission, Count(u), pc'[u] = "tally", pc'[u] # pc[u]
      PROVE  /\ score[KeyOf[u]].solves = 0
             /\ \A t \in Submission : KeyOf[t] = KeyOf[u] /\ pc[t] \in Claiming
                                        => FALSE
  <2>1. OtherAccepted(u) = {} /\ pc[u] = "count"
    BY <1>0, <1>1 DEF Count, Proceeds, Raises
  <2>2. ASSUME NEW t \in Submission, KeyOf[t] = KeyOf[u], pc[t] \in Claiming
        PROVE  FALSE
    <3>1. row[t] = "AC" /\ t # u
      BY <2>1, <2>2 DEF BoardInv, AcceptedFirst, Claiming
    <3> QED BY <2>1, <2>2, <3>1 DEF OtherAccepted
  <2>3. ASSUME score[KeyOf[u]].solves # 0 PROVE FALSE
    <3>1. PICK t \in Submission :
            KeyOf[t] = KeyOf[u] /\ row[t] = "AC" /\ pc[t] \in Credited
      BY <1>0, <2>3 DEF BoardInv, SolvedOnce
    <3>2. t # u
      BY <2>1, <3>1 DEF Credited
    <3> QED BY <2>1, <3>1, <3>2 DEF OtherAccepted
  <2> QED BY <2>2, <2>3
\* Every claim after the step is an old one or such a new one.
<1>2. \A u \in Submission : pc'[u] \in Claiming =>
        pc[u] \in Claiming \/ (Count(u) /\ pc'[u] = "tally" /\ pc'[u] # pc[u])
  BY ClaimSteps DEF Tally, Claiming
<1>3. score[KeyOf[s]].solves = 0
  BY <1>1, <1>2 DEF BoardInv, ClaimsAlone
<1>4. \A t \in Submission :
        KeyOf[t] = KeyOf[s] /\ pc'[t] \in Claiming => t = s
  <2> SUFFICES ASSUME NEW t \in Submission, KeyOf[t] = KeyOf[s],
                      pc'[t] \in Claiming, t # s
               PROVE  FALSE
    OBVIOUS
  <2>1. CASE pc[s] \in Claiming /\ pc[t] \in Claiming
    BY <2>1 DEF BoardInv, ClaimsAlone
  <2>2. CASE pc[s] \notin Claiming /\ pc[t] \in Claiming
    BY <1>1, <1>2, <2>2
  <2>3. CASE pc[s] \in Claiming /\ pc[t] \notin Claiming
    BY <1>1, <1>2, <2>3
  <2>4. CASE pc[s] \notin Claiming /\ pc[t] \notin Claiming
    <3>1. Count(s) /\ Count(t) /\ pc'[t] # pc[t] /\ pc'[s] # pc[s]
      BY <1>2, <2>4
    <3> QED BY <1>0, <3>1 DEF Count, Proceeds, Raises
  <2> QED BY <2>1, <2>2, <2>3, <2>4
<1>5. score'[KeyOf[s]] = score[KeyOf[s]]
  <2> SUFFICES ASSUME score'[KeyOf[s]] # score[KeyOf[s]] PROVE FALSE
    OBVIOUS
  <2>1. PICK u \in Submission : /\ pc[u] = "credit"
                                /\ pc' = [pc EXCEPT ![u] = "mark"]
                                /\ AddCredit(u)
    BY ScoreSteps
  <2>2. KeyOf[u] = KeyOf[s]
    BY <1>0, <2>1 DEF AddCredit
  <2>3. pc[s] \in Claiming /\ s # u
    BY <1>0, <2>1 DEF Claiming
  <2> QED BY <2>1, <2>2, <2>3 DEF BoardInv, ClaimsAlone, Claiming
<1> QED BY <1>3, <1>4, <1>5

LEMMA NextBoardInv == ASSUME BoardInv, Quiet, [Next]_vars PROVE BoardInv'
<1>1. CASE Next
  BY <1>1, NextPermitInv, NextAllLive, NextHasRow, NextAcceptedFirst,
     NextClaimsAlone, NextSolvedOnce DEF BoardInv
<1>2. CASE UNCHANGED vars
  <2>1. PermitInv'
    BY <1>2, NextPermitInv DEF BoardInv
  <2>2. UNCHANGED <<queue, api, pc, row, score, contest>>
    BY <1>2 DEF vars
  <2> QED BY <2>1, <2>2 DEF BoardInv, AllLive, HasRow, AcceptedFirst,
          ClaimsAlone, SolvedOnce
<1> QED BY <1>1, <1>2

LEMMA InitBoardInv == Init => BoardInv
<1> SUFFICES ASSUME Init PROVE BoardInv
  OBVIOUS
<1>1. PermitInv
  BY InitTyped, InitPermits DEF PermitInv, Init, ScoresContests, Scoring, Job
<1>2. AllLive /\ HasRow
  BY DEF Init, AllLive, HasRow, Job
<1>3. AcceptedFirst /\ ClaimsAlone
  BY DEF Init, AcceptedFirst, ClaimsAlone, Claiming, Job
<1>4. SolvedOnce
  BY DEF Init, SolvedOnce
<1> QED BY <1>1, <1>2, <1>3, <1>4 DEF BoardInv

-----------------------------------------------------------------------------
\* A user's problem counts at most once on the leaderboard, for any number of
\* submissions and threads, when neither Redis nor the deletion of a contest
\* interferes.
THEOREM AtMostOnce ==
    ASSUME Quiet
    PROVE  Spec => []AtMostOneSolve
<1>1. Init => BoardInv
  BY InitBoardInv
<1>2. BoardInv /\ [Next]_vars => BoardInv'
  BY NextBoardInv
<1>3. BoardInv => AtMostOneSolve
  <2> SUFFICES ASSUME BoardInv PROVE AtMostOneSolve
    OBVIOUS
  <2>1. \A k \in Key : score[k].solves \in Nat
    BY BoardFacts
  <2> QED BY <2>1 DEF BoardInv, SolvedOnce, AtMostOneSolve
<1> QED BY <1>1, <1>2, <1>3, PTL DEF Spec

\* Under the same condition a solve on the leaderboard always has an accepted
\* row behind it.
THEOREM BackedByAccepted ==
    ASSUME Quiet
    PROVE  Spec => []SolveIsBacked
<1>1. Init => BoardInv
  BY InitBoardInv
<1>2. BoardInv /\ [Next]_vars => BoardInv'
  BY NextBoardInv
<1>3. BoardInv => SolveIsBacked
  <2> SUFFICES ASSUME BoardInv PROVE SolveIsBacked
    OBVIOUS
  <2>1. \A k \in Key : score[k].solves \in Nat
    BY BoardFacts
  <2> QED BY <2>1 DEF BoardInv, SolvedOnce, SolveIsBacked
<1> QED BY <1>1, <1>2, <1>3, PTL DEF Spec

-----------------------------------------------------------------------------
(* The penalty *)

\* A failure is final: no statement to come makes it anything but a failure.
Settling == {"reply", "rescue", "alarm", "release", "done", "lost"}
FailureStays ==
    \A s \in Submission : row[s] \in Failing => pc[s] \in Settling

\* The failures that are charged were there to be charged.
ChargeFair ==
    \A s \in Submission :
        pc[s] = "credit" => fails[s] <= Cardinality(EarlierFailed(s))
PenaltyFair ==
    \A k \in Key :
        /\ score[k].solves = 0 => score[k].penalty = 0
        /\ score[k].solves # 0 =>
             \E s \in Submission :
               /\ KeyOf[s] = k /\ row[s] = "AC" /\ pc[s] \in Credited
               /\ score[k].penalty
                    <= submittedAt[s] + 20 * Cardinality(EarlierFailed(s))

ChargeInv == BoardInv /\ FailureStays /\ ChargeFair /\ PenaltyFair

\* The submission time is set with the row.
LEMMA TimeSteps ==
    ASSUME BoardInv, Next, NEW s \in Submission, pc[s] # "none"
    PROVE  submittedAt'[s] = submittedAt[s]
<1>0. /\ submittedAt \in [Submission -> Nat] /\ Submission \subseteq Job
  BY DEF BoardInv, PermitInv, TypeOK, ApiOK, Job
<1>1. ASSUME NEW j \in Job, ApiStep(j) \/ Subscribe(j) PROVE submittedAt'[s] = submittedAt[s]
  <2>1. CASE j \in Submission /\ InsertRow(j)
    <3>1. pc[j] = "none"
      BY <2>1 DEF InsertRow, BoardInv, PermitInv, FreshQueue
    <3> QED BY <1>0, <2>1, <3>1 DEF InsertRow
  <2> QED BY <1>1, <2>1 DEF ApiStep, PutSource, Enqueue, Subscribe, apiVars
<1>2. ASSUME NEW j \in Job, Worker(j) PROVE UNCHANGED submittedAt
  BY <1>2 DEF Worker, Begin, Fetch, Record, Count, Tally, Credit, Mark, Save, RunAudit,
              Announce, Grade, Reply, Alarm, Rescue, Release, apiVars
<1>3. ASSUME NEW c \in Contest, DropContest(c) \/ NukeKeys(c) PROVE UNCHANGED submittedAt
  BY <1>3 DEF DropContest, NukeKeys, apiVars
<1>4. Listener \/ Crash \/ (\E r \in Run : ResultExpires(r)) => UNCHANGED submittedAt
  BY DEF Listener, Acquire, Pop, PopTimesOut, PopFails, Hand, Crash, ResultExpires, apiVars
<1> QED BY <1>1, <1>2, <1>3, <1>4 DEF Next

LEMMA FailingRows == \A v \in Failing : v # "none" /\ v # "AC" /\ v # "Pending" /\ v # "Running"
BY DEF Failing, Verdict

\* A row that has failed goes on failing.
LEMMA FailureSteps ==
    ASSUME ChargeInv, Quiet, Next, NEW s \in Submission, row[s] \in Failing
    PROVE  row'[s] \in Failing /\ pc[s] \in Settling /\ pc[s] # "none"
<1>0. /\ TypeOK /\ row \in [Submission -> RowValue] /\ row[s] # "none"
  BY FailingRows, BoardFacts DEF ChargeInv, BoardInv, PermitInv
<1>1. pc[s] \in Settling /\ pc[s] # "none"
  BY DEF ChargeInv, FailureStays, Settling
<1>2. InsertRow(s) => pc[s] = "none"
  BY DEF InsertRow, ChargeInv, BoardInv, PermitInv, FreshQueue, Job
<1>3. ~Begin(s) /\ ~Fetch(s) /\ ~Record(s)
  BY <1>1 DEF Begin, Fetch, Record, Settling
<1>4. ~\E c \in Contest : DropContest(c)
  BY DEF DropContest, Spend, Quiet
<1>5. CASE row'[s] # row[s]
  <2>1. Rescue(s)
    BY <1>0, <1>1, <1>2, <1>3, <1>4, <1>5, RowWriters
  <2>2. s \notin Run
    BY JobsDisjoint
  <2>3. row'[s] = "SE"
    BY <1>0, <1>5, <2>1, <2>2 DEF Rescue, SetRow
  <2> QED BY <1>1, <2>3 DEF Failing, Verdict
<1> QED BY <1>1, <1>5

\* So the failures before a submission only become more.
LEMMA FailuresGrow ==
    ASSUME ChargeInv, Quiet, Next, NEW s \in Submission, pc[s] # "none"
    PROVE  /\ Cardinality(EarlierFailed(s)) \in Nat
           /\ Cardinality(EarlierFailed(s)') \in Nat
           /\ Cardinality(EarlierFailed(s)) <= Cardinality(EarlierFailed(s)')
           /\ submittedAt'[s] = submittedAt[s]
<1>1. submittedAt'[s] = submittedAt[s]
  BY TimeSteps DEF ChargeInv
<1>2. ASSUME NEW t \in EarlierFailed(s) PROVE t \in EarlierFailed(s)'
  <2>1. t \in Submission /\ KeyOf[t] = KeyOf[s] /\ row[t] \in Failing
        /\ submittedAt[t] < submittedAt[s]
    BY DEF EarlierFailed
  <2>2. row'[t] \in Failing /\ submittedAt'[t] = submittedAt[t]
    BY <2>1, FailureSteps, TimeSteps DEF ChargeInv
  <2> QED BY <1>1, <2>1, <2>2 DEF EarlierFailed
<1>3. EarlierFailed(s)' \in SUBSET Job /\ EarlierFailed(s) \in SUBSET Job
  BY DEF EarlierFailed, Job
<1> QED BY <1>1, <1>2, <1>3, JobSets, FS_Subset

LEMMA NextFailureStays ==
    ASSUME ChargeInv, Quiet, Next
    PROVE  FailureStays'
<1> SUFFICES ASSUME NEW s \in Submission, row'[s] \in Failing PROVE pc'[s] \in Settling
  BY DEF FailureStays
<1>0. /\ BoardInv /\ TypeOK /\ s \in Job /\ pc \in [Job -> PcValue]
      /\ row \in [Submission -> RowValue] /\ s \notin Run
  BY BoardFacts, JobsDisjoint DEF ChargeInv, BoardInv, PermitInv
<1>1. CASE row'[s] = row[s]
  <2>1. pc[s] \in Settling
    BY <1>1 DEF ChargeInv, FailureStays
  <2>2. CASE pc'[s] = pc[s]
    BY <2>1, <2>2
  <2>3. CASE pc'[s] # pc[s]
    <3>1. CASE Reply(s) \/ Rescue(s) \/ Alarm(s)
      BY <1>0, <3>1 DEF Reply, Rescue, Alarm, Proceeds, Raises, Settling
    <3>2. ~ \/ Begin(s) \/ Fetch(s) \/ Record(s) \/ Count(s) \/ Tally(s) \/ Credit(s)
            \/ Mark(s) \/ Announce(s) \/ Grade(s)
      BY <2>1 DEF Begin, Fetch, Record, Count, Tally, Credit, Mark, Announce, Grade,
                  Settling
    <3>3. CASE pc'[s] \in {"held", "begin"}
      <4>1. pc[s] \in Credited => pc'[s] \in Credited
        BY <1>0, CreditedStays
      <4>2. pc[s] \in {"rescue", "alarm"}
        BY <2>1, <3>3, <4>1 DEF Settling, Credited
      <4>3. CASE Listener
        <5>1. queue # <<>> => Head(queue) = queue[1] /\ 1 \in 1..Len(queue)
          BY BoardFacts DEF ChargeInv
        <5>2. queue # <<>> => pc[Head(queue)] = "none"
          BY <5>1 DEF ChargeInv, BoardInv, PermitInv, FreshQueue
        <5> QED BY <1>0, <2>3, <4>2, <4>3, <5>2
                DEF Listener, Acquire, Pop, PopTimesOut, PopFails, Hand
      <4>4. CASE Crash
        BY <1>0, <3>3, <4>2, <4>4 DEF Crash
      <4>5. ASSUME NEW j \in Job, Worker(j) PROVE FALSE
        <5>1. \E n \in ThreadStep \cup {"done"} : pc' = [pc EXCEPT ![j] = n]
          BY <1>0, <4>5, WorkerKeeps DEF Release, Proceeds
        <5>2. j = s
          BY <1>0, <2>3, <5>1
        <5>3. Rescue(s) \/ Alarm(s) \/ Reply(s) \/ Release(s)
          BY <1>0, <3>2, <4>5, <5>2, JobsDisjoint DEF Worker
        <5> QED BY <1>0, <3>3, <5>3 DEF Rescue, Alarm, Reply, Release, Proceeds, Raises
      <4>6. ASSUME NEW j \in Job, ApiStep(j) \/ Subscribe(j) PROVE FALSE
        BY <2>3, <4>6 DEF ApiStep, PutSource, InsertRow, Enqueue, Subscribe
      <4>7. ~\/ \E r \in Run : ResultExpires(r)
             \/ \E c \in Contest : DropContest(c) \/ NukeKeys(c)
        BY <2>3 DEF ResultExpires, DropContest, NukeKeys
      <4> QED BY <4>3, <4>4, <4>5, <4>6, <4>7 DEF Next
    <3> QED BY <1>0, <2>3, <3>1, <3>2, <3>3, PcSteps DEF Settling
  <2> QED BY <2>2, <2>3
<1>2. CASE row'[s] # row[s]
  <2>1. ~(InsertRow(s) /\ Live(s) /\ row'[s] = "Pending") /\ row'[s] # "none"
    BY FailingRows
  <2>2. Begin(s) \/ Fetch(s) \/ Record(s) \/ Rescue(s)
    BY <1>0, <1>2, <2>1, RowWriters
  <2>3. CASE Begin(s)
    BY <1>0, <1>2, <2>3, FailingRows DEF Begin, SetRow
  <2>4. CASE Fetch(s)
    BY <1>0, <1>2, <2>4 DEF Fetch, Proceeds, Settling
  <2>5. CASE Record(s)
    <3>1. row'[s] = verdict[s] /\ row'[s] # "AC"
      BY <1>0, <1>2, <2>1, <2>5, FailingRows DEF Record, SetRow
    <3> QED BY <1>0, <2>5, <3>1 DEF Record, Proceeds, Raises, Settling
  <2>6. CASE Rescue(s)
    BY <1>0, <2>6 DEF Rescue, Proceeds, Settling
  <2> QED BY <2>2, <2>3, <2>4, <2>5, <2>6
<1> QED BY <1>1, <1>2

\* Nobody else writes the failures a thread counted.
LEMMA FailsSteps ==
    ASSUME Next, BoardInv, NEW s \in Submission, fails'[s] # fails[s]
    PROVE  Tally(s) /\ pc'[s] = "credit" /\ fails'[s] = Cardinality(EarlierFailed(s))
<1>0. fails \in [Submission -> Nat] /\ s \in Job /\ pc \in [Job -> PcValue]
  BY BoardFacts DEF BoardInv, PermitInv, TypeOK, LocalOK, Job
<1>1. ASSUME NEW j \in Job, Worker(j)
      PROVE  Tally(s) /\ pc'[s] = "credit" /\ fails'[s] = Cardinality(EarlierFailed(s))
  <2>1. j \in Submission /\ Tally(j) /\ ~UNCHANGED fails
    BY <1>1 DEF Worker, Begin, Fetch, Record, Count, Credit, Mark, Save, RunAudit,
                Announce, Grade, Reply, Alarm, Rescue, Release, localVars
  <2>2. fails' = [fails EXCEPT ![j] = Cardinality(EarlierFailed(j))]
        /\ pc' = [pc EXCEPT ![j] = "credit"]
    BY <2>1 DEF Tally, Proceeds
  <2> QED BY <1>0, <2>1, <2>2
<1>2. ASSUME NEW j \in Job, ApiStep(j) \/ Subscribe(j) PROVE FALSE
  BY <1>2 DEF ApiStep, PutSource, InsertRow, Enqueue, Subscribe, localVars
<1>3. ASSUME NEW c \in Contest, DropContest(c) \/ NukeKeys(c) PROVE FALSE
  BY <1>3 DEF DropContest, NukeKeys, localVars
<1>4. ~Listener /\ ~Crash /\ ~\E r \in Run : ResultExpires(r)
  BY DEF Listener, Acquire, Pop, PopTimesOut, PopFails, Hand, Crash, ResultExpires, localVars
<1> QED BY <1>1, <1>2, <1>3, <1>4 DEF Next

LEMMA NextChargeFair ==
    ASSUME ChargeInv, Quiet, Next
    PROVE  ChargeFair'
<1> SUFFICES ASSUME NEW s \in Submission, pc'[s] = "credit"
             PROVE  fails'[s] <= Cardinality(EarlierFailed(s)')
  BY DEF ChargeFair
<1>0. BoardInv /\ fails[s] \in Nat /\ pc \in [Job -> PcValue] /\ s \in Job
  BY BoardFacts DEF ChargeInv, BoardInv, PermitInv, TypeOK, LocalOK, Job
<1>1. CASE fails'[s] # fails[s]
  <2>1. fails'[s] = Cardinality(EarlierFailed(s)) /\ pc[s] # "none"
    BY <1>0, <1>1, FailsSteps DEF Tally
  <2> QED BY <2>1, FailuresGrow
<1>2. CASE fails'[s] = fails[s]
  <2>1. CASE pc[s] = "credit"
    <3>1. fails[s] <= Cardinality(EarlierFailed(s))
      BY <2>1 DEF ChargeInv, ChargeFair
    <3> QED BY <1>0, <1>2, <2>1, <3>1, FailuresGrow
  <2>2. CASE pc[s] # "credit"
    <3>1. Tally(s)
      BY <1>0, <2>2, ClaimSteps DEF Claiming
    <3>2. fails' = [fails EXCEPT ![s] = Cardinality(EarlierFailed(s))] /\ pc[s] # "none"
      BY <1>0, <2>2, <3>1 DEF Tally, Raises
    <3>3. fails'[s] = Cardinality(EarlierFailed(s))
      BY <3>2 DEF ChargeInv, BoardInv, PermitInv, TypeOK, LocalOK
    <3> QED BY <3>2, <3>3, FailuresGrow
  <2> QED BY <2>1, <2>2
<1> QED BY <1>1, <1>2

LEMMA NextPenaltyFair ==
    ASSUME ChargeInv, Quiet, Next
    PROVE  PenaltyFair'
<1> SUFFICES ASSUME NEW k \in Key
             PROVE  /\ score'[k].solves = 0 => score'[k].penalty = 0
                    /\ score'[k].solves # 0 =>
                         \E s \in Submission :
                           /\ KeyOf[s] = k /\ row'[s] = "AC" /\ pc'[s] \in Credited
                           /\ score'[k].penalty
                                <= submittedAt'[s] + 20 * Cardinality(EarlierFailed(s)')
  BY DEF PenaltyFair
<1>0. /\ BoardInv /\ Submission \subseteq Job /\ pc \in [Job -> PcValue]
      /\ KeyOf \in [Submission -> Key]
      /\ score \in [Key -> [solves : Nat, penalty : Nat]]
      /\ submittedAt \in [Submission -> Nat] /\ fails \in [Submission -> Nat]
  BY BoardFacts DEF ChargeInv, BoardInv, PermitInv, TypeOK, ApiOK, LocalOK
<1>1. CASE score'[k] = score[k]
  <2>1. CASE score[k].solves = 0
    BY <1>1, <2>1 DEF ChargeInv, PenaltyFair
  <2>2. CASE score[k].solves # 0
    <3>1. PICK s \in Submission :
            /\ KeyOf[s] = k /\ row[s] = "AC" /\ pc[s] \in Credited
            /\ score[k].penalty <= submittedAt[s] + 20 * Cardinality(EarlierFailed(s))
      BY <2>2 DEF ChargeInv, PenaltyFair
    <3>2. row'[s] = "AC" /\ pc'[s] \in Credited
      BY <1>0, <3>1, RowSteps, CreditedStays
    <3>3. pc[s] # "none"
      BY <3>1 DEF Credited
    <3>4. score'[k].penalty <= submittedAt'[s] + 20 * Cardinality(EarlierFailed(s)')
      BY <1>0, <1>1, <3>1, <3>3, FailuresGrow
    <3> QED BY <1>1, <2>2, <3>1, <3>2, <3>4
  <2> QED BY <2>1, <2>2
<1>2. CASE score'[k] # score[k]
  <2>1. PICK s \in Submission : /\ pc[s] = "credit"
                                /\ pc' = [pc EXCEPT ![s] = "mark"]
                                /\ AddCredit(s)
    BY <1>0, <1>2, ScoreSteps
  <2>2. KeyOf[s] = k
    BY <1>0, <1>2, <2>1 DEF AddCredit
  <2>3. /\ score[k].solves = 0 /\ score[k].penalty = 0 /\ row[s] = "AC"
        /\ fails[s] <= Cardinality(EarlierFailed(s))
    BY <2>1, <2>2 DEF ChargeInv, BoardInv, ClaimsAlone, AcceptedFirst, Claiming, ChargeFair,
                      PenaltyFair
  <2>4. row'[s] = "AC" /\ pc'[s] \in Credited
    BY <1>0, <2>1, <2>3, RowSteps DEF Claiming, Credited
  <2>5. score'[k] = [solves |-> 1, penalty |-> submittedAt[s] + 20 * fails[s]]
    <3>1. score[k].penalty + submittedAt[s] + 20 * fails[s]
            = submittedAt[s] + 20 * fails[s] /\ score[k].solves + 1 = 1
      BY <1>0, <2>3
    <3> QED BY <1>0, <2>1, <2>2, <3>1 DEF AddCredit
  <2>6. submittedAt[s] + 20 * fails[s]
          <= submittedAt'[s] + 20 * Cardinality(EarlierFailed(s)')
    BY <1>0, <2>1, <2>3, FailuresGrow
  <2> QED BY <2>2, <2>4, <2>5, <2>6
<1> QED BY <1>1, <1>2

LEMMA NextChargeInv == ASSUME ChargeInv, Quiet, [Next]_vars PROVE ChargeInv'
<1>1. CASE Next
  BY <1>1, NextBoardInv, NextFailureStays, NextChargeFair, NextPenaltyFair DEF ChargeInv
<1>2. CASE UNCHANGED vars
  <2>1. BoardInv'
    BY <1>2, NextBoardInv DEF ChargeInv
  <2>2. UNCHANGED <<pc, row, score, submittedAt, fails>>
    BY <1>2 DEF vars
  <2>3. \A s \in Submission : EarlierFailed(s)' = EarlierFailed(s)
    BY <2>2 DEF EarlierFailed
  <2> QED BY <2>1, <2>2, <2>3 DEF ChargeInv, FailureStays, ChargeFair, PenaltyFair
<1> QED BY <1>1, <1>2

LEMMA InitChargeInv == Init => ChargeInv
<1> SUFFICES ASSUME Init PROVE ChargeInv
  OBVIOUS
<1>1. BoardInv
  BY InitBoardInv
<1>2. FailureStays /\ ChargeFair /\ PenaltyFair
  BY FailingRows DEF Init, FailureStays, ChargeFair, PenaltyFair, Job
<1> QED BY <1>1, <1>2 DEF ChargeInv

\* Under the same condition the penalty of a solve is never more than that of
\* an accepted submission with the failures submitted before it, however the
\* grading of the attempts overlaps (queue_listener.py:129).
THEOREM PenaltyIsFair ==
    ASSUME Quiet
    PROVE  Spec => []NeverOvercharged
<1>1. ChargeInv /\ [Next]_vars => ChargeInv'
  BY NextChargeInv
<1>2. ChargeInv => NeverOvercharged
  BY DEF ChargeInv, PenaltyFair, NeverOvercharged
<1> QED BY InitChargeInv, <1>1, <1>2, PTL DEF Spec

-----------------------------------------------------------------------------
(* Judge: what a contestant sees of it while nothing fails but the store    *)
(* and the worker as a whole                                                *)

Calm == Faults \subseteq {"s3", "crash"}

\* The row of a submission follows its handler and its thread.
RowFollows ==
    \A s \in Submission :
        /\ api[s] \in {"idle", "stored"} => row[s] = "none"
        /\ pc[s] \in {"none", "held", "begin"} => row[s] \in {"none", "Pending"}
        /\ pc[s] \in {"announce", "fetch", "grade", "record"} => row[s] = "Running"
        /\ pc[s] \notin {"rescue", "alarm"}

JudgeInv == BoardInv /\ RowFollows

\* Then no statement raises.
LEMMA CalmMoves ==
    ASSUME Calm
    PROVE  /\ Quiet
           /\ ~Spend("db") /\ ~Spend("redis") /\ ~Spend("delete")
           /\ \A j \in Job : ~Raises(j, "db") /\ ~Raises(j, "redis")
BY DEF Calm, Quiet, Spend, Raises

\* A job is given to the worker only from the queue, and then to the pool.
LEMMA HeldSteps ==
    ASSUME PermitInv, Next, NEW s \in Submission, pc'[s] # pc[s],
           pc'[s] \in {"none", "held", "begin"}
    PROVE  pc[s] \in {"none", "held"} /\ UNCHANGED row
<1>0. pc \in [Job -> PcValue] /\ s \in Job /\ queue \in Seq(Job)
  BY DEF PermitInv, TypeOK, PcOK, ListenOK, Job
<1>1. CASE Pop \/ PopFails
  <2>1. queue # <<>> /\ pc' # pc => Head(queue) = queue[1] /\ 1 \in 1..Len(queue)
    BY <1>0
  <2>2. queue # <<>> => pc[Head(queue)] = "none"
    BY <1>0, <2>1 DEF PermitInv, FreshQueue
  <2> QED BY <1>0, <1>1, <2>2 DEF Pop, PopFails
<1>2. CASE \E j \in Job : Hand(j)
  BY <1>0, <1>2 DEF Hand
<1>3. ASSUME NEW j \in Job, Worker(j) PROVE FALSE
  <2>1. pc[j] \in ThreadStep /\ \E n \in ThreadStep \cup {"done"} : pc' = [pc EXCEPT ![j] = n]
    BY <1>3, WorkerKeeps DEF PermitInv, Release, Proceeds
  <2>2. j = s
    BY <1>0, <2>1
  <2>3. ~(s \in Run) /\ ~(s \in Audit)
    BY JobsDisjoint
  <2> QED BY <1>0, <1>3, <2>2, <2>3 DEF Worker, Begin, Fetch, Record, Count, Tally, Credit,
                Mark, Announce, Grade, Reply, Rescue, Alarm, Release, Proceeds, Raises
<1>4. CASE Acquire \/ PopTimesOut \/ Crash
  BY <1>0, <1>4 DEF Acquire, PopTimesOut, Crash
<1>5. ASSUME NEW j \in Job, ApiStep(j) \/ Subscribe(j) PROVE FALSE
  BY <1>5 DEF ApiStep, PutSource, InsertRow, Enqueue, Subscribe
<1>6. CASE \/ \E r \in Run : ResultExpires(r)
           \/ \E c \in Contest : DropContest(c) \/ NukeKeys(c)
  BY <1>6 DEF ResultExpires, DropContest, NukeKeys
<1> QED BY <1>1, <1>2, <1>3, <1>4, <1>5, <1>6 DEF Next, Listener

\* A handler goes forward only, and inserts the row on its way.
LEMMA ApiSteps ==
    ASSUME TypeOK, Next, NEW s \in Submission, api'[s] \in {"idle", "stored"}
    PROVE  api[s] \in {"idle", "stored"} /\ ~InsertRow(s)
<1>0. /\ api \in [Job -> {"idle", "stored", "inserted", "accepted", "failed"}]
      /\ s \in Job
  BY DEF TypeOK, ApiOK, Job
<1>1. ASSUME NEW j \in Job, ApiStep(j) \/ Subscribe(j)
      PROVE  api[s] \in {"idle", "stored"}
  BY <1>0, <1>1 DEF ApiStep, PutSource, InsertRow, Enqueue, Subscribe, ApiGoes, apiVars
<1>2. ASSUME NEW j \in Job, Worker(j) PROVE UNCHANGED api
  BY <1>2 DEF Worker, Begin, Fetch, Record, Count, Tally, Credit, Mark, Save, RunAudit,
              Announce, Grade, Reply, Rescue, Alarm, Release, apiVars
<1>3. ASSUME NEW c \in Contest, DropContest(c) \/ NukeKeys(c) PROVE UNCHANGED api
  BY <1>3 DEF DropContest, NukeKeys, apiVars
<1>4. Listener \/ Crash \/ (\E r \in Run : ResultExpires(r)) => UNCHANGED api
  BY DEF Listener, Acquire, Pop, PopTimesOut, PopFails, Hand, Crash, ResultExpires, apiVars
<1>5. ~InsertRow(s)
  BY <1>0 DEF InsertRow, ApiGoes
<1> QED BY <1>1, <1>2, <1>3, <1>4, <1>5 DEF Next

\* While all is calm a row is inserted, started and decided, and nothing else
\* happens to it.
LEMMA CalmRows ==
    ASSUME JudgeInv, Calm, Next, NEW s \in Submission, row'[s] # row[s]
    PROVE  \/ InsertRow(s) /\ row[s] = "none" /\ row' = [row EXCEPT ![s] = "Pending"]
           \/ Begin(s) /\ row[s] = "Pending" /\ row' = [row EXCEPT ![s] = "Running"]
                /\ pc'[s] = "announce"
           \/ /\ Fetch(s) \/ Record(s)
              /\ pc'[s] \in {"release", "count", "reply"}
              /\ row[s] = "Running" /\ \E v \in Verdict : row' = [row EXCEPT ![s] = v]
<1>0. /\ BoardInv /\ TypeOK /\ row \in [Submission -> RowValue] /\ pc \in [Job -> PcValue]
      /\ s \in Job /\ verdict \in [Job -> Verdict]
  BY BoardFacts DEF JudgeInv, BoardInv, PermitInv, TypeOK, LocalOK, Job
<1>1. ~\E c \in Contest : DropContest(c)
  BY CalmMoves DEF DropContest
<1>2. CASE InsertRow(s) /\ row'[s] = "Pending"
  <2>1. row[s] = "none"
    BY <1>2 DEF InsertRow, JudgeInv, RowFollows
  <2>2. row' = [row EXCEPT ![s] = "Pending"]
    BY <1>0, <1>2 DEF InsertRow
  <2> QED BY <1>2, <2>1, <2>2
<1>3. CASE row[s] # "none" /\ Begin(s)
  <2>1. Proceeds(s, "announce") /\ SetRow(s, "Running") /\ row[s] = "Pending"
    BY <1>0, <1>3, CalmMoves DEF Begin, JudgeInv, RowFollows
  <2>2. row' = [row EXCEPT ![s] = "Running"]
    BY <1>0, <1>3, <2>1 DEF SetRow
  <2>3. pc'[s] = "announce"
    BY <1>0, <2>1 DEF Proceeds
  <2> QED BY <1>3, <2>1, <2>2, <2>3
<1>4. CASE row[s] # "none" /\ Fetch(s)
  <2>1. Proceeds(s, "release") /\ SetRow(s, "SE") /\ row[s] = "Running"
    BY <1>0, <1>4, CalmMoves DEF Fetch, JudgeInv, RowFollows
  <2>2. row' = [row EXCEPT ![s] = "SE"] /\ "SE" \in Verdict
    BY <1>0, <1>4, <2>1 DEF SetRow, Verdict
  <2>3. pc'[s] = "release"
    BY <1>0, <2>1 DEF Proceeds
  <2> QED BY <1>4, <2>1, <2>2, <2>3
<1>5. CASE row[s] # "none" /\ Record(s)
  <2>1. SetRow(s, verdict[s]) /\ row[s] = "Running"
    BY <1>0, <1>5, CalmMoves DEF Record, JudgeInv, RowFollows
  <2>2. row' = [row EXCEPT ![s] = verdict[s]] /\ verdict[s] \in Verdict
    BY <1>0, <1>5, <2>1 DEF SetRow
  <2>3. pc'[s] \in {"count", "reply"}
    BY <1>0, <1>5, CalmMoves DEF Record, Proceeds
  <2> QED BY <1>5, <2>1, <2>2, <2>3
<1>6. CASE row[s] # "none" /\ Rescue(s)
  BY <1>6 DEF Rescue, JudgeInv, RowFollows
<1> QED BY <1>0, <1>1, <1>2, <1>3, <1>4, <1>5, <1>6, RowWriters

\* The statements of a thread before its verdict, each from the one before.
LEMMA CalmThreads ==
    ASSUME JudgeInv, Calm, Next, NEW s \in Submission, pc'[s] # pc[s]
    PROVE  /\ pc'[s] \notin {"rescue", "alarm"}
           /\ pc'[s] = "announce" => Begin(s) /\ row'[s] = "Running"
           /\ pc'[s] \in {"fetch", "grade", "record"} =>
                pc[s] \in {"announce", "fetch", "grade"} /\ row'[s] = row[s]
<1>0. /\ BoardInv /\ TypeOK /\ PermitInv /\ row \in [Submission -> RowValue]
      /\ pc \in [Job -> PcValue] /\ s \in Job
  BY BoardFacts DEF JudgeInv, BoardInv, PermitInv, Job
<1>1. CASE Begin(s)
  <2>1. Proceeds(s, "announce") /\ SetRow(s, "Running") /\ row[s] # "none"
    BY <1>0, <1>1, CalmMoves DEF Begin, JudgeInv, BoardInv, HasRow
  <2> QED BY <1>0, <1>1, <2>1 DEF SetRow, Proceeds
<1>2. CASE Announce(s)
  BY <1>0, <1>2, CalmMoves DEF Announce, Proceeds
<1>3. CASE Fetch(s)
  <2>1. \/ Proceeds(s, "grade") /\ UNCHANGED row
        \/ Proceeds(s, "release")
    BY <1>0, <1>3, CalmMoves DEF Fetch
  <2> QED BY <1>0, <1>3, <2>1 DEF Fetch, Proceeds
<1>4. CASE Grade(s)
  BY <1>0, <1>4 DEF Grade, Proceeds
<1>5. CASE Record(s) \/ Count(s) \/ Tally(s)
  BY <1>0, <1>5, CalmMoves DEF Record, Count, Tally, Proceeds
<1>6. CASE Credit(s) \/ Mark(s) \/ Reply(s)
  BY <1>0, <1>6, CalmMoves DEF Credit, Mark, Reply, Proceeds
<1>7. CASE Rescue(s) \/ Alarm(s)
  BY <1>7 DEF Rescue, Alarm, JudgeInv, RowFollows
<1> QED BY <1>0, <1>1, <1>2, <1>3, <1>4, <1>5, <1>6, <1>7, PcSteps

LEMMA NextRowFollows ==
    ASSUME JudgeInv, Calm, Next
    PROVE  RowFollows'
<1> SUFFICES ASSUME NEW s \in Submission
    PROVE  /\ api'[s] \in {"idle", "stored"} => row'[s] = "none"
           /\ pc'[s] \in {"none", "held", "begin"} => row'[s] \in {"none", "Pending"}
           /\ pc'[s] \in {"announce", "fetch", "grade", "record"} => row'[s] = "Running"
           /\ pc'[s] \notin {"rescue", "alarm"}
  BY DEF RowFollows
<1>0. /\ BoardInv /\ TypeOK /\ PermitInv /\ row \in [Submission -> RowValue]
      /\ pc \in [Job -> PcValue] /\ s \in Job
  BY BoardFacts DEF JudgeInv, BoardInv, PermitInv, Job
<1>1. ASSUME api'[s] \in {"idle", "stored"} PROVE row'[s] = "none"
  <2>1. row[s] = "none" /\ ~InsertRow(s)
    BY <1>0, <1>1, ApiSteps DEF JudgeInv, RowFollows
  <2> QED BY <2>1, CalmRows
<1>2. ASSUME pc'[s] \in {"none", "held", "begin"} PROVE row'[s] \in {"none", "Pending"}
  <2>1. CASE pc'[s] # pc[s]
    BY <1>0, <1>2, <2>1, HeldSteps DEF JudgeInv, RowFollows
  <2>2. CASE pc'[s] = pc[s] /\ row'[s] # row[s]
    BY <1>0, <1>2, <2>2, CalmRows
  <2> QED BY <1>2, <2>1, <2>2 DEF JudgeInv, RowFollows
<1>3. ASSUME pc'[s] \in {"announce", "fetch", "grade", "record"} PROVE row'[s] = "Running"
  <2>1. CASE pc'[s] # pc[s]
    BY <1>3, <2>1, CalmThreads DEF JudgeInv, RowFollows
  <2>2. CASE pc'[s] = pc[s]
    <3>1. row[s] = "Running"
      BY <1>3, <2>2 DEF JudgeInv, RowFollows
    <3>2. ~Begin(s)
      BY <3>1 DEF Begin, JudgeInv, RowFollows
    <3> QED BY <1>3, <2>2, <3>1, <3>2, CalmRows
  <2> QED BY <2>1, <2>2
<1>4. pc'[s] \notin {"rescue", "alarm"}
  BY CalmThreads DEF JudgeInv, RowFollows
<1> QED BY <1>1, <1>2, <1>3, <1>4

LEMMA NextJudgeInv == ASSUME JudgeInv, Calm, [Next]_vars PROVE JudgeInv'
<1>1. BoardInv'
  BY CalmMoves, NextBoardInv DEF JudgeInv
<1>2. CASE Next
  BY <1>1, <1>2, NextRowFollows DEF JudgeInv
<1>3. CASE UNCHANGED vars
  BY <1>1, <1>3 DEF vars, JudgeInv, RowFollows
<1> QED BY <1>2, <1>3

LEMMA InitJudgeInv == Init => JudgeInv
BY InitBoardInv DEF Init, JudgeInv, RowFollows, Job

\* Every step is a step of Judge, or nothing a contestant can see.
LEMMA JudgeSteps ==
    ASSUME JudgeInv, Calm, Next
    PROVE  J!Next \/ UNCHANGED J!vars
<1>0. /\ BoardInv /\ row \in [Submission -> RowValue] /\ Submission \subseteq Job
      /\ row' \in [Submission -> RowValue]
      /\ score \in [Key -> [solves : Nat, penalty : Nat]]
      /\ KeyOf \in [Submission -> Key]
  BY BoardFacts, NextBoardInv, CalmMoves DEF JudgeInv, BoardInv, PermitInv, TypeOK, RowOK
<1>1. UNCHANGED score \/ UNCHANGED row
  <2>1. ASSUME NEW s \in Submission, pc[s] = "credit", pc' = [pc EXCEPT ![s] = "mark"],
               NEW t \in Submission, row'[t] # row[t]
        PROVE  FALSE
    <3>1. pc'[t] # pc[t] \/ UNCHANGED pc
      BY <2>1, CalmRows DEF InsertRow, Begin, Fetch, Record
    <3>2. pc[s] = "credit" /\ pc'[s] = "mark"
      BY <1>0, <2>1, BoardFacts
    <3>3. t = s
      BY <1>0, <2>1, <3>1, <3>2, BoardFacts
    <3> QED BY <2>1, <3>3, RowSteps, CalmMoves, BoardFacts DEF Claiming, BoardInv, HasRow, JudgeInv
  <2>2. row' # row => \E t \in Submission : row'[t] # row[t]
    BY <1>0
  <2> QED BY <1>0, <2>1, <2>2, ScoreSteps, CalmMoves
<1>2. CASE UNCHANGED <<row, score>>
  BY <1>2 DEF J!vars
<1>3. CASE UNCHANGED score /\ ~UNCHANGED row
  <2>1. PICK s \in Submission : row'[s] # row[s]
    BY <1>0, <1>3
  <2>2. UNCHANGED [k \in Key |-> score[k].solves]
    BY <1>3
  <2>3. \/ row[s] = "none" /\ row' = [row EXCEPT ![s] = "Pending"]
        \/ row[s] = "Pending" /\ row' = [row EXCEPT ![s] = "Running"]
        \/ row[s] = "Running" /\ \E v \in Verdict : row' = [row EXCEPT ![s] = v]
    BY <2>1, CalmRows
  <2>4. J!Accept(s) \/ J!Start(s) \/ J!Decide(s)
    BY <2>2, <2>3 DEF J!Accept, J!Start, J!Decide
  <2> QED BY <2>4 DEF J!Next
<1>4. CASE UNCHANGED row /\ ~UNCHANGED score
  <2>1. PICK s \in Submission : pc[s] = "credit" /\ AddCredit(s)
    BY <1>0, <1>4, ScoreSteps, CalmMoves
  <2>2. row[s] = "AC" /\ score[KeyOf[s]].solves = 0 /\ KeyOf[s] \in Key
    BY <1>0, <2>1 DEF BoardInv, AcceptedFirst, ClaimsAlone, Claiming
  <2>3. \A k \in Key : score'[k].solves = IF k = KeyOf[s] THEN 1 ELSE score[k].solves
    BY <1>0, <2>1, <2>2 DEF AddCredit
  <2>4. [k \in Key |-> score'[k].solves]
          = [[k \in Key |-> score[k].solves] EXCEPT ![KeyOf[s]] = 1]
    BY <2>3
  <2>5. J!Award(s)
    BY <1>4, <2>2, <2>4 DEF J!Award
  <2> QED BY <2>5 DEF J!Next
<1> QED BY <1>1, <1>2, <1>3, <1>4

\* While only the store of the sources and the worker as a whole fail, what a
\* contestant sees of a submission and of the leaderboard is a behaviour of
\* Judge: the row goes from Pending to Running to one final verdict, and a key
\* gets its single solve from an accepted row (process_submission).  That a
\* verdict comes at all is the other half of JudgeSpec, a liveness property.
THEOREM JudgeIsImplemented ==
    ASSUME Calm
    PROVE  Spec => J!Safety
<1>1. Init => J!Init
  BY DEF Init, J!Init
<1>2. JudgeInv /\ [Next]_vars => JudgeInv'
  BY NextJudgeInv
<1>3. JudgeInv /\ [Next]_vars => [J!Next]_(J!vars)
  <2>1. CASE UNCHANGED vars
    BY <2>1 DEF vars, J!vars
  <2> QED BY <2>1, JudgeSteps
<1> QED BY InitJudgeInv, <1>1, <1>2, <1>3, PTL DEF Spec, J!Safety

=============================================================================
