--------------------------- MODULE MossAuditProofs ---------------------------
(****************************************************************************)
(* Theorems about MossAudit: for any contests, batches and pool threads, an *)
(* audit is claimed once and reported once, and its outcome stands,         *)
(* whatever fails, as long as one instance of the API runs and no push      *)
(* fails after it was executed; a completed audit has a report of every     *)
(* batch in any case.                                                       *)
(****************************************************************************)
EXTENDS MossAudit, TLAPS

-----------------------------------------------------------------------------
(* Type correctness *)

LEMMA InitTyped == Init => TypeOK
BY BatchesTyped, FaultsTyped
   DEF Init, TypeOK, DbOK, DaemonOK, ThreadOK, RedisOK, TellOK, Status

\* A group of variables that a step leaves alone keeps its types.
LEMMA Frame ==
    ASSUME TypeOK
    PROVE  /\ UNCHANGED <<ended, dbVars>> => DbOK'
           /\ UNCHANGED daemonVars => DaemonOK'
           /\ UNCHANGED <<threadVars, scratch>> => ThreadOK'
           /\ UNCHANGED <<dirty, queue>> => RedisOK'
           /\ UNCHANGED tellVars => TellOK'
           /\ UNCHANGED budget => (budget \in 0..MaxFaults)'
BY DEF TypeOK, DbOK, DaemonOK, ThreadOK, RedisOK, TellOK, dbVars, daemonVars,
       threadVars, tellVars

LEMMA SpendTyped ==
    ASSUME budget \in 0..MaxFaults, NEW f, Spend(f)
    PROVE  budget' \in 0..MaxFaults
BY FaultsTyped DEF Spend

LEMMA RaisesTyped ==
    ASSUME TypeOK, NEW t \in Thread, NEW f, Raises(t, f)
    PROVE  /\ tpc' \in [Thread -> {"idle", "start", "select", "next", "send",
                                   "store", "clean", "mark", "rescue",
                                   "markfailed"}]
           /\ budget' \in 0..MaxFaults
BY SpendTyped DEF Raises, ThreadGoes, TypeOK, ThreadOK

LEMMA SetStatusTyped ==
    ASSUME DbOK, NEW c \in Contest, NEW v \in Status, MaybeSetStatus(c, v)
    PROVE  status' \in [Contest -> Status \cup {"gone"}]
BY DEF DbOK, MaybeSetStatus, SetStatus

LEMMA SetStatusMaybe ==
    ASSUME NEW c, NEW v, SetStatus(c, v) \/ UNCHANGED status
    PROVE  MaybeSetStatus(c, v)
BY DEF MaybeSetStatus

LEMMA DaemonTyped ==
    ASSUME TypeOK, NEW d \in Daemon, DaemonStep(d)
    PROVE  TypeOK'
<1> USE DEF TypeOK
<1>1. CASE Tick(d)
  <2>1. DaemonOK'
    BY <1>1 DEF Tick, DaemonOK, DbOK
  <2> QED BY <1>1, <2>1, Frame DEF Tick
<1>2. ASSUME NEW c \in Contest, Claim(d, c) PROVE TypeOK'
  <2>1. DaemonOK'
    BY <1>2 DEF Claim, DaemonGoes, DaemonOK
  <2>2. DbOK'
    BY <1>2, SetStatusTyped, SetStatusMaybe DEF Claim, DbOK, Status
  <2>3. budget' \in 0..MaxFaults
    BY <1>2, SpendTyped DEF Claim
  <2> QED BY <1>2, <2>1, <2>2, <2>3, Frame DEF Claim
<1>3. CASE Push(d)
  <2>1. DaemonOK'
    BY <1>3 DEF Push, DaemonGoes, DaemonOK
  <2>2. RedisOK'
    <3>1. queue' = queue \/ queue' = Append(queue, claimed[d])
      BY <1>3, Zenon DEF Push
    <3>2. dirty' = dirty /\ claimed[d] \in Contest
      BY <1>3 DEF Push, DaemonOK
    <3> QED BY <3>1, <3>2 DEF RedisOK
  <2>3. budget' \in 0..MaxFaults
    BY <1>3, SpendTyped DEF Push
  <2> QED BY <1>3, <2>1, <2>2, <2>3, Frame DEF Push
<1>4. CASE Revert(d)
  <2>1. DaemonOK'
    BY <1>4 DEF Revert, DaemonGoes, DaemonOK
  <2>2. DbOK'
    BY <1>4, SetStatusTyped, SetStatusMaybe DEF Revert, DbOK, DaemonOK, Status
  <2>3. budget' \in 0..MaxFaults
    BY <1>4, SpendTyped DEF Revert
  <2> QED BY <1>4, <2>1, <2>2, <2>3, Frame DEF Revert
<1>5. CASE Mark(d)
  <2>1. DaemonOK'
    BY <1>5 DEF Mark, DaemonGoes, DaemonOK
  <2>2. RedisOK'
    BY <1>5 DEF Mark, RedisOK, DaemonOK
  <2>3. budget' \in 0..MaxFaults
    BY <1>5, SpendTyped DEF Mark
  <2> QED BY <1>5, <2>1, <2>2, <2>3, Frame DEF Mark
<1> QED BY <1>1, <1>2, <1>3, <1>4, <1>5 DEF DaemonStep

LEMMA ThreadTyped ==
    ASSUME TypeOK, NEW t \in Thread, ThreadStep(t)
    PROVE  TypeOK'
<1> USE DEF TypeOK
<1>1. CASE Take(t)
  <2>1. ThreadOK' /\ RedisOK'
    BY <1>1 DEF Take, ThreadGoes, ThreadOK, RedisOK
  <2> QED BY <1>1, <2>1, Frame DEF Take
<1>2. CASE Start(t)
  <2>1. ThreadOK' /\ budget' \in 0..MaxFaults
    BY <1>2, RaisesTyped, SpendTyped DEF Start, ThreadGoes, ThreadOK
  <2>2. DbOK'
    BY <1>2, SetStatusTyped, SetStatusMaybe DEF Start, DbOK, ThreadOK, Status
  <2> QED BY <1>2, <2>1, <2>2, Frame DEF Start
<1>3. CASE Select(t)
  <2>1. ThreadOK' /\ budget' \in 0..MaxFaults
    BY <1>3, RaisesTyped, BatchesTyped DEF Select, ThreadGoes, ThreadOK
  <2> QED BY <1>3, <2>1, Frame DEF Select
<1>4. ASSUME NEW b \in Batch, Prepare(t, b) PROVE TypeOK'
  <2>1. ThreadOK' /\ budget' \in 0..MaxFaults
    BY <1>4, RaisesTyped DEF Prepare, ThreadGoes, ThreadOK
  <2> QED BY <1>4, <2>1, Frame DEF Prepare
<1>5. CASE Send(t)
  <2>1. ThreadOK' /\ budget' \in 0..MaxFaults
    BY <1>5, RaisesTyped DEF Send, ThreadGoes, ThreadOK
  <2> QED BY <1>5, <2>1, Frame DEF Send
<1>6. CASE Store(t)
  <2>1. ThreadOK' /\ budget' \in 0..MaxFaults
    BY <1>6, RaisesTyped DEF Store, ThreadGoes, ThreadOK
  <2>2. AddReport(t) => analysed' \in [Contest -> [Batch -> Nat]]
    BY DEF AddReport, DbOK, ThreadOK
  <2>3. DbOK'
    BY <1>6, <2>2 DEF Store, DbOK
  <2> QED BY <1>6, <2>1, <2>3, Frame DEF Store
<1>7. CASE Clean(t)
  <2>1. ThreadOK'
    BY <1>7 DEF Clean, ThreadGoes, ThreadOK
  <2> QED BY <1>7, <2>1, Frame DEF Clean
<1>8. CASE Finish(t)
  <2>1. ThreadOK' /\ budget' \in 0..MaxFaults
    BY <1>8, RaisesTyped DEF Finish, ThreadGoes, ThreadOK
  <2>2. DbOK'
    BY <1>8, SetStatusTyped, SetStatusMaybe DEF Finish, DbOK, ThreadOK, Status
  <2> QED BY <1>8, <2>1, <2>2, Frame DEF Finish
<1>9. CASE MarkOutcome(t)
  <2>1. ThreadOK' /\ budget' \in 0..MaxFaults
    BY <1>9, RaisesTyped DEF MarkOutcome, ThreadGoes, ThreadOK
  <2>2. RedisOK'
    BY <1>9 DEF MarkOutcome, RedisOK, ThreadOK
  <2> QED BY <1>9, <2>1, <2>2, Frame DEF MarkOutcome
<1>10. CASE Rescue(t)
  <2>1. ThreadOK' /\ budget' \in 0..MaxFaults
    BY <1>10, SpendTyped DEF Rescue, ThreadGoes, ThreadOK
  <2>2. DbOK'
    BY <1>10, SetStatusTyped, SetStatusMaybe DEF Rescue, DbOK, ThreadOK, Status
  <2> QED BY <1>10, <2>1, <2>2, Frame DEF Rescue
<1>11. CASE MarkFailed(t)
  <2>1. ThreadOK' /\ budget' \in 0..MaxFaults
    BY <1>11, SpendTyped DEF MarkFailed, ThreadGoes, ThreadOK
  <2>2. RedisOK'
    BY <1>11 DEF MarkFailed, RedisOK, ThreadOK
  <2> QED BY <1>11, <2>1, <2>2, Frame DEF MarkFailed
<1> QED BY <1>1, <1>2, <1>3, <1>4, <1>5, <1>6, <1>7, <1>8, <1>9, <1>10, <1>11
        DEF ThreadStep

LEMMA OtherTyped ==
    ASSUME TypeOK,
           \/ \E c \in Contest : End(c) \/ Delete(c)
           \/ Crash
           \/ Broadcaster
    PROVE  TypeOK'
<1> USE DEF TypeOK
<1>1. ASSUME NEW c \in Contest, End(c) PROVE TypeOK'
  <2>1. DbOK'
    BY <1>1 DEF End, DbOK, dbVars
  <2> QED BY <1>1, <2>1, Frame DEF End
<1>2. ASSUME NEW c \in Contest, Delete(c) PROVE TypeOK'
  <2>1. DbOK' /\ RedisOK' /\ budget' \in 0..MaxFaults
    BY <1>2, SpendTyped DEF Delete, DbOK, RedisOK
  <2> QED BY <1>2, <2>1, Frame DEF Delete
<1>3. CASE Crash
  <2>1. ThreadOK' /\ budget' \in 0..MaxFaults
    BY <1>3, SpendTyped DEF Crash, ThreadOK
  <2> QED BY <1>3, <2>1, Frame DEF Crash
<1>4. ASSUME NEW c \in Contest, Sweep(c) PROVE TypeOK'
  <2>1. RedisOK' /\ TellOK'
    BY <1>4 DEF Sweep, RedisOK, TellOK
  <2> QED BY <1>4, <2>1, Frame DEF Sweep
<1>5. ASSUME NEW c \in Contest, Tell(c) PROVE TypeOK'
  <2>1. TellOK' /\ budget' \in 0..MaxFaults
    BY <1>5, SpendTyped DEF Tell, TellOK, DbOK, Status
  <2> QED BY <1>5, <2>1, Frame DEF Tell
<1> QED BY <1>1, <1>2, <1>3, <1>4, <1>5 DEF Broadcaster

\* Every variable keeps its type, whatever fails.
THEOREM TypeCorrect == Spec => []TypeOK
<1>1. TypeOK /\ [Next]_vars => TypeOK'
  <2> SUFFICES ASSUME TypeOK, [Next]_vars PROVE TypeOK'
    OBVIOUS
  <2>1. CASE UNCHANGED vars
    BY <2>1, Frame DEF vars, dbVars, daemonVars, threadVars, tellVars, TypeOK
  <2>2. CASE Next
    BY <2>2, DaemonTyped, ThreadTyped, OtherTyped DEF Next
  <2> QED BY <2>1, <2>2
<1> QED BY InitTyped, <1>1, PTL DEF Spec

-----------------------------------------------------------------------------
(* One job for each contest, one report for each batch *)

OneDaemon   == \A d, e \in Daemon : d = e
NoLostReply == "lostreply" \notin Faults

InQueue(c) == \E i \in 1..Len(queue) : queue[i] = c
Running(t, c) == tpc[t] # "idle" /\ job[t] = c
Unreported(c) == \A b \in Batch : analysed[c][b] = 0

\* The daemon may still claim or push contest c.
Claimable(c) ==
    \/ status[c] = "pending"
    \/ \E d \in Daemon : c \in todo[d] \/ (Pushing(d) /\ claimed[d] = c)

\* Such a contest has no job and was never reported.
ClaimIsFresh ==
    \A c \in Contest : Claimable(c) =>
        /\ Unreported(c)
        /\ ~InQueue(c)
        /\ \A t \in Thread : ~Running(t, c)

\* What is being pushed is neither pending nor due in this tick.
PushIsClaimed ==
    \A d \in Daemon : Pushing(d) =>
        status[claimed[d]] # "pending" /\ claimed[d] \notin todo[d]

QueueUnique == \A i, j \in 1..Len(queue) : queue[i] = queue[j] => i = j

\* A queued job is not running yet and has reported nothing.
QueuedIsFresh ==
    \A c \in Contest : InQueue(c) =>
        Unreported(c) /\ \A t \in Thread : ~Running(t, c)

RunnerUnique ==
    \A t, u \in Thread : tpc[t] # "idle" /\ Running(u, job[t]) => t = u

\* What a thread still has to analyse has not been reported.
LeftIsUnreported ==
    \A t \in Thread :
        /\ tpc[t] \in {"start", "select"} => Unreported(job[t])
        /\ tpc[t] \in {"next", "send", "store", "clean"} =>
             \A b \in left[t] :
                (tpc[t] # "clean" \/ b # batch[t]) => analysed[job[t]][b] = 0
        /\ tpc[t] \in {"send", "store"} => batch[t] \in left[t]

JobInv == /\ ClaimIsFresh /\ PushIsClaimed /\ QueueUnique /\ QueuedIsFresh
          /\ RunnerUnique /\ LeftIsUnreported /\ ReportedOnce

LEMMA InitJob == Init => JobInv
BY DEF Init, JobInv, ClaimIsFresh, PushIsClaimed, QueueUnique, QueuedIsFresh,
       RunnerUnique, LeftIsUnreported, ReportedOnce, Claimable, Unreported,
       InQueue, Running, Pushing

\* Writing another label than "pending" makes no contest claimable.
LEMMA NotPending ==
    ASSUME DbOK, NEW c \in Contest, NEW v, v # "pending",
           SetStatus(c, v) \/ MaybeSetStatus(c, v) \/ UNCHANGED status
    PROVE  \A e \in Contest : status'[e] = "pending" => status[e] = "pending"
BY DEF DbOK, SetStatus, MaybeSetStatus

\* A step that frees threads, or moves busy ones, and takes no other part of
\* the invariant's state along.
LEMMA ThreadMove ==
    ASSUME TypeOK, JobInv,
           \A t \in Thread : tpc[t] = "idle" => tpc'[t] = "idle",
           \A c \in Contest : status'[c] = "pending" => status[c] = "pending",
           UNCHANGED <<analysed, queue, daemonVars, job>>
    PROVE  /\ ClaimIsFresh' /\ PushIsClaimed' /\ QueueUnique' /\ QueuedIsFresh'
           /\ RunnerUnique' /\ ReportedOnce'
<1> USE DEF JobInv, TypeOK, Pushing, Running, InQueue, Unreported, daemonVars
<1>1. ClaimIsFresh'
  BY DEF ClaimIsFresh, Claimable
<1>2. PushIsClaimed'
  BY DEF PushIsClaimed, DaemonOK
<1>3. QueueUnique' /\ QueuedIsFresh' /\ ReportedOnce'
  BY DEF QueueUnique, QueuedIsFresh, ReportedOnce
<1>4. RunnerUnique'
  BY DEF RunnerUnique
<1> QED BY <1>1, <1>2, <1>3, <1>4

\* The except clause leaves nothing to report.
LEMMA RaiseMoves ==
    ASSUME TypeOK, NEW t \in Thread, NEW f, Raises(t, f)
    PROVE  /\ tpc'[t] \in {"rescue", "idle"}
           /\ \A u \in Thread : u # t => tpc'[u] = tpc[u]
BY DEF TypeOK, ThreadOK, Raises, ThreadGoes

LEMMA GoMoves ==
    ASSUME TypeOK, NEW t \in Thread, NEW n, ThreadGoes(t, n)
    PROVE  /\ tpc'[t] = n
           /\ \A u \in Thread : u # t => tpc'[u] = tpc[u]
BY DEF TypeOK, ThreadOK, ThreadGoes

LEMMA TickJob ==
    ASSUME TypeOK, JobInv, NEW d \in Daemon, OneDaemon, Tick(d)
    PROVE  JobInv'
<1> USE DEF JobInv, TypeOK, Tick, dbVars, threadVars
<1>1. todo' \in [Daemon -> SUBSET Contest]
  BY DEF DaemonOK, DbOK
<1>2. todo'[d] = {c \in ended : status[c] = "pending"}
  BY DEF DaemonOK
<1>3. ClaimIsFresh'
  BY <1>1, <1>2 DEF ClaimIsFresh, Claimable, Pushing, Running, InQueue,
                    Unreported, OneDaemon, DaemonOK, DbOK
<1>4. PushIsClaimed'
  BY <1>1, <1>2 DEF PushIsClaimed, Pushing, OneDaemon
<1> QED BY <1>3, <1>4 DEF QueueUnique, QueuedIsFresh, RunnerUnique,
        LeftIsUnreported, ReportedOnce, Running, InQueue, Unreported

LEMMA ClaimJob ==
    ASSUME TypeOK, JobInv, NEW d \in Daemon, NEW c \in Contest, OneDaemon,
           Claim(d, c)
    PROVE  JobInv'
<1> USE DEF JobInv, TypeOK, Claim, dbVars, threadVars
<1>1. \A e \in Contest : status'[e] = "pending" => status[e] = "pending"
  BY NotPending
<1>2. ClaimIsFresh'
  BY <1>1 DEF ClaimIsFresh, Claimable, Pushing, Running, InQueue, Unreported,
              OneDaemon, DaemonOK, DbOK, DaemonGoes
<1>3. PushIsClaimed'
  BY <1>1 DEF PushIsClaimed, Pushing, OneDaemon, DaemonOK, DbOK, DaemonGoes,
              SetStatus
<1> QED BY <1>2, <1>3 DEF QueueUnique, QueuedIsFresh, RunnerUnique,
        LeftIsUnreported, ReportedOnce, Running, InQueue, Unreported

LEMMA PushJob ==
    ASSUME TypeOK, JobInv, NEW d \in Daemon, OneDaemon, NoLostReply, Push(d)
    PROVE  JobInv'
<1> USE DEF JobInv, TypeOK, Push, dbVars, threadVars
<1>1. CASE UNCHANGED queue
  BY <1>1 DEF ClaimIsFresh, Claimable, PushIsClaimed, Pushing, QueueUnique,
     QueuedIsFresh, RunnerUnique, LeftIsUnreported, ReportedOnce, Running,
     InQueue, Unreported, DaemonGoes, DaemonOK
<1>2. CASE DaemonGoes(d, "mark") /\ queue' = Append(queue, claimed[d])
  <2>1. Pushing(d) /\ ~Pushing(d)'
    BY <1>2 DEF Pushing, DaemonGoes, DaemonOK
  <2>2. \A c \in Contest : InQueue(c)' <=> InQueue(c) \/ c = claimed[d]
    BY <1>2 DEF InQueue, RedisOK, DaemonOK
  <2>3. \A c \in Contest : Claimable(c)' => Claimable(c) /\ c # claimed[d]
    BY <2>1, <1>2 DEF Claimable, PushIsClaimed, OneDaemon, Pushing, DaemonGoes,
                      DaemonOK
  <2>4. claimed[d] \in Contest /\ Claimable(claimed[d])
    BY <2>1 DEF Claimable, DaemonOK
  <2>5. ClaimIsFresh' /\ QueuedIsFresh'
    BY <2>2, <2>3, <2>4 DEF ClaimIsFresh, QueuedIsFresh, Running, Unreported
  <2>6. QueueUnique'
    BY <1>2, <2>4 DEF QueueUnique, ClaimIsFresh, InQueue, RedisOK
  <2>7. PushIsClaimed'
    BY <2>1, <1>2 DEF PushIsClaimed, OneDaemon
  <2> QED BY <2>5, <2>6, <2>7 DEF RunnerUnique, LeftIsUnreported, ReportedOnce,
          Running, Unreported
<1> QED BY <1>1, <1>2 DEF NoLostReply, Spend

LEMMA RevertJob ==
    ASSUME TypeOK, JobInv, NEW d \in Daemon, OneDaemon, Revert(d)
    PROVE  JobInv'
<1> USE DEF JobInv, TypeOK, Revert, dbVars, threadVars
<1>1. Pushing(d) /\ ~Pushing(d)' /\ claimed[d] \in Contest
  BY DEF Pushing, DaemonGoes, DaemonOK
<1>2. \A c \in Contest : Claimable(c)' => Claimable(c)
  BY <1>1 DEF Claimable, Pushing, SetStatus, MaybeSetStatus, DbOK, DaemonGoes,
              DaemonOK
<1>3. ClaimIsFresh'
  BY <1>2 DEF ClaimIsFresh, Running, InQueue, Unreported
<1>4. PushIsClaimed'
  BY <1>1 DEF PushIsClaimed, OneDaemon
<1> QED BY <1>3, <1>4 DEF QueueUnique, QueuedIsFresh, RunnerUnique,
        LeftIsUnreported, ReportedOnce, Running, InQueue, Unreported

LEMMA MarkJob ==
    ASSUME TypeOK, JobInv, NEW d \in Daemon, Mark(d)
    PROVE  JobInv'
BY DEF TypeOK, JobInv, Mark, dbVars, threadVars, ClaimIsFresh, Claimable,
       PushIsClaimed, Pushing, QueueUnique, QueuedIsFresh, RunnerUnique,
       LeftIsUnreported, ReportedOnce, Running, InQueue, Unreported, DaemonGoes,
       DaemonOK

LEMMA TakeJob ==
    ASSUME TypeOK, JobInv, NEW t \in Thread, Take(t)
    PROVE  JobInv'
<1> USE DEF JobInv, TypeOK, Take, dbVars, daemonVars
<1> DEFINE h == Head(queue)
<1>1. /\ h \in Contest /\ InQueue(h) /\ tpc'[t] = "start" /\ job'[t] = h
      /\ \A u \in Thread : u # t => tpc'[u] = tpc[u] /\ job'[u] = job[u]
  BY DEF InQueue, RedisOK, ThreadOK, ThreadGoes
<1>2. \A i \in 1..Len(queue') : queue'[i] = queue[i + 1] /\ i + 1 \in 1..Len(queue)
  BY DEF RedisOK
<1>3. QueueUnique'
  BY <1>2 DEF QueueUnique, RedisOK
<1>4. \A c \in Contest : InQueue(c)' => InQueue(c) /\ c # h
  BY <1>2 DEF QueueUnique, InQueue, RedisOK
<1>5. \A c \in Contest, u \in Thread :
        Running(u, c)' => Running(u, c) \/ (u = t /\ c = h)
  BY <1>1 DEF Running
<1>6. ClaimIsFresh'
  BY <1>1, <1>4, <1>5 DEF ClaimIsFresh, Claimable, Unreported, Pushing
<1>7. QueuedIsFresh'
  BY <1>4, <1>5 DEF QueuedIsFresh, Unreported
<1>8. RunnerUnique'
  BY <1>1, <1>5 DEF RunnerUnique, QueuedIsFresh, Running, ThreadOK
<1>9. LeftIsUnreported'
  BY <1>1 DEF LeftIsUnreported, QueuedIsFresh, Unreported, ThreadOK
<1> QED BY <1>3, <1>6, <1>7, <1>8, <1>9
        DEF PushIsClaimed, ReportedOnce, Pushing

LEMMA StartJob ==
    ASSUME TypeOK, JobInv, NEW t \in Thread, Start(t)
    PROVE  JobInv'
<1> USE DEF Start
<1>1. \A e \in Contest : status'[e] = "pending" => status[e] = "pending"
  BY NotPending DEF TypeOK, ThreadOK
<1>2. /\ tpc'[t] \in {"select", "mark", "rescue", "idle"}
      /\ \A u \in Thread : u # t => tpc'[u] = tpc[u]
  BY RaiseMoves, GoMoves
<1>3. LeftIsUnreported'
  BY <1>2 DEF JobInv, LeftIsUnreported, Unreported
<1> QED BY <1>1, <1>2, <1>3, ThreadMove DEF JobInv

LEMMA SelectJob ==
    ASSUME TypeOK, JobInv, NEW t \in Thread, Select(t)
    PROVE  JobInv'
<1> USE DEF Select, dbVars
<1>1. /\ tpc'[t] \in {"next", "rescue", "idle"}
      /\ \A u \in Thread : u # t => tpc'[u] = tpc[u] /\ left'[u] = left[u]
  BY RaiseMoves, GoMoves DEF TypeOK, ThreadOK
<1>2. left'[t] \subseteq Batch
  BY BatchesTyped DEF TypeOK, ThreadOK
<1>3. LeftIsUnreported'
  BY <1>1, <1>2 DEF JobInv, LeftIsUnreported, Unreported
<1> QED BY <1>1, <1>3, ThreadMove DEF JobInv

LEMMA PrepareJob ==
    ASSUME TypeOK, JobInv, NEW t \in Thread, NEW b \in Batch, Prepare(t, b)
    PROVE  JobInv'
<1> USE DEF Prepare, dbVars
<1>1. /\ tpc'[t] \in {"next", "send", "rescue", "idle"}
      /\ \A u \in Thread : u # t => /\ tpc'[u] = tpc[u] /\ left'[u] = left[u]
                                    /\ batch'[u] = batch[u]
      /\ left'[t] \subseteq left[t]
      /\ tpc'[t] = "send" => batch'[t] \in left'[t]
  BY RaiseMoves, GoMoves DEF TypeOK, ThreadOK
<1>2. LeftIsUnreported'
  BY <1>1 DEF JobInv, LeftIsUnreported, Unreported
<1> QED BY <1>1, <1>2, ThreadMove DEF JobInv

LEMMA SendJob ==
    ASSUME TypeOK, JobInv, NEW t \in Thread, Send(t)
    PROVE  JobInv'
<1> USE DEF Send, dbVars
<1>1. /\ tpc'[t] \in {"store", "rescue", "idle"}
      /\ \A u \in Thread : u # t => tpc'[u] = tpc[u]
  BY RaiseMoves, GoMoves
<1>2. LeftIsUnreported'
  BY <1>1 DEF JobInv, LeftIsUnreported, Unreported
<1> QED BY <1>1, <1>2, ThreadMove DEF JobInv

\* The report that is committed is of a batch that had none, of a contest that
\* only this thread is auditing.
LEMMA StoreJob ==
    ASSUME TypeOK, JobInv, NEW t \in Thread, Store(t)
    PROVE  JobInv'
<1> USE DEF Store
<1> DEFINE c == job[t]
           b == batch[t]
<1>1. /\ tpc'[t] \in {"clean", "rescue", "idle"} /\ tpc[t] = "store"
      /\ \A u \in Thread : u # t => tpc'[u] = tpc[u]
      /\ tpc'[t] = "clean" => AddReport(t)
  BY RaiseMoves, GoMoves
<1>2. CASE UNCHANGED analysed
  <2>1. tpc'[t] \in {"rescue", "idle"}
    BY <1>1, <1>2 DEF AddReport, TypeOK, DbOK, ThreadOK
  <2>2. LeftIsUnreported'
    BY <1>1, <1>2, <2>1 DEF JobInv, LeftIsUnreported, Unreported
  <2> QED BY <1>1, <1>2, <2>2, ThreadMove DEF JobInv
<1>3. CASE AddReport(t)
  <2> USE DEF JobInv
  <2>1. c \in Contest /\ b \in Batch /\ Running(t, c) /\ analysed[c][b] = 0
    BY <1>1 DEF TypeOK, ThreadOK, Running, LeftIsUnreported
  <2>2. /\ analysed'[c][b] = 1
        /\ \A e \in Contest, x \in Batch :
             e # c \/ x # b => analysed'[e][x] = analysed[e][x]
    BY <1>3, <2>1 DEF AddReport, TypeOK, DbOK
  <2>3. ReportedOnce'
    BY <2>1, <2>2 DEF ReportedOnce
  <2>4. ~Claimable(c) /\ ~InQueue(c)
    BY <2>1 DEF ClaimIsFresh, QueuedIsFresh
  <2>5. \A u \in Thread, e \in Contest : Running(u, e)' => Running(u, e)
    BY <1>1 DEF Running
  <2>6. ClaimIsFresh'
    BY <2>2, <2>4, <2>5 DEF ClaimIsFresh, Claimable, Pushing, InQueue,
                            Unreported, daemonVars
  <2>7. QueuedIsFresh'
    BY <2>2, <2>4, <2>5 DEF QueuedIsFresh, InQueue, Unreported
  <2>8. RunnerUnique'
    BY <2>5, <1>1 DEF RunnerUnique, Running
  <2>9. \A u \in Thread : tpc[u] # "idle" /\ u # t => job[u] # c
    BY <2>1, <1>1 DEF RunnerUnique, Running
  <2>10. LeftIsUnreported'
    BY <1>1, <2>2, <2>9 DEF LeftIsUnreported, Unreported, TypeOK, ThreadOK
  <2> QED BY <2>3, <2>6, <2>7, <2>8, <2>10
          DEF PushIsClaimed, QueueUnique, Pushing, daemonVars
<1> QED BY <1>2, <1>3

LEMMA CleanJob ==
    ASSUME TypeOK, JobInv, NEW t \in Thread, Clean(t)
    PROVE  JobInv'
<1> USE DEF Clean, dbVars
<1>1. /\ tpc'[t] = "next" /\ left'[t] = left[t] \ {batch[t]}
      /\ \A u \in Thread : u # t => tpc'[u] = tpc[u] /\ left'[u] = left[u]
  BY GoMoves DEF TypeOK, ThreadOK
<1>2. LeftIsUnreported'
  BY <1>1 DEF JobInv, LeftIsUnreported, Unreported
<1> QED BY <1>1, <1>2, ThreadMove DEF JobInv

LEMMA FinishJob ==
    ASSUME TypeOK, JobInv, NEW t \in Thread,
           Finish(t) \/ MarkOutcome(t) \/ Rescue(t) \/ MarkFailed(t)
    PROVE  JobInv'
<1> USE DEF Finish, MarkOutcome, Rescue, MarkFailed, dbVars
<1>1. \A e \in Contest : status'[e] = "pending" => status[e] = "pending"
  BY NotPending DEF TypeOK, ThreadOK
<1>2. /\ tpc'[t] \in {"mark", "rescue", "markfailed", "idle"}
      /\ tpc[t] # "idle"
      /\ \A u \in Thread : u # t => tpc'[u] = tpc[u]
  BY RaiseMoves, GoMoves
<1>3. LeftIsUnreported'
  BY <1>2 DEF JobInv, LeftIsUnreported, Unreported
<1> QED BY <1>1, <1>2, <1>3, ThreadMove DEF JobInv

LEMMA CrashJob == ASSUME TypeOK, JobInv, Crash PROVE JobInv'
<1>1. LeftIsUnreported'
  BY DEF Crash, LeftIsUnreported
<1> QED BY <1>1, ThreadMove DEF JobInv, Crash, dbVars

LEMMA DeleteJob ==
    ASSUME TypeOK, JobInv, NEW c \in Contest, Delete(c)
    PROVE  JobInv'
<1> USE DEF JobInv, Delete, daemonVars, threadVars
<1>1. /\ \A e \in Contest : status'[e] = "pending" => status[e] = "pending"
      /\ \A e \in Contest, b \in Batch :
           analysed'[e][b] = analysed[e][b] \/ analysed'[e][b] = 0
  BY DEF TypeOK, DbOK
<1>2. ClaimIsFresh' /\ QueuedIsFresh'
  BY <1>1 DEF ClaimIsFresh, QueuedIsFresh, Claimable, Pushing, Running, InQueue,
              Unreported
<1>3. PushIsClaimed'
  BY <1>1 DEF PushIsClaimed, Pushing, TypeOK, DaemonOK
<1>4. LeftIsUnreported'
  BY <1>1 DEF LeftIsUnreported, Unreported, TypeOK, ThreadOK
<1>5. ReportedOnce'
  BY <1>1 DEF ReportedOnce
<1> QED BY <1>2, <1>3, <1>4, <1>5 DEF QueueUnique, RunnerUnique, Running

\* Steps that touch no part of the invariant's state.
LEMMA AsideJob ==
    ASSUME JobInv,
           UNCHANGED <<status, analysed, queue, daemonVars, threadVars>>
    PROVE  JobInv'
BY DEF JobInv, daemonVars, threadVars, ClaimIsFresh, Claimable, PushIsClaimed,
       Pushing, QueueUnique, QueuedIsFresh, RunnerUnique, LeftIsUnreported,
       ReportedOnce, Running, InQueue, Unreported

LEMMA JobInductive ==
    ASSUME OneDaemon, NoLostReply, TypeOK, JobInv, [Next]_vars
    PROVE  JobInv'
<1>1. CASE UNCHANGED vars
  BY <1>1, AsideJob DEF vars, daemonVars, threadVars
<1>2. ASSUME NEW c \in Contest, End(c) PROVE JobInv'
  BY <1>2, AsideJob DEF End, dbVars
<1>3. ASSUME NEW c \in Contest, Delete(c) PROVE JobInv'
  BY <1>3, DeleteJob
<1>4. ASSUME NEW d \in Daemon, DaemonStep(d) PROVE JobInv'
  BY <1>4, TickJob, ClaimJob, PushJob, RevertJob, MarkJob DEF DaemonStep
<1>5. ASSUME NEW t \in Thread, ThreadStep(t) PROVE JobInv'
  BY <1>5, TakeJob, StartJob, SelectJob, PrepareJob, SendJob, StoreJob,
     CleanJob, FinishJob DEF ThreadStep
<1>6. CASE Crash
  BY <1>6, CrashJob
<1>7. CASE Broadcaster
  BY <1>7, AsideJob DEF Broadcaster, Sweep, Tell, dbVars
<1> QED BY <1>1, <1>2, <1>3, <1>4, <1>5, <1>6, <1>7 DEF Next

\* The invariant leaves no room for two holders of a job.
LEMMA OneHolder ==
    ASSUME OneDaemon, TypeOK, JobInv
    PROVE  OneJobPerContest
<1> SUFFICES ASSUME NEW c \in Contest, NEW x \in Holders(c), NEW y \in Holders(c)
             PROVE  x = y
  BY DEF OneJobPerContest
<1> USE DEF JobInv
<1>1. \A d \in Daemon : Pushing(d) /\ claimed[d] = c => Claimable(c)
  BY DEF Claimable
<1>2. CASE Claimable(c)
  BY <1>2 DEF Holders, OneDaemon, ClaimIsFresh, InQueue, Running
<1>3. CASE ~Claimable(c) /\ InQueue(c)
  BY <1>1, <1>3 DEF Holders, QueuedIsFresh, QueueUnique, Running, InQueue
<1>4. CASE ~Claimable(c) /\ ~InQueue(c)
  BY <1>1, <1>4 DEF Holders, RunnerUnique, InQueue, Running
<1> QED BY <1>2, <1>3, <1>4

-----------------------------------------------------------------------------
(* A completed audit is whole *)

\* A completed audit has a report of every batch of its contest.
Whole(c) == status[c] = "completed" => \A b \in BatchesOf[c] : analysed[c][b] # 0

\* What a thread has no more to analyse has its report.
RestDone(t) ==
    tpc[t] \in {"next", "send", "store", "clean"} /\ status[job[t]] # "gone" =>
      /\ \A b \in BatchesOf[job[t]] : b \in left[t] \/ analysed[job[t]][b] # 0
      /\ tpc[t] = "clean" => analysed[job[t]][batch[t]] # 0

WholeInv == (\A c \in Contest : Whole(c)) /\ \A t \in Thread : RestDone(t)

\* A contest that is gone stays gone, and only its deletion removes a report.
Lasts == \A c \in Contest :
    /\ status[c] = "gone" => status'[c] = "gone"
    /\ status'[c] # "gone" =>
         \A b \in Batch : analysed[c][b] # 0 => analysed'[c][b] # 0

LEMMA SetLasts ==
    ASSUME TypeOK, NEW e \in Contest, NEW v \in Status, MaybeSetStatus(e, v),
           UNCHANGED analysed
    PROVE  /\ Lasts
           /\ \A c \in Contest : status'[c] = "completed" =>
                status[c] = "completed" \/ (c = e /\ v = "completed" /\ status[e] # "gone")
BY DEF TypeOK, DbOK, MaybeSetStatus, SetStatus, Lasts, Status

LEMMA StillLasts ==
    ASSUME UNCHANGED dbVars
    PROVE  Lasts /\ \A c \in Contest : status'[c] = "completed" => status[c] = "completed"
BY DEF Lasts, dbVars

\* A step that records nothing completed and leaves no thread with less done.
LEMMA WholeKept ==
    ASSUME TypeOK, WholeInv, Lasts,
           \A c \in Contest : status'[c] = "completed" => status[c] = "completed",
           \A t \in Thread :
             \/ RestDone(t)'
             \/ /\ tpc'[t] = tpc[t] /\ job'[t] = job[t] /\ left'[t] = left[t]
                /\ batch'[t] = batch[t]
    PROVE  WholeInv'
<1>1. ASSUME NEW c \in Contest PROVE Whole(c)'
  <2>1. BatchesOf[c] \subseteq Batch /\ Whole(c)
    BY BatchesTyped DEF WholeInv
  <2>2. ASSUME status'[c] = "completed", NEW b \in BatchesOf[c] PROVE analysed'[c][b] # 0
    <3>1. status[c] = "completed" /\ analysed[c][b] # 0 /\ b \in Batch
      BY <2>1, <2>2 DEF Whole
    <3> QED BY <2>2, <3>1 DEF Lasts
  <2> QED BY <2>2 DEF Whole
<1>2. ASSUME NEW t \in Thread PROVE RestDone(t)'
  <2>1. job[t] \in Contest /\ batch[t] \in Batch /\ BatchesOf[job[t]] \subseteq Batch
    BY BatchesTyped DEF TypeOK, ThreadOK
  <2>2. CASE /\ tpc'[t] = tpc[t] /\ job'[t] = job[t] /\ left'[t] = left[t]
             /\ batch'[t] = batch[t]
    BY <2>1, <2>2 DEF WholeInv, RestDone, Lasts
  <2> QED BY <2>2
<1> QED BY <1>1, <1>2 DEF WholeInv

LEMMA WholeInit == Init => WholeInv
BY DEF Init, WholeInv, Whole, RestDone

LEMMA WholeInductive ==
    ASSUME TypeOK, WholeInv, [Next]_vars
    PROVE  WholeInv'
<1> DEFINE Same == \A t \in Thread :
                     /\ tpc'[t] = tpc[t] /\ job'[t] = job[t] /\ left'[t] = left[t]
                     /\ batch'[t] = batch[t]
           Others(t) == \A u \in Thread \ {t} :
                     /\ tpc'[u] = tpc[u] /\ job'[u] = job[u] /\ left'[u] = left[u]
                     /\ batch'[u] = batch[u]
<1>1. CASE UNCHANGED vars
  <2>1. Same /\ UNCHANGED dbVars
    BY <1>1 DEF vars, threadVars, dbVars
  <2> QED BY <2>1, StillLasts, WholeKept
<1>2. ASSUME NEW c \in Contest, End(c) PROVE WholeInv'
  <2>1. Same /\ UNCHANGED dbVars
    BY <1>2 DEF End, threadVars
  <2> QED BY <2>1, StillLasts, WholeKept
<1>3. ASSUME NEW c \in Contest, Delete(c) PROVE WholeInv'
  <2>1. Same
    BY <1>3 DEF Delete, threadVars
  <2>2. Lasts /\ \A e \in Contest : status'[e] = "completed" => status[e] = "completed"
    BY <1>3 DEF Delete, Lasts, TypeOK, DbOK
  <2> QED BY <2>1, <2>2, WholeKept
<1>4. ASSUME NEW d \in Daemon, DaemonStep(d) PROVE WholeInv'
  <2>1. Same
    BY <1>4 DEF DaemonStep, Tick, Claim, Push, Revert, Mark, threadVars
  <2>2. Lasts /\ \A e \in Contest : status'[e] = "completed" => status[e] = "completed"
    <3>1. CASE Tick(d) \/ Push(d) \/ Mark(d)
      BY <3>1, StillLasts DEF Tick, Push, Mark
    <3>2. ASSUME NEW c \in Contest, Claim(d, c)
          PROVE  MaybeSetStatus(c, "in_progress") /\ UNCHANGED analysed
      BY <3>2, SetStatusMaybe DEF Claim
    <3>3. CASE Revert(d)
      <4>1. claimed[d] \in Contest
        BY DEF TypeOK, DaemonOK
      <4>2. MaybeSetStatus(claimed[d], "pending") /\ UNCHANGED analysed
        BY <3>3, SetStatusMaybe DEF Revert
      <4> QED BY <4>1, <4>2, SetLasts DEF Status
    <3> QED BY <1>4, <3>1, <3>2, <3>3, SetLasts DEF DaemonStep, Status
  <2> QED BY <2>1, <2>2, WholeKept
<1>5. CASE Crash
  <2>1. UNCHANGED dbVars /\ \A t \in Thread : tpc'[t] = "idle"
    BY <1>5 DEF Crash
  <2>2. \A t \in Thread : RestDone(t)'
    BY <2>1 DEF RestDone
  <2> QED BY <2>1, <2>2, StillLasts, WholeKept
<1>6. CASE Broadcaster
  <2>1. Same /\ UNCHANGED dbVars
    BY <1>6 DEF Broadcaster, Sweep, Tell, threadVars
  <2> QED BY <2>1, StillLasts, WholeKept
<1>7. ASSUME NEW t \in Thread, ThreadStep(t) PROVE WholeInv'
  <2> DEFINE c == job[t]
             b == batch[t]
  <2>0. /\ c \in Contest /\ b \in Batch /\ BatchesOf[c] \subseteq Batch /\ RestDone(t)
        /\ left[t] \subseteq Batch
    BY BatchesTyped DEF TypeOK, ThreadOK, WholeInv
  <2>1. CASE Take(t)
    <3>1. Others(t) /\ tpc'[t] = "start" /\ UNCHANGED dbVars
      BY <2>1, GoMoves DEF Take, TypeOK, ThreadOK
    <3>2. RestDone(t)'
      BY <3>1 DEF RestDone
    <3> QED BY <3>1, <3>2, StillLasts, WholeKept
  <2>2. CASE Start(t) \/ Rescue(t)
    <3>1. Others(t) /\ tpc'[t] \notin {"next", "send", "store", "clean"}
      BY <2>2, GoMoves, RaiseMoves DEF Start, Rescue
    <3>2. MaybeSetStatus(c, "failed") /\ UNCHANGED analysed
      BY <2>2, SetStatusMaybe DEF Start, Rescue, MaybeSetStatus
    <3>3. Lasts /\ \A e \in Contest : status'[e] = "completed" => status[e] = "completed"
      BY <2>0, <3>2, SetLasts DEF Status
    <3>4. RestDone(t)'
      BY <3>1 DEF RestDone
    <3> QED BY <3>1, <3>3, <3>4, WholeKept
  <2>3. CASE Select(t)
    <3>1. /\ Others(t) /\ tpc'[t] \in {"next", "rescue", "idle"} /\ UNCHANGED <<dbVars, job>>
          /\ tpc'[t] = "next" /\ status[c] # "gone" => left'[t] = BatchesOf[c]
      BY <2>3, GoMoves, RaiseMoves DEF Select, TypeOK, ThreadOK
    <3>2. RestDone(t)'
      BY <3>1 DEF RestDone, dbVars
    <3> QED BY <3>1, <3>2, StillLasts, WholeKept
  <2>4. ASSUME NEW x \in Batch, Prepare(t, x) PROVE WholeInv'
    <3>1. /\ Others(t) /\ UNCHANGED <<dbVars, job>> /\ tpc[t] = "next"
          /\ tpc'[t] \in {"next", "send", "rescue", "idle"}
          /\ tpc'[t] \in {"next", "send"} /\ status[c] # "gone" => left'[t] = left[t]
      BY <2>4, GoMoves, RaiseMoves DEF Prepare, TypeOK, ThreadOK
    <3>2. RestDone(t)'
      BY <2>0, <3>1 DEF RestDone, dbVars
    <3> QED BY <3>1, <3>2, StillLasts, WholeKept
  <2>5. CASE Send(t)
    <3>1. /\ Others(t) /\ UNCHANGED <<dbVars, job, left>> /\ tpc[t] = "send"
          /\ tpc'[t] \in {"store", "rescue", "idle"}
      BY <2>5, GoMoves, RaiseMoves DEF Send
    <3>2. RestDone(t)'
      BY <2>0, <3>1 DEF RestDone, dbVars
    <3> QED BY <3>1, <3>2, StillLasts, WholeKept
  <2>6. CASE Store(t)
    <3>1. /\ Others(t) /\ UNCHANGED <<status, job, left, batch>> /\ tpc[t] = "store"
          /\ tpc'[t] \in {"clean", "rescue", "idle"}
          /\ tpc'[t] = "clean" => AddReport(t)
          /\ AddReport(t) \/ UNCHANGED analysed
      BY <2>6, GoMoves, RaiseMoves DEF Store
    <3>2. AddReport(t) => /\ analysed'[c][b] # 0
                          /\ \A e \in Contest, x \in Batch :
                               analysed[e][x] # 0 => analysed'[e][x] # 0
      BY <2>0 DEF AddReport, TypeOK, DbOK
    <3>3. Lasts /\ \A e \in Contest : status'[e] = "completed" => status[e] = "completed"
      BY <3>1, <3>2 DEF Lasts
    <3>4. RestDone(t)'
      BY <2>0, <3>1, <3>2 DEF RestDone
    <3> QED BY <3>1, <3>3, <3>4, WholeKept
  <2>7. CASE Clean(t)
    <3>1. /\ Others(t) /\ UNCHANGED <<dbVars, job>> /\ tpc[t] = "clean" /\ tpc'[t] = "next"
          /\ left'[t] = left[t] \ {b}
      BY <2>7, GoMoves DEF Clean, TypeOK, ThreadOK
    <3>2. RestDone(t)'
      BY <2>0, <3>1 DEF RestDone, dbVars
    <3> QED BY <3>1, <3>2, StillLasts, WholeKept
  <2>8. CASE Finish(t)
    <3>1. /\ Others(t) /\ UNCHANGED <<analysed, job, left>> /\ tpc[t] = "next"
          /\ tpc'[t] \notin {"next", "send", "store", "clean"} /\ left[t] = {}
          /\ MaybeSetStatus(c, "completed")
      BY <2>8, GoMoves, RaiseMoves, SetStatusMaybe DEF Finish
    <3>2. /\ Lasts
          /\ \A e \in Contest : status'[e] = "completed" =>
               status[e] = "completed" \/ (e = c /\ status[c] # "gone")
      BY <2>0, <3>1, SetLasts DEF Status
    <3>3. ASSUME NEW e \in Contest PROVE Whole(e)'
      <4>1. status[c] # "gone" => \A x \in BatchesOf[c] : analysed[c][x] # 0
        BY <2>0, <3>1 DEF RestDone
      <4> QED BY <3>1, <3>2, <4>1 DEF WholeInv, Whole
    <3>4. ASSUME NEW u \in Thread PROVE RestDone(u)'
      <4>1. CASE u = t
        BY <3>1, <4>1 DEF RestDone
      <4>2. CASE u # t
        <5>1. job[u] \in Contest /\ RestDone(u)
          BY DEF TypeOK, ThreadOK, WholeInv
        <5> QED BY <3>1, <3>2, <4>2, <5>1 DEF RestDone, Lasts
      <4> QED BY <4>1, <4>2
    <3> QED BY <3>3, <3>4 DEF WholeInv
  <2>9. CASE MarkOutcome(t) \/ MarkFailed(t)
    <3>1. /\ Others(t) /\ UNCHANGED dbVars
          /\ tpc'[t] \notin {"next", "send", "store", "clean"}
      BY <2>9, GoMoves, RaiseMoves DEF MarkOutcome, MarkFailed
    <3>2. RestDone(t)'
      BY <3>1 DEF RestDone
    <3> QED BY <3>1, <3>2, StillLasts, WholeKept
  <2> QED BY <1>7, <2>1, <2>2, <2>3, <2>4, <2>5, <2>6, <2>7, <2>8, <2>9 DEF ThreadStep
<1> QED BY <1>1, <1>2, <1>3, <1>4, <1>5, <1>6, <1>7 DEF Next

-----------------------------------------------------------------------------
(* An outcome stands *)

\* The daemon holds no contest whose audit has ended.
ClaimableOpen == \A c \in Contest : Claimable(c) => status[c] \notin Final

\* How a step moves a status: the daemon for a contest it may claim, a thread
\* for the one it runs.
Moved(c) ==
    \/ status'[c] = status[c] \/ status'[c] = "gone"
    \/ Claimable(c) /\ status'[c] \in {"pending", "in_progress"}
    \/ (\E t \in Thread : Running(t, c)) /\ status'[c] \in Final

LEMMA StatusMoves ==
    ASSUME TypeOK, [Next]_vars, NEW c \in Contest
    PROVE  Moved(c)
<1>1. CASE UNCHANGED status
  BY <1>1 DEF Moved
<1>2. ASSUME NEW e \in Contest, Delete(e) PROVE Moved(c)
  BY <1>2 DEF Delete, Moved, TypeOK, DbOK
<1>3. ASSUME NEW e \in Contest, NEW v, MaybeSetStatus(e, v)
      PROVE  status'[c] = status[c] \/ (e = c /\ status'[c] = v)
  BY <1>3 DEF MaybeSetStatus, SetStatus, TypeOK, DbOK
<1>4. ASSUME NEW d \in Daemon, DaemonStep(d) PROVE Moved(c)
  <2>1. CASE Tick(d) \/ Push(d) \/ Mark(d)
    BY <2>1, <1>1 DEF Tick, Push, Mark, dbVars
  <2>2. ASSUME NEW e \in Contest, Claim(d, e) PROVE Moved(c)
    <3>1. MaybeSetStatus(e, "in_progress") /\ Claimable(e)
      BY <2>2, SetStatusMaybe DEF Claim, Claimable
    <3> QED BY <1>3, <3>1 DEF Moved
  <2>3. CASE Revert(d)
    <3>1. claimed[d] \in Contest /\ Claimable(claimed[d])
      BY <2>3 DEF Revert, TypeOK, DaemonOK, Claimable, Pushing
    <3>2. MaybeSetStatus(claimed[d], "pending")
      BY <2>3, SetStatusMaybe DEF Revert
    <3> QED BY <1>3, <3>1, <3>2 DEF Moved
  <2> QED BY <1>4, <2>1, <2>2, <2>3 DEF DaemonStep
<1>5. ASSUME NEW t \in Thread, ThreadStep(t) PROVE Moved(c)
  <2>1. CASE Start(t) \/ Finish(t) \/ Rescue(t)
    <3>1. job[t] \in Contest /\ Running(t, job[t])
      BY <2>1 DEF Start, Finish, Rescue, TypeOK, ThreadOK, Running
    <3>2. MaybeSetStatus(job[t], "failed") \/ MaybeSetStatus(job[t], "completed")
      BY <2>1, SetStatusMaybe DEF Start, Finish, Rescue, MaybeSetStatus
    <3> QED BY <1>3, <3>1, <3>2 DEF Moved, Final
  <2>2. CASE UNCHANGED status
    BY <1>1, <2>2
  <2> QED BY <1>5, <2>1, <2>2
          DEF ThreadStep, Take, Select, Prepare, Send, Store, Clean, MarkOutcome,
              MarkFailed, dbVars
<1> QED BY <1>1, <1>2, <1>4, <1>5
        DEF Next, vars, dbVars, End, Crash, Broadcaster, Sweep, Tell

\* A contest the daemon may claim was claimable before, or was pending.
LEMMA ClaimableBefore ==
    ASSUME TypeOK, PushIsClaimed, [Next]_vars, NEW c \in Contest, Claimable(c)'
    PROVE  Claimable(c)
<1>0. status'[c] = "pending" => Claimable(c)
  BY StatusMoves DEF Moved, Claimable, Final
<1>1. CASE UNCHANGED daemonVars
  BY <1>0, <1>1 DEF Claimable, Pushing, daemonVars
<1>2. ASSUME NEW d \in Daemon, DaemonStep(d) PROVE Claimable(c)
  <2>1. CASE Tick(d)
    BY <1>0, <2>1 DEF Tick, Claimable, Pushing, TypeOK, DaemonOK, dbVars
  <2>2. ASSUME NEW e \in Contest, Claim(d, e) PROVE Claimable(c)
    BY <1>0, <2>2 DEF Claim, Claimable, Pushing, DaemonGoes, TypeOK, DaemonOK
  <2>3. CASE Push(d) \/ Revert(d) \/ Mark(d)
    BY <1>0, <2>3 DEF Push, Revert, Mark, Claimable, Pushing, DaemonGoes, TypeOK, DaemonOK
  <2> QED BY <1>2, <2>1, <2>2, <2>3 DEF DaemonStep
<1> QED BY <1>1, <1>2
        DEF Next, vars, daemonVars, End, Delete, ThreadStep, Take, Start, Select, Prepare,
            Send, Store, Clean, Finish, MarkOutcome, Rescue, MarkFailed, Crash, Broadcaster,
            Sweep, Tell

LEMMA OpenInductive ==
    ASSUME TypeOK, JobInv, ClaimableOpen, [Next]_vars
    PROVE  ClaimableOpen'
<1> SUFFICES ASSUME NEW c \in Contest, Claimable(c)' PROVE status'[c] \notin Final
  BY DEF ClaimableOpen
<1>1. Claimable(c)
  BY ClaimableBefore DEF JobInv
<1>2. ~\E t \in Thread : Running(t, c)
  BY <1>1 DEF JobInv, ClaimIsFresh
<1> QED BY <1>1, <1>2, StatusMoves DEF Moved, ClaimableOpen, Final

-----------------------------------------------------------------------------
(* The theorems *)

\* With one instance of the API, and unless a push fails after Redis executed
\* it, no contest ever has two audits, and no batch is reported twice: through
\* failures of the database, Redis, S3 and MOSS, restarts of the worker and the
\* deletion of the contest.
THEOREM AuditedOnce ==
    ASSUME OneDaemon, NoLostReply
    PROVE  Spec => [](OneJobPerContest /\ ReportedOnce)
<1>1. TypeOK /\ JobInv /\ [Next]_vars => JobInv'
  BY JobInductive
<1>2. TypeOK /\ JobInv => OneJobPerContest /\ ReportedOnce
  BY OneHolder DEF JobInv
<1> QED BY InitJob, TypeCorrect, <1>1, <1>2, PTL DEF Spec

\* A completed audit has a report of every batch of the contest, whatever fails
\* and however many daemons run (moss_auditor.py:139, :154).
THEOREM CompletedIsReported ==
    Spec => [](\A c \in Contest : status[c] = "completed" =>
                 \A b \in BatchesOf[c] : analysed[c][b] # 0)
<1>1. TypeOK /\ WholeInv /\ [Next]_vars => WholeInv'
  BY WholeInductive
<1>2. WholeInv => \A c \in Contest : status[c] = "completed" =>
                    \A b \in BatchesOf[c] : analysed[c][b] # 0
  BY DEF WholeInv, Whole
<1> QED BY WholeInit, TypeCorrect, <1>1, <1>2, PTL DEF Spec

\* With one instance of the API and no push that fails after its execution, the
\* reports of a completed audit are whole: one for every batch.
THEOREM ReportsComplete ==
    ASSUME OneDaemon, NoLostReply
    PROVE  Spec => []ReportsAreWhole
<1>1. /\ TypeOK /\ ReportedOnce
      /\ \A c \in Contest : status[c] = "completed" =>
           \A b \in BatchesOf[c] : analysed[c][b] # 0
      => ReportsAreWhole
  <2> SUFFICES ASSUME TypeOK, ReportedOnce, NEW c \in Contest, NEW b \in BatchesOf[c],
                      analysed[c][b] # 0
               PROVE  analysed[c][b] = 1
    BY DEF ReportsAreWhole
  <2>1. b \in Batch
    BY BatchesTyped
  <2>2. analysed[c][b] \in Nat /\ analysed[c][b] <= 1
    BY <2>1 DEF ReportedOnce, TypeOK, DbOK
  <2> QED BY <2>2
<1> QED BY <1>1, AuditedOnce, CompletedIsReported, TypeCorrect, PTL

\* Under the same conditions the outcome of an audit stands: neither a daemon
\* that reverts a failed push nor one that claims late overwrites it.
THEOREM OutcomesStand ==
    ASSUME OneDaemon, NoLostReply
    PROVE  Spec => OutcomeStands
<1>1. TypeOK /\ JobInv /\ ClaimableOpen /\ [Next]_vars => JobInv' /\ ClaimableOpen'
  BY JobInductive, OpenInductive
<1>2. Init => ClaimableOpen
  BY DEF Init, ClaimableOpen, Final
<1>3. ClaimableOpen /\ TypeOK /\ [Next]_vars =>
        [\A c \in Contest : status[c] \in Final => status'[c] \in Final \cup {"gone"}]_vars
  BY StatusMoves DEF Moved, ClaimableOpen
<1> QED BY InitJob, TypeCorrect, <1>1, <1>2, <1>3, PTL DEF Spec, OutcomeStands

=============================================================================
