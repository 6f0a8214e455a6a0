------------------------- MODULE LeaderboardProofs -------------------------
(****************************************************************************)
(* Theorems about Leaderboard, for any contests, contestants, writers and   *)
(* pages: no change of a standing is forgotten, the numbers shown are those *)
(* that were credited, and students are sent no alerts.  First, that what   *)
(* the API reads back from a score is what the worker wrote into it.        *)
(****************************************************************************)
EXTENDS Leaderboard, TLAPS

-----------------------------------------------------------------------------
(* The codec of scores *)

\* One more solve moves the score to that of the new standing.
LEMMA IncrementEncodes ==
    ASSUME NEW s \in Nat, NEW p \in Nat, NEW q \in Nat
    PROVE  Encode(s, p) + Increment(q) = Encode(s + 1, p + q)
BY SMT DEF Encode, Increment, Scale, Minute

\* Rounding up recovers the number of solves.
LEMMA CeilingIsSolves ==
    ASSUME NEW s \in Nat, NEW p \in Nat, p < Scale, s = 0 => p = 0
    PROVE  Solves(Encode(s, p)) = s
<1>1. CASE s = 0
  BY <1>1, SMT DEF Solves, Encode, Scale, Minute
<1>2. CASE s # 0
  <2>1. Encode(s, p) \in Int /\ Encode(s, p) > 0
    BY <1>2, SMT DEF Encode, Scale, Minute
  <2>2. (Encode(s, p) + Scale - 1) \div Scale = s
    BY SMT DEF Encode, Scale, Minute
  <2> QED BY <2>1, <2>2, Zenon DEF Solves
<1> QED BY <1>1, <1>2, Zenon

\* solves = math.Ceil(score) and penalty = math.Round((solves - score) * 100000)
\* of FetchEnrichedLeaderboard recover the worker's solves and penalty.
THEOREM DecodeEncode ==
    ASSUME NEW s \in Nat, NEW p \in Nat, p < Scale, s = 0 => p = 0
    PROVE  /\ Solves(Encode(s, p)) = s
           /\ PenaltyMinutes(Encode(s, p)) = Rounded(p)
<1>1. Solves(Encode(s, p)) = s
  BY CeilingIsSolves, Zenon
<1>2. s * Scale - Encode(s, p) = p
  BY SMT DEF Encode, Scale, Minute
<1> QED BY <1>1, <1>2, Zenon DEF PenaltyMinutes, Rounded

\* ZREVRANGE orders contestants by solves first and by penalty second.
THEOREM RanksAsIcpc ==
    ASSUME NEW s \in Nat, NEW p \in Nat, p < Scale,
           NEW t \in Nat, NEW q \in Nat, q < Scale
    PROVE  Encode(s, p) > Encode(t, q) <=> s > t \/ (s = t /\ p < q)
BY SMT DEF Encode, Scale, Minute

\* The bound is tight: at 100000 minutes a solve disappears.
THEOREM BoundIsTight ==
    ASSUME NEW s \in Nat \ {0}
    PROVE  Solves(Encode(s, Scale)) = s - 1
BY SMT DEF Solves, Encode, Scale, Minute

-----------------------------------------------------------------------------
(* Type correctness *)

\* What a handler or the daemon reads is a well-formed payload.
LEMMA EntryTyped ==
    ASSUME StandingOK, NEW c \in Contest, NEW u \in User
    PROVE  EntryOf(c, u) \in Entry
<1>1. points[c][u] \in Int
  BY DEF StandingOK
<1>2. Solves(points[c][u]) \in Int
  BY <1>1, SMT DEF Solves, Scale, Minute
<1>3. PenaltyMinutes(points[c][u]) \in Int
  BY <1>1, <1>2, SMT DEF PenaltyMinutes, Scale, Minute
<1> QED BY <1>2, <1>3 DEF EntryOf, Entry

LEMMA BoardTyped ==
    ASSUME StandingOK, NEW c \in Contest
    PROVE  BoardOf(c) \in [User -> Entry \cup {NotListed}]
BY EntryTyped DEF BoardOf

LEMMA WithBoardTyped ==
    ASSUME StandingOK, NEW c \in Contest, NEW p \in Payload, NEW a \in BOOLEAN
    PROVE  WithBoard(p, c, a) \in Payload
BY BoardTyped DEF WithBoard, Payload

LEMMA BlankTyped == Blank \in Payload
BY DEF Blank, Payload, Status

LEMMA InitTyped == Init => TypeOK
<1> SUFFICES ASSUME Init PROVE TypeOK
  OBVIOUS
<1>1. current \in Contest
  BY ViewsTyped DEF Init
<1>2. StandingOK /\ MarksOK
  BY DEF Init, StandingOK, MarksOK, Status
<1>3. DaemonOK
  BY <1>1, BlankTyped DEF Init, DaemonOK, DaemonStep
<1>4. ViewOK
  BY BlankTyped DEF Init, ViewOK, ViewStep
<1> QED BY <1>2, <1>3, <1>4, BoundsTyped DEF Init, TypeOK

\* A group of variables that a step leaves alone keeps its types.
LEMMA Frame ==
    ASSUME TypeOK
    PROVE  /\ UNCHANGED standing => StandingOK'
           /\ UNCHANGED <<dirty, marking>> => MarksOK'
           /\ UNCHANGED daemonVars => DaemonOK'
           /\ UNCHANGED viewVars => ViewOK'
           /\ UNCHANGED budget => (budget \in 0..MaxFaults)'
BY DEF TypeOK, StandingOK, MarksOK, DaemonOK, ViewOK, standing, daemonVars,
       viewVars

LEMMA SpendTyped ==
    ASSUME budget \in 0..MaxFaults, NEW f, Spend(f)
    PROVE  budget' \in 0..MaxFaults
BY BoundsTyped DEF Spend

LEMMA ReadsStatusTyped ==
    ASSUME budget \in 0..MaxFaults, NEW r, NEW c, ReadsStatus(r, c)
    PROVE  budget' \in 0..MaxFaults
BY SpendTyped DEF ReadsStatus

LEMMA WriteTyped ==
    ASSUME TypeOK, NEW w \in Writer, Write(w) \/ Mark(w)
    PROVE  TypeOK'
<1>1. ASSUME NEW c \in Contest, AuditMoves(w, c) PROVE TypeOK'
  <2>1. StandingOK'
    BY <1>1 DEF AuditMoves, TypeOK, StandingOK, Status, Final
  <2>2. MarksOK'
    BY <1>1 DEF AuditMoves, TypeOK, MarksOK
  <2> QED BY <1>1, <2>1, <2>2, Frame DEF AuditMoves, TypeOK
<1>2. ASSUME NEW c \in Contest, NEW u \in User, NEW p \in Penalty,
             Credit(w, c, u, p)
      PROVE  TypeOK'
  <2>1. p \in Nat /\ Increment(p) \in Int
    BY BoundsTyped, SMT DEF Increment, Scale, Minute
  <2>2. StandingOK'
    BY <1>2, <2>1 DEF Credit, TypeOK, StandingOK
  <2>3. MarksOK'
    BY <1>2 DEF Credit, TypeOK, MarksOK
  <2> QED BY <1>2, <2>2, <2>3, Frame DEF Credit, TypeOK
<1>3. CASE Mark(w)
  <2>1. MarksOK'
    BY <1>3 DEF Mark, TypeOK, MarksOK
  <2>2. budget' \in 0..MaxFaults
    BY <1>3, SpendTyped DEF Mark, TypeOK
  <2> QED BY <1>3, <2>1, <2>2, Frame DEF Mark, TypeOK
<1> QED BY <1>1, <1>2, <1>3 DEF Write

LEMMA EnrollTyped ==
    ASSUME TypeOK, NEW c \in Contest, NEW u \in User, EnrollUser(c, u)
    PROVE  TypeOK'
<1>1. StandingOK'
  BY DEF EnrollUser, TypeOK, StandingOK
<1> QED BY <1>1, Frame DEF EnrollUser, TypeOK

LEMMA BroadcastTyped ==
    ASSUME TypeOK, NEW role, NEW p \in Payload, Broadcast(role, p)
    PROVE  /\ inbox' \in [Viewer -> Seq(Payload)]
           /\ budget' \in 0..MaxFaults
<1>1. CASE Deliver(role, p) /\ UNCHANGED budget
  <2>1. \A v \in Viewer : Append(inbox[v], p) \in Seq(Payload)
    BY DEF TypeOK, ViewOK
  <2> QED BY <1>1, <2>1 DEF Deliver, TypeOK, ViewOK
<1>2. CASE UNCHANGED inbox /\ Spend("publish")
  BY <1>2, SpendTyped DEF TypeOK, ViewOK
<1> QED BY <1>1, <1>2 DEF Broadcast

LEMMA StrippedTyped ==
    ASSUME NEW p \in Payload, NEW s \in Status
    PROVE  /\ [p EXCEPT !.alerts = FALSE] \in Payload
           /\ [p EXCEPT !.status = s] \in Payload
BY DEF Payload

LEMMA DaemonTyped ==
    ASSUME TypeOK, Daemon
    PROVE  TypeOK'
<1>1. CASE Snapshot
  <2>1. DaemonOK'
    BY <1>1 DEF Snapshot, TypeOK, DaemonOK, MarksOK, DaemonStep
  <2> QED BY <1>1, <2>1, Frame DEF Snapshot, TypeOK, viewVars
<1>2. ASSUME NEW c \in Contest, TakeMark(c) PROVE TypeOK'
  <2>1. DaemonOK'
    BY <1>2 DEF TakeMark, TypeOK, DaemonOK, DaemonStep
  <2>2. MarksOK'
    BY <1>2 DEF TakeMark, TypeOK, MarksOK
  <2>3. budget' \in 0..MaxFaults
    BY <1>2, SpendTyped DEF TakeMark, TypeOK
  <2> QED BY <1>2, <2>1, <2>2, <2>3, Frame DEF TakeMark, TypeOK
<1>3. CASE ReadBoard
  <2>1. WithBoard(draft, current, TRUE) \in Payload
    BY WithBoardTyped DEF TypeOK, DaemonOK
  <2>2. DaemonOK'
    BY <1>3, <2>1 DEF ReadBoard, Continue, TypeOK, DaemonOK, DaemonStep
  <2>3. budget' \in 0..MaxFaults
    BY <1>3, SpendTyped DEF ReadBoard, TypeOK
  <2> QED BY <1>3, <2>2, <2>3, Frame DEF ReadBoard, TypeOK
<1>4. CASE ReadStatus
  <2>1. PICK r \in Status : /\ ReadsStatus(r, current)
                            /\ draft' = [draft EXCEPT !.status = r]
    BY <1>4 DEF ReadStatus
  <2>2. draft' \in Payload /\ budget' \in 0..MaxFaults
    BY <2>1, StrippedTyped, ReadsStatusTyped DEF TypeOK, DaemonOK
  <2>3. DaemonOK'
    BY <1>4, <2>2 DEF ReadStatus, TypeOK, DaemonOK, DaemonStep
  <2> QED BY <1>4, <2>2, <2>3, Frame DEF ReadStatus, TypeOK
<1>5. CASE PublishFaculty
  <2>1. inbox' \in [Viewer -> Seq(Payload)] /\ budget' \in 0..MaxFaults
    BY <1>5, BroadcastTyped DEF PublishFaculty, TypeOK, DaemonOK
  <2>2. ViewOK'
    BY <1>5, <2>1 DEF PublishFaculty, TypeOK, ViewOK
  <2>3. DaemonOK'
    BY <1>5 DEF PublishFaculty, TypeOK, DaemonOK, DaemonStep
  <2> QED BY <1>5, <2>1, <2>2, <2>3, Frame DEF PublishFaculty, TypeOK
<1>6. CASE PublishStudent
  <2>1. inbox' \in [Viewer -> Seq(Payload)] /\ budget' \in 0..MaxFaults
    BY <1>6, BroadcastTyped, StrippedTyped DEF PublishStudent, TypeOK, DaemonOK,
       Status
  <2>2. ViewOK'
    BY <1>6, <2>1 DEF PublishStudent, TypeOK, ViewOK
  <2>3. DaemonOK'
    BY <1>6, BlankTyped DEF PublishStudent, Continue, TypeOK, DaemonOK, DaemonStep
  <2> QED BY <1>6, <2>1, <2>2, <2>3, Frame DEF PublishStudent, TypeOK
<1> QED BY <1>1, <1>2, <1>3, <1>4, <1>5, <1>6 DEF Daemon

LEMMA PageTyped ==
    ASSUME TypeOK, NEW v \in Viewer, Page(v) \/ Reconnect(v)
    PROVE  TypeOK'
<1>1. ViewOf[v] \in Contest /\ fetched[v] \in Payload /\ shown[v] \in Payload
  BY ViewsTyped DEF TypeOK, ViewOK
<1>2. CASE FetchBoard(v)
  <2>1. WithBoard(Blank, ViewOf[v], Role[v] = "faculty") \in Payload
    BY <1>1, BlankTyped, WithBoardTyped DEF TypeOK
  <2>2. ViewOK'
    BY <1>1, <1>2, <2>1 DEF FetchBoard, Goes, TypeOK, ViewOK, ViewStep
  <2>3. budget' \in 0..MaxFaults
    BY <1>2, SpendTyped DEF FetchBoard, TypeOK
  <2> QED BY <1>2, <2>2, <2>3, Frame DEF FetchBoard, TypeOK
<1>3. CASE GetStatus(v)
  <2>1. PICK r \in Status :
          /\ ReadsStatus(r, ViewOf[v])
          /\ shown' = [shown EXCEPT ![v] = [fetched[v] EXCEPT !.status = r]]
          /\ Goes(v, IF r \in Final THEN "closed" ELSE "open")
    BY <1>3 DEF GetStatus
  <2>2. [fetched[v] EXCEPT !.status = r] \in Payload
    BY <1>1, StrippedTyped
  <2>3. ViewOK'
    BY <1>3, <2>1, <2>2, BlankTyped DEF GetStatus, Goes, TypeOK, ViewOK, ViewStep
  <2>4. budget' \in 0..MaxFaults
    BY <2>1, ReadsStatusTyped DEF TypeOK
  <2> QED BY <1>3, <2>3, <2>4, Frame DEF GetStatus, TypeOK
<1>4. CASE FetchStatus(v)
  <2>1. PICK r \in Status :
          /\ ReadsStatus(r, ViewOf[v])
          /\ fetched' = [fetched EXCEPT ![v] = [fetched[v] EXCEPT !.status = r]]
          /\ Goes(v, IF r \in Final THEN "gone" ELSE "subscribe")
    BY <1>4 DEF FetchStatus
  <2>2. [fetched[v] EXCEPT !.status = r] \in Payload
    BY <1>1, StrippedTyped
  <2>3. ViewOK'
    BY <1>4, <2>1, <2>2 DEF FetchStatus, Goes, TypeOK, ViewOK, ViewStep
  <2>4. budget' \in 0..MaxFaults
    BY <2>1, ReadsStatusTyped DEF TypeOK
  <2> QED BY <1>4, <2>3, <2>4, Frame DEF FetchStatus, TypeOK
<1>5. CASE Subscribe(v)
  <2>1. ViewOK'
    BY <1>5 DEF Subscribe, Goes, TypeOK, ViewOK, ViewStep
  <2> QED BY <1>5, <2>1, Frame DEF Subscribe, TypeOK
<1>6. CASE SendInitial(v)
  <2>1. ViewOK'
    BY <1>1, <1>6, BlankTyped DEF SendInitial, Goes, TypeOK, ViewOK, ViewStep
  <2> QED BY <1>6, <2>1, Frame DEF SendInitial, TypeOK
<1>7. CASE Relay(v)
  <2>1. inbox[v] \in Seq(Payload) /\ inbox[v] # <<>>
    BY <1>7 DEF Relay, TypeOK, ViewOK
  <2>2. Head(inbox[v]) \in Payload /\ Tail(inbox[v]) \in Seq(Payload)
    BY <2>1
  <2>3. ViewOK'
    BY <1>7, <2>2 DEF Relay, Goes, TypeOK, ViewOK, ViewStep
  <2> QED BY <1>7, <2>3, Frame DEF Relay, TypeOK
<1>8. CASE Reconnect(v)
  <2>1. ViewOK'
    BY <1>8 DEF Reconnect, Goes, TypeOK, ViewOK, ViewStep
  <2> QED BY <1>8, <2>1, Frame DEF Reconnect, TypeOK
<1> QED BY <1>2, <1>3, <1>4, <1>5, <1>6, <1>7, <1>8 DEF Page

LEMMA NextTyped == TypeOK /\ [Next]_vars => TypeOK'
<1> SUFFICES ASSUME TypeOK, [Next]_vars PROVE TypeOK'
  OBVIOUS
<1>1. CASE UNCHANGED vars
  BY <1>1, Frame DEF vars, standing, daemonVars, viewVars, TypeOK
<1>2. CASE Next
  BY <1>2, EnrollTyped, WriteTyped, DaemonTyped, PageTyped DEF Next
<1> QED BY <1>1, <1>2

\* Every variable keeps its type.
THEOREM TypeCorrect == Spec => []TypeOK
BY InitTyped, NextTyped, PTL DEF Spec

-----------------------------------------------------------------------------
(* No change is forgotten *)

InBody == dstep \in {"board", "status", "faculty", "student"}

\* A change of c is still to be told, or something has failed.
Excused(c) == c \in dirty \/ (\E w \in Writer : marking[w] = c) \/ ~Unharmed

\* Otherwise the daemon holds the latest of c, while it works on c, or has
\* published it.
Kept(c) == IF current = c /\ InBody THEN DaemonHas(c) ELSE Fresh(last[c], c)

\* Whoever has points is in the sorted set, so ZREVRANGE returns the entry.
PointsListed ==
    \A c \in Contest, u \in User : points[c][u] # 0 => u \in member[c]

MarkInv == PointsListed /\ \A c \in Contest : Excused(c) \/ Kept(c)

LEMMA FreshSame ==
    ASSUME NEW c, NEW p, points'[c] = points[c], status'[c] = status[c], Fresh(p, c)
    PROVE  Fresh(p, c)'
BY DEF Fresh, EntryOf

LEMMA KeptSame ==
    ASSUME NEW c, points'[c] = points[c], status'[c] = status[c],
           UNCHANGED daemonVars, Kept(c)
    PROVE  Kept(c)'
BY DEF Kept, InBody, DaemonHas, Fresh, EntryOf, daemonVars

\* A failure is remembered.
LEMMA HarmStays ==
    ASSUME TypeOK, budget' = budget \/ \E f \in {"mark", "read", "publish"} : Spend(f)
    PROVE  /\ ~Unharmed => ~Unharmed'
           /\ budget' # budget => ~Unharmed'
BY BoundsTyped DEF TypeOK, Spend, Unharmed

LEMMA ExcusedSame ==
    ASSUME TypeOK, NEW c, Excused(c), UNCHANGED <<dirty, marking>>,
           budget' = budget \/ \E f \in {"mark", "read", "publish"} : Spend(f)
    PROVE  Excused(c)'
BY HarmStays DEF Excused

\* A step that fails leaves nothing to show.
LEMMA FailureExcuses ==
    ASSUME TypeOK, NEW f, Spend(f)
    PROVE  ~Unharmed'
BY BoundsTyped DEF TypeOK, Spend, Unharmed

LEMMA BoardFresh ==
    ASSUME PointsListed, NEW c \in Contest, NEW p \in Payload
    PROVE  Fresh([WithBoard(p, c, TRUE) EXCEPT !.status = status[c]], c)
<1> DEFINE q == [WithBoard(p, c, TRUE) EXCEPT !.status = status[c]]
<1>1. q.status = status[c] /\ q.board = BoardOf(c)
  BY DEF WithBoard, Payload
<1>2. \A u \in User : points[c][u] # 0 => q.board[u] = EntryOf(c, u)
  BY <1>1 DEF BoardOf, PointsListed
<1> QED BY <1>1, <1>2 DEF Fresh

LEMMA InitMarked == Init => MarkInv
BY DEF Init, MarkInv, PointsListed, Excused, Kept, InBody, Fresh, Blank

LEMMA WriteMarked ==
    ASSUME TypeOK, MarkInv, NEW w \in Writer, Write(w) \/ Mark(w)
    PROVE  MarkInv'
<1>1. ASSUME NEW d \in Contest, AuditMoves(w, d) PROVE MarkInv'
  <2>1. PointsListed'
    BY <1>1 DEF AuditMoves, MarkInv, PointsListed
  <2>2. marking'[w] = d /\ \A x \in Writer : marking[x] \in Contest => x # w
    BY <1>1, ViewsTyped DEF AuditMoves, TypeOK, MarksOK
  <2>3. ASSUME NEW c \in Contest, c # d PROVE Excused(c)' \/ Kept(c)'
    <3>1. Excused(c) => Excused(c)'
      BY <1>1, <2>2, HarmStays DEF AuditMoves, Excused, TypeOK, MarksOK
    <3>2. points'[c] = points[c] /\ status'[c] = status[c]
      BY <1>1, <2>3 DEF AuditMoves, TypeOK, StandingOK
    <3> QED BY <1>1, <3>1, <3>2, KeptSame DEF AuditMoves, MarkInv
  <2>4. Excused(d)'
    BY <2>2 DEF Excused
  <2> QED BY <2>1, <2>3, <2>4 DEF MarkInv
<1>2. ASSUME NEW d \in Contest, NEW u \in User, NEW p \in Penalty,
             Credit(w, d, u, p)
      PROVE  MarkInv'
  <2>1. PointsListed'
    BY <1>2 DEF Credit, MarkInv, PointsListed, TypeOK, StandingOK
  <2>2. marking'[w] = d /\ \A x \in Writer : marking[x] \in Contest => x # w
    BY <1>2, ViewsTyped DEF Credit, TypeOK, MarksOK
  <2>3. ASSUME NEW c \in Contest, c # d PROVE Excused(c)' \/ Kept(c)'
    <3>1. Excused(c) => Excused(c)'
      BY <1>2, <2>2, HarmStays DEF Credit, Excused, TypeOK, MarksOK
    <3>2. points'[c] = points[c] /\ status'[c] = status[c]
      BY <1>2, <2>3 DEF Credit, TypeOK, StandingOK
    <3> QED BY <1>2, <3>1, <3>2, KeptSame DEF Credit, MarkInv
  <2>4. Excused(d)'
    BY <2>2 DEF Excused
  <2> QED BY <2>1, <2>3, <2>4 DEF MarkInv
<1>3. CASE Mark(w)
  <2>1. PointsListed'
    BY <1>3 DEF Mark, MarkInv, PointsListed, standing
  <2>2. ASSUME NEW c \in Contest, Excused(c) PROVE Excused(c)'
    <3>1. CASE Spend("mark")
      BY <3>1, FailureExcuses DEF Excused
    <3>2. CASE dirty' = dirty \cup {marking[w]} /\ UNCHANGED budget
      BY <1>3, <2>2, <3>2, HarmStays DEF Mark, Excused, TypeOK, MarksOK
    <3> QED BY <1>3, <3>1, <3>2 DEF Mark
  <2>3. ASSUME NEW c \in Contest, Kept(c) PROVE Kept(c)'
    BY <1>3, <2>3, KeptSame DEF Mark, standing
  <2> QED BY <2>1, <2>2, <2>3 DEF MarkInv
<1> QED BY <1>1, <1>2, <1>3 DEF Write

\* A step of the daemon on contest d: the others are as before.
LEMMA DaemonMarked ==
    ASSUME TypeOK, MarkInv, Daemon
    PROVE  MarkInv'
<1>1. PointsListed'
  BY DEF Daemon, Snapshot, TakeMark, ReadBoard, ReadStatus, PublishFaculty,
         PublishStudent, MarkInv, PointsListed, standing
<1>2. CASE Snapshot
  <2>1. ASSUME NEW c \in Contest PROVE Excused(c)' \/ Kept(c)'
    <3>1. Excused(c) => Excused(c)'
      BY <1>2, ExcusedSame DEF Snapshot
    <3>2. Kept(c) => Kept(c)'
      BY <1>2, FreshSame DEF Snapshot, standing, Kept, InBody
    <3> QED BY <3>1, <3>2 DEF MarkInv
  <2> QED BY <1>1, <2>1 DEF MarkInv
<1>3. ASSUME NEW d \in Contest, TakeMark(d) PROVE MarkInv'
  <2>1. Kept(d)'
    BY <1>3 DEF TakeMark, Kept, InBody, DaemonHas
  <2>2. ASSUME NEW c \in Contest, c # d PROVE Excused(c)' \/ Kept(c)'
    <3>1. Excused(c) => Excused(c)'
      BY <1>3, <2>2, HarmStays DEF TakeMark, Excused
    <3>2. Kept(c) => Kept(c)'
      BY <1>3, <2>2, FreshSame DEF TakeMark, standing, Kept, InBody
    <3> QED BY <3>1, <3>2 DEF MarkInv
  <2> QED BY <1>1, <2>1, <2>2 DEF MarkInv
<1>4. CASE ReadBoard
  <2>1. CASE Spend("read")
    BY <1>1, <2>1, FailureExcuses DEF MarkInv, Excused
  <2>2. CASE /\ draft' = WithBoard(draft, current, TRUE) /\ dstep' = "status"
             /\ UNCHANGED budget
    <3>1. Kept(current)'
      <4>1. Fresh([draft' EXCEPT !.status = status[current]], current)
        BY <2>2, BoardFresh DEF TypeOK, DaemonOK, MarkInv
      <4>2. Fresh([draft EXCEPT !.status = status[current]], current)'
        BY <1>4, <4>1 DEF ReadBoard, standing, Fresh, EntryOf
      <4>3. dstep' = "status" /\ InBody'
        BY <2>2 DEF InBody
      <4>4. DaemonHas(current)'
        BY <4>2, <4>3, Zenon DEF DaemonHas
      <4> QED BY <4>3, <4>4, Zenon DEF Kept
    <3>2. ASSUME NEW c \in Contest, c # current PROVE Excused(c)' \/ Kept(c)'
      <4>1. Excused(c) => Excused(c)'
        BY <1>4, <2>2, ExcusedSame DEF ReadBoard
      <4>2. Kept(c) => Kept(c)'
        BY <1>4, <3>2, FreshSame DEF ReadBoard, standing, Kept
      <4> QED BY <4>1, <4>2 DEF MarkInv
    <3>3. current' = current
      BY <1>4 DEF ReadBoard
    <3> QED BY <1>1, <3>1, <3>2, <3>3 DEF MarkInv
  <2> QED BY <1>4, <2>1, <2>2 DEF ReadBoard
<1>5. CASE ReadStatus
  <2>1. PICK r \in Status : /\ ReadsStatus(r, current)
                            /\ draft' = [draft EXCEPT !.status = r]
    BY <1>5 DEF ReadStatus
  <2>2. CASE Spend("read")
    BY <1>1, <2>2, FailureExcuses DEF MarkInv, Excused
  <2>3. CASE r = status[current] /\ UNCHANGED budget
    <3>1. ASSUME NEW c \in Contest PROVE Excused(c)' \/ Kept(c)'
      <4>1. Excused(c) => Excused(c)'
        BY <1>5, <2>3, ExcusedSame DEF ReadStatus
      <4>2. CASE c = current
        BY <1>5, <2>1, <2>3, <4>1, <4>2, FreshSame
           DEF ReadStatus, standing, MarkInv, Kept, InBody, DaemonHas
      <4>3. CASE c # current
        BY <1>5, <4>1, <4>3, FreshSame DEF ReadStatus, standing, MarkInv, Kept
      <4> QED BY <4>2, <4>3
    <3> QED BY <1>1, <3>1 DEF MarkInv
  <2> QED BY <2>1, <2>2, <2>3 DEF ReadsStatus
<1>6. CASE PublishFaculty
  <2>1. budget' = budget \/ Spend("publish")
    BY <1>6 DEF PublishFaculty, Broadcast
  <2>2. ASSUME NEW c \in Contest PROVE Excused(c)' \/ Kept(c)'
    <3>1. Excused(c) => Excused(c)'
      BY <1>6, <2>1, ExcusedSame DEF PublishFaculty
    <3>2. Kept(c) => Kept(c)'
      BY <1>6, FreshSame DEF PublishFaculty, standing, Kept, InBody, DaemonHas
    <3> QED BY <3>1, <3>2 DEF MarkInv
  <2> QED BY <1>1, <2>2 DEF MarkInv
<1>7. CASE PublishStudent
  <2>1. budget' = budget \/ Spend("publish")
    BY <1>7 DEF PublishStudent, Broadcast
  <2>2. ASSUME NEW c \in Contest PROVE Excused(c)' \/ Kept(c)'
    <3>1. Excused(c) => Excused(c)'
      BY <1>7, <2>1, ExcusedSame DEF PublishStudent
    <3>2. last' = [last EXCEPT ![current] = draft] /\ ~InBody'
      BY <1>7 DEF PublishStudent, Continue, InBody
    <3>3. CASE c = current
      <4>1. Kept(c) => Fresh(draft, c)
        BY <1>7, <3>3 DEF PublishStudent, Kept, InBody, DaemonHas
      <4>2. last'[c] = draft
        BY <3>2, <3>3 DEF TypeOK, DaemonOK
      <4>3. Fresh(draft, c) => Fresh(last[c], c)'
        BY <1>7, <4>2 DEF PublishStudent, standing, Fresh, EntryOf
      <4> QED BY <3>1, <3>2, <4>1, <4>3 DEF MarkInv, Kept
    <3>4. CASE c # current
      <4>1. last'[c] = last[c]
        BY <3>2, <3>4 DEF TypeOK, DaemonOK
      <4> QED BY <1>7, <3>1, <3>2, <3>4, <4>1, FreshSame
              DEF PublishStudent, standing, MarkInv, Kept, Fresh, EntryOf
    <3> QED BY <3>3, <3>4
  <2> QED BY <1>1, <2>2 DEF MarkInv
<1> QED BY <1>2, <1>3, <1>4, <1>5, <1>6, <1>7 DEF Daemon

\* Registration and the pages touch nothing that is told.
LEMMA OthersMarked ==
    ASSUME TypeOK, MarkInv,
           \/ \E c \in Contest, u \in User : EnrollUser(c, u)
           \/ \E v \in Viewer : Page(v) \/ Reconnect(v)
    PROVE  MarkInv'
<1>1. /\ UNCHANGED <<points, status, dirty, marking, daemonVars>>
      /\ budget' = budget \/ Spend("read")
  BY DEF EnrollUser, Page, Reconnect, FetchBoard, GetStatus, FetchStatus,
         Subscribe, SendInitial, Relay, ReadsStatus, standing
<1>2. PointsListed'
  <2>1. \A c \in Contest : member[c] \subseteq member'[c]
    BY DEF EnrollUser, Page, Reconnect, FetchBoard, GetStatus, FetchStatus,
           Subscribe, SendInitial, Relay, standing, TypeOK, StandingOK
  <2> QED BY <1>1, <2>1 DEF MarkInv, PointsListed
<1>3. ASSUME NEW c \in Contest PROVE Excused(c)' \/ Kept(c)'
  <2>1. Excused(c) => Excused(c)'
    BY <1>1, ExcusedSame
  <2>2. Kept(c) => Kept(c)'
    BY <1>1, KeptSame
  <2> QED BY <2>1, <2>2 DEF MarkInv
<1> QED BY <1>2, <1>3 DEF MarkInv

LEMMA NextMarked == TypeOK /\ MarkInv /\ [Next]_vars => MarkInv'
<1> SUFFICES ASSUME TypeOK, MarkInv, [Next]_vars PROVE MarkInv'
  OBVIOUS
<1>1. CASE UNCHANGED vars
  <2>1. PointsListed'
    BY <1>1 DEF vars, MarkInv, PointsListed
  <2>2. ASSUME NEW c \in Contest PROVE Excused(c)' \/ Kept(c)'
    BY <1>1, ExcusedSame, KeptSame DEF vars, daemonVars, MarkInv
  <2> QED BY <2>1, <2>2 DEF MarkInv
<1>2. CASE Next
  BY <1>2, OthersMarked, WriteMarked, DaemonMarked DEF Next
<1> QED BY <1>1, <1>2

LEMMA MarkedNotForgotten == MarkInv => NothingForgotten
BY DEF MarkInv, NothingForgotten, Excused, Kept

\* A change of a standing is never forgotten unless a call to Redis or the
\* database fails: StartLeaderboardDaemon takes the mark off before it reads,
\* and whoever writes marks afterwards.
THEOREM ChangesTold == Spec => []NothingForgotten
<1>1. Spec => []MarkInv
  BY InitMarked, NextMarked, TypeCorrect, PTL DEF Spec
<1> QED BY <1>1, MarkedNotForgotten, PTL

-----------------------------------------------------------------------------
(* The numbers shown *)

\* The score of every user encodes what the user earned.
ScoreInv ==
    \A c \in Contest, u \in User :
        /\ points[c][u] = Encode(earned[c][u].solves, earned[c][u].penalty)
        /\ earned[c][u].solves = 0 => earned[c][u].penalty = 0

LEMMA InitScored == Init => ScoreInv
<1>1. Encode(0, 0) = 0
  BY SMT DEF Encode, Scale, Minute
<1> QED BY <1>1 DEF Init, ScoreInv

LEMMA NextScored == TypeOK /\ ScoreInv /\ [Next]_vars => ScoreInv'
<1> SUFFICES ASSUME TypeOK, ScoreInv, [Next]_vars PROVE ScoreInv'
  OBVIOUS
<1>1. ASSUME NEW w \in Writer, NEW d \in Contest, NEW x \in User,
             NEW p \in Penalty, Credit(w, d, x, p)
      PROVE  ScoreInv'
  <2> SUFFICES ASSUME NEW c \in Contest, NEW u \in User
               PROVE  /\ points'[c][u] = Encode(earned'[c][u].solves,
                                                earned'[c][u].penalty)
                      /\ earned'[c][u].solves = 0 => earned'[c][u].penalty = 0
    BY DEF ScoreInv
  <2>1. CASE c = d /\ u = x
    <3> DEFINE s == earned[c][u].solves
               q == earned[c][u].penalty
    <3>1. s \in Nat /\ q \in Nat /\ p \in Nat
      BY BoundsTyped DEF TypeOK, StandingOK
    <3>2. /\ earned'[c][u] = [solves |-> s + 1, penalty |-> q + p]
          /\ points'[c][u] = points[c][u] + Increment(p)
      BY <1>1, <2>1 DEF Credit, TypeOK, StandingOK
    <3>3. Encode(s, q) + Increment(p) = Encode(s + 1, q + p)
      BY <3>1, IncrementEncodes
    <3>4. points[c][u] = Encode(s, q)
      BY DEF ScoreInv
    <3>5. s + 1 # 0
      BY <3>1
    <3> QED BY <3>2, <3>3, <3>4, <3>5
  <2>2. CASE ~(c = d /\ u = x)
    BY <1>1, <2>2 DEF Credit, ScoreInv, TypeOK, StandingOK
  <2> QED BY <2>1, <2>2
<1>2. CASE UNCHANGED <<earned, points>>
  BY <1>2 DEF ScoreInv
<1>3. \/ UNCHANGED <<earned, points>>
      \/ \E w \in Writer, d \in Contest, x \in User, p \in Penalty :
            Credit(w, d, x, p)
  BY DEF Next, vars, EnrollUser, Write, AuditMoves, Mark, Daemon, Snapshot,
         TakeMark, ReadBoard, ReadStatus, PublishFaculty, PublishStudent, Page,
         Reconnect, FetchBoard, GetStatus, FetchStatus, Subscribe, SendInitial,
         Relay, standing
<1> QED BY <1>1, <1>2, <1>3

LEMMA ScoredIsEarned == TypeOK /\ ScoreInv => BoardIsEarned
<1> SUFFICES ASSUME TypeOK, ScoreInv, NEW c \in Contest, NEW u \in member[c],
                    earned[c][u].penalty < Scale
             PROVE  EntryOf(c, u) = [solves  |-> earned[c][u].solves,
                                     penalty |-> Rounded(earned[c][u].penalty)]
  BY DEF BoardIsEarned
<1>1. u \in User
  BY DEF TypeOK, StandingOK
<1>2. earned[c][u].solves \in Nat /\ earned[c][u].penalty \in Nat
  BY <1>1 DEF TypeOK, StandingOK
<1>3. /\ points[c][u] = Encode(earned[c][u].solves, earned[c][u].penalty)
      /\ earned[c][u].solves = 0 => earned[c][u].penalty = 0
  BY <1>1 DEF ScoreInv
<1>4. /\ Solves(points[c][u]) = earned[c][u].solves
      /\ PenaltyMinutes(points[c][u]) = Rounded(earned[c][u].penalty)
  BY <1>2, <1>3, DecodeEncode
<1> QED BY <1>4 DEF EntryOf

\* Whatever was credited in whatever order, FetchEnrichedLeaderboard decodes the
\* solves and penalty of every contestant, below 100000 minutes of penalty.
THEOREM BoardTrue == Spec => []BoardIsEarned
<1>1. Spec => []ScoreInv
  BY InitScored, NextScored, TypeCorrect, PTL DEF Spec
<1> QED BY <1>1, TypeCorrect, ScoredIsEarned, PTL

-----------------------------------------------------------------------------
(* Students and alerts *)

\* Nothing on its way to a student's page carries alerts.
AlertInv ==
    \A v \in Viewer : Role[v] = "student" =>
        /\ ~shown[v].alerts /\ ~fetched[v].alerts
        /\ \A i \in 1..Len(inbox[v]) : ~inbox[v][i].alerts

LEMMA BlankQuiet == ~Blank.alerts
BY DEF Blank

LEMMA InitQuiet == Init => AlertInv
BY BlankQuiet DEF Init, AlertInv

LEMMA BroadcastQuiet ==
    ASSUME TypeOK, AlertInv, NEW role, NEW p \in Payload, Broadcast(role, p),
           role = "student" => ~p.alerts, UNCHANGED <<shown, fetched>>
    PROVE  AlertInv'
<1>1. CASE Deliver(role, p)
  <2> SUFFICES ASSUME NEW v \in Viewer, Role[v] = "student",
                      NEW i \in 1..Len(inbox'[v])
               PROVE  ~inbox'[v][i].alerts
    BY DEF AlertInv
  <2>1. inbox[v] \in Seq(Payload)
    BY DEF TypeOK, ViewOK
  <2>2. CASE inbox'[v] = inbox[v]
    BY <2>2 DEF AlertInv
  <2>3. CASE inbox'[v] = Append(inbox[v], p) /\ role = "student"
    <3>1. i = Len(inbox[v]) + 1 \/ i \in 1..Len(inbox[v])
      BY <2>1, <2>3
    <3>2. CASE i = Len(inbox[v]) + 1
      BY <2>1, <2>3, <3>2
    <3>3. CASE i \in 1..Len(inbox[v])
      <4>1. inbox'[v][i] = inbox[v][i]
        BY <2>1, <2>3, <3>3
      <4> QED BY <3>3, <4>1 DEF AlertInv
    <3> QED BY <3>1, <3>2, <3>3
  <2> QED BY <1>1, <2>2, <2>3 DEF Deliver
<1>2. CASE UNCHANGED inbox
  BY <1>2 DEF AlertInv
<1> QED BY <1>1, <1>2 DEF Broadcast

LEMMA PageQuiet ==
    ASSUME TypeOK, AlertInv, NEW v \in Viewer, Page(v) \/ Reconnect(v)
    PROVE  AlertInv'
<1>1. fetched[v] \in Payload /\ shown[v] \in Payload /\ inbox[v] \in Seq(Payload)
  BY DEF TypeOK, ViewOK
\* It suffices to look at the page that moves.
<1>2. ASSUME \A x \in Viewer \ {v} : /\ shown'[x] = shown[x]
                                     /\ fetched'[x] = fetched[x]
                                     /\ inbox'[x] = inbox[x],
             Role[v] = "student" =>
                 /\ ~shown'[v].alerts /\ ~fetched'[v].alerts
                 /\ \A i \in 1..Len(inbox'[v]) : ~inbox'[v][i].alerts
      PROVE  AlertInv'
  <2> SUFFICES ASSUME NEW x \in Viewer, Role[x] = "student"
               PROVE  /\ ~shown'[x].alerts /\ ~fetched'[x].alerts
                      /\ \A i \in 1..Len(inbox'[x]) : ~inbox'[x][i].alerts
    BY DEF AlertInv
  <2>1. CASE x = v
    BY <1>2, <2>1
  <2>2. CASE x # v
    BY <1>2, <2>2 DEF AlertInv
  <2> QED BY <2>1, <2>2
<1>3. CASE FetchBoard(v)
  <2>1. /\ UNCHANGED <<shown, inbox>>
        /\ fetched' = [fetched EXCEPT ![v] = fetched'[v]]
        /\ \/ fetched'[v] = WithBoard(Blank, ViewOf[v], Role[v] = "faculty")
           \/ fetched'[v] = shown[v]
    BY <1>3 DEF FetchBoard, TypeOK, ViewOK
  <2>2. WithBoard(Blank, ViewOf[v], Role[v] = "faculty").alerts
          = (Role[v] = "faculty")
    BY DEF WithBoard, Blank
  <2>3. Role[v] = "student" => ~fetched'[v].alerts
    BY <2>1, <2>2 DEF AlertInv
  <2> QED BY <1>2, <2>1, <2>3 DEF AlertInv, TypeOK, ViewOK
<1>4. CASE GetStatus(v)
  <2>1. PICK r \in Status :
          shown' = [shown EXCEPT ![v] = [fetched[v] EXCEPT !.status = r]]
    BY <1>4 DEF GetStatus
  <2>2. [fetched[v] EXCEPT !.status = r].alerts = fetched[v].alerts
    BY <1>1 DEF Payload
  <2> QED BY <1>2, <1>4, <2>1, <2>2, BlankQuiet
          DEF GetStatus, AlertInv, TypeOK, ViewOK
<1>5. CASE FetchStatus(v)
  <2>1. PICK r \in Status :
          fetched' = [fetched EXCEPT ![v] = [fetched[v] EXCEPT !.status = r]]
    BY <1>5 DEF FetchStatus
  <2>2. [fetched[v] EXCEPT !.status = r].alerts = fetched[v].alerts
    BY <1>1 DEF Payload
  <2> QED BY <1>2, <1>5, <2>1, <2>2 DEF FetchStatus, AlertInv, TypeOK, ViewOK
<1>6. CASE Subscribe(v) \/ Reconnect(v)
  BY <1>2, <1>6 DEF Subscribe, Reconnect, AlertInv, TypeOK, ViewOK
<1>7. CASE SendInitial(v)
  BY <1>2, <1>7, BlankQuiet DEF SendInitial, AlertInv, TypeOK, ViewOK
<1>8. CASE Relay(v)
  <2>1. inbox[v] # <<>>
    BY <1>8 DEF Relay
  <2>2. /\ Head(inbox[v]) = inbox[v][1] /\ 1 \in 1..Len(inbox[v])
        /\ \A i \in 1..Len(Tail(inbox[v])) :
              /\ Tail(inbox[v])[i] = inbox[v][i + 1]
              /\ i + 1 \in 1..Len(inbox[v])
    BY <1>1, <2>1
  <2>3. Role[v] = "student" =>
          /\ ~Head(inbox[v]).alerts
          /\ \A i \in 1..Len(Tail(inbox[v])) : ~Tail(inbox[v])[i].alerts
    BY <2>2 DEF AlertInv
  <2> QED BY <1>2, <1>8, <2>3 DEF Relay, AlertInv, TypeOK, ViewOK
<1> QED BY <1>3, <1>4, <1>5, <1>6, <1>7, <1>8 DEF Page

LEMMA NextQuiet == TypeOK /\ AlertInv /\ [Next]_vars => AlertInv'
<1> SUFFICES ASSUME TypeOK, AlertInv, [Next]_vars PROVE AlertInv'
  OBVIOUS
<1>1. CASE UNCHANGED viewVars
  BY <1>1 DEF viewVars, AlertInv
<1>2. CASE PublishFaculty
  BY <1>2, BroadcastQuiet DEF PublishFaculty, TypeOK, DaemonOK
<1>3. CASE PublishStudent
  <2>1. [draft EXCEPT !.alerts = FALSE] \in Payload
    BY StrippedTyped DEF TypeOK, DaemonOK, Status
  <2>2. ~[draft EXCEPT !.alerts = FALSE].alerts
    BY DEF TypeOK, DaemonOK, Payload
  <2> QED BY <1>3, <2>1, <2>2, BroadcastQuiet DEF PublishStudent
<1>4. \/ UNCHANGED viewVars \/ PublishFaculty \/ PublishStudent
      \/ \E v \in Viewer : Page(v) \/ Reconnect(v)
  <2>1. CASE UNCHANGED vars
    BY <2>1 DEF vars, viewVars
  <2>2. ASSUME NEW w \in Writer, Write(w) \/ Mark(w) PROVE UNCHANGED viewVars
    BY <2>2 DEF Write, AuditMoves, Credit, Mark
  <2>3. ASSUME NEW c \in Contest, NEW u \in User, EnrollUser(c, u)
        PROVE  UNCHANGED viewVars
    BY <2>3 DEF EnrollUser
  <2>4. ASSUME NEW c \in Contest, TakeMark(c) PROVE UNCHANGED viewVars
    BY <2>4 DEF TakeMark
  <2>5. CASE Snapshot \/ ReadBoard \/ ReadStatus
    BY <2>5 DEF Snapshot, ReadBoard, ReadStatus
  <2> QED BY <2>1, <2>2, <2>3, <2>4, <2>5 DEF Next, Daemon
<1> QED BY <1>1, <1>2, <1>3, <1>4, PageQuiet

LEMMA QuietEnough == AlertInv => AlertsStayWithFaculty
BY DEF AlertInv, AlertsStayWithFaculty

\* No student's page is ever sent plagiarism alerts.
THEOREM StudentsSeeNoAlerts == Spec => []AlertsStayWithFaculty
<1>1. Spec => []AlertInv
  BY InitQuiet, NextQuiet, TypeCorrect, PTL DEF Spec
<1> QED BY <1>1, QuietEnough, PTL

=============================================================================
