----------------------------- MODULE Leaderboard -----------------------------
(****************************************************************************)
(* The live leaderboard.  Whoever changes a contest's standing writes it    *)
(* first and then puts the contest in the Redis set dirty_contests; every   *)
(* ten seconds a daemon of the API takes the marks off, reads the standings *)
(* and broadcasts them, to the faculty channel with the plagiarism alerts,  *)
(* to the student channel without.  A page first GETs the standings, then   *)
(* opens a stream, which fetches them again, subscribes and relays.         *)
(*                                                                          *)
(* Writers, daemon and stream handlers share nothing but Redis and the      *)
(* database, so every read, write and publication is a step of its own.     *)
(****************************************************************************)
EXTENDS ScoreCodec, Sequences, FiniteSets

CONSTANTS
    Contest,      \* contests
    User,         \* contestants
    Writer,       \* worker threads and the audit daemon
    Viewer,       \* open leaderboard pages
    ViewOf,       \* the contest each page shows
    Role,         \* "student" or "faculty", for each page
    Penalty,      \* penalties in seconds a solve may cost in this instance
    Problems,     \* bound: how many problems of a contest a user can solve
    Buffer,       \* capacity of a subscriber's channel in the hub
    Nobody,       \* no contest
    NotListed,    \* in the place of the entry of a user who is not a member
    Faults,       \* kinds of failure this instance injects
    MaxFaults     \* bound: how many failures one behaviour contains

\* "mark": a SADD or SREM of the set of marks fails.  "read": a query of
\* FetchEnrichedLeaderboard fails.  "publish": a PUBLISH fails.
ASSUME ViewsTyped ==
    /\ ViewOf \in [Viewer -> Contest]
    /\ Role \in [Viewer -> {"student", "faculty"}]
    /\ Contest # {} /\ Nobody \notin Contest
ASSUME BoundsTyped ==
    /\ Penalty \subseteq Nat /\ Problems \in Nat /\ Buffer \in Nat \ {0}
    /\ Faults \subseteq {"mark", "read", "publish"} /\ MaxFaults \in Nat

VARIABLES
    earned,    \* solves and penalty (seconds) of every user: what was credited
    member,    \* members of the ZSET contest:leaderboard
    points,    \* their scores, scaled by Scale (0 for non-members)
    status,    \* contests.moss_audit_status
    dirty,     \* SET dirty_contests
    marking,   \* the contest each writer has written and not yet marked
    dstep,     \* where the leaderboard daemon is
    batch,     \* dirtyContests still to be handled in this tick
    current,   \* contestID of the loop body
    draft,     \* the payload the daemon is putting together
    last,      \* payload last published for each contest
    vpc,       \* where each page and its stream handler are
    fetched,   \* the payload each handler is putting together
    inbox,     \* channel of each subscribed handler
    shown,     \* what each page shows
    budget     \* failures still to be injected

standing   == <<earned, member, points, status>>
daemonVars == <<dstep, batch, current, draft, last>>
viewVars   == <<vpc, fetched, inbox, shown>>
vars == <<earned, member, points, status, dirty, marking, dstep, batch, current,
          draft, last, vpc, fetched, inbox, shown, budget>>

Status == {"pending", "in_progress", "completed", "failed"}
Final == {"completed", "failed"}

\* auditStatus and the entries of FetchEnrichedLeaderboard; names, ranks and
\* the skipped faculty members are left out.
Entry == [solves : Int, penalty : Int]
Payload == [status : Status, board : [User -> Entry \cup {NotListed}],
            alerts : BOOLEAN]

DaemonStep == {"idle", "next", "board", "status", "faculty", "student"}
ViewStep == {"get", "getstatus", "open", "fetchstatus", "subscribe", "initial",
             "stream", "closed", "gone", "error"}

StandingOK ==
    /\ earned \in [Contest -> [User -> [solves : Nat, penalty : Nat]]]
    /\ member \in [Contest -> SUBSET User]
    /\ points \in [Contest -> [User -> Int]]
    /\ status \in [Contest -> Status]
MarksOK == dirty \subseteq Contest /\ marking \in [Writer -> Contest \cup {Nobody}]
DaemonOK ==
    /\ dstep \in DaemonStep /\ batch \subseteq Contest
    /\ current \in Contest /\ draft \in Payload
    /\ last \in [Contest -> Payload]
ViewOK ==
    /\ vpc \in [Viewer -> ViewStep]
    /\ fetched \in [Viewer -> Payload] /\ shown \in [Viewer -> Payload]
    /\ inbox \in [Viewer -> Seq(Payload)]
TypeOK == StandingOK /\ MarksOK /\ DaemonOK /\ ViewOK /\ budget \in 0..MaxFaults

Blank == [status |-> "pending", board |-> [u \in User |-> NotListed],
          alerts |-> FALSE]

Init ==
    /\ earned = [c \in Contest |-> [u \in User |-> [solves |-> 0, penalty |-> 0]]]
    /\ member = [c \in Contest |-> {}]
    /\ points = [c \in Contest |-> [u \in User |-> 0]]
    /\ status = [c \in Contest |-> "pending"]
    /\ dirty = {}
    /\ marking = [w \in Writer |-> Nobody]
    /\ dstep = "idle" /\ batch = {}
    /\ current = CHOOSE c \in Contest : TRUE
    /\ draft = Blank
    /\ last = [c \in Contest |-> Blank]
    /\ vpc = [v \in Viewer |-> "get"]
    /\ fetched = [v \in Viewer |-> Blank]
    /\ inbox = [v \in Viewer |-> <<>>]
    /\ shown = [v \in Viewer |-> Blank]
    /\ budget = MaxFaults

Spend(f) == f \in Faults /\ budget > 0 /\ budget' = budget - 1

-----------------------------------------------------------------------------
(* FetchEnrichedLeaderboard: the sorted set first, the audit status second *)

\* ZREVRANGE and the decoding of every score.
EntryOf(c, u) == [solves  |-> Solves(points[c][u]),
                  penalty |-> PenaltyMinutes(points[c][u])]
BoardOf(c) == [u \in User |-> IF u \in member[c] THEN EntryOf(c, u)
                              ELSE NotListed]

WithBoard(p, c, isFaculty) == [p EXCEPT !.board = BoardOf(c), !.alerts = isFaculty]

\* The audit status, or "pending" when its query fails.
ReadsStatus(v, c) == \/ v = status[c] /\ UNCHANGED budget
                     \/ v = "pending" /\ Spend("read")

-----------------------------------------------------------------------------
(* Who changes a standing *)

\* ZADD NX at registration: nobody is told.
EnrollUser(c, u) ==
    /\ u \notin member[c]
    /\ member' = [member EXCEPT ![c] = @ \cup {u}]
    /\ UNCHANGED <<earned, points, status, dirty, marking, daemonVars, viewVars,
                   budget>>

\* ZINCRBY by a worker thread (module Grading decides when).
Credit(w, c, u, p) ==
    /\ marking[w] = Nobody /\ earned[c][u].solves < Problems
    /\ earned' = [earned EXCEPT ![c][u] = [solves  |-> @.solves + 1,
                                           penalty |-> @.penalty + p]]
    /\ points' = [points EXCEPT ![c][u] = @ + Increment(p)]
    /\ member' = [member EXCEPT ![c] = @ \cup {u}]
    /\ marking' = [marking EXCEPT ![w] = c]
    /\ UNCHANGED <<status, dirty, daemonVars, viewVars, budget>>

\* UPDATE of the audit status (module MossAudit decides when).
AuditMoves(w, c) ==
    /\ marking[w] = Nobody
    /\ \E next \in IF status[c] = "pending" THEN {"in_progress"}
                   ELSE IF status[c] = "in_progress" THEN Final
                   ELSE {} : status' = [status EXCEPT ![c] = next]
    /\ marking' = [marking EXCEPT ![w] = c]
    /\ UNCHANGED <<earned, member, points, dirty, daemonVars, viewVars, budget>>

\* SADD dirty_contests
Mark(w) ==
    /\ marking[w] # Nobody
    /\ \/ dirty' = dirty \cup {marking[w]} /\ UNCHANGED budget
       \/ UNCHANGED dirty /\ Spend("mark")
    /\ marking' = [marking EXCEPT ![w] = Nobody]
    /\ UNCHANGED <<standing, daemonVars, viewVars>>

-----------------------------------------------------------------------------
(* StartLeaderboardDaemon *)

\* SMEMBERS dirty_contests
Snapshot ==
    /\ dstep = "idle" /\ dirty # {}
    /\ batch' = dirty /\ dstep' = "next"
    /\ UNCHANGED <<standing, dirty, marking, current, draft, last, viewVars,
                   budget>>

\* SREM dirty_contests, before anything is read; its error is not looked at.
TakeMark(c) ==
    /\ dstep = "next" /\ c \in batch
    /\ batch' = batch \ {c} /\ current' = c
    /\ \/ dirty' = dirty \ {c} /\ UNCHANGED budget
       \/ UNCHANGED dirty /\ Spend("mark")
    /\ dstep' = "board"
    /\ UNCHANGED <<standing, marking, draft, last, viewVars>>

\* The order of the loop body, the end of the loop.
Continue == dstep' = IF batch = {} THEN "idle" ELSE "next"

\* The sorted set.  When it, the profiles or the alerts cannot be read, the
\* contest is skipped and its mark is already gone.
ReadBoard ==
    /\ dstep = "board"
    /\ \/ draft' = WithBoard(draft, current, TRUE) /\ dstep' = "status"
          /\ UNCHANGED budget
       \/ Continue /\ UNCHANGED draft /\ Spend("read")
    /\ UNCHANGED <<standing, dirty, marking, batch, current, last, viewVars>>

ReadStatus ==
    /\ dstep = "status" /\ dstep' = "faculty"
    /\ \E read \in Status : /\ ReadsStatus(read, current)
                            /\ draft' = [draft EXCEPT !.status = read]
    /\ UNCHANGED <<standing, dirty, marking, batch, current, last, viewVars>>

\* Seeded bug: only an idle subscriber, one with nothing queued, is served.
Deliver_SkipsBusy(role, payload) ==
    inbox' = [v \in Viewer |->
                IF /\ vpc[v] = "stream" /\ Role[v] = role
                   /\ ViewOf[v] = current /\ inbox[v] = <<>>
                THEN <<payload>> ELSE inbox[v]]

\* Hub.broadcast: a subscriber whose channel is full misses the message.
Deliver(role, payload) ==
    inbox' = [v \in Viewer |->
                IF /\ vpc[v] \in {"initial", "stream"} /\ Role[v] = role
                   /\ ViewOf[v] = current /\ Len(inbox[v]) < Buffer
                THEN Append(inbox[v], payload) ELSE inbox[v]]

\* PUBLISH, whose error is not looked at.
Broadcast(role, payload) ==
    \/ Deliver(role, payload) /\ UNCHANGED budget
    \/ UNCHANGED inbox /\ Spend("publish")

PublishFaculty ==
    /\ dstep = "faculty" /\ dstep' = "student"
    /\ Broadcast("faculty", draft)
    /\ UNCHANGED <<standing, dirty, marking, batch, current, draft, last, vpc,
                   fetched, shown>>

\* Seeded bug: the stripped copy is made but the full one is published.
PublishStudent_Full ==
    /\ dstep = "student" /\ Continue
    /\ Broadcast("student", draft)
    /\ last' = [last EXCEPT ![current] = draft]
    /\ draft' = Blank
    /\ UNCHANGED <<standing, dirty, marking, batch, current, vpc, fetched, shown>>

\* Seeded bug: the mark is taken off when the broadcast is out.
PublishStudent_Unmarks ==
    /\ dstep = "student" /\ Continue
    /\ Broadcast("student", [draft EXCEPT !.alerts = FALSE])
    /\ last' = [last EXCEPT ![current] = draft]
    /\ draft' = Blank
    /\ dirty' = dirty \ {current}
    /\ UNCHANGED <<standing, marking, batch, current, vpc, fetched, shown>>

\* The alerts are stripped for students.
PublishStudent ==
    /\ dstep = "student" /\ Continue
    /\ Broadcast("student", [draft EXCEPT !.alerts = FALSE])
    /\ last' = [last EXCEPT ![current] = draft]
    /\ draft' = Blank
    /\ UNCHANGED <<standing, dirty, marking, batch, current, vpc, fetched, shown>>

Daemon ==
    \/ Snapshot \/ ReadBoard \/ ReadStatus \/ PublishFaculty \/ PublishStudent
    \/ \E c \in Contest : TakeMark(c)

-----------------------------------------------------------------------------
(* A page and its stream: Leaderboard.jsx, GetLeaderboard, StreamLeaderboard *)

Goes(v, to) == vpc' = [vpc EXCEPT ![v] = to]

\* Both handlers read the sorted set first.  When it cannot be read the page
\* gives up on the GET; the stream goes on and has no initial payload to send,
\* so the page will keep what it shows.
FetchBoard(v) ==
    /\ vpc[v] \in {"get", "open"}
    /\ \/ /\ Goes(v, IF vpc[v] = "get" THEN "getstatus" ELSE "fetchstatus")
          /\ fetched' = [fetched EXCEPT ![v] =
                           WithBoard(Blank, ViewOf[v], Role[v] = "faculty")]
          /\ UNCHANGED budget
       \/ /\ Spend("read")
          /\ Goes(v, IF vpc[v] = "get" THEN "error" ELSE "subscribe")
          /\ fetched' = [fetched EXCEPT ![v] = shown[v]]
    /\ UNCHANGED <<standing, dirty, marking, daemonVars, inbox, shown>>

\* GetLeaderboard answers; the page opens a stream unless the audit is over.
GetStatus(v) ==
    /\ vpc[v] = "getstatus"
    /\ \E read \in Status :
         /\ ReadsStatus(read, ViewOf[v])
         /\ shown' = [shown EXCEPT ![v] = [fetched[v] EXCEPT !.status = read]]
         /\ Goes(v, IF read \in Final THEN "closed" ELSE "open")
    /\ fetched' = [fetched EXCEPT ![v] = Blank]
    /\ UNCHANGED <<standing, dirty, marking, daemonVars, inbox>>

\* StreamLeaderboard has read the status: 410 when the audit is over.
FetchStatus(v) ==
    /\ vpc[v] = "fetchstatus"
    /\ \E read \in Status :
         /\ ReadsStatus(read, ViewOf[v])
         /\ fetched' = [fetched EXCEPT ![v].status = read]
         /\ Goes(v, IF read \in Final THEN "gone" ELSE "subscribe")
    /\ UNCHANGED <<standing, dirty, marking, daemonVars, inbox, shown>>

\* Only now does the handler subscribe to its channel.
Subscribe(v) ==
    /\ vpc[v] = "subscribe" /\ Goes(v, "initial")
    /\ inbox' = [inbox EXCEPT ![v] = <<>>]
    /\ UNCHANGED <<standing, dirty, marking, daemonVars, fetched, shown, budget>>

\* The initial payload, fetched before the subscription.
SendInitial(v) ==
    /\ vpc[v] = "initial" /\ Goes(v, "stream")
    /\ shown' = [shown EXCEPT ![v] = fetched[v]]
    /\ fetched' = [fetched EXCEPT ![v] = Blank]
    /\ UNCHANGED <<standing, dirty, marking, daemonVars, inbox, budget>>

\* Seeded bug: the page closes the stream of a completed audit only.
Relay_CompletedOnly(v) ==
    /\ vpc[v] = "stream" /\ inbox[v] # <<>>
    /\ inbox' = [inbox EXCEPT ![v] = Tail(@)]
    /\ shown' = [shown EXCEPT ![v] = Head(inbox[v])]
    /\ Goes(v, IF Head(inbox[v]).status = "completed" THEN "closed" ELSE "stream")
    /\ UNCHANGED <<standing, dirty, marking, daemonVars, fetched, budget>>

\* A relayed message; the page closes the stream on a final status.
Relay(v) ==
    /\ vpc[v] = "stream" /\ inbox[v] # <<>>
    /\ inbox' = [inbox EXCEPT ![v] = Tail(@)]
    /\ shown' = [shown EXCEPT ![v] = Head(inbox[v])]
    /\ Goes(v, IF Head(inbox[v]).status \in Final THEN "closed" ELSE "stream")
    /\ UNCHANGED <<standing, dirty, marking, daemonVars, fetched, budget>>

\* The connection drops and EventSource connects again.
Reconnect(v) ==
    /\ vpc[v] = "stream" /\ Goes(v, "open")
    /\ inbox' = [inbox EXCEPT ![v] = <<>>]
    /\ UNCHANGED <<standing, dirty, marking, daemonVars, fetched, shown, budget>>

Page(v) == \/ FetchBoard(v) \/ GetStatus(v) \/ FetchStatus(v) \/ Subscribe(v)
           \/ SendInitial(v) \/ Relay(v)

-----------------------------------------------------------------------------
Write(w) == \E c \in Contest :
    \/ AuditMoves(w, c)
    \/ \E u \in User, p \in Penalty : Credit(w, c, u, p)

Next ==
    \/ \E c \in Contest, u \in User : EnrollUser(c, u)
    \/ \E w \in Writer : Write(w) \/ Mark(w)
    \/ Daemon
    \/ \E v \in Viewer : Page(v) \/ Reconnect(v)

Spec == Init /\ [][Next]_vars

\* A writer goes on to mark what it wrote, the daemon runs on a ticker, an
\* opened page goes through its requests.  Nobody has to solve a problem.
Fairness ==
    /\ \A w \in Writer : WF_vars(Mark(w))
    /\ WF_vars(Daemon)
    /\ \A v \in Viewer : WF_vars(Page(v))

LiveSpec == Spec /\ Fairness

-----------------------------------------------------------------------------
(* Safety *)

\* Everything in payload p that contest c's standing has by now.  A contestant
\* without a solve may be missing: registration tells nobody.
Fresh(p, c) ==
    /\ p.status = status[c]
    /\ \A u \in User : points[c][u] # 0 => p.board[u] = EntryOf(c, u)

Unharmed == budget = MaxFaults

\* The daemon has still to read what changed, or has read the latest.
DaemonHas(c) ==
    /\ current = c
    /\ \/ dstep = "board"
       \/ dstep = "status" /\ Fresh([draft EXCEPT !.status = status[c]], c)
       \/ dstep \in {"faculty", "student"} /\ Fresh(draft, c)

\* Unless something fails, a change of a standing is never forgotten: it has
\* been broadcast, is about to be, or the contest is or will be marked.  The
\* daemon takes the mark off before it reads; the other way round, a change
\* between the two would be lost.
NothingForgotten ==
    \A c \in Contest :
        \/ Fresh(last[c], c)
        \/ c \in dirty
        \/ \E w \in Writer : marking[w] = c
        \/ DaemonHas(c)
        \/ ~Unharmed

\* The one number in the sorted set decodes to the solves and the penalty that
\* were credited, while the penalty stays below 100000 minutes.
BoardIsEarned ==
    \A c \in Contest : \A u \in member[c] :
        earned[c][u].penalty < Scale =>
            EntryOf(c, u) = [solves  |-> earned[c][u].solves,
                             penalty |-> Rounded(earned[c][u].penalty)]

\* No student's page is ever sent plagiarism alerts, over GET, as an initial
\* payload or as a broadcast.
AlertsStayWithFaculty ==
    \A v \in Viewer : Role[v] = "student" => ~shown[v].alerts

(* Liveness *)

SolvesShown(v, u) == IF shown[v].board[u] = NotListed THEN 0
                     ELSE shown[v].board[u].solves

\* A solve marked while a page is streaming reaches that page, unless something
\* fails or the stream ends.
ChangesArrive ==
    \A v \in Viewer, u \in User, n \in 1..Problems :
        LET c == ViewOf[v] IN
        /\ vpc[v] = "stream" /\ c \in dirty /\ earned[c][u].solves = n
        ~> SolvesShown(v, u) >= n \/ vpc[v] # "stream" \/ ~Unharmed

\* A page that is streaming when the end of the audit is marked stops streaming,
\* so a finished contest does not hold connections, unless something fails.
StreamsEnd ==
    \A v \in Viewer :
        LET c == ViewOf[v] IN
        vpc[v] = "stream" /\ c \in dirty /\ status[c] \in Final
          ~> vpc[v] \in {"closed", "gone"} \/ ~Unharmed

\* The stream keeps the page in sync: what a streaming page shows becomes the
\* standing, or the stream ends.
InSync ==
    \A v \in Viewer :
        vpc[v] = "stream" ~> Fresh(shown[v], ViewOf[v]) \/ vpc[v] # "stream"

=============================================================================
