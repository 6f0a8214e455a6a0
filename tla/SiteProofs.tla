------------------------------ MODULE SiteProofs ------------------------------
(****************************************************************************)
(* Theorems about the parts of Site, for any number of logins, requests,    *)
(* rows, cases, events, users and times: a login is not lost by accident, a *)
(* list at rest shows what was asked for, a contest that has started stays  *)
(* as it is, no telemetry event and no alert is lost or repeated, and the   *)
(* open sections of a form follow their cases.                              *)
(****************************************************************************)
EXTENDS Site, FiniteSetTheorems, SequenceTheorems, TLAPS

-----------------------------------------------------------------------------
(* Every step of the site is one of a part, or leaves that part alone. *)

LEMMA PartsStep ==
    ASSUME [Next]_vars
    PROVE  /\ [session!Next]_sessionVars
           /\ [listing!Next]_listingVars
           /\ [caseForm!Next]_caseVars
           /\ [contestForge!Next]_contestVars
           /\ [proctor!Next]_proctorVars
           /\ [watch!Next]_watchVars
BY DEF Next, vars

-----------------------------------------------------------------------------
(* Session *)

\* The server honours no session but the latest.
LoginInv ==
    /\ minted \in Nat /\ stored \in 0..minted /\ reply \in 0..minted
    /\ active \in {0, minted}

LEMMA MintStep ==
    ASSUME LoginInv, NEW ready, session!Mint(ready)
    PROVE  /\ minted' = minted + 1 /\ minted' \in Nat
           /\ active' = minted' /\ active' # active
           /\ 0..minted \subseteq 0..minted'
BY DEF LoginInv, session!Mint

LEMMA LoginStep ==
    ASSUME LoginInv, [session!Next]_sessionVars
    PROVE  LoginInv' /\ [session!KeepsLogin]_sessionVars
<1>1. CASE UNCHANGED sessionVars
  BY <1>1 DEF LoginInv, sessionVars
<1>2. CASE session!Callback
  BY <1>2, MintStep DEF session!Callback, LoginInv, session!KeepsLogin
<1>3. CASE session!Onboard
  BY <1>3 DEF session!Onboard, session!Mint, LoginInv, session!KeepsLogin
<1>4. CASE session!LoginElsewhere
  BY <1>4, MintStep DEF session!LoginElsewhere, LoginInv, session!KeepsLogin
<1>5. CASE session!ClearedElsewhere
  BY <1>5 DEF session!ClearedElsewhere, session!server, LoginInv,
              session!KeepsLogin
<1>6. CASE session!Expire
  BY <1>6 DEF session!Expire, LoginInv, session!KeepsLogin
<1>7. CASE session!Load
  BY <1>7 DEF session!Load, session!Shown, session!server, LoginInv,
              session!KeepsLogin
<1>8. CASE session!SignIn
  BY <1>8 DEF session!SignIn, session!server, LoginInv, session!KeepsLogin
<1>9. CASE session!Store
  BY <1>9 DEF session!Store, session!server, LoginInv, session!KeepsLogin
<1>10. CASE session!Send
  BY <1>10 DEF session!Send, session!server, LoginInv, session!KeepsLogin
<1>11. CASE session!Logout
  BY <1>11 DEF session!Logout, session!server, LoginInv, session!KeepsLogin
<1>12. ASSUME NEW p, session!TypeAddress(p)
       PROVE  LoginInv' /\ session!KeepsLogin
  BY <1>12 DEF session!TypeAddress, session!server, LoginInv, session!KeepsLogin
<1>13. ASSUME NEW p, session!Follow(p)
       PROVE  LoginInv' /\ session!KeepsLogin
  BY <1>13 DEF session!Follow, session!Shown, session!server, LoginInv,
               session!KeepsLogin
<1>14. ASSUME NEW t \in sent, session!Served(t)
       PROVE  LoginInv' /\ session!KeepsLogin
  BY <1>14 DEF session!Served, session!server, LoginInv, session!KeepsLogin
<1>15. ASSUME NEW t \in sent, session!Refused(t)
       PROVE  LoginInv' /\ session!KeepsLogin
  <2>1. LoginInv'
    BY <1>15 DEF session!Refused, session!server, LoginInv
  <2>2. stored # 0 /\ stored = active => t # stored
    BY <1>15 DEF session!Refused, session!Honoured
  <2> QED BY <1>15, <2>1, <2>2 DEF session!KeepsLogin
<1> QED
  BY <1>1, <1>2, <1>3, <1>4, <1>5, <1>6, <1>7, <1>8, <1>9, <1>10, <1>11, <1>12,
     <1>13, <1>14, <1>15 DEF session!Next, session!Tab

\* No login the server honours is lost but by the user's own doing, by an answer
\* to an older login's request, or by an older login stored late: LoginSurvives,
\* for any number of logins, tabs and requests (api.js:34).
THEOREM LoginsSurvive == Spec => LoginSurvives
<1>1. Init => LoginInv
  BY DEF Init, session!Init, LoginInv
<1>2. LoginInv /\ [Next]_vars => LoginInv' /\ [session!KeepsLogin]_sessionVars
  BY PartsStep, LoginStep
<1> QED BY <1>1, <1>2, PTL DEF Spec, LoginSurvives

-----------------------------------------------------------------------------
(* Listing *)

\* Answers under way are to requests that were sent.
AnswersOK ==
    /\ question \in Question /\ offset \in Nat /\ fetches \in Nat
    /\ picker \in BOOLEAN /\ on \in BOOLEAN /\ due \in BOOLEAN
    /\ loading \in BOOLEAN
    /\ \A r \in flight : /\ r \in [n : Nat, of : Question, from : Nat]
                        /\ r.n <= fetches
    /\ rows \in [n : Nat, of : Question, from : Nat] \cup {listing!Nothing}
    /\ rows.n \in Nat /\ rows.n <= fetches

\* While no timer runs, the latest request asks the question of the moment.
LatestAsks ==
    /\ due => on
    /\ on /\ ~due =>
         /\ \A r \in flight : r.n = fetches => r.of = question
         /\ fetches > 0 /\ rows.n = fetches => rows.of = question

\* Its answer, once shown, is the page the list believes to show.
LatestShown ==
    fetches > 0 /\ rows.n = fetches =>
      /\ rows \in [n : Nat, of : Question, from : Nat]
      /\ offset = rows.from
      /\ more = (listing!Length(rows.of, rows.from) = Limit)

LoadingEnds == loading => flight # {} \/ (due /\ ~picker)

ListInv == AnswersOK /\ LatestAsks /\ LatestShown /\ LoadingEnds

LEMMA FullPage ==
    ASSUME NEW q \in Question, NEW from \in Nat
    PROVE  (listing!Length(q, from) = Limit) = (from + Limit <= Rows[q])
<1>1. Rows[q] \in Nat /\ Limit \in Nat /\ Limit > 0
  BY SiteAssumption DEF listing!ListingAssumption
<1> QED BY <1>1 DEF listing!Length

\* A request is sent.
LEMMA FetchStep ==
    ASSUME ListInv, NEW from \in Nat, listing!Fetch(from),
           UNCHANGED <<picker, on, question, rows>>,
           due' \in BOOLEAN, due' => due, offset' \in Nat
    PROVE  ListInv'
<1> DEFINE new == [n |-> fetches + 1, of |-> question, from |-> from]
<1>1. /\ fetches' = fetches + 1 /\ flight' = flight \cup {new}
      /\ loading' \in BOOLEAN
  BY DEF listing!Fetch, ListInv, AnswersOK
<1>2. new \in [n : Nat, of : Question, from : Nat] /\ new.n = fetches'
      /\ new.of = question
  BY <1>1 DEF ListInv, AnswersOK
<1>3. \A r \in flight : r.n \in Nat /\ r.n # fetches'
  BY <1>1 DEF ListInv, AnswersOK
<1>4. rows'.n # fetches'
  BY <1>1 DEF ListInv, AnswersOK
<1> HIDE DEF new
<1>5. AnswersOK'
  BY <1>1, <1>2 DEF ListInv, AnswersOK, listing!Nothing
<1>6. LatestAsks'
  BY <1>1, <1>2, <1>3, <1>4 DEF ListInv, LatestAsks
<1>7. LatestShown' /\ LoadingEnds'
  BY <1>1, <1>4 DEF LatestShown, LoadingEnds
<1> QED BY <1>5, <1>6, <1>7 DEF ListInv

LEMMA ListStep ==
    ASSUME ListInv, [listing!Next]_listingVars
    PROVE  ListInv'
<1>1. CASE UNCHANGED listingVars
  BY <1>1 DEF ListInv, AnswersOK, LatestAsks, LatestShown, LoadingEnds,
              listingVars, listing!Nothing, listing!Length
<1>2. ASSUME NEW q \in Question, listing!Ask(q)
      PROVE  ListInv'
  BY <1>2 DEF listing!Ask, ListInv, AnswersOK, LatestAsks, LatestShown,
              LoadingEnds, listing!Nothing, listing!Length
<1>3. CASE listing!Reset
  BY <1>3, FetchStep DEF listing!Reset
<1>4. CASE listing!Prev
  <2>1. offset - Limit \in Nat /\ offset \in Nat /\ due \in BOOLEAN
    BY <1>4, SiteAssumption
    DEF listing!Prev, listing!ListingAssumption, ListInv, AnswersOK
  <2> QED BY <1>4, <2>1, FetchStep DEF listing!Prev
<1>5. CASE listing!Turn
  <2>1. offset + Limit \in Nat /\ offset \in Nat /\ due \in BOOLEAN
    BY SiteAssumption DEF listing!ListingAssumption, ListInv, AnswersOK
  <2> QED BY <1>5, <2>1, FetchStep DEF listing!Turn
<1>6. CASE listing!Step
  BY <1>6 DEF listing!Step, ListInv, AnswersOK, LatestAsks, LatestShown,
              LoadingEnds, listing!Nothing, listing!Length
<1>7. ASSUME NEW r \in flight, listing!Answer(r)
      PROVE  ListInv'
  <2>1. r \in [n : Nat, of : Question, from : Nat] /\ r.n <= fetches
    BY DEF ListInv, AnswersOK
  <2>2. AnswersOK'
    BY <1>7, <2>1 DEF listing!Answer, ListInv, AnswersOK, listing!Nothing
  <2>3. LatestAsks' /\ LatestShown' /\ LoadingEnds'
    BY <1>7, <2>1 DEF listing!Answer, ListInv, LatestAsks, LatestShown,
                      LoadingEnds, listing!Length
  <2> QED BY <2>2, <2>3 DEF ListInv
<1>8. ASSUME NEW r \in flight, listing!Fail(r)
      PROVE  ListInv'
  BY <1>8 DEF listing!Fail, ListInv, AnswersOK, LatestAsks, LatestShown,
              LoadingEnds, listing!Nothing, listing!Length
<1> QED BY <1>1, <1>2, <1>3, <1>4, <1>5, <1>6, <1>7, <1>8 DEF listing!Next

\* A list at rest whose latest request was the last to be answered shows what
\* was asked for: ListSettles, for any number of rows, questions and requests,
\* answered in any order (ContestList.jsx:38).
THEOREM ListsSettle == Spec => []ListSettles
<1>1. ASSUME Init PROVE ListInv
  <2>1. listing!Init /\ rows.n = 0
    BY <1>1 DEF Init, listing!Init, listing!Nothing
  <2>2. on \in BOOLEAN /\ due \in BOOLEAN /\ loading \in BOOLEAN
    BY <2>1 DEF listing!Init
  <2>3. AnswersOK
    BY <2>1, <2>2 DEF listing!Init, AnswersOK
  <2>4. due => on
    BY <2>1, Zenon DEF listing!Init
  <2>5. LatestAsks /\ LatestShown
    BY <2>1, <2>4 DEF listing!Init, LatestAsks, LatestShown
  <2>6. LoadingEnds
    BY <2>1, Zenon DEF listing!Init, LoadingEnds
  <2> QED BY <2>3, <2>5, <2>6 DEF ListInv
<1>2. ListInv /\ [Next]_vars => ListInv'
  BY PartsStep, ListStep
<1>3. ListInv => ListSettles
  <2> SUFFICES ASSUME ListInv, on, ~due, flight = {}, fetches > 0
               PROVE  /\ ~loading
                      /\ rows.n = fetches =>
                           /\ rows.of = question
                           /\ rows.from = offset
                           /\ more = (offset + Limit <= Rows[question])
    BY DEF ListSettles, listing!ListSettles
  <2>1. ~loading
    BY DEF ListInv, LoadingEnds
  <2>2. ASSUME rows.n = fetches
        PROVE  /\ rows.of = question
               /\ rows.from = offset
               /\ more = (offset + Limit <= Rows[question])
    <3>1. /\ rows.of = question /\ rows.from = offset
          /\ more = (listing!Length(question, offset) = Limit)
      BY <2>2 DEF ListInv, LatestAsks, LatestShown
    <3>2. question \in Question /\ offset \in Nat
      BY DEF ListInv, AnswersOK
    <3> QED BY <3>1, <3>2, FullPage
  <2> QED BY <2>1, <2>2
<1> QED BY <1>1, <1>2, <1>3, PTL DEF Spec

-----------------------------------------------------------------------------
(* ContestForge *)

\* Only the author creates the contest, once; what is changed or deleted was
\* there; and no request of a professor that
\* came too late gets past its check.
LockInv ==
    /\ \A u \in User : late[u] => contest.is # "none"
    /\ \A u \in User : desk[u] = "add" => contest.is = "none" /\ u = Author
    /\ \A u \in User : call[u].op = "create" => contest.is = "none" /\ u = Author
    /\ \A u \in User : call[u].step = "write" /\ call[u].op # "create" =>
                        contest.is # "none"
    /\ \A u \in User \ Admins : call[u].step = "write" => ~late[u]

ForgeInv == contestForge!TypeOK /\ LockInv

LEMMA RowsTyped ==
    /\ contestForge!Empty \in [Problem -> contestForge!Points]
    /\ contestForge!NoRow \in contestForge!Row
BY DEF contestForge!Empty, contestForge!Points, contestForge!NoRow,
       contestForge!Row

LEMMA BlankForm ==
    ASSUME contestForge!TypeOK
    PROVE  contestForge!Blank \in contestForge!Form
BY RowsTyped DEF contestForge!TypeOK, contestForge!Blank, contestForge!Form

\* A form with one input changed is a form: handleChange, toggleProblem and
\* updatePoints, and the time it is rendered.
LEMMA AtTyped ==
    ASSUME NEW f \in contestForge!Form, NEW at \in 0..LastHour
    PROVE  [f EXCEPT !.at = at] \in contestForge!Form
BY DEF contestForge!Form

LEMMA FlippedTyped ==
    ASSUME NEW f \in contestForge!Form
    PROVE  [f EXCEPT !.public = ~@] \in contestForge!Form
BY DEF contestForge!Form

LEMMA DatedTyped ==
    ASSUME NEW f \in contestForge!Form, NEW text \in 0..(LastHour + Zone)
    PROVE  [f EXCEPT !.dated = TRUE, !.start = text] \in contestForge!Form
<1>1. text \in Int
  BY SiteAssumption DEF contestForge!ContestForgeAssumption
<1> QED BY <1>1 DEF contestForge!Form

LEMMA ProblemsTyped ==
    ASSUME NEW f \in contestForge!Form,
           NEW ps \in [Problem -> contestForge!Points]
    PROVE  [f EXCEPT !.problems = ps] \in contestForge!Form
BY DEF contestForge!Form

LEMMA ToggledTyped ==
    ASSUME NEW f \in contestForge!Form, NEW p \in Problem
    PROVE  [f EXCEPT !.problems[p] = IF @ = "out" THEN "full" ELSE "out"] \in
             contestForge!Form
<1> DEFINE ps == [f.problems EXCEPT
                    ![p] = IF f.problems[p] = "out" THEN "full" ELSE "out"]
<1>1. f.problems \in [Problem -> contestForge!Points]
  BY DEF contestForge!Form
<1>2. ps \in [Problem -> contestForge!Points]
  BY <1>1 DEF contestForge!Points
<1>3. [f EXCEPT !.problems[p] = IF @ = "out" THEN "full" ELSE "out"] =
      [f EXCEPT !.problems = ps]
  BY Zenon
<1> HIDE DEF ps
<1> QED BY <1>2, <1>3, ProblemsTyped

LEMMA PointedTyped ==
    ASSUME NEW f \in contestForge!Form, NEW p \in Problem,
           NEW n \in {"zero", "full"}
    PROVE  [f EXCEPT !.problems[p] = n] \in contestForge!Form
<1> DEFINE ps == [f.problems EXCEPT ![p] = n]
<1>1. f.problems \in [Problem -> contestForge!Points]
  BY DEF contestForge!Form
<1>2. ps \in [Problem -> contestForge!Points]
  BY <1>1 DEF contestForge!Points
<1>3. [f EXCEPT !.problems[p] = n] = [f EXCEPT !.problems = ps]
  BY Zenon
<1> HIDE DEF ps
<1> QED BY <1>2, <1>3, ProblemsTyped

\* What EditContest makes of the row it loads is a form.
LEMMA LoadedTyped ==
    ASSUME NEW row \in contestForge!Row, NEW at \in 0..LastHour
    PROVE  [dated    |-> TRUE,
            start    |-> contestForge!Shown(row.start),
            public   |-> row.public,
            problems |-> [p \in Problem |->
                            IF row.problems[p] = "out" THEN "out" ELSE "full"],
            at       |-> at] \in contestForge!Form
BY DEF contestForge!Row, contestForge!Form, contestForge!Points,
       contestForge!Shown

Request == [op : {"none", "create", "update", "delete"},
            step : {"idle", "check", "write"}, row : contestForge!Row]

\* A request that passed its check is the same request.
LEMMA PassedTyped ==
    ASSUME NEW c \in Request
    PROVE  /\ [c EXCEPT !.step = "write"] \in Request
           /\ [c EXCEPT !.step = "write"].op = c.op
BY DEF Request

\* The row of a contest is replaced, or goes with it.
LEMMA ContestTyped ==
    ASSUME NEW k \in [is : {"none", "there", "gone"}, row : contestForge!Row],
           NEW r \in contestForge!Row
    PROVE  /\ [k EXCEPT !.row = r] \in
                [is : {"none", "there", "gone"}, row : contestForge!Row]
           /\ [k EXCEPT !.row = r].is = k.is
           /\ [k EXCEPT !.is = "gone", !.row = r] \in
                [is : {"none", "there", "gone"}, row : contestForge!Row]
           /\ [k EXCEPT !.is = "gone", !.row = r].is = "gone"
OBVIOUS

\* The page changes an input: nothing the lock depends on.
LEMMA EditStep ==
    ASSUME ForgeInv, NEW u \in User, NEW f \in contestForge!Form,
           contestForge!Edit(u, f)
    PROVE  ForgeInv'
<1> DEFINE g == [f EXCEPT !.at = now]
<1>1. now \in 0..LastHour
  BY DEF ForgeInv, contestForge!TypeOK
<1>2. g \in contestForge!Form
  BY <1>1, AtTyped
<1>3. /\ form' = [form EXCEPT ![u] = g]
      /\ edits < MaxEdits /\ edits' = edits + 1
      /\ UNCHANGED <<now, contest, desk, call, late, calls>>
  BY Zenon DEF contestForge!Edit
<1> HIDE DEF g
<1>4. contestForge!TypeOK'
  BY <1>2, <1>3, SiteAssumption
  DEF ForgeInv, contestForge!TypeOK, contestForge!ContestForgeAssumption
<1>5. LockInv'
  BY <1>3 DEF ForgeInv, LockInv
<1> QED BY <1>4, <1>5 DEF ForgeInv

\* A request is sent: a creation as a write, anything else to be checked.
LEMMA SendStep ==
    ASSUME ForgeInv, NEW u \in User, NEW op, NEW step,
           NEW row \in contestForge!Row, contestForge!Send(u, op, row, step),
           \/ op = "create" /\ step = "write" /\ desk[u] = "add"
           \/ op \in {"update", "delete"} /\ step = "check"
    PROVE  ForgeInv'
<1>1. /\ call' = [call EXCEPT ![u] = [op |-> op, step |-> step, row |-> row]]
      /\ [op |-> op, step |-> step, row |-> row] \in
           [op : {"none", "create", "update", "delete"},
            step : {"idle", "check", "write"}, row : contestForge!Row]
      /\ calls' \in 0..MaxCalls
      /\ UNCHANGED <<now, contest, desk, form, late, edits>>
  BY SiteAssumption
  DEF contestForge!Send, ForgeInv, contestForge!TypeOK,
      contestForge!ContestForgeAssumption
<1>2. contestForge!TypeOK'
  BY <1>1 DEF ForgeInv, contestForge!TypeOK
<1>3. /\ call'[u].op = op /\ call'[u].step = step
      /\ \A v \in User : v # u => call'[v] = call[v]
  BY <1>1 DEF ForgeInv, contestForge!TypeOK
<1>4. LockInv'
  BY <1>1, <1>3 DEF ForgeInv, LockInv
<1> QED BY <1>2, <1>4 DEF ForgeInv

\* A handler is done with its request.
LEMMA ReplyStep ==
    ASSUME ForgeInv, NEW u \in User, NEW ok, contestForge!Reply(u, ok)
    PROVE  /\ call'[u].op = "none" /\ call'[u].step = "idle"
           /\ \A v \in User : v # u => call'[v] = call[v]
           /\ \A v \in User : desk'[v] = "add" => desk[v] = "add"
           /\ call' \in [User -> [op : {"none", "create", "update", "delete"},
                                  step : {"idle", "check", "write"},
                                  row : contestForge!Row]]
           /\ desk' \in [User -> {"closed", "add", "edit"}]
<1>1. contestForge!NoCall \in [op : {"none", "create", "update", "delete"},
                               step : {"idle", "check", "write"},
                               row : contestForge!Row]
  BY RowsTyped DEF contestForge!NoCall
<1>2. contestForge!NoCall.op = "none" /\ contestForge!NoCall.step = "idle"
  BY DEF contestForge!NoCall
<1>3. /\ call' = [call EXCEPT ![u] = contestForge!NoCall]
      /\ desk' = [desk EXCEPT ![u] = "closed"] \/ desk' = desk
  BY DEF contestForge!Reply
<1> QED BY <1>1, <1>2, <1>3 DEF ForgeInv, contestForge!TypeOK

\* What is sent of a form is a row.
LEMMA SentTyped ==
    ASSUME NEW f \in contestForge!Form
    PROVE  [start |-> contestForge!Instant(f.start), public |-> f.public,
            problems |-> f.problems] \in contestForge!Row
BY SiteAssumption
DEF contestForge!Form, contestForge!Row, contestForge!Instant,
    contestForge!ContestForgeAssumption

LEMMA UseStep ==
    ASSUME ForgeInv, NEW u \in User, contestForge!Use(u)
    PROVE  ForgeInv'
<1>a. contestForge!TypeOK /\ LockInv
  BY DEF ForgeInv
<1> USE <1>a
<1>1. CASE contestForge!OpenAdd(u)
  BY <1>1, BlankForm DEF contestForge!OpenAdd, contestForge!TypeOK, LockInv,
                         ForgeInv
<1>2. CASE contestForge!OpenEdit(u)
  <2>0. contest.row \in contestForge!Row /\ now \in 0..LastHour
    BY DEF contestForge!TypeOK
  <2>1. PICK f \in contestForge!Form : form' = [form EXCEPT ![u] = f]
    BY <1>2, <2>0, LoadedTyped, BlankForm, Zenon DEF contestForge!OpenEdit
  <2>2. contestForge!TypeOK'
    <3>1. /\ desk' = [desk EXCEPT ![u] = "edit"]
          /\ UNCHANGED <<now, contest, call, late, edits, calls>>
      BY <1>2, Zenon DEF contestForge!OpenEdit
    <3> QED BY <2>1, <3>1 DEF contestForge!TypeOK
  <2>3. LockInv'
    BY <1>2 DEF contestForge!OpenEdit, contestForge!TypeOK, LockInv
  <2> QED BY <2>2, <2>3 DEF ForgeInv
<1>0. form[u] \in contestForge!Form
  BY DEF contestForge!TypeOK
<1>3. CASE contestForge!handleChange(u)
  <2>1. CASE contestForge!Edit(u, [form[u] EXCEPT !.public = ~@])
    BY <1>0, <2>1, FlippedTyped, EditStep, Zenon
  <2>2. ASSUME NEW text \in 0..(LastHour + Zone),
               contestForge!Edit(u, [form[u] EXCEPT !.dated = TRUE, !.start = text])
        PROVE  ForgeInv'
    BY <1>0, <2>2, DatedTyped, EditStep, Zenon
  <2> QED BY <1>3, <2>1, <2>2, Zenon DEF contestForge!handleChange
<1>4. ASSUME NEW p \in Problem, contestForge!toggleProblem(u, p)
      PROVE  ForgeInv'
  BY <1>0, <1>4, ToggledTyped, EditStep, Zenon DEF contestForge!toggleProblem
<1>5. ASSUME NEW p \in Problem, contestForge!updatePoints(u, p)
      PROVE  ForgeInv'
  BY <1>0, <1>5, PointedTyped, EditStep, Zenon DEF contestForge!updatePoints
<1>6. CASE contestForge!Leave(u)
  BY <1>6 DEF contestForge!Leave, contestForge!TypeOK, LockInv, ForgeInv
<1>7. CASE contestForge!handleSubmit(u)
  <2> DEFINE row == [start    |-> contestForge!Instant(form[u].start),
                     public   |-> form[u].public,
                     problems |-> form[u].problems]
  <2>1. row \in contestForge!Row
    BY <1>0, SentTyped, Zenon
  <2>2. \/ desk[u] = "add" /\ contestForge!Send(u, "create", row, "write")
        \/ contestForge!Send(u, "update", row, "check")
    BY <1>7 DEF contestForge!handleSubmit
  <2> HIDE DEF row
  <2> QED BY <2>1, <2>2, SendStep
<1>8. CASE contestForge!handleDelete(u)
  BY <1>8, RowsTyped, SendStep DEF contestForge!handleDelete
<1>9. CASE contestForge!Check(u)
  <2>1. late' \in [User -> BOOLEAN] /\ \A v \in User : v # u => late'[v] = late[v]
    BY <1>9 DEF contestForge!Check, contestForge!TypeOK
  <2>2. late'[u] => contest.is = "there" /\ contestForge!Locked(u)
    BY <1>9 DEF contestForge!Check, contestForge!TypeOK, contestForge!Locked
  <2>3. CASE contestForge!Refused(u)
    <3>1. contestForge!Reply(u, FALSE)
      BY <1>9, <2>3 DEF contestForge!Check
    <3>2. contestForge!TypeOK'
      BY <1>9, <2>1, <3>1, ReplyStep DEF contestForge!Check, contestForge!TypeOK
    <3>3. /\ call'[u].op = "none" /\ call'[u].step = "idle"
          /\ \A v \in User : v # u => call'[v] = call[v]
          /\ \A v \in User : desk'[v] = "add" => desk[v] = "add"
          /\ UNCHANGED contest
      BY <1>9, <3>1, ReplyStep DEF contestForge!Check
    <3>4. LockInv'
      BY <2>1, <2>2, <3>3 DEF LockInv
    <3> QED BY <3>2, <3>4 DEF ForgeInv
  <2>4. CASE ~contestForge!Refused(u)
    <3>0. call[u] \in Request
      BY DEF contestForge!TypeOK, Request
    <3>1. PICK c \in Request :
            call' = [call EXCEPT ![u] = c] /\ c.op = call[u].op /\ UNCHANGED desk
      BY <1>9, <2>4, <3>0, PassedTyped, Zenon DEF contestForge!Check
    <3>2. contestForge!TypeOK'
      BY <1>9, <2>1, <3>1 DEF contestForge!Check, contestForge!TypeOK, Request
    <3>3. u \notin Admins => ~late'[u]
      BY <2>2, <2>4 DEF contestForge!Refused
    <3>6. contest.is = "there"
      BY <2>4 DEF contestForge!Refused
    <3>4. /\ \A v \in User : call'[v].op = call[v].op
          /\ \A v \in User : v # u => call'[v] = call[v]
      BY <3>1 DEF contestForge!TypeOK
    <3>5. LockInv'
      BY <1>9, <2>1, <2>2, <3>1, <3>3, <3>4, <3>6
      DEF contestForge!Check, contestForge!TypeOK, LockInv
    <3> QED BY <3>2, <3>5 DEF ForgeInv
  <2> QED BY <2>3, <2>4 DEF ForgeInv
<1>10. CASE contestForge!Create(u)
  <2>1. contestForge!Reply(u, TRUE) /\ desk' = [desk EXCEPT ![u] = "closed"]
    BY <1>10 DEF contestForge!Create, contestForge!Reply
  <2>2. contestForge!TypeOK'
    BY <1>10, <2>1, ReplyStep DEF contestForge!Create, contestForge!TypeOK
  <2>3. u = Author
    BY <1>10 DEF contestForge!Create, LockInv
  <2>4. \A v \in User : desk'[v] # "add" /\ call'[v].op # "create"
    <3>1. /\ call'[u].op = "none"
          /\ \A v \in User : v # u => call'[v] = call[v]
      BY <2>1, ReplyStep
    <3>2. \A v \in User : v # u => desk[v] # "add" /\ call[v].op # "create"
      BY <2>3 DEF LockInv
    <3>3. \A v \in User : desk'[v] = IF v = u THEN "closed" ELSE desk[v]
      BY <2>1 DEF contestForge!TypeOK
    <3> QED BY <3>1, <3>2, <3>3
  <2>5. LockInv'
    BY <1>10, <2>1, <2>4, ReplyStep DEF contestForge!Create, LockInv
  <2> QED BY <2>2, <2>5 DEF ForgeInv
<1>11. CASE contestForge!Update(u)
  <2>1. PICK ok : contestForge!Reply(u, ok)
    BY <1>11 DEF contestForge!Update
  <2>2. contest' \in [is : {"none", "there", "gone"}, row : contestForge!Row]
        /\ contest'.is = contest.is
    BY <1>11 DEF contestForge!Update, contestForge!TypeOK
  <2>3. contestForge!TypeOK'
    BY <1>11, <2>1, <2>2, ReplyStep DEF contestForge!Update, contestForge!TypeOK
  <2>4. LockInv'
    BY <1>11, <2>1, <2>2, ReplyStep DEF contestForge!Update, LockInv
  <2> QED BY <2>3, <2>4 DEF ForgeInv
<1>12. CASE contestForge!Delete(u)
  <2>1. contestForge!Reply(u, TRUE)
    BY <1>12 DEF contestForge!Delete
  <2>2. contest' \in [is : {"none", "there", "gone"}, row : contestForge!Row]
        /\ contest'.is = "gone"
    BY <1>12, RowsTyped, ContestTyped, Zenon
    DEF contestForge!Delete, contestForge!TypeOK
  <2>3. contestForge!TypeOK'
    BY <1>12, <2>1, <2>2, ReplyStep DEF contestForge!Delete, contestForge!TypeOK
  <2>4. LockInv'
    BY <1>12, <2>1, <2>2, ReplyStep DEF contestForge!Delete, LockInv
  <2> QED BY <2>3, <2>4 DEF ForgeInv
<1>13. CASE contestForge!Fail(u)
  <2>1. contestForge!Reply(u, FALSE)
    BY <1>13 DEF contestForge!Fail
  <2>2. contestForge!TypeOK'
    BY <1>13, <2>1, ReplyStep DEF contestForge!Fail, contestForge!TypeOK
  <2>3. LockInv'
    BY <1>13, <2>1, ReplyStep DEF contestForge!Fail, LockInv
  <2> QED BY <2>2, <2>3 DEF ForgeInv
<1> QED
  BY <1>1, <1>2, <1>3, <1>4, <1>5, <1>6, <1>7, <1>8, <1>9, <1>10, <1>11, <1>12,
     <1>13 DEF contestForge!Use

\* No step of a user or of the clock ends one of a late request with a change.
LEMMA ForgeStep ==
    ASSUME ForgeInv, [contestForge!Next]_contestVars
    PROVE  ForgeInv' /\ contestForge!RefusesLate
<1>1. ForgeInv'
  <2>1. CASE contestForge!Tick
    BY <2>1, SiteAssumption
    DEF contestForge!Tick, ForgeInv, LockInv, contestForge!TypeOK,
        contestForge!ContestForgeAssumption
  <2>2. CASE UNCHANGED contestVars
    BY <2>2 DEF contestVars, ForgeInv, LockInv, contestForge!TypeOK
  <2> QED BY <2>1, <2>2, UseStep DEF contestForge!Next
<1>2. contestForge!RefusesLate
  BY DEF ForgeInv, LockInv, contestForge!RefusesLate
<1> QED BY <1>1, <1>2

\* A request of a professor that came after the start changes nothing:
\* StartedStaysFixed, for any number of users, requests and times
\* (contest_controller.go:262).
THEOREM LockHolds == Spec => StartedStaysFixed
<1>1. ASSUME Init PROVE ForgeInv
  <2>1. contestForge!Init
    BY <1>1 DEF Init
  <2>2. contestForge!Blank \in contestForge!Form
    BY <2>1, SiteAssumption, RowsTyped
    DEF contestForge!Init, contestForge!Blank, contestForge!Form,
        contestForge!Row, contestForge!ContestForgeAssumption
  <2>3. contestForge!NoCall \in Request /\ contestForge!NoCall.op = "none"
        /\ contestForge!NoCall.step = "idle"
    BY RowsTyped DEF contestForge!NoCall, Request
  <2>4. contestForge!TypeOK
    BY <2>1, <2>2, <2>3, SiteAssumption, RowsTyped
    DEF contestForge!Init, contestForge!TypeOK, Request,
        contestForge!ContestForgeAssumption
  <2>5. LockInv
    BY <2>1, <2>3 DEF contestForge!Init, LockInv
  <2> QED BY <2>4, <2>5 DEF ForgeInv
<1>2. ForgeInv /\ [Next]_vars =>
        ForgeInv' /\ [contestForge!RefusesLate]_contestVars
  BY PartsStep, ForgeStep
<1> QED BY <1>1, <1>2, PTL DEF Spec, StartedStaysFixed

-----------------------------------------------------------------------------
(* Proctor *)

\* The two buffers, and all events that are in no batch.
Secure == buffer["secure"]
Editor == buffer["editor"]
Settled == Secure \cup Editor \cup logged \cup failed

\* Every event is in one place only.
EventInv ==
    /\ told \in Nat /\ buffer \in [proctor!Hook -> SUBSET (1..told)]
    /\ Settled \cup UNION batches = 1..told
    /\ Secure \cap Editor = {} /\ logged \cap failed = {}
    /\ (Secure \cup Editor) \cap (logged \cup failed) = {}
    /\ \A b \in batches : b # {} /\ b \cap Settled = {}
    /\ \A b, c \in batches : b # c => b \cap c = {}

\* A page that has seen fullscreen and is out of it will be told so, was told so
\* before it was armed, or has dispatched an event of it.
ScreenInv ==
    /\ hooks \subseteq proctor!Hook /\ (arena # "away" => "secure" \in hooks)
    /\ queue \in Nat
    /\ (armed => entered) /\ (entered => arena # "away")
    /\ (seen \/ entered) /\ ~whole => queue > 0 \/ early \/ drops # {}

\* New events go to the buffers.
Tells(A, B) ==
    /\ told' \in Nat /\ told <= told'
    /\ A \cap B = {} /\ A \cup B = (told + 1)..told'
    /\ buffer' \in [proctor!Hook -> SUBSET (1..told')]
    /\ Secure' = Secure \cup A /\ Editor' = Editor \cup B

LEMMA CardinalityIs == \A S : proctor!Cardinality(S) = Cardinality(S)
BY DEF proctor!Cardinality, Cardinality, proctor!IsFiniteSet, IsFiniteSet

LEMMA HooksCounted ==
    ASSUME NEW H \in SUBSET proctor!Hook
    PROVE  \/ H = {} /\ proctor!Cardinality(H) = 0
           \/ H = {"secure"} /\ proctor!Cardinality(H) = 1
           \/ H = {"editor"} /\ proctor!Cardinality(H) = 1
           \/ H = {"secure", "editor"} /\ proctor!Cardinality(H) = 2
<1>1. \/ H = {} \/ H = {"secure"} \/ H = {"editor"} \/ H = {"secure", "editor"}
  BY DEF proctor!Hook
<1>2. Cardinality({}) = 0
  BY FS_EmptySet
<1>3. /\ IsFiniteSet({"secure"}) /\ Cardinality({"secure"}) = 1
      /\ Cardinality({"editor"}) = 1
  BY FS_Singleton
<1>4. Cardinality({"secure"} \cup {"editor"}) = 2
  BY <1>3, FS_AddElement
<1>5. {"secure"} \cup {"editor"} = {"secure", "editor"}
  OBVIOUS
<1> QED BY <1>1, <1>2, <1>3, <1>4, <1>5, CardinalityIs

LEMMA DispatchTells ==
    ASSUME EventInv, NEW H \in SUBSET proctor!Hook, proctor!Dispatch(H)
    PROVE  \E A, B : Tells(A, B)
<1>1. told \in Nat /\ buffer \in [proctor!Hook -> SUBSET (1..told)]
  BY DEF EventInv
<1>2. told' = told + proctor!Cardinality(H)
  BY DEF proctor!Dispatch
<1>3. PICK of \in [H -> (told + 1)..told'] :
        /\ \A x, y \in H : of[x] = of[y] => x = y
        /\ buffer' = [x \in proctor!Hook |->
                        IF x \in H THEN buffer[x] \cup {of[x]} ELSE buffer[x]]
  BY DEF proctor!Dispatch
<1> DEFINE A == IF "secure" \in H THEN {of["secure"]} ELSE {}
           B == IF "editor" \in H THEN {of["editor"]} ELSE {}
<1>4. told' \in Nat /\ told <= told' /\ A \cap B = {} /\ A \cup B = (told + 1)..told'
  <2>1. CASE H = {} /\ told' = told
    BY <1>1, <2>1
  <2>2. CASE H = {"secure"} /\ told' = told + 1
    BY <1>1, <1>3, <2>2
  <2>3. CASE H = {"editor"} /\ told' = told + 1
    BY <1>1, <1>3, <2>3
  <2>4. CASE H = {"secure", "editor"} /\ told' = told + 2
    BY <1>1, <1>3, <2>4
  <2> QED BY <1>1, <1>2, <2>1, <2>2, <2>3, <2>4, HooksCounted
<1>5. buffer' \in [proctor!Hook -> SUBSET (1..told')]
  <2>1. \A x \in proctor!Hook : x \in H => of[x] \in 1..told'
    BY <1>1, <1>3, <1>4
  <2> QED BY <1>1, <1>3, <1>4, <2>1
<1>6. Secure' = Secure \cup A /\ Editor' = Editor \cup B
  BY <1>3 DEF Secure, Editor, proctor!Hook
<1> QED BY <1>4, <1>5, <1>6 DEF Tells

LEMMA EventsTold ==
    ASSUME EventInv, NEW A, NEW B, Tells(A, B), UNCHANGED <<batches, logged, failed>>
    PROVE  EventInv'
<1>1. /\ told \in Nat /\ told' \in Nat /\ told <= told'
      /\ A \cup B = (told + 1)..told' /\ A \cap B = {}
      /\ Secure' = Secure \cup A /\ Editor' = Editor \cup B
      /\ logged' = logged /\ failed' = failed /\ batches' = batches
  BY DEF EventInv, Tells
<1>2. (A \cup B) \cap (1..told) = {} /\ 1..told' = (1..told) \cup A \cup B
  BY <1>1
<1>3. /\ Settled \cup UNION batches = 1..told
      /\ Secure \subseteq 1..told /\ Editor \subseteq 1..told
      /\ logged \subseteq 1..told /\ failed \subseteq 1..told
      /\ \A b \in batches : b \subseteq 1..told
  BY DEF EventInv, Settled
<1>4. Settled' = Settled \cup A \cup B
  BY <1>1 DEF Settled
<1>5. Settled' \cup UNION batches' = 1..told'
  BY <1>1, <1>2, <1>3, <1>4
<1>6. \A b \in batches : b \cap (A \cup B) = {}
  BY <1>2, <1>3
<1>7. \A b \in batches' : b # {} /\ b \cap Settled' = {}
  BY <1>1, <1>4, <1>6 DEF EventInv
<1>8. Secure' \cap Editor' = {}
      /\ (Secure' \cup Editor') \cap (logged' \cup failed') = {}
  BY <1>1, <1>2, <1>3 DEF EventInv
<1>9. /\ buffer' \in [proctor!Hook -> SUBSET (1..told')]
      /\ logged' \cap failed' = {}
      /\ \A b, c \in batches' : b # c => b \cap c = {}
  BY <1>1 DEF EventInv, Tells
<1> QED BY <1>1, <1>5, <1>7, <1>8, <1>9 DEF EventInv

\* A buffer, or both, becomes a batch.
LEMMA EventsSent ==
    ASSUME EventInv, UNCHANGED <<told, logged, failed>>, NEW X \in SUBSET proctor!Hook,
           batches' = batches \cup ({buffer[x] : x \in X} \ {{}}),
           buffer' = [x \in proctor!Hook |-> IF x \in X THEN {} ELSE buffer[x]]
    PROVE  EventInv'
<1>1. /\ told \in Nat /\ buffer \in [proctor!Hook -> SUBSET (1..told)]
      /\ Settled \cup UNION batches = 1..told
      /\ Secure \cap Editor = {} /\ logged \cap failed = {}
      /\ (Secure \cup Editor) \cap (logged \cup failed) = {}
      /\ \A b \in batches : b # {} /\ b \cap Settled = {}
      /\ \A b, c \in batches : b # c => b \cap c = {}
  BY DEF EventInv
<1>2. /\ Secure' = IF "secure" \in X THEN {} ELSE Secure
      /\ Editor' = IF "editor" \in X THEN {} ELSE Editor
      /\ buffer' \in [proctor!Hook -> SUBSET (1..told')]
  BY <1>1 DEF Secure, Editor, proctor!Hook
<1>3. \A b : b \in batches' <=>
        \/ b \in batches
        \/ b # {} /\ "secure" \in X /\ b = Secure
        \/ b # {} /\ "editor" \in X /\ b = Editor
  BY DEF Secure, Editor, proctor!Hook
<1>4. Settled' \cup UNION batches' = 1..told'
  <2>1. \A n : n \in UNION batches' <=>
          \/ n \in UNION batches
          \/ "secure" \in X /\ n \in Secure
          \/ "editor" \in X /\ n \in Editor
    <3>1. \A n : n \in UNION batches' <=> \E b \in batches' : n \in b
      OBVIOUS
    <3>2. \A n : n \in UNION batches <=> \E b \in batches : n \in b
      OBVIOUS
    <3> QED BY <1>3, <3>1, <3>2
  <2> QED BY <1>1, <1>2, <2>1 DEF Settled
<1>5. \A b \in batches' : b # {} /\ b \cap Settled' = {}
  BY <1>1, <1>2, <1>3 DEF Settled
<1>6. \A b, c \in batches' : b # c => b \cap c = {}
  BY <1>1, <1>3 DEF Settled
<1>7. /\ Secure' \cap Editor' = {} /\ logged' \cap failed' = {}
      /\ (Secure' \cup Editor') \cap (logged' \cup failed') = {}
  BY <1>1, <1>2
<1> QED BY <1>1, <1>2, <1>4, <1>5, <1>6, <1>7 DEF EventInv

LEMMA UnmountSends ==
    ASSUME EventInv, proctor!Unmount, UNCHANGED <<told, logged, failed>>
    PROVE  EventInv'
<1>1. /\ batches' = batches \cup ({buffer[x] : x \in proctor!Hook} \ {{}})
      /\ buffer' = [x \in proctor!Hook |-> IF x \in proctor!Hook THEN {} ELSE buffer[x]]
  BY DEF proctor!Unmount
<1> QED BY <1>1, EventsSent

LEMMA MountScreen ==
    ASSUME ScreenInv, NEW p \in {"away", "hub", "problem"}, proctor!Mount(p),
           queue' \in Nat, whole' = whole \/ p = "away"
    PROVE  ScreenInv'
<1>1. /\ arena' = p /\ hooks' = IF p = "away" THEN {} ELSE {"secure"}
      /\ ~entered' /\ ~armed' /\ (seen' <=> p # "away" /\ whole)
  BY DEF proctor!Mount
<1>2. hooks' \subseteq proctor!Hook /\ (arena' # "away" => "secure" \in hooks')
  BY <1>1 DEF proctor!Hook
<1>3. seen' => whole'
  <2>1. CASE p = "away"
    BY <1>1, <2>1
  <2>2. CASE p # "away" /\ whole' = whole
    BY <1>1, <2>2
  <2> QED BY <2>1, <2>2
<1> QED BY <1>1, <1>2, <1>3 DEF ScreenInv

LEMMA ProctorStep ==
    ASSUME EventInv, ScreenInv, [proctor!Next]_proctorVars
    PROVE  EventInv' /\ ScreenInv'
<1>1. CASE UNCHANGED proctorVars
  <2>1. UNCHANGED <<told, buffer, batches, logged, failed>>
        /\ UNCHANGED <<hooks, arena, queue, armed, entered, seen, whole, early, drops>>
    BY <1>1 DEF proctorVars
  <2> QED BY <2>1 DEF EventInv, Settled, Secure, Editor, ScreenInv
<1>2. ASSUME UNCHANGED <<told, buffer, batches, logged, failed>> PROVE EventInv'
  BY <1>2 DEF EventInv, Settled, Secure, Editor
<1>3. ASSUME UNCHANGED <<hooks, arena, queue, armed, entered, seen, whole, early>>,
             drops \subseteq drops'
      PROVE  ScreenInv'
  BY <1>3 DEF ScreenInv
<1>4. ASSUME NEW H \in SUBSET proctor!Hook, proctor!Dispatch(H),
             UNCHANGED <<batches, logged, failed>>
      PROVE  EventInv'
  BY <1>4, DispatchTells, EventsTold
<1>5. proctor!Recorded \subseteq proctor!Hook
  BY DEF proctor!Recorded, ScreenInv
<1>6. ASSUME NEW x \in proctor!Hook, proctor!Flush(x) PROVE EventInv' /\ ScreenInv'
  <2>1. /\ batches' = batches \cup ({buffer[y] : y \in {x}} \ {{}})
        /\ buffer' = [y \in proctor!Hook |-> IF y \in {x} THEN {} ELSE buffer[y]]
    <3>1. \A y \in proctor!Hook : buffer'[y] = IF y \in {x} THEN {} ELSE buffer[y]
      BY <1>6 DEF proctor!Flush, EventInv
    <3>2. buffer' = [y \in proctor!Hook |-> buffer'[y]]
      BY <1>6 DEF proctor!Flush, EventInv
    <3>3. {buffer[y] : y \in {x}} = {buffer[x]} /\ buffer[x] # {}
      BY <1>6 DEF proctor!Flush
    <3>4. batches' = batches \cup {buffer[x]}
      BY <1>6 DEF proctor!Flush
    <3> QED BY <3>1, <3>2, <3>3, <3>4
  <2>2. EventInv'
    BY <1>6, <2>1, EventsSent DEF proctor!Flush
  <2> QED BY <1>3, <1>6, <2>2 DEF proctor!Flush, proctor!place, proctor!screen
<1>7. ASSUME NEW b \in batches, NEW s \in SUBSET b, proctor!Record(b, s)
      PROVE  EventInv' /\ ScreenInv'
  <2>1. /\ batches' = batches \ {b} /\ logged' = logged \cup s
        /\ failed' = failed \cup (b \ s) /\ UNCHANGED <<told, buffer>>
    BY <1>7 DEF proctor!Record
  <2>2. Settled' = Settled \cup b /\ Secure' = Secure /\ Editor' = Editor
    BY <2>1 DEF Settled, Secure, Editor
  <2>3. Settled' \cup UNION batches' = Settled \cup UNION batches
    BY <2>1, <2>2
  <2>4. b \cap Settled = {} /\ \A c \in batches : c # b => c \cap b = {}
    BY DEF EventInv
  <2>5. EventInv'
    BY <2>1, <2>2, <2>3, <2>4 DEF EventInv, Settled
  <2> QED BY <1>3, <1>7, <2>5 DEF proctor!Record, proctor!place, proctor!screen
<1>8. CASE proctor!Hide
  <2>1. ScreenInv' /\ UNCHANGED <<batches, logged, failed>>
    BY <1>3, <1>8 DEF proctor!Hide, proctor!place, proctor!screen, proctor!net
  <2>2. CASE ~armed /\ proctor!Dispatch(proctor!Recorded)
    BY <1>4, <1>5, <2>1, <2>2
  <2>3. CASE /\ told' = told + proctor!Cardinality(hooks) + 1
             /\ buffer' = [x \in proctor!Hook |->
                  IF x = "secure" THEN buffer[x] \cup {told + 1, told + 2}
                  ELSE buffer[x] \cup (told + 3)..told']
             /\ armed
    <3>1. hooks = {"secure"} \/ hooks = {"secure", "editor"}
      BY <2>3 DEF ScreenInv, proctor!Hook
    <3>2. told' \in {told + 2, told + 3}
      BY <2>3, <3>1, HooksCounted DEF EventInv, proctor!Hook
    <3>3. Tells({told + 1, told + 2}, (told + 3)..told')
      BY <2>3, <3>2 DEF Tells, EventInv, Secure, Editor, proctor!Hook
    <3> QED BY <2>1, <3>3, EventsTold
  <2> QED BY <1>8, <2>1, <2>2, <2>3 DEF proctor!Hide
<1>9. CASE proctor!MouseLeaves \/ proctor!EnterArena \/ proctor!Arm
           \/ proctor!ProblemLoads \/ proctor!EnterFullscreen
           \/ proctor!ExitFullscreen \/ proctor!Acknowledge \/ proctor!Finish
  <2>1. UNCHANGED <<told, buffer, batches, logged, failed>>
    BY <1>9 DEF proctor!MouseLeaves, proctor!EnterArena, proctor!Arm,
       proctor!ProblemLoads, proctor!EnterFullscreen, proctor!ExitFullscreen,
       proctor!Acknowledge, proctor!Finish, proctor!net
  <2>2. ScreenInv'
    <3>1. CASE proctor!MouseLeaves
      BY <1>3, <3>1 DEF proctor!MouseLeaves, proctor!place, proctor!screen
    <3>2. CASE proctor!EnterArena
      BY <3>2 DEF proctor!EnterArena, proctor!place, ScreenInv
    <3>3. CASE proctor!Arm
      <4>1. UNCHANGED <<hooks, arena, queue, entered, whole, early, drops>>
            /\ entered /\ (seen' <=> seen \/ whole)
        BY <3>3 DEF proctor!Arm, proctor!place
      <4> QED BY <4>1 DEF ScreenInv
    <3>4. CASE proctor!ProblemLoads
      <4>1. hooks' = hooks \cup {"editor"}
            /\ UNCHANGED <<arena, whole, queue, seen, entered, armed, early, drops>>
        BY <3>4 DEF proctor!ProblemLoads, proctor!screen
      <4> QED BY <4>1 DEF ScreenInv, proctor!Hook
    <3>5. ASSUME NEW to, proctor!Change(to),
                 UNCHANGED <<hooks, arena, entered, armed>>
          PROVE  ScreenInv'
      BY <3>5 DEF proctor!Change, ScreenInv
    <3>6. CASE proctor!EnterFullscreen \/ proctor!ExitFullscreen
      BY <3>5, <3>6 DEF proctor!EnterFullscreen, proctor!ExitFullscreen,
                        proctor!place
    <3>7. CASE proctor!Acknowledge
      <4>1. \/ proctor!Change(~whole) \/ UNCHANGED <<whole, queue>>
        BY <3>7 DEF proctor!Acknowledge
      <4>2. UNCHANGED <<hooks, arena, seen, entered, armed, early, drops>>
        BY <3>7 DEF proctor!Acknowledge, proctor!place
      <4> QED BY <1>3, <3>5, <4>1, <4>2
    <3>8. CASE proctor!Finish
      <4>1. \/ proctor!Change(FALSE) \/ UNCHANGED <<whole, queue>>
        BY <3>8 DEF proctor!Finish
      <4>2. UNCHANGED <<hooks, arena, seen, entered, armed, early, drops>>
        BY <3>8 DEF proctor!Finish, proctor!place
      <4> QED BY <1>3, <3>5, <4>1, <4>2
    <3> QED BY <1>9, <3>1, <3>2, <3>3, <3>4, <3>6, <3>7, <3>8
  <2> QED BY <1>2, <2>1, <2>2
<1>10. CASE proctor!MouseTimer \/ proctor!Paste \/ proctor!Keystroke
  <2>1. \/ proctor!Dispatch(proctor!Recorded) \/ proctor!Dispatch({"editor"})
        \/ UNCHANGED <<told, buffer>>
    BY <1>10 DEF proctor!MouseTimer, proctor!Paste, proctor!Keystroke
  <2>2. UNCHANGED <<batches, logged, failed>> /\ ScreenInv'
    BY <1>3, <1>10 DEF proctor!MouseTimer, proctor!Paste, proctor!Keystroke,
       proctor!place, proctor!screen, proctor!net
  <2>3. {"editor"} \subseteq proctor!Hook
    BY DEF proctor!Hook
  <2> QED BY <1>2, <1>4, <1>5, <2>1, <2>2, <2>3
<1>11. CASE proctor!FullscreenChanged
  <2>1. UNCHANGED <<hooks, arena, entered, armed, whole, batches, logged, failed>>
        /\ queue' = queue - 1 /\ queue > 0 /\ seen' = (arena # "away" /\ whole)
    BY <1>11 DEF proctor!FullscreenChanged, proctor!place, proctor!net
  <2>2. CASE armed /\ ~whole
    <3>1. proctor!Dispatch({"secure"}) /\ drops' = drops \cup {told + 1}
      BY <1>11, <2>2 DEF proctor!FullscreenChanged
    <3>2. EventInv'
      BY <1>4, <2>1, <3>1 DEF proctor!Hook
    <3> QED BY <2>1, <3>1, <3>2 DEF ScreenInv
  <2>3. CASE ~(armed /\ ~whole)
    <3>1. /\ early' <=> early \/ (arena # "away" /\ ~whole)
          /\ UNCHANGED <<told, drops, buffer>>
      BY <1>11, <2>3 DEF proctor!FullscreenChanged
    <3>2. EventInv'
      BY <1>2, <2>1, <3>1
    <3>3. seen' <=> arena # "away" /\ whole
      BY <2>1
    <3>4. queue' \in Nat
      BY <2>1 DEF ScreenInv
    <3>5. (seen' \/ entered') /\ ~whole' => early'
      BY <2>1, <3>1, <3>3 DEF ScreenInv
    <3>6. ScreenInv'
      BY <2>1, <3>4, <3>5 DEF ScreenInv
    <3> QED BY <3>2, <3>6
  <2> QED BY <2>2, <2>3
<1>12. CASE proctor!ForceCheck
  <2>1. proctor!Dispatch({"secure"}) /\ drops \subseteq drops'
        /\ UNCHANGED <<batches, logged, failed>>
    BY <1>12 DEF proctor!ForceCheck, proctor!net
  <2> QED BY <1>3, <1>4, <1>12, <2>1
      DEF proctor!ForceCheck, proctor!Hook, proctor!place, proctor!screen
<1>13. CASE \/ \E p \in {"away", "hub", "problem"} : proctor!Go(p)
            \/ proctor!Navigate \/ proctor!Unload
  <2>1. PICK p \in {"away", "hub", "problem"} :
          proctor!Mount(p) /\ (whole' = whole \/ p = "away")
    BY <1>13 DEF proctor!Go, proctor!Navigate, proctor!Unload
  <2>2. UNCHANGED <<told, logged, failed>> /\ (queue' = queue \/ queue' = 0)
    BY <1>13 DEF proctor!Go, proctor!Navigate, proctor!Unload
  <2>3. EventInv'
    BY <2>1, <2>2, UnmountSends DEF proctor!Mount
  <2>4. ScreenInv'
    BY <2>1, <2>2, MountScreen DEF ScreenInv
  <2> QED BY <2>3, <2>4
<1> QED BY <1>1, <1>6, <1>7, <1>8, <1>9, <1>10, <1>11, <1>12, <1>13 DEF proctor!Next

\* What every event and every page obeys is what the property says.
LEMMA ProctorHolds ==
    ASSUME EventInv, ScreenInv PROVE proctor!ExitsAccounted
<1> DEFINE settled == {Secure, Editor, logged, failed}
<1>1. UNION (settled \cup batches) = 1..told
  BY DEF EventInv, Settled
<1>2. \A f, g \in settled \cup batches : f # g => f \cap g = {}
  BY DEF EventInv, Settled
<1>3. batches \cap settled = {}
  BY DEF EventInv, Settled
<1>4. armed /\ ~whole /\ queue = 0 => early \/ drops # {}
  BY DEF ScreenInv
<1> QED BY <1>1, <1>2, <1>3, <1>4
        DEF EventInv, proctor!ExitsAccounted, Secure, Editor

LEMMA ProctorStarts ==
    ASSUME proctor!Init PROVE EventInv /\ ScreenInv
BY DEF proctor!Init, proctor!Hook, EventInv, ScreenInv, Settled, Secure, Editor

-----------------------------------------------------------------------------
(* AddressWatch *)

\* Addresses used, and not longer ago than a key lives before t.
Fresh(t) == {a \in Address : used[a] > 0 /\ used[a] > t - Life}

\* The latest use was at t: the key of the addresses has been renewed then, with
\* those that are fresh in it, and if they are three an alert is fresh as well.
LatestAt(t) ==
    /\ \A a \in Address : used[a] <= t
    /\ t > 0 => /\ \E a \in Address : used[a] = t
                /\ known.till = t + Life /\ Fresh(t) \subseteq known.is
    /\ Cardinality(Fresh(t)) >= 3 => \E i \in DOMAIN alerts : alerts[i].at > t - Life

\* The key of the alert lives as long as the last alert is recent.
AlertInv ==
    /\ alerts \in Seq([at : Nat, step : watch!Step])
    /\ \A i \in DOMAIN alerts : alerts[i].at + Life <= quiet
    /\ quiet # 0 => \E i \in DOMAIN alerts : quiet = alerts[i].at + Life
    /\ \A i, j \in DOMAIN alerts : i < j => alerts[j].at - alerts[i].at >= Life

WatchInv ==
    /\ clock \in Nat \ {0} /\ quiet \in Nat /\ used \in [Address -> 0..clock]
    /\ IsFiniteSet(known.is) /\ known.till \in Nat
    /\ AlertInv
    /\ \E t \in 0..clock : LatestAt(t)

LEMMA WatchCardinalityIs == \A S : watch!Cardinality(S) = Cardinality(S)
BY DEF watch!Cardinality, Cardinality, watch!IsFiniteSet, IsFiniteSet

LEMMA LifeIs == Life \in Nat /\ Life > 0
BY SiteAssumption DEF watch!AddressWatchAssumption

LEMMA AlertsTyped ==
    ASSUME NEW s \in Seq([at : Nat, step : watch!Step])
    PROVE  /\ Len(s) \in Nat /\ DOMAIN s = 1..Len(s)
           /\ s \in [1..Len(s) -> [at : Nat, step : watch!Step]]
           /\ \A i \in DOMAIN s :
                s[i] \in [at : Nat, step : watch!Step] /\ s[i].at \in Nat
<1>1. /\ Len(s) \in Nat /\ DOMAIN s = 1..Len(s)
      /\ s \in [1..Len(s) -> [at : Nat, step : watch!Step]]
  BY LenProperties
<1>2. \A i \in DOMAIN s : s[i] \in [at : Nat, step : watch!Step]
  BY <1>1
<1> QED BY <1>1, <1>2

LEMMA AlertsMake ==
    ASSUME NEW n \in Nat, NEW s, s = [i \in 1..n |-> s[i]],
           \A i \in 1..n : s[i] \in [at : Nat, step : watch!Step]
    PROVE  s \in Seq([at : Nat, step : watch!Step])
<1>1. s \in [1..n -> [at : Nat, step : watch!Step]]
  OBVIOUS
<1> QED BY <1>1, SeqDef

\* Alerts come further.
LEMMA AlertsAdvance ==
    ASSUME WatchInv, UNCHANGED <<clock, known, quiet, used>>,
           alerts' \in Seq([at : Nat, step : watch!Step]),
           DOMAIN alerts' = DOMAIN alerts,
           \A i \in DOMAIN alerts : alerts'[i].at = alerts[i].at
    PROVE  WatchInv'
<1>1. AlertInv'
  <2>1. /\ \A i \in DOMAIN alerts : alerts[i].at + Life <= quiet
        /\ quiet # 0 => \E i \in DOMAIN alerts : quiet = alerts[i].at + Life
        /\ \A i, j \in DOMAIN alerts : i < j => alerts[j].at - alerts[i].at >= Life
    BY DEF WatchInv, AlertInv
  <2>2. \A i \in DOMAIN alerts' : alerts'[i].at + Life <= quiet'
    BY <2>1
  <2>3. quiet' # 0 => \E i \in DOMAIN alerts' : quiet' = alerts'[i].at + Life
    BY <2>1
  <2>4. \A i, j \in DOMAIN alerts' :
          i < j => alerts'[j].at - alerts'[i].at >= Life
    BY <2>1
  <2> QED BY <2>2, <2>3, <2>4 DEF AlertInv
<1>2. \A t : LatestAt(t) => LatestAt(t)'
  BY DEF LatestAt, Fresh
<1> QED BY <1>1, <1>2 DEF WatchInv

LEMMA ComesStep ==
    ASSUME WatchInv, UNCHANGED <<clock, known, quiet, used>>,
           NEW i \in DOMAIN alerts, NEW from, NEW to \in watch!Step,
           watch!Comes(i, from, to)
    PROVE  WatchInv'
<1>1. /\ alerts \in Seq([at : Nat, step : watch!Step])
      /\ alerts' = [alerts EXCEPT ![i].step = to]
  BY DEF WatchInv, AlertInv, watch!Comes
<1>2. \A j \in DOMAIN alerts : alerts[j] \in [at : Nat, step : watch!Step]
  BY <1>1, AlertsTyped
<1>3. /\ DOMAIN alerts' = DOMAIN alerts
      /\ \A j \in DOMAIN alerts :
           alerts'[j] = IF j = i THEN [alerts[j] EXCEPT !.step = to] ELSE alerts[j]
  BY <1>1
<1>4. \A j \in DOMAIN alerts : alerts'[j] \in [at : Nat, step : watch!Step]
                               /\ alerts'[j].at = alerts[j].at
  BY <1>2, <1>3
<1>5. alerts' = [j \in 1..Len(alerts) |-> alerts'[j]] /\ DOMAIN alerts = 1..Len(alerts)
      /\ Len(alerts) \in Nat
  BY <1>1, AlertsTyped
<1>6. alerts' \in Seq([at : Nat, step : watch!Step])
  BY <1>4, <1>5, AlertsMake
<1> QED BY <1>3, <1>4, <1>6, AlertsAdvance

LEMMA RestartStep ==
    ASSUME WatchInv, watch!Restart PROVE WatchInv'
<1>1. /\ alerts \in Seq([at : Nat, step : watch!Step])
      /\ UNCHANGED <<clock, known, quiet, used>>
  BY DEF WatchInv, AlertInv, watch!Restart
<1>2. \A j \in DOMAIN alerts : alerts[j] \in [at : Nat, step : watch!Step]
  BY <1>1, AlertsTyped
<1> DEFINE next(s) == CASE s = "insert" -> "lost" [] s = "mark" -> "unmarked"
                        [] OTHER -> s
<1>3. alerts' = [j \in DOMAIN alerts |->
                   [alerts[j] EXCEPT !.step = next(alerts[j].step)]]
  BY DEF watch!Restart
<1>4. \A s \in watch!Step : next(s) \in watch!Step
  BY DEF watch!Step
<1> HIDE DEF next
<1>5. \A j \in DOMAIN alerts : alerts'[j] \in [at : Nat, step : watch!Step]
                               /\ alerts'[j].at = alerts[j].at
  BY <1>2, <1>3, <1>4
<1>6. /\ DOMAIN alerts' = DOMAIN alerts /\ DOMAIN alerts = 1..Len(alerts)
      /\ Len(alerts) \in Nat /\ alerts' = [j \in 1..Len(alerts) |-> alerts'[j]]
  BY <1>1, <1>3, AlertsTyped
<1>7. alerts' \in Seq([at : Nat, step : watch!Step])
  BY <1>5, <1>6, AlertsMake
<1> QED BY <1>1, <1>5, <1>6, <1>7, AlertsAdvance

\* An alert is raised when the key of the one before it is gone.
LEMMA RaisedStep ==
    ASSUME WatchInv, NEW s \in watch!Step, clock >= quiet, quiet' = clock + Life,
           alerts' = Append(alerts, [at |-> clock, step |-> s])
    PROVE  AlertInv' /\ \E i \in DOMAIN alerts' : alerts'[i].at = clock
<1> DEFINE n == Len(alerts)
<1>1. /\ clock \in Nat /\ quiet \in Nat /\ n \in Nat
      /\ alerts \in Seq([at : Nat, step : watch!Step])
      /\ DOMAIN alerts = 1..n
      /\ \A i \in DOMAIN alerts : alerts[i].at + Life <= quiet
      /\ \A i, j \in DOMAIN alerts : i < j => alerts[j].at - alerts[i].at >= Life
  BY DEF WatchInv, AlertInv
<1>2. [at |-> clock, step |-> s] \in [at : Nat, step : watch!Step]
  BY <1>1
<1>3. /\ alerts' \in Seq([at : Nat, step : watch!Step])
      /\ DOMAIN alerts' = 1..(n + 1)
      /\ alerts'[n + 1] = [at |-> clock, step |-> s]
      /\ \A i \in 1..n : alerts'[i] = alerts[i]
  BY <1>1, <1>2
<1>4. alerts'[n + 1].at = clock
  BY <1>3
<1> HIDE DEF n
<1>5. \A i \in 1..n : alerts[i].at \in Nat
  BY <1>1, AlertsTyped
<1>6. \A i \in DOMAIN alerts' : alerts'[i].at + Life <= quiet'
  <2> TAKE i \in DOMAIN alerts'
  <2>1. CASE i = n + 1
    BY <1>1, <1>4, <2>1, LifeIs
  <2>2. CASE i \in 1..n
    BY <1>1, <1>3, <1>5, <2>2, LifeIs
  <2> QED BY <1>1, <1>3, <2>1, <2>2
<1>7. \A i, j \in DOMAIN alerts' : i < j => alerts'[j].at - alerts'[i].at >= Life
  <2> SUFFICES ASSUME NEW i \in DOMAIN alerts', NEW j \in DOMAIN alerts', i < j
               PROVE  alerts'[j].at - alerts'[i].at >= Life
    OBVIOUS
  <2>1. i \in 1..n
    BY <1>1, <1>3
  <2>2. CASE j = n + 1
    BY <1>1, <1>3, <1>4, <1>5, <2>1, <2>2, LifeIs
  <2>3. CASE j \in 1..n
    BY <1>1, <1>3, <2>1, <2>3
  <2> QED BY <1>1, <1>3, <2>2, <2>3
<1>8. n + 1 \in DOMAIN alerts'
  BY <1>1, <1>3
<1> QED BY <1>1, <1>3, <1>4, <1>6, <1>7, <1>8, LifeIs DEF AlertInv

\* What is fresh when an address is used was in the key, if it is not that one.
LEMMA UsedStep ==
    ASSUME WatchInv, NEW a \in Address, watch!Add(a),
           used' = [used EXCEPT ![a] = clock], UNCHANGED clock
    PROVE  /\ known'.till = clock + Life /\ IsFiniteSet(known'.is)
           /\ Fresh(clock)' \subseteq known'.is
           /\ used' \in [Address -> 0..clock] /\ used'[a] = clock
<1>1. PICK t \in 0..clock : LatestAt(t)
  BY DEF WatchInv
<1>2. /\ clock \in Nat \ {0} /\ used \in [Address -> 0..clock]
      /\ known.till \in Nat /\ IsFiniteSet(known.is)
  BY DEF WatchInv
<1>3. known'.is = watch!Held \cup {a} /\ known'.till = clock + Life
  BY DEF watch!Add
<1>4. IsFiniteSet(watch!Held)
  BY <1>2, FS_EmptySet DEF watch!Held
<1>5. IsFiniteSet(known'.is)
  BY <1>3, <1>4, FS_AddElement
<1>6. /\ used' \in [Address -> 0..clock] /\ used'[a] = clock
      /\ \A b \in Address : b # a => used'[b] = used[b]
  BY <1>2
<1>7. ASSUME NEW b \in Fresh(clock)', b # a PROVE b \in watch!Held
  <2>1. b \in Address /\ used[b] > 0 /\ used[b] > clock - Life
    BY <1>6, <1>7 DEF Fresh
  <2>2. used[b] <= t /\ used[b] \in Nat
    BY <1>1, <1>2, <2>1 DEF LatestAt
  <2>3. t > 0 /\ t + Life > clock /\ used[b] > t - Life
    BY <1>2, <2>1, <2>2, LifeIs
  <2>4. b \in known.is /\ known.till = t + Life
    BY <1>1, <2>1, <2>3 DEF LatestAt, Fresh
  <2> QED BY <2>3, <2>4 DEF watch!Held
<1> QED BY <1>3, <1>5, <1>6, <1>7

LEMMA TrackStep ==
    ASSUME WatchInv, NEW a \in Address, watch!Track(a) PROVE WatchInv'
<1>1. watch!Add(a) /\ used' = [used EXCEPT ![a] = clock] /\ clock' = clock
  BY DEF watch!Track
<1>2. /\ known'.till = clock + Life /\ IsFiniteSet(known'.is)
      /\ Fresh(clock)' \subseteq known'.is
      /\ used' \in [Address -> 0..clock] /\ used'[a] = clock
  BY <1>1, UsedStep
<1>3. clock \in Nat \ {0} /\ quiet \in Nat /\ AlertInv
  BY DEF WatchInv
<1>4. /\ AlertInv' /\ quiet' \in Nat
      /\ Cardinality(known'.is) >= 3 =>
           \E i \in DOMAIN alerts' : alerts'[i].at > clock - Life
  <2>1. CASE watch!Cardinality(known'.is) >= 3 /\ clock >= quiet
    <3>1. quiet' = clock + Life
          /\ \E s \in {"insert", "lost"} :
               alerts' = Append(alerts, [at |-> clock, step |-> s])
      BY <2>1 DEF watch!Track
    <3>2. {"insert", "lost"} \subseteq watch!Step
      BY DEF watch!Step
    <3>3. AlertInv' /\ \E i \in DOMAIN alerts' : alerts'[i].at = clock
      BY <2>1, <3>1, <3>2, RaisedStep
    <3> QED BY <1>3, <3>1, <3>3, LifeIs
  <2>2. CASE ~(watch!Cardinality(known'.is) >= 3 /\ clock >= quiet)
    <3>1. UNCHANGED <<quiet, alerts>>
      BY <2>2 DEF watch!Track
    <3>2. AlertInv' /\ quiet' \in Nat
      BY <1>3, <3>1 DEF AlertInv
    <3>3. ASSUME ~(clock >= quiet)
          PROVE  \E i \in DOMAIN alerts : alerts[i].at > clock - Life
      <4>1. quiet # 0
        BY <1>3, <3>3
      <4>2. PICK i \in DOMAIN alerts : quiet = alerts[i].at + Life
        BY <1>3, <4>1 DEF AlertInv
      <4>3. alerts[i].at \in Nat
        BY <1>3, AlertsTyped DEF AlertInv
      <4> QED BY <1>3, <3>3, <4>2, <4>3, LifeIs
    <3> QED BY <2>2, <3>1, <3>2, <3>3, WatchCardinalityIs
  <2> QED BY <2>1, <2>2
<1>5. LatestAt(clock)'
  <2>1. /\ Cardinality(Fresh(clock)') \in Nat /\ Cardinality(known'.is) \in Nat
        /\ Cardinality(Fresh(clock)') <= Cardinality(known'.is)
    <3>1. IsFiniteSet(Fresh(clock)')
          /\ Cardinality(Fresh(clock)') <= Cardinality(known'.is)
      BY <1>2, FS_Subset
    <3> QED BY <1>2, <3>1, FS_CardinalityType
  <2> QED BY <1>1, <1>2, <1>3, <1>4, <2>1 DEF LatestAt
<1>6. known'.till \in Nat /\ clock \in 0..clock
  BY <1>2, <1>3, LifeIs
<1> QED BY <1>1, <1>2, <1>3, <1>4, <1>5, <1>6 DEF WatchInv

LEMMA WatchStep ==
    ASSUME WatchInv, [watch!Next]_watchVars PROVE WatchInv'
<1>1. CASE UNCHANGED watchVars
  BY <1>1 DEF watchVars, WatchInv, AlertInv, LatestAt, Fresh
<1>2. CASE watch!Tick
  <2>1. clock' = clock + 1 /\ UNCHANGED <<known, quiet, used, alerts>>
    BY <1>2 DEF watch!Tick
  <2>2. AlertInv' /\ \A t : LatestAt(t) => LatestAt(t)'
    BY <2>1 DEF WatchInv, AlertInv, LatestAt, Fresh
  <2> QED BY <2>1, <2>2 DEF WatchInv
<1>3. ASSUME NEW i \in DOMAIN alerts, watch!LogTelemetry(i) \/ watch!MarkDirty(i)
      PROVE  WatchInv'
  <2>1. UNCHANGED <<clock, known, quiet, used>>
        /\ \E from, to \in watch!Step : watch!Comes(i, from, to)
    BY <1>3 DEF watch!LogTelemetry, watch!MarkDirty, watch!Step
  <2> QED BY <2>1, ComesStep
<1> QED BY <1>1, <1>2, <1>3, RestartStep, TrackStep DEF watch!Next

LEMMA WatchHolds ==
    ASSUME WatchInv PROVE watch!AlertedOnce
<1>1. PICK t \in 0..clock : LatestAt(t)
  BY DEF WatchInv
<1>2. clock \in Nat /\ used \in [Address -> 0..clock]
  BY DEF WatchInv
<1>3. watch!Latest = t
  <2> DEFINE S == {used[a] : a \in Address} \cup {0}
  <2>1. t \in S /\ \A u \in S : u <= t /\ u \in Nat
    BY <1>1, <1>2 DEF LatestAt
  <2>2. \A u \in S : (\A v \in S : v <= u) => u = t
    BY <1>2, <2>1
  <2> QED BY <2>1, <2>2 DEF watch!Latest, watch!Max
<1>4. watch!Recent = Fresh(t)
  BY <1>3 DEF watch!Recent, Fresh
<1> QED BY <1>1, <1>3, <1>4, WatchCardinalityIs
        DEF LatestAt, WatchInv, AlertInv, watch!AlertedOnce

LEMMA WatchStarts ==
    ASSUME watch!Init PROVE WatchInv
<1>1. /\ clock = 1 /\ known.is = {} /\ known.till = 0 /\ quiet = 0 /\ alerts = <<>>
      /\ used = [a \in Address |-> 0]
  BY DEF watch!Init
<1>2. Fresh(0) = {} /\ Cardinality({}) = 0 /\ IsFiniteSet({})
  BY <1>1, FS_EmptySet DEF Fresh
<1>3. alerts \in Seq([at : Nat, step : watch!Step]) /\ DOMAIN alerts = {}
  BY <1>1, EmptySeq
<1>4. LatestAt(0)
  <2>1. \A a \in Address : used[a] <= 0
    BY <1>1
  <2>2. ~(Cardinality(Fresh(0)) >= 3)
    BY <1>2
  <2> QED BY <2>1, <2>2 DEF LatestAt
<1>5. AlertInv
  BY <1>1, <1>3 DEF AlertInv
<1> QED BY <1>1, <1>2, <1>4, <1>5 DEF WatchInv

\* No telemetry event of a page is forgotten or recorded twice, an exit an armed
\* page knows of has its event, and a third address has one alert:
\* AnomaliesRecorded, for any number of events, pages, addresses and times
\* (useAntiCheat.js:34, ip_tracker.go:68).
THEOREM AnomaliesAreRecorded == Spec => []AnomaliesRecorded
<1>1. Init => EventInv /\ ScreenInv /\ WatchInv
  BY ProctorStarts, WatchStarts DEF Init
<1>2. EventInv /\ ScreenInv /\ WatchInv /\ [Next]_vars =>
        EventInv' /\ ScreenInv' /\ WatchInv'
  BY PartsStep, ProctorStep, WatchStep
<1>3. EventInv /\ ScreenInv /\ WatchInv => AnomaliesRecorded
  BY ProctorHolds, WatchHolds DEF AnomaliesRecorded
<1> QED BY <1>1, <1>2, <1>3, PTL DEF Spec

-----------------------------------------------------------------------------
(* CaseForm *)

\* The cases shown open.
Shown == {cases[i] : i \in open \cap DOMAIN cases}

\* A case is in the list once, and open are positions of the list or the first.
CaseInv ==
    /\ made \in Nat /\ cases \in Seq(1..made) /\ reading \in Seq(Nat)
    /\ \A i, j \in DOMAIN cases : cases[i] = cases[j] => i = j
    /\ ~astray => open \subseteq (DOMAIN cases) \cup {1} /\ Shown = wanted

\* What a removal leaves of a sequence.
LEMMA RemovedAt ==
    ASSUME NEW S, NEW s \in Seq(S), NEW i \in DOMAIN s
    PROVE  /\ caseForm!RemoveAt(s, i) \in Seq(S)
           /\ DOMAIN caseForm!RemoveAt(s, i) = 1..(Len(s) - 1)
           /\ \A j \in 1..(Len(s) - 1) :
                caseForm!RemoveAt(s, i)[j] = IF j < i THEN s[j] ELSE s[j + 1]
<1> DEFINE n == Len(s)
           l == SubSeq(s, 1, i - 1)
           r == SubSeq(s, i + 1, n)
<1>1. n \in Nat /\ i \in 1..n /\ \A j \in 1..n : s[j] \in S
  BY LenProperties
<1> HIDE DEF n
<1>2. l \in Seq(S) /\ Len(l) = i - 1 /\ \A j \in 1..(i - 1) : l[j] = s[j]
  <2>1. \A j \in 1..(i - 1) : s[j] \in S
    BY <1>1
  <2> QED BY <1>1, <2>1, SubSeqProperties
<1>3. r \in Seq(S) /\ Len(r) = n - i /\ \A j \in 1..(n - i) : r[j] = s[i + j]
  <2>1. \A j \in (i + 1)..n : s[j] \in S
    BY <1>1
  <2>2. /\ r \in Seq(S) /\ Len(r) = IF i + 1 <= n THEN n - (i + 1) + 1 ELSE 0
        /\ \A j \in 1..(n - (i + 1) + 1) : r[j] = s[(i + 1) + j - 1]
    BY <1>1, <2>1, SubSeqProperties
  <2>3. n - (i + 1) + 1 = n - i /\ \A j \in 1..(n - i) : (i + 1) + j - 1 = i + j
    BY <1>1
  <2>4. Len(r) = n - i
    BY <1>1, <2>2
  <2>5. \A j \in 1..(n - i) : r[j] = s[i + j]
    <3> SUFFICES ASSUME NEW j \in 1..(n - i) PROVE r[j] = s[i + j]
      OBVIOUS
    <3>1. j \in 1..(n - (i + 1) + 1) /\ (i + 1) + j - 1 = i + j
      BY <2>3
    <3>2. r[j] = s[(i + 1) + j - 1]
      BY <2>2, <3>1
    <3> QED BY <3>1, <3>2
  <2> QED BY <2>2, <2>4, <2>5
<1> HIDE DEF l, r
<1>4. l \o r \in Seq(S) /\ Len(l \o r) = n - 1
      /\ \A j \in 1..(n - 1) : (l \o r)[j] = IF j <= i - 1 THEN l[j] ELSE r[j - (i - 1)]
  <2>1. /\ l \o r \in Seq(S) /\ Len(l \o r) = Len(l) + Len(r)
        /\ \A j \in 1..(Len(l) + Len(r)) :
             (l \o r)[j] = IF j <= Len(l) THEN l[j] ELSE r[j - Len(l)]
    BY <1>2, <1>3, ConcatProperties
  <2>2. Len(l) + Len(r) = n - 1
    BY <1>1, <1>2, <1>3
  <2> QED BY <1>2, <2>1, <2>2
<1>5. DOMAIN (l \o r) = 1..(n - 1)
  BY <1>4, LenProperties
<1>6. \A j \in 1..(n - 1) : (l \o r)[j] = IF j < i THEN s[j] ELSE s[j + 1]
  <2> SUFFICES ASSUME NEW j \in 1..(n - 1)
               PROVE  (l \o r)[j] = IF j < i THEN s[j] ELSE s[j + 1]
    OBVIOUS
  <2>1. CASE j < i
    BY <1>1, <1>2, <1>4, <2>1
  <2>2. CASE ~(j < i)
    <3>1. j - (i - 1) \in 1..(n - i) /\ i + (j - (i - 1)) = j + 1
      BY <1>1, <2>2
    <3>2. (l \o r)[j] = r[j - (i - 1)]
      BY <1>1, <1>4, <2>2
    <3>3. r[j - (i - 1)] = s[j + 1]
      BY <1>3, <3>1
    <3> QED BY <2>2, <3>2, <3>3
  <2> QED BY <2>1, <2>2
<1>7. caseForm!RemoveAt(s, i) = l \o r
  BY DEF caseForm!RemoveAt, l, r, n
<1> QED BY <1>4, <1>5, <1>6, <1>7 DEF n

\* New cases at the end, the first of them open.
LEMMA CasesAppended ==
    ASSUME CaseInv, NEW k \in Nat \ {0}, made' = made + k,
           cases' \in Seq(1..made'), DOMAIN cases' = 1..(Len(cases) + k),
           \A i \in DOMAIN cases : cases'[i] = cases[i],
           \A i \in 1..k : cases'[Len(cases) + i] = made + i,
           reading' \in Seq(Nat), ~astray' => ~astray,
           ~astray' => open' = open \cup {Len(cases) + 1},
           wanted' = wanted \cup {made + 1}
    PROVE  CaseInv'
<1> DEFINE n == Len(cases)
<1>0. /\ made \in Nat /\ cases \in Seq(1..made)
      /\ \A i, j \in DOMAIN cases : cases[i] = cases[j] => i = j
  BY DEF CaseInv
<1>1. /\ made \in Nat /\ n \in Nat /\ DOMAIN cases = 1..n
      /\ \A i \in 1..n : cases[i] \in 1..made
      /\ \A i, j \in 1..n : cases[i] = cases[j] => i = j
  <2>1. n \in Nat /\ DOMAIN cases = 1..n /\ cases \in [1..n -> 1..made]
    BY <1>0, LenProperties
  <2> QED BY <1>0, <2>1
<1> HIDE DEF n
<1>2. /\ DOMAIN cases' = 1..(n + k)
      /\ \A i \in 1..n : cases'[i] = cases[i]
      /\ \A i \in 1..k : cases'[n + i] = made + i
  BY <1>1 DEF n
<1>3. \A i \in (n + 1)..(n + k) : cases'[i] = made + (i - n)
  <2> SUFFICES ASSUME NEW i \in (n + 1)..(n + k) PROVE cases'[i] = made + (i - n)
    OBVIOUS
  <2>1. i - n \in 1..k /\ n + (i - n) = i
    BY <1>1
  <2> QED BY <1>2, <2>1
<1>4. \A i, j \in DOMAIN cases' : cases'[i] = cases'[j] => i = j
  <2> SUFFICES ASSUME NEW i \in 1..(n + k), NEW j \in 1..(n + k),
                      cases'[i] = cases'[j]
               PROVE  i = j
    BY <1>2
  <2>1. CASE i \in 1..n /\ j \in 1..n
    BY <1>1, <1>2, <2>1
  <2>2. CASE i \in 1..n /\ j \in (n + 1)..(n + k)
    BY <1>1, <1>2, <1>3, <2>2
  <2>3. CASE i \in (n + 1)..(n + k) /\ j \in 1..n
    BY <1>1, <1>2, <1>3, <2>3
  <2>4. CASE i \in (n + 1)..(n + k) /\ j \in (n + 1)..(n + k)
    BY <1>1, <1>3, <2>4
  <2> QED BY <1>1, <2>1, <2>2, <2>3, <2>4
<1>5. ASSUME ~astray'
      PROVE  open' \subseteq (DOMAIN cases') \cup {1} /\ Shown' = wanted'
  <2>1. open \subseteq (1..n) \cup {1} /\ Shown = wanted /\ open' = open \cup {n + 1}
    BY <1>1, <1>5 DEF CaseInv, n
  <2>2. open' \subseteq (DOMAIN cases') \cup {1}
    BY <1>1, <1>2, <2>1
  <2>3. open' \cap DOMAIN cases' = (open \cap (1..n)) \cup {n + 1}
    BY <1>1, <1>2, <2>1
  <2>4. cases'[n + 1] = made + 1
    BY <1>1, <1>3
  <2>5. Shown' = Shown \cup {made + 1}
    <3>1. Shown' = {cases'[i] : i \in (open \cap (1..n)) \cup {n + 1}}
      BY <2>3 DEF Shown
    <3>2. \A i \in open \cap (1..n) : cases'[i] = cases[i]
      BY <1>2
    <3>3. Shown = {cases[i] : i \in open \cap (1..n)}
      BY <1>1 DEF Shown
    <3>4. Shown' = {cases'[i] : i \in open \cap (1..n)} \cup {cases'[n + 1]}
      BY <3>1
    <3>5. {cases'[i] : i \in open \cap (1..n)} = {cases[i] : i \in open \cap (1..n)}
      BY <3>2
    <3> QED BY <2>4, <3>3, <3>4, <3>5
  <2> QED BY <2>1, <2>2, <2>5
<1> QED BY <1>1, <1>4, <1>5 DEF CaseInv

LEMMA DeleteStep ==
    ASSUME CaseInv, NEW i \in DOMAIN cases, caseForm!Delete(i) PROVE CaseInv'
<1> DEFINE n == Len(cases)
<1>1. /\ made \in Nat /\ n \in Nat /\ DOMAIN cases = 1..n /\ cases \in Seq(1..made)
      /\ \A j, k \in 1..n : cases[j] = cases[k] => j = k
  BY LenProperties DEF CaseInv
<1>2. /\ cases' = caseForm!RemoveAt(cases, i) /\ wanted' = wanted \ {cases[i]}
      /\ open' = {j \in open : j < i} \cup {j - 1 : j \in {k \in open : k > i}}
      /\ UNCHANGED <<reading, made, astray>>
  BY DEF caseForm!Delete, caseForm!Removed
<1>3. /\ cases' \in Seq(1..made) /\ DOMAIN cases' = 1..(n - 1)
      /\ \A j \in 1..(n - 1) : cases'[j] = IF j < i THEN cases[j] ELSE cases[j + 1]
  BY <1>1, <1>2, RemovedAt
<1> HIDE DEF n
<1>4. i \in 1..n
  BY <1>1
<1>5. \A j, k \in DOMAIN cases' : cases'[j] = cases'[k] => j = k
  <2> SUFFICES ASSUME NEW j \in 1..(n - 1), NEW k \in 1..(n - 1),
                      cases'[j] = cases'[k]
               PROVE  j = k
    BY <1>3
  <2> DEFINE old(m) == IF m < i THEN m ELSE m + 1
  <2>1. old(j) \in 1..n /\ old(k) \in 1..n
        /\ cases'[j] = cases[old(j)] /\ cases'[k] = cases[old(k)]
    BY <1>1, <1>3, <1>4
  <2>2. old(j) = old(k)
    BY <1>1, <2>1
  <2> QED BY <1>1, <1>4, <2>2
<1>6. ASSUME ~astray
      PROVE  open' \subseteq DOMAIN cases' /\ Shown' = wanted'
  <2>1. open \subseteq 1..n /\ Shown = wanted
    BY <1>1, <1>4, <1>6 DEF CaseInv
  <2>2. open' \subseteq 1..(n - 1)
    <3> SUFFICES ASSUME NEW j \in open' PROVE j \in 1..(n - 1)
      OBVIOUS
    <3>1. CASE j \in open /\ j < i
      BY <1>1, <1>4, <2>1, <3>1
    <3>2. ASSUME NEW k \in open, k > i, j = k - 1 PROVE j \in 1..(n - 1)
      BY <1>1, <1>4, <2>1, <3>2
    <3> QED BY <1>2, <3>1, <3>2
  <2>3. \A c \in Shown' : c \in Shown /\ c # cases[i]
    <3> SUFFICES ASSUME NEW j \in open', j \in 1..(n - 1)
                 PROVE  cases'[j] \in Shown /\ cases'[j] # cases[i]
      BY <1>3 DEF Shown
    <3>1. CASE j \in open /\ j < i
      <4>1. cases'[j] = cases[j] /\ j \in 1..n
        BY <1>1, <1>3, <3>1
      <4> QED BY <1>1, <1>4, <3>1, <4>1 DEF Shown
    <3>2. ASSUME NEW k \in open, k > i, j = k - 1
          PROVE  cases'[j] \in Shown /\ cases'[j] # cases[i]
      <4>1. k \in 1..n /\ ~(j < i) /\ j + 1 = k
        BY <1>1, <1>4, <2>1, <3>2
      <4>2. cases'[j] = cases[k]
        BY <1>3, <4>1
      <4> QED BY <1>1, <1>4, <3>2, <4>1, <4>2 DEF Shown
    <3> QED BY <1>2, <3>1, <3>2
  <2>4. \A c \in Shown : c # cases[i] => c \in Shown'
    <3> SUFFICES ASSUME NEW k \in open, k \in 1..n, cases[k] # cases[i]
                 PROVE  cases[k] \in Shown'
      BY <1>1 DEF Shown
    <3>1. CASE k < i
      <4>1. k \in open' /\ k \in 1..(n - 1) /\ cases'[k] = cases[k]
        BY <1>1, <1>2, <1>3, <1>4, <3>1
      <4> QED BY <1>3, <4>1 DEF Shown
    <3>2. CASE k > i
      <4>1. k - 1 \in open' /\ k - 1 \in 1..(n - 1) /\ ~(k - 1 < i) /\ (k - 1) + 1 = k
        BY <1>1, <1>2, <1>4, <3>2
      <4>2. cases'[k - 1] = cases[k]
        BY <1>3, <4>1
      <4> QED BY <1>3, <4>1, <4>2 DEF Shown
    <3> QED BY <1>1, <1>4, <3>1, <3>2
  <2>5. Shown' = Shown \ {cases[i]}
    BY <2>3, <2>4
  <2> QED BY <1>2, <1>3, <2>1, <2>2, <2>5
<1> QED BY <1>1, <1>2, <1>3, <1>5, <1>6 DEF CaseInv

LEMMA ToggleStep ==
    ASSUME CaseInv, NEW i \in DOMAIN cases, caseForm!Toggle(i) PROVE CaseInv'
<1>1. /\ open' = (open \ {i}) \cup ({i} \ open)
      /\ wanted' = (wanted \ {cases[i]}) \cup ({cases[i]} \ wanted)
      /\ UNCHANGED <<cases, reading, made, astray>>
  BY DEF caseForm!Toggle, caseForm!SymDiff
<1>2. \A j, k \in DOMAIN cases : cases[j] = cases[k] => j = k
  BY DEF CaseInv
<1>3. ASSUME ~astray
      PROVE  open' \subseteq (DOMAIN cases) \cup {1} /\ Shown' = wanted'
  <2>1. open \subseteq (DOMAIN cases) \cup {1} /\ Shown = wanted
    BY <1>3 DEF CaseInv
  <2>2. open' \subseteq (DOMAIN cases) \cup {1}
    BY <1>1, <2>1
  <2>3. CASE i \in open
    <3>1. cases[i] \in Shown
      BY <2>3 DEF Shown
    <3>2. Shown' = Shown \ {cases[i]}
      BY <1>1, <1>2, <2>3 DEF Shown
    <3> QED BY <1>1, <2>1, <2>2, <3>1, <3>2
  <2>4. CASE i \notin open
    <3>1. cases[i] \notin Shown
      BY <1>2, <2>4 DEF Shown
    <3>2. Shown' = Shown \cup {cases[i]}
      BY <1>1, <2>4 DEF Shown
    <3> QED BY <1>1, <2>1, <2>2, <3>1, <3>2
  <2> QED BY <2>3, <2>4
<1> QED BY <1>1, <1>3 DEF CaseInv

LEMMA ArchiveCounted ==
    ASSUME NEW a \in Archives
    PROVE  caseForm!Cardinality(caseForm!Parsed(a)) \in Nat
<1> DEFINE K == {a[i].key : i \in DOMAIN a}
           f == [i \in DOMAIN a |-> a[i].key]
<1>1. a \in Seq(caseForm!Entry)
  BY SiteAssumption DEF caseForm!CaseFormAssumption
<1>2. DOMAIN a = 1..Len(a) /\ Len(a) \in Nat
  BY <1>1, LenProperties
<1>3. IsFiniteSet(DOMAIN a)
  BY <1>2, FS_Interval
<1>4. f \in Surjection(DOMAIN a, K)
  BY DEF Surjection
<1>5. IsFiniteSet(K)
  BY <1>3, <1>4, FS_Surjection
<1>6. caseForm!Parsed(a) \in SUBSET K
  BY DEF caseForm!Parsed
<1>7. Cardinality(caseForm!Parsed(a)) \in Nat
  BY <1>5, <1>6, FS_Subset, FS_CardinalityType
<1>8. \A S : caseForm!Cardinality(S) = Cardinality(S)
  BY DEF caseForm!Cardinality, Cardinality, caseForm!IsFiniteSet, IsFiniteSet
<1> QED BY <1>7, <1>8

LEMMA UnzipStep ==
    ASSUME CaseInv, NEW z \in DOMAIN reading, NEW a \in Archives, caseForm!Unzip(z, a)
    PROVE  CaseInv'
<1> DEFINE n == caseForm!Cardinality(caseForm!Parsed(a))
           new == [i \in 1..n |-> made + i]
<1>1. n \in Nat
  BY ArchiveCounted
<1>2. /\ made' = made + n /\ reading' = caseForm!RemoveAt(reading, z)
      /\ cases' = cases \o new
      /\ IF n = 0 THEN UNCHANGED <<open, wanted, astray>>
         ELSE /\ open' = open \cup {reading[z] + 1}
              /\ wanted' = wanted \cup {made + 1}
              /\ (astray' <=> astray \/ reading[z] # Len(cases))
  BY DEF caseForm!Unzip
<1> HIDE DEF n
<1>3. /\ made \in Nat /\ Len(cases) \in Nat /\ DOMAIN cases = 1..Len(cases)
      /\ cases \in Seq(1..made) /\ reading \in Seq(Nat)
  BY LenProperties DEF CaseInv
<1>4. reading' \in Seq(Nat)
  BY <1>2, <1>3, RemovedAt
<1>5. /\ new \in Seq(1..(made + n)) /\ Len(new) = n
      /\ \A i \in 1..n : new[i] = made + i
  <2>1. new \in [1..n -> 1..(made + n)]
    BY <1>1, <1>3
  <2> QED BY <1>1, <2>1, SeqDef
<1>6. cases \in Seq(1..(made + n))
  BY <1>1, <1>3, SeqMonotonic
<1> HIDE DEF new
<1>7. /\ cases' \in Seq(1..(made + n)) /\ Len(cases') = Len(cases) + n
      /\ \A i \in 1..(Len(cases) + n) :
           cases'[i] = IF i <= Len(cases) THEN cases[i] ELSE new[i - Len(cases)]
  BY <1>2, <1>5, <1>6, ConcatProperties
<1>8. DOMAIN cases' = 1..(Len(cases) + n)
  BY <1>7, LenProperties
<1>9. CASE n = 0
  <2>1. made' = made /\ UNCHANGED <<open, wanted, astray>>
    BY <1>2, <1>3, <1>9
  <2>2. DOMAIN cases' = DOMAIN cases /\ \A i \in DOMAIN cases : cases'[i] = cases[i]
    BY <1>3, <1>7, <1>8, <1>9
  <2>3. cases' \in Seq(1..made')
    BY <1>2, <1>7
  <2>4. Shown' = Shown
    BY <2>1, <2>2 DEF Shown
  <2> QED BY <1>4, <2>1, <2>2, <2>3, <2>4 DEF CaseInv
<1>10. CASE n # 0
  <2>1. \A i \in DOMAIN cases : cases'[i] = cases[i]
    BY <1>1, <1>3, <1>7
  <2>2. \A i \in 1..n : cases'[Len(cases) + i] = made + i
    <3> SUFFICES ASSUME NEW i \in 1..n PROVE cases'[Len(cases) + i] = made + i
      OBVIOUS
    <3>1. /\ Len(cases) + i \in 1..(Len(cases) + n) /\ ~(Len(cases) + i <= Len(cases))
          /\ (Len(cases) + i) - Len(cases) = i
      BY <1>1, <1>3
    <3> QED BY <1>5, <1>7, <3>1
  <2>3. ~astray' => ~astray /\ open' = open \cup {Len(cases) + 1}
    BY <1>2, <1>10
  <2> QED BY <1>1, <1>2, <1>4, <1>7, <1>8, <1>10, <2>1, <2>2, <2>3, CasesAppended
<1> QED BY <1>9, <1>10

LEMMA CaseStep ==
    ASSUME CaseInv, [caseForm!Next]_caseVars PROVE CaseInv'
<1>1. CASE UNCHANGED caseVars
  BY <1>1 DEF caseVars, CaseInv, Shown
<1>2. CASE caseForm!Add
  <2>1. /\ made' = made + 1 /\ cases' = Append(cases, made + 1)
        /\ open' = open \cup {Len(cases) + 1} /\ wanted' = wanted \cup {made + 1}
        /\ UNCHANGED <<reading, astray>>
    BY <1>2 DEF caseForm!Add
  <2>2. /\ made \in Nat /\ cases \in Seq(1..made) /\ reading \in Seq(Nat)
        /\ Len(cases) \in Nat /\ DOMAIN cases = 1..Len(cases)
    BY LenProperties DEF CaseInv
  <2>3. cases \in Seq(1..(made + 1)) /\ made + 1 \in 1..(made + 1)
    BY <2>2, SeqMonotonic
  <2>4. /\ cases' \in Seq(1..(made + 1)) /\ Len(cases') = Len(cases) + 1
        /\ \A i \in 1..Len(cases) : cases'[i] = cases[i]
        /\ cases'[Len(cases) + 1] = made + 1
    BY <2>1, <2>3, AppendProperties
  <2>5. DOMAIN cases' = 1..(Len(cases) + 1)
    BY <2>4, LenProperties
  <2>6. \A i \in 1..1 : cases'[Len(cases) + i] = made + i
    BY <2>4
  <2> QED BY <2>1, <2>2, <2>4, <2>5, <2>6, CasesAppended
<1>3. CASE caseForm!Drop
  <2>1. reading' = Append(reading, Len(cases)) /\ Len(cases) \in Nat
        /\ reading \in Seq(Nat) /\ UNCHANGED <<cases, open, made, wanted, astray>>
    BY <1>3, LenProperties DEF caseForm!Drop, CaseInv
  <2>2. reading' \in Seq(Nat)
    BY <2>1, AppendProperties
  <2> QED BY <2>1, <2>2 DEF CaseInv, Shown
<1>4. CASE caseForm!ResetForm
  <2>1. /\ made' = made + 1 /\ cases' = <<made + 1>> /\ open' = {1}
        /\ wanted' = {made + 1} /\ UNCHANGED <<reading, astray>> /\ made \in Nat
    BY <1>4 DEF caseForm!ResetForm, CaseInv
  <2>2. DOMAIN cases' = 1..1 /\ cases'[1] = made + 1 /\ cases' \in Seq(1..made')
    BY <2>1
  <2>3. Shown' = wanted'
    BY <2>1, <2>2 DEF Shown
  <2> QED BY <2>1, <2>2, <2>3 DEF CaseInv
<1> QED BY <1>1, <1>2, <1>3, <1>4, ToggleStep, DeleteStep, UnzipStep
        DEF caseForm!Next

LEMMA CaseStarts ==
    ASSUME caseForm!Init PROVE CaseInv
<1>1. /\ made \in Nat /\ cases = [i \in 1..made |-> i] /\ open = {1}
      /\ wanted = {1} \cap (1..made) /\ reading = <<>>
  BY DEF caseForm!Init
<1>2. /\ cases \in [1..made -> 1..made] /\ DOMAIN cases = 1..made
      /\ \A i \in 1..made : cases[i] = i
  BY <1>1
<1>3. cases \in Seq(1..made) /\ reading \in Seq(Nat)
  BY <1>1, <1>2, SeqDef, EmptySeq
<1>4. Shown = wanted
  BY <1>1, <1>2 DEF Shown
<1> QED BY <1>1, <1>2, <1>3, <1>4 DEF CaseInv

\* The sections of a form stay open with their cases, whatever is added,
\* removed and unzipped: AccordionFollows, for any number of cases and any
\* archives (AddProblem.jsx:84, AddProblem.jsx:121).
THEOREM AccordionKeeps == Spec => []AccordionFollows
<1>1. Init => CaseInv
  BY CaseStarts DEF Init
<1>2. CaseInv /\ [Next]_vars => CaseInv'
  BY PartsStep, CaseStep
<1>3. CaseInv => AccordionFollows
  BY DEF CaseInv, Shown, AccordionFollows, caseForm!AccordionFollows
<1> QED BY <1>1, <1>2, <1>3, PTL DEF Spec

=============================================================================
