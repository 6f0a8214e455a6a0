-------------------------- MODULE ProblemForgeProofs --------------------------
(****************************************************************************)
(* Theorems about ProblemForge, for any number of pages, problems, saves    *)
(* and failures: rows of test cases keep their files, a publication that    *)
(* was rolled back stays gone, what a page says of a save is so, and no     *)
(* problem is left public without test cases but where somebody knows.      *)
(****************************************************************************)
EXTENDS ProblemForge, TLAPS

-----------------------------------------------------------------------------
(* Handlers: the records they are, and what changes them. *)

Op == {"none", "create", "update", "clear", "upload", "remove"}

Work == [op : Op, id : 0..MaxProblems, batch : 0..MaxSaves, public : BOOLEAN,
         saw : SUBSET Batch, step : Step]

\* A handler that goes on is at another step and otherwise the same.
Same(c, d) == d.op = c.op /\ d.id = c.id /\ d.batch = c.batch

\* What Create does to its handler is to learn the id.
Job(c, d) == d.op = c.op /\ d.batch = c.batch

LEMMA StepTyped ==
    ASSUME NEW c \in Work, NEW s \in Step
    PROVE  /\ [c EXCEPT !.step = s] \in Work
           /\ [c EXCEPT !.step = s].step = s
           /\ Same(c, [c EXCEPT !.step = s])
BY DEF Work, Same

LEMMA SawTyped ==
    ASSUME NEW c \in Work, NEW S \in SUBSET Batch
    PROVE  /\ [c EXCEPT !.saw = S, !.step = "wipe"] \in Work
           /\ [c EXCEPT !.saw = S, !.step = "wipe"].step = "wipe"
           /\ Same(c, [c EXCEPT !.saw = S, !.step = "wipe"])
BY DEF Work, Same, Step

LEMMA MadeTyped ==
    ASSUME NEW c \in Work, NEW i \in Problem
    PROVE  /\ [c EXCEPT !.step = "ok", !.id = i] \in Work
           /\ [c EXCEPT !.step = "ok", !.id = i].step = "ok"
           /\ [c EXCEPT !.step = "ok", !.id = i].id = i
           /\ Job(c, [c EXCEPT !.step = "ok", !.id = i])
<1>1. i \in 0..MaxProblems
  BY ForgeAssumption DEF Problem
<1> QED BY <1>1 DEF Work, Step, Job

LEMMA IdleTyped == Idle \in Work /\ Idle.op = "none" /\ Idle.step = "idle"
<1>1. {} \in SUBSET Batch /\ 0 \in 0..MaxProblems /\ 0 \in 0..MaxSaves
  BY ForgeAssumption
<1> QED BY <1>1 DEF Idle, Work, Op, Step

LEMMA FailedTyped ==
    /\ [Idle EXCEPT !.step = "failed"] \in Work
    /\ [Idle EXCEPT !.step = "failed"].op = "none"
    /\ [Idle EXCEPT !.step = "failed"].step = "failed"
<1>1. "failed" \in Step
  BY DEF Step
<1> QED BY <1>1, IdleTyped, StepTyped, Zenon DEF Same

\* The handler of a call that is sent.
Ask(c, op, i, v, b) == [c EXCEPT !.op = op, !.id = i, !.public = v, !.batch = b,
                                 !.step = "start"]

LEMMA AskTyped ==
    ASSUME NEW c \in Work, NEW op \in Op, NEW i \in 0..MaxProblems,
           NEW v \in BOOLEAN, NEW b \in 0..MaxSaves
    PROVE  /\ Ask(c, op, i, v, b) \in Work
           /\ Ask(c, op, i, v, b).op = op /\ Ask(c, op, i, v, b).id = i
           /\ Ask(c, op, i, v, b).batch = b
           /\ Ask(c, op, i, v, b).step = "start"
BY DEF Work, Step, Ask

LEMMA StrayApart == Page \subseteq Handler /\ Stray \in Handler /\ Stray \notin Page
BY ForgeAssumption DEF Handler

\* Handler x goes on, the others stay.
Goes(x, s) ==
    /\ h' \in [Handler -> Work] /\ touched' \in [Page -> BOOLEAN]
    /\ Same(h[x], h'[x]) /\ h'[x].step = s
    /\ \A y \in Handler : y # x => h'[y] = h[y]

LEMMA AdvanceGoes ==
    ASSUME TypeOK, NEW x \in Handler, NEW s \in Step, Advance(x, s)
    PROVE  Goes(x, s)
<1>1. h \in [Handler -> Work] /\ touched \in [Page -> BOOLEAN]
  BY DEF TypeOK, Work, Op
<1>2. PICK d \in Work : h' = [h EXCEPT ![x] = d] /\ d.step = s /\ Same(h[x], d)
  BY <1>1, StepTyped, Zenon DEF Advance
<1>3. touched' \in [Page -> BOOLEAN]
  BY <1>1 DEF Advance
<1> QED BY <1>1, <1>2, <1>3 DEF Goes

\* Page p has a handler of its own, which the others do not.
Asks(p, doing, op, id) ==
    /\ h' \in [Handler -> Work]
    /\ at' = [at EXCEPT ![p] = doing]
    /\ h'[p].op = op /\ h'[p].id = id /\ h'[p].batch = batch'[p]
    /\ h'[p].step = "start"
    /\ \A y \in Handler : y # p => h'[y] = h[y]

LEMMA CallAsks ==
    ASSUME TypeOK, NEW p \in Page, NEW doing, NEW op \in Op,
           NEW id \in 0..MaxProblems, NEW vis \in BOOLEAN,
           batch'[p] \in 0..MaxSaves, Call(p, doing, op, id, vis)
    PROVE  Asks(p, doing, op, id)
<1>1. h \in [Handler -> Work]
  BY DEF TypeOK, Work, Op
<1> DEFINE c == Ask(Idle, op, id, vis, batch'[p])
<1>2. at' = [at EXCEPT ![p] = doing] /\ h' = [h EXCEPT ![p] = c]
  BY Zenon DEF Call, Ask
<1>3. /\ c \in Work /\ c.op = op /\ c.id = id /\ c.batch = batch'[p]
      /\ c.step = "start"
  BY IdleTyped, AskTyped
<1> HIDE DEF c
<1> QED BY <1>1, <1>2, <1>3, StrayApart DEF Asks

Stops(p, where, message) ==
    /\ h' \in [Handler -> Work]
    /\ at' = [at EXCEPT ![p] = where] /\ says' = [says EXCEPT ![p] = message]
    /\ h'[p].op = "none" /\ h'[p].step = "idle"
    /\ \A y \in Handler : y # p => h'[y] = h[y]

LEMMA StopStops ==
    ASSUME TypeOK, NEW p \in Page, NEW where, NEW message,
           Stop(p, where, message)
    PROVE  Stops(p, where, message)
<1>1. h \in [Handler -> Work]
  BY DEF TypeOK, Work, Op
<1>2. /\ at' = [at EXCEPT ![p] = where] /\ says' = [says EXCEPT ![p] = message]
      /\ h' = [h EXCEPT ![p] = Idle]
  BY DEF Stop
<1> QED BY <1>1, <1>2, IdleTyped, StrayApart DEF Stops

\* The handler of page p becomes the stray, if it has work left.
Strays(p, s) ==
    /\ h' \in [Handler -> Work]
    /\ h'[p].op = "none" /\ h'[p].step = s
    /\ h[Stray].op = "none"
    /\ \/ h'[Stray] = h[p]
       \/ h'[Stray].op = "none" /\ h'[Stray].step \in {"idle", "failed"}
    /\ \A y \in Handler : y \notin {p, Stray} => h'[y] = h[y]

LEMMA AbandonStrays ==
    ASSUME TypeOK, NEW p \in Page, NEW left \in Work, left.op = "none",
           Abandon(p, left)
    PROVE  Strays(p, left.step)
<1>1. h \in [Handler -> Work]
  BY DEF TypeOK, Work, Op
<1>2. PICK d \in Work : /\ h' = [h EXCEPT ![p] = left, ![Stray] = d]
                        /\ \/ d = h[p]
                           \/ d.op = "none" /\ d.step \in {"idle", "failed"}
  BY <1>1, IdleTyped, StrayApart DEF Abandon
<1>3. h[Stray].op = "none"
  BY DEF Abandon
<1> QED BY <1>1, <1>2, <1>3, StrayApart DEF Strays

-----------------------------------------------------------------------------
(* Test cases keep their files. *)

\* A page that will upload the batch of its save, unless a call fails.
Soon == {"create", "update", "clear"}

\* A batch is uploaded once: by the page that is at it, or by the stray.
BatchInv ==
    /\ \A p \in Page : batch[p] \in 0..saves
    /\ \A p, q \in Page : p # q /\ batch[p] # 0 => batch[p] # batch[q]
    /\ \A p \in Page : at[p] \in Soon \cup {"upload"} => batch[p] # 0
    /\ \A p \in Page : h[p].op = "upload" =>
                        at[p] = "upload" /\ h[p].batch = batch[p]
    /\ h[Stray].op = "upload" =>
         /\ h[Stray].batch \in 1..saves
         /\ \A p \in Page : at[p] \in Soon \/ h[p].op = "upload" =>
                             batch[p] # h[Stray].batch

\* An upload whose rows are not there yet, and whose files are.
Going(x)  == h[x].op = "upload" /\ h[x].step \in {"start", "put", "insert"}
Loaded(x) == h[x].op = "upload" /\ h[x].step = "insert"

FileInv ==
    /\ \A i \in Problem : cases[i] \subseteq 1..saves
    /\ \A i \in Problem, p \in Page : at[p] \in Soon => batch[p] \notin cases[i]
    /\ \A i \in Problem, x \in Handler : Going(x) => h[x].batch \notin cases[i]
    /\ \A x \in Handler : Loaded(x) => h[x].batch \in stored \cup torn
    /\ RowsHaveObjects

LEMMA BatchesApart ==
    ASSUME BatchInv
    PROVE  /\ \A x \in Handler : h[x].op = "upload" => h[x].batch \in 1..saves
           /\ \A x, y \in Handler :
                x # y /\ h[x].op = "upload" /\ h[y].op = "upload" =>
                  h[x].batch # h[y].batch
           /\ \A p \in Page, x \in Handler :
                at[p] \in Soon /\ h[x].op = "upload" => batch[p] # h[x].batch
<1>1. Handler = Page \cup {Stray}
  BY DEF Handler
<1>2. \A p \in Page : h[p].op = "upload" =>
                        h[p].batch = batch[p] /\ batch[p] # 0 /\ at[p] \notin Soon
  BY DEF BatchInv, Soon
<1>3. \A p \in Page : batch[p] # 0 => batch[p] \in 1..saves
  BY DEF BatchInv
<1> QED BY <1>1, <1>2, <1>3 DEF BatchInv

\* Nothing but an insertion adds rows; files that go are torn.
LEMMA FilesKept ==
    ASSUME FileInv, saves \in Nat, saves' \in Nat, saves <= saves',
           \A i \in Problem : cases'[i] \subseteq cases[i],
           stored \ stored' \subseteq torn', torn \subseteq torn',
           \A i \in Problem, p \in Page :
             at'[p] \in Soon => batch'[p] \notin cases[i],
           \A i \in Problem, x \in Handler :
             Going(x)' => h'[x].batch \notin cases[i],
           \A x \in Handler : Loaded(x)' => h'[x].batch \in stored' \cup torn'
    PROVE  FileInv'
<1>1. \A i \in Problem : cases'[i] \subseteq 1..saves'
  BY DEF FileInv
<1>2. RowsHaveObjects'
  BY DEF FileInv, RowsHaveObjects
<1> QED BY <1>1, <1>2 DEF FileInv, Going, Loaded

\* The handlers at work leave the pages and their batches alone.
LEMMA ServeBatch ==
    ASSUME BatchInv, UNCHANGED page, \A y \in Handler : Job(h[y], h'[y])
    PROVE  BatchInv'
BY StrayApart DEF BatchInv, Job, page

\* A handler that is not at an upload, or whose upload ends.
LEMMA ServeFiles ==
    ASSUME TypeOK, FileInv, UNCHANGED page,
           NEW x \in Handler, Job(h[x], h'[x]),
           h[x].op # "upload" \/ h'[x].step \in {"ok", "failed"},
           \A y \in Handler : y # x => h'[y] = h[y],
           \A i \in Problem : cases'[i] \subseteq cases[i],
           stored \ stored' \subseteq torn', torn \subseteq torn'
    PROVE  FileInv'
<1>1. \A y \in Handler : Going(y)' => Going(y) /\ h'[y].batch = h[y].batch
  BY DEF Going, Job
<1>2. \A y \in Handler : Loaded(y)' => Loaded(y) /\ h'[y].batch = h[y].batch
  BY DEF Loaded, Job
<1>3. saves \in Nat /\ saves' \in Nat /\ saves <= saves'
  BY ForgeAssumption DEF TypeOK, page
<1>4. \A y \in Handler : Loaded(y)' => h'[y].batch \in stored' \cup torn'
  BY <1>2 DEF FileInv
<1>5. \A i \in Problem, y \in Handler : Going(y)' => h'[y].batch \notin cases[i]
  BY <1>1 DEF FileInv
<1>6. \A i \in Problem, p \in Page : at'[p] \in Soon => batch'[p] \notin cases[i]
  BY DEF FileInv, page
<1> QED BY <1>3, <1>4, <1>5, <1>6, FilesKept

-----------------------------------------------------------------------------
(* The handlers, one by one. *)

\* Handlers and pages are about a problem once it is created.
ShownInv ==
    /\ \A x \in Handler :
         /\ h[x].op \notin {"none", "create"} => h[x].id \in Problem
         /\ h[x].op = "create" /\ h[x].step = "ok" => h[x].id \in Problem
         /\ h[x].op = "none" => h[x].step \in {"idle", "failed"}
    /\ \A p \in Page :
         /\ at[p] \in Working \ {"create"} => shown[p] \in Problem
         /\ at[p] = "form" /\ p \notin Adders => shown[p] \in Problem
         /\ at[p] = "create" => h[p].op \in {"create", "none"}

ServedInv == TypeOK /\ BatchInv /\ FileInv /\ ShownInv

LEMMA ServeShown ==
    ASSUME ShownInv, UNCHANGED page, NEW x \in Handler, Same(h[x], h'[x]),
           h[x].op = "create" => h'[x].step # "ok",
           h[x].op # "none",
           \A y \in Handler : y # x => h'[y] = h[y]
    PROVE  ShownInv'
BY StrayApart DEF ShownInv, Same, page

\* The types of the two stores, apart from those of the pages.
StoreTypes ==
    /\ row \in [Problem -> {"none", "draft", "public", "gone"}]
    /\ cases \in [Problem -> SUBSET Batch]
    /\ stored \subseteq Batch /\ torn \subseteq Batch

LEMMA ServeTypes ==
    ASSUME TypeOK, UNCHANGED page, h' \in [Handler -> Work], StoreTypes',
           touched' \in [Page -> BOOLEAN], excused' = excused,
           budget' = budget \/ \E f : Spend(f)
    PROVE  TypeOK'
<1>1. budget' \in 0..MaxFaults
  BY ForgeAssumption DEF TypeOK, Spend
<1> QED BY <1>1 DEF TypeOK, StoreTypes, page, Work, Op

LEMMA CreateStep ==
    ASSUME ServedInv, NEW x \in Handler, Create(x)
    PROVE  ServedInv'
<1>1. TypeOK /\ h \in [Handler -> Work] /\ h[x].op = "create"
  BY DEF ServedInv, TypeOK, Work, Op, Create, At
<1>2. PICK c \in Work, i \in Problem :
        /\ h' = [h EXCEPT ![x] = c] /\ Job(h[x], c)
        /\ c.step = "ok" => c.id = i
        /\ row' = row \/ row' = [row EXCEPT ![i] = Visibility(h[x].public)]
  <2>1. PICK i \in Problem :
          IF \E j \in Problem : Exists(j)
          THEN h' = [h EXCEPT ![x].step = "failed"] /\ UNCHANGED row
          ELSE /\ row' = [row EXCEPT ![i] = Visibility(h[x].public)]
               /\ h' = [h EXCEPT ![x].step = "ok", ![x].id = i]
    BY DEF Create
  <2>2. /\ [h[x] EXCEPT !.step = "failed"] \in Work
        /\ Job(h[x], [h[x] EXCEPT !.step = "failed"])
        /\ [h[x] EXCEPT !.step = "failed"].step = "failed"
    <3>1. "failed" \in Step
      BY DEF Step
    <3> QED BY <1>1, <3>1, StepTyped, Zenon DEF Same, Job
  <2>3. /\ [h[x] EXCEPT !.step = "ok", !.id = i] \in Work
        /\ Job(h[x], [h[x] EXCEPT !.step = "ok", !.id = i])
        /\ [h[x] EXCEPT !.step = "ok", !.id = i].id = i
    BY <1>1, MadeTyped, Zenon
  <2>4. CASE \E j \in Problem : Exists(j)
    <3>1. h' = [h EXCEPT ![x] = [h[x] EXCEPT !.step = "failed"]]
      BY <2>1, <2>4, Zenon
    <3> QED BY <2>1, <2>2, <2>4, <3>1, Zenon
  <2>5. CASE ~ \E j \in Problem : Exists(j)
    <3>1. h' = [h EXCEPT ![x] = [h[x] EXCEPT !.step = "ok", !.id = i]]
      BY <2>1, <2>5, Zenon
    <3> QED BY <2>1, <2>3, <2>5, <3>1, Zenon
  <2> QED BY <2>4, <2>5
<1>3. UNCHANGED <<cases, stored, torn, page, touched, excused, budget>>
  BY DEF Create
<1>4. TypeOK'
  <2>1. StoreTypes'
    BY <1>1, <1>2, <1>3 DEF TypeOK, StoreTypes, Visibility
  <2>2. h' \in [Handler -> Work] /\ touched' \in [Page -> BOOLEAN]
    BY <1>1, <1>2, <1>3 DEF TypeOK
  <2> QED BY <1>1, <1>3, <2>1, <2>2, ServeTypes
<1>5. /\ Job(h[x], h'[x]) /\ \A y \in Handler : y # x => h'[y] = h[y]
      /\ \A y \in Handler : Job(h[y], h'[y])
  BY <1>1, <1>2 DEF Job
<1>6. BatchInv' /\ FileInv'
  BY <1>1, <1>3, <1>5, ServeBatch, ServeFiles DEF ServedInv
<1>7. ShownInv'
  <2>1. h'[x].op = "create" /\ (h'[x].step = "ok" => h'[x].id \in Problem)
    BY <1>1, <1>2 DEF Job
  <2> QED BY <1>1, <1>3, <1>5, <2>1, StrayApart DEF ServedInv, ShownInv, page
<1> QED BY <1>4, <1>6, <1>7 DEF ServedInv

\* The actions that Advance; what an insertion needs is proved with it.
LEMMA GoesStep ==
    ASSUME ServedInv, NEW x \in Handler, NEW s \in Step, Goes(x, s),
           UNCHANGED <<page, excused>>, StoreTypes',
           budget' = budget \/ \E f : Spend(f),
           h[x].op # "upload" \/ s \in {"ok", "failed"},
           h[x].op # "none", h[x].op = "create" => s = "failed",
           \A i \in Problem : cases'[i] \subseteq cases[i],
           stored \ stored' \subseteq torn', torn \subseteq torn'
    PROVE  ServedInv'
<1>1. /\ Job(h[x], h'[x]) /\ h'[x].step = s
      /\ \A y \in Handler : y # x => h'[y] = h[y]
      /\ \A y \in Handler : Job(h[y], h'[y])
  BY DEF Goes, Same, Job
<1>2. TypeOK'
  BY ServeTypes DEF ServedInv, Goes
<1>3. BatchInv' /\ FileInv'
  BY <1>1, ServeBatch, ServeFiles DEF ServedInv
<1>4. ShownInv'
  BY <1>1, ServeShown DEF ServedInv, Goes
<1> QED BY <1>2, <1>3, <1>4 DEF ServedInv

LEMMA PutStep ==
    ASSUME ServedInv, NEW x \in Handler, Put(x)
    PROVE  ServedInv'
<1>1. PICK s \in {"insert", "failed"} :
        /\ Advance(x, s) /\ stored \subseteq stored'
        /\ s = "insert" => h[x].batch \in stored'
        /\ stored' \subseteq stored \cup {h[x].batch}
        /\ budget' = budget \/ Spend("store")
  BY DEF Put
<1>2. UNCHANGED <<row, cases, torn, page, excused>> /\ At(x, {"upload"}, "put")
  BY DEF Put
<1>3. Goes(x, s)
  BY <1>1, AdvanceGoes DEF ServedInv, Step
<1>4. /\ Job(h[x], h'[x]) /\ h'[x].step = s
      /\ \A y \in Handler : y # x => h'[y] = h[y]
      /\ \A y \in Handler : Job(h[y], h'[y])
  BY <1>3 DEF Goes, Same, Job
<1>5. Going(x) /\ h[x].batch \in Batch
  <2>1. h[x].batch \in 1..saves /\ saves \in 0..MaxSaves
    BY <1>2, BatchesApart DEF ServedInv, TypeOK, At
  <2> QED BY <1>2, <2>1, ForgeAssumption DEF Going, At, Batch
<1>6. TypeOK'
  <2>1. StoreTypes'
    BY <1>1, <1>2, <1>5 DEF ServedInv, TypeOK, StoreTypes
  <2> QED BY <1>1, <1>2, <1>3, <2>1, ServeTypes DEF ServedInv, Goes
<1>7. BatchInv'
  BY <1>2, <1>4, ServeBatch DEF ServedInv
<1>8. FileInv'
  <2>1. \A y \in Handler : Going(y)' => Going(y) /\ h'[y].batch = h[y].batch
    BY <1>4, <1>5 DEF Going, Job
  <2>2. \A y \in Handler : Loaded(y)' => h'[y].batch \in stored' \cup torn'
    <3>1. \A y \in Handler : y # x /\ Loaded(y)' => Loaded(y)
      BY <1>4 DEF Loaded
    <3>2. Loaded(x)' => h'[x].batch \in stored'
      BY <1>1, <1>4 DEF Loaded, Job
    <3> QED BY <1>1, <1>2, <1>4, <3>1, <3>2 DEF ServedInv, FileInv
  <2>3. saves \in Nat /\ saves' \in Nat /\ saves <= saves'
    BY <1>2, ForgeAssumption DEF ServedInv, TypeOK, page
  <2>4. \A i \in Problem, y \in Handler : Going(y)' => h'[y].batch \notin cases[i]
    BY <2>1 DEF ServedInv, FileInv
  <2>5. \A i \in Problem, p \in Page : at'[p] \in Soon => batch'[p] \notin cases[i]
    BY <1>2 DEF ServedInv, FileInv, page
  <2> QED BY <1>1, <1>2, <2>2, <2>3, <2>4, <2>5, FilesKept DEF ServedInv
<1>9. ShownInv'
  BY <1>2, <1>3, ServeShown DEF ServedInv, Goes, At
<1> QED BY <1>6, <1>7, <1>8, <1>9 DEF ServedInv

\* Rows come in with their files, or are torn; no other handler has the batch.
LEMMA InsertStep ==
    ASSUME ServedInv, NEW x \in Handler, Insert(x)
    PROVE  ServedInv'
<1> DEFINE b == h[x].batch
<1>1. At(x, {"upload"}, "insert") /\ UNCHANGED <<row, page, excused>>
  BY DEF Insert
<1>2. Going(x) /\ Loaded(x) /\ b \in 1..saves /\ b \in Batch
  <2>1. b \in 1..saves /\ saves \in 0..MaxSaves
    BY <1>1, BatchesApart DEF ServedInv, TypeOK, At
  <2> QED BY <1>1, <2>1, ForgeAssumption DEF Going, Loaded, At, Batch
<1>3. PICK s \in {"ok", "failed"} :
        /\ Advance(x, s)
        /\ budget' = budget \/ Spend("database")
        /\ \/ s = "ok" /\ UNCHANGED <<stored, torn>>
              /\ cases' = [cases EXCEPT ![h[x].id] = @ \cup {b}]
           \/ /\ s = "failed" /\ stored' = stored \ {b}
              /\ UNCHANGED <<cases, torn>>
           \/ /\ s = "failed" /\ stored' = stored \ {b}
              /\ torn' = torn \cup {b}
              /\ \/ cases' = [cases EXCEPT ![h[x].id] = @ \cup {b}]
                 \/ UNCHANGED cases
  BY Zenon DEF Insert
<1>4. Goes(x, s)
  <2>1. Advance(x, s)
    BY <1>3, Zenon
  <2>2. s \in Step /\ TypeOK
    BY DEF ServedInv, Step
  <2> QED BY <2>1, <2>2, AdvanceGoes
<1>5. /\ Job(h[x], h'[x]) /\ h'[x].step = s
      /\ \A y \in Handler : y # x => h'[y] = h[y]
      /\ \A y \in Handler : Job(h[y], h'[y])
  BY <1>4 DEF Goes, Same, Job
<1>6. \A i \in Problem : cases'[i] \subseteq cases[i] \cup {b}
  BY <1>3 DEF ServedInv, TypeOK
<1>7. TypeOK'
  <2>1. StoreTypes'
    BY <1>1, <1>2, <1>3 DEF ServedInv, TypeOK, StoreTypes
  <2> QED BY <1>1, <1>3, <1>4, <2>1, ServeTypes DEF ServedInv, Goes
<1>8. BatchInv'
  BY <1>1, <1>5, ServeBatch DEF ServedInv
<1>9. FileInv'
  <2>1. \A y \in Handler : Going(y)' =>
          Going(y) /\ h'[y].batch = h[y].batch /\ h[y].batch # b
    <3>1. \A y \in Handler : Going(y)' => y # x
      BY <1>3, <1>5 DEF Going
    <3> QED BY <1>2, <1>5, <3>1, BatchesApart DEF ServedInv, Going
  <2>2. \A y \in Handler : Loaded(y)' =>
          Loaded(y) /\ h'[y].batch = h[y].batch /\ h[y].batch # b
    BY <1>5, <2>1 DEF Going, Loaded
  <2>3. \A i \in Problem : cases'[i] \subseteq 1..saves'
    BY <1>1, <1>2, <1>6 DEF ServedInv, FileInv, page
  <2>4. \A i \in Problem, p \in Page : at'[p] \in Soon => batch'[p] \notin cases'[i]
    <3>1. \A p \in Page : at[p] \in Soon => batch[p] # b
      BY <1>2, BatchesApart DEF ServedInv, Going
    <3> QED BY <1>1, <1>6, <3>1 DEF ServedInv, FileInv, page
  <2>5. \A i \in Problem, y \in Handler : Going(y)' => h'[y].batch \notin cases'[i]
    BY <1>6, <2>1 DEF ServedInv, FileInv
  <2>6. \A y \in Handler : Loaded(y)' => h'[y].batch \in stored' \cup torn'
    BY <1>3, <2>2 DEF ServedInv, FileInv
  <2>7. RowsHaveObjects'
    <3>1. b \in stored \cup torn /\ \A i \in Problem : b \notin cases[i]
      BY <1>2 DEF ServedInv, FileInv
    <3>2. \A i \in Problem : cases[i] \ stored \subseteq torn
      BY DEF ServedInv, FileInv, RowsHaveObjects
    <3>3. SUFFICES ASSUME NEW i \in Problem, NEW c \in cases'[i], c \notin stored'
                   PROVE  c \in torn'
      BY DEF RowsHaveObjects
    <3>4. c \in cases[i] \/ c = b
      BY <1>6, <3>3
    <3>5. CASE c = b
      BY <1>3, <3>1, <3>3, <3>5
    <3>6. CASE c # b
      BY <1>3, <3>2, <3>3, <3>4, <3>6
    <3> QED BY <3>5, <3>6
  <2> QED BY <2>3, <2>4, <2>5, <2>6, <2>7 DEF FileInv, Going, Loaded
<1>10. ShownInv'
  BY <1>1, <1>4, ServeShown DEF ServedInv, Goes, At
<1> QED BY <1>7, <1>8, <1>9, <1>10 DEF ServedInv

LEMMA ReadStep ==
    ASSUME ServedInv, NEW x \in Handler, Read(x)
    PROVE  ServedInv'
<1>1. /\ TypeOK /\ h \in [Handler -> Work] /\ h[x].op \in {"clear", "remove"}
      /\ UNCHANGED <<store, page, excused, budget>> /\ h[x].id \in Problem
  BY DEF ServedInv, ShownInv, TypeOK, Work, Op, Read, At
<1>2. StoreTypes' /\ saves \in Nat
  BY <1>1, ForgeAssumption DEF TypeOK, StoreTypes, store
<1>3. CASE Exists(h[x].id)
  <2>1. /\ h' = [h EXCEPT ![x] =
                   [h[x] EXCEPT !.saw = cases[h[x].id], !.step = "wipe"]]
        /\ UNCHANGED touched
    BY <1>3, Zenon DEF Read
  <2>2. cases[h[x].id] \in SUBSET Batch
    BY <1>1 DEF TypeOK
  <2>3. PICK c \in Work : /\ h' = [h EXCEPT ![x] = c]
                          /\ Same(h[x], c) /\ c.step = "wipe"
    BY <1>1, <2>1, <2>2, SawTyped, Zenon
  <2>4. Goes(x, "wipe")
    BY <1>1, <2>1, <2>3 DEF Goes, TypeOK
  <2> QED BY <1>1, <1>2, <2>4, GoesStep DEF store, Step
<1>4. CASE ~Exists(h[x].id)
  <2>1. Goes(x, "failed")
    BY <1>1, <1>4, AdvanceGoes DEF Read, Step
  <2> QED BY <1>1, <1>2, <2>1, GoesStep DEF store, Step
<1> QED BY <1>3, <1>4

LEMMA CheckStep ==
    ASSUME ServedInv, NEW x \in Handler, Check(x)
    PROVE  ServedInv'
<1>1. /\ TypeOK /\ UNCHANGED <<store, page, excused, budget>>
      /\ h[x].op \in {"update", "clear", "upload", "remove"}
      /\ h[x].step = "start"
  BY DEF ServedInv, Check, At
<1>2. StoreTypes'
  BY <1>1 DEF TypeOK, StoreTypes, store
<1>3. PICK s \in {"failed", "write", "put", "read"} :
        Advance(x, s) /\ (h[x].op = "upload" => s \in {"failed", "put"})
  BY DEF Check
<1>4. Goes(x, s) /\ s \in Step
  BY <1>1, <1>3, AdvanceGoes DEF Step
<1>5. CASE h[x].op # "upload" \/ s = "failed"
  BY <1>1, <1>2, <1>4, <1>5, GoesStep DEF store
<1>6. CASE h[x].op = "upload" /\ s = "put"
  <2>1. /\ Job(h[x], h'[x]) /\ h'[x].step = "put"
        /\ \A y \in Handler : y # x => h'[y] = h[y]
        /\ \A y \in Handler : Job(h[y], h'[y])
    BY <1>4, <1>6 DEF Goes, Same, Job
  <2>2. TypeOK'
    BY <1>1, <1>2, <1>4, ServeTypes DEF Goes
  <2>3. BatchInv'
    BY <1>1, <2>1, ServeBatch DEF ServedInv
  <2>4. ShownInv'
    BY <1>1, <1>4, ServeShown DEF ServedInv, Goes
  <2>5. FileInv'
    <3>1. \A y \in Handler : Going(y)' => Going(y) /\ h'[y].batch = h[y].batch
      BY <1>1, <1>6, <2>1 DEF Going, Job
    <3>2. \A y \in Handler : Loaded(y)' => Loaded(y) /\ h'[y].batch = h[y].batch
      BY <2>1 DEF Loaded, Job
    <3>3. saves \in Nat /\ saves' \in Nat /\ saves <= saves'
      BY <1>1, ForgeAssumption DEF TypeOK, page
    <3> QED BY <1>1, <3>1, <3>2, <3>3, FilesKept
            DEF ServedInv, FileInv, store, page
  <2> QED BY <2>2, <2>3, <2>4, <2>5 DEF ServedInv
<1> QED BY <1>3, <1>5, <1>6

LEMMA WriteStep ==
    ASSUME ServedInv, NEW x \in Handler, Write(x)
    PROVE  ServedInv'
<1>1. /\ TypeOK /\ UNCHANGED <<cases, stored, torn, page, excused, budget>>
      /\ h[x].op = "update" /\ Advance(x, "ok")
  BY DEF ServedInv, Write, At
<1>2. row' = [row EXCEPT ![h[x].id] =
                IF Exists(h[x].id) THEN Visibility(h[x].public) ELSE @]
  BY DEF Write
<1>3. StoreTypes'
  BY <1>1, <1>2 DEF TypeOK, StoreTypes, Visibility
<1>4. Goes(x, "ok")
  BY <1>1, AdvanceGoes DEF Step
<1> QED BY <1>1, <1>3, <1>4, GoesStep DEF Step

LEMMA WipeStep ==
    ASSUME ServedInv, NEW x \in Handler, Wipe(x)
    PROVE  ServedInv'
<1>1. /\ TypeOK /\ UNCHANGED <<row, cases, page, excused>>
      /\ h[x].op \in {"clear", "remove"} /\ Advance(x, "erase")
      /\ torn' = torn \cup h[x].saw
      /\ stored' = stored \ h[x].saw \/ stored' = stored
      /\ budget' = budget \/ Spend("store")
  BY DEF ServedInv, Wipe, At
<1>2. h[x].saw \subseteq Batch
  BY <1>1 DEF TypeOK
<1>3. StoreTypes'
  BY <1>1, <1>2 DEF TypeOK, StoreTypes
<1>4. Goes(x, "erase")
  BY <1>1, AdvanceGoes DEF Step
<1> QED BY <1>1, <1>3, <1>4, GoesStep DEF Step

LEMMA EraseStep ==
    ASSUME ServedInv, NEW x \in Handler, Erase(x)
    PROVE  ServedInv'
<1>1. PICK s \in {"ok", "drop"} : Advance(x, s)
  BY DEF Erase
<1>2. /\ TypeOK /\ UNCHANGED <<row, stored, torn, page, excused, budget>>
      /\ h[x].op \in {"clear", "remove"}
      /\ cases' = [cases EXCEPT ![h[x].id] = {}]
  BY DEF ServedInv, Erase, At
<1>3. StoreTypes' /\ \A i \in Problem : cases'[i] \subseteq cases[i]
  BY <1>2 DEF TypeOK, StoreTypes
<1>4. Goes(x, s)
  BY <1>1, <1>2, AdvanceGoes DEF Step
<1> QED BY <1>2, <1>3, <1>4, GoesStep DEF Step

LEMMA DropStep ==
    ASSUME ServedInv, NEW x \in Handler, Drop(x)
    PROVE  ServedInv'
<1>1. /\ TypeOK /\ UNCHANGED <<stored, torn, page, excused, budget>>
      /\ h[x].op = "remove" /\ Advance(x, "ok")
      /\ cases' = [cases EXCEPT ![h[x].id] = {}]
      /\ row' = [row EXCEPT ![h[x].id] = IF Exists(h[x].id) THEN "gone" ELSE @]
  BY DEF ServedInv, Drop, At
<1>2. StoreTypes' /\ \A i \in Problem : cases'[i] \subseteq cases[i]
  BY <1>1 DEF TypeOK, StoreTypes
<1>3. Goes(x, "ok")
  BY <1>1, AdvanceGoes DEF Step
<1> QED BY <1>1, <1>2, <1>3, GoesStep DEF Step

LEMMA RefuseStep ==
    ASSUME ServedInv, NEW x \in Handler, Refuse(x)
    PROVE  ServedInv'
<1>1. /\ TypeOK /\ h \in [Handler -> Work] /\ h[x].op # "none"
      /\ UNCHANGED <<store, page, touched, excused>> /\ Spend("database")
      /\ h' = [h EXCEPT ![x] = [h[x] EXCEPT !.step = "failed"]]
  BY DEF ServedInv, ShownInv, TypeOK, Work, Op, Refuse
<1>2. StoreTypes' /\ saves \in Nat
  BY <1>1, ForgeAssumption DEF TypeOK, StoreTypes, store
<1>3. "failed" \in Step
  BY DEF Step
<1>4. PICK c \in Work : /\ h' = [h EXCEPT ![x] = c]
                        /\ Same(h[x], c) /\ c.step = "failed"
  BY <1>1, <1>3, StepTyped, Zenon
<1>5. Goes(x, "failed")
  BY <1>1, <1>4 DEF Goes, TypeOK
<1> QED BY <1>1, <1>2, <1>3, <1>5, GoesStep DEF store

LEMMA ServeStep ==
    ASSUME ServedInv, NEW x \in Handler, Serve(x)
    PROVE  ServedInv'
BY CreateStep, CheckStep, WriteStep, ReadStep, WipeStep, EraseStep, DropStep,
   PutStep, InsertStep, RefuseStep DEF Serve

-----------------------------------------------------------------------------
(* The pages, by what they do with their handlers. *)

PageTypes ==
    /\ at \in [Page -> Working \cup {"closed", "form", "done"}]
    /\ shown \in [Page -> 0..MaxProblems]
    /\ form \in [Page -> {"blank", "cases", "empty"}]
    /\ public \in [Page -> BOOLEAN]
    /\ batch \in [Page -> 0..MaxSaves] /\ saves \in 0..MaxSaves
    /\ says \in [Page -> {"nothing", "working", "load", "published", "metadata",
                          "rolledback", "orphan", "saved", "draft", "critical",
                          "undeleted"}]
    /\ touched \in [Page -> BOOLEAN]
    /\ excused \subseteq Problem

LEMMA UseTypes ==
    ASSUME TypeOK, UNCHANGED store, PageTypes', h' \in [Handler -> Work],
           budget' = budget \/ \E f : Spend(f)
    PROVE  TypeOK'
<1>1. budget' \in 0..MaxFaults
  BY ForgeAssumption DEF TypeOK, Spend
<1> QED BY <1>1 DEF TypeOK, PageTypes, store, Work, Op

\* Only page p changes, and a problem it is about exists.
Alone(p) ==
    /\ at'[p] \in Working \ {"create"} => shown'[p] \in Problem
    /\ at'[p] = "form" /\ p \notin Adders => shown'[p] \in Problem
    /\ \A q \in Page : q # p => at'[q] = at[q] /\ shown'[q] = shown[q]

\* The next call of the same save, or one that uploads nothing.
LEMMA AskOn ==
    ASSUME ServedInv, UNCHANGED <<store, batch, saves>>, PageTypes',
           budget' = budget, NEW p \in Page, NEW doing \in Working,
           NEW op \in Op, NEW id, Asks(p, doing, op, id), Alone(p),
           op \notin {"none", "create"}, doing # "create", id \in Problem,
           op = "upload" <=> doing = "upload",
           doing \in Soon \cup {"upload"} => at[p] \in Soon
    PROVE  ServedInv'
<1>1. /\ TypeOK /\ h' \in [Handler -> Work] /\ at'[p] = doing /\ h'[p].op = op
      /\ h'[p].batch = batch[p] /\ h'[p].step = "start" /\ h'[p].id = id
      /\ \A y \in Handler : y # p => h'[y] = h[y]
      /\ \A q \in Page : batch'[q] = batch[q] /\ (q # p => at'[q] = at[q])
  BY DEF ServedInv, TypeOK, Asks, Alone
<1>2. TypeOK'
  BY <1>1, UseTypes
<1>3. BatchInv'
  BY <1>1, StrayApart DEF ServedInv, BatchInv, Soon
<1>4. ShownInv'
  BY <1>1, StrayApart DEF ServedInv, ShownInv, Alone
<1>5. FileInv'
  <2>1. \A i \in Problem, q \in Page : at'[q] \in Soon => batch'[q] \notin cases[i]
    BY <1>1 DEF ServedInv, FileInv, Soon
  <2>2. \A i \in Problem, y \in Handler : Going(y)' => h'[y].batch \notin cases[i]
    BY <1>1 DEF ServedInv, FileInv, Going
  <2>3. \A y \in Handler : Loaded(y)' => h'[y].batch \in stored' \cup torn'
    BY <1>1 DEF ServedInv, FileInv, Loaded, store
  <2> QED BY <2>1, <2>2, <2>3 DEF ServedInv, FileInv, RowsHaveObjects, store
<1> QED BY <1>2, <1>3, <1>4, <1>5 DEF ServedInv

\* A save begins, with a batch of its own.
LEMMA AskNew ==
    ASSUME ServedInv, UNCHANGED store, PageTypes', budget' = budget,
           NEW p \in Page, NEW doing \in {"create", "update"},
           NEW op \in {"create", "update"}, NEW id, Asks(p, doing, op, id),
           Alone(p), op = "update" => id \in Problem /\ doing = "update",
           op = "create" => doing = "create",
           saves' = saves + 1, batch' = [batch EXCEPT ![p] = saves + 1]
    PROVE  ServedInv'
<1>1. /\ TypeOK /\ h' \in [Handler -> Work] /\ at'[p] = doing /\ h'[p].op = op
      /\ h'[p].step = "start" /\ h'[p].id = id
      /\ \A y \in Handler : y # p => h'[y] = h[y]
      /\ \A q \in Page : q # p => at'[q] = at[q] /\ batch'[q] = batch[q]
      /\ batch'[p] = saves + 1 /\ saves \in Nat
  BY ForgeAssumption DEF ServedInv, TypeOK, Asks, Alone
<1>2. TypeOK'
  BY <1>1, UseTypes
<1>3. BatchInv'
  BY <1>1, StrayApart DEF ServedInv, BatchInv, Soon
<1>4. ShownInv'
  BY <1>1, StrayApart DEF ServedInv, ShownInv, Alone
<1>5. FileInv'
  <2>1. \A i \in Problem, q \in Page : at'[q] \in Soon => batch'[q] \notin cases[i]
    BY <1>1 DEF ServedInv, FileInv, Soon
  <2>2. \A i \in Problem, y \in Handler : Going(y)' => h'[y].batch \notin cases[i]
    BY <1>1 DEF ServedInv, FileInv, Going
  <2>3. \A y \in Handler : Loaded(y)' => h'[y].batch \in stored' \cup torn'
    BY <1>1 DEF ServedInv, FileInv, Loaded, store
  <2>4. \A i \in Problem : cases'[i] \subseteq 1..saves'
    BY <1>1 DEF ServedInv, FileInv, store
  <2> QED BY <2>1, <2>2, <2>3, <2>4
          DEF ServedInv, FileInv, RowsHaveObjects, store
<1> QED BY <1>2, <1>3, <1>4, <1>5 DEF ServedInv

\* A handler is dismissed or becomes the stray, and the page is done with it.
LEMMA LetGo ==
    ASSUME ServedInv, UNCHANGED <<store, batch, saves>>, PageTypes',
           budget' = budget \/ \E f : Spend(f),
           NEW p \in Page, Alone(p), h' \in [Handler -> Work],
           h'[p].op = "none", h'[p].step \in {"idle", "failed"},
           \A y \in Handler : y \notin {p, Stray} => h'[y] = h[y],
           \/ h'[Stray] \in {h[Stray], h[p]}
           \/ h'[Stray].op = "none" /\ h'[Stray].step \in {"idle", "failed"},
           at'[p] \in Soon \cup {"upload"} => at'[p] = at[p]
    PROVE  ServedInv'
<1>1. /\ TypeOK /\ saves \in Nat
      /\ \A q \in Page : batch'[q] = batch[q] /\ (q # p => at'[q] = at[q])
      /\ \A q \in Page : q # p => h'[q] = h[q]
  BY StrayApart, ForgeAssumption DEF ServedInv, TypeOK, Alone
<1>2. TypeOK'
  BY <1>1, UseTypes
<1>3. BatchInv'
  BY <1>1, StrayApart DEF ServedInv, BatchInv, Soon
<1>4. ShownInv'
  BY <1>1, StrayApart DEF ServedInv, ShownInv, Alone
<1>5. FileInv'
  <2>1. \A i \in Problem, q \in Page : at'[q] \in Soon => batch'[q] \notin cases[i]
    BY <1>1 DEF ServedInv, FileInv, Soon
  <2>2. \A i \in Problem, y \in Handler : Going(y)' => h'[y].batch \notin cases[i]
    BY <1>1, StrayApart DEF ServedInv, FileInv, Going
  <2>3. \A y \in Handler : Loaded(y)' => h'[y].batch \in stored' \cup torn'
    BY <1>1, StrayApart DEF ServedInv, FileInv, Loaded, store
  <2> QED BY <2>1, <2>2, <2>3 DEF ServedInv, FileInv, RowsHaveObjects, store
<1> QED BY <1>2, <1>3, <1>4, <1>5 DEF ServedInv

\* The handlers are left alone.
LEMMA JustPage ==
    ASSUME ServedInv, UNCHANGED <<store, batch, saves, h>>, PageTypes',
           budget' = budget \/ \E f : Spend(f),
           NEW p \in Page, Alone(p), at'[p] \notin Working,
           at[p] \notin Working
    PROVE  ServedInv'
<1>1. /\ TypeOK /\ saves \in Nat /\ h' \in [Handler -> Work]
      /\ \A q \in Page : batch'[q] = batch[q] /\ (q # p => at'[q] = at[q])
  BY ForgeAssumption DEF ServedInv, TypeOK, Alone, Work, Op
<1>2. TypeOK'
  BY <1>1, UseTypes
<1>3. BatchInv'
  BY <1>1, StrayApart DEF ServedInv, BatchInv, Soon, Working
<1>4. ShownInv'
  BY <1>1, StrayApart DEF ServedInv, ShownInv, Alone, Working
<1>5. FileInv'
  BY <1>1
  DEF ServedInv, FileInv, Going, Loaded, RowsHaveObjects, store, Soon, Working
<1> QED BY <1>2, <1>3, <1>4, <1>5 DEF ServedInv

-----------------------------------------------------------------------------
(* The pages, one action at a time. *)

LEMMA OpenStep ==
    ASSUME ServedInv, NEW p \in Page,
           OpenAdd(p) \/ (\E i \in Problem : OpenEdit(p, i)) \/ Change(p)
    PROVE  ServedInv'
<1> USE DEF ServedInv, TypeOK, PageTypes, Alone, Working, Problem
<1>0. ServedInv /\ TypeOK
  OBVIOUS
<1>1. CASE OpenAdd(p)
  <2>1. PageTypes' /\ Alone(p) /\ at[p] \notin Working /\ at'[p] \notin Working
    BY <1>1, ForgeAssumption DEF OpenAdd
  <2> HIDE DEF ServedInv, TypeOK, PageTypes, Alone, Working, Problem
  <2> QED BY <1>0, <1>1, <2>1, JustPage DEF OpenAdd
<1>2. ASSUME NEW i \in Problem, OpenEdit(p, i) PROVE ServedInv'
  <2>0. PICK c \in {"blank", "cases", "empty"}, m \in {"nothing", "load"} :
          form' = [form EXCEPT ![p] = c] /\ says' = [says EXCEPT ![p] = m]
    <3> HIDE DEF ServedInv, TypeOK, PageTypes, Alone, Working, Problem
    <3> QED BY <1>2, Zenon DEF OpenEdit
  <2>1. PageTypes' /\ Alone(p) /\ at[p] \notin Working /\ at'[p] \notin Working
    <3>1. /\ at' = [at EXCEPT ![p] = "form"] /\ shown' = [shown EXCEPT ![p] = i]
          /\ public' = [public EXCEPT ![p] = (row[i] = "public")]
          /\ at[p] \in {"closed", "done"}
          /\ UNCHANGED <<batch, saves, touched, excused>>
      BY <1>2 DEF OpenEdit
    <3> QED BY <2>0, <3>1, ForgeAssumption
  <2>2. budget' = budget \/ \E f : Spend(f)
    BY <1>2 DEF OpenEdit
  <2> HIDE DEF ServedInv, TypeOK, PageTypes, Alone, Working, Problem
  <2> QED BY <1>0, <1>2, <2>1, <2>2, JustPage DEF OpenEdit
<1>3. CASE Change(p)
  <2>1. PageTypes' /\ Alone(p) /\ at[p] \notin Working /\ at'[p] \notin Working
    BY <1>3 DEF Change, ShownInv
  <2> HIDE DEF ServedInv, TypeOK, PageTypes, Alone, Working, Problem
  <2> QED BY <1>0, <1>3, <2>1, JustPage DEF Change
<1> QED BY <1>1, <1>2, <1>3

LEMMA PublishStep ==
    ASSUME ServedInv, NEW p \in Page, Publish(p)
    PROVE  ServedInv'
<1>1. /\ TypeOK /\ saves' = saves + 1 /\ batch' = [batch EXCEPT ![p] = saves + 1]
      /\ shown' = [shown EXCEPT ![p] = 0]
      /\ Begin(p) /\ Call(p, "create", "create", 0, public[p])
      /\ UNCHANGED <<store, form, public, excused, budget>> /\ saves < MaxSaves
  BY DEF ServedInv, Publish
<1>2. batch'[p] \in 0..MaxSaves /\ 0 \in 0..MaxProblems /\ public[p] \in BOOLEAN
  BY <1>1, ForgeAssumption DEF TypeOK
<1>3. Asks(p, "create", "create", 0)
  BY <1>1, <1>2, CallAsks DEF Op
<1>4. PageTypes' /\ Alone(p)
  BY <1>1, <1>2, <1>3, ForgeAssumption
  DEF TypeOK, PageTypes, Alone, Asks, Begin, Working
<1> QED BY <1>1, <1>3, <1>4, AskNew

LEMMA SaveStep ==
    ASSUME ServedInv, NEW p \in Page, Save(p)
    PROVE  ServedInv'
<1>1. /\ TypeOK /\ saves' = saves + 1 /\ batch' = [batch EXCEPT ![p] = saves + 1]
      /\ Begin(p) /\ Call(p, "update", "update", shown[p], public[p])
      /\ UNCHANGED <<store, shown, form, public, excused, budget>>
      /\ saves < MaxSaves /\ shown[p] \in Problem
  BY DEF ServedInv, ShownInv, Save, Begin
<1>2. batch'[p] \in 0..MaxSaves /\ public[p] \in BOOLEAN
      /\ shown[p] \in 0..MaxProblems
  BY <1>1, ForgeAssumption DEF TypeOK
<1>3. Asks(p, "update", "update", shown[p])
  BY <1>1, <1>2, CallAsks DEF Op
<1>4. PageTypes' /\ Alone(p)
  BY <1>1, <1>2, <1>3, ForgeAssumption
  DEF TypeOK, PageTypes, Alone, Asks, Begin, Working
<1> QED BY <1>1, <1>3, <1>4, AskNew

LEMMA DeleteStep ==
    ASSUME ServedInv, NEW p \in Page, Delete(p)
    PROVE  ServedInv'
<1>1. /\ TypeOK /\ UNCHANGED <<store, batch, saves, shown, form, public, excused,
                               budget>>
      /\ Begin(p) /\ Call(p, "delete", "remove", shown[p], FALSE)
      /\ shown[p] \in Problem
  BY DEF ServedInv, ShownInv, Delete, Begin
<1>2. batch'[p] \in 0..MaxSaves /\ shown[p] \in 0..MaxProblems
  BY <1>1 DEF TypeOK
<1>3. Asks(p, "delete", "remove", shown[p])
  BY <1>1, <1>2, CallAsks DEF Op
<1>4. PageTypes' /\ Alone(p)
  BY <1>1, <1>2, <1>3 DEF TypeOK, PageTypes, Alone, Asks, Begin, Working
<1> QED BY <1>1, <1>3, <1>4, AskOn DEF Op, Working, Soon

LEMMA CreatedStep ==
    ASSUME ServedInv, NEW p \in Page, Created(p)
    PROVE  ServedInv'
<1>1. /\ TypeOK /\ at[p] = "create" /\ h[p].step = "ok"
      /\ shown' = [shown EXCEPT ![p] = h[p].id]
      /\ UNCHANGED <<store, form, public, batch, saves, touched, budget>>
  BY DEF ServedInv, Created, Answered
<1>2. h[p].id \in Problem
  BY <1>1, StrayApart DEF ServedInv, ShownInv
<1>3. excused' \subseteq Problem
  BY <1>1, <1>2 DEF Created, Excuse, TypeOK
<1>4. CASE form[p] = "empty"
  <2>1. Stops(p, "done", "published")
    BY <1>1, <1>4, StopStops DEF Created
  <2>2. PageTypes' /\ Alone(p) /\ at'[p] = "done"
    BY <1>1, <1>2, <1>3, <2>1 DEF TypeOK, PageTypes, Alone, Stops, Working, Problem
  <2> QED BY <1>1, <2>1, <2>2, StrayApart, LetGo DEF Stops, Soon
<1>5. CASE form[p] # "empty"
  <2>1. Call(p, "upload", "upload", h[p].id, FALSE) /\ UNCHANGED says
    BY <1>5 DEF Created
  <2>2. batch'[p] \in 0..MaxSaves /\ h[p].id \in 0..MaxProblems
    BY <1>1, <1>2 DEF TypeOK, Problem
  <2>3. Asks(p, "upload", "upload", h[p].id)
    BY <1>1, <2>1, <2>2, CallAsks DEF Op
  <2>4. PageTypes' /\ Alone(p)
    BY <1>1, <1>2, <1>3, <2>1, <2>2, <2>3
    DEF TypeOK, PageTypes, Alone, Asks, Working
  <2> QED BY <1>1, <1>2, <2>3, <2>4, AskOn DEF Op, Working, Soon
<1> QED BY <1>4, <1>5

LEMMA UpdatedStep ==
    ASSUME ServedInv, NEW p \in Page, Updated(p)
    PROVE  ServedInv'
<1>1. /\ TypeOK /\ at[p] = "update"
      /\ Call(p, "clear", "clear", shown[p], FALSE)
      /\ UNCHANGED <<store, batch, shown, form, public, says, saves, touched,
                     excused, budget>>
  BY DEF ServedInv, Updated, Answered
<1>2. shown[p] \in Problem /\ shown[p] \in 0..MaxProblems
      /\ batch'[p] \in 0..MaxSaves
  BY <1>1 DEF ServedInv, ShownInv, TypeOK, Working
<1>3. Asks(p, "clear", "clear", shown[p])
  BY <1>1, <1>2, CallAsks DEF Op
<1>4. PageTypes' /\ Alone(p)
  BY <1>1, <1>2, <1>3 DEF TypeOK, PageTypes, Alone, Asks, Working
<1> QED BY <1>1, <1>2, <1>3, <1>4, AskOn DEF Op, Working, Soon

LEMMA ClearedStep ==
    ASSUME ServedInv, NEW p \in Page, Cleared(p)
    PROVE  ServedInv'
<1>1. /\ TypeOK /\ at[p] = "clear"
      /\ UNCHANGED <<store, batch, shown, form, public, saves, touched, budget>>
  BY DEF ServedInv, Cleared, Answered
<1>2. shown[p] \in Problem /\ shown[p] \in 0..MaxProblems
      /\ batch'[p] \in 0..MaxSaves
  BY <1>1 DEF ServedInv, ShownInv, TypeOK, Working
<1>3. excused' \subseteq Problem
  BY <1>1, <1>2 DEF Cleared, Excuse, TypeOK
<1>4. CASE form[p] = "empty"
  <2>1. Stops(p, "done", "saved")
    BY <1>1, <1>4, StopStops DEF Cleared
  <2>2. PageTypes' /\ Alone(p) /\ at'[p] = "done"
    BY <1>1, <1>2, <1>3, <2>1 DEF TypeOK, PageTypes, Alone, Stops, Working
  <2> QED BY <1>1, <2>1, <2>2, StrayApart, LetGo DEF Stops, Soon
<1>5. CASE form[p] # "empty"
  <2>1. Call(p, "upload", "upload", shown[p], FALSE) /\ UNCHANGED says
    BY <1>5 DEF Cleared
  <2>2. Asks(p, "upload", "upload", shown[p])
    BY <1>1, <1>2, <2>1, CallAsks DEF Op
  <2>3. PageTypes' /\ Alone(p)
    BY <1>1, <1>2, <1>3, <2>1, <2>2 DEF TypeOK, PageTypes, Alone, Asks, Working
  <2> QED BY <1>1, <1>2, <2>2, <2>3, AskOn DEF Op, Working, Soon
<1> QED BY <1>4, <1>5

LEMMA UploadedStep ==
    ASSUME ServedInv, NEW p \in Page, Uploaded(p)
    PROVE  ServedInv'
<1>1. PICK m \in {"published", "saved"} : Stop(p, "done", m)
  BY DEF Uploaded
<1>2. /\ TypeOK
      /\ UNCHANGED <<store, shown, form, public, batch, saves, touched, excused,
                     budget>>
  BY DEF ServedInv, Uploaded
<1>3. Stops(p, "done", m)
  BY <1>1, <1>2, StopStops
<1>4. PageTypes' /\ Alone(p) /\ at'[p] = "done"
  BY <1>2, <1>3 DEF TypeOK, PageTypes, Alone, Stops, Working
<1> QED BY <1>2, <1>3, <1>4, StrayApart, LetGo DEF Stops, Soon

LEMMA PublishFailedStep ==
    ASSUME ServedInv, NEW p \in Page, PublishFailed(p)
    PROVE  ServedInv'
<1>1. /\ TypeOK /\ p \in Adders
      /\ UNCHANGED <<store, batch, shown, form, public, saves, touched, excused,
                     budget>>
  BY DEF ServedInv, PublishFailed
<1>2. CASE Stop(p, "form", "metadata")
  <2>1. Stops(p, "form", "metadata")
    BY <1>1, <1>2, StopStops
  <2>2. PageTypes' /\ Alone(p) /\ at'[p] = "form"
    BY <1>1, <2>1 DEF TypeOK, PageTypes, Alone, Stops, Working
  <2> QED BY <1>1, <2>1, <2>2, StrayApart, LetGo DEF Stops, Soon
<1>3. CASE /\ at[p] = "upload" /\ UNCHANGED says
           /\ Call(p, "rollback", "remove", shown[p], FALSE)
  <2>1. shown[p] \in Problem /\ shown[p] \in 0..MaxProblems
        /\ batch'[p] \in 0..MaxSaves
    BY <1>1, <1>3 DEF ServedInv, ShownInv, TypeOK, Working
  <2>2. Asks(p, "rollback", "remove", shown[p])
    BY <1>1, <1>3, <2>1, CallAsks DEF Op
  <2>3. PageTypes' /\ Alone(p)
    BY <1>1, <1>3, <2>1, <2>2 DEF TypeOK, PageTypes, Alone, Asks, Working
  <2> QED BY <1>1, <2>1, <2>2, <2>3, AskOn DEF Op, Working, Soon
<1> QED BY <1>2, <1>3 DEF PublishFailed, Answered

LEMMA SaveFailedStep ==
    ASSUME ServedInv, NEW p \in Page, SaveFailed(p)
    PROVE  ServedInv'
<1>1. /\ TypeOK /\ at[p] \in {"update", "clear", "upload"}
      /\ Call(p, "fallback", "update", shown[p], FALSE)
      /\ UNCHANGED <<store, batch, shown, form, public, says, saves, touched,
                     excused, budget>>
  BY DEF ServedInv, SaveFailed, Answered
<1>2. shown[p] \in Problem /\ shown[p] \in 0..MaxProblems
      /\ batch'[p] \in 0..MaxSaves
  BY <1>1 DEF ServedInv, ShownInv, TypeOK, Working
<1>3. Asks(p, "fallback", "update", shown[p])
  BY <1>1, <1>2, CallAsks DEF Op
<1>4. PageTypes' /\ Alone(p)
  BY <1>1, <1>2, <1>3 DEF TypeOK, PageTypes, Alone, Asks, Working
<1> QED BY <1>1, <1>2, <1>3, <1>4, AskOn DEF Op, Working, Soon

LEMMA CompensatedStep ==
    ASSUME ServedInv, NEW p \in Page, Compensated(p)
    PROVE  ServedInv'
<1>1. /\ TypeOK /\ at[p] \in {"rollback", "fallback", "delete"}
      /\ UNCHANGED <<store, shown, form, public, batch, saves, touched, budget>>
  BY DEF ServedInv, Compensated, Answered
<1>2. PICK w \in {"form", "closed"},
           m \in {"rolledback", "orphan", "draft", "critical", "nothing",
                  "undeleted"} : Stop(p, w, m)
  BY DEF Compensated
<1>3. shown[p] \in Problem
  BY <1>1 DEF ServedInv, ShownInv, Working
<1>4. excused' \subseteq Problem
  BY <1>1, <1>3 DEF Compensated, TypeOK
<1>5. Stops(p, w, m)
  BY <1>1, <1>2, StopStops
<1>6. PageTypes' /\ Alone(p) /\ at'[p] = w
  BY <1>1, <1>3, <1>4, <1>5 DEF TypeOK, PageTypes, Alone, Stops, Working
<1> QED BY <1>1, <1>5, <1>6, StrayApart, LetGo DEF Stops, Soon

LEMMA UnansweredStep ==
    ASSUME ServedInv, NEW p \in Page, Unanswered(p)
    PROVE  ServedInv'
<1>1. /\ TypeOK /\ at[p] \in Working /\ Spend("network")
      /\ Abandon(p, [Idle EXCEPT !.step = "failed"])
      /\ UNCHANGED <<store, page, touched>>
  BY DEF ServedInv, Unanswered
<1>2. Strays(p, "failed")
  <2>1. Strays(p, [Idle EXCEPT !.step = "failed"].step)
    BY <1>1, FailedTyped, AbandonStrays, Zenon
  <2> QED BY <2>1, FailedTyped, Zenon
<1>3. excused' \subseteq Problem
  <2>1. h[p].op \notin {"create", "none"} => shown[p] \in Problem
    BY <1>1 DEF ServedInv, ShownInv
  <2>2. h[p].op = "none" => h[p].step \notin {"start", "write"}
    BY StrayApart DEF ServedInv, ShownInv
  <2> QED BY <1>1, <2>1, <2>2 DEF Unanswered, TypeOK
<1>4. PageTypes' /\ Alone(p)
  BY <1>1, <1>3 DEF ServedInv, ShownInv, TypeOK, PageTypes, Alone, page
<1> QED BY <1>1, <1>2, <1>4, LetGo DEF Strays, page

LEMMA LeaveStep ==
    ASSUME ServedInv, NEW p \in Page, Leave(p)
    PROVE  ServedInv'
<1>1. /\ TypeOK /\ at' = [at EXCEPT ![p] = "closed"]
      /\ says' = [says EXCEPT ![p] = "nothing"]
      /\ UNCHANGED <<store, shown, form, public, batch, saves, touched>>
  BY DEF ServedInv, Leave
<1>2. excused' \subseteq Problem
  BY <1>1 DEF ServedInv, ShownInv, TypeOK, Leave
<1>3. PageTypes' /\ Alone(p) /\ at'[p] = "closed"
  BY <1>1, <1>2 DEF TypeOK, PageTypes, Alone, Working
<1>4. CASE at[p] \in Working
  <2>1. Spend("leave") /\ Abandon(p, Idle)
    BY <1>4 DEF Leave
  <2>2. Strays(p, "idle")
    <3>1. Strays(p, Idle.step)
      BY <1>1, <2>1, IdleTyped, AbandonStrays, Zenon
    <3> QED BY <3>1, IdleTyped, Zenon
  <2> QED BY <1>1, <1>3, <2>1, <2>2, LetGo DEF Strays, Soon
<1>5. CASE at[p] \notin Working
  <2>1. UNCHANGED <<h, budget>>
    BY <1>5 DEF Leave
  <2> QED BY <1>1, <1>3, <1>5, <2>1, JustPage DEF Working
<1> QED BY <1>4, <1>5

LEMMA StrayStep ==
    ASSUME ServedInv, StrayEnds
    PROVE  ServedInv'
<1>1. /\ TypeOK /\ h \in [Handler -> Work] /\ h' = [h EXCEPT ![Stray] = Idle]
      /\ UNCHANGED <<store, page, touched, excused, budget>>
  BY DEF ServedInv, TypeOK, Work, Op, StrayEnds
<1>2. /\ h' \in [Handler -> Work] /\ h'[Stray].op = "none"
      /\ h'[Stray].step = "idle"
      /\ \A y \in Handler : y # Stray => h'[y] = h[y]
  BY <1>1, IdleTyped, StrayApart
<1>3. TypeOK'
  BY <1>1, <1>2, UseTypes DEF TypeOK, PageTypes, page
<1>4. BatchInv' /\ ShownInv'
  BY <1>1, <1>2, StrayApart DEF ServedInv, BatchInv, ShownInv, page
<1>5. FileInv'
  BY <1>1, <1>2
  DEF ServedInv, FileInv, Going, Loaded, RowsHaveObjects, store, page
<1> QED BY <1>3, <1>4, <1>5 DEF ServedInv

LEMMA ServedStep ==
    ASSUME ServedInv, [Next]_vars
    PROVE  ServedInv'
<1>1. CASE UNCHANGED vars
  BY <1>1 DEF vars, store, page, ServedInv, TypeOK, BatchInv, FileInv, ShownInv,
              Going, Loaded, RowsHaveObjects
<1>2. ASSUME NEW p \in Page, Use(p) PROVE ServedInv'
  BY <1>2, OpenStep, PublishStep, SaveStep, DeleteStep, CreatedStep, UpdatedStep,
     ClearedStep, UploadedStep, PublishFailedStep, SaveFailedStep,
     CompensatedStep, UnansweredStep, LeaveStep DEF Use
<1> QED BY <1>1, <1>2, ServeStep, StrayStep DEF Next

LEMMA ServedStart ==
    ASSUME Init
    PROVE  ServedInv
<1>1. TypeOK
  BY ForgeAssumption, IdleTyped DEF Init, TypeOK, Work, Op
<1>2. /\ \A x \in Handler : h[x].op = "none" /\ h[x].step = "idle"
      /\ \A p \in Page : at[p] = "closed" /\ batch[p] = 0
      /\ \A i \in Problem : cases[i] = {}
      /\ saves = 0
  BY IdleTyped DEF Init
<1>3. BatchInv /\ FileInv /\ ShownInv
  BY <1>2, StrayApart
  DEF BatchInv, FileInv, ShownInv, Going, Loaded, RowsHaveObjects, Working, Soon
<1> QED BY <1>1, <1>3 DEF ServedInv

\* Every variable keeps its type, for any pages, problems, saves and failures.
THEOREM TypeCorrect == Spec => []TypeOK
<1>1. ServedInv => TypeOK
  BY DEF ServedInv
<1> QED BY <1>1, ServedStart, ServedStep, PTL DEF Spec

\* No order of concurrent uploads, deletions and clean-ups loses files under
\* rows that stay: RowsHaveObjects (problem_service.go:175,
\* problem_controller.go:293).
THEOREM RowsKeepFiles == Spec => []RowsHaveObjects
<1>1. ServedInv => RowsHaveObjects
  BY DEF ServedInv, FileInv
<1> QED BY <1>1, ServedStart, ServedStep, PTL DEF Spec

-----------------------------------------------------------------------------
(* What was rolled back is gone. *)

\* Test cases are those of problems that exist; a deletion ends with the
\* problem gone; a page that works does not say yet how it ended.
GoneInv ==
    /\ \A i \in Problem : ~Exists(i) => cases[i] = {}
    /\ \A x \in Handler :
         h[x].op = "remove" /\ h[x].step \notin {"start", "failed", "idle"} =>
           row[h[x].id] # "none"
    /\ \A x \in Handler :
         h[x].op = "remove" /\ h[x].step = "ok" => row[h[x].id] = "gone"
    /\ \A p \in Page : at[p] \in Working => says[p] = "working"
    /\ \A p \in Page : at[p] = "rollback" =>
         /\ h[p].op \in {"remove", "none"}
         /\ h[p].op = "remove" => h[p].id = shown[p]
    /\ \A p \in Page : says[p] = "rolledback" =>
         shown[p] \in Problem /\ row[shown[p]] = "gone"

\* Whatever a handler does, what is gone stays gone.
LEMMA GoneStays ==
    ASSUME ServedInv, GoneInv, NEW x \in Handler, Serve(x)
    PROVE  /\ \A i \in Problem : row[i] # "none" => row'[i] # "none"
           /\ \A i \in Problem : row[i] = "gone" => row'[i] = "gone"
           /\ \A i \in Problem : ~Exists(i)' => cases'[i] = {}
<1>1. CASE Create(x)
  <2>1. PICK i \in Problem :
          /\ row[i] = "none"
          /\ row' = row \/ row' = [row EXCEPT ![i] = Visibility(h[x].public)]
    BY <1>1, Zenon DEF Create
  <2>2. UNCHANGED cases
    BY <1>1 DEF Create
  <2> QED BY <2>1, <2>2 DEF ServedInv, TypeOK, GoneInv, Exists, Visibility
<1>2. CASE Write(x)
  BY <1>2 DEF Write, ServedInv, TypeOK, GoneInv, Exists, Visibility
<1>3. CASE Erase(x) \/ Drop(x)
  BY <1>3 DEF Erase, Drop, ServedInv, TypeOK, GoneInv, Exists
<1>4. CASE Insert(x)
  <2>1. UNCHANGED row
    BY <1>4, Zenon DEF Insert
  <2>2. \/ UNCHANGED cases
        \/ /\ Exists(h[x].id)
           /\ cases' = [cases EXCEPT ![h[x].id] = @ \cup {h[x].batch}]
    BY <1>4, Zenon DEF Insert
  <2> QED BY <2>1, <2>2 DEF ServedInv, TypeOK, GoneInv, Exists
<1>5. CASE Check(x) \/ Read(x) \/ Wipe(x) \/ Put(x) \/ Refuse(x)
  <2>1. UNCHANGED <<row, cases>>
    BY <1>5, Zenon DEF Check, Read, Wipe, Put, Refuse, store
  <2> QED BY <2>1 DEF GoneInv, Exists
<1> QED BY <1>1, <1>2, <1>3, <1>4, <1>5 DEF Serve

\* A deletion goes on only with a problem that was there.
LEMMA RemoveGoes ==
    ASSUME ServedInv, GoneInv, NEW x \in Handler, Serve(x)
    PROVE  /\ UNCHANGED page /\ h'[x].op = h[x].op /\ h[x].op # "none"
           /\ \A y \in Handler : y # x => h'[y] = h[y]
           /\ h[x].op = "remove" =>
                /\ h'[x].id = h[x].id
                /\ h'[x].step = "failed" \/ row'[h[x].id] # "none"
                /\ h'[x].step = "ok" => row'[h[x].id] = "gone"
<1>1. /\ TypeOK /\ h \in [Handler -> Work]
      /\ h[x].op = "remove" => h[x].id \in Problem
      /\ h[x].op = "none" => h[x].step \in {"idle", "failed"}
  BY DEF ServedInv, ShownInv, TypeOK, Work, Op
<1>2. \A i \in Problem : row[i] # "none" => row'[i] # "none"
  BY GoneStays
<1>3. CASE Create(x)
  <2>1. h[x].op = "create"
    BY <1>3 DEF Create, At
  <2>2. PICK c \in Work : h' = [h EXCEPT ![x] = c] /\ Job(h[x], c)
    <3>1. PICK i \in Problem :
            \/ h' = [h EXCEPT ![x] = [h[x] EXCEPT !.step = "failed"]]
            \/ h' = [h EXCEPT ![x] = [h[x] EXCEPT !.step = "ok", !.id = i]]
      BY <1>3, Zenon DEF Create
    <3>2. "failed" \in Step
      BY DEF Step
    <3>3. /\ [h[x] EXCEPT !.step = "failed"] \in Work
          /\ Job(h[x], [h[x] EXCEPT !.step = "failed"])
      BY <1>1, <3>2, StepTyped, Zenon DEF Same, Job
    <3>4. /\ [h[x] EXCEPT !.step = "ok", !.id = i] \in Work
          /\ Job(h[x], [h[x] EXCEPT !.step = "ok", !.id = i])
      BY <1>1, MadeTyped, Zenon
    <3> QED BY <3>1, <3>3, <3>4, Zenon
  <2>3. UNCHANGED page
    BY <1>3 DEF Create
  <2> QED BY <1>1, <2>1, <2>2, <2>3 DEF Job
<1>4. ASSUME NEW s \in Step, Advance(x, s), UNCHANGED page, h[x].op # "none",
             h[x].op = "remove" =>
               /\ s = "failed" \/ row'[h[x].id] # "none"
               /\ s = "ok" => row'[h[x].id] = "gone"
      PROVE  /\ UNCHANGED page /\ h'[x].op = h[x].op /\ h[x].op # "none"
             /\ \A y \in Handler : y # x => h'[y] = h[y]
             /\ h[x].op = "remove" =>
                  /\ h'[x].id = h[x].id
                  /\ h'[x].step = "failed" \/ row'[h[x].id] # "none"
                  /\ h'[x].step = "ok" => row'[h[x].id] = "gone"
  <2>1. Goes(x, s)
    BY <1>1, <1>4, AdvanceGoes
  <2> QED BY <1>4, <2>1 DEF Goes, Same
<1>5. CASE Check(x)
  <2>1. PICK s \in {"failed", "write", "put", "read"} :
          /\ Advance(x, s)
          /\ h[x].op = "remove" => s = "failed" \/ Exists(h[x].id)
    BY <1>5 DEF Check
  <2>2. UNCHANGED <<row, page>> /\ h[x].op # "none"
    BY <1>5 DEF Check, At, store
  <2>3. h[x].op = "remove" => s = "failed" \/ row'[h[x].id] # "none"
    BY <2>1, <2>2 DEF Exists
  <2> QED BY <1>4, <2>1, <2>2, <2>3 DEF Step
<1>6. CASE Write(x) \/ Put(x) \/ Insert(x)
  <2>1. PICK s \in {"ok", "failed", "insert"} : Advance(x, s)
    BY <1>6, Zenon DEF Write, Put, Insert
  <2>2. UNCHANGED page /\ h[x].op \in {"update", "upload"}
    BY <1>6, Zenon DEF Write, Put, Insert, At
  <2> QED BY <1>4, <2>1, <2>2 DEF Step
<1>7. CASE Wipe(x) \/ Erase(x)
  <2>1. PICK s \in {"erase", "drop", "ok"} :
          Advance(x, s) /\ (h[x].op = "remove" => s # "ok")
    BY <1>7 DEF Wipe, Erase, At
  <2>2. /\ UNCHANGED page /\ h[x].op \in {"clear", "remove"}
        /\ h[x].step \in {"wipe", "erase"}
    BY <1>7 DEF Wipe, Erase, At
  <2>3. h[x].op = "remove" => row'[h[x].id] # "none"
    BY <1>1, <1>2, <2>2 DEF GoneInv
  <2> QED BY <1>4, <2>1, <2>2, <2>3 DEF Step
<1>8. CASE Drop(x)
  <2>1. Advance(x, "ok") /\ UNCHANGED page /\ h[x].op = "remove"
    BY <1>8 DEF Drop, At
  <2>2. row'[h[x].id] = "gone"
    BY <1>1, <1>8 DEF Drop, At, GoneInv, TypeOK, Exists
  <2> QED BY <1>4, <2>1, <2>2 DEF Step
<1>9. CASE Read(x)
  <2>1. UNCHANGED <<row, page>> /\ h[x].op \in {"clear", "remove"}
    BY <1>9 DEF Read, At, store
  <2>2. CASE Exists(h[x].id)
    <3>1. h' = [h EXCEPT ![x] =
                  [h[x] EXCEPT !.saw = cases[h[x].id], !.step = "wipe"]]
      BY <1>9, <2>2, Zenon DEF Read
    <3>2. cases[h[x].id] \in SUBSET Batch
      BY <1>1, <2>1 DEF ServedInv, ShownInv, TypeOK
    <3>3. PICK c \in Work : /\ h' = [h EXCEPT ![x] = c]
                            /\ Same(h[x], c) /\ c.step = "wipe"
      BY <1>1, <3>1, <3>2, SawTyped, Zenon
    <3> QED BY <1>1, <2>1, <2>2, <3>3 DEF Same, Exists
  <2>3. CASE ~Exists(h[x].id)
    BY <1>4, <1>9, <2>1, <2>3 DEF Read, Step
  <2> QED BY <2>2, <2>3
<1>10. CASE Refuse(x)
  <2>1. /\ h' = [h EXCEPT ![x] = [h[x] EXCEPT !.step = "failed"]]
        /\ UNCHANGED page /\ h[x].op # "none"
    BY <1>1, <1>10 DEF Refuse
  <2>2. "failed" \in Step
    BY DEF Step
  <2>3. PICK c \in Work : /\ h' = [h EXCEPT ![x] = c]
                          /\ Same(h[x], c) /\ c.step = "failed"
    BY <1>1, <2>1, <2>2, StepTyped, Zenon
  <2> QED BY <1>1, <2>1, <2>3 DEF Same
<1> QED BY <1>3, <1>5, <1>6, <1>7, <1>8, <1>9, <1>10 DEF Serve

LEMMA ServeGone ==
    ASSUME ServedInv, GoneInv, NEW x \in Handler, Serve(x)
    PROVE  GoneInv'
<1>1. \A y \in Handler : h[y].op = "remove" => h[y].id \in Problem
  BY DEF ServedInv, ShownInv
<1>2. \A p \in Page : /\ at'[p] = at[p] /\ says'[p] = says[p]
                     /\ shown'[p] = shown[p]
  BY RemoveGoes DEF page
<1> QED BY <1>1, <1>2, GoneStays, RemoveGoes, StrayApart DEF GoneInv

\* A page changes what it says and the handler it has.
LEMMA PageGone ==
    ASSUME ServedInv, GoneInv, UNCHANGED store, NEW p \in Page,
           \A y \in Handler : y \notin {p, Stray} => h'[y] = h[y],
           h'[Stray] \in {h[Stray], h[p]} \/ h'[Stray].op = "none",
           h'[p] = h[p] \/ h'[p].op = "none" \/ h'[p].step = "start",
           \A q \in Page : q # p => /\ at'[q] = at[q] /\ says'[q] = says[q]
                                   /\ shown'[q] = shown[q],
           at'[p] \in Working => says'[p] = "working",
           at'[p] = "rollback" => /\ h'[p].op \in {"remove", "none"}
                                  /\ h'[p].op = "remove" => h'[p].id = shown'[p],
           says'[p] = "rolledback" =>
             shown'[p] \in Problem /\ row[shown'[p]] = "gone"
    PROVE  GoneInv'
BY StrayApart DEF GoneInv, store, Exists

\* What an action of page p leaves to the other pages.
Others(p) == \A q \in Page : q # p => /\ at'[q] = at[q] /\ says'[q] = says[q]
                                      /\ shown'[q] = shown[q]

LEMMA UseGone ==
    ASSUME ServedInv, GoneInv, NEW p \in Page, Use(p)
    PROVE  GoneInv'
<1>0. TypeOK
  BY DEF ServedInv
<1>1. at[p] \in Working => says[p] = "working"
  BY DEF GoneInv
<1>2. ASSUME NEW doing, NEW op \in Op \ {"none"}, NEW id \in 0..MaxProblems,
             NEW vis \in BOOLEAN, batch'[p] \in 0..MaxSaves,
             Call(p, doing, op, id, vis), UNCHANGED store,
             doing = "rollback" => op = "remove" /\ id = shown'[p],
             says'[p] = "working", Others(p)
      PROVE  GoneInv'
  <2>1. Asks(p, doing, op, id)
    BY <1>0, <1>2, CallAsks
  <2>2. at'[p] = doing
    BY <1>0, <2>1 DEF Asks, TypeOK
  <2> QED BY <1>2, <2>1, <2>2, StrayApart, PageGone DEF Asks, Others
<1>3. ASSUME NEW where \in {"form", "done", "closed"}, NEW m, Stop(p, where, m),
             UNCHANGED store, Others(p),
             m = "rolledback" =>
               shown'[p] \in Problem /\ row[shown'[p]] = "gone"
      PROVE  GoneInv'
  <2>1. Stops(p, where, m)
    BY <1>0, <1>3, StopStops
  <2>2. at'[p] = where /\ says'[p] = m
    BY <1>0, <2>1 DEF Stops, TypeOK
  <2> QED BY <1>3, <2>1, <2>2, StrayApart, PageGone DEF Stops, Others, Working
<1>4. CASE OpenAdd(p) \/ (\E i \in Problem : OpenEdit(p, i)) \/ Change(p)
  <2>1. /\ UNCHANGED <<store, h>> /\ Others(p) /\ at'[p] = "form"
        /\ says'[p] = "rolledback" => says[p] = "rolledback" /\ shown'[p] = shown[p]
    BY <1>0, <1>4 DEF OpenAdd, OpenEdit, Change, Others, TypeOK
  <2> QED BY <2>1, PageGone DEF Others, Working, GoneInv
<1>5. CASE Publish(p)
  <2>1. /\ Call(p, "create", "create", 0, public[p]) /\ UNCHANGED store
        /\ says'[p] = "working" /\ batch'[p] \in 0..MaxSaves /\ public[p] \in BOOLEAN
        /\ 0 \in 0..MaxProblems /\ Others(p)
    BY <1>0, <1>5, ForgeAssumption DEF Publish, Begin, Call, TypeOK, Others
  <2> QED BY <1>2, <2>1 DEF Op
<1>6. CASE Save(p)
  <2>1. /\ Call(p, "update", "update", shown[p], public[p]) /\ UNCHANGED store
        /\ says'[p] = "working" /\ batch'[p] \in 0..MaxSaves /\ public[p] \in BOOLEAN
        /\ shown[p] \in 0..MaxProblems /\ Others(p)
    BY <1>0, <1>6, ForgeAssumption DEF Save, Begin, Call, TypeOK, Others
  <2> QED BY <1>2, <2>1 DEF Op
<1>7. CASE Delete(p)
  <2>1. /\ Call(p, "delete", "remove", shown[p], FALSE) /\ UNCHANGED store
        /\ says'[p] = "working" /\ batch'[p] \in 0..MaxSaves
        /\ shown[p] \in 0..MaxProblems /\ Others(p)
    BY <1>0, <1>7 DEF Delete, Begin, Call, TypeOK, Others
  <2> QED BY <1>2, <2>1 DEF Op
<1>8. CASE Created(p)
  <2>1. /\ at[p] = "create" /\ says[p] = "working" /\ UNCHANGED <<store, batch>>
        /\ shown' = [shown EXCEPT ![p] = h[p].id] /\ h[p].id \in 0..MaxProblems
        /\ batch'[p] \in 0..MaxSaves
    BY <1>0, <1>1, <1>8, StrayApart DEF Created, Answered, TypeOK, Working
  <2>2. CASE form[p] = "empty"
    <3>1. Stop(p, "done", "published")
      BY <1>8, <2>2 DEF Created
    <3>2. Others(p)
      BY <1>0, <2>1, <3>1 DEF Stop, Others, TypeOK
    <3> QED BY <1>3, <2>1, <3>1, <3>2
  <2>3. CASE form[p] # "empty"
    <3>1. Call(p, "upload", "upload", h[p].id, FALSE) /\ UNCHANGED says
      BY <1>8, <2>3 DEF Created
    <3>2. Others(p)
      BY <1>0, <2>1, <3>1 DEF Call, Others, TypeOK
    <3> QED BY <1>2, <2>1, <3>1, <3>2 DEF Op
  <2> QED BY <2>2, <2>3
<1>9. CASE Updated(p) \/ Cleared(p) \/ Uploaded(p) \/ SaveFailed(p)
  <2>1. /\ at[p] \in {"update", "clear", "upload"} /\ UNCHANGED <<store, batch, shown>>
        /\ shown[p] \in 0..MaxProblems /\ batch'[p] \in 0..MaxSaves
        /\ says[p] = "working"
    BY <1>0, <1>1, <1>9
    DEF Updated, Cleared, Uploaded, SaveFailed, Answered, TypeOK, Working
  <2>2. CASE \E doing \in {"clear", "upload", "fallback"},
                op \in {"clear", "upload", "update"} :
               Call(p, doing, op, shown[p], FALSE) /\ UNCHANGED says
    <3>1. PICK doing \in {"clear", "upload", "fallback"},
               op \in {"clear", "upload", "update"} :
                 Call(p, doing, op, shown[p], FALSE) /\ UNCHANGED says
      BY <2>2
    <3>2. Others(p)
      BY <1>0, <2>1, <3>1 DEF Call, Others, TypeOK
    <3> QED BY <1>2, <2>1, <3>1, <3>2 DEF Op
  <2>3. CASE \E m \in {"published", "saved"} : Stop(p, "done", m)
    <3>1. PICK m \in {"published", "saved"} : Stop(p, "done", m)
      BY <2>3
    <3>2. Others(p)
      BY <1>0, <2>1, <3>1 DEF Stop, Others, TypeOK
    <3> QED BY <1>3, <2>1, <3>1, <3>2
  <2> QED BY <1>9, <2>2, <2>3, Zenon DEF Updated, Cleared, Uploaded, SaveFailed
<1>10. CASE PublishFailed(p)
  <2>1. /\ at[p] \in {"create", "upload"} /\ UNCHANGED <<store, batch, shown>>
        /\ shown[p] \in 0..MaxProblems /\ batch'[p] \in 0..MaxSaves
        /\ says[p] = "working"
    BY <1>0, <1>1, <1>10 DEF PublishFailed, Answered, TypeOK, Working
  <2>2. CASE Stop(p, "form", "metadata")
    <3>1. Others(p)
      BY <1>0, <2>1, <2>2 DEF Stop, Others, TypeOK
    <3> QED BY <1>3, <2>1, <2>2, <3>1
  <2>3. CASE Call(p, "rollback", "remove", shown[p], FALSE) /\ UNCHANGED says
    <3>1. Others(p)
      BY <1>0, <2>1, <2>3 DEF Call, Others, TypeOK
    <3> QED BY <1>2, <2>1, <2>3, <3>1 DEF Op
  <2> QED BY <1>10, <2>2, <2>3, Zenon DEF PublishFailed
<1>11. CASE Compensated(p)
  <2>1. /\ UNCHANGED <<store, shown>> /\ at[p] \in Working \ {"create"}
        /\ shown[p] \in Problem
    BY <1>11 DEF Compensated, Answered, ServedInv, ShownInv, Working
  <2>2. PICK w \in {"form", "closed"},
             m \in {"rolledback", "orphan", "draft", "critical", "nothing",
                    "undeleted"} :
               /\ Stop(p, w, m)
               /\ m = "rolledback" => at[p] = "rollback" /\ h[p].step = "ok"
    BY <1>11 DEF Compensated, Answered
  <2>3. m = "rolledback" => row[shown[p]] = "gone"
    BY <2>2, StrayApart DEF GoneInv, ServedInv, ShownInv
  <2>4. Others(p)
    BY <1>0, <2>1, <2>2 DEF Stop, Others, TypeOK
  <2> QED BY <1>3, <2>1, <2>2, <2>3, <2>4
<1>12. CASE Unanswered(p)
  <2>1. /\ Abandon(p, [Idle EXCEPT !.step = "failed"])
        /\ UNCHANGED <<store, page>>
    BY <1>12 DEF Unanswered
  <2>2. Strays(p, [Idle EXCEPT !.step = "failed"].step)
    BY <1>0, <2>1, FailedTyped, AbandonStrays, Zenon
  <2>3. /\ at'[p] = at[p] /\ says'[p] = says[p] /\ shown'[p] = shown[p]
        /\ Others(p)
    BY <2>1 DEF page, Others
  <2>4. says[p] = "rolledback" => shown[p] \in Problem /\ row[shown[p]] = "gone"
    BY DEF GoneInv
  <2> QED BY <1>1, <2>1, <2>2, <2>3, <2>4, PageGone DEF Strays, Others
<1>13. CASE Leave(p)
  <2>1. /\ UNCHANGED store /\ at'[p] = "closed" /\ says'[p] = "nothing"
        /\ Others(p)
    BY <1>0, <1>13 DEF Leave, Others, TypeOK
  <2>2. CASE at[p] \in Working
    <3>1. Abandon(p, Idle)
      BY <1>13, <2>2 DEF Leave
    <3>2. Strays(p, Idle.step)
      BY <1>0, <3>1, IdleTyped, AbandonStrays, Zenon
    <3> QED BY <2>1, <3>2, PageGone DEF Strays, Others, Working
  <2>3. CASE at[p] \notin Working
    <3>1. UNCHANGED h
      BY <1>13, <2>3 DEF Leave
    <3> QED BY <2>1, <3>1, PageGone DEF Others, Working
  <2> QED BY <2>2, <2>3
<1> QED BY <1>4, <1>5, <1>6, <1>7, <1>8, <1>9, <1>10, <1>11, <1>12, <1>13 DEF Use

LEMMA GoneStart == Init => GoneInv
BY IdleTyped DEF Init, GoneInv, Working

LEMMA GoneStep ==
    ASSUME ServedInv, GoneInv, [Next]_vars
    PROVE  GoneInv'
<1>1. CASE UNCHANGED vars
  BY <1>1 DEF vars, store, page, GoneInv, Exists
<1>2. CASE StrayEnds
  <2>1. h \in [Handler -> Work] /\ h' = [h EXCEPT ![Stray] = Idle]
    BY <1>2 DEF ServedInv, TypeOK, Work, Op, StrayEnds
  <2>2. UNCHANGED <<store, page>>
    BY <1>2 DEF StrayEnds
  <2> QED BY <2>1, <2>2, IdleTyped, StrayApart DEF GoneInv, store, page, Exists
<1> QED BY <1>1, <1>2, ServeGone, UseGone DEF Next

\* A publication that was "safely rolled back" is gone with its test cases, and
\* no upload that is still at work brings them back: RolledBackIsGone
\* (AddProblem.jsx:182).
THEOREM RollbackHolds == Spec => []RolledBackIsGone
<1>1. GoneInv => RolledBackIsGone
  BY DEF GoneInv, RolledBackIsGone, Exists
<1> QED BY <1>1, GoneStart, GoneStep, ServedStart, ServedStep, PTL DEF Spec

-----------------------------------------------------------------------------
(* What the page says of a save is so. *)

\* A handler that has read the rows it clears and not yet deleted their files.
Wiping(x) == h[x].op \in {"clear", "remove"} /\ h[x].step = "wipe"

\* The call of a page is the one its stage of the work makes.
CallFits(p) ==
    /\ at[p] \in {"create", "update", "clear", "upload"} => h[p].op \in {at[p], "none"}
    /\ at[p] = "fallback" => h[p].op \in {"update", "none"}
    /\ at[p] \in {"rollback", "delete"} => h[p].op \in {"remove", "none"}
    /\ at[p] \notin Working => h[p].op = "none"
    /\ at[p] # "create" /\ h[p].op # "none" => h[p].id = shown[p]
    /\ at[p] \in {"create", "update"} /\ h[p].op # "none" => h[p].public = public[p]
    /\ at[p] = "fallback" /\ h[p].op # "none" => h[p].public = FALSE
    /\ at[p] = "upload" => form[p] # "empty"
    /\ says[p] \in {"published", "saved"} => at[p] = "done"
    /\ says[p] = "draft" => at[p] = "form"
CallsInv == \A p \in Page : CallFits(p)

\* A batch is of one problem; no deletion of test cases that is under way has
\* read a batch of another problem, or one that is still to be uploaded.
ApartInv ==
    /\ \A i, j \in Problem : i # j => cases[i] \cap cases[j] = {}
    /\ \A x \in Handler : Wiping(x) =>
         /\ h[x].saw \subseteq 1..saves
         /\ \A i \in Problem : i # h[x].id => h[x].saw \cap cases[i] = {}
         /\ \A y \in Handler : Going(y) => h[y].batch \notin h[x].saw
         /\ \A p \in Page : at[p] \in Soon => batch[p] \notin h[x].saw
    /\ \A x \in Handler : Loaded(x) => h[x].batch \in stored

\* What a page that works may count on, as far as its save has come ...
Known(p) ==
    LET i == h[p].id
        c == h[p].step
    IN  /\ at[p] = "create" /\ c = "ok" =>
             row[i] = Visibility(public[p]) /\ cases[i] = {}
        /\ at[p] \in {"update", "fallback"} /\ c = "write" => Exists(i)
        /\ at[p] = "update" /\ c = "ok" => row[i] = Visibility(public[p])
        /\ at[p] \in {"clear", "upload"} /\ c \notin {"idle", "failed"} =>
             row[i] = Visibility(public[p])
        /\ at[p] = "clear" /\ c = "ok" => cases[i] = {}
        /\ at[p] = "upload" /\ c \notin {"idle", "ok", "failed"} =>
             cases[i] = {}
        /\ at[p] = "upload" /\ c = "ok" =>
             cases[i] = {batch[p]} /\ cases[i] \subseteq stored
        /\ at[p] = "fallback" /\ c = "ok" => row[i] = "draft"

\* ... and what it may say in the end.
Said(p) ==
    LET i == shown[p] IN
      /\ says[p] \in {"published", "saved", "draft"} => i \in Problem
      /\ says[p] \in {"published", "saved"} =>
           /\ row[i] = Visibility(public[p])
           /\ cases[i] = IF form[p] = "empty" THEN {} ELSE {batch[p]}
           /\ cases[i] \subseteq stored
      /\ says[p] = "draft" => row[i] = "draft"

KnownInv == \A p \in Page : ~touched[p] => Known(p) /\ Said(p)

KeptInv == ServedInv /\ GoneInv /\ CallsInv /\ ApartInv /\ KnownInv

\* Handler x is at step s, and nothing else of it is new.
Moves(x, s) ==
    /\ h'[x].op = h[x].op /\ h'[x].id = h[x].id /\ h'[x].batch = h[x].batch
    /\ h'[x].public = h[x].public /\ h'[x].saw = h[x].saw /\ h'[x].step = s
    /\ \A y \in Handler : y # x => h'[y] = h[y]

\* The other pages about the problem are touched.
Touches(x) ==
    /\ \A p \in Page : touched[p] => touched'[p]
    /\ \A p \in Page : p # x /\ h[x].id \in {shown[p], h[p].id} => touched'[p]

LEMMA StepOnly ==
    ASSUME NEW c \in Work, NEW s \in Step
    PROVE  LET d == [c EXCEPT !.step = s] IN
           /\ d.op = c.op /\ d.id = c.id /\ d.batch = c.batch
           /\ d.public = c.public /\ d.saw = c.saw /\ d.step = s
BY DEF Work

LEMMA HandlerTypes ==
    ASSUME TypeOK
    PROVE  h \in [Handler -> Work] /\ touched \in [Page -> BOOLEAN]
BY DEF TypeOK, Work, Op

LEMMA AdvanceMoves ==
    ASSUME TypeOK, NEW x \in Handler, NEW s \in Step, Advance(x, s)
    PROVE  Moves(x, s) /\ Touches(x)
<1>1. h \in [Handler -> Work] /\ touched \in [Page -> BOOLEAN]
  BY HandlerTypes
<1>2. h' = [h EXCEPT ![x] = [h[x] EXCEPT !.step = s]]
  BY Zenon DEF Advance
<1>3. h'[x] = [h[x] EXCEPT !.step = s] /\ \A y \in Handler : y # x => h'[y] = h[y]
  BY <1>1, <1>2
<1>4. Moves(x, s)
  BY <1>1, <1>3, StepOnly DEF Moves
<1>5. \A p \in Page : touched'[p] =
        (touched[p] \/ (p # x /\ h[x].id \in {shown[p], h[p].id}))
  BY Zenon DEF Advance
<1> QED BY <1>4, <1>5, Zenon DEF Touches

\* Who the handler is at work for does not change, except that Create learns
\* the id of its problem.
LEMMA ServeMoves ==
    ASSUME ServedInv, NEW x \in Handler, Serve(x)
    PROVE  /\ UNCHANGED page /\ h[x].op # "none" /\ excused' = excused
           /\ h'[x].op = h[x].op /\ h'[x].batch = h[x].batch
           /\ h'[x].public = h[x].public
           /\ h[x].op # "create" => h'[x].id = h[x].id
           /\ \A y \in Handler : y # x => h'[y] = h[y]
           /\ \A p \in Page : touched[p] => touched'[p]
           /\ h'[x].step = "wipe" => Read(x) /\ h'[x].saw = cases[h[x].id]
<1>1. TypeOK /\ h \in [Handler -> Work]
  BY HandlerTypes DEF ServedInv
<1>2. CASE Create(x)
  <2>1. /\ h[x].op = "create" /\ UNCHANGED <<page, touched, excused>>
    BY <1>2 DEF Create, At
  <2>2. PICK i \in Problem :
          \/ h' = [h EXCEPT ![x] = [h[x] EXCEPT !.step = "failed"]]
          \/ h' = [h EXCEPT ![x] = [h[x] EXCEPT !.step = "ok", !.id = i]]
    BY <1>2, Zenon DEF Create
  <2>3. LET d == [h[x] EXCEPT !.step = "ok", !.id = i] IN
          /\ d.op = h[x].op /\ d.batch = h[x].batch /\ d.public = h[x].public
          /\ d.step = "ok"
    BY <1>1 DEF Work
  <2>4. LET d == [h[x] EXCEPT !.step = "failed"] IN
          /\ d.op = h[x].op /\ d.batch = h[x].batch /\ d.public = h[x].public
          /\ d.step = "failed"
    BY <1>1 DEF Work
  <2>5. CASE h' = [h EXCEPT ![x] = [h[x] EXCEPT !.step = "failed"]]
    BY <1>1, <2>1, <2>4, <2>5
  <2>6. CASE h' = [h EXCEPT ![x] = [h[x] EXCEPT !.step = "ok", !.id = i]]
    BY <1>1, <2>1, <2>3, <2>6
  <2> QED BY <2>2, <2>5, <2>6
<1>3. ASSUME NEW s \in Step, Advance(x, s), s # "wipe", UNCHANGED <<page, excused>>,
             h[x].op # "none"
      PROVE  /\ UNCHANGED page /\ h[x].op # "none" /\ excused' = excused
             /\ h'[x].op = h[x].op /\ h'[x].batch = h[x].batch
             /\ h'[x].public = h[x].public
             /\ h[x].op # "create" => h'[x].id = h[x].id
             /\ \A y \in Handler : y # x => h'[y] = h[y]
             /\ \A p \in Page : touched[p] => touched'[p]
             /\ h'[x].step = "wipe" => Read(x) /\ h'[x].saw = cases[h[x].id]
  BY <1>1, <1>3, AdvanceMoves DEF Moves, Touches
<1>4. CASE Check(x)
  <2>1. PICK s \in {"failed", "write", "put", "read"} : Advance(x, s)
    BY <1>4 DEF Check
  <2> QED BY <1>3, <1>4, <2>1 DEF Check, At, Step
<1>5. CASE Write(x) \/ Put(x) \/ Insert(x) \/ Wipe(x) \/ Erase(x) \/ Drop(x)
  <2>1. PICK s \in {"ok", "failed", "insert", "erase", "drop"} : Advance(x, s)
    BY <1>5, Zenon DEF Write, Put, Insert, Wipe, Erase, Drop
  <2>2. UNCHANGED <<page, excused>> /\ h[x].op # "none"
    BY <1>5, Zenon DEF Write, Put, Insert, Wipe, Erase, Drop, At
  <2> QED BY <1>3, <2>1, <2>2 DEF Step
<1>6. CASE Read(x)
  <2>1. UNCHANGED <<page, excused>> /\ h[x].op # "none"
    BY <1>6, Zenon DEF Read, At
  <2>2. CASE ~Exists(h[x].id)
    BY <1>3, <1>6, <2>1, <2>2 DEF Read, Step
  <2>3. CASE Exists(h[x].id)
    <3>1. h' = [h EXCEPT ![x] = [h[x] EXCEPT !.saw = cases[h[x].id], !.step = "wipe"]]
          /\ UNCHANGED touched
      BY <1>6, <2>3, Zenon DEF Read
    <3>2. LET d == [h[x] EXCEPT !.saw = cases[h[x].id], !.step = "wipe"] IN
            /\ d.op = h[x].op /\ d.batch = h[x].batch /\ d.public = h[x].public
            /\ d.id = h[x].id /\ d.saw = cases[h[x].id]
      BY <1>1 DEF Work
    <3> QED BY <1>1, <1>6, <2>1, <3>1, <3>2
  <2> QED BY <2>2, <2>3
<1>7. CASE Refuse(x)
  <2>1. /\ h' = [h EXCEPT ![x] = [h[x] EXCEPT !.step = "failed"]]
        /\ UNCHANGED <<page, touched, excused>> /\ h[x].op # "none"
    BY <1>1, <1>7 DEF Refuse, ServedInv, ShownInv
  <2>2. LET d == [h[x] EXCEPT !.step = "failed"] IN
          /\ d.op = h[x].op /\ d.batch = h[x].batch /\ d.public = h[x].public
          /\ d.id = h[x].id /\ d.step = "failed"
    BY <1>1 DEF Work
  <2> QED BY <1>1, <2>1, <2>2
<1> QED BY <1>2, <1>4, <1>5, <1>6, <1>7 DEF Serve

LEMMA ServeCalls ==
    ASSUME ServedInv, CallsInv, NEW x \in Handler, Serve(x)
    PROVE  CallsInv'
<1>1. \A p \in Page :
        /\ at'[p] = at[p] /\ shown'[p] = shown[p] /\ public'[p] = public[p]
        /\ form'[p] = form[p] /\ says'[p] = says[p]
  BY ServeMoves DEF page
<1>2. \A p \in Page :
        /\ h'[p].op = h[p].op /\ h'[p].public = h[p].public
        /\ h[p].op # "create" => h'[p].id = h[p].id
  BY ServeMoves, StrayApart
<1>3. \A p \in Page : at[p] # "create" => h[p].op # "create"
  BY DEF CallsInv, CallFits, Working
<1> QED BY <1>1, <1>2, <1>3 DEF CallsInv, CallFits

LEMMA ServeApart ==
    ASSUME ServedInv, ApartInv, NEW x \in Handler, Serve(x)
    PROVE  ApartInv'
<1>0. /\ TypeOK /\ cases \in [Problem -> SUBSET Batch]
      /\ h[x].op \notin {"none", "create"} => h[x].id \in Problem
      /\ \A y \in Handler : y # x => h'[y] = h[y]
      /\ h'[x].op = h[x].op /\ h'[x].batch = h[x].batch
      /\ h[x].op # "create" => h'[x].id = h[x].id
      /\ h'[x].step = "wipe" => Read(x) /\ h'[x].saw = cases[h[x].id]
      /\ saves' = saves /\ \A p \in Page : at'[p] = at[p] /\ batch'[p] = batch[p]
  BY ServeMoves DEF ServedInv, ShownInv, TypeOK, page
\* Uploads that are still to come were to come before.
<1>1. \A y \in Handler : Going(y)' => Going(y) /\ h'[y].batch = h[y].batch
  <2>1. h'[x].step \in {"start", "put", "insert"} /\ h[x].op = "upload" =>
          h[x].step \in {"start", "put", "insert"}
    <3>1. CASE Check(x) \/ Put(x) \/ Insert(x)
      BY <3>1, Zenon DEF Check, Put, Insert, At
    <3>2. CASE Create(x) \/ Write(x) \/ Read(x) \/ Wipe(x) \/ Erase(x) \/ Drop(x)
      BY <3>2, Zenon DEF Create, Write, Read, Wipe, Erase, Drop, At
    <3>3. CASE Refuse(x)
      <4>1. h' = [h EXCEPT ![x] = [h[x] EXCEPT !.step = "failed"]] /\ h \in [Handler -> Work]
        BY <3>3, HandlerTypes, <1>0 DEF Refuse
      <4> QED BY <4>1 DEF Work
    <3> QED BY <3>1, <3>2, <3>3 DEF Serve
  <2> QED BY <1>0, <2>1 DEF Going
\* Rows come in only with a batch whose upload was under way.
<1>2. \/ \A i \in Problem : cases'[i] \subseteq cases[i]
      \/ /\ Going(x) /\ ~Going(x)' /\ h[x].op = "upload"
         /\ \A i \in Problem : cases'[i] \subseteq
               IF i = h[x].id THEN cases[i] \cup {h[x].batch} ELSE cases[i]
  <2>1. CASE Insert(x)
    <3>1. /\ h[x].op = "upload" /\ h[x].step = "insert"
          /\ \/ cases' = [cases EXCEPT ![h[x].id] = @ \cup {h[x].batch}]
             \/ UNCHANGED cases
      BY <2>1, Zenon DEF Insert, At
    <3>2. PICK s \in {"ok", "failed"} : Advance(x, s)
      BY <2>1, Zenon DEF Insert
    <3>3. h'[x].step = s
      BY <1>0, <3>2, AdvanceMoves DEF Moves, Step
    <3> QED BY <1>0, <3>1, <3>3 DEF Going
  <2>2. CASE Erase(x) \/ Drop(x)
    BY <1>0, <2>2 DEF Erase, Drop
  <2>3. CASE \/ Create(x) \/ Check(x) \/ Write(x) \/ Read(x) \/ Wipe(x) \/ Put(x)
             \/ Refuse(x)
    <3>1. UNCHANGED cases
      BY <2>3, Zenon DEF Create, Check, Write, Read, Wipe, Put, Refuse, store
    <3> QED BY <3>1
  <2> QED BY <2>1, <2>2, <2>3 DEF Serve
<1>3. \A i \in Problem : Going(x) => h[x].batch \notin cases[i]
  BY DEF ServedInv, FileInv
<1>4. \A i, j \in Problem : i # j => cases'[i] \cap cases'[j] = {}
  <2> SUFFICES ASSUME NEW i \in Problem, NEW j \in Problem, i # j
               PROVE  cases'[i] \cap cases'[j] = {}
    OBVIOUS
  <2>1. cases[i] \cap cases[j] = {}
    BY DEF ApartInv
  <2> QED BY <1>2, <1>3, <2>1
\* A wipe that is under way was so before, or has just read its rows.
<1>5. ASSUME NEW w \in Handler, Wiping(w)'
      PROVE  /\ h'[w].saw \subseteq 1..saves'
             /\ \A i \in Problem : i # h'[w].id => h'[w].saw \cap cases'[i] = {}
             /\ \A y \in Handler : Going(y)' => h'[y].batch \notin h'[w].saw
             /\ \A p \in Page : at'[p] \in Soon => batch'[p] \notin h'[w].saw
  <2>1. CASE w = x
    <3>1. /\ Read(x) /\ h'[x].saw = cases[h[x].id] /\ h'[x].id = h[x].id
          /\ h[x].id \in Problem
      BY <1>0, <1>5, <2>1 DEF Wiping
    <3>2. UNCHANGED cases
      BY <3>1 DEF Read, store
    <3>3. cases[h[x].id] \subseteq 1..saves
      BY <3>1 DEF ServedInv, FileInv
    <3>4. \A i \in Problem : i # h[x].id => cases[h[x].id] \cap cases[i] = {}
      BY <3>1 DEF ApartInv
    <3>5. \A y \in Handler : Going(y) => h[y].batch \notin cases[h[x].id]
      BY <3>1 DEF ServedInv, FileInv
    <3>6. \A p \in Page : at[p] \in Soon => batch[p] \notin cases[h[x].id]
      BY <3>1 DEF ServedInv, FileInv
    <3> QED BY <1>0, <1>1, <2>1, <3>1, <3>2, <3>3, <3>4, <3>5, <3>6
  <2>2. CASE w # x
    <3>1. Wiping(w) /\ h'[w] = h[w]
      BY <1>0, <1>5, <2>2 DEF Wiping
    <3>2. /\ h[w].saw \subseteq 1..saves
          /\ \A i \in Problem : i # h[w].id => h[w].saw \cap cases[i] = {}
          /\ \A y \in Handler : Going(y) => h[y].batch \notin h[w].saw
          /\ \A p \in Page : at[p] \in Soon => batch[p] \notin h[w].saw
      BY <3>1 DEF ApartInv
    <3>3. \A i \in Problem : i # h[w].id => h[w].saw \cap cases'[i] = {}
      <4> SUFFICES ASSUME NEW i \in Problem, i # h[w].id
                   PROVE  h[w].saw \cap cases'[i] = {}
        OBVIOUS
      <4> QED BY <1>2, <3>2
    <3> QED BY <1>0, <1>1, <3>1, <3>2, <3>3
  <2> QED BY <2>1, <2>2
<1>6. \A y \in Handler : Loaded(y)' => h'[y].batch \in stored'
  <2> SUFFICES ASSUME NEW y \in Handler, Loaded(y)' PROVE h'[y].batch \in stored'
    OBVIOUS
  <2>1. CASE y # x
    <3>1. Loaded(y) /\ Going(y) /\ h'[y] = h[y] /\ h[y].batch \in stored
      BY <1>0, <2>1 DEF Loaded, Going, ApartInv
    <3>2. stored \subseteq stored' \/ h[y].batch \in stored'
      <4>1. CASE Wipe(x)
        <5>1. Wiping(x) /\ stored \ h[x].saw \subseteq stored'
          BY <4>1 DEF Wipe, Wiping, At
        <5> QED BY <3>1, <5>1 DEF ApartInv
      <4>2. CASE Insert(x)
        <5>1. h[x].op = "upload" /\ stored \ {h[x].batch} \subseteq stored'
          BY <4>2, Zenon DEF Insert, At
        <5>2. h[x].batch # h[y].batch
          BY <2>1, <3>1, <5>1, BatchesApart DEF ServedInv, Going
        <5> QED BY <3>1, <5>1, <5>2
      <4>3. CASE Put(x)
        BY <4>3 DEF Put
      <4>4. CASE Create(x) \/ Check(x) \/ Write(x) \/ Read(x) \/ Erase(x) \/ Drop(x)
                 \/ Refuse(x)
        <5>1. UNCHANGED stored
          BY <4>4, Zenon DEF Create, Check, Write, Read, Erase, Drop, Refuse, store
        <5> QED BY <5>1
      <4> QED BY <4>1, <4>2, <4>3, <4>4 DEF Serve
    <3> QED BY <3>1, <3>2
  <2>2. CASE y = x
    <3>1. h[x].op = "upload" /\ h'[x].step = "insert" /\ h'[x].batch = h[x].batch
      BY <1>0, <2>2 DEF Loaded
    <3>2. CASE Put(x)
      <4>1. PICK s \in {"insert", "failed"} :
              Advance(x, s) /\ (s = "insert" => h[x].batch \in stored')
        BY <3>2 DEF Put
      <4>2. h'[x].step = s
        BY <1>0, <4>1, AdvanceMoves DEF Moves, Step
      <4> QED BY <2>2, <3>1, <4>1, <4>2
    <3>3. CASE Check(x) \/ Insert(x)
      <4>1. PICK s \in {"failed", "write", "put", "read", "ok"} : Advance(x, s)
        BY <3>3, Zenon DEF Check, Insert
      <4>2. h'[x].step = s
        BY <1>0, <4>1, AdvanceMoves DEF Moves, Step
      <4> QED BY <3>1, <4>2
    <3>4. CASE Create(x) \/ Write(x) \/ Read(x) \/ Wipe(x) \/ Erase(x) \/ Drop(x)
      BY <3>1, <3>4, Zenon DEF Create, Write, Read, Wipe, Erase, Drop, At
    <3>5. CASE Refuse(x)
      <4>1. h' = [h EXCEPT ![x] = [h[x] EXCEPT !.step = "failed"]] /\ h \in [Handler -> Work]
        BY <3>5, HandlerTypes, <1>0 DEF Refuse
      <4> QED BY <3>1, <4>1 DEF Work
    <3> QED BY <3>2, <3>3, <3>4, <3>5 DEF Serve
  <2> QED BY <2>1, <2>2
<1> QED BY <1>4, <1>5, <1>6 DEF ApartInv

\* Unless the page is touched, another handler does not change its problem.
LEMMA Bystander ==
    ASSUME KeptInv, NEW x \in Handler, Serve(x), NEW p \in Page, p # x,
           ~touched'[p], NEW i \in Problem, i \in {shown[p], h[p].id}, Exists(i)
    PROVE  /\ row'[i] = row[i] /\ cases'[i] = cases[i]
           /\ cases[i] \subseteq stored => cases'[i] \subseteq stored'
<1>0. /\ TypeOK /\ row \in [Problem -> {"none", "draft", "public", "gone"}]
      /\ cases \in [Problem -> SUBSET Batch]
      /\ h[x].op \notin {"none", "create"} => h[x].id \in Problem
  BY DEF KeptInv, ServedInv, ShownInv, TypeOK
<1>1. CASE Create(x)
  <2>1. UNCHANGED <<cases, stored>>
    BY <1>1 DEF Create
  <2>2. PICK j \in Problem :
          /\ row[j] = "none"
          /\ row' = row \/ row' = [row EXCEPT ![j] = Visibility(h[x].public)]
    BY <1>1, Zenon DEF Create
  <2>3. j # i
    BY <2>2 DEF Exists
  <2> QED BY <1>0, <2>1, <2>2, <2>3
<1>2. CASE Read(x) \/ Refuse(x) \/ Check(x)
  <2>1. UNCHANGED <<row, cases, stored>>
    BY <1>2, Zenon DEF Read, Refuse, Check, store
  <2> QED BY <2>1
<1>3. ASSUME NEW s \in Step, Advance(x, s) PROVE i # h[x].id
  <2>1. h[x].id \in {shown[p], h[p].id} => touched'[p]
    BY <1>0, <1>3, AdvanceMoves DEF Touches
  <2> QED BY <2>1
<1>4. CASE Write(x)
  <2>1. Advance(x, "ok") /\ UNCHANGED <<cases, stored>>
    BY <1>4 DEF Write
  <2>2. i # h[x].id
    BY <1>3, <2>1 DEF Step
  <2> QED BY <1>0, <1>4, <2>1, <2>2 DEF Write
<1>5. CASE Erase(x) \/ Drop(x)
  <2>1. PICK s \in {"ok", "drop"} : Advance(x, s)
    BY <1>5 DEF Erase, Drop
  <2>2. i # h[x].id
    BY <1>3, <2>1 DEF Step
  <2> QED BY <1>0, <1>5, <2>2 DEF Erase, Drop
<1>6. CASE Wipe(x)
  <2>1. Advance(x, "erase") /\ UNCHANGED <<row, cases>> /\ Wiping(x)
        /\ stored \ h[x].saw \subseteq stored'
    BY <1>6 DEF Wipe, Wiping, At
  <2>2. i # h[x].id
    BY <1>3, <2>1 DEF Step
  <2>3. h[x].saw \cap cases[i] = {}
    BY <2>1, <2>2 DEF KeptInv, ApartInv
  <2> QED BY <2>1, <2>3
<1>7. CASE Put(x)
  <2>1. UNCHANGED <<row, cases>> /\ stored \subseteq stored'
    BY <1>7 DEF Put
  <2> QED BY <2>1
<1>8. CASE Insert(x)
  <2>1. PICK s \in {"ok", "failed"} : Advance(x, s)
    BY <1>8, Zenon DEF Insert
  <2>2. i # h[x].id
    BY <1>3, <2>1 DEF Step
  <2>3. /\ h[x].op = "upload" /\ h[x].step = "insert" /\ UNCHANGED row
        /\ \/ cases' = [cases EXCEPT ![h[x].id] = @ \cup {h[x].batch}]
           \/ UNCHANGED cases
        /\ stored \ {h[x].batch} \subseteq stored'
    BY <1>8, Zenon DEF Insert, At
  <2>4. h[x].batch \notin cases[i]
    BY <2>3 DEF KeptInv, ServedInv, FileInv, Going
  <2> QED BY <1>0, <2>2, <2>3, <2>4
<1> QED BY <1>1, <1>2, <1>4, <1>5, <1>6, <1>7, <1>8 DEF Serve

\* What a page counts on is about a problem that exists.
LEMMA KnownExists ==
    ASSUME KeptInv, NEW p \in Page
    PROVE  /\ h[p].step \notin {"idle", "failed"} => h[p].op # "none"
           /\ h[p].op \notin {"none", "create"} => h[p].id \in Problem
           /\ h[p].op = "create" /\ h[p].step = "ok" => h[p].id \in Problem
           /\ h[p].op # "none" /\ at[p] # "create" => h[p].op # "create"
BY StrayApart DEF KeptInv, ServedInv, ShownInv, CallsInv, CallFits, Working

LEMMA OthersServe ==
    ASSUME KeptInv, NEW x \in Handler, Serve(x), NEW p \in Page, p # x, ~touched'[p]
    PROVE  Known(p)' /\ Said(p)'
<1>1. /\ ~touched[p] /\ h'[p] = h[p] /\ at'[p] = at[p] /\ shown'[p] = shown[p]
      /\ form'[p] = form[p] /\ public'[p] = public[p] /\ batch'[p] = batch[p]
      /\ says'[p] = says[p]
  BY ServeMoves, StrayApart DEF KeptInv, page
<1>2. Known(p) /\ Said(p)
  BY <1>1 DEF KeptInv, KnownInv
<1> DEFINE Still(i) == /\ row'[i] = row[i] /\ cases'[i] = cases[i]
                       /\ cases[i] \subseteq stored => cases'[i] \subseteq stored'
<1>3. Known(p)'
  <2> DEFINE i == h[p].id
             c == h[p].step
  <2>1. i \in Problem /\ Exists(i) => Still(i)
    BY <1>1, Bystander
  <2>2. c \notin {"idle", "failed"} /\ (at[p] = "create" => c = "ok") => i \in Problem
    <3>1. at[p] = "create" => h[p].op \in {"create", "none"}
      BY DEF KeptInv, CallsInv, CallFits
    <3> QED BY <3>1, KnownExists
  <2>3. CASE at[p] = "create" /\ c = "ok"
    <3>1. row[i] = Visibility(public[p]) /\ cases[i] = {}
      BY <1>2, <2>3 DEF Known
    <3>2. Still(i)
      BY <2>1, <2>2, <2>3, <3>1 DEF Exists, Visibility
    <3> QED BY <1>1, <2>3, <3>1, <3>2 DEF Known
  <2>4. CASE at[p] \in {"update", "fallback"}
    <3>1. /\ c = "write" => Exists(i)
          /\ at[p] = "update" /\ c = "ok" => row[i] = Visibility(public[p])
          /\ at[p] = "fallback" /\ c = "ok" => row[i] = "draft"
      BY <1>2, <2>4 DEF Known
    <3>2. c = "write" \/ c = "ok" => Still(i)
      BY <2>1, <2>2, <2>4, <3>1 DEF Exists, Visibility
    <3> QED BY <1>1, <2>4, <3>1, <3>2 DEF Known, Exists
  <2>5. CASE at[p] \in {"clear", "upload"} /\ c \notin {"idle", "failed"}
    <3>1. row[i] = Visibility(public[p])
      BY <1>2, <2>5 DEF Known
    <3>2. Still(i)
      BY <2>1, <2>2, <2>5, <3>1 DEF Exists, Visibility
    <3>3. /\ at[p] = "clear" /\ c = "ok" => cases[i] = {}
          /\ at[p] = "upload" /\ c \notin {"idle", "ok", "failed"} => cases[i] = {}
          /\ at[p] = "upload" /\ c = "ok" =>
               cases[i] = {batch[p]} /\ cases[i] \subseteq stored
      BY <1>2 DEF Known
    <3> QED BY <1>1, <2>5, <3>1, <3>2, <3>3 DEF Known
  <2>6. CASE \/ at[p] = "create" /\ c # "ok"
             \/ at[p] \in {"clear", "upload"} /\ c \in {"idle", "failed"}
             \/ at[p] \notin {"create", "update", "fallback", "clear", "upload"}
    BY <1>1, <2>6 DEF Known
  <2> QED BY <2>3, <2>4, <2>5, <2>6
<1>4. Said(p)'
  <2> DEFINE i == shown[p]
  <2>1. i \in Problem /\ Exists(i) => Still(i)
    BY <1>1, Bystander
  <2>2. CASE says[p] \in {"published", "saved"}
    <3>1. /\ i \in Problem /\ row[i] = Visibility(public[p])
          /\ cases[i] = IF form[p] = "empty" THEN {} ELSE {batch[p]}
          /\ cases[i] \subseteq stored
      BY <1>2, <2>2 DEF Said
    <3>2. Still(i)
      BY <2>1, <3>1 DEF Exists, Visibility
    <3> QED BY <1>1, <2>2, <3>1, <3>2 DEF Said
  <2>3. CASE says[p] = "draft"
    <3>1. i \in Problem /\ row[i] = "draft"
      BY <1>2, <2>3 DEF Said
    <3>2. Still(i)
      BY <2>1, <3>1 DEF Exists
    <3> QED BY <1>1, <2>3, <3>1, <3>2 DEF Said
  <2>4. CASE says[p] \notin {"published", "saved", "draft"}
    BY <1>1, <2>4 DEF Said
  <2> QED BY <2>2, <2>3, <2>4
<1> QED BY <1>3, <1>4

\* The handler of a page does what the page asked for.
LEMMA OwnServe ==
    ASSUME KeptInv, NEW p \in Page, Serve(p), ~touched'[p]
    PROVE  Known(p)' /\ Said(p)'
<1>1. /\ ~touched[p] /\ at'[p] = at[p] /\ shown'[p] = shown[p] /\ p \in Handler
      /\ form'[p] = form[p] /\ public'[p] = public[p] /\ batch'[p] = batch[p]
      /\ says'[p] = says[p] /\ h[p].op # "none"
      /\ h'[p].op = h[p].op /\ (h[p].op # "create" => h'[p].id = h[p].id)
  BY ServeMoves, StrayApart DEF KeptInv, page
<1>2. Known(p) /\ TypeOK /\ at[p] \in Working /\ ServedInv /\ GoneInv
  BY <1>1 DEF KeptInv, KnownInv, CallsInv, CallFits, ServedInv
<1>3. Said(p)'
  <2>1. says[p] \notin {"published", "saved", "draft"}
    BY <1>2 DEF KeptInv, CallsInv, CallFits, Working
  <2> QED BY <1>1, <2>1 DEF Said
<1> SUFFICES Known(p)'
  BY <1>3
<1>4. /\ at[p] \in {"create", "update", "clear", "upload"} => h[p].op = at[p]
      /\ at[p] = "fallback" => h[p].op = "update" /\ h[p].public = FALSE
      /\ at[p] \in {"rollback", "delete"} => h[p].op = "remove"
      /\ at[p] \in {"create", "update"} => h[p].public = public[p]
      /\ at[p] # "create" => h[p].id = shown[p]
      /\ h[p].op \notin {"none", "create"} => h[p].id \in Problem
  BY <1>1, <1>2, KnownExists DEF KeptInv, CallsInv, CallFits
<1>5. /\ h \in [Handler -> Work] /\ cases \in [Problem -> SUBSET Batch]
      /\ row \in [Problem -> {"none", "draft", "public", "gone"}]
      /\ \A i \in Problem : ~Exists(i) => cases[i] = {}
  BY <1>2, HandlerTypes DEF TypeOK, GoneInv
<1>6. ASSUME h'[p].step = "failed" PROVE Known(p)'
  BY <1>6 DEF Known
<1>7. CASE Create(p)
  <2>1. h[p].op = "create" /\ UNCHANGED cases
    BY <1>7 DEF Create, At
  <2>2. at[p] = "create"
    BY <1>2, <1>4, <2>1 DEF Working
  <2>3. PICK i \in Problem :
          /\ row[i] = "none"
          /\ \/ h' = [h EXCEPT ![p] = [h[p] EXCEPT !.step = "failed"]]
             \/ /\ h' = [h EXCEPT ![p] = [h[p] EXCEPT !.step = "ok", !.id = i]]
                /\ row' = [row EXCEPT ![i] = Visibility(h[p].public)]
    BY <1>7, Zenon DEF Create
  <2>4. CASE h' = [h EXCEPT ![p] = [h[p] EXCEPT !.step = "failed"]]
    <3>1. h'[p].step = "failed"
      BY <1>1, <1>5, <2>4 DEF Work
    <3> QED BY <1>6, <3>1
  <2>5. CASE /\ h' = [h EXCEPT ![p] = [h[p] EXCEPT !.step = "ok", !.id = i]]
             /\ row' = [row EXCEPT ![i] = Visibility(h[p].public)]
    <3>1. h'[p].step = "ok" /\ h'[p].id = i
      BY <1>1, <1>5, <2>5 DEF Work
    <3>2. row'[i] = Visibility(public'[p]) /\ cases'[i] = {}
      BY <1>1, <1>4, <1>5, <2>1, <2>2, <2>3, <2>5 DEF Exists
    <3> QED BY <1>1, <2>2, <3>1, <3>2 DEF Known
  <2> QED BY <2>3, <2>4, <2>5
<1>8. CASE Refuse(p)
  <2>1. h' = [h EXCEPT ![p] = [h[p] EXCEPT !.step = "failed"]]
    BY <1>8 DEF Refuse
  <2>2. h'[p].step = "failed"
    BY <1>1, <1>5, <2>1 DEF Work
  <2> QED BY <1>6, <2>2
\* The actions that Advance.
<1>9. ASSUME NEW s \in Step, Advance(p, s)
      PROVE  h'[p].step = s /\ h'[p].id = h[p].id
  BY <1>1, <1>2, <1>9, AdvanceMoves DEF Moves
<1>10. CASE Check(p)
  <2>1. PICK s \in {"failed", "write", "put", "read"} :
          /\ Advance(p, s)
          /\ s # "failed" => /\ Exists(h[p].id)
                             /\ h[p].op = "update" <=> s = "write"
    BY <1>10, Zenon DEF Check
  <2>2. h'[p].step = s /\ h'[p].id = h[p].id /\ UNCHANGED <<row, cases, stored>>
        /\ h[p].step = "start" /\ h[p].op # "create"
    BY <1>9, <1>10, <2>1 DEF Step, Check, At, store
  <2>3. CASE s = "failed"
    BY <1>6, <2>2, <2>3
  <2>4. CASE s # "failed"
    BY <1>1, <1>2, <1>4, <2>1, <2>2, <2>4 DEF Known, Exists
  <2> QED BY <2>3, <2>4
<1>11. CASE Write(p)
  <2>1. /\ Advance(p, "ok") /\ h[p].op = "update" /\ h[p].step = "write"
        /\ row' = [row EXCEPT ![h[p].id] =
                     IF Exists(h[p].id) THEN Visibility(h[p].public) ELSE @]
    BY <1>11, Zenon DEF Write, At
  <2>2. h'[p].step = "ok" /\ h'[p].id = h[p].id /\ at[p] \in {"update", "fallback"}
    BY <1>2, <1>4, <1>9, <2>1 DEF Step, Working
  <2>3. Exists(h[p].id)
    BY <1>2, <2>1, <2>2 DEF Known
  <2>4. row'[h[p].id] = Visibility(h[p].public)
    BY <1>4, <1>5, <2>1, <2>3
  <2> QED BY <1>1, <1>4, <2>2, <2>4 DEF Known, Visibility
<1>12. CASE Read(p)
  <2>1. UNCHANGED <<row, cases, stored>> /\ h[p].op \in {"clear", "remove"}
        /\ h[p].step = "read"
    BY <1>12 DEF Read, At, store
  <2>2. h'[p].step \in {"wipe", "failed"} /\ h'[p].id = h[p].id
    <3>1. CASE Exists(h[p].id)
      <4>1. h' = [h EXCEPT ![p] = [h[p] EXCEPT !.saw = cases[h[p].id], !.step = "wipe"]]
        BY <1>12, <3>1, Zenon DEF Read
      <4> QED BY <1>1, <1>5, <4>1 DEF Work
    <3>2. CASE ~Exists(h[p].id)
      BY <1>9, <1>12, <3>2 DEF Read, Step
    <3> QED BY <3>1, <3>2
  <2> QED BY <1>1, <1>2, <1>4, <2>1, <2>2 DEF Known, Working
<1>13. CASE Wipe(p)
  <2>1. UNCHANGED <<row, cases>> /\ h[p].op \in {"clear", "remove"}
        /\ h[p].step = "wipe" /\ Advance(p, "erase")
    BY <1>13 DEF Wipe, At
  <2>2. h'[p].step = "erase" /\ h'[p].id = h[p].id
    BY <1>9, <2>1 DEF Step
  <2> QED BY <1>1, <1>2, <1>4, <2>1, <2>2 DEF Known, Working
<1>14. CASE Erase(p)
  <2>1. UNCHANGED row /\ h[p].op \in {"clear", "remove"} /\ h[p].step = "erase"
        /\ cases' = [cases EXCEPT ![h[p].id] = {}]
    BY <1>14 DEF Erase, At
  <2>2. PICK s \in {"ok", "drop"} : Advance(p, s)
    BY <1>14 DEF Erase
  <2>3. h'[p].step = s /\ h'[p].id = h[p].id
    BY <1>9, <2>2 DEF Step
  <2>4. cases'[h[p].id] = {}
    BY <1>4, <1>5, <2>1
  <2> QED BY <1>1, <1>2, <1>4, <2>1, <2>3, <2>4 DEF Known, Working
<1>15. CASE Drop(p)
  <2>1. h[p].op = "remove"
    BY <1>15 DEF Drop, At
  <2>2. at[p] \in {"rollback", "delete"}
    BY <1>2, <1>4, <2>1 DEF Working
  <2> QED BY <1>1, <2>2 DEF Known
<1>16. CASE Put(p)
  <2>1. UNCHANGED <<row, cases>> /\ h[p].op = "upload" /\ h[p].step = "put"
    BY <1>16 DEF Put, At
  <2>2. PICK s \in {"insert", "failed"} : Advance(p, s)
    BY <1>16 DEF Put
  <2>3. h'[p].step = s /\ h'[p].id = h[p].id
    BY <1>9, <2>2 DEF Step
  <2> QED BY <1>1, <1>2, <1>4, <2>1, <2>3 DEF Known, Working
<1>17. CASE Insert(p)
  <2>1. UNCHANGED row /\ h[p].op = "upload" /\ h[p].step = "insert"
    BY <1>17, Zenon DEF Insert, At
  <2>2. at[p] = "upload" /\ h[p].batch = batch[p] /\ h[p].batch \in stored
    BY <1>1, <2>1 DEF KeptInv, ServedInv, BatchInv, ApartInv, Loaded
  <2>3. row[h[p].id] = Visibility(public[p]) /\ cases[h[p].id] = {}
    BY <1>2, <2>1, <2>2 DEF Known
  <2>4. PICK s \in {"ok", "failed"} :
          /\ Advance(p, s)
          /\ s = "ok" => /\ cases' = [cases EXCEPT ![h[p].id] = @ \cup {h[p].batch}]
                         /\ UNCHANGED stored
    BY <1>17, Zenon DEF Insert
  <2>5. h'[p].step = s /\ h'[p].id = h[p].id
    BY <1>9, <2>4 DEF Step
  <2>6. s = "ok" => cases'[h[p].id] = {batch[p]} /\ stored' = stored
    BY <1>4, <1>5, <2>1, <2>2, <2>3, <2>4
  <2>7. CASE s = "ok"
    <3>1. row'[h'[p].id] = Visibility(public'[p]) /\ cases'[h'[p].id] = {batch'[p]}
          /\ cases'[h'[p].id] \subseteq stored'
      BY <1>1, <2>1, <2>2, <2>3, <2>5, <2>6, <2>7
    <3> QED BY <1>1, <2>2, <2>5, <2>7, <3>1 DEF Known
  <2> QED BY <1>6, <2>4, <2>5, <2>7
<1> QED BY <1>7, <1>8, <1>10, <1>11, <1>12, <1>13, <1>14, <1>15, <1>16, <1>17 DEF Serve

-----------------------------------------------------------------------------
(* The pages: what each of their actions owes the next stage. *)

\* What an action of page p leaves as it is.
Rest(p) ==
    \A q \in Page : q # p =>
      /\ at'[q] = at[q] /\ shown'[q] = shown[q] /\ form'[q] = form[q]
      /\ public'[q] = public[q] /\ batch'[q] = batch[q] /\ says'[q] = says[q]
      /\ touched'[q] = touched[q] /\ h'[q] = h[q]

PageKept(p) == CallFits(p) /\ (~touched[p] => Known(p) /\ Said(p))

LEMMA RestKept ==
    ASSUME KeptInv, UNCHANGED store, NEW p \in Page, Rest(p), PageKept(p)'
    PROVE  CallsInv' /\ KnownInv'
<1>1. ASSUME NEW q \in Page, q # p PROVE PageKept(q)'
  <2>1. CallFits(q) /\ (~touched[q] => Known(q) /\ Said(q))
    BY DEF KeptInv, CallsInv, KnownInv
  <2>2. /\ at'[q] = at[q] /\ shown'[q] = shown[q] /\ form'[q] = form[q]
        /\ public'[q] = public[q] /\ batch'[q] = batch[q] /\ says'[q] = says[q]
        /\ touched'[q] = touched[q] /\ h'[q] = h[q]
        /\ row' = row /\ cases' = cases /\ stored' = stored
    BY <1>1 DEF Rest, store
  <2>3. CallFits(q)'
    BY <2>1, <2>2 DEF CallFits
  <2>4. Known(q) => Known(q)'
    BY <2>2 DEF Known, Exists
  <2>5. Said(q) => Said(q)'
    BY <2>2 DEF Said
  <2> QED BY <2>1, <2>2, <2>3, <2>4, <2>5 DEF PageKept
<1>2. \A q \in Page : PageKept(q)'
  BY <1>1
<1> QED BY <1>2 DEF PageKept, CallsInv, KnownInv

\* A page starts no wipe, and uploads the batch of its own save.
LEMMA PageApart ==
    ASSUME KeptInv, UNCHANGED store, NEW p \in Page, Rest(p), saves' \in Nat,
           saves <= saves',
           h'[Stray] \in {h[Stray], h[p]} \/ h'[Stray].op = "none",
           h'[p] = h[p] \/ h'[p].op = "none" \/ h'[p].step = "start",
           h'[p].op = "upload" => h'[p] = h[p] \/ (at[p] \in Soon /\ h'[p].batch = batch[p]),
           at'[p] \in Soon =>
             batch'[p] = saves + 1 \/ (at[p] \in Soon /\ batch'[p] = batch[p])
    PROVE  ApartInv'
<1>0. /\ saves \in Nat /\ Handler = Page \cup {Stray} /\ Stray \notin Page
      /\ \A q \in Page : q # p => /\ h'[q] = h[q] /\ at'[q] = at[q]
                                  /\ batch'[q] = batch[q]
      /\ cases' = cases /\ stored' = stored
  BY StrayApart, ForgeAssumption DEF KeptInv, ServedInv, TypeOK, Rest, store, Handler
<1>1. \A w \in Handler : Wiping(w)' => \E v \in Handler : Wiping(v) /\ h'[w] = h[v]
  BY <1>0 DEF Wiping
<1>2. \A y \in Handler : Going(y)' =>
        \/ \E v \in Handler : Going(v) /\ h'[y].batch = h[v].batch
        \/ at[p] \in Soon /\ h'[y].batch = batch[p]
  BY <1>0 DEF Going
<1>3. \A y \in Handler : Loaded(y)' => \E v \in Handler : Loaded(v) /\ h'[y] = h[v]
  BY <1>0 DEF Loaded
<1>4. ASSUME NEW w \in Handler, Wiping(w)'
      PROVE  /\ h'[w].saw \subseteq 1..saves'
             /\ \A i \in Problem : i # h'[w].id => h'[w].saw \cap cases'[i] = {}
             /\ \A y \in Handler : Going(y)' => h'[y].batch \notin h'[w].saw
             /\ \A q \in Page : at'[q] \in Soon => batch'[q] \notin h'[w].saw
  <2>1. PICK v \in Handler : Wiping(v) /\ h'[w] = h[v]
    BY <1>1, <1>4
  <2>2. /\ h[v].saw \subseteq 1..saves
        /\ \A i \in Problem : i # h[v].id => h[v].saw \cap cases[i] = {}
        /\ \A y \in Handler : Going(y) => h[y].batch \notin h[v].saw
        /\ \A q \in Page : at[q] \in Soon => batch[q] \notin h[v].saw
    BY <2>1 DEF KeptInv, ApartInv
  <2>3. \A y \in Handler : Going(y)' => h'[y].batch \notin h[v].saw
    BY <1>2, <2>2
  <2>4. \A q \in Page : at'[q] \in Soon => batch'[q] \notin h[v].saw
    BY <1>0, <2>2
  <2> QED BY <1>0, <2>1, <2>2, <2>3, <2>4
<1>5. \A y \in Handler : Loaded(y)' => h'[y].batch \in stored'
  BY <1>0, <1>3 DEF KeptInv, ApartInv
<1>6. \A i, j \in Problem : i # j => cases'[i] \cap cases'[j] = {}
  BY <1>0 DEF KeptInv, ApartInv
<1> QED BY <1>4, <1>5, <1>6 DEF ApartInv

\* What an invariant of the save keeps, apart from what is proved already.
Kept == CallsInv /\ ApartInv /\ KnownInv

\* A page that sends its next call.
LEMMA AskKept ==
    ASSUME KeptInv, UNCHANGED store, NEW p \in Page, NEW doing \in Working,
           NEW op \in Op \ {"none"}, NEW id \in 0..MaxProblems, NEW vis \in BOOLEAN,
           batch'[p] \in 0..MaxSaves, Call(p, doing, op, id, vis), Rest(p),
           says'[p] = "working", saves' \in Nat, saves <= saves',
           doing \in {"create", "update", "clear", "upload"} => op = doing,
           doing = "fallback" => op = "update" /\ vis = FALSE,
           doing \in {"rollback", "delete"} => op = "remove",
           doing # "create" => id = shown'[p],
           doing \in {"create", "update"} => vis = public'[p],
           doing = "upload" => form'[p] # "empty" /\ at[p] \in Soon /\ batch'[p] = batch[p],
           doing \in Soon =>
             batch'[p] = saves + 1 \/ (at[p] \in Soon /\ batch'[p] = batch[p]),
           ~touched'[p] /\ doing \in {"clear", "upload"} => row[id] = Visibility(public'[p]),
           ~touched'[p] /\ doing = "upload" => cases[id] = {}
    PROVE  Kept'
<1>1. TypeOK /\ h \in [Handler -> Work] /\ at \in [Page -> Working \cup {"closed", "form", "done"}]
  BY HandlerTypes DEF KeptInv, ServedInv, TypeOK
<1>2. Asks(p, doing, op, id)
  BY <1>1, CallAsks
<1>3. at'[p] = doing /\ h'[p].op = op /\ h'[p].id = id /\ h'[p].step = "start"
      /\ h'[p].batch = batch'[p] /\ h'[Stray] = h[Stray]
  BY <1>1, <1>2, StrayApart DEF Asks
<1>4. h'[p].public = vis
  <2>1. h' = [h EXCEPT ![p] = Ask(Idle, op, id, vis, batch'[p])]
    BY Zenon DEF Call, Ask
  <2>2. Ask(Idle, op, id, vis, batch'[p]).public = vis
    BY IdleTyped DEF Ask, Work
  <2> QED BY <1>1, <2>1, <2>2, StrayApart
<1>5. ApartInv'
  <2>1. op = "upload" => doing = "upload"
    BY DEF Working
  <2> QED BY <1>3, <2>1, PageApart
<1>6. CallFits(p)'
  BY <1>3, <1>4 DEF CallFits, Working
<1>7. ~touched'[p] => Known(p)' /\ Said(p)'
  <2>1. row' = row /\ cases' = cases
    BY DEF store
  <2>2. Said(p)'
    BY DEF Said
  <2>3. ~touched'[p] => Known(p)'
    BY <1>3, <2>1 DEF Known
  <2> QED BY <2>2, <2>3
<1>8. PageKept(p)'
  BY <1>6, <1>7 DEF PageKept
<1> QED BY <1>5, <1>8, RestKept DEF Kept

\* A page that stops, has not begun, or is left: no call of its own.
LEMMA RestsKept ==
    ASSUME KeptInv, UNCHANGED <<store, saves>>, NEW p \in Page, Rest(p),
           h'[Stray] \in {h[Stray], h[p]} \/ h'[Stray].op = "none",
           h'[p].op = "none", at'[p] \notin Working,
           says'[p] \in {"published", "saved"} => at'[p] = "done",
           says'[p] = "draft" => at'[p] = "form",
           ~touched'[p] => Said(p)'
    PROVE  Kept'
<1>1. saves' \in Nat /\ saves <= saves'
  BY ForgeAssumption DEF KeptInv, ServedInv, TypeOK
<1>2. ApartInv'
  BY <1>1, PageApart DEF Soon, Working
<1>3. CallFits(p)'
  BY DEF CallFits, Working
<1>4. Known(p)'
  BY DEF Known, Working
<1>5. PageKept(p)'
  BY <1>3, <1>4 DEF PageKept
<1> QED BY <1>2, <1>5, RestKept DEF Kept

LEMMA KeptTypes ==
    ASSUME KeptInv
    PROVE  /\ TypeOK /\ ServedInv /\ h \in [Handler -> Work]
           /\ saves \in Nat /\ saves <= MaxSaves
           /\ \A p \in Page : /\ public[p] \in BOOLEAN /\ batch[p] \in 0..MaxSaves
                              /\ shown[p] \in 0..MaxProblems
                              /\ h[p].id \in 0..MaxProblems
<1>1. TypeOK /\ ServedInv /\ h \in [Handler -> Work]
  BY HandlerTypes DEF KeptInv, ServedInv
<1>2. \A p \in Page : h[p].id \in 0..MaxProblems
  BY <1>1, StrayApart DEF Work
<1>3. saves \in Nat /\ saves <= MaxSaves
  BY <1>1, ForgeAssumption DEF TypeOK
<1> QED BY <1>1, <1>2, <1>3 DEF TypeOK

\* What the other pages have, if nothing but this page's fields change.
OwnFields(p) ==
    \A q \in Page : q # p =>
      /\ shown'[q] = shown[q] /\ form'[q] = form[q] /\ public'[q] = public[q]
      /\ batch'[q] = batch[q] /\ touched'[q] = touched[q]

LEMMA CallRest ==
    ASSUME TypeOK, NEW p \in Page, NEW doing, NEW op, NEW id, NEW vis,
           Call(p, doing, op, id, vis), OwnFields(p),
           \A q \in Page : q # p => says'[q] = says[q]
    PROVE  Rest(p)
<1>1. PICK c : h' = [h EXCEPT ![p] = c] /\ at' = [at EXCEPT ![p] = doing]
  BY Zenon DEF Call
<1>2. h \in [Handler -> Work] /\ at \in [Page -> Working \cup {"closed", "form", "done"}]
  BY HandlerTypes DEF TypeOK
<1>3. \A q \in Page : q # p => h'[q] = h[q] /\ at'[q] = at[q]
  BY <1>1, <1>2, StrayApart
<1> QED BY <1>3 DEF OwnFields, Rest

LEMMA StopRest ==
    ASSUME TypeOK, NEW p \in Page, NEW where, NEW message,
           Stop(p, where, message), OwnFields(p)
    PROVE  /\ Rest(p) /\ at'[p] = where /\ says'[p] = message
           /\ h'[p].op = "none" /\ h'[Stray] = h[Stray]
<1>1. Stops(p, where, message)
  BY StopStops
<1>2. \A q \in Page : q # p => /\ h'[q] = h[q] /\ at'[q] = at[q]
                               /\ says'[q] = says[q]
  BY <1>1, StrayApart DEF Stops, TypeOK
<1>3. /\ at'[p] = where /\ says'[p] = message
      /\ h'[p].op = "none" /\ h'[Stray] = h[Stray]
  BY <1>1, StrayApart DEF Stops, TypeOK
<1> QED BY <1>2, <1>3 DEF OwnFields, Rest

LEMMA OpenKept ==
    ASSUME KeptInv, NEW p \in Page,
           OpenAdd(p) \/ (\E i \in Problem : OpenEdit(p, i)) \/ Change(p)
    PROVE  Kept'
<1>1. TypeOK
  BY KeptTypes
<1>2. /\ UNCHANGED <<store, saves, h, touched>> /\ at[p] \notin Working
      /\ at'[p] = "form" /\ Rest(p)
      /\ says'[p] \in {"nothing", "load"} \/ (Change(p) /\ says'[p] = says[p])
  BY <1>1 DEF OpenAdd, OpenEdit, Change, TypeOK, Rest, Working
<1>3. h[p].op = "none"
  BY <1>2 DEF KeptInv, CallsInv, CallFits
<1>4. CASE says'[p] \in {"nothing", "load"}
  <2>1. Said(p)'
    BY <1>4 DEF Said
  <2> QED BY <1>2, <1>3, <1>4, <2>1, RestsKept DEF Working
<1>5. CASE Change(p) /\ says'[p] = says[p]
  <2>1. at[p] = "form" /\ shown' = shown
    BY <1>5 DEF Change
  <2>2. says[p] \notin {"published", "saved"}
    BY <2>1 DEF KeptInv, CallsInv, CallFits
  <2>3. ~touched[p] => Said(p)
    BY DEF KeptInv, KnownInv
  <2>4. ~touched'[p] => Said(p)'
    BY <1>2, <1>5, <2>1, <2>2, <2>3 DEF Said, store
  <2> QED BY <1>2, <1>3, <1>5, <2>2, <2>4, RestsKept DEF Working
<1> QED BY <1>2, <1>4, <1>5

LEMMA BeginKept ==
    ASSUME KeptInv, NEW p \in Page, Publish(p) \/ Save(p) \/ Delete(p)
    PROVE  Kept'
<1>1. /\ TypeOK /\ saves \in Nat /\ saves <= MaxSaves
      /\ public[p] \in BOOLEAN /\ batch[p] \in 0..MaxSaves
      /\ shown[p] \in 0..MaxProblems
  BY KeptTypes
<1>2. UNCHANGED store /\ says'[p] = "working" /\ OwnFields(p)
      /\ \A q \in Page : q # p => says'[q] = says[q]
  BY <1>1 DEF Publish, Save, Delete, Begin, TypeOK, OwnFields
<1>3. CASE Publish(p)
  <2>1. /\ Call(p, "create", "create", 0, public[p]) /\ public' = public
        /\ saves' = saves + 1 /\ batch'[p] = saves + 1 /\ saves < MaxSaves
    BY <1>1, <1>3 DEF Publish, TypeOK
  <2>2. 0 \in 0..MaxProblems /\ batch'[p] \in 0..MaxSaves /\ saves' \in Nat
        /\ saves <= saves'
    BY <1>1, <2>1, ForgeAssumption
  <2>3. Rest(p)
    BY <1>1, <1>2, <2>1, CallRest
  <2> QED BY <1>1, <1>2, <2>1, <2>2, <2>3, AskKept DEF Working, Op
<1>4. CASE Save(p)
  <2>1. /\ Call(p, "update", "update", shown[p], public[p])
        /\ UNCHANGED <<public, shown>>
        /\ saves' = saves + 1 /\ batch'[p] = saves + 1 /\ saves < MaxSaves
    BY <1>1, <1>4 DEF Save, TypeOK
  <2>2. batch'[p] \in 0..MaxSaves /\ saves' \in Nat /\ saves <= saves'
    BY <1>1, <2>1, ForgeAssumption
  <2>3. Rest(p)
    BY <1>1, <1>2, <2>1, CallRest
  <2> QED BY <1>1, <1>2, <2>1, <2>2, <2>3, AskKept DEF Working, Op
<1>5. CASE Delete(p)
  <2>1. Call(p, "delete", "remove", shown[p], FALSE)
        /\ UNCHANGED <<shown, saves, batch>>
    BY <1>5 DEF Delete
  <2>2. Rest(p)
    BY <1>1, <1>2, <2>1, CallRest
  <2>3. says'[p] = "working" /\ UNCHANGED store /\ saves' \in Nat /\ saves <= saves'
        /\ batch'[p] \in 0..MaxSaves /\ shown'[p] = shown[p]
    BY <1>1, <1>2, <2>1
  <2> QED BY <1>1, <2>1, <2>2, <2>3, AskKept DEF Working, Op, Soon
<1> QED BY <1>3, <1>4, <1>5

\* The call of a page that has been answered with success.
LEMMA AnswerFits ==
    ASSUME KeptInv, NEW p \in Page, h[p].step = "ok"
    PROVE  /\ h[p].op # "none" /\ at[p] \in Working /\ h[p].id \in Problem
           /\ says[p] = "working"
           /\ at[p] # "create" => h[p].id = shown[p]
           /\ at[p] \in {"rollback", "delete"} => h[p].op = "remove"
<1>1. h[p].op # "none" /\ at[p] \in Working
  BY KnownExists DEF KeptInv, CallsInv, CallFits
<1>2. h[p].id \in Problem
  BY <1>1, KnownExists
<1> QED BY <1>1, <1>2 DEF KeptInv, CallsInv, CallFits, GoneInv

LEMMA GoOnKept ==
    ASSUME KeptInv, NEW p \in Page, Created(p) \/ Updated(p) \/ Cleared(p)
    PROVE  Kept'
<1>1. /\ TypeOK /\ saves \in Nat /\ public[p] \in BOOLEAN
      /\ batch[p] \in 0..MaxSaves /\ shown \in [Page -> 0..MaxProblems]
  BY KeptTypes DEF TypeOK
<1>2. /\ h[p].step = "ok" /\ UNCHANGED <<store, form, public, saves, touched, batch>>
      /\ at[p] \in Soon
  BY DEF Created, Updated, Cleared, Answered, Soon
<1>3. /\ h[p].id \in Problem /\ says[p] = "working"
      /\ at[p] # "create" => h[p].id = shown[p]
  BY <1>2, AnswerFits
<1>4. /\ ~touched[p] => row[h[p].id] = Visibility(public[p])
      /\ ~touched[p] /\ at[p] # "update" => cases[h[p].id] = {}
  BY <1>2 DEF KeptInv, KnownInv, Known, Soon
<1>5. h[p].id \in 0..MaxProblems
  BY KeptTypes
<1>6. shown'[p] = h[p].id
  BY <1>1, <1>3 DEF Created, Updated, Cleared, Answered
<1>12. OwnFields(p)
  BY <1>1, <1>2 DEF Created, Updated, Cleared, OwnFields
<1>7. CASE \E doing \in {"upload", "clear"} :
             /\ Call(p, doing, doing, h[p].id, FALSE) /\ UNCHANGED says
             /\ doing = "upload" => form[p] # "empty" /\ at[p] # "update"
  <2>1. PICK doing \in {"upload", "clear"} :
             /\ Call(p, doing, doing, h[p].id, FALSE) /\ UNCHANGED says
             /\ doing = "upload" => form[p] # "empty" /\ at[p] # "update"
    BY <1>7
  <2>2. Rest(p)
    BY <1>1, <1>12, <2>1, CallRest
  <2>3. /\ saves' \in Nat /\ saves <= saves' /\ batch'[p] = batch[p]
        /\ says'[p] = "working" /\ UNCHANGED store
    BY <1>1, <1>2, <1>3, <2>1
  <2>4. /\ ~touched'[p] => row[h[p].id] = Visibility(public'[p])
        /\ ~touched'[p] /\ doing = "upload" => cases[h[p].id] = {}
        /\ doing = "upload" => form'[p] # "empty"
    BY <1>2, <1>4, <2>1
  <2> QED BY <1>1, <1>2, <1>5, <1>6, <2>1, <2>2, <2>3, <2>4, AskKept
          DEF Working, Op, Soon
<1>8. CASE form[p] = "empty" /\ at[p] # "update"
           /\ \E m \in {"published", "saved"} : Stop(p, "done", m)
  <2>1. PICK m \in {"published", "saved"} : Stop(p, "done", m)
    BY <1>8
  <2>3. /\ Rest(p) /\ at'[p] = "done" /\ says'[p] = m /\ h'[p].op = "none"
        /\ h'[Stray] = h[Stray]
    BY <1>1, <1>12, <2>1, StopRest
  <2>4. ~touched'[p] => Said(p)'
    BY <1>2, <1>3, <1>4, <1>6, <1>8, <2>3 DEF Said, store
  <2> QED BY <1>2, <2>3, <2>4, RestsKept DEF Working
<1>9. CASE Created(p)
  <2>1. at[p] = "create"
    BY <1>9 DEF Created, Answered
  <2> QED BY <1>7, <1>8, <1>9, <2>1, Zenon DEF Created
<1>10. CASE Updated(p)
  <2>1. at[p] = "update" /\ Call(p, "clear", "clear", h[p].id, FALSE)
    BY <1>3, <1>10 DEF Updated, Answered
  <2> QED BY <1>7, <1>10, <2>1, Zenon DEF Updated
<1>11. CASE Cleared(p)
  <2>1. at[p] = "clear" /\ h[p].id = shown[p]
    BY <1>3, <1>11 DEF Cleared, Answered
  <2> QED BY <1>7, <1>8, <1>11, <2>1, Zenon DEF Cleared
<1> QED BY <1>9, <1>10, <1>11

LEMMA UploadedKept ==
    ASSUME KeptInv, NEW p \in Page, Uploaded(p)
    PROVE  Kept'
<1>1. /\ TypeOK /\ at[p] = "upload" /\ h[p].step = "ok"
      /\ UNCHANGED <<store, shown, form, public, batch, saves, touched>>
  BY KeptTypes DEF Uploaded, Answered
<1>2. PICK m \in {"published", "saved"} : Stop(p, "done", m)
  BY DEF Uploaded
<1>3. OwnFields(p)
  BY <1>1 DEF OwnFields
<1>4. /\ Rest(p) /\ at'[p] = "done" /\ says'[p] = m /\ h'[p].op = "none"
      /\ h'[Stray] = h[Stray]
  BY <1>1, <1>2, <1>3, StopRest
<1>5. h[p].id = shown[p] /\ h[p].id \in Problem /\ form[p] # "empty"
  BY <1>1, AnswerFits DEF KeptInv, CallsInv, CallFits
<1>6. ~touched[p] => /\ row[h[p].id] = Visibility(public[p])
                     /\ cases[h[p].id] = {batch[p]}
                     /\ cases[h[p].id] \subseteq stored
  BY <1>1 DEF KeptInv, KnownInv, Known
<1>7. ~touched'[p] => Said(p)'
  BY <1>1, <1>4, <1>5, <1>6 DEF Said, store
<1> QED BY <1>1, <1>4, <1>7, RestsKept DEF Working

LEMMA FailedKept ==
    ASSUME KeptInv, NEW p \in Page, PublishFailed(p) \/ SaveFailed(p)
    PROVE  Kept'
<1>1. /\ TypeOK /\ saves \in Nat /\ batch[p] \in 0..MaxSaves
      /\ shown[p] \in 0..MaxProblems
  BY KeptTypes
<1>2. /\ UNCHANGED <<store, shown, form, public, saves, touched, batch>>
      /\ at[p] \in Working
  BY DEF PublishFailed, SaveFailed, Answered, Working
<1>3. says[p] = "working" /\ OwnFields(p)
  BY <1>2 DEF KeptInv, GoneInv, OwnFields
<1>4. ASSUME NEW doing \in {"rollback", "fallback"}, NEW op \in {"remove", "update"},
             doing = "rollback" <=> op = "remove",
             Call(p, doing, op, shown[p], FALSE), UNCHANGED says
      PROVE  Kept'
  <2>1. Rest(p)
    BY <1>1, <1>3, <1>4, CallRest
  <2>2. saves' \in Nat /\ saves <= saves' /\ says'[p] = "working" /\ UNCHANGED store
        /\ shown'[p] = shown[p] /\ batch'[p] \in 0..MaxSaves
    BY <1>1, <1>2, <1>3, <1>4
  <2> QED BY <1>1, <1>4, <2>1, <2>2, AskKept DEF Working, Op, Soon
<1>5. CASE Stop(p, "form", "metadata")
  <2>2. /\ Rest(p) /\ at'[p] = "form" /\ says'[p] = "metadata"
        /\ h'[p].op = "none" /\ h'[Stray] = h[Stray]
    BY <1>1, <1>3, <1>5, StopRest
  <2>3. Said(p)'
    BY <2>2 DEF Said
  <2> QED BY <1>2, <2>2, <2>3, RestsKept DEF Working
<1>6. \/ Stop(p, "form", "metadata")
      \/ Call(p, "rollback", "remove", shown[p], FALSE) /\ UNCHANGED says
      \/ Call(p, "fallback", "update", shown[p], FALSE) /\ UNCHANGED says
  BY Zenon DEF PublishFailed, SaveFailed
<1> QED BY <1>4, <1>5, <1>6

LEMMA CompensatedKept ==
    ASSUME KeptInv, NEW p \in Page, Compensated(p)
    PROVE  Kept'
<1>1. /\ TypeOK /\ UNCHANGED <<store, shown, form, public, batch, saves, touched>>
  BY KeptTypes DEF Compensated
<1>2. PICK w \in {"form", "closed"},
           m \in {"rolledback", "orphan", "draft", "critical", "nothing",
                  "undeleted"} :
             /\ Stop(p, w, m)
             /\ m = "draft" => w = "form" /\ at[p] = "fallback" /\ h[p].step = "ok"
  BY DEF Compensated, Answered
<1>3. OwnFields(p)
  BY <1>1 DEF OwnFields
<1>4. /\ Rest(p) /\ at'[p] = w /\ says'[p] = m /\ h'[p].op = "none"
      /\ h'[Stray] = h[Stray]
  BY <1>1, <1>2, <1>3, StopRest
<1>5. m = "draft" /\ ~touched[p] => shown[p] \in Problem /\ row[shown[p]] = "draft"
  BY <1>2, AnswerFits DEF KeptInv, KnownInv, Known
<1>6. ~touched'[p] => Said(p)'
  BY <1>1, <1>4, <1>5 DEF Said, store
<1> QED BY <1>1, <1>2, <1>4, <1>6, RestsKept DEF Working

LEMMA UnansweredKept ==
    ASSUME KeptInv, NEW p \in Page, Unanswered(p)
    PROVE  Kept'
<1>1. /\ TypeOK /\ saves \in Nat /\ UNCHANGED <<store, page, touched>>
      /\ at[p] \in Working /\ Abandon(p, [Idle EXCEPT !.step = "failed"])
  BY KeptTypes DEF Unanswered
<1>2. Strays(p, "failed")
  BY <1>1, FailedTyped, AbandonStrays, Zenon
<1>3. /\ h'[p].op = "none" /\ h'[p].step = "failed"
      /\ h'[Stray] = h[p] \/ h'[Stray].op = "none"
      /\ \A q \in Page : q # p => h'[q] = h[q]
  BY <1>2, StrayApart DEF Strays
<1>4. /\ Rest(p) /\ saves' = saves /\ at' = at /\ batch' = batch /\ says' = says
      /\ form' = form
  BY <1>1, <1>3 DEF Rest, page
<1>5. ApartInv'
  BY <1>1, <1>3, <1>4, PageApart
<1>6. says[p] = "working"
  BY <1>1 DEF KeptInv, GoneInv
<1>7. CallFits(p)'
  <2>1. CallFits(p)
    BY DEF KeptInv, CallsInv
  <2> QED BY <1>3, <1>4, <1>6, <2>1 DEF CallFits
<1>8. Known(p)' /\ Said(p)'
  BY <1>3, <1>4, <1>6 DEF Known, Said
<1>9. PageKept(p)'
  BY <1>7, <1>8 DEF PageKept
<1> QED BY <1>1, <1>4, <1>5, <1>9, RestKept DEF Kept

LEMMA LeaveKept ==
    ASSUME KeptInv, NEW p \in Page, Leave(p)
    PROVE  Kept'
<1>1. /\ TypeOK /\ UNCHANGED <<store, shown, form, public, batch, saves, touched>>
      /\ at' = [at EXCEPT ![p] = "closed"] /\ says' = [says EXCEPT ![p] = "nothing"]
      /\ IF at[p] \in Working THEN Abandon(p, Idle)
                              ELSE at[p] \in {"form", "done"} /\ UNCHANGED h
  BY KeptTypes DEF Leave
<1>2. at'[p] = "closed" /\ says'[p] = "nothing"
  BY <1>1 DEF TypeOK
<1>3. /\ h'[p].op = "none"
      /\ h'[Stray] \in {h[Stray], h[p]} \/ h'[Stray].op = "none"
      /\ \A q \in Page : q # p => h'[q] = h[q]
  <2>1. CASE at[p] \in Working
    <3>1. Strays(p, Idle.step)
      BY <1>1, <2>1, IdleTyped, AbandonStrays, Zenon
    <3> QED BY <3>1, StrayApart DEF Strays
  <2>2. CASE at[p] \notin Working
    BY <1>1, <2>2 DEF KeptInv, CallsInv, CallFits
  <2> QED BY <2>1, <2>2
<1>4. Rest(p)
  BY <1>1, <1>3 DEF Rest, TypeOK
<1>5. Said(p)'
  BY <1>2 DEF Said
<1> QED BY <1>1, <1>2, <1>3, <1>4, <1>5, RestsKept DEF Working

LEMMA UseKept ==
    ASSUME KeptInv, NEW p \in Page, Use(p)
    PROVE  Kept'
BY OpenKept, BeginKept, GoOnKept, UploadedKept, FailedKept, CompensatedKept,
   UnansweredKept, LeaveKept, Zenon DEF Use

LEMMA ServeKept ==
    ASSUME KeptInv, NEW x \in Handler, Serve(x)
    PROVE  Kept'
<1>1. CallsInv' /\ ApartInv'
  BY ServeCalls, ServeApart DEF KeptInv
<1>2. ASSUME NEW p \in Page, ~touched'[p] PROVE Known(p)' /\ Said(p)'
  <2>1. CASE p = x
    BY <1>2, <2>1, OwnServe
  <2>2. CASE p # x
    BY <1>2, <2>2, OthersServe
  <2> QED BY <2>1, <2>2
<1>3. KnownInv'
  BY <1>2 DEF KnownInv
<1> QED BY <1>1, <1>3 DEF Kept

LEMMA StrayKept ==
    ASSUME KeptInv, StrayEnds
    PROVE  Kept'
<1>1. h \in [Handler -> Work] /\ UNCHANGED <<store, page, touched>>
      /\ h' = [h EXCEPT ![Stray] = Idle]
  BY KeptTypes DEF StrayEnds
<1>2. \A y \in Handler : h'[y] = h[y] \/ (h'[y].op = "none" /\ h'[y].step = "idle")
  BY <1>1, IdleTyped
<1>3. \A p \in Page : h'[p] = h[p]
  BY <1>1, StrayApart
<1>4. CallsInv'
  BY <1>1, <1>3 DEF KeptInv, CallsInv, CallFits, page
<1>5. ApartInv'
  <2>1. \A y \in Handler : Wiping(y)' => Wiping(y) /\ h'[y] = h[y]
    BY <1>2 DEF Wiping
  <2>2. \A y \in Handler : Going(y)' => Going(y) /\ h'[y] = h[y]
    BY <1>2 DEF Going
  <2>3. \A y \in Handler : Loaded(y)' => Loaded(y) /\ h'[y] = h[y]
    BY <1>2 DEF Loaded
  <2> QED BY <1>1, <2>1, <2>2, <2>3 DEF KeptInv, ApartInv, store, page
<1>6. KnownInv'
  <2> SUFFICES ASSUME NEW p \in Page, ~touched'[p] PROVE Known(p)' /\ Said(p)'
    BY DEF KnownInv
  <2>1. Known(p) /\ Said(p)
    BY <1>1 DEF KeptInv, KnownInv
  <2>2. Known(p)'
    BY <1>1, <1>3, <2>1 DEF Known, Exists, store, page
  <2>3. Said(p)'
    BY <1>1, <2>1 DEF Said, store, page
  <2> QED BY <2>2, <2>3
<1> QED BY <1>4, <1>5, <1>6 DEF Kept

LEMMA KeptStart == Init => KeptInv
<1> SUFFICES ASSUME Init PROVE KeptInv
  OBVIOUS
<1>1. ServedInv /\ GoneInv
  BY ServedStart, GoneStart
<1>2. \A x \in Handler : h[x].op = "none" /\ h[x].step = "idle"
  BY IdleTyped DEF Init
<1>3. \A p \in Page : at[p] = "closed" /\ says[p] = "nothing"
  BY DEF Init
<1>4. CallsInv
  BY <1>2, <1>3, StrayApart DEF CallsInv, CallFits, Working
<1>5. ApartInv
  <2>1. \A i \in Problem : cases[i] = {}
    BY DEF Init
  <2> QED BY <1>2, <2>1 DEF ApartInv, Wiping, Loaded
<1>6. KnownInv
  BY <1>3 DEF KnownInv, Known, Said
<1> QED BY <1>1, <1>4, <1>5, <1>6 DEF KeptInv

LEMMA KeptStep ==
    ASSUME KeptInv, [Next]_vars
    PROVE  KeptInv'
<1>1. ServedInv' /\ GoneInv'
  BY ServedStep, GoneStep DEF KeptInv
<1>2. CASE UNCHANGED vars
  BY <1>1, <1>2 DEF vars, store, page, KeptInv, CallsInv, CallFits, ApartInv, Wiping,
     Going, Loaded, KnownInv, Known, Said, Exists
<1>3. Next => Kept'
  BY ServeKept, UseKept, StrayKept DEF Next
<1> QED BY <1>1, <1>2, <1>3 DEF Kept, KeptInv

\* Unless another handler has worked on the problem since the click, the page
\* is right about its save: the problem has the chosen visibility and exactly
\* the test cases of this save with their files, or it is the draft it was
\* forced into: SavedAsSaid (AddProblem.jsx:172, EditProblem.jsx:187).
THEOREM SavesAsSaid == Spec => []SavedAsSaid
<1>1. KeptInv => SavedAsSaid
  BY DEF KeptInv, KnownInv, Said, SavedAsSaid
<1> QED BY <1>1, KeptStart, KeptStep, PTL DEF Spec

-----------------------------------------------------------------------------
(* Whose business a public problem without test cases is. *)

\* Page p is between the calls of a save of problem i, or undoes one.
Minds(p, i) ==
    \/ at[p] = "create" /\ h[p].step = "ok" /\ h[p].id = i
    \/ at[p] \in {"update", "clear", "rollback", "delete"} /\ shown[p] = i
    \/ at[p] \in {"upload", "fallback"} /\ h[p].step # "ok" /\ shown[p] = i

Minded(i) == i \in excused \/ \E p \in Page : Minds(p, i)

\* What the stray may still do to a problem is excused.
StrayInv ==
    /\ h[Stray].op = "create" => Problem \subseteq excused
    /\ h[Stray].op \in {"clear", "remove"} => h[Stray].id \in excused
    /\ h[Stray].op = "update" /\ h[Stray].public
         /\ h[Stray].step \in {"start", "write"} => h[Stray].id \in excused

Bare(i) == row[i] = "public" /\ cases[i] = {}

MindedInv == StrayInv /\ \A i \in Problem : Bare(i) => Minded(i)

\* A page that serves goes on minding, unless its upload or its draft is there.
LEMMA MindsOn ==
    ASSUME KeptInv, NEW x \in Handler, Serve(x), NEW p \in Page, NEW i \in Problem,
           Minds(p, i), Bare(i)'
    PROVE  Minds(p, i)'
<1>1. /\ at' = at /\ shown' = shown /\ h[x].op # "none"
      /\ p # x => h'[p] = h[p]
      /\ TypeOK /\ p \in Handler
  BY ServeMoves, KeptTypes, StrayApart DEF KeptInv, page
<1>2. CASE p # x \/ at[p] \in {"update", "clear", "rollback", "delete"}
  BY <1>1, <1>2 DEF Minds
<1>3. CASE p = x /\ at[p] = "create"
  <2>1. h[x].step = "ok"
    BY <1>3 DEF Minds
  <2> QED BY <2>1, Zenon DEF Serve, Create, Check, Write, Read, Wipe, Erase, Drop,
          Put, Insert, Refuse, At
<1>4. CASE p = x /\ at[p] \in {"upload", "fallback"}
  <2>1. /\ shown[p] = i /\ h[x].id = i
        /\ at[p] = "upload" => h[x].op = "upload"
        /\ at[p] = "fallback" => h[x].op = "update" /\ h[x].public = FALSE
    BY <1>1, <1>4 DEF Minds, KeptInv, CallsInv, CallFits
  <2>2. h[x].op \in {"upload", "update"}
    BY <1>4, <2>1
  <2>3. h'[x].step # "ok"
    <3>1. CASE Check(x)
      <4>1. PICK s \in {"failed", "write", "put", "read"} : Advance(x, s)
        BY <3>1, Zenon DEF Check
      <4>2. h'[x].step = s
        BY <1>1, <4>1, AdvanceMoves DEF Moves, Step
      <4> QED BY <4>1, <4>2
    <3>2. CASE Put(x)
      <4>1. PICK s \in {"insert", "failed"} : Advance(x, s)
        BY <3>2, Zenon DEF Put
      <4>2. h'[x].step = s
        BY <1>1, <4>1, AdvanceMoves DEF Moves, Step
      <4> QED BY <4>1, <4>2
    <3>3. CASE Write(x)
      <4>1. h[x].op = "update"
        BY <3>3 DEF Write, At
      <4>2. at[p] = "fallback"
        BY <1>4, <2>1, <4>1
      <4>3. row' = [row EXCEPT ![i] = IF Exists(i) THEN Visibility(FALSE) ELSE @]
        BY <2>1, <3>3, <4>2 DEF Write
      <4>4. row'[i] # "public"
        BY <1>1, <4>3 DEF TypeOK, Exists, Visibility
      <4> QED BY <4>4 DEF Bare
    <3>4. CASE Insert(x)
      <4>1. PICK s \in {"ok", "failed"} :
              /\ Advance(x, s)
              /\ s = "ok" => cases' = [cases EXCEPT ![i] = @ \cup {h[x].batch}]
        BY <2>1, <3>4, Zenon DEF Insert
      <4>2. h'[x].step = s
        BY <1>1, <4>1, AdvanceMoves DEF Moves, Step
      <4>3. cases' = [cases EXCEPT ![i] = @ \cup {h[x].batch}] => cases'[i] # {}
        BY <1>1 DEF TypeOK
      <4> QED BY <4>1, <4>2, <4>3 DEF Bare
    <3>5. CASE Create(x) \/ Read(x) \/ Wipe(x) \/ Erase(x) \/ Drop(x)
      BY <2>2, <3>5, Zenon DEF Create, Read, Wipe, Erase, Drop, At
    <3>6. CASE Refuse(x)
      <4>1. h' = [h EXCEPT ![x] = [h[x] EXCEPT !.step = "failed"]] /\ h \in [Handler -> Work]
        BY <3>6, HandlerTypes, <1>1 DEF Refuse
      <4> QED BY <4>1 DEF Work
    <3> QED BY <3>1, <3>2, <3>3, <3>4, <3>5, <3>6 DEF Serve
  <2> QED BY <1>1, <1>4, <2>1, <2>3 DEF Minds
<1> QED BY <1>2, <1>3, <1>4 DEF Minds

\* Whoever leaves a problem public without test cases minds it.
LEMMA BareMinded ==
    ASSUME KeptInv, MindedInv, NEW x \in Handler, Serve(x), NEW i \in Problem,
           ~Bare(i), Bare(i)'
    PROVE  Minded(i)'
<1>1. /\ at' = at /\ shown' = shown /\ excused' = excused /\ h[x].op # "none"
      /\ h'[x].op = h[x].op
      /\ TypeOK /\ x \in Page \cup {Stray}
      /\ cases \in [Problem -> SUBSET Batch]
      /\ row \in [Problem -> {"none", "draft", "public", "gone"}]
  BY ServeMoves, KeptTypes DEF KeptInv, page, TypeOK, Handler
<1>2. x \in Page =>
        /\ h[x].op = "create" => at[x] = "create"
        /\ at[x] # "create" => h[x].id = shown[x]
        /\ h[x].op \in {"clear", "remove"} => at[x] \in {"clear", "rollback", "delete"}
        /\ h[x].op = "update" /\ h[x].public => at[x] = "update"
  <2> SUFFICES ASSUME x \in Page
               PROVE  /\ h[x].op = "create" => at[x] = "create"
                      /\ at[x] # "create" => h[x].id = shown[x]
                      /\ h[x].op \in {"clear", "remove"} =>
                           at[x] \in {"clear", "rollback", "delete"}
                      /\ h[x].op = "update" /\ h[x].public => at[x] = "update"
    OBVIOUS
  <2>1. CallFits(x)
    BY DEF KeptInv, CallsInv
  <2> QED BY <1>1, <2>1 DEF CallFits, Working
<1>3. CASE Create(x)
  <2>1. h[x].op = "create" /\ UNCHANGED cases
    BY <1>3 DEF Create, At
  <2>2. PICK j \in Problem :
          \/ row' = row
          \/ /\ row' = [row EXCEPT ![j] = Visibility(h[x].public)]
             /\ h' = [h EXCEPT ![x] = [h[x] EXCEPT !.step = "ok", !.id = j]]
    BY <1>3, Zenon DEF Create
  <2>3. /\ row' = [row EXCEPT ![j] = Visibility(h[x].public)] /\ j = i
        /\ h' = [h EXCEPT ![x] = [h[x] EXCEPT !.step = "ok", !.id = j]]
    BY <1>1, <2>1, <2>2 DEF Bare
  <2>4. h'[x].step = "ok" /\ h'[x].id = i
    <3>1. h \in [Handler -> Work]
      BY <1>1, HandlerTypes
    <3> QED BY <2>3, <3>1 DEF Work
  <2>5. CASE x \in Page
    <3>1. Minds(x, i)'
      BY <1>1, <1>2, <2>1, <2>4, <2>5 DEF Minds
    <3> QED BY <2>5, <3>1 DEF Minded
  <2>6. CASE x = Stray
    BY <1>1, <2>1, <2>6 DEF MindedInv, StrayInv, Minded
  <2> QED BY <1>1, <2>5, <2>6
<1>4. CASE Write(x)
  <2>1. /\ h[x].op = "update" /\ h[x].step = "write" /\ UNCHANGED cases
        /\ row' = [row EXCEPT ![h[x].id] =
                     IF Exists(h[x].id) THEN Visibility(h[x].public) ELSE @]
    BY <1>4 DEF Write, At
  <2>2. h[x].id = i /\ h[x].public
    BY <1>1, <2>1 DEF Bare, Visibility, Exists
  <2>3. CASE x \in Page
    <3>1. Minds(x, i)'
      BY <1>1, <1>2, <2>1, <2>2, <2>3 DEF Minds
    <3> QED BY <2>3, <3>1 DEF Minded
  <2>4. CASE x = Stray
    BY <1>1, <2>1, <2>2, <2>4 DEF MindedInv, StrayInv, Minded
  <2> QED BY <1>1, <2>3, <2>4
<1>5. CASE Erase(x) \/ Drop(x)
  <2>1. /\ h[x].op \in {"clear", "remove"}
        /\ row' = row \/ row' = [row EXCEPT ![h[x].id] = IF Exists(h[x].id) THEN "gone" ELSE @]
        /\ cases' = [cases EXCEPT ![h[x].id] = {}]
    BY <1>5, Zenon DEF Erase, Drop, At
  <2>2. h[x].id = i
    BY <1>1, <2>1 DEF Bare
  <2>3. CASE x \in Page
    <3>1. Minds(x, i)'
      BY <1>1, <1>2, <2>1, <2>2, <2>3 DEF Minds
    <3> QED BY <2>3, <3>1 DEF Minded
  <2>4. CASE x = Stray
    BY <1>1, <2>1, <2>2, <2>4 DEF MindedInv, StrayInv, Minded
  <2> QED BY <1>1, <2>3, <2>4
<1>6. CASE Insert(x)
  <2>1. UNCHANGED row /\ \/ cases' = [cases EXCEPT ![h[x].id] = @ \cup {h[x].batch}]
                         \/ UNCHANGED cases
    BY <1>6, Zenon DEF Insert
  <2>2. cases[i] \subseteq cases'[i]
    BY <1>1, <2>1
  <2> QED BY <2>1, <2>2 DEF Bare
<1>7. CASE Check(x) \/ Read(x) \/ Wipe(x) \/ Put(x) \/ Refuse(x)
  <2>1. UNCHANGED <<row, cases>>
    BY <1>7, Zenon DEF Check, Read, Wipe, Put, Refuse, store
  <2> QED BY <2>1 DEF Bare
<1> QED BY <1>3, <1>4, <1>5, <1>6, <1>7 DEF Serve

LEMMA ServeMinded ==
    ASSUME KeptInv, MindedInv, NEW x \in Handler, Serve(x)
    PROVE  MindedInv'
<1>1. /\ excused' = excused /\ h'[x].op = h[x].op /\ h'[x].public = h[x].public
      /\ h[x].op # "create" => h'[x].id = h[x].id
      /\ \A y \in Handler : y # x => h'[y] = h[y]
  BY ServeMoves DEF KeptInv
<1>2. h[x].op = "update" /\ h'[x].step \in {"start", "write"} => h[x].step = "start"
  <2>1. CASE Check(x)
    BY <2>1 DEF Check, At
  <2>2. CASE Write(x)
    <3>1. h'[x].step = "ok"
      BY <2>2, KeptTypes, AdvanceMoves DEF Write, Moves, Step
    <3> QED BY <3>1
  <2>3. CASE Refuse(x)
    <3>1. h' = [h EXCEPT ![x] = [h[x] EXCEPT !.step = "failed"]]
      BY <2>3 DEF Refuse
    <3>2. h'[x].step = "failed"
      BY <3>1, KeptTypes DEF Work
    <3> QED BY <3>2
  <2>4. CASE Create(x) \/ Read(x) \/ Wipe(x) \/ Erase(x) \/ Drop(x) \/ Put(x) \/ Insert(x)
    BY <2>4, Zenon DEF Create, Read, Wipe, Erase, Drop, Put, Insert, At
  <2> QED BY <2>1, <2>2, <2>3, <2>4 DEF Serve
<1>3. StrayInv'
  BY <1>1, <1>2, StrayApart DEF MindedInv, StrayInv
<1>4. ASSUME NEW i \in Problem, Bare(i)' PROVE Minded(i)'
  <2>1. CASE ~Bare(i)
    BY <1>4, <2>1, BareMinded
  <2>2. CASE Bare(i)
    <3>1. i \in excused \/ \E p \in Page : Minds(p, i)
      BY <2>2 DEF MindedInv, Minded
    <3>2. \A p \in Page : Minds(p, i) => Minds(p, i)'
      BY <1>4, MindsOn
    <3> QED BY <1>1, <3>1, <3>2 DEF Minded
  <2> QED BY <2>1, <2>2
<1> QED BY <1>3, <1>4 DEF MindedInv

\* An action of page p, which hands over what it minds or owns up to it.
LEMMA PageMinded ==
    ASSUME KeptInv, MindedInv, UNCHANGED store, NEW p \in Page,
           \A q \in Page : q # p => /\ at'[q] = at[q] /\ shown'[q] = shown[q]
                                   /\ h'[q] = h[q],
           excused \subseteq excused', StrayInv',
           \A i \in Problem : Bare(i) /\ Minds(p, i) => i \in excused' \/ Minds(p, i)'
    PROVE  MindedInv'
<1>1. \A i \in Problem : Bare(i)' => Bare(i)
  BY DEF Bare, store
<1>2. \A i \in Problem, q \in Page : q # p /\ Minds(q, i) => Minds(q, i)'
  BY DEF Minds
<1>3. ASSUME NEW i \in Problem, Bare(i) PROVE Minded(i)'
  <2>1. i \in excused \/ \E q \in Page : Minds(q, i)
    BY <1>3 DEF MindedInv, Minded
  <2> QED BY <1>2, <1>3, <2>1 DEF Minded
<1> QED BY <1>1, <1>3 DEF MindedInv

\* A page that sends a call, or stops, leaves the stray alone.
LEMMA StrayStays ==
    ASSUME MindedInv, h'[Stray] = h[Stray], excused \subseteq excused'
    PROVE  StrayInv'
BY DEF MindedInv, StrayInv

LEMMA AskMinded ==
    ASSUME KeptInv, MindedInv, UNCHANGED store, NEW p \in Page, NEW doing \in Working,
           NEW op \in Op, NEW id \in 0..MaxProblems, NEW vis \in BOOLEAN,
           batch'[p] \in 0..MaxSaves, Call(p, doing, op, id, vis),
           \A q \in Page : q # p => shown'[q] = shown[q],
           excused \subseteq excused',
           at[p] \in Working => doing # "create",
           \A i \in Problem : Minds(p, i) => shown'[p] = i
    PROVE  MindedInv'
<1>1. TypeOK /\ at \in [Page -> Working \cup {"closed", "form", "done"}]
  BY KeptTypes DEF TypeOK
<1>2. Asks(p, doing, op, id)
  BY <1>1, CallAsks
<1>3. /\ at'[p] = doing /\ h'[p].step = "start" /\ h'[Stray] = h[Stray]
      /\ \A q \in Page : q # p => at'[q] = at[q] /\ h'[q] = h[q]
  BY <1>1, <1>2, StrayApart DEF Asks
<1>4. StrayInv'
  BY <1>3, StrayStays
<1>5. \A i \in Problem : Minds(p, i) => Minds(p, i)'
  <2>1. \A i \in Problem : Minds(p, i) => at[p] \in Working
    BY DEF Minds, Working
  <2> QED BY <1>3, <2>1 DEF Minds, Working
<1> QED BY <1>3, <1>4, <1>5, PageMinded

LEMMA StopMinded ==
    ASSUME KeptInv, MindedInv, UNCHANGED store, NEW p \in Page, NEW where, NEW message,
           Stop(p, where, message),
           \A q \in Page : q # p => shown'[q] = shown[q],
           excused \subseteq excused',
           \A i \in Problem : Bare(i) /\ Minds(p, i) => i \in excused'
    PROVE  MindedInv'
<1>1. TypeOK
  BY KeptTypes
<1>2. Stops(p, where, message)
  BY <1>1, StopStops
<1>3. /\ h'[Stray] = h[Stray]
      /\ \A q \in Page : q # p => at'[q] = at[q] /\ h'[q] = h[q]
  BY <1>1, <1>2, StrayApart DEF Stops, TypeOK
<1>4. StrayInv'
  BY <1>3, StrayStays
<1> QED BY <1>3, <1>4, PageMinded

LEMMA OpenMinded ==
    ASSUME KeptInv, MindedInv, NEW p \in Page,
           OpenAdd(p) \/ (\E i \in Problem : OpenEdit(p, i)) \/ Change(p)
    PROVE  MindedInv'
<1>1. TypeOK
  BY KeptTypes
<1>2. /\ UNCHANGED <<store, h, excused>> /\ at[p] \in {"closed", "form", "done"}
      /\ \A q \in Page : q # p => at'[q] = at[q] /\ shown'[q] = shown[q]
  BY <1>1 DEF OpenAdd, OpenEdit, Change, TypeOK
<1>3. StrayInv'
  BY <1>2, StrayStays
<1>4. \A i \in Problem : ~Minds(p, i)
  BY <1>2 DEF Minds
<1> QED BY <1>2, <1>3, <1>4, PageMinded

LEMMA BeginMinded ==
    ASSUME KeptInv, MindedInv, NEW p \in Page, Publish(p) \/ Save(p) \/ Delete(p)
    PROVE  MindedInv'
<1>1. /\ TypeOK /\ saves \in Nat /\ public[p] \in BOOLEAN
      /\ batch[p] \in 0..MaxSaves /\ shown[p] \in 0..MaxProblems
  BY KeptTypes
<1>2. /\ UNCHANGED <<store, excused>> /\ at[p] = "form"
      /\ \A q \in Page : q # p => shown'[q] = shown[q]
  BY <1>1 DEF Publish, Save, Delete, Begin, TypeOK
<1>3. (\A i \in Problem : ~Minds(p, i)) /\ at[p] \notin Working
  BY <1>2 DEF Minds, Working
<1>4. 0 \in 0..MaxProblems /\ batch'[p] \in 0..MaxSaves
  <2>1. CASE Publish(p) \/ Save(p)
    <3>1. saves < MaxSaves /\ batch' = [batch EXCEPT ![p] = saves + 1]
      BY <2>1 DEF Publish, Save
    <3> QED BY <1>1, <3>1, ForgeAssumption DEF TypeOK
  <2>2. CASE Delete(p)
    BY <1>1, <2>2, ForgeAssumption DEF Delete
  <2> QED BY <2>1, <2>2
<1>5. CASE Publish(p)
  <2>1. Call(p, "create", "create", 0, public[p])
    BY <1>5 DEF Publish
  <2> QED BY <1>1, <1>2, <1>3, <1>4, <2>1, AskMinded DEF Working, Op
<1>6. CASE Save(p)
  <2>1. Call(p, "update", "update", shown[p], public[p])
    BY <1>6 DEF Save
  <2> QED BY <1>1, <1>2, <1>3, <1>4, <2>1, AskMinded DEF Working, Op
<1>7. CASE Delete(p)
  <2>1. Call(p, "delete", "remove", shown[p], FALSE)
    BY <1>7 DEF Delete
  <2> QED BY <1>1, <1>2, <1>3, <1>4, <2>1, AskMinded DEF Working, Op
<1> QED BY <1>5, <1>6, <1>7

LEMMA GoOnMinded ==
    ASSUME KeptInv, MindedInv, NEW p \in Page, Created(p) \/ Updated(p) \/ Cleared(p)
    PROVE  MindedInv'
<1>1. /\ TypeOK /\ batch[p] \in 0..MaxSaves /\ shown \in [Page -> 0..MaxProblems]
      /\ h[p].id \in 0..MaxProblems
  BY KeptTypes DEF TypeOK
<1>2. /\ h[p].step = "ok" /\ UNCHANGED <<store, batch>> /\ at[p] \in Soon
  BY DEF Created, Updated, Cleared, Answered, Soon
<1>3. h[p].id \in Problem /\ (at[p] # "create" => h[p].id = shown[p])
  BY <1>2, AnswerFits
<1>4. /\ shown'[p] = h[p].id /\ (\A q \in Page : q # p => shown'[q] = shown[q])
      /\ excused \subseteq excused' /\ batch'[p] \in 0..MaxSaves
  BY <1>1, <1>2, <1>3 DEF Created, Updated, Cleared, Answered, Excuse
<1>5. \A i \in Problem : Minds(p, i) => shown'[p] = i
  BY <1>2, <1>3, <1>4 DEF Minds, Soon
<1>6. CASE \E doing \in {"upload", "clear"} : Call(p, doing, doing, h[p].id, FALSE)
  BY <1>1, <1>2, <1>4, <1>5, <1>6, AskMinded DEF Working, Op
<1>7. CASE /\ form[p] = "empty" /\ Excuse(p)
           /\ \E m \in {"published", "saved"} : Stop(p, "done", m)
  <2>1. \A i \in Problem : Minds(p, i) => i \in excused'
    BY <1>5, <1>7 DEF Excuse
  <2> QED BY <1>2, <1>4, <1>7, <2>1, StopMinded
<1>8. CASE Updated(p)
  <2>1. Call(p, "clear", "clear", h[p].id, FALSE)
    BY <1>3, <1>8 DEF Updated, Answered
  <2> QED BY <1>6, <2>1
<1>9. CASE Created(p)
  BY <1>6, <1>7, <1>9, Zenon DEF Created
<1>10. CASE Cleared(p)
  <2>1. h[p].id = shown[p]
    BY <1>3, <1>10 DEF Cleared, Answered
  <2> QED BY <1>6, <1>7, <1>10, <2>1, Zenon DEF Cleared
<1> QED BY <1>8, <1>9, <1>10

LEMMA FailedMinded ==
    ASSUME KeptInv, MindedInv, NEW p \in Page, PublishFailed(p) \/ SaveFailed(p)
    PROVE  MindedInv'
<1>1. /\ TypeOK /\ batch[p] \in 0..MaxSaves /\ shown[p] \in 0..MaxProblems
  BY KeptTypes
<1>2. /\ h[p].step = "failed" /\ UNCHANGED <<store, shown, batch, excused>>
  BY DEF PublishFailed, SaveFailed, Answered
<1>3. \A i \in Problem : Minds(p, i) => shown'[p] = i
  BY <1>2 DEF Minds
<1>4. CASE \/ Call(p, "rollback", "remove", shown[p], FALSE)
           \/ Call(p, "fallback", "update", shown[p], FALSE)
  BY <1>1, <1>2, <1>3, <1>4, AskMinded DEF Working, Op
<1>5. CASE at[p] = "create" /\ Stop(p, "form", "metadata")
  <2>1. \A i \in Problem : ~Minds(p, i)
    BY <1>2, <1>5 DEF Minds
  <2> QED BY <1>2, <1>5, <2>1, StopMinded
<1> QED BY <1>4, <1>5, Zenon DEF PublishFailed, SaveFailed, Answered

LEMMA UploadedMinded ==
    ASSUME KeptInv, MindedInv, NEW p \in Page, Uploaded(p)
    PROVE  MindedInv'
<1>1. at[p] = "upload" /\ h[p].step = "ok" /\ UNCHANGED <<store, shown, excused>>
  BY DEF Uploaded, Answered
<1>2. PICK m : Stop(p, "done", m)
  BY DEF Uploaded
<1>3. \A i \in Problem : ~Minds(p, i)
  BY <1>1 DEF Minds
<1> QED BY <1>1, <1>2, <1>3, StopMinded

LEMMA CompensatedMinded ==
    ASSUME KeptInv, MindedInv, NEW p \in Page, Compensated(p)
    PROVE  MindedInv'
<1>1. /\ TypeOK /\ UNCHANGED <<store, shown>> /\ excused \subseteq excused'
      /\ at[p] \in {"rollback", "fallback", "delete"}
  BY KeptTypes DEF Compensated, Answered
<1>2. PICK w \in {"form", "closed"},
           m \in {"rolledback", "orphan", "draft", "critical", "nothing",
                  "undeleted"} :
             /\ Stop(p, w, m)
             /\ m \in {"orphan", "critical", "undeleted"} \/ h[p].step = "ok"
  BY DEF Compensated, Answered
<1>3. CASE h[p].step = "ok"
  <2>1. at[p] # "fallback" => row[shown[p]] = "gone"
    <3>1. h[p].id = shown[p] /\ (at[p] # "fallback" => h[p].op = "remove")
      BY <1>1, <1>3, AnswerFits
    <3> QED BY <1>3, <3>1, StrayApart DEF KeptInv, GoneInv
  <2>2. \A i \in Problem : ~(Bare(i) /\ Minds(p, i))
    BY <1>1, <1>3, <2>1 DEF Minds, Bare
  <2> QED BY <1>1, <1>2, <2>2, StopMinded
<1>4. CASE m \in {"orphan", "critical", "undeleted"}
  <2>1. says'[p] = m
    BY <1>1, <1>2 DEF Stop, TypeOK
  <2>2. shown[p] \in excused'
    BY <1>4, <2>1 DEF Compensated
  <2>3. \A i \in Problem : Minds(p, i) => i = shown[p]
    BY <1>1 DEF Minds
  <2> QED BY <1>1, <1>2, <2>2, <2>3, StopMinded
<1> QED BY <1>2, <1>3, <1>4

\* The stray takes over the call of a page that tells of it.
LEMMA AbandonMinded ==
    ASSUME KeptInv, MindedInv, UNCHANGED store, NEW p \in Page, NEW s, Strays(p, s),
           at[p] \in Working,
           \A q \in Page : q # p => at'[q] = at[q] /\ shown'[q] = shown[q],
           excused \subseteq excused',
           h[p].op = "create" => Problem \subseteq excused',
           h[p].op \in {"clear", "remove"} => shown[p] \in excused',
           h[p].op = "update" /\ h[p].public /\ h[p].step \in {"start", "write"} =>
             shown[p] \in excused',
           \A i \in Problem : Minds(p, i) => i \in excused' \/ Minds(p, i)'
    PROVE  MindedInv'
<1>1. /\ h'[Stray] = h[p] \/ h'[Stray].op = "none"
      /\ \A q \in Page : q # p => h'[q] = h[q]
  BY StrayApart DEF Strays
<1>2. h[p].op \in {"clear", "remove", "update"} => h[p].id = shown[p]
  BY DEF KeptInv, CallsInv, CallFits
<1>3. StrayInv'
  BY <1>1, <1>2 DEF StrayInv
<1> QED BY <1>1, <1>3, PageMinded

LEMMA UnansweredMinded ==
    ASSUME KeptInv, MindedInv, NEW p \in Page, Unanswered(p)
    PROVE  MindedInv'
<1>1. /\ TypeOK /\ UNCHANGED <<store, page>>
      /\ at[p] \in Working /\ Abandon(p, [Idle EXCEPT !.step = "failed"])
  BY KeptTypes DEF Unanswered
<1>2. Strays(p, "failed")
  BY <1>1, FailedTyped, AbandonStrays, Zenon
<1>3. /\ excused \subseteq excused'
      /\ h[p].op = "create" => Problem \subseteq excused'
      /\ h[p].op \in {"clear", "remove"} => shown[p] \in excused'
      /\ h[p].op = "update" /\ h[p].public /\ h[p].step \in {"start", "write"} =>
           shown[p] \in excused'
  BY <1>1 DEF Unanswered, TypeOK
<1>4. \A i \in Problem : Minds(p, i) => i \in excused' \/ Minds(p, i)'
  <2>1. h'[p].step = "failed" /\ at' = at /\ shown' = shown
    BY <1>1, <1>2 DEF Strays, page
  <2>2. at[p] = "create" /\ h[p].step = "ok" => h[p].op = "create"
    BY KnownExists DEF KeptInv, CallsInv, CallFits
  <2>3. \A i \in Problem : Minds(p, i) /\ at[p] = "create" => i \in excused'
    BY <1>3, <2>2 DEF Minds
  <2>4. \A i \in Problem : Minds(p, i) /\ at[p] # "create" => Minds(p, i)'
    BY <2>1 DEF Minds
  <2> QED BY <2>3, <2>4
<1> QED BY <1>1, <1>2, <1>3, <1>4, AbandonMinded DEF page

LEMMA LeaveMinded ==
    ASSUME KeptInv, MindedInv, NEW p \in Page, Leave(p)
    PROVE  MindedInv'
<1>1. /\ TypeOK /\ UNCHANGED <<store, shown>> /\ at' = [at EXCEPT ![p] = "closed"]
      /\ IF at[p] \in Working THEN Abandon(p, Idle)
                              ELSE at[p] \in {"form", "done"} /\ UNCHANGED h
      /\ excused' = IF at[p] = "create" THEN Problem
                    ELSE IF at[p] \in Working THEN excused \cup {shown[p]} ELSE excused
  BY KeptTypes DEF Leave
<1>2. excused \subseteq excused' /\ \A q \in Page : q # p => at'[q] = at[q]
  BY <1>1 DEF TypeOK
<1>3. \A i \in Problem : Minds(p, i) => at[p] \in Working /\ i \in excused'
  BY <1>1 DEF Minds, Working
<1>4. CASE at[p] \in Working
  <2>1. Strays(p, Idle.step)
    BY <1>1, <1>4, IdleTyped, AbandonStrays, Zenon
  <2>2. h[p].op = "create" => at[p] = "create"
    BY <1>4, KnownExists
  <2>3. /\ h[p].op = "create" => Problem \subseteq excused'
        /\ at[p] # "create" => shown[p] \in excused'
        /\ at[p] = "create" => h[p].op \in {"create", "none"}
    BY <1>1, <1>4, <2>2 DEF KeptInv, CallsInv, CallFits, Working
  <2> QED BY <1>1, <1>2, <1>3, <1>4, <2>1, <2>3, AbandonMinded
<1>5. CASE at[p] \notin Working
  <2>1. UNCHANGED h
    BY <1>1, <1>5
  <2>2. StrayInv'
    BY <1>2, <2>1, StrayStays
  <2> QED BY <1>1, <1>2, <1>3, <2>1, <2>2, PageMinded
<1> QED BY <1>4, <1>5

LEMMA MindedStep ==
    ASSUME KeptInv, MindedInv, [Next]_vars
    PROVE  MindedInv'
<1>1. CASE UNCHANGED vars
  BY <1>1 DEF vars, store, page, MindedInv, StrayInv, Bare, Minded, Minds
<1>2. CASE StrayEnds
  <2>1. h \in [Handler -> Work] /\ UNCHANGED <<store, page, excused>>
        /\ h' = [h EXCEPT ![Stray] = Idle]
    BY <1>2, KeptTypes DEF StrayEnds
  <2>2. h'[Stray].op = "none" /\ \A p \in Page : h'[p] = h[p]
    BY <2>1, IdleTyped, StrayApart
  <2>3. StrayInv'
    BY <2>2 DEF StrayInv
  <2> QED BY <2>1, <2>2, <2>3 DEF MindedInv, Bare, Minded, Minds, store, page
<1>3. ASSUME NEW p \in Page, Use(p) PROVE MindedInv'
  BY <1>3, OpenMinded, BeginMinded, GoOnMinded, UploadedMinded, FailedMinded,
     CompensatedMinded, UnansweredMinded, LeaveMinded, Zenon DEF Use
<1> QED BY <1>1, <1>2, <1>3, ServeMinded DEF Next

\* A public problem without test cases is the business of a page that is just
\* saving it, or somebody was told or chose it so: no order of the calls and
\* their compensations, answered or not, leaves one that nobody knows of:
\* EmptyIsKnown (AddProblem.jsx:179, EditProblem.jsx:193).
THEOREM EmptyProblemsAreKnown == Spec => []EmptyIsKnown
<1>1. Init => MindedInv
  BY IdleTyped, StrayApart DEF Init, MindedInv, StrayInv, Bare
<1>2. KeptInv /\ MindedInv => EmptyIsKnown
  <2> SUFFICES ASSUME MindedInv PROVE EmptyIsKnown
    OBVIOUS
  <2>1. ASSUME NEW i \in Problem, NEW p \in Page, Minds(p, i)
        PROVE  at[p] \in Working /\ (shown[p] = i \/ h[p].id = i)
    BY <2>1 DEF Minds, Working
  <2> QED BY <2>1 DEF MindedInv, Minded, Bare, EmptyIsKnown
<1> QED BY <1>1, <1>2, KeptStart, KeptStep, MindedStep, PTL DEF Spec

=============================================================================
