----------------------------- MODULE ProblemForge -----------------------------
(****************************************************************************)
(* Creating, editing and deleting a problem with its test cases: the pages  *)
(* AddProblem and EditProblem, the problem handlers of the API, the tables  *)
(* problems and test_cases, and the object store with the test files.       *)
(*                                                                          *)
(* A save is several calls of the page, one after the other, with a         *)
(* compensating call if one of them fails; no transaction spans them.  A    *)
(* page that gets no answer goes on to compensate while the handler of the  *)
(* unanswered call may still be at work: that handler is the "stray".  A    *)
(* save and a deletion in the same page, which the page does not exclude,   *)
(* are those of two pages here.                                             *)
(*                                                                          *)
(* All problems of the model have one title, hence one slug.  The files and *)
(* rows of one upload are a batch, named by the number of the save.         *)
(****************************************************************************)
EXTENDS Naturals, FiniteSets

CONSTANTS
    Page,         \* open pages, of either kind
    Adders,       \* those that are AddProblem; the others are EditProblem
    Admins,       \* those whose user is an admin; the others are the author's
    Stray,        \* the handler whose page has stopped waiting
    MaxProblems,  \* bound: problems created
    MaxSaves,     \* bound: clicks on Publish and Save
    Faults,       \* kinds of failure this instance injects
    MaxFaults     \* bound: how many failures one behaviour contains

\* "network": a call gets no answer.  "database", "store": a call of a handler
\* to PostgreSQL or to the object store fails.  "leave": the page is closed
\* while it works.
ASSUME ForgeAssumption ==
    /\ Adders \subseteq Page /\ Admins \subseteq Page /\ Stray \notin Page
    /\ MaxProblems \in Nat /\ MaxSaves \in Nat /\ MaxFaults \in Nat
    /\ Faults \subseteq {"network", "database", "store", "leave"}

Problem == 1..MaxProblems
Batch   == 1..MaxSaves
Handler == Page \cup {Stray}

VARIABLES
    row,      \* each problem's row: its visibility, if it exists
    cases,    \* the batches whose rows test_cases holds for it
    stored,   \* batches whose files the object store holds
    at,       \* what each page is doing
    shown,    \* the problem it is about, 0 for a problem not yet created
    form,     \* the test cases in it: "blank" keeps the button disabled
    public,   \* the visibility chosen in it
    batch,    \* the number of its latest save
    says,     \* its status message
    h,        \* the handler of its call, and the stray
    saves,    \* saves so far
    touched,  \* since a page's last click another handler worked on its problem
    torn,     \* batches whose files went although their rows may have stayed
    excused,  \* problems a save of which was given up, or left without cases
    budget    \* failures still to be injected

store == <<row, cases, stored, torn>>
page  == <<at, shown, form, public, batch, says, saves>>
vars  == <<store, page, h, touched, excused, budget>>

Spend(f) == f \in Faults /\ budget > 0 /\ budget' = budget - 1

Exists(i) == row[i] \in {"draft", "public"}
Visibility(b) == IF b THEN "public" ELSE "draft"

Working == {"create", "upload", "rollback", "update", "clear", "fallback", "delete"}

Idle == [op |-> "none", id |-> 0, batch |-> 0, public |-> FALSE, saw |-> {},
         step |-> "idle"]

Step == {"idle", "start", "write", "read", "wipe", "erase", "drop", "put",
         "insert", "ok", "failed"}

TypeOK ==
    /\ row \in [Problem -> {"none", "draft", "public", "gone"}]
    /\ cases \in [Problem -> SUBSET Batch]
    /\ stored \subseteq Batch /\ torn \subseteq Batch
    /\ at \in [Page -> Working \cup {"closed", "form", "done"}]
    /\ shown \in [Page -> 0..MaxProblems]
    /\ form \in [Page -> {"blank", "cases", "empty"}]
    /\ public \in [Page -> BOOLEAN]
    /\ batch \in [Page -> 0..MaxSaves] /\ saves \in 0..MaxSaves
    /\ says \in [Page -> {"nothing", "working", "load", "published", "metadata",
                          "rolledback", "orphan", "saved", "draft", "critical",
                          "undeleted"}]
    /\ h \in [Handler -> [op : {"none", "create", "update", "clear", "upload",
                                "remove"},
                          id : 0..MaxProblems, batch : 0..MaxSaves,
                          public : BOOLEAN, saw : SUBSET Batch, step : Step]]
    /\ touched \in [Page -> BOOLEAN]
    /\ excused \subseteq Problem
    /\ budget \in 0..MaxFaults

Init ==
    /\ row = [i \in Problem |-> "none"] /\ cases = [i \in Problem |-> {}]
    /\ stored = {} /\ torn = {}
    /\ at = [p \in Page |-> "closed"] /\ shown = [p \in Page |-> 0]
    /\ form = [p \in Page |-> "blank"] /\ public = [p \in Page |-> FALSE]
    /\ batch = [p \in Page |-> 0] /\ saves = 0
    /\ says = [p \in Page |-> "nothing"]
    /\ h = [x \in Handler |-> Idle]
    /\ touched = [p \in Page |-> FALSE]
    /\ excused = {} /\ budget = MaxFaults

-----------------------------------------------------------------------------
(* The handlers of the API, one step per access to the stores. *)

\* Handler x moves on; every other page on the same problem has been touched.
Advance(x, step) ==
    /\ h' = [h EXCEPT ![x].step = step]
    /\ touched' = [p \in Page |->
                     touched[p] \/ (p # x /\ h[x].id \in {shown[p], h[p].id})]

At(x, op, step) == h[x].op \in op /\ h[x].step = step

\* CreateProblem: the slug is unique, so is the problem with this title.
Create(x) ==
    /\ At(x, {"create"}, "start")
    /\ \E i \in Problem :
         /\ row[i] = "none" /\ \A j \in Problem : j < i => row[j] # "none"
         /\ IF \E j \in Problem : Exists(j)
            THEN /\ h' = [h EXCEPT ![x].step = "failed"]
                 /\ UNCHANGED row
            ELSE /\ row' = [row EXCEPT ![i] = Visibility(h[x].public)]
                 /\ h' = [h EXCEPT ![x].step = "ok", ![x].id = i]
    /\ UNCHANGED <<cases, stored, torn, page, touched, excused, budget>>

\* The first read of the other handlers: the author, or for a deletion the
\* whole problem, which a professor may not delete once it is public.
Check(x) ==
    /\ At(x, {"update", "clear", "upload", "remove"}, "start")
    /\ LET op == h[x].op
           refused == \/ ~Exists(h[x].id)
                      \/ /\ op = "remove" /\ x \notin Admins
                         /\ row[h[x].id] = "public"
       IN Advance(x, IF refused THEN "failed"
                     ELSE IF op = "update" THEN "write"
                     ELSE IF op = "upload" THEN "put" ELSE "read")
    /\ UNCHANGED <<store, page, excused, budget>>

\* UpdateProblem: an UPDATE of a row that is gone changes nothing and is no
\* error.
Write(x) ==
    /\ At(x, {"update"}, "write")
    /\ row' = [row EXCEPT ![h[x].id] =
                 IF Exists(h[x].id) THEN Visibility(h[x].public) ELSE @]
    /\ Advance(x, "ok")
    /\ UNCHANGED <<cases, stored, torn, page, excused, budget>>

\* ClearTestCases, on its own or within RemoveProblem, reads the rows first.
Read(x) ==
    /\ At(x, {"clear", "remove"}, "read")
    /\ IF Exists(h[x].id)
       THEN /\ h' = [h EXCEPT ![x].saw = cases[h[x].id], ![x].step = "wipe"]
            /\ UNCHANGED touched
       ELSE Advance(x, "failed")
    /\ UNCHANGED <<store, page, excused, budget>>

\* A programmer's slip: everything under the prefix of the problem is deleted,
\* not only the files of the rows that were read.
Wipe_ByPrefix(x) ==
    /\ At(x, {"clear", "remove"}, "wipe")
    /\ stored' = stored \ {h[y].batch : y \in {z \in Handler : h[z].id = h[x].id}}
    /\ UNCHANGED budget
    /\ torn' = torn \cup h[x].saw
    /\ Advance(x, "erase")
    /\ UNCHANGED <<row, cases, page, excused>>

\* ClearTestCases deletes the files of the rows it read; errors of the store
\* are logged only.
Wipe(x) ==
    /\ At(x, {"clear", "remove"}, "wipe")
    /\ \/ stored' = stored \ h[x].saw /\ UNCHANGED budget
       \/ Spend("store") /\ UNCHANGED stored
    /\ torn' = torn \cup h[x].saw
    /\ Advance(x, "erase")
    /\ UNCHANGED <<row, cases, page, excused>>

\* ClearTestCases then deletes the rows, those that came in meanwhile included.
Erase(x) ==
    /\ At(x, {"clear", "remove"}, "erase")
    /\ cases' = [cases EXCEPT ![h[x].id] = {}]
    /\ Advance(x, IF h[x].op = "clear" THEN "ok" ELSE "drop")
    /\ UNCHANGED <<row, stored, torn, page, excused, budget>>

\* DeleteProblem: the rows of test cases go by cascade.
Drop(x) ==
    /\ At(x, {"remove"}, "drop")
    /\ row' = [row EXCEPT ![h[x].id] = IF Exists(h[x].id) THEN "gone" ELSE @]
    /\ cases' = [cases EXCEPT ![h[x].id] = {}]
    /\ Advance(x, "ok")
    /\ UNCHANGED <<stored, torn, page, excused, budget>>

\* UploadTestCasesBatch stores the files; if one fails, those before it are
\* cleaned up.
Put(x) ==
    /\ At(x, {"upload"}, "put")
    /\ \/ /\ stored' = stored \cup {h[x].batch}
          /\ Advance(x, "insert") /\ UNCHANGED budget
       \/ /\ Spend("store") /\ UNCHANGED stored
          /\ Advance(x, "failed")
    /\ UNCHANGED <<row, cases, torn, page, excused>>

\* A programmer's slip: the rows are inserted for a problem that is gone.
Insert_NoForeignKey(x) ==
    /\ At(x, {"upload"}, "insert")
    /\ cases' = [cases EXCEPT ![h[x].id] = @ \cup {h[x].batch}]
    /\ Advance(x, "ok")
    /\ UNCHANGED <<row, stored, torn, page, excused, budget>>

\* The rows are inserted in one transaction, which the foreign key lets through
\* only if the problem is there.  If it fails the files are cleaned up, also
\* when only the answer to its COMMIT was lost.
Insert(x) ==
    /\ At(x, {"upload"}, "insert")
    /\ \/ /\ Exists(h[x].id)
          /\ cases' = [cases EXCEPT ![h[x].id] = @ \cup {h[x].batch}]
          /\ Advance(x, "ok") /\ UNCHANGED <<stored, torn, budget>>
       \/ /\ ~Exists(h[x].id)
          /\ stored' = stored \ {h[x].batch}
          /\ Advance(x, "failed") /\ UNCHANGED <<cases, torn, budget>>
       \/ /\ Exists(h[x].id) /\ Spend("database")
          /\ \/ cases' = [cases EXCEPT ![h[x].id] = @ \cup {h[x].batch}]
             \/ UNCHANGED cases
          /\ stored' = stored \ {h[x].batch}
          /\ torn' = torn \cup {h[x].batch}
          /\ Advance(x, "failed")
    /\ UNCHANGED <<row, page, excused>>

\* The database refuses a step that has no other effect.
Refuse(x) ==
    /\ h[x].step \in {"start", "write", "read", "erase", "drop"}
    /\ Spend("database")
    /\ h' = [h EXCEPT ![x].step = "failed"]
    /\ UNCHANGED <<store, page, touched, excused>>

\* The server notices that the client of the stray is gone, or it has finished.
StrayEnds ==
    /\ h[Stray].op # "none" /\ h' = [h EXCEPT ![Stray] = Idle]
    /\ UNCHANGED <<store, page, touched, excused, budget>>

Serve(x) == Create(x) \/ Check(x) \/ Write(x) \/ Read(x) \/ Wipe(x) \/ Erase(x)
            \/ Drop(x) \/ Put(x) \/ Insert(x) \/ Refuse(x)

-----------------------------------------------------------------------------
(* The pages. *)

\* The page sends its next call and waits for the answer.
Call(p, doing, op, id, vis) ==
    /\ at' = [at EXCEPT ![p] = doing]
    /\ h' = [h EXCEPT ![p] = [Idle EXCEPT !.op = op, !.id = id, !.public = vis,
                              !.batch = batch'[p], !.step = "start"]]

\* The page stops working and says so.
Stop(p, where, message) ==
    /\ at' = [at EXCEPT ![p] = where]
    /\ says' = [says EXCEPT ![p] = message]
    /\ h' = [h EXCEPT ![p] = Idle]

\* AddProblem is opened, or its form reset for another problem: one test case,
\* still empty.
OpenAdd(p) ==
    /\ p \in Adders /\ at[p] \in {"closed", "done"}
    /\ at' = [at EXCEPT ![p] = "form"] /\ shown' = [shown EXCEPT ![p] = 0]
    /\ form' = [form EXCEPT ![p] = "blank"]
    /\ public' = [public EXCEPT ![p] = FALSE]
    /\ says' = [says EXCEPT ![p] = "nothing"]
    /\ UNCHANGED <<store, batch, saves, h, touched, excused, budget>>

\* EditProblem is opened on a problem and loads it; what the two GETs return is
\* stale by the next save in any case, so they are one step.  A test case whose
\* file cannot be read has an empty field.  If the second GET fails, the form
\* is shown without test cases.
OpenEdit(p, i) ==
    /\ p \notin Adders /\ at[p] \in {"closed", "done"} /\ Exists(i)
    /\ at' = [at EXCEPT ![p] = "form"] /\ shown' = [shown EXCEPT ![p] = i]
    /\ public' = [public EXCEPT ![p] = (row[i] = "public")]
    /\ \/ /\ form' = [form EXCEPT ![p] =
                        IF cases[i] = {} THEN "empty"
                        ELSE IF cases[i] \subseteq stored THEN "cases" ELSE "blank"]
          /\ says' = [says EXCEPT ![p] = "nothing"]
          /\ UNCHANGED budget
       \/ /\ Spend("network")
          /\ form' = [form EXCEPT ![p] = "empty"]
          /\ says' = [says EXCEPT ![p] = "load"]
    /\ UNCHANGED <<store, batch, saves, h, touched, excused>>

\* Test cases are filled in, added or removed, the visibility chosen.
Change(p) ==
    /\ at[p] = "form"
    /\ \E f \in {"cases", "empty"}, v \in BOOLEAN :
         /\ <<f, v>> # <<form[p], public[p]>>
         /\ form' = [form EXCEPT ![p] = f] /\ public' = [public EXCEPT ![p] = v]
    /\ UNCHANGED <<store, at, shown, batch, says, saves, h, touched, excused, budget>>

\* What a click on one of the buttons has in common.
Begin(p) ==
    /\ at[p] = "form"
    /\ says' = [says EXCEPT ![p] = "working"]
    /\ touched' = [touched EXCEPT ![p] = FALSE]

\* handlePublish: the bound leaves a problem to be created.
Publish(p) ==
    /\ p \in Adders /\ form[p] # "blank" /\ saves < MaxSaves
    /\ \E i \in Problem : row[i] = "none"
    /\ saves' = saves + 1 /\ batch' = [batch EXCEPT ![p] = saves + 1]
    /\ Begin(p) /\ Call(p, "create", "create", 0, public[p])
    /\ shown' = [shown EXCEPT ![p] = 0]
    /\ UNCHANGED <<store, form, public, excused, budget>>

\* handleSaveChanges.
Save(p) ==
    /\ p \notin Adders /\ form[p] # "blank" /\ saves < MaxSaves
    /\ saves' = saves + 1 /\ batch' = [batch EXCEPT ![p] = saves + 1]
    /\ Begin(p) /\ Call(p, "update", "update", shown[p], public[p])
    /\ UNCHANGED <<store, shown, form, public, excused, budget>>

\* handleDelete: the button is there for an admin, or for a draft.
Delete(p) ==
    /\ p \notin Adders /\ (p \in Admins \/ ~public[p])
    /\ UNCHANGED <<saves, batch>>
    /\ Begin(p) /\ Call(p, "delete", "remove", shown[p], FALSE)
    /\ UNCHANGED <<store, shown, form, public, excused, budget>>

Answered(p, doing, step) == at[p] = doing /\ h[p].step = step

\* Without test cases in the form nothing is uploaded.
Excuse(p) == excused' = IF form[p] = "empty" THEN excused \cup {shown'[p]}
                                             ELSE excused

Created(p) ==
    /\ Answered(p, "create", "ok")
    /\ shown' = [shown EXCEPT ![p] = h[p].id]
    /\ Excuse(p)
    /\ UNCHANGED batch
    /\ IF form[p] = "empty"
       THEN Stop(p, "done", "published")
       ELSE Call(p, "upload", "upload", h[p].id, FALSE) /\ UNCHANGED says
    /\ UNCHANGED <<store, form, public, saves, touched, budget>>

Updated(p) ==
    /\ Answered(p, "update", "ok") /\ UNCHANGED batch
    /\ Call(p, "clear", "clear", shown[p], FALSE)
    /\ UNCHANGED <<store, shown, form, public, says, saves, touched, excused, budget>>

Cleared(p) ==
    /\ Answered(p, "clear", "ok") /\ UNCHANGED <<batch, shown>>
    /\ Excuse(p)
    /\ IF form[p] = "empty"
       THEN Stop(p, "done", "saved")
       ELSE Call(p, "upload", "upload", shown[p], FALSE) /\ UNCHANGED says
    /\ UNCHANGED <<store, form, public, saves, touched, budget>>

Uploaded(p) ==
    /\ Answered(p, "upload", "ok")
    /\ Stop(p, "done", IF p \in Adders THEN "published" ELSE "saved")
    /\ UNCHANGED <<store, shown, form, public, batch, saves, touched, excused, budget>>

\* A programmer's slip: the problem is created again, the first one stays.
PublishFailed_NoRollback(p) ==
    /\ p \in Adders /\ UNCHANGED batch
    /\ Answered(p, "create", "failed") \/ Answered(p, "upload", "failed")
    /\ Stop(p, "form", "metadata")
    /\ UNCHANGED <<store, shown, form, public, saves, touched, excused, budget>>

\* The catch clause of handlePublish.
PublishFailed(p) ==
    /\ p \in Adders /\ UNCHANGED batch
    /\ \/ Answered(p, "create", "failed") /\ Stop(p, "form", "metadata")
       \/ /\ Answered(p, "upload", "failed")
          /\ Call(p, "rollback", "remove", shown[p], FALSE) /\ UNCHANGED says
    /\ UNCHANGED <<store, shown, form, public, saves, touched, excused, budget>>

\* A programmer's slip: after a failed upload the problem is left as it is.
SaveFailed_LeftAsIs(p) ==
    /\ p \notin Adders /\ UNCHANGED batch
    /\ \E doing \in {"update", "clear", "upload"} : Answered(p, doing, "failed")
    /\ Stop(p, "form", "draft")
    /\ UNCHANGED <<store, shown, form, public, saves, touched, excused, budget>>

\* The catch clause of handleSaveChanges: the problem is made a draft.
SaveFailed(p) ==
    /\ p \notin Adders /\ UNCHANGED batch
    /\ \E doing \in {"update", "clear", "upload"} : Answered(p, doing, "failed")
    /\ Call(p, "fallback", "update", shown[p], FALSE)
    /\ UNCHANGED <<store, shown, form, public, says, saves, touched, excused, budget>>

\* The end of a compensation or of a deletion.
Compensated(p) ==
    /\ \/ Answered(p, "rollback", "ok") /\ Stop(p, "form", "rolledback")
       \/ Answered(p, "rollback", "failed") /\ Stop(p, "form", "orphan")
       \/ Answered(p, "fallback", "ok") /\ Stop(p, "form", "draft")
       \/ Answered(p, "fallback", "failed") /\ Stop(p, "form", "critical")
       \/ Answered(p, "delete", "ok") /\ Stop(p, "closed", "nothing")
       \/ Answered(p, "delete", "failed") /\ Stop(p, "form", "undeleted")
    /\ excused' = IF says'[p] \in {"orphan", "critical", "undeleted"}
                  THEN excused \cup {shown[p]} ELSE excused
    /\ UNCHANGED <<store, shown, form, public, batch, saves, touched, budget>>

\* What becomes of a call nobody waits for any longer.
Abandon(p, left) ==
    /\ h[Stray].op = "none"
    /\ h' = [h EXCEPT ![p] = left,
                      ![Stray] = IF h[p].step \in {"ok", "failed"} THEN Idle
                                                                   ELSE h[p]]

\* A call gets no answer, whatever its handler has done or will do.  Of the
\* problem of an unanswered POST /problems nobody knows; an unanswered deletion
\* may still take test cases that are saved later, and an unanswered PUT may
\* still publish what the page has made a draft meanwhile.
Unanswered(p) ==
    /\ at[p] \in Working /\ h[p].step # "failed" /\ Spend("network")
    /\ Abandon(p, [Idle EXCEPT !.step = "failed"])
    /\ excused' = IF h[p].op = "create" THEN Problem
                  ELSE IF \/ h[p].op \in {"clear", "remove"}
                          \/ h[p].public /\ h[p].step \in {"start", "write"}
                       THEN excused \cup {shown[p]}
                  ELSE excused
    /\ UNCHANGED <<store, page, touched>>

\* The page is left, with its work undone.
Leave(p) ==
    /\ IF at[p] \in Working
       THEN Spend("leave") /\ Abandon(p, Idle)
       ELSE at[p] \in {"form", "done"} /\ UNCHANGED <<h, budget>>
    /\ at' = [at EXCEPT ![p] = "closed"]
    /\ says' = [says EXCEPT ![p] = "nothing"]
    /\ excused' = IF at[p] = "create" THEN Problem
                  ELSE IF at[p] \in Working THEN excused \cup {shown[p]} ELSE excused
    /\ UNCHANGED <<store, shown, form, public, batch, saves, touched>>

Use(p) ==
    \/ OpenAdd(p) \/ (\E i \in Problem : OpenEdit(p, i)) \/ Change(p)
    \/ Publish(p) \/ Save(p) \/ Delete(p) \/ Created(p) \/ Updated(p)
    \/ Cleared(p) \/ Uploaded(p) \/ PublishFailed(p) \/ SaveFailed(p)
    \/ Compensated(p) \/ Unanswered(p) \/ Leave(p)

Next == (\E x \in Handler : Serve(x)) \/ StrayEnds \/ (\E p \in Page : Use(p))

Spec == Init /\ [][Next]_vars

-----------------------------------------------------------------------------
(* Properties. *)

\* Unless another handler has worked on the problem since the click, what the
\* page says of a save is so: the problem is there with the chosen visibility,
\* with the test cases of this save and no others, and with their files
\* (AddProblem.jsx:172, EditProblem.jsx:187); "forced into a private Draft"
\* means that it is a draft (EditProblem.jsx:208).
SavedAsSaid ==
    \A p \in Page : LET i == shown[p] IN
      ~touched[p] =>
      /\ says[p] \in {"published", "saved"} =>
           /\ row[i] = Visibility(public[p])
           /\ cases[i] = IF form[p] = "empty" THEN {} ELSE {batch[p]}
           /\ cases[i] \subseteq stored
      /\ says[p] = "draft" => row[i] = "draft"

\* A publication that was "safely rolled back" is gone with its test cases,
\* and stays so whatever the unanswered upload does afterwards
\* (AddProblem.jsx:182).
RolledBackIsGone ==
    \A p \in Page : says[p] = "rolledback" =>
      row[shown[p]] = "gone" /\ cases[shown[p]] = {}

\* A test case in the table has its files, unless a deletion of test cases is
\* under way or broke off, or the answer to the COMMIT of its upload was lost:
\* no order of concurrent uploads and deletions loses files under rows that
\* stay (problem_service.go:175, problem_controller.go:293).
RowsHaveObjects ==
    \A i \in Problem : cases[i] \ stored \subseteq torn

\* Students find no public problem without test cases, unless somebody is just
\* saving it, a form without test cases was saved, a save was given up, a
\* creation, a deletion or a request to publish left unanswered, or the page
\* said that its deletion or compensation failed (AddProblem.jsx:179,
\* EditProblem.jsx:193).
EmptyIsKnown ==
    \A i \in Problem : row[i] = "public" /\ cases[i] = {} =>
      \/ i \in excused
      \/ \E p \in Page : at[p] \in Working /\ (shown[p] = i \/ h[p].id = i)

=============================================================================
