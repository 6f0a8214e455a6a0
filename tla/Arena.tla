-------------------------------- MODULE Arena --------------------------------
(****************************************************************************)
(* The execution page of one problem, for one student in one browser tab:   *)
(* the editor with its saved draft, the Run and Submit buttons, and the     *)
(* event stream that brings an answer, from the click through the API's     *)
(* stream cap and the hub to the page.                                      *)
(*                                                                          *)
(* The page is a React component.  It is mounted anew at every visit; what  *)
(* a visit started is not cancelled when the page is left, so an answer may *)
(* reach the closures of a visit that is over.  A handler runs to its next  *)
(* await without interruption and effects run with the change that causes   *)
(* them; timers, answers and stream events come in any order.               *)
(*                                                                          *)
(* A text of the editor (source and language together) is represented by    *)
(* the number of the edit that produced it.                                 *)
(****************************************************************************)
EXTENDS Naturals, Sequences, FiniteSets

CONSTANTS
    MaxVisits,    \* bound: how often the page is opened
    MaxEdits,     \* bound: texts written or restored
    MaxRequests,  \* bound: clicks on Run and Submit together
    MaxStreams,   \* maxConnections of RequireSSECap, for each kind of stream
    Faults,       \* kinds of failure this instance injects
    MaxFaults     \* bound: how many failures one behaviour contains

\* "answer": the answer to a POST is lost.  "stream": an open stream breaks.
\* "redis": a script of the stream cap fails, or its counter expires.
\* "session": the session is superseded and a request is refused with 401.
ASSUME ArenaAssumption ==
    /\ MaxVisits \in Nat /\ MaxEdits \in Nat /\ MaxRequests \in Nat
    /\ MaxStreams \in Nat \ {0}
    /\ Faults \subseteq {"answer", "stream", "redis", "session"}
    /\ MaxFaults \in Nat

Visit   == 1..MaxVisits
Request == 1..MaxRequests
Text    == 0..MaxEdits
Kind    == {"submit", "run"}

VARIABLES
    open,      \* the page is mounted
    visit,     \* number of the latest visit
    code,      \* text in the editor, and whether it is a template or empty
    edits,     \* edits made so far
    draft,     \* the draft in localStorage, 0 if there is none
    timer,     \* the debounce timer of the draft is armed
    busy,      \* isProcessing
    status,    \* submitStatus and the request it is about
    output,    \* consoleOutput, likewise
    sse,       \* sseRef.current of each visit
    kind,      \* what each request is, "none" before the click
    owner,     \* the visit each request was made in
    text,      \* how many edits had been made when it was clicked
    call,      \* its POST
    job,       \* its job in the worker
    client,    \* its EventSource
    server,    \* the handler of its stream
    inbox,     \* events under way to its EventSource
    count,     \* the Redis counter sse_count:<kind>:<user>
    leaked,    \* slots that no handler will give back
    expired,   \* the counter has been lost to its TTL
    missed,    \* requests whose result was published before anyone listened
    late,      \* streams opened when their page had been left
    cleared,   \* the draft was removed since the editor last changed
    restored,  \* a text was restored while the present request is processed
    budget     \* failures still to be injected

editor  == <<code, edits, draft, timer, cleared, restored>>
panel   == <<busy, status, output>>
request == <<kind, owner, text>>
limiter == <<count, leaked, expired>>
vars == <<open, visit, editor, panel, sse, request, call, job, client, server,
          inbox, limiter, missed, late, budget>>

Spend(f) == f \in Faults /\ budget > 0 /\ budget' = budget - 1

\* What the status line or the console says, and of which request.
Message == [says : {"nothing", "waiting", "running", "result", "error"},
            of : 0..MaxRequests]
Blank == [says |-> "nothing", of |-> 0]
About(r, s) == [says |-> s, of |-> r]

Event == {"Running", "AC", "other", "error"}

TypeOK ==
    /\ open \in BOOLEAN /\ visit \in 0..MaxVisits
    /\ code \in [edit : Text, is : {"text", "template", "empty"}]
    /\ edits \in Text /\ draft \in Text /\ timer \in BOOLEAN
    /\ busy \in BOOLEAN /\ status \in Message /\ output \in Message
    /\ sse \in [Visit -> 0..MaxRequests]
    /\ kind \in [Request -> Kind \cup {"none"}]
    /\ owner \in [Request -> 0..MaxVisits] /\ text \in [Request -> Text]
    /\ call \in [Request -> {"none", "sent", "accepted", "done"}]
    /\ job \in [Request -> {"none", "queued", "running", "judged"}]
    /\ client \in [Request -> {"none", "open", "closed"}]
    /\ server \in [Request -> {"none", "subscribing", "listening", "done"}]
    /\ inbox \in [Request -> Seq(Event)]
    /\ count \in [Kind -> Nat] /\ leaked \in [Kind -> Nat]
    /\ expired \in [Kind -> BOOLEAN]
    /\ missed \subseteq Request /\ late \subseteq Request
    /\ cleared \in BOOLEAN /\ restored \in BOOLEAN
    /\ budget \in 0..MaxFaults

Init ==
    /\ open = FALSE /\ visit = 0
    /\ code = [edit |-> 0, is |-> "template"] /\ edits = 0
    /\ draft = 0 /\ timer = FALSE
    /\ busy = FALSE /\ status = Blank /\ output = Blank
    /\ sse = [v \in Visit |-> 0]
    /\ kind = [r \in Request |-> "none"]
    /\ owner = [r \in Request |-> 0] /\ text = [r \in Request |-> 0]
    /\ call = [r \in Request |-> "none"] /\ job = [r \in Request |-> "none"]
    /\ client = [r \in Request |-> "none"] /\ server = [r \in Request |-> "none"]
    /\ inbox = [r \in Request |-> <<>>]
    /\ count = [k \in Kind |-> 0] /\ leaked = [k \in Kind |-> 0]
    /\ expired = [k \in Kind |-> FALSE]
    /\ missed = {} /\ late = {} /\ cleared = FALSE /\ restored = FALSE
    /\ budget = MaxFaults

-----------------------------------------------------------------------------
(* The editor and its draft. *)

\* The save effect: every change of the text arms the timer anew, an empty
\* editor arms none.
Arms(c) == c.is # "empty"

\* A programmer's slip: the new text of a restored submission is not saved.
Put_TypedOnly(c) ==
    /\ code' = c
    /\ timer' = (Arms(c) /\ ~busy)
    /\ cleared' = FALSE

\* The text becomes c; whoever changes it, the effect of the new text runs.
Put(c) ==
    /\ code' = c
    /\ timer' = Arms(c)
    /\ cleared' = FALSE

\* The timer goes off: a text that is not the template is saved.
SaveDraft ==
    /\ timer /\ timer' = FALSE
    /\ draft' = IF code.is = "text" THEN code.edit ELSE draft
    /\ cleared' = (cleared /\ code.is # "text")
    /\ UNCHANGED <<open, visit, code, edits, restored, panel, sse, request, call,
                   job, client, server, inbox, limiter, missed, late, budget>>

\* A programmer's slip: the editor can be written to at any time.
CanType_Always == open

\* readOnly: isProcessing.
CanType == open /\ ~busy

\* The student types a text, or deletes all of it.
Type ==
    /\ CanType /\ edits < MaxEdits
    /\ edits' = edits + 1
    /\ \E is \in {"text", "empty"} : Put([edit |-> edits + 1, is |-> is])
    /\ UNCHANGED <<open, visit, draft, restored, panel, sse, request, call, job,
                   client, server, inbox, limiter, missed, late, budget>>

\* Another language is selected, or the reset confirmed: the template of the
\* language.  The selector and the reset button are disabled while busy.
TakeTemplate ==
    /\ open /\ ~busy
    /\ Put([edit |-> 0, is |-> "template"])
    /\ UNCHANGED <<open, visit, edits, draft, restored, panel, sse, request, call,
                   job, client, server, inbox, limiter, missed, late, budget>>

\* Restore to Editor in the submission history; this button is never disabled.
Restore ==
    /\ open /\ edits < MaxEdits
    /\ \E r \in Request : kind[r] = "submit" /\ job[r] # "none"
    /\ edits' = edits + 1
    /\ Put([edit |-> edits + 1, is |-> "text"])
    /\ restored' = (restored \/ busy)
    /\ UNCHANGED <<open, visit, draft, panel, sse, request, call, job, client,
                   server, inbox, limiter, missed, late, budget>>

-----------------------------------------------------------------------------
(* Clicks. *)

\* A programmer's slip: the buttons stay enabled.
CanClick_Always == open

\* The buttons are disabled while isProcessing.
CanClick == open /\ ~busy

\* The requests of a kind made in the present visit; the latest of them.
Mine(k) == {r \in Request : kind[r] = k /\ owner[r] = visit}
Latest(k) == IF Mine(k) = {} THEN 0
             ELSE CHOOSE r \in Mine(k) : \A q \in Mine(k) : q <= r

\* close() on the streams in S: nothing that is under way arrives any more.
Close(S) ==
    /\ client' = [r \in Request |->
                    IF r \in S /\ client[r] = "open" THEN "closed" ELSE client[r]]
    /\ inbox' = [r \in Request |-> IF r \in S THEN <<>> ELSE inbox[r]]

\* handleSubmit and handleRunCode up to their await.  A run also opens the
\* console on its output, a submission closes it; neither matters here.
Click(r, k) ==
    /\ CanClick
    /\ kind[r] = "none" /\ \A q \in Request : q < r => kind[q] # "none"
    /\ kind' = [kind EXCEPT ![r] = k]
    /\ owner' = [owner EXCEPT ![r] = visit]
    /\ text' = [text EXCEPT ![r] = edits]
    /\ call' = [call EXCEPT ![r] = "sent"]
    /\ busy' = TRUE
    /\ IF k = "submit" THEN status' = About(r, "waiting") /\ UNCHANGED output
                       ELSE output' = About(r, "waiting") /\ UNCHANGED status
    /\ Close({sse[visit]})
    /\ restored' = FALSE
    /\ UNCHANGED <<open, visit, code, edits, draft, timer, cleared, sse, job,
                   server, limiter, missed, late, budget>>

Submit(r)  == Click(r, "submit")
RunCode(r) == Click(r, "run")

\* ProcessSubmission or ProcessRun has taken the request.
Accept(r) ==
    /\ call[r] = "sent"
    /\ call' = [call EXCEPT ![r] = "accepted"]
    /\ job' = [job EXCEPT ![r] = "queued"]
    /\ UNCHANGED <<open, visit, editor, panel, sse, request, client, server,
                   inbox, limiter, missed, late, budget>>

\* An answer changes what is shown only if the visit is not over.
Here(r) == open /\ owner[r] = visit

\* The POST is answered: the stream is opened, by a page that may be gone.
Answer(r) ==
    /\ call[r] = "accepted"
    /\ call' = [call EXCEPT ![r] = "done"]
    /\ sse' = [sse EXCEPT ![owner[r]] = r]
    /\ client' = [client EXCEPT ![r] = "open"]
    /\ late' = IF Here(r) THEN late ELSE late \cup {r}
    /\ UNCHANGED <<open, visit, editor, panel, request, job, server, inbox,
                   limiter, missed, budget>>

\* The catch clause: 400, 403, 429 or 503 instead of an acceptance, or the
\* answer is lost on the way although the request was accepted.
Refuse(r) ==
    /\ \/ call[r] = "sent" /\ UNCHANGED budget
       \/ call[r] = "accepted" /\ Spend("answer")
    /\ call' = [call EXCEPT ![r] = "done"]
    /\ IF Here(r)
       THEN /\ busy' = FALSE
            /\ output' = About(r, "error")
            /\ status' = IF kind[r] = "submit" THEN About(r, "error") ELSE status
       ELSE UNCHANGED panel
    /\ UNCHANGED <<open, visit, editor, sse, request, job, client, server, inbox,
                   limiter, missed, late>>

-----------------------------------------------------------------------------
(* The worker, as the stream sees it: Running, then the result.  What is
   published while no handler listens is lost. *)

Publish(r, from, to, event) ==
    /\ job[r] = from /\ job' = [job EXCEPT ![r] = to]
    /\ IF server[r] = "listening" /\ client[r] = "open"
       THEN inbox' = [inbox EXCEPT ![r] = Append(@, event)] /\ UNCHANGED missed
       ELSE /\ missed' = IF to = "judged" THEN missed \cup {r} ELSE missed
            /\ UNCHANGED inbox
    /\ UNCHANGED <<open, visit, editor, panel, sse, request, call, client, server,
                   limiter, late, budget>>

StartJob(r) == Publish(r, "queued", "running", "Running")
EndJob(r)   == \E e \in {"AC", "other"} :
                 /\ e = "AC" => kind[r] = "submit"
                 /\ Publish(r, "running", "judged", e)

-----------------------------------------------------------------------------
(* The stream cap and the stream handlers. *)

\* The decrement script: a counter that is not positive is deleted.
Decremented(n) == IF n > 1 THEN n - 1 ELSE 0

\* The increment script, and the test it makes.
HasSlot(k) == count[k] < MaxStreams

SendError(r) == inbox' = IF client[r] = "open"
                         THEN [inbox EXCEPT ![r] = Append(@, "error")] ELSE inbox

\* A stream request that has reached the API and is still to be handled.
Arrived(r) == client[r] # "none" /\ server[r] = "none"

\* RequireSSECap lets it through; the handler subscribes.
TakeSlot(r) ==
    /\ Arrived(r) /\ HasSlot(kind[r])
    /\ count' = [count EXCEPT ![kind[r]] = @ + 1]
    /\ server' = [server EXCEPT ![r] = "subscribing"]
    /\ UNCHANGED <<open, visit, editor, panel, sse, request, call, job, client,
                   inbox, leaked, expired, missed, late, budget>>

\* 429, or 500 because the script failed before it ran, or the page is gone
\* before its request is read: the stream ends and no slot is taken.
TurnAway(r) ==
    /\ Arrived(r)
    /\ \/ ~HasSlot(kind[r]) /\ UNCHANGED budget
       \/ client[r] = "closed" /\ UNCHANGED budget
       \/ Spend("redis")
    /\ server' = [server EXCEPT ![r] = "done"]
    /\ SendError(r)
    /\ UNCHANGED <<open, visit, editor, panel, sse, request, call, job, client,
                   limiter, missed, late>>

\* The script has run and its reply is lost, or the request is cancelled
\* meanwhile: 500, and nobody will give the slot back.
LoseSlot(r) ==
    /\ Arrived(r) /\ HasSlot(kind[r])
    /\ \/ client[r] = "closed" /\ UNCHANGED budget
       \/ Spend("redis")
    /\ count' = [count EXCEPT ![kind[r]] = @ + 1]
    /\ leaked' = [leaked EXCEPT ![kind[r]] = @ + 1]
    /\ server' = [server EXCEPT ![r] = "done"]
    /\ SendError(r)
    /\ UNCHANGED <<open, visit, editor, panel, sse, request, call, job, client,
                   expired, missed, late>>

\* Redis has confirmed the subscription of the hub.
Listen(r) ==
    /\ server[r] = "subscribing"
    /\ server' = [server EXCEPT ![r] = "listening"]
    /\ UNCHANGED <<open, visit, editor, panel, sse, request, call, job, client,
                   inbox, limiter, missed, late, budget>>

HoldsSlot(r) == server[r] \in {"subscribing", "listening"}

\* A programmer's slip: the slot is given back only if the stream was used.
Release_Listening(r) ==
    /\ client[r] = "closed" /\ HoldsSlot(r)
    /\ server' = [server EXCEPT ![r] = "done"]
    /\ count' = [count EXCEPT ![kind[r]] =
                   IF server[r] = "listening" THEN Decremented(@) ELSE @]
    /\ UNCHANGED <<leaked, budget>>
    /\ UNCHANGED <<open, visit, editor, panel, sse, request, call, job, client,
                   inbox, expired, missed, late>>

\* The client is gone: the handler returns and the goroutine of the cap gives
\* the slot back, unless the script fails within its five seconds.
Release(r) ==
    /\ client[r] = "closed" /\ HoldsSlot(r)
    /\ server' = [server EXCEPT ![r] = "done"]
    /\ \/ /\ count' = [count EXCEPT ![kind[r]] = Decremented(@)]
          /\ UNCHANGED <<leaked, budget>>
       \/ /\ Spend("redis")
          /\ leaked' = [leaked EXCEPT ![kind[r]] = @ + 1] /\ UNCHANGED count
    /\ UNCHANGED <<open, visit, editor, panel, sse, request, call, job, client,
                   inbox, expired, missed, late>>

\* The heartbeats fail for twelve hours: the counter goes.
Expire(k) ==
    /\ count[k] > 0 /\ Spend("redis")
    /\ count' = [count EXCEPT ![k] = 0]
    /\ leaked' = [leaked EXCEPT ![k] = 0]
    /\ expired' = [expired EXCEPT ![k] = TRUE]
    /\ UNCHANGED <<open, visit, editor, panel, sse, request, call, job, client,
                   server, inbox, missed, late>>

\* The connection of a stream breaks: the handler's context ends with it.
Break(r) ==
    /\ client[r] = "open" /\ HoldsSlot(r) /\ Spend("stream")
    /\ server' = [server EXCEPT ![r] = "done"]
    /\ count' = [count EXCEPT ![kind[r]] = Decremented(@)]
    /\ inbox' = [inbox EXCEPT ![r] = Append(@, "error")]
    /\ UNCHANGED <<open, visit, editor, panel, sse, request, call, job, client,
                   leaked, expired, missed, late>>

-----------------------------------------------------------------------------
(* What the page makes of an event. *)

\* The event an EventSource handles next.
Incoming(r) == IF inbox[r] = <<>> THEN "nothing" ELSE Head(inbox[r])

\* "Running" is shown and the stream stays open.
ShowRunning(r) ==
    /\ Incoming(r) = "Running"
    /\ inbox' = [inbox EXCEPT ![r] = Tail(@)]
    /\ IF Here(r)
       THEN IF kind[r] = "submit"
            THEN status' = About(r, "running") /\ UNCHANGED <<busy, output>>
            ELSE output' = About(r, "running") /\ UNCHANGED <<busy, status>>
       ELSE UNCHANGED panel
    /\ UNCHANGED <<client, draft, cleared>>

\* A result is shown and the stream of that visit closed; an accepted
\* submission removes the draft, also when its page is gone.
ShowResult(r) ==
    /\ Incoming(r) \in {"AC", "other"}
    /\ Close({sse[owner[r]]})
    /\ IF Here(r)
       THEN /\ busy' = FALSE
            /\ output' = About(r, "result")
            /\ status' = IF kind[r] = "submit" THEN About(r, "result") ELSE status
       ELSE UNCHANGED panel
    /\ IF Incoming(r) = "AC" THEN draft' = 0 /\ cleared' = TRUE
                                ELSE UNCHANGED <<draft, cleared>>

\* A programmer's slip: the buttons stay disabled after a broken stream.
ShowError_StaysBusy(r) ==
    /\ Incoming(r) = "error"
    /\ Close({sse[owner[r]]})
    /\ UNCHANGED <<busy, status>>
    /\ output' = IF Here(r) /\ kind[r] = "run" THEN About(r, "error") ELSE output
    /\ UNCHANGED <<draft, cleared>>

\* onerror: the stream is closed before it reconnects.  A submission keeps
\* the status it had.
ShowError(r) ==
    /\ Incoming(r) = "error"
    /\ Close({sse[owner[r]]})
    /\ IF Here(r)
       THEN /\ busy' = FALSE
            /\ output' = IF kind[r] = "run" THEN About(r, "error") ELSE output
            /\ UNCHANGED status
       ELSE UNCHANGED panel
    /\ UNCHANGED <<draft, cleared>>

Receive(r) ==
    /\ client[r] = "open"
    /\ ShowRunning(r) \/ ShowResult(r) \/ ShowError(r)
    /\ UNCHANGED <<open, visit, code, edits, timer, restored, sse, request, call,
                   job, server, limiter, missed, late, budget>>

-----------------------------------------------------------------------------
(* The page comes and goes. *)

\* A component is mounted: fresh state, and the draft if there is one.
Enter ==
    /\ ~open /\ visit < MaxVisits
    /\ open' = TRUE /\ visit' = visit + 1
    /\ Put(IF draft # 0 THEN [edit |-> draft, is |-> "text"]
                        ELSE [edit |-> 0, is |-> "template"])
    /\ UNCHANGED <<edits, draft, restored, panel, sse, request, call, job, client,
                   server, inbox, limiter, missed, late, budget>>

\* What goes with the component: its state and its timer.
Unmount ==
    /\ open' = FALSE
    /\ code' = [edit |-> 0, is |-> "template"] /\ timer' = FALSE
    /\ busy' = FALSE /\ status' = Blank /\ output' = Blank
    /\ cleared' = FALSE /\ restored' = FALSE

\* A programmer's slip: the effect returns no clean-up.
Leave_NoCleanup ==
    /\ open /\ Unmount
    /\ UNCHANGED <<client, inbox>>
    /\ UNCHANGED <<visit, edits, draft, sse, request, call, job, server, limiter,
                   missed, late, budget>>

\* The student goes to another page of the application: the clean-up closes
\* the stream of this visit, if it is open by now.
Leave ==
    /\ open /\ Unmount
    /\ Close({sse[visit]})
    /\ UNCHANGED <<visit, edits, draft, sse, request, call, job, server, limiter,
                   missed, late, budget>>

\* The whole document goes, with every stream and every pending answer.
Unload ==
    /\ Unmount
    /\ Close(Request)
    /\ call' = [r \in Request |->
                  IF call[r] \in {"sent", "accepted"} THEN "done" ELSE call[r]]
    /\ UNCHANGED <<visit, edits, sse, request, job, server, limiter, missed, late>>

\* The tab is closed or reloaded.
CloseTab == open /\ Unload /\ UNCHANGED <<draft, budget>>

\* Any request is answered 401: localStorage.clear() and a new document.
SessionEnds ==
    /\ open \/ \E r \in Request : call[r] = "sent"
    /\ Spend("session")
    /\ Unload /\ draft' = 0

-----------------------------------------------------------------------------

Page == SaveDraft \/ Type \/ TakeTemplate \/ Restore
        \/ Enter \/ Leave \/ CloseTab \/ SessionEnds

Exchange(r) ==
    \/ Submit(r) \/ RunCode(r) \/ Accept(r) \/ Answer(r) \/ Refuse(r)
    \/ StartJob(r) \/ EndJob(r)
    \/ TakeSlot(r) \/ TurnAway(r) \/ LoseSlot(r) \/ Listen(r) \/ Release(r)
    \/ Break(r) \/ Receive(r)

Next == Page \/ (\E r \in Request : Exchange(r)) \/ (\E k \in Kind : Expire(k))

Spec == Init /\ [][Next]_vars

\* The browser delivers answers, events and timers, the API answers, the
\* worker judges.  Nobody has to click, and nothing has to fail.
Fairness ==
    /\ WF_vars(SaveDraft)
    /\ \A r \in Request :
         /\ WF_vars(Accept(r) \/ Refuse(r)) /\ WF_vars(Answer(r) \/ Refuse(r))
         /\ WF_vars(StartJob(r)) /\ WF_vars(EndJob(r))
         /\ WF_vars(TakeSlot(r) \/ TurnAway(r)) /\ WF_vars(Listen(r))
         /\ WF_vars(Release(r)) /\ WF_vars(Receive(r))

LiveSpec == Spec /\ Fairness

-----------------------------------------------------------------------------
(* Properties. *)

Holding(k) == {r \in Request : kind[r] = k /\ HoldsSlot(r)}

\* The counter of the stream cap stands for the streams the API serves and
\* the slots that were lost, never for more; until it expires it counts every
\* one of them, so that no more than maxConnections streams of a kind are
\* served at once (sse_limiter.go).
SlotsAccounted ==
    \A k \in Kind :
      /\ count[k] <= MaxStreams
      /\ count[k] <= Cardinality(Holding(k)) + leaked[k]
      /\ ~expired[k] => count[k] = Cardinality(Holding(k)) + leaked[k]

\* A stream belongs to the page that waits for it: an open one is the latest
\* of its visit, held in sseRef, while the page is processing; one that is
\* still open when its page has been left was opened afterwards, because the
\* answer to its POST was still to come (useExecutionEngine.js:41 and :121).
StreamsFollowPage ==
    \A r \in Request : client[r] = "open" =>
      /\ sse[owner[r]] = r
      /\ Here(r) => busy /\ \A q \in Request : owner[q] = visit => q <= r
      /\ ~Here(r) => r \in late

\* The status line speaks of the latest submission of this visit, and the
\* console of the latest run whenever it says that one is under way: no late
\* answer or event of an earlier request overwrites them.
ShownIsLatest ==
    /\ status.says # "nothing" => status.of = Latest("submit")
    /\ \/ output.says \in {"waiting", "running"}
       \/ busy /\ Latest("run") > Latest("submit")
       => output.of = Latest("run")

\* Once the timer has gone off, the text in the editor is the saved draft, so
\* that a reload gives it back; the exception is a draft that an accepted
\* submission removed since (useExecutionEngine.js:75).
AtRestIsSaved ==
    open /\ ~timer /\ code.is = "text" => draft = code.edit \/ cleared

\* The verdict of a submission removes no draft that is newer than its click:
\* the editor is locked meanwhile.  Only a text restored from the history
\* while it is judged, or one written in a later visit, can be lost to it
\* (useExecutionEngine.js:139).
NewerDraftSurvives ==
    [][\A r \in Request :
         Incoming(r) = "AC" /\ ShowResult(r) /\ Here(r) /\ ~restored
           => draft <= text[r]]_vars

\* The buttons come back after every click, unless the result was published
\* before the stream listened: nobody repeats it, and the page waits until it
\* is left (submission_controller.go:164, hub.go:44).
ButtonsReturn ==
    busy ~> (~busy \/ \E r \in missed : Here(r) /\ client[r] = "open")

=============================================================================
