-------------------------------- MODULE Proctor --------------------------------
(****************************************************************************)
(* The secure arena of a contest: the hub (ContestArenaLayout) and the      *)
(* problem page (ContestArena) with the hooks useSecureArena and            *)
(* useAntiCheat, which watch fullscreen, visibility, mouse and keyboard,    *)
(* collect telemetry events in buffers and send them in batches that the    *)
(* API answers before it stores them.                                       *)
(*                                                                          *)
(* The browser leaves fullscreen first and runs the handlers later; a page  *)
(* that has just been mounted sees a fullscreen document before its         *)
(* handlers count exits.  Events are numbered as they are dispatched.       *)
(****************************************************************************)
EXTENDS Naturals, FiniteSets

CONSTANTS
    MaxEvents,   \* bound: telemetry events dispatched
    MaxMounts,   \* bound: arena pages opened, one after the other
    MaxQueue,    \* bound: fullscreen changes the browser has still to report
    Window       \* keystrokes in the typing window

ProctorAssumption ==
    /\ MaxEvents \in Nat /\ MaxMounts \in Nat /\ MaxQueue \in Nat
    /\ Window \in Nat \ {0}

Event == 1..MaxEvents
Hook  == {"secure", "editor"}   \* the two users of useAntiCheat

VARIABLES
    elevated,  \* the user is faculty, of whom nothing is recorded
    arena,     \* the page: "away", "hub" or "problem"
    hooks,     \* the instances of useAntiCheat in it
    whole,     \* the document is in fullscreen
    queue,     \* fullscreen changes not yet reported to the page
    seen,      \* isFullscreen, as the page has it
    entered,   \* hasEnteredArena
    armed,     \* the handlers have been registered again since then
    going,     \* where the page will navigate once fullscreen has changed
    mouseOut,  \* the timer of 45 s since the mouse left
    keys,      \* keystrokes in the window
    told,      \* events dispatched so far
    drops,     \* those of them that report an exit from this page's fullscreen
    early,     \* an exit was reported to this page before it was armed
    buffer,    \* the buffer of each hook
    batches,    \* batches under way
    logged,    \* events in the table
    failed,    \* events lost with their batch or with their insert
    mounts     \* pages opened

vars == <<elevated, arena, hooks, whole, queue, seen, entered, armed, going,
          mouseOut, keys, told, drops, early, buffer, batches, logged, failed,
          mounts>>

screen == <<whole, queue, seen, entered, armed, going, early>>
inputs == <<mouseOut, keys>>
net    == <<batches, logged, failed>>
place  == <<elevated, arena, hooks, mounts>>

TypeOK ==
    /\ elevated \in BOOLEAN /\ arena \in {"away", "hub", "problem"}
    /\ hooks \subseteq Hook /\ whole \in BOOLEAN /\ queue \in 0..MaxQueue
    /\ seen \in BOOLEAN /\ entered \in BOOLEAN /\ armed \in BOOLEAN
    /\ going \in {"nowhere", "hub", "contests"}
    /\ mouseOut \in BOOLEAN /\ keys \in 0..Window
    /\ told \in 0..MaxEvents /\ drops \subseteq 1..told /\ early \in BOOLEAN
    /\ buffer \in [Hook -> SUBSET (1..told)] /\ batches \subseteq SUBSET (1..told)
    /\ logged \subseteq 1..told /\ failed \subseteq 1..told
    /\ mounts \in 0..MaxMounts

Init ==
    /\ elevated \in BOOLEAN /\ arena = "away" /\ hooks = {} /\ whole = FALSE
    /\ queue = 0 /\ seen = FALSE /\ entered = FALSE /\ armed = FALSE
    /\ going = "nowhere" /\ mouseOut = FALSE /\ keys = 0
    /\ told = 0 /\ drops = {} /\ early = FALSE
    /\ buffer = [x \in Hook |-> {}] /\ batches = {} /\ logged = {} /\ failed = {}
    /\ mounts = 0

-----------------------------------------------------------------------------
(* Telemetry. *)

\* dispatchTelemetry in each of the hooks H.
Dispatch(H) ==
    /\ told + Cardinality(H) <= MaxEvents
    /\ told' = told + Cardinality(H)
    /\ \E of \in [H -> (told + 1)..told'] :
         /\ \A x, y \in H : of[x] = of[y] => x = y
         /\ buffer' = [x \in Hook |->
                         IF x \in H THEN buffer[x] \cup {of[x]} ELSE buffer[x]]

Recorded == IF elevated THEN {} ELSE hooks

\* flushTelemetry of one hook: the buffer is cleared before the answer.
Flush(x) ==
    /\ buffer[x] # {}
    /\ batches' = batches \cup {buffer[x]}
    /\ buffer' = [buffer EXCEPT ![x] = {}]
    /\ UNCHANGED <<place, screen, inputs, told, drops, logged, failed>>

\* LogTelemetryBatch: each event is inserted on its own; or the request itself
\* fails.  Nothing is tried again.
Record(b, stored) ==
    /\ b \in batches /\ batches' = batches \ {b}
    /\ logged' = logged \cup stored
    /\ failed' = failed \cup (b \ stored)
    /\ UNCHANGED <<place, screen, inputs, told, drops, buffer>>

\* The tab is hidden: every hook records a blur, the armed page the lost focus.
Hide ==
    /\ arena # "away"
    /\ \/ ~armed /\ Dispatch(Recorded)
       \/ /\ armed
          /\ told' = told + Cardinality(hooks) + 1 /\ told' <= MaxEvents
          /\ buffer' = [x \in Hook |->
               IF x = "secure" THEN buffer[x] \cup {told + 1, told + 2}
               ELSE buffer[x] \cup (told + 3)..told']
    /\ UNCHANGED <<place, screen, inputs, drops, net>>

MouseLeaves ==
    /\ arena # "away" /\ ~elevated /\ ~mouseOut /\ mouseOut' = TRUE
    /\ UNCHANGED <<place, screen, keys, told, drops, buffer, net>>

\* The mouse comes back, or 45 s are over and the document has the focus.
MouseTimer ==
    /\ mouseOut /\ mouseOut' = FALSE
    /\ Dispatch(Recorded) \/ UNCHANGED <<told, buffer>>
    /\ UNCHANGED <<place, screen, keys, drops, net>>

\* The editor reports a paste.
Paste ==
    /\ "editor" \in Recorded /\ Dispatch({"editor"})
    /\ UNCHANGED <<place, screen, inputs, drops, net>>

\* logKeystroke: the window of keystrokes is judged once it is full, and
\* emptied if it is reported.
Keystroke ==
    /\ "editor" \in Recorded
    /\ \/ /\ keys' = (IF keys < Window THEN keys + 1 ELSE Window)
          /\ UNCHANGED <<told, buffer>>
       \/ keys + 1 >= Window /\ keys' = 0 /\ Dispatch({"editor"})
    /\ UNCHANGED <<place, screen, mouseOut, drops, net>>

-----------------------------------------------------------------------------
(* The pages. *)

\* A programmer's slip: the buffers are not flushed on unmount.
Unmount_NoFlush ==
    /\ buffer' = [x \in Hook |-> {}]
    /\ UNCHANGED batches

\* The clean-up of the hooks: one last flush.
Unmount ==
    /\ buffer' = [x \in Hook |-> {}]
    /\ batches' = batches \cup ({buffer[x] : x \in Hook} \ {{}})

\* A page is mounted in place of another: all its state is new, and the effect
\* of useSecureArena reads whether the document is in fullscreen.  Changes not
\* yet reported go to the new page.
Mount(p) ==
    /\ arena' = p
    /\ hooks' = IF p = "away" THEN {} ELSE {"secure"}
    /\ mounts' = IF p = "away" THEN mounts ELSE mounts + 1
    /\ mounts' <= MaxMounts
    /\ seen' = (p # "away" /\ whole)
    /\ entered' = FALSE /\ armed' = FALSE /\ early' = FALSE /\ drops' = {}
    /\ going' = "nowhere" /\ mouseOut' = FALSE /\ keys' = 0
    /\ Unmount

\* A link between the pages, or the browser's own way back.  The user does not
\* go elsewhere in the moment in which the browser settles a request.
Go(p) ==
    /\ p # arena /\ going = "nowhere"
    /\ Mount(p)
    /\ UNCHANGED <<elevated, whole, queue, told, logged, failed>>

\* The problem page has its problem, and with it the editor.
ProblemLoads ==
    /\ arena = "problem" /\ "editor" \notin hooks
    /\ hooks' = hooks \cup {"editor"}
    /\ UNCHANGED <<elevated, arena, mounts, screen, inputs, told, drops, buffer,
                   net>>

\* The document changes to or from fullscreen, by the buttons of the page or
\* by the user's own hand.
Change(to) ==
    /\ queue < MaxQueue /\ whole # to
    /\ whole' = to /\ queue' = queue + 1

EnterFullscreen ==
    /\ arena # "away" /\ Change(TRUE)
    /\ UNCHANGED <<place, seen, entered, armed, going, early, inputs, told, drops,
                   buffer, net>>

ExitFullscreen ==
    /\ Change(FALSE)
    /\ UNCHANGED <<place, seen, entered, armed, going, early, inputs, told, drops,
                   buffer, net>>

\* handleFullscreenChange: it looks at the document of now, not of the change.
FullscreenChanged ==
    /\ queue > 0 /\ queue' = queue - 1
    /\ seen' = (arena # "away" /\ whole)
    /\ IF armed /\ ~whole
       THEN /\ Dispatch({"secure"}) /\ drops' = drops \cup {told + 1}
            /\ UNCHANGED early
       ELSE /\ early' = (early \/ (arena # "away" /\ ~whole))
            /\ UNCHANGED <<told, drops, buffer>>
    /\ UNCHANGED <<place, whole, entered, armed, going, inputs, net>>

\* The check every five seconds: it reports a page that believes itself in
\* fullscreen although the document has left it.
ForceCheck ==
    /\ armed /\ seen /\ ~whole
    /\ Dispatch({"secure"}) /\ drops' = drops \cup {told + 1}
    /\ UNCHANGED <<place, screen, inputs, net>>

\* The page has seen fullscreen: a student has entered.
EnterArena ==
    /\ arena # "away" /\ ~elevated /\ seen /\ ~entered /\ entered' = TRUE
    /\ UNCHANGED <<place, whole, queue, seen, armed, going, early, inputs, told,
                   drops, buffer, net>>

\* The effect of useSecureArena runs again with hasStarted, and looks at the
\* document again.
Arm ==
    /\ entered /\ ~armed /\ armed' = TRUE
    /\ seen' = (seen \/ whole)
    /\ UNCHANGED <<place, whole, queue, entered, going, early, inputs, told,
                   drops, buffer, net>>

\* handleAcknowledgeLockout on the problem page: fullscreen is asked for, and
\* the page goes to the hub even if it is refused.  Should the document be in
\* fullscreen again by then, it leaves it.
Acknowledge ==
    /\ "editor" \in hooks /\ entered /\ ~seen /\ going = "nowhere"
    /\ going' = "hub"
    /\ \/ Change(~whole)
       \/ ~whole /\ UNCHANGED <<whole, queue>>
    /\ UNCHANGED <<place, seen, entered, armed, early, inputs, told, drops, buffer,
                   net>>

\* handleFinishContest in the hub.
Finish ==
    /\ arena = "hub" /\ entered /\ seen /\ going = "nowhere"
    /\ going' = "contests"
    /\ IF whole THEN Change(FALSE) ELSE UNCHANGED <<whole, queue>>
    /\ UNCHANGED <<place, seen, entered, armed, early, inputs, told, drops, buffer,
                   net>>

\* What both wait for: the browser settles their request before or after it
\* reports the change.
Navigate ==
    /\ going # "nowhere"
    /\ Mount(IF going = "hub" THEN "hub" ELSE "away")
    /\ UNCHANGED <<elevated, whole, queue, told, logged, failed>>

\* The tab is closed, or its document replaced: beforeunload flushes as well.
Unload ==
    /\ arena # "away" /\ Mount("away")
    /\ whole' = FALSE /\ queue' = 0
    /\ UNCHANGED <<elevated, told, logged, failed>>

Next ==
    \/ \E x \in Hook : Flush(x)
    \/ \E b \in batches : \E stored \in SUBSET b : Record(b, stored)
    \/ Hide \/ MouseLeaves \/ MouseTimer \/ Paste \/ Keystroke
    \/ \E p \in {"away", "hub", "problem"} : Go(p)
    \/ ProblemLoads \/ EnterFullscreen \/ ExitFullscreen \/ FullscreenChanged
    \/ ForceCheck \/ EnterArena \/ Arm
    \/ Acknowledge \/ Finish \/ Navigate \/ Unload

Spec == Init /\ [][Next]_vars

-----------------------------------------------------------------------------
(* Properties. *)

\* No telemetry event is forgotten or recorded twice: each is in one buffer, in
\* one batch, in the table, or was lost with its batch or its insert.  And a
\* page that counts exits and has been told that its document is not in
\* fullscreen has dispatched an event of that, unless it was told before it was
\* armed (useAntiCheat.js:34, useAntiCheat.js:47, useSecureArena.js:42).
ExitsAccounted ==
    /\ LET settled == {buffer["secure"], buffer["editor"], logged, failed} IN
       /\ UNION (settled \cup batches) = 1..told
       /\ \A f, g \in settled \cup batches : f # g => f \cap g = {}
       /\ batches \cap settled = {}
       /\ buffer["secure"] \cap buffer["editor"] = {} /\ logged \cap failed = {}
    /\ armed /\ ~whole /\ queue = 0 => early \/ drops # {}

=============================================================================
