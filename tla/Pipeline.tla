------------------------------ MODULE Pipeline ------------------------------
(****************************************************************************)
(* The judging pipeline next to the parts it calls: the cooldown before a   *)
(* submission is taken (SubmitCode), the runner behind the call of          *)
(* grade_submission, and the hub between a published verdict and the        *)
(* streams.  Grading has each of them as one step that may return whatever  *)
(* the part may return.                                                     *)
(*                                                                          *)
(* The parts share no variable with it or with each other: a behaviour here *)
(* is that of one of the four.                                              *)
(****************************************************************************)
EXTENDS Grading

CONSTANTS
    Client, Prompt, Nobody, Buffer, MaxMessages, MaxBreaks,      \* Hub
    Graded, Cache, Cases, Program, Breakdowns, MaxBreakdowns,    \* Runner
    Request, Duration, Second, MaxNow, MaxReturns, MaxLost       \* Cooldown

VARIABLES
    part,  \* the part this behaviour is about
    stage, subs, reg, closing, link, pipe, hand, left, chan, shut, got, dropped,
    sent, due, clean, breaks,
    prog, at, place, files, workDir, box, ran, result, trouble, stray, breakdowns,
    now, until, step, attempt, hint, patient, owed, returns, lost

hub == INSTANCE Hub WITH pc <- stage, budget <- breaks

runner == INSTANCE Runner WITH Job <- Graded, Faults <- Breakdowns,
    MaxFaults <- MaxBreakdowns, pc <- place, verdict <- result, budget <- breakdowns

cooldown == INSTANCE Cooldown WITH pc <- step

ASSUME PipelineAssumption ==
    /\ hub!HubAssumption /\ runner!RunnerAssumption
    /\ cooldown!CooldownAssumption

hubVars == <<stage, subs, reg, closing, link, pipe, hand, left, chan, shut, got,
             dropped, sent, due, clean, breaks>>
runnerVars == <<prog, at, place, files, workDir, box, ran, result, trouble, stray,
                breakdowns>>
cooldownVars == <<now, until, step, attempt, hint, patient, owed, returns, lost>>

partVars == <<part, vars, hubVars, runnerVars, cooldownVars>>

\* The programs of the runner's jobs are a choice of its own behaviours.
PipelineInit ==
    /\ part \in {"grading", "hub", "runner", "cooldown"}
    /\ Init /\ hub!Init /\ runner!Init /\ cooldown!Init
    /\ part # "runner" => prog = [j \in Graded |-> CHOOSE p \in Program : TRUE]

\* The other parts come to rest when their clients have left, their jobs are
\* done or their time is over.
Rests == part # "grading" /\ UNCHANGED <<vars, hubVars, runnerVars, cooldownVars>>

PipelineNext ==
    /\ UNCHANGED part
    /\ \/ /\ part = "grading" /\ Next
          /\ UNCHANGED <<hubVars, runnerVars, cooldownVars>>
       \/ /\ part = "hub" /\ hub!Next
          /\ UNCHANGED <<vars, runnerVars, cooldownVars>>
       \/ /\ part = "runner" /\ runner!Next
          /\ UNCHANGED <<vars, hubVars, cooldownVars>>
       \/ /\ part = "cooldown" /\ cooldown!Next
          /\ UNCHANGED <<vars, hubVars, runnerVars>>
       \/ Rests

In(p, Action) == part = p /\ Action

\* The fairness of each part, in its own behaviours.
PipelineFairness ==
    /\ \A s \in Submission : WF_vars(In("grading", InsertRow(s) \/ Enqueue(s)))
    /\ \A j \in Job : /\ WF_vars(In("grading", Subscribe(j)))
                       /\ WF_vars(In("grading", Worker(j)))
    /\ WF_vars(In("grading", Listener))
    /\ \A c \in Client : /\ WF_hubVars(In("hub", hub!Broadcast(c)))
                          /\ WF_hubVars(In("hub", hub!Close(c)))
                          /\ WF_hubVars(In("hub", hub!Confirm(c)))
    /\ \A c \in Prompt : WF_hubVars(In("hub", hub!Read(c)))
    /\ \A j \in Graded : /\ WF_runnerVars(In("runner", runner!Thread(j)))
                          /\ WF_runnerVars(In("runner", runner!BoxWorks(j)))

PipelineSpec == PipelineInit /\ [][PipelineNext]_partVars /\ PipelineFairness

-----------------------------------------------------------------------------
(* Properties: what each part promises, under its own name. *)

\* Hub: no goroutine sends on a closed channel (hub.go:59, :84).
NoSendToClosed == hub!NoSendToClosed

\* Hub: no subscription leaks, no handler goes deaf because another left, and
\* messages come in order and once (hub.go:66, :80).
FanOut == hub!FanOut

\* Hub: a slow handler holds nobody up (hub.go:92).
Delivered == hub!Delivered

\* Runner: the verdict is the one deserved, or it admits a failure
\* (runner.py:36, :132, :237).
HonestVerdict == runner!HonestVerdict

\* Runner: a thread that has returned leaves no directory and no container at
\* work (runner.py:84, :137, :274).
NothingLeftBehind == runner!NothingLeftBehind

\* Runner: every job gets its verdict, also one that would never end
\* (runner.py:76, :132).
GradingEnds ==
    \A j \in Graded : part = "runner" /\ place[j] = "start" ~> place[j] \in {"done", "dead"}

\* Cooldown: no submission comes too soon, and who waits as told is let in
\* (redis_limiter.go:57, submission_controller.go:63).
CooldownHolds == cooldown!CooldownHolds

=============================================================================
