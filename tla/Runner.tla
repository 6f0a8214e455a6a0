------------------------------- MODULE Runner -------------------------------
(****************************************************************************)
(* grade_submission (runner.py): how the worker comes to a verdict.  Each   *)
(* thread of the pool grades one submission: it fetches the source,         *)
(* compiles it in a container, makes sure that every test case is in the    *)
(* cache on disk, which all threads share, runs all cases in a second       *)
(* container, and compares the outputs.                                     *)
(*                                                                          *)
(* Containers work on their own: they go on while the thread does something *)
(* else, and also when it is gone.  They remove themselves when they end    *)
(* (auto_remove), so that one may be gone before the thread waits for it.   *)
(* What a submission does, case by case, is given by a program.             *)
(****************************************************************************)
EXTENDS Naturals

CONSTANTS
    Job,       \* submissions that are graded, one thread each
    Cache,     \* the place of the test cases of the problem
    Cases,     \* number of test cases
    Program,   \* what a submission may do, see ProgramType
    Faults,    \* kinds of failure this instance injects
    MaxFaults  \* bound: how many failures one behaviour contains

Half == {"input", "expected"}

\* custom: a custom run, whose one case is its own.  build: there is no
\* source, nothing to compile (Python), or a compilation that succeeds, fails
\* or takes too long.  does: what each case comes to; "slow" is one that
\* timeout or the memory limit kills, "stubborn" one that does not let itself
\* be killed.
ProgramType ==
    [custom : BOOLEAN,
     build : {"empty", "none", "good", "bad", "slow"},
     does : [1..Cases -> {"right", "wrong", "crash", "slow", "stubborn"}]]

\* "store": a file cannot be fetched.  "docker": a call of the daemon fails, a
\* container dies or is slow to work.  "crash": the worker is killed.
RunnerAssumption ==
    /\ Cache \notin Job
    /\ Cases \in Nat \ {0} /\ Program \subseteq ProgramType
    /\ Faults \subseteq {"store", "docker", "crash"} /\ MaxFaults \in Nat

VARIABLES
    prog,     \* the program of each job
    pc,       \* the next statement of its thread
    at,       \* the half of a case ensure_cached_testcase is at
    files,    \* the halves on disk, in the cache or a job's own directory
    workDir,  \* jobs whose directory exists
    box,      \* the job's container: none, at work, ended, removed
    ran,      \* cases with a status file
    verdict,  \* what grade_submission returns, "none" before
    trouble,  \* jobs whose infrastructure failed
    stray,    \* jobs whose container could not be stopped
    budget    \* failures still to be injected

vars == <<prog, pc, at, files, workDir, box, ran, verdict, trouble, stray, budget>>

Case(j) == IF prog[j].custom THEN 1..1 ELSE 1..Cases
Place(j) == IF prog[j].custom THEN j ELSE Cache

TypeOK ==
    /\ prog \in [Job -> Program]
    /\ pc \in [Job -> {"start", "source", "compile", "built", "building", "cases",
                       "fetch", "run", "ran", "running", "judge", "clean", "done",
                       "dead"}]
    /\ at \in [Job -> (1..Cases) \X Half]
    /\ files \in [Job \cup {Cache} -> SUBSET ((1..Cases) \X Half)]
    /\ workDir \subseteq Job /\ trouble \subseteq Job /\ stray \subseteq Job
    /\ box \in [Job -> {"none", "compiling", "running", "ended", "removed"}]
    /\ ran \in [Job -> 0..Cases]
    /\ verdict \in [Job -> {"none", "AC", "WA", "RE", "TLE", "CE", "SE"}]
    /\ budget \in 0..MaxFaults

Init ==
    /\ prog \in [Job -> Program]
    /\ pc = [j \in Job |-> "start"] /\ at = [j \in Job |-> <<1, "input">>]
    /\ files = [p \in Job \cup {Cache} |-> {}] /\ workDir = {}
    /\ box = [j \in Job |-> "none"] /\ ran = [j \in Job |-> 0]
    /\ verdict = [j \in Job |-> "none"] /\ trouble = {} /\ stray = {}
    /\ budget = MaxFaults

Goes(j, from, to) == pc[j] = from /\ pc' = [pc EXCEPT ![j] = to]
Proceeds(j, from, to) == Goes(j, from, to) /\ UNCHANGED verdict

\* return {"verdict": v, ...}; the finally clause is still to come.
Returns(j, from, v) == Goes(j, from, "clean") /\ verdict' = [verdict EXCEPT ![j] = v]

\* A failure of kind f, which the submission cannot help.
Fails(j, f) ==
    /\ f \in Faults /\ budget > 0 /\ budget' = budget - 1
    /\ trouble' = trouble \cup {j}
Works == UNCHANGED <<trouble, budget>>

\* compile_code and run_all_cases answer a failure each in its way.
Failed(from) == IF from \in {"compile", "built", "building"} THEN "CE" ELSE "SE"

-----------------------------------------------------------------------------
(* Source and containers. *)

\* os.makedirs(work_dir)
Start(j) ==
    /\ Proceeds(j, "start", "source") /\ workDir' = workDir \cup {j} /\ Works
    /\ UNCHANGED <<prog, at, files, box, ran, stray>>

\* The source: SE when it cannot be fetched or is empty.
Source(j) ==
    /\ LET build == prog[j].build IN
       \/ build = "empty" /\ Returns(j, "source", "SE") /\ Works
       \/ build = "none" /\ Proceeds(j, "source", "cases") /\ Works
       \/ build \notin {"empty", "none"} /\ Proceeds(j, "source", "compile") /\ Works
       \/ ~prog[j].custom /\ Returns(j, "source", "SE") /\ Fails(j, "store")
    /\ UNCHANGED <<prog, at, files, workDir, box, ran, stray>>

\* containers.run: the container works, or the call raises, which does not
\* mean that nothing was started.
Launch(j, from, to, work) ==
    /\ \/ Proceeds(j, from, to) /\ box' = [box EXCEPT ![j] = work]
          /\ Works /\ UNCHANGED stray
       \/ Returns(j, from, Failed(from)) /\ Fails(j, "docker")
          /\ \/ UNCHANGED <<box, stray>>
             \/ box' = [box EXCEPT ![j] = work] /\ stray' = stray \cup {j}
    /\ UNCHANGED <<prog, at, files, workDir, ran>>

Compile(j) == Launch(j, "compile", "built", "compiling")
RunAll(j) == Launch(j, "run", "ran", "running")

\* container.wait reaches the daemon: too late for a container that has ended
\* and removed itself, which raises.
Attach(j, from, to) ==
    /\ \/ box[j] # "removed" /\ Proceeds(j, from, to) /\ Works
       \/ box[j] = "removed" /\ Returns(j, from, Failed(from))
          /\ trouble' = trouble \cup {j} /\ UNCHANGED budget
    /\ UNCHANGED <<prog, at, files, workDir, box, ran, stray>>

AttachCompiler(j) == Attach(j, "built", "building")
AttachRun(j) == Attach(j, "ran", "running")

Up(j) == box[j] \in {"compiling", "running"}
Over(j) == box[j] \in {"ended", "removed"}

\* A programmer's slip: the container is left to itself.
Kill_Never(j) == UNCHANGED <<box, stray>>

\* container.kill() of the except clause.
Kill(j) ==
    /\ box' = IF Up(j) THEN [box EXCEPT ![j] = "ended"] ELSE box
    /\ UNCHANGED stray

\* It raises too, and the exception is swallowed.
KillFails(j) == stray' = (IF Up(j) THEN stray \cup {j} ELSE stray) /\ UNCHANGED box

\* The container works on something that takes longer than wait allows.
Endless(j) ==
    \/ box[j] = "compiling" /\ prog[j].build = "slow"
    \/ box[j] = "running" /\ prog[j].does[ran[j] + 1] = "stubborn"

\* A programmer's slip: wait has no time limit.
WaitRaises_NoLimit(j, from) ==
    /\ Returns(j, from, Failed(from))
    /\ Fails(j, "docker") /\ (Kill(j) \/ KillFails(j))
    /\ UNCHANGED <<prog, at, files, workDir, ran>>

\* wait raises: its time is over, or the call fails.
WaitRaises(j, from) ==
    /\ Returns(j, from, Failed(from))
    /\ \/ Endless(j) /\ Works /\ Kill(j)
       \/ Fails(j, "docker") /\ (Kill(j) \/ KillFails(j))
    /\ UNCHANGED <<prog, at, files, workDir, ran>>

\* wait returns the status of the compiler.
Built(j) ==
    /\ Over(j)
    /\ IF prog[j].build = "good" /\ j \notin trouble
       THEN Proceeds(j, "building", "cases") ELSE Returns(j, "building", "CE")
    /\ Works /\ UNCHANGED <<prog, at, files, workDir, box, ran, stray>>

\* wait returns; the status of the container is not looked at.
Ran(j) ==
    /\ Over(j) /\ Proceeds(j, "running", "judge") /\ Works
    /\ UNCHANGED <<prog, at, files, workDir, box, ran, stray>>

-----------------------------------------------------------------------------
(* The cache of test cases. *)

\* On to the next half, or to the run.
Advance(j, from) ==
    LET i == at[j][1] IN
    IF at[j][2] = "input"
    THEN Proceeds(j, from, "cases") /\ at' = [at EXCEPT ![j] = <<i, "expected">>]
    ELSE IF i + 1 \in Case(j)
         THEN Proceeds(j, from, "cases") /\ at' = [at EXCEPT ![j] = <<i + 1, "input">>]
         ELSE Proceeds(j, from, "run") /\ UNCHANGED at

\* A programmer's slip: a case whose input is there counts as cached.
Present_ByInput(j) == ~prog[j].custom /\ <<at[j][1], "input">> \in files[Cache]

\* os.path.exists of this half; a custom case is always written.
Present(j) == ~prog[j].custom /\ at[j] \in files[Cache]

\* if not os.path.exists(...)
Look(j) ==
    /\ IF Present(j) THEN Advance(j, "cases")
                     ELSE Proceeds(j, "cases", "fetch") /\ UNCHANGED at
    /\ Works /\ UNCHANGED <<prog, files, workDir, box, ran, stray>>

\* fetch_from_s3: download_file writes a temporary file and renames it, so
\* that a file that is there is complete.  The text of a custom case is
\* written to the directory of its job.
Fetch(j) ==
    /\ \/ /\ files' = [files EXCEPT ![Place(j)] = @ \cup {at[j]}]
          /\ Advance(j, "fetch") /\ Works
       \/ /\ ~prog[j].custom /\ Returns(j, "fetch", "SE") /\ Fails(j, "store")
          /\ UNCHANGED <<files, at>>
    /\ UNCHANGED <<prog, workDir, box, ran, stray>>

-----------------------------------------------------------------------------
(* Verdict and end. *)

\* What the loop over the cases makes of one: 124, 137 and 143 are the
\* statuses of a case that was killed.
Mark(j, i) ==
    LET does == prog[j].does[i] IN
    IF i > ran[j] THEN "SE"
    ELSE CASE does = "slow"  -> "TLE"
           [] does = "crash" -> "RE"
           [] OTHER -> IF does = "wrong" \/ <<i, "expected">> \notin files[Place(j)]
                       THEN "WA" ELSE "AC"

\* The first case that is not accepted decides.
Verdict(j) ==
    LET failing == {i \in Case(j) : Mark(j, i) # "AC"}
    IN  IF failing = {} THEN "AC"
        ELSE Mark(j, CHOOSE i \in failing : \A k \in failing : i <= k)

Judge(j) ==
    /\ Returns(j, "judge", Verdict(j)) /\ Works
    /\ UNCHANGED <<prog, at, files, workDir, box, ran, stray>>

\* finally: shutil.rmtree(work_dir), which a container still writing there can
\* make fail silently.
Clean(j) ==
    /\ Proceeds(j, "clean", "done")
    /\ workDir' = workDir \ {j} \/ (j \in stray /\ UNCHANGED workDir)
    /\ files' = [p \in DOMAIN files |-> IF p = j THEN {} ELSE files[p]]
    /\ Works /\ UNCHANGED <<prog, at, box, ran, stray>>

-----------------------------------------------------------------------------
(* Containers and crash. *)

Ends(j) == [box EXCEPT ![j] = "ended"]

\* The compiler comes to an end.
EndBuild(j) ==
    /\ box[j] = "compiling" /\ ~Endless(j) /\ box' = Ends(j) /\ UNCHANGED ran

\* execute.sh runs the cases one by one and stops at the first that fails.
RunCase(j) ==
    /\ box[j] = "running" /\ ~Endless(j)
    /\ ran' = [ran EXCEPT ![j] = @ + 1]
    /\ box' = IF prog[j].does[ran[j] + 1] \in {"right", "wrong"}
                 /\ ran[j] + 2 \in Case(j)
              THEN box ELSE Ends(j)

AutoRemove(j) ==
    box[j] = "ended" /\ box' = [box EXCEPT ![j] = "removed"] /\ UNCHANGED ran

BoxWorks(j) ==
    /\ EndBuild(j) \/ RunCase(j) \/ AutoRemove(j)
    /\ UNCHANGED <<prog, pc, at, files, workDir, verdict, trouble, stray, budget>>

\* A container is killed by the daemon, or by the kernel for its memory.
BoxDies(j) ==
    /\ Up(j) /\ Fails(j, "docker") /\ box' = Ends(j)
    /\ UNCHANGED <<prog, pc, at, files, workDir, ran, verdict, stray>>

\* The worker is killed with all its threads; directories and containers stay.
Crash ==
    /\ "crash" \in Faults /\ budget > 0 /\ budget' = budget - 1
    /\ pc' = [j \in Job |-> IF pc[j] \in {"start", "done"} THEN pc[j] ELSE "dead"]
    /\ UNCHANGED <<prog, at, files, workDir, box, ran, verdict, trouble, stray>>

-----------------------------------------------------------------------------

Thread(j) ==
    \/ Start(j) \/ Source(j) \/ Look(j) \/ Fetch(j) \/ Judge(j) \/ Clean(j)
    \/ Compile(j) \/ AttachCompiler(j) \/ Built(j) \/ WaitRaises(j, "building")
    \/ RunAll(j) \/ AttachRun(j) \/ Ran(j) \/ WaitRaises(j, "running")

Next == (\E j \in Job : Thread(j) \/ BoxWorks(j) \/ BoxDies(j)) \/ Crash

Spec == Init /\ [][Next]_vars

\* A thread goes on and a container works; a wait that is over its time is a
\* step of the thread.
Fairness == \A j \in Job : WF_vars(Thread(j)) /\ WF_vars(BoxWorks(j))

LiveSpec == Spec /\ Fairness

-----------------------------------------------------------------------------
(* Properties. *)

\* What its cases come to: the first that is not right decides.
OfCases(j) ==
    LET does == prog[j].does
        failing == {i \in Case(j) : does[i] # "right"}
        earliest == CHOOSE i \in failing : \A k \in failing : i <= k
    IN  IF failing = {} THEN "AC"
        ELSE CASE does[earliest] = "wrong"    -> "WA"
               [] does[earliest] = "crash"    -> "RE"
               [] does[earliest] = "slow"     -> "TLE"
               [] does[earliest] = "stubborn" -> "SE"

\* It never ends by itself: the script stops at a case that crashes or is
\* killed, not at a wrong one, so it can hang behind one.
Hangs(j) ==
    \E i \in Case(j) : /\ prog[j].does[i] = "stubborn"
                       /\ \A k \in 1..i - 1 : prog[j].does[k] \in {"right", "wrong"}

\* What the submission deserves.
Deserved(j) ==
    CASE prog[j].build = "empty"           -> "SE"
      [] prog[j].build \in {"bad", "slow"} -> "CE"
      [] OTHER -> IF Hangs(j) THEN "SE" ELSE OfCases(j)

\* The verdict is the one the submission deserves, whatever other threads do
\* to the shared cache (runner.py:30, :36) and whenever a container ends.  A
\* failure of the infrastructure never makes it AC, WA, RE or TLE: it is told
\* as SE, or as CE while compiling (runner.py:87, :237); only a submission
\* that hangs, whose container is killed in time, may be judged by the wrong
\* case it hangs behind.
HonestVerdict ==
    \A j \in Job : verdict[j] # "none" =>
      \/ verdict[j] = Deserved(j)
      \/ j \in trouble /\ verdict[j] \in {"SE", "CE"}
      \/ /\ j \in trouble /\ verdict[j] = OfCases(j)
         /\ prog[j].build \in {"none", "good"} /\ Hangs(j)

\* When a thread has returned, its directory is gone and its container at
\* work no more, unless Docker refused to start it properly or to stop it
\* (runner.py:84, :137, :274).
NothingLeftBehind ==
    \A j \in Job : pc[j] = "done" => j \in stray \/ (j \notin workDir /\ ~Up(j))

\* Every submission gets its verdict, also one that never ends by itself,
\* unless the worker is killed (runner.py:76, :132).
GradingEnds == \A j \in Job : pc[j] = "start" ~> pc[j] \in {"done", "dead"}

=============================================================================
