------------------------ MODULE WorkflowOrchestrator ------------------------
(***************************************************************************)
(* The execution engine of WorkflowOrchestrator                            *)
(* (src/workflows/workflow_types.cpp): clients start executions of         *)
(* workflows and pause, resume or cancel them, two orchestrator threads    *)
(* run their steps, and every attempt of a step is a request to the        *)
(* WorkflowManager, here in the form of its abstract specification         *)
(* RequestLifecycle.                                                       *)
(*                                                                         *)
(* Only pause, resume, cancel, the choice of an execution and the two maps *)
(* are under orchestrator_mutex_.  Threads read and write                  *)
(* WorkflowExecution::state without it, so each such access is a step.     *)
(***************************************************************************)
EXTENDS Integers, Sequences, FiniteSets

CONSTANTS
    Executions,     \* the executions that may be created (bounds the run)
    Threads,        \* the orchestrator threads
    Steps,          \* ids of workflow steps
    Definitions,    \* the workflow definitions registered at first
    Dependencies,   \* Dependencies[s]: the steps that step s names as its dependencies
    Optional,       \* the steps marked optional
    Conditioned,    \* the steps with a condition
    MaxRetries,     \* MaxRetries[s]: of the step, or of its workflow if that is 0
    MaxIterations,  \* max_iterations of a LOOP workflow
    MaxRequests,    \* requests one step may submit (bounds the run)
    Slots,          \* workers of the request service
    None            \* no execution, no definition, no request

WorkflowTypes == {"SEQUENTIAL", "PARALLEL", "CONDITIONAL", "LOOP", "PIPELINE"}

ASSUME OrchestratorAssumption ==
    /\ Dependencies \in [Steps -> SUBSET Steps]
    /\ Optional \subseteq Steps /\ Conditioned \subseteq Steps
    /\ MaxRetries \in [Steps -> Nat]
    /\ MaxIterations \in Nat /\ MaxRequests \in Nat
    /\ \A d \in Definitions : /\ d.type \in WorkflowTypes
                              /\ d.steps \in Seq(Steps) \ {<<>>}
                              /\ d.partial \in BOOLEAN
    /\ None \notin Executions

\* The requests a step of definition d may submit: one per attempt and iteration.
Allowance(d, s) == (MaxRetries[s] + 1) * (IF d.type = "LOOP" THEN MaxIterations ELSE 1)

ASSUME RequestsAssumption ==
    \A d \in Definitions : \A i \in DOMAIN d.steps : Allowance(d, d.steps[i]) <= MaxRequests

Requests == Executions \X Steps \X (1 .. MaxRequests)

VARIABLES
    registered,     \* keys of workflow_definitions_
    active,         \* keys of active_executions_
    completed,      \* keys of completed_executions_
    estate,         \* estate[e]: WorkflowExecution::state, ABSENT before e exists
    workflow,       \* workflow[e]: the definition e names
    results,        \* results[e]: keys of step_results
    tpc, task,      \* where each orchestrator thread is, and its execution
    pos, round,     \* the loop indices of each thread
    spc,            \* spc[e][s]: where execute_step_with_retry of the step is
    attempt,        \* attempt[e][s]: its loop counter
    used,           \* used[e][s]: the requests the step has submitted
    caller,         \* caller[e]: where a caller of execute_workflow is
    running,        \* running_
    stopping,       \* stop() is waiting for the threads
    outcome, launched, executing    \* the request service

Manager == INSTANCE RequestLifecycle

serviceVars == <<outcome, launched, executing>>
mapVars     == <<registered, active, completed>>
threadVars  == <<tpc, task, pos, round>>
stepVars    == <<spc, attempt, used, results>>
clientVars  == <<workflow, caller>>
poolVars    == <<running, stopping>>
vars == <<mapVars, estate, threadVars, stepVars, clientVars, poolVars, serviceVars>>

-----------------------------------------------------------------------------
Terminal == {"COMPLETED", "FAILED", "CANCELLED", "TIMEOUT"}
ExecutionStates == {"ABSENT", "PENDING", "RUNNING", "PAUSED"} \cup Terminal
Failing == {"FAILED", "TIMEOUT", "CANCELLED"}

\* The request a step waits for.
Request(e, s) == <<e, s, used[e][s]>>

StepsOf(e) == {workflow[e].steps[i] : i \in DOMAIN workflow[e].steps}

\* Mutant of Fatal: a failed step is only logged.
FatalNever(e, s) == FALSE

\* A step that failed for good fails its execution.  Only two of the five executors
\* look at optional; parallel execution decides at its end.
Fatal(e, s) ==
    /\ workflow[e].type # "PARALLEL"
    /\ ~workflow[e].partial
    /\ workflow[e].type \in {"SEQUENTIAL", "CONDITIONAL"} => s \notin Optional

Init ==
    /\ registered = Definitions
    /\ active = {} /\ completed = {}
    /\ estate = [e \in Executions |-> "ABSENT"]
    /\ workflow = [e \in Executions |-> None]
    /\ results = [e \in Executions |-> {}]
    /\ tpc = [t \in Threads |-> "exited"]
    /\ task = [t \in Threads |-> None]
    /\ pos = [t \in Threads |-> 1]
    /\ round = [t \in Threads |-> 1]
    /\ spc = [e \in Executions |-> [s \in Steps |-> "idle"]]
    /\ attempt = [e \in Executions |-> [s \in Steps |-> 0]]
    /\ used = [e \in Executions |-> [s \in Steps |-> 0]]
    /\ caller = [e \in Executions |-> "none"]
    /\ running = FALSE /\ stopping = FALSE
    /\ Manager!Init

-----------------------------------------------------------------------------
(* Clients                                                                  *)

\* execute_workflow_async; execute_workflow calls it and then polls.
Execute(e, d, mode) ==
    /\ estate[e] = "ABSENT"
    /\ d \in registered
    /\ estate' = [estate EXCEPT ![e] = "PENDING"]
    /\ workflow' = [workflow EXCEPT ![e] = d]
    /\ active' = active \cup {e}
    /\ caller' = [caller EXCEPT ![e] = mode]
    /\ UNCHANGED <<registered, completed, threadVars, stepVars, poolVars, serviceVars>>

\* execute_workflow sees the end of the execution.
CallerReturns(e) ==
    /\ caller[e] = "polling"
    /\ estate[e] \in Terminal
    /\ caller' = [caller EXCEPT ![e] = "none"]
    /\ UNCHANGED <<mapVars, estate, threadVars, stepVars, workflow, poolVars, serviceVars>>

\* Two minutes have passed: a last look at the state ...
CallerGivesUp(e) ==
    /\ caller[e] = "polling"
    /\ caller' = [caller EXCEPT ![e] = IF estate[e] = "RUNNING" THEN "expiring" ELSE "none"]
    /\ UNCHANGED <<mapVars, estate, threadVars, stepVars, workflow, poolVars, serviceVars>>

\* ... and, if it was RUNNING, a write without the mutex.
CallerExpires(e) ==
    /\ caller[e] = "expiring"
    /\ caller' = [caller EXCEPT ![e] = "none"]
    /\ estate' = [estate EXCEPT ![e] = "TIMEOUT"]
    /\ UNCHANGED <<mapVars, threadVars, stepVars, workflow, poolVars, serviceVars>>

Pause(e) ==
    /\ e \in active
    /\ estate[e] = "RUNNING"
    /\ estate' = [estate EXCEPT ![e] = "PAUSED"]
    /\ UNCHANGED <<mapVars, threadVars, stepVars, clientVars, poolVars, serviceVars>>

Resume(e) ==
    /\ e \in active
    /\ estate[e] = "PAUSED"
    /\ estate' = [estate EXCEPT ![e] = "RUNNING"]
    /\ UNCHANGED <<mapVars, threadVars, stepVars, clientVars, poolVars, serviceVars>>

\* Mutant of Cancel: an execution that has ended can still be cancelled.
CancelAnywhere(e) ==
    /\ e \in active \cup completed
    /\ estate' = [estate EXCEPT ![e] = "CANCELLED"]
    /\ UNCHANGED <<mapVars, threadVars, stepVars, clientVars, poolVars, serviceVars>>

\* cancel_execution does not look at the state, and leaves the requests alone.
Cancel(e) ==
    /\ e \in active
    /\ estate' = [estate EXCEPT ![e] = "CANCELLED"]
    /\ UNCHANGED <<mapVars, threadVars, stepVars, clientVars, poolVars, serviceVars>>

\* remove_workflow of a definition that an execution names (of another one it would only
\* make execute_workflow throw).  To remove it while an executor uses it is undefined
\* behaviour, the executor keeps a pointer into the map, and not modelled.
RemoveWorkflow(d) ==
    /\ d \in registered
    /\ \E e \in active : workflow[e] = d
    /\ \A t \in Threads : task[t] # None /\ workflow[task[t]] = d => tpc[t] \in {"start", "enter"}
    /\ registered' = registered \ {d}
    /\ UNCHANGED <<active, completed, estate, threadVars, stepVars, clientVars, poolVars, serviceVars>>

-----------------------------------------------------------------------------
(* orchestrator_thread and process_execution.  Waiting for work ends after  *)
(* five seconds without a notification, so an idle thread needs no step.    *)

\* Mutant of Pick: the execution is not claimed.
PickUnclaimed(t, e) ==
    /\ tpc[t] = "idle" /\ running /\ e \in active /\ estate[e] = "PENDING"
    /\ tpc' = [tpc EXCEPT ![t] = "start"] /\ task' = [task EXCEPT ![t] = e]
    /\ UNCHANGED <<mapVars, estate, pos, round, stepVars, clientVars, poolVars, serviceVars>>

\* Under orchestrator_mutex_: some pending execution is claimed.
Pick(t, e) ==
    /\ tpc[t] = "idle"
    /\ running
    /\ e \in active
    /\ estate[e] = "PENDING"
    /\ estate' = [estate EXCEPT ![e] = "RUNNING"]
    /\ tpc' = [tpc EXCEPT ![t] = "start"]
    /\ task' = [task EXCEPT ![t] = e]
    /\ UNCHANGED <<mapVars, pos, round, stepVars, clientVars, poolVars, serviceVars>>

\* Mutant of ThreadExits: a thread stays while executions are active.
ThreadExitsWhenDone(t) ==
    /\ tpc[t] = "idle" /\ ~running /\ active = {}
    /\ tpc' = [tpc EXCEPT ![t] = "exited"]
    /\ UNCHANGED <<mapVars, estate, task, pos, round, stepVars, clientVars, poolVars, serviceVars>>

ThreadExits(t) ==
    /\ tpc[t] = "idle"
    /\ ~running
    /\ tpc' = [tpc EXCEPT ![t] = "exited"]
    /\ UNCHANGED <<mapVars, estate, task, pos, round, stepVars, clientVars, poolVars, serviceVars>>

\* The thread goes to place p; the execution becomes st.
Goto(t, p) == tpc' = [tpc EXCEPT ![t] = p]
Mark(t, st) == estate' = [estate EXCEPT ![task[t]] = st]

\* Mutant of Begin: an execution without definition is only marked.
BeginUnretired(t) ==
    /\ tpc[t] = "start"
    /\ IF workflow[task[t]] \in registered
       THEN Goto(t, "enter") /\ UNCHANGED <<estate, task>>
       ELSE Mark(t, "FAILED") /\ Goto(t, "idle") /\ task' = [task EXCEPT ![t] = None]
    /\ UNCHANGED <<mapVars, pos, round, stepVars, clientVars, poolVars, serviceVars>>

\* process_execution looks the definition up to choose the executor ...
Begin(t) ==
    /\ tpc[t] = "start"
    /\ IF workflow[task[t]] \in registered
       THEN Goto(t, "enter") /\ UNCHANGED estate
       ELSE Mark(t, "FAILED") /\ Goto(t, "move")
    /\ UNCHANGED <<mapVars, task, pos, round, stepVars, clientVars, poolVars, serviceVars>>

\* ... which looks it up again, and returns at once if it is gone.
Enter(t) ==
    /\ tpc[t] = "enter"
    /\ Goto(t, IF workflow[task[t]] \in registered THEN "loop" ELSE "move")
    /\ UNCHANGED <<mapVars, estate, task, pos, round, stepVars, clientVars, poolVars, serviceVars>>

\* Mutant of Retire: the thread keeps its reference to the execution.
RetireKeeping(t) ==
    /\ tpc[t] = "move" /\ Goto(t, "idle")
    /\ active' = active \ {task[t]} /\ completed' = completed \cup {task[t]}
    /\ pos' = [pos EXCEPT ![t] = 1] /\ round' = [round EXCEPT ![t] = 1]
    /\ UNCHANGED <<registered, estate, task, stepVars, clientVars, poolVars, serviceVars>>

\* move_to_completed; the locals of the executor are gone.
Retire(t) ==
    /\ tpc[t] = "move"
    /\ Goto(t, "idle")
    /\ active' = active \ {task[t]}
    /\ completed' = completed \cup {task[t]}
    /\ task' = [task EXCEPT ![t] = None]
    /\ pos' = [pos EXCEPT ![t] = 1]
    /\ round' = [round EXCEPT ![t] = 1]
    /\ UNCHANGED <<registered, estate, stepVars, clientVars, poolVars, serviceVars>>

-----------------------------------------------------------------------------
(* The five executors.  They differ in where they look at the state, at     *)
(* dependencies and at conditions, and in how a step that failed counts.    *)

TypeOf(t) == workflow[task[t]].type
StepAt(t) == workflow[task[t]].steps[pos[t]]
PastLast(t) == pos[t] > Len(workflow[task[t]].steps)

\* The loop is over: no more steps or iterations, or the execution is not RUNNING.
\* Inside an iteration a LOOP does not look at the state.
LoopOver(t) ==
    IF TypeOf(t) = "LOOP"
    THEN pos[t] = 1 /\ (round[t] > MaxIterations \/ estate[task[t]] # "RUNNING")
    ELSE PastLast(t) \/ estate[task[t]] # "RUNNING"

LeaveLoop(t) ==
    /\ tpc[t] = "loop"
    /\ LoopOver(t)
    /\ Goto(t, IF TypeOf(t) = "PARALLEL" THEN "join" ELSE "finish")
    /\ UNCHANGED <<mapVars, estate, task, pos, round, stepVars, clientVars, poolVars, serviceVars>>

AtStep(t) == tpc[t] = "loop" /\ ~LoopOver(t) /\ ~PastLast(t)

\* Only SEQUENTIAL looks at dependencies: they are met once they were submitted.
DependenciesMet(t) ==
    TypeOf(t) = "SEQUENTIAL" => Dependencies[StepAt(t)] \subseteq results[task[t]]

HasCondition(t) == TypeOf(t) = "CONDITIONAL" /\ StepAt(t) \in Conditioned

\* The step begins: in this thread, or for PARALLEL in a thread of its own.
StartStep(t) ==
    /\ AtStep(t)
    /\ DependenciesMet(t)
    /\ spc' = [spc EXCEPT ![task[t]][StepAt(t)] = "submit"]
    /\ attempt' = [attempt EXCEPT ![task[t]][StepAt(t)] = 0]
    /\ IF TypeOf(t) = "PARALLEL"
       THEN pos' = [pos EXCEPT ![t] = @ + 1] /\ UNCHANGED tpc
       ELSE Goto(t, "step") /\ UNCHANGED pos
    /\ UNCHANGED <<mapVars, estate, task, round, used, results, clientVars, poolVars, serviceVars>>

\* An optional step with unmet dependencies, or one whose condition is false.
SkipStep(t) ==
    /\ AtStep(t)
    /\ \/ ~DependenciesMet(t) /\ StepAt(t) \in Optional
       \/ HasCondition(t)
    /\ pos' = [pos EXCEPT ![t] = @ + 1]
    /\ UNCHANGED <<mapVars, estate, tpc, task, round, stepVars, clientVars, poolVars, serviceVars>>

\* A mandatory step with unmet dependencies, or a condition that cannot be evaluated.
RejectStep(t) ==
    /\ AtStep(t)
    /\ \/ ~DependenciesMet(t) /\ StepAt(t) \notin Optional
       \/ HasCondition(t)
    /\ Mark(t, "FAILED")
    /\ Goto(t, "move")
    /\ UNCHANGED <<mapVars, task, pos, round, stepVars, clientVars, poolVars, serviceVars>>

\* The step of this thread has ended.
StepEnds(t) ==
    /\ tpc[t] = "step"
    /\ spc[task[t]][StepAt(t)] \in {"succeeded", "failed"}
    /\ IF spc[task[t]][StepAt(t)] = "failed" /\ Fatal(task[t], StepAt(t))
       THEN Mark(t, "FAILED") /\ Goto(t, "move") /\ UNCHANGED pos
       ELSE Goto(t, "loop") /\ pos' = [pos EXCEPT ![t] = @ + 1] /\ UNCHANGED estate
    /\ UNCHANGED <<mapVars, task, round, stepVars, clientVars, poolVars, serviceVars>>

\* The end of an iteration: loop_condition holds or is absent, does not hold, or cannot
\* be evaluated.
EndIteration(t) ==
    /\ tpc[t] = "loop"
    /\ TypeOf(t) = "LOOP" /\ PastLast(t)
    /\ \/ /\ round' = [round EXCEPT ![t] = @ + 1]
          /\ pos' = [pos EXCEPT ![t] = 1]
          /\ UNCHANGED <<tpc, estate>>
       \/ Goto(t, "finish") /\ UNCHANGED <<pos, round, estate>>
       \/ Goto(t, "move") /\ Mark(t, "FAILED") /\ UNCHANGED <<pos, round>>
    /\ UNCHANGED <<mapVars, task, stepVars, clientVars, poolVars, serviceVars>>

\* execute_parallel_workflow has the result of every step it began.
JoinSteps(t) ==
    /\ tpc[t] = "join"
    /\ \A s \in StepsOf(task[t]) : spc[task[t]][s] \notin {"submit", "wait"}
    /\ Goto(t, "finish")
    /\ UNCHANGED <<mapVars, estate, task, pos, round, stepVars, clientVars, poolVars, serviceVars>>

\* A last look at the state ...
Finish(t) ==
    /\ tpc[t] = "finish"
    /\ Goto(t, IF estate[task[t]] = "RUNNING" THEN "write" ELSE "move")
    /\ UNCHANGED <<mapVars, estate, task, pos, round, stepVars, clientVars, poolVars, serviceVars>>

\* ... and, if it was RUNNING, a write without the mutex.
Write(t) ==
    LET e == task[t]
        failed == \E s \in StepsOf(e) : spc[e][s] = "failed"
    IN  /\ tpc[t] = "write"
        /\ Mark(t, IF TypeOf(t) = "PARALLEL" /\ failed /\ ~workflow[e].partial
                   THEN "FAILED" ELSE "COMPLETED")
        /\ Goto(t, "move")
        /\ UNCHANGED <<mapVars, task, pos, round, stepVars, clientVars, poolVars, serviceVars>>

-----------------------------------------------------------------------------
(* execute_step_with_retry, execute_step and wait_for_step_completion       *)

Step(e, s, p) == spc' = [spc EXCEPT ![e][s] = p]

\* The attempt threw: the next one, or the end of the step.
AttemptFails(e, s) ==
    IF attempt[e][s] < MaxRetries[s]
    THEN Step(e, s, "submit") /\ attempt' = [attempt EXCEPT ![e][s] = @ + 1]
    ELSE Step(e, s, "failed") /\ UNCHANGED attempt

SubmitStep(e, s) ==
    /\ spc[e][s] = "submit"
    /\ used[e][s] < MaxRequests
    /\ Step(e, s, "wait")
    /\ used' = [used EXCEPT ![e][s] = @ + 1]
    /\ results' = [results EXCEPT ![e] = @ \cup {s}]
    /\ Manager!Accept(<<e, s, used[e][s] + 1>>)
    /\ UNCHANGED <<mapVars, estate, threadVars, attempt, clientVars, poolVars>>

\* The queue of the manager is full, or the request invalid.
SubmitRefused(e, s) ==
    /\ spc[e][s] = "submit"
    /\ AttemptFails(e, s)
    /\ UNCHANGED <<mapVars, estate, threadVars, used, results, clientVars, poolVars, serviceVars>>

\* Waiting ends well when the request is COMPLETED, when it is no longer known (only
\* settled requests are forgotten), and when the execution is not RUNNING any more.
StepSucceeds(e, s) ==
    /\ spc[e][s] = "wait"
    /\ outcome[Request(e, s)] \in Manager!Settled \/ estate[e] # "RUNNING"
    /\ Step(e, s, "succeeded")
    /\ UNCHANGED <<mapVars, estate, threadVars, attempt, used, results, clientVars, poolVars, serviceVars>>

StepFails(e, s) ==
    /\ spc[e][s] = "wait"
    /\ outcome[Request(e, s)] \in Failing /\ estate[e] = "RUNNING"
    /\ AttemptFails(e, s)
    /\ UNCHANGED <<mapVars, estate, threadVars, used, results, clientVars, poolVars, serviceVars>>

\* Mutant of StepTimesOut: the wait for a step has no limit of its own.
StepNeverTimesOut(e, s) == FALSE

\* 30 seconds have passed.  The request stays with the manager.
StepTimesOut(e, s) ==
    /\ spc[e][s] = "wait"
    /\ AttemptFails(e, s)
    /\ UNCHANGED <<mapVars, estate, threadVars, used, results, clientVars, poolVars, serviceVars>>

\* The request service: requests run, end, expire or are cancelled by other clients.
Serve ==
    /\ \E r \in Requests :
          \/ Manager!Cancel(r)
          \/ \E k \in Slots : Manager!Launch(r, k) \/ Manager!Expire(r, k) \/ Manager!Return(r, k)
    /\ UNCHANGED <<mapVars, estate, threadVars, stepVars, clientVars, poolVars>>

-----------------------------------------------------------------------------
(* start and stop                                                           *)

Start ==
    /\ ~running /\ ~stopping
    /\ running' = TRUE
    /\ tpc' = [t \in Threads |-> "idle"]
    /\ UNCHANGED <<mapVars, estate, task, pos, round, stepVars, clientVars, stopping, serviceVars>>

Stop ==
    /\ running
    /\ running' = FALSE
    /\ stopping' = TRUE
    /\ UNCHANGED <<mapVars, estate, threadVars, stepVars, clientVars, serviceVars>>

StopJoin ==
    /\ stopping
    /\ \A t \in Threads : tpc[t] = "exited"
    /\ stopping' = FALSE
    /\ UNCHANGED <<mapVars, estate, threadVars, stepVars, clientVars, running, serviceVars>>

-----------------------------------------------------------------------------
ThreadStep(t) ==
    \/ (\E e \in Executions : Pick(t, e)) \/ ThreadExits(t)
    \/ Begin(t) \/ Enter(t) \/ Retire(t)
    \/ LeaveLoop(t) \/ StartStep(t) \/ SkipStep(t) \/ RejectStep(t)
    \/ StepEnds(t) \/ EndIteration(t) \/ JoinSteps(t) \/ Finish(t) \/ Write(t)

StepStep(e, s) ==
    \/ SubmitStep(e, s) \/ SubmitRefused(e, s)
    \/ StepSucceeds(e, s) \/ StepFails(e, s) \/ StepTimesOut(e, s)

CallerStep(e) == CallerReturns(e) \/ CallerGivesUp(e) \/ CallerExpires(e)

Control(e) == Pause(e) \/ Resume(e) \/ Cancel(e)

Next ==
    \/ \E e \in Executions :
         \/ \E d \in Definitions, mode \in {"none", "polling"} : Execute(e, d, mode)
         \/ CallerStep(e) \/ Control(e)
         \/ \E s \in Steps : StepStep(e, s)
    \/ \E d \in Definitions : RemoveWorkflow(d)
    \/ \E t \in Threads : ThreadStep(t)
    \/ Serve
    \/ Start \/ Stop \/ StopJoin

Spec == Init /\ [][Next]_vars

(***************************************************************************)
(* Threads that can step do.  Nothing is assumed of the request service:   *)
(* the 30 seconds of a step end without it.                                *)
(***************************************************************************)
FairSpec ==
    /\ Spec
    /\ \A t \in Threads : WF_vars(ThreadStep(t))
    /\ \A e \in Executions, s \in Steps : WF_vars(StepStep(e, s))
    /\ \A e \in Executions : WF_vars(CallerStep(e))
    /\ WF_vars(StopJoin)

-----------------------------------------------------------------------------
(* Properties                                                               *)

\* Every variable has its type; a thread has an execution exactly while it processes one.
TypeOK ==
    /\ registered \in SUBSET Definitions
    /\ active \in SUBSET Executions /\ completed \in SUBSET Executions
    /\ estate \in [Executions -> ExecutionStates]
    /\ workflow \in [Executions -> Definitions \cup {None}]
    /\ results \in [Executions -> SUBSET Steps]
    /\ tpc \in [Threads -> {"exited", "idle", "start", "enter", "loop", "step",
                            "join", "finish", "write", "move"}]
    /\ task \in [Threads -> Executions \cup {None}]
    /\ \A t \in Threads : task[t] = None <=> tpc[t] \in {"exited", "idle"}
    /\ pos \in [Threads -> Nat] /\ round \in [Threads -> 1 .. MaxIterations + 1]
    /\ spc \in [Executions -> [Steps -> {"idle", "submit", "wait", "succeeded", "failed"}]]
    /\ attempt \in [Executions -> [Steps -> Nat]]
    /\ used \in [Executions -> [Steps -> 0 .. MaxRequests]]
    /\ caller \in [Executions -> {"none", "polling", "expiring"}]
    /\ running \in BOOLEAN /\ stopping \in BOOLEAN

\* However clients pause, resume, cancel and time out an execution, at most one thread
\* processes it, and only while it is listed as active.
OneThreadEach ==
    \A t \in Threads : task[t] # None =>
        /\ task[t] \in active \ completed
        /\ estate[task[t]] # "PENDING"
        /\ \A u \in Threads : task[u] = task[t] => u = t

\* No execution is stranded: what is active is waiting for a thread or has one.  The one
\* exception is an execution cancelled before a thread took it, which stays listed.
NobodyStranded ==
    \A e \in active : \/ \E t \in Threads : task[t] = e
                      \/ estate[e] \in {"PENDING", "CANCELLED"}

\* An execution whose definition forbids it is never COMPLETED over a step that failed for
\* good, in spite of the unlocked writes of its state by threads and callers.
NoCompletionOverFailure ==
    \A e \in Executions :
        estate[e] = "COMPLETED" /\ ~workflow[e].partial =>
            \A s \in StepsOf(e) :
                spc[e][s] = "failed" => /\ s \in Optional
                                        /\ workflow[e].type \in {"SEQUENTIAL", "CONDITIONAL"}

\* Once moved to completed_executions_ an execution keeps its state; only a caller of
\* execute_workflow that saw it RUNNING before can still overwrite it.
RetiredIsFrozen ==
    [][\A e \in completed : caller[e] # "expiring" => estate'[e] = estate[e]]_estate

\* While the orchestrator runs, every execution is processed to its end, whatever its
\* requests do, unless it was cancelled before a thread took it.
ExecutionsEnd ==
    \A e \in Executions : e \in active ~>
        \/ e \in completed
        \/ estate[e] = "CANCELLED" /\ \A t \in Threads : task[t] # e
        \/ ~running

\* stop() returns: every thread finishes its execution and leaves.
StopReturns == stopping ~> ~stopping

\* "`PAUSED`: Temporarily paused" (docs/workflows.md:278): while its definition exists, a
\* paused execution stays where resume_execution can find it.
PausedStaysActive ==
    \A e \in Executions :
        estate[e] = "PAUSED" /\ workflow[e] \in registered => e \in active
=============================================================================
