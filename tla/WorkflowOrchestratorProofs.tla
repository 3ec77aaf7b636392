---------------------- MODULE WorkflowOrchestratorProofs ----------------------
(***************************************************************************)
(* Theorems about WorkflowOrchestrator for any executions, orchestrator     *)
(* threads, steps and definitions and any limits.  Nothing but the choice   *)
(* of an execution and the two maps is under orchestrator_mutex_, so the    *)
(* inductive invariant IInv says for every thread what its place in the     *)
(* code means for the execution it has, whatever clients, callers that      *)
(* expire and the threads of steps did meanwhile.                           *)
(***************************************************************************)
EXTENDS WorkflowOrchestrator, TLAPS

-----------------------------------------------------------------------------
(* The inductive invariant                                                  *)

\* stop() has joined every thread before start() can create new ones.
PoolAtRest == ~running /\ ~stopping => \A t \in Threads : tpc[t] = "exited"

\* An execution is in one map at most, and in none before it exists; from then on it
\* names a definition, and only then can it have a caller.
Listed ==
    /\ active \cap completed = {}
    /\ \A e \in Executions :
         /\ estate[e] = "ABSENT" => e \notin active \cup completed /\ caller[e] = "none"
         /\ estate[e] # "ABSENT" => workflow[e] \in Definitions

\* A caller that found an active execution RUNNING writes over one that has a thread.
ExpiringHasThread ==
    \A e \in active : caller[e] = "expiring" => \E t \in Threads : task[t] = e

\* The locals of the executors: where the loops are in each place of the code.
LoopAgrees(t) ==
    /\ pos[t] >= 1
    /\ tpc[t] \in {"exited", "idle", "start", "enter"} => pos[t] = 1 /\ round[t] = 1
    /\ tpc[t] = "step" => TypeOf(t) # "PARALLEL" /\ ~PastLast(t)
    /\ tpc[t] = "join" => TypeOf(t) = "PARALLEL"
    /\ /\ tpc[t] = "step" \/ (tpc[t] = "loop" /\ pos[t] > 1)
       /\ TypeOf(t) = "LOOP"
       => round[t] <= MaxIterations

LoopsAgree == \A t \in Threads : LoopAgrees(t)

\* Step s of the execution of thread t can be under way.
Conducts(t, s) ==
    IF TypeOf(t) = "PARALLEL"
    THEN tpc[t] \in {"loop", "join"} /\ s \in StepsOf(task[t])
    ELSE tpc[t] = "step" /\ s = StepAt(t)

\* A step runs only while the thread of its execution waits for it, and none has run
\* before the executor was entered.
StepsAgree ==
    /\ \A e \in Executions, s \in Steps :
         /\ estate[e] \in {"ABSENT", "PENDING"} => spc[e][s] = "idle"
         /\ spc[e][s] \in {"submit", "wait"} => \E t \in Threads : task[t] = e /\ Conducts(t, s)
    /\ \A t \in Threads, s \in Steps : tpc[t] \in {"start", "enter"} => spc[task[t]][s] = "idle"

\* An executor goes on only past failures its definition tolerates.
Tolerates(t, s) ==
    /\ tpc[t] \in {"loop", "step", "finish", "write"}
    /\ TypeOf(t) # "PARALLEL"
    /\ spc[task[t]][s] = "failed"
    => ~Fatal(task[t], s) \/ (tpc[t] = "step" /\ s = StepAt(t))

FailuresTolerated == \A t \in Threads, s \in Steps : Tolerates(t, s)

\* COMPLETED is the last thing an executor writes.
CompletedIsOver ==
    \A e \in Executions, t \in Threads :
        estate[e] = "COMPLETED" /\ task[t] = e => tpc[t] = "move"

IInv ==
    /\ TypeOK /\ PoolAtRest /\ Listed /\ OneThreadEach
    /\ NobodyStranded /\ ExpiringHasThread
    /\ LoopsAgree /\ StepsAgree
    /\ FailuresTolerated /\ CompletedIsOver /\ NoCompletionOverFailure

-----------------------------------------------------------------------------
(* What kinds of steps there are                                            *)

Places == {"exited", "idle", "start", "enter", "loop", "step", "join", "finish", "write", "move"}
StepPlaces == {"idle", "submit", "wait", "succeeded", "failed"}

\* The steps of a thread between the choice of its execution and its retirement.
Inner(t) ==
    \/ Begin(t) \/ Enter(t) \/ LeaveLoop(t) \/ StartStep(t) \/ SkipStep(t) \/ RejectStep(t)
    \/ StepEnds(t) \/ EndIteration(t) \/ JoinSteps(t) \/ Finish(t) \/ Write(t)

\* The steps that neither mark an execution nor move a thread.
Aside ==
    \/ Serve \/ Stop \/ StopJoin \/ UNCHANGED vars
    \/ \E d \in Definitions : RemoveWorkflow(d)

\* Every step is of one of these kinds.
LEMMA Kinds ==
    ASSUME [Next]_vars
    PROVE  \/ \E e \in Executions, d \in Definitions, mode \in {"none", "polling"} :
                 Execute(e, d, mode)
           \/ \E e \in Executions : CallerStep(e) \/ Control(e)
           \/ \E e \in Executions, s \in Steps : StepStep(e, s)
           \/ \E t \in Threads, e \in Executions : Pick(t, e)
           \/ \E t \in Threads : ThreadExits(t) \/ Inner(t) \/ Retire(t)
           \/ Aside \/ Start
  BY DEF Next, ThreadStep, Inner, Aside

\* What the last kind leaves alone.
LEMMA AsideKeeps ==
    ASSUME Aside
    PROVE  UNCHANGED <<active, completed, estate, threadVars, stepVars, clientVars>>
  BY DEF Aside, Serve, Stop, StopJoin, RemoveWorkflow, vars, mapVars, threadVars, stepVars,
      clientVars

\* One entry of a table of tables is replaced.
LEMMA NestedUpdate ==
    ASSUME NEW S, NEW T, NEW V, NEW f \in [S -> [T -> V]], NEW a \in S, NEW b \in T, NEW v \in V
    PROVE  /\ [f EXCEPT ![a][b] = v] \in [S -> [T -> V]]
           /\ [f EXCEPT ![a][b] = v][a][b] = v
           /\ \A x \in S \ {a} : [f EXCEPT ![a][b] = v][x] = f[x]
           /\ \A y \in T \ {b} : [f EXCEPT ![a][b] = v][a][y] = f[a][y]
  OBVIOUS

\* A thread that is not idle has an execution that exists and is nobody else's.
LEMMA TaskFacts ==
    ASSUME TypeOK, Listed, OneThreadEach, NEW t \in Threads, tpc[t] \notin {"exited", "idle"}
    PROVE  /\ task[t] \in Executions /\ task[t] \in active /\ task[t] \notin completed
           /\ estate[task[t]] \notin {"ABSENT", "PENDING"}
           /\ workflow[task[t]] \in Definitions
           /\ \A u \in Threads : task[u] = task[t] => u = t
<1>1. task[t] \in Executions
  BY DEF TypeOK
<1>2. task[t] \in active \ completed /\ estate[task[t]] # "PENDING"
      /\ \A u \in Threads : task[u] = task[t] => u = t
  BY <1>1, OrchestratorAssumption DEF OneThreadEach
<1>3. QED
  BY <1>1, <1>2 DEF Listed

\* What is assumed of a definition, element by element.
LEMMA DefinitionFacts ==
    ASSUME NEW d \in Definitions
    PROVE  /\ d.type \in WorkflowTypes /\ d.steps \in Seq(Steps)
           /\ Len(d.steps) \in Nat \ {0}
           /\ \A i \in 1 .. Len(d.steps) : d.steps[i] \in Steps /\ i \in DOMAIN d.steps
<1>1. d.type \in WorkflowTypes /\ d.steps \in Seq(Steps) \ {<<>>}
  BY OrchestratorAssumption
<1>2. QED
  BY <1>1

\* The step a thread is at is one of its workflow's.
LEMMA StepFacts ==
    ASSUME TypeOK, Listed, OneThreadEach, LoopsAgree, NEW t \in Threads,
           AtStep(t) \/ tpc[t] = "step"
    PROVE  StepAt(t) \in Steps /\ StepAt(t) \in StepsOf(task[t])
<1>1. tpc[t] \notin {"exited", "idle"} /\ ~PastLast(t)
  BY DEF AtStep, LoopsAgree, LoopAgrees
<1>2. workflow[task[t]] \in Definitions
  BY <1>1, TaskFacts
<1>3. pos[t] \in Nat /\ pos[t] >= 1
  BY DEF TypeOK, LoopsAgree, LoopAgrees
<1>4. pos[t] \in 1 .. Len(workflow[task[t]].steps)
  BY <1>1, <1>3 DEF PastLast
<1>5. QED
  BY <1>2, <1>4, DefinitionFacts DEF StepAt, StepsOf

\* Clients and callers touch no thread and no step, and mark one execution that exists.
LEMMA ClientMoves ==
    ASSUME TypeOK, Listed, NEW e \in Executions, CallerStep(e) \/ Control(e)
    PROVE  /\ UNCHANGED <<active, completed, threadVars, stepVars, workflow, running, stopping>>
           /\ \A f \in Executions \ {e} : estate'[f] = estate[f] /\ caller'[f] = caller[f]
           /\ \/ estate'[e] = estate[e]
              \/ /\ estate[e] # "ABSENT"
                 /\ \/ e \in active /\ estate[e] = "RUNNING" /\ estate'[e] = "PAUSED"
                    \/ e \in active /\ estate[e] = "PAUSED" /\ estate'[e] = "RUNNING"
                    \/ e \in active /\ estate'[e] = "CANCELLED"
                    \/ caller[e] = "expiring" /\ estate'[e] = "TIMEOUT"
           /\ caller'[e] # caller[e] =>
                 \/ caller'[e] = "none"
                 \/ caller'[e] = "expiring" /\ estate[e] = "RUNNING" /\ estate'[e] = estate[e]
<1> USE DEF TypeOK, Listed, mapVars, threadVars, stepVars, clientVars, poolVars
<1>1. CASE CallerReturns(e)
  BY <1>1 DEF CallerReturns
<1>2. CASE CallerGivesUp(e)
  BY <1>2 DEF CallerGivesUp
<1>3. CASE CallerExpires(e)
  BY <1>3 DEF CallerExpires
<1>4. CASE Pause(e)
  BY <1>4 DEF Pause
<1>5. CASE Resume(e)
  BY <1>5 DEF Resume
<1>6. CASE Cancel(e)
  BY <1>6 DEF Cancel
<1>7. QED
  BY <1>1, <1>2, <1>3, <1>4, <1>5, <1>6 DEF CallerStep, Control

\* A thread inside an executor keeps its execution, moves alone, and touches no execution
\* but its own; the end of the executor is the only place that writes COMPLETED.
LEMMA InnerMoves ==
    ASSUME TypeOK, Listed, OneThreadEach, LoopsAgree, NEW t \in Threads, Inner(t)
    PROVE  /\ UNCHANGED <<active, completed, task, workflow, caller, running, stopping>>
           /\ tpc[t] \in Places \ {"exited", "idle", "move"}
           /\ tpc'[t] \in Places \ {"exited", "idle", "start"}
           /\ \A u \in Threads \ {t} : tpc'[u] = tpc[u] /\ pos'[u] = pos[u] /\ round'[u] = round[u]
           /\ \A e \in Executions \ {task[t]} : estate'[e] = estate[e] /\ spc'[e] = spc[e]
           /\ estate'[task[t]] \in {estate[task[t]], "FAILED", "COMPLETED"}
           /\ estate'[task[t]] # estate[task[t]] =>
                 tpc'[t] = "move" /\ (estate'[task[t]] = "COMPLETED" => Write(t))
<1>0. tpc[t] \in Places \ {"exited", "idle", "move"}
  BY DEF Inner, Begin, Enter, LeaveLoop, StartStep, SkipStep, RejectStep, StepEnds, EndIteration,
      JoinSteps, Finish, Write, AtStep, Places
<1>1. task[t] \in Executions
  BY <1>0, TaskFacts
<1> USE <1>1 DEF TypeOK, mapVars, threadVars, stepVars, clientVars, poolVars, Goto, Mark, Places
<1>2. CASE Begin(t)
  BY <1>2 DEF Begin
<1>3. CASE Enter(t)
  BY <1>3 DEF Enter
<1>4. CASE LeaveLoop(t)
  BY <1>4 DEF LeaveLoop
<1>5. CASE StartStep(t)
  <2>1. StepAt(t) \in Steps
    BY <1>5, StepFacts DEF StartStep
  <2>2. \A e \in Executions \ {task[t]} : spc'[e] = spc[e]
    BY <1>5 DEF StartStep
  <2>3. QED
    BY <1>0, <1>5, <2>2 DEF StartStep, AtStep
<1>6. CASE SkipStep(t)
  BY <1>6 DEF SkipStep, AtStep
<1>7. CASE RejectStep(t)
  BY <1>0, <1>7 DEF RejectStep, AtStep
<1>8. CASE StepEnds(t)
  BY <1>8 DEF StepEnds
<1>9. CASE EndIteration(t)
  BY <1>9 DEF EndIteration
<1>10. CASE JoinSteps(t)
  BY <1>10 DEF JoinSteps
<1>11. CASE Finish(t)
  BY <1>11 DEF Finish
<1>12. CASE Write(t)
  BY <1>12 DEF Write
<1>13. QED
  BY <1>2, <1>3, <1>4, <1>5, <1>6, <1>7, <1>8, <1>9, <1>10, <1>11, <1>12 DEF Inner

\* A step of an execution that is under way goes on, and touches nothing else.
LEMMA StepMoves ==
    ASSUME TypeOK, NEW e \in Executions, NEW s \in Steps, StepStep(e, s)
    PROVE  /\ UNCHANGED <<active, completed, estate, threadVars, clientVars, running, stopping>>
           /\ spc[e][s] \in {"submit", "wait"}
           /\ spc' \in [Executions -> [Steps -> StepPlaces]]
           /\ \A f \in Executions \ {e} : spc'[f] = spc[f]
           /\ \A q \in Steps \ {s} : spc'[e][q] = spc[e][q]
<1>1. spc[e][s] \in {"submit", "wait"}
  BY DEF StepStep, SubmitStep, SubmitRefused, StepSucceeds, StepFails, StepTimesOut
<1>2. \E p \in StepPlaces : Step(e, s, p)
  BY DEF StepStep, SubmitStep, SubmitRefused, StepSucceeds, StepFails, StepTimesOut, AttemptFails,
      StepPlaces
<1>3. UNCHANGED <<active, completed, estate, threadVars, clientVars, running, stopping>>
  BY DEF StepStep, SubmitStep, SubmitRefused, StepSucceeds, StepFails, StepTimesOut, mapVars,
      threadVars, clientVars, poolVars
<1>4. spc \in [Executions -> [Steps -> StepPlaces]]
  BY DEF TypeOK, StepPlaces
<1>5. QED
  BY <1>1, <1>2, <1>3, <1>4, NestedUpdate DEF Step

-----------------------------------------------------------------------------
(* Typing                                                                   *)

\* The loop counters stay in their range.
LEMMA LoopsTyped ==
    ASSUME TypeOK, Listed, OneThreadEach, LoopsAgree, [Next]_vars
    PROVE  pos' \in [Threads -> Nat] /\ round' \in [Threads -> 1 .. MaxIterations + 1]
<1>0. /\ pos \in [Threads -> Nat] /\ round \in [Threads -> 1 .. MaxIterations + 1]
      /\ MaxIterations \in Nat
  BY OrchestratorAssumption DEF TypeOK
<1>1. ASSUME NEW t \in Threads, Inner(t), ~EndIteration(t)
      PROVE  pos' \in [Threads -> Nat] /\ round' = round
  BY <1>0, <1>1 DEF Inner, Begin, Enter, LeaveLoop, StartStep, SkipStep, RejectStep, StepEnds,
      JoinSteps, Finish, Write
<1>2. ASSUME NEW t \in Threads, EndIteration(t)
      PROVE  pos' \in [Threads -> Nat] /\ round' \in [Threads -> 1 .. MaxIterations + 1]
  <2>1. workflow[task[t]] \in Definitions
    BY <1>2, TaskFacts DEF EndIteration
  <2>2. pos[t] > 1
    BY <1>0, <1>2, <2>1, DefinitionFacts DEF EndIteration, PastLast
  <2>3. round[t] <= MaxIterations
    BY <1>2, <2>2 DEF EndIteration, LoopsAgree, LoopAgrees
  <2>4. round[t] + 1 \in 1 .. MaxIterations + 1
    BY <1>0, <2>3
  <2>5. QED
    BY <1>0, <1>2, <2>4 DEF EndIteration
<1>3. ASSUME NEW t \in Threads, Retire(t)
      PROVE  pos' \in [Threads -> Nat] /\ round' \in [Threads -> 1 .. MaxIterations + 1]
  BY <1>0, <1>3 DEF Retire
<1>4. ASSUME \/ \E t \in Threads : (\E e \in Executions : Pick(t, e)) \/ ThreadExits(t)
             \/ \E e \in Executions, d \in Definitions, mode \in {"none", "polling"} :
                   Execute(e, d, mode)
             \/ Start
      PROVE  UNCHANGED <<pos, round>>
  BY <1>4 DEF Pick, ThreadExits, Execute, Start, threadVars
<1>5. ASSUME \/ \E e \in Executions : CallerStep(e) \/ Control(e)
             \/ \E e \in Executions, s \in Steps : StepStep(e, s)
             \/ Aside
      PROVE  UNCHANGED <<pos, round>>
  BY <1>5, ClientMoves, StepMoves, AsideKeeps DEF threadVars
<1>6. QED
  BY <1>0, <1>1, <1>2, <1>3, <1>4, <1>5, Kinds

\* So does what belongs to the steps of executions.
LEMMA StepsTyped ==
    ASSUME TypeOK, Listed, OneThreadEach, LoopsAgree, [Next]_vars
    PROVE  /\ spc' \in [Executions -> [Steps -> StepPlaces]]
           /\ attempt' \in [Executions -> [Steps -> Nat]]
           /\ used' \in [Executions -> [Steps -> 0 .. MaxRequests]]
           /\ results' \in [Executions -> SUBSET Steps]
<1>0. /\ spc \in [Executions -> [Steps -> StepPlaces]]
      /\ attempt \in [Executions -> [Steps -> Nat]]
      /\ used \in [Executions -> [Steps -> 0 .. MaxRequests]]
      /\ results \in [Executions -> SUBSET Steps]
  BY DEF TypeOK, StepPlaces
<1>1. ASSUME NEW e \in Executions, NEW s \in Steps, SubmitStep(e, s)
      PROVE  used' \in [Executions -> [Steps -> 0 .. MaxRequests]]
  <2>1. used[e][s] + 1 \in 0 .. MaxRequests
    BY <1>0, <1>1, OrchestratorAssumption DEF SubmitStep
  <2>2. QED
    BY <1>0, <1>1, <2>1, NestedUpdate DEF SubmitStep
<1>2. ASSUME NEW e \in Executions, NEW s \in Steps, StepStep(e, s)
      PROVE  used' \in [Executions -> [Steps -> 0 .. MaxRequests]]
  BY <1>0, <1>1, <1>2 DEF StepStep, SubmitRefused, StepSucceeds, StepFails, StepTimesOut
<1>3. ASSUME NEW e \in Executions, NEW s \in Steps, StepStep(e, s)
      PROVE  attempt' \in [Executions -> [Steps -> Nat]]
  <2>1. attempt[e][s] + 1 \in Nat
    BY <1>0
  <2>2. [attempt EXCEPT ![e][s] = @ + 1] \in [Executions -> [Steps -> Nat]]
    BY <1>0
  <2>3. QED
    BY <1>0, <1>3, <2>2 DEF StepStep, SubmitStep, SubmitRefused, StepSucceeds, StepFails,
        StepTimesOut, AttemptFails
<1>4. ASSUME NEW e \in Executions, NEW s \in Steps, StepStep(e, s)
      PROVE  results' \in [Executions -> SUBSET Steps]
  BY <1>0, <1>4 DEF StepStep, SubmitStep, SubmitRefused, StepSucceeds, StepFails, StepTimesOut
<1>5. ASSUME NEW t \in Threads, StartStep(t)
      PROVE  /\ spc' \in [Executions -> [Steps -> StepPlaces]]
             /\ attempt' \in [Executions -> [Steps -> Nat]]
             /\ UNCHANGED <<used, results>>
  <2>1. task[t] \in Executions /\ StepAt(t) \in Steps
    BY <1>5, TaskFacts, StepFacts DEF StartStep, AtStep
  <2>2. "submit" \in StepPlaces /\ 0 \in Nat
    BY DEF StepPlaces
  <2>3. QED
    BY <1>0, <1>5, <2>2 DEF StartStep
<1>6. ASSUME NEW t \in Threads, Inner(t), ~StartStep(t)
      PROVE  UNCHANGED <<spc, attempt, used, results>>
  BY <1>6 DEF Inner, Begin, Enter, LeaveLoop, SkipStep, RejectStep, StepEnds, EndIteration,
      JoinSteps, Finish, Write, stepVars
<1>7. ASSUME \/ \E t \in Threads : \/ \E e \in Executions : Pick(t, e)
                                   \/ ThreadExits(t) \/ Retire(t)
             \/ \E e \in Executions, d \in Definitions, mode \in {"none", "polling"} :
                   Execute(e, d, mode)
             \/ Start
      PROVE  UNCHANGED <<spc, attempt, used, results>>
  BY <1>7 DEF Pick, ThreadExits, Retire, Execute, Start, stepVars
<1>8. ASSUME (\E e \in Executions : CallerStep(e) \/ Control(e)) \/ Aside
      PROVE  UNCHANGED <<spc, attempt, used, results>>
  BY <1>8, ClientMoves, AsideKeeps DEF stepVars
<1>9. QED
  BY <1>0, <1>2, <1>3, <1>4, <1>5, <1>6, <1>7, <1>8, StepMoves, Kinds

\* And everything else: only a thread that processes an execution has one.
LEMMA RestTyped ==
    ASSUME TypeOK, Listed, OneThreadEach, LoopsAgree, PoolAtRest, [Next]_vars
    PROVE  /\ registered' \in SUBSET Definitions
           /\ active' \in SUBSET Executions /\ completed' \in SUBSET Executions
           /\ estate' \in [Executions -> ExecutionStates]
           /\ workflow' \in [Executions -> Definitions \cup {None}]
           /\ tpc' \in [Threads -> Places]
           /\ task' \in [Threads -> Executions \cup {None}]
           /\ \A t \in Threads : task'[t] = None <=> tpc'[t] \in {"exited", "idle"}
           /\ caller' \in [Executions -> {"none", "polling", "expiring"}]
           /\ running' \in BOOLEAN /\ stopping' \in BOOLEAN
<1> DEFINE Typed ==
      /\ registered \in SUBSET Definitions
      /\ active \in SUBSET Executions /\ completed \in SUBSET Executions
      /\ estate \in [Executions -> ExecutionStates]
      /\ workflow \in [Executions -> Definitions \cup {None}]
      /\ tpc \in [Threads -> Places]
      /\ task \in [Threads -> Executions \cup {None}]
      /\ \A t \in Threads : task[t] = None <=> tpc[t] \in {"exited", "idle"}
      /\ caller \in [Executions -> {"none", "polling", "expiring"}]
      /\ running \in BOOLEAN /\ stopping \in BOOLEAN
<1>0. Typed /\ None \notin Executions
  BY OrchestratorAssumption DEF TypeOK, Places
<1> USE <1>0 DEF ExecutionStates, Terminal, mapVars, threadVars, stepVars, clientVars, poolVars
<1>1. ASSUME NEW e \in Executions, NEW d \in Definitions, NEW mode \in {"none", "polling"},
             Execute(e, d, mode)
      PROVE Typed'
  BY <1>1 DEF Execute
<1>2. ASSUME NEW e \in Executions, CallerReturns(e) PROVE Typed'
  BY <1>2 DEF CallerReturns
<1>3. ASSUME NEW e \in Executions, CallerGivesUp(e) PROVE Typed'
  BY <1>3 DEF CallerGivesUp
<1>4. ASSUME NEW e \in Executions, CallerExpires(e) PROVE Typed'
  BY <1>4 DEF CallerExpires
<1>5. ASSUME NEW e \in Executions, Pause(e) PROVE Typed'
  BY <1>5 DEF Pause
<1>6. ASSUME NEW e \in Executions, Resume(e) PROVE Typed'
  BY <1>6 DEF Resume
<1>7. ASSUME NEW e \in Executions, Cancel(e) PROVE Typed'
  BY <1>7 DEF Cancel
<1>8. ASSUME NEW d \in Definitions, RemoveWorkflow(d) PROVE Typed'
  BY <1>8 DEF RemoveWorkflow
<1>9. ASSUME NEW t \in Threads, NEW e \in Executions, Pick(t, e) PROVE Typed'
  BY <1>9 DEF Pick, Places
<1>10. ASSUME NEW t \in Threads, ThreadExits(t) PROVE Typed'
  BY <1>10 DEF ThreadExits, Places, Goto, Mark
<1>11. ASSUME NEW t \in Threads, Retire(t) PROVE Typed'
  BY <1>11 DEF Retire, Places, Goto, Mark
<1>12. ASSUME NEW t \in Threads, Begin(t) PROVE Typed'
  BY <1>12 DEF Begin, Places, Goto, Mark
<1>13. ASSUME NEW t \in Threads, Enter(t) PROVE Typed'
  BY <1>13 DEF Enter, Places, Goto, Mark
<1>14. ASSUME NEW t \in Threads, LeaveLoop(t) PROVE Typed'
  BY <1>14 DEF LeaveLoop, Places, Goto, Mark
<1>15. ASSUME NEW t \in Threads, StartStep(t) PROVE Typed'
  BY <1>15 DEF StartStep, Places, Goto, Mark, AtStep
<1>16. ASSUME NEW t \in Threads, SkipStep(t) PROVE Typed'
  BY <1>16 DEF SkipStep
<1>17. ASSUME NEW t \in Threads, RejectStep(t) PROVE Typed'
  BY <1>17 DEF RejectStep, Places, Goto, Mark, AtStep
<1>18. ASSUME NEW t \in Threads, StepEnds(t) PROVE Typed'
  BY <1>18 DEF StepEnds, Places, Goto, Mark
<1>19. ASSUME NEW t \in Threads, EndIteration(t) PROVE Typed'
  BY <1>19 DEF EndIteration, Places, Goto, Mark
<1>20. ASSUME NEW t \in Threads, JoinSteps(t) PROVE Typed'
  BY <1>20 DEF JoinSteps, Places, Goto, Mark
<1>21. ASSUME NEW t \in Threads, Finish(t) PROVE Typed'
  BY <1>21 DEF Finish, Places, Goto, Mark
<1>22. ASSUME NEW t \in Threads, Write(t) PROVE Typed'
  BY <1>22 DEF Write, Places, Goto, Mark
<1>23. ASSUME NEW e \in Executions, NEW s \in Steps, StepStep(e, s) PROVE Typed'
  BY <1>23, StepMoves DEF StepStep, SubmitStep, SubmitRefused, StepSucceeds, StepFails, StepTimesOut
<1>24. ASSUME Start PROVE Typed'
  BY <1>24 DEF Start, PoolAtRest, Places
<1>25. ASSUME Serve \/ Stop \/ StopJoin \/ UNCHANGED vars PROVE Typed'
  BY <1>25 DEF Serve, Stop, StopJoin, vars
<1>26. QED
  BY <1>1, <1>2, <1>3, <1>4, <1>5, <1>6, <1>7, <1>8, <1>9, <1>10, <1>11, <1>12, <1>13, <1>14, <1>15,
      <1>16, <1>17, <1>18, <1>19, <1>20, <1>21, <1>22, <1>23, <1>24, <1>25 DEF Next, CallerStep,
      Control, ThreadStep

\* So every step keeps the types.
LEMMA TypeStep ==
    ASSUME TypeOK, Listed, OneThreadEach, LoopsAgree, PoolAtRest, [Next]_vars
    PROVE  TypeOK'
  BY LoopsTyped, StepsTyped, RestTyped DEF TypeOK, Places, StepPlaces

-----------------------------------------------------------------------------
(* Where executions are                                                     *)

\* A thread leaves "exited" only by start(), which sets running_.
LEMMA PoolStep ==
    ASSUME TypeOK, Listed, OneThreadEach, LoopsAgree, PoolAtRest, [Next]_vars
    PROVE  PoolAtRest'
<1>1. ASSUME NEW t \in Threads, ThreadExits(t) \/ (\E e \in Executions : Pick(t, e)) \/ Retire(t)
      PROVE  UNCHANGED <<running, stopping>> /\ tpc[t] # "exited"
  BY <1>1 DEF ThreadExits, Pick, Retire, poolVars
<1>2. ASSUME NEW t \in Threads, Inner(t)
      PROVE  UNCHANGED <<running, stopping>> /\ tpc[t] # "exited"
  BY <1>2, InnerMoves
<1>3. ASSUME NEW e \in Executions, CallerStep(e) \/ Control(e)
      PROVE  UNCHANGED <<running, stopping, tpc>>
  BY <1>3, ClientMoves DEF threadVars
<1>4. ASSUME NEW e \in Executions, NEW s \in Steps, StepStep(e, s)
      PROVE  UNCHANGED <<running, stopping, tpc>>
  BY <1>4, StepMoves DEF threadVars
<1>5. ASSUME NEW e \in Executions, NEW d \in Definitions, NEW mode, Execute(e, d, mode)
      PROVE  UNCHANGED <<running, stopping, tpc>>
  BY <1>5 DEF Execute, poolVars, threadVars
<1>6. ASSUME Aside PROVE PoolAtRest'
  BY <1>6 DEF Aside, Serve, Stop, StopJoin, RemoveWorkflow, vars, threadVars, poolVars, PoolAtRest
<1>7. ASSUME Start PROVE running'
  BY <1>7 DEF Start
<1>8. QED
  BY <1>1, <1>2, <1>3, <1>4, <1>5, <1>6, <1>7, Kinds DEF PoolAtRest

\* An execution enters active when it is made and leaves it for completed.
LEMMA ListedStep ==
    ASSUME TypeOK, TypeOK', Listed, OneThreadEach, LoopsAgree, [Next]_vars
    PROVE  Listed'
<1>1. ASSUME NEW e \in Executions, NEW d \in Definitions, NEW mode, Execute(e, d, mode)
      PROVE  Listed'
  <2>1. /\ estate[e] = "ABSENT" /\ d \in Definitions
        /\ completed' = completed /\ active' = active \cup {e}
        /\ estate'[e] = "PENDING" /\ workflow'[e] = d
        /\ \A f \in Executions \ {e} :
              estate'[f] = estate[f] /\ workflow'[f] = workflow[f] /\ caller'[f] = caller[f]
    BY <1>1 DEF Execute, TypeOK
  <2>2. active' \cap completed' = {}
    BY <2>1 DEF Listed
  <2>3. QED
    BY <2>1 DEF Listed
<1>2. ASSUME NEW e \in Executions, CallerStep(e) \/ Control(e) PROVE Listed'
  <2>1. /\ UNCHANGED <<active, completed, workflow>>
        /\ \A f \in Executions \ {e} : estate'[f] = estate[f] /\ caller'[f] = caller[f]
    BY <1>2, ClientMoves
  <2>2. /\ estate'[e] = "ABSENT" <=> estate[e] = "ABSENT"
        /\ estate[e] = "ABSENT" /\ caller[e] = "none" => caller'[e] = "none"
    BY <1>2, ClientMoves
  <2>3. QED
    BY <2>1, <2>2 DEF Listed
<1>3. ASSUME NEW t \in Threads, NEW e \in Executions, Pick(t, e) PROVE Listed'
  BY <1>3 DEF Listed, Pick, mapVars, clientVars, TypeOK
<1>4. ASSUME NEW t \in Threads, Inner(t) PROVE Listed'
  <2>1. task[t] \in Executions /\ estate[task[t]] # "ABSENT"
    BY <1>4, InnerMoves, TaskFacts
  <2>2. QED
    BY <1>4, <2>1, InnerMoves DEF Listed
<1>5. ASSUME NEW t \in Threads, Retire(t) PROVE Listed'
  <2>1. task[t] \in Executions /\ estate[task[t]] # "ABSENT"
    BY <1>5, TaskFacts DEF Retire
  <2>2. QED
    BY <1>5, <2>1 DEF Listed, Retire, clientVars
<1>6. ASSUME UNCHANGED <<active, completed, estate, clientVars>> PROVE Listed'
  BY <1>6 DEF Listed, clientVars
<1>7. ASSUME (\E e \in Executions, s \in Steps : StepStep(e, s)) \/ Aside
      PROVE  UNCHANGED <<active, completed, estate, clientVars>>
  BY <1>7, StepMoves, AsideKeeps
<1>8. ASSUME (\E t \in Threads : ThreadExits(t)) \/ Start
      PROVE  UNCHANGED <<active, completed, estate, clientVars>>
  BY <1>8 DEF ThreadExits, Start, mapVars
<1>9. QED
  BY <1>1, <1>2, <1>3, <1>4, <1>5, <1>6, <1>7, <1>8, Kinds

\* No thread takes an execution that another one has, and none keeps one that left active.
LEMMA ThreadsStep ==
    ASSUME TypeOK, TypeOK', Listed, OneThreadEach, LoopsAgree, PoolAtRest, [Next]_vars
    PROVE  OneThreadEach'
<1>0. /\ None \notin Executions
      /\ \A t \in Threads : task[t] # None => task[t] \in Executions
  BY OrchestratorAssumption DEF TypeOK
<1>1. ASSUME NEW e \in Executions, NEW d \in Definitions, NEW mode, Execute(e, d, mode)
      PROVE  OneThreadEach'
  BY <1>0, <1>1 DEF OneThreadEach, Listed, Execute, threadVars, TypeOK
<1>2. ASSUME NEW e \in Executions, CallerStep(e) \/ Control(e) PROVE OneThreadEach'
  <2>1. /\ UNCHANGED <<active, completed, task>>
        /\ \A f \in Executions : estate'[f] = "PENDING" => estate[f] = "PENDING"
    BY <1>2, ClientMoves DEF threadVars
  <2>2. QED
    BY <1>0, <2>1 DEF OneThreadEach
<1>3. ASSUME NEW t \in Threads, NEW e \in Executions, Pick(t, e) PROVE OneThreadEach'
  <2>1. /\ \A u \in Threads \ {t} : task'[u] = task[u]
        /\ task'[t] = e /\ task[t] = None
        /\ UNCHANGED <<active, completed>>
        /\ \A f \in Executions : estate'[f] = "PENDING" => f # e /\ estate[f] = "PENDING"
    BY <1>3 DEF Pick, TypeOK, mapVars
  <2>2. e \in active \ completed /\ \A u \in Threads : task[u] # e
    BY <1>0, <1>3 DEF Pick, Listed, OneThreadEach
  <2>3. QED
    BY <1>0, <2>1, <2>2 DEF OneThreadEach
<1>4. ASSUME NEW t \in Threads, Inner(t) PROVE OneThreadEach'
  <2>1. /\ UNCHANGED <<active, completed, task>>
        /\ \A f \in Executions : estate'[f] = "PENDING" => estate[f] = "PENDING"
    BY <1>4, InnerMoves
  <2>2. QED
    BY <1>0, <2>1 DEF OneThreadEach
<1>5. ASSUME NEW t \in Threads, Retire(t) PROVE OneThreadEach'
  BY <1>0, <1>5 DEF OneThreadEach, Retire, TypeOK
<1>6. ASSUME UNCHANGED <<active, completed, estate, task>> PROVE OneThreadEach'
  BY <1>6 DEF OneThreadEach
<1>7. ASSUME (\E e \in Executions, s \in Steps : StepStep(e, s)) \/ Aside
      PROVE  UNCHANGED <<active, completed, estate, task>>
  BY <1>7, StepMoves, AsideKeeps DEF threadVars
<1>8. ASSUME (\E t \in Threads : ThreadExits(t)) \/ Start
      PROVE  UNCHANGED <<active, completed, estate, task>>
  BY <1>8 DEF ThreadExits, Start, mapVars
<1>9. QED
  BY <1>1, <1>2, <1>3, <1>4, <1>5, <1>6, <1>7, <1>8, Kinds

\* Whoever leaves PENDING and CANCELLED has a thread, and keeps it until it is retired.
LEMMA StrandedStep ==
    ASSUME TypeOK, TypeOK', Listed, OneThreadEach, LoopsAgree, NobodyStranded, ExpiringHasThread,
           [Next]_vars
    PROVE  NobodyStranded' /\ ExpiringHasThread'
<1> DEFINE Held(e) == \E t \in Threads : task[t] = e
<1>0. None \notin Executions /\ active \subseteq Executions
  BY OrchestratorAssumption DEF TypeOK
<1>1. ASSUME NEW e \in Executions, NEW d \in Definitions, NEW mode \in {"none", "polling"},
             Execute(e, d, mode)
      PROVE  NobodyStranded' /\ ExpiringHasThread'
  <2>1. /\ task' = task /\ active' = active \cup {e}
        /\ estate'[e] = "PENDING" /\ caller'[e] # "expiring"
        /\ \A f \in Executions \ {e} : estate'[f] = estate[f] /\ caller'[f] = caller[f]
    BY <1>1 DEF Execute, threadVars, TypeOK
  <2>2. QED
    BY <1>0, <2>1 DEF NobodyStranded, ExpiringHasThread
<1>2. ASSUME NEW e \in Executions, CallerStep(e) \/ Control(e)
      PROVE  NobodyStranded' /\ ExpiringHasThread'
  <2>1. UNCHANGED <<active, task>>
    BY <1>2, ClientMoves DEF threadVars
  <2>2. \A f \in active \ {e} : estate'[f] = estate[f] /\ caller'[f] = caller[f]
    BY <1>0, <1>2, ClientMoves
  <2>3. e \in active => Held(e) \/ estate'[e] \in {"PENDING", "CANCELLED"}
    BY <1>2, ClientMoves DEF NobodyStranded, ExpiringHasThread
  <2>4. e \in active /\ caller'[e] = "expiring" => Held(e)
    BY <1>2, ClientMoves DEF NobodyStranded, ExpiringHasThread
  <2>5. QED
    BY <2>1, <2>2, <2>3, <2>4 DEF NobodyStranded, ExpiringHasThread
<1>3. ASSUME NEW t \in Threads, NEW e \in Executions, Pick(t, e)
      PROVE  NobodyStranded' /\ ExpiringHasThread'
  <2>1. /\ \A u \in Threads \ {t} : task'[u] = task[u]
        /\ task'[t] = e /\ task[t] = None
        /\ UNCHANGED <<active, caller>>
        /\ \A f \in Executions \ {e} : estate'[f] = estate[f]
    BY <1>3 DEF Pick, TypeOK, mapVars, clientVars
  <2>2. \A f \in active : Held(f) => Held(f)'
    BY <1>0, <2>1
  <2>3. Held(e)'
    BY <2>1
  <2>4. QED
    BY <1>0, <2>1 DEF NobodyStranded, ExpiringHasThread
<1>4. ASSUME NEW t \in Threads, Inner(t) PROVE NobodyStranded' /\ ExpiringHasThread'
  <2>1. /\ UNCHANGED <<active, task, caller>>
        /\ \A e \in Executions \ {task[t]} : estate'[e] = estate[e]
    BY <1>4, InnerMoves
  <2>2. QED
    BY <1>0, <2>1 DEF NobodyStranded, ExpiringHasThread
<1>5. ASSUME NEW t \in Threads, Retire(t) PROVE NobodyStranded' /\ ExpiringHasThread'
  <2>1. /\ \A u \in Threads \ {t} : task'[u] = task[u]
        /\ active' = active \ {task[t]}
        /\ UNCHANGED <<estate, caller>>
    BY <1>5 DEF Retire, clientVars, TypeOK
  <2>2. \A f \in active' : Held(f) => Held(f)'
    BY <2>1
  <2>3. QED
    BY <2>1, <2>2 DEF NobodyStranded, ExpiringHasThread
<1>6. ASSUME UNCHANGED <<active, estate, task, caller>> PROVE NobodyStranded' /\ ExpiringHasThread'
  BY <1>6 DEF NobodyStranded, ExpiringHasThread
<1>7. ASSUME (\E e \in Executions, s \in Steps : StepStep(e, s)) \/ Aside
      PROVE  UNCHANGED <<active, estate, task, caller>>
  BY <1>7, StepMoves, AsideKeeps DEF threadVars, clientVars
<1>8. ASSUME (\E t \in Threads : ThreadExits(t)) \/ Start
      PROVE  UNCHANGED <<active, estate, task, caller>>
  BY <1>8 DEF ThreadExits, Start, mapVars, clientVars
<1>9. QED
  BY <1>1, <1>2, <1>3, <1>4, <1>5, <1>6, <1>7, <1>8, Kinds

-----------------------------------------------------------------------------
(* The executors                                                            *)

\* What an executor sees of its workflow does not change under it.
LEMMA ExecuteMoves ==
    ASSUME TypeOK, Listed, OneThreadEach, NEW e \in Executions, NEW d \in Definitions,
           NEW mode \in {"none", "polling"}, Execute(e, d, mode)
    PROVE  /\ UNCHANGED <<threadVars, stepVars>>
           /\ estate[e] = "ABSENT" /\ estate'[e] = "PENDING"
           /\ \A f \in Executions \ {e} : estate'[f] = estate[f] /\ workflow'[f] = workflow[f]
           /\ \A t \in Threads : task[t] # e
           /\ \A t \in Threads : tpc[t] \notin {"exited", "idle"} =>
                 workflow'[task[t]] = workflow[task[t]]
<1>1. /\ UNCHANGED <<threadVars, stepVars>>
      /\ estate[e] = "ABSENT" /\ estate'[e] = "PENDING"
      /\ \A f \in Executions \ {e} : estate'[f] = estate[f] /\ workflow'[f] = workflow[f]
  BY DEF Execute, TypeOK
<1>2. \A t \in Threads : task[t] # e
  BY <1>1, OrchestratorAssumption DEF Listed, OneThreadEach
<1>3. \A t \in Threads : tpc[t] \notin {"exited", "idle"} => task[t] \in Executions
  BY TaskFacts
<1>4. QED
  BY <1>1, <1>2, <1>3

\* The loop indices go on agreeing with the place of each thread.
LEMMA LoopsStep ==
    ASSUME TypeOK, TypeOK', Listed, OneThreadEach, LoopsAgree, PoolAtRest, [Next]_vars
    PROVE  LoopsAgree'
<1>a. /\ pos \in [Threads -> Nat] /\ round \in [Threads -> 1 .. MaxIterations + 1]
      /\ tpc \in [Threads -> Places] /\ MaxIterations \in Nat
  BY OrchestratorAssumption DEF TypeOK, Places
<1>1. ASSUME NEW e \in Executions, NEW d \in Definitions, NEW mode \in {"none", "polling"},
             Execute(e, d, mode)
      PROVE  LoopsAgree'
  BY <1>1, ExecuteMoves DEF LoopsAgree, LoopAgrees, TypeOf, PastLast, threadVars
<1>2. ASSUME UNCHANGED <<threadVars, workflow>> PROVE LoopsAgree'
  BY <1>2 DEF LoopsAgree, LoopAgrees, TypeOf, PastLast, threadVars
<1>3. ASSUME \/ \E e \in Executions : CallerStep(e) \/ Control(e)
             \/ \E e \in Executions, s \in Steps : StepStep(e, s)
             \/ Aside
      PROVE  UNCHANGED <<threadVars, workflow>>
  BY <1>3, ClientMoves, StepMoves, AsideKeeps DEF clientVars
<1>4. ASSUME NEW t \in Threads, NEW e \in Executions, Pick(t, e) PROVE LoopsAgree'
  BY <1>a, <1>4 DEF LoopsAgree, LoopAgrees, TypeOf, PastLast, Pick, clientVars, TypeOK
<1>5. ASSUME NEW t \in Threads, ThreadExits(t) PROVE LoopsAgree'
  BY <1>a, <1>5 DEF LoopsAgree, LoopAgrees, TypeOf, PastLast, ThreadExits, clientVars, TypeOK
<1>6. ASSUME NEW t \in Threads, Retire(t) PROVE LoopsAgree'
  BY <1>a, <1>6 DEF LoopsAgree, LoopAgrees, TypeOf, PastLast, Retire, Goto, clientVars, TypeOK
<1>7. ASSUME Start PROVE LoopsAgree'
  BY <1>a, <1>7 DEF LoopsAgree, LoopAgrees, TypeOf, PastLast, Start, PoolAtRest, clientVars, TypeOK
<1>8. ASSUME NEW t \in Threads, Inner(t) PROVE LoopsAgree'
  <2>1. \A u \in Threads \ {t} : LoopAgrees(u)'
    BY <1>8, InnerMoves DEF LoopsAgree, LoopAgrees, TypeOf, PastLast
  <2>2. LoopAgrees(t)'
    <3> USE <1>a DEF TypeOf, PastLast, Goto, clientVars, LoopAgrees
    <3>0. LoopAgrees(t)
      BY DEF LoopsAgree
    <3>1. CASE Begin(t)
      BY <3>0, <3>1 DEF Begin
    <3>2. CASE Enter(t)
      BY <3>0, <3>2 DEF Enter
    <3>3. CASE LeaveLoop(t)
      BY <3>0, <3>3 DEF LeaveLoop
    <3>4. CASE StartStep(t)
      BY <3>0, <3>4 DEF StartStep, AtStep, LoopOver
    <3>5. CASE SkipStep(t)
      BY <3>0, <3>5 DEF SkipStep, AtStep, DependenciesMet, HasCondition
    <3>6. CASE RejectStep(t)
      BY <3>0, <3>6 DEF RejectStep, AtStep
    <3>7. CASE StepEnds(t)
      BY <3>0, <3>7 DEF StepEnds
    <3>8. CASE EndIteration(t)
      BY <3>8 DEF EndIteration
    <3>9. CASE JoinSteps(t)
      BY <3>0, <3>9 DEF JoinSteps
    <3>10. CASE Finish(t)
      BY <3>0, <3>10 DEF Finish
    <3>11. CASE Write(t)
      BY <3>0, <3>11 DEF Write
    <3>12. QED
      BY <1>8, <3>1, <3>2, <3>3, <3>4, <3>5, <3>6, <3>7, <3>8, <3>9, <3>10, <3>11 DEF Inner
  <2>3. QED
    BY <2>1, <2>2 DEF LoopsAgree
<1>9. QED
  BY <1>1, <1>2, <1>3, <1>4, <1>5, <1>6, <1>7, <1>8, Kinds

\* A step that is under way has the thread of its execution waiting for it.
LEMMA ConductorFacts ==
    ASSUME TypeOK, Listed, OneThreadEach, StepsAgree, NEW t \in Threads,
           tpc[t] \notin {"exited", "idle"}, NEW s \in Steps, spc[task[t]][s] \in {"submit", "wait"}
    PROVE  Conducts(t, s)
<1>1. \E u \in Threads : task[u] = task[t] /\ Conducts(u, s)
  BY TaskFacts DEF StepsAgree
<1>2. QED
  BY <1>1, TaskFacts

\* What a thread in an executor does to the steps of its execution.
LEMMA ConductorStep ==
    ASSUME TypeOK, Listed, OneThreadEach, LoopsAgree, StepsAgree, NEW t \in Threads, Inner(t),
           NEW s \in Steps, spc'[task[t]][s] \in {"submit", "wait"}
    PROVE  Conducts(t, s)'
<1>0. /\ task[t] \in Executions /\ tpc[t] \notin {"exited", "idle"}
      /\ UNCHANGED <<task, workflow>>
      /\ tpc \in [Threads -> Places] /\ pos \in [Threads -> Nat]
      /\ spc \in [Executions -> [Steps -> StepPlaces]]
  BY InnerMoves DEF TypeOK, Places, StepPlaces
<1>1. spc' = spc => Conducts(t, s)
  BY <1>0, ConductorFacts
<1> USE <1>0, <1>1 DEF Conducts, TypeOf, StepsOf, Goto, stepVars
<1>2. CASE Begin(t)
  BY <1>2 DEF Begin
<1>3. CASE Enter(t)
  BY <1>3 DEF Enter
<1>4. CASE LeaveLoop(t)
  BY <1>4 DEF LeaveLoop
<1>5. CASE StartStep(t)
  <2>1. StepAt(t) \in Steps /\ StepAt(t) \in StepsOf(task[t]) /\ tpc[t] = "loop"
    BY <1>5, StepFacts DEF StartStep, AtStep
  <2>2. \A q \in Steps \ {StepAt(t)} : spc'[task[t]][q] = spc[task[t]][q]
    BY <1>5, <2>1, NestedUpdate DEF StartStep
  <2>3. CASE s = StepAt(t)
    BY <1>5, <2>1, <2>3 DEF StartStep, StepAt
  <2>4. CASE s # StepAt(t)
    <3>1. Conducts(t, s)
      BY <2>2, <2>4, ConductorFacts
    <3>2. QED
      BY <1>5, <2>1, <3>1 DEF StartStep
  <2>5. QED
    BY <2>3, <2>4
<1>6. CASE SkipStep(t)
  BY <1>6 DEF SkipStep, AtStep, DependenciesMet, HasCondition
<1>7. CASE RejectStep(t)
  BY <1>7 DEF RejectStep, AtStep, DependenciesMet, HasCondition
<1>8. CASE StepEnds(t)
  BY <1>8 DEF StepEnds, LoopsAgree, LoopAgrees
<1>9. CASE EndIteration(t)
  BY <1>9 DEF EndIteration
<1>10. CASE JoinSteps(t)
  BY <1>10 DEF JoinSteps, LoopsAgree, LoopAgrees
<1>11. CASE Finish(t)
  BY <1>11 DEF Finish
<1>12. CASE Write(t)
  BY <1>12 DEF Write
<1>13. QED
  BY <1>2, <1>3, <1>4, <1>5, <1>6, <1>7, <1>8, <1>9, <1>10, <1>11, <1>12 DEF Inner

\* What a thread sees of another one, and of a step it does not run, stays.
LEMMA ConductsKept ==
    ASSUME TypeOK, Listed, OneThreadEach, NEW t \in Threads, NEW s \in Steps, Conducts(t, s),
           tpc'[t] = tpc[t], pos'[t] = pos[t], task'[t] = task[t],
           workflow'[task[t]] = workflow[task[t]]
    PROVE  Conducts(t, s)'
  BY DEF Conducts, TypeOf, StepAt, StepsOf

\* Every step of the system keeps the steps of executions with the threads that wait for them.
LEMMA StepsStep ==
    ASSUME TypeOK, TypeOK', Listed, OneThreadEach, LoopsAgree, PoolAtRest, StepsAgree, [Next]_vars
    PROVE  StepsAgree'
<1> DEFINE Begun == \A e \in Executions, s \in Steps :
                      estate[e] \in {"ABSENT", "PENDING"} => spc[e][s] = "idle"
           Conducted == \A e \in Executions, s \in Steps :
                          spc[e][s] \in {"submit", "wait"} =>
                             \E t \in Threads : task[t] = e /\ Conducts(t, s)
           Entered == \A t \in Threads, s \in Steps :
                        tpc[t] \in {"start", "enter"} => spc[task[t]][s] = "idle"
<1>0. /\ StepsAgree <=> Begun /\ Conducted /\ Entered
      /\ StepsAgree' <=> Begun' /\ Conducted' /\ Entered'
  BY DEF StepsAgree
<1>a. \A t \in Threads, s \in Steps : Conducts(t, s) => tpc[t] \notin {"exited", "idle", "move"}
  BY DEF Conducts
<1>b. \A t \in Threads : tpc[t] \notin {"exited", "idle"} => task[t] \in Executions
  BY TaskFacts
<1>1. ASSUME NEW e \in Executions, NEW d \in Definitions, NEW mode \in {"none", "polling"},
             Execute(e, d, mode)
      PROVE  StepsAgree'
  <2>1. Begun' /\ Entered'
    BY <1>0, <1>1, ExecuteMoves DEF threadVars, stepVars
  <2>2. \A t \in Threads, s \in Steps : Conducts(t, s) => Conducts(t, s)'
    BY <1>1, <1>a, ConductsKept, ExecuteMoves DEF threadVars
  <2>3. Conducted'
    BY <1>0, <1>1, <2>2, ExecuteMoves DEF threadVars, stepVars
  <2>4. QED
    BY <1>0, <2>1, <2>3
<1>2. ASSUME NEW e \in Executions, CallerStep(e) \/ Control(e) PROVE StepsAgree'
  <2>1. UNCHANGED <<threadVars, stepVars, workflow>>
    BY <1>2, ClientMoves
  <2>2. \A f \in Executions : estate'[f] \in {"ABSENT", "PENDING"} => estate[f] = estate'[f]
    BY <1>2, ClientMoves
  <2>3. QED
    BY <1>0, <2>1, <2>2 DEF Conducts, TypeOf, StepAt, StepsOf, threadVars, stepVars
<1>3. ASSUME NEW t \in Threads, NEW e \in Executions, Pick(t, e) PROVE StepsAgree'
  <2>1. /\ UNCHANGED <<spc, pos, workflow>> /\ tpc[t] = "idle"
        /\ task'[t] = e /\ estate[e] = "PENDING" /\ estate'[e] = "RUNNING"
        /\ \A u \in Threads \ {t} : tpc'[u] = tpc[u] /\ task'[u] = task[u]
        /\ \A f \in Executions \ {e} : estate'[f] = estate[f]
    BY <1>3 DEF Pick, stepVars, clientVars, TypeOK
  <2>2. Begun' /\ Entered'
    BY <1>0, <2>1
  <2>3. \A u \in Threads, s \in Steps : Conducts(u, s) => Conducts(u, s)' /\ task'[u] = task[u]
    BY <1>a, <2>1, ConductsKept
  <2>4. Conducted'
    BY <1>0, <2>1, <2>3
  <2>5. QED
    BY <1>0, <2>2, <2>4
<1>4. ASSUME NEW t \in Threads, Inner(t) PROVE StepsAgree'
  <2>1. /\ UNCHANGED <<task, workflow>> /\ task[t] \in Executions
        /\ tpc[t] \notin {"exited", "idle"} /\ tpc'[t] # "start"
        /\ \A u \in Threads \ {t} : tpc'[u] = tpc[u] /\ pos'[u] = pos[u] /\ task[u] # task[t]
        /\ \A e \in Executions \ {task[t]} : estate'[e] = estate[e] /\ spc'[e] = spc[e]
        /\ estate'[task[t]] \notin {"ABSENT", "PENDING"}
    BY <1>4, InnerMoves, TaskFacts
  <2>2. Begun'
    BY <1>0, <2>1
  <2>3. Entered'
    <3>1. tpc'[t] = "enter" => tpc[t] = "start" /\ spc' = spc
      BY <1>4, <2>1 DEF Inner, Begin, Enter, LeaveLoop, StartStep, SkipStep, RejectStep, StepEnds,
          EndIteration, JoinSteps, Finish, Write, Goto, AtStep, stepVars, TypeOK
    <3>2. QED
      BY <1>0, <1>b, <2>1, <3>1
  <2>4. Conducted'
    <3>1. \A s \in Steps : spc'[task[t]][s] \in {"submit", "wait"} => Conducts(t, s)'
      BY <1>4, ConductorStep
    <3>2. \A u \in Threads \ {t}, s \in Steps : Conducts(u, s) => Conducts(u, s)'
      BY <2>1, ConductsKept
    <3>3. QED
      BY <1>0, <2>1, <3>1, <3>2
  <2>5. QED
    BY <1>0, <2>2, <2>3, <2>4
<1>5. ASSUME NEW t \in Threads, ThreadExits(t) \/ Retire(t) PROVE StepsAgree'
  <2>1. /\ UNCHANGED <<spc, estate, workflow>> /\ tpc[t] \in {"idle", "move"}
        /\ tpc'[t] \notin {"start", "enter"}
        /\ \A u \in Threads \ {t} : tpc'[u] = tpc[u] /\ pos'[u] = pos[u] /\ task'[u] = task[u]
    BY <1>5 DEF ThreadExits, Retire, Goto, stepVars, clientVars, TypeOK
  <2>2. Begun' /\ Entered'
    BY <1>0, <2>1
  <2>3. \A u \in Threads, s \in Steps : Conducts(u, s) => Conducts(u, s)' /\ task'[u] = task[u]
    BY <1>a, <2>1, ConductsKept
  <2>4. Conducted'
    BY <1>0, <2>1, <2>3
  <2>5. QED
    BY <1>0, <2>2, <2>4
<1>6. ASSUME Start PROVE StepsAgree'
  <2>1. /\ UNCHANGED <<spc, estate, workflow, task, pos>>
        /\ \A u \in Threads : tpc[u] = "exited" /\ tpc'[u] = "idle"
    BY <1>6 DEF Start, PoolAtRest, stepVars, clientVars
  <2>2. QED
    BY <1>0, <1>a, <2>1
<1>7. ASSUME NEW e \in Executions, NEW s \in Steps, StepStep(e, s) PROVE StepsAgree'
  <2>1. /\ UNCHANGED <<estate, workflow, threadVars>>
        /\ spc[e][s] \in {"submit", "wait"}
        /\ \A f \in Executions \ {e} : spc'[f] = spc[f]
        /\ \A q \in Steps \ {s} : spc'[e][q] = spc[e][q]
    BY <1>7, StepMoves DEF clientVars
  <2>2. Begun'
    BY <1>0, <2>1
  <2>3. Entered'
    <3>1. \A t \in Threads : tpc[t] \in {"start", "enter"} => task[t] # e
      BY <1>0, <2>1
    <3>2. QED
      BY <1>0, <1>b, <2>1, <3>1 DEF threadVars
  <2>4. \A t \in Threads, q \in Steps : Conducts(t, q)' <=> Conducts(t, q)
    BY <2>1 DEF Conducts, TypeOf, StepAt, StepsOf, threadVars
  <2>5. Conducted'
    BY <1>0, <2>1, <2>4 DEF threadVars
  <2>6. QED
    BY <1>0, <2>2, <2>3, <2>5
<1>8. ASSUME Aside PROVE StepsAgree'
  <2>1. UNCHANGED <<estate, workflow, threadVars, stepVars>>
    BY <1>8, AsideKeeps DEF clientVars
  <2>2. QED
    BY <1>0, <2>1 DEF Conducts, TypeOf, StepAt, StepsOf, threadVars, stepVars
<1>9. QED
  BY <1>1, <1>2, <1>3, <1>4, <1>5, <1>6, <1>7, <1>8, Kinds

-----------------------------------------------------------------------------
(* Failures                                                                 *)

\* A thread that moves goes on only past a failure it tolerates.
LEMMA ToleratesStep ==
    ASSUME TypeOK, Listed, OneThreadEach, LoopsAgree, StepsAgree, FailuresTolerated,
           NEW t \in Threads, Inner(t), NEW s \in Steps
    PROVE  Tolerates(t, s)'
<1>0. /\ task[t] \in Executions /\ UNCHANGED <<task, workflow>>
      /\ tpc \in [Threads -> Places] /\ pos \in [Threads -> Nat]
      /\ spc \in [Executions -> [Steps -> StepPlaces]]
  BY InnerMoves DEF TypeOK, Places, StepPlaces
<1>1. Tolerates(t, s)
  BY DEF FailuresTolerated
<1> USE <1>0, <1>1 DEF Tolerates, TypeOf, Fatal, Goto, stepVars
<1>2. CASE Begin(t)
  BY <1>2 DEF Begin
<1>3. CASE Enter(t)
  BY <1>3 DEF Enter, StepsAgree
<1>4. CASE LeaveLoop(t)
  BY <1>4 DEF LeaveLoop
<1>5. CASE StartStep(t)
  <2>1. StepAt(t) \in Steps /\ tpc[t] = "loop"
    BY <1>5, StepFacts DEF StartStep, AtStep
  <2>2. \A q \in Steps \ {StepAt(t)} : spc'[task[t]][q] = spc[task[t]][q]
    BY <1>5, <2>1, NestedUpdate DEF StartStep
  <2>3. TypeOf(t) # "PARALLEL" => StepAt(t)' = StepAt(t) /\ tpc'[t] = "step"
    BY <1>5 DEF StartStep, StepAt
  <2>4. QED
    BY <2>1, <2>2, <2>3
<1>6. CASE SkipStep(t)
  BY <1>6 DEF SkipStep, AtStep
<1>7. CASE RejectStep(t)
  BY <1>7 DEF RejectStep
<1>8. CASE StepEnds(t)
  BY <1>8 DEF StepEnds
<1>9. CASE EndIteration(t)
  BY <1>9 DEF EndIteration
<1>10. CASE JoinSteps(t)
  BY <1>10 DEF JoinSteps, LoopsAgree, LoopAgrees
<1>11. CASE Finish(t)
  BY <1>11 DEF Finish
<1>12. CASE Write(t)
  BY <1>12 DEF Write
<1>13. QED
  BY <1>2, <1>3, <1>4, <1>5, <1>6, <1>7, <1>8, <1>9, <1>10, <1>11, <1>12 DEF Inner

\* No step of the system makes a thread intolerant of a failure it went past.
LEMMA FailuresStep ==
    ASSUME TypeOK, TypeOK', Listed, OneThreadEach, LoopsAgree, PoolAtRest, StepsAgree,
           FailuresTolerated, [Next]_vars
    PROVE  FailuresTolerated'
<1>0. /\ FailuresTolerated <=> \A t \in Threads, s \in Steps : Tolerates(t, s)
      /\ FailuresTolerated' <=> \A t \in Threads, s \in Steps : Tolerates(t, s)'
  BY DEF FailuresTolerated
\* A thread that does not move sees its execution and its steps unchanged.
<1>1. ASSUME NEW t \in Threads, NEW s \in Steps,
             tpc'[t] \in {"loop", "step", "finish", "write"} =>
                /\ tpc'[t] = tpc[t] /\ pos'[t] = pos[t] /\ task'[t] = task[t]
                /\ workflow'[task[t]] = workflow[task[t]]
                /\ spc'[task[t]][s] = "failed" => spc[task[t]][s] = "failed"
      PROVE  Tolerates(t, s)'
  <2>1. Tolerates(t, s)
    BY <1>0
  <2>2. QED
    BY <1>1, <2>1 DEF Tolerates, TypeOf, StepAt, Fatal
<1>2. ASSUME NEW e \in Executions, NEW d \in Definitions, NEW mode \in {"none", "polling"},
             Execute(e, d, mode)
      PROVE  FailuresTolerated'
  BY <1>0, <1>1, <1>2, ExecuteMoves DEF threadVars, stepVars
<1>3. ASSUME UNCHANGED <<threadVars, stepVars, workflow>> PROVE FailuresTolerated'
  BY <1>0, <1>1, <1>3 DEF threadVars, stepVars
<1>4. ASSUME (\E e \in Executions : CallerStep(e) \/ Control(e)) \/ Aside
      PROVE  UNCHANGED <<threadVars, stepVars, workflow>>
  BY <1>4, ClientMoves, AsideKeeps DEF clientVars
<1>5. ASSUME NEW t \in Threads, (\E e \in Executions : Pick(t, e)) \/ ThreadExits(t) \/ Retire(t)
      PROVE  FailuresTolerated'
  <2>1. /\ UNCHANGED <<spc, workflow>> /\ tpc'[t] \in {"start", "exited", "idle"}
        /\ \A u \in Threads \ {t} : tpc'[u] = tpc[u] /\ pos'[u] = pos[u] /\ task'[u] = task[u]
    BY <1>5 DEF Pick, ThreadExits, Retire, Goto, stepVars, clientVars, TypeOK
  <2>2. QED
    BY <1>0, <1>1, <2>1
<1>6. ASSUME Start PROVE FailuresTolerated'
  BY <1>0, <1>1, <1>6 DEF Start
<1>7. ASSUME NEW t \in Threads, Inner(t) PROVE FailuresTolerated'
  <2>1. \A s \in Steps : Tolerates(t, s)'
    BY <1>7, ToleratesStep
  <2>2. ASSUME NEW u \in Threads \ {t}, NEW s \in Steps PROVE Tolerates(u, s)'
    <3>1. UNCHANGED <<task, workflow>> /\ tpc'[u] = tpc[u] /\ pos'[u] = pos[u]
      BY <1>7, InnerMoves
    <3>2. tpc[u] \in {"loop", "step", "finish", "write"} => spc'[task[u]] = spc[task[u]]
      BY <1>7, InnerMoves, TaskFacts
    <3>3. QED
      BY <1>1, <3>1, <3>2
  <2>3. QED
    BY <1>0, <2>1, <2>2
<1>8. ASSUME NEW e \in Executions, NEW p \in Steps, StepStep(e, p) PROVE FailuresTolerated'
  <2>1. /\ UNCHANGED <<workflow, threadVars>>
        /\ spc[e][p] \in {"submit", "wait"}
        /\ \A f \in Executions \ {e} : spc'[f] = spc[f]
        /\ \A q \in Steps \ {p} : spc'[e][q] = spc[e][q]
    BY <1>8, StepMoves DEF clientVars
  <2>2. ASSUME NEW t \in Threads, NEW s \in Steps PROVE Tolerates(t, s)'
    <3>1. CASE task[t] = e /\ s = p /\ tpc[t] \in {"loop", "step", "finish", "write"}
      <4>1. Conducts(t, s)
        BY <2>1, <3>1, ConductorFacts
      <4>2. QED
        BY <2>1, <3>1, <4>1 DEF Conducts, Tolerates, TypeOf, StepAt, threadVars
    <3>2. CASE tpc[t] \in {"loop", "step", "finish", "write"} /\ ~(task[t] = e /\ s = p)
      <4>1. spc'[task[t]][s] = spc[task[t]][s]
        BY <2>1, <3>2, TaskFacts
      <4>2. QED
        BY <1>1, <2>1, <4>1 DEF threadVars
    <3>3. CASE tpc[t] \notin {"loop", "step", "finish", "write"}
      BY <2>1, <3>3 DEF Tolerates, threadVars
    <3>4. QED
      BY <3>1, <3>2, <3>3
  <2>3. QED
    BY <1>0, <2>2
<1>9. QED
  BY <1>2, <1>3, <1>4, <1>5, <1>6, <1>7, <1>8, Kinds

\* Nothing but the end of an executor writes COMPLETED.
LEMMA OverStep ==
    ASSUME TypeOK, TypeOK', Listed, OneThreadEach, LoopsAgree, CompletedIsOver, [Next]_vars
    PROVE  CompletedIsOver'
<1>0. None \notin Executions
  BY OrchestratorAssumption
<1>1. ASSUME NEW e \in Executions, NEW d \in Definitions, NEW mode \in {"none", "polling"},
             Execute(e, d, mode)
      PROVE  CompletedIsOver'
  BY <1>1, ExecuteMoves DEF CompletedIsOver, threadVars
<1>2. ASSUME NEW e \in Executions, CallerStep(e) \/ Control(e) PROVE CompletedIsOver'
  <2>1. /\ UNCHANGED threadVars
        /\ \A f \in Executions : estate'[f] = "COMPLETED" => estate[f] = "COMPLETED"
    BY <1>2, ClientMoves
  <2>2. QED
    BY <2>1 DEF CompletedIsOver, threadVars
<1>3. ASSUME NEW t \in Threads, NEW e \in Executions, Pick(t, e) PROVE CompletedIsOver'
  BY <1>0, <1>3 DEF CompletedIsOver, Pick, TypeOK
<1>4. ASSUME NEW t \in Threads, Inner(t) PROVE CompletedIsOver'
  <2>1. \A e \in Executions : task[t] = e => estate[e] # "COMPLETED"
    BY <1>4, InnerMoves DEF CompletedIsOver, Places
  <2>2. /\ task' = task /\ \A e \in Executions \ {task[t]} : estate'[e] = estate[e]
        /\ \A u \in Threads \ {t} : tpc'[u] = tpc[u] /\ task[u] # task[t]
    BY <1>4, InnerMoves, TaskFacts
  <2>3. task[t] \in Executions /\ estate'[task[t]] = "COMPLETED" => tpc'[t] = "move"
    BY <1>4, <2>1, InnerMoves
  <2>4. QED
    BY <2>2, <2>3 DEF CompletedIsOver
<1>5. ASSUME NEW t \in Threads, Retire(t) \/ ThreadExits(t) PROVE CompletedIsOver'
  BY <1>0, <1>5 DEF CompletedIsOver, Retire, ThreadExits, Goto, TypeOK
<1>6. ASSUME Start PROVE CompletedIsOver'
  BY <1>0, <1>6 DEF CompletedIsOver, Start, TypeOK
<1>7. ASSUME (\E e \in Executions, s \in Steps : StepStep(e, s)) \/ Aside
      PROVE  UNCHANGED <<estate, threadVars>>
  BY <1>7, StepMoves, AsideKeeps
<1>8. ASSUME UNCHANGED <<estate, threadVars>> PROVE CompletedIsOver'
  BY <1>8 DEF CompletedIsOver, threadVars
<1>9. QED
  BY <1>1, <1>2, <1>3, <1>4, <1>5, <1>6, <1>7, <1>8, Kinds

\* Write is where COMPLETED comes from, and it looks at the failures in the right way: of a
\* PARALLEL workflow it counts them itself, of the others it was tolerant of all there are.
LEMMA WriteStep ==
    ASSUME TypeOK, Listed, OneThreadEach, FailuresTolerated, NEW t \in Threads, Write(t),
           estate'[task[t]] = "COMPLETED", ~workflow[task[t]].partial, NEW s \in StepsOf(task[t]),
           spc[task[t]][s] = "failed"
    PROVE  s \in Optional /\ workflow[task[t]].type \in {"SEQUENTIAL", "CONDITIONAL"}
<1>1. tpc[t] = "write" /\ task[t] \in Executions /\ workflow[task[t]] \in Definitions
  BY TaskFacts DEF Write
<1>2. TypeOf(t) # "PARALLEL"
  <2>1. estate' = [estate EXCEPT ![task[t]] =
                     IF TypeOf(t) = "PARALLEL" THEN "FAILED" ELSE "COMPLETED"]
    BY DEF Write, Mark
  <2>2. QED
    BY <1>1, <2>1 DEF TypeOK
<1>3. s \in Steps
  BY <1>1, DefinitionFacts DEF StepsOf
<1>4. ~Fatal(task[t], s)
  BY <1>1, <1>2, <1>3 DEF FailuresTolerated, Tolerates
<1>5. QED
  BY <1>2, <1>4 DEF Fatal, TypeOf

\* An execution that is COMPLETED has no step left that could fail.
LEMMA CompletionStep ==
    ASSUME TypeOK, TypeOK', Listed, OneThreadEach, LoopsAgree, StepsAgree, FailuresTolerated,
           CompletedIsOver, NoCompletionOverFailure, [Next]_vars
    PROVE  NoCompletionOverFailure'
<1> DEFINE Sound(e) == estate[e] = "COMPLETED" /\ ~workflow[e].partial =>
                         \A s \in StepsOf(e) : spc[e][s] = "failed" =>
                            s \in Optional /\ workflow[e].type \in {"SEQUENTIAL", "CONDITIONAL"}
<1>0. /\ NoCompletionOverFailure <=> \A e \in Executions : Sound(e)
      /\ NoCompletionOverFailure' <=> \A e \in Executions : Sound(e)'
  BY DEF NoCompletionOverFailure
\* An execution stays as it was, or is not COMPLETED.
<1>1. ASSUME NEW e \in Executions,
             estate'[e] = "COMPLETED" =>
                estate[e] = "COMPLETED" /\ workflow'[e] = workflow[e] /\ spc'[e] = spc[e]
      PROVE  Sound(e)'
  BY <1>0, <1>1 DEF StepsOf
<1>2. ASSUME NEW e \in Executions, NEW d \in Definitions, NEW mode \in {"none", "polling"},
             Execute(e, d, mode)
      PROVE  NoCompletionOverFailure'
  BY <1>0, <1>1, <1>2, ExecuteMoves DEF stepVars
<1>3. ASSUME NEW e \in Executions, CallerStep(e) \/ Control(e) PROVE NoCompletionOverFailure'
  <2>1. /\ UNCHANGED <<stepVars, workflow>>
        /\ \A f \in Executions : estate'[f] = "COMPLETED" => estate[f] = "COMPLETED"
    BY <1>3, ClientMoves
  <2>2. QED
    BY <1>0, <1>1, <2>1 DEF stepVars
<1>4. ASSUME NEW t \in Threads, NEW e \in Executions, Pick(t, e) PROVE NoCompletionOverFailure'
  <2>1. /\ UNCHANGED <<spc, workflow>> /\ estate'[e] = "RUNNING"
        /\ \A f \in Executions \ {e} : estate'[f] = estate[f]
    BY <1>4 DEF Pick, stepVars, clientVars, TypeOK
  <2>2. QED
    BY <1>0, <1>1, <2>1
<1>5. ASSUME NEW t \in Threads, Inner(t) PROVE NoCompletionOverFailure'
  <2>0. PICK e \in Executions : e = task[t]
    BY <1>5, InnerMoves, TaskFacts
  <2>1. /\ workflow' = workflow /\ estate[e] # "COMPLETED"
        /\ \A f \in Executions \ {e} : estate'[f] = estate[f] /\ spc'[f] = spc[f]
    BY <1>5, <2>0, InnerMoves DEF CompletedIsOver, Places
  <2>2. \A f \in Executions \ {e} : Sound(f)'
    BY <1>1, <2>1
  <2>3. Sound(e)'
    <3>1. CASE Write(t)
      <4>1. spc' = spc
        BY <3>1 DEF Write, stepVars
      <4>2. QED
        BY <2>0, <2>1, <3>1, <4>1, WriteStep DEF StepsOf
    <3>2. CASE ~Write(t)
      BY <1>5, <2>1, <3>2, InnerMoves
    <3>3. QED
      BY <3>1, <3>2
  <2>4. QED
    BY <1>0, <2>2, <2>3
<1>6. ASSUME NEW e \in Executions, NEW p \in Steps, StepStep(e, p) PROVE NoCompletionOverFailure'
  <2>1. /\ UNCHANGED <<estate, workflow>> /\ spc[e][p] \in {"submit", "wait"}
        /\ \A f \in Executions \ {e} : spc'[f] = spc[f]
    BY <1>6, StepMoves DEF clientVars
  <2>2. estate[e] # "COMPLETED"
    <3>1. PICK t \in Threads : task[t] = e /\ Conducts(t, p)
      BY <2>1 DEF StepsAgree
    <3>2. QED
      BY <3>1 DEF CompletedIsOver, Conducts
  <2>3. QED
    BY <1>0, <1>1, <2>1, <2>2
<1>7. ASSUME UNCHANGED <<estate, workflow, spc>> PROVE NoCompletionOverFailure'
  BY <1>0, <1>1, <1>7
<1>8. ASSUME (\E t \in Threads : ThreadExits(t) \/ Retire(t)) \/ Start \/ Aside
      PROVE  UNCHANGED <<estate, workflow, spc>>
  BY <1>8, AsideKeeps DEF ThreadExits, Retire, Start, stepVars, clientVars
<1>9. QED
  BY <1>2, <1>3, <1>4, <1>5, <1>6, <1>7, <1>8, Kinds

-----------------------------------------------------------------------------
(* Theorems                                                                 *)

\* The invariant holds before anything happened ...
LEMMA InitialStates == Init => IInv
<1> SUFFICES ASSUME Init PROVE IInv
  OBVIOUS
<1> USE OrchestratorAssumption DEF Init
<1>1. TypeOK
  <2>1. /\ 1 \in Nat /\ 1 \in 1 .. MaxIterations + 1
        /\ 0 \in Nat /\ 0 \in 0 .. MaxRequests
    OBVIOUS
  <2>2. /\ pos \in [Threads -> Nat] /\ round \in [Threads -> 1 .. MaxIterations + 1]
        /\ attempt \in [Executions -> [Steps -> Nat]]
        /\ used \in [Executions -> [Steps -> 0 .. MaxRequests]]
    BY <2>1, Zenon
  <2>3. /\ estate \in [Executions -> ExecutionStates]
        /\ results \in [Executions -> SUBSET Steps]
        /\ spc \in [Executions -> [Steps -> {"idle", "submit", "wait", "succeeded", "failed"}]]
    BY DEF ExecutionStates
  <2>4. QED
    BY <2>2, <2>3 DEF TypeOK
<1>2. PoolAtRest /\ Listed /\ OneThreadEach /\ NobodyStranded /\ ExpiringHasThread
  BY DEF PoolAtRest, Listed, OneThreadEach, NobodyStranded, ExpiringHasThread
<1>3. LoopsAgree
  BY DEF LoopsAgree, LoopAgrees
<1>4. StepsAgree
  BY DEF StepsAgree
<1>5. FailuresTolerated /\ CompletedIsOver /\ NoCompletionOverFailure
  BY DEF FailuresTolerated, Tolerates, CompletedIsOver, NoCompletionOverFailure
<1>6. QED
  BY <1>1, <1>2, <1>3, <1>4, <1>5 DEF IInv

\* ... and every step keeps it.
LEMMA Inductive == IInv /\ [Next]_vars => IInv'
<1> SUFFICES ASSUME IInv, [Next]_vars PROVE IInv'
  OBVIOUS
<1>1. TypeOK'
  BY TypeStep DEF IInv
<1>2. PoolAtRest' /\ Listed' /\ OneThreadEach'
  BY <1>1, PoolStep, ListedStep, ThreadsStep DEF IInv
<1>3. NobodyStranded' /\ ExpiringHasThread'
  BY <1>1, StrandedStep DEF IInv
<1>4. LoopsAgree' /\ StepsAgree'
  BY <1>1, LoopsStep, StepsStep DEF IInv
<1>5. FailuresTolerated' /\ CompletedIsOver' /\ NoCompletionOverFailure'
  BY <1>1, FailuresStep, OverStep, CompletionStep DEF IInv
<1>6. QED
  BY <1>1, <1>2, <1>3, <1>4, <1>5 DEF IInv

\* So it always holds.
LEMMA EnginesAgree == Spec => []IInv
<1>1. QED
  BY InitialStates, Inductive, PTL DEF Spec

\* Every reachable state is well typed: no loop leaves its range, no counter its bound, and
\* a thread has an execution exactly while it processes one.
THEOREM EngineTypeCorrect == Spec => []TypeOK
<1>1. IInv => TypeOK
  BY DEF IInv
<1>2. QED
  BY <1>1, EnginesAgree, PTL

\* No two threads process one execution, and none keeps one that was retired, however its
\* state was paused, resumed, cancelled or overwritten without the mutex.
THEOREM NeverTwoThreads == Spec => []OneThreadEach
<1>1. IInv => OneThreadEach
  BY DEF IInv
<1>2. QED
  BY <1>1, EnginesAgree, PTL

\* What orchestrator_thread would never look at again has a thread, unless it was cancelled
\* before one took it.
THEOREM NothingIsStranded == Spec => []NobodyStranded
<1>1. IInv => NobodyStranded
  BY DEF IInv
<1>2. QED
  BY <1>1, EnginesAgree, PTL

\* COMPLETED stands for what a definition that forbids partial results promises.
THEOREM CompletedMeansNoFailure == Spec => []NoCompletionOverFailure
<1>1. IInv => NoCompletionOverFailure
  BY DEF IInv
<1>2. QED
  BY <1>1, EnginesAgree, PTL

\* A retired execution is out of reach of threads and clients; only a caller that is
\* already past its test of RUNNING writes it once more.
THEOREM RetiredStatesStay == Spec => RetiredIsFrozen
<1> DEFINE Frozen == \A e \in completed : caller[e] # "expiring" => estate'[e] = estate[e]
<1>1. IInv /\ [Next]_vars => [Frozen]_estate
  <2> SUFFICES ASSUME IInv, [Next]_vars, NEW e \in completed, caller[e] # "expiring"
               PROVE  estate'[e] = estate[e]
    OBVIOUS
  <2>0. /\ TypeOK /\ Listed /\ OneThreadEach /\ LoopsAgree
        /\ e \in Executions /\ e \notin active /\ estate[e] # "ABSENT"
    BY DEF IInv, Listed, TypeOK
  <2>1. ASSUME NEW f \in Executions, NEW d \in Definitions, NEW mode \in {"none", "polling"},
               Execute(f, d, mode)
        PROVE  estate'[e] = estate[e]
    BY <2>0, <2>1, ExecuteMoves
  <2>2. ASSUME NEW f \in Executions, CallerStep(f) \/ Control(f) PROVE estate'[e] = estate[e]
    BY <2>0, <2>2, ClientMoves
  <2>3. ASSUME NEW t \in Threads, NEW f \in Executions, Pick(t, f) PROVE estate'[e] = estate[e]
    BY <2>0, <2>3 DEF Pick, TypeOK
  <2>4. ASSUME NEW t \in Threads, Inner(t) PROVE estate'[e] = estate[e]
    BY <2>0, <2>4, InnerMoves, TaskFacts
  <2>5. ASSUME \/ \E t \in Threads : ThreadExits(t) \/ Retire(t)
               \/ \E f \in Executions, s \in Steps : StepStep(f, s)
               \/ Start \/ Aside
        PROVE  estate' = estate
    BY <2>0, <2>5, StepMoves, AsideKeeps DEF ThreadExits, Retire, Start
  <2>6. QED
    BY <2>1, <2>2, <2>3, <2>4, <2>5, Kinds
<1>2. QED
  BY <1>1, EnginesAgree, PTL DEF Spec, RetiredIsFrozen
=============================================================================
