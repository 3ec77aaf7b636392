# Kolosal Agent System: specification

TLA+ models of the Kolosal Agent System (`src/src`, `src/include`), checked with TLC, and
proofs about them checked with TLAPS. Threads and what they share are state machines; what a
component computes without state (routes, retries, outcomes of functions, configurations,
workflow definitions) are operators that the state machines use. `PROJECT.json` lists the
runs, the lines of code every definition stands for, the hazards and the theorems.

## 1. The system

The program (`core/main.cpp`) loads a configuration, creates agents, starts a request
queue, a workflow engine and an HTTP server, and serves requests until a signal arrives.

| component | state | operations | interacts with |
|---|---|---|---|
| **WorkflowManager** `workflows/workflow_manager.cpp` | FIFO queue (`queue_mutex_`, `queue_condition_`), active and completed requests (`requests_mutex_`), atomic counters, a pool of workers | submit, cancel, status, clean-up, start, stop | called by HTTP handlers and the orchestrator; calls `AgentManager::execute_agent_function` through `std::async` |
| **WorkflowOrchestrator** `workflows/workflow_types.cpp` | definitions, active and completed executions (`orchestrator_mutex_`), two threads, the unlocked `state` of each execution | register, remove, execute (sync, async), pause, resume, cancel, start, stop; five executors with retries | one request of the manager per attempt of a step, polled every 100 ms |
| AsyncServiceLayer `api/service_async.cpp` | operations, priority queue, subscribers (three mutexes), workers, cleanup thread | submit, batch, cancel, subscribe, start, stop | callbacks under locks, futures of callers |
| KolosalServerLauncher `core/server_launcher.cpp` | atomic status, process id, monitor thread | start, stop, wait_for_ready, restart | child process, health endpoint, status callback of AgentManager |
| main `core/main.cpp` | the global pointers, `system_running`, `shutdown_in_progress` | startup, the loop, the signal handler, shutdown | builds and stops every other component |
| AgentManager, Agent `core/agent_manager.cpp`, `core/agent.cpp` | map of agents without a lock, function table, running flag | create, start, stop, delete, execute | workers of the manager, HTTP handlers, launcher |
| HTTPServer `api/server_http.cpp` | listening socket, one detached thread per client | routes to all of the above | clients of every component |
| HttpClient, KolosalClient `core/http_client.cpp`, `core/client.cpp` | configuration | request with retry and backoff | inference and document servers |
| AgentConfigManager `core/agent_config.cpp` | the configuration | load, validate, adjust to resources and to pressure | main, AgentManager |
| Workflow definitions `workflows/workflow_types.cpp` | definitions and agent-model pairs of the orchestrator | build, parse, validate, save, load | files, HTTP handlers, executors |
| ModelInterface, RetrievalManager, functions `core/`, `functions/` | configuration | complete, chat, search, research | HttpClient, the agents' function table |
| model files, metrics, logger, path checks | counters or nothing | pure computation and I/O | |

Hard behaviour is found where threads meet: a request is pushed under one lock and listed
under another; workers sleep on a condition variable that `stop` signals without its mutex;
cancellation, timeout and result race for a state; orchestrator threads and callers of
`execute_workflow` write the state of an execution without a lock; a step is retried while
its first request still runs; detached client threads use agents, definitions and the server
itself by pointers that others take away; a signal handler stops what main is still building.
`PROJECT.json` lists these under `hazards`, each at its line.

What makes each component correct:

* WorkflowManager: a request is executed at most once, its outcome is settled once, it can be
  found while it lives, the queue and the history stay within bounds, no wakeup is lost.
* WorkflowOrchestrator: one thread per execution, none stranded, failure is never reported as
  success, every execution ends, a retired one does not change.
* AsyncServiceLayer: an operation runs at most once, its future is completed, cancelled ones
  do not run, `stop` returns.
* KolosalServerLauncher: the status agrees with the process, one monitor per process.
* main, HTTPServer, AgentManager: whatever the clients do together, nothing crashes unless one
  deletes what another uses; an error answer has changed nothing; a shutdown ends, or waits at
  one of three known places; when main returns, nothing is left running.
* HTTP routes: every announced endpoint reaches its handler, for which identifiers.
* HttpClient: attempts within the limit, delays never shrink below the base or overflow.
* Functions: a remote service that fails makes no function fail, and none claims a success.
* Configuration: one that passes its validation can be used, also after a file that broke off.
* Definitions: saving and loading forgets what is known to be forgotten and nothing else; of the
  definitions under one identifier the last that is accepted counts.

## 2. Modules

| module | contents |
|---|---|
| `RequestLifecycle` | abstract: what the request service promises of a request (accept, launch in a slot, cancel, expire, return) |
| `WorkflowManager` | detailed: queue, pool, maps and counters; implements `RequestLifecycle` |
| `WorkflowManagerProofs` | theorems about it and their proofs |
| `WorkflowCounterProofs` | theorems about its counters, which wrap, on top of those |
| `WorkflowOrchestrator` | executions, threads, executors and step retries on top of an instance of `RequestLifecycle` |
| `WorkflowOrchestratorProofs` | theorems about it and their proofs |
| `ServerLauncher` | the inference server as a child process, the calls that start and stop it, its monitors |
| `ServerLauncherProofs` | theorems about it and their proofs |
| `AsyncServiceLayer` | the operation queue of the service layer, its workers, cancellation, events, futures |
| `AsyncServiceLayerProofs` | theorems about it and their proofs |
| `AgentSystem` | main, the signal handler, the accepting thread and the clients' threads, over the shared agents and definitions; extends `HttpApi`, `AgentFunctions`, `RemoteCalls`, `AgentConfig` and `WorkflowDefinitions` |
| `AgentSystemProofs` | theorems about it and their proofs |
| `HttpApi` | the chain of routes, what each handler answers |
| `AgentFunctions` | the functions an agent is born with and what each makes of a call |
| `RemoteCalls` | HttpClient's retry loop, and KolosalClient, ModelInterface and RetrievalManager on it |
| `AgentConfig` | loading, completing, validating and adjusting a configuration |
| `AgentPartsProofs` | theorems about `AgentConfig`, `RemoteCalls`, `HttpApi` and `AgentFunctions` and their proofs |
| `WorkflowDefinitions` | conditions, parameters, builder, templates, validation, parsing, saving and loading of definitions |
| `WorkflowDefinitionsProofs` | theorems about it and their proofs |
| `MCWorkflowManager`, `MCWorkflowOrchestrator`, `MCAsyncServiceLayer`, `MCAgentSystem` | values of the constants for TLC |

### WorkflowManager

A step is one region under a mutex or one access to something another thread can see. A
client walks through `submit_request_with_timeout` as `SubmitCheck` (size test under
`queue_mutex_`), `SubmitCreate` (constructor, time stamp), `SubmitEnqueue` (push, no second
test) and `SubmitRegister` (insertion into the active map, counters, `notify_one`). The last
three effects are one step: no other thread reads the total counter and the map together, and
the notification commutes with both. A refused submission changes nothing and has no action.
Cancellation is `CancelMark` and `CancelMove`, two regions under `requests_mutex_`.

A worker is at `wait` (about to evaluate its predicate), `blocking` (predicate false, mutex
still held), `asleep`, `begin`, `run`, `drain` or `move`. `blocking` matters: `stop` stores
`running_` and calls `notify_all` without the mutex, and can do both in that window.
Spurious wakeups are left out; adding them would only hide lost notifications. `FunctionReturns`
covers a result and an exception, `FunctionTimesOut` the expiry of `wait_for`, after which
the destructor of the `std::async` future keeps the worker in `drain`. `WorkerMove` is
`move_to_completed`, with its eviction, and the decrement of the active counter.
`queue_size` in the statistics is always the length of the queue and is not kept twice.
Time stamps are an order of creation; requests created within one tick of the real clock
are ordered by id in the code and by creation here.

Counters are `size_t`: `StatModulus` stands for 2^64. `Newest` is the sorting in both
clean-ups: the history evicts by time of creation.

### WorkflowOrchestrator

Each orchestrator thread has a program counter, its execution and its loop indices. All five
executors share one loop (`LoopOver`, `StartStep`, `SkipStep`, `RejectStep`, `StepEnds`,
`EndIteration`, `LeaveLoop`); the operators say where they differ: only SEQUENTIAL looks at
dependencies, only CONDITIONAL at conditions, PARALLEL starts every step in a thread of its
own and joins them, LOOP does not look at the state within an iteration, and `optional` counts
in SEQUENTIAL and CONDITIONAL only. Conditions are nondeterministic (true, false, or an
exception). `Finish` reads the state and `Write` writes it: two steps, since no lock is held.
A step is a small machine of its own (`submit`, `wait`, `succeeded`, `failed`): an attempt
submits a request, or is refused; the wait ends with the request, with 30 seconds, when the
request is no longer known (only settled ones are evicted) or when the execution is not RUNNING.

The manager appears as an instance of `RequestLifecycle`, which the manager implements; its
capacity is `Slots`. An attempt that gives up leaves its request there. `Definitions` gives
the workflows; removal is modelled for those an execution names and when no executor
holds a pointer into the map (removing it then is undefined behaviour). So are concurrent
insertions into the result maps by the threads of a PARALLEL workflow; they succeed here and
no property reads them. Waiting threads wake after five seconds in any case, so idle threads
need no condition variable. Progress, statistics and logs are left out.

### ServerLauncher

The launcher of `AgentManager`, which clients start and stop over HTTP. `main` has a second
one; it is started once, and its signal handler also stops it in state ERROR. A call walks through
`StartCall`, `Launch`, `Watch`, `Ready`, `BecomeRunning` or ends in `NotReady` and the steps of
`stop` (`StopBegins`, `Terminate`, `Join`); `Destroy` and `Destruct` are the destructor. A process
and the monitor thread of the start that launched it share a name. A process is ALIVE, EXITED
(a zombie on Unix) or GONE (waited for, or its handle closed); `ProcessRunning` is what
`is_process_running` sees, and differs between the platforms, so `unix` is chosen at the start.
That a server answers `/health` is never tied to the own process: another one may use the port.

`Detach` is the thread that `stop` leaves behind. Two seconds later it detaches whichever
monitor the launcher has, also that of a later start; that one then outlives the call that stops it,
and its late report turns RUNNING into ERROR, after which nobody stops or joins anything. `prompt`,
chosen at the start too, says that this thread acts after its stop has returned and before the next
call; the safety properties hold in that case, the types and `CallsReturn` in both.

`monitor_thread_` and `process_id_` have no lock and calls made together are undefined behaviour:
the model makes one at a time.

### AsyncServiceLayer

Submission is `SubmitList` (insertion into `operations_`), `SubmitRefuse` or `SubmitPush` under
`queue_mutex_`, and `SubmitNotify`. A worker takes the operation of highest priority
(`WorkerTake`), looks at its status (`WorkerDrop`, `WorkerPass`), writes RUNNING without
`operations_mutex_` (`WorkerBegin`), executes it and settles its future (`WorkerRun`,
`WorkerSettle`). `Cancel` keeps `operations_mutex_` while its subscribers are told, and whoever
tells keeps `subscribers_mutex_` (`TellBegins`, `Deliver`, `TellEnds`): both are variables, so
that waiting for them is visible. `Cleanup` is the thread that drops old operations; its age limit
is left out, so it may drop any that ended. The agent, batch and workflow services differ in
priority and in whether their functions throw (`KindOf`). `Destroy` breaks the promises of
what is still queued.

### AgentSystem and the modules it extends

`main` and `handler` are program counters. `platform` is chosen at the start: on Unix the
handler runs on main's stack and main stands still (`Frozen`); on Windows it is a thread beside
it. `made` are the global pointers that are set, `up` the components that run. The steps of
HTTPServer::stop (`HttpTest`, `HttpClose`, `HttpJoin`) and the stops of the others are shared by the two
and differ where the code does: main resets its pointers, stops the agents and asks whether the
launcher runs. Where the handler uses what main has destroyed (`Gone`), or both join the same
thread, a crash is one of the outcomes. A signal that interrupts main inside the logger finds its
mutex taken (`logger`); nothing after startup logs while main waits in its loop.

`http.acceptor` is `server_loop`: `accept` blocks, closing the socket ends it on Windows and not on
Linux. A client connects, is accepted, and its detached thread receives (`Receive`: one `recv` of
4095 bytes, so the body may be cut), is routed by `HttpApi!Target`, and acts. Every handler is one
action or, where it lets go of what it looked at, several: `Resolve`, then the action on the agent;
`SimpleExecute`, `SimpleGet`, `AutoStart`, `CallReturns`; `UpdateWorkflowTest`, `UpdateWorkflowAssign`;
`GetWorkflow`, `ReadWorkflow`. Single operations of the unlocked maps are taken as atomic; what is kept
from one to the next is not. A pointer to an agent that was deleted, or to a definition that was
deleted or replaced, may crash the program or go unnoticed. `deleted` and `changed` are history.
An execution of a workflow is found or not: the engine has a module of its own, and the launcher
too. Handlers that no route reaches are in `HttpApi` (`Unrouted`).

`HttpApi`: a path is its segments, a body what parsing makes of it. `Routes` are the rows of the
if-else chain in their order, `Target` the handler and the identifier of the first that matches,
with what `substr` makes of a suffix that is not there (`Reached`). Rows look for their word anywhere and
without its end, as `path.find` does; "startup" and "executed" stand for the segments that begin with a word.
`AgentFunctions`: a call is what the
functions test for (parameters given and typed, model named and configured, services available
and answering), and each function maps it to the status it reports or to an exception; later
registrations replace earlier ones and depend on the build. `RemoteCalls`: a reply is success, a
failure to be repeated, one for good, or an exception; `Requests` counts attempts, `Delay` is the back-off,
which 32 bits hold for delays below 2^31 / 36 ms. `AgentConfig`: a file is seven groups of sections, each absent, good or bad; loading
stops at the first bad one and keeps what it read. Values are those that another value or a check
depends on. `WorkflowDefinitions`: definitions, their JSON and YAML forms and the functions between
them (`LoadWorkflowConfig` reads a file, in `main` before anything is known; `StartWorkflows` then registers the
built-in workflows over it, as `start` does); a YAML mapping is emitted as YAML and parsed as JSON, which refuses it, so of the
parameters only lists arrive and of the conditions nothing.

These five are checked inside the run of `AgentSystem`, each at the moment the program relies on it:
`RetriesStop` when a function is being called, `ReloadOnlyForgets` and `LastDefinitionCounts` when definitions
are registered. They depend on no variable beyond that moment, so that TLC evaluates them over bounded inputs;
section 4 has the theorems for all inputs.

## 3. Checks

| run | instance | result |
|---|---|---|
| `wm_safety` | 3 requests, 2 clients, 2 workers, queue 1, history 2, counters modulo 16, one start | all invariants, final outcomes and the refinement of `RequestLifecycle` hold |
| `wm_liveness` | 2 requests, 2 clients, 2 workers, queue 2, two starts | `AcceptedIsSettled` holds |
| `wm_stop` | the same | `StopReturns` **violated**: a worker between predicate and sleep misses `notify_all` |
| `orch_safety` | 1 execution, 2 threads, 8 definitions over 3 steps (a retry, two iterations, unmet dependencies, a condition) | all invariants and `RetiredIsFrozen` hold |
| `orch_liveness` | 1 execution, 2 threads, 3 definitions | `ExecutionsEnd` and `StopReturns` hold |
| `launcher_safety` | 3 launches, both platforms, prompt or not | all invariants and `CallsReturn` hold |
| `launcher_crash` | 1 launch | `CrashNoticed` **violated**: on Unix a crashed server is a zombie, and `kill(pid, 0)` finds it running for ever |
| `launcher_abort` | 1 launch | `DestructorNeverAborts` **violated**: after a reported crash the monitor thread is never joined, and destroying it is fatal |
| `orch_paused` | as `orch_safety` | `PausedStaysActive` **violated**: a paused execution is retired and can never be resumed |
| `async` | a plain operation and a batch, 2 workers, queue 1, 1 subscriber, two starts (720,268 states) | three invariants, `FutureSettledOnce` and `EveryFutureResolves` hold |
| `system` | both platforms, 2 clients with one of 17 requests each, 1 configured agent, 1 workflow (646,659 states) | ten invariants and `ShutdownOnlyWaits` hold |
| `http_stop` | the same with 1 request | `ServerStopsWithSystem` **violated**: the shutdown waits in `accept` until somebody connects, and the inference server runs on |

Bounds. Three requests are the least for which the queue (limit one) overshoots by a client
while another request is executing, and for which a history of two evicts. Two clients and two
workers give every pairwise race; the counters wrap within the range. One start
suffices for safety runs, the second start is in the liveness run. One execution is enough for
the orchestrator because executions share nothing but the maps and the threads; two threads
compete for it. `MaxRequests` is one more than any policy allows, so that the bound never
cuts a policy off. Three launches let a stray monitor of
the first meet two later servers; the invariants also hold for five. Two operations on a
queue of one give a refusal, an overtaking and every pairwise race of two workers; a second start
meets operations of the first. In `system`, `Messages` has a request for every handler that changes
something and one of each other kind, and two clients give every pair of them; the third
identifier is for an agent created beside the configured one. `LateMessages` bounds what may be
under way when a shutdown begins to one request, a call of a function, which takes the most
steps: all other pairs are explored before a signal. The operators are checked over all
sequences of four replies out of eight, 1,000 files, ten identifiers in every endpoint, all calls of all
functions, a few dozen conditions and definitions, and files with two definitions under one identifier or two, read when
nothing is known and over the built-in workflows and one that a client registered. Deadlock
is not checked: when all requests or launches are used and everything is stopped, the system rests.

Fairness. Weak fairness of every thread inside a call, of each worker, of the threads of the
orchestrator and of its steps: the operating system schedules runnable threads and every
mutex is held briefly. Agent functions are assumed to return (their network calls have limits).
Nobody is assumed to submit, cancel, start or stop, and for the orchestrator nothing is
assumed of the request service: the 30 seconds of a step suffice. For the launcher, the call in progress and
the monitors are scheduled; that a server answers, exits or is called for is not assumed. In
AsyncServiceLayer a call that has begun goes on, workers and callbacks run, and a mutex that stays
free is taken; nobody is assumed to submit, cancel or stop. In AgentSystem main, the handler, the
accepting thread and each client's thread are scheduled; no client has to connect, no signal has to
come, and `WorkflowManager::stop` need not return, since `wm_stop` shows that it may not. `StopsSpec`
assumes that it does, so that `http_stop` shows the other cause.

Every property is violated by a mutant of the code's model, a plausible bug defined next
to the action it changes and listed under `mutants`.

### Disagreements noted without a run

* A finished request stays listed as active when its worker is faster than its client
  (`workflow_manager.cpp:118`): it is moved before it is inserted.
* A step loop that is paused and resumed at the wrong moment ends COMPLETED with steps that never
  ran (`workflow_types.cpp:438`).
* Conditions of the YAML configuration are lost (`workflow_types.cpp:1302`), although
  `workflow.yaml` and `docs/yaml-usage.md` have them: the emitter writes YAML, which `json::parse` refuses.
* `main` reads the configuration before the orchestrator starts, and `start` registers the built-in workflows over
  it (`workflow_types.cpp:35`): the `analysis_workflow` of `workflow.yaml:33`, which `docs/yaml-usage.md:72`
  executes as an example of a configured one, is the built-in one with other steps. `StartsWith` states
  what the code does.
* A definition that was saved comes back without its conditions and its default retries.
* `client.cpp:220` looks for "404" in an error text that never contains it, so that a missing search
  service is reported as a failure.
* A condition `{"not": ...}` of its own is none of the forms that are looked for, and holds.
* `max_threads` below `min_threads` passes the validation, and so does a minimum of memory that is no
  size while the maximum is "auto" (`agent_config.cpp:170`); the second fails the next validation.

## 4. Proofs

`WorkflowManagerProofs` proves, for all values of the constants under `ConstantsAssumption`
(finite sets of requests, clients and workers, positive limits):

* `TypeCorrect`, `NeverTwoPools`: types, and never two pools. The type invariant needs `OnePool`
  with it: a start sets every worker to `wait`, which is only typed if none holds a request.
* `DeliveredOnce`, `StagesOfRequestsAgree`, `LiveRequestsListed`: from the inductive invariant
  `IInv`, the conjunction of types, `NoDoubleDelivery`, `StagesAgree` and `LiveIsListed`. None of
  the three is inductive alone: that a push creates no duplicate needs to know that a created
  request is nowhere else, and that a cancelled request may leave the active map needs to
  know that it is CANCELLED.
* `OutcomesAreFinal`: the action property, from `IInv`: the only writes that could change a
  settled state are guarded, or made by the one holder of a request.
* `QueueOvershootBounded`: from the stronger `Len(queue) + passed < limit + clients`, where
  `passed` counts the clients between test and push.
* `ManagerImplementsLifecycle`: initial states map to initial states and every step to a step
  of `RequestLifecycle` or a stutter, under `IInv`.

`WorkflowCounterProofs` builds on `IInv` for what the counters equal at every step, whatever
`StatModulus` is:

* `OutcomesAreCounted`: inductive together with `IInv`, which says that a request whose outcome a
  worker is about to write is PROCESSING or CANCELLED and with that worker only, so that each
  increment goes with exactly one new member of the set it counts.
* `ActiveStatIsRightWhenQuiet`: the counter of active requests is incremented by the submitting
  thread after the push and decremented by the worker after the move, in either order. The
  invariant `ActiveCount` says what it is in between: the length of the queue plus the busy
  workers minus the requests that are pushed and not yet counted, modulo `StatModulus`. The
  lemmas on remainders (`Division`, `StepUp`, `StepDown`) are proved first.

`WorkflowOrchestratorProofs` proves, for any executions, threads, steps, definitions and limits
under `OrchestratorAssumption`:

* `EngineTypeCorrect`: types. It needs `LoopsAgree`, which says where each loop index is at each
  place of the code, and `OneThreadEach`: two threads that conduct one execution would take its
  steps to places a single one never reaches.
* `NeverTwoThreads`, `NothingIsStranded`: `Pick` is the only step that gives a thread an
  execution, and tests PENDING under the mutex; but clients and expiring callers write states
  without it. `Listed` and `ExpiringHasThread` say what such a write can meet: a caller that is
  past its test of RUNNING writes TIMEOUT over an execution that has a thread or is retired,
  so that it strands none.
* `CompletedMeansNoFailure`: `StepsAgree` says that a running step belongs to an execution whose
  thread waits for it, so that none fails after its executor has looked; `FailuresTolerated` that an
  executor only goes on past failures its definition tolerates; `CompletedIsOver` that COMPLETED is
  the last thing it writes. PARALLEL needs the second part of `StepsAgree`: no step has run
  before the executor was entered.
* `RetiredStatesStay`: the action property, from the same invariant.

The inductive invariant (`IInv`) is their conjunction; TLC has checked each conjunct on the instance
of `orch_safety` as well. The request service is used by its interface only, so that these
theorems hold of any service.

`ServerLauncherProofs` proves, for any number of launches under `LaunchesAssumption`:

* `LauncherTypeCorrect`, `NeverTwoServers`, `NeverTwoMonitors`, `RestMeansNothingLeft`,
  `DestructorLeavesNothing`. All but the first are about launchers whose detached threads act
  in time (`prompt`; section 2 says what happens otherwise): one that sleeps longer detaches a
  monitor it does not know. The inductive invariant is `ServersKnown` (what lives or waits to be
  reaped is the last process), `MonitorsKnown` (what watches is the joinable monitor; on Unix, one
  about to report has seen the process reaped), `CallsAgree` (what a call has made at each place
  of its code) and `TimersWait` (nothing has been started that a sleeping thread could detach).

`AsyncServiceLayerProofs` proves, for all finite sets of operations, workers and subscribers
(no name is both an operation and a worker, so that the holder of a mutex is known by it):

* `LayerTypeCorrect`: types, with the flags of `start` and `stop` and the holders of the mutexes.
* `ExecutedAtMostOnce`, `SettledOnce`: from the inductive invariant `IInv`, which follows an
  operation from its listing to its end. `OneOwner`: a worker has an operation of its own, which
  has left the queue. `FreshUntilRun`: one that nobody has executed has not run, and one that
  nobody has settled has a pending future; so the write of a worker that passed the test of
  CANCELLED too early finds a future nobody else settles. `EarlyStaysCancelled`: a cancellation
  that came before a worker took the operation stays in force until the operation is refused or
  dropped. `PoolAgrees`: outside `stop` a pool that does not run has no workers, so that a
  second `start` resets none that holds an operation.
* `LeaversAreNotTold`: an event is told under `subscribers_mutex_`, which leaving needs too.

`AgentSystemProofs` proves, for any clients, requests and configured agents under `MessagesSent` (the
requests are of the four methods and the kinds of bodies) and `EnoughIds` (finite sets, and an
identifier for each configured agent and each client, since `generate_uuid` does not run out):

* `NothingIsLeftRunning`: from `ProcessInv`, which never says where one of main and the signal handler
  is while the other is somewhere. `Built`: what main has made at each of its places, and that
  nothing runs that was not made. `TakenDown`: what main has taken down at each of its places stays
  down, whatever the handler does, because only startup makes anything and main has left startup.
  Without `SignalAgrees` (no signal, no shutdown) a main at rest could not be told from one in its loop.
* `CrashesOnlyAfter`: needs all of `DataInv`. `PointersHold`: as long as nobody deleted or replaced
  anything, what a request has looked up is still there when its thread uses it, several
  steps later (`Held`). `NobodyServed`: whoever is served was accepted by a server that listened, so
  that main has made it and, without a signal, not destroyed it. `AgentsAgree` and `IdsLeft`: an
  agent is created under an identifier nobody has or had; `IdsLeft` counts the identifiers
  given out against the clients answered, so that the counting lemma `FreeId` finds a new one.
* `ErrorsChangeNothing`: from `WellFormed`: a request that has changed something is in the call of
  a function or answered, and no handler refuses from there with 400 or 404.
* `SystemTypeCorrect`: types, and an agent that runs exists.

TLC has checked their conjunction (`IInv`) on the instance of `system`, as those of the other modules
on theirs.

`AgentPartsProofs` proves what the parts without state compute, for inputs of any size.

Of `HttpClient`, for any limit of retries and any replies, delays and random numbers:

* `RetriesEnd`: the loop ends within its limit, repeats only what is worth it, and gives a success that
  it has seen. `Requests` is the least number at which the loop ends (`RequestsIsFirst`), which exists
  because the last attempt ends it and the natural numbers are well-founded (`Least`).
* `PausesAreBounded`: a pause is between the configured delay and 36 times it. Delays below 4 ms
  are left out: with fewer than 4 ms `rand()` is divided by zero (`http_client.cpp:202`).

Of `AgentConfigManager`, for any files, whatever they set and wherever they break off, and for a
machine of any size (what is assumed of a file is the type of its values: sizes and limits are not negative):

* `LoadedIsUsable`, `GivenIsUsable`: what load_config accepts has no empty list, and nothing is "auto"
  any more; where the machine and the limits leave room, its settings are within the limits, and stay
  there. `PressureKeepsSettled` is the step: a reaction to pressure keeps the settings numbers within
  limits, from which it follows for any reactions.

Of the routes of `HTTPServer`, for any identifier:

* `RoutesReach`: a value may be put for `{id}` into every announced endpoint, and each reaches its handler
  with it, exactly if it is plain (`IsPlain`): not empty, not "executions", and not beginning with
  start, execute or progress. An agent "startup" cannot be stopped: `PUT /agents/startup/stop` contains
  "/start". `GetRows`, `PutRows`, `PostRows` and `DeleteRows` say when each row of the chain matches;
  `FirstRowDecides` that the first decides; `PlainReached`, `SuffixReached` and the like what its
  branch gives the handler. One lemma for each endpoint shows that no earlier row matches, and
  `OnlyPlainReach` names the endpoint that fails for each kind of other identifier.

Of the functions of `Agent`, for both builds and any call:

* `CallsDoDegrade`: `RegisteredAre` follows the order of registration (`LaterReplaces`) to what implements each
  name; the lemmas before it sort the implementations by what can make them throw.

`WorkflowDefinitionsProofs` proves, for any definitions, mappings and contexts:

* `DefinitionsSurvive`: whatever the steps, parameters and conditions of a definition are, it survives being
  saved and loaded: it validates if it did, keeps its order, and each step that ran runs with the same
  parameters and is not tried more often. Only the numbers of retries are assumed to be
  natural. No induction over conditions is needed, since the file keeps none.
* `LastDefinitionStays`: after any configuration file is read over any known definitions, what is known is,
  under each identifier, the last definition that was accepted, and what the file does not replace.
  `LoadWorkflowConfig` is a recursive function over the length of the file (`ReadingExists` shows that
  it is one); the statement holds at each length because the least at which it failed
  (`LeastNumber`) would follow one at which it holds.
* `BuiltinsCountFirst`: the program starts with the built-in workflows and the last accepted definitions of the
  identifiers that none of them has, whatever the file is.
* `LoadedValidates`, `OneDefinitionEach`: hence what is known has passed the validation or was known before, and
  no two definitions share an identifier.
* `ReloadsDoForget`, `LastDefinitionsDoStay`: the same of everything the run builds. `ReloadsDoForget` also says
  that the built-in workflows are valid and ordered, which goes operation by operation through the
  builder: each keeps a definition valid and its steps after what they depend on.

With them `AgentSystemProofs` proves `RetriesAlwaysStop`, `ConfigurationStaysUsable`, `AnnouncedRoutesAlwaysReach`,
`FunctionsAlwaysDegrade`, `ReloadsOnlyForget` and `LastDefinitionAlwaysCounts`, which say the same at the places
where the program relies on it. Every safety invariant and action property of a passing run is thereby a
theorem.

Only model-checked: liveness (`AcceptedIsSettled`, `ExecutionsEnd`, `StopReturns`, `CallsReturn`,
`EveryFutureResolves`, `ShutdownOnlyWaits`), since fairness and ENABLED are out of the prover's
reach. What the evaluation of nested conditions computes is neither: `DefinitionsSurvive` holds whatever it is.

## 5. Not modelled, and plan

Not modelled: the texts of answers, prompts and results; the vector stores and text splitting of
`core/retrieval.cpp` and the processors of `functions/research_brief.cpp`, which compute texts; the
model file registry; metrics, logging and path checks; listings of files; `EventNotificationService`, which prints;
data races inside one operation of an unlocked map. Each is listed in `PROJECT.json` with its reason.

What would come next: removal of a definition while an executor reads it, calls of the launcher
that are made together, and the insertions of a PARALLEL workflow, each as the data race it is; their
outcomes are those of undefined behaviour, and no document says what the program should do then.
