-------------------------- MODULE AsyncServiceLayer --------------------------
(***************************************************************************)
(* AsyncServiceLayer (src/api/service_async.cpp): operations submitted to a *)
(* bounded priority queue, a pool of workers that executes them, the        *)
(* cancellation of operations and the subscribers told of every event.      *)
(*                                                                          *)
(* A step is one region under a mutex, or one access to something another   *)
(* thread can see.  Two mutexes are held across steps: operations_mutex_ by *)
(* a cancellation until its subscribers are told (cancelling), and          *)
(* subscribers_mutex_ by the thread whose event is being told (telling).    *)
(***************************************************************************)
EXTENDS Naturals, FiniteSets

CONSTANTS
    Operations,     \* the operations that may be submitted (bounds the run)
    KindOf,         \* KindOf[o]: which service submits o
    Workers,        \* the threads start() creates (worker_count_)
    Subscribers,    \* the ids that may subscribe to events
    MaxQueueSize,   \* max_queue_size_
    MaxStarts,      \* how often the pool is started (bounds the run)
    None            \* no operation

Kinds == {"plain", "agent", "batch", "workflow"}

ASSUME ConstantsAssumption ==
    /\ IsFiniteSet(Operations) /\ IsFiniteSet(Workers) /\ IsFiniteSet(Subscribers)
    /\ KindOf \in [Operations -> Kinds]
    /\ MaxQueueSize \in Nat
    /\ MaxStarts \in Nat
    /\ None \notin Operations \cup Workers /\ Operations \cap Workers = {}

VARIABLES
    status,         \* status[o]: AsyncOperationResult::status, NEW before o exists
    ended,          \* ended[o]: end_time is set
    future,         \* future[o]: what the future of o holds
    operations,     \* keys of operations_
    queue,          \* task_queue_
    spc,            \* spc[o]: where the client is in the submission of o
    wpc, wop,       \* where each worker is in worker_thread, and its operation
    cancelling,     \* the operation of the cancellation that holds operations_mutex_
    telling,        \* the holder of subscribers_mutex_ and whom it has still to call
    subscribers,    \* keys of event_subscribers_
    running,        \* running_
    control,        \* where the controlling thread is: idle, joining, destroyed
    starts,         \* how often start() created the pool
    runs,           \* history: how often o was executed
    early           \* history: the operations cancelled before a worker took them

submitVars == <<status, ended, future, operations, queue, spc>>
workerVars == <<wpc, wop>>
eventVars  == <<telling, subscribers>>
poolVars   == <<running, control, starts>>
history    == <<runs, early>>
vars == <<submitVars, workerVars, cancelling, eventVars, poolVars, history>>

-----------------------------------------------------------------------------
Ended    == {"COMPLETED", "FAILED", "CANCELLED"}
Statuses == {"NEW", "PENDING", "RUNNING"} \cup Ended

\* The services submit with a priority of their own: batches 5, workflows 3.
Priority(o) == CASE KindOf[o] = "batch" -> 5
                 [] KindOf[o] = "workflow" -> 3
                 [] OTHER -> 0

\* How the function of o may end.  A batch catches what its tasks throw and the
\* functions of the agent and workflow services only build a result.
Outcomes(o) == IF KindOf[o] = "plain" THEN {"returned", "threw"} ELSE {"returned"}

\* queue_mutex_ is held by a worker between its predicate and blocking.
QueueMutexFree == \A w \in Workers : wpc[w] # "blocking"
OperationsMutexFree == cancelling = None
Nobody == [by |-> None, left |-> {}]

Init ==
    /\ status = [o \in Operations |-> "NEW"]
    /\ ended = [o \in Operations |-> FALSE]
    /\ future = [o \in Operations |-> "pending"]
    /\ operations = {} /\ queue = {}
    /\ spc = [o \in Operations |-> "idle"]
    /\ wpc = [w \in Workers |-> "exited"]
    /\ wop = [w \in Workers |-> None]
    /\ cancelling = None
    /\ telling = Nobody
    /\ subscribers = {}
    /\ running = FALSE /\ control = "idle" /\ starts = 0
    /\ runs = [o \in Operations |-> 0]
    /\ early = {}

-----------------------------------------------------------------------------
(* submit_operation, also for submit_batch_operation and the services.      *)

\* Under operations_mutex_: the new operation can be looked up and cancelled.
SubmitList(o) ==
    /\ spc[o] = "idle" /\ control # "destroyed"
    /\ OperationsMutexFree
    /\ status' = [status EXCEPT ![o] = "PENDING"]
    /\ operations' = operations \cup {o}
    /\ spc' = [spc EXCEPT ![o] = "listed"]
    /\ UNCHANGED <<ended, future, queue, workerVars, cancelling, eventVars, poolVars, history>>

\* Mutant of SubmitRefuse: the operation is pushed all the same.
SubmitRefuseAndPush(o) ==
    /\ spc[o] = "listed" /\ QueueMutexFree
    /\ Cardinality(queue) >= MaxQueueSize
    /\ status' = [status EXCEPT ![o] = "FAILED"]
    /\ future' = [future EXCEPT ![o] = "error"]
    /\ queue' = queue \cup {o}
    /\ spc' = [spc EXCEPT ![o] = "pushed"]
    /\ UNCHANGED <<ended, operations, workerVars, cancelling, eventVars, poolVars, history>>

\* Under queue_mutex_, the queue being full: the operation fails at once,
\* whatever its status has become, and keeps no end time.
SubmitRefuse(o) ==
    /\ spc[o] = "listed" /\ QueueMutexFree
    /\ Cardinality(queue) >= MaxQueueSize
    /\ status' = [status EXCEPT ![o] = "FAILED"]
    /\ future' = [future EXCEPT ![o] = "error"]
    /\ spc' = [spc EXCEPT ![o] = "done"]
    /\ UNCHANGED <<ended, operations, queue, workerVars, cancelling, eventVars, poolVars, history>>

SubmitPush(o) ==
    /\ spc[o] = "listed" /\ QueueMutexFree
    /\ Cardinality(queue) < MaxQueueSize
    /\ queue' = queue \cup {o}
    /\ spc' = [spc EXCEPT ![o] = "pushed"]
    /\ UNCHANGED <<status, ended, future, operations, workerVars, cancelling, eventVars,
                   poolVars, history>>

\* Mutant of SubmitNotify: nobody is notified.
SubmitNotifyNobody(o) ==
    /\ spc[o] = "pushed"
    /\ spc' = [spc EXCEPT ![o] = "done"]
    /\ UNCHANGED <<status, ended, future, operations, queue, workerVars, cancelling, eventVars,
                   poolVars, history>>

\* notify_one: some worker asleep wakes, if there is one.
SubmitNotify(o) ==
    /\ spc[o] = "pushed"
    /\ spc' = [spc EXCEPT ![o] = "done"]
    /\ LET asleep == {w \in Workers : wpc[w] = "asleep"}
       IN  IF asleep = {} THEN UNCHANGED wpc
           ELSE \E w \in asleep : wpc' = [wpc EXCEPT ![w] = "wait"]
    /\ UNCHANGED <<status, ended, future, operations, queue, wop, cancelling, eventVars,
                   poolVars, history>>

-----------------------------------------------------------------------------
(* cancel_operation, from any thread.                                       *)

\* Under operations_mutex_, which is then held until the subscribers are told.
Cancel(o) ==
    /\ OperationsMutexFree
    /\ o \in operations /\ status[o] = "PENDING"
    /\ status' = [status EXCEPT ![o] = "CANCELLED"]
    /\ ended' = [ended EXCEPT ![o] = TRUE]
    /\ cancelling' = o
    /\ early' = IF \E w \in Workers : wop[w] = o THEN early ELSE early \cup {o}
    /\ UNCHANGED <<future, operations, queue, spc, workerVars, eventVars, poolVars, runs>>

-----------------------------------------------------------------------------
(* notify_subscribers: the threads that tell an event are the workers, and  *)
(* the cancellation under the name of its operation.                        *)

WantsToTell(t) ==
    \/ t \in Workers /\ wpc[t] \in {"tell started", "tell ended"}
    \/ t \in Operations /\ cancelling = t

TellBegins(t) ==
    /\ WantsToTell(t) /\ telling = Nobody
    /\ telling' = [by |-> t, left |-> subscribers]
    /\ UNCHANGED <<submitVars, workerVars, cancelling, subscribers, poolVars, history>>

\* The callback of s runs.  It may read the statistics of the queue and must not
\* call anything that takes operations_mutex_ or subscribers_mutex_.
Deliver(s) ==
    /\ s \in telling.left /\ QueueMutexFree
    /\ telling' = [telling EXCEPT !.left = @ \ {s}]
    /\ UNCHANGED <<submitVars, workerVars, cancelling, subscribers, poolVars, history>>

\* All are called: the mutexes are released and the thread goes on.
TellEnds ==
    /\ telling # Nobody /\ telling.left = {}
    /\ telling' = Nobody
    /\ LET t == telling.by
       IN  IF t \in Workers
           THEN /\ wpc' = [wpc EXCEPT ![t] = IF @ = "tell started" THEN "run" ELSE "wait"]
                /\ wop' = [wop EXCEPT ![t] = IF wpc[t] = "tell started" THEN @ ELSE None]
                /\ UNCHANGED cancelling
           ELSE cancelling' = None /\ UNCHANGED workerVars
    /\ UNCHANGED <<submitVars, subscribers, poolVars, history>>

Subscribe(s) ==
    /\ telling = Nobody
    /\ s \notin subscribers
    /\ subscribers' = subscribers \cup {s}
    /\ UNCHANGED <<submitVars, workerVars, cancelling, telling, poolVars, history>>

\* Mutant of Unsubscribe: subscribers_mutex_ is not taken.
UnsubscribeUnlocked(s) ==
    /\ s \in subscribers
    /\ subscribers' = subscribers \ {s}
    /\ UNCHANGED <<submitVars, workerVars, cancelling, telling, poolVars, history>>

Unsubscribe(s) ==
    /\ telling = Nobody
    /\ s \in subscribers
    /\ subscribers' = subscribers \ {s}
    /\ UNCHANGED <<submitVars, workerVars, cancelling, telling, poolVars, history>>

-----------------------------------------------------------------------------
(* worker_thread.                                                           *)

WorkerExit(w) ==
    /\ wpc[w] = "wait" /\ QueueMutexFree /\ ~running
    /\ wpc' = [wpc EXCEPT ![w] = "exited"]
    /\ UNCHANGED <<submitVars, wop, cancelling, eventVars, poolVars, history>>

\* Predicate false: the worker still holds queue_mutex_ and will block.
WorkerBlock(w) ==
    /\ wpc[w] = "wait" /\ QueueMutexFree /\ running
    /\ queue = {}
    /\ wpc' = [wpc EXCEPT ![w] = "blocking"]
    /\ UNCHANGED <<submitVars, wop, cancelling, eventVars, poolVars, history>>

WorkerSleep(w) ==
    /\ wpc[w] = "blocking"
    /\ wpc' = [wpc EXCEPT ![w] = "asleep"]
    /\ UNCHANGED <<submitVars, wop, cancelling, eventVars, poolVars, history>>

\* top() and pop(): some operation of the highest priority.
WorkerTake(w) ==
    /\ wpc[w] = "wait" /\ QueueMutexFree /\ running
    /\ \E o \in queue :
          /\ \A q \in queue : Priority(q) <= Priority(o)
          /\ queue' = queue \ {o}
          /\ wop' = [wop EXCEPT ![w] = o]
    /\ wpc' = [wpc EXCEPT ![w] = "taken"]
    /\ UNCHANGED <<status, ended, future, operations, spc, cancelling, eventVars, poolVars, history>>

\* The operation was cancelled: the task is dropped, and with it its promise.
WorkerDrop(w) ==
    /\ wpc[w] = "taken" /\ status[wop[w]] = "CANCELLED"
    /\ future' = [future EXCEPT ![wop[w]] = "broken"]
    /\ wpc' = [wpc EXCEPT ![w] = "wait"]
    /\ wop' = [wop EXCEPT ![w] = None]
    /\ UNCHANGED <<status, ended, operations, queue, spc, cancelling, eventVars, poolVars, history>>

\* Mutant of WorkerPass: whether the operation was cancelled is not looked at.
WorkerPassAnyway(w) ==
    /\ wpc[w] = "taken"
    /\ wpc' = [wpc EXCEPT ![w] = "passed"]
    /\ UNCHANGED <<submitVars, wop, cancelling, eventVars, poolVars, history>>

\* It was not cancelled when the worker looked.
WorkerPass(w) ==
    /\ wpc[w] = "taken" /\ status[wop[w]] # "CANCELLED"
    /\ wpc' = [wpc EXCEPT ![w] = "passed"]
    /\ UNCHANGED <<submitVars, wop, cancelling, eventVars, poolVars, history>>

\* RUNNING is written without operations_mutex_, over whatever the status is now.
WorkerBegin(w) ==
    /\ wpc[w] = "passed"
    /\ status' = [status EXCEPT ![wop[w]] = "RUNNING"]
    /\ wpc' = [wpc EXCEPT ![w] = "tell started"]
    /\ UNCHANGED <<ended, future, operations, queue, spc, wop, cancelling, eventVars, poolVars, history>>

\* task_function ends and its outcome is written to the status.
WorkerRun(w) ==
    /\ wpc[w] = "run"
    /\ runs' = [runs EXCEPT ![wop[w]] = @ + 1]
    /\ \E end \in Outcomes(wop[w]) :
          /\ status' = [status EXCEPT ![wop[w]] = IF end = "threw" THEN "FAILED" ELSE "COMPLETED"]
          /\ wpc' = [wpc EXCEPT ![w] = end]
    /\ UNCHANGED <<ended, future, operations, queue, spc, wop, cancelling, eventVars, poolVars, early>>

\* The end time, the promise and the counters, after the status.
WorkerSettle(w) ==
    /\ wpc[w] \in {"returned", "threw"}
    /\ ended' = [ended EXCEPT ![wop[w]] = TRUE]
    /\ future' = [future EXCEPT ![wop[w]] = IF wpc[w] = "threw" THEN "error" ELSE "value"]
    /\ wpc' = [wpc EXCEPT ![w] = "tell ended"]
    /\ UNCHANGED <<status, operations, queue, spc, wop, cancelling, eventVars, poolVars, history>>

-----------------------------------------------------------------------------
\* cleanup_completed_operations: what ended more than an hour ago is forgotten, and
\* at once what has no end time, the refused and those just being settled.
Cleanup ==
    /\ running /\ OperationsMutexFree
    /\ LET over == {o \in operations : status[o] \in Ended}
           undated == {o \in over : ~ended[o]}
       IN  \E old \in SUBSET (over \ undated) :
              /\ old \cup undated # {}
              /\ operations' = operations \ (old \cup undated)
    /\ UNCHANGED <<status, ended, future, queue, spc, workerVars, cancelling, eventVars,
                   poolVars, history>>

Start ==
    /\ ~running /\ control = "idle" /\ starts < MaxStarts
    /\ running' = TRUE
    /\ starts' = starts + 1
    /\ wpc' = [w \in Workers |-> "wait"]
    /\ UNCHANGED <<submitVars, wop, cancelling, eventVars, control, history>>

\* running_ is cleared and everybody asleep is woken, without queue_mutex_.
StopSignal ==
    /\ running
    /\ running' = FALSE
    /\ control' = "joining"
    /\ wpc' = [w \in Workers |-> IF wpc[w] = "asleep" THEN "wait" ELSE wpc[w]]
    /\ UNCHANGED <<submitVars, wop, cancelling, eventVars, starts, history>>

\* Mutant of StopReturn: the workers are not joined.
StopReturnEarly ==
    /\ control = "joining"
    /\ control' = "idle"
    /\ UNCHANGED <<submitVars, workerVars, cancelling, eventVars, running, starts, history>>

StopReturn ==
    /\ control = "joining"
    /\ \A w \in Workers : wpc[w] = "exited"
    /\ control' = "idle"
    /\ UNCHANGED <<submitVars, workerVars, cancelling, eventVars, running, starts, history>>

\* The destructor, when nobody uses the layer: the queue goes, and with it the
\* promises of the operations nobody took.
Destroy ==
    /\ control = "idle" /\ ~running
    /\ cancelling = None /\ \A o \in Operations : spc[o] \in {"idle", "done"}
    /\ control' = "destroyed"
    /\ future' = [o \in Operations |-> IF o \in queue THEN "broken" ELSE future[o]]
    /\ queue' = {}
    /\ UNCHANGED <<status, ended, operations, spc, workerVars, cancelling, eventVars,
                   running, starts, history>>

-----------------------------------------------------------------------------
SubmitStep(o) == SubmitList(o) \/ SubmitRefuse(o) \/ SubmitPush(o) \/ SubmitNotify(o)
WorkerStep(w) ==
    \/ WorkerExit(w) \/ WorkerBlock(w) \/ WorkerSleep(w) \/ WorkerTake(w) \/ WorkerDrop(w)
    \/ WorkerPass(w) \/ WorkerBegin(w) \/ WorkerRun(w) \/ WorkerSettle(w)
Tell == (\E t \in Workers \cup Operations : TellBegins(t)) \/ (\E s \in Subscribers : Deliver(s)) \/ TellEnds
Client(s) == Subscribe(s) \/ Unsubscribe(s)

Next ==
    \/ \E o \in Operations : SubmitStep(o) \/ Cancel(o)
    \/ \E w \in Workers : WorkerStep(w)
    \/ \E s \in Subscribers : Client(s)
    \/ Tell \/ Cleanup \/ Start \/ StopSignal \/ StopReturn \/ Destroy

Spec == Init /\ [][Next]_vars

\* A call that has begun goes on, the workers are scheduled, functions and
\* callbacks return, and a mutex that stays free is taken by whoever waits for it.
Fairness ==
    /\ \A o \in Operations :
          WF_vars(SubmitRefuse(o) \/ SubmitPush(o) \/ SubmitNotify(o)) /\ WF_vars(TellBegins(o))
    /\ \A w \in Workers : WF_vars(WorkerStep(w)) /\ WF_vars(TellBegins(w))
    /\ \A s \in Subscribers : WF_vars(Deliver(s))
    /\ WF_vars(TellEnds)

FairSpec == Spec /\ Fairness

-----------------------------------------------------------------------------
TypeOK ==
    /\ status \in [Operations -> Statuses]
    /\ ended \in [Operations -> BOOLEAN]
    /\ future \in [Operations -> {"pending", "value", "error", "broken"}]
    /\ operations \subseteq Operations /\ queue \subseteq Operations
    /\ spc \in [Operations -> {"idle", "listed", "pushed", "done"}]
    /\ wpc \in [Workers -> {"exited", "wait", "blocking", "asleep", "taken", "passed",
                            "tell started", "run", "returned", "threw", "tell ended"}]
    /\ wop \in [Workers -> Operations \cup {None}]
    /\ \A w \in Workers : (wop[w] = None) <=> wpc[w] \in {"exited", "wait", "blocking", "asleep"}
    /\ cancelling \in Operations \cup {None}
    /\ telling \in [by : Workers \cup Operations \cup {None}, left : SUBSET Subscribers]
    /\ subscribers \subseteq Subscribers
    /\ running \in BOOLEAN
    /\ control \in {"idle", "joining", "destroyed"}
    /\ running => control = "idle"
    /\ starts \in 0..MaxStarts
    /\ runs \in [Operations -> Nat]
    /\ early \subseteq Operations

\* An operation is executed at most once, and never if cancel_operation reported
\* its cancellation before a worker took it: whatever is between the listing of an
\* operation, its push and the worker's look at the status (service_async.cpp:205).
RunsAtMostOnce == \A o \in Operations : runs[o] <= IF o \in early THEN 0 ELSE 1

\* The promise of an operation is settled once: by the worker, by the refusal of a
\* full queue or by dropping the task.  A second set_value or set_exception throws
\* out of the handler in worker_thread and would end the program.
FutureSettledOnce ==
    [][\A o \in Operations : future[o] # "pending" => future'[o] = future[o]]_vars

\* Who has unsubscribed is not called any more, also by an event whose telling had
\* begun before: unsubscribe_from_events waits for the thread that tells.
NotToldAfterLeaving == telling.left \subseteq subscribers

\* A client that has its future gets an answer unless the pool is stopped first, and
\* then with the destruction of the layer: no wakeup is lost, and neither a worker nor
\* a cancellation waits for ever for a mutex to tell its event.
EveryFutureResolves ==
    \A o \in Operations :
        spc[o] = "done" ~> (future[o] # "pending" \/ (~running /\ control # "destroyed"))
=============================================================================
