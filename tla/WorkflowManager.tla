--------------------------- MODULE WorkflowManager ---------------------------
(***************************************************************************)
(* The request queue and worker pool of WorkflowManager                    *)
(* (src/workflows/workflow_manager.cpp): clients submit and cancel         *)
(* requests, a pool of worker threads takes them from a bounded FIFO queue *)
(* and runs the agent function of each, and one controlling thread starts  *)
(* and stops the pool.                                                     *)
(*                                                                         *)
(* A step is one region under queue_mutex_ or requests_mutex_, or one      *)
(* access to an atomic that another thread can see.  queue_mutex_ is held  *)
(* across two steps only by a worker about to block on queue_condition_    *)
(* (program counter "blocking"), requests_mutex_ never is.                 *)
(***************************************************************************)
EXTENDS Integers, Sequences, FiniteSets

CONSTANTS
    Requests,       \* the requests that may be created (bounds the run)
    Clients,        \* threads that call submit_request
    Workers,        \* the threads start() creates (max_workers_)
    MaxQueueSize,   \* max_queue_size_
    MaxHistory,     \* max_completed_history_
    StatModulus,    \* values of a size_t counter, 2^64 in the program
    MaxStarts,      \* how often the pool is started (bounds the run)
    None            \* no request

ASSUME ConstantsAssumption ==
    /\ IsFiniteSet(Requests) /\ IsFiniteSet(Clients) /\ IsFiniteSet(Workers)
    /\ MaxQueueSize \in Nat \ {0}
    /\ MaxHistory \in Nat
    /\ StatModulus \in Nat \ {0}
    /\ MaxStarts \in Nat
    /\ None \notin Requests

VARIABLES
    queue,          \* request_queue_
    state,          \* state[r]: WorkflowRequest::state, UNSUBMITTED before r exists
    stamp,          \* stamp[r]: WorkflowRequest::timestamp as an order of creation
    clock,          \* the latest stamp given
    active,         \* keys of active_requests_
    completed,      \* keys of completed_requests_
    stats,          \* stats_: the counters (queue_size always equals Len(queue))
    cpc, creq,      \* where each client is in submit_request, and its request
    wpc, wreq,      \* where each worker is in worker_thread, and its request
    cancelling,     \* requests whose cancel_request still has to move them
    running,        \* running_
    control,        \* where the controlling thread is in stop()
    starts          \* how often start() created the pool

clientVars  == <<cpc, creq>>
workerVars  == <<wpc, wreq>>
poolVars    == <<running, control, starts>>
recordVars  == <<state, stamp, clock>>
mapVars     == <<active, completed>>
vars == <<queue, recordVars, mapVars, stats, clientVars, workerVars,
          cancelling, poolVars>>

-----------------------------------------------------------------------------
Terminal == {"COMPLETED", "FAILED", "TIMEOUT", "CANCELLED"}
Live     == {"PENDING", "PROCESSING"}
States   == {"UNSUBMITTED"} \cup Live \cup Terminal

\* The n requests of S created last: what both clean-ups keep.
Newest(S, n) == {r \in S : Cardinality({q \in S : stamp[q] > stamp[r]}) < n}

\* completed_requests_ after request r is inserted: above max_completed_history_
\* only the newest 80% stay.
WithHistory(r) ==
    LET all == completed \cup {r}
    IN  IF Cardinality(all) > MaxHistory
        THEN Newest(all, (MaxHistory * 8) \div 10)
        ELSE all

\* No worker holds queue_mutex_ between evaluating its predicate and blocking.
QueueMutexFree == \A w \in Workers : wpc[w] # "blocking"

\* Requests no client has begun to create.
Fresh == {r \in Requests : state[r] = "UNSUBMITTED" /\ \A c \in Clients : creq[c] # r}

Init ==
    /\ queue = <<>>
    /\ state = [r \in Requests |-> "UNSUBMITTED"]
    /\ stamp = [r \in Requests |-> 0]
    /\ clock = 0
    /\ active = {}
    /\ completed = {}
    /\ stats = [total |-> 0, completed |-> 0, failed |-> 0, timeout |-> 0, active |-> 0]
    /\ cpc = [c \in Clients |-> "idle"]
    /\ creq = [c \in Clients |-> None]
    /\ wpc = [w \in Workers |-> "exited"]
    /\ wreq = [w \in Workers |-> None]
    /\ cancelling = {}
    /\ running = FALSE
    /\ control = "idle"
    /\ starts = 0

-----------------------------------------------------------------------------
(* submit_request_with_timeout.  A full queue or an invalid request throws  *)
(* and changes nothing, so neither has an action.                           *)

\* Mutant of SubmitCheck: the limit is off by one.
SubmitCheckOffByOne(c, r) ==
    /\ cpc[c] = "idle" /\ QueueMutexFree /\ r \in Fresh
    /\ Len(queue) <= MaxQueueSize
    /\ cpc' = [cpc EXCEPT ![c] = "checked"] /\ creq' = [creq EXCEPT ![c] = r]
    /\ UNCHANGED <<queue, recordVars, mapVars, stats, workerVars, cancelling, poolVars>>

\* Under queue_mutex_: the size is below the limit.  The mutex is then released.
SubmitCheck(c, r) ==
    /\ cpc[c] = "idle"
    /\ QueueMutexFree
    /\ r \in Fresh
    /\ Len(queue) < MaxQueueSize
    /\ cpc' = [cpc EXCEPT ![c] = "checked"]
    /\ creq' = [creq EXCEPT ![c] = r]
    /\ UNCHANGED <<queue, recordVars, mapVars, stats, workerVars, cancelling, poolVars>>

\* The WorkflowRequest constructor: PENDING, with the time of its creation.
SubmitCreate(c) ==
    /\ cpc[c] = "checked"
    /\ cpc' = [cpc EXCEPT ![c] = "created"]
    /\ state' = [state EXCEPT ![creq[c]] = "PENDING"]
    /\ stamp' = [stamp EXCEPT ![creq[c]] = clock + 1]
    /\ clock' = clock + 1
    /\ UNCHANGED <<queue, mapVars, stats, creq, workerVars, cancelling, poolVars>>

\* Under queue_mutex_ again: the size is not looked at a second time.
SubmitEnqueue(c) ==
    /\ cpc[c] = "created"
    /\ QueueMutexFree
    /\ cpc' = [cpc EXCEPT ![c] = "queued"]
    /\ queue' = Append(queue, creq[c])
    /\ UNCHANGED <<recordVars, mapVars, stats, creq, workerVars, cancelling, poolVars>>

\* Mutant of NotifyOne: the notification is forgotten.
NotifyNobody == UNCHANGED wpc

\* notify_one: some worker blocked on queue_condition_ wakes, if there is one.
NotifyOne ==
    LET asleep == {w \in Workers : wpc[w] = "asleep"}
    IN  IF asleep = {} THEN UNCHANGED wpc
        ELSE \E w \in asleep : wpc' = [wpc EXCEPT ![w] = "wait"]

\* The insertion into active_requests_ (under requests_mutex_), the two counters
\* and the notification: no step of another thread depends on their separation.
SubmitRegister(c) ==
    /\ cpc[c] = "queued"
    /\ active' = active \cup {creq[c]}
    /\ stats' = [stats EXCEPT !.total = (@ + 1) % StatModulus,
                              !.active = (@ + 1) % StatModulus]
    /\ NotifyOne
    /\ cpc' = [cpc EXCEPT ![c] = "idle"]
    /\ creq' = [creq EXCEPT ![c] = None]
    /\ UNCHANGED <<queue, recordVars, completed, wreq, cancelling, poolVars>>

-----------------------------------------------------------------------------
(* cancel_request, from any thread.                                         *)

\* Under requests_mutex_: a listed request that is not settled becomes CANCELLED.
CancelMark(r) ==
    /\ r \in active
    /\ state[r] \in Live
    /\ state' = [state EXCEPT ![r] = "CANCELLED"]
    /\ cancelling' = cancelling \cup {r}
    /\ UNCHANGED <<queue, stamp, clock, mapVars, stats, clientVars, workerVars, poolVars>>

\* move_to_completed of the cancelled request, under a second lock.
CancelMove(r) ==
    /\ r \in cancelling
    /\ cancelling' = cancelling \ {r}
    /\ active' = active \ {r}
    /\ completed' = WithHistory(r)
    /\ UNCHANGED <<queue, recordVars, stats, clientVars, workerVars, poolVars>>

\* cleanup_completed_requests(keep)
CleanupCompleted(keep) ==
    /\ Cardinality(completed) > keep
    /\ completed' = Newest(completed, keep)
    /\ UNCHANGED <<queue, recordVars, active, stats, clientVars, workerVars,
                   cancelling, poolVars>>

-----------------------------------------------------------------------------
(* worker_thread.  The test of running_ by the loop is part of the next     *)
(* step under queue_mutex_: running_ cannot become true while a worker of   *)
(* the pool is alive.                                                       *)

WorkerExit(w) ==
    /\ wpc[w] = "wait"
    /\ QueueMutexFree
    /\ ~running
    /\ wpc' = [wpc EXCEPT ![w] = "exited"]
    /\ UNCHANGED <<queue, recordVars, mapVars, stats, clientVars, wreq, cancelling, poolVars>>

\* Mutant of WorkerTake: the front of the queue is read and not removed.
WorkerPeek(w) ==
    /\ wpc[w] = "wait" /\ QueueMutexFree /\ running /\ queue # <<>>
    /\ wpc' = [wpc EXCEPT ![w] = "begin"] /\ wreq' = [wreq EXCEPT ![w] = Head(queue)]
    /\ UNCHANGED <<queue, recordVars, mapVars, stats, clientVars, cancelling, poolVars>>

WorkerTake(w) ==
    /\ wpc[w] = "wait"
    /\ QueueMutexFree
    /\ running
    /\ queue # <<>>
    /\ queue' = Tail(queue)
    /\ wpc' = [wpc EXCEPT ![w] = "begin"]
    /\ wreq' = [wreq EXCEPT ![w] = Head(queue)]
    /\ UNCHANGED <<recordVars, mapVars, stats, clientVars, cancelling, poolVars>>

\* The predicate of the wait is false.  queue_mutex_ stays locked ...
WorkerBlock(w) ==
    /\ wpc[w] = "wait"
    /\ QueueMutexFree
    /\ running
    /\ queue = <<>>
    /\ wpc' = [wpc EXCEPT ![w] = "blocking"]
    /\ UNCHANGED <<queue, recordVars, mapVars, stats, clientVars, wreq, cancelling, poolVars>>

\* ... until the worker is blocked on queue_condition_; only now can it be notified.
WorkerSleep(w) ==
    /\ wpc[w] = "blocking"
    /\ wpc' = [wpc EXCEPT ![w] = "asleep"]
    /\ UNCHANGED <<queue, recordVars, mapVars, stats, clientVars, wreq, cancelling, poolVars>>

-----------------------------------------------------------------------------
(* process_request and execute_request_with_timeout.                        *)

\* Mutant of BeginProcessing: a cancellation is overwritten.
BeginRegardless(w) ==
    /\ wpc[w] = "begin" /\ wpc' = [wpc EXCEPT ![w] = "run"]
    /\ state' = [state EXCEPT ![wreq[w]] = "PROCESSING"]
    /\ UNCHANGED <<queue, stamp, clock, mapVars, stats, clientVars, wreq, cancelling, poolVars>>

\* Under requests_mutex_.  The function is then launched, cancelled or not.
BeginProcessing(w) ==
    /\ wpc[w] = "begin"
    /\ wpc' = [wpc EXCEPT ![w] = "run"]
    /\ state' = [state EXCEPT ![wreq[w]] = IF @ = "CANCELLED" THEN @ ELSE "PROCESSING"]
    /\ UNCHANGED <<queue, stamp, clock, mapVars, stats, clientVars, wreq, cancelling, poolVars>>

\* Mutants of Settle: a cancellation is overwritten; a cancelled request is counted.
SettleRegardless(w, o, counter) ==
    /\ state' = [state EXCEPT ![wreq[w]] = o]
    /\ stats' = [stats EXCEPT ![counter] = (@ + 1) % StatModulus]

SettleCountingAll(w, o, counter) ==
    /\ state' = [state EXCEPT ![wreq[w]] = IF @ = "CANCELLED" THEN @ ELSE o]
    /\ stats' = [stats EXCEPT ![counter] = (@ + 1) % StatModulus]

\* Under requests_mutex_: outcome o of the worker's request, unless it was cancelled.
Settle(w, o, counter) ==
    IF state[wreq[w]] = "CANCELLED"
    THEN UNCHANGED <<state, stats>>
    ELSE /\ state' = [state EXCEPT ![wreq[w]] = o]
         /\ stats' = [stats EXCEPT ![counter] = (@ + 1) % StatModulus]

\* The future is ready in time: a result, or an exception (also one of std::async).
FunctionReturns(w) ==
    /\ wpc[w] = "run"
    /\ wpc' = [wpc EXCEPT ![w] = "move"]
    /\ \/ Settle(w, "COMPLETED", "completed")
       \/ Settle(w, "FAILED", "failed")
    /\ UNCHANGED <<queue, stamp, clock, mapVars, clientVars, wreq, cancelling, poolVars>>

\* Mutant of FunctionTimesOut: the worker does not wait for the late function.
FunctionAbandoned(w) ==
    /\ wpc[w] = "run" /\ wpc' = [wpc EXCEPT ![w] = "move"]
    /\ Settle(w, "TIMEOUT", "timeout")
    /\ UNCHANGED <<queue, stamp, clock, mapVars, clientVars, wreq, cancelling, poolVars>>

\* wait_for gives up first.  The destructor of the future then waits for the function.
FunctionTimesOut(w) ==
    /\ wpc[w] = "run"
    /\ wpc' = [wpc EXCEPT ![w] = "drain"]
    /\ Settle(w, "TIMEOUT", "timeout")
    /\ UNCHANGED <<queue, stamp, clock, mapVars, clientVars, wreq, cancelling, poolVars>>

FunctionDrains(w) ==
    /\ wpc[w] = "drain"
    /\ wpc' = [wpc EXCEPT ![w] = "move"]
    /\ UNCHANGED <<queue, recordVars, mapVars, stats, clientVars, wreq, cancelling, poolVars>>

\* Mutants of WorkerMove: the counter is signed; a cancelled request leaves it as it is.
WorkerMoveSigned(w) ==
    /\ wpc[w] = "move" /\ wpc' = [wpc EXCEPT ![w] = "wait"]
    /\ wreq' = [wreq EXCEPT ![w] = None]
    /\ active' = active \ {wreq[w]} /\ completed' = WithHistory(wreq[w])
    /\ stats' = [stats EXCEPT !.active = @ - 1]
    /\ UNCHANGED <<queue, recordVars, clientVars, cancelling, poolVars>>

WorkerMoveUncounted(w) ==
    /\ wpc[w] = "move" /\ wpc' = [wpc EXCEPT ![w] = "wait"]
    /\ wreq' = [wreq EXCEPT ![w] = None]
    /\ active' = active \ {wreq[w]} /\ completed' = WithHistory(wreq[w])
    /\ stats' = IF state[wreq[w]] = "CANCELLED" THEN stats
                ELSE [stats EXCEPT !.active = (@ - 1) % StatModulus]
    /\ UNCHANGED <<queue, recordVars, clientVars, cancelling, poolVars>>

\* move_to_completed under requests_mutex_, then active_requests--.
WorkerMove(w) ==
    /\ wpc[w] = "move"
    /\ wpc' = [wpc EXCEPT ![w] = "wait"]
    /\ wreq' = [wreq EXCEPT ![w] = None]
    /\ active' = active \ {wreq[w]}
    /\ completed' = WithHistory(wreq[w])
    /\ stats' = [stats EXCEPT !.active = (@ - 1) % StatModulus]
    /\ UNCHANGED <<queue, recordVars, clientVars, cancelling, poolVars>>

-----------------------------------------------------------------------------
(* start and stop, called by one controlling thread.  Called in the wrong   *)
(* state both return at once and change nothing.                            *)

Start ==
    /\ control = "idle"
    /\ ~running
    /\ starts < MaxStarts
    /\ starts' = starts + 1
    /\ running' = TRUE
    /\ wpc' = [w \in Workers |-> "wait"]
    /\ UNCHANGED <<queue, recordVars, mapVars, stats, clientVars, wreq, cancelling, control>>

\* Mutant of StopSignal: stop() does not wait for the workers.
StopWithoutJoin ==
    /\ control = "idle" /\ running /\ running' = FALSE
    /\ UNCHANGED <<queue, recordVars, mapVars, stats, clientVars, workerVars, cancelling,
                   control, starts>>

\* running_ = false, without queue_mutex_.
StopSignal ==
    /\ control = "idle"
    /\ running
    /\ running' = FALSE
    /\ control' = "notifying"
    /\ UNCHANGED <<queue, recordVars, mapVars, stats, clientVars, workerVars, cancelling, starts>>

\* notify_all, without queue_mutex_: wakes the workers that are blocked by now.
StopNotify ==
    /\ control = "notifying"
    /\ control' = "joining"
    /\ wpc' = [w \in Workers |-> IF wpc[w] = "asleep" THEN "wait" ELSE wpc[w]]
    /\ UNCHANGED <<queue, recordVars, mapVars, stats, clientVars, wreq, cancelling, running, starts>>

StopJoin ==
    /\ control = "joining"
    /\ \A w \in Workers : wpc[w] = "exited"
    /\ control' = "idle"
    /\ UNCHANGED <<queue, recordVars, mapVars, stats, clientVars, workerVars, cancelling, running, starts>>

-----------------------------------------------------------------------------
ClientStep(c) == SubmitCreate(c) \/ SubmitEnqueue(c) \/ SubmitRegister(c)

WorkerStep(w) ==
    \/ WorkerExit(w) \/ WorkerTake(w) \/ WorkerBlock(w) \/ WorkerSleep(w)
    \/ BeginProcessing(w) \/ FunctionReturns(w) \/ FunctionTimesOut(w)
    \/ FunctionDrains(w) \/ WorkerMove(w)

ControlStep == StopNotify \/ StopJoin

Next ==
    \/ \E c \in Clients : (\E r \in Requests : SubmitCheck(c, r)) \/ ClientStep(c)
    \/ \E w \in Workers : WorkerStep(w)
    \/ \E r \in Requests : CancelMark(r) \/ CancelMove(r)
    \/ \E keep \in 0 .. MaxHistory : CleanupCompleted(keep)
    \/ Start \/ StopSignal \/ ControlStep

Spec == Init /\ [][Next]_vars

(***************************************************************************)
(* Threads the scheduler runs: a call that began goes on, a worker that    *)
(* can step does, and every agent function returns at last (its wait on    *)
(* the network has a limit).  Nobody has to submit, cancel, start or stop. *)
(***************************************************************************)
FairSpec ==
    /\ Spec
    /\ \A c \in Clients : WF_vars(ClientStep(c))
    /\ \A w \in Workers : WF_vars(WorkerStep(w))
    /\ \A r \in Requests : WF_vars(CancelMove(r))
    /\ WF_vars(ControlStep)

-----------------------------------------------------------------------------
(* Properties                                                               *)

\* Every variable has its type: counters stay within a size_t, clients and
\* workers hold a request exactly where the code gives them one.
TypeOK ==
    /\ queue \in Seq(Requests)
    /\ state \in [Requests -> States]
    /\ stamp \in [Requests -> Nat] /\ clock \in Nat
    /\ active \in SUBSET Requests /\ completed \in SUBSET Requests
    /\ stats \in [total : Nat, completed : Nat, failed : Nat, timeout : Nat, active : Nat]
    /\ cpc \in [Clients -> {"idle", "checked", "created", "queued"}]
    /\ creq \in [Clients -> Requests \cup {None}]
    /\ wpc \in [Workers -> {"exited", "wait", "blocking", "asleep",
                            "begin", "run", "drain", "move"}]
    /\ wreq \in [Workers -> Requests \cup {None}]
    /\ cancelling \in SUBSET Requests
    /\ running \in BOOLEAN
    /\ control \in {"idle", "notifying", "joining"}
    /\ starts \in 0 .. MaxStarts
    /\ \A c \in Clients : creq[c] = None <=> cpc[c] = "idle"
    /\ \A w \in Workers : wreq[w] = None <=> wpc[w] \in {"exited", "wait", "blocking", "asleep"}

\* A settled request keeps its outcome, whatever order the worker, the timeout and a
\* canceller come in: cancel_request answered true means CANCELLED for good.
TerminalIsFinal == [][\A r \in Requests : state[r] \in Terminal => state'[r] = state[r]]_state

\* A request is delivered to one worker only: it is not twice in the queue, not queued
\* and taken, and not with two workers.  Its function can run at most once.
NoDoubleDelivery ==
    /\ \A i, j \in DOMAIN queue : queue[i] = queue[j] => i = j
    /\ \A w \in Workers, i \in DOMAIN queue : wreq[w] # queue[i]
    /\ \A v, w \in Workers : wreq[v] = wreq[w] /\ wreq[v] # None => v = w

\* start() never creates a pool beside one that is still alive: stop() has joined every
\* worker before the controlling thread can start again.
OnePool ==
    /\ running => control = "idle"
    /\ ~running /\ control = "idle" => \A w \in Workers : wpc[w] = "exited"

\* The state of a request agrees with the thread that has it: two clients never share a
\* request, one being pushed is nowhere else, a queued one has not begun, a running one is
\* PROCESSING or CANCELLED, and whoever moves a request to completed_requests_ has it settled.
StagesAgree ==
    /\ \A c, d \in Clients : creq[c] = creq[d] /\ creq[c] # None => c = d
    /\ \A c \in Clients :
         /\ cpc[c] = "checked" => state[creq[c]] = "UNSUBMITTED"
         /\ cpc[c] = "created" =>
              /\ state[creq[c]] = "PENDING"
              /\ creq[c] \notin active
              /\ \A i \in DOMAIN queue : queue[i] # creq[c]
              /\ \A w \in Workers : wreq[w] # creq[c]
         /\ cpc[c] = "queued" => state[creq[c]] # "UNSUBMITTED"
    /\ \A i \in DOMAIN queue : state[queue[i]] \in {"PENDING", "CANCELLED"}
    /\ \A w \in Workers :
         /\ wpc[w] = "begin" => state[wreq[w]] \in {"PENDING", "CANCELLED"}
         /\ wpc[w] = "run" => state[wreq[w]] \in {"PROCESSING", "CANCELLED"}
         /\ wpc[w] \in {"drain", "move"} => state[wreq[w]] \in Terminal
    /\ \A r \in active : state[r] # "UNSUBMITTED"
    /\ \A r \in cancelling : state[r] = "CANCELLED"

\* A request whose submission returned and that is not settled is in active_requests_:
\* it can be looked up, listed and cancelled.
LiveIsListed ==
    \A r \in Requests : state[r] \in Live /\ (\A c \in Clients : creq[c] # r) => r \in active

\* The limit is tested under one lock and the push made under another, so the queue can
\* exceed it, but only by the other clients that passed the test meanwhile.
QueueOvershoot == queue = <<>> \/ Len(queue) < MaxQueueSize + Cardinality(Clients)

\* The outcome counters count each settled request once, and cancelled ones not at all.
OutcomesCounted ==
    LET Settled(o) == Cardinality({r \in Requests : state[r] = o}) % StatModulus
    IN  /\ stats.completed = Settled("COMPLETED")
        /\ stats.failed = Settled("FAILED")
        /\ stats.timeout = Settled("TIMEOUT")

\* active_requests wraps below zero when a worker finishes before the client counted, but
\* once no call and no worker is busy it is the number of requests still queued.
ActiveStatWhenQuiet ==
    (/\ \A c \in Clients : cpc[c] \in {"idle", "checked", "created"}
     /\ \A w \in Workers : wreq[w] = None)
    => stats.active = Len(queue) % StatModulus

\* The requests whose function was launched: pushed, taken, and past the start of
\* process_request.
Launched ==
    {r \in Requests :
       /\ state[r] # "UNSUBMITTED"
       /\ \A i \in DOMAIN queue : queue[i] # r
       /\ \A c \in Clients : ~(cpc[c] = "created" /\ creq[c] = r)
       /\ \A w \in Workers : ~(wpc[w] = "begin" /\ wreq[w] = r)}

\* The request whose function each worker is waiting for, in time or not.
Executing == [w \in Workers |-> IF wpc[w] \in {"run", "drain"} THEN wreq[w] ELSE None]

\* Seen without queue, threads and locks, a request lives as RequestLifecycle says: it is
\* launched once, by a worker that then stays occupied until the function has ended.
Lifecycle == INSTANCE RequestLifecycle WITH
    Slots <- Workers, outcome <- state, launched <- Launched, executing <- Executing

ImplementsLifecycle == Lifecycle!Spec

\* Unless the pool is stopped, every request that exists is settled at last: no wakeup is
\* lost between a push, the notification and a worker going to sleep.
AcceptedIsSettled ==
    \A r \in Requests : state[r] = "PENDING" ~> (state[r] \in Terminal \/ ~running)

\* stop() "Notify all workers to wake up and exit" (workflow_manager.cpp:44), then joins
\* them: it returns.
StopReturns == (control = "notifying") ~> (control = "idle")
=============================================================================
