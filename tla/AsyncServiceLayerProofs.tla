----------------------- MODULE AsyncServiceLayerProofs -----------------------
(***************************************************************************)
(* Theorems about AsyncServiceLayer for any operations, workers and         *)
(* subscribers and any limits.  The inductive invariant IInv follows an     *)
(* operation from its listing to its end: who has it, what its future       *)
(* holds, and what a cancellation that came early still forbids.            *)
(***************************************************************************)
EXTENDS AsyncServiceLayer, TLAPS

\* Outside stop(), a pool that does not run has no workers, and who tells an event
\* is a thread that stands where one is told.
PoolAgrees ==
    /\ ~running /\ control # "joining" => \A w \in Workers : wpc[w] = "exited"
    /\ telling.by = None => telling.left = {}
    /\ \A w \in Workers : telling.by = w => wpc[w] \in {"tell started", "tell ended"}

\* A worker has an operation of its own, which has left the queue.
OneOwner ==
    /\ \A w, v \in Workers : wop[w] = wop[v] /\ wop[w] # None => w = v
    /\ \A w \in Workers : wop[w] # None => wop[w] \notin queue /\ spc[wop[w]] \in {"pushed", "done"}
    /\ \A o \in queue : spc[o] \in {"pushed", "done"}
    /\ \A o \in operations : spc[o] # "idle"

\* Until it is executed an operation has not run and is at most PENDING, and until it is settled its
\* future is pending.
Untouched(o) == runs[o] = 0 /\ future[o] = "pending"
RanAtMostOnce ==
    \A o \in Operations : runs[o] \in {0, 1} /\ (status[o] = "PENDING" => runs[o] = 0)
WaitingUntouched ==
    \A o \in Operations : spc[o] \in {"idle", "listed"} \/ o \in queue => Untouched(o)
HeldUntouched(w) ==
    /\ wpc[w] \in {"taken", "passed", "tell started", "run"} => Untouched(wop[w])
    /\ wpc[w] \in {"returned", "threw"} => future[wop[w]] = "pending"
TakenUntouched == \A w \in Workers : HeldUntouched(w)
FreshUntilRun == RanAtMostOnce /\ WaitingUntouched /\ TakenUntouched

\* An operation that was cancelled before a worker took it stays cancelled until it
\* is refused or dropped.
EarlyNeverRan == \A o \in early : runs[o] = 0 /\ spc[o] # "idle"
EarlyWaits == \A o \in early : spc[o] = "listed" \/ o \in queue => status[o] = "CANCELLED"
EarlyTaken == \A w \in Workers : wop[w] \in early => wpc[w] = "taken" /\ status[wop[w]] = "CANCELLED"
EarlyStaysCancelled == EarlyNeverRan /\ EarlyWaits /\ EarlyTaken

IInv == TypeOK /\ PoolAgrees /\ OneOwner /\ FreshUntilRun /\ EarlyStaysCancelled

\* When an event has been told, its worker goes on to execute or to wait; no other moves.
LEMMA TellEndsMoves ==
    ASSUME TypeOK, TellEnds
    PROVE  /\ UNCHANGED <<status, future, spc, runs, early, queue, operations>>
           /\ \A w \in Workers :
                 \/ wpc'[w] = wpc[w] /\ wop'[w] = wop[w]
                 \/ wpc[w] = "tell started" /\ wpc'[w] = "run" /\ wop'[w] = wop[w]
                 \/ wpc'[w] = "wait" /\ wop'[w] = None
<1>1. UNCHANGED <<status, future, spc, runs, early, queue, operations>>
  BY DEF TellEnds, submitVars, history
<1>2. DOMAIN wpc = Workers /\ DOMAIN wop = Workers
  BY DEF TypeOK
<1>3. CASE telling.by \in Workers
  <2>1. /\ wpc' = [wpc EXCEPT ![telling.by] = IF @ = "tell started" THEN "run" ELSE "wait"]
        /\ wop' = [wop EXCEPT ![telling.by] = IF wpc[telling.by] = "tell started" THEN @ ELSE None]
    BY <1>3 DEF TellEnds
  <2>2. ASSUME NEW w \in Workers, w # telling.by PROVE wpc'[w] = wpc[w] /\ wop'[w] = wop[w]
    BY <1>2, <2>1, <2>2
  <2>3. CASE wpc[telling.by] = "tell started"
    <3>1. wpc'[telling.by] = "run" /\ wop'[telling.by] = wop[telling.by]
      BY <1>2, <1>3, <2>1, <2>3
    <3>2. QED
      BY <1>1, <2>2, <2>3, <3>1
  <2>4. CASE wpc[telling.by] # "tell started"
    <3>1. wpc'[telling.by] = "wait" /\ wop'[telling.by] = None
      BY <1>2, <1>3, <2>1, <2>4
    <3>2. QED
      BY <1>1, <2>2, <3>1
  <2>5. QED
    BY <2>3, <2>4
<1>4. CASE telling.by \notin Workers
  BY <1>1, <1>4 DEF TellEnds, workerVars
<1>5. QED
  BY <1>3, <1>4

\* Every step leaves an operation to one worker or to the queue.
LEMMA OwnerStep ==
    ASSUME TypeOK, OneOwner, [Next]_vars PROVE OneOwner'
<1> USE DEF submitVars, workerVars, eventVars, poolVars, history
<1>0. /\ wop \in [Workers -> Operations \cup {None}] /\ None \notin Operations
      /\ spc \in [Operations -> {"idle", "listed", "pushed", "done"}]
      /\ operations \subseteq Operations /\ queue \subseteq Operations
  BY ConstantsAssumption DEF TypeOK
<1>1. ASSUME NEW o \in Operations, SubmitList(o) PROVE OneOwner'
  BY <1>0, <1>1 DEF SubmitList, OneOwner
<1>2. ASSUME NEW o \in Operations, SubmitRefuse(o) PROVE OneOwner'
  BY <1>0, <1>2 DEF SubmitRefuse, OneOwner
<1>3. ASSUME NEW o \in Operations, SubmitPush(o) PROVE OneOwner'
  BY <1>0, <1>3 DEF SubmitPush, OneOwner
<1>4. ASSUME NEW o \in Operations, SubmitNotify(o) PROVE OneOwner'
  BY <1>0, <1>4 DEF SubmitNotify, OneOwner
<1>5. ASSUME NEW o \in Operations, Cancel(o) PROVE OneOwner'
  BY <1>0, <1>5 DEF Cancel, OneOwner
<1>6. ASSUME NEW w \in Workers, WorkerExit(w) PROVE OneOwner'
  BY <1>0, <1>6 DEF WorkerExit, OneOwner
<1>7. ASSUME NEW w \in Workers, WorkerBlock(w) PROVE OneOwner'
  BY <1>0, <1>7 DEF WorkerBlock, OneOwner
<1>8. ASSUME NEW w \in Workers, WorkerSleep(w) PROVE OneOwner'
  BY <1>0, <1>8 DEF WorkerSleep, OneOwner
<1>9. ASSUME NEW w \in Workers, WorkerTake(w) PROVE OneOwner'
  <2>1. PICK o \in queue : queue' = queue \ {o} /\ wop' = [wop EXCEPT ![w] = o]
    BY <1>9 DEF WorkerTake
  <2>2. \A v \in Workers : v # w => wop[v] # o
    BY <1>0, <2>1 DEF OneOwner
  <2>3. wop'[w] = o /\ \A v \in Workers : v # w => wop'[v] = wop[v]
    BY <1>0, <2>1
  <2>4. QED
    BY <1>0, <1>9, <2>1, <2>2, <2>3 DEF WorkerTake, OneOwner
<1>10. ASSUME NEW w \in Workers, WorkerDrop(w) PROVE OneOwner'
  BY <1>0, <1>10 DEF WorkerDrop, OneOwner
<1>11. ASSUME NEW w \in Workers, WorkerPass(w) PROVE OneOwner'
  BY <1>0, <1>11 DEF WorkerPass, OneOwner
<1>12. ASSUME NEW w \in Workers, WorkerBegin(w) PROVE OneOwner'
  BY <1>0, <1>12 DEF WorkerBegin, OneOwner
<1>13. ASSUME NEW w \in Workers, WorkerRun(w) PROVE OneOwner'
  BY <1>0, <1>13 DEF WorkerRun, OneOwner
<1>14. ASSUME NEW w \in Workers, WorkerSettle(w) PROVE OneOwner'
  BY <1>0, <1>14 DEF WorkerSettle, OneOwner
<1>15. ASSUME NEW t \in Workers \cup Operations, TellBegins(t) PROVE OneOwner'
  BY <1>0, <1>15 DEF TellBegins, OneOwner
<1>16. ASSUME NEW s \in Subscribers, Deliver(s) PROVE OneOwner'
  BY <1>0, <1>16 DEF Deliver, OneOwner
<1>17. ASSUME TellEnds PROVE OneOwner'
  <2>1. /\ UNCHANGED <<spc, queue, operations>>
        /\ \A w \in Workers : wop'[w] = wop[w] \/ wop'[w] = None
    BY <1>17, TellEndsMoves
  <2>2. \A w, v \in Workers : wop'[w] = wop'[v] /\ wop'[w] # None => w = v
    BY <2>1 DEF OneOwner
  <2>3. \A w \in Workers : wop'[w] # None => wop'[w] \notin queue /\ spc[wop'[w]] \in {"pushed", "done"}
    BY <2>1 DEF OneOwner
  <2>4. QED
    BY <2>1, <2>2, <2>3 DEF OneOwner
<1>18. ASSUME NEW s \in Subscribers, Subscribe(s) PROVE OneOwner'
  BY <1>0, <1>18 DEF Subscribe, OneOwner
<1>19. ASSUME NEW s \in Subscribers, Unsubscribe(s) PROVE OneOwner'
  BY <1>0, <1>19 DEF Unsubscribe, OneOwner
<1>20. ASSUME Cleanup PROVE OneOwner'
  BY <1>0, <1>20 DEF Cleanup, OneOwner
<1>21. ASSUME Start PROVE OneOwner'
  BY <1>0, <1>21 DEF Start, OneOwner
<1>22. ASSUME StopSignal PROVE OneOwner'
  BY <1>0, <1>22 DEF StopSignal, OneOwner
<1>23. ASSUME StopReturn PROVE OneOwner'
  BY <1>0, <1>23 DEF StopReturn, OneOwner
<1>24. ASSUME Destroy PROVE OneOwner'
  BY <1>0, <1>24 DEF Destroy, OneOwner
<1>25. ASSUME UNCHANGED vars PROVE OneOwner'
  BY <1>25 DEF OneOwner, vars
<1>26. QED
  BY <1>1, <1>2, <1>3, <1>4, <1>5, <1>6, <1>7, <1>8, <1>9, <1>10, <1>11, <1>12, <1>13, <1>14, <1>15,
     <1>16, <1>17, <1>18, <1>19, <1>20, <1>21, <1>22, <1>23, <1>24, <1>25 DEF Next, SubmitStep,
     WorkerStep, Tell, Client

\* Every step keeps the types: the worker that ends an event goes on with its operation or
\* without one, and start() finds no worker that has one.
LEMMA TypeStep ==
    ASSUME TypeOK, PoolAgrees, [Next]_vars PROVE TypeOK'
<1> USE DEF submitVars, workerVars, eventVars, poolVars, history
<1>1. ASSUME NEW o \in Operations, SubmitList(o) PROVE TypeOK'
  BY <1>1 DEF SubmitList, TypeOK, Statuses, Ended
<1>2. ASSUME NEW o \in Operations, SubmitRefuse(o) PROVE TypeOK'
  BY <1>2 DEF SubmitRefuse, TypeOK, Statuses, Ended
<1>3. ASSUME NEW o \in Operations, SubmitPush(o) PROVE TypeOK'
  BY <1>3 DEF SubmitPush, TypeOK
<1>4. ASSUME NEW o \in Operations, SubmitNotify(o) PROVE TypeOK'
  BY <1>4 DEF SubmitNotify, TypeOK
<1>5. ASSUME NEW o \in Operations, Cancel(o) PROVE TypeOK'
  BY <1>5 DEF Cancel, TypeOK, Statuses, Ended
<1>6. ASSUME NEW w \in Workers, WorkerExit(w) PROVE TypeOK'
  BY <1>6 DEF WorkerExit, TypeOK
<1>7. ASSUME NEW w \in Workers, WorkerBlock(w) PROVE TypeOK'
  BY <1>7 DEF WorkerBlock, TypeOK
<1>8. ASSUME NEW w \in Workers, WorkerSleep(w) PROVE TypeOK'
  BY <1>8 DEF WorkerSleep, TypeOK
<1>9. ASSUME NEW w \in Workers, WorkerTake(w) PROVE TypeOK'
  <2>1. PICK o \in queue : queue' = queue \ {o} /\ wop' = [wop EXCEPT ![w] = o]
    BY <1>9 DEF WorkerTake
  <2>0. queue \subseteq Operations
    BY DEF TypeOK
  <2>2. o \in Operations /\ o # None
    BY <2>0, ConstantsAssumption
  <2>3. QED
    BY <1>9, <2>1, <2>2 DEF WorkerTake, TypeOK
<1>10. ASSUME NEW w \in Workers, WorkerDrop(w) PROVE TypeOK'
  BY <1>10 DEF WorkerDrop, TypeOK
<1>11. ASSUME NEW w \in Workers, WorkerPass(w) PROVE TypeOK'
  BY <1>11 DEF WorkerPass, TypeOK
<1>12. ASSUME NEW w \in Workers, WorkerBegin(w) PROVE TypeOK'
  BY <1>12 DEF WorkerBegin, TypeOK, Statuses, Ended
<1>13. ASSUME NEW w \in Workers, WorkerRun(w) PROVE TypeOK'
  <2>a. wpc[w] = "run" /\ wop \in [Workers -> Operations \cup {None}] /\ runs \in [Operations -> Nat]
    BY <1>13 DEF WorkerRun, TypeOK
  <2>b. wop[w] # None
    BY <2>a DEF TypeOK
  <2>1. wop[w] \in Operations /\ runs[wop[w]] + 1 \in Nat
    BY <2>a, <2>b
  <2>2. PICK end \in Outcomes(wop[w]) :
            /\ status' = [status EXCEPT ![wop[w]] = IF end = "threw" THEN "FAILED" ELSE "COMPLETED"]
            /\ wpc' = [wpc EXCEPT ![w] = end]
    BY <1>13 DEF WorkerRun
  <2>3. end \in {"returned", "threw"}
    BY DEF Outcomes
  <2>4. runs' \in [Operations -> Nat]
    BY <1>13, <2>1 DEF WorkerRun, TypeOK
  <2>5. QED
    BY <1>13, <2>1, <2>2, <2>3, <2>4 DEF WorkerRun, TypeOK, Statuses, Ended
<1>14. ASSUME NEW w \in Workers, WorkerSettle(w) PROVE TypeOK'
  BY <1>14 DEF WorkerSettle, TypeOK
<1>15. ASSUME NEW t \in Workers \cup Operations, TellBegins(t) PROVE TypeOK'
  BY <1>15 DEF TellBegins, TypeOK, Nobody, WantsToTell
<1>16. ASSUME NEW s \in Subscribers, Deliver(s) PROVE TypeOK'
  BY <1>16 DEF Deliver, TypeOK
<1>17. ASSUME TellEnds PROVE TypeOK'
  <2>1. CASE telling.by \in Workers
    <3>1. PICK w \in Workers : w = telling.by
      BY <2>1
    <3>2. wpc[w] \in {"tell started", "tell ended"} /\ wop[w] # None
      BY <3>1 DEF TypeOK, PoolAgrees
    <3>3. /\ wpc' = [wpc EXCEPT ![w] = IF @ = "tell started" THEN "run" ELSE "wait"]
          /\ wop' = [wop EXCEPT ![w] = IF wpc[w] = "tell started" THEN @ ELSE None]
          /\ UNCHANGED cancelling
      BY <1>17, <3>1 DEF TellEnds
    <3>4. QED
      BY <1>17, <3>2, <3>3 DEF TellEnds, TypeOK, Nobody
  <2>2. CASE telling.by \notin Workers
    BY <1>17, <2>2 DEF TellEnds, TypeOK, Nobody
  <2>3. QED
    BY <2>1, <2>2
<1>18. ASSUME NEW s \in Subscribers, Subscribe(s) PROVE TypeOK'
  BY <1>18 DEF Subscribe, TypeOK, Nobody
<1>19. ASSUME NEW s \in Subscribers, Unsubscribe(s) PROVE TypeOK'
  BY <1>19 DEF Unsubscribe, TypeOK, Nobody
<1>20. ASSUME Cleanup PROVE TypeOK'
  BY <1>20 DEF Cleanup, TypeOK
<1>21. ASSUME Start PROVE TypeOK'
  <2>a. starts \in 0..MaxStarts /\ starts < MaxStarts /\ MaxStarts \in Nat
    BY <1>21, ConstantsAssumption DEF Start, TypeOK
  <2>1. starts + 1 \in 0..MaxStarts
    BY <2>a
  <2>2. \A w \in Workers : wop[w] = None
    BY <1>21 DEF Start, TypeOK, PoolAgrees
  <2>3. wpc' = [w \in Workers |-> "wait"] /\ starts' = starts + 1
    BY <1>21 DEF Start
  <2>4. QED
    BY <1>21, <2>1, <2>2, <2>3 DEF Start, TypeOK
<1>22. ASSUME StopSignal PROVE TypeOK'
  BY <1>22 DEF StopSignal, TypeOK
<1>23. ASSUME StopReturn PROVE TypeOK'
  BY <1>23 DEF StopReturn, TypeOK
<1>24. ASSUME Destroy PROVE TypeOK'
  BY <1>24 DEF Destroy, TypeOK
<1>25. ASSUME UNCHANGED vars PROVE TypeOK'
  BY <1>25 DEF TypeOK, vars
<1>26. QED
  BY <1>1, <1>2, <1>3, <1>4, <1>5, <1>6, <1>7, <1>8, <1>9, <1>10, <1>11, <1>12, <1>13, <1>14, <1>15,
     <1>16, <1>17, <1>18, <1>19, <1>20, <1>21, <1>22, <1>23, <1>24, <1>25 DEF Next, SubmitStep,
     WorkerStep, Tell, Client

\* Every step keeps pool and tellers in agreement.
LEMMA PoolStep ==
    ASSUME TypeOK, PoolAgrees, [Next]_vars PROVE PoolAgrees'
<1> USE DEF submitVars, workerVars, eventVars, poolVars, history
<1>0. /\ telling \in [by : Workers \cup Operations \cup {None}, left : SUBSET Subscribers]
      /\ None \notin Workers /\ None \notin Operations /\ Operations \cap Workers = {} /\ DOMAIN wpc = Workers
      /\ (running => control = "idle")
  BY ConstantsAssumption DEF TypeOK
<1>1. ASSUME NEW o \in Operations, SubmitList(o) PROVE PoolAgrees'
  BY <1>0, <1>1 DEF SubmitList, PoolAgrees
<1>2. ASSUME NEW o \in Operations, SubmitRefuse(o) PROVE PoolAgrees'
  BY <1>0, <1>2 DEF SubmitRefuse, PoolAgrees
<1>3. ASSUME NEW o \in Operations, SubmitPush(o) PROVE PoolAgrees'
  BY <1>0, <1>3 DEF SubmitPush, PoolAgrees
<1>4. ASSUME NEW o \in Operations, SubmitNotify(o) PROVE PoolAgrees'
  BY <1>0, <1>4 DEF SubmitNotify, PoolAgrees
<1>5. ASSUME NEW o \in Operations, Cancel(o) PROVE PoolAgrees'
  BY <1>0, <1>5 DEF Cancel, PoolAgrees
<1>6. ASSUME NEW w \in Workers, WorkerExit(w) PROVE PoolAgrees'
  BY <1>0, <1>6 DEF WorkerExit, PoolAgrees
<1>7. ASSUME NEW w \in Workers, WorkerBlock(w) PROVE PoolAgrees'
  BY <1>0, <1>7 DEF WorkerBlock, PoolAgrees
<1>8. ASSUME NEW w \in Workers, WorkerSleep(w) PROVE PoolAgrees'
  BY <1>0, <1>8 DEF WorkerSleep, PoolAgrees
<1>9. ASSUME NEW w \in Workers, WorkerTake(w) PROVE PoolAgrees'
  BY <1>0, <1>9 DEF WorkerTake, PoolAgrees
<1>10. ASSUME NEW w \in Workers, WorkerDrop(w) PROVE PoolAgrees'
  BY <1>0, <1>10 DEF WorkerDrop, PoolAgrees
<1>11. ASSUME NEW w \in Workers, WorkerPass(w) PROVE PoolAgrees'
  BY <1>0, <1>11 DEF WorkerPass, PoolAgrees
<1>12. ASSUME NEW w \in Workers, WorkerBegin(w) PROVE PoolAgrees'
  BY <1>0, <1>12 DEF WorkerBegin, PoolAgrees
<1>13. ASSUME NEW w \in Workers, WorkerRun(w) PROVE PoolAgrees'
  BY <1>0, <1>13 DEF WorkerRun, PoolAgrees
<1>14. ASSUME NEW w \in Workers, WorkerSettle(w) PROVE PoolAgrees'
  BY <1>0, <1>14 DEF WorkerSettle, PoolAgrees
<1>15. ASSUME NEW t \in Workers \cup Operations, TellBegins(t) PROVE PoolAgrees'
  <2>1. telling' = [by |-> t, left |-> subscribers] /\ UNCHANGED <<running, control, wpc>>
    BY <1>15 DEF TellBegins
  <2>2. t # None /\ \A w \in Workers : w = t => wpc[w] \in {"tell started", "tell ended"}
    BY <1>0, <1>15 DEF TellBegins, WantsToTell
  <2>3. QED
    BY <2>1, <2>2 DEF PoolAgrees
<1>16. ASSUME NEW s \in Subscribers, Deliver(s) PROVE PoolAgrees'
  BY <1>0, <1>16 DEF Deliver, PoolAgrees
<1>17. ASSUME TellEnds PROVE PoolAgrees'
  <2>1. telling' = [by |-> None, left |-> {}] /\ UNCHANGED <<running, control>>
    BY <1>17 DEF TellEnds, Nobody
  <2>2. UNCHANGED wpc \/ telling.by \in Workers
    BY <1>17 DEF TellEnds
  <2>3. ~running /\ control # "joining" => telling.by \notin Workers
    BY DEF PoolAgrees
  <2>4. QED
    BY <1>0, <2>1, <2>2, <2>3 DEF PoolAgrees
<1>18. ASSUME NEW s \in Subscribers, Subscribe(s) PROVE PoolAgrees'
  BY <1>0, <1>18 DEF Subscribe, PoolAgrees, Nobody
<1>19. ASSUME NEW s \in Subscribers, Unsubscribe(s) PROVE PoolAgrees'
  BY <1>0, <1>19 DEF Unsubscribe, PoolAgrees, Nobody
<1>20. ASSUME Cleanup PROVE PoolAgrees'
  BY <1>0, <1>20 DEF Cleanup, PoolAgrees
<1>21. ASSUME Start PROVE PoolAgrees'
  BY <1>0, <1>21 DEF Start, PoolAgrees
<1>22. ASSUME StopSignal PROVE PoolAgrees'
  BY <1>0, <1>22 DEF StopSignal, PoolAgrees
<1>23. ASSUME StopReturn PROVE PoolAgrees'
  BY <1>0, <1>23 DEF StopReturn, PoolAgrees
<1>24. ASSUME Destroy PROVE PoolAgrees'
  BY <1>0, <1>24 DEF Destroy, PoolAgrees
<1>25. ASSUME UNCHANGED vars PROVE PoolAgrees'
  BY <1>25 DEF PoolAgrees, vars
<1>26. QED
  BY <1>1, <1>2, <1>3, <1>4, <1>5, <1>6, <1>7, <1>8, <1>9, <1>10, <1>11, <1>12, <1>13, <1>14, <1>15,
     <1>16, <1>17, <1>18, <1>19, <1>20, <1>21, <1>22, <1>23, <1>24, <1>25 DEF Next, SubmitStep,
     WorkerStep, Tell, Client

\* Every step keeps what is not yet executed untouched.
LEMMA FreshStep ==
    ASSUME TypeOK, PoolAgrees, OneOwner, FreshUntilRun, [Next]_vars PROVE FreshUntilRun'
<1> USE DEF submitVars, workerVars, eventVars, poolVars, history
<1>0. /\ wop \in [Workers -> Operations \cup {None}] /\ None \notin Operations
      /\ \A w \in Workers : (wop[w] = None) <=> wpc[w] \in {"exited", "wait", "blocking", "asleep"}
      /\ DOMAIN wpc = Workers /\ DOMAIN spc = Operations /\ DOMAIN status = Operations
      /\ DOMAIN future = Operations /\ runs \in [Operations -> Nat] /\ queue \subseteq Operations
      /\ operations \subseteq Operations /\ early \subseteq Operations
  BY ConstantsAssumption DEF TypeOK
<1>1. ASSUME NEW o \in Operations, SubmitList(o) PROVE FreshUntilRun'
  <2>1. o \notin queue /\ \A v \in Workers : wop[v] # o
    BY <1>0, <1>1 DEF SubmitList, OneOwner
  <2>2. /\ spc[o] = "idle" /\ spc'[o] = "listed" /\ status'[o] = "PENDING"
        /\ \A p \in Operations : p # o => spc'[p] = spc[p]
        /\ \A p \in Operations : p # o => status'[p] = status[p]
        /\ UNCHANGED <<future, runs, early, queue, wpc, wop>>
    BY <1>0, <1>1 DEF SubmitList
  <2>3. RanAtMostOnce'
    <3>1. runs[o] = 0
      BY <2>1, <2>2 DEF FreshUntilRun, WaitingUntouched, Untouched
    <3>2. QED
      BY <1>0, <2>1, <2>2, <3>1 DEF FreshUntilRun, RanAtMostOnce
  <2>4. WaitingUntouched'
    BY <1>0, <2>1, <2>2 DEF FreshUntilRun, WaitingUntouched, Untouched
  <2>5. ASSUME NEW v \in Workers PROVE HeldUntouched(v)'
    <3>1. wpc[v] \notin {"exited", "wait", "blocking", "asleep"} => wop[v] \in Operations
      BY <1>0
    <3>2. HeldUntouched(v)
      BY DEF FreshUntilRun, TakenUntouched
    <3>3. QED
      BY <1>0, <2>1, <2>2, <3>1, <3>2 DEF FreshUntilRun, WaitingUntouched, HeldUntouched, Untouched
  <2>6. QED
    BY <2>3, <2>4, <2>5 DEF FreshUntilRun, TakenUntouched
<1>2. ASSUME NEW o \in Operations, SubmitRefuse(o) PROVE FreshUntilRun'
  <2>1. o \notin queue /\ \A v \in Workers : wop[v] # o
    BY <1>0, <1>2 DEF SubmitRefuse, OneOwner
  <2>2. /\ spc[o] = "listed" /\ spc'[o] = "done" /\ status'[o] = "FAILED"
        /\ \A p \in Operations : p # o => spc'[p] = spc[p]
        /\ \A p \in Operations : p # o => status'[p] = status[p]
        /\ \A p \in Operations : p # o => future'[p] = future[p]
        /\ UNCHANGED <<runs, early, queue, wpc, wop>>
    BY <1>0, <1>2 DEF SubmitRefuse
  <2>3. RanAtMostOnce'
    BY <1>0, <2>1, <2>2 DEF FreshUntilRun, RanAtMostOnce
  <2>4. WaitingUntouched'
    BY <1>0, <2>1, <2>2 DEF FreshUntilRun, WaitingUntouched, Untouched
  <2>5. ASSUME NEW v \in Workers PROVE HeldUntouched(v)'
    <3>1. wpc[v] \notin {"exited", "wait", "blocking", "asleep"} => wop[v] \in Operations
      BY <1>0
    <3>2. HeldUntouched(v)
      BY DEF FreshUntilRun, TakenUntouched
    <3>3. QED
      BY <1>0, <2>1, <2>2, <3>1, <3>2 DEF FreshUntilRun, WaitingUntouched, HeldUntouched, Untouched
  <2>6. QED
    BY <2>3, <2>4, <2>5 DEF FreshUntilRun, TakenUntouched
<1>3. ASSUME NEW o \in Operations, SubmitPush(o) PROVE FreshUntilRun'
  <2>1. o \notin queue /\ \A v \in Workers : wop[v] # o
    BY <1>0, <1>3 DEF SubmitPush, OneOwner
  <2>2. /\ spc[o] = "listed" /\ spc'[o] = "pushed" /\ queue' = queue \cup {o}
        /\ \A p \in Operations : p # o => spc'[p] = spc[p]
        /\ UNCHANGED <<status, future, runs, early, wpc, wop>>
    BY <1>0, <1>3 DEF SubmitPush
  <2>3. RanAtMostOnce'
    BY <1>0, <2>1, <2>2 DEF FreshUntilRun, RanAtMostOnce
  <2>4. WaitingUntouched'
    BY <1>0, <2>1, <2>2 DEF FreshUntilRun, WaitingUntouched, Untouched
  <2>5. ASSUME NEW v \in Workers PROVE HeldUntouched(v)'
    <3>1. wpc[v] \notin {"exited", "wait", "blocking", "asleep"} => wop[v] \in Operations
      BY <1>0
    <3>2. HeldUntouched(v)
      BY DEF FreshUntilRun, TakenUntouched
    <3>3. QED
      BY <1>0, <2>1, <2>2, <3>1, <3>2 DEF FreshUntilRun, WaitingUntouched, HeldUntouched, Untouched
  <2>6. QED
    BY <2>3, <2>4, <2>5 DEF FreshUntilRun, TakenUntouched
<1>4. ASSUME NEW o \in Operations, SubmitNotify(o) PROVE FreshUntilRun'
  <2>1. /\ spc[o] = "pushed" /\ spc'[o] = "done" /\ UNCHANGED <<status, future, runs, early, queue, wop>>
        /\ \A p \in Operations : p # o => spc'[p] = spc[p]
        /\ \A v \in Workers : wpc'[v] = wpc[v] \/ (wpc[v] = "asleep" /\ wpc'[v] = "wait")
    BY <1>0, <1>4 DEF SubmitNotify
  <2>2. RanAtMostOnce'
    BY <1>0, <2>1 DEF FreshUntilRun, RanAtMostOnce
  <2>3. WaitingUntouched'
    BY <1>0, <2>1 DEF FreshUntilRun, WaitingUntouched, Untouched
  <2>4. ASSUME NEW v \in Workers PROVE HeldUntouched(v)'
    <3>1. wpc[v] \notin {"exited", "wait", "blocking", "asleep"} => wop[v] \in Operations
      BY <1>0
    <3>2. HeldUntouched(v)
      BY DEF FreshUntilRun, TakenUntouched
    <3>3. QED
      BY <1>0, <2>1, <3>1, <3>2 DEF FreshUntilRun, WaitingUntouched, HeldUntouched, Untouched
  <2>5. QED
    BY <2>2, <2>3, <2>4 DEF FreshUntilRun, TakenUntouched
<1>5. ASSUME NEW o \in Operations, Cancel(o) PROVE FreshUntilRun'
  BY <1>0, <1>5 DEF Cancel, FreshUntilRun, RanAtMostOnce, WaitingUntouched, TakenUntouched,
     HeldUntouched, Untouched
<1>6. ASSUME NEW w \in Workers, WorkerExit(w) PROVE FreshUntilRun'
  BY <1>0, <1>6 DEF WorkerExit, FreshUntilRun, RanAtMostOnce, WaitingUntouched, TakenUntouched,
     HeldUntouched, Untouched
<1>7. ASSUME NEW w \in Workers, WorkerBlock(w) PROVE FreshUntilRun'
  BY <1>0, <1>7 DEF WorkerBlock, FreshUntilRun, RanAtMostOnce, WaitingUntouched, TakenUntouched,
     HeldUntouched, Untouched
<1>8. ASSUME NEW w \in Workers, WorkerSleep(w) PROVE FreshUntilRun'
  BY <1>0, <1>8 DEF WorkerSleep, FreshUntilRun, RanAtMostOnce, WaitingUntouched, TakenUntouched,
     HeldUntouched, Untouched
<1>9. ASSUME NEW w \in Workers, WorkerTake(w) PROVE FreshUntilRun'
  <2>1. PICK o \in queue : queue' = queue \ {o} /\ wop' = [wop EXCEPT ![w] = o]
    BY <1>9 DEF WorkerTake
  <2>2. o \in Operations /\ \A v \in Workers : v # w => wop[v] # o
    BY <1>0, <2>1 DEF OneOwner
  <2>3. /\ wop'[w] = o /\ wpc'[w] = "taken" /\ \A v \in Workers : v # w => wop'[v] = wop[v] /\ wpc'[v] = wpc[v]
        /\ UNCHANGED <<status, future, spc, runs, early>>
    BY <1>0, <1>9, <2>1 DEF WorkerTake
  <2>4. RanAtMostOnce'
    BY <1>0, <2>1, <2>2, <2>3 DEF FreshUntilRun, RanAtMostOnce
  <2>5. WaitingUntouched'
    BY <1>0, <2>1, <2>2, <2>3 DEF FreshUntilRun, WaitingUntouched, Untouched
  <2>6. ASSUME NEW v \in Workers PROVE HeldUntouched(v)'
    <3>1. wpc[v] \notin {"exited", "wait", "blocking", "asleep"} => wop[v] \in Operations
      BY <1>0
    <3>2. HeldUntouched(v)
      BY DEF FreshUntilRun, TakenUntouched
    <3>3. QED
      BY <1>0, <2>1, <2>2, <2>3, <3>1, <3>2 DEF FreshUntilRun, WaitingUntouched, HeldUntouched, Untouched
  <2>7. QED
    BY <2>4, <2>5, <2>6 DEF FreshUntilRun, TakenUntouched
<1>10. ASSUME NEW w \in Workers, WorkerDrop(w) PROVE FreshUntilRun'
  <2>1. PICK o \in Operations : o = wop[w]
    BY <1>0, <1>10 DEF WorkerDrop
  <2>2. o \notin queue /\ spc[o] \in {"pushed", "done"} /\ \A v \in Workers : v # w => wop[v] # o
    BY <1>0, <2>1 DEF OneOwner
  <2>3. /\ \A v \in Workers : v # w => wpc'[v] = wpc[v] /\ wop'[v] = wop[v]
        /\ wpc'[w] = "wait" /\ wop'[w] = None /\ UNCHANGED <<status, spc, runs, early, queue, operations>>
        /\ \A p \in Operations : p # o => future'[p] = future[p]
    BY <1>0, <1>10, <2>1 DEF WorkerDrop
  <2>4. RanAtMostOnce'
    BY <1>0, <2>1, <2>2, <2>3 DEF FreshUntilRun, RanAtMostOnce
  <2>5. WaitingUntouched'
    BY <1>0, <2>1, <2>2, <2>3 DEF FreshUntilRun, WaitingUntouched, Untouched
  <2>6. ASSUME NEW v \in Workers PROVE HeldUntouched(v)'
    <3>1. wpc[v] \notin {"exited", "wait", "blocking", "asleep"} => wop[v] \in Operations
      BY <1>0
    <3>2. HeldUntouched(v)
      BY DEF FreshUntilRun, TakenUntouched
    <3>3. QED
      <4>1. CASE v = w
        BY <2>3, <4>1 DEF HeldUntouched
      <4>2. CASE v # w
        BY <1>0, <2>2, <2>3, <3>1, <3>2, <4>2 DEF HeldUntouched, Untouched
      <4>3. QED
        BY <4>1, <4>2
  <2>7. QED
    BY <2>4, <2>5, <2>6 DEF FreshUntilRun, TakenUntouched
<1>11. ASSUME NEW w \in Workers, WorkerPass(w) PROVE FreshUntilRun'
  <2>1. PICK o \in Operations : o = wop[w]
    BY <1>0, <1>11 DEF WorkerPass
  <2>2. o \notin queue /\ spc[o] \in {"pushed", "done"} /\ \A v \in Workers : v # w => wop[v] # o
    BY <1>0, <2>1 DEF OneOwner
  <2>3. /\ \A v \in Workers : v # w => wpc'[v] = wpc[v] /\ wop'[v] = wop[v]
        /\ wpc[w] = "taken" /\ wpc'[w] = "passed" /\ status[o] # "CANCELLED"
        /\ UNCHANGED <<status, spc, runs, early, queue, operations, wop, future>>
    BY <1>0, <1>11, <2>1 DEF WorkerPass
  <2>4. RanAtMostOnce'
    BY <1>0, <2>1, <2>2, <2>3 DEF FreshUntilRun, RanAtMostOnce
  <2>5. WaitingUntouched'
    BY <1>0, <2>1, <2>2, <2>3 DEF FreshUntilRun, WaitingUntouched, Untouched
  <2>6. ASSUME NEW v \in Workers PROVE HeldUntouched(v)'
    <3>1. wpc[v] \notin {"exited", "wait", "blocking", "asleep"} => wop[v] \in Operations
      BY <1>0
    <3>2. HeldUntouched(v)
      BY DEF FreshUntilRun, TakenUntouched
    <3>3. QED
      BY <1>0, <2>1, <2>2, <2>3, <3>1, <3>2 DEF FreshUntilRun, WaitingUntouched, HeldUntouched, Untouched
  <2>7. QED
    BY <2>4, <2>5, <2>6 DEF FreshUntilRun, TakenUntouched
<1>12. ASSUME NEW w \in Workers, WorkerBegin(w) PROVE FreshUntilRun'
  <2>1. PICK o \in Operations : o = wop[w]
    BY <1>0, <1>12 DEF WorkerBegin
  <2>2. o \notin queue /\ spc[o] \in {"pushed", "done"} /\ \A v \in Workers : v # w => wop[v] # o
    BY <1>0, <2>1 DEF OneOwner
  <2>3. /\ \A v \in Workers : v # w => wpc'[v] = wpc[v] /\ wop'[v] = wop[v]
        /\ wpc[w] = "passed" /\ wpc'[w] = "tell started" /\ status'[o] = "RUNNING"
        /\ UNCHANGED <<spc, runs, early, queue, operations, wop, future>>
        /\ \A p \in Operations : p # o => status'[p] = status[p]
    BY <1>0, <1>12, <2>1 DEF WorkerBegin
  <2>4. RanAtMostOnce'
    <3>1. \A p \in Operations : runs[p] \in {0, 1} /\ (status[p] = "PENDING" => runs[p] = 0)
      BY DEF FreshUntilRun, RanAtMostOnce
    <3>2. \A p \in Operations : status'[p] = "PENDING" => status[p] = "PENDING"
      BY <2>3
    <3>3. QED
      BY <2>3, <3>1, <3>2 DEF RanAtMostOnce
  <2>5. WaitingUntouched'
    BY <1>0, <2>1, <2>2, <2>3 DEF FreshUntilRun, WaitingUntouched, Untouched
  <2>6. ASSUME NEW v \in Workers PROVE HeldUntouched(v)'
    <3>1. wpc[v] \notin {"exited", "wait", "blocking", "asleep"} => wop[v] \in Operations
      BY <1>0
    <3>2. HeldUntouched(v)
      BY DEF FreshUntilRun, TakenUntouched
    <3>3. QED
      BY <1>0, <2>1, <2>2, <2>3, <3>1, <3>2 DEF FreshUntilRun, WaitingUntouched, HeldUntouched, Untouched
  <2>7. QED
    BY <2>4, <2>5, <2>6 DEF FreshUntilRun, TakenUntouched
<1>13. ASSUME NEW w \in Workers, WorkerRun(w) PROVE FreshUntilRun'
  <2>1. PICK o \in Operations : o = wop[w]
    BY <1>0, <1>13 DEF WorkerRun
  <2>2. o \notin queue /\ spc[o] \in {"pushed", "done"} /\ \A v \in Workers : v # w => wop[v] # o
    BY <1>0, <2>1 DEF OneOwner
  <2>3. PICK end \in Outcomes(o) :
           /\ status' = [status EXCEPT ![o] = IF end = "threw" THEN "FAILED" ELSE "COMPLETED"]
           /\ wpc' = [wpc EXCEPT ![w] = end]
    BY <1>13, <2>1 DEF WorkerRun
  <2>4. end \in {"returned", "threw"}
    BY DEF Outcomes
  <2>5. /\ \A v \in Workers : v # w => wpc'[v] = wpc[v] /\ wop'[v] = wop[v]
        /\ wpc[w] = "run" /\ wpc'[w] \in {"returned", "threw"} /\ status'[o] \in {"COMPLETED", "FAILED"}
        /\ UNCHANGED <<spc, early, queue, operations, wop, future>> /\ runs'[o] = runs[o] + 1
        /\ \A p \in Operations : p # o => status'[p] = status[p]
        /\ \A p \in Operations : p # o => runs'[p] = runs[p]
    BY <1>0, <1>13, <2>1, <2>3, <2>4 DEF WorkerRun
  <2>6. RanAtMostOnce'
    <3>1. runs[o] = 0
      BY <2>1, <2>2, <2>3, <2>4, <2>5 DEF FreshUntilRun, TakenUntouched, HeldUntouched, Untouched
    <3>2. QED
      BY <1>0, <2>1, <2>2, <2>3, <2>4, <2>5, <3>1 DEF FreshUntilRun, RanAtMostOnce
  <2>7. WaitingUntouched'
    BY <1>0, <2>1, <2>2, <2>3, <2>4, <2>5 DEF FreshUntilRun, WaitingUntouched, Untouched
  <2>8. ASSUME NEW v \in Workers PROVE HeldUntouched(v)'
    <3>1. wpc[v] \notin {"exited", "wait", "blocking", "asleep"} => wop[v] \in Operations
      BY <1>0
    <3>2. HeldUntouched(v)
      BY DEF FreshUntilRun, TakenUntouched
    <3>3. QED
      BY <1>0, <2>1, <2>2, <2>3, <2>4, <2>5, <3>1, <3>2 DEF FreshUntilRun, WaitingUntouched,
         HeldUntouched, Untouched
  <2>9. QED
    BY <2>6, <2>7, <2>8 DEF FreshUntilRun, TakenUntouched
<1>14. ASSUME NEW w \in Workers, WorkerSettle(w) PROVE FreshUntilRun'
  <2>1. PICK o \in Operations : o = wop[w]
    BY <1>0, <1>14 DEF WorkerSettle
  <2>2. o \notin queue /\ spc[o] \in {"pushed", "done"} /\ \A v \in Workers : v # w => wop[v] # o
    BY <1>0, <2>1 DEF OneOwner
  <2>3. /\ \A v \in Workers : v # w => wpc'[v] = wpc[v] /\ wop'[v] = wop[v]
        /\ wpc[w] \in {"returned", "threw"} /\ wpc'[w] = "tell ended"
        /\ UNCHANGED <<status, spc, runs, early, queue, operations, wop>>
        /\ \A p \in Operations : p # o => future'[p] = future[p]
    BY <1>0, <1>14, <2>1 DEF WorkerSettle
  <2>4. RanAtMostOnce'
    BY <1>0, <2>1, <2>2, <2>3 DEF FreshUntilRun, RanAtMostOnce
  <2>5. WaitingUntouched'
    BY <1>0, <2>1, <2>2, <2>3 DEF FreshUntilRun, WaitingUntouched, Untouched
  <2>6. ASSUME NEW v \in Workers PROVE HeldUntouched(v)'
    <3>1. wpc[v] \notin {"exited", "wait", "blocking", "asleep"} => wop[v] \in Operations
      BY <1>0
    <3>2. HeldUntouched(v)
      BY DEF FreshUntilRun, TakenUntouched
    <3>3. QED
      BY <1>0, <2>1, <2>2, <2>3, <3>1, <3>2 DEF FreshUntilRun, WaitingUntouched, HeldUntouched, Untouched
  <2>7. QED
    BY <2>4, <2>5, <2>6 DEF FreshUntilRun, TakenUntouched
<1>15. ASSUME NEW t \in Workers \cup Operations, TellBegins(t) PROVE FreshUntilRun'
  BY <1>0, <1>15 DEF TellBegins, FreshUntilRun, RanAtMostOnce, WaitingUntouched, TakenUntouched,
     HeldUntouched, Untouched
<1>16. ASSUME NEW s \in Subscribers, Deliver(s) PROVE FreshUntilRun'
  BY <1>0, <1>16 DEF Deliver, FreshUntilRun, RanAtMostOnce, WaitingUntouched, TakenUntouched,
     HeldUntouched, Untouched
<1>17. ASSUME TellEnds PROVE FreshUntilRun'
  <2>1. /\ UNCHANGED <<status, future, spc, runs, early, queue, operations>>
        /\ \A w \in Workers :
              \/ wpc'[w] = wpc[w] /\ wop'[w] = wop[w]
              \/ wpc[w] = "tell started" /\ wpc'[w] = "run" /\ wop'[w] = wop[w]
              \/ wpc'[w] = "wait" /\ wop'[w] = None
    BY <1>17, TellEndsMoves
  <2>2. RanAtMostOnce'
    BY <1>0, <2>1 DEF FreshUntilRun, RanAtMostOnce
  <2>3. WaitingUntouched'
    BY <1>0, <2>1 DEF FreshUntilRun, WaitingUntouched, Untouched
  <2>4. ASSUME NEW v \in Workers PROVE HeldUntouched(v)'
    <3>1. wpc[v] \notin {"exited", "wait", "blocking", "asleep"} => wop[v] \in Operations
      BY <1>0
    <3>2. HeldUntouched(v)
      BY DEF FreshUntilRun, TakenUntouched
    <3>3. QED
      BY <1>0, <2>1, <3>1, <3>2 DEF FreshUntilRun, WaitingUntouched, HeldUntouched, Untouched
  <2>5. QED
    BY <2>2, <2>3, <2>4 DEF FreshUntilRun, TakenUntouched
<1>18. ASSUME NEW s \in Subscribers, Subscribe(s) PROVE FreshUntilRun'
  BY <1>0, <1>18 DEF Subscribe, FreshUntilRun, RanAtMostOnce, WaitingUntouched, TakenUntouched,
     HeldUntouched, Untouched
<1>19. ASSUME NEW s \in Subscribers, Unsubscribe(s) PROVE FreshUntilRun'
  BY <1>0, <1>19 DEF Unsubscribe, FreshUntilRun, RanAtMostOnce, WaitingUntouched, TakenUntouched,
     HeldUntouched, Untouched
<1>20. ASSUME Cleanup PROVE FreshUntilRun'
  BY <1>0, <1>20 DEF Cleanup, FreshUntilRun, RanAtMostOnce, WaitingUntouched, TakenUntouched,
     HeldUntouched, Untouched
<1>21. ASSUME Start PROVE FreshUntilRun'
  <2>1. \A w \in Workers : wop[w] = None
    BY <1>0, <1>21 DEF Start, PoolAgrees
  <2>2. UNCHANGED <<status, spc, runs, early, queue, wop, future>> /\ \A w \in Workers : wpc'[w] = "wait"
    BY <1>21 DEF Start
  <2>3. RanAtMostOnce'
    BY <1>0, <2>1, <2>2 DEF FreshUntilRun, RanAtMostOnce
  <2>4. WaitingUntouched'
    BY <1>0, <2>1, <2>2 DEF FreshUntilRun, WaitingUntouched, Untouched
  <2>5. ASSUME NEW v \in Workers PROVE HeldUntouched(v)'
    <3>1. wpc[v] \notin {"exited", "wait", "blocking", "asleep"} => wop[v] \in Operations
      BY <1>0
    <3>2. HeldUntouched(v)
      BY DEF FreshUntilRun, TakenUntouched
    <3>3. QED
      BY <1>0, <2>1, <2>2, <3>1, <3>2 DEF FreshUntilRun, WaitingUntouched, HeldUntouched, Untouched
  <2>6. QED
    BY <2>3, <2>4, <2>5 DEF FreshUntilRun, TakenUntouched
<1>22. ASSUME StopSignal PROVE FreshUntilRun'
  BY <1>0, <1>22 DEF StopSignal, FreshUntilRun, RanAtMostOnce, WaitingUntouched, TakenUntouched,
     HeldUntouched, Untouched
<1>23. ASSUME StopReturn PROVE FreshUntilRun'
  BY <1>0, <1>23 DEF StopReturn, FreshUntilRun, RanAtMostOnce, WaitingUntouched, TakenUntouched,
     HeldUntouched, Untouched
<1>24. ASSUME Destroy PROVE FreshUntilRun'
  <2>1. \A w \in Workers : wpc[w] = "exited"
    BY <1>24 DEF Destroy, PoolAgrees
  <2>2. /\ UNCHANGED <<status, spc, runs, early, wpc, wop>> /\ queue' = {}
        /\ \A o \in Operations : o \notin queue => future'[o] = future[o]
        /\ \A o \in Operations : spc[o] # "listed" /\ (spc[o] = "idle" => o \notin queue)
    BY <1>0, <1>24 DEF Destroy, OneOwner
  <2>3. RanAtMostOnce'
    BY <1>0, <2>1, <2>2 DEF FreshUntilRun, RanAtMostOnce
  <2>4. WaitingUntouched'
    BY <1>0, <2>1, <2>2 DEF FreshUntilRun, WaitingUntouched, Untouched
  <2>5. ASSUME NEW v \in Workers PROVE HeldUntouched(v)'
    <3>1. wpc[v] \notin {"exited", "wait", "blocking", "asleep"} => wop[v] \in Operations
      BY <1>0
    <3>2. HeldUntouched(v)
      BY DEF FreshUntilRun, TakenUntouched
    <3>3. QED
      BY <1>0, <2>1, <2>2, <3>1, <3>2 DEF FreshUntilRun, WaitingUntouched, HeldUntouched, Untouched
  <2>6. QED
    BY <2>3, <2>4, <2>5 DEF FreshUntilRun, TakenUntouched
<1>25. ASSUME UNCHANGED vars PROVE FreshUntilRun'
  BY <1>25 DEF FreshUntilRun, RanAtMostOnce, WaitingUntouched, TakenUntouched, HeldUntouched, Untouched, vars
<1>26. QED
  BY <1>1, <1>2, <1>3, <1>4, <1>5, <1>6, <1>7, <1>8, <1>9, <1>10, <1>11, <1>12, <1>13, <1>14, <1>15,
     <1>16, <1>17, <1>18, <1>19, <1>20, <1>21, <1>22, <1>23, <1>24, <1>25 DEF Next, SubmitStep,
     WorkerStep, Tell, Client

\* Every step leaves an early cancellation in force.
LEMMA EarlyStep ==
    ASSUME TypeOK, PoolAgrees, OneOwner, FreshUntilRun, EarlyStaysCancelled, [Next]_vars PROVE EarlyStaysCancelled'
<1> USE DEF submitVars, workerVars, eventVars, poolVars, history
<1>0. /\ wop \in [Workers -> Operations \cup {None}] /\ None \notin Operations
      /\ \A w \in Workers : (wop[w] = None) <=> wpc[w] \in {"exited", "wait", "blocking", "asleep"}
      /\ DOMAIN wpc = Workers /\ DOMAIN spc = Operations /\ DOMAIN status = Operations
      /\ DOMAIN future = Operations /\ runs \in [Operations -> Nat] /\ queue \subseteq Operations
      /\ operations \subseteq Operations /\ early \subseteq Operations
  BY ConstantsAssumption DEF TypeOK
<1>1. ASSUME NEW o \in Operations, SubmitList(o) PROVE EarlyStaysCancelled'
  <2>1. o \notin queue /\ \A v \in Workers : wop[v] # o
    BY <1>0, <1>1 DEF SubmitList, OneOwner
  <2>2. /\ spc[o] = "idle" /\ spc'[o] = "listed" /\ status'[o] = "PENDING"
        /\ \A p \in Operations : p # o => spc'[p] = spc[p]
        /\ \A p \in Operations : p # o => status'[p] = status[p]
        /\ UNCHANGED <<future, runs, early, queue, wpc, wop>>
    BY <1>0, <1>1 DEF SubmitList
  <2>3. EarlyNeverRan'
    BY <1>0, <2>1, <2>2 DEF EarlyStaysCancelled, EarlyNeverRan
  <2>4. EarlyWaits'
    BY <1>0, <2>1, <2>2 DEF EarlyStaysCancelled, EarlyWaits, EarlyNeverRan
  <2>5. EarlyTaken'
    BY <1>0, <2>1, <2>2 DEF EarlyStaysCancelled, EarlyTaken
  <2>6. QED
    BY <2>3, <2>4, <2>5 DEF EarlyStaysCancelled
<1>2. ASSUME NEW o \in Operations, SubmitRefuse(o) PROVE EarlyStaysCancelled'
  <2>1. o \notin queue /\ \A v \in Workers : wop[v] # o
    BY <1>0, <1>2 DEF SubmitRefuse, OneOwner
  <2>2. /\ spc[o] = "listed" /\ spc'[o] = "done" /\ status'[o] = "FAILED"
        /\ \A p \in Operations : p # o => spc'[p] = spc[p]
        /\ \A p \in Operations : p # o => status'[p] = status[p]
        /\ \A p \in Operations : p # o => future'[p] = future[p]
        /\ UNCHANGED <<runs, early, queue, wpc, wop>>
    BY <1>0, <1>2 DEF SubmitRefuse
  <2>3. EarlyNeverRan'
    BY <1>0, <2>1, <2>2 DEF EarlyStaysCancelled, EarlyNeverRan
  <2>4. EarlyWaits'
    BY <1>0, <2>1, <2>2 DEF EarlyStaysCancelled, EarlyWaits
  <2>5. EarlyTaken'
    BY <1>0, <2>1, <2>2 DEF EarlyStaysCancelled, EarlyTaken
  <2>6. QED
    BY <2>3, <2>4, <2>5 DEF EarlyStaysCancelled
<1>3. ASSUME NEW o \in Operations, SubmitPush(o) PROVE EarlyStaysCancelled'
  <2>1. o \notin queue /\ \A v \in Workers : wop[v] # o
    BY <1>0, <1>3 DEF SubmitPush, OneOwner
  <2>2. /\ spc[o] = "listed" /\ spc'[o] = "pushed" /\ queue' = queue \cup {o}
        /\ \A p \in Operations : p # o => spc'[p] = spc[p]
        /\ UNCHANGED <<status, future, runs, early, wpc, wop>>
    BY <1>0, <1>3 DEF SubmitPush
  <2>3. EarlyNeverRan'
    BY <1>0, <2>1, <2>2 DEF EarlyStaysCancelled, EarlyNeverRan
  <2>4. EarlyWaits'
    BY <1>0, <2>1, <2>2 DEF EarlyStaysCancelled, EarlyWaits
  <2>5. EarlyTaken'
    BY <1>0, <2>1, <2>2 DEF EarlyStaysCancelled, EarlyTaken
  <2>6. QED
    BY <2>3, <2>4, <2>5 DEF EarlyStaysCancelled
<1>4. ASSUME NEW o \in Operations, SubmitNotify(o) PROVE EarlyStaysCancelled'
  <2>1. /\ spc[o] = "pushed" /\ spc'[o] = "done" /\ UNCHANGED <<status, future, runs, early, queue, wop>>
        /\ \A p \in Operations : p # o => spc'[p] = spc[p]
        /\ \A v \in Workers : wpc'[v] = wpc[v] \/ (wpc[v] = "asleep" /\ wpc'[v] = "wait")
    BY <1>0, <1>4 DEF SubmitNotify
  <2>2. EarlyNeverRan'
    BY <1>0, <2>1 DEF EarlyStaysCancelled, EarlyNeverRan
  <2>3. EarlyWaits'
    BY <1>0, <2>1 DEF EarlyStaysCancelled, EarlyWaits
  <2>4. EarlyTaken'
    BY <1>0, <2>1 DEF EarlyStaysCancelled, EarlyTaken
  <2>5. QED
    BY <2>2, <2>3, <2>4 DEF EarlyStaysCancelled
<1>5. ASSUME NEW o \in Operations, Cancel(o) PROVE EarlyStaysCancelled'
  <2>1. /\ o \in operations /\ status[o] = "PENDING" /\ status'[o] = "CANCELLED"
        /\ \A p \in Operations : p # o => status'[p] = status[p]
        /\ UNCHANGED <<spc, queue, runs, wop, wpc>>
        /\ \A p \in early' : p \in early \/ p = o
        /\ o \in early' => o \in early \/ \A v \in Workers : wop[v] # o
    BY <1>0, <1>5 DEF Cancel
  <2>2. runs[o] = 0 /\ spc[o] # "idle"
    BY <1>0, <2>1 DEF FreshUntilRun, RanAtMostOnce, OneOwner
  <2>3. EarlyNeverRan'
    BY <1>0, <2>1, <2>2 DEF EarlyStaysCancelled, EarlyNeverRan
  <2>4. EarlyWaits'
    BY <1>0, <2>1, <2>2 DEF EarlyStaysCancelled, EarlyWaits
  <2>5. EarlyTaken'
    BY <1>0, <2>1, <2>2 DEF EarlyStaysCancelled, EarlyTaken
  <2>6. QED
    BY <2>3, <2>4, <2>5 DEF EarlyStaysCancelled
<1>6. ASSUME NEW w \in Workers, WorkerExit(w) PROVE EarlyStaysCancelled'
  BY <1>0, <1>6 DEF WorkerExit, EarlyStaysCancelled, EarlyNeverRan, EarlyWaits, EarlyTaken
<1>7. ASSUME NEW w \in Workers, WorkerBlock(w) PROVE EarlyStaysCancelled'
  BY <1>0, <1>7 DEF WorkerBlock, EarlyStaysCancelled, EarlyNeverRan, EarlyWaits, EarlyTaken
<1>8. ASSUME NEW w \in Workers, WorkerSleep(w) PROVE EarlyStaysCancelled'
  BY <1>0, <1>8 DEF WorkerSleep, EarlyStaysCancelled, EarlyNeverRan, EarlyWaits, EarlyTaken
<1>9. ASSUME NEW w \in Workers, WorkerTake(w) PROVE EarlyStaysCancelled'
  <2>1. PICK o \in queue : queue' = queue \ {o} /\ wop' = [wop EXCEPT ![w] = o]
    BY <1>9 DEF WorkerTake
  <2>2. o \in Operations /\ \A v \in Workers : v # w => wop[v] # o
    BY <1>0, <2>1 DEF OneOwner
  <2>3. /\ wop'[w] = o /\ wpc'[w] = "taken" /\ \A v \in Workers : v # w => wop'[v] = wop[v] /\ wpc'[v] = wpc[v]
        /\ UNCHANGED <<status, future, spc, runs, early>>
    BY <1>0, <1>9, <2>1 DEF WorkerTake
  <2>4. EarlyNeverRan'
    BY <1>0, <2>1, <2>2, <2>3 DEF EarlyStaysCancelled, EarlyNeverRan
  <2>5. EarlyWaits'
    BY <1>0, <2>1, <2>2, <2>3 DEF EarlyStaysCancelled, EarlyWaits
  <2>6. EarlyTaken'
    BY <1>0, <2>1, <2>2, <2>3 DEF EarlyStaysCancelled, EarlyTaken, EarlyWaits
  <2>7. QED
    BY <2>4, <2>5, <2>6 DEF EarlyStaysCancelled
<1>10. ASSUME NEW w \in Workers, WorkerDrop(w) PROVE EarlyStaysCancelled'
  <2>1. PICK o \in Operations : o = wop[w]
    BY <1>0, <1>10 DEF WorkerDrop
  <2>2. o \notin queue /\ spc[o] \in {"pushed", "done"} /\ \A v \in Workers : v # w => wop[v] # o
    BY <1>0, <2>1 DEF OneOwner
  <2>3. /\ \A v \in Workers : v # w => wpc'[v] = wpc[v] /\ wop'[v] = wop[v]
        /\ wpc'[w] = "wait" /\ wop'[w] = None /\ UNCHANGED <<status, spc, runs, early, queue, operations>>
        /\ \A p \in Operations : p # o => future'[p] = future[p]
    BY <1>0, <1>10, <2>1 DEF WorkerDrop
  <2>4. EarlyNeverRan'
    BY <1>0, <2>1, <2>2, <2>3 DEF EarlyStaysCancelled, EarlyNeverRan
  <2>5. EarlyWaits'
    BY <1>0, <2>1, <2>2, <2>3 DEF EarlyStaysCancelled, EarlyWaits
  <2>6. EarlyTaken'
    BY <1>0, <2>1, <2>2, <2>3 DEF EarlyStaysCancelled, EarlyTaken
  <2>7. QED
    BY <2>4, <2>5, <2>6 DEF EarlyStaysCancelled
<1>11. ASSUME NEW w \in Workers, WorkerPass(w) PROVE EarlyStaysCancelled'
  <2>1. PICK o \in Operations : o = wop[w]
    BY <1>0, <1>11 DEF WorkerPass
  <2>2. o \notin queue /\ spc[o] \in {"pushed", "done"} /\ \A v \in Workers : v # w => wop[v] # o
    BY <1>0, <2>1 DEF OneOwner
  <2>3. /\ \A v \in Workers : v # w => wpc'[v] = wpc[v] /\ wop'[v] = wop[v]
        /\ wpc[w] = "taken" /\ wpc'[w] = "passed" /\ status[o] # "CANCELLED"
        /\ UNCHANGED <<status, spc, runs, early, queue, operations, wop, future>>
    BY <1>0, <1>11, <2>1 DEF WorkerPass
  <2>4. EarlyNeverRan'
    BY <1>0, <2>1, <2>2, <2>3 DEF EarlyStaysCancelled, EarlyNeverRan
  <2>5. EarlyWaits'
    BY <1>0, <2>1, <2>2, <2>3 DEF EarlyStaysCancelled, EarlyWaits
  <2>6. EarlyTaken'
    BY <1>0, <2>1, <2>2, <2>3 DEF EarlyStaysCancelled, EarlyTaken
  <2>7. QED
    BY <2>4, <2>5, <2>6 DEF EarlyStaysCancelled
<1>12. ASSUME NEW w \in Workers, WorkerBegin(w) PROVE EarlyStaysCancelled'
  <2>1. PICK o \in Operations : o = wop[w]
    BY <1>0, <1>12 DEF WorkerBegin
  <2>2. o \notin queue /\ spc[o] \in {"pushed", "done"} /\ \A v \in Workers : v # w => wop[v] # o
    BY <1>0, <2>1 DEF OneOwner
  <2>3. /\ \A v \in Workers : v # w => wpc'[v] = wpc[v] /\ wop'[v] = wop[v]
        /\ wpc[w] = "passed" /\ wpc'[w] = "tell started" /\ status'[o] = "RUNNING"
        /\ UNCHANGED <<spc, runs, early, queue, operations, wop, future>>
        /\ \A p \in Operations : p # o => status'[p] = status[p]
    BY <1>0, <1>12, <2>1 DEF WorkerBegin
  <2>4. EarlyNeverRan'
    BY <1>0, <2>1, <2>2, <2>3 DEF EarlyStaysCancelled, EarlyNeverRan
  <2>5. EarlyWaits'
    <3>1. ASSUME NEW p \in early', spc'[p] = "listed" \/ p \in queue' PROVE status'[p] = "CANCELLED"
      <4>1. p \in Operations /\ p \in early /\ p # o /\ (spc[p] = "listed" \/ p \in queue)
        BY <1>0, <2>2, <2>3, <3>1
      <4>2. status[p] = "CANCELLED"
        BY <4>1 DEF EarlyStaysCancelled, EarlyWaits
      <4>3. QED
        BY <2>3, <4>1, <4>2
    <3>2. QED
      BY <3>1 DEF EarlyWaits
  <2>6. EarlyTaken'
    <3>1. o \notin early
      BY <2>1, <2>2, <2>3 DEF EarlyStaysCancelled, EarlyTaken
    <3>2. ASSUME NEW v \in Workers, wop'[v] \in early' PROVE wpc'[v] = "taken" /\ status'[wop'[v]] = "CANCELLED"
      <4>1. v # w /\ wop[v] \in early /\ wop[v] # o /\ wop[v] \in Operations
        BY <1>0, <2>1, <2>2, <2>3, <3>1, <3>2
      <4>2. wpc[v] = "taken" /\ status[wop[v]] = "CANCELLED"
        BY <4>1 DEF EarlyStaysCancelled, EarlyTaken
      <4>3. QED
        BY <2>3, <4>1, <4>2
    <3>3. QED
      BY <3>2 DEF EarlyTaken
  <2>7. QED
    BY <2>4, <2>5, <2>6 DEF EarlyStaysCancelled
<1>13. ASSUME NEW w \in Workers, WorkerRun(w) PROVE EarlyStaysCancelled'
  <2>1. PICK o \in Operations : o = wop[w]
    BY <1>0, <1>13 DEF WorkerRun
  <2>2. o \notin queue /\ spc[o] \in {"pushed", "done"} /\ \A v \in Workers : v # w => wop[v] # o
    BY <1>0, <2>1 DEF OneOwner
  <2>3. PICK end \in Outcomes(o) :
           /\ status' = [status EXCEPT ![o] = IF end = "threw" THEN "FAILED" ELSE "COMPLETED"]
           /\ wpc' = [wpc EXCEPT ![w] = end]
    BY <1>13, <2>1 DEF WorkerRun
  <2>4. end \in {"returned", "threw"}
    BY DEF Outcomes
  <2>5. /\ \A v \in Workers : v # w => wpc'[v] = wpc[v] /\ wop'[v] = wop[v]
        /\ wpc[w] = "run" /\ wpc'[w] \in {"returned", "threw"} /\ status'[o] \in {"COMPLETED", "FAILED"}
        /\ UNCHANGED <<spc, early, queue, operations, wop, future>> /\ runs'[o] = runs[o] + 1
        /\ \A p \in Operations : p # o => status'[p] = status[p]
        /\ \A p \in Operations : p # o => runs'[p] = runs[p]
    BY <1>0, <1>13, <2>1, <2>3, <2>4 DEF WorkerRun
  <2>6. EarlyNeverRan'
    BY <1>0, <2>1, <2>2, <2>3, <2>4, <2>5 DEF EarlyStaysCancelled, EarlyNeverRan, EarlyTaken
  <2>7. EarlyWaits'
    BY <1>0, <2>1, <2>2, <2>3, <2>4, <2>5 DEF EarlyStaysCancelled, EarlyWaits
  <2>8. EarlyTaken'
    BY <1>0, <2>1, <2>2, <2>3, <2>4, <2>5 DEF EarlyStaysCancelled, EarlyTaken
  <2>9. QED
    BY <2>6, <2>7, <2>8 DEF EarlyStaysCancelled
<1>14. ASSUME NEW w \in Workers, WorkerSettle(w) PROVE EarlyStaysCancelled'
  <2>1. PICK o \in Operations : o = wop[w]
    BY <1>0, <1>14 DEF WorkerSettle
  <2>2. o \notin queue /\ spc[o] \in {"pushed", "done"} /\ \A v \in Workers : v # w => wop[v] # o
    BY <1>0, <2>1 DEF OneOwner
  <2>3. /\ \A v \in Workers : v # w => wpc'[v] = wpc[v] /\ wop'[v] = wop[v]
        /\ wpc[w] \in {"returned", "threw"} /\ wpc'[w] = "tell ended"
        /\ UNCHANGED <<status, spc, runs, early, queue, operations, wop>>
        /\ \A p \in Operations : p # o => future'[p] = future[p]
    BY <1>0, <1>14, <2>1 DEF WorkerSettle
  <2>4. EarlyNeverRan'
    BY <1>0, <2>1, <2>2, <2>3 DEF EarlyStaysCancelled, EarlyNeverRan
  <2>5. EarlyWaits'
    BY <1>0, <2>1, <2>2, <2>3 DEF EarlyStaysCancelled, EarlyWaits
  <2>6. EarlyTaken'
    <3>1. \A v \in Workers : wop[v] \in early => wpc[v] = "taken" /\ status[wop[v]] = "CANCELLED"
      BY DEF EarlyStaysCancelled, EarlyTaken
    <3>2. wop[w] \notin early
      BY <2>3, <3>1
    <3>3. QED
      BY <2>3, <3>1, <3>2 DEF EarlyTaken
  <2>7. QED
    BY <2>4, <2>5, <2>6 DEF EarlyStaysCancelled
<1>15. ASSUME NEW t \in Workers \cup Operations, TellBegins(t) PROVE EarlyStaysCancelled'
  BY <1>0, <1>15 DEF TellBegins, EarlyStaysCancelled, EarlyNeverRan, EarlyWaits, EarlyTaken
<1>16. ASSUME NEW s \in Subscribers, Deliver(s) PROVE EarlyStaysCancelled'
  BY <1>0, <1>16 DEF Deliver, EarlyStaysCancelled, EarlyNeverRan, EarlyWaits, EarlyTaken
<1>17. ASSUME TellEnds PROVE EarlyStaysCancelled'
  <2>1. /\ UNCHANGED <<status, future, spc, runs, early, queue, operations>>
        /\ \A w \in Workers :
              \/ wpc'[w] = wpc[w] /\ wop'[w] = wop[w]
              \/ wpc[w] = "tell started" /\ wpc'[w] = "run" /\ wop'[w] = wop[w]
              \/ wpc'[w] = "wait" /\ wop'[w] = None
    BY <1>17, TellEndsMoves
  <2>2. EarlyNeverRan'
    BY <1>0, <2>1 DEF EarlyStaysCancelled, EarlyNeverRan
  <2>3. EarlyWaits'
    BY <1>0, <2>1 DEF EarlyStaysCancelled, EarlyWaits
  <2>4. EarlyTaken'
    <3>1. \A w \in Workers : wop[w] \in early => wpc[w] = "taken" /\ status[wop[w]] = "CANCELLED"
      BY DEF EarlyStaysCancelled, EarlyTaken
    <3>2. None \notin early
      BY <1>0
    <3>3. ASSUME NEW w \in Workers, wop'[w] \in early PROVE wpc'[w] = "taken" /\ status[wop'[w]] = "CANCELLED"
      BY <2>1, <3>1, <3>2, <3>3
    <3>4. QED
      BY <2>1, <3>3 DEF EarlyTaken
  <2>5. QED
    BY <2>2, <2>3, <2>4 DEF EarlyStaysCancelled
<1>18. ASSUME NEW s \in Subscribers, Subscribe(s) PROVE EarlyStaysCancelled'
  BY <1>0, <1>18 DEF Subscribe, EarlyStaysCancelled, EarlyNeverRan, EarlyWaits, EarlyTaken
<1>19. ASSUME NEW s \in Subscribers, Unsubscribe(s) PROVE EarlyStaysCancelled'
  BY <1>0, <1>19 DEF Unsubscribe, EarlyStaysCancelled, EarlyNeverRan, EarlyWaits, EarlyTaken
<1>20. ASSUME Cleanup PROVE EarlyStaysCancelled'
  BY <1>0, <1>20 DEF Cleanup, EarlyStaysCancelled, EarlyNeverRan, EarlyWaits, EarlyTaken
<1>21. ASSUME Start PROVE EarlyStaysCancelled'
  <2>1. \A w \in Workers : wop[w] = None
    BY <1>0, <1>21 DEF Start, PoolAgrees
  <2>2. UNCHANGED <<status, spc, runs, early, queue, wop, future>> /\ \A w \in Workers : wpc'[w] = "wait"
    BY <1>21 DEF Start
  <2>3. EarlyNeverRan'
    BY <1>0, <2>1, <2>2 DEF EarlyStaysCancelled, EarlyNeverRan
  <2>4. EarlyWaits'
    BY <1>0, <2>1, <2>2 DEF EarlyStaysCancelled, EarlyWaits
  <2>5. EarlyTaken'
    BY <1>0, <2>1, <2>2 DEF EarlyStaysCancelled, EarlyTaken
  <2>6. QED
    BY <2>3, <2>4, <2>5 DEF EarlyStaysCancelled
<1>22. ASSUME StopSignal PROVE EarlyStaysCancelled'
  BY <1>0, <1>22 DEF StopSignal, EarlyStaysCancelled, EarlyNeverRan, EarlyWaits, EarlyTaken
<1>23. ASSUME StopReturn PROVE EarlyStaysCancelled'
  BY <1>0, <1>23 DEF StopReturn, EarlyStaysCancelled, EarlyNeverRan, EarlyWaits, EarlyTaken
<1>24. ASSUME Destroy PROVE EarlyStaysCancelled'
  <2>1. \A w \in Workers : wpc[w] = "exited"
    BY <1>24 DEF Destroy, PoolAgrees
  <2>2. /\ UNCHANGED <<status, spc, runs, early, wpc, wop>> /\ queue' = {}
        /\ \A o \in Operations : o \notin queue => future'[o] = future[o]
        /\ \A o \in Operations : spc[o] # "listed" /\ (spc[o] = "idle" => o \notin queue)
    BY <1>0, <1>24 DEF Destroy, OneOwner
  <2>3. EarlyNeverRan'
    BY <1>0, <2>1, <2>2 DEF EarlyStaysCancelled, EarlyNeverRan
  <2>4. EarlyWaits'
    BY <1>0, <2>1, <2>2 DEF EarlyStaysCancelled, EarlyWaits
  <2>5. EarlyTaken'
    BY <1>0, <2>1, <2>2 DEF EarlyStaysCancelled, EarlyTaken
  <2>6. QED
    BY <2>3, <2>4, <2>5 DEF EarlyStaysCancelled
<1>25. ASSUME UNCHANGED vars PROVE EarlyStaysCancelled'
  BY <1>25 DEF EarlyStaysCancelled, EarlyNeverRan, EarlyWaits, EarlyTaken, vars
<1>26. QED
  BY <1>1, <1>2, <1>3, <1>4, <1>5, <1>6, <1>7, <1>8, <1>9, <1>10, <1>11, <1>12, <1>13, <1>14, <1>15,
     <1>16, <1>17, <1>18, <1>19, <1>20, <1>21, <1>22, <1>23, <1>24, <1>25 DEF Next, SubmitStep,
     WorkerStep, Tell, Client

\* No operation has been submitted and the pool has not been started.
LEMMA InitialStates == Init => IInv
<1>1. SUFFICES ASSUME Init PROVE IInv
  OBVIOUS
<1>2. TypeOK
  <2>1. starts \in 0..MaxStarts /\ runs \in [Operations -> Nat] /\ telling \in [by : {None}, left : {{}}]
    BY <1>1, ConstantsAssumption DEF Init, Nobody
  <2>2. QED
    BY <1>1, <2>1 DEF Init, TypeOK, Statuses
<1>3. PoolAgrees /\ OneOwner
  BY <1>1, ConstantsAssumption DEF Init, PoolAgrees, OneOwner, Nobody
<1>4. FreshUntilRun
  BY <1>1, ConstantsAssumption DEF Init, FreshUntilRun, RanAtMostOnce, WaitingUntouched, TakenUntouched,
     HeldUntouched, Untouched
<1>5. EarlyStaysCancelled
  BY <1>1 DEF Init, EarlyStaysCancelled, EarlyNeverRan, EarlyWaits, EarlyTaken
<1>6. QED
  BY <1>2, <1>3, <1>4, <1>5 DEF IInv

\* The invariant holds in every state.
LEMMA Inductive == Spec => []IInv
<1>1. Init => IInv
  BY InitialStates
<1>2. IInv /\ [Next]_vars => IInv'
  BY TypeStep, PoolStep, OwnerStep, FreshStep, EarlyStep DEF IInv
<1>3. QED
  BY <1>1, <1>2, PTL DEF Spec

\* Type correctness: in every state all variables have their types, a worker has an
\* operation exactly between taking and leaving it, and no pool runs while one is
\* being joined (AsyncServiceLayer::start and stop).
THEOREM LayerTypeCorrect == Spec => []TypeOK
<1>1. Spec => []IInv
  BY Inductive
<1>2. IInv => TypeOK
  BY DEF IInv
<1>3. QED
  BY <1>1, <1>2, PTL

\* Every operation is executed at most once, and not at all if its cancellation was
\* reported before a worker took it.
THEOREM ExecutedAtMostOnce == Spec => []RunsAtMostOnce
<1>1. Spec => []IInv
  BY Inductive
<1>2. IInv => RunsAtMostOnce
  <2>1. ASSUME IInv, NEW o \in Operations PROVE runs[o] <= IF o \in early THEN 0 ELSE 1
    <3>1. runs[o] \in {0, 1} /\ (o \in early => runs[o] = 0)
      BY <2>1 DEF IInv, FreshUntilRun, RanAtMostOnce, EarlyStaysCancelled, EarlyNeverRan
    <3>2. QED
      BY <3>1
  <2>2. QED
    BY <2>1 DEF RunsAtMostOnce
<1>3. QED
  BY <1>1, <1>2, PTL

\* Nobody who has unsubscribed is called any more: what is still to be told was taken
\* from the subscribers under their mutex, and they only change when nothing is told.
THEOREM LeaversAreNotTold == Spec => []NotToldAfterLeaving
<1>1. Init => NotToldAfterLeaving
  BY DEF Init, NotToldAfterLeaving, Nobody
<1>2. TypeOK /\ PoolAgrees /\ NotToldAfterLeaving /\ [Next]_vars => NotToldAfterLeaving'
  <2>1. SUFFICES ASSUME TypeOK, NotToldAfterLeaving, [Next]_vars PROVE NotToldAfterLeaving'
    OBVIOUS
  <2>2. \/ telling' = telling /\ subscribers' = subscribers
        \/ telling = Nobody /\ telling' = telling
        \/ subscribers' = subscribers /\ telling'.left = subscribers
        \/ subscribers' = subscribers /\ telling'.left \subseteq telling.left
    <3>1. ASSUME NEW t \in Workers \cup Operations, TellBegins(t)
          PROVE  subscribers' = subscribers /\ telling'.left = subscribers
      BY <3>1 DEF TellBegins
    <3>2. ASSUME NEW s \in Subscribers, Deliver(s)
          PROVE  subscribers' = subscribers /\ telling'.left \subseteq telling.left
      BY <3>2 DEF Deliver, TypeOK
    <3>3. ASSUME TellEnds PROVE subscribers' = subscribers /\ telling'.left \subseteq telling.left
      BY <3>3 DEF TellEnds, Nobody
    <3>4. ASSUME NEW s \in Subscribers, Client(s) PROVE telling = Nobody /\ telling' = telling
      BY <3>4 DEF Client, Subscribe, Unsubscribe
    <3>5. ASSUME NEW o \in Operations, SubmitStep(o) \/ Cancel(o) PROVE telling' = telling /\ subscribers' = subscribers
      BY <3>5 DEF SubmitStep, SubmitList, SubmitRefuse, SubmitPush, SubmitNotify, Cancel, eventVars
    <3>6. ASSUME NEW w \in Workers, WorkerStep(w) PROVE telling' = telling /\ subscribers' = subscribers
      BY <3>6 DEF WorkerStep, WorkerExit, WorkerBlock, WorkerSleep, WorkerTake, WorkerDrop, WorkerPass,
                  WorkerBegin, WorkerRun, WorkerSettle, eventVars
    <3>7. ASSUME Cleanup \/ Start \/ StopSignal \/ StopReturn \/ Destroy
          PROVE  telling' = telling /\ subscribers' = subscribers
      BY <3>7 DEF Cleanup, Start, StopSignal, StopReturn, Destroy, eventVars
    <3>8. ASSUME UNCHANGED vars PROVE telling' = telling /\ subscribers' = subscribers
      BY <3>8 DEF vars, eventVars
    <3>9. QED
      BY <2>1, <3>1, <3>2, <3>3, <3>4, <3>5, <3>6, <3>7, <3>8 DEF Next, Tell
  <2>3. QED
    BY <2>1, <2>2 DEF NotToldAfterLeaving, Nobody
<1>3. Spec => []IInv
  BY Inductive
<1>4. IInv => TypeOK /\ PoolAgrees
  BY DEF IInv
<1>5. QED
  BY <1>1, <1>2, <1>3, <1>4, PTL DEF Spec

\* The promise of an operation is settled once: the three places that settle it, and the
\* destructor, only ever find it pending.
THEOREM SettledOnce == Spec => FutureSettledOnce
<1>1. ASSUME IInv, [Next]_vars
      PROVE  \A o \in Operations : future[o] # "pending" => future'[o] = future[o]
  <2>0. /\ DOMAIN future = Operations /\ queue \subseteq Operations
        /\ \A w \in Workers : wpc[w] \in {"taken", "returned", "threw"} =>
               wop[w] \in Operations /\ future[wop[w]] = "pending"
        /\ \A o \in Operations : spc[o] = "listed" \/ o \in queue => future[o] = "pending"
    <3>1. /\ wop \in [Workers -> Operations \cup {None}]
          /\ \A w \in Workers : wpc[w] \in {"taken", "returned", "threw"} => wop[w] # None
      BY <1>1 DEF IInv, TypeOK
    <3>2. \A w \in Workers : wpc[w] \in {"taken", "returned", "threw"} => future[wop[w]] = "pending"
      BY <1>1 DEF IInv, FreshUntilRun, TakenUntouched, HeldUntouched, Untouched
    <3>3. \A o \in Operations : spc[o] = "listed" \/ o \in queue => future[o] = "pending"
      BY <1>1 DEF IInv, FreshUntilRun, WaitingUntouched, Untouched
    <3>4. DOMAIN future = Operations /\ queue \subseteq Operations
      BY <1>1 DEF IInv, TypeOK
    <3>5. QED
      BY <3>1, <3>2, <3>3, <3>4
  <2>1. ASSUME NEW o \in Operations, SubmitStep(o) \/ Cancel(o)
        PROVE  \A p \in Operations : future[p] # "pending" => future'[p] = future[p]
    BY <2>0, <2>1 DEF SubmitStep, SubmitList, SubmitRefuse, SubmitPush, SubmitNotify, Cancel
  <2>2. ASSUME NEW w \in Workers, WorkerStep(w)
        PROVE  \A p \in Operations : future[p] # "pending" => future'[p] = future[p]
    <3>1. CASE WorkerDrop(w)
      BY <2>0, <3>1 DEF WorkerDrop
    <3>2. CASE WorkerSettle(w)
      BY <2>0, <3>2 DEF WorkerSettle
    <3>3. CASE ~WorkerDrop(w) /\ ~WorkerSettle(w)
      BY <2>2, <3>3 DEF WorkerStep, WorkerExit, WorkerBlock, WorkerSleep, WorkerTake, WorkerPass,
         WorkerBegin, WorkerRun, submitVars
    <3>4. QED
      BY <3>1, <3>2, <3>3
  <2>3. ASSUME Destroy PROVE \A p \in Operations : future[p] # "pending" => future'[p] = future[p]
    BY <2>0, <2>3 DEF Destroy
  <2>4. ASSUME \/ Tell \/ Cleanup \/ Start \/ StopSignal \/ StopReturn
               \/ \E s \in Subscribers : Client(s)
        PROVE  UNCHANGED future
    BY <2>4 DEF Tell, TellBegins, Deliver, TellEnds, Cleanup, Start, StopSignal, StopReturn, Client,
                Subscribe, Unsubscribe, submitVars
  <2>5. ASSUME UNCHANGED vars PROVE UNCHANGED future
    BY <2>5 DEF vars, submitVars
  <2>6. QED
    BY <1>1, <2>1, <2>2, <2>3, <2>4, <2>5 DEF Next
<1>2. Spec => []IInv
  BY Inductive
<1>3. IInv /\ [Next]_vars => [\A o \in Operations : future[o] # "pending" => future'[o] = future[o]]_vars
  BY <1>1
<1>4. QED
  BY <1>2, <1>3, PTL DEF Spec, FutureSettledOnce
=============================================================================
