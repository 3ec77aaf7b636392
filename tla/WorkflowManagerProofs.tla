------------------------ MODULE WorkflowManagerProofs ------------------------
(***************************************************************************)
(* Theorems about WorkflowManager for any sets of requests, clients and    *)
(* workers and any limits.  The inductive invariant IInv says where every  *)
(* request is; the safety properties and the refinement of                 *)
(* RequestLifecycle follow from it.                                        *)
(***************************************************************************)
EXTENDS WorkflowManager, FiniteSetTheorems, TLAPS

\* A size_t counter that is stepped wraps to a natural number below the modulus.
LEMMA CounterWraps ==
    ASSUME NEW a \in Int, NEW m \in Nat \ {0}
    PROVE  a % m \in Nat
  OBVIOUS

\* Pushing a request keeps the order of the others and puts it last.
LEMMA PushFacts ==
    ASSUME NEW S, NEW q \in Seq(S), NEW e \in S
    PROVE  /\ Append(q, e) \in Seq(S)
           /\ DOMAIN Append(q, e) = 1 .. Len(q) + 1
           /\ \A i \in 1 .. Len(q) : Append(q, e)[i] = q[i]
           /\ Append(q, e)[Len(q) + 1] = e
           /\ Len(Append(q, e)) = Len(q) + 1
  OBVIOUS

\* Popping removes the front and moves every other request forward.
LEMMA PopFacts ==
    ASSUME NEW S, NEW q \in Seq(S), q # <<>>
    PROVE  /\ Tail(q) \in Seq(S)
           /\ Head(q) \in S
           /\ 1 \in DOMAIN q /\ Head(q) = q[1]
           /\ DOMAIN Tail(q) = 1 .. Len(q) - 1
           /\ Len(Tail(q)) = Len(q) - 1
           /\ \A i \in 1 .. Len(q) - 1 : i + 1 \in DOMAIN q /\ Tail(q)[i] = q[i + 1]
  OBVIOUS

\* Pushing a request that is not in a queue without duplicates makes none, and the queue
\* then holds what it held and that request.
LEMMA PushDistinct ==
    ASSUME NEW S, NEW q \in Seq(S), NEW e \in S,
           \A i, j \in DOMAIN q : q[i] = q[j] => i = j,
           \A i \in DOMAIN q : q[i] # e
    PROVE  /\ \A i, j \in DOMAIN Append(q, e) : Append(q, e)[i] = Append(q, e)[j] => i = j
           /\ \A i \in DOMAIN Append(q, e) :
                 Append(q, e)[i] = e \/ (i \in DOMAIN q /\ Append(q, e)[i] = q[i])
<1>0. /\ Len(q) \in Nat /\ DOMAIN q = 1 .. Len(q)
      /\ DOMAIN Append(q, e) = 1 .. Len(q) + 1
      /\ \A i \in 1 .. Len(q) : Append(q, e)[i] = q[i]
      /\ Append(q, e)[Len(q) + 1] = e
  BY PushFacts
<1>1. \A i \in DOMAIN Append(q, e) : i \in DOMAIN q \/ i = Len(q) + 1
  BY <1>0
<1>2. QED
  BY <1>0, <1>1

\* Popping from a queue without duplicates leaves none, and no copy of the front.
LEMMA PopDistinct ==
    ASSUME NEW S, NEW q \in Seq(S), q # <<>>,
           \A i, j \in DOMAIN q : q[i] = q[j] => i = j
    PROVE  /\ \A i, j \in DOMAIN Tail(q) : Tail(q)[i] = Tail(q)[j] => i = j
           /\ \A i \in DOMAIN Tail(q) : Tail(q)[i] # Head(q)
<1>0. /\ 1 \in DOMAIN q /\ Head(q) = q[1] /\ Len(q) \in Nat
      /\ DOMAIN Tail(q) = 1 .. Len(q) - 1
      /\ \A i \in 1 .. Len(q) - 1 : i + 1 \in DOMAIN q /\ Tail(q)[i] = q[i + 1]
  BY PopFacts
<1>1. ASSUME NEW i \in DOMAIN Tail(q), NEW j \in DOMAIN Tail(q), Tail(q)[i] = Tail(q)[j]
      PROVE  i = j
  <2>1. q[i + 1] = q[j + 1] /\ i + 1 \in DOMAIN q /\ j + 1 \in DOMAIN q
    BY <1>0, <1>1
  <2>2. i + 1 = j + 1
    BY <2>1
  <2>3. QED
    BY <1>0, <2>2
<1>2. ASSUME NEW i \in DOMAIN Tail(q) PROVE Tail(q)[i] # Head(q)
  <2>1. i + 1 \in DOMAIN q /\ i + 1 # 1 /\ Tail(q)[i] = q[i + 1]
    BY <1>0
  <2>2. QED
    BY <1>0, <2>1
<1>3. QED
  BY <1>1, <1>2

-----------------------------------------------------------------------------
(* Typing                                                                   *)

\* The types hold together with OnePool, without which Start could lose a request.
TypeInv == TypeOK /\ OnePool

LEMMA InitTypeInv == Init => TypeInv
<1> SUFFICES ASSUME Init PROVE TypeInv
  OBVIOUS
<1>1. queue \in Seq(Requests)
  BY DEF Init
<1>2. state \in [Requests -> States]
  BY DEF Init, States
<1>3. stats \in [total : Nat, completed : Nat, failed : Nat, timeout : Nat, active : Nat]
  BY DEF Init
<1>4. starts \in 0 .. MaxStarts
  BY ConstantsAssumption DEF Init
<1>5. QED
  BY <1>1, <1>2, <1>3, <1>4 DEF Init, TypeInv, TypeOK, OnePool

LEMMA NotifyOneTypes ==
    ASSUME TypeOK, OnePool, NotifyOne
    PROVE  /\ wpc' \in [Workers -> {"exited", "wait", "blocking", "asleep",
                                    "begin", "run", "drain", "move"}]
           /\ \A w \in Workers : wpc'[w] = wpc[w] \/ (wpc[w] = "asleep" /\ wpc'[w] = "wait")
  BY DEF TypeOK, NotifyOne

\* A counter update keeps the record of counters well typed.
LEMMA StatsTypes ==
    ASSUME TypeOK, NEW n \in {"total", "completed", "failed", "timeout", "active"}
    PROVE  /\ [stats EXCEPT ![n] = (@ + 1) % StatModulus]
                 \in [total : Nat, completed : Nat, failed : Nat, timeout : Nat, active : Nat]
           /\ [stats EXCEPT !.active = (@ - 1) % StatModulus]
                 \in [total : Nat, completed : Nat, failed : Nat, timeout : Nat, active : Nat]
           /\ [stats EXCEPT !.total = (@ + 1) % StatModulus, !.active = (@ + 1) % StatModulus]
                 \in [total : Nat, completed : Nat, failed : Nat, timeout : Nat, active : Nat]
<1>1. StatModulus \in Nat \ {0}
  BY ConstantsAssumption
<1>2. \A k \in Nat : (k + 1) % StatModulus \in Nat /\ (k - 1) % StatModulus \in Nat
  BY <1>1, CounterWraps
<1>3. QED
  BY <1>2 DEF TypeOK

\* So does settling a request, which also leaves its state typed.
LEMMA SettleTypes ==
    ASSUME TypeOK, NEW w \in Workers, wreq[w] \in Requests, NEW o \in States,
           NEW counter \in {"completed", "failed", "timeout"}, Settle(w, o, counter)
    PROVE  /\ state' \in [Requests -> States]
           /\ stats' \in [total : Nat, completed : Nat, failed : Nat, timeout : Nat, active : Nat]
<1>1. [stats EXCEPT ![counter] = (@ + 1) % StatModulus]
        \in [total : Nat, completed : Nat, failed : Nat, timeout : Nat, active : Nat]
  BY StatsTypes
<1>2. QED
  BY <1>1 DEF TypeOK, Settle

\* Both clean-ups only remove requests from the history.
LEMMA HistoryTypes ==
    ASSUME TypeOK, NEW r \in Requests
    PROVE  WithHistory(r) \in SUBSET Requests
  BY DEF TypeOK, WithHistory, Newest

LEMMA NewestTypes ==
    ASSUME TypeOK, NEW n
    PROVE  Newest(completed, n) \in SUBSET Requests
  BY DEF TypeOK, Newest

LEMMA TypeStep == TypeInv /\ [Next]_vars => TypeInv'
<1> SUFFICES ASSUME TypeInv, [Next]_vars
             PROVE  TypeInv'
  OBVIOUS
<1> USE ConstantsAssumption DEF TypeInv, TypeOK, OnePool
<1>1. ASSUME NEW c \in Clients, NEW r \in Requests, SubmitCheck(c, r) PROVE TypeInv'
  BY <1>1 DEF SubmitCheck, Fresh, recordVars, mapVars, clientVars, workerVars, poolVars
<1>2. ASSUME NEW c \in Clients, SubmitCreate(c) PROVE TypeInv'
  BY <1>2 DEF SubmitCreate, States, Live, recordVars, mapVars, clientVars, workerVars, poolVars
<1>3. ASSUME NEW c \in Clients, SubmitEnqueue(c) PROVE TypeInv'
  BY <1>3, PushFacts DEF SubmitEnqueue, recordVars, mapVars, clientVars, workerVars, poolVars
<1>4. ASSUME NEW c \in Clients, SubmitRegister(c) PROVE TypeInv'
  <2>1. creq[c] \in Requests
    BY <1>4 DEF SubmitRegister
  <2>2. /\ active' \in SUBSET Requests
        /\ stats' \in [total : Nat, completed : Nat, failed : Nat, timeout : Nat, active : Nat]
    BY <1>4, <2>1, StatsTypes DEF SubmitRegister
  <2>3. /\ cpc' \in [Clients -> {"idle", "checked", "created", "queued"}]
        /\ creq' \in [Clients -> Requests \cup {None}]
        /\ \A d \in Clients : creq'[d] = None <=> cpc'[d] = "idle"
    BY <1>4 DEF SubmitRegister
  <2>4. /\ wpc' \in [Workers -> {"exited", "wait", "blocking", "asleep",
                                "begin", "run", "drain", "move"}]
        /\ \A w \in Workers : wpc'[w] = wpc[w] \/ (wpc[w] = "asleep" /\ wpc'[w] = "wait")
        /\ wreq' = wreq
    BY <1>4, NotifyOneTypes DEF SubmitRegister
  <2>5. \A w \in Workers : wreq'[w] = None <=> wpc'[w] \in {"exited", "wait", "blocking", "asleep"}
    BY <2>4
  <2>6. UNCHANGED <<queue, state, stamp, clock, completed, cancelling, running, control, starts>>
    BY <1>4 DEF SubmitRegister, recordVars, poolVars
  <2>7. TypeOK'
    BY <2>2, <2>3, <2>4, <2>5, <2>6
  <2>8. OnePool'
    BY <2>4, <2>6
  <2>9. QED
    BY <2>7, <2>8
<1>5. ASSUME NEW r \in Requests, CancelMark(r) PROVE TypeInv'
  BY <1>5 DEF CancelMark, States, Terminal, recordVars, mapVars, clientVars, workerVars, poolVars
<1>6. ASSUME NEW r \in Requests, CancelMove(r) PROVE TypeInv'
  BY <1>6, HistoryTypes DEF CancelMove, recordVars, mapVars, clientVars, workerVars, poolVars
<1>7. ASSUME NEW keep \in 0 .. MaxHistory, CleanupCompleted(keep) PROVE TypeInv'
  BY <1>7, NewestTypes DEF CleanupCompleted, recordVars, mapVars, clientVars, workerVars, poolVars
<1>8. ASSUME NEW w \in Workers, WorkerExit(w) PROVE TypeInv'
  BY <1>8 DEF WorkerExit, recordVars, mapVars, clientVars, workerVars, poolVars
<1>9. ASSUME NEW w \in Workers, WorkerTake(w) PROVE TypeInv'
  BY <1>9, PopFacts DEF WorkerTake, recordVars, mapVars, clientVars, workerVars, poolVars
<1>10. ASSUME NEW w \in Workers, WorkerBlock(w) PROVE TypeInv'
  BY <1>10 DEF WorkerBlock, recordVars, mapVars, clientVars, workerVars, poolVars
<1>11. ASSUME NEW w \in Workers, WorkerSleep(w) PROVE TypeInv'
  BY <1>11 DEF WorkerSleep, recordVars, mapVars, clientVars, workerVars, poolVars
<1>12. ASSUME NEW w \in Workers, BeginProcessing(w) PROVE TypeInv'
  BY <1>12 DEF BeginProcessing, States, Live, recordVars, mapVars, clientVars, workerVars, poolVars
<1>13. ASSUME NEW w \in Workers, FunctionReturns(w) PROVE TypeInv'
  <2>1. /\ wpc[w] = "run" /\ wpc' = [wpc EXCEPT ![w] = "move"]
        /\ Settle(w, "COMPLETED", "completed") \/ Settle(w, "FAILED", "failed")
        /\ UNCHANGED <<queue, stamp, clock, active, completed, cpc, creq, wreq, cancelling>>
        /\ UNCHANGED <<running, control, starts>>
    BY <1>13 DEF FunctionReturns, mapVars, clientVars, poolVars
  <2>2. wreq[w] \in Requests
    BY <2>1
  <2>3. {"COMPLETED", "FAILED", "TIMEOUT"} \subseteq States
    BY DEF States, Terminal
  <2>4. /\ state' \in [Requests -> States]
        /\ stats' \in [total : Nat, completed : Nat, failed : Nat, timeout : Nat, active : Nat]
    BY <2>1, <2>2, <2>3, SettleTypes
  <2>5. QED
    BY <2>1, <2>4
<1>14. ASSUME NEW w \in Workers, FunctionTimesOut(w) PROVE TypeInv'
  <2>1. /\ wpc[w] = "run" /\ wpc' = [wpc EXCEPT ![w] = "drain"]
        /\ Settle(w, "TIMEOUT", "timeout")
        /\ UNCHANGED <<queue, stamp, clock, active, completed, cpc, creq, wreq, cancelling>>
        /\ UNCHANGED <<running, control, starts>>
    BY <1>14 DEF FunctionTimesOut, mapVars, clientVars, poolVars
  <2>2. wreq[w] \in Requests
    BY <2>1
  <2>3. {"COMPLETED", "FAILED", "TIMEOUT"} \subseteq States
    BY DEF States, Terminal
  <2>4. /\ state' \in [Requests -> States]
        /\ stats' \in [total : Nat, completed : Nat, failed : Nat, timeout : Nat, active : Nat]
    BY <2>1, <2>2, <2>3, SettleTypes
  <2>5. QED
    BY <2>1, <2>4
<1>15. ASSUME NEW w \in Workers, FunctionDrains(w) PROVE TypeInv'
  BY <1>15 DEF FunctionDrains, recordVars, mapVars, clientVars, workerVars, poolVars
<1>16. ASSUME NEW w \in Workers, WorkerMove(w) PROVE TypeInv'
  BY <1>16, HistoryTypes, StatsTypes DEF WorkerMove, recordVars, mapVars, clientVars, workerVars, poolVars
<1>17. CASE Start
  BY <1>17 DEF Start, recordVars, mapVars, clientVars, workerVars, poolVars
<1>18. CASE StopSignal
  BY <1>18 DEF StopSignal, recordVars, mapVars, clientVars, workerVars, poolVars
<1>19. CASE StopNotify
  BY <1>19 DEF StopNotify, recordVars, mapVars, clientVars, workerVars, poolVars
<1>20. CASE StopJoin
  BY <1>20 DEF StopJoin, recordVars, mapVars, clientVars, workerVars, poolVars
<1>21. CASE UNCHANGED vars
  BY <1>21 DEF vars, recordVars, mapVars, clientVars, workerVars, poolVars
<1>22. QED
  BY <1>1, <1>2, <1>3, <1>4, <1>5, <1>6, <1>7, <1>8, <1>9, <1>10, <1>11, <1>12, <1>13, <1>14, <1>15, <1>16, <1>17, <1>18, <1>19, <1>20, <1>21
     DEF Next, ClientStep, WorkerStep, ControlStep

\* Every reachable state is well typed, and the pool is started only when all workers of
\* the previous one are gone (start, stop and the loops of worker_thread).
THEOREM TypeCorrect == Spec => [](TypeOK /\ OnePool)
<1>1. TypeInv /\ [Next]_vars => TypeInv'
  BY TypeStep
<1>2. QED
  BY InitTypeInv, <1>1, PTL DEF Spec, TypeInv

\* In particular there is never a second pool of workers beside one that is still alive.
THEOREM NeverTwoPools == Spec => []OnePool
<1>1. TypeOK /\ OnePool => OnePool
  OBVIOUS
<1>2. QED
  BY <1>1, TypeCorrect, PTL

-----------------------------------------------------------------------------
(* Where every request is                                                   *)

\* The inductive invariant.  NoDoubleDelivery alone is not inductive: that a request being
\* pushed is neither queued nor with a worker is part of StagesAgree, which in turn needs
\* that a request is with one worker only.
IInv == TypeInv /\ NoDoubleDelivery /\ StagesAgree /\ LiveIsListed

\* A push of a request that neither the queue nor a worker has delivers nothing twice.
LEMMA PushDeliversOnce ==
    ASSUME NoDoubleDelivery, NEW r, UNCHANGED wreq,
           \A i, j \in DOMAIN queue' : queue'[i] = queue'[j] => i = j,
           \A i \in DOMAIN queue' : queue'[i] = r \/ (i \in DOMAIN queue /\ queue'[i] = queue[i]),
           \A w \in Workers : wreq[w] # r
    PROVE  NoDoubleDelivery'
<1>1. ASSUME NEW w \in Workers, NEW i \in DOMAIN queue' PROVE wreq[w] # queue'[i]
  <2>1. CASE queue'[i] = r
    BY <2>1
  <2>2. CASE i \in DOMAIN queue /\ queue'[i] = queue[i]
    BY <2>2 DEF NoDoubleDelivery
  <2>3. QED
    BY <2>1, <2>2
<1>2. QED
  BY <1>1 DEF NoDoubleDelivery

\* A worker past the wait holds a request.
LEMMA WorkersHold ==
    ASSUME TypeOK, NEW w \in Workers, wpc[w] \in {"begin", "run", "drain", "move"}
    PROVE  wreq[w] \in Requests
<1>1. /\ wreq \in [Workers -> Requests \cup {None}]
      /\ wreq[w] = None <=> wpc[w] \in {"exited", "wait", "blocking", "asleep"}
  BY DEF TypeOK
<1>2. QED
  BY <1>1

\* What StagesAgree says of a worker, instance by instance.
LEMMA WorkerStages ==
    ASSUME StagesAgree, NEW w \in Workers
    PROVE  /\ wpc[w] = "begin" => state[wreq[w]] \in {"PENDING", "CANCELLED"}
           /\ wpc[w] = "run" => state[wreq[w]] \in {"PROCESSING", "CANCELLED"}
           /\ wpc[w] \in {"drain", "move"} => state[wreq[w]] \in Terminal
  BY DEF StagesAgree

LEMMA InitIInv == Init => IInv
<1> SUFFICES ASSUME Init PROVE IInv
  OBVIOUS
<1>1. TypeInv
  BY InitTypeInv
<1>2. NoDoubleDelivery
  BY DEF Init, NoDoubleDelivery
<1>3. StagesAgree
  BY DEF Init, StagesAgree
<1>4. LiveIsListed
  BY DEF Init, LiveIsListed, Live
<1>5. QED
  BY <1>1, <1>2, <1>3, <1>4 DEF IInv

LEMMA IInvStep == IInv /\ [Next]_vars => IInv'
<1> SUFFICES ASSUME IInv, [Next]_vars
             PROVE  IInv'
  OBVIOUS
<1> USE DEF IInv, TypeInv, TypeOK, States, Live, Terminal
<1>0. TypeInv'
  BY TypeStep
<1>1. ASSUME NEW c \in Clients, NEW r \in Requests, SubmitCheck(c, r) PROVE IInv'
  <2> USE <1>1 DEF SubmitCheck, Fresh, recordVars, mapVars, clientVars, workerVars, poolVars
  <2>1. NoDoubleDelivery'
    BY DEF NoDoubleDelivery, StagesAgree, LiveIsListed
  <2>2. StagesAgree'
    BY DEF NoDoubleDelivery, StagesAgree, LiveIsListed
  <2>3. LiveIsListed'
    <3> SUFFICES ASSUME NEW q \in Requests, state[q] \in Live,
                        \A d \in Clients : creq'[d] # q
                 PROVE  q \in active
      BY DEF LiveIsListed
    <3>1. creq[c] # q
      BY ConstantsAssumption
    <3>2. \A d \in Clients : creq[d] # q
      BY <3>1
    <3>3. QED
      BY <3>2 DEF LiveIsListed
  <2>4. QED
    BY <1>0, <2>1, <2>2, <2>3
<1>2. ASSUME NEW c \in Clients, SubmitCreate(c) PROVE IInv'
  <2> USE <1>2 DEF SubmitCreate, recordVars, mapVars, clientVars, workerVars, poolVars
  <2>1. NoDoubleDelivery'
    BY DEF NoDoubleDelivery, StagesAgree, LiveIsListed
  <2>2. StagesAgree'
    <3> DEFINE r == creq[c]
    <3>1. r \in Requests /\ state[r] = "UNSUBMITTED"
      BY DEF StagesAgree
    <3>2. /\ r \notin active
          /\ \A i \in DOMAIN queue : queue[i] # r
          /\ \A w \in Workers : wreq[w] # r
      <4>1. r \notin active /\ \A i \in DOMAIN queue : queue[i] # r
        BY <3>1 DEF StagesAgree
      <4>2. ASSUME NEW w \in Workers, wreq[w] = r PROVE FALSE
        <5>1. wpc[w] \in {"begin", "run", "drain", "move"}
          BY <3>1, <4>2, ConstantsAssumption
        <5>2. QED
          BY <3>1, <4>2, <5>1 DEF StagesAgree
      <4>3. QED
        BY <4>1, <4>2
    <3>3. \A d \in Clients \ {c} : creq[d] # r
      BY <3>1, ConstantsAssumption DEF StagesAgree
    <3>4. \A q \in Requests \ {r} : state'[q] = state[q]
      BY <3>1
    <3>5. \A d \in Clients :
            /\ cpc'[d] = "checked" => state'[creq[d]] = "UNSUBMITTED"
            /\ cpc'[d] = "created" =>
                 /\ state'[creq[d]] = "PENDING"
                 /\ creq[d] \notin active
                 /\ \A i \in DOMAIN queue : queue[i] # creq[d]
                 /\ \A w \in Workers : wreq[w] # creq[d]
            /\ cpc'[d] = "queued" => state'[creq[d]] # "UNSUBMITTED"
      <4> TAKE d \in Clients
      <4>1. CASE d = c
        BY <3>1, <3>2, <4>1
      <4>2. CASE d # c
        BY <3>3, <3>4, <4>2 DEF StagesAgree
      <4>3. QED
        BY <4>1, <4>2
    <3>6. \A i \in DOMAIN queue : state'[queue[i]] \in {"PENDING", "CANCELLED"}
      BY <3>2, <3>4 DEF StagesAgree
    <3>7. \A w \in Workers :
            /\ wpc[w] = "begin" => state'[wreq[w]] \in {"PENDING", "CANCELLED"}
            /\ wpc[w] = "run" => state'[wreq[w]] \in {"PROCESSING", "CANCELLED"}
            /\ wpc[w] \in {"drain", "move"} => state'[wreq[w]] \in Terminal
      BY <3>2, <3>4 DEF StagesAgree
    <3>8. /\ \A q \in active : state'[q] # "UNSUBMITTED"
          /\ \A q \in cancelling : state'[q] = "CANCELLED"
      BY <3>1, <3>2, <3>4 DEF StagesAgree
    <3>9. \A d, e \in Clients : creq'[d] = creq'[e] /\ creq'[d] # None => d = e
      BY DEF StagesAgree
    <3>10. QED
      BY <3>5, <3>6, <3>7, <3>8, <3>9 DEF StagesAgree
  <2>3. LiveIsListed'
    BY DEF NoDoubleDelivery, StagesAgree, LiveIsListed
  <2>4. QED
    BY <1>0, <2>1, <2>2, <2>3
<1>3. ASSUME NEW c \in Clients, SubmitEnqueue(c) PROVE IInv'
  <2>a. /\ queue \in Seq(Requests) /\ creq[c] \in Requests
        /\ queue' = Append(queue, creq[c]) /\ wreq' = wreq
    BY <1>3 DEF SubmitEnqueue, TypeInv, TypeOK, workerVars
  <2>b. /\ \A i \in DOMAIN queue : queue[i] # creq[c]
        /\ \A w \in Workers : wreq[w] # creq[c]
    BY <1>3 DEF SubmitEnqueue, StagesAgree
  <2>c. \A i, j \in DOMAIN queue : queue[i] = queue[j] => i = j
    BY DEF NoDoubleDelivery
  <2>d. /\ \A i, j \in DOMAIN queue' : queue'[i] = queue'[j] => i = j
        /\ \A i \in DOMAIN queue' :
              queue'[i] = creq[c] \/ (i \in DOMAIN queue /\ queue'[i] = queue[i])
    <3> HIDE DEF IInv, TypeInv, TypeOK, States, Live, Terminal
    <3>1. /\ \A i, j \in DOMAIN Append(queue, creq[c]) :
                Append(queue, creq[c])[i] = Append(queue, creq[c])[j] => i = j
          /\ \A i \in DOMAIN Append(queue, creq[c]) :
                \/ Append(queue, creq[c])[i] = creq[c]
                \/ i \in DOMAIN queue /\ Append(queue, creq[c])[i] = queue[i]
      BY <2>a, <2>b, <2>c, PushDistinct
    <3>2. QED
      BY <2>a, <3>1, Zenon
  <2>1. NoDoubleDelivery'
    BY <2>a, <2>b, <2>d, PushDeliversOnce
  <2> USE <1>3, PushFacts DEF SubmitEnqueue, recordVars, mapVars, clientVars, workerVars, poolVars
  <2>2. StagesAgree'
    BY DEF NoDoubleDelivery, StagesAgree, LiveIsListed
  <2>3. LiveIsListed'
    BY DEF NoDoubleDelivery, StagesAgree, LiveIsListed
  <2>4. QED
    BY <1>0, <2>1, <2>2, <2>3
<1>4. ASSUME NEW c \in Clients, SubmitRegister(c) PROVE IInv'
  <2> USE <1>4, NotifyOneTypes DEF SubmitRegister, recordVars, mapVars, clientVars, workerVars, poolVars
  <2>1. NoDoubleDelivery'
    BY DEF NoDoubleDelivery, StagesAgree, LiveIsListed
  <2>2. StagesAgree'
    BY DEF NoDoubleDelivery, StagesAgree, LiveIsListed
  <2>3. LiveIsListed'
    BY DEF NoDoubleDelivery, StagesAgree, LiveIsListed
  <2>4. QED
    BY <1>0, <2>1, <2>2, <2>3
<1>5. ASSUME NEW r \in Requests, CancelMark(r) PROVE IInv'
  <2> USE <1>5 DEF CancelMark, recordVars, mapVars, clientVars, workerVars, poolVars
  <2>1. NoDoubleDelivery'
    BY DEF NoDoubleDelivery, StagesAgree, LiveIsListed
  <2>2. StagesAgree'
    BY DEF NoDoubleDelivery, StagesAgree, LiveIsListed
  <2>3. LiveIsListed'
    BY DEF NoDoubleDelivery, StagesAgree, LiveIsListed
  <2>4. QED
    BY <1>0, <2>1, <2>2, <2>3
<1>6. ASSUME NEW r \in Requests, CancelMove(r) PROVE IInv'
  <2> USE <1>6 DEF CancelMove, recordVars, mapVars, clientVars, workerVars, poolVars
  <2>1. NoDoubleDelivery'
    BY DEF NoDoubleDelivery, StagesAgree, LiveIsListed
  <2>2. StagesAgree'
    BY DEF NoDoubleDelivery, StagesAgree, LiveIsListed
  <2>3. LiveIsListed'
    BY DEF NoDoubleDelivery, StagesAgree, LiveIsListed
  <2>4. QED
    BY <1>0, <2>1, <2>2, <2>3
<1>7. ASSUME NEW keep \in 0 .. MaxHistory, CleanupCompleted(keep) PROVE IInv'
  <2> USE <1>7 DEF CleanupCompleted, recordVars, mapVars, clientVars, workerVars, poolVars
  <2>1. NoDoubleDelivery'
    BY DEF NoDoubleDelivery, StagesAgree, LiveIsListed
  <2>2. StagesAgree'
    BY DEF NoDoubleDelivery, StagesAgree, LiveIsListed
  <2>3. LiveIsListed'
    BY DEF NoDoubleDelivery, StagesAgree, LiveIsListed
  <2>4. QED
    BY <1>0, <2>1, <2>2, <2>3
<1>8. ASSUME NEW w \in Workers, WorkerExit(w) PROVE IInv'
  <2> USE <1>8 DEF WorkerExit, recordVars, mapVars, clientVars, workerVars, poolVars
  <2>1. NoDoubleDelivery'
    BY DEF NoDoubleDelivery, StagesAgree, LiveIsListed
  <2>2. StagesAgree'
    BY DEF NoDoubleDelivery, StagesAgree, LiveIsListed
  <2>3. LiveIsListed'
    BY DEF NoDoubleDelivery, StagesAgree, LiveIsListed
  <2>4. QED
    BY <1>0, <2>1, <2>2, <2>3
<1>9. ASSUME NEW w \in Workers, WorkerTake(w) PROVE IInv'
  <2>a. queue \in Seq(Requests) /\ queue # <<>> /\ queue' = Tail(queue)
    BY <1>9 DEF WorkerTake, TypeInv, TypeOK
  <2>b. /\ \A i, j \in DOMAIN queue' : queue'[i] = queue'[j] => i = j
        /\ \A i \in DOMAIN queue' : queue'[i] # Head(queue)
    <3>1. \A i, j \in DOMAIN queue : queue[i] = queue[j] => i = j
      BY DEF NoDoubleDelivery
    <3>2. QED
      <4> HIDE DEF IInv, TypeInv, TypeOK, States, Live, Terminal
      <4>1. QED
        BY <2>a, <3>1, PopDistinct
  <2> USE <1>9, PopFacts DEF WorkerTake, recordVars, mapVars, clientVars, workerVars, poolVars
  <2>1. NoDoubleDelivery'
    <3> DEFINE r == Head(queue)
    <3>1. /\ r \in Requests /\ 1 \in DOMAIN queue /\ r = queue[1]
          /\ DOMAIN queue' = 1 .. Len(queue) - 1
          /\ \A i \in 1 .. Len(queue) - 1 : i + 1 \in DOMAIN queue /\ queue'[i] = queue[i + 1]
      OBVIOUS
    <3>4. /\ wreq'[w] = r
          /\ \A v \in Workers \ {w} : wreq'[v] = wreq[v] /\ wreq[v] # r
      BY <3>1 DEF NoDoubleDelivery
    <3>5. \A v \in Workers, i \in DOMAIN queue' : wreq'[v] # queue'[i]
      BY <2>b, <3>1, <3>4 DEF NoDoubleDelivery
    <3>6. \A u, v \in Workers : wreq'[u] = wreq'[v] /\ wreq'[u] # None => u = v
      BY <3>4 DEF NoDoubleDelivery
    <3>7. QED
      BY <2>b, <3>5, <3>6 DEF NoDoubleDelivery
  <2>2. StagesAgree'
    BY DEF NoDoubleDelivery, StagesAgree, LiveIsListed
  <2>3. LiveIsListed'
    BY DEF NoDoubleDelivery, StagesAgree, LiveIsListed
  <2>4. QED
    BY <1>0, <2>1, <2>2, <2>3
<1>10. ASSUME NEW w \in Workers, WorkerBlock(w) PROVE IInv'
  <2> USE <1>10 DEF WorkerBlock, recordVars, mapVars, clientVars, workerVars, poolVars
  <2>1. NoDoubleDelivery'
    BY DEF NoDoubleDelivery, StagesAgree, LiveIsListed
  <2>2. StagesAgree'
    BY DEF NoDoubleDelivery, StagesAgree, LiveIsListed
  <2>3. LiveIsListed'
    BY DEF NoDoubleDelivery, StagesAgree, LiveIsListed
  <2>4. QED
    BY <1>0, <2>1, <2>2, <2>3
<1>11. ASSUME NEW w \in Workers, WorkerSleep(w) PROVE IInv'
  <2> USE <1>11 DEF WorkerSleep, recordVars, mapVars, clientVars, workerVars, poolVars
  <2>1. NoDoubleDelivery'
    BY DEF NoDoubleDelivery, StagesAgree, LiveIsListed
  <2>2. StagesAgree'
    BY DEF NoDoubleDelivery, StagesAgree, LiveIsListed
  <2>3. LiveIsListed'
    BY DEF NoDoubleDelivery, StagesAgree, LiveIsListed
  <2>4. QED
    BY <1>0, <2>1, <2>2, <2>3
<1>12. ASSUME NEW w \in Workers, BeginProcessing(w) PROVE IInv'
  <2> USE <1>12 DEF BeginProcessing, recordVars, mapVars, clientVars, workerVars, poolVars
  <2>1. NoDoubleDelivery'
    BY DEF NoDoubleDelivery, StagesAgree, LiveIsListed
  <2>2. StagesAgree'
    BY DEF NoDoubleDelivery, StagesAgree, LiveIsListed
  <2>3. LiveIsListed'
    BY DEF NoDoubleDelivery, StagesAgree, LiveIsListed
  <2>4. QED
    BY <1>0, <2>1, <2>2, <2>3
<1>13. ASSUME NEW w \in Workers, FunctionReturns(w) PROVE IInv'
  <2> USE <1>13 DEF FunctionReturns, Settle, recordVars, mapVars, clientVars, workerVars, poolVars
  <2>1. NoDoubleDelivery'
    BY DEF NoDoubleDelivery, StagesAgree, LiveIsListed
  <2>2. StagesAgree'
    <3> DEFINE r == wreq[w]
    <3>1. r \in Requests /\ state[r] \in {"PROCESSING", "CANCELLED"}
      <4>1. wpc[w] = "run"
        OBVIOUS
      <4>2. wreq[w] \in Requests
        BY <4>1
      <4>3. QED
        BY <4>1, <4>2 DEF StagesAgree
    <3>2. /\ state' \in [Requests -> States] /\ state'[r] \in Terminal
          /\ state[r] = "CANCELLED" => state'[r] = "CANCELLED"
          /\ \A q \in Requests \ {r} : state'[q] = state[q]
      BY <3>1
    <3>3. \A i \in DOMAIN queue : queue[i] \in Requests \ {r}
      BY DEF NoDoubleDelivery
    <3>4. \A v \in Workers \ {w} : wreq[v] # r /\ wpc'[v] = wpc[v]
      BY <3>1, ConstantsAssumption DEF NoDoubleDelivery
    <3>5. \A v \in Workers :
            /\ wpc'[v] = "begin" => state'[wreq[v]] \in {"PENDING", "CANCELLED"}
            /\ wpc'[v] = "run" => state'[wreq[v]] \in {"PROCESSING", "CANCELLED"}
            /\ wpc'[v] \in {"drain", "move"} => state'[wreq[v]] \in Terminal
      <4> TAKE v \in Workers
      <4>1. CASE v = w
        BY <3>2, <4>1
      <4>2. CASE v # w
        <5>1. wpc'[v] = wpc[v] /\ wreq[v] # r
          BY <3>4, <4>2
        <5>2. CASE wreq[v] = None
          BY <5>1, <5>2
        <5>3. CASE wreq[v] \in Requests
          BY <3>2, <5>1, <5>3 DEF StagesAgree
        <5>4. QED
          BY <5>2, <5>3
      <4>3. QED
        BY <4>1, <4>2
    <3>6. \A d \in Clients :
            /\ cpc[d] = "checked" => state'[creq[d]] = "UNSUBMITTED"
            /\ cpc[d] = "created" => state'[creq[d]] = "PENDING"
            /\ cpc[d] = "queued" => state'[creq[d]] # "UNSUBMITTED"
      BY <3>1, <3>2 DEF StagesAgree
    <3>7. QED
      BY <3>1, <3>2, <3>3, <3>5, <3>6 DEF StagesAgree
  <2>3. LiveIsListed'
    BY DEF NoDoubleDelivery, StagesAgree, LiveIsListed
  <2>4. QED
    BY <1>0, <2>1, <2>2, <2>3
<1>14. ASSUME NEW w \in Workers, FunctionTimesOut(w) PROVE IInv'
  <2> USE <1>14 DEF FunctionTimesOut, Settle, recordVars, mapVars, clientVars, workerVars, poolVars
  <2>1. NoDoubleDelivery'
    BY DEF NoDoubleDelivery, StagesAgree, LiveIsListed
  <2>2. StagesAgree'
    <3> DEFINE r == wreq[w]
    <3>1. r \in Requests /\ state[r] \in {"PROCESSING", "CANCELLED"}
      <4>1. wpc[w] = "run"
        OBVIOUS
      <4>2. wreq[w] \in Requests
        BY <4>1
      <4>3. QED
        BY <4>1, <4>2 DEF StagesAgree
    <3>2. /\ state' \in [Requests -> States] /\ state'[r] \in Terminal
          /\ state[r] = "CANCELLED" => state'[r] = "CANCELLED"
          /\ \A q \in Requests \ {r} : state'[q] = state[q]
      BY <3>1
    <3>3. \A i \in DOMAIN queue : queue[i] \in Requests \ {r}
      BY DEF NoDoubleDelivery
    <3>4. \A v \in Workers \ {w} : wreq[v] # r /\ wpc'[v] = wpc[v]
      BY <3>1, ConstantsAssumption DEF NoDoubleDelivery
    <3>5. \A v \in Workers :
            /\ wpc'[v] = "begin" => state'[wreq[v]] \in {"PENDING", "CANCELLED"}
            /\ wpc'[v] = "run" => state'[wreq[v]] \in {"PROCESSING", "CANCELLED"}
            /\ wpc'[v] \in {"drain", "move"} => state'[wreq[v]] \in Terminal
      <4> TAKE v \in Workers
      <4>1. CASE v = w
        BY <3>2, <4>1
      <4>2. CASE v # w
        <5>1. wpc'[v] = wpc[v] /\ wreq[v] # r
          BY <3>4, <4>2
        <5>2. CASE wreq[v] = None
          BY <5>1, <5>2
        <5>3. CASE wreq[v] \in Requests
          BY <3>2, <5>1, <5>3 DEF StagesAgree
        <5>4. QED
          BY <5>2, <5>3
      <4>3. QED
        BY <4>1, <4>2
    <3>6. \A d \in Clients :
            /\ cpc[d] = "checked" => state'[creq[d]] = "UNSUBMITTED"
            /\ cpc[d] = "created" => state'[creq[d]] = "PENDING"
            /\ cpc[d] = "queued" => state'[creq[d]] # "UNSUBMITTED"
      BY <3>1, <3>2 DEF StagesAgree
    <3>7. QED
      BY <3>1, <3>2, <3>3, <3>5, <3>6 DEF StagesAgree
  <2>3. LiveIsListed'
    BY DEF NoDoubleDelivery, StagesAgree, LiveIsListed
  <2>4. QED
    BY <1>0, <2>1, <2>2, <2>3
<1>15. ASSUME NEW w \in Workers, FunctionDrains(w) PROVE IInv'
  <2> USE <1>15 DEF FunctionDrains, recordVars, mapVars, clientVars, workerVars, poolVars
  <2>1. NoDoubleDelivery'
    BY DEF NoDoubleDelivery, StagesAgree, LiveIsListed
  <2>2. StagesAgree'
    BY DEF NoDoubleDelivery, StagesAgree, LiveIsListed
  <2>3. LiveIsListed'
    BY DEF NoDoubleDelivery, StagesAgree, LiveIsListed
  <2>4. QED
    BY <1>0, <2>1, <2>2, <2>3
<1>16. ASSUME NEW w \in Workers, WorkerMove(w) PROVE IInv'
  <2> USE <1>16 DEF WorkerMove, recordVars, mapVars, clientVars, workerVars, poolVars
  <2>1. NoDoubleDelivery'
    <3>1. wreq'[w] = None /\ \A v \in Workers \ {w} : wreq'[v] = wreq[v]
      OBVIOUS
    <3>2. \A i \in DOMAIN queue : queue[i] # None
      BY ConstantsAssumption
    <3>3. QED
      BY <3>1, <3>2 DEF NoDoubleDelivery
  <2>2. StagesAgree'
    <3>1. /\ \A v \in Workers : v # w => wpc'[v] = wpc[v] /\ wreq'[v] = wreq[v]
          /\ wpc'[w] = "wait" /\ wreq'[w] = None
          /\ \A q \in active' : q \in active
      OBVIOUS
    <3>2. \A v \in Workers :
            /\ wpc'[v] = "begin" => state[wreq'[v]] \in {"PENDING", "CANCELLED"}
            /\ wpc'[v] = "run" => state[wreq'[v]] \in {"PROCESSING", "CANCELLED"}
            /\ wpc'[v] \in {"drain", "move"} => state[wreq'[v]] \in Terminal
      BY <3>1, WorkerStages
    <3>3. \A c \in Clients : cpc[c] = "created" => \A v \in Workers : wreq'[v] # creq[c]
      BY <3>1, ConstantsAssumption DEF StagesAgree
    <3>4. /\ \A c, d \in Clients : creq'[c] = creq'[d] /\ creq'[c] # None => c = d
          /\ \A r \in active' : state'[r] # "UNSUBMITTED"
          /\ \A r \in cancelling' : state'[r] = "CANCELLED"
          /\ \A i \in DOMAIN queue' : state'[queue'[i]] \in {"PENDING", "CANCELLED"}
      BY <3>1 DEF StagesAgree
    <3>5. \A c \in Clients :
            /\ cpc[c] = "checked" => state[creq[c]] = "UNSUBMITTED"
            /\ cpc[c] = "created" =>
                 /\ state[creq[c]] = "PENDING"
                 /\ creq[c] \notin active
                 /\ \A i \in DOMAIN queue : queue[i] # creq[c]
            /\ cpc[c] = "queued" => state[creq[c]] # "UNSUBMITTED"
      BY DEF StagesAgree
    <3>6. UNCHANGED <<state, cpc, creq, queue>>
      OBVIOUS
    <3>7. QED
      BY <3>1, <3>2, <3>3, <3>4, <3>5, <3>6 DEF StagesAgree
  <2>3. LiveIsListed'
    <3>1. state[wreq[w]] \in Terminal
      BY WorkerStages
    <3>2. active' = active \ {wreq[w]} /\ state' = state /\ creq' = creq
      OBVIOUS
    <3>3. \A r \in Requests : state[r] \in Live => r # wreq[w]
      BY <3>1
    <3>4. QED
      BY <3>2, <3>3 DEF LiveIsListed
  <2>4. QED
    BY <1>0, <2>1, <2>2, <2>3
<1>17. CASE Start
  <2> USE <1>17 DEF Start, recordVars, mapVars, clientVars, workerVars, poolVars
  <2>1. NoDoubleDelivery'
    BY DEF NoDoubleDelivery, StagesAgree, LiveIsListed
  <2>2. StagesAgree'
    BY DEF NoDoubleDelivery, StagesAgree, LiveIsListed
  <2>3. LiveIsListed'
    BY DEF NoDoubleDelivery, StagesAgree, LiveIsListed
  <2>4. QED
    BY <1>0, <2>1, <2>2, <2>3
<1>18. CASE StopSignal
  <2> USE <1>18 DEF StopSignal, recordVars, mapVars, clientVars, workerVars, poolVars
  <2>1. NoDoubleDelivery'
    BY DEF NoDoubleDelivery, StagesAgree, LiveIsListed
  <2>2. StagesAgree'
    BY DEF NoDoubleDelivery, StagesAgree, LiveIsListed
  <2>3. LiveIsListed'
    BY DEF NoDoubleDelivery, StagesAgree, LiveIsListed
  <2>4. QED
    BY <1>0, <2>1, <2>2, <2>3
<1>19. CASE StopNotify
  <2> USE <1>19 DEF StopNotify, recordVars, mapVars, clientVars, workerVars, poolVars
  <2>1. NoDoubleDelivery'
    BY DEF NoDoubleDelivery, StagesAgree, LiveIsListed
  <2>2. StagesAgree'
    BY DEF NoDoubleDelivery, StagesAgree, LiveIsListed
  <2>3. LiveIsListed'
    BY DEF NoDoubleDelivery, StagesAgree, LiveIsListed
  <2>4. QED
    BY <1>0, <2>1, <2>2, <2>3
<1>20. CASE StopJoin
  <2> USE <1>20 DEF StopJoin, recordVars, mapVars, clientVars, workerVars, poolVars
  <2>1. NoDoubleDelivery'
    BY DEF NoDoubleDelivery, StagesAgree, LiveIsListed
  <2>2. StagesAgree'
    BY DEF NoDoubleDelivery, StagesAgree, LiveIsListed
  <2>3. LiveIsListed'
    BY DEF NoDoubleDelivery, StagesAgree, LiveIsListed
  <2>4. QED
    BY <1>0, <2>1, <2>2, <2>3
<1>21. CASE UNCHANGED vars
  BY <1>0, <1>21 DEF vars, NoDoubleDelivery, StagesAgree, LiveIsListed, recordVars, mapVars, clientVars, workerVars, poolVars
<1>22. QED
  BY <1>1, <1>2, <1>3, <1>4, <1>5, <1>6, <1>7, <1>8, <1>9, <1>10, <1>11, <1>12, <1>13, <1>14, <1>15, <1>16, <1>17, <1>18, <1>19, <1>20, <1>21
     DEF Next, ClientStep, WorkerStep, ControlStep

\* The inductive invariant holds in every reachable state.
LEMMA Placement == Spec => []IInv
<1>1. IInv /\ [Next]_vars => IInv'
  BY IInvStep
<1>2. QED
  BY InitIInv, <1>1, PTL DEF Spec

\* However submissions, workers and cancellations interleave, a request is delivered to one
\* worker at most (WorkerTake, the worker's critical section of worker_thread).
THEOREM DeliveredOnce == Spec => []NoDoubleDelivery
  BY Placement, PTL DEF IInv

\* A submitted request that is not settled can always be found and cancelled, although its
\* insertion into active_requests_ comes after the push and races with the worker.
THEOREM LiveRequestsListed == Spec => []LiveIsListed
  BY Placement, PTL DEF IInv

\* State, program counters and maps agree at every step.
THEOREM StagesOfRequestsAgree == Spec => []StagesAgree
  BY Placement, PTL DEF IInv

-----------------------------------------------------------------------------
(* Outcomes are final                                                       *)

LEMMA TerminalStep ==
    IInv /\ [Next]_vars =>
      [\A r \in Requests : state[r] \in Terminal => state'[r] = state[r]]_state
<1> SUFFICES ASSUME IInv, [Next]_vars, NEW r \in Requests, state[r] \in Terminal
             PROVE  state'[r] = state[r]
  OBVIOUS
<1> USE DEF IInv, TypeInv, TypeOK, States, Live, Terminal
<1>1. ASSUME NEW c \in Clients, SubmitCreate(c) PROVE state'[r] = state[r]
  BY <1>1 DEF SubmitCreate, StagesAgree
<1>2. ASSUME NEW q \in Requests, CancelMark(q) PROVE state'[r] = state[r]
  BY <1>2 DEF CancelMark
<1>3. ASSUME NEW w \in Workers, BeginProcessing(w) PROVE state'[r] = state[r]
  BY <1>3 DEF BeginProcessing, StagesAgree
<1>4. ASSUME NEW w \in Workers, FunctionReturns(w) \/ FunctionTimesOut(w)
      PROVE  state'[r] = state[r]
  <2>1. state[wreq[w]] \in {"PROCESSING", "CANCELLED"} /\ wreq[w] \in Requests
    <3>1. wpc[w] = "run"
      BY <1>4 DEF FunctionReturns, FunctionTimesOut
    <3>2. StagesAgree /\ wreq[w] \in Requests
      BY <3>1
    <3>3. QED
      BY <3>1, <3>2, WorkerStages
  <2>2. QED
    BY <1>4, <2>1 DEF FunctionReturns, FunctionTimesOut, Settle
<1>5. ASSUME UNCHANGED state PROVE state'[r] = state[r]
  BY <1>5
<1>6. QED
  BY <1>1, <1>2, <1>3, <1>4, <1>5
     DEF Next, ClientStep, WorkerStep, ControlStep, vars, recordVars, mapVars, clientVars, workerVars, poolVars,
         SubmitCheck, SubmitEnqueue, SubmitRegister, CancelMove, CleanupCompleted,
         WorkerExit, WorkerTake, WorkerBlock, WorkerSleep, FunctionDrains, WorkerMove,
         Start, StopSignal, StopNotify, StopJoin

\* A worker, its timeout and a canceller race for the outcome of a request; the first of
\* them to settle it wins for good (the tests for CANCELLED under requests_mutex_).
THEOREM OutcomesAreFinal == Spec => TerminalIsFinal
<1>1. IInv /\ [Next]_vars =>
        [\A r \in Requests : state[r] \in Terminal => state'[r] = state[r]]_state
  BY TerminalStep
<1>2. QED
  BY Placement, <1>1, PTL DEF Spec, TerminalIsFinal

-----------------------------------------------------------------------------
(* The overshoot of the queue                                               *)

\* Clients that passed the test of the queue's size and have not pushed yet.
Passed == {c \in Clients : cpc[c] \in {"checked", "created"}}

\* Every client past the test occupies a place: counted together, queue and clients exceed
\* the limit by less than the number of clients.
Occupied == Len(queue) + Cardinality(Passed)
OvershootInv == Occupied = 0 \/ Occupied < MaxQueueSize + Cardinality(Clients)

LEMMA PassedFinite ==
    ASSUME TypeOK
    PROVE  /\ IsFiniteSet(Passed) /\ Cardinality(Passed) \in Nat
           /\ Cardinality(Clients) \in Nat /\ Len(queue) \in Nat
  BY FS_Subset, FS_CardinalityType, ConstantsAssumption DEF Passed, TypeOK

\* A step that leaves the clients alone and does not lengthen the queue.
LEMMA OvershootKept ==
    ASSUME TypeOK, OvershootInv, cpc' = cpc, queue' \in Seq(Requests), Len(queue') <= Len(queue)
    PROVE  OvershootInv'
<1>1. Passed' = Passed
  BY DEF Passed
<1>2. Len(queue') \in Nat
  OBVIOUS
<1>3. QED
  BY <1>1, <1>2, PassedFinite, ConstantsAssumption DEF OvershootInv, Occupied

LEMMA OvershootStep == TypeInv /\ OvershootInv /\ [Next]_vars => OvershootInv'
<1> SUFFICES ASSUME TypeInv, OvershootInv, [Next]_vars
             PROVE  OvershootInv'
  OBVIOUS
<1>0. TypeOK /\ MaxQueueSize \in Nat
  BY ConstantsAssumption DEF TypeInv
<1>1. ASSUME NEW c \in Clients, NEW r \in Requests, SubmitCheck(c, r) PROVE OvershootInv'
  <2>1. c \notin Passed /\ Passed' = Passed \cup {c} /\ queue' = queue
    BY <1>0, <1>1 DEF SubmitCheck, Passed, TypeOK
  <2>2. Cardinality(Passed') = Cardinality(Passed) + 1
    BY <1>0, <2>1, PassedFinite, FS_AddElement
  <2>3. Passed' \in SUBSET Clients /\ Cardinality(Passed') <= Cardinality(Clients)
    <3>1. Passed' \in SUBSET Clients
      BY <2>1 DEF Passed
    <3>2. QED
      BY <3>1, FS_Subset, ConstantsAssumption
  <2>4. Len(queue) < MaxQueueSize
    BY <1>1 DEF SubmitCheck
  <2>5. QED
    BY <1>0, <2>1, <2>2, <2>3, <2>4, PassedFinite DEF OvershootInv, Occupied
<1>2. ASSUME NEW c \in Clients, SubmitCreate(c) PROVE OvershootInv'
  <2>1. Passed' = Passed /\ queue' = queue
    BY <1>0, <1>2 DEF SubmitCreate, Passed, TypeOK
  <2>2. QED
    BY <2>1 DEF OvershootInv, Occupied
<1>3. ASSUME NEW c \in Clients, SubmitEnqueue(c) PROVE OvershootInv'
  <2>1. c \in Passed /\ Passed' = Passed \ {c}
    BY <1>0, <1>3 DEF SubmitEnqueue, Passed, TypeOK
  <2>2. Cardinality(Passed') = Cardinality(Passed) - 1
    BY <1>0, <2>1, PassedFinite, FS_RemoveElement
  <2>3. Len(queue') = Len(queue) + 1
    BY <1>0, <1>3, PushFacts DEF SubmitEnqueue, TypeOK
  <2>4. QED
    BY <1>0, <2>2, <2>3, PassedFinite DEF OvershootInv, Occupied
<1>4. ASSUME NEW c \in Clients, SubmitRegister(c) PROVE OvershootInv'
  <2>1. Passed' = Passed /\ queue' = queue
    BY <1>0, <1>4 DEF SubmitRegister, Passed, TypeOK
  <2>2. QED
    BY <2>1 DEF OvershootInv, Occupied
<1>5. ASSUME NEW w \in Workers, WorkerTake(w) PROVE OvershootInv'
  <2>1. queue' \in Seq(Requests) /\ Len(queue') = Len(queue) - 1 /\ cpc' = cpc
    BY <1>0, <1>5, PopFacts DEF WorkerTake, TypeOK, clientVars
  <2>2. QED
    BY <1>0, <2>1, PassedFinite, OvershootKept
<1>6. ASSUME UNCHANGED <<queue, cpc>> PROVE OvershootInv'
  BY <1>6 DEF OvershootInv, Occupied, Passed
<1>7. QED
  BY <1>1, <1>2, <1>3, <1>4, <1>5, <1>6
     DEF Next, ClientStep, WorkerStep, ControlStep, vars, recordVars, mapVars, clientVars, workerVars, poolVars,
         CancelMark, CancelMove, CleanupCompleted, WorkerExit, WorkerBlock, WorkerSleep,
         BeginProcessing, FunctionReturns, FunctionTimesOut, FunctionDrains, WorkerMove,
         Start, StopSignal, StopNotify, StopJoin

\* max_queue_size_ is tested and the request pushed under two separate locks, so the limit
\* can be exceeded, but never by as many requests as there are submitting clients.
THEOREM QueueOvershootBounded == Spec => []QueueOvershoot
<1>1. Init => OvershootInv
  <2> SUFFICES ASSUME Init PROVE OvershootInv
    OBVIOUS
  <2>1. Passed = {} /\ Len(queue) = 0
    BY DEF Init, Passed
  <2>2. QED
    BY <2>1, FS_EmptySet DEF OvershootInv, Occupied
<1>2. TypeInv /\ OvershootInv /\ [Next]_vars => OvershootInv'
  BY OvershootStep
<1>3. TypeInv /\ OvershootInv => QueueOvershoot
  <2> SUFFICES ASSUME TypeInv, OvershootInv PROVE QueueOvershoot
    OBVIOUS
  <2>1. queue \in Seq(Requests) /\ MaxQueueSize \in Nat
    BY ConstantsAssumption DEF TypeInv, TypeOK
  <2>2. /\ Cardinality(Passed) \in Nat /\ Cardinality(Clients) \in Nat
        /\ Len(queue) \in Nat
    BY PassedFinite DEF TypeInv
  <2>3. Len(queue) = 0 \/ Len(queue) < MaxQueueSize + Cardinality(Clients)
    BY <2>1, <2>2 DEF OvershootInv, Occupied
  <2>4. QED
    BY <2>1, <2>3 DEF QueueOvershoot
<1>4. QED
  BY TypeCorrect, <1>1, <1>2, <1>3, PTL DEF Spec, TypeInv

-----------------------------------------------------------------------------
(* The request service of RequestLifecycle is implemented                   *)

\* What the abstract specification sees of a step.
Seen == <<state, Launched, Executing>>

\* A step that moves no request and no program counter the mapping looks at.
LEMMA UnseenStep ==
    ASSUME UNCHANGED <<state, queue, cpc, creq, wpc, wreq>>
    PROVE  UNCHANGED Seen
  BY DEF Seen, Launched, Executing

\* A step of one worker between two places where no function runs and none is to begin.
LEMMA IdleWorkerStep ==
    ASSUME TypeOK, UNCHANGED <<state, queue, cpc, creq>>,
           wreq' \in [Workers -> Requests \cup {None}],
           wpc' \in [Workers -> {"exited", "wait", "blocking", "asleep",
                                 "begin", "run", "drain", "move"}],
           \A w \in Workers :
             \/ wpc'[w] = wpc[w] /\ wreq'[w] = wreq[w]
             \/ /\ wpc[w] \notin {"begin", "run", "drain"}
                /\ wpc'[w] \notin {"begin", "run", "drain"}
    PROVE  UNCHANGED Seen
<1>1. Launched' = Launched
  BY DEF Launched, TypeOK
<1>2. Executing' = Executing
  BY DEF Executing, TypeOK
<1>3. QED
  BY <1>1, <1>2 DEF Seen

LEMMA RefinementStep == IInv /\ IInv' /\ [Next]_vars => [Lifecycle!Next]_Lifecycle!vars
<1> SUFFICES ASSUME IInv, IInv', [Next]_vars
             PROVE  Lifecycle!Next \/ UNCHANGED Seen
  BY DEF Lifecycle!vars, Seen
<1>0. TypeOK /\ TypeOK' /\ OnePool /\ NoDoubleDelivery /\ StagesAgree
  BY DEF IInv, TypeInv
<1>a. Launched \in SUBSET Requests /\ Launched' \in SUBSET Requests
  BY DEF Launched
<1>1. ASSUME NEW c \in Clients, NEW r \in Requests, SubmitCheck(c, r) PROVE UNCHANGED Seen
  <2>1. Launched' = Launched
    BY <1>0, <1>1 DEF TypeOK, SubmitCheck, Launched, recordVars, mapVars, clientVars, workerVars, poolVars
  <2>2. QED
    BY <1>0, <1>1, <2>1 DEF TypeOK, SubmitCheck, Seen, Executing, recordVars, mapVars, clientVars, workerVars, poolVars
<1>2. ASSUME NEW c \in Clients, SubmitCreate(c) PROVE Lifecycle!Next
  <2> DEFINE r == creq[c]
  <2>1. r \in Requests /\ state[r] = "UNSUBMITTED"
    BY <1>0, <1>2 DEF TypeOK, SubmitCreate, StagesAgree
  <2>2. Launched' = Launched
    BY <1>0, <1>2, <2>1 DEF TypeOK, SubmitCreate, Launched, recordVars, mapVars, clientVars, workerVars, poolVars
  <2>3. Lifecycle!Accept(r)
    BY <1>0, <1>2, <2>1, <2>2 DEF TypeOK, SubmitCreate, Lifecycle!Accept, Executing, recordVars, mapVars, clientVars, workerVars, poolVars
  <2>4. QED
    BY <2>1, <2>3 DEF Lifecycle!Next
<1>3. ASSUME NEW c \in Clients, SubmitEnqueue(c) PROVE UNCHANGED Seen
  <2> DEFINE r == creq[c]
  <2>1. /\ r \in Requests /\ DOMAIN queue = 1 .. Len(queue)
        /\ DOMAIN queue' = 1 .. Len(queue) + 1 /\ Len(queue) \in Nat
        /\ \A i \in 1 .. Len(queue) : queue'[i] = queue[i]
        /\ queue'[Len(queue) + 1] = r
    BY <1>0, <1>3, PushFacts DEF TypeOK, SubmitEnqueue
  <2>2. \A q \in Requests :
          (\A i \in DOMAIN queue' : queue'[i] # q)
            <=> q # r /\ (\A i \in DOMAIN queue : queue[i] # q)
    <3> TAKE q \in Requests
    <3>1. \A i \in DOMAIN queue' : i \in DOMAIN queue \/ i = Len(queue) + 1
      BY <2>1
    <3>2. \A i \in DOMAIN queue : i \in DOMAIN queue'
      BY <2>1
    <3>3. Len(queue) + 1 \in DOMAIN queue'
      BY <2>1
    <3>4. QED
      BY <2>1, <3>1, <3>2, <3>3
  <2>3. \A q \in Requests :
          (\A d \in Clients : ~(cpc'[d] = "created" /\ creq[d] = q))
            <=> q = r \/ (\A d \in Clients : ~(cpc[d] = "created" /\ creq[d] = q))
    BY <1>0, <1>3, <2>1, ConstantsAssumption DEF TypeOK, SubmitEnqueue, StagesAgree
  <2>4. r \notin Launched /\ r \notin Launched'
    BY <1>0, <1>3, <2>2 DEF TypeOK, Launched, SubmitEnqueue
  <2>s. state' = state /\ wpc' = wpc /\ wreq' = wreq /\ creq' = creq
    BY <1>3 DEF SubmitEnqueue, recordVars, workerVars
  <2>5. \A q \in Requests \ {r} : q \in Launched' <=> q \in Launched
    BY <2>2, <2>3, <2>s DEF Launched
  <2>6. Launched' = Launched
    BY <1>a, <2>4, <2>5
  <2>7. QED
    BY <1>0, <1>3, <2>6 DEF TypeOK, SubmitEnqueue, Seen, Executing, recordVars, mapVars, clientVars, workerVars, poolVars
<1>4. ASSUME NEW c \in Clients, SubmitRegister(c) PROVE UNCHANGED Seen
  <2>1. /\ \A w \in Workers : wpc'[w] = wpc[w] \/ (wpc[w] = "asleep" /\ wpc'[w] = "wait")
        /\ wreq' = wreq /\ state' = state /\ queue' = queue
    BY <1>0, <1>4, NotifyOneTypes DEF TypeOK, SubmitRegister, recordVars, mapVars, clientVars, workerVars, poolVars
  <2>2. \A q \in Requests :
          (\A d \in Clients : ~(cpc'[d] = "created" /\ creq'[d] = q))
            <=> (\A d \in Clients : ~(cpc[d] = "created" /\ creq[d] = q))
    BY <1>0, <1>4 DEF TypeOK, SubmitRegister
  <2>3. Launched' = Launched
    <3>1. \A q \in Requests, w \in Workers :
            (wpc'[w] = "begin" /\ wreq'[w] = q) <=> (wpc[w] = "begin" /\ wreq[w] = q)
      BY <2>1
    <3>2. \A q \in Requests : q \in Launched' <=> q \in Launched
      BY <2>1, <2>2, <3>1 DEF Launched
    <3>3. QED
      BY <1>a, <3>2
  <2>4. Executing' = Executing
    BY <2>1 DEF Executing
  <2>5. QED
    BY <2>1, <2>3, <2>4 DEF Seen
<1>5. ASSUME NEW r \in Requests, CancelMark(r) PROVE Lifecycle!Next
  <2>1. Launched' = Launched
    BY <1>0, <1>5 DEF TypeOK, CancelMark, Launched, Live, recordVars, mapVars, clientVars, workerVars, poolVars
  <2>2. Lifecycle!Cancel(r)
    BY <1>0, <1>5, <2>1 DEF TypeOK, CancelMark, Live, Lifecycle!Cancel, Executing, recordVars, mapVars, clientVars, workerVars, poolVars
  <2>3. QED
    BY <2>2 DEF Lifecycle!Next
<1>6. ASSUME NEW w \in Workers, WorkerTake(w) PROVE UNCHANGED Seen
  <2> DEFINE r == Head(queue)
  <2>1. /\ r \in Requests /\ 1 \in DOMAIN queue /\ r = queue[1]
        /\ DOMAIN queue = 1 .. Len(queue) /\ DOMAIN queue' = 1 .. Len(queue) - 1
        /\ Len(queue) \in Nat
        /\ \A i \in 1 .. Len(queue) - 1 : queue'[i] = queue[i + 1]
    BY <1>0, <1>6, PopFacts DEF TypeOK, WorkerTake
  <2>2. \A q \in Requests \ {r} :
          (\A i \in DOMAIN queue' : queue'[i] # q) <=> (\A i \in DOMAIN queue : queue[i] # q)
    <3> TAKE q \in Requests \ {r}
    <3>1. \A i \in DOMAIN queue : i = 1 \/ (i - 1 \in DOMAIN queue' /\ queue'[i - 1] = queue[i])
      BY <2>1
    <3>2. \A i \in DOMAIN queue' : i + 1 \in DOMAIN queue /\ queue[i + 1] = queue'[i]
      BY <2>1
    <3>3. q # queue[1]
      BY <2>1
    <3>4. ASSUME NEW i \in DOMAIN queue, queue[i] = q PROVE \E j \in DOMAIN queue' : queue'[j] = q
      BY <3>1, <3>3, <3>4
    <3>5. ASSUME NEW i \in DOMAIN queue', queue'[i] = q PROVE \E j \in DOMAIN queue : queue[j] = q
      BY <3>2, <3>5
    <3>6. QED
      BY <3>4, <3>5
  <2>3. r \notin Launched /\ r \notin Launched'
    <3>1. queue[1] = r
      BY <2>1
    <3>2. wpc'[w] = "begin" /\ wreq'[w] = r
      BY <1>0, <1>6 DEF TypeOK, WorkerTake
    <3>3. QED
      BY <2>1, <3>1, <3>2 DEF Launched
  <2>4. \A q \in Requests \ {r} : \A v \in Workers :
          (wpc'[v] = "begin" /\ wreq'[v] = q) <=> (wpc[v] = "begin" /\ wreq[v] = q)
    BY <1>0, <1>6 DEF TypeOK, WorkerTake
  <2>5. \A q \in Requests \ {r} : q \in Launched' <=> q \in Launched
    BY <1>0, <1>6, <2>2, <2>4 DEF TypeOK, Launched, WorkerTake, recordVars, mapVars, clientVars, workerVars, poolVars
  <2>6. Launched' = Launched
    BY <1>a, <2>3, <2>5
  <2>7. Executing' = Executing
    BY <1>0, <1>6 DEF TypeOK, WorkerTake, Executing
  <2>8. QED
    BY <1>0, <1>6, <2>6, <2>7 DEF TypeOK, WorkerTake, Seen, recordVars, mapVars, clientVars, workerVars, poolVars
<1>7. ASSUME NEW w \in Workers, BeginProcessing(w) PROVE Lifecycle!Next
  <2> DEFINE r == wreq[w]
  <2>1. r \in Requests /\ state[r] \in {"PENDING", "CANCELLED"} /\ r # None
    BY <1>0, <1>7, ConstantsAssumption DEF TypeOK, BeginProcessing, StagesAgree
  <2>2. /\ \A i \in DOMAIN queue : queue[i] # r
        /\ \A c \in Clients : ~(cpc[c] = "created" /\ creq[c] = r)
        /\ \A v \in Workers \ {w} : wreq[v] # r
    BY <1>0, <1>7, <2>1 DEF TypeOK, NoDoubleDelivery, StagesAgree
  <2>3. r \notin Launched /\ r \in Launched'
    BY <1>0, <1>7, <2>1, <2>2 DEF TypeOK, BeginProcessing, Launched, recordVars, mapVars, clientVars, workerVars, poolVars
  <2>4. \A q \in Requests \ {r} :
          /\ state'[q] = state[q]
          /\ \A v \in Workers : (wpc'[v] = "begin" /\ wreq[v] = q) <=> (wpc[v] = "begin" /\ wreq[v] = q)
    BY <1>0, <1>7, <2>1 DEF TypeOK, BeginProcessing
  <2>5. \A q \in Requests \ {r} : q \in Launched' <=> q \in Launched
    BY <1>0, <1>7, <2>4 DEF TypeOK, Launched, BeginProcessing, recordVars, mapVars, clientVars, workerVars, poolVars
  <2>6. Launched' = Launched \cup {r}
    BY <1>a, <2>1, <2>3, <2>5
  <2>7. /\ Executing[w] = None
        /\ Executing' = [Executing EXCEPT ![w] = r]
    BY <1>0, <1>7 DEF TypeOK, BeginProcessing, Executing
  <2>8. state' = [state EXCEPT ![r] = IF @ = "PENDING" THEN "PROCESSING" ELSE @]
    BY <1>0, <1>7, <2>1 DEF TypeOK, BeginProcessing
  <2>9. Lifecycle!Launch(r, w)
    BY <2>1, <2>3, <2>6, <2>7, <2>8 DEF Lifecycle!Launch
  <2>10. QED
    BY <2>1, <2>9 DEF Lifecycle!Next
<1>8. ASSUME NEW w \in Workers, FunctionReturns(w) PROVE Lifecycle!Next
  <2> DEFINE r == wreq[w]
  <2>1. wpc[w] = "run"
    BY <1>0, <1>8 DEF TypeOK, FunctionReturns
  <2>2. r \in Requests /\ state[r] \in {"PROCESSING", "CANCELLED"}
    <3>1. wreq[w] \in Requests
      BY <1>0, <2>1, WorkersHold
    <3>2. QED
      BY <1>0, <2>1, <3>1, WorkerStages
  <2>3. /\ Executing[w] = r
        /\ Executing' = [Executing EXCEPT ![w] = None]
    BY <1>0, <1>8 DEF TypeOK, FunctionReturns, Executing, recordVars, mapVars, clientVars, workerVars, poolVars
  <2>4. \/ state[r] = "PROCESSING" /\ \E o \in {"COMPLETED", "FAILED"} : state' = [state EXCEPT ![r] = o]
        \/ state[r] = "CANCELLED" /\ state' = state
    BY <1>0, <1>8, <2>2 DEF TypeOK, FunctionReturns, Settle
  <2>s. state \in [Requests -> States]
    BY <1>0 DEF TypeOK
  <2>5. \A q \in Requests : state'[q] = "UNSUBMITTED" <=> state[q] = "UNSUBMITTED"
    BY <2>2, <2>4, <2>s
  <2>6. Launched' = Launched
    BY <1>0, <1>8, <2>5 DEF TypeOK, FunctionReturns, Launched, recordVars, mapVars, clientVars, workerVars, poolVars
  <2>7. Lifecycle!Return(r, w)
    BY <2>3, <2>4, <2>6 DEF Lifecycle!Return, Lifecycle!Settled
  <2>8. QED
    BY <2>2, <2>7 DEF Lifecycle!Next
<1>9. ASSUME NEW w \in Workers, FunctionTimesOut(w) PROVE Lifecycle!Next \/ UNCHANGED Seen
  <2> DEFINE r == wreq[w]
  <2>1. wpc[w] = "run"
    BY <1>0, <1>9 DEF TypeOK, FunctionTimesOut
  <2>2. r \in Requests /\ state[r] \in {"PROCESSING", "CANCELLED"}
    <3>1. wreq[w] \in Requests
      BY <1>0, <2>1, WorkersHold
    <3>2. QED
      BY <1>0, <2>1, <3>1, WorkerStages
  <2>3. Executing[w] = r /\ Executing' = Executing
    BY <1>0, <1>9 DEF TypeOK, FunctionTimesOut, Executing, recordVars, mapVars, clientVars, workerVars, poolVars
  <2>4. \/ state[r] = "PROCESSING" /\ state' = [state EXCEPT ![r] = "TIMEOUT"]
        \/ state' = state
    BY <1>0, <1>9, <2>2 DEF TypeOK, FunctionTimesOut, Settle
  <2>s. state \in [Requests -> States]
    BY <1>0 DEF TypeOK
  <2>5. \A q \in Requests : state'[q] = "UNSUBMITTED" <=> state[q] = "UNSUBMITTED"
    BY <2>2, <2>4, <2>s
  <2>6. Launched' = Launched
    BY <1>0, <1>9, <2>5 DEF TypeOK, FunctionTimesOut, Launched, recordVars, mapVars, clientVars, workerVars, poolVars
  <2>7. CASE state' = state
    BY <2>3, <2>6, <2>7 DEF Seen
  <2>8. CASE state[r] = "PROCESSING" /\ state' = [state EXCEPT ![r] = "TIMEOUT"]
    BY <2>2, <2>3, <2>6, <2>8 DEF Lifecycle!Next, Lifecycle!Expire
  <2>9. QED
    BY <2>4, <2>7, <2>8
<1>10. ASSUME NEW w \in Workers, FunctionDrains(w) PROVE Lifecycle!Next
  <2> DEFINE r == wreq[w]
  <2>1. wpc[w] = "drain"
    BY <1>0, <1>10 DEF TypeOK, FunctionDrains
  <2>2. r \in Requests /\ state[r] \in Terminal
    <3>1. wreq[w] \in Requests
      BY <1>0, <2>1, WorkersHold
    <3>2. QED
      BY <1>0, <2>1, <3>1, WorkerStages
  <2>3. Executing[w] = r /\ Executing' = [Executing EXCEPT ![w] = None]
    BY <1>0, <1>10 DEF TypeOK, FunctionDrains, Executing, recordVars, mapVars, clientVars, workerVars, poolVars
  <2>4. Launched' = Launched /\ state' = state
    BY <1>0, <1>10 DEF TypeOK, FunctionDrains, Launched, recordVars, mapVars, clientVars, workerVars, poolVars
  <2>5. Lifecycle!Return(r, w)
    BY <2>2, <2>3, <2>4 DEF Lifecycle!Return, Lifecycle!Settled, Terminal
  <2>6. QED
    BY <2>2, <2>5 DEF Lifecycle!Next
<1>11. ASSUME NEW w \in Workers,
              WorkerExit(w) \/ WorkerBlock(w) \/ WorkerSleep(w) \/ WorkerMove(w)
       PROVE  UNCHANGED Seen
  <2>1. UNCHANGED <<state, queue, cpc, creq>>
    BY <1>11 DEF WorkerExit, WorkerBlock, WorkerSleep, WorkerMove, recordVars, clientVars
  <2>2. /\ wreq' \in [Workers -> Requests \cup {None}]
        /\ wpc' \in [Workers -> {"exited", "wait", "blocking", "asleep",
                                "begin", "run", "drain", "move"}]
    BY <1>0 DEF TypeOK
  <2>3. /\ \A v \in Workers \ {w} : wpc'[v] = wpc[v] /\ wreq'[v] = wreq[v]
        /\ wpc[w] \notin {"begin", "run", "drain"}
        /\ wpc'[w] \notin {"begin", "run", "drain"}
    <3>1. CASE WorkerExit(w)
      BY <1>0, <3>1 DEF TypeOK, WorkerExit
    <3>2. CASE WorkerBlock(w)
      BY <1>0, <3>2 DEF TypeOK, WorkerBlock
    <3>3. CASE WorkerSleep(w)
      BY <1>0, <3>3 DEF TypeOK, WorkerSleep
    <3>4. CASE WorkerMove(w)
      BY <1>0, <3>4 DEF TypeOK, WorkerMove
    <3>5. QED
      BY <1>11, <3>1, <3>2, <3>3, <3>4
  <2>4. QED
    BY <1>0, <2>1, <2>2, <2>3, IdleWorkerStep
<1>12. ASSUME NEW r \in Requests, CancelMove(r) PROVE UNCHANGED Seen
  BY <1>0, <1>12, UnseenStep DEF TypeOK, CancelMove, recordVars, mapVars, clientVars, workerVars, poolVars
<1>13. ASSUME NEW keep \in 0 .. MaxHistory, CleanupCompleted(keep) PROVE UNCHANGED Seen
  BY <1>0, <1>13, UnseenStep DEF TypeOK, CleanupCompleted, recordVars, mapVars, clientVars, workerVars, poolVars
<1>14. CASE Start
  BY <1>0, <1>14, IdleWorkerStep DEF TypeOK, Start, OnePool, recordVars, mapVars, clientVars, workerVars, poolVars
<1>15. CASE StopSignal \/ StopJoin
  BY <1>0, <1>15, UnseenStep DEF TypeOK, StopSignal, StopJoin, recordVars, mapVars, clientVars, workerVars, poolVars
<1>16. CASE StopNotify
  BY <1>0, <1>16, IdleWorkerStep DEF TypeOK, StopNotify, recordVars, mapVars, clientVars, workerVars, poolVars
<1>17. CASE UNCHANGED vars
  BY <1>0, <1>17, UnseenStep DEF TypeOK, vars, recordVars, mapVars, clientVars, workerVars, poolVars
<1>18. QED
  BY <1>1, <1>2, <1>3, <1>4, <1>5, <1>6, <1>7, <1>8, <1>9, <1>10, <1>11, <1>12, <1>13,
     <1>14, <1>15, <1>16, <1>17
     DEF Next, ClientStep, WorkerStep, ControlStep

\* The queue, the worker pool and the two maps together implement the request service of
\* RequestLifecycle: accepted once, launched at most once, in one slot, settled for good.
THEOREM ManagerImplementsLifecycle == Spec => ImplementsLifecycle
<1>1. Init => Lifecycle!Init
  <2> SUFFICES ASSUME Init PROVE Lifecycle!Init
    OBVIOUS
  <2>1. Launched = {} /\ Executing = [w \in Workers |-> None]
    BY DEF Init, Launched, Executing
  <2>2. QED
    BY <2>1 DEF Init, Lifecycle!Init
<1>2. IInv /\ IInv' /\ [Next]_vars => [Lifecycle!Next]_Lifecycle!vars
  BY RefinementStep
<1>3. QED
  BY Placement, <1>1, <1>2, PTL DEF Spec, ImplementsLifecycle, Lifecycle!Spec
=============================================================================
