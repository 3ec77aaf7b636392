------------------------ MODULE WorkflowCounterProofs ------------------------
(***************************************************************************)
(* The counters of WorkflowManager, for any sizes and any modulus: what     *)
(* each equals at every step, although steps of several threads write it    *)
(* before and after what it counts.                                         *)
(***************************************************************************)
EXTENDS WorkflowManagerProofs

-----------------------------------------------------------------------------
(* Counting modulo the size of a size_t                                     *)

\* A number is its quotient and its remainder ...
LEMMA Division ==
    ASSUME NEW a \in Int, NEW m \in Nat \ {0}
    PROVE  a \div m \in Int /\ a % m \in 0 .. m - 1 /\ a = m * (a \div m) + (a % m)
<1>1. a \div m \in Int
  OBVIOUS
<1>2. a % m \in Int /\ 0 <= a % m /\ a % m < m
  OBVIOUS
<1>3. a = m * (a \div m) + (a % m)
  OBVIOUS
<1>4. a % m \in 0 .. m - 1
  <2>1. \A x \in Int : 0 <= x /\ x < m => x \in 0 .. m - 1
    OBVIOUS
  <2>2. QED
    BY <1>2, <2>1, Zenon
<1>5. QED
  BY <1>1, <1>3, <1>4, Zenon

\* ... and no others.
LEMMA Remainder ==
    ASSUME NEW m \in Nat \ {0}, NEW q \in Int, NEW r \in 0 .. m - 1
    PROVE  (m * q + r) % m = r
  OBVIOUS

\* A counter that wraps can be stepped before or after the remainder is taken.
LEMMA StepUp ==
    ASSUME NEW a \in Int, NEW m \in Nat \ {0}
    PROVE  ((a % m) + 1) % m = (a + 1) % m
<1> DEFINE q == a \div m
           r == a % m
<1>0. q \in Int /\ r \in 0 .. m - 1 /\ a = m * q + r
  OBVIOUS
<1> HIDE DEF q, r
<1>1. CASE r + 1 < m
  <2>1. r + 1 \in 0 .. m - 1 /\ a + 1 = m * q + (r + 1) /\ r + 1 = m * 0 + (r + 1)
    BY <1>0, <1>1
  <2>2. (a + 1) % m = r + 1 /\ (r + 1) % m = r + 1
    BY <2>1, <1>0
  <2>3. QED
    BY <2>2 DEF r
<1>2. CASE r + 1 = m
  <2>1. 0 \in 0 .. m - 1 /\ a + 1 = m * (q + 1) + 0 /\ r + 1 = m * 1 + 0 /\ q + 1 \in Int
    BY <1>0, <1>2
  <2>2. (a + 1) % m = 0 /\ (r + 1) % m = 0
    BY <2>1, Remainder
  <2>3. QED
    BY <2>2 DEF r
<1>3. QED
  BY <1>0

LEMMA StepDown ==
    ASSUME NEW a \in Int, NEW m \in Nat \ {0}
    PROVE  ((a % m) - 1) % m = (a - 1) % m
<1> DEFINE q == a \div m
           r == a % m
<1>0. q \in Int /\ r \in 0 .. m - 1 /\ a = m * q + r
  OBVIOUS
<1> HIDE DEF q, r
<1>1. CASE r > 0
  <2>1. r - 1 \in 0 .. m - 1 /\ a - 1 = m * q + (r - 1) /\ r - 1 = m * 0 + (r - 1)
    BY <1>0, <1>1
  <2>2. (a - 1) % m = r - 1 /\ (r - 1) % m = r - 1
    BY <2>1, <1>0
  <2>3. QED
    BY <2>2 DEF r
<1>2. CASE r = 0
  <2>1. /\ m - 1 \in 0 .. m - 1 /\ q - 1 \in Int
        /\ a - 1 = m * (q - 1) + (m - 1) /\ r - 1 = m * (-1) + (m - 1)
    BY <1>0, <1>2
  <2>2. (a - 1) % m = m - 1 /\ (r - 1) % m = m - 1
    BY <2>1, Remainder
  <2>3. QED
    BY <2>2 DEF r
<1>3. QED
  BY <1>0

-----------------------------------------------------------------------------
(* The counters of outcomes                                                 *)

Ended(o) == {r \in Requests : state[r] = o}

LEMMA EndedFinite == ASSUME NEW o PROVE IsFiniteSet(Ended(o)) /\ Cardinality(Ended(o)) \in Nat
<1>1. IsFiniteSet(Requests) /\ Ended(o) \subseteq Requests
  BY ConstantsAssumption DEF Ended
<1>2. QED
  BY <1>1, FS_Subset, FS_CardinalityType

\* The requests that ended in o are those that did and the one that now does.
LEMMA OneMoreEnded ==
    ASSUME state \in [Requests -> States], NEW r \in Requests, NEW o, state[r] # o,
           state' = [state EXCEPT ![r] = o]
    PROVE  /\ Cardinality(Ended(o)') = Cardinality(Ended(o)) + 1
           /\ \A p : p \notin {o, state[r]} => Ended(p)' = Ended(p)
<1>1. Ended(o)' = Ended(o) \cup {r} /\ r \notin Ended(o)
  BY DEF Ended
<1>2. Cardinality(Ended(o) \cup {r}) = Cardinality(Ended(o)) + 1
  BY <1>1, EndedFinite, FS_AddElement
<1>3. \A p : p \notin {o, state[r]} => Ended(p)' = Ended(p)
  BY DEF Ended
<1>4. QED
  BY <1>1, <1>2, <1>3

LEMMA OutcomesStep == TypeInv /\ StagesAgree /\ OutcomesCounted /\ [Next]_vars => OutcomesCounted'
<1> SUFFICES ASSUME TypeInv, StagesAgree, OutcomesCounted, [Next]_vars PROVE OutcomesCounted'
  OBVIOUS
<1> DEFINE Counted(k, o) == stats[k] = Cardinality(Ended(o)) % StatModulus
<1>0. /\ OutcomesCounted <=> /\ Counted("completed", "COMPLETED")
                            /\ Counted("failed", "FAILED")
                            /\ Counted("timeout", "TIMEOUT")
      /\ OutcomesCounted' <=> /\ Counted("completed", "COMPLETED")'
                             /\ Counted("failed", "FAILED")'
                             /\ Counted("timeout", "TIMEOUT")'
  BY DEF OutcomesCounted, Ended
<1>1. state \in [Requests -> States] /\ TypeOK
  BY DEF TypeInv, TypeOK
<1>a. stats \in [total : Nat, completed : Nat, failed : Nat, timeout : Nat, active : Nat]
  BY <1>1 DEF TypeOK
\* A step that settles nothing: no request gets to an outcome or leaves one.
<1>2. ASSUME \A o \in {"COMPLETED", "FAILED", "TIMEOUT"} : Ended(o)' = Ended(o),
             \A k \in {"completed", "failed", "timeout"} : stats'[k] = stats[k]
      PROVE  OutcomesCounted'
  BY <1>0, <1>2
<1>3. ASSUME NEW w \in Workers, wpc[w] = "run", NEW o, NEW k,
             <<k, o>> \in {<<"completed", "COMPLETED">>, <<"failed", "FAILED">>,
                           <<"timeout", "TIMEOUT">>},
             Settle(w, o, k)
      PROVE  OutcomesCounted'
  <2>1. wreq[w] \in Requests /\ state[wreq[w]] \in {"PROCESSING", "CANCELLED"}
    BY <1>1, <1>3, WorkersHold, WorkerStages
  <2>2. CASE state[wreq[w]] = "CANCELLED"
    <3>1. state' = state /\ stats' = stats
      BY <1>3, <2>2 DEF Settle
    <3>2. QED
      BY <3>1, <1>2 DEF Ended
  <2>3. CASE state[wreq[w]] = "PROCESSING"
    <3>1. /\ state' = [state EXCEPT ![wreq[w]] = o]
          /\ stats' = [stats EXCEPT ![k] = (@ + 1) % StatModulus]
      BY <1>3, <2>3 DEF Settle
    <3>2. state[wreq[w]] # o /\ k \in {"completed", "failed", "timeout"}
      BY <1>3, <2>3
    <3>3. /\ Cardinality(Ended(o)') = Cardinality(Ended(o)) + 1
          /\ \A p : p \notin {o, state[wreq[w]]} => Ended(p)' = Ended(p)
      BY <1>1, <2>1, <3>1, <3>2, OneMoreEnded
    <3>4. /\ stats'[k] = (stats[k] + 1) % StatModulus
          /\ \A l \in {"completed", "failed", "timeout"} \ {k} : stats'[l] = stats[l]
      BY <1>a, <3>1, <3>2
    <3>5. Counted(k, o)
      BY <1>0, <1>3
    <3>6. Counted(k, o)'
      <4>1. ((Cardinality(Ended(o)) % StatModulus) + 1) % StatModulus
            = (Cardinality(Ended(o)) + 1) % StatModulus
        BY EndedFinite, StepUp, ConstantsAssumption
      <4>2. QED
        BY <3>3, <3>4, <3>5, <4>1, Zenon
    <3>7. \A p \in {"COMPLETED", "FAILED", "TIMEOUT"} \ {o} : Ended(p)' = Ended(p)
      BY <2>3, <3>3
    <3>8. QED
      BY <1>0, <1>3, <3>4, <3>6, <3>7
  <2>4. QED
    BY <2>1, <2>2, <2>3
<1>4. ASSUME NEW c \in Clients, SubmitCreate(c) PROVE OutcomesCounted'
  <2>1. /\ state[creq[c]] = "UNSUBMITTED" /\ stats' = stats
        /\ state' = [state EXCEPT ![creq[c]] = "PENDING"]
    BY <1>4 DEF SubmitCreate, StagesAgree
  <2>2. \A o \in {"COMPLETED", "FAILED", "TIMEOUT"} : Ended(o)' = Ended(o)
    BY <2>1 DEF Ended
  <2>3. QED
    BY <1>2, <2>1, <2>2
<1>5. ASSUME NEW r \in Requests, CancelMark(r) PROVE OutcomesCounted'
  <2>1. state[r] \in Live /\ state' = [state EXCEPT ![r] = "CANCELLED"] /\ stats' = stats
    BY <1>5 DEF CancelMark
  <2>2. \A o \in {"COMPLETED", "FAILED", "TIMEOUT"} : Ended(o)' = Ended(o)
    BY <2>1 DEF Ended, Live
  <2>3. QED
    BY <1>2, <2>1, <2>2
<1>6. ASSUME NEW w \in Workers, BeginProcessing(w) PROVE OutcomesCounted'
  <2>1. /\ state[wreq[w]] \in {"PENDING", "CANCELLED"} /\ stats' = stats
        /\ state' = [state EXCEPT ![wreq[w]] = IF @ = "CANCELLED" THEN @ ELSE "PROCESSING"]
    BY <1>6, WorkerStages DEF BeginProcessing
  <2>2. \A o \in {"COMPLETED", "FAILED", "TIMEOUT"} : Ended(o)' = Ended(o)
    BY <2>1 DEF Ended
  <2>3. QED
    BY <1>2, <2>1, <2>2
<1>7. ASSUME NEW w \in Workers, FunctionReturns(w) PROVE OutcomesCounted'
  BY <1>7, <1>3 DEF FunctionReturns
<1>8. ASSUME NEW w \in Workers, FunctionTimesOut(w) PROVE OutcomesCounted'
  BY <1>8, <1>3 DEF FunctionTimesOut
<1>9. ASSUME NEW c \in Clients, SubmitRegister(c) PROVE OutcomesCounted'
  <2>1. state' = state /\ \A k \in {"completed", "failed", "timeout"} : stats'[k] = stats[k]
    BY <1>9 DEF SubmitRegister, recordVars
  <2>2. QED
    BY <1>2, <2>1 DEF Ended
<1>10. ASSUME NEW w \in Workers, WorkerMove(w) PROVE OutcomesCounted'
  <2>1. state' = state /\ \A k \in {"completed", "failed", "timeout"} : stats'[k] = stats[k]
    BY <1>10 DEF WorkerMove, recordVars
  <2>2. QED
    BY <1>2, <2>1 DEF Ended
<1>11. ASSUME UNCHANGED <<state, stats>> PROVE OutcomesCounted'
  BY <1>2, <1>11 DEF Ended
<1>12. ASSUME NEW c \in Clients, (\E r \in Requests : SubmitCheck(c, r)) \/ SubmitEnqueue(c)
       PROVE  UNCHANGED <<state, stats>>
  BY <1>12 DEF SubmitCheck, SubmitEnqueue, recordVars
<1>13. ASSUME NEW r \in Requests, CancelMove(r) PROVE UNCHANGED <<state, stats>>
  BY <1>13 DEF CancelMove, recordVars
<1>14. ASSUME NEW w \in Workers,
              \/ WorkerExit(w) \/ WorkerTake(w) \/ WorkerBlock(w)
              \/ WorkerSleep(w) \/ FunctionDrains(w)
       PROVE  UNCHANGED <<state, stats>>
  BY <1>14 DEF WorkerExit, WorkerTake, WorkerBlock, WorkerSleep, FunctionDrains, recordVars
<1>15. ASSUME \/ \E keep \in 0 .. MaxHistory : CleanupCompleted(keep)
              \/ Start \/ StopSignal \/ StopNotify \/ StopJoin \/ UNCHANGED vars
       PROVE  UNCHANGED <<state, stats>>
  BY <1>15 DEF CleanupCompleted, Start, StopSignal, StopNotify, StopJoin, vars, recordVars
<1>16. QED
  BY <1>4, <1>5, <1>6, <1>7, <1>8, <1>9, <1>10, <1>11, <1>12, <1>13, <1>14, <1>15 DEF Next,
      ClientStep, WorkerStep, ControlStep

\* The counters of outcomes count each settled request once, and cancelled ones not at all:
\* the test of CANCELLED and the increment are under one lock (process_request).
THEOREM OutcomesAreCounted == Spec => []OutcomesCounted
<1>1. Init => OutcomesCounted
  <2> SUFFICES ASSUME Init PROVE OutcomesCounted
    OBVIOUS
  <2>1. \A o \in {"COMPLETED", "FAILED", "TIMEOUT"} : Ended(o) = {}
    BY DEF Init, Ended
  <2>2. 0 % StatModulus = 0
    BY ConstantsAssumption
  <2>3. QED
    BY <2>2, FS_EmptySet DEF Init, OutcomesCounted
<1>2. IInv => TypeInv /\ StagesAgree
  BY DEF IInv
<1>3. QED
  BY <1>1, <1>2, OutcomesStep, Placement, PTL DEF Spec

-----------------------------------------------------------------------------
(* The counter of active requests.  SubmitRegister counts a request when it *)
(* has been in the queue for some time, perhaps after a worker took and     *)
(* finished it, so the counter is the requests queued or with a worker less *)
(* the ones pushed and not yet counted: below zero it wraps.                *)

Busy == {w \in Workers : wreq[w] # None}
Uncounted == {c \in Clients : cpc[c] = "queued"}

ActiveCount ==
    stats.active = (Len(queue) + Cardinality(Busy) - Cardinality(Uncounted)) % StatModulus

LEMMA ThreadsFinite ==
    /\ IsFiniteSet(Busy) /\ Cardinality(Busy) \in Nat
    /\ IsFiniteSet(Uncounted) /\ Cardinality(Uncounted) \in Nat
<1>1. /\ IsFiniteSet(Workers) /\ Busy \subseteq Workers
      /\ IsFiniteSet(Clients) /\ Uncounted \subseteq Clients
  BY ConstantsAssumption DEF Busy, Uncounted
<1>2. QED
  BY <1>1, FS_Subset, FS_CardinalityType

\* One element more or less in a finite set.
LEMMA OneMore ==
    ASSUME NEW S, IsFiniteSet(S), NEW x, x \notin S
    PROVE  Cardinality(S \cup {x}) = Cardinality(S) + 1
  BY FS_AddElement

LEMMA OneLess ==
    ASSUME NEW S, IsFiniteSet(S), NEW x \in S
    PROVE  Cardinality(S \ {x}) = Cardinality(S) - 1
  BY FS_RemoveElement

LEMMA ActiveStep == TypeInv /\ ActiveCount /\ [Next]_vars => ActiveCount'
<1> SUFFICES ASSUME TypeInv, ActiveCount, [Next]_vars PROVE ActiveCount'
  OBVIOUS
<1> DEFINE b == Cardinality(Busy)
           u == Cardinality(Uncounted)
           n == Len(queue)
<1>0. b \in Nat /\ u \in Nat /\ n \in Nat
  BY ThreadsFinite
<1>e. stats.active = (n + b - u) % StatModulus
  BY DEF ActiveCount
<1>a. /\ queue \in Seq(Requests)
      /\ cpc \in [Clients -> {"idle", "checked", "created", "queued"}]
      /\ creq \in [Clients -> Requests \cup {None}]
      /\ wreq \in [Workers -> Requests \cup {None}]
      /\ stats \in [total : Nat, completed : Nat, failed : Nat, timeout : Nat, active : Nat]
      /\ \A c \in Clients : creq[c] = None <=> cpc[c] = "idle"
      /\ \A w \in Workers : wreq[w] = None <=> wpc[w] \in {"exited", "wait", "blocking", "asleep"}
  BY DEF TypeInv, TypeOK
<1>b. /\ (((n + b - u) % StatModulus) + 1) % StatModulus = ((n + b - u) + 1) % StatModulus
      /\ (((n + b - u) % StatModulus) - 1) % StatModulus = ((n + b - u) - 1) % StatModulus
  <2>1. n + b - u \in Int
    BY <1>0
  <2>2. \A a \in Int : /\ ((a % StatModulus) + 1) % StatModulus = (a + 1) % StatModulus
                       /\ ((a % StatModulus) - 1) % StatModulus = (a - 1) % StatModulus
    BY ConstantsAssumption, StepUp, StepDown
  <2>3. QED
    BY <2>1, <2>2, Zenon
<1>c. ActiveCount' <=> stats'.active = (n' + b' - u') % StatModulus
  BY DEF ActiveCount
\* The new sum is the old one, or the counter takes the same step as the sum.
<1>d. /\ n' + b' - u' = n + b - u /\ stats'.active = stats.active => ActiveCount'
      /\ n' + b' - u' = (n + b - u) + 1 /\ stats'.active = (stats.active + 1) % StatModulus
         => ActiveCount'
      /\ n' + b' - u' = (n + b - u) - 1 /\ stats'.active = (stats.active - 1) % StatModulus
         => ActiveCount'
  BY <1>e, <1>b, <1>c, Zenon
<1>1. ASSUME NEW c \in Clients, SubmitEnqueue(c) PROVE ActiveCount'
  <2>1. n' = n + 1 /\ Busy' = Busy /\ stats' = stats
    <3>1. creq[c] \in Requests
      BY <1>a, <1>1 DEF SubmitEnqueue
    <3>2. QED
      BY <1>1 DEF SubmitEnqueue, workerVars, Busy
  <2>2. Uncounted' = Uncounted \cup {c} /\ c \notin Uncounted
    BY <1>a, <1>1 DEF SubmitEnqueue, Uncounted
  <2>3. u' = u + 1 /\ b' = b
    BY <2>1, <2>2, ThreadsFinite, OneMore
  <2>4. n' + b' - u' = n + b - u
    BY <1>0, <2>1, <2>3
  <2>5. QED
    BY <1>d, <2>1, <2>4
<1>2. ASSUME NEW c \in Clients, SubmitRegister(c) PROVE ActiveCount'
  <2>1. n' = n /\ Busy' = Busy /\ stats'.active = (stats.active + 1) % StatModulus
    BY <1>2 DEF SubmitRegister, Busy
  <2>2. Uncounted' = Uncounted \ {c} /\ c \in Uncounted
    BY <1>a, <1>2 DEF SubmitRegister, Uncounted
  <2>3. u' = u - 1 /\ b' = b
    BY <2>1, <2>2, ThreadsFinite, OneLess
  <2>4. n' + b' - u' = (n + b - u) + 1
    BY <1>0, <2>1, <2>3
  <2>5. QED
    BY <1>d, <2>1, <2>4
<1>3. ASSUME NEW w \in Workers, WorkerTake(w) PROVE ActiveCount'
  <2>1. n' = n - 1 /\ Uncounted' = Uncounted /\ stats' = stats
    BY <1>3 DEF WorkerTake, clientVars, Uncounted
  <2>2. Busy' = Busy \cup {w} /\ w \notin Busy
    <3>1. Head(queue) # None
      BY ConstantsAssumption, <1>a, <1>3 DEF WorkerTake
    <3>2. QED
      BY <1>a, <1>3, <3>1 DEF WorkerTake, Busy
  <2>3. b' = b + 1 /\ u' = u
    BY <2>1, <2>2, ThreadsFinite, OneMore
  <2>4. n' + b' - u' = n + b - u
    BY <1>0, <2>1, <2>3
  <2>5. QED
    BY <1>d, <2>1, <2>4
<1>4. ASSUME NEW w \in Workers, WorkerMove(w) PROVE ActiveCount'
  <2>1. n' = n /\ Uncounted' = Uncounted /\ stats'.active = (stats.active - 1) % StatModulus
    BY <1>4 DEF WorkerMove, clientVars, Uncounted
  <2>2. Busy' = Busy \ {w} /\ w \in Busy
    BY <1>a, <1>4 DEF WorkerMove, Busy
  <2>3. b' = b - 1 /\ u' = u
    BY <2>1, <2>2, ThreadsFinite, OneLess
  <2>4. n' + b' - u' = (n + b - u) - 1
    BY <1>0, <2>1, <2>3
  <2>5. QED
    BY <1>d, <2>1, <2>4
\* No other step moves a request into or out of what is counted.
<1>5. ASSUME n' = n, Busy' = Busy, Uncounted' = Uncounted, stats'.active = stats.active
      PROVE  ActiveCount'
  BY <1>c, <1>e, <1>5
<1>6. ASSUME NEW c \in Clients, (\E r \in Requests : SubmitCheck(c, r)) \/ SubmitCreate(c)
      PROVE  ActiveCount'
  <2>1. UNCHANGED <<queue, wreq, stats>> /\ Uncounted' = Uncounted
    BY <1>a, <1>6 DEF SubmitCheck, SubmitCreate, workerVars, Uncounted
  <2>2. QED
    BY <1>5, <2>1 DEF Busy
<1>7. ASSUME NEW w \in Workers, FunctionReturns(w) \/ FunctionTimesOut(w) PROVE ActiveCount'
  <2>1. UNCHANGED <<queue, wreq, cpc>> /\ stats'.active = stats.active
    BY <1>a, <1>7 DEF FunctionReturns, FunctionTimesOut, Settle, clientVars
  <2>2. QED
    BY <1>5, <2>1 DEF Busy, Uncounted
<1>8. ASSUME UNCHANGED <<queue, wreq, cpc, stats>> PROVE ActiveCount'
  BY <1>5, <1>8 DEF Busy, Uncounted
<1>9. ASSUME NEW r \in Requests, CancelMark(r) \/ CancelMove(r)
      PROVE  UNCHANGED <<queue, wreq, cpc, stats>>
  BY <1>9 DEF CancelMark, CancelMove, clientVars, workerVars
<1>10. ASSUME NEW w \in Workers,
              \/ WorkerExit(w) \/ WorkerBlock(w) \/ WorkerSleep(w)
              \/ BeginProcessing(w) \/ FunctionDrains(w)
       PROVE  UNCHANGED <<queue, wreq, cpc, stats>>
  BY <1>10 DEF WorkerExit, WorkerBlock, WorkerSleep, BeginProcessing, FunctionDrains, clientVars
<1>11. ASSUME \/ \E keep \in 0 .. MaxHistory : CleanupCompleted(keep)
              \/ Start \/ StopSignal \/ StopNotify \/ StopJoin \/ UNCHANGED vars
       PROVE  UNCHANGED <<queue, wreq, cpc, stats>>
  BY <1>11 DEF CleanupCompleted, Start, StopSignal, StopNotify, StopJoin, vars, clientVars,
      workerVars
<1>12. QED
  BY <1>1, <1>2, <1>3, <1>4, <1>6, <1>7, <1>8, <1>9, <1>10, <1>11 DEF Next, ClientStep, WorkerStep,
      ControlStep

\* active_requests wraps while a worker is ahead of the client that counts its request, and
\* is right again once neither is busy: nothing is lost, whatever order they came in.
THEOREM ActiveStatIsRightWhenQuiet == Spec => []ActiveStatWhenQuiet
<1>1. Init => ActiveCount
  <2> SUFFICES ASSUME Init PROVE ActiveCount
    OBVIOUS
  <2>1. Busy = {} /\ Uncounted = {} /\ Len(queue) = 0 /\ stats.active = 0
    BY DEF Init, Busy, Uncounted
  <2>2. 0 % StatModulus = 0
    BY ConstantsAssumption
  <2>3. QED
    BY <2>1, <2>2, FS_EmptySet DEF ActiveCount
<1>2. TypeInv /\ ActiveCount => ActiveStatWhenQuiet
  <2> SUFFICES ASSUME TypeInv, ActiveCount,
                      \A c \in Clients : cpc[c] \in {"idle", "checked", "created"},
                      \A w \in Workers : wreq[w] = None
               PROVE  stats.active = Len(queue) % StatModulus
    BY DEF ActiveStatWhenQuiet
  <2>1. Busy = {} /\ Uncounted = {}
    BY DEF Busy, Uncounted
  <2>2. Len(queue) + Cardinality(Busy) - Cardinality(Uncounted) = Len(queue)
    <3>1. Len(queue) \in Nat
      OBVIOUS
    <3>2. QED
      BY <2>1, FS_EmptySet
  <2>3. QED
    BY <2>2 DEF ActiveCount
<1>3. IInv => TypeInv
  BY DEF IInv
<1>4. QED
  BY <1>1, <1>2, <1>3, ActiveStep, Placement, PTL DEF Spec
=============================================================================
