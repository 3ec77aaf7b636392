-------------------------- MODULE RequestLifecycle --------------------------
(***************************************************************************)
(* What the request service of the agent system promises about every       *)
(* request, without its queue, threads, locks and maps: a request is       *)
(* accepted once, its function is launched at most once and in one of a    *)
(* fixed number of slots, and its outcome, once settled, never changes.    *)
(* A cancelled request may still be launched; its outcome stays CANCELLED. *)
(* WorkflowManager implements this specification.                          *)
(***************************************************************************)
CONSTANTS Requests,     \* the requests clients may submit
          Slots,        \* the places a function can execute in
          None          \* marks a slot in which nothing executes

VARIABLES outcome,      \* outcome[r]: where request r stands
          launched,     \* the requests whose function has been launched
          executing     \* executing[s]: the request whose function runs in slot s

vars == <<outcome, launched, executing>>

Settled == {"COMPLETED", "FAILED", "TIMEOUT", "CANCELLED"}

Init == /\ outcome = [r \in Requests |-> "UNSUBMITTED"]
        /\ launched = {}
        /\ executing = [s \in Slots |-> None]

Accept(r) == /\ outcome[r] = "UNSUBMITTED"
             /\ outcome' = [outcome EXCEPT ![r] = "PENDING"]
             /\ UNCHANGED <<launched, executing>>

Launch(r, s) == /\ outcome[r] \in {"PENDING", "CANCELLED"}
                /\ r \notin launched
                /\ executing[s] = None
                /\ outcome' = [outcome EXCEPT ![r] =
                                 IF @ = "PENDING" THEN "PROCESSING" ELSE @]
                /\ launched' = launched \cup {r}
                /\ executing' = [executing EXCEPT ![s] = r]

Cancel(r) == /\ outcome[r] \in {"PENDING", "PROCESSING"}
             /\ outcome' = [outcome EXCEPT ![r] = "CANCELLED"]
             /\ UNCHANGED <<launched, executing>>

\* The function outlives its deadline: the outcome is settled, the slot is not free.
Expire(r, s) == /\ executing[s] = r
                /\ outcome[r] = "PROCESSING"
                /\ outcome' = [outcome EXCEPT ![r] = "TIMEOUT"]
                /\ UNCHANGED <<launched, executing>>

\* The function ends and frees its slot; only an unsettled outcome is decided by it.
Return(r, s) == /\ executing[s] = r
                /\ executing' = [executing EXCEPT ![s] = None]
                /\ \/ /\ outcome[r] = "PROCESSING"
                      /\ \E o \in {"COMPLETED", "FAILED"} :
                           outcome' = [outcome EXCEPT ![r] = o]
                   \/ /\ outcome[r] \in Settled
                      /\ UNCHANGED outcome
                /\ UNCHANGED launched

Next == \E r \in Requests :
          \/ Accept(r)
          \/ Cancel(r)
          \/ \E s \in Slots : Launch(r, s) \/ Expire(r, s) \/ Return(r, s)

Spec == Init /\ [][Next]_vars
=============================================================================
