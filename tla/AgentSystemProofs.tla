-------------------------- MODULE AgentSystemProofs --------------------------
(***************************************************************************)
(* Theorems about AgentSystem for any clients, requests, identifiers and    *)
(* configured agents, on both platforms.  The inductive invariant IInv has  *)
(* two parts.  ProcessInv says, for each place of main and of the signal    *)
(* handler, what has been made and what has been taken down again; it makes *)
(* no use of the order in which the two run.  DataInv says of each request  *)
(* what its place in its handler means for the agents and the definitions   *)
(* it has looked up without a lock.                                         *)
(***************************************************************************)
EXTENDS AgentSystem, AgentPartsProofs, WorkflowDefinitionsProofs, TLAPS, FiniteSetTheorems,
        FunctionTheorems

-----------------------------------------------------------------------------
(* The inductive invariant                                                  *)

\* main's places until HTTPServer::start has its port.
Before == {"launch", "start_server", "configure", "manager", "orchestrator", "http"}

\* main's places once it has let go of the server, of the orchestrator, of the manager.
WithoutManager == {"agents", "launcher_test", "launcher_stop", "returned"}
WithoutOrchestrator == WithoutManager \cup {"manager_test", "manager_stop"}
WithoutHttp == WithoutOrchestrator \cup {"orchestrator_test", "orchestrator_stop"}

\* The types of what main, the handler and the accepting thread share.
ProcessTypes ==
    /\ platform \in {"unix", "windows"}
    /\ main \in Startup \cup Stopping
               \cup {"serve", "http_reset", "agents", "returned", "failed", "exit"}
    /\ handler \in (Stopping \cup {"none", "logger", "done"})
    /\ systemRunning \in BOOLEAN
    /\ made \subseteq Components /\ up \subseteq Components \ {"http"}
    /\ http \in [running : BOOLEAN,
                acceptor : {"none", "test", "call", "blocked", "ended", "joined"}]

\* Without a signal main does not leave its loop.
SignalAgrees ==
    handler = "none" => systemRunning /\ main \in Startup \cup {"serve", "failed", "exit"}

\* What runs has been made, and main, at each of its places, knows what is made.
Built ==
    /\ up \subseteq made
    /\ http.running => "http" \in made
    /\ main \in Before => "http" \notin made /\ http.acceptor = "none"
    /\ main \in {"http_thread", "serve"} => "http" \in made
    /\ main \notin {"launch", "exit"} => "launcher" \in made
    /\ main = "failed" => http.acceptor = "none"

\* What main has taken down stays down, whatever the handler does.
TakenDown ==
    /\ main \in {"failed", "http_join", "http_reset"} => ~http.running
    /\ main \in WithoutHttp => "http" \notin made
    /\ main \in WithoutOrchestrator => "orchestrator" \notin made
    /\ main \in WithoutManager => "manager" \notin made
    /\ main = "returned" => "launcher" \notin up

ProcessInv == ProcessTypes /\ SignalAgrees /\ Built /\ TakenDown

\* The steps of the program's own threads.
OwnStep == Main \/ Signal \/ Acceptor \/ \E t \in Threads : StopThread(t) \/ Stop(t, "manager")

\* Main, the handler and the accepting thread keep what each relies on of the others.
LEMMA ProcessStep ==
    ASSUME ProcessInv, OwnStep
    PROVE  ProcessInv'
<1> USE DEF ProcessInv, ProcessTypes, SignalAgrees, Built, TakenDown, Before, WithoutHttp,
            WithoutOrchestrator, WithoutManager, Startup, Stopping, Components, At
<1>1. ASSUME Launch PROVE ProcessInv'
  BY <1>1 DEF Launch
<1>2. ASSUME StartServer PROVE ProcessInv'
  BY <1>2 DEF StartServer
<1>3. ASSUME InitializeDefaultAgents PROVE ProcessInv'
  BY <1>3 DEF InitializeDefaultAgents
<1>4. ASSUME StartManager PROVE ProcessInv'
  BY <1>4 DEF StartManager
<1>5. ASSUME StartOrchestrator PROVE ProcessInv'
  BY <1>5 DEF StartOrchestrator
<1>6. ASSUME StartHttp PROVE ProcessInv'
  BY <1>6 DEF StartHttp
<1>7. ASSUME StartHttpThread PROVE ProcessInv'
  BY <1>7 DEF StartHttpThread
<1>8. ASSUME LeaveLoop PROVE ProcessInv'
  BY <1>8 DEF LeaveLoop
<1>9. ASSUME HttpReset PROVE ProcessInv'
  BY <1>9 DEF HttpReset
<1>10. ASSUME StopAllAgents PROVE ProcessInv'
  BY <1>10 DEF StopAllAgents
<1>11. ASSUME Exit PROVE ProcessInv'
  BY <1>11 DEF Exit
<1>12. ASSUME Signal PROVE ProcessInv'
  BY <1>12 DEF Signal
<1>13. ASSUME Acceptor PROVE ProcessInv'
  BY <1>13 DEF Acceptor, AcceptorTest, AcceptorCall
<1>14. ASSUME NEW t \in Threads, HttpTest(t) PROVE ProcessInv'
  BY <1>14 DEF HttpTest, StandsAt, GoesTo, Where, AfterHttp
<1>15. ASSUME NEW t \in Threads, HttpClose(t) PROVE ProcessInv'
  <2>1. /\ http' = [http EXCEPT !.running = FALSE]
        /\ UNCHANGED <<platform, systemRunning, made, up>>
    BY <1>15 DEF HttpClose
  <2>2. \/ main = "http_close" /\ main' = "http_join" /\ UNCHANGED handler
        \/ handler = "http_close" /\ handler' = "http_join" /\ UNCHANGED main
    BY <1>15 DEF HttpClose, StandsAt, GoesTo, Where
  <2>3. /\ http'.running = FALSE /\ http'.acceptor = http.acceptor
        /\ http' \in [running : BOOLEAN,
                      acceptor : {"none", "test", "call", "blocked", "ended", "joined"}]
    BY <2>1
  <2>4. ProcessTypes'
    BY <2>1, <2>2
  <2>5. SignalAgrees' /\ Built' /\ TakenDown'
    BY <2>1, <2>2
  <2>6. QED
    BY <2>4, <2>5
<1>16. ASSUME NEW t \in Threads, HttpJoin(t) PROVE ProcessInv'
  BY <1>16 DEF HttpJoin, StandsAt, GoesTo, Where, AfterHttp
<1>17. ASSUME NEW t \in Threads, NEW component \in {"orchestrator", "manager", "launcher"},
              StopTest(t, component)
       PROVE  ProcessInv'
  BY <1>17 DEF StopTest, StandsAt, GoesTo, Where, TestOf, StopOf, After
<1>18. ASSUME NEW t \in Threads, NEW component \in {"orchestrator", "manager", "launcher"},
              Stop(t, component)
       PROVE  ProcessInv'
  BY <1>18 DEF Stop, StandsAt, GoesTo, Where, StopOf, After
<1>. QED
  BY <1>1, <1>2, <1>3, <1>4, <1>5, <1>6, <1>7, <1>8, <1>9, <1>10, <1>11, <1>12, <1>13, <1>14, <1>15,
      <1>16, <1>17, <1>18 DEF OwnStep, Main, StopThread

-----------------------------------------------------------------------------
(* The connections                                                          *)

Fields == {"pc", "msg", "to", "id", "body", "action", "dangling", "status", "changed"}
Places == {"idle", "backlog", "accepted", "dropped", "closed", "resolve", "act", "info", "get",
           "point", "call", "update", "read"}
Statuses == {0, 200, 201, 400, 404, 500}

\* A request is answered when it is over.  One that has changed something and goes on is in
\* a call, which an error of the client's does not end.
WellFormed(r) ==
    /\ DOMAIN r = Fields
    /\ r.pc \in Places
    /\ r.pc \notin {"idle", "dropped", "closed"} => r.msg \in Messages
    /\ r.status \in Statuses /\ r.changed \in BOOLEAN /\ r.dangling \in BOOLEAN
    /\ r.pc # "closed" => r.status = 0
    /\ r.dangling => r.pc = "read"
    /\ r.changed => r.pc \in {"call", "closed"} /\ r.status \notin 400 .. 499

Connections == DOMAIN conn = Clients /\ \A c \in Clients : WellFormed(conn[c])

\* Where a handler uses what it found, it is still there, and nobody has replaced it.
Held(r) ==
    /\ r.pc \in {"info", "point", "call"} => r.id \in DOMAIN agents
    /\ r.pc = "read" => r.id \in workflows
    /\ ~r.dangling

\* Closing a connection.
LEMMA ClosedIsWellFormed ==
    ASSUME NEW status \in Statuses, NEW changed \in BOOLEAN, status \notin 400 .. 499 \/ ~changed
    PROVE  WellFormed(Closed(status, changed))
  BY DEF WellFormed, Closed, Idle, Fields, Places

\* The handlers that look and do not change.
Looks(c) ==
    \/ ReceiveNothing(c) \/ Receive(c) \/ AnswerNotFound(c) \/ AnswerListing(c)
    \/ LookAtExecution(c) \/ Resolve(c) \/ GetAgent(c) \/ AgentInfo(c)
    \/ ExecuteFunctionHandler(c) \/ SimpleExecute(c) \/ SimpleGet(c) \/ CallReturns(c)
    \/ UpdateWorkflowTest(c) \/ GetWorkflow(c) \/ ReadWorkflow(c) \/ ExecuteWorkflowHandler(c)

\* The handlers that change agents or definitions.
Acts(c) ==
    \/ StartAgent(c) \/ StopAgent(c) \/ DeleteAgent(c) \/ CreateAgentHandler(c) \/ AutoStart(c)
    \/ RegisterWorkflowHandler(c) \/ UpdateWorkflowAssign(c) \/ DeleteWorkflow(c)

\* A handler that looks answers, or goes on with what it has found.
LEMMA LooksEffect ==
    ASSUME Connections, NEW c \in Clients, Looks(c)
    PROVE  /\ conn[c].pc \notin {"idle", "backlog", "dropped", "closed"}
           /\ \E r : /\ WellFormed(r) /\ r.pc \notin {"idle", "backlog", "dropped"}
                     /\ Held(r)
                     /\ conn' = [conn EXCEPT ![c] = r]
<1> DEFINE Goal == \E r : /\ WellFormed(r) /\ r.pc \notin {"idle", "backlog", "dropped"}
                          /\ Held(r)
                          /\ conn' = [conn EXCEPT ![c] = r]
<1>0. WellFormed(conn[c])
  BY DEF Connections
<1>1. ASSUME NEW status \in Statuses, Answer(c, status),
             status \notin 400 .. 499 \/ ~conn[c].changed
      PROVE  Goal
  <2> DEFINE r == Closed(status, conn[c].changed)
  <2>1. WellFormed(r)
    <3>1. conn[c].changed \in BOOLEAN
      BY <1>0 DEF WellFormed
    <3>2. QED
      BY <1>1, <3>1, ClosedIsWellFormed, Zenon
  <2>2. r.pc = "closed" /\ r.dangling = FALSE
    BY DEF Closed, Idle
  <2>3. conn' = [conn EXCEPT ![c] = r]
    BY <1>1 DEF Answer
  <2>4. QED
    BY <2>1, <2>2, <2>3 DEF Held
<1>2. ASSUME NEW status \in Statuses, Answer(c, status), conn[c].pc \notin {"call", "closed"}
      PROVE  Goal
  <2>1. ~conn[c].changed
    BY <1>0, <1>2 DEF WellFormed
  <2>2. QED
    BY <1>1, <1>2, <2>1, Zenon
<1>3. ASSUME NEW step \in {"info", "point", "call", "update", "read"}, Continue(c, step),
             conn[c].pc \in {"act", "get"},
             step \in {"info", "point", "call"} => conn[c].id \in DOMAIN agents,
             step = "read" => conn[c].id \in workflows
      PROVE  Goal
  <2> DEFINE r == [conn[c] EXCEPT !.pc = step]
  <2>1. WellFormed(r)
    BY <1>0, <1>3 DEF WellFormed, Fields, Places
  <2>2. r.pc = step /\ r.dangling = FALSE /\ r.id = conn[c].id
    BY <1>0, <1>3 DEF WellFormed
  <2>3. conn' = [conn EXCEPT ![c] = r]
    BY <1>3 DEF Continue
  <2>4. QED
    BY <1>3, <2>1, <2>2, <2>3 DEF Held
<1>4. ASSUME NEW step \in {"act", "get"}, NEW a,
             conn' = [conn EXCEPT ![c].pc = step, ![c].id = a],
             conn[c].pc \in {"resolve", "act"}
      PROVE  Goal
  <2> DEFINE r == [conn[c] EXCEPT !.pc = step, !.id = a]
  <2>1. WellFormed(r) /\ r.pc = step /\ r.dangling = FALSE
    BY <1>0, <1>4 DEF WellFormed, Fields, Places
  <2>2. conn' = [conn EXCEPT ![c] = r]
    BY <1>4
  <2>3. QED
    BY <1>4, <2>1, <2>2 DEF Held
<1> HIDE DEF Goal
<1>5. \A status \in {0, 200, 201, 400, 404, 500} : status \in Statuses
  BY DEF Statuses
<1>6. ASSUME Receive(c) PROVE Goal
  <2> DEFINE t == Target(conn[c].msg.method, conn[c].msg.path)
             step == IF t.to \in ByIdentifier THEN "resolve" ELSE "act"
  <2>1. PICK body : conn' = [conn EXCEPT ![c].to = t.to, ![c].id = Identifier(t), ![c].body = body,
                                         ![c].action = t.action, ![c].pc = step]
    BY <1>6 DEF Receive
  <2>2. conn[c].pc = "accepted" /\ step \in {"resolve", "act"}
    BY <1>6 DEF Receive, At_
  <2> HIDE DEF t, step
  <2> DEFINE r == [conn[c] EXCEPT !.to = t.to, !.id = Identifier(t), !.body = body,
                                  !.action = t.action, !.pc = step]
             q == [conn[c] EXCEPT !.pc = step]
  <2>3. WellFormed(q)
    BY <1>0, <2>2 DEF WellFormed, Fields, Places
  <2>4. /\ DOMAIN r = Fields /\ r.pc = q.pc /\ r.msg = q.msg /\ r.status = q.status
        /\ r.changed = q.changed /\ r.dangling = q.dangling
    BY <1>0 DEF WellFormed
  <2>5. WellFormed(r)
    BY <2>3, <2>4 DEF WellFormed
  <2>6. r.pc = step /\ r.dangling = FALSE
    BY <1>0, <2>2, <2>4 DEF WellFormed
  <2>7. conn' = [conn EXCEPT ![c] = r]
    BY <2>1
  <2>8. QED
    BY <2>2, <2>5, <2>6, <2>7 DEF Held, Goal
<1>7. ASSUME \/ ReceiveNothing(c) \/ AnswerNotFound(c) \/ AnswerListing(c)
             \/ AgentInfo(c) \/ ReadWorkflow(c)
      PROVE  Goal
  <2>1. Answer(c, 0) \/ Answer(c, 200) \/ Answer(c, 404)
    BY <1>7 DEF ReceiveNothing, AnswerNotFound, AnswerListing, AgentInfo, ReadWorkflow
  <2>2. conn[c].pc \in {"accepted", "act", "info", "read"}
    BY <1>7 DEF ReceiveNothing, AnswerNotFound, AnswerListing, AgentInfo, ReadWorkflow, Handles, At_
  <2>3. \A status \in Statuses : Answer(c, status) => Goal
    BY <1>2, <2>2
  <2>4. QED
    BY <1>5, <2>1, <2>3
<1>8. ASSUME LookAtExecution(c) PROVE Goal
  <2> DEFINE st(found) ==
          CASE conn[c].to = "get_workflow_execution" -> GetWorkflowExecution(found)
            [] conn[c].to = "control_workflow_execution" ->
                  ControlWorkflowExecution(conn[c].action)
            [] conn[c].to = "workflow_execution_progress" -> WorkflowExecutionProgress(found)
            [] conn[c].to = "workflow_execution_logs" -> WorkflowExecutionLogs(found)
  <2>1. PICK found \in BOOLEAN : Answer(c, st(found))
    BY <1>8 DEF LookAtExecution
  <2>2. st(found) \in Statuses
    BY <1>8 DEF LookAtExecution, OnExecution, GetWorkflowExecution, ControlWorkflowExecution,
        WorkflowExecutionProgress, WorkflowExecutionLogs, Statuses
  <2>3. conn[c].pc = "act"
    BY <1>8 DEF LookAtExecution, At_
  <2>4. QED
    BY <1>2, <2>1, <2>2, <2>3
<1>9. ASSUME Resolve(c) PROVE Goal
  BY <1>2, <1>4, <1>5, <1>9 DEF Resolve, At_, Answer
<1>10. ASSUME GetAgent(c) PROVE Goal
  BY <1>2, <1>3, <1>5, <1>10 DEF GetAgent, Handles, At_, Answer
<1>11. ASSUME ExecuteFunctionHandler(c) PROVE Goal
  BY <1>2, <1>3, <1>5, <1>11 DEF ExecuteFunctionHandler, Handles, At_, ExecuteFunction, Answer
<1>12. ASSUME SimpleExecute(c) PROVE Goal
  BY <1>2, <1>4, <1>5, <1>12 DEF SimpleExecute, Handles, At_, SimpleAgentExecute, Answer
<1>13. ASSUME SimpleGet(c) PROVE Goal
  BY <1>2, <1>3, <1>5, <1>13 DEF SimpleGet, At_, Answer
<1>14. ASSUME CallReturns(c) PROVE Goal
  <2>1. conn[c].pc = "call" /\ conn[c].msg \in Messages
    BY <1>0, <1>14 DEF CallReturns, At_, WellFormed
  <2> DEFINE Expected(statuses) == statuses \subseteq {200, 500}
             Status(runs) == CallStatus[runs][conn[c].msg.names]
  <2>2. \A runs \in BOOLEAN : Expected(Status(runs))
    BY <2>1 DEF CallStatus
  <2> DEFINE runs == conn[c].id \in running
  <2>a. runs \in BOOLEAN
    OBVIOUS
  <2> HIDE DEF Expected, Status, runs
  <2>b. Expected(Status(TRUE)) /\ Expected(Status(FALSE)) /\ Expected(Status(runs))
    BY <2>2, <2>a, Zenon
  <2>3. Expected({200}) /\ Expected(Status(TRUE) \cup Status(FALSE))
    <3>1. Expected({200}) /\ \A x, y : Expected(x) /\ Expected(y) => Expected(x \cup y)
      BY DEF Expected
    <3>2. QED
      BY <2>b, <3>1, Zenon
  <2>4. \/ Outcomes(c) = {200} \/ Outcomes(c) = Status(runs)
        \/ Outcomes(c) = Status(TRUE) \cup Status(FALSE)
    <3> DEFINE all == conn[c].to = "simple_agent_execute" \/ conn[c].msg.names = "execute_all_tools"
               there == conn[c].id \in DOMAIN agents
               known == Status(runs)
               any == Status(TRUE) \cup Status(FALSE)
    <3>1. Outcomes(c) = IF all THEN {200} ELSE IF there THEN known ELSE any
      BY Zenon DEF Outcomes, Status, runs
    <3> HIDE DEF all, there, known, any
    <3>2. Outcomes(c) = {200} \/ Outcomes(c) = known \/ Outcomes(c) = any
      BY <3>1
    <3>3. QED
      BY <3>2, Zenon DEF known, any
  <2>5. Expected(Outcomes(c))
    BY <2>b, <2>3, <2>4, Zenon
  <2>6. PICK status \in {200, 500} : Answer(c, status)
    BY <1>14, <2>5 DEF CallReturns, Expected
  <2>7. status \in Statuses /\ status \notin 400 .. 499
    BY DEF Statuses
  <2>8. QED
    BY <1>1, <2>6, <2>7
<1>15. ASSUME UpdateWorkflowTest(c) PROVE Goal
  BY <1>2, <1>3, <1>5, <1>15 DEF UpdateWorkflowTest, Handles, At_, Answer
<1>16. ASSUME GetWorkflow(c) PROVE Goal
  BY <1>2, <1>3, <1>5, <1>16 DEF GetWorkflow, Handles, At_, Answer
<1>17. ASSUME ExecuteWorkflowHandler(c) PROVE Goal
  <2> DEFINE found == conn[c].id \in workflows
             st == IF conn[c].to = "execute_workflow" THEN ExecuteWorkflow(conn[c].body, found)
                   ELSE ExecuteWorkflowTemplate(conn[c].body, found)
  <2>1. st \in Statuses
    BY DEF ExecuteWorkflow, ExecuteWorkflowTemplate, Statuses
  <2>2. Answer(c, st) /\ conn[c].pc = "act"
    BY <1>17 DEF ExecuteWorkflowHandler, At_
  <2>3. QED
    BY <1>2, <2>1, <2>2
<1>18. Goal
  BY <1>6, <1>7, <1>8, <1>9, <1>10, <1>11, <1>12, <1>13, <1>14, <1>15, <1>16, <1>17 DEF Looks
<1>19. conn[c].pc \notin {"idle", "backlog", "dropped", "closed"}
  BY DEF Looks, ReceiveNothing, Receive, AnswerNotFound, AnswerListing, LookAtExecution, Resolve,
      GetAgent, AgentInfo, ExecuteFunctionHandler, SimpleExecute, SimpleGet, CallReturns,
      UpdateWorkflowTest, GetWorkflow, ReadWorkflow, ExecuteWorkflowHandler, Handles, At_
<1>. QED
  BY <1>18, <1>19 DEF Goal

-----------------------------------------------------------------------------
(* The data the connections share                                           *)

\* Who is answered has had his turn; an identifier, once given, is not given again.
HadTurn == {c \in Clients : conn[c].pc = "closed"}
Spent == DOMAIN agents \cup deleted

IdsLeft ==
    /\ IsFiniteSet(Spent)
    /\ Cardinality(Spent) <= Cardinality(Defaults) + Cardinality(HadTurn)

AgentsAgree == DOMAIN agents \subseteq AgentIds /\ running \subseteq DOMAIN agents

\* Nobody is served before the server listens, nor if it never does.
NobodyServed ==
    main \in Before \cup {"failed"} => deleted = {} /\ \A c \in Clients : conn[c].pc = "idle"

PointersHold == handler = "none" /\ deleted = {} => \A c \in Clients : Held(conn[c])

DataInv == Connections /\ IdsLeft /\ AgentsAgree /\ NobodyServed /\ PointersHold

\* The identifiers last for all clients.
LEMMA FreeId ==
    ASSUME IdsLeft, NEW c \in Clients, conn[c].pc # "closed"
    PROVE  NewId \in AgentIds \ Spent
<1>1. HadTurn \subseteq Clients \ {c}
  BY DEF HadTurn
<1>2. IsFiniteSet(Clients \ {c}) /\ Cardinality(Clients \ {c}) = Cardinality(Clients) - 1
  BY EnoughIds, FS_RemoveElement
<1>3. Cardinality(HadTurn) <= Cardinality(Clients) - 1
  BY <1>1, <1>2, FS_Subset
<1>4. /\ Cardinality(Clients) \in Nat /\ Cardinality(Defaults) \in Nat
      /\ Cardinality(AgentIds) \in Nat /\ Cardinality(Spent) \in Nat /\ Cardinality(HadTurn) \in Nat
  BY <1>1, <1>2, EnoughIds, FS_CardinalityType, FS_Subset DEF IdsLeft
<1>5. Cardinality(Spent) < Cardinality(AgentIds)
  BY <1>3, <1>4, EnoughIds DEF IdsLeft
<1>6. ~(AgentIds \subseteq Spent)
  BY <1>4, <1>5, FS_Subset DEF IdsLeft
<1>7. QED
  BY <1>6 DEF NewId, Spent

\* One more client answered allows for one more identifier.
LEMMA IdsStep ==
    ASSUME IdsLeft, DOMAIN conn' = Clients, NEW c \in Clients, conn[c].pc # "closed",
           \A d \in Clients \ {c} : conn[d].pc = "closed" => conn'[d].pc = "closed",
           \/ Spent' \subseteq Spent
           \/ conn'[c].pc = "closed" /\ \E x : Spent' \subseteq Spent \cup {x}
    PROVE  IdsLeft'
<1>1. HadTurn \subseteq HadTurn' /\ HadTurn' \subseteq Clients
  BY DEF HadTurn
<1>2. IsFiniteSet(HadTurn) /\ IsFiniteSet(HadTurn')
  BY <1>1, EnoughIds, FS_Subset
<1>3. /\ Cardinality(HadTurn) \in Nat /\ Cardinality(HadTurn') \in Nat
      /\ Cardinality(HadTurn) <= Cardinality(HadTurn')
  BY <1>1, <1>2, FS_Subset, FS_CardinalityType
<1>4. Cardinality(Spent) \in Nat /\ Cardinality(Defaults) \in Nat
  BY EnoughIds, FS_CardinalityType DEF IdsLeft
<1>5. CASE Spent' \subseteq Spent
  <2>1. /\ IsFiniteSet(Spent') /\ Cardinality(Spent') <= Cardinality(Spent)
        /\ Cardinality(Spent') \in Nat
    BY <1>5, FS_Subset, FS_CardinalityType DEF IdsLeft
  <2>2. QED
    BY <1>3, <1>4, <2>1 DEF IdsLeft
<1>6. CASE conn'[c].pc = "closed" /\ \E x : Spent' \subseteq Spent \cup {x}
  <2>1. PICK x : Spent' \subseteq Spent \cup {x}
    OBVIOUS
  <2>2. IsFiniteSet(Spent \cup {x}) /\ Cardinality(Spent \cup {x}) <= Cardinality(Spent) + 1
    <3>1. IsFiniteSet(Spent)
      BY DEF IdsLeft
    <3>2. /\ IsFiniteSet(Spent \cup {x})
          /\ \/ Cardinality(Spent \cup {x}) = Cardinality(Spent)
             \/ Cardinality(Spent \cup {x}) = Cardinality(Spent) + 1
      BY <3>1, FS_AddElement, Zenon
    <3>3. QED
      BY <1>4, <3>2
  <2>3. /\ IsFiniteSet(Spent') /\ Cardinality(Spent') <= Cardinality(Spent \cup {x})
        /\ Cardinality(Spent') \in Nat /\ Cardinality(Spent \cup {x}) \in Nat
    BY <2>1, <2>2, FS_Subset, FS_CardinalityType
  <2>4. c \notin HadTurn /\ HadTurn \cup {c} \subseteq HadTurn'
    BY <1>1, <1>6 DEF HadTurn
  <2>5. IsFiniteSet(HadTurn \cup {c}) /\ Cardinality(HadTurn \cup {c}) = Cardinality(HadTurn) + 1
    BY <1>2, <2>4, FS_AddElement
  <2>6. Cardinality(HadTurn') >= Cardinality(HadTurn) + 1
    BY <1>2, <2>4, <2>5, FS_Subset
  <2>7. QED
    BY <1>3, <1>4, <2>2, <2>3, <2>6 DEF IdsLeft
<1>7. QED
  BY <1>5, <1>6

\* What a handler that changes something makes of the data ...
DataChanges(c) ==
    /\ deleted \subseteq deleted'
    /\ deleted' = {} => DOMAIN agents \subseteq DOMAIN agents' /\ workflows \subseteq workflows'
    /\ AgentsAgree'
    /\ \/ Spent' \subseteq Spent
       \/ conn'[c].pc = "closed" /\ \E x : Spent' \subseteq Spent \cup {x}

\* ... and of the connections.
ConnChanges(c) ==
    /\ conn[c].pc \in {"act", "point", "update"}
    /\ DOMAIN conn' = Clients
    /\ WellFormed(conn'[c]) /\ conn'[c].pc \in {"call", "closed"} /\ ~conn'[c].dangling
    /\ conn'[c].pc = "call" => conn'[c].id = conn[c].id /\ conn[c].pc = "point"
    /\ \A d \in Clients \ {c} :
          \/ conn'[d] = conn[d]
          \/ \E b \in BOOLEAN :
                /\ conn'[d] = [conn[d] EXCEPT !.dangling = b]
                /\ b => \/ conn[d].dangling
                        \/ /\ conn[d].pc = "read"
                           /\ conn[d].id \in workflows => deleted' # {}

\* A handler that changes something and answers touches its own connection only.
LEMMA AnswersEffect ==
    ASSUME Connections, NEW c \in Clients, NEW status \in Statuses,
           conn[c].pc \in {"act", "point", "update"},
           \/ Answer(c, status)
           \/ AnswerChanged(c, status) /\ status \notin 400 .. 499
    PROVE  ConnChanges(c) /\ conn'[c].pc = "closed"
<1>1. WellFormed(conn[c]) /\ conn[c].changed = FALSE
  BY DEF Connections, WellFormed
<1>2. PICK changed \in BOOLEAN : /\ conn' = [conn EXCEPT ![c] = Closed(status, changed)]
                                 /\ status \notin 400 .. 499 \/ ~changed
  <2>1. CASE Answer(c, status)
    <3>1. conn' = [conn EXCEPT ![c] = Closed(status, conn[c].changed)]
      BY <2>1 DEF Answer
    <3>2. QED
      BY <1>1, <3>1
  <2>2. CASE AnswerChanged(c, status) /\ status \notin 400 .. 499
    BY <2>2 DEF AnswerChanged
  <2>3. QED
    BY <2>1, <2>2
<1>3. WellFormed(Closed(status, changed))
  BY <1>2, ClosedIsWellFormed
<1>4. DOMAIN conn' = Clients /\ conn'[c] = Closed(status, changed)
  BY <1>2 DEF Connections
<1>5. Closed(status, changed).pc = "closed" /\ Closed(status, changed).dangling = FALSE
  BY DEF Closed, Idle
<1>6. QED
  BY <1>2, <1>3, <1>4, <1>5 DEF ConnChanges

\* A definition is deleted or replaced under those who read it.
LEMMA ReplacedEffect ==
    ASSUME Connections, NEW c \in Clients, NEW status \in {200, 201}, NEW id,
           conn[c].pc \in {"act", "update"},
           id \in workflows => deleted' # {},
           Replace(c, id, status)
    PROVE  ConnChanges(c) /\ conn'[c].pc = "closed"
<1>1. status \in Statuses /\ status \notin 400 .. 499
  BY DEF Statuses
<1>2. WellFormed(Closed(status, TRUE))
  BY <1>1, ClosedIsWellFormed, Zenon
<1>3. DOMAIN conn' = Clients /\ conn'[c] = Closed(status, TRUE)
  BY DEF Replace
<1>4. Closed(status, TRUE).pc = "closed" /\ Closed(status, TRUE).dangling = FALSE
  BY DEF Closed, Idle
<1>5. ASSUME NEW d \in Clients \ {c}
      PROVE  \E b \in BOOLEAN :
                /\ conn'[d] = [conn[d] EXCEPT !.dangling = b]
                /\ b => \/ conn[d].dangling
                        \/ /\ conn[d].pc = "read"
                           /\ conn[d].id \in workflows => deleted' # {}
  <2> DEFINE b == conn[d].dangling \/ (conn[d].pc = "read" /\ conn[d].id = id)
  <2>1. conn'[d] = [conn[d] EXCEPT !.dangling = b]
    BY DEF Replace, At_
  <2>2. b \in BOOLEAN
    BY DEF Connections
  <2>3. b => \/ conn[d].dangling
             \/ conn[d].pc = "read" /\ (conn[d].id \in workflows => deleted' # {})
    OBVIOUS
  <2> HIDE DEF b
  <2>4. QED
    BY <2>1, <2>2, <2>3
<1>6. QED
  BY <1>2, <1>3, <1>4, <1>5 DEF ConnChanges

\* What each handler that changes something makes of data and connections.
LEMMA ActsEffect ==
    ASSUME Connections, AgentsAgree, IdsLeft, NEW c \in Clients, Acts(c)
    PROVE  ConnChanges(c) /\ DataChanges(c)
<1>0. WellFormed(conn[c])
  BY DEF Connections
<1>a. {200, 201, 400, 404, 500} \subseteq Statuses /\ 200 \notin 400 .. 499 /\ 201 \notin 400 .. 499
  BY DEF Statuses
<1>b. \A status \in Statuses :
         /\ conn[c].pc \in {"act", "point", "update"}
         /\ Answer(c, status) \/ (AnswerChanged(c, status) /\ status \notin 400 .. 499)
         => ConnChanges(c) /\ conn'[c].pc = "closed"
  BY AnswersEffect
<1>1. ASSUME StartAgent(c) PROVE ConnChanges(c) /\ DataChanges(c)
  <2>1. ConnChanges(c)
    BY <1>a, <1>1, AnswersEffect DEF StartAgent, Handles, At_
  <2>2. DataChanges(c)
    BY <1>1 DEF StartAgent, DataChanges, AgentsAgree, Spent
  <2>3. QED
    BY <2>1, <2>2
<1>2. ASSUME StopAgent(c) PROVE ConnChanges(c) /\ DataChanges(c)
  <2>1. ConnChanges(c)
    BY <1>a, <1>2, AnswersEffect DEF StopAgent, Handles, At_
  <2>2. DataChanges(c)
    BY <1>2 DEF StopAgent, DataChanges, AgentsAgree, Spent
  <2>3. QED
    BY <2>1, <2>2
<1>3. ASSUME DeleteAgent(c) PROVE ConnChanges(c) /\ DataChanges(c)
  <2>1. ConnChanges(c)
    BY <1>a, <1>3, AnswersEffect DEF DeleteAgent, Handles, At_
  <2>2. DataChanges(c)
    BY <1>3 DEF DeleteAgent, DataChanges, AgentsAgree, Spent
  <2>3. QED
    BY <2>1, <2>2
<1>4. ASSUME CreateAgentHandler(c) PROVE ConnChanges(c) /\ DataChanges(c)
  <2>1. ConnChanges(c) /\ conn'[c].pc = "closed"
    BY <1>a, <1>4, AnswersEffect DEF CreateAgentHandler, CreateAgent, Handles, At_
  <2>2. NewId \in AgentIds
    BY <1>4, FreeId DEF CreateAgentHandler, Handles, At_
  <2>3. DataChanges(c)
    BY <1>4, <2>1, <2>2 DEF CreateAgentHandler, DataChanges, AgentsAgree, Spent
  <2>4. QED
    BY <2>1, <2>3
<1>5. ASSUME AutoStart(c) PROVE ConnChanges(c) /\ DataChanges(c)
  <2>1. conn[c].pc = "point" /\ UNCHANGED <<agents, workflows, deleted>>
    BY <1>5 DEF AutoStart, At_
  <2>2. DataChanges(c)
    BY <1>5, <2>1 DEF AutoStart, DataChanges, AgentsAgree, Spent
  <2>3. CASE Answer(c, 500)
    BY <1>a, <2>1, <2>2, <2>3, AnswersEffect
  <2>4. CASE conn' = [conn EXCEPT ![c].pc = "call", ![c].changed = conn[c].id \notin running]
    <3> DEFINE changed == conn[c].id \notin running
               r == [conn[c] EXCEPT !.pc = "call", !.changed = changed]
    <3>1. changed \in BOOLEAN
      OBVIOUS
    <3> HIDE DEF changed
    <3>2. WellFormed(r) /\ r.pc = "call" /\ r.id = conn[c].id /\ r.dangling = FALSE
      BY <1>0, <2>1, <3>1 DEF WellFormed, Fields, Places
    <3>3. conn' = [conn EXCEPT ![c] = r]
      BY <2>4 DEF changed
    <3>4. ConnChanges(c)
      BY <2>1, <3>2, <3>3 DEF ConnChanges, Connections
    <3>5. QED
      BY <2>2, <3>4
  <2>5. QED
    BY <1>5, <2>3, <2>4 DEF AutoStart
<1>6. ASSUME NEW id, NEW status \in {200, 201}, Assign(c, id, status),
             UNCHANGED <<agents, running>>, conn[c].pc \in {"act", "update"}
      PROVE  ConnChanges(c) /\ DataChanges(c)
  <2>1. ConnChanges(c) /\ conn'[c].pc = "closed"
    BY <1>6, ReplacedEffect DEF Assign
  <2>2. DataChanges(c)
    BY <1>6, <2>1 DEF Assign, DataChanges, AgentsAgree, Spent
  <2>3. QED
    BY <2>1, <2>2
<1>7. ASSUME NEW status \in {200, 201, 400, 404, 500}, Answer(c, status), UNCHANGED data,
             conn[c].pc \in {"act", "update"}
      PROVE  ConnChanges(c) /\ DataChanges(c)
  BY <1>a, <1>7, AnswersEffect DEF data, DataChanges, AgentsAgree, Spent
<1>8. ASSUME RegisterWorkflowHandler(c) PROVE ConnChanges(c) /\ DataChanges(c)
  BY <1>6, <1>7, <1>8 DEF RegisterWorkflowHandler, RegisterWorkflow, Handles, At_, data
<1>9. ASSUME UpdateWorkflowAssign(c) PROVE ConnChanges(c) /\ DataChanges(c)
  BY <1>6, <1>7, <1>9 DEF UpdateWorkflowAssign, UpdateWorkflow, At_, data
<1>10. ASSUME DeleteWorkflow(c) PROVE ConnChanges(c) /\ DataChanges(c)
  <2>1. conn[c].pc = "act" /\ UNCHANGED <<agents, running>>
    BY <1>10 DEF DeleteWorkflow, Handles, At_
  <2>2. CASE conn[c].id \notin workflows
    BY <1>7, <1>10, <2>1, <2>2 DEF DeleteWorkflow, data
  <2>3. CASE conn[c].id \in workflows
    <3>1. ConnChanges(c) /\ conn'[c].pc = "closed"
      BY <1>10, <2>1, <2>3, ReplacedEffect DEF DeleteWorkflow
    <3>2. DataChanges(c)
      BY <1>10, <2>1, <2>3, <3>1 DEF DeleteWorkflow, DataChanges, AgentsAgree, Spent
    <3>3. QED
      BY <3>1, <3>2
  <2>4. QED
    BY <2>2, <2>3
<1>11. QED
  BY <1>1, <1>2, <1>3, <1>4, <1>5, <1>8, <1>9, <1>10 DEF Acts

-----------------------------------------------------------------------------
(* Every step keeps the data                                                *)

\* The configured agents get identifiers of their own.
LEMMA ConfiguredIds ==
    ASSUME NEW defined \in SUBSET Defaults
    PROVE  \E f \in [defined -> AgentIds] : \A d, e \in defined : f[d] = f[e] => d = e
<1>1. IsFiniteSet(defined) /\ Cardinality(defined) <= Cardinality(AgentIds)
      /\ Cardinality(defined) \in Nat /\ Cardinality(AgentIds) \in Nat
  <2>1. IsFiniteSet(defined) /\ Cardinality(defined) <= Cardinality(Defaults)
    BY EnoughIds, FS_Subset
  <2>2. /\ Cardinality(defined) \in Nat /\ Cardinality(Defaults) \in Nat
        /\ Cardinality(AgentIds) \in Nat /\ Cardinality(Clients) \in Nat
    BY <2>1, EnoughIds, FS_CardinalityType
  <2>3. QED
    BY <2>1, <2>2, EnoughIds
<1>2. ExistsInjection(defined, 1 .. Cardinality(defined))
  BY <1>1, FS_CardinalityType, Fun_ExistsBijEquiv
<1>3. ExistsInjection(1 .. Cardinality(defined), 1 .. Cardinality(AgentIds))
  BY <1>1, Fun_NatInjLeq
<1>4. ExistsInjection(1 .. Cardinality(AgentIds), AgentIds)
  BY EnoughIds, FS_CardinalityType, Fun_ExistsBijEquiv
<1>5. ExistsInjection(defined, AgentIds)
  BY <1>2, <1>3, <1>4, Fun_ExistsInjTransitive
<1>6. QED
  BY <1>5 DEF ExistsInjection, Injection, IsInjective

\* Main's steps that create and start no agent and assign no definition leave the data alone.
Quiet ==
    /\ UNCHANGED <<conn, agents, deleted>> /\ running' \subseteq running
    /\ workflows' = workflows \/ main = "orchestrator"
    /\ main' \in Before \cup {"failed"} => main \in Before \cup {"failed"}
    /\ handler' = "none" => handler = "none"

\* Of the program's own steps only the configuration makes agents.
LEMMA OwnStepIsQuiet ==
    ASSUME OwnStep
    PROVE  Quiet \/ InitializeDefaultAgents
<1> USE DEF Quiet, Before, At, data
<1>1. ASSUME Main PROVE Quiet \/ InitializeDefaultAgents
  BY <1>1 DEF Main, Launch, StartServer, StartManager, StartOrchestrator, StartHttp,
      StartHttpThread, LeaveLoop, HttpReset, StopAllAgents, Exit
<1>2. ASSUME Signal PROVE Quiet
  BY <1>2 DEF Signal
<1>3. ASSUME Acceptor PROVE Quiet
  BY <1>3 DEF Acceptor, AcceptorTest, AcceptorCall
<1>4. ASSUME NEW t \in Threads, HttpTest(t) PROVE Quiet
  BY <1>4 DEF HttpTest, StandsAt, GoesTo, Where, AfterHttp
<1>5. ASSUME NEW t \in Threads, HttpClose(t) PROVE Quiet
  BY <1>5 DEF HttpClose, StandsAt, GoesTo, Where
<1>6. ASSUME NEW t \in Threads, HttpJoin(t) PROVE Quiet
  BY <1>6 DEF HttpJoin, StandsAt, GoesTo, Where, AfterHttp
<1>7. ASSUME NEW t \in Threads, NEW component \in {"orchestrator", "manager", "launcher"},
             StopTest(t, component)
      PROVE  Quiet
  BY <1>7 DEF StopTest, StandsAt, GoesTo, Where, TestOf, StopOf, After
<1>8. ASSUME NEW t \in Threads, NEW component \in {"orchestrator", "manager", "launcher"},
             Stop(t, component)
      PROVE  Quiet
  BY <1>8 DEF Stop, StandsAt, GoesTo, Where, StopOf, After
<1>9. QED
  BY <1>1, <1>2, <1>3, <1>4, <1>5, <1>6, <1>7, <1>8 DEF OwnStep, StopThread

\* The program's own steps take nothing from under a request.
LEMMA OwnDataStep ==
    ASSUME DataInv, OwnStep
    PROVE  DataInv'
<1>1. ASSUME main \in Before, UNCHANGED conn PROVE \A c \in Clients : Held(conn[c])'
  BY <1>1 DEF DataInv, Connections, WellFormed, NobodyServed, Held
<1>2. CASE Quiet
  <2>1. Connections' /\ IdsLeft' /\ AgentsAgree' /\ NobodyServed'
    BY <1>2 DEF DataInv, Quiet, Connections, IdsLeft, AgentsAgree, NobodyServed, Spent, HadTurn
  <2>2. ASSUME main = "orchestrator" PROVE PointersHold'
    BY <1>1, <1>2, <2>2 DEF Quiet, PointersHold, Before
  <2>3. ASSUME main # "orchestrator" PROVE PointersHold'
    BY <1>2, <2>3 DEF DataInv, Quiet, PointersHold, Held
  <2>4. QED
    BY <2>1, <2>2, <2>3 DEF DataInv
<1>3. CASE InitializeDefaultAgents
  <2>1. main = "configure" /\ main' = "manager" /\ UNCHANGED <<conn, deleted>>
    BY <1>3 DEF InitializeDefaultAgents, At
  <2>2. deleted = {} /\ \A c \in Clients : conn[c].pc = "idle"
    BY <2>1 DEF DataInv, NobodyServed, Before
  <2>3. PICK defined \in SUBSET Defaults :
             LET ids == CHOOSE f \in [defined -> AgentIds] :
                            \A d, e \in defined : f[d] = f[e] => d = e
             IN  /\ agents' = [i \in {ids[d] : d \in defined} |->
                                 (CHOOSE d \in defined : ids[d] = i).name]
                 /\ running' = {ids[d] : d \in {d \in defined : d.auto_start}}
    BY <1>3 DEF InitializeDefaultAgents
  <2> DEFINE ids == CHOOSE f \in [defined -> AgentIds] : \A d, e \in defined : f[d] = f[e] => d = e
  <2>4. ids \in [defined -> AgentIds]
    BY ConfiguredIds
  <2>5. /\ DOMAIN agents' = {ids[d] : d \in defined}
        /\ running' = {ids[d] : d \in {d \in defined : d.auto_start}}
    BY <2>3
  <2> HIDE DEF ids
  <2>6. AgentsAgree'
    BY <2>4, <2>5 DEF AgentsAgree
  <2>7. IdsLeft'
    <3>1. Spent' = {ids[d] : d \in defined}
      BY <2>1, <2>2, <2>5 DEF Spent
    <3>2. /\ IsFiniteSet(defined) /\ Cardinality(defined) <= Cardinality(Defaults)
          /\ Cardinality(defined) \in Nat /\ Cardinality(Defaults) \in Nat
      BY EnoughIds, FS_Subset, FS_CardinalityType
    <3>3. /\ IsFiniteSet({ids[d] : d \in defined})
          /\ Cardinality({ids[d] : d \in defined}) <= Cardinality(defined)
      <4>1. ids \in Surjection(defined, {ids[d] : d \in defined})
        BY <2>4 DEF Surjection
      <4>2. QED
        BY <3>2, <4>1, FS_Surjection
    <3>4. Cardinality({ids[d] : d \in defined}) \in Nat
      BY <3>3, FS_CardinalityType
    <3>5. HadTurn' = {}
      BY <2>1, <2>2 DEF HadTurn
    <3>6. Cardinality(HadTurn') = 0
      BY <3>5, FS_EmptySet
    <3>7. QED
      BY <3>1, <3>2, <3>3, <3>4, <3>6 DEF IdsLeft
  <2>8. Connections' /\ NobodyServed'
    BY <2>1, <2>2 DEF DataInv, Connections, NobodyServed
  <2>9. PointersHold'
    BY <1>1, <2>1 DEF PointersHold, Before
  <2>10. QED
    BY <2>6, <2>7, <2>8, <2>9 DEF DataInv
<1>4. QED
  BY <1>2, <1>3, OwnStepIsQuiet

\* What is served has been accepted by a server that listened.
LEMMA ServedByServer ==
    ASSUME ProcessInv, DataInv, NEW c \in Clients, conn[c].pc # "idle" \/ Listens
    PROVE  main \notin Before \cup {"failed"}
<1>1. main \in Before \cup {"failed"} => ~http.running /\ http.acceptor = "none"
  BY DEF ProcessInv, Built, TakenDown
<1>2. QED
  BY <1>1 DEF DataInv, NobodyServed, Listens

\* The steps of a client keep the data, each test and the act it guards being steps of their own.
LEMMA ClientDataStep ==
    ASSUME ProcessInv, DataInv, NEW c \in Clients,
           Connect(c) \/ Accept(c) \/ Drop(c) \/ Looks(c) \/ Acts(c)
    PROVE  DataInv'
<1>1. /\ UNCHANGED <<main, handler>>
      /\ main \notin Before \cup {"failed"}
      /\ conn[c].pc # "closed"
  <2>1. UNCHANGED <<main, handler>>
    BY DEF Connect, Accept, Drop, Looks, Acts, process, ReceiveNothing, Receive, AnswerNotFound,
        AnswerListing, LookAtExecution, Resolve, GetAgent, AgentInfo, ExecuteFunctionHandler,
        SimpleExecute, SimpleGet, CallReturns, UpdateWorkflowTest, GetWorkflow, ReadWorkflow,
        ExecuteWorkflowHandler, StartAgent, StopAgent, DeleteAgent, CreateAgentHandler, AutoStart,
        RegisterWorkflowHandler, UpdateWorkflowAssign, DeleteWorkflow
  <2>2. conn[c].pc \notin {"idle", "closed"} \/ (Listens /\ conn[c].pc = "idle")
    BY LooksEffect, ActsEffect DEF Connect, Accept, Drop, DataInv, ConnChanges
  <2>3. QED
    BY <2>1, <2>2, ServedByServer
<1>2. NobodyServed'
  BY <1>1 DEF NobodyServed
<1>3. ASSUME NEW r, WellFormed(r), conn' = [conn EXCEPT ![c] = r], Held(r), UNCHANGED data
      PROVE  DataInv'
  <2>1. Connections'
    BY <1>3 DEF DataInv, Connections
  <2>2. DOMAIN conn' = Clients /\ \A d \in Clients \ {c} : conn'[d] = conn[d]
    BY <1>3 DEF DataInv, Connections
  <2>3. IdsLeft'
    BY <1>1, <1>3, <2>2, IdsStep DEF DataInv, Spent, data
  <2>4. AgentsAgree' /\ PointersHold'
    BY <1>1, <1>3, <2>2 DEF DataInv, AgentsAgree, PointersHold, Held, data
  <2>5. QED
    BY <1>2, <2>1, <2>3, <2>4 DEF DataInv
<1>4. CASE Looks(c)
  <2>1. UNCHANGED data
    BY <1>4 DEF Looks, ReceiveNothing, Receive, AnswerNotFound, AnswerListing, LookAtExecution,
        Resolve, GetAgent, AgentInfo, ExecuteFunctionHandler, SimpleExecute, SimpleGet, CallReturns,
        UpdateWorkflowTest, GetWorkflow, ReadWorkflow, ExecuteWorkflowHandler
  <2>2. QED
    BY <1>3, <1>4, <2>1, LooksEffect DEF DataInv
<1>5. CASE Connect(c) \/ Accept(c) \/ Drop(c)
  <2>0. WellFormed(conn[c]) /\ UNCHANGED data /\ conn[c].pc \in {"idle", "backlog"}
    BY <1>5 DEF DataInv, Connections, Connect, Accept, Drop
  <2>1. CASE Connect(c)
    <3>1. PICK m \in Messages : conn' = [conn EXCEPT ![c].pc = "backlog", ![c].msg = m]
      BY <2>1, MessagesSent DEF Connect
    <3> DEFINE r == [conn[c] EXCEPT !.pc = "backlog", !.msg = m]
    <3>2. WellFormed(r) /\ Held(r)
      BY <2>0 DEF WellFormed, Fields, Places, Held
    <3>3. conn' = [conn EXCEPT ![c] = r]
      BY <3>1
    <3>4. QED
      BY <1>3, <2>0, <3>2, <3>3
  <2>2. CASE Accept(c)
    <3> DEFINE r == [conn[c] EXCEPT !.pc = "accepted"]
    <3>1. WellFormed(r) /\ Held(r)
      BY <2>0, <2>2 DEF WellFormed, Fields, Places, Held, Accept
    <3>2. conn' = [conn EXCEPT ![c] = r]
      BY <2>2 DEF Accept
    <3>3. QED
      BY <1>3, <2>0, <3>1, <3>2
  <2>3. CASE Drop(c)
    <3> DEFINE r == [Idle EXCEPT !.pc = "dropped"]
    <3>1. WellFormed(r) /\ Held(r)
      BY DEF WellFormed, Fields, Places, Statuses, Held, Idle
    <3>2. conn' = [conn EXCEPT ![c] = r]
      BY <2>3 DEF Drop
    <3>3. QED
      BY <1>3, <2>0, <3>1, <3>2
  <2>4. QED
    BY <1>5, <2>1, <2>2, <2>3
<1>6. CASE Acts(c)
  <2>1. ConnChanges(c) /\ DataChanges(c)
    BY <1>6, ActsEffect DEF DataInv
  <2>2. \A d \in Clients : WellFormed(conn[d])
    BY DEF DataInv, Connections
  <2>3. ASSUME NEW d \in Clients \ {c}
        PROVE  /\ WellFormed(conn'[d]) /\ conn'[d].pc = conn[d].pc /\ conn'[d].id = conn[d].id
               /\ conn'[d].dangling => \/ conn[d].dangling
                                       \/ /\ conn[d].pc = "read"
                                          /\ conn[d].id \in workflows => deleted' # {}
    <3>1. CASE conn'[d] = conn[d]
      BY <2>2, <3>1
    <3>2. CASE conn'[d] # conn[d]
      <4>1. PICK b \in BOOLEAN :
                /\ conn'[d] = [conn[d] EXCEPT !.dangling = b]
                /\ b => \/ conn[d].dangling
                        \/ /\ conn[d].pc = "read"
                           /\ conn[d].id \in workflows => deleted' # {}
        BY <2>1, <3>2 DEF ConnChanges
      <4>2. QED
        BY <2>2, <4>1 DEF WellFormed
    <3>3. QED
      BY <3>1, <3>2
  <2>4. Connections'
    BY <2>1, <2>3 DEF Connections, ConnChanges
  <2>5. IdsLeft'
    BY <1>1, <2>1, <2>3, IdsStep DEF DataInv, ConnChanges, DataChanges
  <2>6. PointersHold'
    <3> SUFFICES ASSUME handler' = "none", deleted' = {}, NEW d \in Clients
                 PROVE  Held(conn[d])'
      BY DEF PointersHold
    <3>1. Held(conn[c]) /\ Held(conn[d])
      BY <1>1, <2>1 DEF DataInv, PointersHold, DataChanges
    <3>2. CASE d = c
      BY <2>1, <3>1, <3>2 DEF Held, ConnChanges, DataChanges
    <3>3. CASE d # c
      BY <2>1, <2>3, <3>1, <3>3 DEF Held, DataChanges
    <3>4. QED
      BY <3>2, <3>3
  <2>7. QED
    BY <1>2, <2>1, <2>4, <2>5, <2>6 DEF DataInv, DataChanges
<1>7. QED
  BY <1>4, <1>5, <1>6

-----------------------------------------------------------------------------
(* What takes the program down                                              *)

\* The program's own threads crash only in a shutdown.
LEMMA OwnCrash ==
    ASSUME ProcessInv, OwnStep, crashed = FALSE
    PROVE  crashed' => handler' # "none"
<1>1. ASSUME NEW t \in Threads, HttpClose(t) \/ HttpJoin(t) PROVE handler' # "none"
  BY <1>1 DEF HttpClose, HttpJoin, StandsAt, GoesTo, Where, AfterHttp, Threads, ProcessInv,
      SignalAgrees, Startup
<1>2. ASSUME NEW t \in Threads, NEW component \in {"orchestrator", "manager", "launcher"},
             Stop(t, component)
      PROVE  handler' # "none"
  BY <1>2 DEF Stop, StandsAt, GoesTo, Where, StopOf, After, Threads, ProcessInv, SignalAgrees,
      Startup
<1>3. ASSUME HttpReset PROVE handler' # "none"
  BY <1>3 DEF HttpReset, At, ProcessInv, SignalAgrees, Startup
<1>4. ASSUME Main PROVE HttpReset \/ UNCHANGED crashed
  BY <1>4 DEF Main, Launch, StartServer, InitializeDefaultAgents, StartManager, StartOrchestrator,
      StartHttp, StartHttpThread, LeaveLoop, StopAllAgents, Exit
<1>5. ASSUME Signal \/ Acceptor PROVE UNCHANGED crashed
  BY <1>5 DEF Signal, Acceptor, AcceptorTest, AcceptorCall
<1>6. ASSUME NEW t \in Threads, NEW component, HttpTest(t) \/ StopTest(t, component)
      PROVE  UNCHANGED crashed
  BY <1>6 DEF HttpTest, StopTest
<1>7. QED
  BY <1>1, <1>2, <1>3, <1>4, <1>5, <1>6 DEF OwnStep, StopThread

\* A client's thread needs the server, the agent it points to, the definition it reads.
LEMMA ClientCrash ==
    ASSUME NEW c \in Clients, Connect(c) \/ Accept(c) \/ Drop(c) \/ Looks(c) \/ Acts(c),
           crashed = FALSE, "http" \in made,
           conn[c].pc \in {"info", "point", "call"} => conn[c].id \in DOMAIN agents,
           conn[c].dangling = FALSE
    PROVE  crashed' = FALSE
<1>1. Unmanaged = {FALSE}
  BY DEF Unmanaged, Gone
<1>2. conn[c].pc \in {"info", "point", "call"} => Pointing(conn[c].id) = {FALSE}
  BY <1>1 DEF Pointing
<1>3. ASSUME Connect(c) \/ Accept(c) \/ Drop(c) PROVE crashed' = FALSE
  BY <1>3 DEF Connect, Accept, Drop
<1>4. ASSUME Looks(c) PROVE crashed' = FALSE
  BY <1>1, <1>2, <1>4 DEF Looks, ReceiveNothing, Receive, AnswerNotFound, AnswerListing,
      LookAtExecution, Resolve, GetAgent, AgentInfo, ExecuteFunctionHandler, SimpleExecute,
      SimpleGet, CallReturns, UpdateWorkflowTest, GetWorkflow, ReadWorkflow, ExecuteWorkflowHandler,
      At_
<1>5. ASSUME Acts(c) PROVE crashed' = FALSE
  BY <1>1, <1>2, <1>5 DEF Acts, StartAgent, StopAgent, DeleteAgent, CreateAgentHandler, AutoStart,
      RegisterWorkflowHandler, UpdateWorkflowAssign, DeleteWorkflow, At_
<1>6. QED
  BY <1>3, <1>4, <1>5

-----------------------------------------------------------------------------
(* The theorems                                                             *)

IInv == ProcessInv /\ DataInv /\ crashed \in BOOLEAN /\ CrashOnlyAfter

\* Every step is of the program's own threads or of a client.
LEMMA NextKinds ==
    ASSUME Next
    PROVE  /\ Runs
           /\ \/ OwnStep
              \/ \E c \in Clients : Connect(c) \/ Accept(c) \/ Drop(c) \/ Looks(c) \/ Acts(c)
  BY DEF Next, OwnStep, Client, Looks, Acts

\* The program starts with the invariant.
LEMMA Initially == Init => IInv
<1> SUFFICES ASSUME Init PROVE IInv
  OBVIOUS
<1>1. ProcessInv
  BY DEF Init, ProcessInv, ProcessTypes, SignalAgrees, Built, TakenDown, Startup, Stopping,
      Components, WithoutHttp, WithoutOrchestrator, WithoutManager
<1>2. WellFormed(Idle)
  BY DEF WellFormed, Idle, Fields, Places, Statuses
<1>3. \A c \in Clients : conn[c] = Idle
  BY DEF Init
<1>4. Idle.pc = "idle" /\ Idle.dangling = FALSE
  BY DEF Idle
<1>5. Spent = {} /\ HadTurn = {}
  BY <1>3, <1>4 DEF Init, Spent, HadTurn
<1>6. IdsLeft
  BY <1>5, FS_EmptySet, EnoughIds, FS_CardinalityType DEF IdsLeft
<1>7. DataInv
  BY <1>2, <1>3, <1>4, <1>6 DEF Init, DataInv, Connections, AgentsAgree, NobodyServed, PointersHold,
      Held
<1>8. QED
  BY <1>1, <1>7 DEF Init, IInv, CrashOnlyAfter

\* A client's step leaves main and the handler where they are.
LEMMA ClientProcessStep ==
    ASSUME ProcessInv, NEW c \in Clients,
           Connect(c) \/ Accept(c) \/ Drop(c) \/ Looks(c) \/ Acts(c)
    PROVE  ProcessInv' /\ UNCHANGED <<main, handler, made>> /\ deleted \subseteq deleted'
<1>1. CASE Accept(c)
  BY <1>1 DEF Accept, data, ProcessInv, ProcessTypes, SignalAgrees, Built, TakenDown
<1>2. CASE Connect(c) \/ Drop(c) \/ Looks(c) \/ Acts(c)
  <2>1. UNCHANGED process /\ deleted \subseteq deleted'
    BY <1>2 DEF Connect, Drop, Looks, Acts, data, ReceiveNothing, Receive, AnswerNotFound,
        AnswerListing, LookAtExecution, Resolve, GetAgent, AgentInfo, ExecuteFunctionHandler,
        SimpleExecute, SimpleGet, CallReturns, UpdateWorkflowTest, GetWorkflow, ReadWorkflow,
        ExecuteWorkflowHandler, StartAgent, StopAgent, DeleteAgent, CreateAgentHandler, AutoStart,
        RegisterWorkflowHandler, UpdateWorkflowAssign, DeleteWorkflow, Assign
  <2>2. QED
    BY <2>1 DEF process, ProcessInv, ProcessTypes, SignalAgrees, Built, TakenDown
<1>3. QED
  BY <1>1, <1>2

\* A crash is a Boolean, whoever meets it.
LEMMA CrashType ==
    ASSUME Next, crashed \in BOOLEAN
    PROVE  crashed' \in BOOLEAN
<1>1. Unmanaged \subseteq BOOLEAN /\ \A component : Gone(component) \subseteq BOOLEAN
  BY DEF Unmanaged, Gone
<1>2. \A id : Pointing(id) \subseteq BOOLEAN
  BY <1>1 DEF Pointing
<1>3. ASSUME OwnStep PROVE crashed' \in BOOLEAN
  BY <1>1, <1>3 DEF OwnStep, Main, Signal, Acceptor, StopThread, Launch, StartServer,
      InitializeDefaultAgents, StartManager, StartOrchestrator, StartHttp, StartHttpThread,
      LeaveLoop, HttpReset, StopAllAgents, Exit, AcceptorTest, AcceptorCall, HttpTest, HttpClose,
      HttpJoin, StopTest, Stop
<1>4. ASSUME NEW c \in Clients, Connect(c) \/ Accept(c) \/ Drop(c) PROVE crashed' \in BOOLEAN
  BY <1>4 DEF Connect, Accept, Drop
<1>5. ASSUME NEW c \in Clients, Looks(c) PROVE crashed' \in BOOLEAN
  BY <1>1, <1>2, <1>5 DEF Looks, ReceiveNothing, Receive, AnswerNotFound, AnswerListing,
      LookAtExecution, Resolve, GetAgent, AgentInfo, ExecuteFunctionHandler, SimpleExecute,
      SimpleGet, CallReturns, UpdateWorkflowTest, GetWorkflow, ReadWorkflow, ExecuteWorkflowHandler
<1>6. ASSUME NEW c \in Clients, Acts(c) PROVE crashed' \in BOOLEAN
  BY <1>1, <1>2, <1>6 DEF Acts, StartAgent, StopAgent, DeleteAgent, CreateAgentHandler, AutoStart,
      RegisterWorkflowHandler, UpdateWorkflowAssign, DeleteWorkflow
<1>7. QED
  BY <1>3, <1>4, <1>5, <1>6, NextKinds

\* Every step keeps the invariant.
LEMMA Inductive == IInv /\ [Next]_vars => IInv'
<1> SUFFICES ASSUME IInv, [Next]_vars PROVE IInv'
  OBVIOUS
<1>1. CASE UNCHANGED vars
  BY <1>1 DEF vars, process, data, IInv, ProcessInv, ProcessTypes, SignalAgrees, Built, TakenDown,
      DataInv, Connections, IdsLeft, Spent, HadTurn, AgentsAgree, NobodyServed, PointersHold, Held,
      CrashOnlyAfter
<1>2. CASE Next
  <2>1. crashed = FALSE /\ main # "exit"
    BY <1>2 DEF Next, Runs
  <2>2. crashed' \in BOOLEAN
    BY <1>2, CrashType DEF IInv
  <2>3. ASSUME OwnStep PROVE ProcessInv' /\ DataInv' /\ CrashOnlyAfter'
    <3>1. ProcessInv' /\ DataInv'
      BY <2>3, ProcessStep, OwnDataStep DEF IInv
    <3>2. crashed' => handler' # "none"
      BY <2>1, <2>3, OwnCrash DEF IInv
    <3>3. QED
      BY <3>1, <3>2 DEF CrashOnlyAfter
  <2>4. ASSUME NEW c \in Clients, Connect(c) \/ Accept(c) \/ Drop(c) \/ Looks(c) \/ Acts(c)
        PROVE  ProcessInv' /\ DataInv' /\ CrashOnlyAfter'
    <3>1. ProcessInv' /\ UNCHANGED <<main, handler, made>> /\ deleted \subseteq deleted'
      BY <2>4, ClientProcessStep DEF IInv
    <3>2. DataInv'
      BY <2>4, ClientDataStep DEF IInv
    <3>3. ASSUME handler = "none", deleted = {} PROVE crashed' = FALSE
      <4>1. conn[c].pc # "idle" \/ Listens
        BY <2>4, LooksEffect, ActsEffect DEF Connect, Accept, Drop, IInv, DataInv, ConnChanges
      <4>2. main \notin Before \cup {"failed"}
        BY <4>1, ServedByServer DEF IInv
      <4>3. "http" \in made
        BY <2>1, <3>3, <4>2 DEF IInv, ProcessInv, SignalAgrees, Built, Startup, Before
      <4>4. Held(conn[c])
        BY <3>3 DEF IInv, DataInv, PointersHold
      <4>5. conn[c].dangling = FALSE
        BY <4>4 DEF Held, IInv, DataInv, Connections
      <4>6. QED
        BY <2>1, <2>4, <4>3, <4>4, <4>5, ClientCrash DEF Held
    <3>4. CrashOnlyAfter'
      BY <3>1, <3>3 DEF CrashOnlyAfter
    <3>5. QED
      BY <3>1, <3>2, <3>4
  <2>5. QED
    BY <1>2, <2>2, <2>3, <2>4, NextKinds DEF IInv
<1>3. QED
  BY <1>1, <1>2

\* The inductive invariant holds in every state of the program.
LEMMA Always == Spec => []IInv
  BY Initially, Inductive, PTL DEF Spec

\* What the threads of the program share has its types, and an agent that runs is one that is
\* there, whatever the clients send and wherever in main the signal comes.
THEOREM SystemTypeCorrect == Spec => []TypeOK
<1>1. IInv => TypeOK
  <2> SUFFICES ASSUME IInv PROVE TypeOK
    OBVIOUS
  <2>1. \A c \in Clients : conn[c].status \in {0, 200, 201, 400, 404, 500}
    BY DEF IInv, DataInv, Connections, WellFormed, Statuses
  <2>2. DOMAIN agents \subseteq AgentIds /\ running \subseteq DOMAIN agents
    BY DEF IInv, DataInv, AgentsAgree
  <2>3. QED
    BY <2>1, <2>2 DEF IInv, ProcessInv, ProcessTypes, TypeOK
<1>2. QED
  BY <1>1, Always, PTL

\* A request answered with 400 or 404 has changed no agent and no definition, although the
\* handlers of server_http.cpp test and act at different moments.
THEOREM ErrorsChangeNothing == Spec => []ErrorMeansUnchanged
<1>1. IInv => ErrorMeansUnchanged
  BY DEF IInv, DataInv, Connections, WellFormed, ErrorMeansUnchanged
<1>2. QED
  BY <1>1, Always, PTL

\* However main and its signal handler interleave, a main that returns has left no component
\* running and no server that listens.
THEOREM NothingIsLeftRunning == Spec => []NothingLeftRunning
<1>1. IInv => NothingLeftRunning
  BY DEF IInv, ProcessInv, ProcessTypes, Built, TakenDown, WithoutHttp, WithoutOrchestrator,
      WithoutManager, Components, NothingLeftRunning
<1>2. QED
  BY <1>1, Always, PTL

\* The clients together do not take the program down, unless one of them deletes or replaces
\* what another may use, or a shutdown has begun.
THEOREM CrashesOnlyAfter == Spec => []CrashOnlyAfter
<1>1. IInv => CrashOnlyAfter
  BY DEF IInv
<1>2. QED
  BY <1>1, Always, PTL

\* An answer that waits for the inference server waits for a number of attempts that is
\* limited, and gets the best of them, whatever the server answers (RetriesEnd).
THEOREM RetriesAlwaysStop == Spec => []RetriesStop
<1>1. RetriesStop
  BY RequestsDoEnd DEF RetriesStop
<1>2. QED
  BY <1>1, PTL

\* From the moment main has its configuration it can be worked with, whatever mixture of
\* files and defaults it comes from (LoadedIsUsable).
THEOREM ConfigurationStaysUsable == Spec => []ValidConfigIsUsable
<1>1. ValidConfigIsUsable
  BY ConfigurationsAreUsable DEF ValidConfigIsUsable
<1>2. QED
  BY <1>1, PTL

\* While the server listens, each endpoint it has announced is reached with the identifier
\* of its path, for exactly the identifiers that are plain (RoutesReach).
THEOREM AnnouncedRoutesAlwaysReach == Spec => []AnnouncedRoutesReach
<1>1. AnnouncedRoutesReach
  BY PrintedDoReach DEF AnnouncedRoutesReach
<1>2. QED
  BY <1>1, PTL

\* An agent that runs degrades: no well-formed call throws but for want of the retrieval
\* manager, and no function claims a success that its model had not (CallsDoDegrade).
THEOREM FunctionsAlwaysDegrade == Spec => []FunctionsDegrade
<1>1. FunctionsDegrade
  BY CallsDoDegrade DEF FunctionsDegrade
<1>2. QED
  BY <1>1, PTL

\* Every definition there is can be saved and read again with the loss that is known
\* (DefinitionsSurvive).
THEOREM ReloadsOnlyForget == Spec => []ReloadOnlyForgets
<1>1. ReloadOnlyForgets
  BY ReloadsDoForget DEF ReloadOnlyForgets
<1>2. QED
  BY <1>1, PTL

\* Every configuration that is read leaves, under each identifier, the last definition of
\* it that is accepted, and what was there before (LastDefinitionStays).
THEOREM LastDefinitionAlwaysCounts == Spec => []LastDefinitionCounts
<1>1. LastDefinitionCounts
  BY LastDefinitionsDoStay DEF LastDefinitionCounts
<1>2. QED
  BY <1>1, PTL
=============================================================================
