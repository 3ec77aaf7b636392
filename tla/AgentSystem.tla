----------------------------- MODULE AgentSystem -----------------------------
(***************************************************************************)
(* The program as a whole: main and its signal handler (src/core/main.cpp), *)
(* the thread that accepts connections and the detached thread of each      *)
(* client (src/api/server_http.cpp), and what these threads share: the      *)
(* agents of AgentManager (src/core/agent_manager.cpp), the workflow        *)
(* definitions, and the components that main builds and takes down.         *)
(*                                                                          *)
(* On Unix the handler interrupts main, which stands still until it returns *)
(* (the kernel gives a process's signal to its main thread); on Windows it  *)
(* runs in a thread of its own.  The maps have no lock; their single        *)
(* operations are taken as atomic, what is read before and used after them  *)
(* is not.  A use of memory that is no longer there may crash the program   *)
(* or go unnoticed.                                                         *)
(***************************************************************************)
EXTENDS HttpApi, AgentFunctions, RemoteCalls, AgentConfig, WorkflowDefinitions, FiniteSets

CONSTANTS
    Clients,    \* every client sends one request
    Messages,   \* the requests: method, path, body and, in "names", what the body names
    AgentIds,   \* identifiers generate_uuid gives out
    Defaults,   \* agents a configuration file may define: name and auto_start
    BuiltIn,    \* workflows that are always registered
    LateMessages,  \* bound: of Messages, those on their way when a shutdown begins or later
    Retrieval   \* is the program built with BUILD_WITH_RETRIEVAL?

ASSUME EnoughIds ==
    /\ IsFiniteSet(AgentIds) /\ IsFiniteSet(Defaults) /\ IsFiniteSet(Clients)
    /\ Cardinality(AgentIds) >= Cardinality(Defaults) + Cardinality(Clients)
ASSUME MessagesSent ==
    /\ \A m \in Messages : m.method \in {"GET", "POST", "PUT", "DELETE"} /\ m.body \in Bodies
    /\ LateMessages \subseteq Messages

VARIABLES
    platform,       \* "unix" or "windows"
    main,           \* where main is
    handler,        \* where the signal handler is
    systemRunning,  \* system_running
    made,           \* the global pointers that are set
    up,             \* the components that run
    http,           \* running_ of HTTPServer, and where its server_thread_ is
    agents,         \* agents_: identifier |-> name
    running,        \* the agents that are started
    workflows,      \* identifiers in workflow_definitions_
    deleted,        \* history: agents deleted, workflows deleted or assigned anew
    conn,           \* the requests, one of each client
    crashed

process == <<platform, main, handler, systemRunning, made, up, http>>
data == <<agents, running, workflows, deleted>>
vars == <<process, data, conn, crashed>>

Components == {"launcher", "manager", "orchestrator", "http"}
Startup == {"launch", "start_server", "configure", "manager", "orchestrator", "http", "http_thread"}
Stopping == {"http_test", "http_close", "http_join", "orchestrator_test", "orchestrator_stop",
             "manager_test", "manager_stop", "launcher_test", "launcher_stop"}

NoRequest == [method |-> "GET", path |-> <<>>, body |-> "ok", names |-> ""]
Idle == [pc |-> "idle", msg |-> NoRequest, to |-> "", id |-> "", body |-> "ok",
         action |-> "", dangling |-> FALSE, status |-> 0, changed |-> FALSE]

Init ==
    /\ platform \in {"unix", "windows"}
    /\ main = "launch" /\ handler = "none" /\ systemRunning = TRUE
    /\ made = {} /\ up = {}
    /\ http = [running |-> FALSE, acceptor |-> "none"]
    /\ agents = <<>> /\ running = {} /\ workflows = {} /\ deleted = {}
    /\ conn = [c \in Clients |-> Idle]
    /\ crashed = FALSE

-----------------------------------------------------------------------------
(* main, up to its loop *)

\* The handler holds up main where it runs on main's own stack.
Frozen == platform = "unix" /\ handler \notin {"none", "done"}
At(step) == main = step /\ ~Frozen

Launch ==
    /\ At("launch")
    /\ made' = made \cup {"launcher"} /\ main' = "start_server"
    /\ UNCHANGED <<platform, handler, systemRunning, up, http, data, conn, crashed>>

\* The system goes on without an inference server that does not start.
StartServer ==
    /\ At("start_server")
    /\ up' \in {up, up \cup {"launcher"}} /\ main' = "configure"
    /\ UNCHANGED <<platform, handler, systemRunning, made, http, data, conn, crashed>>

NewId == CHOOSE i \in AgentIds : i \notin DOMAIN agents \cup deleted

\* Any of the agents may be defined; each is created, and started if it asks for it.
InitializeDefaultAgents ==
    /\ At("configure")
    /\ \E defined \in SUBSET Defaults :
          LET ids == CHOOSE f \in [defined -> AgentIds] : \A d, e \in defined : f[d] = f[e] => d = e
          IN  /\ agents' = [i \in {ids[d] : d \in defined} |-> (CHOOSE d \in defined : ids[d] = i).name]
              /\ running' = {ids[d] : d \in {d \in defined : d.auto_start}}
    /\ main' = "manager"
    /\ UNCHANGED <<platform, handler, systemRunning, made, up, http, workflows, deleted, conn, crashed>>

StartManager ==
    /\ At("manager")
    /\ made' = made \cup {"manager"} /\ up' = up \cup {"manager"} /\ main' = "orchestrator"
    /\ UNCHANGED <<platform, handler, systemRunning, http, data, conn, crashed>>

StartOrchestrator ==
    /\ At("orchestrator")
    /\ made' = made \cup {"orchestrator"} /\ up' = up \cup {"orchestrator"}
    /\ workflows' = BuiltIn /\ main' = "http"
    /\ UNCHANGED <<platform, handler, systemRunning, http, agents, running, deleted, conn, crashed>>

\* HTTPServer::start: without its port the program ends.
StartHttp ==
    /\ At("http")
    /\ made' = made \cup {"http"}
    /\ \/ http' = [http EXCEPT !.running = TRUE] /\ main' = "http_thread"
       \/ http' = http /\ main' = "failed"
    /\ UNCHANGED <<platform, handler, systemRunning, up, data, conn, crashed>>

StartHttpThread ==
    /\ At("http_thread")
    /\ http' = [http EXCEPT !.acceptor = "test"] /\ main' = "serve"
    /\ UNCHANGED <<platform, handler, systemRunning, made, up, data, conn, crashed>>

\* Mutant of LeaveLoop: the handler has stopped everything, so that main returns.
LeaveLoopAndReturn ==
    /\ At("serve") /\ ~systemRunning
    /\ main' = "returned"
    /\ UNCHANGED <<platform, handler, systemRunning, made, up, http, data, conn, crashed>>

LeaveLoop ==
    /\ At("serve") /\ ~systemRunning
    /\ main' = "http_test"
    /\ UNCHANGED <<platform, handler, systemRunning, made, up, http, data, conn, crashed>>

-----------------------------------------------------------------------------
(* The signal.  A second one only finds shutdown_in_progress set.           *)

\* The bound: what a client has sent is late, or has been answered.
OnlyLate == \A c \in Clients : conn[c].pc \in {"idle", "closed"} \/ conn[c].msg \in LateMessages

\* Mutant of Signal: main is not told.
SignalQuietly ==
    /\ main \in Startup \cup {"serve"} /\ handler = "none" /\ OnlyLate
    /\ \/ handler' = "http_test"
       \/ platform = "unix" /\ main # "serve" /\ handler' = "logger"
    /\ UNCHANGED <<platform, main, systemRunning, made, up, http, data, conn, crashed>>

\* The handler logs before anything else: if it interrupts main inside the logger,
\* whose mutex main then holds, it waits for main, which waits for it.
Signal ==
    /\ main \in Startup \cup {"serve"} /\ handler = "none" /\ OnlyLate
    /\ \/ handler' = "http_test" /\ systemRunning' = FALSE
       \/ platform = "unix" /\ main # "serve" /\ handler' = "logger" /\ UNCHANGED systemRunning
    /\ UNCHANGED <<platform, main, made, up, http, data, conn, crashed>>

(* Both stop the same components in the same order.  A thread of the two is *)
(* at "main" or "handler"; main also resets the pointers, and stops agents. *)

Where(t) == IF t = "main" THEN main ELSE handler
StandsAt(t, step) == Where(t) = step /\ (t = "main" => ~Frozen)
GoesTo(t, step) ==
    IF t = "main" THEN main' = step /\ UNCHANGED handler ELSE handler' = step /\ UNCHANGED main
Threads == {"main", "handler"}
Other(t) == IF t = "main" THEN "handler" ELSE "main"

AfterHttp(t) == IF t = "main" THEN "http_reset" ELSE "orchestrator_test"

\* HTTPServer::stop
HttpTest(t) ==
    /\ StandsAt(t, "http_test")
    /\ GoesTo(t, IF "http" \notin made THEN "orchestrator_test"
                 ELSE IF http.running THEN "http_close" ELSE AfterHttp(t))
    /\ UNCHANGED <<platform, systemRunning, made, up, http, data, conn, crashed>>

\* A server that main has destroyed meanwhile may no longer be there to be stopped.
Gone(component) == IF component \in made THEN {FALSE} ELSE BOOLEAN

HttpClose(t) ==
    /\ StandsAt(t, "http_close")
    /\ http' = [http EXCEPT !.running = FALSE]
    /\ GoesTo(t, "http_join")
    /\ crashed' \in Gone("http")
    /\ UNCHANGED <<platform, systemRunning, made, up, data, conn>>

\* Two threads that join the same thread: undefined.
HttpJoin(t) ==
    /\ StandsAt(t, "http_join")
    /\ http.acceptor \in {"none", "ended", "joined"}
    /\ http' = [http EXCEPT !.acceptor = IF @ = "ended" THEN "joined" ELSE @]
    /\ GoesTo(t, AfterHttp(t))
    /\ crashed' \in Gone("http") \cup (IF Where(Other(t)) = "http_join" THEN BOOLEAN ELSE {FALSE})
    /\ UNCHANGED <<platform, systemRunning, made, up, data, conn>>

\* http_server.reset(): a server_thread_ that is not joined terminates the program.
HttpReset ==
    /\ At("http_reset")
    /\ made' = made \ {"http"}
    /\ crashed' = (http.acceptor \notin {"none", "joined"})
    /\ main' = "orchestrator_test"
    /\ UNCHANGED <<platform, handler, systemRunning, up, http, data, conn>>

\* What comes after a component has been stopped.
After(t, component) ==
    CASE component = "orchestrator" -> "manager_test"
      [] component = "manager" -> IF t = "main" THEN "agents" ELSE "launcher_test"
      [] component = "launcher" -> IF t = "main" THEN "returned" ELSE "done"

\* Where a thread tests the pointer of a component, and where it stops the component.
TestOf == [orchestrator |-> "orchestrator_test", manager |-> "manager_test", launcher |-> "launcher_test"]
StopOf == [orchestrator |-> "orchestrator_stop", manager |-> "manager_stop", launcher |-> "launcher_stop"]

\* The pointer is tested, and for the launcher, by main, whether it runs.
StopTest(t, component) ==
    /\ StandsAt(t, TestOf[component])
    /\ GoesTo(t, IF component \in made /\ (component = "launcher" /\ t = "main" => component \in up)
                 THEN StopOf[component] ELSE After(t, component))
    /\ UNCHANGED <<platform, systemRunning, made, up, http, data, conn, crashed>>

\* stop() returns, and main lets go of what it stopped, but for the launcher.
Stop(t, component) ==
    /\ StandsAt(t, StopOf[component])
    /\ up' = up \ {component}
    /\ made' = IF t = "main" /\ component # "launcher" THEN made \ {component} ELSE made
    /\ crashed' \in Gone(component) \cup
                    (IF Where(Other(t)) = StopOf[component] THEN BOOLEAN ELSE {FALSE})
    /\ GoesTo(t, After(t, component))
    /\ UNCHANGED <<platform, systemRunning, http, data, conn>>

StopAllAgents ==
    /\ At("agents")
    /\ running' = {} /\ main' = "launcher_test"
    /\ UNCHANGED <<platform, handler, systemRunning, made, up, http, agents, workflows, deleted, conn, crashed>>

\* main returns; the destructors of what is left stop it.
Exit ==
    /\ main \in {"returned", "failed"} /\ ~Frozen
    /\ main' = "exit" /\ up' = {} /\ made' = {}
    /\ UNCHANGED <<platform, handler, systemRunning, http, data, conn, crashed>>

-----------------------------------------------------------------------------
(* server_loop *)

AcceptorTest ==
    /\ http.acceptor = "test"
    /\ http' = [http EXCEPT !.acceptor = IF http.running THEN "call" ELSE "ended"]
    /\ UNCHANGED <<platform, main, handler, systemRunning, made, up, data, conn, crashed>>

\* accept() on the closed socket fails; on Windows, closing it also ends a call that
\* waits.  On Linux the call waits on.
AcceptorCall ==
    /\ \/ http.acceptor = "call"
       \/ http.acceptor = "blocked" /\ platform = "windows" /\ ~http.running
    /\ http' = [http EXCEPT !.acceptor = IF http.running THEN "blocked" ELSE "test"]
    /\ UNCHANGED <<platform, main, handler, systemRunning, made, up, data, conn, crashed>>

\* The socket listens while it is open or a call holds it open.
Listens == http.running \/ (platform = "unix" /\ http.acceptor = "blocked")

Connect(c) ==
    /\ conn[c].pc = "idle" /\ Listens
    /\ \E m \in IF handler = "none" THEN Messages ELSE LateMessages : conn' = [conn EXCEPT ![c].pc = "backlog", ![c].msg = m]
    /\ UNCHANGED <<process, data, crashed>>

Accept(c) ==
    /\ http.acceptor = "blocked" /\ Listens /\ conn[c].pc = "backlog"
    /\ http' = [http EXCEPT !.acceptor = "test"]
    /\ conn' = [conn EXCEPT ![c].pc = "accepted"]
    /\ UNCHANGED <<platform, main, handler, systemRunning, made, up, data, crashed>>

\* The backlog goes with the socket.
Drop(c) ==
    /\ conn[c].pc = "backlog" /\ ~Listens
    /\ conn' = [conn EXCEPT ![c] = [Idle EXCEPT !.pc = "dropped"]]
    /\ UNCHANGED <<process, data, crashed>>

-----------------------------------------------------------------------------
(* handle_client: the request is read and finds its handler.                *)

\* A detached thread uses the server, which main may have destroyed.
Unmanaged == Gone("http")

\* It uses an agent by a pointer that delete_agent leaves behind.
Pointing(id) == Unmanaged \cup (IF id \in DOMAIN agents THEN {FALSE} ELSE BOOLEAN)

At_(c, step) == conn[c].pc = step
Continue(c, step) == conn' = [conn EXCEPT ![c].pc = step]
Closed(status, changed) == [Idle EXCEPT !.pc = "closed", !.status = status, !.changed = changed]
Answer(c, status) == conn' = [conn EXCEPT ![c] = Closed(status, @.changed)]
AnswerChanged(c, status) == conn' = [conn EXCEPT ![c] = Closed(status, TRUE)]

ByIdentifier == {"get_agent", "start_agent", "stop_agent", "execute_function", "delete_agent"}
OnExecution == {"get_workflow_execution", "control_workflow_execution",
                "workflow_execution_progress", "workflow_execution_logs"}

\* An identifier of several segments names nothing.
Identifier(target) == IF Len(target.id) = 1 THEN target.id[1] ELSE ""

\* The client has gone: recv returns nothing.
ReceiveNothing(c) ==
    /\ At_(c, "accepted")
    /\ Answer(c, 0)
    /\ UNCHANGED <<process, data, crashed>>

Receive(c) ==
    /\ At_(c, "accepted")
    /\ crashed' \in Unmanaged
    /\ LET m == conn[c].msg
           target == Target(m.method, m.path)
       IN  \E body \in BodiesReceived(m.body) :
              conn' = [conn EXCEPT ![c].to = target.to, ![c].id = Identifier(target), ![c].body = body,
                                   ![c].action = target.action,
                                   ![c].pc = IF target.to \in ByIdentifier THEN "resolve" ELSE "act"]
    /\ UNCHANGED <<process, data>>

Handles(c, handler_) == At_(c, "act") /\ conn[c].to = handler_

AnswerNotFound(c) ==
    /\ Handles(c, "not_found")
    /\ Answer(c, 404)
    /\ crashed' \in Unmanaged /\ UNCHANGED <<process, data>>

AnswerListing(c) ==
    /\ At_(c, "act") /\ conn[c].to \in Listings
    /\ Answer(c, 200)
    /\ crashed' \in Unmanaged /\ UNCHANGED <<process, data>>

\* The execution engine has a module of its own; here an execution is found or not.
LookAtExecution(c) ==
    /\ At_(c, "act") /\ conn[c].to \in OnExecution
    /\ \E found \in BOOLEAN :
          Answer(c, CASE conn[c].to = "get_workflow_execution" -> GetWorkflowExecution(found)
                      [] conn[c].to = "control_workflow_execution" -> ControlWorkflowExecution(conn[c].action)
                      [] conn[c].to = "workflow_execution_progress" -> WorkflowExecutionProgress(found)
                      [] conn[c].to = "workflow_execution_logs" -> WorkflowExecutionLogs(found))
    /\ crashed' \in Unmanaged /\ UNCHANGED <<process, data>>

-----------------------------------------------------------------------------
(* Agents                                                                   *)

\* resolve_agent_identifier: by identifier, else any agent of that name.
Named(name) == IF name \in DOMAIN agents THEN {name} ELSE {a \in DOMAIN agents : agents[a] = name}

Resolve(c) ==
    /\ At_(c, "resolve")
    /\ \/ Named(conn[c].id) = {} /\ Answer(c, 404)
       \/ \E a \in Named(conn[c].id) : conn' = [conn EXCEPT ![c].pc = "act", ![c].id = a]
    /\ crashed' \in Unmanaged /\ UNCHANGED <<process, data>>

GetAgent(c) ==
    /\ Handles(c, "get_agent")
    /\ IF conn[c].id \in DOMAIN agents THEN Continue(c, "info") ELSE Answer(c, 404)
    /\ crashed' \in Unmanaged /\ UNCHANGED <<process, data>>

AgentInfo(c) ==
    /\ At_(c, "info")
    /\ Answer(c, 200)
    /\ crashed' \in Pointing(conn[c].id) /\ UNCHANGED <<process, data>>

\* Mutant of StartAgent: what find() returns is not tested.
StartAgentUntested(c) ==
    /\ Handles(c, "start_agent")
    /\ running' = running \cup {conn[c].id} /\ AnswerChanged(c, 200)
    /\ crashed' \in Pointing(conn[c].id) /\ UNCHANGED <<process, agents, workflows, deleted>>

StartAgent(c) ==
    /\ Handles(c, "start_agent")
    /\ IF conn[c].id \in DOMAIN agents
       THEN running' = running \cup {conn[c].id} /\ AnswerChanged(c, 200)
       ELSE running' = running /\ Answer(c, 404)
    /\ crashed' \in Unmanaged /\ UNCHANGED <<process, agents, workflows, deleted>>

\* An agent that is no longer there is stopped all the same.
StopAgent(c) ==
    /\ Handles(c, "stop_agent")
    /\ running' = running \ {conn[c].id} /\ AnswerChanged(c, 200)
    /\ crashed' \in Unmanaged /\ UNCHANGED <<process, agents, workflows, deleted>>

DeleteAgent(c) ==
    /\ Handles(c, "delete_agent")
    /\ IF conn[c].id \in DOMAIN agents
       THEN /\ agents' = [a \in DOMAIN agents \ {conn[c].id} |-> agents[a]]
            /\ running' = running \ {conn[c].id} /\ deleted' = deleted \cup {conn[c].id}
            /\ AnswerChanged(c, 200)
       ELSE UNCHANGED <<agents, running, deleted>> /\ Answer(c, 404)
    /\ crashed' \in Unmanaged /\ UNCHANGED <<process, workflows>>

\* A name may be given twice.
CreateAgentHandler(c) ==
    /\ Handles(c, "create_agent")
    /\ IF CreateAgent(conn[c].body) = 201
       THEN /\ agents' = [a \in DOMAIN agents \cup {NewId} |-> IF a = NewId THEN conn[c].msg.names ELSE agents[a]]
            /\ AnswerChanged(c, 201)
       ELSE agents' = agents /\ Answer(c, CreateAgent(conn[c].body))
    /\ crashed' \in Unmanaged /\ UNCHANGED <<process, running, workflows, deleted>>

\* A missing agent is an error of the server here.
ExecuteFunctionHandler(c) ==
    /\ Handles(c, "execute_function")
    /\ IF ExecuteFunction(conn[c].body) # 200 THEN Answer(c, ExecuteFunction(conn[c].body))
       ELSE IF conn[c].msg.names = "execute_all_tools"
       THEN IF conn[c].id \in DOMAIN agents THEN Continue(c, "call") ELSE Answer(c, 404)
       ELSE IF conn[c].id \in DOMAIN agents THEN Continue(c, "point") ELSE Answer(c, 500)
    /\ crashed' \in Unmanaged /\ UNCHANGED <<process, data>>

\* The agent the body names, else one that runs, else any.
Candidates(name) ==
    IF name # "" THEN Named(name) ELSE IF running # {} THEN running ELSE DOMAIN agents

\* Mutant of SimpleExecute: it goes on when there is no agent.
SimpleExecuteAnyway(c) ==
    /\ Handles(c, "simple_agent_execute")
    /\ LET refusal == SimpleAgentExecute(conn[c].body)
           candidates == Candidates(conn[c].msg.names)
       IN  \/ refusal # 200 /\ Answer(c, refusal)
           \/ refusal = 200 /\ candidates = {} /\ Continue(c, "point")
           \/ /\ refusal = 200
              /\ \E a \in candidates : conn' = [conn EXCEPT ![c].pc = "get", ![c].id = a]
    /\ crashed' \in Unmanaged /\ UNCHANGED <<process, data>>

SimpleExecute(c) ==
    /\ Handles(c, "simple_agent_execute")
    /\ LET refusal == SimpleAgentExecute(conn[c].body)
           candidates == Candidates(conn[c].msg.names)
       IN  \/ refusal # 200 /\ Answer(c, refusal)
           \/ refusal = 200 /\ candidates = {} /\ Answer(c, 404)
           \/ /\ refusal = 200
              /\ \E a \in candidates : conn' = [conn EXCEPT ![c].pc = "get", ![c].id = a]
    /\ crashed' \in Unmanaged /\ UNCHANGED <<process, data>>

SimpleGet(c) ==
    /\ At_(c, "get")
    /\ IF conn[c].id \in DOMAIN agents THEN Continue(c, "point") ELSE Answer(c, 404)
    /\ crashed' \in Unmanaged /\ UNCHANGED <<process, data>>

\* An agent that does not run is started: through the pointer by execute_agent_function,
\* by its identifier by handle_simple_agent_execute, which then may not find it.
AutoStart(c) ==
    /\ At_(c, "point")
    /\ running' = running \cup ({conn[c].id} \cap DOMAIN agents)
    /\ \/ conn' = [conn EXCEPT ![c].pc = "call", ![c].changed = conn[c].id \notin running]
       \/ conn[c].to = "simple_agent_execute" /\ conn[c].id \notin DOMAIN agents /\ Answer(c, 500)
    /\ crashed' \in Pointing(conn[c].id) /\ UNCHANGED <<process, agents, workflows, deleted>>

\* The statuses a call of one function may end with.
CallStatus == [runs \in BOOLEAN |-> [name \in {m.names : m \in Messages} |->
    {IF Execute(Retrieval, runs, name, call) = "throws" THEN 500 ELSE 200 : call \in Calls}]]

\* Both handlers that call all tools answer 200 whatever the functions throw.  What a
\* deleted agent says of itself is anything.
Outcomes(c) ==
    IF conn[c].to = "simple_agent_execute" \/ conn[c].msg.names = "execute_all_tools" THEN {200}
    ELSE IF conn[c].id \in DOMAIN agents THEN CallStatus[conn[c].id \in running][conn[c].msg.names]
    ELSE CallStatus[TRUE][conn[c].msg.names] \cup CallStatus[FALSE][conn[c].msg.names]

CallReturns(c) ==
    /\ At_(c, "call")
    /\ \E status \in Outcomes(c) : Answer(c, status)
    /\ crashed' \in Pointing(conn[c].id) /\ UNCHANGED <<process, data>>

-----------------------------------------------------------------------------
(* Workflow definitions                                                     *)

\* Whoever reads the definition meanwhile reads what changes.
Replace(c, id, status) ==
    conn' = [d \in Clients |->
               IF d = c THEN Closed(status, TRUE)
               ELSE [conn[d] EXCEPT !.dangling = @ \/ (At_(d, "read") /\ conn[d].id = id)]]

\* insert_or_assign
Assign(c, id, status) ==
    /\ workflows' = workflows \cup {id}
    /\ deleted' = IF id \in workflows THEN deleted \cup {id} ELSE deleted
    /\ Replace(c, id, status)

RegisterWorkflowHandler(c) ==
    /\ Handles(c, "register_workflow")
    /\ IF RegisterWorkflow(conn[c].body) = 201 THEN Assign(c, conn[c].msg.names, 201)
       ELSE Answer(c, RegisterWorkflow(conn[c].body)) /\ UNCHANGED <<workflows, deleted>>
    /\ crashed' \in Unmanaged /\ UNCHANGED <<process, agents, running>>

\* Mutant of UpdateWorkflowTest: the old definition is removed before the body is parsed.
UpdateWorkflowRemove(c) ==
    /\ Handles(c, "update_workflow")
    /\ workflows' = workflows \ {conn[c].id}
    /\ IF conn[c].id \in workflows
       THEN conn' = [conn EXCEPT ![c].pc = "update", ![c].changed = TRUE]
       ELSE Answer(c, 404)
    /\ crashed' \in Unmanaged /\ UNCHANGED <<process, agents, running, deleted>>

UpdateWorkflowTest(c) ==
    /\ Handles(c, "update_workflow")
    /\ IF conn[c].id \in workflows THEN Continue(c, "update") ELSE Answer(c, 404)
    /\ crashed' \in Unmanaged /\ UNCHANGED <<process, data>>

\* Nothing tells whether it has been deleted since.
UpdateWorkflowAssign(c) ==
    /\ At_(c, "update")
    /\ IF UpdateWorkflow(conn[c].body) = 200 THEN Assign(c, conn[c].id, 200)
       ELSE Answer(c, UpdateWorkflow(conn[c].body)) /\ UNCHANGED <<workflows, deleted>>
    /\ crashed' \in Unmanaged /\ UNCHANGED <<process, agents, running>>

DeleteWorkflow(c) ==
    /\ Handles(c, "delete_workflow")
    /\ LET id == conn[c].id
       IN  IF id \in workflows
           THEN /\ workflows' = workflows \ {id} /\ deleted' = deleted \cup {id}
                /\ Replace(c, id, 200)
           ELSE Answer(c, 404) /\ UNCHANGED <<workflows, deleted>>
    /\ crashed' \in Unmanaged /\ UNCHANGED <<process, agents, running>>

\* get_workflow hands out a pointer that the handler reads without the lock.
GetWorkflow(c) ==
    /\ Handles(c, "get_workflow")
    /\ IF conn[c].id \in workflows THEN Continue(c, "read") ELSE Answer(c, 404)
    /\ crashed' \in Unmanaged /\ UNCHANGED <<process, data>>

ReadWorkflow(c) ==
    /\ At_(c, "read")
    /\ Answer(c, 200)
    /\ crashed' \in Unmanaged \cup (IF conn[c].dangling THEN BOOLEAN ELSE {FALSE})
    /\ UNCHANGED <<process, data>>

ExecuteWorkflowHandler(c) ==
    /\ At_(c, "act") /\ conn[c].to \in {"execute_workflow", "execute_workflow_template"}
    /\ LET found == conn[c].id \in workflows
       IN  Answer(c, IF conn[c].to = "execute_workflow" THEN ExecuteWorkflow(conn[c].body, found)
                     ELSE ExecuteWorkflowTemplate(conn[c].body, found))
    /\ crashed' \in Unmanaged /\ UNCHANGED <<process, data>>

-----------------------------------------------------------------------------
Client(c) ==
    \/ ReceiveNothing(c) \/ Receive(c) \/ AnswerNotFound(c) \/ AnswerListing(c) \/ LookAtExecution(c)
    \/ Resolve(c) \/ GetAgent(c) \/ AgentInfo(c) \/ StartAgent(c) \/ StopAgent(c) \/ DeleteAgent(c)
    \/ CreateAgentHandler(c) \/ ExecuteFunctionHandler(c) \/ SimpleExecute(c) \/ SimpleGet(c)
    \/ AutoStart(c) \/ CallReturns(c)
    \/ RegisterWorkflowHandler(c) \/ UpdateWorkflowTest(c) \/ UpdateWorkflowAssign(c)
    \/ DeleteWorkflow(c) \/ GetWorkflow(c) \/ ReadWorkflow(c) \/ ExecuteWorkflowHandler(c)

Main ==
    \/ Launch \/ StartServer \/ InitializeDefaultAgents \/ StartManager \/ StartOrchestrator
    \/ StartHttp \/ StartHttpThread \/ LeaveLoop \/ HttpReset \/ StopAllAgents \/ Exit

StopThread(t) ==
    \/ HttpTest(t) \/ HttpClose(t) \/ HttpJoin(t)
    \/ \E component \in {"orchestrator", "manager", "launcher"} :
          StopTest(t, component) \/ (component # "manager" /\ Stop(t, component))

Acceptor == AcceptorTest \/ AcceptorCall

Runs == ~crashed /\ main # "exit"

Next ==
    /\ Runs
    /\ \/ Main \/ Signal \/ Acceptor
       \/ \E t \in Threads : StopThread(t) \/ Stop(t, "manager")
       \/ \E c \in Clients : Connect(c) \/ Accept(c) \/ Drop(c) \/ Client(c)

Spec == Init /\ [][Next]_vars

\* Threads that can run do; a connection the kernel holds is given to accept().  Nobody
\* has to connect or to send a signal, and WorkflowManager::stop need not return: the
\* queue's own module shows that it may wait for ever.
FairSpec ==
    /\ Spec
    /\ WF_vars(Runs /\ Main) /\ WF_vars(Runs /\ Acceptor)
    /\ \A t \in Threads : WF_vars(Runs /\ StopThread(t))
    /\ \A c \in Clients : WF_vars(Runs /\ Accept(c)) /\ WF_vars(Runs /\ Client(c))

-----------------------------------------------------------------------------
(* Properties                                                               *)

TypeOK ==
    /\ platform \in {"unix", "windows"}
    /\ main \in Startup \cup Stopping \cup {"serve", "http_reset", "agents", "returned", "failed", "exit"}
    /\ handler \in (Stopping \cup {"none", "logger", "done"})
    /\ systemRunning \in BOOLEAN /\ crashed \in BOOLEAN
    /\ made \subseteq Components /\ up \subseteq Components \ {"http"}
    /\ http \in [running : BOOLEAN, acceptor : {"none", "test", "call", "blocked", "ended", "joined"}]
    /\ DOMAIN agents \subseteq AgentIds /\ running \subseteq DOMAIN agents
    /\ \A c \in Clients : conn[c].status \in {0, 200, 201, 400, 404, 500}

\* A request that is answered with an error of the client's (400, 404) has changed no
\* agent and no definition: every handler has looked at all of its input before it
\* acts, also where a test and the action it guards are apart.
ErrorMeansUnchanged ==
    \A c \in Clients : conn[c].status \in 400..499 => ~conn[c].changed

\* However the steps of main and of its signal handler mix (a signal during startup
\* finds half of the components, and main then builds the rest): a main that returns
\* has left no component running, and the server does not listen any more.
NothingLeftRunning ==
    main = "returned" => up = {} /\ ~http.running

\* Nothing the clients do together takes the program down, unless one of them deletes
\* or replaces what another uses, or a shutdown has begun: a lookup without the lock
\* always ends in an object, or in an answer.
CrashOnlyAfter ==
    crashed => deleted # {} \/ handler # "none"

\* Once a signal has been taken the program ends, or stands for ever where it waits for
\* someone who never comes: for accept() on Unix, in WorkflowManager::stop, in the logger.
Over == crashed \/ main = "exit"
Waits(t) == \/ StandsAt(t, "http_join") /\ platform = "unix" /\ http.acceptor = "blocked"
            \/ StandsAt(t, "manager_stop")
Stuck == handler = "logger" \/ \E t \in Threads : Waits(t)
ShutdownOnlyWaits ==
    (handler # "none" ~> Over) \/ <>[]Stuck

(* What the modules of the parts without state promise, at the moment the    *)
(* program relies on it.                                                    *)

\* While the server listens, every endpoint it has announced reaches its handler with
\* the identifier of the path (PrintedReach): no earlier row of the chain takes it, but
\* for the identifiers that are not plain.
AnnouncedRoutesReach == http.running => PrintedReach

\* Of an agent that runs: whatever its model and the services it asks do, no function
\* fails a well-formed call, and none claims a success it had not (CallsDegrade).
FunctionsDegrade == running # {} => CallsDegrade

\* A function that is called comes back from its remote service: whatever that answers,
\* the retries end within their limit and keep the best they saw (RequestsEnd).
RetriesStop == (\E c \in Clients : At_(c, "call")) => RequestsEnd

\* What main has configured itself with, if it passed its validation, can be worked with,
\* also after a file that broke off and after any pressure (ConfigurationsUsable).
ValidConfigIsUsable == main \notin {"launch", "start_server"} => ConfigurationsUsable

\* A definition the orchestrator has registered survives its file: a reload forgets
\* conditions and default retries, and nothing else (ReloadsForget).
ReloadOnlyForgets == workflows # {} => ReloadsForget

\* What the orchestrator knows after it has read its configuration: of the definitions
\* under one identifier the last that is accepted, and whatever it knew before; and once it
\* has started, the built-in workflows and those of the file that are named as none of them
\* (LastDefinitionsStay).
LastDefinitionCounts == workflows # {} => LastDefinitionsStay

\* src/docs/server.md:51 says of the inference server: "Graceful shutdown: Proper
\* shutdown when the agent system stops".  Even if WorkflowManager::stop always returned,
\* a shutdown that has begun may never reach it.
StopsSpec == FairSpec /\ \A t \in Threads : WF_vars(Runs /\ Stop(t, "manager"))
ServerStopsWithSystem ==
    (handler = "http_test" /\ "launcher" \in up) ~> ("launcher" \notin up \/ crashed)
=============================================================================
