------------------------------- MODULE HttpApi -------------------------------
(***************************************************************************)
(* The interface of HTTPServer (src/api/server_http.cpp): which handler a   *)
(* request reaches, and the status each handler answers with.               *)
(*                                                                          *)
(* A path is the sequence of its segments; a trailing slash is an empty     *)
(* last segment.  A body is what json::parse and the first look at it make  *)
(* of it: "malformed" is no JSON, "incomplete" lacks something the handler  *)
(* tests for, "illtyped" something it takes without a test (the conversion  *)
(* throws), "ok" is complete.                                               *)
(***************************************************************************)
EXTENDS Naturals, Sequences

\* An empty text: a test that is not made, a suffix or an action that is not there.
Empty == ""

Bodies == {"malformed", "incomplete", "illtyped", "ok"}

\* recv is called once, for 4095 bytes: of a longer request, or of one that
\* arrives in pieces, only a beginning is parsed, and its body is cut off.
BodiesReceived(body) == {body, "malformed"}

-----------------------------------------------------------------------------
\* Does "/w" occur in the path?  Segments are matched by their beginning.
Begins(segment, w) ==
    segment = w \/ (w = "execute" /\ segment = "executed") \/ (w = "start" /\ segment = "startup")
Has(path, w) == \E i \in 1..Len(path) : Begins(path[i], w)

\* path.find("/base/") == 0
Under(path, base) ==
    Len(path) > Len(base) /\ SubSeq(path, 1, Len(base)) = base

\* extract_path_parameter
Rest(path, base) == SubSeq(path, Len(base) + 1, Len(path))

\* The last characters of the rest are removed, as many as "/w" has: what is too
\* short keeps them (the length wraps round), what ends otherwise is spoilt.
Spoilt == <<"spoilt">>
WithoutSuffix(rest, w) ==
    IF rest = <<w>> THEN rest
    ELSE IF rest[Len(rest)] = w THEN SubSeq(rest, 1, Len(rest) - 1)
    ELSE Spoilt

-----------------------------------------------------------------------------
(* The if-else chain of handle_client, in its order.  A row matches a path  *)
(* equal to "is", or one under "under" that has "has" and lacks "lacks".    *)

Exactly(m, path, to) == [method |-> m, is |-> path, under |-> <<>>, has |-> Empty, lacks |-> Empty, to |-> to]
Below(m, base, has, lacks, to) ==
    [method |-> m, is |-> <<>>, under |-> base, has |-> has, lacks |-> lacks, to |-> to]

AgentRoutes == <<
    Exactly("GET", <<"agents">>, "list_agents"),
    Exactly("POST", <<"agents">>, "create_agent"),
    Below("GET", <<"agents">>, Empty, Empty, "get_agent"),
    Below("PUT", <<"agents">>, "start", Empty, "start_agent"),
    Below("PUT", <<"agents">>, "stop", Empty, "stop_agent"),
    Below("POST", <<"agents">>, "execute", Empty, "execute_function"),
    Exactly("POST", <<"agent", "execute">>, "simple_agent_execute"),
    Below("DELETE", <<"agents">>, Empty, Empty, "delete_agent"),
    Exactly("GET", <<"status">>, "system_status"),
    Exactly("POST", <<"kolosal-server", "start">>, "nothing") >>

\* Mutant of WorkflowRoutes: the definitions are looked for before the executions.
WorkflowRoutesReordered == <<
    Exactly("GET", <<"workflows">>, "list_workflows"),
    Exactly("POST", <<"workflows">>, "register_workflow"),
    Below("POST", <<"workflows">>, "execute", Empty, "execute_workflow"),
    Below("GET", <<"workflows">>, Empty, "execute", "get_workflow"),
    Below("GET", <<"workflows", "executions">>, Empty, Empty, "get_workflow_execution"),
    Exactly("GET", <<"workflows", "executions">>, "list_workflow_executions") >>

\* Only with an orchestrator, which main always gives.
WorkflowRoutes == <<
    Exactly("GET", <<"workflows">>, "list_workflows"),
    Exactly("POST", <<"workflows">>, "register_workflow"),
    Below("POST", <<"workflows">>, "execute", Empty, "execute_workflow"),
    Below("GET", <<"workflows", "executions">>, Empty, Empty, "get_workflow_execution"),
    Below("PUT", <<"workflows", "executions">>, Empty, Empty, "control_workflow_execution"),
    Exactly("GET", <<"workflows", "executions">>, "list_workflow_executions"),
    Below("GET", <<"workflows">>, Empty, "execute", "get_workflow"),
    Below("PUT", <<"workflows">>, Empty, Empty, "update_workflow"),
    Below("DELETE", <<"workflows">>, Empty, Empty, "delete_workflow"),
    Exactly("GET", <<"workflow_templates">>, "get_workflow_templates"),
    Below("POST", <<"workflow_templates">>, "execute", Empty, "execute_workflow_template"),
    Below("GET", <<"workflow_executions">>, "progress", Empty, "workflow_execution_progress"),
    Below("GET", <<"workflow_executions">>, "logs", Empty, "workflow_execution_logs") >>

Routes == AgentRoutes \o WorkflowRoutes

Matches(row, method, path) ==
    /\ row.method = method
    /\ IF row.under = <<>> THEN path = row.is
       ELSE /\ Under(path, row.under)
            /\ row.has # Empty => Has(path, row.has)
            /\ row.lacks # Empty => ~Has(path, row.lacks)

\* The suffix that a handler's identifier is freed of.
Suffix(to) == CASE to = "start_agent" -> "start"
                [] to = "stop_agent" -> "stop"
                [] to \in {"execute_function", "execute_workflow", "execute_workflow_template"} -> "execute"
                [] to = "workflow_execution_progress" -> "progress"
                [] to = "workflow_execution_logs" -> "logs"
                [] OTHER -> Empty

NotFound == [to |-> "not_found", id |-> <<>>, action |-> Empty]

\* What the branch of a row makes of a path: the handler, and what it is given.
Reached(row, path) ==
    LET rest == Rest(path, row.under)
        to == row.to
    IN  IF to = "nothing" THEN NotFound
        ELSE IF row.under = <<>> THEN [to |-> to, id |-> <<>>, action |-> Empty]
        ELSE IF row.under = <<"workflows", "executions">>
        THEN IF Len(rest) > 1
             THEN [to |-> "control_workflow_execution", id |-> <<rest[1]>>,
                   action |-> IF Len(rest) = 2 THEN rest[2] ELSE "other"]
             ELSE IF to = "control_workflow_execution" THEN NotFound
             ELSE [to |-> to, id |-> rest, action |-> Empty]
        ELSE IF to = "get_agent" /\ rest = <<Empty>> THEN NotFound
        ELSE [to |-> to, action |-> Empty,
              id |-> IF Suffix(to) = Empty THEN rest ELSE WithoutSuffix(rest, Suffix(to))]

\* The handler a request reaches, with the identifier it is given.  The first row
\* that matches decides, also when its branch then calls nothing.
Target(method, path) ==
    LET hits == {i \in 1..Len(Routes) : Matches(Routes[i], method, path)}
    IN  IF hits = {} THEN NotFound
        ELSE Reached(Routes[CHOOSE i \in hits : \A j \in hits : i <= j], path)

-----------------------------------------------------------------------------
(* The handlers that touch no agent and no definition: their answers, given *)
(* the body and whether what they look up is found.                         *)

GetWorkflowExecution(found) == IF found THEN 200 ELSE 404
ControlWorkflowExecution(action) == IF action \in {"pause", "resume", "cancel"} THEN 200 ELSE 400

\* An unknown workflow makes execute_workflow throw, like a body that is no JSON.
ExecuteWorkflow(body, found) == IF body \in {"malformed", "illtyped"} \/ ~found THEN 500 ELSE 200
ExecuteWorkflowTemplate(body, found) ==
    IF body = "malformed" THEN 400 ELSE IF body = "illtyped" \/ ~found THEN 500 ELSE 200

WorkflowExecutionProgress(found) == IF found THEN 200 ELSE 404
WorkflowExecutionLogs(found) == IF found THEN 200 ELSE 404

\* Answers that depend on nothing.
Listings == {"list_agents", "system_status", "list_workflows", "list_workflow_executions",
             "get_workflow_templates"}

(* What the handlers that change definitions make of a body before they act. *)
RegisterWorkflow(body) == CASE body = "ok" -> 201 [] body = "incomplete" -> 400 [] OTHER -> 500
UpdateWorkflow(body) == CASE body = "ok" -> 200 [] body = "malformed" -> 400 [] OTHER -> 500

\* create_agent answers 400 to every exception, that of an empty name among them.
CreateAgent(body) == IF body = "ok" THEN 201 ELSE 400

\* What is refused before an agent is looked for.
ExecuteFunction(body) == CASE body = "ok" -> 200 [] body = "incomplete" -> 400 [] OTHER -> 500
SimpleAgentExecute(body) == CASE body = "ok" -> 200 [] body = "incomplete" -> 400 [] OTHER -> 500

-----------------------------------------------------------------------------
(* Handlers of the class that no route reaches.                             *)

SubmitWorkflowRequest(body, accepted) ==
    CASE body = "incomplete" -> 400 [] body = "ok" /\ accepted -> 200 [] OTHER -> 500
GetRequestStatus(found) == IF found THEN 200 ELSE 404
StartKolosalServer(success) == IF success THEN 200 ELSE 500
StopKolosalServer(success) == IF success THEN 200 ELSE 500

\* Every component must be healthy, and each is there if its pointer is.
GetHealthStatus(manager, orchestrator, server) ==
    IF manager /\ orchestrator /\ server THEN 200 ELSE 503

Unrouted == {"submit_workflow_request", "get_request_status", "cancel_request",
             "list_workflow_requests", "workflow_system_status", "start_kolosal_server",
             "stop_kolosal_server", "get_system_metrics", "get_health_status",
             "get_prometheus_metrics", "get_performance_metrics"}

-----------------------------------------------------------------------------
\* The endpoints start() prints, with the handler each is for and the identifier it is
\* to be given; x stands where {id} or {name} is printed.
PrintedFor(x) == {
    <<"GET", <<"agents">>, "list_agents", <<>>>>, <<"POST", <<"agents">>, "create_agent", <<>>>>,
    <<"GET", <<"agents", x>>, "get_agent", <<x>>>>, <<"DELETE", <<"agents", x>>, "delete_agent", <<x>>>>,
    <<"PUT", <<"agents", x, "start">>, "start_agent", <<x>>>>,
    <<"PUT", <<"agents", x, "stop">>, "stop_agent", <<x>>>>,
    <<"POST", <<"agents", x, "execute">>, "execute_function", <<x>>>>,
    <<"POST", <<"agent", "execute">>, "simple_agent_execute", <<>>>>,
    <<"GET", <<"status">>, "system_status", <<>>>>,
    <<"GET", <<"workflows">>, "list_workflows", <<>>>>, <<"POST", <<"workflows">>, "register_workflow", <<>>>>,
    <<"GET", <<"workflows", x>>, "get_workflow", <<x>>>>, <<"PUT", <<"workflows", x>>, "update_workflow", <<x>>>>,
    <<"DELETE", <<"workflows", x>>, "delete_workflow", <<x>>>>,
    <<"POST", <<"workflows", x, "execute">>, "execute_workflow", <<x>>>>,
    <<"GET", <<"workflows", "executions", x>>, "get_workflow_execution", <<x>>>>,
    <<"PUT", <<"workflows", "executions", x, "pause">>, "control_workflow_execution", <<x>>>>,
    <<"GET", <<"workflows", "executions">>, "list_workflow_executions", <<>>>>,
    <<"GET", <<"workflow_templates">>, "get_workflow_templates", <<>>>>,
    <<"POST", <<"workflow_templates", x, "execute">>, "execute_workflow_template", <<x>>>>,
    <<"GET", <<"workflow_executions", x, "progress">>, "workflow_execution_progress", <<x>>>>,
    <<"GET", <<"workflow_executions", x, "logs">>, "workflow_execution_logs", <<x>>>> }

\* Every endpoint the server announces reaches its handler with the identifier of
\* the path: no earlier row of the chain takes it (GET /workflows/executions is
\* under /workflows/, PUT /workflows/executions/x/pause as well).
ReachFor(x) == \A e \in PrintedFor(x) : Target(e[1], e[2]).to = e[3] /\ Target(e[1], e[2]).id = e[4]

\* It fails for an identifier that is empty, that is the name of another endpoint, or that
\* begins with the word of an earlier row: PUT /agents/startup/stop starts the agent.
IsPlain(x) == x \notin {Empty, "executions"} /\ \A w \in {"start", "execute", "progress"} : ~Begins(x, w)

PrintedReach ==
    \A x \in {"x", "stop", "logs", "execute", "executed", "executions", "start", "startup", "progress", Empty} :
        ReachFor(x) <=> IsPlain(x)
=============================================================================
