--------------------------- MODULE MCAgentSystem ---------------------------
(* A small instance of the program: two clients, one configured agent, one  *)
(* built-in workflow and a request of every kind.                           *)
EXTENDS AgentSystem, TLC

Message(m, path, body, names) == [method |-> m, path |-> path, body |-> body, names |-> names]

MCDefaults == {[name |-> "assistant", auto_start |-> TRUE]}
MCMessages == {
    Message("POST", <<"agents">>, "ok", "assistant"),
    Message("POST", <<"agents">>, "incomplete", ""),
    Message("GET", <<"agents", "assistant">>, "malformed", ""),
    Message("PUT", <<"agents", "assistant", "start">>, "malformed", ""),
    Message("PUT", <<"agents", "a1", "stop">>, "malformed", ""),
    Message("DELETE", <<"agents", "assistant">>, "malformed", ""),
    Message("POST", <<"agents", "assistant", "execute">>, "ok", "chat"),
    Message("POST", <<"agents", "assistant", "execute">>, "ok", "execute_all_tools"),
    Message("POST", <<"agent", "execute">>, "ok", ""),
    Message("POST", <<"workflows">>, "ok", "w"),
    Message("PUT", <<"workflows", "w">>, "ok", ""),
    Message("DELETE", <<"workflows", "w">>, "malformed", ""),
    Message("GET", <<"workflows", "w">>, "malformed", ""),
    Message("POST", <<"workflows", "w", "execute">>, "ok", ""),
    Message("PUT", <<"workflows", "executions", "x", "pause">>, "malformed", ""),
    Message("GET", <<"status">>, "malformed", ""),
    Message("POST", <<"kolosal-server", "start">>, "malformed", "") }

LateMCMessages == {Message("POST", <<"agents", "assistant", "execute">>, "ok", "chat")}
=============================================================================
