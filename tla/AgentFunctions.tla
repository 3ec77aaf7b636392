--------------------------- MODULE AgentFunctions ---------------------------
(***************************************************************************)
(* The functions an Agent is born with (src/core/agent.cpp and              *)
(* src/functions/) and what each makes of a call: the "status" field of its *)
(* result, "none" for a result without one, "throws" for an exception,      *)
(* which Agent::execute_function passes on.                                 *)
(*                                                                          *)
(* A call is a record: are the parameters the function insists on given,    *)
(* have they the types it takes them for, is a model named and is it in the *)
(* agent's configuration, is the retrieval manager available (decided once, *)
(* when it is built) and does it search the internet, and does the remote   *)
(* service answer when it is asked.                                         *)
(***************************************************************************)
Calls == [given : BOOLEAN, typed : BOOLEAN, named : BOOLEAN, configured : BOOLEAN,
          available : BOOLEAN, search : BOOLEAN, remote : {"answers", "fails"}]

\* What is read before the function's try block throws out of it.
Unusable(call) == ~call.typed \/ ~call.given
ModelAnswers(call) == call.configured /\ call.remote = "answers"

-----------------------------------------------------------------------------
(* setup_builtin_functions *)

\* The model must be named; without it, or without the service, a text excuses it.
Chat(call) ==
    IF Unusable(call) \/ ~call.named THEN "throws"
    ELSE IF ~call.configured THEN "fallback"
    ELSE IF call.remote = "answers" THEN "success" ELSE "fallback_success"

AnalyzeBasic(call) == IF Unusable(call) THEN "throws" ELSE "none"
Plain(call) == "none"
ResearchByModel(call) ==
    IF Unusable(call) THEN "throws" ELSE IF ModelAnswers(call) THEN "success" ELSE "error"

\* create_research_function_response reads only "model" before its try block.
ResearchResponse(call) ==
    IF ~call.typed THEN "throws" ELSE IF ModelAnswers(call) THEN "success" ELSE "error"

BuiltinFunctions ==
    [echo |-> "Plain", status |-> "Plain", chat |-> "Chat", analyze |-> "AnalyzeBasic",
     research |-> "ResearchByModel", plan_research |-> "ResearchByModel",
     internet_search |-> "ResearchByModel", targeted_research |-> "ResearchResponse",
     verify_facts |-> "ResearchResponse", synthesize_research |-> "ResearchResponse",
     generate_research_report |-> "ResearchResponse"]

-----------------------------------------------------------------------------
(* setup_research_brief_functions *)

\* Whatever the processor's own status says is overwritten, and the model's answer
\* is optional: only an ill-typed parameter can make this an error.
AnalyzeBrief(call) == IF Unusable(call) THEN "throws" ELSE "success"

\* plan_research_strategy sets a status only when it fails.
PlanBrief(call) == IF call.typed THEN "none" ELSE "failed"
BriefStep(call) == IF call.typed THEN "success" ELSE "failed"

\* It takes params["sources"] without a test, which a const object answers with
\* undefined behaviour.
BriefCredibility(call) == IF call.given THEN BriefStep(call) ELSE "undefined"

BriefFunctions ==
    [analyze |-> "AnalyzeBrief", plan_research |-> "PlanBrief", synthesize_research |-> "BriefStep",
     generate_research_report |-> "BriefStep", source_credibility_analysis |-> "BriefCredibility",
     cross_reference_search |-> "BriefStep"]

-----------------------------------------------------------------------------
(* setup_retrieval_functions and RetrievalManager *)

\* search_documents and list_documents answer what the server answered.
Documents(call) ==
    IF ~call.available THEN "skipped"
    ELSE IF call.typed /\ call.remote = "answers" THEN "none" ELSE "failed"

InternetSearch(call) ==
    IF ~call.available THEN "unavailable"
    ELSE IF call.typed /\ call.search /\ call.remote = "answers" THEN "none" ELSE "error"

\* combined_search notes the failure of either half in its result.
ResearchByRetrieval(call) ==
    IF ~call.available THEN "unavailable" ELSE IF call.typed THEN "none" ELSE "error"

OrganizeDocuments(call) ==
    IF ~call.available \/ ~call.typed THEN "throws" ELSE "placeholder_implementation"
SearchSuggestions(call) == IF Unusable(call) THEN "throws" ELSE "none"

RetrievalFunctions ==
    [search_documents |-> "Documents", list_documents |-> "Documents",
     internet_search |-> "InternetSearch", research |-> "ResearchByRetrieval",
     organize_documents |-> "OrganizeDocuments", get_search_suggestions |-> "SearchSuggestions"]

-----------------------------------------------------------------------------
(* setup_deep_research_functions *)

\* Mutant of DeepStep: an exception of the step is not caught.
DeepStepUncaught(call) == IF call.typed THEN "completed" ELSE "throws"

\* They compute from their parameters alone and ask no service.
DeepStep(call) == IF call.typed THEN "completed" ELSE "failed"
DeepReport(call) == IF call.typed THEN "none" ELSE "failed"

DeepFunctions ==
    [plan_research |-> "DeepStep", targeted_research |-> "DeepStep", verify_facts |-> "DeepStep",
     synthesize_research |-> "DeepStep", generate_research_report |-> "DeepReport",
     cross_reference_search |-> "DeepStep", iterative_search_refinement |-> "DeepStep",
     source_credibility_analysis |-> "DeepStep"]

-----------------------------------------------------------------------------
\* Agent::register_function: a later registration of a name replaces the
\* earlier one.
Replaced(earlier, later) ==
    [n \in DOMAIN later \cup DOMAIN earlier |-> IF n \in DOMAIN later THEN later[n] ELSE earlier[n]]

\* The constructor registers in this order; the last two sets only with
\* BUILD_WITH_RETRIEVAL.
AlwaysRegistered == Replaced(BuiltinFunctions, BriefFunctions)
Registered(retrieval) ==
    IF retrieval THEN Replaced(Replaced(AlwaysRegistered, RetrievalFunctions), DeepFunctions) ELSE AlwaysRegistered

Result(implementation, call) ==
    CASE implementation = "Plain" -> Plain(call)
      [] implementation = "Chat" -> Chat(call)
      [] implementation = "AnalyzeBasic" -> AnalyzeBasic(call)
      [] implementation = "ResearchByModel" -> ResearchByModel(call)
      [] implementation = "ResearchResponse" -> ResearchResponse(call)
      [] implementation = "AnalyzeBrief" -> AnalyzeBrief(call)
      [] implementation = "PlanBrief" -> PlanBrief(call)
      [] implementation = "BriefStep" -> BriefStep(call)
      [] implementation = "BriefCredibility" -> BriefCredibility(call)
      [] implementation = "Documents" -> Documents(call)
      [] implementation = "InternetSearch" -> InternetSearch(call)
      [] implementation = "ResearchByRetrieval" -> ResearchByRetrieval(call)
      [] implementation = "OrganizeDocuments" -> OrganizeDocuments(call)
      [] implementation = "SearchSuggestions" -> SearchSuggestions(call)
      [] implementation = "DeepStep" -> DeepStep(call)
      [] implementation = "DeepReport" -> DeepReport(call)

\* Agent::execute_function: an agent that does not run, or does not know the
\* function, throws.
Execute(retrieval, runs, name, call) ==
    IF ~runs \/ name \notin DOMAIN Registered(retrieval) THEN "throws"
    ELSE Result(Registered(retrieval)[name], call)

-----------------------------------------------------------------------------
\* handle_execute_all_tools and handle_simple_agent_execute call every function but
\* these, and chat at the end.
NotTools == {"chat", "echo", "status"}
Tools(retrieval) == DOMAIN Registered(retrieval) \ NotTools

\* A remote service that does not answer never makes a well-formed call throw, but
\* for organize_documents: there is a fallback for every function, in both builds,
\* also where a later registration replaces an earlier one.  And a function that
\* lets the model write its result says "success" only if the model did.
CallsDegrade ==
    \A retrieval \in BOOLEAN, call \in Calls :
        call.given /\ call.named =>
            \A name \in DOMAIN Registered(retrieval) :
                LET outcome == Execute(retrieval, TRUE, name, call)
                IN  /\ call.typed /\ outcome = "throws"
                           => name = "organize_documents" /\ ~call.available
                    /\ outcome = "success" /\ Registered(retrieval)[name] \in {"Chat", "ResearchByModel", "ResearchResponse"}
                           => ModelAnswers(call)
                    \* Deep research reports an ill-typed parameter and never throws.
                    /\ name \in DOMAIN DeepFunctions /\ retrieval => outcome # "throws"
=============================================================================
