------------------------ MODULE WorkflowDefinitions ------------------------
(***************************************************************************)
(* Workflow definitions (src/workflows/workflow_types.cpp): how one is read *)
(* from the configuration, validated, built, kept in a file, and what the   *)
(* engine takes from it: whether a step runs, with which arguments, and how *)
(* often it is tried.                                                       *)
(*                                                                          *)
(* "" is an empty or a missing string.  What YAML and JSON have is a record *)
(* of the fields the code reads.                                            *)
(***************************************************************************)
EXTENDS Integers, Sequences, FiniteSets, Functions

-----------------------------------------------------------------------------
(* evaluate_condition.  A condition has one of the forms below; a context   *)
(* maps the fields it has (a path through nested objects is one field) to   *)
(* values: numbers or texts, a text being the sequence of its pieces.       *)

Number(v) == [type |-> "number", v |-> v, text |-> <<>>]
Text(pieces) == [type |-> "string", v |-> 0, text |-> pieces]

\* string::find
Substring(text, part) ==
    \E i \in 0..Len(text) - Len(part) : SubSeq(text, i + 1, i + Len(part)) = part

NoCondition == [form |-> "none"]
Simple(field, op, value) == [form |-> "simple", field |-> field, op |-> op, value |-> value]
AllOf(conditions) == [form |-> "and", of |-> conditions]
AnyOf(conditions) == [form |-> "or", of |-> conditions]
Not(condition) == [form |-> "not", of |-> condition]

\* An operator that does not fit the types, or is unknown, holds.
Compare(op, actual, value) ==
    LET numbers == actual.type = "number" /\ value.type = "number"
        texts == actual.type = "string" /\ value.type = "string"
    IN  CASE op = "equals" -> actual = value
          [] op = "not_equals" -> actual # value
          [] op = "contains" /\ texts -> Substring(actual.text, value.text)
          [] op = "greater_than" /\ numbers -> actual.v > value.v
          [] op = "less_than" /\ numbers -> actual.v < value.v
          [] op = "greater_equal" /\ numbers -> actual.v >= value.v
          [] op = "less_equal" /\ numbers -> actual.v <= value.v
          [] OTHER -> TRUE

\* The bound: of all conditions, these are evaluated.
SimpleConditions ==
    {Simple("x", op, Number(1)) : op \in {"equals", "greater_equal", "exists"}} \cup {Simple("x", "contains", Text(<<"b">>))}
Conditions == {NoCondition} \cup SimpleConditions \cup {Not(c) : c \in SimpleConditions}
                \cup {AllOf(<<c, d>>) : c, d \in SimpleConditions} \cup {AnyOf(<<c, Not(d)>>) : c, d \in SimpleConditions}

\* A "not" of its own is none of the forms that are looked for: it holds.
EvaluateCondition(condition, context) ==
    LET Holds[c \in Conditions] ==
            CASE c.form = "and" -> \A i \in DOMAIN c.of : Holds[c.of[i]]
              [] c.form = "or" -> \E i \in DOMAIN c.of : Holds[c.of[i]]
              [] c.form = "simple" -> c.field \in DOMAIN context /\ Compare(c.op, context[c.field], c.value)
              [] OTHER -> TRUE
    IN  Holds[condition]

-----------------------------------------------------------------------------
(* resolve_parameters.  A list of names resolves to placeholders, without a *)
(* look at the context; of an object, a text {{field}} is replaced by the   *)
(* context's value if it has one.                                           *)

ListOf(names) == [format |-> "list", names |-> names]
ObjectOf(fields) == [format |-> "object", fields |-> fields]   \* parameter |-> field it refers to

Null == [type |-> "null", v |-> 0, text |-> <<>>]

\* What replaces a placeholder is text: a number is written out.
Dump(value) == [value EXCEPT !.type = "string"]
ResolveParameters(parameters, context) ==
    IF parameters.format = "list" THEN [p \in Range(parameters.names) |-> Null]
    ELSE [p \in DOMAIN parameters.fields |->
            LET field == parameters.fields[p]
            IN  IF field \in DOMAIN context THEN Dump(context[field]) ELSE Text(<<"{{", field, "}}">>)]

-----------------------------------------------------------------------------
(* WorkflowStep, WorkflowDefinition and the builder                         *)

Types == {"sequential", "parallel", "conditional", "loop", "pipeline"}
NoLoop == 0   \* no loop_config

NewStep(id, agent, function, parameters, model) ==
    [id |-> id, agent |-> agent, function |-> function, parameters |-> parameters, model |-> model,
     conditions |-> NoCondition, condition |-> NoCondition, dependencies |-> <<>>,
     optional |-> FALSE, retries |-> 0]

NewWorkflow(id, name, type) ==
    [id |-> id, name |-> name, type |-> type, steps |-> <<>>, partial |-> FALSE,
     defaultRetries |-> 0, retries |-> -1, iterations |-> NoLoop]

AddStep(w, id, agent, function, parameters) ==
    [w EXCEPT !.steps = Append(@, NewStep(id, agent, function, parameters, ""))]
AddConditionalStep(w, id, agent, function, condition) ==
    [w EXCEPT !.steps = Append(@, [NewStep(id, agent, function, ListOf(<<>>), "") EXCEPT !.conditions = condition])]

\* The builder changes the first step of that name, or none.
FirstNamed(w, id) == {i \in DOMAIN w.steps : w.steps[i].id = id /\ \A j \in 1..i - 1 : w.steps[j].id # id}
AddStepDependency(w, id, on) ==
    [w EXCEPT !.steps = [i \in DOMAIN w.steps |->
        IF i \in FirstNamed(w, id) THEN [w.steps[i] EXCEPT !.dependencies = Append(@, on)] ELSE w.steps[i]]]
SetStepOptional(w, id) ==
    [w EXCEPT !.steps = [i \in DOMAIN w.steps |->
        IF i \in FirstNamed(w, id) THEN [w.steps[i] EXCEPT !.optional = TRUE] ELSE w.steps[i]]]

AnalysisParameters == ListOf(<<"text", "analysis_type">>)
ResearchParameters == ListOf(<<"query", "depth">>)
ChatParameters == ListOf(<<"message", "model">>)

ResearchWorkflow ==
    LET a == AddStep(NewWorkflow("research_workflow", "Research Workflow", "sequential"),
                     "research", "Researcher", "research", ResearchParameters)
        b == AddStep(a, "analyze", "Analyzer", "analyze", AnalysisParameters)
        c == AddStep(b, "summarize", "Assistant", "chat", ChatParameters)
    IN  AddStepDependency(AddStepDependency(c, "analyze", "research"), "summarize", "analyze")

AnalysisWorkflow ==
    LET a == AddStep(NewWorkflow("analysis_workflow", "Analysis Workflow", "sequential"),
                     "preprocess", "Analyzer", "analyze", AnalysisParameters)
        b == AddStep(a, "analyze", "Analyzer", "analyze", AnalysisParameters)
        c == AddStep(b, "report", "Assistant", "chat", ChatParameters)
    IN  AddStepDependency(AddStepDependency(c, "analyze", "preprocess"), "report", "analyze")

DataPipelineWorkflow ==
    LET a == AddStep(NewWorkflow("data_pipeline_workflow", "Data Pipeline Workflow", "pipeline"),
                     "extract", "Analyzer", "analyze", AnalysisParameters)
        b == AddStep(a, "transform", "Analyzer", "analyze", AnalysisParameters)
        c == AddStep(b, "validate", "Analyzer", "analyze", AnalysisParameters)
    IN  AddStep(c, "load", "Assistant", "status", ListOf(<<>>))

DecisionWorkflow ==
    LET a == AddStep(NewWorkflow("decision_workflow", "Decision Making Workflow", "sequential"),
                     "gather_info", "Researcher", "research", ResearchParameters)
        b == AddStep(a, "analyze_options", "Analyzer", "analyze", AnalysisParameters)
        c == AddStep(b, "decide", "Assistant", "chat", ChatParameters)
        d == AddStep(c, "execute", "Assistant", "status", ListOf(<<>>))
        e == AddStepDependency(AddStepDependency(d, "analyze_options", "gather_info"), "decide", "analyze_options")
    IN  AddStepDependency(e, "execute", "decide")

BuiltinWorkflows == {ResearchWorkflow, AnalysisWorkflow, DataPipelineWorkflow, DecisionWorkflow}

-----------------------------------------------------------------------------
(* Validation.  "mappings" are agent_llm_mappings_: agent |-> its models.   *)

ValidateAgentLlmPairing(agent, model, mappings) ==
    model = "" \/ (agent \in DOMAIN mappings /\ model \in mappings[agent])

ValidateWorkflowDefinition(w, mappings) ==
    /\ w.id # "" /\ w.name # ""
    /\ \A s \in Range(w.steps) :
          /\ s.id # "" /\ s.agent # "" /\ s.function # ""
          /\ ValidateAgentLlmPairing(s.agent, s.model, mappings)
          /\ \A d \in Range(s.dependencies) : \E other \in Range(w.steps) : other.id = d

-----------------------------------------------------------------------------
(* The configuration file.  A raw step or workflow has "" for what it lacks. *)

ParseThrows(raw) ==
    raw.id = "" \/ raw.name = "" \/ \E s \in Range(raw.steps) : "" \in {s.id, s.agent, s.function}

\* A mapping is written out as YAML and read as JSON, which refuses it, as its keys have
\* no quotes: of the parameters a list remains, and of a condition nothing.
Parameters(raw) == IF raw.parameters.format = "list" THEN raw.parameters ELSE ListOf(<<>>)
ParseStep(raw) ==
    [NewStep(raw.id, raw.agent, raw.function, Parameters(raw), raw.model) EXCEPT
        !.conditions = NoCondition, !.dependencies = raw.dependencies, !.optional = raw.optional]

\* An unknown type is sequential; retries and loops cannot be configured.
ParseWorkflow(raw) ==
    [NewWorkflow(raw.id, raw.name, IF raw.type \in Types THEN raw.type ELSE "sequential") EXCEPT
        !.partial = raw.partial, !.steps = [i \in DOMAIN raw.steps |-> ParseStep(raw.steps[i])]]

\* What is taken of the file: a definition that does not parse or validate is left out.
Accepts(raw, mappings) ==
    ~ParseThrows(raw) /\ ValidateWorkflowDefinition(ParseWorkflow(raw), mappings)

\* Mutant of LoadWorkflowConfig: a definition whose identifier is known is not replaced.
LoadFirst(before, raws, mappings) ==
    LET known[i \in 0..Len(raws)] ==
            IF i = 0 THEN before
            ELSE IF ~Accepts(raws[i], mappings) \/ \E w \in known[i - 1] : w.id = raws[i].id
            THEN known[i - 1]
            ELSE known[i - 1] \cup {ParseWorkflow(raws[i])}
    IN  known[Len(raws)]

\* load_workflow_config: main calls it once, when nothing is known yet; reload_workflow_config,
\* which nobody calls, would read the file over what is known.  Each definition that is
\* accepted takes the place of the one known by its identifier.
LoadWorkflowConfig(before, raws, mappings) ==
    LET known[i \in 0..Len(raws)] ==
            IF i = 0 THEN before
            ELSE IF ~Accepts(raws[i], mappings) THEN known[i - 1]
            ELSE {w \in known[i - 1] : w.id # raws[i].id} \cup {ParseWorkflow(raws[i])}
    IN  known[Len(raws)]

\* register_builtin_workflows: what is known by the identifier of one of them goes.
RegisterBuiltinWorkflows(known) ==
    {w \in known : \A b \in BuiltinWorkflows : w.id # b.id} \cup BuiltinWorkflows

\* main reads the configuration, and then starts the orchestrator, which registers the
\* built-in workflows.
StartWorkflows(raws, mappings) == RegisterBuiltinWorkflows(LoadWorkflowConfig({}, raws, mappings))

\* A definition that a client registers keeps its conditions; it names no model and is
\* not validated.
RegisterDefinition(raw) ==
    [NewWorkflow(raw.id, raw.name, raw.type) EXCEPT
        !.partial = raw.partial,
        !.steps = [i \in DOMAIN raw.steps |->
            LET s == raw.steps[i]
            IN  [NewStep(s.id, s.agent, s.function, s.parameters, "") EXCEPT
                    !.conditions = s.condition, !.dependencies = s.dependencies, !.optional = s.optional]]]

-----------------------------------------------------------------------------
(* save_workflow_definition, load_workflow_definition: a definition in its  *)
(* JSON file, and back.                                                     *)

SaveStep(s) ==
    [id |-> s.id, agent |-> s.agent, function |-> s.function, parameters |-> s.parameters,
     dependencies |-> s.dependencies, condition |-> s.condition, model |-> s.model,
     optional |-> s.optional, retries |-> IF s.retries > 0 THEN s.retries ELSE 0]

\* The default policy is written where the override would be.
SaveWorkflowDefinition(w) ==
    [id |-> w.id, name |-> w.name, type |-> w.type, partial |-> w.partial,
     retries |-> IF w.retries >= 0 THEN w.retries ELSE w.defaultRetries,
     steps |-> [i \in DOMAIN w.steps |-> SaveStep(w.steps[i])], iterations |-> w.iterations]

\* Mutant of LoadStep: the dependencies are not read.
LoadStepAlone(j) ==
    [NewStep(j.id, j.agent, j.function, j.parameters, j.model) EXCEPT
        !.condition = j.condition, !.optional = j.optional, !.retries = j.retries]

\* "conditions" is written by nobody and stays empty.
LoadStep(j) ==
    [NewStep(j.id, j.agent, j.function, j.parameters, j.model) EXCEPT
        !.condition = j.condition, !.dependencies = j.dependencies,
        !.optional = j.optional, !.retries = j.retries]

\* Nothing sets default_retry_policy.
LoadWorkflowDefinition(j) ==
    [NewWorkflow(j.id, j.name, j.type) EXCEPT
        !.partial = j.partial, !.retries = j.retries, !.iterations = j.iterations,
        !.steps = [i \in DOMAIN j.steps |-> LoadStep(j.steps[i])]]

-----------------------------------------------------------------------------
(* What the engine makes of a step                                          *)

Runs_(s, context) == s.conditions = NoCondition \/ EvaluateCondition(s.conditions, context)

\* The override is not looked at.
Attempts(w, s) == 1 + IF s.retries = 0 THEN w.defaultRetries ELSE s.retries

\* A sequential workflow reaches every step with its dependencies met.
Ordered(w) ==
    w.type = "sequential" =>
        \A i \in DOMAIN w.steps : \A d \in Range(w.steps[i].dependencies) :
            \E k \in 1..i - 1 : w.steps[k].id = d

-----------------------------------------------------------------------------
(* Definitions and contexts for checking                                    *)

Contexts == {<<>>} \cup [{"x"} -> {Number(0), Number(1), Text(<<"a", "b">>)}]

RawSteps == [id : {"s"}, agent : {"A", ""}, function : {"f"}, model : {"", "m"}, dependencies : {<<>>, <<"r">>, <<"t">>},
             parameters : {ListOf(<<"p">>), ObjectOf([q \in {"p"} |-> "x"])}, condition : Conditions, optional : {TRUE}]
RawFirst == [id |-> "r", agent |-> "A", function |-> "f", model |-> "", dependencies |-> <<>>,
             parameters |-> ListOf(<<>>), condition |-> NoCondition, optional |-> FALSE]
RawWorkflows == {[id |-> "w", name |-> "W", type |-> t, partial |-> FALSE, steps |-> <<RawFirst, s>>] :
                    t \in {"sequential", "unheard of"}, s \in RawSteps}
Mappings == [a \in {"A"} |-> {"m"}]

\* One with what the templates do not use.
BuiltByHand ==
    LET a == AddStep(NewWorkflow("w", "W", "conditional"), "r", "A", "f", ListOf(<<>>))
        b == AddConditionalStep(a, "s", "A", "f", Simple("x", "equals", Number(1)))
    IN  SetStepOptional(b, "s")

Loaded == UNION {LoadWorkflowConfig({}, <<raw>>, Mappings) : raw \in RawWorkflows}
Posted == {RegisterDefinition(raw) : raw \in {raw \in RawWorkflows : raw.type \in Types}}
WithRetries == {[w EXCEPT !.defaultRetries = n, !.steps[1].retries = m, !.iterations = 2] :
                    w \in BuiltinWorkflows \cup {BuiltByHand}, n \in 0..1, m \in 0..1}

\* Files with two definitions, under one identifier or two, one of them that of a built-in
\* workflow; and what is known when clients have registered one of their own.
RawEntries ==
    {[raw EXCEPT !.id = i] :
        raw \in {r \in RawWorkflows : r.steps[2].condition = NoCondition /\ r.steps[2].model = ""},
        i \in {"w", "analysis_workflow"}}
RawFiles == [1..2 -> RawEntries]
Known == RegisterBuiltinWorkflows(
            {RegisterDefinition([id |-> "w", name |-> "W", type |-> "sequential", partial |-> FALSE, steps |-> <<RawFirst>>])})

\* A definition that was kept in a file is the one that was saved, but for what the file
\* forgets: it validates if the first did, has the same steps in the same order with the same
\* dependencies and arguments, no step that ran is left out, and none is tried more
\* often.  (A condition and the default retries are forgotten: steps may run that did
\* not, and are tried once.)
Survives(w, mappings, contexts) ==
    LET again == LoadWorkflowDefinition(SaveWorkflowDefinition(w))
    IN  /\ ValidateWorkflowDefinition(w, mappings) => ValidateWorkflowDefinition(again, mappings)
        /\ again.iterations = w.iterations /\ Ordered(w) => Ordered(again)
        /\ Len(again.steps) = Len(w.steps)
        /\ \A i \in DOMAIN w.steps :
              LET s == w.steps[i]
                  t == again.steps[i]
              IN  /\ s.id = t.id /\ s.dependencies = t.dependencies /\ s.optional = t.optional
                  /\ Attempts(again, t) <= Attempts(w, s)
                  /\ \A context \in contexts :
                        /\ Runs_(s, context) => Runs_(t, context)
                        /\ ResolveParameters(s.parameters, context) = ResolveParameters(t.parameters, context)

\* Of the definitions under one identifier the last that is accepted stays, and what the
\* file does not have, or no longer has, stays as it was.
LastAccepted(raws, mappings) ==
    {i \in DOMAIN raws : /\ Accepts(raws[i], mappings)
                         /\ \A j \in i + 1..Len(raws) : Accepts(raws[j], mappings) => raws[j].id # raws[i].id}
LastStays(before, raws, mappings) ==
    LoadWorkflowConfig(before, raws, mappings) =
        {w \in before : \A i \in DOMAIN raws : Accepts(raws[i], mappings) => raws[i].id # w.id}
        \cup {ParseWorkflow(raws[i]) : i \in LastAccepted(raws, mappings)}

\* The program starts with the built-in workflows, also where the file defines another under
\* the same identifier, and with what else the file defines.
StartsWith(raws, mappings) ==
    StartWorkflows(raws, mappings) =
        BuiltinWorkflows
        \cup {w \in {ParseWorkflow(raws[i]) : i \in LastAccepted(raws, mappings)} :
                \A b \in BuiltinWorkflows : w.id # b.id}

LastDefinitionsStay ==
    \A raws \in RawFiles :
        LastStays({}, raws, Mappings) /\ LastStays(Known, raws, Mappings) /\ StartsWith(raws, Mappings)

\* What is loaded and what is built validates, definitions survive their files, and
\* built-in workflows never wait for a later step.
ReloadsForget ==
    /\ \A w \in Loaded \cup WithRetries : ValidateWorkflowDefinition(w, Mappings)
    /\ \A w \in Loaded \cup Posted \cup WithRetries : Survives(w, Mappings, Contexts)
    /\ \A w \in BuiltinWorkflows : Ordered(w)
=============================================================================
