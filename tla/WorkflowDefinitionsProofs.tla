---------------------- MODULE WorkflowDefinitionsProofs ----------------------
(***************************************************************************)
(* Theorems about definitions of workflows: what any definition keeps when  *)
(* it is saved and loaded; what any configuration file, of any length,      *)
(* leaves known; and that the builder's operations, from which the built-in *)
(* workflows are made, keep a definition valid and ordered.                 *)
(*                                                                          *)
(* "" is kept behind the operators Titled, Complete, Filled and NoModel: a  *)
(* step that looks behind one is Zenon's.                                   *)
(***************************************************************************)
EXTENDS WorkflowDefinitions, TLAPS, WellFoundedInduction

\* A set of natural numbers that has a member has a least one: what is shown of files of
\* every length is shown of the shortest one that would refute it.
LEMMA LeastNumber ==
    ASSUME NEW S, S \subseteq Nat, S # {}
    PROVE  \E n \in S : \A m \in S : n <= m
<1>1. \E n \in S : \A m \in S : <<m, n>> \notin OpToRel(<, Nat)
  BY NatLessThanWellFounded, WFMin
<1>2. PICK n \in S : \A m \in S : <<m, n>> \notin OpToRel(<, Nat)
  BY <1>1
<1>3. \A m \in S : ~(m < n)
  BY <1>2 DEF OpToRel
<1>4. QED
  BY <1>3

-----------------------------------------------------------------------------
(* Saving and loading                                                       *)

\* Has a definition its texts, has a step?
Titled(w) == w.id # "" /\ w.name # ""
Complete(s) == s.id # "" /\ s.agent # "" /\ s.function # ""

\* The validation, step by step.
ValidStep(w, s, mappings) ==
    /\ Complete(s)
    /\ ValidateAgentLlmPairing(s.agent, s.model, mappings)
    /\ \A d \in Range(s.dependencies) : \E k \in DOMAIN w.steps : w.steps[k].id = d

LEMMA ValidByStep ==
    ASSUME NEW w, NEW mappings
    PROVE  ValidateWorkflowDefinition(w, mappings) <=>
              /\ Titled(w)
              /\ \A i \in DOMAIN w.steps : ValidStep(w, w.steps[i], mappings)
<1>1. \A d : (\E other \in Range(w.steps) : other.id = d) <=> \E k \in DOMAIN w.steps : w.steps[k].id = d
  BY DEF Range
<1>2. \A s : ValidStep(w, s, mappings) <=>
                /\ s.id # "" /\ s.agent # "" /\ s.function # ""
                /\ ValidateAgentLlmPairing(s.agent, s.model, mappings)
                /\ \A d \in Range(s.dependencies) : \E other \in Range(w.steps) : other.id = d
  BY <1>1, Zenon DEF ValidStep, Complete
<1>3. ValidateWorkflowDefinition(w, mappings) <=>
         /\ Titled(w)
         /\ \A s \in Range(w.steps) : ValidStep(w, s, mappings)
  BY <1>2, Zenon DEF ValidateWorkflowDefinition, Titled
<1>4. (\A s \in Range(w.steps) : ValidStep(w, s, mappings)) <=>
         \A i \in DOMAIN w.steps : ValidStep(w, w.steps[i], mappings)
  BY DEF Range
<1>5. QED
  BY <1>3, <1>4

\* What the code may have in a definition: steps of any names, parameters and conditions,
\* with a number of retries each.
IsDefinition(w) ==
    /\ w.steps \in Seq(Range(w.steps))
    /\ w.defaultRetries \in Nat
    /\ \A i \in DOMAIN w.steps : w.steps[i].retries \in Nat

\* A step read back has all that the file keeps.
LEMMA StepComesBack ==
    ASSUME NEW s, s.retries \in Nat, NEW t, t = LoadStep(SaveStep(s))
    PROVE  /\ t.id = s.id /\ t.agent = s.agent /\ t.function = s.function /\ t.model = s.model
           /\ t.parameters = s.parameters /\ t.dependencies = s.dependencies
           /\ t.optional = s.optional /\ t.retries = s.retries /\ t.conditions = NoCondition
BY DEF LoadStep, SaveStep, NewStep

LEMMA DefinitionComesBack ==
    ASSUME NEW w, IsDefinition(w), NEW again, again = LoadWorkflowDefinition(SaveWorkflowDefinition(w))
    PROVE  /\ again.id = w.id /\ again.name = w.name /\ again.type = w.type
           /\ again.iterations = w.iterations /\ again.defaultRetries = 0
           /\ DOMAIN again.steps = DOMAIN w.steps /\ Len(again.steps) = Len(w.steps)
           /\ \A i \in DOMAIN w.steps : again.steps[i] = LoadStep(SaveStep(w.steps[i]))
<1> DEFINE saved == SaveWorkflowDefinition(w)
<1>1. /\ saved.id = w.id /\ saved.name = w.name /\ saved.type = w.type
      /\ saved.iterations = w.iterations
      /\ saved.steps = [i \in DOMAIN w.steps |-> SaveStep(w.steps[i])]
  BY DEF SaveWorkflowDefinition
<1> HIDE DEF saved
<1>2. /\ again.id = saved.id /\ again.name = saved.name /\ again.type = saved.type
      /\ again.iterations = saved.iterations /\ again.defaultRetries = 0
      /\ again.steps = [i \in DOMAIN saved.steps |-> LoadStep(saved.steps[i])]
  BY DEF LoadWorkflowDefinition, NewWorkflow, saved
<1>3. DOMAIN again.steps = DOMAIN w.steps
  BY <1>1, <1>2
<1>4. \A i \in DOMAIN w.steps : again.steps[i] = LoadStep(SaveStep(w.steps[i]))
  BY <1>1, <1>2
<1>5. DOMAIN w.steps = 1 .. Len(w.steps) /\ Len(w.steps) \in Nat
  BY DEF IsDefinition
<1>6. Len(again.steps) = Len(w.steps)
  BY <1>2, <1>3, <1>5
<1>7. QED
  BY <1>1, <1>2, <1>3, <1>4, <1>6

\* Whatever a definition is, whatever models its agents have and in whatever context its
\* steps run: it survives its file.
THEOREM DefinitionsSurvive ==
    ASSUME NEW w, IsDefinition(w), NEW mappings, NEW contexts
    PROVE  Survives(w, mappings, contexts)
<1> DEFINE again == LoadWorkflowDefinition(SaveWorkflowDefinition(w))
<1>1. /\ again.id = w.id /\ again.name = w.name /\ again.type = w.type
      /\ again.iterations = w.iterations /\ again.defaultRetries = 0
      /\ DOMAIN again.steps = DOMAIN w.steps /\ Len(again.steps) = Len(w.steps)
      /\ \A i \in DOMAIN w.steps : again.steps[i] = LoadStep(SaveStep(w.steps[i]))
  BY DefinitionComesBack
<1> HIDE DEF again
<1>2. ASSUME NEW i \in DOMAIN w.steps
      PROVE  LET s == w.steps[i]
                 t == again.steps[i]
             IN  /\ t.id = s.id /\ t.agent = s.agent /\ t.function = s.function
                 /\ t.model = s.model /\ t.parameters = s.parameters
                 /\ t.dependencies = s.dependencies /\ t.optional = s.optional
                 /\ t.retries = s.retries /\ t.conditions = NoCondition
  BY <1>1, StepComesBack DEF IsDefinition
<1>3. ValidateWorkflowDefinition(w, mappings) => ValidateWorkflowDefinition(again, mappings)
  <2> SUFFICES ASSUME ValidateWorkflowDefinition(w, mappings)
               PROVE  ValidateWorkflowDefinition(again, mappings)
    OBVIOUS
  <2>1. /\ Titled(w)
        /\ \A i \in DOMAIN w.steps : ValidStep(w, w.steps[i], mappings)
    BY ValidByStep
  <2>2. ASSUME NEW i \in DOMAIN w.steps PROVE ValidStep(again, again.steps[i], mappings)
    <3>1. ASSUME NEW d \in Range(again.steps[i].dependencies)
          PROVE  \E k \in DOMAIN again.steps : again.steps[k].id = d
      <4>1. PICK k \in DOMAIN w.steps : w.steps[k].id = d
        BY <1>2, <2>1, <3>1 DEF ValidStep
      <4>2. QED
        BY <1>1, <1>2, <4>1
    <3>2. Complete(again.steps[i])
      BY <1>2, <2>1 DEF ValidStep, Complete
    <3>3. QED
      BY <1>2, <2>1, <3>1, <3>2 DEF ValidStep
  <2>3. Titled(again)
    BY <1>1, <2>1 DEF Titled
  <2>4. QED
    BY <1>1, <2>2, <2>3, ValidByStep
<1>4. Ordered(w) => Ordered(again)
  <2> SUFFICES ASSUME Ordered(w), w.type = "sequential",
                      NEW i \in DOMAIN w.steps, NEW d \in Range(again.steps[i].dependencies)
               PROVE  \E k \in 1 .. i - 1 : again.steps[k].id = d
    BY <1>1 DEF Ordered
  <2>1. PICK k \in 1 .. i - 1 : w.steps[k].id = d
    BY <1>2 DEF Ordered
  <2>2. k \in DOMAIN w.steps
    BY DEF IsDefinition
  <2>3. QED
    BY <1>2, <2>1, <2>2
<1>5. ASSUME NEW i \in DOMAIN w.steps
      PROVE  /\ Attempts(again, again.steps[i]) <= Attempts(w, w.steps[i])
             /\ \A context \in contexts :
                   /\ Runs_(again.steps[i], context)
                   /\ ResolveParameters(w.steps[i].parameters, context)
                         = ResolveParameters(again.steps[i].parameters, context)
  <2>1. Attempts(again, again.steps[i]) <= Attempts(w, w.steps[i])
    BY <1>1, <1>2 DEF Attempts, IsDefinition
  <2>2. QED
    BY <1>2, <2>1 DEF Runs_
<1>6. QED
  BY <1>1, <1>2, <1>3, <1>4, <1>5 DEF Survives, again

-----------------------------------------------------------------------------
(* Reading the configuration                                                *)

\* Induction over a set.
LEMMA CountingReaches ==
    ASSUME NEW S, 0 \in S, \A n \in Nat : n \in S => n + 1 \in S
    PROVE  Nat \subseteq S
<1> DEFINE Bad == {n \in Nat : n \notin S}
<1> SUFFICES ASSUME Bad # {} PROVE FALSE
  OBVIOUS
<1>1. Bad \subseteq Nat
  OBVIOUS
<1>2. PICK n \in Bad : \A m \in Bad : n <= m
  <2> HIDE DEF Bad
  <2>1. QED
    BY <1>1, LeastNumber
<1>3. n - 1 \in Nat /\ n - 1 \notin Bad /\ n = (n - 1) + 1
  BY <1>2
<1>4. QED
  BY <1>2, <1>3

\* What one definition of the file does to what is known.
Taken(known, raw, mappings) ==
    IF ~Accepts(raw, mappings) THEN known
    ELSE {w \in known : w.id # raw.id} \cup {ParseWorkflow(raw)}

\* known[i]: what is known after the first i definitions.
Reading(known, before, raws, mappings, n) ==
    known = [i \in 0 .. n |-> IF i = 0 THEN before ELSE Taken(known[i - 1], raws[i], mappings)]

\* The definitions can be read one after another.
LEMMA ReadingExists ==
    ASSUME NEW before, NEW raws, NEW mappings, NEW n \in Nat
    PROVE  \E known : Reading(known, before, raws, mappings, n)
<1> DEFINE Reads(k, m) == Reading(k, before, raws, mappings, m)
           S == {m \in Nat : \E k : Reads(k, m)}
<1>1. 0 \in S
  <2>1. Reads([i \in 0 .. 0 |-> before], 0)
    BY DEF Reading
  <2>2. QED
    BY <2>1, Zenon
<1>2. ASSUME NEW m \in Nat, m \in S PROVE m + 1 \in S
  <2>1. PICK k : Reads(k, m)
    BY <1>2
  <2> DEFINE l == [i \in 0 .. m + 1 |-> IF i <= m THEN k[i] ELSE Taken(k[m], raws[m + 1], mappings)]
  <2>2. ASSUME NEW i \in 0 .. m + 1
        PROVE  l[i] = IF i = 0 THEN before ELSE Taken(l[i - 1], raws[i], mappings)
    <3>1. CASE i = 0
      BY <2>1, <3>1 DEF Reading
    <3>2. CASE i \in 1 .. m
      <4>1. l[i] = k[i] /\ l[i - 1] = k[i - 1]
        BY <3>2
      <4>2. k[i] = Taken(k[i - 1], raws[i], mappings)
        BY <2>1, <3>2 DEF Reading
      <4>3. QED
        BY <3>2, <4>1, <4>2
    <3>3. CASE i = m + 1
      BY <3>3
    <3>4. QED
      BY <3>1, <3>2, <3>3
  <2>3. l = [i \in 0 .. m + 1 |-> l[i]]
    OBVIOUS
  <2> HIDE DEF l
  <2>4. Reads(l, m + 1)
    BY <2>2, <2>3 DEF Reading
  <2>5. QED
    BY <2>4
<1> HIDE DEF S
<1>3. n \in S
  BY <1>1, <1>2, CountingReaches
<1>4. QED
  BY <1>3 DEF S

\* What is known after the first n definitions of the file.
KnownAfter(before, raws, mappings, n) ==
    {w \in before : \A i \in 1 .. n : Accepts(raws[i], mappings) => raws[i].id # w.id}
    \cup {ParseWorkflow(raws[i]) : i \in {i \in 1 .. n :
            /\ Accepts(raws[i], mappings)
            /\ \A j \in i + 1 .. n : Accepts(raws[j], mappings) => raws[j].id # raws[i].id}}

LEMMA ParseKeepsId == \A raw : ParseWorkflow(raw).id = raw.id
BY DEF ParseWorkflow, NewWorkflow

\* One more definition.
LEMMA OneMore ==
    ASSUME NEW before, NEW raws, NEW mappings, NEW n \in Nat
    PROVE  Taken(KnownAfter(before, raws, mappings, n), raws[n + 1], mappings)
              = KnownAfter(before, raws, mappings, n + 1)
<1> DEFINE A(i) == Accepts(raws[i], mappings)
           id(i) == raws[i].id
           P(i) == ParseWorkflow(raws[i])
           L(m) == {i \in 1 .. m : A(i) /\ \A j \in i + 1 .. m : A(j) => id(j) # id(i)}
           B(m) == {w \in before : \A i \in 1 .. m : A(i) => id(i) # w.id}
           K(m) == B(m) \cup {P(i) : i \in L(m)}
<1>1. KnownAfter(before, raws, mappings, n) = K(n) /\ KnownAfter(before, raws, mappings, n + 1) = K(n + 1)
  BY DEF KnownAfter
<1>2. \A i : P(i).id = id(i)
  BY ParseKeepsId
<1>3. Taken(K(n), raws[n + 1], mappings) =
         IF ~A(n + 1) THEN K(n) ELSE {w \in K(n) : w.id # id(n + 1)} \cup {P(n + 1)}
  BY DEF Taken
<1> HIDE DEF A, id, P
<1>4. CASE ~A(n + 1)
  <2>1. B(n + 1) = B(n)
    BY <1>4
  <2>2. L(n + 1) = L(n)
    BY <1>4
  <2>3. QED
    BY <1>1, <1>3, <1>4, <2>1, <2>2, Zenon
<1>5. CASE A(n + 1)
  <2>1. B(n + 1) = {w \in B(n) : w.id # id(n + 1)}
    BY <1>5
  <2>2. L(n + 1) = {i \in L(n) : id(i) # id(n + 1)} \cup {n + 1}
    BY <1>5
  <2> HIDE DEF B, L
  <2>3. {P(i) : i \in L(n + 1)} = {w \in {P(i) : i \in L(n)} : w.id # id(n + 1)} \cup {P(n + 1)}
    BY <1>2, <2>2
  <2>4. QED
    BY <1>1, <1>3, <1>5, <2>1, <2>3
<1>6. QED
  BY <1>4, <1>5

\* What is known before does not matter, nor how long the file is: load_workflow_config puts the
\* last accepted definition of each identifier in place, and forgets nothing else.
THEOREM LastDefinitionStays ==
    ASSUME NEW before, NEW mappings, NEW R, NEW raws \in Seq(R)
    PROVE  LastStays(before, raws, mappings)
<1> DEFINE N == Len(raws)
           k == CHOOSE known : Reading(known, before, raws, mappings, N)
<1>1. N \in Nat /\ DOMAIN raws = 1 .. N
  OBVIOUS
<1>2. LoadWorkflowConfig(before, raws, mappings) = k[N]
  BY DEF LoadWorkflowConfig, Reading, Taken
<1> HIDE DEF N
<1>3. k = [i \in 0 .. N |-> IF i = 0 THEN before ELSE Taken(k[i - 1], raws[i], mappings)]
  <2>1. Reading(k, before, raws, mappings, N)
    BY <1>1, ReadingExists, Zenon
  <2>2. QED
    BY <2>1 DEF Reading
<1> HIDE DEF k
<1> DEFINE S == {n \in Nat : n <= N => k[n] = KnownAfter(before, raws, mappings, n)}
<1>4. 0 \in S
  <2>1. k[0] = before
    BY <1>1, <1>3
  <2>2. KnownAfter(before, raws, mappings, 0) = before
    BY DEF KnownAfter
  <2>3. QED
    BY <2>1, <2>2
<1>5. ASSUME NEW n \in Nat, n \in S PROVE n + 1 \in S
  <2> SUFFICES ASSUME n + 1 <= N PROVE k[n + 1] = KnownAfter(before, raws, mappings, n + 1)
    OBVIOUS
  <2>1. k[n] = KnownAfter(before, raws, mappings, n)
    BY <1>1, <1>5
  <2>2. k[n + 1] = Taken(k[n], raws[n + 1], mappings)
    BY <1>1, <1>3
  <2>3. QED
    BY <2>1, <2>2, OneMore
<1>6. N \in S
  <2> HIDE DEF S
  <2>1. QED
    BY <1>1, <1>4, <1>5, CountingReaches
<1>7. k[N] = KnownAfter(before, raws, mappings, N)
  BY <1>1, <1>6
<1>8. QED
  BY <1>1, <1>2, <1>7 DEF LastStays, LastAccepted, KnownAfter, N

\* The definitions that stay when the orchestrator has started: the built-in ones, and those of
\* the file, the last accepted of each identifier, that are named as none of them.
THEOREM BuiltinsCountFirst ==
    ASSUME NEW mappings, NEW R, NEW raws \in Seq(R)
    PROVE  StartsWith(raws, mappings)
<1>1. LoadWorkflowConfig({}, raws, mappings) = {ParseWorkflow(raws[i]) : i \in LastAccepted(raws, mappings)}
  <2>1. LastStays({}, raws, mappings)
    BY LastDefinitionStays
  <2>2. QED
    BY <2>1 DEF LastStays
<1>2. QED
  BY <1>1, Zenon DEF StartsWith, StartWorkflows, RegisterBuiltinWorkflows

\* So what is known is what was known, or validates ...
THEOREM LoadedValidates ==
    ASSUME NEW before, NEW mappings, NEW R, NEW raws \in Seq(R),
           NEW w \in LoadWorkflowConfig(before, raws, mappings)
    PROVE  w \in before \/ ValidateWorkflowDefinition(w, mappings)
<1>1. CASE w \in before
  BY <1>1
<1>2. CASE \E i \in LastAccepted(raws, mappings) : w = ParseWorkflow(raws[i])
  BY <1>2 DEF LastAccepted, Accepts
<1>3. QED
  BY <1>1, <1>2, LastDefinitionStays DEF LastStays

\* ... and no two definitions have one identifier, if no two had.
THEOREM OneDefinitionEach ==
    ASSUME NEW before, NEW mappings, NEW R, NEW raws \in Seq(R),
           \A v, w \in before : v.id = w.id => v = w
    PROVE  \A v, w \in LoadWorkflowConfig(before, raws, mappings) : v.id = w.id => v = w
<1> DEFINE Old == {w \in before : \A i \in DOMAIN raws : Accepts(raws[i], mappings) => raws[i].id # w.id}
           New == {ParseWorkflow(raws[i]) : i \in LastAccepted(raws, mappings)}
<1>1. LoadWorkflowConfig(before, raws, mappings) = Old \cup New
  BY LastDefinitionStays DEF LastStays
<1>2. \A v, w \in Old : v.id = w.id => v = w
  OBVIOUS
<1>3. ASSUME NEW v \in Old, NEW w \in New PROVE v.id # w.id
  BY ParseKeepsId DEF LastAccepted
<1>4. ASSUME NEW v \in New, NEW w \in New, v.id = w.id PROVE v = w
  <2>1. PICK i \in LastAccepted(raws, mappings) : v = ParseWorkflow(raws[i])
    OBVIOUS
  <2>2. PICK j \in LastAccepted(raws, mappings) : w = ParseWorkflow(raws[j])
    OBVIOUS
  <2>3. raws[i].id = raws[j].id
    BY <1>4, <2>1, <2>2, ParseKeepsId
  <2>4. ~(i < j) /\ ~(j < i)
    BY <2>3 DEF LastAccepted
  <2>5. i = j
    BY <2>4 DEF LastAccepted
  <2>6. QED
    BY <2>1, <2>2, <2>5
<1> HIDE DEF Old, New
<1>5. QED
  BY <1>1, <1>2, <1>3, <1>4

-----------------------------------------------------------------------------
(* The builder                                                              *)

NoModel == ""

\* The texts of the definitions for checking, but for the empty one.
SomeTexts ==
    Types \cup
    {"research_workflow", "Research Workflow", "analysis_workflow", "Analysis Workflow",
     "data_pipeline_workflow", "Data Pipeline Workflow", "decision_workflow", "Decision Making Workflow",
     "w", "W", "Researcher", "Analyzer", "Assistant", "A",
     "research", "analyze", "chat", "status", "f",
     "summarize", "preprocess", "report", "extract", "transform", "validate", "load",
     "gather_info", "analyze_options", "decide", "execute", "r", "s", "t"}

\* Steps and definitions with parameters in P and conditions in C.
StepsOf(P, C) ==
    [id : SomeTexts, agent : SomeTexts, function : SomeTexts, parameters : P, model : SomeTexts \cup {NoModel},
     conditions : C, condition : C, dependencies : Seq(SomeTexts), optional : BOOLEAN, retries : Nat]
DefinitionsOf(P, C) ==
    [id : SomeTexts, name : SomeTexts, type : SomeTexts, steps : Seq(StepsOf(P, C)), partial : BOOLEAN,
     defaultRetries : Nat, retries : Int, iterations : Nat]

LEMMA DefinitionsAre ==
    ASSUME NEW P, NEW C, NEW w \in DefinitionsOf(P, C)
    PROVE  IsDefinition(w)
<1>1. w.steps \in Seq(StepsOf(P, C)) /\ w.defaultRetries \in Nat
  BY DEF DefinitionsOf
<1>2. w.steps \in Seq(Range(w.steps))
  BY <1>1 DEF Range
<1>3. \A i \in DOMAIN w.steps : w.steps[i].retries \in Nat
  <2>1. \A i \in DOMAIN w.steps : w.steps[i] \in StepsOf(P, C)
    BY <1>1
  <2>2. QED
    BY <2>1 DEF StepsOf
<1>4. QED
  BY <1>1, <1>2, <1>3 DEF IsDefinition

\* A definition that the builder may go on with: it validates and is ordered.
Sound(w, mappings) == ValidateWorkflowDefinition(w, mappings) /\ Ordered(w)

LEMMA NewIsSound ==
    ASSUME NEW P, NEW C, NEW mappings, NEW id \in SomeTexts, NEW name \in SomeTexts, NEW type \in SomeTexts,
           NEW w, w = NewWorkflow(id, name, type), Titled(w)
    PROVE  w \in DefinitionsOf(P, C) /\ Sound(w, mappings) /\ w.steps = <<>>
<1>1. w.id = id /\ w.name = name /\ w.steps = <<>>
  BY DEF NewWorkflow
<1>2. DOMAIN w.steps = {}
  BY <1>1
<1>3. w \in DefinitionsOf(P, C)
  <2>1. \A S : <<>> \in Seq(S)
    OBVIOUS
  <2>2. <<>> \in Seq(StepsOf(P, C))
    BY <2>1, Zenon
  <2>3. QED
    BY <2>2 DEF NewWorkflow, DefinitionsOf, NoLoop
<1>4. QED
  BY <1>1, <1>2, <1>3, ValidByStep DEF Sound, Ordered

WithStep(w, s) == [w EXCEPT !.steps = Append(@, s)]

LEMMA AppendIsSeq ==
    ASSUME NEW S, NEW q \in Seq(S), NEW e \in S
    PROVE  /\ Append(q, e) \in Seq(S) /\ Len(Append(q, e)) = Len(q) + 1
           /\ DOMAIN q = 1 .. Len(q) /\ Len(q) \in Nat
           /\ \A i \in 1 .. Len(q) : Append(q, e)[i] = q[i]
           /\ Append(q, e)[Len(q) + 1] = e
OBVIOUS

\* A step that depends on nothing can be added ...
LEMMA AddedIsSound ==
    ASSUME NEW P, NEW C, NEW mappings, NEW w \in DefinitionsOf(P, C), Sound(w, mappings),
           NEW s \in StepsOf(P, C), Complete(s), ValidateAgentLlmPairing(s.agent, s.model, mappings),
           s.dependencies = <<>>, NEW v, v = WithStep(w, s)
    PROVE  /\ v \in DefinitionsOf(P, C) /\ Sound(v, mappings)
           /\ v.steps = Append(w.steps, s) /\ v.type = w.type
<1>1. w.steps \in Seq(StepsOf(P, C))
  BY DEF DefinitionsOf
<1>2. Append(w.steps, s) \in Seq(StepsOf(P, C))
  BY <1>1, AppendIsSeq
<1>3. /\ v \in DefinitionsOf(P, C) /\ v.steps = Append(w.steps, s)
      /\ v.type = w.type /\ v.id = w.id /\ v.name = w.name
  BY <1>2 DEF DefinitionsOf, WithStep
<1> DEFINE n == Len(w.steps)
<1>4. /\ n \in Nat /\ DOMAIN w.steps = 1 .. n /\ DOMAIN v.steps = 1 .. n + 1
      /\ \A i \in 1 .. n : v.steps[i] = w.steps[i]
      /\ v.steps[n + 1] = s
  BY <1>1, <1>2, <1>3, AppendIsSeq
<1> HIDE DEF n
<1>5. /\ Titled(w) /\ \A i \in 1 .. n : ValidStep(w, w.steps[i], mappings)
  BY <1>4, ValidByStep DEF Sound
<1>6. \A d : d \notin Range(s.dependencies)
  <2>1. DOMAIN s.dependencies = {}
    OBVIOUS
  <2>2. QED
    BY <2>1 DEF Range
<1>7. ASSUME NEW i \in 1 .. n + 1 PROVE ValidStep(v, v.steps[i], mappings)
  <2>1. CASE i = n + 1
    BY <1>4, <1>6, <2>1 DEF ValidStep
  <2>2. CASE i \in 1 .. n
    <3>1. \A d \in Range(w.steps[i].dependencies) : \E k \in 1 .. n : w.steps[k].id = d
      BY <1>4, <1>5, <2>2 DEF ValidStep
    <3>2. ASSUME NEW d \in Range(v.steps[i].dependencies)
          PROVE  \E k \in 1 .. n + 1 : v.steps[k].id = d
      <4>1. PICK k \in 1 .. n : w.steps[k].id = d
        BY <1>4, <2>2, <3>1
      <4>2. QED
        BY <1>4, <4>1
    <3>3. QED
      BY <1>4, <1>5, <2>2, <3>2 DEF ValidStep
  <2>3. QED
    BY <1>4, <2>1, <2>2
<1>8. Ordered(v)
  <2> SUFFICES ASSUME v.type = "sequential", NEW i \in 1 .. n + 1,
                      NEW d \in Range(v.steps[i].dependencies)
               PROVE  \E k \in 1 .. i - 1 : v.steps[k].id = d
    BY <1>4 DEF Ordered
  <2>1. i \in 1 .. n
    BY <1>4, <1>6
  <2>2. PICK k \in 1 .. i - 1 : w.steps[k].id = d
    BY <1>3, <1>4, <2>1 DEF Sound, Ordered
  <2>3. QED
    BY <1>4, <2>1, <2>2
<1>9. Titled(v)
  BY <1>3, <1>5 DEF Titled
<1>10. QED
  BY <1>3, <1>4, <1>7, <1>8, <1>9, ValidByStep DEF Sound

\* ... a dependency of the first step of a name on an earlier one can be added ...
LEMMA DependencyIsSound ==
    ASSUME NEW P, NEW C, NEW mappings, NEW w \in DefinitionsOf(P, C), Sound(w, mappings),
           NEW id \in SomeTexts, NEW on \in SomeTexts, NEW first \in DOMAIN w.steps, NEW e \in 1 .. first - 1,
           FirstNamed(w, id) = {first}, w.steps[e].id = on,
           NEW v, v = AddStepDependency(w, id, on)
    PROVE  /\ v \in DefinitionsOf(P, C) /\ Sound(v, mappings) /\ v.type = w.type
           /\ DOMAIN v.steps = DOMAIN w.steps
           /\ \A i \in DOMAIN w.steps : v.steps[i].id = w.steps[i].id
<1> DEFINE n == Len(w.steps)
           more == [w.steps[first] EXCEPT !.dependencies = Append(@, on)]
<1>1. /\ n \in Nat /\ DOMAIN w.steps = 1 .. n /\ w.steps \in [1 .. n -> StepsOf(P, C)]
      /\ w.steps[first] \in StepsOf(P, C)
  BY DEF DefinitionsOf
<1>2. /\ more \in StepsOf(P, C) /\ more.dependencies = Append(w.steps[first].dependencies, on)
      /\ more.id = w.steps[first].id /\ more.agent = w.steps[first].agent
      /\ more.function = w.steps[first].function /\ more.model = w.steps[first].model
  <2>1. w.steps[first].dependencies \in Seq(SomeTexts)
    BY <1>1 DEF StepsOf
  <2>2. Append(w.steps[first].dependencies, on) \in Seq(SomeTexts)
    BY <2>1, AppendIsSeq
  <2>3. QED
    BY <1>1, <2>2 DEF StepsOf
<1>3. \A d \in Range(more.dependencies) : d = on \/ d \in Range(w.steps[first].dependencies)
  <2>1. w.steps[first].dependencies \in Seq(SomeTexts)
    BY <1>1 DEF StepsOf
  <2>2. QED
    BY <1>2, <2>1 DEF Range
<1> HIDE DEF n, more
<1>4. v.steps = [i \in 1 .. n |-> IF i = first THEN more ELSE w.steps[i]]
  BY <1>1 DEF AddStepDependency, DefinitionsOf, more
<1>5. v.id = w.id /\ v.name = w.name /\ v.type = w.type
  BY DEF AddStepDependency, DefinitionsOf
<1>6. v \in DefinitionsOf(P, C)
  <2>1. v.steps \in [1 .. n -> StepsOf(P, C)]
    BY <1>1, <1>2, <1>4
  <2>2. v.steps \in Seq(StepsOf(P, C))
    BY <1>1, <2>1
  <2>3. v = [w EXCEPT !.steps = v.steps]
    BY DEF AddStepDependency, DefinitionsOf
  <2>4. QED
    BY <2>2, <2>3 DEF DefinitionsOf
<1>7. /\ DOMAIN v.steps = 1 .. n
      /\ \A i \in 1 .. n : v.steps[i].id = w.steps[i].id
      /\ v.steps[first] = more /\ \A i \in 1 .. n : i # first => v.steps[i] = w.steps[i]
  BY <1>1, <1>2, <1>4
<1>8. Titled(w) /\ \A i \in 1 .. n : ValidStep(w, w.steps[i], mappings)
  BY <1>1, ValidByStep DEF Sound
<1>9. ASSUME NEW i \in 1 .. n PROVE ValidStep(v, v.steps[i], mappings)
  <2>1. Complete(v.steps[i]) /\ ValidateAgentLlmPairing(v.steps[i].agent, v.steps[i].model, mappings)
    <3>1. /\ v.steps[i].id = w.steps[i].id /\ v.steps[i].agent = w.steps[i].agent
          /\ v.steps[i].function = w.steps[i].function /\ v.steps[i].model = w.steps[i].model
      BY <1>2, <1>7
    <3>2. /\ Complete(w.steps[i])
          /\ ValidateAgentLlmPairing(w.steps[i].agent, w.steps[i].model, mappings)
      BY <1>8 DEF ValidStep
    <3>3. Complete(v.steps[i])
      BY <3>1, <3>2, Zenon DEF Complete
    <3>4. QED
      BY <3>1, <3>2, <3>3
  <2>2. ASSUME NEW d \in Range(v.steps[i].dependencies)
        PROVE  \E k \in 1 .. n : v.steps[k].id = d
    <3>1. \E k \in 1 .. n : w.steps[k].id = d
      <4>1. CASE d \in Range(w.steps[i].dependencies)
        BY <1>1, <1>8, <4>1 DEF ValidStep
      <4>2. CASE i = first /\ d = on
        BY <1>1, <4>2
      <4>3. QED
        BY <1>3, <1>7, <2>2, <4>1, <4>2
    <3>2. QED
      BY <1>7, <3>1
  <2>3. QED
    BY <1>7, <2>1, <2>2 DEF ValidStep
<1>10. Ordered(v)
  <2> SUFFICES ASSUME v.type = "sequential", NEW i \in 1 .. n, NEW d \in Range(v.steps[i].dependencies)
               PROVE  \E k \in 1 .. i - 1 : v.steps[k].id = d
    BY <1>7 DEF Ordered
  <2>1. \E k \in 1 .. i - 1 : w.steps[k].id = d
    <3>1. CASE d \in Range(w.steps[i].dependencies)
      BY <1>1, <1>5, <3>1 DEF Sound, Ordered
    <3>2. CASE i = first /\ d = on
      BY <3>2
    <3>3. QED
      BY <1>3, <1>7, <3>1, <3>2
  <2>2. PICK k \in 1 .. i - 1 : w.steps[k].id = d
    BY <2>1
  <2>3. k \in 1 .. n
    BY <1>1
  <2>4. QED
    BY <1>7, <2>2, <2>3
<1>11. Titled(v)
  BY <1>5, <1>8 DEF Titled
<1>12. QED
  BY <1>1, <1>5, <1>6, <1>7, <1>9, <1>10, <1>11, ValidByStep DEF Sound

\* ... and whatever else is changed of the steps does not matter.
SameWork(v, w, n) ==
    /\ v.id = w.id /\ v.name = w.name /\ v.type = w.type
    /\ DOMAIN v.steps = 1 .. n /\ DOMAIN w.steps = 1 .. n
    /\ \A i \in 1 .. n : LET s == w.steps[i]
                          t == v.steps[i]
                      IN  /\ t.id = s.id /\ t.agent = s.agent /\ t.function = s.function
                          /\ t.model = s.model /\ t.dependencies = s.dependencies

LEMMA KeptIsSound ==
    ASSUME NEW mappings, NEW w, Sound(w, mappings), NEW n \in Nat, NEW v, SameWork(v, w, n)
    PROVE  Sound(v, mappings)
<1> USE DEF SameWork
<1>1. Titled(w) /\ \A i \in 1 .. n : ValidStep(w, w.steps[i], mappings)
  BY ValidByStep DEF Sound
<1>2. Titled(v)
  BY <1>1 DEF Titled
<1>3. ASSUME NEW i \in 1 .. n PROVE ValidStep(v, v.steps[i], mappings)
  <2>1. Complete(v.steps[i]) /\ ValidateAgentLlmPairing(v.steps[i].agent, v.steps[i].model, mappings)
    BY <1>1 DEF ValidStep, Complete
  <2>2. ASSUME NEW d \in Range(v.steps[i].dependencies)
        PROVE  \E k \in 1 .. n : v.steps[k].id = d
    <3>1. PICK k \in 1 .. n : w.steps[k].id = d
      BY <1>1, <2>2 DEF ValidStep
    <3>2. QED
      BY <3>1
  <2>3. QED
    BY <2>1, <2>2 DEF ValidStep
<1>4. Ordered(v)
  <2> SUFFICES ASSUME v.type = "sequential", NEW i \in 1 .. n, NEW d \in Range(v.steps[i].dependencies)
               PROVE  \E k \in 1 .. i - 1 : v.steps[k].id = d
    BY DEF Ordered
  <2>1. PICK k \in 1 .. i - 1 : w.steps[k].id = d
    BY DEF Sound, Ordered
  <2>2. k \in 1 .. n
    OBVIOUS
  <2>3. QED
    BY <2>1, <2>2
<1>5. QED
  BY <1>2, <1>3, <1>4, ValidByStep DEF Sound

-----------------------------------------------------------------------------
(* The built-in workflows                                                   *)

\* Parameters and conditions of the definitions for checking.
SomeParameters == {ListOf(<<"p">>), ListOf(<<>>), AnalysisParameters, ResearchParameters, ChatParameters}
SomeConditions == {NoCondition, Simple("x", "equals", Number(1))}
Some == DefinitionsOf(SomeParameters, SomeConditions)

Filled(text) == text # ""

Fits(s, id, mappings) ==
    /\ s \in StepsOf(SomeParameters, SomeConditions) /\ s.dependencies = <<>> /\ s.id = id
    /\ Complete(s) /\ ValidateAgentLlmPairing(s.agent, s.model, mappings)

\* A step as the builder makes it, without a condition ...
LEMMA PlainStep ==
    ASSUME NEW mappings, NEW id \in SomeTexts, NEW agent \in SomeTexts, NEW function \in SomeTexts,
           Filled(id), Filled(agent), Filled(function), NEW parameters \in SomeParameters
    PROVE  Fits(NewStep(id, agent, function, parameters, NoModel), id, mappings)
<1>1. ASSUME NEW model \in SomeTexts \cup {NoModel}, NEW t,
             t = NewStep(id, agent, function, parameters, model)
      PROVE  /\ t \in StepsOf(SomeParameters, SomeConditions) /\ t.dependencies = <<>>
             /\ t.id = id /\ t.agent = agent /\ t.function = function /\ t.model = model
  <2>1. NoCondition \in SomeConditions
    BY DEF SomeConditions
  <2>2. <<>> \in Seq(SomeTexts)
    OBVIOUS
  <2>3. QED
    BY <1>1, <2>1, <2>2 DEF NewStep, StepsOf
<1> DEFINE s == NewStep(id, agent, function, parameters, NoModel)
<1>2. /\ s \in StepsOf(SomeParameters, SomeConditions) /\ s.dependencies = <<>>
      /\ s.id = id /\ s.agent = agent /\ s.function = function /\ s.model = NoModel
  BY <1>1, Zenon
<1> HIDE DEF s
<1>3. Fits(s, id, mappings)
  BY <1>2, Zenon DEF Fits, Complete, Filled, ValidateAgentLlmPairing, NoModel
<1>4. QED
  BY <1>3 DEF s

\* ... and with one.
LEMMA ConditionalStep ==
    ASSUME NEW mappings, NEW id \in SomeTexts, NEW agent \in SomeTexts, NEW function \in SomeTexts,
           Filled(id), Filled(agent), Filled(function),
           NEW parameters \in SomeParameters, NEW c \in SomeConditions
    PROVE  Fits([NewStep(id, agent, function, parameters, NoModel) EXCEPT !.conditions = c], id, mappings)
<1>1. ASSUME NEW model \in SomeTexts \cup {NoModel}, NEW t,
             t = [NewStep(id, agent, function, parameters, model) EXCEPT !.conditions = c]
      PROVE  /\ t \in StepsOf(SomeParameters, SomeConditions) /\ t.dependencies = <<>>
             /\ t.id = id /\ t.agent = agent /\ t.function = function /\ t.model = model
  <2>1. NoCondition \in SomeConditions
    BY DEF SomeConditions
  <2>2. <<>> \in Seq(SomeTexts)
    OBVIOUS
  <2>3. QED
    BY <1>1, <2>1, <2>2 DEF NewStep, StepsOf
<1> DEFINE s == [NewStep(id, agent, function, parameters, NoModel) EXCEPT !.conditions = c]
<1>2. /\ s \in StepsOf(SomeParameters, SomeConditions) /\ s.dependencies = <<>>
      /\ s.id = id /\ s.agent = agent /\ s.function = function /\ s.model = NoModel
  BY <1>1, Zenon
<1> HIDE DEF s
<1>3. Fits(s, id, mappings)
  BY <1>2, Zenon DEF Fits, Complete, Filled, ValidateAgentLlmPairing, NoModel
<1>4. QED
  BY <1>3 DEF s

Ids(w) == [i \in DOMAIN w.steps |-> w.steps[i].id]

LEMMA StepsAre ==
    ASSUME NEW w \in Some
    PROVE  /\ w.steps \in Seq(StepsOf(SomeParameters, SomeConditions))
           /\ Ids(w) \in Seq(SomeTexts) /\ Len(Ids(w)) = Len(w.steps)
           /\ DOMAIN Ids(w) = 1 .. Len(w.steps) /\ DOMAIN w.steps = 1 .. Len(w.steps)
<1>1. w.steps \in Seq(StepsOf(SomeParameters, SomeConditions))
  BY DEF Some, DefinitionsOf
<1>2. \A i \in DOMAIN w.steps : w.steps[i].id \in SomeTexts
  <2>1. \A i \in DOMAIN w.steps : w.steps[i] \in StepsOf(SomeParameters, SomeConditions)
    BY <1>1
  <2>2. QED
    BY <2>1 DEF StepsOf
<1>3. QED
  BY <1>1, <1>2 DEF Ids

\* A step added: the identifiers are one more.
LEMMA IdAdded ==
    ASSUME NEW w \in Some, NEW s \in StepsOf(SomeParameters, SomeConditions), NEW v \in Some,
           v.steps = Append(w.steps, s)
    PROVE  Ids(v) = Append(Ids(w), s.id)
<1> DEFINE n == Len(w.steps)
           more == Append(Ids(w), s.id)
<1>1. /\ Ids(w) \in Seq(SomeTexts) /\ Len(Ids(w)) = n /\ DOMAIN w.steps = 1 .. n /\ n \in Nat
      /\ DOMAIN Ids(w) = 1 .. n /\ w.steps \in Seq(StepsOf(SomeParameters, SomeConditions))
  BY StepsAre
<1>2. s.id \in SomeTexts
  BY DEF StepsOf
<1>3. DOMAIN v.steps = 1 .. n + 1 /\ \A i \in 1 .. n : v.steps[i] = w.steps[i]
  BY <1>1, AppendIsSeq
<1>4. v.steps[n + 1] = s
  BY <1>1, AppendIsSeq
<1>5. more \in Seq(SomeTexts) /\ Len(more) = n + 1 /\ more[n + 1] = s.id
  BY <1>1, <1>2, AppendIsSeq
<1>6. \A i \in 1 .. n : more[i] = w.steps[i].id
  <2>1. \A i \in 1 .. n : more[i] = Ids(w)[i]
    BY <1>1, <1>2, AppendIsSeq
  <2>2. QED
    BY <1>1, <2>1 DEF Ids
<1> HIDE DEF n, more
<1>7. \A i \in 1 .. n + 1 : more[i] = v.steps[i].id
  <2>1. \A i \in 1 .. n + 1 : i \in 1 .. n \/ i = n + 1
    BY <1>1
  <2>2. QED
    BY <1>3, <1>4, <1>5, <1>6, <2>1
<1>8. more = [i \in 1 .. n + 1 |-> more[i]]
  BY <1>1, <1>5
<1>9. QED
  BY <1>3, <1>7, <1>8 DEF Ids, more

\* What the builder made of n steps so far, and one more.
Grown(w, n, mappings) == w \in Some /\ Sound(w, mappings) /\ Len(Ids(w)) = n /\ n \in Nat
Grows(v, w, n, id, mappings) ==
    /\ Grown(v, n + 1, mappings) /\ v.type = w.type /\ Ids(v)[n + 1] = id
    /\ \A i \in 1 .. n : Ids(v)[i] = Ids(w)[i]

LEMMA StepGrows ==
    ASSUME NEW mappings, NEW n, NEW w, Grown(w, n, mappings), NEW id, NEW s, Fits(s, id, mappings),
           NEW v, v = WithStep(w, s)
    PROVE  Grows(v, w, n, id, mappings)
<1>1. /\ w \in DefinitionsOf(SomeParameters, SomeConditions) /\ w \in Some
      /\ Sound(w, mappings) /\ n = Len(Ids(w))
  BY DEF Grown, Some
<1>2. /\ s \in StepsOf(SomeParameters, SomeConditions) /\ s.dependencies = <<>>
      /\ Complete(s) /\ ValidateAgentLlmPairing(s.agent, s.model, mappings)
  BY DEF Fits
<1>3. s.id = id
  BY DEF Fits
<1>4. /\ v \in DefinitionsOf(SomeParameters, SomeConditions) /\ Sound(v, mappings)
      /\ v.steps = Append(w.steps, s) /\ v.type = w.type
  BY <1>1, <1>2, AddedIsSound
<1>5. v \in Some
  BY <1>4 DEF Some
<1>6. Ids(v) = Append(Ids(w), id)
  BY <1>1, <1>2, <1>3, <1>4, <1>5, IdAdded
<1>7. Ids(w) \in Seq(SomeTexts) /\ id \in SomeTexts
  BY <1>1, <1>2, <1>3, StepsAre DEF StepsOf
<1>8. Len(Ids(v)) = n + 1 /\ Ids(v)[n + 1] = id /\ \A i \in 1 .. n : Ids(v)[i] = Ids(w)[i]
  <2> DEFINE ids == Ids(w)
  <2>1. ids \in Seq(SomeTexts) /\ id \in SomeTexts /\ n = Len(ids) /\ Ids(v) = Append(ids, id)
    BY <1>1, <1>6, <1>7
  <2> HIDE DEF ids
  <2>2. /\ Len(Append(ids, id)) = n + 1 /\ Append(ids, id)[n + 1] = id
        /\ \A i \in 1 .. n : Append(ids, id)[i] = ids[i]
    BY <2>1
  <2>3. QED
    BY <2>1, <2>2 DEF ids
<1>9. n \in Nat /\ n + 1 \in Nat
  BY <1>1, <1>7
<1>10. QED
  BY <1>4, <1>5, <1>8, <1>9 DEF Grows, Grown

Word(text) == text \in SomeTexts /\ Filled(text)

\* add_step ...
LEMMA StepBuilt ==
    ASSUME NEW mappings, NEW n, NEW w, Grown(w, n, mappings),
           NEW id, Word(id), NEW agent, Word(agent), NEW function, Word(function),
           NEW parameters \in SomeParameters
    PROVE  Grows(AddStep(w, id, agent, function, parameters), w, n, id, mappings)
<1> DEFINE s == NewStep(id, agent, function, parameters, NoModel)
<1>1. AddStep(w, id, agent, function, parameters) = WithStep(w, s)
  BY Zenon DEF AddStep, WithStep, NoModel
<1>2. Fits(s, id, mappings)
  BY PlainStep DEF Word
<1> HIDE DEF s
<1>3. QED
  BY <1>1, <1>2, StepGrows

\* ... and add_conditional_step.
LEMMA ConditionalStepBuilt ==
    ASSUME NEW mappings, NEW n, NEW w, Grown(w, n, mappings),
           NEW id, Word(id), NEW agent, Word(agent), NEW function, Word(function),
           NEW c \in SomeConditions
    PROVE  Grows(AddConditionalStep(w, id, agent, function, c), w, n, id, mappings)
<1> DEFINE s == [NewStep(id, agent, function, ListOf(<<>>), NoModel) EXCEPT !.conditions = c]
<1>1. AddConditionalStep(w, id, agent, function, c) = WithStep(w, s)
  BY Zenon DEF AddConditionalStep, WithStep, NoModel
<1>2. ListOf(<<>>) \in SomeParameters
  BY Zenon DEF SomeParameters
<1>3. Fits(s, id, mappings)
  BY <1>2, ConditionalStep DEF Word
<1> HIDE DEF s
<1>4. QED
  BY <1>1, <1>3, StepGrows

\* add_step_dependency.
LEMMA DependencyAdded ==
    ASSUME NEW mappings, NEW w \in Some, Sound(w, mappings), NEW id \in SomeTexts, NEW on \in SomeTexts,
           NEW first \in DOMAIN Ids(w), NEW e \in 1 .. first - 1,
           Ids(w)[first] = id, Ids(w)[e] = on, \A j \in 1 .. first - 1 : Ids(w)[j] # id,
           NEW v, v = AddStepDependency(w, id, on)
    PROVE  v \in Some /\ Sound(v, mappings) /\ Ids(v) = Ids(w) /\ v.type = w.type
<1> DEFINE n == Len(w.steps)
<1>1. DOMAIN w.steps = 1 .. n /\ n \in Nat /\ DOMAIN Ids(w) = 1 .. n
  BY StepsAre
<1>2. \A i \in 1 .. n : Ids(w)[i] = w.steps[i].id
  BY <1>1 DEF Ids
<1> HIDE DEF n
<1>3. first \in 1 .. n /\ e \in 1 .. n
  BY <1>1
<1>4. FirstNamed(w, id) = {first}
  <2>1. \A i \in 1 .. n : i \in FirstNamed(w, id) <=>
                            Ids(w)[i] = id /\ \A j \in 1 .. i - 1 : Ids(w)[j] # id
    <3>1. \A i \in 1 .. n : \A j \in 1 .. i - 1 : j \in 1 .. n
      BY <1>1
    <3>2. QED
      BY <1>1, <1>2, <3>1 DEF FirstNamed
  <2>2. FirstNamed(w, id) \subseteq 1 .. n
    BY <1>1 DEF FirstNamed
  <2>3. ASSUME NEW i \in FirstNamed(w, id) PROVE i = first
    <3>1. i \in 1 .. n /\ Ids(w)[i] = id /\ \A j \in 1 .. i - 1 : Ids(w)[j] # id
      BY <2>1, <2>2, <2>3
    <3>2. CASE i < first
      <4>1. i \in 1 .. first - 1
        BY <1>3, <3>1, <3>2
      <4>2. QED
        BY <3>1, <4>1
    <3>3. CASE first < i
      <4>1. first \in 1 .. i - 1
        BY <1>3, <3>1, <3>3
      <4>2. QED
        BY <3>1, <4>1
    <3>4. QED
      BY <1>3, <3>1, <3>2, <3>3
  <2>4. QED
    BY <1>3, <2>1, <2>3
<1>5. /\ v \in Some /\ Sound(v, mappings) /\ v.type = w.type
      /\ DOMAIN v.steps = 1 .. n /\ \A i \in 1 .. n : v.steps[i].id = w.steps[i].id
  <2>1. w \in DefinitionsOf(SomeParameters, SomeConditions)
    BY DEF Some
  <2>2. first \in DOMAIN w.steps /\ w.steps[e].id = on
    BY <1>1, <1>2, <1>3
  <2>3. /\ v \in DefinitionsOf(SomeParameters, SomeConditions) /\ Sound(v, mappings)
        /\ v.type = w.type /\ DOMAIN v.steps = DOMAIN w.steps
        /\ \A i \in DOMAIN w.steps : v.steps[i].id = w.steps[i].id
    <3> DEFINE P == SomeParameters
               C == SomeConditions
    <3>1. w \in DefinitionsOf(P, C)
      BY <2>1
    <3> HIDE DEF P, C
    <3>2. FirstNamed(w, id) = {first} /\ w.steps[e].id = on /\ first \in DOMAIN w.steps
      BY <1>4, <2>2
    <3>3. v \in DefinitionsOf(P, C) /\ Sound(v, mappings)
      BY <3>1, <3>2, DependencyIsSound
    <3>4. /\ v.type = w.type /\ DOMAIN v.steps = DOMAIN w.steps
          /\ \A i \in DOMAIN w.steps : v.steps[i].id = w.steps[i].id
      BY <3>1, <3>2, DependencyIsSound
    <3>5. QED
      BY <3>3, <3>4 DEF P, C
  <2>4. QED
    BY <1>1, <2>3 DEF Some
<1>6. QED
  BY <1>1, <1>5 DEF Ids

\* add_step_dependency, among the steps built so far.
Depends(v, w, n, mappings) ==
    /\ Grown(v, n, mappings) /\ v.type = w.type
    /\ \A i \in 1 .. n : Ids(v)[i] = Ids(w)[i]

LEMMA DependencyBuilt ==
    ASSUME NEW mappings, NEW n, NEW w, Grown(w, n, mappings), NEW id, Word(id), NEW on, Word(on),
           NEW first \in 1 .. n, NEW e \in 1 .. first - 1,
           Ids(w)[first] = id, Ids(w)[e] = on, \A j \in 1 .. first - 1 : Ids(w)[j] # id
    PROVE  Depends(AddStepDependency(w, id, on), w, n, mappings)
<1> DEFINE v == AddStepDependency(w, id, on)
<1>1. w \in Some /\ Sound(w, mappings) /\ n = Len(Ids(w)) /\ n \in Nat
  BY DEF Grown
<1>2. first \in DOMAIN Ids(w)
  BY <1>1, StepsAre
<1>3. v \in Some /\ Sound(v, mappings) /\ Ids(v) = Ids(w) /\ v.type = w.type
  BY <1>1, <1>2, DependencyAdded DEF Word
<1> HIDE DEF v
<1>4. Depends(v, w, n, mappings)
  BY <1>1, <1>3 DEF Depends, Grown
<1>5. QED
  BY <1>4 DEF v

\* NewWorkflow
LEMMA WorkflowBegun ==
    ASSUME NEW mappings, NEW id, Word(id), NEW name, Word(name), NEW type, Word(type)
    PROVE  Grown(NewWorkflow(id, name, type), 0, mappings) /\ NewWorkflow(id, name, type).type = type
<1> DEFINE w == NewWorkflow(id, name, type)
<1>1. w.id = id /\ w.name = name /\ w.type = type
  BY DEF NewWorkflow
<1>2. Titled(w)
  BY <1>1, Zenon DEF Titled, Filled, Word
<1>3. /\ w \in DefinitionsOf(SomeParameters, SomeConditions)
      /\ Sound(w, mappings) /\ w.steps = <<>>
  BY <1>2, NewIsSound DEF Word
<1> HIDE DEF w
<1>4. w \in Some
  BY <1>3 DEF Some
<1>5. Len(Ids(w)) = 0
  <2>1. Len(w.steps) = 0
    BY <1>3
  <2>2. QED
    BY <1>4, <2>1, StepsAre
<1>6. Grown(w, 0, mappings) /\ w.type = type
  BY <1>1, <1>3, <1>4, <1>5 DEF Grown, w
<1>7. QED
  BY <1>6 DEF w

LEMMA OurParameters ==
    /\ AnalysisParameters \in SomeParameters /\ ResearchParameters \in SomeParameters
    /\ ChatParameters \in SomeParameters /\ ListOf(<<>>) \in SomeParameters
    /\ ListOf(<<"p">>) \in SomeParameters
BY Zenon DEF SomeParameters

LEMMA ResearchIsSound ==
    ASSUME NEW mappings PROVE Grown(ResearchWorkflow, 3, mappings)
<1> DEFINE w == NewWorkflow("research_workflow", "Research Workflow", "sequential")
           a == AddStep(w, "research", "Researcher", "research", ResearchParameters)
           b == AddStep(a, "analyze", "Analyzer", "analyze", AnalysisParameters)
           c == AddStep(b, "summarize", "Assistant", "chat", ChatParameters)
           x == AddStepDependency(c, "analyze", "research")
           y == AddStepDependency(x, "summarize", "analyze")
<1>1. /\ Word("research_workflow") /\ Word("Research Workflow") /\ Word("sequential")
      /\ Word("research") /\ Word("Researcher") /\ Word("analyze") /\ Word("Analyzer")
      /\ Word("summarize") /\ Word("Assistant") /\ Word("chat")
  BY Zenon DEF Word, Filled, SomeTexts, Types
<1> HIDE DEF w, a, b, c, x, y
<1>2. Grown(w, 0, mappings)
  BY <1>1, WorkflowBegun, Zenon DEF w
<1>3. Grows(a, w, 0, "research", mappings)
  BY <1>1, <1>2, StepBuilt, OurParameters, Zenon DEF a
<1>4. /\ Grown(a, 1, mappings) /\ Ids(a)[1] = "research"
  BY <1>2, <1>3 DEF Grows
<1>5. Grows(b, a, 1, "analyze", mappings)
  BY <1>1, <1>4, StepBuilt, OurParameters, Zenon DEF b
<1>6. /\ Grown(b, 2, mappings) /\ Ids(b)[1] = "research" /\ Ids(b)[2] = "analyze"
  BY <1>4, <1>5 DEF Grows
<1>7. Grows(c, b, 2, "summarize", mappings)
  BY <1>1, <1>6, StepBuilt, OurParameters, Zenon DEF c
<1>8. /\ Grown(c, 3, mappings) /\ Ids(c)[1] = "research" /\ Ids(c)[2] = "analyze"
      /\ Ids(c)[3] = "summarize"
  BY <1>6, <1>7 DEF Grows
<1>9. Depends(x, c, 3, mappings)
  <2>1. 2 \in 1 .. 3 /\ 1 \in 1 .. 2 - 1 /\ \A j \in 1 .. 2 - 1 : Ids(c)[j] # "analyze"
    BY <1>8
  <2>2. QED
    BY <1>1, <1>8, <2>1, DependencyBuilt, Zenon DEF x
<1>10. /\ Grown(x, 3, mappings) /\ Ids(x)[1] = "research" /\ Ids(x)[2] = "analyze"
       /\ Ids(x)[3] = "summarize"
  BY <1>8, <1>9 DEF Depends
<1>11. Depends(y, x, 3, mappings)
  <2>1. 3 \in 1 .. 3 /\ 2 \in 1 .. 3 - 1 /\ \A j \in 1 .. 3 - 1 : Ids(x)[j] # "summarize"
    BY <1>10
  <2>2. QED
    BY <1>1, <1>10, <2>1, DependencyBuilt, Zenon DEF y
<1>12. ResearchWorkflow = y
  BY DEF ResearchWorkflow, w, a, b, c, x, y
<1>13. QED
  BY <1>11, <1>12 DEF Depends

LEMMA AnalysisIsSound ==
    ASSUME NEW mappings PROVE Grown(AnalysisWorkflow, 3, mappings)
<1> DEFINE w == NewWorkflow("analysis_workflow", "Analysis Workflow", "sequential")
           a == AddStep(w, "preprocess", "Analyzer", "analyze", AnalysisParameters)
           b == AddStep(a, "analyze", "Analyzer", "analyze", AnalysisParameters)
           c == AddStep(b, "report", "Assistant", "chat", ChatParameters)
           x == AddStepDependency(c, "analyze", "preprocess")
           y == AddStepDependency(x, "report", "analyze")
<1>1. /\ Word("analysis_workflow") /\ Word("Analysis Workflow") /\ Word("sequential")
      /\ Word("preprocess") /\ Word("Analyzer") /\ Word("analyze") /\ Word("report")
      /\ Word("Assistant") /\ Word("chat")
  BY Zenon DEF Word, Filled, SomeTexts, Types
<1> HIDE DEF w, a, b, c, x, y
<1>2. Grown(w, 0, mappings)
  BY <1>1, WorkflowBegun, Zenon DEF w
<1>3. Grows(a, w, 0, "preprocess", mappings)
  BY <1>1, <1>2, StepBuilt, OurParameters, Zenon DEF a
<1>4. /\ Grown(a, 1, mappings) /\ Ids(a)[1] = "preprocess"
  BY <1>2, <1>3 DEF Grows
<1>5. Grows(b, a, 1, "analyze", mappings)
  BY <1>1, <1>4, StepBuilt, OurParameters, Zenon DEF b
<1>6. /\ Grown(b, 2, mappings) /\ Ids(b)[1] = "preprocess" /\ Ids(b)[2] = "analyze"
  BY <1>4, <1>5 DEF Grows
<1>7. Grows(c, b, 2, "report", mappings)
  BY <1>1, <1>6, StepBuilt, OurParameters, Zenon DEF c
<1>8. /\ Grown(c, 3, mappings) /\ Ids(c)[1] = "preprocess" /\ Ids(c)[2] = "analyze"
      /\ Ids(c)[3] = "report"
  BY <1>6, <1>7 DEF Grows
<1>9. Depends(x, c, 3, mappings)
  <2>1. 2 \in 1 .. 3 /\ 1 \in 1 .. 2 - 1 /\ \A j \in 1 .. 2 - 1 : Ids(c)[j] # "analyze"
    BY <1>8
  <2>2. QED
    BY <1>1, <1>8, <2>1, DependencyBuilt, Zenon DEF x
<1>10. /\ Grown(x, 3, mappings) /\ Ids(x)[1] = "preprocess" /\ Ids(x)[2] = "analyze"
       /\ Ids(x)[3] = "report"
  BY <1>8, <1>9 DEF Depends
<1>11. Depends(y, x, 3, mappings)
  <2>1. 3 \in 1 .. 3 /\ 2 \in 1 .. 3 - 1 /\ \A j \in 1 .. 3 - 1 : Ids(x)[j] # "report"
    BY <1>10
  <2>2. QED
    BY <1>1, <1>10, <2>1, DependencyBuilt, Zenon DEF y
<1>12. AnalysisWorkflow = y
  BY DEF AnalysisWorkflow, w, a, b, c, x, y
<1>13. QED
  BY <1>11, <1>12 DEF Depends

LEMMA DataPipelineIsSound ==
    ASSUME NEW mappings PROVE Grown(DataPipelineWorkflow, 4, mappings)
<1> DEFINE w == NewWorkflow("data_pipeline_workflow", "Data Pipeline Workflow", "pipeline")
           a == AddStep(w, "extract", "Analyzer", "analyze", AnalysisParameters)
           b == AddStep(a, "transform", "Analyzer", "analyze", AnalysisParameters)
           c == AddStep(b, "validate", "Analyzer", "analyze", AnalysisParameters)
           d == AddStep(c, "load", "Assistant", "status", ListOf(<<>>))
<1>1. /\ Word("data_pipeline_workflow") /\ Word("Data Pipeline Workflow")
      /\ Word("pipeline") /\ Word("extract") /\ Word("Analyzer") /\ Word("analyze")
      /\ Word("transform") /\ Word("validate") /\ Word("load") /\ Word("Assistant")
      /\ Word("status")
  BY Zenon DEF Word, Filled, SomeTexts, Types
<1> HIDE DEF w, a, b, c, d
<1>2. Grown(w, 0, mappings)
  BY <1>1, WorkflowBegun, Zenon DEF w
<1>3. Grows(a, w, 0, "extract", mappings)
  BY <1>1, <1>2, StepBuilt, OurParameters, Zenon DEF a
<1>4. /\ Grown(a, 1, mappings) /\ Ids(a)[1] = "extract"
  BY <1>2, <1>3 DEF Grows
<1>5. Grows(b, a, 1, "transform", mappings)
  BY <1>1, <1>4, StepBuilt, OurParameters, Zenon DEF b
<1>6. /\ Grown(b, 2, mappings) /\ Ids(b)[1] = "extract" /\ Ids(b)[2] = "transform"
  BY <1>4, <1>5 DEF Grows
<1>7. Grows(c, b, 2, "validate", mappings)
  BY <1>1, <1>6, StepBuilt, OurParameters, Zenon DEF c
<1>8. /\ Grown(c, 3, mappings) /\ Ids(c)[1] = "extract" /\ Ids(c)[2] = "transform"
      /\ Ids(c)[3] = "validate"
  BY <1>6, <1>7 DEF Grows
<1>9. Grows(d, c, 3, "load", mappings)
  BY <1>1, <1>8, StepBuilt, OurParameters, Zenon DEF d
<1>10. /\ Grown(d, 4, mappings) /\ Ids(d)[1] = "extract" /\ Ids(d)[2] = "transform"
       /\ Ids(d)[3] = "validate" /\ Ids(d)[4] = "load"
  BY <1>8, <1>9 DEF Grows
<1>11. DataPipelineWorkflow = d
  BY DEF DataPipelineWorkflow, w, a, b, c, d
<1>12. QED
  BY <1>10, <1>11

LEMMA DecisionIsSound ==
    ASSUME NEW mappings PROVE Grown(DecisionWorkflow, 4, mappings)
<1> DEFINE w == NewWorkflow("decision_workflow", "Decision Making Workflow", "sequential")
           a == AddStep(w, "gather_info", "Researcher", "research", ResearchParameters)
           b == AddStep(a, "analyze_options", "Analyzer", "analyze", AnalysisParameters)
           c == AddStep(b, "decide", "Assistant", "chat", ChatParameters)
           d == AddStep(c, "execute", "Assistant", "status", ListOf(<<>>))
           x == AddStepDependency(d, "analyze_options", "gather_info")
           y == AddStepDependency(x, "decide", "analyze_options")
           z == AddStepDependency(y, "execute", "decide")
<1>1. /\ Word("decision_workflow") /\ Word("Decision Making Workflow")
      /\ Word("sequential") /\ Word("gather_info") /\ Word("Researcher")
      /\ Word("research") /\ Word("analyze_options") /\ Word("Analyzer") /\ Word("analyze")
      /\ Word("decide") /\ Word("Assistant") /\ Word("chat") /\ Word("execute")
      /\ Word("status")
  BY Zenon DEF Word, Filled, SomeTexts, Types
<1> HIDE DEF w, a, b, c, d, x, y, z
<1>2. Grown(w, 0, mappings)
  BY <1>1, WorkflowBegun, Zenon DEF w
<1>3. Grows(a, w, 0, "gather_info", mappings)
  BY <1>1, <1>2, StepBuilt, OurParameters, Zenon DEF a
<1>4. /\ Grown(a, 1, mappings) /\ Ids(a)[1] = "gather_info"
  BY <1>2, <1>3 DEF Grows
<1>5. Grows(b, a, 1, "analyze_options", mappings)
  BY <1>1, <1>4, StepBuilt, OurParameters, Zenon DEF b
<1>6. /\ Grown(b, 2, mappings) /\ Ids(b)[1] = "gather_info"
      /\ Ids(b)[2] = "analyze_options"
  BY <1>4, <1>5 DEF Grows
<1>7. Grows(c, b, 2, "decide", mappings)
  BY <1>1, <1>6, StepBuilt, OurParameters, Zenon DEF c
<1>8. /\ Grown(c, 3, mappings) /\ Ids(c)[1] = "gather_info"
      /\ Ids(c)[2] = "analyze_options" /\ Ids(c)[3] = "decide"
  BY <1>6, <1>7 DEF Grows
<1>9. Grows(d, c, 3, "execute", mappings)
  BY <1>1, <1>8, StepBuilt, OurParameters, Zenon DEF d
<1>10. /\ Grown(d, 4, mappings) /\ Ids(d)[1] = "gather_info"
       /\ Ids(d)[2] = "analyze_options" /\ Ids(d)[3] = "decide" /\ Ids(d)[4] = "execute"
  BY <1>8, <1>9 DEF Grows
<1>11. Depends(x, d, 4, mappings)
  <2>1. 2 \in 1 .. 4 /\ 1 \in 1 .. 2 - 1 /\ \A j \in 1 .. 2 - 1 : Ids(d)[j] # "analyze_options"
    BY <1>10
  <2>2. QED
    BY <1>1, <1>10, <2>1, DependencyBuilt, Zenon DEF x
<1>12. /\ Grown(x, 4, mappings) /\ Ids(x)[1] = "gather_info"
       /\ Ids(x)[2] = "analyze_options" /\ Ids(x)[3] = "decide" /\ Ids(x)[4] = "execute"
  BY <1>10, <1>11 DEF Depends
<1>13. Depends(y, x, 4, mappings)
  <2>1. 3 \in 1 .. 4 /\ 2 \in 1 .. 3 - 1 /\ \A j \in 1 .. 3 - 1 : Ids(x)[j] # "decide"
    BY <1>12
  <2>2. QED
    BY <1>1, <1>12, <2>1, DependencyBuilt, Zenon DEF y
<1>14. /\ Grown(y, 4, mappings) /\ Ids(y)[1] = "gather_info"
       /\ Ids(y)[2] = "analyze_options" /\ Ids(y)[3] = "decide" /\ Ids(y)[4] = "execute"
  BY <1>12, <1>13 DEF Depends
<1>15. Depends(z, y, 4, mappings)
  <2>1. 4 \in 1 .. 4 /\ 3 \in 1 .. 4 - 1 /\ \A j \in 1 .. 4 - 1 : Ids(y)[j] # "execute"
    BY <1>14
  <2>2. QED
    BY <1>1, <1>14, <2>1, DependencyBuilt, Zenon DEF z
<1>16. DecisionWorkflow = z
  BY DEF DecisionWorkflow, w, a, b, c, d, x, y, z
<1>17. QED
  BY <1>15, <1>16 DEF Depends

\* set_step_optional.
LEMMA OptionalIsSound ==
    ASSUME NEW mappings, NEW n, NEW w, Grown(w, n, mappings), NEW id
    PROVE  Grown(SetStepOptional(w, id), n, mappings)
<1> DEFINE v == SetStepOptional(w, id)
           step(i) == IF i \in FirstNamed(w, id) THEN [w.steps[i] EXCEPT !.optional = TRUE]
                      ELSE w.steps[i]
<1>1. /\ w \in Some /\ Sound(w, mappings) /\ n \in Nat /\ DOMAIN w.steps = 1 .. n
      /\ w.steps \in Seq(StepsOf(SomeParameters, SomeConditions))
  BY StepsAre DEF Grown
<1>2. \A i \in 1 .. n : w.steps[i] \in StepsOf(SomeParameters, SomeConditions)
  BY <1>1
<1>3. v = [w EXCEPT !.steps = [i \in 1 .. n |-> step(i)]]
  BY <1>1 DEF SetStepOptional, Some, DefinitionsOf
<1>4. \A i \in 1 .. n : /\ step(i) \in StepsOf(SomeParameters, SomeConditions)
                        /\ step(i).id = w.steps[i].id /\ step(i).agent = w.steps[i].agent
                        /\ step(i).function = w.steps[i].function /\ step(i).model = w.steps[i].model
                        /\ step(i).dependencies = w.steps[i].dependencies
  BY <1>2 DEF StepsOf
<1> HIDE DEF v, step
<1>5. /\ v.steps = [i \in 1 .. n |-> step(i)]
      /\ v.id = w.id /\ v.name = w.name /\ v.type = w.type
  BY <1>1, <1>3 DEF Some, DefinitionsOf
<1>6. v.steps \in Seq(StepsOf(SomeParameters, SomeConditions)) /\ Len(v.steps) = n
  <2>1. v.steps \in [1 .. n -> StepsOf(SomeParameters, SomeConditions)]
    BY <1>4, <1>5
  <2>2. QED
    BY <1>1, <2>1
<1>7. v \in Some
  BY <1>1, <1>3, <1>5, <1>6 DEF Some, DefinitionsOf
<1>8. DOMAIN v.steps = 1 .. n /\ \A i \in 1 .. n : v.steps[i] = step(i)
  BY <1>5
<1>9. SameWork(v, w, n)
  BY <1>1, <1>4, <1>5, <1>8 DEF SameWork
<1>10. Sound(v, mappings)
  BY <1>1, <1>9, KeptIsSound
<1>11. Grown(v, n, mappings)
  BY <1>1, <1>6, <1>7, <1>10, StepsAre DEF Grown
<1>12. QED
  BY <1>11 DEF v

LEMMA BuiltByHandIsSound ==
    ASSUME NEW mappings PROVE Grown(BuiltByHand, 2, mappings)
<1> DEFINE w == NewWorkflow("w", "W", "conditional")
           a == AddStep(w, "r", "A", "f", ListOf(<<>>))
           b == AddConditionalStep(a, "s", "A", "f", Simple("x", "equals", Number(1)))
<1>1. /\ Word("w") /\ Word("W") /\ Word("conditional") /\ Word("r") /\ Word("A") /\ Word("f")
      /\ Word("s")
  BY Zenon DEF Word, Filled, SomeTexts, Types
<1>2. Simple("x", "equals", Number(1)) \in SomeConditions
  BY Zenon DEF SomeConditions
<1> HIDE DEF w, a, b
<1>3. Grown(w, 0, mappings)
  BY <1>1, WorkflowBegun, Zenon DEF w
<1>4. Grows(a, w, 0, "r", mappings)
  BY <1>1, <1>3, StepBuilt, OurParameters, Zenon DEF a
<1>5. Grown(a, 1, mappings)
  BY <1>4 DEF Grows
<1>6. Grows(b, a, 1, "s", mappings)
  BY <1>1, <1>2, <1>5, ConditionalStepBuilt, Zenon DEF b
<1>7. Grown(b, 2, mappings)
  BY <1>6 DEF Grows
<1>8. BuiltByHand = SetStepOptional(b, "s")
  BY DEF BuiltByHand, a, b, w
<1>9. QED
  BY <1>7, <1>8, OptionalIsSound

\* Retries and a loop, set by hand.
LEMMA RetriesAreSound ==
    ASSUME NEW mappings, NEW w \in Some, Sound(w, mappings), w.steps # <<>>,
           NEW n \in Nat, NEW m \in Nat, NEW k \in Nat,
           NEW v, v = [w EXCEPT !.defaultRetries = n, !.steps[1].retries = m, !.iterations = k]
    PROVE  v \in Some /\ Sound(v, mappings)
<1> DEFINE N == Len(w.steps)
           more == [w.steps[1] EXCEPT !.retries = m]
           steps == [w.steps EXCEPT ![1] = more]
<1>1. /\ N \in Nat /\ N >= 1 /\ DOMAIN w.steps = 1 .. N
      /\ w.steps \in Seq(StepsOf(SomeParameters, SomeConditions))
  BY StepsAre
<1>2. w.steps[1] \in StepsOf(SomeParameters, SomeConditions)
  BY <1>1
<1>3. /\ more \in StepsOf(SomeParameters, SomeConditions)
      /\ more.id = w.steps[1].id /\ more.agent = w.steps[1].agent
      /\ more.function = w.steps[1].function /\ more.model = w.steps[1].model
      /\ more.dependencies = w.steps[1].dependencies
  BY <1>2 DEF StepsOf
<1>4. v = [w EXCEPT !.defaultRetries = n, !.steps = steps, !.iterations = k]
  BY DEF Some, DefinitionsOf
<1> HIDE DEF N, more
<1>5. /\ steps \in Seq(StepsOf(SomeParameters, SomeConditions)) /\ DOMAIN steps = 1 .. N
      /\ steps[1] = more /\ \A i \in 1 .. N : i # 1 => steps[i] = w.steps[i]
  <2>1. steps \in [1 .. N -> StepsOf(SomeParameters, SomeConditions)]
    BY <1>1, <1>3
  <2>2. steps[1] = more /\ \A i \in 1 .. N : i # 1 => steps[i] = w.steps[i]
    BY <1>1
  <2>3. QED
    BY <1>1, <2>1, <2>2
<1> HIDE DEF steps
<1>6. /\ v \in Some /\ v.steps = steps /\ v.id = w.id /\ v.name = w.name /\ v.type = w.type
  BY <1>4, <1>5 DEF Some, DefinitionsOf
<1>7. SameWork(v, w, N)
  BY <1>1, <1>3, <1>5, <1>6 DEF SameWork
<1>8. Sound(v, mappings)
  BY <1>1, <1>7, KeptIsSound, Zenon
<1>9. QED
  BY <1>6, <1>8

\* A definition as it comes in, with the model that a step has none of.
PostedAs(raw, model) ==
    [NewWorkflow(raw.id, raw.name, raw.type) EXCEPT
        !.partial = raw.partial,
        !.steps = [i \in DOMAIN raw.steps |->
            LET s == raw.steps[i]
            IN  [NewStep(s.id, s.agent, s.function, s.parameters, model) EXCEPT
                    !.conditions = s.condition, !.dependencies = s.dependencies, !.optional = s.optional]]]

LEMMA TakenInIsDefinition ==
    ASSUME NEW raw, NEW R, raw.steps \in Seq(R)
    PROVE  IsDefinition(ParseWorkflow(raw)) /\ IsDefinition(RegisterDefinition(raw))
<1>1. IsDefinition(ParseWorkflow(raw))
  <2> DEFINE w == ParseWorkflow(raw)
  <2>1. w.steps = [i \in DOMAIN raw.steps |-> ParseStep(raw.steps[i])] /\ w.defaultRetries = 0
    BY DEF ParseWorkflow, NewWorkflow
  <2>2. \A s : ParseStep(s).retries = 0
    BY DEF ParseStep, NewStep
  <2> HIDE DEF w
  <2>3. DOMAIN raw.steps = 1 .. Len(raw.steps) /\ Len(raw.steps) \in Nat
    OBVIOUS
  <2>4. w.steps \in Seq(Range(w.steps))
    BY <2>1, <2>3 DEF Range
  <2>5. IsDefinition(w)
    BY <2>1, <2>2, <2>4 DEF IsDefinition
  <2>6. QED
    BY <2>5 DEF w
<1>2. IsDefinition(RegisterDefinition(raw))
  <2> DEFINE w == PostedAs(raw, NoModel)
  <2>1. RegisterDefinition(raw) = w
    BY Zenon DEF RegisterDefinition, PostedAs, NoModel
  <2>2. DOMAIN w.steps = DOMAIN raw.steps /\ w.defaultRetries = 0
        /\ w.steps = [i \in DOMAIN w.steps |-> w.steps[i]]
    BY DEF PostedAs, NewWorkflow
  <2>3. \A i \in DOMAIN w.steps : w.steps[i].retries = 0
    BY DEF PostedAs, NewWorkflow, NewStep
  <2> HIDE DEF w
  <2>4. DOMAIN raw.steps = 1 .. Len(raw.steps) /\ Len(raw.steps) \in Nat
    OBVIOUS
  <2>5. w.steps \in Seq(Range(w.steps))
    BY <2>2, <2>4 DEF Range
  <2>6. IsDefinition(w)
    BY <2>2, <2>3, <2>5 DEF IsDefinition
  <2>7. QED
    BY <2>1, <2>6
<1>3. QED
  BY <1>1, <1>2

-----------------------------------------------------------------------------
(* What AgentSystem relies on                                               *)

\* The built-in workflows, and the one built by hand.
LEMMA BuiltAreSound ==
    ASSUME NEW mappings, NEW w \in BuiltinWorkflows \cup {BuiltByHand}
    PROVE  w \in Some /\ Sound(w, mappings) /\ w.steps # <<>>
<1>1. \E n \in {2, 3, 4} : Grown(w, n, mappings)
  BY ResearchIsSound, AnalysisIsSound, DataPipelineIsSound, DecisionIsSound, BuiltByHandIsSound
     DEF BuiltinWorkflows
<1>2. PICK n \in {2, 3, 4} : Grown(w, n, mappings)
  BY <1>1
<1>3. w \in Some /\ Sound(w, mappings) /\ Len(w.steps) = n
  BY <1>2, StepsAre DEF Grown
<1>4. w.steps # <<>>
  BY <1>2, <1>3
<1>5. QED
  BY <1>3, <1>4

Retried(w, n, m) == [w EXCEPT !.defaultRetries = n, !.steps[1].retries = m, !.iterations = 2]

LEMMA WithRetriesAre ==
    WithRetries = {Retried(w, n, m) : w \in BuiltinWorkflows \cup {BuiltByHand}, n \in 0 .. 1, m \in 0 .. 1}
BY DEF WithRetries, Retried

LEMMA WithRetriesAreSound ==
    ASSUME NEW mappings, NEW v \in WithRetries
    PROVE  v \in Some /\ Sound(v, mappings)
<1> DEFINE Built == BuiltinWorkflows \cup {BuiltByHand}
<1>1. WithRetries = {Retried(w, n, m) : w \in Built, n \in 0 .. 1, m \in 0 .. 1}
  BY WithRetriesAre
<1> HIDE DEF Built
<1>2. PICK w \in Built, n \in 0 .. 1, m \in 0 .. 1 : v = Retried(w, n, m)
  BY <1>1
<1>3. w \in Some /\ Sound(w, mappings) /\ w.steps # <<>>
  BY BuiltAreSound DEF Built
<1>4. n \in Nat /\ m \in Nat /\ 2 \in Nat
  OBVIOUS
<1>5. QED
  BY <1>2, <1>3, <1>4, RetriesAreSound, Zenon DEF Retried

\* The files of the run.
RawTypes == {"sequential", "unheard of"}
RawOf(type, s) == [id |-> "w", name |-> "W", type |-> type, partial |-> FALSE, steps |-> <<RawFirst, s>>]

LEMMA FewAreSequences ==
    ASSUME NEW S
    PROVE  /\ \A a, b \in S : <<a, b>> \in Seq(S)
           /\ \A a \in S : <<a>> \in Seq(S)
           /\ \A n \in Nat : \A q \in [1 .. n -> S] : q \in Seq(S)
<1>1. ASSUME NEW n \in Nat, NEW q \in [1 .. n -> S] PROVE q \in Seq(S)
  OBVIOUS
<1>2. ASSUME NEW a \in S, NEW b \in S PROVE <<a, b>> \in Seq(S) /\ <<a>> \in Seq(S)
  OBVIOUS
<1>3. QED
  BY <1>1, <1>2

LEMMA RawWorkflowsAre ==
    RawWorkflows = {RawOf(type, s) : type \in RawTypes, s \in RawSteps}
BY DEF RawWorkflows, RawOf, RawTypes

LEMMA RawAre ==
    ASSUME NEW raw \in RawWorkflows
    PROVE  raw.steps \in Seq(Range(raw.steps)) /\ <<raw>> \in Seq(RawWorkflows)
<1>1. PICK type \in RawTypes, s \in RawSteps : raw = RawOf(type, s)
  BY RawWorkflowsAre
<1>2. raw.steps = <<RawFirst, s>>
  BY <1>1 DEF RawOf
<1>3. RawFirst \in Range(raw.steps) /\ s \in Range(raw.steps)
  <2>1. DOMAIN raw.steps = 1 .. 2 /\ raw.steps[1] = RawFirst /\ raw.steps[2] = s
    BY <1>2
  <2>2. 1 \in DOMAIN raw.steps /\ 2 \in DOMAIN raw.steps
    BY <2>1
  <2>3. QED
    BY <2>1, <2>2, Zenon DEF Range
<1>4. raw.steps \in Seq(Range(raw.steps))
  BY <1>2, <1>3, FewAreSequences
<1>5. QED
  BY <1>4, FewAreSequences

\* What is loaded validates, and survives its file.
LEMMA LoadedAre ==
    ASSUME NEW w \in Loaded
    PROVE  IsDefinition(w) /\ ValidateWorkflowDefinition(w, Mappings)
<1>1. PICK raw \in RawWorkflows : w \in LoadWorkflowConfig({}, <<raw>>, Mappings)
  BY DEF Loaded
<1>2. <<raw>> \in Seq(RawWorkflows)
  BY RawAre
<1>3. ValidateWorkflowDefinition(w, Mappings)
  BY <1>1, <1>2, LoadedValidates
<1>4. w = ParseWorkflow(raw)
  <2>1. LastStays({}, <<raw>>, Mappings)
    BY <1>2, LastDefinitionStays
  <2>2. w \in {ParseWorkflow(<<raw>>[i]) : i \in LastAccepted(<<raw>>, Mappings)}
    BY <1>1, <2>1 DEF LastStays
  <2>3. LastAccepted(<<raw>>, Mappings) \subseteq {1}
    BY DEF LastAccepted
  <2>4. <<raw>>[1] = raw
    OBVIOUS
  <2>5. QED
    BY <2>2, <2>3, <2>4
<1>5. QED
  BY <1>3, <1>4, RawAre, TakenInIsDefinition

\* A definition that is loaded, posted or built, and is kept in a file, forgets no more
\* than conditions and the default retries; the built-in workflows never wait.
THEOREM ReloadsDoForget == ReloadsForget
<1>1. \A w \in Loaded \cup WithRetries : ValidateWorkflowDefinition(w, Mappings)
  BY LoadedAre, WithRetriesAreSound DEF Sound
<1>2. \A w \in Loaded \cup Posted \cup WithRetries : IsDefinition(w)
  <2>1. \A w \in Loaded : IsDefinition(w)
    BY LoadedAre
  <2>2. \A w \in Posted : IsDefinition(w)
    BY RawAre, TakenInIsDefinition DEF Posted
  <2>3. \A w \in WithRetries : IsDefinition(w)
    BY WithRetriesAreSound, DefinitionsAre DEF Some
  <2>4. QED
    BY <2>1, <2>2, <2>3
<1>3. \A w \in Loaded \cup Posted \cup WithRetries : Survives(w, Mappings, Contexts)
  BY <1>2, DefinitionsSurvive
<1>4. \A w \in BuiltinWorkflows : Ordered(w)
  BY BuiltAreSound DEF Sound
<1>5. QED
  BY <1>1, <1>3, <1>4 DEF ReloadsForget

\* Of the definitions of a file the last accepted ones count.
THEOREM LastDefinitionsDoStay == LastDefinitionsStay
<1>1. \A raws \in RawFiles : raws \in Seq(RawEntries)
  BY FewAreSequences DEF RawFiles
<1>2. QED
  BY <1>1, LastDefinitionStays, BuiltinsCountFirst DEF LastDefinitionsStay
=============================================================================
