------------------------ MODULE MCWorkflowOrchestrator ------------------------
EXTENDS WorkflowOrchestrator, TLC

CONSTANTS a, b, c

\* b may fail, is retried once, and has a condition; it depends on a, and c on b.
MCDependencies == a :> {} @@ b :> {a} @@ c :> {b}
MCMaxRetries == a :> 0 @@ b :> 1 @@ c :> 0

Definition(type, steps, partial) == [type |-> type, steps |-> steps, partial |-> partial]

\* Every type of workflow; in the last two of these a dependency is not met, of an optional
\* step and of a mandatory one.
MCDefinitions ==
    { Definition("SEQUENTIAL", <<a, b>>, FALSE),
      Definition("PARALLEL", <<a, c>>, FALSE),
      Definition("PARALLEL", <<a>>, TRUE),
      Definition("CONDITIONAL", <<a, b>>, FALSE),
      Definition("LOOP", <<a, c>>, FALSE),
      Definition("PIPELINE", <<b>>, FALSE),
      Definition("SEQUENTIAL", <<b, a>>, FALSE),
      Definition("SEQUENTIAL", <<a, c>>, FALSE) }

\* For liveness: a workflow of several threads, one with a retry, and one that does not
\* look at the state inside an iteration.
MCFewDefinitions ==
    { Definition("PARALLEL", <<a, c>>, FALSE),
      Definition("SEQUENTIAL", <<b>>, TRUE),
      Definition("LOOP", <<a>>, FALSE) }

Symmetry == Permutations(Threads)
=============================================================================
