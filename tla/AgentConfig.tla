----------------------------- MODULE AgentConfig -----------------------------
(***************************************************************************)
(* AgentConfigManager and ConfigValidator (src/core/agent_config.cpp): how  *)
(* a file becomes the configuration the program starts with.                *)
(*                                                                          *)
(* main loads once, before there is another thread, so that what is checked *)
(* are the functions.  A configuration keeps for each list (agents, models, *)
(* functions) where it comes from: "default", "file", "empty", or "partial" *)
(* when an entry failed after others had been taken.  Sizes are in MB.      *)
(***************************************************************************)
EXTENDS Integers, Sequences, FiniteSetsExt

AutoSize == -1        \* "auto"
Unreadable == 0   \* what parse_memory_string makes of what is no size
NoNumber == -2    \* a number of threads that is no number

Larger(a, b) == IF a > b THEN a ELSE b
Smaller(a, b) == IF a < b THEN a ELSE b

-----------------------------------------------------------------------------
(* set_default_config *)

DefaultPerformance ==
    [maxMemory |-> AutoSize, minMemory |-> 512, percent |-> 75, cache |-> AutoSize, minCache |-> 128,
     threads |-> AutoSize, minThreads |-> 2, maxThreads |-> 16, thresholds |-> TRUE]

DefaultConfig ==
    [enabled |-> TRUE, strict |-> FALSE, port |-> 8080, agents |-> "default", models |-> "default",
     functions |-> "default", performance |-> DefaultPerformance]

-----------------------------------------------------------------------------
(* ConfigValidator *)

InPortRange(port) == port \in 1024..65535
CommonPort(port) == port \in {80, 443, 8080, 3000, 5000, 8000}

\* No list may be empty; of the models, the files must be there.
ValidModels(models, filesThere) == models # "empty" /\ filesThere
ValidAgents(list) == list # "empty"
ValidFunctions(list) == list # "empty"

ValidResources(p) ==
    /\ p.maxMemory # AutoSize =>
          p.maxMemory # Unreadable /\ p.minMemory # Unreadable /\ p.maxMemory >= p.minMemory
    /\ p.threads # AutoSize => p.threads # NoNumber /\ p.threads \in p.minThreads..p.maxThreads
    /\ p.thresholds

\* A warning (of which a common port stands for all) fails a strict validation.
ValidateConfig(config, filesThere) ==
    \/ ~config.enabled
    \/ /\ InPortRange(config.port)
       /\ ValidModels(config.models, filesThere) /\ ValidAgents(config.agents)
       /\ ValidFunctions(config.functions) /\ ValidResources(config.performance)
       /\ config.strict => ~CommonPort(config.port)

-----------------------------------------------------------------------------
(* Settings that follow the machine: its memory, its cores, and what is     *)
(* under pressure.                                                          *)

Resources == [total : {256, 4096}, cores : {0, 8, 64}, memoryShort : BOOLEAN, cpuShort : BOOLEAN]

AutoThreads(p, r) == Larger(p.minThreads, Smaller(p.maxThreads, r.cores))

ApplyResourceBasedDefaults(p, r) ==
    [p EXCEPT !.maxMemory = IF @ = AutoSize THEN (r.total * p.percent) \div 100 ELSE @,
              !.cache = IF @ = AutoSize THEN Larger(128, Smaller(1024, r.total \div 8)) ELSE @,
              !.threads = IF @ = AutoSize THEN AutoThreads(p, r) ELSE @]

OptimalThreads(p, r) ==
    CASE p.threads = AutoSize -> AutoThreads(p, r)
      [] p.threads = NoNumber -> p.minThreads
      [] OTHER -> p.threads

\* Mutant of AdjustForResourcePressure: without the lower bound of the threads.
AdjustUnbounded(p, r) ==
    [p EXCEPT !.cache = IF r.memoryShort THEN Larger(p.minCache, (IF @ = AutoSize THEN 0 ELSE @) \div 2) ELSE @,
              !.threads = IF r.cpuShort THEN OptimalThreads(p, r) - 1 ELSE @]

\* "auto" is no size, hence 0 as a cache.
AdjustForResourcePressure(p, r) ==
    [p EXCEPT !.cache = IF r.memoryShort THEN Larger(p.minCache, (IF @ = AutoSize THEN 0 ELSE @) \div 2) ELSE @,
              !.threads = IF r.cpuShort THEN Larger(p.minThreads, OptimalThreads(p, r) - 1) ELSE @]

\* Nothing is "auto" any more once the defaults have been applied.
RestoreOptimalSettings(p, r) == ApplyResourceBasedDefaults(p, r)

-----------------------------------------------------------------------------
(* load_from_file.  A file says of each section whether it is "absent",     *)
(* "good", or "bad": ill-formed, so that its conversion throws.  What was   *)
(* read before stays; the lists are cleared whether the file has them or    *)
(* not, but not what comes after a bad section.                             *)

\* "others": what follows (the inference server, logging, security, error handling).
Sections == <<"validation", "system", "agents", "models", "functions", "performance", "others">>
Lists == {"agents", "models", "functions"}

Missing == [exists |-> FALSE]
File(state, sets) == [exists |-> TRUE, state |-> state, sets |-> sets]

BadSections(file) == {i \in DOMAIN Sections : file.state[Sections[i]] = "bad"}
Loads(file) == file.exists /\ BadSections(file) = {}
StopsAt(file) == IF BadSections(file) = {} THEN Len(Sections) + 1 ELSE Min(BadSections(file))

\* Where the list of a section comes from afterwards.
Source(file, i, old) ==
    CASE i > StopsAt(file) -> old
      [] i = StopsAt(file) -> "partial"
      [] OTHER -> IF file.state[Sections[i]] = "good" THEN "file" ELSE "empty"

\* Taken(i): the section's values replace those of the configuration.
LoadFromFile(config, file) ==
    LET Taken(i) == i < StopsAt(file) /\ file.state[Sections[i]] = "good"
    IN  IF ~file.exists THEN config
        ELSE [enabled |-> IF Taken(1) THEN file.sets.enabled ELSE config.enabled,
              strict |-> IF Taken(1) THEN file.sets.strict ELSE config.strict,
              port |-> IF Taken(2) THEN file.sets.port ELSE config.port,
              agents |-> Source(file, 3, config.agents),
              models |-> Source(file, 4, config.models),
              functions |-> Source(file, 5, config.functions),
              performance |-> IF Taken(6) THEN file.sets.performance ELSE config.performance]

-----------------------------------------------------------------------------
(* load_config *)

ValidateAndAdjust(config, filesThere, r) ==
    LET valid == ValidateConfig(config, filesThere)
    IN  [valid |-> valid,
         config |-> IF valid
                    THEN [config EXCEPT !.performance = ApplyResourceBasedDefaults(@, r)] ELSE config]

\* A path of one's own is the only one tried.
LoadGivenPath(config, file, filesThere, r) ==
    IF Loads(file) THEN ValidateAndAdjust(LoadFromFile(config, file), filesThere, r)
    ELSE [valid |-> FALSE, config |-> LoadFromFile(config, file)]

\* agent.yaml is looked for here, here again, and one directory up.  Each attempt works
\* on what a failed one has left; in the end that counts as the default.
LoadConfig(config, here, parent, filesThere, r) ==
    LET second == LoadFromFile(LoadFromFile(config, here), here)
        third == LoadFromFile(second, parent)
    IN  CASE Loads(here) -> ValidateAndAdjust(LoadFromFile(config, here), filesThere, r)
          [] ~Loads(here) /\ Loads(parent) -> ValidateAndAdjust(third, filesThere, r)
          [] OTHER -> ValidateAndAdjust(
                [third EXCEPT !.performance = ApplyResourceBasedDefaults(@, r)], filesThere, r)

-----------------------------------------------------------------------------
(* Files and values for checking *)

FilePerformances ==
    { DefaultPerformance,
      [DefaultPerformance EXCEPT !.threads = 2, !.cache = 129],
      [DefaultPerformance EXCEPT !.minThreads = 8, !.maxThreads = 4],
      [DefaultPerformance EXCEPT !.maxMemory = 256] }

FileSettings == [enabled : BOOLEAN, strict : BOOLEAN, port : {80, 8080, 9000}, performance : FilePerformances]

Files == {Missing} \cup
    { File([validation |-> "good", system |-> "good", agents |-> a, models |-> m, functions |-> f,
            performance |-> last[1], others |-> last[2]], s) :
        a \in {"absent", "good", "bad"}, m \in {"good", "bad"}, f \in {"absent", "good"},
        last \in {<<"good", "absent">>, <<"good", "bad">>, <<"bad", "absent">>}, s \in FileSettings }

FewFiles ==
    {f \in Files : f.exists => /\ f.sets.enabled /\ f.sets.port = 9000 /\ ~f.sets.strict
                              /\ f.sets.performance = DefaultPerformance /\ f.state["models"] = "good"}

\* The settings after any number of reactions to pressure, or to its end.
Reactions(p, r) ==
    LET once == AdjustForResourcePressure(p, r)
        twice == AdjustForResourcePressure(once, r)
    IN  {p, once, twice, RestoreOptimalSettings(twice, r)}

\* Of a machine r and what was loaded on it.  No list is empty, and where the machine
\* and the limits leave room, the settings are numbers within the limits, they would
\* pass the validation again, and they still would after any reactions to pressure,
\* which never take a cache below the minimum it kept before.  A minimum that is no size
\* escapes a validation while the maximum is "auto", and not the next one: no room.
Usable(loaded, r) ==
    LET p == loaded.config.performance
        room == /\ p.minMemory # Unreadable /\ (r.total * p.percent) \div 100 >= p.minMemory
                /\ p.minThreads <= p.maxThreads
    IN  loaded.valid /\ loaded.config.enabled =>
            /\ "empty" \notin {loaded.config.agents, loaded.config.models, loaded.config.functions}
            /\ AutoSize \notin {p.maxMemory, p.cache, p.threads}
            /\ room => \A q \in Reactions(p, r) :
                           /\ ValidResources(q)
                           /\ p.cache >= p.minCache => q.cache >= p.minCache

\* A configuration that passes its validation can be worked with, whatever mixture of
\* files and defaults it comes from.
ConfigurationsUsable ==
    \A here \in Files, parent \in FewFiles, filesThere \in {TRUE},
       r \in {r \in Resources : r.cores # 64 /\ r.memoryShort = r.cpuShort} :
        Usable(LoadConfig(DefaultConfig, here, parent, filesThere, r), r)
=============================================================================
