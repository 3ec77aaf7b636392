-------------------------- MODULE AgentPartsProofs ---------------------------
(***************************************************************************)
(* Theorems about the parts of an agent system that keep no state of their  *)
(* own: the configuration that main accepts, the retries of HttpClient, the *)
(* routes of HTTPServer and the functions of an Agent, each for any inputs. *)
(***************************************************************************)
EXTENDS AgentConfig, RemoteCalls, HttpApi, AgentFunctions, TLAPS, SequenceTheorems,
        WellFoundedInduction

-----------------------------------------------------------------------------
(* AgentConfigManager: the files, the machine and the settings              *)

\* The settings a file may make.
Performances ==
    [maxMemory : Nat \cup {AutoSize}, minMemory : Nat, percent : Nat,
     cache : Nat \cup {AutoSize}, minCache : Nat,
     threads : Nat \cup {AutoSize, NoNumber}, minThreads : Nat, maxThreads : Nat,
     thresholds : BOOLEAN]

\* A machine of any size, under any pressure.
Machines == [total : Nat, cores : Nat, memoryShort : BOOLEAN, cpuShort : BOOLEAN]

Settings == [enabled : BOOLEAN, strict : BOOLEAN, port : Int, performance : Performances]

\* A file says anything of its sections; what it sets is of the right type.
IsFile(file) == file.exists => file.sets \in Settings

Configurations ==
    [enabled : BOOLEAN, strict : BOOLEAN, port : Int,
     agents : {"default", "file", "empty", "partial"},
     models : {"default", "file", "empty", "partial"},
     functions : {"default", "file", "empty", "partial"}, performance : Performances]

\* Settings that are numbers within their limits.
Settled(p) ==
    /\ p \in Performances /\ AutoSize \notin {p.maxMemory, p.cache, p.threads}
    /\ ValidResources(p)

\* The number of threads that follows the cores is a number, and within limits
\* that are not reversed.
LEMMA AutoThreadsWithin ==
    ASSUME NEW p \in Performances, NEW r \in Machines
    PROVE  /\ AutoThreads(p, r) \in Nat
           /\ p.minThreads <= p.maxThreads => AutoThreads(p, r) \in p.minThreads .. p.maxThreads
<1>1. p.minThreads \in Nat /\ p.maxThreads \in Nat /\ r.cores \in Nat
  BY DEF Performances, Machines
<1>2. QED
  BY <1>1 DEF AutoThreads, Larger, Smaller

\* apply_resource_based_defaults leaves nothing "auto" and touches nothing else.
LEMMA DefaultsApplied ==
    ASSUME NEW p \in Performances, NEW r \in Machines, NEW q, q = ApplyResourceBasedDefaults(p, r)
    PROVE  /\ q \in Performances
           /\ AutoSize \notin {q.maxMemory, q.cache, q.threads}
           /\ \A f \in {"minMemory", "percent", "minCache", "minThreads", "maxThreads", "thresholds"} :
                 q[f] = p[f]
           /\ q.maxMemory = IF p.maxMemory = AutoSize THEN (r.total * p.percent) \div 100
                            ELSE p.maxMemory
           /\ q.threads = IF p.threads = AutoSize THEN AutoThreads(p, r) ELSE p.threads
           /\ p.cache # AutoSize => q.cache = p.cache
<1>1. r.total \in Nat /\ p.percent \in Nat
  BY DEF Performances, Machines
<1>2. r.total * p.percent \in Nat
  BY <1>1
<1>3. (r.total * p.percent) \div 100 \in Nat
  BY <1>2
<1>4. Larger(128, Smaller(1024, r.total \div 8)) \in Nat
  BY <1>1 DEF Larger, Smaller
<1>5. AutoThreads(p, r) \in Nat
  BY AutoThreadsWithin
<1> DEFINE memory == IF p.maxMemory = AutoSize THEN (r.total * p.percent) \div 100 ELSE p.maxMemory
           cache == IF p.cache = AutoSize THEN Larger(128, Smaller(1024, r.total \div 8)) ELSE p.cache
           threads == IF p.threads = AutoSize THEN AutoThreads(p, r) ELSE p.threads
<1>6. memory \in Nat /\ cache \in Nat /\ threads \in Nat \cup {NoNumber}
  BY <1>3, <1>4, <1>5 DEF Performances
<1>7. q = [p EXCEPT !.maxMemory = memory, !.cache = cache, !.threads = threads]
  BY DEF ApplyResourceBasedDefaults, Performances
<1>8. p.cache # AutoSize => cache = p.cache
  OBVIOUS
<1> HIDE DEF memory, cache, threads
<1>9. /\ q \in Performances
      /\ q.maxMemory = memory /\ q.cache = cache /\ q.threads = threads
      /\ \A f \in {"minMemory", "percent", "minCache", "minThreads", "maxThreads", "thresholds"} :
            q[f] = p[f]
  BY <1>6, <1>7 DEF Performances
<1>10. QED
  BY <1>6, <1>8, <1>9 DEF memory, threads, AutoSize, NoNumber

\* A reaction to pressure keeps settled settings settled, the limits as they are, and a
\* cache at or above its minimum.
LEMMA PressureKeepsSettled ==
    ASSUME NEW p, Settled(p), NEW r \in Machines, NEW q, q = AdjustForResourcePressure(p, r)
    PROVE  Settled(q) /\ q.minCache = p.minCache /\ (p.cache >= p.minCache => q.cache >= q.minCache)
<1>1. /\ p \in Performances /\ p.cache \in Nat /\ p.minCache \in Nat /\ p.threads \in Nat
      /\ p.minThreads \in Nat /\ p.maxThreads \in Nat
      /\ p.threads \in p.minThreads .. p.maxThreads
  BY DEF Settled, Performances, ValidResources, AutoSize, NoNumber
<1> DEFINE cache == IF r.memoryShort THEN Larger(p.minCache, p.cache \div 2) ELSE p.cache
           threads == IF r.cpuShort THEN Larger(p.minThreads, p.threads - 1) ELSE p.threads
<1>2. OptimalThreads(p, r) = p.threads
  BY <1>1 DEF OptimalThreads, AutoSize, NoNumber
<1>3. q = [p EXCEPT !.cache = cache, !.threads = threads]
  <2>1. (IF p.cache = AutoSize THEN 0 ELSE p.cache) = p.cache
    BY <1>1 DEF AutoSize
  <2>2. q = [p EXCEPT !.cache = IF r.memoryShort
                                THEN Larger(p.minCache, (IF p.cache = AutoSize THEN 0 ELSE p.cache) \div 2)
                                ELSE p.cache,
                      !.threads = IF r.cpuShort THEN Larger(p.minThreads, OptimalThreads(p, r) - 1)
                                  ELSE p.threads]
    BY <1>1 DEF AdjustForResourcePressure, Performances
  <2>3. QED
    BY <1>2, <2>1, <2>2
<1>4. cache \in Nat /\ (p.cache >= p.minCache => cache >= p.minCache)
  BY <1>1 DEF Larger
<1>5. threads \in Nat /\ threads \in p.minThreads .. p.maxThreads
  BY <1>1 DEF Larger
<1> HIDE DEF cache, threads
<1>6. /\ q \in Performances /\ q.cache = cache /\ q.threads = threads
      /\ \A f \in {"maxMemory", "minMemory", "minCache", "minThreads", "maxThreads", "thresholds"} :
            q[f] = p[f]
  BY <1>1, <1>3, <1>4, <1>5 DEF Performances
<1>7. QED
  BY <1>4, <1>5, <1>6 DEF Settled, ValidResources, AutoSize, NoNumber

\* Settled settings stay so under any reactions to pressure, or to its end.
LEMMA ReactionsKeepSettled ==
    ASSUME NEW p, Settled(p), NEW r \in Machines, NEW q \in Reactions(p, r)
    PROVE  ValidResources(q) /\ (p.cache >= p.minCache => q.cache >= p.minCache)
<1> DEFINE once == AdjustForResourcePressure(p, r)
           twice == AdjustForResourcePressure(once, r)
           restored == RestoreOptimalSettings(twice, r)
<1>1. /\ Settled(once) /\ once.minCache = p.minCache
      /\ p.cache >= p.minCache => once.cache >= p.minCache
  BY PressureKeepsSettled
<1> HIDE DEF once
<1>2. /\ Settled(twice) /\ twice.minCache = p.minCache
      /\ p.cache >= p.minCache => twice.cache >= p.minCache
  BY <1>1, PressureKeepsSettled
<1> HIDE DEF twice
<1>3. restored = twice
  BY <1>2 DEF RestoreOptimalSettings, ApplyResourceBasedDefaults, Settled, Performances
<1>4. q \in {p, once, twice, restored}
  BY DEF Reactions, once, twice
<1>5. QED
  BY <1>1, <1>2, <1>3, <1>4 DEF Settled

\* load_from_file keeps the type of the settings, wherever it breaks off.
LEMMA LoadingIsTyped ==
    ASSUME NEW config \in Configurations, NEW file, IsFile(file)
    PROVE  LoadFromFile(config, file) \in Configurations
<1>1. CASE ~file.exists
  BY <1>1 DEF LoadFromFile
<1>2. CASE file.exists
  BY <1>2 DEF LoadFromFile, Source, Configurations, Settings, IsFile
<1>3. QED
  BY <1>1, <1>2

\* What validate_and_adjust accepts can be worked with.
LEMMA AcceptedIsUsable ==
    ASSUME NEW config \in Configurations, NEW filesThere, NEW r \in Machines
    PROVE  Usable(ValidateAndAdjust(config, filesThere, r), r)
<1> DEFINE loaded == ValidateAndAdjust(config, filesThere, r)
           old == config.performance
           p == loaded.config.performance
<1> SUFFICES ASSUME ValidateConfig(config, filesThere), loaded.config.enabled
             PROVE  Usable(loaded, r)
  BY DEF Usable, ValidateAndAdjust
<1>1. /\ p = ApplyResourceBasedDefaults(old, r)
      /\ loaded.config.enabled = config.enabled /\ loaded.config.agents = config.agents
      /\ loaded.config.models = config.models /\ loaded.config.functions = config.functions
  BY DEF ValidateAndAdjust, Configurations
<1> HIDE DEF loaded
<1>2. /\ ValidResources(old) /\ config.models # "empty"
      /\ config.agents # "empty" /\ config.functions # "empty"
  BY <1>1 DEF ValidateConfig, ValidModels, ValidAgents, ValidFunctions
<1>3. old \in Performances
  BY DEF Configurations
<1>4. AutoSize \notin {p.maxMemory, p.cache, p.threads}
  BY <1>1, <1>3, DefaultsApplied
<1>5. ASSUME p.minMemory # Unreadable, (r.total * p.percent) \div 100 >= p.minMemory,
             p.minThreads <= p.maxThreads
      PROVE  Settled(p)
  BY <1>1, <1>2, <1>3, <1>5, DefaultsApplied, AutoThreadsWithin
     DEF ValidResources, Settled, Performances, AutoSize, NoNumber, Unreadable
<1>6. QED
  BY <1>1, <1>2, <1>4, <1>5, ReactionsKeepSettled DEF Usable

\* Whatever files there are, wherever they break off, and whatever the machine: a
\* configuration that load_config accepts, here and now or one directory up, can be
\* worked with.
THEOREM LoadedIsUsable ==
    ASSUME NEW config \in Configurations, NEW here, IsFile(here), NEW parent, IsFile(parent),
           NEW filesThere, NEW r \in Machines
    PROVE  Usable(LoadConfig(config, here, parent, filesThere, r), r)
<1> DEFINE first == LoadFromFile(config, here)
           second == LoadFromFile(first, here)
           third == LoadFromFile(second, parent)
           adjusted == [third EXCEPT !.performance = ApplyResourceBasedDefaults(@, r)]
<1>1. first \in Configurations /\ second \in Configurations /\ third \in Configurations
  BY LoadingIsTyped
<1>2. LoadConfig(config, here, parent, filesThere, r) \in
         {ValidateAndAdjust(c, filesThere, r) : c \in {first, third, adjusted}}
  BY DEF LoadConfig
<1> HIDE DEF first, third
<1>3. adjusted \in Configurations
  <2>1. ApplyResourceBasedDefaults(third.performance, r) \in Performances
    BY <1>1, DefaultsApplied DEF Configurations
  <2>2. QED
    BY <1>1, <2>1 DEF Configurations
<1> HIDE DEF adjusted
<1>4. QED
  BY <1>1, <1>2, <1>3, AcceptedIsUsable

\* The same of a file whose path is given.
THEOREM GivenIsUsable ==
    ASSUME NEW config \in Configurations, NEW file, IsFile(file), NEW filesThere, NEW r \in Machines
    PROVE  Usable(LoadGivenPath(config, file, filesThere, r), r)
<1>1. CASE Loads(file)
  BY <1>1, LoadingIsTyped, AcceptedIsUsable DEF LoadGivenPath
<1>2. CASE ~Loads(file)
  BY <1>2 DEF LoadGivenPath, Usable
<1>3. QED
  BY <1>1, <1>2

\* What AgentSystem relies on, for the files and machines of its run.
THEOREM ConfigurationsAreUsable == ConfigurationsUsable
<1>1. DefaultPerformance \in Performances
  BY DEF DefaultPerformance, Performances
<1>2. DefaultConfig \in Configurations
  BY <1>1 DEF DefaultConfig, Configurations
<1>3. \A f \in Files : IsFile(f)
  <2>1. FilePerformances \subseteq Performances
    <3> DEFINE fewThreads == [DefaultPerformance EXCEPT !.threads = 2, !.cache = 129]
               reversed == [DefaultPerformance EXCEPT !.minThreads = 8, !.maxThreads = 4]
               littleMemory == [DefaultPerformance EXCEPT !.maxMemory = 256]
    <3>1. fewThreads \in Performances
      BY <1>1 DEF Performances
    <3>2. reversed \in Performances
      BY <1>1 DEF Performances
    <3>3. littleMemory \in Performances
      BY <1>1 DEF Performances
    <3>4. FilePerformances = {DefaultPerformance, fewThreads, reversed, littleMemory}
      BY DEF FilePerformances
    <3> HIDE DEF fewThreads, reversed, littleMemory
    <3>5. QED
      BY <1>1, <3>1, <3>2, <3>3, <3>4
  <2>2. FileSettings \subseteq Settings
    BY <2>1 DEF FileSettings, Settings
  <2>3. \A f \in Files : f = Missing \/ \E state, s : s \in FileSettings /\ f = File(state, s)
    BY DEF Files
  <2>4. QED
    BY <2>2, <2>3 DEF File, Missing, IsFile
<1>4. FewFiles \subseteq Files
  BY DEF FewFiles
<1>5. Resources \subseteq Machines
  BY DEF Resources, Machines
<1>6. QED
  BY <1>2, <1>3, <1>4, <1>5, LoadedIsUsable DEF ConfigurationsUsable

-----------------------------------------------------------------------------
(* HttpClient: the retries and their pauses                                 *)

\* Replies of any status.
AnyReply == [status : Int, retry : BOOLEAN, thrown : BOOLEAN]

\* A set of natural numbers that has a member has a least one.
LEMMA Least ==
    ASSUME NEW S, S \subseteq Nat, S # {}
    PROVE  \E n \in S : \A m \in S : n <= m
<1>1. \E n \in S : \A m \in S : <<m, n>> \notin OpToRel(<, Nat)
  BY NatLessThanWellFounded, WFMin
<1>2. PICK n \in S : \A m \in S : <<m, n>> \notin OpToRel(<, Nat)
  BY <1>1
<1>3. \A m \in S : ~(m < n)
  BY <1>2 DEF OpToRel
<1>4. QED
  BY <1>3

\* The loop ends at the first reply that ends it, and the last that the limit allows does.
LEMMA RequestsIsFirst ==
    ASSUME NEW max \in Nat, NEW replies
    PROVE  LET n == Requests(replies, max)
           IN  /\ n \in 1 .. (max + 1)
               /\ Ends(replies[n], n - 1, max)
               /\ \A m \in 1 .. (n - 1) : ~Ends(replies[m], m - 1, max)
<1> DEFINE S == {n \in 1 .. (max + 1) : Ends(replies[n], n - 1, max)}
<1>1. max + 1 \in S
  <2>1. Ends(replies[max + 1], (max + 1) - 1, max)
    BY DEF Ends
  <2>2. max + 1 \in 1 .. (max + 1)
    OBVIOUS
  <2>3. QED
    BY <2>1, <2>2, Zenon
<1>2. S \subseteq Nat
  OBVIOUS
<1> HIDE DEF S
<1>3. PICK n \in S : \A m \in S : n <= m
  BY <1>1, <1>2, Least
<1>4. n \in 1 .. (max + 1) /\ Ends(replies[n], n - 1, max)
  BY DEF S
<1>5. \A m \in 1 .. (n - 1) : ~Ends(replies[m], m - 1, max)
  BY <1>3, <1>4 DEF S
<1>6. \E k \in 1 .. (max + 1) : /\ Ends(replies[k], k - 1, max)
                                /\ \A m \in 1 .. (k - 1) : ~Ends(replies[m], m - 1, max)
  BY <1>4, <1>5
<1>7. QED
  BY <1>6 DEF Requests

\* Whatever an inference server answers and whatever the limit is: request_with_retry ends
\* within it, repeats only what is worth it, and returns a success it has seen.
THEOREM RetriesEnd ==
    \A max \in Nat : \A replies \in [1 .. (max + 1) -> AnyReply] : EndsWithin(replies, max)
<1> SUFFICES ASSUME NEW max \in Nat, NEW replies \in [1 .. (max + 1) -> AnyReply]
             PROVE  EndsWithin(replies, max)
  OBVIOUS
<1> DEFINE n == Requests(replies, max)
<1>1. /\ n \in 1 .. (max + 1)
      /\ Ends(replies[n], n - 1, max)
      /\ \A m \in 1 .. (n - 1) : ~Ends(replies[m], m - 1, max)
  BY RequestsIsFirst
<1> HIDE DEF n
<1>2. \A m \in 1 .. (n - 1) : ~IsSuccess(replies[m]) /\ (replies[m].retry \/ replies[m].thrown)
  BY <1>1 DEF Ends
<1>3. n <= max => IsSuccess(replies[n]) \/ (~replies[n].retry /\ ~replies[n].thrown)
  BY <1>1 DEF Ends
<1>4. (\E m \in 1 .. n : IsSuccess(replies[m])) => IsSuccess(replies[n])
  BY <1>1, <1>2
<1>5. QED
  BY <1>1, <1>2, <1>3, <1>4 DEF EndsWithin, RequestWithRetry, n

\* Whatever attempt it follows and whatever rand() gives, a pause is no shorter than the
\* configured delay and at most 36 times it; a delay of 4 ms is the least that rand() can
\* spread.  Nothing the code computes on the way exceeds the longest pause.
THEOREM PausesAreBounded ==
    \A base, attempts, rand \in Nat : PausesWithin(base, attempts, rand)
<1> SUFFICES ASSUME NEW base \in Nat, NEW attempts \in Nat, NEW rand \in Nat, base >= 4
             PROVE  Delay(base, attempts, rand) \in base .. (36 * base)
  BY DEF PausesWithin
<1> DEFINE b == Backoff(base, attempts)
           r == rand % (b \div 4)
<1>1. b \in Nat /\ base <= b /\ b <= 32 * base
  <2>1. (IF attempts < 5 THEN attempts + 1 ELSE 6) \in 1 .. 6
    OBVIOUS
  <2>2. \A i \in 1 .. 6 : Powers[i] \in 1 .. 32
    BY DEF Powers
  <2>3. PICK p \in 1 .. 32 : b = base * p
    BY <2>1, <2>2 DEF Backoff
  <2>4. base * p \in Nat /\ base <= base * p /\ base * p <= 32 * base
    OBVIOUS
  <2>5. QED
    BY <2>3, <2>4
<1>2. Delay(base, attempts, rand) =
         IF b \div 4 = 0 THEN Undefined
         ELSE IF b + (r - (b \div 8)) > base THEN b + (r - (b \div 8)) ELSE base
  BY DEF Delay
<1> HIDE DEF b
<1>3. b \div 4 \in Nat /\ b \div 4 > 0 /\ 4 * (b \div 4) <= b
  BY <1>1
<1>4. b \div 8 \in Nat /\ b < 8 * (b \div 8) + 8
  BY <1>1
<1>5. r \in Nat /\ r < b \div 4
  BY <1>3
<1> HIDE DEF r
<1>6. b + (r - (b \div 8)) <= 36 * base
  BY <1>1, <1>3, <1>4, <1>5
<1>7. QED
  BY <1>1, <1>2, <1>3, <1>4, <1>5, <1>6

\* What AgentSystem relies on, for the replies and delays of its run.
THEOREM RequestsDoEnd == RequestsEnd
<1>1. Replies \subseteq AnyReply
  BY DEF Replies, AnyReply, Answered, TransportFailed, Thrown, IsRetryable
<1>2. \A max \in 0 .. 3 : \A replies \in [1 .. (max + 1) -> Replies] : EndsWithin(replies, max)
  BY <1>1, RetriesEnd
<1>3. QED
  BY <1>2, PausesAreBounded DEF RequestsEnd

-----------------------------------------------------------------------------
(* HTTPServer: what each row of the chain matches                           *)

\* What is left of a path.
LEMMA OneLeft ==
    ASSUME NEW q, NEW m \in Nat
    PROVE  SubSeq(q, m, m) = <<q[m]>>
<1> DEFINE s == SubSeq(q, m, m)
           S == {q[m]}
<1>1. m \in Int /\ \A i \in m .. m : q[i] \in S
  OBVIOUS
<1> HIDE DEF S
<1>2. /\ s \in Seq(S) /\ Len(s) = IF m <= m THEN m - m + 1 ELSE 0
      /\ \A i \in 1 .. m - m + 1 : s[i] = q[m + i - 1]
  BY <1>1, SubSeqProperties
<1> HIDE DEF s
<1>3. Len(s) = 1 /\ s[1] = q[m]
  <2>1. 1 \in 1 .. m - m + 1 /\ m + 1 - 1 = m
    OBVIOUS
  <2>2. QED
    BY <1>2, <2>1
<1>4. s = <<q[m]>>
  BY <1>2, <1>3
<1>5. QED
  BY <1>4 DEF s

LEMMA TwoLeft ==
    ASSUME NEW q, NEW m \in Nat, NEW n, n = m + 1
    PROVE  SubSeq(q, m, n) = <<q[m], q[n]>>
<1> DEFINE s == SubSeq(q, m, n)
           S == {q[m], q[n]}
<1>1. m \in Int /\ n \in Int /\ \A i \in m .. n : q[i] \in S
  <2>1. \A i \in m .. n : i = m \/ i = n
    OBVIOUS
  <2>2. QED
    BY <2>1
<1> HIDE DEF S
<1>2. /\ s \in Seq(S) /\ Len(s) = IF m <= n THEN n - m + 1 ELSE 0
      /\ \A i \in 1 .. n - m + 1 : s[i] = q[m + i - 1]
  BY <1>1, SubSeqProperties
<1> HIDE DEF s
<1>3. Len(s) = 2 /\ s[1] = q[m] /\ s[2] = q[n]
  <2>1. 1 \in 1 .. n - m + 1 /\ 2 \in 1 .. n - m + 1 /\ m + 1 - 1 = m /\ m + 2 - 1 = n
    OBVIOUS
  <2>2. n - m + 1 = 2 /\ m <= n
    OBVIOUS
  <2>3. QED
    BY <1>2, <2>1, <2>2
<1>4. s = <<q[m], q[n]>>
  BY <1>2, <1>3
<1>5. QED
  BY <1>4 DEF s

LEMMA UnderOne ==
    ASSUME NEW q, NEW b
    PROVE  Under(q, <<b>>) <=> Len(q) > 1 /\ q[1] = b
<1>1. SubSeq(q, 1, 1) = <<q[1]>>
  BY OneLeft
<1>2. QED
  BY <1>1 DEF Under

LEMMA UnderTwo ==
    ASSUME NEW q, NEW b, NEW c
    PROVE  Under(q, <<b, c>>) <=> Len(q) > 2 /\ q[1] = b /\ q[2] = c
<1>1. SubSeq(q, 1, 2) = <<q[1], q[2]>>
  BY TwoLeft, 2 = 1 + 1
<1>2. QED
  BY <1>1 DEF Under

LEMMA ExactlyMatches ==
    ASSUME NEW r, NEW is, NEW to, NEW m, NEW q
    PROVE  Matches(Exactly(r, is, to), m, q) <=> m = r /\ q = is
BY DEF Matches, Exactly

LEMMA BelowMatches ==
    ASSUME NEW r, NEW base, base # <<>>, NEW has, NEW lacks, NEW to, NEW m, NEW q
    PROVE  Matches(Below(r, base, has, lacks, to), m, q) <=>
              /\ m = r /\ Under(q, base)
              /\ (has # Empty => Has(q, has)) /\ (lacks # Empty => ~Has(q, lacks))
BY DEF Matches, Below

LEMMA AllBelowOne ==
    ASSUME NEW r, NEW b, NEW to, NEW m, NEW q
    PROVE  Matches(Below(r, <<b>>, Empty, Empty, to), m, q) <=> m = r /\ Len(q) > 1 /\ q[1] = b
BY BelowMatches, UnderOne

LEMMA AllBelowTwo ==
    ASSUME NEW r, NEW b, NEW c, NEW to, NEW row, row = Below(r, <<b, c>>, Empty, Empty, to), NEW m, NEW q
    PROVE  Matches(row, m, q) <=> m = r /\ Len(q) > 2 /\ q[1] = b /\ q[2] = c
BY BelowMatches, UnderTwo

LEMMA SomeBelow ==
    ASSUME NEW r, NEW b, NEW has, has # Empty, NEW to, NEW m, NEW q
    PROVE  /\ Matches(Below(r, <<b>>, has, Empty, to), m, q) <=>
                 m = r /\ Len(q) > 1 /\ q[1] = b /\ Has(q, has)
           /\ Matches(Below(r, <<b>>, Empty, has, to), m, q) <=>
                 m = r /\ Len(q) > 1 /\ q[1] = b /\ ~Has(q, has)
BY BelowMatches, UnderOne

LEMMA NotEmpty ==
    /\ "start" # Empty /\ "stop" # Empty /\ "execute" # Empty /\ "progress" # Empty /\ "logs" # Empty
BY Zenon DEF Empty

LEMMA RoutesAre ==
    /\ Len(Routes) = 23
    /\ Routes[1] = Exactly("GET", <<"agents">>, "list_agents")
    /\ Routes[2] = Exactly("POST", <<"agents">>, "create_agent")
    /\ Routes[3] = Below("GET", <<"agents">>, Empty, Empty, "get_agent")
    /\ Routes[4] = Below("PUT", <<"agents">>, "start", Empty, "start_agent")
    /\ Routes[5] = Below("PUT", <<"agents">>, "stop", Empty, "stop_agent")
    /\ Routes[6] = Below("POST", <<"agents">>, "execute", Empty, "execute_function")
    /\ Routes[7] = Exactly("POST", <<"agent", "execute">>, "simple_agent_execute")
    /\ Routes[8] = Below("DELETE", <<"agents">>, Empty, Empty, "delete_agent")
    /\ Routes[9] = Exactly("GET", <<"status">>, "system_status")
    /\ Routes[10] = Exactly("POST", <<"kolosal-server", "start">>, "nothing")
    /\ Routes[11] = Exactly("GET", <<"workflows">>, "list_workflows")
    /\ Routes[12] = Exactly("POST", <<"workflows">>, "register_workflow")
    /\ Routes[13] = Below("POST", <<"workflows">>, "execute", Empty, "execute_workflow")
    /\ Routes[14] = Below("GET", <<"workflows", "executions">>, Empty, Empty, "get_workflow_execution")
    /\ Routes[15] = Below("PUT", <<"workflows", "executions">>, Empty, Empty, "control_workflow_execution")
    /\ Routes[16] = Exactly("GET", <<"workflows", "executions">>, "list_workflow_executions")
    /\ Routes[17] = Below("GET", <<"workflows">>, Empty, "execute", "get_workflow")
    /\ Routes[18] = Below("PUT", <<"workflows">>, Empty, Empty, "update_workflow")
    /\ Routes[19] = Below("DELETE", <<"workflows">>, Empty, Empty, "delete_workflow")
    /\ Routes[20] = Exactly("GET", <<"workflow_templates">>, "get_workflow_templates")
    /\ Routes[21] = Below("POST", <<"workflow_templates">>, "execute", Empty, "execute_workflow_template")
    /\ Routes[22] = Below("GET", <<"workflow_executions">>, "progress", Empty, "workflow_execution_progress")
    /\ Routes[23] = Below("GET", <<"workflow_executions">>, "logs", Empty, "workflow_execution_logs")
BY DEF Routes, AgentRoutes, WorkflowRoutes

\* When each row matches.
LEMMA MethodsAre ==
    \A k \in 1 .. 23 : Routes[k].method =
        IF k \in {4, 5, 15, 18} THEN "PUT" ELSE IF k \in {2, 6, 7, 10, 12, 13, 21} THEN "POST"
        ELSE IF k \in {8, 19} THEN "DELETE" ELSE "GET"
BY RoutesAre DEF Exactly, Below

LEMMA GetRows ==
    ASSUME NEW q
    PROVE  /\ Matches(Routes[1], "GET", q) <=> q = <<"agents">>
           /\ Matches(Routes[3], "GET", q) <=> Len(q) > 1 /\ q[1] = "agents"
           /\ Matches(Routes[9], "GET", q) <=> q = <<"status">>
           /\ Matches(Routes[11], "GET", q) <=> q = <<"workflows">>
           /\ Matches(Routes[14], "GET", q) <=> Len(q) > 2 /\ q[1] = "workflows" /\ q[2] = "executions"
           /\ Matches(Routes[16], "GET", q) <=> q = <<"workflows", "executions">>
           /\ Matches(Routes[17], "GET", q) <=> Len(q) > 1 /\ q[1] = "workflows" /\ ~Has(q, "execute")
           /\ Matches(Routes[20], "GET", q) <=> q = <<"workflow_templates">>
           /\ Matches(Routes[22], "GET", q) <=> Len(q) > 1 /\ q[1] = "workflow_executions" /\ Has(q, "progress")
           /\ Matches(Routes[23], "GET", q) <=> Len(q) > 1 /\ q[1] = "workflow_executions" /\ Has(q, "logs")
           /\ \A k \in 1 .. 23 : k \notin {1, 3, 9, 11, 14, 16, 17, 20, 22, 23} => ~Matches(Routes[k], "GET", q)
<1>1. Matches(Routes[1], "GET", q) <=> q = <<"agents">>
  BY RoutesAre, ExactlyMatches
<1>2. Matches(Routes[3], "GET", q) <=> Len(q) > 1 /\ q[1] = "agents"
  BY RoutesAre, AllBelowOne
<1>3. Matches(Routes[9], "GET", q) <=> q = <<"status">>
  BY RoutesAre, ExactlyMatches
<1>4. Matches(Routes[11], "GET", q) <=> q = <<"workflows">>
  BY RoutesAre, ExactlyMatches
<1>5. Matches(Routes[14], "GET", q) <=> Len(q) > 2 /\ q[1] = "workflows" /\ q[2] = "executions"
  <2>1. Routes[14] = Below("GET", <<"workflows", "executions">>, Empty, Empty, "get_workflow_execution")
    BY RoutesAre
  <2>2. QED
    BY <2>1, AllBelowTwo
<1>6. Matches(Routes[16], "GET", q) <=> q = <<"workflows", "executions">>
  BY RoutesAre, ExactlyMatches
<1>7. Matches(Routes[17], "GET", q) <=> Len(q) > 1 /\ q[1] = "workflows" /\ ~Has(q, "execute")
  BY RoutesAre, SomeBelow, NotEmpty
<1>8. Matches(Routes[20], "GET", q) <=> q = <<"workflow_templates">>
  BY RoutesAre, ExactlyMatches
<1>9. Matches(Routes[22], "GET", q) <=>
         Len(q) > 1 /\ q[1] = "workflow_executions" /\ Has(q, "progress")
  BY RoutesAre, SomeBelow, NotEmpty
<1>10. Matches(Routes[23], "GET", q) <=>
         Len(q) > 1 /\ q[1] = "workflow_executions" /\ Has(q, "logs")
  BY RoutesAre, SomeBelow, NotEmpty
<1>11. \A k \in 1 .. 23 : k \notin {1, 3, 9, 11, 14, 16, 17, 20, 22, 23} => ~Matches(Routes[k], "GET", q)
  <2>1. \A k \in 1 .. 23 : k \notin {1, 3, 9, 11, 14, 16, 17, 20, 22, 23} => Routes[k].method # "GET"
    BY MethodsAre
  <2>2. QED
    BY <2>1 DEF Matches
<1>12. QED
  BY <1>1, <1>2, <1>3, <1>4, <1>5, <1>6, <1>7, <1>8, <1>9, <1>10, <1>11

LEMMA PutRows ==
    ASSUME NEW q
    PROVE  /\ Matches(Routes[4], "PUT", q) <=> Len(q) > 1 /\ q[1] = "agents" /\ Has(q, "start")
           /\ Matches(Routes[5], "PUT", q) <=> Len(q) > 1 /\ q[1] = "agents" /\ Has(q, "stop")
           /\ Matches(Routes[15], "PUT", q) <=> Len(q) > 2 /\ q[1] = "workflows" /\ q[2] = "executions"
           /\ Matches(Routes[18], "PUT", q) <=> Len(q) > 1 /\ q[1] = "workflows"
           /\ \A k \in 1 .. 23 : k \notin {4, 5, 15, 18} => ~Matches(Routes[k], "PUT", q)
<1>1. Matches(Routes[4], "PUT", q) <=> Len(q) > 1 /\ q[1] = "agents" /\ Has(q, "start")
  BY RoutesAre, SomeBelow, NotEmpty
<1>2. Matches(Routes[5], "PUT", q) <=> Len(q) > 1 /\ q[1] = "agents" /\ Has(q, "stop")
  BY RoutesAre, SomeBelow, NotEmpty
<1>3. Matches(Routes[15], "PUT", q) <=> Len(q) > 2 /\ q[1] = "workflows" /\ q[2] = "executions"
  <2>1. Routes[15] = Below("PUT", <<"workflows", "executions">>, Empty, Empty, "control_workflow_execution")
    BY RoutesAre
  <2>2. QED
    BY <2>1, AllBelowTwo
<1>4. Matches(Routes[18], "PUT", q) <=> Len(q) > 1 /\ q[1] = "workflows"
  BY RoutesAre, AllBelowOne
<1>5. \A k \in 1 .. 23 : k \notin {4, 5, 15, 18} => ~Matches(Routes[k], "PUT", q)
  <2>1. \A k \in 1 .. 23 : k \notin {4, 5, 15, 18} => Routes[k].method # "PUT"
    BY MethodsAre
  <2>2. QED
    BY <2>1 DEF Matches
<1>6. QED
  BY <1>1, <1>2, <1>3, <1>4, <1>5

LEMMA PostRows ==
    ASSUME NEW q
    PROVE  /\ Matches(Routes[2], "POST", q) <=> q = <<"agents">>
           /\ Matches(Routes[6], "POST", q) <=> Len(q) > 1 /\ q[1] = "agents" /\ Has(q, "execute")
           /\ Matches(Routes[7], "POST", q) <=> q = <<"agent", "execute">>
           /\ Matches(Routes[10], "POST", q) <=> q = <<"kolosal-server", "start">>
           /\ Matches(Routes[12], "POST", q) <=> q = <<"workflows">>
           /\ Matches(Routes[13], "POST", q) <=> Len(q) > 1 /\ q[1] = "workflows" /\ Has(q, "execute")
           /\ Matches(Routes[21], "POST", q) <=> Len(q) > 1 /\ q[1] = "workflow_templates" /\ Has(q, "execute")
           /\ \A k \in 1 .. 23 : k \notin {2, 6, 7, 10, 12, 13, 21} => ~Matches(Routes[k], "POST", q)
<1>1. Matches(Routes[2], "POST", q) <=> q = <<"agents">>
  BY RoutesAre, ExactlyMatches
<1>2. Matches(Routes[6], "POST", q) <=> Len(q) > 1 /\ q[1] = "agents" /\ Has(q, "execute")
  BY RoutesAre, SomeBelow, NotEmpty
<1>3. Matches(Routes[7], "POST", q) <=> q = <<"agent", "execute">>
  BY RoutesAre, ExactlyMatches
<1>4. Matches(Routes[10], "POST", q) <=> q = <<"kolosal-server", "start">>
  BY RoutesAre, ExactlyMatches
<1>5. Matches(Routes[12], "POST", q) <=> q = <<"workflows">>
  BY RoutesAre, ExactlyMatches
<1>6. Matches(Routes[13], "POST", q) <=> Len(q) > 1 /\ q[1] = "workflows" /\ Has(q, "execute")
  BY RoutesAre, SomeBelow, NotEmpty
<1>7. Matches(Routes[21], "POST", q) <=>
         Len(q) > 1 /\ q[1] = "workflow_templates" /\ Has(q, "execute")
  BY RoutesAre, SomeBelow, NotEmpty
<1>8. \A k \in 1 .. 23 : k \notin {2, 6, 7, 10, 12, 13, 21} => ~Matches(Routes[k], "POST", q)
  <2>1. \A k \in 1 .. 23 : k \notin {2, 6, 7, 10, 12, 13, 21} => Routes[k].method # "POST"
    BY MethodsAre
  <2>2. QED
    BY <2>1 DEF Matches
<1>9. QED
  BY <1>1, <1>2, <1>3, <1>4, <1>5, <1>6, <1>7, <1>8

LEMMA DeleteRows ==
    ASSUME NEW q
    PROVE  /\ Matches(Routes[8], "DELETE", q) <=> Len(q) > 1 /\ q[1] = "agents"
           /\ Matches(Routes[19], "DELETE", q) <=> Len(q) > 1 /\ q[1] = "workflows"
           /\ \A k \in 1 .. 23 : k \notin {8, 19} => ~Matches(Routes[k], "DELETE", q)
<1>1. Matches(Routes[8], "DELETE", q) <=> Len(q) > 1 /\ q[1] = "agents"
  BY RoutesAre, AllBelowOne
<1>2. Matches(Routes[19], "DELETE", q) <=> Len(q) > 1 /\ q[1] = "workflows"
  BY RoutesAre, AllBelowOne
<1>3. \A k \in 1 .. 23 : k \notin {8, 19} => ~Matches(Routes[k], "DELETE", q)
  <2>1. \A k \in 1 .. 23 : k \notin {8, 19} => Routes[k].method # "DELETE"
    BY MethodsAre
  <2>2. QED
    BY <2>1 DEF Matches
<1>4. QED
  BY <1>1, <1>2, <1>3

\* The first row that matches decides.
LEMMA FirstRowDecides ==
    ASSUME NEW m, NEW q, NEW k \in 1 .. 23, Matches(Routes[k], m, q),
           \A j \in 1 .. k - 1 : ~Matches(Routes[j], m, q)
    PROVE  Target(m, q) = Reached(Routes[k], q)
<1> DEFINE hits == {i \in 1 .. Len(Routes) : Matches(Routes[i], m, q)}
<1>1. k \in hits /\ \A j \in hits : k <= j
  BY RoutesAre
<1>2. \A i \in hits : (\A j \in hits : i <= j) => i = k
  BY <1>1, RoutesAre
<1>3. (CHOOSE i \in hits : \A j \in hits : i <= j) = k
  BY <1>1, <1>2
<1>4. QED
  BY <1>1, <1>3 DEF Target

\* Paths by their segments.
One(q, a) == q = <<a>>
Two(q, a, b) == q = <<a, b>>
Three(q, a, b, c) == q = <<a, b, c>>
Four(q, a, b, c, d) == q = <<a, b, c, d>>

LEMMA OneSegment ==
    ASSUME NEW q, NEW a, One(q, a)
    PROVE  /\ Len(q) = 1 /\ q[1] = a
           /\ \A c : q = <<c>> <=> a = c
           /\ \A c, d : q # <<c, d>>
           /\ \A w : Has(q, w) <=> Begins(a, w)
BY DEF One, Has

LEMMA TwoSegments ==
    ASSUME NEW q, NEW a, NEW b, Two(q, a, b)
    PROVE  /\ Len(q) = 2 /\ q[1] = a /\ q[2] = b /\ \A c : q # <<c>>
           /\ \A w : Has(q, w) <=> Begins(a, w) \/ Begins(b, w)
           /\ \A c, d : q = <<c, d>> <=> a = c /\ b = d
BY DEF Two, Has

LEMMA ThreeSegments ==
    ASSUME NEW q, NEW a, NEW b, NEW c, Three(q, a, b, c)
    PROVE  /\ Len(q) = 3 /\ q[1] = a /\ q[2] = b /\ q[3] = c
           /\ \A d : q # <<d>>
           /\ \A d, e : q # <<d, e>>
           /\ \A w : Has(q, w) <=> Begins(a, w) \/ Begins(b, w) \/ Begins(c, w)
BY DEF Three, Has

LEMMA FourSegments ==
    ASSUME NEW q, NEW a, NEW b, NEW c, NEW d, Four(q, a, b, c, d)
    PROVE  Len(q) = 4 /\ q[1] = a /\ q[2] = b /\ q[3] = c /\ q[4] = d
BY DEF Four

\* What the branches of the rows make of the paths that are announced.
WholeRow(row, to) == row.under = <<>> /\ row.to = to /\ to # "nothing"
PlainRow(row, b, to) == row.under = <<b>> /\ row.to = to /\ to # "nothing" /\ Suffix(to) = Empty
SuffixRow(row, b, w, to) ==
    /\ row.under = <<b>> /\ row.to = to /\ to \notin {"nothing", "get_agent"}
    /\ Suffix(to) = w /\ w # Empty
ExecutionsRow(row, to) == row.under = <<"workflows", "executions">> /\ row.to = to

LEMMA KindsOfRows ==
    /\ WholeRow(Routes[1], "list_agents") /\ WholeRow(Routes[2], "create_agent")
    /\ PlainRow(Routes[3], "agents", "get_agent")
    /\ SuffixRow(Routes[4], "agents", "start", "start_agent")
    /\ SuffixRow(Routes[5], "agents", "stop", "stop_agent")
    /\ SuffixRow(Routes[6], "agents", "execute", "execute_function")
    /\ WholeRow(Routes[7], "simple_agent_execute")
    /\ PlainRow(Routes[8], "agents", "delete_agent")
    /\ WholeRow(Routes[9], "system_status") /\ WholeRow(Routes[11], "list_workflows")
    /\ WholeRow(Routes[12], "register_workflow")
    /\ SuffixRow(Routes[13], "workflows", "execute", "execute_workflow")
    /\ ExecutionsRow(Routes[14], "get_workflow_execution")
    /\ ExecutionsRow(Routes[15], "control_workflow_execution")
    /\ WholeRow(Routes[16], "list_workflow_executions")
    /\ PlainRow(Routes[17], "workflows", "get_workflow")
    /\ PlainRow(Routes[18], "workflows", "update_workflow")
    /\ PlainRow(Routes[19], "workflows", "delete_workflow")
    /\ WholeRow(Routes[20], "get_workflow_templates")
    /\ SuffixRow(Routes[21], "workflow_templates", "execute", "execute_workflow_template")
    /\ SuffixRow(Routes[22], "workflow_executions", "progress", "workflow_execution_progress")
    /\ SuffixRow(Routes[23], "workflow_executions", "logs", "workflow_execution_logs")
<1>1. /\ Suffix("start_agent") = "start" /\ Suffix("stop_agent") = "stop"
      /\ Suffix("execute_function") = "execute" /\ Suffix("execute_workflow") = "execute"
      /\ Suffix("execute_workflow_template") = "execute"
      /\ Suffix("workflow_execution_progress") = "progress"
      /\ Suffix("workflow_execution_logs") = "logs"
      /\ Suffix("get_agent") = Empty /\ Suffix("delete_agent") = Empty /\ Suffix("get_workflow") = Empty
      /\ Suffix("update_workflow") = Empty /\ Suffix("delete_workflow") = Empty
  BY DEF Suffix
<1>2. QED
  BY <1>1, RoutesAre, NotEmpty DEF Exactly, Below, WholeRow, PlainRow, SuffixRow, ExecutionsRow

LEMMA WholeReached ==
    ASSUME NEW row, NEW to, WholeRow(row, to), NEW q
    PROVE  Reached(row, q).to = to /\ Reached(row, q).id = <<>>
BY DEF WholeRow, Reached

LEMMA PlainReached ==
    ASSUME NEW row, NEW b, NEW to, PlainRow(row, b, to), NEW x, x # Empty,
           NEW q, Two(q, b, x)
    PROVE  Reached(row, q).to = to /\ Reached(row, q).id = <<x>>
<1>1. Rest(q, <<b>>) = <<x>>
  <2>1. Len(q) = 2 /\ q[2] = x /\ Len(<<b>>) + 1 = 2
    BY TwoSegments
  <2>2. Rest(q, <<b>>) = SubSeq(q, 2, 2)
    BY <2>1 DEF Rest
  <2>3. QED
    BY <2>1, <2>2, OneLeft
<1>2. <<b>> # <<"workflows", "executions">> /\ <<b>> # <<>>
  OBVIOUS
<1>3. <<x>> = <<Empty>> => x = Empty
  OBVIOUS
<1>4. QED
  BY <1>1, <1>2, <1>3 DEF PlainRow, Reached

LEMMA SuffixReached ==
    ASSUME NEW row, NEW b, NEW w, NEW to, SuffixRow(row, b, w, to), NEW x, NEW q, Three(q, b, x, w)
    PROVE  Reached(row, q).to = to /\ Reached(row, q).id = <<x>>
<1>1. Rest(q, <<b>>) = <<x, w>>
  <2>1. Len(q) = 3 /\ q[2] = x /\ q[3] = w /\ 3 = 2 + 1 /\ Len(<<b>>) + 1 = 2
    BY ThreeSegments
  <2>2. Rest(q, <<b>>) = SubSeq(q, 2, 3)
    BY <2>1 DEF Rest
  <2>3. SubSeq(q, 2, 3) = <<q[2], q[3]>>
    BY <2>1, TwoLeft
  <2>4. QED
    BY <2>1, <2>2, <2>3
<1>2. WithoutSuffix(<<x, w>>, w) = <<x>>
  <2> DEFINE rest == <<x, w>>
  <2>1. rest # <<w>> /\ Len(rest) = 2 /\ rest[Len(rest)] = w /\ rest[1] = x
    OBVIOUS
  <2> HIDE DEF rest
  <2>2. WithoutSuffix(rest, w) = SubSeq(rest, 1, 1)
    BY <2>1 DEF WithoutSuffix
  <2>3. WithoutSuffix(rest, w) = <<x>>
    BY <2>1, <2>2, OneLeft
  <2>4. QED
    BY <2>3 DEF rest
<1>3. <<b>> # <<"workflows", "executions">> /\ <<b>> # <<>>
  OBVIOUS
<1>4. QED
  BY <1>1, <1>2, <1>3 DEF SuffixRow, Reached

LEMMA ExecutionReached ==
    ASSUME NEW row, NEW x, NEW q, Three(q, "workflows", "executions", x),
           ExecutionsRow(row, "get_workflow_execution")
    PROVE  Reached(row, q).to = "get_workflow_execution" /\ Reached(row, q).id = <<x>>
<1> DEFINE base == <<"workflows", "executions">>
<1>1. Len(q) = 3 /\ q[3] = x /\ Len(base) + 1 = 3 /\ base # <<>>
  BY ThreeSegments
<1>2. Rest(q, base) = <<x>>
  <2>1. Rest(q, base) = SubSeq(q, 3, 3)
    BY <1>1 DEF Rest
  <2>2. QED
    BY <1>1, <2>1, OneLeft
<1>3. Len(<<x>>) = 1
  OBVIOUS
<1>4. QED
  BY <1>1, <1>2, <1>3 DEF ExecutionsRow, Reached

LEMMA ControlReached ==
    ASSUME NEW row, NEW x, NEW action, NEW q, Four(q, "workflows", "executions", x, action),
           ExecutionsRow(row, "control_workflow_execution")
    PROVE  Reached(row, q).to = "control_workflow_execution" /\ Reached(row, q).id = <<x>>
<1> DEFINE base == <<"workflows", "executions">>
<1>1. Len(q) = 4 /\ q[3] = x /\ q[4] = action /\ 4 = 3 + 1 /\ Len(base) + 1 = 3 /\ base # <<>>
  BY FourSegments
<1>2. Rest(q, base) = <<x, action>>
  <2>1. Rest(q, base) = SubSeq(q, 3, 4)
    BY <1>1 DEF Rest
  <2>2. SubSeq(q, 3, 4) = <<q[3], q[4]>>
    BY <1>1, TwoLeft
  <2>3. QED
    BY <1>1, <2>1, <2>2
<1>3. Len(<<x, action>>) = 2 /\ <<x, action>>[1] = x
  OBVIOUS
<1>4. QED
  BY <1>1, <1>2, <1>3 DEF ExecutionsRow, Reached

LEMMA WordsBegin ==
    /\ Begins("start", "start") /\ Begins("stop", "stop") /\ Begins("execute", "execute")
    /\ Begins("progress", "progress") /\ Begins("logs", "logs")
    /\ ~Begins("agents", "start") /\ ~Begins("stop", "start") /\ ~Begins("workflows", "execute")
    /\ ~Begins("workflow_executions", "progress") /\ ~Begins("logs", "progress")
BY DEF Begins

-----------------------------------------------------------------------------
(* The endpoints that start() prints: the row of each is the first that     *)
(* matches, and its branch gives the handler the identifier of the path.    *)

LEMMA ListAgentsIsReached ==
    ASSUME NEW q, One(q, "agents")
    PROVE  Target("GET", q).to = "list_agents" /\ Target("GET", q).id = <<>>
<1>1. Len(q) = 1 /\ ~(Len(q) > 1) /\ q[1] = "agents"
  <2>1. Len(q) = 1 /\ q[1] = "agents"
    BY OneSegment
  <2>2. QED
    BY <2>1
<1>2. Matches(Routes[1], "GET", q)
  BY <1>1, GetRows DEF One
<1>3. Target("GET", q) = Reached(Routes[1], q)
  BY <1>2, FirstRowDecides
<1>4. QED
  BY <1>3, KindsOfRows, WholeReached

LEMMA CreateAgentIsReached ==
    ASSUME NEW q, One(q, "agents")
    PROVE  Target("POST", q).to = "create_agent" /\ Target("POST", q).id = <<>>
<1>1. Len(q) = 1 /\ ~(Len(q) > 1) /\ q[1] = "agents"
  <2>1. Len(q) = 1 /\ q[1] = "agents"
    BY OneSegment
  <2>2. QED
    BY <2>1
<1>2. Matches(Routes[2], "POST", q)
  BY <1>1, PostRows DEF One
<1>3. \A j \in 1 .. 2 - 1 : ~Matches(Routes[j], "POST", q)
  BY PostRows
<1>4. Target("POST", q) = Reached(Routes[2], q)
  BY <1>2, <1>3, FirstRowDecides
<1>5. QED
  BY <1>4, KindsOfRows, WholeReached

LEMMA GetAgentIsReached ==
    ASSUME NEW x, x # Empty, NEW q, Two(q, "agents", x)
    PROVE  Target("GET", q).to = "get_agent" /\ Target("GET", q).id = <<x>>
<1>1. Len(q) = 2 /\ Len(q) > 1 /\ ~(Len(q) > 2) /\ q[1] = "agents" /\ q[2] = x
  BY TwoSegments
<1>2. Matches(Routes[3], "GET", q)
  BY <1>1, GetRows
<1>3. \A j \in 1 .. 3 - 1 : ~Matches(Routes[j], "GET", q)
  <2>1. ~Matches(Routes[1], "GET", q)
    BY <1>1, TwoSegments, GetRows
  <2>2. \A j \in 1 .. 23 : j \notin {1, 3, 9, 11, 14, 16, 17, 20, 22, 23} => ~Matches(Routes[j], "GET", q)
    BY GetRows
  <2>3. QED
    BY <2>1, <2>2
<1>4. Target("GET", q) = Reached(Routes[3], q)
  BY <1>2, <1>3, FirstRowDecides
<1>5. Reached(Routes[3], q).to = "get_agent" /\ Reached(Routes[3], q).id = <<x>>
  <2>1. PlainRow(Routes[3], "agents", "get_agent")
    BY KindsOfRows
  <2>2. QED
    BY <2>1, PlainReached
<1>6. QED
  BY <1>4, <1>5

LEMMA DeleteAgentIsReached ==
    ASSUME NEW x, x # Empty, NEW q, Two(q, "agents", x)
    PROVE  Target("DELETE", q).to = "delete_agent" /\ Target("DELETE", q).id = <<x>>
<1>1. Len(q) = 2 /\ Len(q) > 1 /\ ~(Len(q) > 2) /\ q[1] = "agents" /\ q[2] = x
  BY TwoSegments
<1>2. Matches(Routes[8], "DELETE", q)
  BY <1>1, DeleteRows
<1>3. \A j \in 1 .. 8 - 1 : ~Matches(Routes[j], "DELETE", q)
  BY DeleteRows
<1>4. Target("DELETE", q) = Reached(Routes[8], q)
  BY <1>2, <1>3, FirstRowDecides
<1>5. Reached(Routes[8], q).to = "delete_agent" /\ Reached(Routes[8], q).id = <<x>>
  <2>1. PlainRow(Routes[8], "agents", "delete_agent")
    BY KindsOfRows
  <2>2. QED
    BY <2>1, PlainReached
<1>6. QED
  BY <1>4, <1>5

LEMMA StartAgentIsReached ==
    ASSUME NEW x, NEW q, Three(q, "agents", x, "start")
    PROVE  Target("PUT", q).to = "start_agent" /\ Target("PUT", q).id = <<x>>
<1>1. Len(q) = 3 /\ Len(q) > 1 /\ Len(q) > 2 /\ q[1] = "agents" /\ q[2] = x
  BY ThreeSegments
<1>2. Has(q, "start")
  BY ThreeSegments, WordsBegin
<1>3. Matches(Routes[4], "PUT", q)
  BY <1>1, <1>2, PutRows
<1>4. \A j \in 1 .. 4 - 1 : ~Matches(Routes[j], "PUT", q)
  BY PutRows
<1>5. Target("PUT", q) = Reached(Routes[4], q)
  BY <1>3, <1>4, FirstRowDecides
<1>6. QED
  BY <1>5, KindsOfRows, SuffixReached

LEMMA StopAgentIsReached ==
    ASSUME NEW x, ~Begins(x, "start"), NEW q, Three(q, "agents", x, "stop")
    PROVE  Target("PUT", q).to = "stop_agent" /\ Target("PUT", q).id = <<x>>
<1>1. Len(q) = 3 /\ Len(q) > 1 /\ Len(q) > 2 /\ q[1] = "agents" /\ q[2] = x
  BY ThreeSegments
<1>2. Has(q, "stop") /\ ~Has(q, "start")
  BY ThreeSegments, WordsBegin
<1>3. Matches(Routes[5], "PUT", q)
  BY <1>1, <1>2, PutRows
<1>4. \A j \in 1 .. 5 - 1 : ~Matches(Routes[j], "PUT", q)
  <2>1. ~Matches(Routes[4], "PUT", q)
    BY <1>1, <1>2, ThreeSegments, PutRows
  <2>2. \A j \in 1 .. 23 : j \notin {4, 5, 15, 18} => ~Matches(Routes[j], "PUT", q)
    BY PutRows
  <2>3. QED
    BY <2>1, <2>2
<1>5. Target("PUT", q) = Reached(Routes[5], q)
  BY <1>3, <1>4, FirstRowDecides
<1>6. QED
  BY <1>5, KindsOfRows, SuffixReached

LEMMA ExecuteFunctionIsReached ==
    ASSUME NEW x, NEW q, Three(q, "agents", x, "execute")
    PROVE  Target("POST", q).to = "execute_function" /\ Target("POST", q).id = <<x>>
<1>1. Len(q) = 3 /\ Len(q) > 1 /\ Len(q) > 2 /\ q[1] = "agents" /\ q[2] = x
  BY ThreeSegments
<1>2. Has(q, "execute")
  BY ThreeSegments, WordsBegin
<1>3. Matches(Routes[6], "POST", q)
  BY <1>1, <1>2, PostRows
<1>4. \A j \in 1 .. 6 - 1 : ~Matches(Routes[j], "POST", q)
  <2>1. ~Matches(Routes[2], "POST", q)
    BY <1>1, <1>2, ThreeSegments, PostRows
  <2>2. \A j \in 1 .. 23 : j \notin {2, 6, 7, 10, 12, 13, 21} => ~Matches(Routes[j], "POST", q)
    BY PostRows
  <2>3. QED
    BY <2>1, <2>2
<1>5. Target("POST", q) = Reached(Routes[6], q)
  BY <1>3, <1>4, FirstRowDecides
<1>6. QED
  BY <1>5, KindsOfRows, SuffixReached

LEMMA SimpleAgentExecuteIsReached ==
    ASSUME NEW q, Two(q, "agent", "execute")
    PROVE  Target("POST", q).to = "simple_agent_execute" /\ Target("POST", q).id = <<>>
<1>1. Len(q) = 2 /\ Len(q) > 1 /\ ~(Len(q) > 2) /\ q[1] = "agent" /\ q[2] = "execute"
  BY TwoSegments
<1>2. Matches(Routes[7], "POST", q)
  BY <1>1, PostRows DEF Two
<1>3. \A j \in 1 .. 7 - 1 : ~Matches(Routes[j], "POST", q)
  <2>1. ~Matches(Routes[2], "POST", q) /\ ~Matches(Routes[6], "POST", q)
    BY <1>1, TwoSegments, PostRows
  <2>2. \A j \in 1 .. 23 : j \notin {2, 6, 7, 10, 12, 13, 21} => ~Matches(Routes[j], "POST", q)
    BY PostRows
  <2>3. QED
    BY <2>1, <2>2
<1>4. Target("POST", q) = Reached(Routes[7], q)
  BY <1>2, <1>3, FirstRowDecides
<1>5. QED
  BY <1>4, KindsOfRows, WholeReached

LEMMA SystemStatusIsReached ==
    ASSUME NEW q, One(q, "status")
    PROVE  Target("GET", q).to = "system_status" /\ Target("GET", q).id = <<>>
<1>1. Len(q) = 1 /\ ~(Len(q) > 1) /\ q[1] = "status"
  <2>1. Len(q) = 1 /\ q[1] = "status"
    BY OneSegment
  <2>2. QED
    BY <2>1
<1>2. Matches(Routes[9], "GET", q)
  BY <1>1, GetRows DEF One
<1>3. \A j \in 1 .. 9 - 1 : ~Matches(Routes[j], "GET", q)
  <2>1. ~Matches(Routes[1], "GET", q) /\ ~Matches(Routes[3], "GET", q)
    BY <1>1, OneSegment, GetRows
  <2>2. \A j \in 1 .. 23 : j \notin {1, 3, 9, 11, 14, 16, 17, 20, 22, 23} => ~Matches(Routes[j], "GET", q)
    BY GetRows
  <2>3. QED
    BY <2>1, <2>2
<1>4. Target("GET", q) = Reached(Routes[9], q)
  BY <1>2, <1>3, FirstRowDecides
<1>5. QED
  BY <1>4, KindsOfRows, WholeReached

LEMMA ListWorkflowsIsReached ==
    ASSUME NEW q, One(q, "workflows")
    PROVE  Target("GET", q).to = "list_workflows" /\ Target("GET", q).id = <<>>
<1>1. Len(q) = 1 /\ ~(Len(q) > 1) /\ q[1] = "workflows"
  <2>1. Len(q) = 1 /\ q[1] = "workflows"
    BY OneSegment
  <2>2. QED
    BY <2>1
<1>2. Matches(Routes[11], "GET", q)
  BY <1>1, GetRows DEF One
<1>3. \A j \in 1 .. 11 - 1 : ~Matches(Routes[j], "GET", q)
  <2>1. /\ ~Matches(Routes[1], "GET", q) /\ ~Matches(Routes[3], "GET", q)
        /\ ~Matches(Routes[9], "GET", q)
    BY <1>1, OneSegment, GetRows
  <2>2. \A j \in 1 .. 23 : j \notin {1, 3, 9, 11, 14, 16, 17, 20, 22, 23} => ~Matches(Routes[j], "GET", q)
    BY GetRows
  <2>3. QED
    BY <2>1, <2>2
<1>4. Target("GET", q) = Reached(Routes[11], q)
  BY <1>2, <1>3, FirstRowDecides
<1>5. QED
  BY <1>4, KindsOfRows, WholeReached

LEMMA RegisterWorkflowIsReached ==
    ASSUME NEW q, One(q, "workflows")
    PROVE  Target("POST", q).to = "register_workflow" /\ Target("POST", q).id = <<>>
<1>1. Len(q) = 1 /\ ~(Len(q) > 1) /\ q[1] = "workflows"
  <2>1. Len(q) = 1 /\ q[1] = "workflows"
    BY OneSegment
  <2>2. QED
    BY <2>1
<1>2. Matches(Routes[12], "POST", q)
  BY <1>1, PostRows DEF One
<1>3. \A j \in 1 .. 12 - 1 : ~Matches(Routes[j], "POST", q)
  <2>1. /\ ~Matches(Routes[2], "POST", q) /\ ~Matches(Routes[6], "POST", q)
        /\ ~Matches(Routes[7], "POST", q) /\ ~Matches(Routes[10], "POST", q)
    <3>1. ~Matches(Routes[2], "POST", q)
      BY <1>1, OneSegment, PostRows
    <3>2. ~Matches(Routes[6], "POST", q)
      BY <1>1, OneSegment, PostRows
    <3>3. ~Matches(Routes[7], "POST", q)
      BY <1>1, OneSegment, PostRows
    <3>4. ~Matches(Routes[10], "POST", q)
      BY <1>1, OneSegment, PostRows
    <3>5. QED
      BY <3>1, <3>2, <3>3, <3>4
  <2>2. \A j \in 1 .. 23 : j \notin {2, 6, 7, 10, 12, 13, 21} => ~Matches(Routes[j], "POST", q)
    BY PostRows
  <2>3. QED
    BY <2>1, <2>2
<1>4. Target("POST", q) = Reached(Routes[12], q)
  BY <1>2, <1>3, FirstRowDecides
<1>5. QED
  BY <1>4, KindsOfRows, WholeReached

LEMMA GetWorkflowIsReached ==
    ASSUME NEW x, x # Empty, x # "executions", ~Begins(x, "execute"), NEW q, Two(q, "workflows", x)
    PROVE  Target("GET", q).to = "get_workflow" /\ Target("GET", q).id = <<x>>
<1>1. Len(q) = 2 /\ Len(q) > 1 /\ ~(Len(q) > 2) /\ q[1] = "workflows" /\ q[2] = x
  BY TwoSegments
<1>2. ~Has(q, "execute")
  BY TwoSegments, WordsBegin
<1>3. Matches(Routes[17], "GET", q)
  BY <1>1, <1>2, GetRows
<1>4. \A j \in 1 .. 17 - 1 : ~Matches(Routes[j], "GET", q)
  <2>1. /\ ~Matches(Routes[1], "GET", q) /\ ~Matches(Routes[3], "GET", q)
        /\ ~Matches(Routes[9], "GET", q) /\ ~Matches(Routes[11], "GET", q)
        /\ ~Matches(Routes[14], "GET", q) /\ ~Matches(Routes[16], "GET", q)
    <3>1. ~Matches(Routes[1], "GET", q)
      BY <1>1, <1>2, TwoSegments, GetRows
    <3>2. ~Matches(Routes[3], "GET", q)
      BY <1>1, <1>2, TwoSegments, GetRows
    <3>3. ~Matches(Routes[9], "GET", q)
      BY <1>1, <1>2, TwoSegments, GetRows
    <3>4. ~Matches(Routes[11], "GET", q)
      BY <1>1, <1>2, TwoSegments, GetRows
    <3>5. ~Matches(Routes[14], "GET", q)
      BY <1>1, <1>2, TwoSegments, GetRows
    <3>6. ~Matches(Routes[16], "GET", q)
      BY <1>1, <1>2, TwoSegments, GetRows
    <3>7. QED
      BY <3>1, <3>2, <3>3, <3>4, <3>5, <3>6
  <2>2. \A j \in 1 .. 23 : j \notin {1, 3, 9, 11, 14, 16, 17, 20, 22, 23} => ~Matches(Routes[j], "GET", q)
    BY GetRows
  <2>3. QED
    BY <2>1, <2>2
<1>5. Target("GET", q) = Reached(Routes[17], q)
  BY <1>3, <1>4, FirstRowDecides
<1>6. Reached(Routes[17], q).to = "get_workflow" /\ Reached(Routes[17], q).id = <<x>>
  <2>1. PlainRow(Routes[17], "workflows", "get_workflow")
    BY KindsOfRows
  <2>2. QED
    BY <2>1, PlainReached
<1>7. QED
  BY <1>5, <1>6

LEMMA UpdateWorkflowIsReached ==
    ASSUME NEW x, x # Empty, NEW q, Two(q, "workflows", x)
    PROVE  Target("PUT", q).to = "update_workflow" /\ Target("PUT", q).id = <<x>>
<1>1. Len(q) = 2 /\ Len(q) > 1 /\ ~(Len(q) > 2) /\ q[1] = "workflows" /\ q[2] = x
  BY TwoSegments
<1>2. Matches(Routes[18], "PUT", q)
  BY <1>1, PutRows
<1>3. \A j \in 1 .. 18 - 1 : ~Matches(Routes[j], "PUT", q)
  <2>1. /\ ~Matches(Routes[4], "PUT", q) /\ ~Matches(Routes[5], "PUT", q)
        /\ ~Matches(Routes[15], "PUT", q)
    BY <1>1, TwoSegments, PutRows
  <2>2. \A j \in 1 .. 23 : j \notin {4, 5, 15, 18} => ~Matches(Routes[j], "PUT", q)
    BY PutRows
  <2>3. QED
    BY <2>1, <2>2
<1>4. Target("PUT", q) = Reached(Routes[18], q)
  BY <1>2, <1>3, FirstRowDecides
<1>5. Reached(Routes[18], q).to = "update_workflow" /\ Reached(Routes[18], q).id = <<x>>
  <2>1. PlainRow(Routes[18], "workflows", "update_workflow")
    BY KindsOfRows
  <2>2. QED
    BY <2>1, PlainReached
<1>6. QED
  BY <1>4, <1>5

LEMMA DeleteWorkflowIsReached ==
    ASSUME NEW x, x # Empty, NEW q, Two(q, "workflows", x)
    PROVE  Target("DELETE", q).to = "delete_workflow" /\ Target("DELETE", q).id = <<x>>
<1>1. Len(q) = 2 /\ Len(q) > 1 /\ ~(Len(q) > 2) /\ q[1] = "workflows" /\ q[2] = x
  BY TwoSegments
<1>2. Matches(Routes[19], "DELETE", q)
  BY <1>1, DeleteRows
<1>3. \A j \in 1 .. 19 - 1 : ~Matches(Routes[j], "DELETE", q)
  <2>1. ~Matches(Routes[8], "DELETE", q)
    BY <1>1, TwoSegments, DeleteRows
  <2>2. \A j \in 1 .. 23 : j \notin {8, 19} => ~Matches(Routes[j], "DELETE", q)
    BY DeleteRows
  <2>3. QED
    BY <2>1, <2>2
<1>4. Target("DELETE", q) = Reached(Routes[19], q)
  BY <1>2, <1>3, FirstRowDecides
<1>5. Reached(Routes[19], q).to = "delete_workflow" /\ Reached(Routes[19], q).id = <<x>>
  <2>1. PlainRow(Routes[19], "workflows", "delete_workflow")
    BY KindsOfRows
  <2>2. QED
    BY <2>1, PlainReached
<1>6. QED
  BY <1>4, <1>5

LEMMA ExecuteWorkflowIsReached ==
    ASSUME NEW x, NEW q, Three(q, "workflows", x, "execute")
    PROVE  Target("POST", q).to = "execute_workflow" /\ Target("POST", q).id = <<x>>
<1>1. Len(q) = 3 /\ Len(q) > 1 /\ Len(q) > 2 /\ q[1] = "workflows" /\ q[2] = x
  BY ThreeSegments
<1>2. Has(q, "execute")
  BY ThreeSegments, WordsBegin
<1>3. Matches(Routes[13], "POST", q)
  BY <1>1, <1>2, PostRows
<1>4. \A j \in 1 .. 13 - 1 : ~Matches(Routes[j], "POST", q)
  <2>1. /\ ~Matches(Routes[2], "POST", q) /\ ~Matches(Routes[6], "POST", q)
        /\ ~Matches(Routes[7], "POST", q) /\ ~Matches(Routes[10], "POST", q)
        /\ ~Matches(Routes[12], "POST", q)
    <3>1. ~Matches(Routes[2], "POST", q)
      BY <1>1, <1>2, ThreeSegments, PostRows
    <3>2. ~Matches(Routes[6], "POST", q)
      BY <1>1, <1>2, ThreeSegments, PostRows
    <3>3. ~Matches(Routes[7], "POST", q)
      BY <1>1, <1>2, ThreeSegments, PostRows
    <3>4. ~Matches(Routes[10], "POST", q)
      BY <1>1, <1>2, ThreeSegments, PostRows
    <3>5. ~Matches(Routes[12], "POST", q)
      BY <1>1, <1>2, ThreeSegments, PostRows
    <3>6. QED
      BY <3>1, <3>2, <3>3, <3>4, <3>5
  <2>2. \A j \in 1 .. 23 : j \notin {2, 6, 7, 10, 12, 13, 21} => ~Matches(Routes[j], "POST", q)
    BY PostRows
  <2>3. QED
    BY <2>1, <2>2
<1>5. Target("POST", q) = Reached(Routes[13], q)
  BY <1>3, <1>4, FirstRowDecides
<1>6. QED
  BY <1>5, KindsOfRows, SuffixReached

LEMMA GetWorkflowExecutionIsReached ==
    ASSUME NEW x, NEW q, Three(q, "workflows", "executions", x)
    PROVE  Target("GET", q).to = "get_workflow_execution" /\ Target("GET", q).id = <<x>>
<1>1. Len(q) = 3 /\ Len(q) > 1 /\ Len(q) > 2 /\ q[1] = "workflows" /\ q[2] = "executions"
  BY ThreeSegments
<1>2. Matches(Routes[14], "GET", q)
  BY <1>1, GetRows
<1>3. \A j \in 1 .. 14 - 1 : ~Matches(Routes[j], "GET", q)
  <2>1. /\ ~Matches(Routes[1], "GET", q) /\ ~Matches(Routes[3], "GET", q)
        /\ ~Matches(Routes[9], "GET", q) /\ ~Matches(Routes[11], "GET", q)
    <3>1. ~Matches(Routes[1], "GET", q)
      BY <1>1, ThreeSegments, GetRows
    <3>2. ~Matches(Routes[3], "GET", q)
      BY <1>1, ThreeSegments, GetRows
    <3>3. ~Matches(Routes[9], "GET", q)
      BY <1>1, ThreeSegments, GetRows
    <3>4. ~Matches(Routes[11], "GET", q)
      BY <1>1, ThreeSegments, GetRows
    <3>5. QED
      BY <3>1, <3>2, <3>3, <3>4
  <2>2. \A j \in 1 .. 23 : j \notin {1, 3, 9, 11, 14, 16, 17, 20, 22, 23} => ~Matches(Routes[j], "GET", q)
    BY GetRows
  <2>3. QED
    BY <2>1, <2>2
<1>4. Target("GET", q) = Reached(Routes[14], q)
  BY <1>2, <1>3, FirstRowDecides
<1>5. QED
  BY <1>4, KindsOfRows, ExecutionReached

LEMMA ControlWorkflowExecutionIsReached ==
    ASSUME NEW x, NEW q, Four(q, "workflows", "executions", x, "pause")
    PROVE  Target("PUT", q).to = "control_workflow_execution" /\ Target("PUT", q).id = <<x>>
<1>1. Len(q) = 4 /\ Len(q) > 1 /\ Len(q) > 2 /\ q[1] = "workflows" /\ q[2] = "executions"
  BY FourSegments
<1>2. Matches(Routes[15], "PUT", q)
  BY <1>1, PutRows
<1>3. \A j \in 1 .. 15 - 1 : ~Matches(Routes[j], "PUT", q)
  <2>1. ~Matches(Routes[4], "PUT", q) /\ ~Matches(Routes[5], "PUT", q)
    BY <1>1, FourSegments, PutRows
  <2>2. \A j \in 1 .. 23 : j \notin {4, 5, 15, 18} => ~Matches(Routes[j], "PUT", q)
    BY PutRows
  <2>3. QED
    BY <2>1, <2>2
<1>4. Target("PUT", q) = Reached(Routes[15], q)
  BY <1>2, <1>3, FirstRowDecides
<1>5. QED
  BY <1>4, KindsOfRows, ControlReached

LEMMA ListWorkflowExecutionsIsReached ==
    ASSUME NEW q, Two(q, "workflows", "executions")
    PROVE  Target("GET", q).to = "list_workflow_executions" /\ Target("GET", q).id = <<>>
<1>1. Len(q) = 2 /\ Len(q) > 1 /\ ~(Len(q) > 2) /\ q[1] = "workflows" /\ q[2] = "executions"
  BY TwoSegments
<1>2. Matches(Routes[16], "GET", q)
  BY <1>1, GetRows DEF Two
<1>3. \A j \in 1 .. 16 - 1 : ~Matches(Routes[j], "GET", q)
  <2>1. /\ ~Matches(Routes[1], "GET", q) /\ ~Matches(Routes[3], "GET", q)
        /\ ~Matches(Routes[9], "GET", q) /\ ~Matches(Routes[11], "GET", q)
        /\ ~Matches(Routes[14], "GET", q)
    <3>1. ~Matches(Routes[1], "GET", q)
      BY <1>1, TwoSegments, GetRows
    <3>2. ~Matches(Routes[3], "GET", q)
      BY <1>1, TwoSegments, GetRows
    <3>3. ~Matches(Routes[9], "GET", q)
      BY <1>1, TwoSegments, GetRows
    <3>4. ~Matches(Routes[11], "GET", q)
      BY <1>1, TwoSegments, GetRows
    <3>5. ~Matches(Routes[14], "GET", q)
      BY <1>1, TwoSegments, GetRows
    <3>6. QED
      BY <3>1, <3>2, <3>3, <3>4, <3>5
  <2>2. \A j \in 1 .. 23 : j \notin {1, 3, 9, 11, 14, 16, 17, 20, 22, 23} => ~Matches(Routes[j], "GET", q)
    BY GetRows
  <2>3. QED
    BY <2>1, <2>2
<1>4. Target("GET", q) = Reached(Routes[16], q)
  BY <1>2, <1>3, FirstRowDecides
<1>5. QED
  BY <1>4, KindsOfRows, WholeReached

LEMMA GetWorkflowTemplatesIsReached ==
    ASSUME NEW q, One(q, "workflow_templates")
    PROVE  Target("GET", q).to = "get_workflow_templates" /\ Target("GET", q).id = <<>>
<1>1. Len(q) = 1 /\ ~(Len(q) > 1) /\ q[1] = "workflow_templates"
  <2>1. Len(q) = 1 /\ q[1] = "workflow_templates"
    BY OneSegment
  <2>2. QED
    BY <2>1
<1>2. Matches(Routes[20], "GET", q)
  BY <1>1, GetRows DEF One
<1>3. \A j \in 1 .. 20 - 1 : ~Matches(Routes[j], "GET", q)
  <2>1. /\ ~Matches(Routes[1], "GET", q) /\ ~Matches(Routes[3], "GET", q)
        /\ ~Matches(Routes[9], "GET", q) /\ ~Matches(Routes[11], "GET", q)
        /\ ~Matches(Routes[14], "GET", q) /\ ~Matches(Routes[16], "GET", q)
        /\ ~Matches(Routes[17], "GET", q)
    <3>1. ~Matches(Routes[1], "GET", q)
      BY <1>1, OneSegment, GetRows
    <3>2. ~Matches(Routes[3], "GET", q)
      BY <1>1, OneSegment, GetRows
    <3>3. ~Matches(Routes[9], "GET", q)
      BY <1>1, OneSegment, GetRows
    <3>4. ~Matches(Routes[11], "GET", q)
      BY <1>1, OneSegment, GetRows
    <3>5. ~Matches(Routes[14], "GET", q)
      BY <1>1, OneSegment, GetRows
    <3>6. ~Matches(Routes[16], "GET", q)
      BY <1>1, OneSegment, GetRows
    <3>7. ~Matches(Routes[17], "GET", q)
      BY <1>1, OneSegment, GetRows
    <3>8. QED
      BY <3>1, <3>2, <3>3, <3>4, <3>5, <3>6, <3>7
  <2>2. \A j \in 1 .. 23 : j \notin {1, 3, 9, 11, 14, 16, 17, 20, 22, 23} => ~Matches(Routes[j], "GET", q)
    BY GetRows
  <2>3. QED
    BY <2>1, <2>2
<1>4. Target("GET", q) = Reached(Routes[20], q)
  BY <1>2, <1>3, FirstRowDecides
<1>5. QED
  BY <1>4, KindsOfRows, WholeReached

LEMMA ExecuteWorkflowTemplateIsReached ==
    ASSUME NEW x, NEW q, Three(q, "workflow_templates", x, "execute")
    PROVE  Target("POST", q).to = "execute_workflow_template" /\ Target("POST", q).id = <<x>>
<1>1. Len(q) = 3 /\ Len(q) > 1 /\ Len(q) > 2 /\ q[1] = "workflow_templates" /\ q[2] = x
  BY ThreeSegments
<1>2. Has(q, "execute")
  BY ThreeSegments, WordsBegin
<1>3. Matches(Routes[21], "POST", q)
  BY <1>1, <1>2, PostRows
<1>4. \A j \in 1 .. 21 - 1 : ~Matches(Routes[j], "POST", q)
  <2>1. /\ ~Matches(Routes[2], "POST", q) /\ ~Matches(Routes[6], "POST", q)
        /\ ~Matches(Routes[7], "POST", q) /\ ~Matches(Routes[10], "POST", q)
        /\ ~Matches(Routes[12], "POST", q) /\ ~Matches(Routes[13], "POST", q)
    <3>1. ~Matches(Routes[2], "POST", q)
      BY <1>1, <1>2, ThreeSegments, PostRows
    <3>2. ~Matches(Routes[6], "POST", q)
      BY <1>1, <1>2, ThreeSegments, PostRows
    <3>3. ~Matches(Routes[7], "POST", q)
      BY <1>1, <1>2, ThreeSegments, PostRows
    <3>4. ~Matches(Routes[10], "POST", q)
      BY <1>1, <1>2, ThreeSegments, PostRows
    <3>5. ~Matches(Routes[12], "POST", q)
      BY <1>1, <1>2, ThreeSegments, PostRows
    <3>6. ~Matches(Routes[13], "POST", q)
      BY <1>1, <1>2, ThreeSegments, PostRows
    <3>7. QED
      BY <3>1, <3>2, <3>3, <3>4, <3>5, <3>6
  <2>2. \A j \in 1 .. 23 : j \notin {2, 6, 7, 10, 12, 13, 21} => ~Matches(Routes[j], "POST", q)
    BY PostRows
  <2>3. QED
    BY <2>1, <2>2
<1>5. Target("POST", q) = Reached(Routes[21], q)
  BY <1>3, <1>4, FirstRowDecides
<1>6. QED
  BY <1>5, KindsOfRows, SuffixReached

LEMMA WorkflowExecutionProgressIsReached ==
    ASSUME NEW x, NEW q, Three(q, "workflow_executions", x, "progress")
    PROVE  Target("GET", q).to = "workflow_execution_progress" /\ Target("GET", q).id = <<x>>
<1>1. Len(q) = 3 /\ Len(q) > 1 /\ Len(q) > 2 /\ q[1] = "workflow_executions" /\ q[2] = x
  BY ThreeSegments
<1>2. Has(q, "progress")
  BY ThreeSegments, WordsBegin
<1>3. Matches(Routes[22], "GET", q)
  BY <1>1, <1>2, GetRows
<1>4. \A j \in 1 .. 22 - 1 : ~Matches(Routes[j], "GET", q)
  <2>1. /\ ~Matches(Routes[1], "GET", q) /\ ~Matches(Routes[3], "GET", q)
        /\ ~Matches(Routes[9], "GET", q) /\ ~Matches(Routes[11], "GET", q)
        /\ ~Matches(Routes[14], "GET", q) /\ ~Matches(Routes[16], "GET", q)
        /\ ~Matches(Routes[17], "GET", q) /\ ~Matches(Routes[20], "GET", q)
    <3>1. ~Matches(Routes[1], "GET", q)
      BY <1>1, <1>2, ThreeSegments, GetRows
    <3>2. ~Matches(Routes[3], "GET", q)
      BY <1>1, <1>2, ThreeSegments, GetRows
    <3>3. ~Matches(Routes[9], "GET", q)
      BY <1>1, <1>2, ThreeSegments, GetRows
    <3>4. ~Matches(Routes[11], "GET", q)
      BY <1>1, <1>2, ThreeSegments, GetRows
    <3>5. ~Matches(Routes[14], "GET", q)
      BY <1>1, <1>2, ThreeSegments, GetRows
    <3>6. ~Matches(Routes[16], "GET", q)
      BY <1>1, <1>2, ThreeSegments, GetRows
    <3>7. ~Matches(Routes[17], "GET", q)
      BY <1>1, <1>2, ThreeSegments, GetRows
    <3>8. ~Matches(Routes[20], "GET", q)
      BY <1>1, <1>2, ThreeSegments, GetRows
    <3>9. QED
      BY <3>1, <3>2, <3>3, <3>4, <3>5, <3>6, <3>7, <3>8
  <2>2. \A j \in 1 .. 23 : j \notin {1, 3, 9, 11, 14, 16, 17, 20, 22, 23} => ~Matches(Routes[j], "GET", q)
    BY GetRows
  <2>3. QED
    BY <2>1, <2>2
<1>5. Target("GET", q) = Reached(Routes[22], q)
  BY <1>3, <1>4, FirstRowDecides
<1>6. QED
  BY <1>5, KindsOfRows, SuffixReached

LEMMA WorkflowExecutionLogsIsReached ==
    ASSUME NEW x, ~Begins(x, "progress"), NEW q, Three(q, "workflow_executions", x, "logs")
    PROVE  Target("GET", q).to = "workflow_execution_logs" /\ Target("GET", q).id = <<x>>
<1>1. Len(q) = 3 /\ Len(q) > 1 /\ Len(q) > 2 /\ q[1] = "workflow_executions" /\ q[2] = x
  BY ThreeSegments
<1>2. Has(q, "logs") /\ ~Has(q, "progress")
  BY ThreeSegments, WordsBegin
<1>3. Matches(Routes[23], "GET", q)
  BY <1>1, <1>2, GetRows
<1>4. \A j \in 1 .. 23 - 1 : ~Matches(Routes[j], "GET", q)
  <2>1. /\ ~Matches(Routes[1], "GET", q) /\ ~Matches(Routes[3], "GET", q)
        /\ ~Matches(Routes[9], "GET", q) /\ ~Matches(Routes[11], "GET", q)
        /\ ~Matches(Routes[14], "GET", q) /\ ~Matches(Routes[16], "GET", q)
        /\ ~Matches(Routes[17], "GET", q) /\ ~Matches(Routes[20], "GET", q)
        /\ ~Matches(Routes[22], "GET", q)
    <3>1. ~Matches(Routes[1], "GET", q)
      BY <1>1, <1>2, ThreeSegments, GetRows
    <3>2. ~Matches(Routes[3], "GET", q)
      BY <1>1, <1>2, ThreeSegments, GetRows
    <3>3. ~Matches(Routes[9], "GET", q)
      BY <1>1, <1>2, ThreeSegments, GetRows
    <3>4. ~Matches(Routes[11], "GET", q)
      BY <1>1, <1>2, ThreeSegments, GetRows
    <3>5. ~Matches(Routes[14], "GET", q)
      BY <1>1, <1>2, ThreeSegments, GetRows
    <3>6. ~Matches(Routes[16], "GET", q)
      BY <1>1, <1>2, ThreeSegments, GetRows
    <3>7. ~Matches(Routes[17], "GET", q)
      BY <1>1, <1>2, ThreeSegments, GetRows
    <3>8. ~Matches(Routes[20], "GET", q)
      BY <1>1, <1>2, ThreeSegments, GetRows
    <3>9. ~Matches(Routes[22], "GET", q)
      BY <1>1, <1>2, ThreeSegments, GetRows
    <3>10. QED
      BY <3>1, <3>2, <3>3, <3>4, <3>5, <3>6, <3>7, <3>8, <3>9
  <2>2. \A j \in 1 .. 23 : j \notin {1, 3, 9, 11, 14, 16, 17, 20, 22, 23} => ~Matches(Routes[j], "GET", q)
    BY GetRows
  <2>3. QED
    BY <2>1, <2>2
<1>5. Target("GET", q) = Reached(Routes[23], q)
  BY <1>3, <1>4, FirstRowDecides
<1>6. QED
  BY <1>5, KindsOfRows, SuffixReached

-----------------------------------------------------------------------------
(* All of them, for which identifiers                                       *)

\* A request for an endpoint reaches its handler with the identifier it is to be given.
Arrives(e) == Target(e[1], e[2]).to = e[3] /\ Target(e[1], e[2]).id = e[4]

LEMMA ArrivesAt ==
    ASSUME NEW m, NEW q, NEW to, NEW id, Target(m, q).to = to, Target(m, q).id = id
    PROVE  Arrives(<<m, q, to, id>>)
BY DEF Arrives

LEMMA PlainReach ==
    ASSUME NEW x, IsPlain(x)
    PROVE  ReachFor(x)
<1>1. /\ x # Empty /\ x # "executions"
      /\ ~Begins(x, "start") /\ ~Begins(x, "execute") /\ ~Begins(x, "progress")
  BY Zenon DEF IsPlain
<1>2. Arrives(<<"GET", <<"agents">>, "list_agents", <<>>>>)
  <2>1. One(<<"agents">>, "agents")
    BY DEF One
  <2>2. Target("GET", <<"agents">>).to = "list_agents" /\ Target("GET", <<"agents">>).id = <<>>
    BY <1>1, <2>1, ListAgentsIsReached
  <2>3. QED
    BY <2>2, ArrivesAt
<1>3. Arrives(<<"POST", <<"agents">>, "create_agent", <<>>>>)
  <2>1. One(<<"agents">>, "agents")
    BY DEF One
  <2>2. Target("POST", <<"agents">>).to = "create_agent" /\ Target("POST", <<"agents">>).id = <<>>
    BY <1>1, <2>1, CreateAgentIsReached
  <2>3. QED
    BY <2>2, ArrivesAt
<1>4. Arrives(<<"GET", <<"agents", x>>, "get_agent", <<x>>>>)
  <2>1. Two(<<"agents", x>>, "agents", x)
    BY DEF Two
  <2>2. Target("GET", <<"agents", x>>).to = "get_agent" /\ Target("GET", <<"agents", x>>).id = <<x>>
    BY <1>1, <2>1, GetAgentIsReached
  <2>3. QED
    BY <2>2, ArrivesAt
<1>5. Arrives(<<"DELETE", <<"agents", x>>, "delete_agent", <<x>>>>)
  <2>1. Two(<<"agents", x>>, "agents", x)
    BY DEF Two
  <2>2. /\ Target("DELETE", <<"agents", x>>).to = "delete_agent"
        /\ Target("DELETE", <<"agents", x>>).id = <<x>>
    BY <1>1, <2>1, DeleteAgentIsReached
  <2>3. QED
    BY <2>2, ArrivesAt
<1>6. Arrives(<<"PUT", <<"agents", x, "start">>, "start_agent", <<x>>>>)
  <2>1. Three(<<"agents", x, "start">>, "agents", x, "start")
    BY DEF Three
  <2>2. /\ Target("PUT", <<"agents", x, "start">>).to = "start_agent"
        /\ Target("PUT", <<"agents", x, "start">>).id = <<x>>
    BY <1>1, <2>1, StartAgentIsReached
  <2>3. QED
    BY <2>2, ArrivesAt
<1>7. Arrives(<<"PUT", <<"agents", x, "stop">>, "stop_agent", <<x>>>>)
  <2>1. Three(<<"agents", x, "stop">>, "agents", x, "stop")
    BY DEF Three
  <2>2. /\ Target("PUT", <<"agents", x, "stop">>).to = "stop_agent"
        /\ Target("PUT", <<"agents", x, "stop">>).id = <<x>>
    BY <1>1, <2>1, StopAgentIsReached
  <2>3. QED
    BY <2>2, ArrivesAt
<1>8. Arrives(<<"POST", <<"agents", x, "execute">>, "execute_function", <<x>>>>)
  <2>1. Three(<<"agents", x, "execute">>, "agents", x, "execute")
    BY DEF Three
  <2>2. /\ Target("POST", <<"agents", x, "execute">>).to = "execute_function"
        /\ Target("POST", <<"agents", x, "execute">>).id = <<x>>
    BY <1>1, <2>1, ExecuteFunctionIsReached
  <2>3. QED
    BY <2>2, ArrivesAt
<1>9. Arrives(<<"POST", <<"agent", "execute">>, "simple_agent_execute", <<>>>>)
  <2>1. Two(<<"agent", "execute">>, "agent", "execute")
    BY DEF Two
  <2>2. /\ Target("POST", <<"agent", "execute">>).to = "simple_agent_execute"
        /\ Target("POST", <<"agent", "execute">>).id = <<>>
    BY <1>1, <2>1, SimpleAgentExecuteIsReached
  <2>3. QED
    BY <2>2, ArrivesAt
<1>10. Arrives(<<"GET", <<"status">>, "system_status", <<>>>>)
  <2>1. One(<<"status">>, "status")
    BY DEF One
  <2>2. Target("GET", <<"status">>).to = "system_status" /\ Target("GET", <<"status">>).id = <<>>
    BY <1>1, <2>1, SystemStatusIsReached
  <2>3. QED
    BY <2>2, ArrivesAt
<1>11. Arrives(<<"GET", <<"workflows">>, "list_workflows", <<>>>>)
  <2>1. One(<<"workflows">>, "workflows")
    BY DEF One
  <2>2. /\ Target("GET", <<"workflows">>).to = "list_workflows"
        /\ Target("GET", <<"workflows">>).id = <<>>
    BY <1>1, <2>1, ListWorkflowsIsReached
  <2>3. QED
    BY <2>2, ArrivesAt
<1>12. Arrives(<<"POST", <<"workflows">>, "register_workflow", <<>>>>)
  <2>1. One(<<"workflows">>, "workflows")
    BY DEF One
  <2>2. /\ Target("POST", <<"workflows">>).to = "register_workflow"
        /\ Target("POST", <<"workflows">>).id = <<>>
    BY <1>1, <2>1, RegisterWorkflowIsReached
  <2>3. QED
    BY <2>2, ArrivesAt
<1>13. Arrives(<<"GET", <<"workflows", x>>, "get_workflow", <<x>>>>)
  <2>1. Two(<<"workflows", x>>, "workflows", x)
    BY DEF Two
  <2>2. /\ Target("GET", <<"workflows", x>>).to = "get_workflow"
        /\ Target("GET", <<"workflows", x>>).id = <<x>>
    BY <1>1, <2>1, GetWorkflowIsReached
  <2>3. QED
    BY <2>2, ArrivesAt
<1>14. Arrives(<<"PUT", <<"workflows", x>>, "update_workflow", <<x>>>>)
  <2>1. Two(<<"workflows", x>>, "workflows", x)
    BY DEF Two
  <2>2. /\ Target("PUT", <<"workflows", x>>).to = "update_workflow"
        /\ Target("PUT", <<"workflows", x>>).id = <<x>>
    BY <1>1, <2>1, UpdateWorkflowIsReached
  <2>3. QED
    BY <2>2, ArrivesAt
<1>15. Arrives(<<"DELETE", <<"workflows", x>>, "delete_workflow", <<x>>>>)
  <2>1. Two(<<"workflows", x>>, "workflows", x)
    BY DEF Two
  <2>2. /\ Target("DELETE", <<"workflows", x>>).to = "delete_workflow"
        /\ Target("DELETE", <<"workflows", x>>).id = <<x>>
    BY <1>1, <2>1, DeleteWorkflowIsReached
  <2>3. QED
    BY <2>2, ArrivesAt
<1>16. Arrives(<<"POST", <<"workflows", x, "execute">>, "execute_workflow", <<x>>>>)
  <2>1. Three(<<"workflows", x, "execute">>, "workflows", x, "execute")
    BY DEF Three
  <2>2. /\ Target("POST", <<"workflows", x, "execute">>).to = "execute_workflow"
        /\ Target("POST", <<"workflows", x, "execute">>).id = <<x>>
    BY <1>1, <2>1, ExecuteWorkflowIsReached
  <2>3. QED
    BY <2>2, ArrivesAt
<1>17. Arrives(<<"GET", <<"workflows", "executions", x>>, "get_workflow_execution", <<x>>>>)
  <2>1. Three(<<"workflows", "executions", x>>, "workflows", "executions", x)
    BY DEF Three
  <2>2. /\ Target("GET", <<"workflows", "executions", x>>).to = "get_workflow_execution"
        /\ Target("GET", <<"workflows", "executions", x>>).id = <<x>>
    BY <1>1, <2>1, GetWorkflowExecutionIsReached
  <2>3. QED
    BY <2>2, ArrivesAt
<1>18. Arrives(<<"PUT", <<"workflows", "executions", x, "pause">>, "control_workflow_execution", <<x>>>>)
  <2>1. Four(<<"workflows", "executions", x, "pause">>, "workflows", "executions", x, "pause")
    BY DEF Four
  <2>2. /\ Target("PUT", <<"workflows", "executions", x, "pause">>).to = "control_workflow_execution"
        /\ Target("PUT", <<"workflows", "executions", x, "pause">>).id = <<x>>
    BY <1>1, <2>1, ControlWorkflowExecutionIsReached
  <2>3. QED
    BY <2>2, ArrivesAt
<1>19. Arrives(<<"GET", <<"workflows", "executions">>, "list_workflow_executions", <<>>>>)
  <2>1. Two(<<"workflows", "executions">>, "workflows", "executions")
    BY DEF Two
  <2>2. /\ Target("GET", <<"workflows", "executions">>).to = "list_workflow_executions"
        /\ Target("GET", <<"workflows", "executions">>).id = <<>>
    BY <1>1, <2>1, ListWorkflowExecutionsIsReached
  <2>3. QED
    BY <2>2, ArrivesAt
<1>20. Arrives(<<"GET", <<"workflow_templates">>, "get_workflow_templates", <<>>>>)
  <2>1. One(<<"workflow_templates">>, "workflow_templates")
    BY DEF One
  <2>2. /\ Target("GET", <<"workflow_templates">>).to = "get_workflow_templates"
        /\ Target("GET", <<"workflow_templates">>).id = <<>>
    BY <1>1, <2>1, GetWorkflowTemplatesIsReached
  <2>3. QED
    BY <2>2, ArrivesAt
<1>21. Arrives(<<"POST", <<"workflow_templates", x, "execute">>, "execute_workflow_template", <<x>>>>)
  <2>1. Three(<<"workflow_templates", x, "execute">>, "workflow_templates", x, "execute")
    BY DEF Three
  <2>2. /\ Target("POST", <<"workflow_templates", x, "execute">>).to = "execute_workflow_template"
        /\ Target("POST", <<"workflow_templates", x, "execute">>).id = <<x>>
    BY <1>1, <2>1, ExecuteWorkflowTemplateIsReached
  <2>3. QED
    BY <2>2, ArrivesAt
<1>22. Arrives(<<"GET", <<"workflow_executions", x, "progress">>, "workflow_execution_progress", <<x>>>>)
  <2>1. Three(<<"workflow_executions", x, "progress">>, "workflow_executions", x, "progress")
    BY DEF Three
  <2>2. /\ Target("GET", <<"workflow_executions", x, "progress">>).to = "workflow_execution_progress"
        /\ Target("GET", <<"workflow_executions", x, "progress">>).id = <<x>>
    BY <1>1, <2>1, WorkflowExecutionProgressIsReached
  <2>3. QED
    BY <2>2, ArrivesAt
<1>23. Arrives(<<"GET", <<"workflow_executions", x, "logs">>, "workflow_execution_logs", <<x>>>>)
  <2>1. Three(<<"workflow_executions", x, "logs">>, "workflow_executions", x, "logs")
    BY DEF Three
  <2>2. /\ Target("GET", <<"workflow_executions", x, "logs">>).to = "workflow_execution_logs"
        /\ Target("GET", <<"workflow_executions", x, "logs">>).id = <<x>>
    BY <1>1, <2>1, WorkflowExecutionLogsIsReached
  <2>3. QED
    BY <2>2, ArrivesAt
<1>24. \A e \in PrintedFor(x) : Arrives(e)
  BY <1>2, <1>3, <1>4, <1>5, <1>6, <1>7, <1>8, <1>9, <1>10, <1>11, <1>12, <1>13, <1>14, <1>15,
     <1>16, <1>17, <1>18, <1>19, <1>20, <1>21, <1>22, <1>23, Zenon DEF PrintedFor
<1>25. QED
  BY <1>24 DEF Arrives, ReachFor

\* The identifiers that are not plain: what takes one of their paths instead.
LEMMA NoNameIsNotFound ==
    ASSUME NEW q, Two(q, "agents", Empty)
    PROVE  Target("GET", q).to = "not_found"
<1>1. Len(q) = 2 /\ Len(q) > 1 /\ q[1] = "agents" /\ q[2] = Empty
  BY TwoSegments
<1>2. Matches(Routes[3], "GET", q)
  BY <1>1, GetRows
<1>3. \A j \in 1 .. 3 - 1 : ~Matches(Routes[j], "GET", q)
  <2>1. ~Matches(Routes[1], "GET", q)
    BY <1>1, TwoSegments, GetRows
  <2>2. \A j \in 1 .. 23 : j \notin {1, 3, 9, 11, 14, 16, 17, 20, 22, 23} => ~Matches(Routes[j], "GET", q)
    BY GetRows
  <2>3. QED
    BY <2>1, <2>2
<1>4. Target("GET", q) = Reached(Routes[3], q)
  BY <1>2, <1>3, FirstRowDecides
<1>5. Rest(q, <<"agents">>) = <<Empty>>
  <2>1. Rest(q, <<"agents">>) = SubSeq(q, 2, 2)
    <3>1. Len(<<"agents">>) + 1 = 2
      OBVIOUS
    <3>2. QED
      BY <1>1, <3>1 DEF Rest
  <2>2. QED
    BY <1>1, <2>1, OneLeft
<1>6. PlainRow(Routes[3], "agents", "get_agent")
  BY KindsOfRows
<1>7. <<"agents">> # <<"workflows", "executions">> /\ <<"agents">> # <<>>
  OBVIOUS
<1>8. Reached(Routes[3], q) = NotFound
  BY <1>5, <1>6, <1>7 DEF PlainRow, Reached
<1>9. NotFound.to = "not_found"
  BY DEF NotFound
<1>10. QED
  BY <1>4, <1>8, <1>9

LEMMA StartTakesStop ==
    ASSUME NEW x, Begins(x, "start"), NEW q, Three(q, "agents", x, "stop")
    PROVE  Target("PUT", q).to = "start_agent"
<1>1. Len(q) = 3 /\ Len(q) > 1 /\ q[1] = "agents" /\ Has(q, "start")
  BY ThreeSegments
<1>2. Matches(Routes[4], "PUT", q)
  BY <1>1, PutRows
<1>3. \A j \in 1 .. 4 - 1 : ~Matches(Routes[j], "PUT", q)
  BY PutRows
<1>4. Target("PUT", q) = Reached(Routes[4], q)
  BY <1>2, <1>3, FirstRowDecides
<1>5. SuffixRow(Routes[4], "agents", "start", "start_agent")
  BY KindsOfRows
<1>6. <<"agents">> # <<"workflows", "executions">> /\ <<"agents">> # <<>>
  OBVIOUS
<1>7. Reached(Routes[4], q).to = "start_agent"
  BY <1>5, <1>6 DEF SuffixRow, Reached
<1>8. QED
  BY <1>4, <1>7

LEMMA ProgressTakesLogs ==
    ASSUME NEW x, Begins(x, "progress"), NEW q, Three(q, "workflow_executions", x, "logs")
    PROVE  Target("GET", q).to = "workflow_execution_progress"
<1>1. Len(q) = 3 /\ Len(q) > 1 /\ q[1] = "workflow_executions" /\ Has(q, "progress")
  BY ThreeSegments
<1>2. Matches(Routes[22], "GET", q)
  BY <1>1, GetRows
<1>3. \A j \in 1 .. 22 - 1 : ~Matches(Routes[j], "GET", q)
  <2>1. /\ /\ ~Matches(Routes[1], "GET", q) /\ ~Matches(Routes[3], "GET", q)
        /\ ~Matches(Routes[9], "GET", q)
        /\ ~Matches(Routes[11], "GET", q) /\ ~Matches(Routes[14], "GET", q) /\ ~Matches(Routes[16], "GET", q)
        /\ ~Matches(Routes[17], "GET", q) /\ ~Matches(Routes[20], "GET", q)
    <3>1. /\ ~Matches(Routes[1], "GET", q) /\ ~Matches(Routes[9], "GET", q)
          /\ ~Matches(Routes[11], "GET", q)
      BY ThreeSegments, GetRows
    <3>2. ~Matches(Routes[16], "GET", q) /\ ~Matches(Routes[20], "GET", q)
      BY ThreeSegments, GetRows
    <3>3. /\ ~Matches(Routes[3], "GET", q) /\ ~Matches(Routes[14], "GET", q)
          /\ ~Matches(Routes[17], "GET", q)
      BY <1>1, GetRows
    <3>4. QED
      BY <3>1, <3>2, <3>3
  <2>2. \A j \in 1 .. 23 : j \notin {1, 3, 9, 11, 14, 16, 17, 20, 22, 23} => ~Matches(Routes[j], "GET", q)
    BY GetRows
  <2>3. QED
    BY <2>1, <2>2
<1>4. Target("GET", q) = Reached(Routes[22], q)
  BY <1>2, <1>3, FirstRowDecides
<1>5. SuffixRow(Routes[22], "workflow_executions", "progress", "workflow_execution_progress")
  BY KindsOfRows
<1>6. <<"workflow_executions">> # <<"workflows", "executions">> /\ <<"workflow_executions">> # <<>>
  OBVIOUS
<1>7. Reached(Routes[22], q).to = "workflow_execution_progress"
  BY <1>5, <1>6 DEF SuffixRow, Reached
<1>8. QED
  BY <1>4, <1>7

LEMMA ExecuteIsNotFound ==
    ASSUME NEW x, Begins(x, "execute"), x # "executions", NEW q, Two(q, "workflows", x)
    PROVE  Target("GET", q).to = "not_found"
<1>1. Len(q) = 2 /\ ~(Len(q) > 2) /\ q[1] = "workflows" /\ Has(q, "execute")
  BY TwoSegments
<1>2. \A j \in 1 .. 23 : ~Matches(Routes[j], "GET", q)
  <2>1. /\ ~Matches(Routes[1], "GET", q) /\ ~Matches(Routes[9], "GET", q)
        /\ ~Matches(Routes[11], "GET", q)
    BY TwoSegments, GetRows
  <2>2. ~Matches(Routes[20], "GET", q)
    BY TwoSegments, GetRows
  <2>3. ~Matches(Routes[16], "GET", q)
    BY TwoSegments, GetRows
  <2>4. /\ ~Matches(Routes[3], "GET", q) /\ ~Matches(Routes[14], "GET", q)
        /\ ~Matches(Routes[17], "GET", q)
    BY <1>1, GetRows
  <2>5. ~Matches(Routes[22], "GET", q) /\ ~Matches(Routes[23], "GET", q)
    BY <1>1, GetRows
  <2>6. \A j \in 1 .. 23 : j \notin {1, 3, 9, 11, 14, 16, 17, 20, 22, 23} => ~Matches(Routes[j], "GET", q)
    BY GetRows
  <2>7. QED
    BY <2>1, <2>2, <2>3, <2>4, <2>5, <2>6
<1>3. {i \in 1 .. Len(Routes) : Matches(Routes[i], "GET", q)} = {}
  BY <1>2, RoutesAre
<1>4. Target("GET", q) = NotFound /\ NotFound.to = "not_found"
  BY <1>3 DEF Target, NotFound
<1>5. QED
  BY <1>4

LEMMA OnlyPlainReach ==
    ASSUME NEW x, ReachFor(x)
    PROVE  IsPlain(x)
<1>1. /\ Target("GET", <<"agents", x>>).to = "get_agent"
      /\ Target("PUT", <<"agents", x, "stop">>).to = "stop_agent"
      /\ Target("GET", <<"workflows", x>>).to = "get_workflow"
      /\ Target("GET", <<"workflow_executions", x, "logs">>).to = "workflow_execution_logs"
  <2>1. /\ <<"GET", <<"agents", x>>, "get_agent", <<x>>>> \in PrintedFor(x)
        /\ <<"PUT", <<"agents", x, "stop">>, "stop_agent", <<x>>>> \in PrintedFor(x)
        /\ <<"GET", <<"workflows", x>>, "get_workflow", <<x>>>> \in PrintedFor(x)
        /\ <<"GET", <<"workflow_executions", x, "logs">>, "workflow_execution_logs", <<x>>>> \in PrintedFor(x)
    BY Zenon DEF PrintedFor
  <2>2. \A m, q, to, id : <<m, q, to, id>> \in PrintedFor(x) => Target(m, q).to = to
    BY DEF ReachFor
  <2>3. QED
    BY <2>1, <2>2, Zenon
<1>2. x # Empty
  <2>1. Two(<<"agents", x>>, "agents", x)
    BY DEF Two
  <2>2. QED
    BY <1>1, <2>1, NoNameIsNotFound
<1>3. x # "executions"
  <2>1. ASSUME x = "executions" PROVE FALSE
    <3>1. Two(<<"workflows", x>>, "workflows", "executions")
      BY <2>1 DEF Two
    <3>2. Target("GET", <<"workflows", x>>).to = "list_workflow_executions"
      BY <3>1, ListWorkflowExecutionsIsReached
    <3>3. QED
      BY <1>1, <3>2
  <2>2. QED
    BY <2>1
<1>4. ~Begins(x, "start")
  <2>1. Three(<<"agents", x, "stop">>, "agents", x, "stop")
    BY DEF Three
  <2>2. QED
    BY <1>1, <2>1, StartTakesStop
<1>5. ~Begins(x, "execute")
  <2>1. Two(<<"workflows", x>>, "workflows", x)
    BY DEF Two
  <2>2. QED
    BY <1>1, <1>3, <2>1, ExecuteIsNotFound
<1>6. ~Begins(x, "progress")
  <2>1. Three(<<"workflow_executions", x, "logs">>, "workflow_executions", x, "logs")
    BY DEF Three
  <2>2. QED
    BY <1>1, <2>1, ProgressTakesLogs
<1>7. QED
  BY <1>2, <1>3, <1>4, <1>5, <1>6, Zenon DEF IsPlain

\* An identifier may be put into every endpoint the server announces exactly if it is
\* plain: not empty, not "executions", and no beginning of another route's word.
THEOREM RoutesReach == \A x : ReachFor(x) <=> IsPlain(x)
BY PlainReach, OnlyPlainReach, Zenon

\* The announced endpoints of the run, for the identifiers it tries.
THEOREM PrintedDoReach == PrintedReach
BY RoutesReach, Zenon DEF PrintedReach

-----------------------------------------------------------------------------
(* Agent: what its functions make of a call                                 *)

\* The implementations by what can make them throw.
Guarded == {"BriefStep", "PlanBrief", "DeepStep", "DeepReport", "Documents", "InternetSearch",
            "ResearchByRetrieval", "Plain", "BriefCredibility"}
ByModel == {"Chat", "ResearchByModel", "ResearchResponse"}
ByParameters == {"AnalyzeBasic", "AnalyzeBrief", "SearchSuggestions"}
Implementations == Guarded \cup ByModel \cup ByParameters \cup {"OrganizeDocuments"}

LEMMA ResultsAre ==
    ASSUME NEW c
    PROVE  /\ Result("Plain", c) = Plain(c) /\ Result("Chat", c) = Chat(c)
           /\ Result("AnalyzeBasic", c) = AnalyzeBasic(c)
           /\ Result("ResearchByModel", c) = ResearchByModel(c)
           /\ Result("ResearchResponse", c) = ResearchResponse(c)
           /\ Result("AnalyzeBrief", c) = AnalyzeBrief(c) /\ Result("PlanBrief", c) = PlanBrief(c)
           /\ Result("BriefStep", c) = BriefStep(c) /\ Result("BriefCredibility", c) = BriefCredibility(c)
           /\ Result("Documents", c) = Documents(c) /\ Result("InternetSearch", c) = InternetSearch(c)
           /\ Result("ResearchByRetrieval", c) = ResearchByRetrieval(c)
           /\ Result("OrganizeDocuments", c) = OrganizeDocuments(c)
           /\ Result("SearchSuggestions", c) = SearchSuggestions(c)
           /\ Result("DeepStep", c) = DeepStep(c) /\ Result("DeepReport", c) = DeepReport(c)
BY DEF Result

\* What catches its exceptions never throws, whatever it is given.
LEMMA GuardedNeverThrow ==
    ASSUME NEW i \in Guarded, NEW c
    PROVE  Result(i, c) # "throws"
<1>1. /\ Plain(c) # "throws" /\ PlanBrief(c) # "throws" /\ BriefStep(c) # "throws"
      /\ BriefCredibility(c) # "throws" /\ Documents(c) # "throws" /\ InternetSearch(c) # "throws"
      /\ ResearchByRetrieval(c) # "throws" /\ DeepStep(c) # "throws" /\ DeepReport(c) # "throws"
  BY DEF Plain, PlanBrief, BriefStep, BriefCredibility, Documents, InternetSearch,
     ResearchByRetrieval,
         DeepStep, DeepReport
<1>2. QED
  BY <1>1, ResultsAre DEF Guarded

\* What the model writes says "success" only if the model answered, and a well-formed
\* call is never thrown out.
LEMMA ByModelDegrade ==
    ASSUME NEW i \in ByModel, NEW c
    PROVE  /\ Result(i, c) = "success" => ModelAnswers(c)
           /\ c.typed /\ c.given /\ c.named => Result(i, c) # "throws"
<1>1. /\ Chat(c) = "success" => ModelAnswers(c)
      /\ ResearchByModel(c) = "success" => ModelAnswers(c)
      /\ ResearchResponse(c) = "success" => ModelAnswers(c)
  BY DEF Chat, ResearchByModel, ResearchResponse, ModelAnswers
<1>2. c.typed /\ c.given /\ c.named =>
         Chat(c) # "throws" /\ ResearchByModel(c) # "throws" /\ ResearchResponse(c) # "throws"
  BY DEF Chat, ResearchByModel, ResearchResponse, Unusable
<1>3. QED
  BY <1>1, <1>2, ResultsAre DEF ByModel

LEMMA ByParametersDegrade ==
    ASSUME NEW i \in ByParameters, NEW c, c.typed, c.given
    PROVE  Result(i, c) # "throws"
<1>1. AnalyzeBasic(c) # "throws" /\ AnalyzeBrief(c) # "throws" /\ SearchSuggestions(c) # "throws"
  BY DEF AnalyzeBasic, AnalyzeBrief, SearchSuggestions, Unusable
<1>2. QED
  BY <1>1, ResultsAre DEF ByParameters

LEMMA OrganizeThrows ==
    ASSUME NEW c, c.typed, Result("OrganizeDocuments", c) = "throws"
    PROVE  ~c.available
BY ResultsAre DEF OrganizeDocuments

\* A later registration of a name replaces the earlier one.
LEMMA LaterReplaces ==
    ASSUME NEW earlier, NEW later
    PROVE  /\ DOMAIN Replaced(earlier, later) = DOMAIN later \cup DOMAIN earlier
           /\ \A n \in DOMAIN later : Replaced(earlier, later)[n] = later[n]
           /\ \A n \in DOMAIN earlier :
                 n \in DOMAIN later \/ Replaced(earlier, later)[n] = earlier[n]
BY DEF Replaced

LEMMA Sets ==
    /\ \A n \in DOMAIN BuiltinFunctions : BuiltinFunctions[n] \in Implementations \ {"OrganizeDocuments"}
    /\ \A n \in DOMAIN BriefFunctions : BriefFunctions[n] \in Implementations \ {"OrganizeDocuments"}
    /\ \A n \in DOMAIN DeepFunctions : DeepFunctions[n] \in {"DeepStep", "DeepReport"}
    /\ \A n \in DOMAIN RetrievalFunctions :
          /\ RetrievalFunctions[n] \in Implementations
          /\ RetrievalFunctions[n] = "OrganizeDocuments" => n = "organize_documents"
<1>1. \A n \in DOMAIN BuiltinFunctions : BuiltinFunctions[n] \in Implementations \ {"OrganizeDocuments"}
  BY DEF BuiltinFunctions, Implementations, Guarded, ByModel, ByParameters
<1>2. \A n \in DOMAIN BriefFunctions : BriefFunctions[n] \in Implementations \ {"OrganizeDocuments"}
  BY DEF BriefFunctions, Implementations, Guarded, ByModel, ByParameters
<1>3. \A n \in DOMAIN DeepFunctions : DeepFunctions[n] \in {"DeepStep", "DeepReport"}
  BY DEF DeepFunctions
<1>4. \A n \in DOMAIN RetrievalFunctions :
          /\ RetrievalFunctions[n] \in Implementations
          /\ RetrievalFunctions[n] = "OrganizeDocuments" => n = "organize_documents"
  BY DEF RetrievalFunctions, Implementations, Guarded, ByModel, ByParameters
<1>5. QED
  BY <1>1, <1>2, <1>3, <1>4

\* One set of functions: each name has an implementation.
Suits(k, i) == i \in Implementations /\ (i = "OrganizeDocuments" => k = "organize_documents")
AllSuit(f) == \A k \in DOMAIN f : Suits(k, f[k])

\* Only organize_documents is implemented by what throws for want of the service, in both
\* builds, and the functions of deep research are those registered last.
LEMMA RegisteredAre ==
    ASSUME NEW retrieval \in BOOLEAN, NEW n \in DOMAIN Registered(retrieval)
    PROVE  /\ Registered(retrieval)[n] \in Implementations
           /\ Registered(retrieval)[n] = "OrganizeDocuments" => n = "organize_documents"
           /\ n \in DOMAIN DeepFunctions /\ retrieval => Registered(retrieval)[n] \in {"DeepStep", "DeepReport"}
<1> DEFINE deep == Replaced(Replaced(AlwaysRegistered, RetrievalFunctions), DeepFunctions)
<1>1. AllSuit(BuiltinFunctions) /\ AllSuit(BriefFunctions) /\ AllSuit(RetrievalFunctions)
  BY Sets DEF AllSuit, Suits
<1>2. AllSuit(DeepFunctions)
  BY Sets DEF AllSuit, Suits, Implementations, Guarded
<1>3. ASSUME NEW f, NEW g, AllSuit(f), AllSuit(g)
      PROVE  AllSuit(Replaced(f, g))
  <2>1. ASSUME NEW k \in DOMAIN Replaced(f, g)
        PROVE  (k \in DOMAIN g /\ Replaced(f, g)[k] = g[k]) \/ (k \in DOMAIN f /\ Replaced(f, g)[k] = f[k])
    <3>1. DOMAIN Replaced(f, g) = DOMAIN g \cup DOMAIN f
      BY LaterReplaces, Zenon
    <3>2. CASE k \in DOMAIN g
      BY <3>2, LaterReplaces, Zenon
    <3>3. CASE k \notin DOMAIN g
      <4>1. k \in DOMAIN f
        BY <2>1, <3>1, <3>3, Zenon
      <4>2. QED
        BY <3>3, <4>1, LaterReplaces, Zenon
    <3>4. QED
      BY <3>2, <3>3
  <2>2. QED
    BY <1>3, <2>1, Zenon DEF AllSuit
<1>4. AllSuit(AlwaysRegistered) /\ AllSuit(deep)
  BY <1>1, <1>2, <1>3 DEF AlwaysRegistered
<1>5. Registered(retrieval) = IF retrieval THEN deep ELSE AlwaysRegistered
  BY DEF Registered
<1>6. \A k \in DOMAIN DeepFunctions : deep[k] \in {"DeepStep", "DeepReport"}
  <2>1. \A k \in DOMAIN DeepFunctions : deep[k] = DeepFunctions[k]
    BY LaterReplaces, Zenon
  <2>2. QED
    BY <2>1, Sets
<1> HIDE DEF deep
<1>7. CASE retrieval
  <2>1. Registered(retrieval) = deep
    BY <1>5, <1>7
  <2>2. n \in DOMAIN deep
    BY <2>1
  <2>3. Suits(n, deep[n])
    BY <1>4, <2>2, Zenon DEF AllSuit
  <2>4. n \in DOMAIN DeepFunctions => deep[n] \in {"DeepStep", "DeepReport"}
    BY <1>6
  <2>5. QED
    BY <2>1, <2>3, <2>4 DEF Suits
<1>8. CASE ~retrieval
  <2>1. Registered(retrieval) = AlwaysRegistered
    BY <1>5, <1>8
  <2>2. n \in DOMAIN AlwaysRegistered
    BY <2>1
  <2>3. Suits(n, AlwaysRegistered[n])
    BY <1>4, <2>2, Zenon DEF AllSuit
  <2>4. QED
    BY <1>8, <2>1, <2>3 DEF Suits
<1>9. QED
  BY <1>7, <1>8

\* A well-formed call throws in no function but organize_documents, and there only
\* for want of the retrieval manager; none says "success" for a model that did not
\* answer; and deep research never throws.
THEOREM CallsDoDegrade == CallsDegrade
<1> SUFFICES ASSUME NEW retrieval \in BOOLEAN, NEW call \in Calls, call.given, call.named,
                    NEW name \in DOMAIN Registered(retrieval)
             PROVE  LET outcome == Execute(retrieval, TRUE, name, call)
                    IN  /\ call.typed /\ outcome = "throws"
                              => name = "organize_documents" /\ ~call.available
                        /\ outcome = "success" /\ Registered(retrieval)[name] \in {"Chat", "ResearchByModel", "ResearchResponse"}
                              => ModelAnswers(call)
                        /\ name \in DOMAIN DeepFunctions /\ retrieval => outcome # "throws"
  BY DEF CallsDegrade
<1> DEFINE i == Registered(retrieval)[name]
<1>1. Execute(retrieval, TRUE, name, call) = Result(i, call)
  BY DEF Execute
<1>2. /\ i \in Implementations /\ (i = "OrganizeDocuments" => name = "organize_documents")
      /\ name \in DOMAIN DeepFunctions /\ retrieval => i \in {"DeepStep", "DeepReport"}
  BY RegisteredAre
<1> HIDE DEF i
<1>3. call.typed /\ Result(i, call) = "throws" => name = "organize_documents" /\ ~call.available
  <2>1. CASE i \in Guarded
    BY <2>1, GuardedNeverThrow
  <2>2. CASE i \in ByModel
    BY <2>2, ByModelDegrade
  <2>3. CASE i \in ByParameters
    BY <2>3, ByParametersDegrade
  <2>4. CASE i = "OrganizeDocuments"
    BY <1>2, <2>4, OrganizeThrows
  <2>5. QED
    BY <1>2, <2>1, <2>2, <2>3, <2>4 DEF Implementations
<1>4. Result(i, call) = "success" /\ i \in {"Chat", "ResearchByModel", "ResearchResponse"} =>
         ModelAnswers(call)
  BY ByModelDegrade DEF ByModel
<1>5. i \in {"DeepStep", "DeepReport"} => Result(i, call) # "throws"
  BY GuardedNeverThrow DEF Guarded
<1>6. QED
  BY <1>1, <1>2, <1>3, <1>4, <1>5 DEF i
=============================================================================
