----------------------------- MODULE MCPipeline -----------------------------
(***************************************************************************)
(* The sequential parts of the pipeline and its tools: the graph           *)
(* algorithms of libdsa on every loop-free graph over a few hosts, its     *)
(* estimators in the tools that compare them, on short inputs, its trie on *)
(* short addresses, and zt-pipeline from its configuration to its alert    *)
(* handlers on small configurations.  One of them runs in a behaviour, the *)
(* others stay where they start.                                           *)
(***************************************************************************)
EXTENDS CommGraph, SequencesExt

CONSTANTS
    NoCall,       \* reachable_within was not called
    Limits,       \* values of max_hops
    Sources, Rows, Columns, Hash, K, Threshold, WindowNs, Word, Timestamps, MaxEvents,  \* PortScanDetector
    MaxStream,    \* TraceAlgorithms
    Width, Labels,\* LpmTrie
    NotANumber, Unset, MaxAlerts, Documents, Environments,  \* PipelineMain
    MaxSections   \* bound: sections of a document of the run

ASSUME SketchAssumption ==
    Rows # {} /\ Hash \in [Rows -> [Sources -> Columns]]

\* HeavyHitters' constructor refuses less than 2 counters.
ASSUME EstimatorAssumption ==
    /\ K \in Nat /\ K >= 2
    /\ Threshold \in Nat /\ WindowNs \in Nat /\ Word \in Nat \ {0}
    /\ Timestamps \subseteq 0..(Word - 1)

\* The configured max_hops is not negative; load_config does not check it.
ASSUME HopsAssumption == Limits \subseteq Nat

ASSUME TrieAssumption == Width \in Nat

\* getenv tells a variable that is not set from an empty one.
ASSUME UnsetAssumption == Unset # ""

VARIABLES
    running,                                \* the algorithm under test
    edges, sccs,                            \* its graph, and its components
    timer, disc, low, stk, calls,           \* Tarjan
    pass, visited, dfs, finished, comp,     \* Kosaraju
    source, maxHops, algorithm, result, queue, heap,   \* Reachability
    start, sketch, counters, exact, n, alerted, total, \* PortScanDetector
    traced,                                 \* TraceAlgorithms, with some of these
    trie, count, table,                     \* LpmTrie
    phase, doc, env, cfg, chain, healthy,   \* PipelineMain
    sent, next, alertsCount, stats, out, missed

graphVars    == <<edges, sccs>>
tarjanVars   == <<timer, disc, low, stk, calls>>
kosarajuVars == <<pass, visited, dfs, finished, comp>>
reachVars    == <<source, maxHops, algorithm, result, queue, heap>>
scanVars     == <<start, sketch, counters, exact, n, alerted, total>>
trieVars     == <<trie, count, table>>
mainVars     == <<phase, doc, env, cfg, chain, healthy, sent, next, alertsCount, stats, out, missed>>
searchVars   == <<graphVars, tarjanVars, kosarajuVars, reachVars>>
vars         == <<running, searchVars, scanVars, traced, trieVars, mainVars>>

\* A neighbour that is the vertex itself is one that has been seen.
AllEdges == {e \in Hosts \X Hosts : e[1] # e[2]}

T == INSTANCE Tarjan WITH Edges <- AllEdges
B == INSTANCE Kosaraju WITH Edges <- AllEdges
R == INSTANCE Reachability WITH Edges <- AllEdges, Algorithms <- {"bfs", "dijkstra"}

\* Four sources, two columns: each row takes a different pair together.
MCHash == [r \in Rows |-> [s \in Sources |->
               IF s = "s1" \/ (s = "s2" /\ r = "r1") \/ (s = "s3" /\ r = "r2") THEN 1 ELSE 2]]

D == INSTANCE PortScanDetector
A == INSTANCE TraceAlgorithms WITH Keys <- Sources,
         table <- sketch, tracked <- traced, mg <- counters, m <- total
L == INSTANCE LpmTrie

-----------------------------------------------------------------------------
(***************************************************************************)
(* The configurations of the run: up to MaxSections different sections, in *)
(* any order, from these.                                                  *)
(***************************************************************************)
Algorithm(sub, name, params) == [sub |-> sub, name |-> name, params |-> params]

FrequencyEstimators ==
    {Algorithm("frequency_estimator", "count_min_sketch", <<<<"width", "2048">>, <<"threshold", "40">>>>),
     Algorithm("frequency_estimator", "bloom_filter", <<>>),
     Algorithm("frequency_estimator", "hash_map_exact", <<<<"threshold", NotANumber>>>>)}

OtherAlgorithms ==
    <<Algorithm("scc_detector", "tarjan", <<>>),
      Algorithm("reachability", "bfs", <<<<"max_hops", "3">>>>),
      Algorithm("ip_classifier", "lpm_trie", <<>>)>>

Cidr(prefix, len) == [prefix |-> prefix, len |-> len, sized |-> TRUE, quad |-> TRUE]

Handler(name, params) == [name |-> name, params |-> params]

Rule(type, severity) == [type |-> type, severity |-> severity]

Bodies ==
    [algorithms |-> {<<f>> \o OtherAlgorithms : f \in FrequencyEstimators}
                    \cup {Append(OtherAlgorithms, f) : f \in {x \in FrequencyEstimators : x.name = "count_min_sketch"}},
     networks |->
        {<<[cidr |-> Cidr("10.244.0.0", "16"), rest |-> <<<<"label", "1">>, <<"name", "pods">>>>],
           [cidr |-> Cidr("10.96.0.0", "12"), rest |-> <<<<"name", "services">>, <<"label", "2">>>>]>>,
         <<[cidr |-> [Cidr("10.0.0", "8") EXCEPT !.quad = FALSE], rest |-> <<<<"name", "typo">>>>],
           [cidr |-> [Cidr("10.0.0.0", "") EXCEPT !.sized = FALSE], rest |-> <<<<"name", "bare">>>>],
           [cidr |-> Cidr("10.96.0.0", "12"), rest |-> <<<<"label", "2">>>>]>>,
         <<[cidr |-> Cidr("10.96.0.0", NotANumber), rest |-> <<<<"name", "bad">>>>]>>},
     alert_handlers |->
        {<<Handler("file", <<<<"path", "a.json">>>>),
           Handler("nats", <<<<"url", "nats:4222">>, <<"subject", "raw">>>>)>>,
         <<Handler("stderr", <<>>), Handler("webhook", <<>>)>>,
         <<Handler("stdout", <<<<"stream", "stdout">>>>), Handler("nats", <<>>)>>},
     severity_rules |->
        {<<Rule("port_scan", "critical"), Rule("port_scan", "low")>>, <<Rule("scc_anomaly", "urgent")>>},
     event_source |-> {<<<<"type", "file">>, <<"path", "events.json">>>>, <<<<"type", "ebpf">>>>},
     analysis |-> {<<<<"window_seconds", "60">>, <<"scc_interval_seconds", "10">>>>,
                   <<<<"window_seconds", NotANumber>>>>},
     output |-> {<<<<"alerts_file", "b.json">>>>},
     soc |-> {<<<<"node_name", "n1">>, <<"namespace", "zt">>>>, <<<<"node_name", "">>>>}]

AllSections == UNION {{s} \X Bodies[s] : s \in DOMAIN Bodies}

LongChain == <<Handler("stderr", <<>>), Handler("nats", <<>>), Handler("file", <<>>)>>

MCDocuments ==
    UNION {{d \in [1..len -> AllSections] : \A i, j \in 1..len : d[i][1] = d[j][1] => i = j} :
               len \in 1..MaxSections}
    \cup {<<<<"algorithms", a>>, <<"alert_handlers", LongChain>>>> : a \in Bodies.algorithms}

MCEnvironments ==
    {[NODE_NAME |-> Unset, HOSTNAME |-> "host", POD_NAMESPACE |-> "zt"],
     [NODE_NAME |-> "", HOSTNAME |-> "host", POD_NAMESPACE |-> Unset],
     [NODE_NAME |-> Unset, HOSTNAME |-> Unset, POD_NAMESPACE |-> Unset]}

P == INSTANCE PipelineMain WITH count <- alertsCount

ASSUME DocumentsAssumption == \A d \in Documents : P!IsDocument(d)

-----------------------------------------------------------------------------
TarjanRests   == timer = 0 /\ disc = <<>> /\ low = <<>> /\ stk = <<>> /\ calls = <<>>
KosarajuRests == pass = 1 /\ visited = {} /\ dfs = <<>> /\ finished = <<>> /\ comp = {}
ReachRests    == source = NoCall /\ maxHops = 0 /\ algorithm = "none"
                 /\ result = <<>> /\ queue = <<>> /\ heap = {}
MainRests     == phase = "loading" /\ doc = <<>> /\ env = <<>> /\ cfg = <<>> /\ chain = <<>>
                 /\ healthy = {} /\ sent = <<>> /\ next = 0 /\ alertsCount = 0 /\ stats = -1
                 /\ out = <<>> /\ missed = <<>>
SearchRests   == edges = {} /\ sccs = {} /\ TarjanRests /\ KosarajuRests /\ ReachRests

Init ==
    /\ D!Init /\ L!Init /\ traced = <<>>
    /\ \/ running = "tarjan" /\ T!Init /\ KosarajuRests /\ ReachRests /\ MainRests
       \/ running = "kosaraju" /\ B!Init /\ TarjanRests /\ ReachRests /\ MainRests
       \/ /\ running = "reachable_within"
          /\ R!Init /\ sccs = {} /\ TarjanRests /\ KosarajuRests /\ MainRests
       \/ running \in {"portscan", "trace", "lpm_trie"} /\ SearchRests /\ MainRests
       \/ running = "main" /\ P!Init /\ SearchRests

Next ==
    \/ /\ running = "tarjan" /\ T!Next
       /\ UNCHANGED <<running, kosarajuVars, reachVars, scanVars, traced, trieVars, mainVars>>
    \/ /\ running = "kosaraju" /\ B!Next
       /\ UNCHANGED <<running, tarjanVars, reachVars, scanVars, traced, trieVars, mainVars>>
    \/ /\ running = "reachable_within" /\ R!Next
       /\ UNCHANGED <<running, sccs, tarjanVars, kosarajuVars, scanVars, traced, trieVars, mainVars>>
    \/ /\ running = "portscan" /\ D!Next
       /\ UNCHANGED <<running, searchVars, traced, trieVars, mainVars>>
    \/ /\ running = "trace" /\ A!Next
       /\ UNCHANGED <<running, searchVars, start, n, alerted, trieVars, mainVars>>
    \/ /\ running = "lpm_trie" /\ L!Next
       /\ UNCHANGED <<running, searchVars, scanVars, traced, mainVars>>
    \/ /\ running = "main" /\ P!Next
       /\ UNCHANGED <<running, searchVars, scanVars, traced, trieVars>>

Spec == Init /\ [][Next]_vars

(* Tarjan::find_sccs returns the strongly connected components.             *)
TarjanFindsSccs == running = "tarjan" => T!FindsSccs

(* Kosaraju::find_sccs returns the strongly connected components.           *)
KosarajuFindsSccs == running = "kosaraju" => B!FindsSccs

(* Both implementations of reachable_within return the hosts within         *)
(* max_hops, with their distances.                                          *)
FindsNeighbourhood == running = "reachable_within" => R!FindsNeighbourhood

(* Of the three detectors on one input, Misra-Gries alerts a part of the    *)
(* scans, the exact counters all of them and the sketch at least these.     *)
AlertsAreNested == running = "portscan" => D!AlertsAreNested

(* LPMTrie::lookup returns the label of the longest prefix that is in the   *)
(* trie after any insertions and removals.                                  *)
LookupIsLongestMatch == running = "lpm_trie" => L!LookupIsLongestMatch

(* The two estimators bracket the true frequency as trace_algorithms prints, *)
(* and its own Misra-Gries table is the library's, on every stream.          *)
BracketsFrequency == running = "trace" => A!BracketsFrequency

(* load_config stores what the configuration says, whatever sections it has  *)
(* and in whatever order.                                                    *)
LoadsDocument == running = "main" => P!LoadsDocument

(* zt-pipeline only runs with all the handlers its configuration lists.      *)
RunsWholeChain == running = "main" => P!RunsWholeChain

(* A handler that fails keeps no other handler from any alert.               *)
FailuresAreIsolated == running = "main" => P!FailuresAreIsolated

(* Alerts carry the severity and the node that configuration and environment *)
(* give them.                                                                *)
AlertsAsConfigured == running = "main" => P!AlertsAsConfigured

\* The algorithms do not tell hosts apart.
HostSymmetry == Permutations(Hosts)
=============================================================================
