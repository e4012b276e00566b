---------------------------- MODULE PipelineMain ----------------------------
(***************************************************************************)
(* zt-pipeline from its configuration file to its last alert: main loads   *)
(* the file, creates the algorithms and the chain of alert handlers it     *)
(* names, hands every alert of the event loop to each handler in turn, and *)
(* writes its statistics when the input ends.  The event loop itself is    *)
(* Engine's; here an alert is raised at any time.                          *)
(*                                                                         *)
(* doc is the configuration as its author means it: a sequence of sections *)
(* <<name, entries>> whose lines (Lines) are what load_config reads.       *)
(***************************************************************************)
EXTENDS ConfigLoader

CONSTANTS
    Documents,      \* the configurations
    Environments,   \* values of NODE_NAME, HOSTNAME and POD_NAMESPACE
    Unset,          \* a variable that is not in the environment
    MaxAlerts       \* bound: alerts in one behaviour

VARIABLES
    phase,      \* where main is
    doc, env,   \* what it was started with
    cfg,        \* PipelineConfig
    chain,      \* handlers_
    healthy,    \* the handlers whose stream has not gone bad
    sent,       \* the alerts given to chain.send
    next,       \* the handler chain.send calls next; 0 outside of send
    count,      \* alerts_count
    stats,      \* what write_stats wrote; -1 before
    out,        \* what each handler has delivered
    missed      \* the alerts (positions in sent) at which each handler failed

vars == <<phase, doc, env, cfg, chain, healthy, sent, next, count, stats, out, missed>>

IsList(s) == Len(s) \in Nat /\ s = [i \in 1..Len(s) |-> s[i]]

\* Any number of different sections, each a list of entries of any length.
\* Algorithms are known ones, and section soc gives no key twice.
IsDocument(d) ==
    /\ IsList(d) /\ \A i \in DOMAIN d : IsList(d[i][2])
    /\ \A i, j \in DOMAIN d : d[i][1] = d[j][1] => i = j
    /\ \A i \in DOMAIN d : d[i][1] = "algorithms" => \A k \in DOMAIN d[i][2] : d[i][2][k].sub \in Algorithms
    /\ \A i \in DOMAIN d : d[i][1] = "soc" =>
          \A j, k \in DOMAIN d[i][2] : d[i][2][j][1] = d[i][2][k][1] => j = k

Init ==
    /\ phase = "loading" /\ doc \in Documents /\ env \in Environments
    /\ cfg = EmptyConfig /\ chain = <<>> /\ healthy = {}
    /\ sent = <<>> /\ next = 0 /\ count = 0 /\ stats = -1
    /\ out = <<>> /\ missed = <<>>

-----------------------------------------------------------------------------
(***************************************************************************)
(* The lines of a document, laid out as in config/pipeline.yaml.           *)
(***************************************************************************)
Line(indent, dash, key, val) == [indent |-> indent, dash |-> dash, key |-> key, val |-> val]

Pairs(indent, pairs) ==
    [i \in DOMAIN pairs |-> Line(indent, FALSE, pairs[i][1], pairs[i][2])]

WithParams(indent, pairs) ==
    IF pairs = <<>> THEN <<>>
    ELSE <<Line(indent, FALSE, "params", "")>> \o Pairs(indent + 2, pairs)

EntryLines(section, e) ==
    CASE section = "algorithms" ->
            <<Line(2, FALSE, e.sub, ""), Line(4, FALSE, "name", e.name)>> \o WithParams(4, e.params)
      [] section = "networks" -> <<Line(2, TRUE, "cidr", e.cidr)>> \o Pairs(4, e.rest)
      [] section = "alert_handlers" -> <<Line(2, TRUE, "name", e.name)>> \o WithParams(4, e.params)
      [] section = "severity_rules" ->
            <<Line(2, TRUE, "type", e.type), Line(4, FALSE, "severity", e.severity)>>
      [] OTHER -> Pairs(2, <<e>>)

SectionLines(s) ==
    <<Line(0, FALSE, s[1], "")>>
    \o FlattenSeq([i \in DOMAIN s[2] |-> EntryLines(s[1], s[2][i])])

Lines(d) == FlattenSeq([i \in DOMAIN d |-> SectionLines(d[i])])

-----------------------------------------------------------------------------
(***************************************************************************)
(* Start-up.                                                               *)
(***************************************************************************)
Exit(code) == phase' = code

\* None of the candidate paths opens, or load_config throws: return 1.
LoadFile ==
    /\ phase = "loading"
    /\ \/ Exit("exit 1") /\ UNCHANGED cfg
       \/ LET loaded == LoadConfig(Lines(doc)) IN
          IF loaded.thrown THEN Exit("exit 1") /\ UNCHANGED cfg
          ELSE cfg' = loaded.cfg /\ phase' = "algorithms"
    /\ UNCHANGED <<doc, env, chain, healthy, sent, next, count, stats, out, missed>>

Setting(owner, key, default) ==
    IF <<owner, key>> \in DOMAIN cfg.settings THEN cfg.settings[<<owner, key>>] ELSE default

Registered ==
    [frequency_estimator |-> {"count_min_sketch", "hash_map_exact", "heavy_hitters"},
     scc_detector        |-> {"tarjan", "kosaraju"},
     reachability        |-> {"bfs", "dijkstra"},
     ip_classifier       |-> {"lpm_trie"}]

\* Registry::create throws on an unknown name, and nothing catches it.
CreateAlgorithms ==
    /\ phase = "algorithms"
    /\ phase' = IF \A a \in Algorithms : Setting(a, "name", "") \in Registered[a]
                THEN "source" ELSE "terminate"
    /\ UNCHANGED <<doc, env, cfg, chain, healthy, sent, next, count, stats, out, missed>>

OpenSource ==
    /\ phase = "source"
    /\ \/ phase' = "handlers"
       \/ Setting("event_source", "type", "") = "file" /\ Exit("exit 1")
    /\ UNCHANGED <<doc, env, cfg, chain, healthy, sent, next, count, stats, out, missed>>

HandlerKinds == {"file", "stdout", "stderr", "nats"}

\* Without alert_handlers, one file handler on output.alerts_file.
Entries ==
    IF cfg.handlers # <<>> THEN cfg.handlers
    ELSE <<[name |-> "file",
            params |-> [path |-> Setting("output", "alerts_file", "output/alerts.json")]]>>

Param(e, key, default) == IF key \in DOMAIN e.params THEN e.params[key] ELSE default

\* The sink a factory makes.  "stdout" and "stderr" share one, which looks at
\* the parameter only.
Sink(e) ==
    CASE e.name = "file" -> <<"file", Param(e, "path", "output/alerts.json")>>
      [] e.name = "nats" -> <<"nats", Param(e, "subject", "zt.alerts.raw")>>
      [] OTHER -> <<"stream", IF Param(e, "stream", "stderr") = "stderr" THEN "stderr" ELSE "stdout">>

CreateHandlerOrSkip ==
    /\ phase = "handlers" /\ Len(chain) < Len(Entries)
    /\ LET e == Entries[Len(chain) + 1] IN
       /\ chain' = Append(chain, IF e.name \in HandlerKinds THEN Sink(e) ELSE <<"stream", "stderr">>)
       /\ healthy' = healthy \cup {Len(chain) + 1}
       /\ out' = Append(out, <<>>) /\ missed' = Append(missed, {})
       /\ UNCHANGED phase
    /\ UNCHANGED <<doc, env, cfg, sent, next, count, stats>>

\* An unknown name, a file that does not open or a NATS server that does not
\* answer ends the process, whatever handlers it has by then.
CreateHandler ==
    /\ phase = "handlers" /\ Len(chain) < Len(Entries)
    /\ LET e == Entries[Len(chain) + 1] IN
       \/ /\ e.name \notin {"stdout", "stderr"}
          /\ Exit("exit 1") /\ UNCHANGED <<chain, healthy, out, missed>>
       \/ /\ e.name \in HandlerKinds
          /\ chain' = Append(chain, Sink(e)) /\ healthy' = healthy \cup {Len(chain) + 1}
          /\ out' = Append(out, <<>>) /\ missed' = Append(missed, {})
          /\ UNCHANGED phase
    /\ UNCHANGED <<doc, env, cfg, sent, next, count, stats>>

StartLoop ==
    /\ phase = "handlers" /\ Len(chain) = Len(Entries)
    /\ phase' = "running"
    /\ UNCHANGED <<doc, env, cfg, chain, healthy, sent, next, count, stats, out, missed>>

-----------------------------------------------------------------------------
(***************************************************************************)
(* Alerts.                                                                 *)
(***************************************************************************)
AlertTypes == {"port_scan", "blast_radius", "scc_anomaly"}

DefaultSeverity(type) == IF type = "port_scan" THEN "medium" ELSE "high"

ParseSeverity(s) == IF s \in {"low", "medium", "high", "critical"} THEN s ELSE "medium"

\* The rules for a type, by their place in the list.
RulesFor(type) == {k \in DOMAIN cfg.rules : cfg.rules[k].type = type}

SeverityForLast(type) ==
    IF RulesFor(type) = {} THEN DefaultSeverity(type)
    ELSE ParseSeverity(cfg.rules[Max(RulesFor(type))].severity)

\* severity_for: the first rule for the type.
SeverityFor(type) ==
    IF RulesFor(type) = {} THEN DefaultSeverity(type)
    ELSE ParseSeverity(cfg.rules[Min(RulesFor(type))].severity)

\* A variable that is set but empty counts as set.
ResolveNodeName(name) ==
    IF name # "" THEN name
    ELSE IF env.NODE_NAME # Unset THEN env.NODE_NAME
    ELSE IF env.HOSTNAME # Unset THEN env.HOSTNAME ELSE ""

ResolveNamespace(ns) ==
    IF ns # "" THEN ns ELSE IF env.POD_NAMESPACE # Unset THEN env.POD_NAMESPACE ELSE ""

\* The event loop fills in an alert and calls chain.send.
RaiseAlert(type) ==
    /\ phase = "running" /\ next = 0 /\ Len(sent) < MaxAlerts
    /\ sent' = Append(sent, [type |-> type, severity |-> SeverityFor(type),
                             node |-> ResolveNodeName(Setting("soc", "node_name", "")),
                             namespace |-> ResolveNamespace(Setting("soc", "namespace", ""))])
    /\ next' = 1
    /\ UNCHANGED <<phase, doc, env, cfg, chain, healthy, count, stats, out, missed>>

\* The loop of chain.send goes on, or returns to the event loop.
NextHandler ==
    IF next < Len(chain) THEN next' = next + 1 /\ UNCHANGED count
    ELSE next' = 0 /\ count' = count + 1

\* Without the try of chain.send an exception leaves the loop.
FailAndReturn ==
    /\ next > 0
    /\ missed' = [missed EXCEPT ![next] = @ \cup {Len(sent)}]
    /\ next' = 0 /\ count' = count + 1
    /\ UNCHANGED <<phase, doc, env, cfg, chain, healthy, sent, stats, out>>

\* h->send did not deliver: NATS refused the message, or it threw; both are logged.
HandlerFails ==
    /\ next > 0
    /\ missed' = [missed EXCEPT ![next] = @ \cup {Len(sent)}]
    /\ NextHandler
    /\ UNCHANGED <<phase, doc, env, cfg, chain, healthy, sent, stats, out>>

\* A write fails and leaves the stream bad; nothing clears it again.
StreamBreaks ==
    /\ next \in healthy /\ chain[next][1] # "nats"
    /\ healthy' = healthy \ {next}
    /\ missed' = [missed EXCEPT ![next] = @ \cup {Len(sent)}]
    /\ NextHandler
    /\ UNCHANGED <<phase, doc, env, cfg, chain, sent, stats, out>>

HandlerDelivers ==
    /\ next \in healthy
    /\ out' = [out EXCEPT ![next] = Append(@, Last(sent))]
    /\ NextHandler
    /\ UNCHANGED <<phase, doc, env, cfg, chain, healthy, sent, stats, missed>>

\* The input ends: flush, and the statistics.
EndOfInput ==
    /\ phase = "running" /\ next = 0
    /\ stats' = count /\ phase' = "exit 0"
    /\ UNCHANGED <<doc, env, cfg, chain, healthy, sent, next, count, out, missed>>

Next ==
    \/ LoadFile \/ CreateAlgorithms \/ OpenSource \/ CreateHandler \/ StartLoop
    \/ \E type \in AlertTypes : RaiseAlert(type)
    \/ HandlerFails \/ StreamBreaks \/ HandlerDelivers
    \/ EndOfInput

-----------------------------------------------------------------------------
(***************************************************************************)
(* What the document says.                                                 *)
(***************************************************************************)
Bodies(section) == FlattenSeq([i \in DOMAIN doc |-> IF doc[i][1] = section THEN doc[i][2] ELSE <<>>])

AsFunction(pairs) == [k \in {p[1] : p \in pairs} |-> (CHOOSE p \in pairs : p[1] = k)[2]]

DocumentedSettings ==
    LET scalars == UNION {{<<<<s, e[1]>>, e[2]>> : e \in ToSet(Bodies(s))} : s \in DOMAIN FlatKeys}
        names   == {<<<<e.sub, "name">>, e.name>> : e \in ToSet(Bodies("algorithms"))}
        params  == UNION {{<<<<e.sub, p[1]>>, p[2]>> : p \in ToSet(e.params)} :
                              e \in ToSet(Bodies("algorithms"))}
    IN AsFunction(scalars \cup names \cup params)

DocumentedNetwork(e) ==
    LET rest == AsFunction(ToSet(e.rest)) IN
    [addr |-> ParseCidr(e.cidr), label |-> IF "label" \in DOMAIN rest THEN rest.label ELSE "0",
     name |-> IF "name" \in DOMAIN rest THEN rest.name ELSE ""]

Documented ==
    [settings |-> DocumentedSettings,
     networks |-> SelectSeq([i \in DOMAIN Bodies("networks") |-> DocumentedNetwork(Bodies("networks")[i])],
                            LAMBDA n : n.name # ""),
     handlers |-> [i \in DOMAIN Bodies("alert_handlers") |->
                      [name   |-> Bodies("alert_handlers")[i].name,
                       params |-> AsFunction(ToSet(Bodies("alert_handlers")[i].params))]],
     rules    |-> Bodies("severity_rules")]

\* A document whose numbers are numbers.
Readable ==
    /\ \A i \in DOMAIN Lines(doc) : Lines(doc)[i].val # NotANumber
    /\ \A e \in ToSet(Bodies("networks")) : e.cidr.len # NotANumber

(* load_config stores what the document says, whatever sections it has and  *)
(* in whatever order they and their keys come: no state of the reader leaks *)
(* from one entry or section into the next, and the last entry of a list is *)
(* not lost.  A malformed CIDR spoils its own entry only; an entry without  *)
(* a name is dropped; and a document with a number that is none is refused. *)
LoadsDocument ==
    phase = "algorithms" => Readable /\ cfg = Documented

(* The process only runs with all the handlers its document lists, in their  *)
(* order (one file handler when it lists none).                              *)
RunsWholeChain ==
    phase = "running" /\ sent = <<>> =>
          IF Documented.handlers = <<>>
          THEN /\ Len(chain) = 1 /\ chain[1][1] = "file"
               /\ <<"output", "alerts_file">> \in DOMAIN Documented.settings =>
                      chain[1][2] = Documented.settings[<<"output", "alerts_file">>]
          ELSE /\ Len(chain) = Len(Documented.handlers)
               /\ \A i \in DOMAIN chain :
                     LET e == Documented.handlers[i] IN
                     /\ e.name \in HandlerKinds
                     /\ (chain[i][1] = e.name) \/ e.name \in {"stdout", "stderr"}
                     /\ e.name = "nats" /\ "subject" \in DOMAIN e.params =>
                            chain[i][2] = e.params.subject

\* The alerts handler i has been offered: all, but for the one being sent.
Offered(i) == IF next > 0 /\ i >= next THEN Len(sent) - 1 ELSE Len(sent)

(* alert_handler.h:27: a failure in one handler does not prevent others from *)
(* receiving the alert.  A handler has delivered, in order and once each,    *)
(* exactly the alerts at which it did not fail itself; and the statistics    *)
(* count every alert once.                                                   *)
FailuresAreIsolated ==
    /\ \A i \in DOMAIN chain :
           LET got == (1..Offered(i)) \ missed[i] IN
           \E order \in [1..Cardinality(got) -> got] :
               /\ \A j, k \in DOMAIN order : j < k => order[j] < order[k]
               /\ out[i] = [k \in DOMAIN order |-> sent[order[k]]]
    /\ stats \in {-1, Len(sent)}

(* Every alert carries the severity the document's first rule for its type   *)
(* gives it, or the default; and it names no node, so that it cannot count   *)
(* towards a cross-node incident, only when neither the document nor the     *)
(* environment does, or an empty NODE_NAME hides the HOSTNAME.               *)
AlertsAsConfigured ==
    next = 1 =>
        LET a     == Last(sent)
            rules == {k \in DOMAIN Documented.rules : Documented.rules[k].type = a.type}
        IN /\ rules = {} => a.severity = DefaultSeverity(a.type)
           /\ \A k \in rules : (\A j \in rules : k <= j) =>
                 a.severity = ParseSeverity(Documented.rules[k].severity)
           /\ (a.node = "") =
                 /\ \A p \in ToSet(Bodies("soc")) : p[1] = "node_name" => p[2] = ""
                 /\ env.NODE_NAME = "" \/ {env.NODE_NAME, env.HOSTNAME} \subseteq {"", Unset}
=============================================================================
