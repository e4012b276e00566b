---------------------------- MODULE ConfigLoader ----------------------------
(***************************************************************************)
(* load_config of zt-pipeline: a line-by-line reader of pipeline.yaml that *)
(* keeps a section, a sub-section and the list entry it is in, and stores  *)
(* each value where these say.                                             *)
(*                                                                         *)
(* A line that holds something is its indentation, whether it opens a list *)
(* entry ("- key: value", only in the sections that are lists), its key    *)
(* and its value.  Values are opaque, except that std::stoi refuses        *)
(* NotANumber.                                                             *)
(***************************************************************************)
EXTENDS Integers, SequencesExt

CONSTANT NotANumber     \* a value that std::stoi throws on

Algorithms  == {"frequency_estimator", "scc_detector", "reachability", "ip_classifier"}
AlgoParams  == {"width", "depth", "threshold", "max_hops"}

\* The sections that only hold "key: value" lines, and the keys they know.
FlatKeys ==
    [event_source |-> {"type", "path"},
     analysis     |-> {"window_seconds", "scc_interval_seconds", "snapshot_interval_seconds"},
     output       |-> {"alerts_file", "graph_file", "stats_file"},
     soc          |-> {"node_name", "namespace"}]

Sections == DOMAIN FlatKeys \cup {"algorithms", "networks", "alert_handlers", "severity_rules"}

\* settings: the scalars that were set, by owner and key; the others keep
\* the defaults of PipelineConfig.
EmptyConfig == [settings |-> <<>>, networks |-> <<>>, handlers |-> <<>>, rules |-> <<>>]

\* The locals of load_config.  A pointer is null or to the last list entry.
Start ==
    [section |-> "none", sub |-> "none", inParams |-> FALSE,
     net |-> [addr |-> "indeterminate", label |-> "indeterminate", name |-> ""],
     handler |-> FALSE, inHandlerParams |-> FALSE, rule |-> FALSE,
     cfg |-> EmptyConfig, thrown |-> FALSE]

Set(p, owner, key, val) ==
    [p EXCEPT !.cfg.settings = (<<owner, key>> :> val) @@ @]

\* std::stoi before the assignment
SetNumber(p, owner, key, val) ==
    IF val = NotANumber THEN [p EXCEPT !.thrown = TRUE] ELSE Set(p, owner, key, val)

-----------------------------------------------------------------------------
\* An unknown section leaves the reader in the one before it.
TopLevel(p, l) ==
    [p EXCEPT !.inParams = FALSE, !.inHandlerParams = FALSE, !.handler = FALSE,
              !.section = IF l.key \in Sections THEN l.key ELSE @]

AlgorithmLine(q, l) ==
    LET p == IF l.indent <= 4 THEN [q EXCEPT !.inParams = FALSE] ELSE q IN
    IF l.indent <= 4 /\ l.key \in Algorithms THEN [p EXCEPT !.sub = l.key]
    ELSE IF l.key = "params" THEN [p EXCEPT !.inParams = TRUE]
    ELSE IF p.sub = "none" THEN p
    ELSE IF l.key = "name" THEN Set(p, p.sub, "name", l.val)
    ELSE IF l.key \in AlgoParams /\ (p.inParams \/ l.indent >= 6)
         THEN SetNumber(p, p.sub, l.key, l.val)
    ELSE p

\* parse_cidr, whose verdict load_config ignores: what it has not stored by the
\* time it fails keeps the zero of the fresh entry.  A text is sized when it has
\* a length of at most 32, and quad when four octets precede it.
ParseCidr(cidr) ==
    IF ~cidr.sized THEN [prefix |-> "0.0.0.0", len |-> "0"]
    ELSE [prefix |-> IF cidr.quad THEN cidr.prefix ELSE "0.0.0.0", len |-> cidr.len]

\* The entry before is stored when it has a name.
SaveNetwork(p) ==
    IF p.net.name = "" THEN p ELSE [p EXCEPT !.cfg.networks = Append(@, p.net)]

NetworkLine(p, l) ==
    IF l.dash /\ l.key = "cidr"
    THEN IF l.val.sized /\ l.val.len = NotANumber THEN [SaveNetwork(p) EXCEPT !.thrown = TRUE]
         ELSE [SaveNetwork(p) EXCEPT
                 !.net = [addr |-> ParseCidr(l.val), label |-> "0", name |-> ""]]
    ELSE IF l.dash THEN p
    ELSE IF l.key = "label"
         THEN IF l.val = NotANumber THEN [p EXCEPT !.thrown = TRUE]
              ELSE [p EXCEPT !.net.label = l.val]
    ELSE IF l.key = "name" THEN [p EXCEPT !.net.name = l.val]
    ELSE p

FlatLine(p, l) ==
    IF l.key \notin FlatKeys[p.section] THEN p
    ELSE IF p.section = "analysis" THEN SetNumber(p, p.section, l.key, l.val)
    ELSE Set(p, p.section, l.key, l.val)

HandlerLine(p, l) ==
    LET last == Len(p.cfg.handlers) IN
    IF l.dash
    THEN [p EXCEPT !.cfg.handlers = Append(@, [name |-> IF l.key = "name" THEN l.val ELSE "",
                                               params |-> <<>>]),
                   !.handler = TRUE, !.inHandlerParams = FALSE]
    ELSE IF ~p.handler THEN p
    ELSE IF l.key = "name"
         THEN [p EXCEPT !.cfg.handlers[last].name = l.val, !.inHandlerParams = FALSE]
    ELSE IF l.key = "params" THEN [p EXCEPT !.inHandlerParams = TRUE]
    ELSE IF p.inHandlerParams
         THEN [p EXCEPT !.cfg.handlers[last].params = (l.key :> l.val) @@ @]
    ELSE p

RuleLine(p, l) ==
    LET last == Len(p.cfg.rules) IN
    IF l.dash
    THEN [p EXCEPT !.cfg.rules = Append(@, [type |-> IF l.key = "type" THEN l.val ELSE "",
                                            severity |-> ""]),
                   !.rule = TRUE]
    ELSE IF ~p.rule THEN p
    ELSE IF l.key = "type" THEN [p EXCEPT !.cfg.rules[last].type = l.val]
    ELSE IF l.key = "severity" THEN [p EXCEPT !.cfg.rules[last].severity = l.val]
    ELSE p

\* One round of the loop; an exception ends it.
ReadLine(p, l) ==
    CASE p.thrown                       -> p
      [] ~p.thrown /\ l.indent = 0      -> TopLevel(p, l)
      [] ~p.thrown /\ l.indent > 0      ->
            CASE p.section = "algorithms"         -> AlgorithmLine(p, l)
              [] p.section = "networks"           -> NetworkLine(p, l)
              [] p.section = "alert_handlers"     -> HandlerLine(p, l)
              [] p.section = "severity_rules"     -> RuleLine(p, l)
              [] p.section \in DOMAIN FlatKeys    -> FlatLine(p, l)
              [] OTHER                            -> p

LoadWithoutLast(lines) == FoldLeft(ReadLine, Start, lines)

\* load_config: the loop, and the network entry that is still open.
LoadConfig(lines) == SaveNetwork(FoldLeft(ReadLine, Start, lines))
=============================================================================
