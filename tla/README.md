# A TLA+ model of the K8sSecDaP alert path

The repository detects port scans and unusual communication inside a Kubernetes
cluster and walks every alert through a small security operations centre. This
directory holds TLA+ modules of the parts that decide what becomes of an alert,
TLC configurations that check them on small instances, and TLAPS proofs of the
most important properties for every value of the constants. `PROJECT.json` maps
each definition to the lines it models.

## 1. The system

```
tcp_connect.bpf.c -> collector -> FIFO -> zt-pipeline -> alerts.json -> alert-bridge
   -> NATS zt.alerts.raw -> aggregator -> NATS zt.alerts.enriched -> incident-service
                                 PostgreSQL, Kubernetes API, SMTP  <->  |  <- web console
```

| component | state it keeps | operations | talks to |
|---|---|---|---|
| eBPF program and collector | `sock_store` (pending connects, 4096 entries), `cidr_map`, ring buffer | entry and return probes of connect, poll | writes events to a FIFO |
| zt-pipeline event loop (`engine.cpp`) | window start, sketch, alerted sources, communication graph, largest number of components so far | one event: reset, count, alert, blast radius, add edge, periodic component detection | reads the FIFO, writes `alerts.json` |
| Count-Min Sketch, Misra-Gries counters | counters of the window | record, estimate, reset | called by the event loop |
| graph, Tarjan, Kosaraju, BFS, Dijkstra | edges; tables local to a call | find_sccs; reachable_within | called by the event loop |
| LPM trie | labelled prefixes | insert, remove, lookup | labels the addresses of an alert |
| configuration loader | section, sub-section and list entry the reader is in | read one line | called by main |
| alert handler chain | the handlers of the configuration, the state of their streams | create, send to each in turn, flush | file, stdout or stderr, NATS |
| file alert handler | open `alerts.json` | truncating open, append a line | read by the bridge |
| alert-bridge | open inode, offset, bufio buffer | open at the end, read, publish, look for rotation | core NATS |
| aggregator | map of incidents by type and source | handle an alert, evict expired incidents | queue group on core NATS |
| incident store (PostgreSQL) | incidents, actions, audit_log | the service's SQL statements, each atomic | - |
| incident-service subscriber | one callback at a time | upsert, audit, e-mail, resolve pod, draft an action | store, SMTP, Kubernetes |
| incident-service REST API | one goroutine per request | change status, approve, reject, follow-up | store, Kubernetes |
| appliers and pod operations | NetworkPolicies, labels, pods | create-or-update, label by address, delete, shut down | Kubernetes API |
| web console | none | proxy with a 5 s timeout | REST API |

What makes it hard, and the property wanted of each part:

* **Collector.** Two probes of one call communicate through a bounded map, probes of
  several CPUs share a bounded ring buffer, and the probes run before the process has
  filled `cidr_map`. A record is to describe the connection it was written for, and a
  connection is to get lost only where the code says so.
* **Event loop.** Events come out of the ring buffer slightly out of timestamp
  order and the age of an event is an unsigned difference. Every scan within a
  window is to be alerted exactly once, whatever collides in the sketch.
* **Start-up and handler chain.** The configuration is read line by line by a reader
  with state of its own; handlers may fail when they are created and at every alert.
  What runs is to be what the configuration says, all of it or nothing, and one
  handler's failure is not to cost another one an alert.
* **Graph algorithms.** Recursion unrolled into explicit stacks, over hash tables
  whose order is arbitrary. They are to compute the textbook result.
* **alert-bridge.** Two processes share a file and nothing else. Each may restart,
  the file may be truncated or moved, a line may become visible in parts. Alerts
  are to arrive at most once, in order, and not to vanish while a file is followed.
* **Aggregator.** Event time (of another host) and wall-clock time (of this host)
  are compared with each other. An incident is to be emitted once, and once more
  when it spreads to a second node, and its entry is to be reclaimed.
* **From aggregator to table.** The aggregator remembers an emission whether or not
  anybody got it, members of its queue group know nothing of each other, and core NATS
  delivers to who is listening at that moment. The table is to hold what the aggregators
  know, up to the messages that were lost for good.
* **incident-service.** Every handler is a sequence of separate statements and
  calls; handlers interleave with each other and with the subscriber, and may be
  cut off at any point by a crash, a cancelled request, or an error of the
  database or the cluster. A change of the cluster is to be approved by an admin
  and made once, and a stored outcome is to be true.

## 2. Modules

Components:

* `Collector` - the entry and the return probe of each thread (`EntryProbe`; `ReturnOk`,
  `ReturnFailed`, `Reserve`, `Submit`), and the process: `Populate`, `Poll`, `Restart`.
  The return probe is split where another CPU can be seen between: the ring buffer
  hands out records in the order of reservation, and only submitted ones. A socket is
  the number of its connect, so that a record of the wrong socket shows.
* `Correlator` - the aggregator: `correlator.go` and the handler in `main.go`.
  `Process` is split by its three outcomes (`StartIncident`, `UpgradeIncident`,
  `SuppressDuplicate`), `EvictExpired` is one tick of `cleanupLoop`. A message that is
  not JSON is dropped (`DropUnreadable`); an alert without source or type touches no
  incident and is published as it came (`PassThrough`). Every replica
  has a map of its own. `ClockError` says how far an alert's timestamp may be from
  the aggregator's clock, `Untimed` whose alerts may come without one. `seen` and
  `emitted` only observe.
* `IncidentStream` - `Correlator`'s aggregators composed with core NATS, the subscriber's
  connection and the part of the upsert that merges nodes and the cross-node mark.
  `Publish` is conjoined to the correlator's emitting steps; an alert without key is
  published too (`OnUnkeyedAlert`) and refused by the upsert (`RefuseUnkeyed`); `Connect`, `Disconnect`,
  `Reconnect` and `ServiceRestart` are what becomes of the subscriber; `handled` and
  `lost` only observe.
* `IncidentStore` - the tables and the SQL statements, each one step, with what
  their `WHERE`, `ON CONFLICT`, `NOT NULL` and `LIMIT` clauses do.
* `IncidentService` - the subscriber's callback and the REST handlers, each a
  program counter that stops before every call to the database or the cluster, and
  the part of Kubernetes they use: NetworkPolicies with a resourceVersion, labels,
  the pod that holds an address. `Faults` selects what the environment does.
* `ActionLifecycle` - what the service promises about an action, in terms of its status,
  decider and effect alone. `IncidentService` implements it (`ImplementsLifecycle`): its
  rows, projected to status and decider, are `life`, and its log of effects is `effects`.
* `AlertBridge` - the file by inode, the pipeline that appends to it, and the
  bridge's loop with its offset and its buffer. A line is a few units, so that it
  can be visible in part.
* `CountMinSketch`, `CommGraph` - data structures as operators; `CommGraph` also
  defines reachability and strongly connected components, the contracts of the
  algorithms.
* `Engine` - one event of the pipeline per step, over both.
* `Tarjan`, `Kosaraju`, `Reachability` - the algorithms, one step per turn of
  their loops, with every order of vertices and neighbours.
* `HeavyHitters` - the Misra-Gries counters as operators; `PortScanDetector` - the
  offline tool, which runs a detector with each of the three estimators on one input.
* `LpmTrie` - insert and remove, beside the table of prefixes the trie stands for.
* `ConfigLoader` - `load_config` as a fold of `ReadLine` over the lines, its locals a
  record; `PipelineMain` - `main` from the configuration to the end of the input:
  `LoadFile`, `CreateAlgorithms`, `OpenSource`, `CreateHandler` for each entry, then for
  each alert one step per handler of the chain (`HandlerDelivers`, `HandlerFails`,
  `StreamBreaks`). A configuration is a sequence of sections as their author means them;
  `Lines` lays them out like config/pipeline.yaml and `Documented` is what they say.
* `TraceAlgorithms` - the tool that prints how the estimators work, with its own copies
  of two of them beside the library's.

`MCCorrelator`, `MCIncidentStream`, `MCIncidentService`, `MCAlertBridge`, `MCEngine`,
`MCCollector` and `MCPipeline` give them constants. The last one puts the sequential
parts of the pipeline and its tools side by side: a behaviour runs one of them.

`CollectorProofs`, `BridgeProofs`, `IncidentStreamProofs`, `IncidentServiceProofs`,
`IncidentTableProofs`, `CommGraphProofs`, `EngineProofs` and `PipelineProofs` hold the
theorems and the lemmas they rest on.

A definition whose name is that of another with a suffix (`ExpiredEarly`,
`DecidableAlways`, `MarkSwallowed`, ...) is a plausible mistake in that code. No
specification uses it; substituted for the definition it varies, it must make the
property `PROJECT.json` names fail.

### Abstractions

* Severity and tags of an alert in `Correlator`, texts, JSON bodies, notes,
  timestamps of rows and the write-only `alerts` table are left out.
* An incident's row and its key identify each other. `arrays` keeps only which of
  the two array columns of a row are non-empty, which decides whether the upsert is
  refused.
* A statement that committed and whose answer was lost needs no case of its own in
  a handler: it leaves the tables a success followed by a failing next call does. A
  Kubernetes write is different, because its outcome is stored: `Writes` keeps
  *done* and *reported* apart.
* A line of the configuration is its indentation, whether it opens a list entry, its
  key and its value; comments, quotes and blank lines are left out, and a value is
  opaque but for whether `std::stoi` accepts it. `EntryLines` produces the layout of
  the repository's own file; the liberties the reader takes with others are in
  section 5.
* In `PipelineMain` an alert is raised at any time (`Engine` says when), and a NATS
  handler may fail to connect and to publish, as in the build with nats.c; the stub
  does a part of this.
* An `IncidentStream` row keeps nodes and cross-node mark; status, severity and the
  steps after the upsert are `IncidentService`'s. The client's queue is not bounded.
* Hash functions are a constant; the counters of the sketch do not wrap within a
  window. Timestamps are words of size `Word`, and `Expires` subtracts modulo `Word`.
* Addresses, ports and timestamps of a record of the ring buffer are left out;
  `cidr_map` is empty or filled, and says of a source only whether it is a pod. That
  the kernel runs out of return probes (`maxactive`) is not modelled.
* A loop edge is a neighbour that has been seen when it comes up; the algorithms
  are checked on loop-free graphs.

## 3. Runs

Passing runs:

| run | instance | shows |
|---|---|---|
| `IncidentStream` | 2 aggregators, 1 key, 2 nodes (one up to 1 behind) and unnamed alerts, window 1, 3 alerts, some without key or timestamp, 1 fault (publish, start without NATS, disconnect, restart, database), eviction and aggregator restart at any time | `EmissionsMatchIncident`, `NoEarlyRestart`, `IncidentsAreReclaimed`, `RowsMergeMessages`, `TrackedIncidentsAreStored` |
| `ServiceDecisions` | 2 workers, an admin and an editor, approve and reject, 2 alerts, 3 requests, crashes, disconnects, failing database and Kubernetes calls, pods that change address | `OneExecutor`, `EffectsAreApproved`, `ExecutedMeansApplied`, `DecisionIsFinal`, the refinement `ImplementsLifecycle` |
| `ServiceDrafts` | 2 incidents, severities medium and high, alerts with and without node name, dryrun, crashes with and without NATS coming back, disconnects, SMTP errors; the list of pending actions holds 2 | `OnePendingDraft`, `SeverityNeverDrops` |
| `ServiceProgress` | 1 incident, 2 workers, all endpoints, acknowledgements, severities medium and high, 3 alerts, 3 requests, no faults, weak fairness | `ApprovalResolves`, `HighSeverityGetsAction`, `ChangesAreAudited` |
| `BridgeFollow` | 3 lines of 1 or 2 units, buffer of 3, 2 restarts or removals, torn lines, refused publishes, weak fairness | `PublishedInOrder`, `NothingSkipped`, `AppendedLinesArePublished` |
| `EngineScans` | 3 sources of which two collide in each row, threshold 1, 5 events, timestamps 0, 1 or 4 behind or absent | `NeverUnderestimates`, `ScansAlertedOnce`, `WindowsEndOnTime` |
| `PipelineParts` | every loop-free graph over 4 hosts; inputs of 9 events of 4 sources, k = 3, threshold 1, timestamps in any order; streams of 8 elements; addresses of 2 bits with 2 labels; configurations of up to 3 sections in any order, chains of 1 to 3 handlers, 3 environments, 2 alerts | `TarjanFindsSccs`, `KosarajuFindsSccs`, `FindsNeighbourhood`, `AlertsAreNested`, `BracketsFrequency`, `LookupIsLongestMatch`, `LoadsDocument`, `RunsWholeChain`, `FailuresAreIsolated`, `AlertsAsConfigured` |
| `CollectorEvents` | 2 threads, 4 connects, 1 entry of `sock_store`, 2 records of the ring buffer, 1 restart, weak fairness | `EventsMatchConnection`, `EntriesAreAccountedFor`, `ConnectionsArePrinted` |

Runs that show a disagreement between the code and what a comment or document says
of it (the findings of `PROJECT.json` quote the sentence):

| run | what happens |
|---|---|
| `CorrelatorBootClock` | Alerts carry the time since their node's boot, and `Process` subtracts one node's from the other's (correlator.go:66): the alert of the node that was up longer arrives at the same moment and starts a new incident. |
| `ServiceDraftRace` | An acknowledgement between the subscriber's look at pending actions and its insert leaves two drafts. |
| `BridgeTruncated` | The pipeline truncates `alerts.json` in place, `rotated` compares inodes only: the bridge stays behind the end of the file and never reopens. |
| `EngineSccs` | After two components have merged, a new one does not exceed the largest number so far and raises no alert. |

### Why the bounds are enough

A restart of an incident needs two alerts and a tick between them, an upgrade two
named nodes, a suppressed one a third alert: three alerts and a clock that runs past
two windows reach each of them, on one aggregator or divided between two. One fault
before, between or after three emissions decides whether a later one makes good for
it; the restart that repairs a service without subscriber is not counted. The theorems
about `Correlator` hold for any number of alerts. Two workers and three requests are enough
for two decisions on one action and a third request on the result. The first approval
of an incident creates its policy; only a third one can meet a resourceVersion that
the second has moved between its Get and its Update, and each approval needs an alert
of its own, because a decided action is replaced by the draft of the next alert: hence
three alerts and three requests in `ServiceProgress`. Two incidents with a draft
each fill a list of two pending actions. Three lines put one line in the buffer, one in the file and one in the
making; two faults allow a restart of each process. In the engine two rows of two
columns let every source be overestimated by one of the others. Four hosts are the
smallest graphs in which two components exist, are joined, and a cross edge leads
to a finished component, which is what separates a right low-link from a wrong one.

Three sections put each of the eight kinds first, between two others and last, and let
the state of the reader leak from any of them into any other; every list has two
entries in some configuration. Two alerts through a chain of two handlers show whether
a failure costs the next handler this alert, or the same handler the next one; a chain
of three has a handler with one on either side. Chains of any length are proved.

Two counters (k = 3) and four sources make the decrement phase erase one counter and keep
another; two bits give prefixes nested three deep, with siblings. One entry of
`sock_store` for two threads lets a failed connect lock the other thread out; two
records let one CPU submit before the other that reserved first, and fill the ring
buffer while nothing is submitted; four connects allow a failed one, a retry, and
another thread's connects around a restart.

All runs but those of the engine disable the deadlock check: behaviours end when the
named bounds (`Max...`, `LastArrival`) are used up. `EngineScans` keeps it, because
`Restart` is always possible after an event.

### Fairness

* `Correlator` and `IncidentStream`: time passes and the ticker of a live process fires.
  Nothing is asked of NATS, the subscriber or the database.
* `IncidentService`: a handler that has started, and the subscriber's callback, take
  their next step (goroutines are scheduled, and every call has an answer). Nothing
  obliges clients to send requests or alerts to arrive.
* `Collector`: a connect returns (the probed function does not wait for the peer),
  a probe that runs ends, and the process fills `cidr_map` and polls. No connect has
  to be made.
* `AlertBridge`: the bridge's endless loop goes on, and a write that has begun
  becomes visible in the end. No alert has to be raised.

## 4. Proofs

A proof holds for every value of the constants within the named assumptions, and for
every value of the bounds. The assumptions are those of the modules: `WindowAssumption`,
`NodesAssumption`, `ClockAssumption` and `StreamAssumption` (correlator and stream),
`StoreAssumption` and `ServiceAssumption`, `BridgeAssumption`, `CollectorAssumption`,
`HostsAssumption` (finitely many hosts), `SketchAssumption` and `EngineAssumption`, and,
for the sequential parts, `EstimatorAssumption` (at least two counters, as the
constructor demands), `TrieAssumption`, `UnsetAssumption` (`getenv`
tells a variable that is not set from an empty one), `DocumentsAssumption` (a document is
a list of different sections with lists of entries; its algorithms are known ones, and
`soc` gives no key twice) and `HopsAssumption`. The last one leaves out a
negative `max_hops`, which `std::stoi` accepts (config_loader.cpp:142) and for which
the two implementations disagree: BFS returns the source, Dijkstra nothing.

* **CollectorProofs.** `CollectorTypeCorrect`, `EventsDescribeTheirConnection`,
  `EntriesHaveAnOwner`. The invariant `EventInv` keeps the connects apart: an entry of
  `sock_store` is the socket of the connect its thread is in, or was left behind
  (`EntriesAreOwned`); no two running connects share a number, and a probe that looked up
  a socket has its own (`ThreadsAreApart`); a record describes its connect, no two have
  the same (`RecordsAreApart`); and a connect that has not reserved has no record
  (`ReservesAreFirst`), without which a second record could not be excluded.
* **BridgeProofs.** `BridgeTypeCorrect`, `BridgeKeepsTheOrder`, `BridgeSkipsNothing`.
  `OrderInv`: what is in the files, in the buffer and still to be written is in order, and
  what was published is older than all that can still be read. `FollowInv`: what the
  bridge has yet to read of the file it follows has no gaps, so that the next line it
  completes is the next one raised; only its first line may lack its beginning, and that
  line was there before the bridge opened the file, or became visible in parts.
* **IncidentStreamProofs.** About `Correlator`: `CorrelatorTypeOK`; `EmissionsMatch`
  (`EmissionsMatchIncident` for any number of replicas, keys and alerts, inductive
  together with the types). `NoEarlyRestartHolds` is an action property that rests on
  `LastAlertInvariant`: the last timestamp of a tracked incident is that of the last
  alert its process has seen, and a key it has seen alerts of is missing from the map
  only when the wall clock has passed the last timestamp by more than the window.
  Without the second part nothing ties an evicted key to the alert that comes next;
  `ClockAssumption` (no timestamp trails the wall clock by more than `MaxLag`) turns
  it into a statement about that alert's event time. About the composition:
  `StreamImplementsCorrelator` (a behaviour of `IncidentStream` is one of `Correlator`, so
  the theorems above hold of it), `StreamTypeCorrect`, `RowsMerge` and
  `TrackedAreStored`. `RowsMerge` needs `MessagesMatch`: a message carries the
  cross-node mark exactly when it carries two nodes, so a refused one had no mark to add.
  `TrackedAreStored` follows from `StoredOrComing`: unless an emission was lost, the
  row of a tracked incident has what the aggregator knows, or the latest message about the
  incident brings it.
* **IncidentServiceProofs.** `ServiceTypeOK`, for any fault assumption. Besides the
  types the invariant carries what a handler relies on from one call to the next: a
  request that executes an action names an existing one, and a follow-up request
  carries a follow-up type. `ActionsHaveOneExecutor`, `EffectsWereApproved`,
  `ExecutedWasApplied` and `DecisionsAreFinal` are proved from one invariant:
  `DecisionInv`, that is three of the properties themselves together with
  `AdminsDecide` (every request that decides, and every decided action, belongs to an
  admin) and `PolicyInPlace` (a request in executeAction knows its action's incident,
  and a quarantine that is about to be stored as executed has left a policy). The crucial
  step is `DecideAction`, whose `status = 'pending'` makes the first decision the only
  one; `MarkActionExecuted` has no such condition and is safe only because of the single
  executor. `ServiceImplementsLifecycle` is the refinement of `ActionLifecycle`: every
  step drafts one action at most, decides one, records a result, or leaves the actions
  alone.
* **IncidentTableProofs.** `SeverityIsMonotone` (from `RowsInv`: only rows that exist have
  a severity, and a request for a status change has found its row).
  `DraftsAreUnique` is `OnePendingDraft` under `OnlyDecisions`: requests approve or
  reject, the database answers, and the subscriber's list of pending actions is long enough
  for one action per incident. Each part is needed: a draft of a request races with the
  subscriber's (`ServiceDraftRace`), a failed list is taken for an empty one, and a list
  that is too short hides the draft it should show. `DraftInv` says that nobody has drafted
  for the incident since the subscriber looked; `ListShowsAll` that the list holds
  all pending actions, by counting them. `ChangesReachTheLog` is `ChangesAreAudited`
  under `Lossless` (no crash, no disconnect, no failed database call, any of which
  loses an entry): `AuditInv` says that an entry that is missing is owed, by the
  subscriber or by the request that made the change.
* **EngineProofs.** `EngineTypeCorrect`. `SketchNeverUnderestimates` and
  `ScansAreAlertedOnce` for any hash functions, from `ScanInv`: each counter a source
  hashes to is at least its true count, and a source is marked as alerted exactly when its
  alert was raised. `WindowsEndWhenDue` (`WindowsEndOnTime` for any window and word size)
  needs that clock and window start are words (`ClockInv`): then the unsigned age of an
  event that is not older than the start is the difference of the two.
* **CommGraphProofs.** Lemmas about the graph: what is reachable in n hops (the iterate
  that defines it agrees with a layer for each n, grows, and settles), the last hop of a
  shortest path, and that a shortest path is shorter than the number of hosts. From these:
  what is reachable in any number of hops (`Reach`) is the least set that holds the host
  and its own neighbours; a path that leaves a set has a last vertex in it and a first one
  behind (`ReachLeaves`); and the components of `Sccs` are the classes of mutual
  reachability (`SccOf`), which cover all vertices (`SccsCover`).
* **PipelineProofs.** About `MCPipeline`, in which one sequential part runs:
  * `ScansAreNested` and `TracesBracket`: the Misra-Gries counters never exceed the true
    count and fall short of it by at most n/K, because each decrement phase pays for K
    events (K times the phases is no more than the events); the sketch never falls short.
    Hence every alert of Misra-Gries is one of the exact detector, each of those is one of
    the sketch, and a source far enough above the threshold is alerted by all three. The
    table the trace tool prints is the library's.
  * `LookupsAreLongest`: the trie has a path for every prefix of the table and a mark
    for nothing else, so the last mark a lookup passes is the longest match.
  * `NeighbourhoodIsFound`: BFS and Dijkstra find exactly the hosts within `max_hops` with
    their distances. A result only has final distances, and what is one hop from it is in
    it or behind the frontier (`Explored`), be that the queue, which is sorted and
    spans two distances at most, or the heap, which has the end of every hop out of the
    result.
  * `HandlersAreIsolated`: what each handler has delivered are the alerts it was offered,
    in order, without those it missed itself, whatever the others do (`ChainInv`), for
    chains of any length: `Documents` and `Environments` are constants, and `MCDocuments`
    only their values in the run.
  * `ChainIsWhole`: `RunsWholeChain` for every set of documents that are read as
    documented. Its hypothesis `[]LoadsDocument` is the property TLC checks of the reader;
    what is proved is that a process that reached its loop built a handler for every entry
    of its list, however long, in the list's order.
  * `AlertsFollowDocument`: `AlertsAsConfigured` under the same hypothesis, for every set
    of documents and environments. `AlertInv` keeps
    rules and settings equal to the document's from the load to the last alert. The rest is
    about the document: no section but `soc` sets `node_name`, and it does so once
    (`NodeNamePairs`, `SocIsFunction`).
  * `KosarajuFindsComponents`: for every finite loop-free graph, and whatever the order of
    the hash tables. The first pass keeps `Search`: a visited vertex is finished or open,
    once; an edge out of a finished vertex leads to a visited one; an open vertex leads to
    every entry above it. Hence `FinishOrder`: among what has finished no later than a
    vertex is all it reaches, or its component is not complete yet. For the second pass
    this means that the next root cannot be reached from outside its component but from
    components stored before; `Growing` says that the component under way is part of the
    root's and all its predecessors are visited, waiting or stored.
  * `TarjanFindsComponents`: likewise. `Explores` describes the search by the set of
    vertices on the stack, the open ones and the edges still to be looked at: no edge leads
    out of the stored components; every vertex on the stack leads to an open one below it,
    and an open one to all above it (`OneComponentDeep`); the low-link of an open vertex is
    the number of a vertex on the stack it reaches (`LowReached`), and none of the edges
    looked at above it leads to a smaller one (`LowIsLeast`). If the
    low-link is the vertex's own number, what lies above it is closed but for stored
    components, and mutually reachable. That the two stacks are in the order of discovery
    (`Stacked`, `Framed`) ties the sets to the code's vectors. The invariant also held in a
    run of TLC over four hosts before it was proved.

Induction over data is done without the induction theorems, whose operator parameter the
provers cannot instantiate: as a least counterexample (`LeastNatural`, which follows from
`WFMin`), or as an invariant of the steps.

Only model-checked:

* the liveness properties (`IncidentsAreReclaimed`, `ApprovalResolves`,
  `HighSeverityGetsAction`, `AppendedLinesArePublished`, `ConnectionsArePrinted`), which
  are out of the prover's reach;
* `LoadsDocument`: the reader is a fold over the lines of a document whose layout is
  itself computed, so the proof would be an induction over data on three levels (sections,
  entries, lines). It is the hypothesis of `ChainIsWhole` and `AlertsFollowDocument`; TLC
  checks it on every document of up to three sections.

## 5. Observations without a run of their own

The models contain these behaviours; no property is stated for them because the
code plainly does not aim at one.

* A failed connect leaves its entry in `sock_store`: the return probe leaves before the
  deletion. Only the next successful connect of the same thread removes it, and a full map
  refuses new entries, so those connections are missed. A full ring buffer drops the
  record. `ConnectionsArePrinted` excuses both.
* The probes are attached before `cidr_map` is filled: what returns in between is taken
  for a connection from outside the pod network and dropped.
* The age of an event is an unsigned difference (engine.cpp:398): an event older than
  the start of the window counts as very old, resets counters and alerted sources, and
  moves the window back. `WindowsEndOnTime` allows exactly this besides the regular end.
* The offline tool stamps a line without a timestamp when it parses it, and parses the
  input once per detector: on such lines the three detectors may see different windows.
  `PortScanDetector` covers inputs with timestamps, for which the comparison is fair.
* A line whose beginning the bridge reads at the end of the file is lost, because
  `ReadBytes` returns it together with `io.EOF` and `readForever` drops it. The
  properties of `AlertBridge` excuse such a line, and show that it takes no other
  with it.
* The comment in `25-aggregator.yaml` calls a second replica active-passive. A queue
  group distributes messages, and every process has its own map: with two replicas each
  may see one node of an incident, and neither marks it cross-node, although the row
  ends up with both nodes (`RowsMergeMessages` says so).
* An emission that is lost silences its incident for as long as alerts keep coming
  within the window: they are duplicates of it. `TrackedIncidentsAreStored` excuses
  exactly this.
* An upgrade is emitted when the second node appears. A third node is only in the
  aggregator's memory.
* A subscriber that finds no NATS when it starts exits, and the service goes on without
  it until somebody restarts it.
* A key of a section `load_config` does not know is stored in the section before it
  (config_loader.cpp:114 leaves the section as it was). A network entry must begin with
  its CIDR, or prefix and label are uninitialised. A malformed CIDR is not reported: it
  becomes 0.0.0.0 with the length it had, or 0.0.0.0/0, which matches everything. The
  comment in line 197 allows a name on the line after `- name:`; the value would have to
  come as another `name:` line.
* The width and depth of the configuration are read and not used: the registry creates a
  sketch of 2048 by 5 (registry.cpp:16-18). `snapshot_interval_seconds` is read and not
  used, and `scc_interval_seconds: 0` is a division by zero in the event loop.
* The handler `stdout` writes to stderr unless its `stream` parameter says otherwise. A
  file handler whose stream has gone bad writes nothing any more and reports nothing.
  With `[file, nats]` and NATS down the process truncates `alerts.json` and exits, at
  every restart. alert_handler_factory.h:64 says that the NATS handler is registered
  only in builds with NATS; register_handlers.cpp:15 always registers it, as a stub.
* A `NODE_NAME` that is set but empty hides `HOSTNAME`, and the alerts name no node.
* The audit entry is a separate insert with the request's context: a client that
  goes away leaves a decided action without an entry. `ChangesAreAudited` holds while
  process, database and clients stay up.
* An action whose application failed ends as `failed` and cannot be approved again
  (ch-design.tex speaks of keeping it pending). The next alert drafts a new one.
* A failed `QuarantinePodByIP` is logged and the policy is applied: the action is
  executed and no pod carries the label the policy selects.
* The pod is looked up by address when the action is approved, not taken from the
  context stored with the incident: a reused address labels the new holder.
* A follow-up is accepted for an incident without a NetworkPolicy.
* A status change overwrites one that was stored after its read.
* The upsert of an incident without nodes by an alert without a node name is refused
  (`array_agg` over nothing is NULL), and the alert is dropped.
* The subscriber lists 200 pending actions: beyond that `OnePendingDraft` fails, as it
  does in the model for a `ListLimit` smaller than the number of pending drafts
  (`ServiceDrafts` has as many as the list holds).
* `evictExpired` makes the comparison of `CorrelatorBootClock` with the aggregator's time
  of day: with timestamps since boot every tick of the cleanup evicts what there is.
* An alert without source or type passes through the aggregator ("let consumers decide",
  correlator.go:53), and the only consumer with a table refuses it.

## 6. Not modelled

Reports and export (read-only queries), the web console (stateless; its timeout is the
fault `disconnect`), the graph snapshot and what else is only written for a reader, the
command lines, traces, tables and text parsers of the offline tools, manifests,
playbooks, benchmarks and plots. None of them keeps state another part reads.

## 7. Plan

1. (done) Collector, engine, libdsa, bridge, correlator, incident store and service;
   their runs; the decision, emission, sketch and window theorems.
2. (done) `ActionLifecycle` and the refinement of `IncidentService`; `IncidentStream`,
   the composition of aggregators, NATS and table; configuration, start-up and handler
   chain; the offline tools.
3. (done) The proofs of section 4: collector, bridge, stream, table and lifecycle, and the
   sequential parts: estimators, trie, reachability, the two component algorithms, start-up
   and handler chain.
4. Open: `LoadsDocument` for documents of any length, which would make `ChainIsWhole` and
   `AlertsFollowDocument` unconditional.
