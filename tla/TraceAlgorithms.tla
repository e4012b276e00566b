-------------------------- MODULE TraceAlgorithms --------------------------
(***************************************************************************)
(* The trace_algorithms tool, which prints how the two estimators work on  *)
(* a stream: trace_cms with its own copy of the sketch (CMSDirect),        *)
(* trace_misra with its own Misra-Gries table T, and trace_compare, which  *)
(* sets CMSDirect against the library's HeavyHitters and HashMapExact.     *)
(* They share nothing but the stream and advance together here.  The       *)
(* stream is any; the tool has one built in.                               *)
(***************************************************************************)
EXTENDS Integers, FiniteSets

CONSTANTS
    Keys,                   \* the elements of streams, and the queries
    Rows, Columns, Hash,    \* CMSDirect
    K,                      \* MG_K
    MaxStream               \* bound: the length of the stream

VARIABLES
    table,        \* table_ of CMSDirect
    tracked,      \* T, the table of trace_misra
    mg, exact,    \* the estimators of trace_compare
    m             \* elements so far

Sketch == INSTANCE CountMinSketch
H      == INSTANCE HeavyHitters

Init ==
    /\ table = Sketch!EmptyTable /\ tracked = <<>>
    /\ mg = H!NoCounters /\ exact = [x \in Keys |-> 0] /\ m = 0

\* CMSDirect::insert, CMSDirect::query
Insert(x) == Sketch!Record(table, x)
Query(x)  == Sketch!Estimate(table, x)

TableFull == Cardinality(DOMAIN tracked) + 1 >= K

\* The loop stops at the first counter it erases.
DecrementOne ==
    LET y == CHOOSE z \in DOMAIN tracked : TRUE IN
    IF tracked = <<>> THEN tracked
    ELSE IF tracked[y] = 1 THEN [z \in DOMAIN tracked \ {y} |-> tracked[z]] ELSE [tracked EXCEPT ![y] = @ - 1]

DecrementAll == [y \in {z \in DOMAIN tracked : tracked[z] - 1 # 0} |-> tracked[y] - 1]

\* One step of trace_misra
InsertMisra(x) ==
    CASE x \in DOMAIN tracked                 -> [tracked EXCEPT ![x] = @ + 1]
      [] x \notin DOMAIN tracked /\ ~TableFull -> [y \in DOMAIN tracked \cup {x} |-> IF y = x THEN 1 ELSE tracked[y]]
      [] x \notin DOMAIN tracked /\ TableFull  -> DecrementAll

QueryMisra(x) == IF x \in DOMAIN tracked THEN tracked[x] ELSE 0

Step(x) ==
    /\ m < MaxStream /\ m' = m + 1
    /\ table' = Insert(x)
    /\ tracked' = InsertMisra(x)
    /\ mg' = H!Record(mg, x)
    /\ exact' = [exact EXCEPT ![x] = @ + 1]

Next == \E x \in Keys : Step(x)

(* What the tool prints below its tables, and heavy_hitters.h promises,     *)
(* holds for every stream: the sketch and Misra-Gries bracket the true      *)
(* frequency, the gap of Misra-Gries never exceeds m/k rounded down, at     *)
(* most k-1 counters are in use, and the table shown is the library's.      *)
BracketsFrequency ==
    /\ tracked = mg /\ Cardinality(DOMAIN mg) <= K - 1
    /\ \A x \in Keys :
          /\ QueryMisra(x) <= exact[x] /\ exact[x] <= Query(x)
          /\ exact[x] - QueryMisra(x) <= m \div K
=============================================================================
