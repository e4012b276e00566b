---------------------------- MODULE HeavyHitters ----------------------------
(***************************************************************************)
(* HeavyHitters, the Misra-Gries estimator: a few counters for the keys of *)
(* a stream.  A key that finds no counter free lowers all of them by one   *)
(* and is not counted itself.                                              *)
(***************************************************************************)
EXTENDS Integers, FiniteSets

CONSTANT K        \* k_; the constructor refuses less than 2

\* counters_ maps the tracked keys to their counters; reset clears it.
NoCounters == <<>>

\* counters_.size() + 1 < k_
HasRoom(counters) == Cardinality(DOMAIN counters) + 1 < K

\* The decrement-all phase; counters that reach 0 are erased.
Decremented(counters) ==
    [y \in {x \in DOMAIN counters : counters[x] > 1} |-> counters[y] - 1]

\* counters_.emplace(x, 1)
Tracked(counters, x) ==
    [y \in DOMAIN counters \cup {x} |-> IF y = x THEN 1 ELSE counters[y]]

\* HeavyHitters::record
Record(counters, x) ==
    IF x \in DOMAIN counters THEN [counters EXCEPT ![x] = @ + 1]
    ELSE IF HasRoom(counters) THEN Tracked(counters, x)
    ELSE Decremented(counters)

\* HeavyHitters::estimate
Estimate(counters, x) == IF x \in DOMAIN counters THEN counters[x] ELSE 0
=============================================================================
