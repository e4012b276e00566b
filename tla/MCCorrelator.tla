---------------------------- MODULE MCCorrelator ----------------------------
(* Constants for model-checking Correlator. *)
EXTENDS Correlator, TLC

CONSTANTS n1, n2

\* Every alert names its node and carries the time since that node's boot
\* (bpf_ktime_get_ns), not the time of day: n1 booted 3 units after the
\* aggregator's clock started, n2 another 3 units later.
BootClocks == (n1 :> {-3}) @@ (n2 :> {-6}) @@ (NoName :> {})
=============================================================================
