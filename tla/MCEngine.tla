------------------------------ MODULE MCEngine ------------------------------
(***************************************************************************)
(* Small instances of Engine for TLC.                                      *)
(***************************************************************************)
EXTENDS Engine, TLC

CONSTANTS h1, h2, h3, h4, h5, h6

\* Three sources, two of which collide in each row.
MCHash == [r1 |-> (h1 :> 1 @@ h2 :> 1 @@ h3 :> 2),
           r2 |-> (h1 :> 1 @@ h2 :> 2 @@ h3 :> 2)]

\* A cycle to be closed by two of three hosts.
MCLinks == {<<h1, h2>>, <<h2, h1>>, <<h3, h1>>}

\* Three pairs of hosts, two of which can be joined.
PairHash == [r1 |-> [h \in {h1, h2, h3, h4, h5, h6} |-> 1]]

PairLinks == {<<h1, h2>>, <<h2, h1>>, <<h3, h4>>, <<h4, h3>>,
              <<h2, h3>>, <<h3, h2>>, <<h5, h6>>, <<h6, h5>>}
=============================================================================
