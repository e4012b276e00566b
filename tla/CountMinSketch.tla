--------------------------- MODULE CountMinSketch ---------------------------
(***************************************************************************)
(* The Count-Min Sketch that counts connections per source: one row of     *)
(* counters per seed, the key hashed to one counter of each row.  The hash *)
(* functions are a parameter: nothing below depends on their quality.      *)
(* The counters have 64 bits and cannot wrap within a window.              *)
(***************************************************************************)
EXTENDS Integers

CONSTANTS
    Rows,         \* one row per seed (depth_)
    Columns,      \* counters of a row (width_)
    Hash          \* the column of a key in each row, [Rows -> [keys -> Columns]]

Table == [Rows -> [Columns -> Nat]]

\* The constructor, and reset.
EmptyTable == [r \in Rows |-> [c \in Columns |-> 0]]

RecordOneRow(table, key) ==
    LET row == CHOOSE r \in Rows : TRUE IN
    [r \in Rows |-> [c \in Columns |->
        IF r = row /\ c = Hash[r][key] THEN table[r][c] + 1 ELSE table[r][c]]]

Record(table, key) ==
    [r \in Rows |-> [c \in Columns |->
        IF c = Hash[r][key] THEN table[r][c] + 1 ELSE table[r][c]]]

Counters(table, key) == {table[r][Hash[r][key]] : r \in Rows}

Estimate(table, key) ==
    CHOOSE n \in Counters(table, key) : \A m \in Counters(table, key) : n <= m
=============================================================================
