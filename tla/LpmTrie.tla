------------------------------ MODULE LpmTrie ------------------------------
(***************************************************************************)
(* LPMTrie, the binary trie that maps IPv4 prefixes to labels.  A node is  *)
(* the sequence of bits that leads to it.  Nodes that remove leaves        *)
(* without a prefix stay in the trie.                                      *)
(***************************************************************************)
EXTENDS Integers, Sequences, FiniteSets, FiniteSetsExt, Functions

CONSTANTS
    Width,        \* bits of an address (32)
    Labels        \* labels of prefixes, all different from NoLabel

VARIABLES
    trie,         \* the nodes with has_prefix and label
    count,        \* count_
    table         \* the prefixes and labels that were inserted and not removed

NoLabel   == -1
Addresses == [1..Width -> {0, 1}]
Bits(ip, len) == SubSeq(ip, 1, len)

EmptyNode == [hasPrefix |-> FALSE, label |-> NoLabel]

Init == trie = [p \in {<<>>} |-> EmptyNode] /\ count = 0 /\ table = <<>>

\* The nodes on the way to a prefix.
Path(ip, len) == {Bits(ip, d) : d \in 0..len}

\* LPMTrie::insert
Insert(ip, len, label) ==
    LET node == Bits(ip, len)
        grown == [p \in DOMAIN trie \cup Path(ip, len) |->
                      IF p \in DOMAIN trie THEN trie[p] ELSE EmptyNode]
    IN
    /\ count' = IF grown[node].hasPrefix THEN count ELSE count + 1
    /\ trie' = [grown EXCEPT ![node] = [hasPrefix |-> TRUE, label |-> label]]
    /\ table' = [p \in DOMAIN table \cup {node} |-> IF p = node THEN label ELSE table[p]]

\* remove prunes the node with everything below it
WithoutSubtree(node) ==
    Restrict(trie, {p \in DOMAIN trie :
        ~(Len(node) <= Len(p) /\ SubSeq(p, 1, Len(node)) = node /\ node # <<>>)})

\* The node stays, without its prefix.
Without(node) == [trie EXCEPT ![node] = EmptyNode]

\* LPMTrie::remove; it returns false, and does nothing, without such a prefix.
Remove(ip, len) ==
    LET node == Bits(ip, len) IN
    /\ node \in DOMAIN trie /\ trie[node].hasPrefix
    /\ trie' = Without(node)
    /\ count' = count - 1
    /\ table' = Restrict(table, DOMAIN table \ {node})

\* The depths the walk of lookup gets to: it stops at the first missing child.
Walked(ip) == {d \in 0..Width : Path(ip, d) \subseteq DOMAIN trie}

\* LPMTrie::lookup
Lookup(ip) ==
    LET found == {d \in Walked(ip) : trie[Bits(ip, d)].hasPrefix}
    IN IF found = {} THEN NoLabel ELSE trie[Bits(ip, Max(found))].label

Next ==
    \E ip \in Addresses, len \in 0..Width :
        Remove(ip, len) \/ \E label \in Labels : Insert(ip, len, label)

(* lookup returns the label of the longest inserted prefix of the address,   *)
(* whatever was inserted and removed before, and size the number of          *)
(* prefixes.                                                                 *)
LookupIsLongestMatch ==
    /\ count = Cardinality(DOMAIN table)
    /\ \A ip \in Addresses :
           LET matching == {p \in DOMAIN table : p = Bits(ip, Len(p))} IN
           IF matching = {} THEN Lookup(ip) = NoLabel
           ELSE \E p \in matching : /\ \A q \in matching : Len(q) <= Len(p)
                                    /\ Lookup(ip) = table[p]
=============================================================================
