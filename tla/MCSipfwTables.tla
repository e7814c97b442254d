--------------------------- MODULE MCSipfwTables ---------------------------
EXTENDS SipfwTables, TLC

MinNumber == -2      \* bound: how far below zero the counters may drift

O(k, c, a, n) ==
    [cmd |-> k, chain |-> c, source |-> 1, dest |-> 0, sport |-> 0, dport |-> 0,
     protocol |-> -1, action |-> a, valid |-> 0, number |-> n]

\* Every command, on one chain at every position, on a second chain, on all of
\* them and on a chain that does not exist; two actions.
MCOpts ==
    {O(k, 0, a, -1) : k \in {"APPEND", "DELETE"}, a \in {0, 1}}
    \cup {O(k, 0, 0, n) : k \in {"INSERT", "DELETE", "REPLACE"}, n \in 0..Cardinality(Cell)}
    \cup {O(k, 1, 0, -1) : k \in {"APPEND", "DELETE"}}
    \cup {O("INSERT", 0, 0, -1), O("APPEND", 0, -1, -1), O("REPLACE", 3, 0, 1)}
    \cup {O(k, c, -1, -1) : k \in {"FLUSH", "LIST"}, c \in {-1, 0}}
    \cup {O(k, 3, 0, -1) : k \in {"APPEND", "DELETE", "INSERT"}}

\* The cell handed out held zeroes, or something else.
MCAddr == {0, 7}

CountersNear == \A c \in Chain : number[c] >= MinNumber

CellSymmetry == Permutations(Cell)
=============================================================================
