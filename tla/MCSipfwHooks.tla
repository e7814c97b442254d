---------------------------- MODULE MCSipfwHooks ----------------------------
EXTENDS SipfwHooks

R(c, h, a) == [chain |-> c, hits |-> h, action |-> a]
O(k, rl, n) == [cmd |-> k, rule |-> rl, number |-> n]

\* The OUTPUT chain is the one most hooks walk: rules that drop everything, that let
\* one kind of packet pass, and that let everything pass.
All == R(1, Kind, DROP)
One == R(1, {CHOOSE k \in Kind : TRUE}, ACCEPT)
Pass == R(1, Kind, ACCEPT)
In0 == R(0, Kind, DROP)

\* Commands that only add, at the head and at the tail: three of them can put a rule at
\* each end of a chain a packet has begun to walk, one that drops it and one that lets it
\* pass.
AddOpts == {O("APPEND", rl, -1) : rl \in {One, In0}} \cup {O("INSERT", All, 4)}
           \cup {O("INSERT", rl, 1) : rl \in {One, Pass}}

\* Everything, for one admin and no packet.
AllOpts == {O("APPEND", rl, -1) : rl \in {All, One}}
           \cup {O(k, rl, n) : k \in {"INSERT", "DELETE", "REPLACE"}, rl \in {All}, n \in 1..3}
           \cup {O("DELETE", One, -1), O("INSERT", One, -1), O("REPLACE", One, -1), O("INSERT", All, 0)}
           \cup {O("FLUSH", All, -1), O("FLUSHALL", All, -1)}

DeleteOpts == {O("APPEND", All, -1), O("DELETE", All, 1)}
=============================================================================
