--------------------------- MODULE MCSipfwNetlink ---------------------------
EXTENDS SipfwNetlink

CONSTANTS c1, c2

\* c1 runs the tool more than once.
MCBudget == c1 :> 2 @@ c2 :> 1
MCBudgetAlone == c1 :> 3

O(k, s, n) ==
    [cmd |-> k, chain |-> IF k = "LIST" THEN -1 ELSE 0, source |-> s, dest |-> 0, sport |-> 0,
     dport |-> 0, protocol |-> 6, action |-> 0, valid |-> 0, number |-> n]

\* Two rules.  An INSERT makes the counter fall behind them, and a DELETE after
\* it makes it negative.
MCOpts == {O("APPEND", 1, -1), O("APPEND", 2, -1), O("INSERT", 2, 1), O("DELETE", 2, -1),
           O("LIST", 0, -1)}
=============================================================================
