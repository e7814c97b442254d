----------------------------- MODULE MCSipfwTime -----------------------------
(* The log of SIPFW from the second day that its table of years has.            *)
EXTENDS SipfwTime

Jan2 == [year |-> 2007, mon |-> 1, mday |-> 2]
=============================================================================
