------------------------------- MODULE MCParts -------------------------------
(* The tools of SIPFW at work and, beside them, the user-space stack, which     *)
(* promises safety alone.  They share nothing: `part` says which of them runs.  *)
EXTENDS MCSipfwNetlink, SipStack
CONSTANTS m1, m2, m3

VARIABLE part       \* "tools" or "sip"

\* Cells are alike, so that it does not matter which one kmalloc takes: the first.
TakesFirstFree ==
    LET cells == <<m1, m2, m3>> IN
    \A i \in 1..3 : heap[cells[i]] = NoRule /\ heap'[cells[i]] # NoRule =>
        \A j \in 1..(i - 1) : heap[cells[j]] # NoRule

MCInit ==
    /\ part \in {"tools", "sip"}
    /\ NetInit /\ SipInit

MCNext ==
    \/ part = "tools" /\ NetNext /\ TakesFirstFree /\ UNCHANGED <<part, sipvars>>
    \/ part = "sip" /\ SipNext /\ UNCHANGED <<part, allvars>>

MCvars == <<part, allvars, sipvars>>

\* Of the parts only the tools promise that something will happen.
MCSpec ==
    /\ MCInit /\ [][MCNext]_MCvars
    /\ WF_allvars(part = "tools" /\ NLInput)
    /\ \A c \in Client : /\ WF_allvars(part = "tools" /\ RecvAnswer(c))
                       /\ WF_allvars(part = "tools" /\ RecvRule(c))
=============================================================================
