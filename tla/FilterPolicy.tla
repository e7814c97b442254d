---------------------------- MODULE FilterPolicy ----------------------------
(***************************************************************************)
(* What the SIPFW rule tables promise: each chain is an ordered list of    *)
(* rules, edited one rule at a time or cleared, until the firewall stops.  *)
(* Nothing here knows of cells, pointers or counters.                      *)
(***************************************************************************)
EXTENDS Integers, SequencesExt

CONSTANT Rules                      \* the rules a command can bring
Chains == 0..2

VARIABLES policy, stopped
pvars == <<policy, stopped>>

Init == policy = [c \in Chains |-> <<>>] /\ stopped = FALSE

Edit(c, s) == policy' = [policy EXCEPT ![c] = s] /\ UNCHANGED stopped

AddFirst(c, rl) == Edit(c, <<rl>> \o policy[c])
AddLast(c, rl)  == Edit(c, Append(policy[c], rl))
Put(c, i, rl)   == Edit(c, ReplaceAt(policy[c], i, rl))
TakeOut(c, i)   == Edit(c, RemoveAt(policy[c], i))

Cleared(cs) == policy' = [c \in Chains |-> IF c \in cs THEN <<>> ELSE policy[c]]
Clear(cs) == Cleared(cs) /\ UNCHANGED stopped

\* The firewall stops: unloaded, with every chain cleared, or crashed as it was.
Stop == stopped' = TRUE /\ (Cleared(Chains) \/ UNCHANGED policy)

Next ==
    /\ ~stopped
    /\ \/ \E rl \in Rules : /\ rl.chain \in Chains
                            /\ \/ AddFirst(rl.chain, rl)
                               \/ AddLast(rl.chain, rl)
                               \/ \E i \in 1..Len(policy[rl.chain]) : Put(rl.chain, i, rl)
       \/ \E c \in Chains : \E i \in 1..Len(policy[c]) : TakeOut(c, i)
       \/ \E cs \in {Chains} \cup {{c} : c \in Chains} : Clear(cs)
       \/ Stop

Spec == Init /\ [][Next]_pvars
=============================================================================
