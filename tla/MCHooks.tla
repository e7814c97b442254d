------------------------------ MODULE MCHooks ------------------------------
(* The hooks and commands of SipfwHooks in three settings, which share nothing: *)
(* every command of one administrator, with no packet, until the module is      *)
(* unloaded; additions at the ends of a chain, with one packet; and two packets *)
(* that may hit a rule at once.                                                 *)
EXTENDS MCSipfwHooks
CONSTANTS p1, p2

VARIABLES
    setting,    \* "alone", "add" or "pair"
    together    \* history: two hooks were between the load and the store of HitNumber++

MCOpts == AddOpts \cup AllOpts
OptsOf == [alone |-> AllOpts, add |-> AddOpts, pair |-> {O("APPEND", One, -1)}]
BudgetOf == [alone |-> Budget, add |-> 3, pair |-> 1]
PktOf == [alone |-> {}, add |-> {p1}, pair |-> {p1, p2}]

MCvars == <<vars, setting, together>>

MCInit == Init /\ setting \in {"alone", "add", "pair"} /\ together = FALSE

Watch ==
    /\ setting' = setting
    /\ together' = (together \/ \E p, q \in Pkt : p # q /\ {pkt'[p].pc, pkt'[q].pc} = {"hitstore"})

Unloads == [cmd |-> "EXIT"]
MCAdminStep(a) ==
    /\ setting # "alone" /\ adm[a].pc = "idle" => adm[a].n < BudgetOf[setting]
    /\ AdminStep(a) /\ Watch
    /\ \/ adm'[a].o \in OptsOf[setting] \cup {Null}
       \/ setting = "alone" /\ adm'[a].o = Unloads
    /\ adm'[a].n <= BudgetOf[setting]
MCHookRuns(p) == HookRuns(p) /\ Watch
\* Of the hooks that walk OUTPUT, which differ in their name, one stands for all.
MCPktEnters(p) ==
    /\ p \in PktOf[setting] /\ PktEnters(p) /\ Watch
    /\ pkt'[p].hook \in {"LOCAL_IN", "LOCAL_OUT", "FORWARD"}
MCProc == setting = "add" /\ Proc /\ Watch

MCNext ==
    \/ \E a \in Admin : MCAdminStep(a)
    \/ \E p \in Pkt : MCHookRuns(p) \/ MCPktEnters(p)
    \/ MCProc

MCSpec == MCInit /\ [][MCNext]_MCvars /\ \A p \in Pkt : WF_MCvars(MCHookRuns(p))

\* HitNumber is the number of packets that hit a rule, for as long as no two hooks are in
\* the middle of raising it at once; after that it may have lost some, and never gains any.
HitsCounted ==
    /\ HitsNeverOvercounted
    /\ ~together => cf.HitNumber = Cardinality(Hits)
=============================================================================
