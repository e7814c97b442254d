------------------------------- MODULE MCSipfw -------------------------------
(* SIPFW without its clients, part by part: the rule tables, the date in the    *)
(* log, the matching of packets and the life of the module; and the filter of   *)
(* chapter 17.  They share nothing: `part` says which of them runs.             *)
EXTENDS MCSipfwTables, SipfwTime, SipfwMatch, SipfwProc, NfBand
CONSTANTS a2

\* The first day the table has, on which the search for the year leaves it.
Jan1 == [year |-> 2007, mon |-> 1, mday |-> 1]
\* One of the dates that the memory beside the table may make.
OldDate == {[year |-> 2006, mon |-> 12, mday |-> 14, hour |-> 0, min |-> 0, sec |-> 0]}

\* Numbers with and without a newline, one and two digits long, and words with and without.
MCText == {<<"0", "\n">>, <<"1">>, <<"1", "0", "\n">>, <<"D", "R", "O", "P">>,
           <<"A", "C", "C", "E", "P", "T">>, <<"A", "C", "C", "E", "P", "T", "\n">>}

\* Bound: the options of one command line.
MaxOptions == 4
FewOptions ==
    Cardinality({x \in {"s", "d", "m", "n"} : typed[x] # 0} \cup (IF typed.p # "" THEN {"p"} ELSE {})
                \cup (IF typed.u # -1 THEN {"u"} ELSE {}) \cup typed.flags) <= MaxOptions

\* Administrators are alike: a1 is the first to call.
FirstAdminFirst == sets = 0 => setter'[a2] = setter[a2]

VARIABLE part       \* "tables", "date", "match", "module" or "band"

MCInit ==
    /\ part \in {"tables", "date", "match", "module", "band"}
    /\ Init /\ DateInit /\ MatchInit /\ ModuleInit /\ BandInit
    /\ part # "date" => logged = Fault

MCNext ==
    \/ part = "tables" /\ Next /\ UNCHANGED <<part, datevars, matchvars, modulevars, bandvars>>
    \/ part = "date" /\ DateNext /\ UNCHANGED <<part, vars, matchvars, modulevars, bandvars>>
    \/ part = "match" /\ MatchNext /\ FewOptions' /\ UNCHANGED <<part, vars, datevars, modulevars, bandvars>>
    \/ part = "module" /\ ModuleNext /\ UNCHANGED <<part, vars, datevars, matchvars, bandvars>>
    \/ part = "band" /\ BandNext /\ FirstAdminFirst /\ UNCHANGED <<part, vars, datevars, matchvars, modulevars>>

MCvars == <<part, vars, datevars, matchvars, modulevars, bandvars>>

MCSpec == MCInit /\ [][MCNext]_MCvars
=============================================================================
