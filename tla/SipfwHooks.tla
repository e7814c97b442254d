----------------------------- MODULE SipfwHooks -----------------------------
(***************************************************************************)
(* The SIPFW rule lists pointer by pointer, one load or store at a time:   *)
(* the netlink handlers that relink them (sipfw_k_nl.c), the netfilter     *)
(* hooks that walk them for every packet (sipfw_k.c), the /proc switches   *)
(* both read (sipfw_k_proc.c), and unloading.  Nothing serialises them:    *)
(* the rwlock_t of struct sipfw_list is never taken, the hooks run on      *)
(* every CPU, and the kernel runs SIPFW_NLInput in the context of whoever  *)
(* sends the command.                                                      *)
(*                                                                         *)
(* A rule is what a packet can tell of it: the packet kinds it matches and *)
(* its action.  Chains that do not exist are left to SipfwTables.          *)
(***************************************************************************)
EXTENDS Integers, SequencesExt, FiniteSetsExt

CONSTANTS
    Cell, Null,     \* rule cells, and the null pointer
    Admin,          \* who can send commands
    Pkt, Kind,      \* packets, and the kinds the rules tell apart
    Opts,           \* commands: [cmd, rule, number], rule as in Rules
    Knobs,          \* the fields of cf that /proc writes change
    Budget,         \* bound: the commands one admin sends
    MayUnload       \* whether the module can be unloaded

Chain == 0..2
Rules == [chain: Chain, hits: SUBSET Kind, action: 0..1]
DROP == 0
ACCEPT == 1
STOLEN == 2

Hook == {"LOCAL_IN", "LOCAL_OUT", "FORWARD", "PRE_ROUTING", "POST_ROUTING"}
\* The chain a hook walks: every hook but LOCAL_IN takes OUTPUT.
ChainOf(h) == IF h = "LOCAL_IN" THEN 0 ELSE 1

ASSUME CellAssumption == IsFiniteSet(Cell)
ASSUME NullAssumption == Null \notin Cell
ASSUME BudgetAssumption == Budget \in Nat
ASSUME PktAssumption == IsFiniteSet(Pkt)
ASSUME KnobsAssumption == Knobs \subseteq {"Invalid", "LogPause", "DefaultAction"}

VARIABLES
    live, rule, next,   \* what each cell is: allocated, its contents, its next
    head, number,       \* sipfw_tables
    cf,                 \* the configuration and the hit counter
    adm,                \* what each admin's command is doing
    pkt,                \* what each packet's hook is doing
    began,              \* history: the first rule of p's walk, as the chain has it until
                        \* p's hook reads it
    seen,               \* history: the verdicts the chain gave p from that rule on
    kernel              \* "running", "unloaded" or "oops"

cells == <<live, rule, next>>
tables == <<head, number>>
vars == <<live, rule, next, head, number, cf, adm, pkt, began, seen, kernel>>

Ptr == Cell \cup {Null}
NoCommand(n) == [pc |-> "idle", o |-> Null, how |-> "", r |-> Null, prev |-> Null, cur |-> Null,
                 i |-> 0, n |-> n]
NoPkt == [pc |-> "idle", hook |-> "LOCAL_IN", kind |-> Null, cur |-> Null,
          found |-> FALSE, hit |-> 0, verdict |-> ACCEPT]

Init ==
    /\ live = [x \in Cell |-> FALSE]
    /\ rule \in [Cell -> {[chain |-> 0, hits |-> {}, action |-> DROP]}]
    /\ next = [x \in Cell |-> Null]
    /\ head = [c \in Chain |-> Null]
    /\ number = [c \in Chain |-> 0]
    /\ cf = [Invalid |-> FALSE, LogPause |-> FALSE, DefaultAction |-> ACCEPT, HitNumber |-> 0]
    /\ adm = [a \in Admin |-> NoCommand(0)]
    /\ pkt = [p \in Pkt |-> NoPkt]
    /\ began = [p \in Pkt |-> Null]
    /\ seen = [p \in Pkt |-> {}]
    /\ kernel = "running"

-----------------------------------------------------------------------------
(* The commands.  adm[a].r is the cell the command brings, prev and cur the*)
(* cursors of its loop, i the position or, in a flush, the chain.          *)

At(a, pc) == adm[a].pc = pc /\ kernel = "running"
Goto(a, pc) == adm' = [adm EXCEPT ![a].pc = pc]
Done(a) == adm' = [adm EXCEPT ![a] = NoCommand(adm[a].n)]
Chn(a) == adm[a].o.rule.chain
Cmd(a) == adm[a].o.cmd

Oops == kernel' = "oops" /\ UNCHANGED <<cells, tables, adm>>

\* kmalloc and fill the rule, then the tests in front of the loops.  A walk
\* starts at the head: how says where it stops.
Started(o) ==
    LET n == number[o.rule.chain] IN
    CASE o.cmd = "APPEND" -> <<"test", "tail">>
      [] o.cmd = "INSERT" -> IF o.number = 1 THEN <<"behead", "">>
                             ELSE IF o.number > n THEN <<"walk", "tail">>
                             ELSE IF o.number # -1 THEN <<"walk", "from">> ELSE <<"lost", "">>
      [] o.cmd = "DELETE" -> IF o.number > n THEN <<"drop", "">>
                             ELSE IF o.number # -1 THEN <<"walk", "at">> ELSE <<"walk", "same">>
      [] o.cmd = "REPLACE" -> IF o.number # -1 THEN <<"walk", "at">>
                              ELSE IF o.number > n THEN <<"drop", "">> ELSE <<"lost", "">>
      [] o.cmd \in {"FLUSH", "FLUSHALL"} -> <<"flush", "">>

NLDoAction(a, o) ==
    /\ At(a, "idle") /\ adm[a].n < Budget
    /\ \/ \E r \in {x \in Cell : ~live[x]} :
            /\ live' = [live EXCEPT ![r] = TRUE]
            /\ rule' = [rule EXCEPT ![r] = o.rule]
            /\ next' = [next EXCEPT ![r] = Null]
            /\ adm' = [adm EXCEPT ![a] =
                         [pc |-> Started(o)[1], o |-> o, how |-> Started(o)[2], r |-> r,
                          prev |-> Null,
                          cur |-> IF Started(o)[1] = "walk" THEN head[o.rule.chain] ELSE Null,
                          i |-> IF o.cmd = "FLUSHALL" THEN 0
                                ELSE IF o.cmd = "FLUSH" THEN o.rule.chain ELSE 1,
                          n |-> @.n + 1]]
            /\ UNCHANGED <<tables, kernel>>
       \/ (\A x \in Cell : live[x]) /\ Oops

\* No branch frees the rule: the cell is lost.
Lose(a) == At(a, "lost") /\ Done(a) /\ UNCHANGED <<cells, tables, kernel>>

\* APPEND: if(l->rule == NULL) l->rule = rule, else walk to the end.
TestHead(a) ==
    /\ At(a, "test")
    /\ \/ head[Chn(a)] = Null /\ Goto(a, "sethead")
       \/ /\ head[Chn(a)] # Null
          /\ adm' = [adm EXCEPT ![a].pc = "walk", ![a].cur = head[Chn(a)]]
    /\ UNCHANGED <<cells, tables, kernel>>

\* Mutants: the two stores swapped, so the rule ends up pointing at itself; the
\* first one forgotten.
BeheadSwapped(a) ==
    /\ At(a, "behead")
    /\ next' = [next EXCEPT ![adm[a].r] = adm[a].r]
    /\ Goto(a, "sethead")
    /\ UNCHANGED <<live, rule, tables, kernel>>

BeheadForgets(a) ==
    At(a, "behead") /\ Goto(a, "sethead") /\ UNCHANGED <<cells, tables, kernel>>

\* INSERT at the head: rule->next = l->rule; l->rule = rule.
Behead(a) ==
    /\ At(a, "behead")
    /\ next' = [next EXCEPT ![adm[a].r] = head[Chn(a)]]
    /\ Goto(a, "sethead")
    /\ UNCHANGED <<live, rule, tables, kernel>>

\* Mutant: the rule is freed at the end, as in the handlers that do not keep it.
SetHeadFrees(a) ==
    /\ At(a, "sethead")
    /\ head' = [head EXCEPT ![Chn(a)] = adm[a].r]
    /\ Goto(a, "drop")
    /\ UNCHANGED <<cells, number, kernel>>

SetHead(a) ==
    /\ At(a, "sethead")
    /\ head' = [head EXCEPT ![Chn(a)] = adm[a].r]
    /\ IF Cmd(a) = "APPEND" THEN Goto(a, "count") ELSE Done(a)
    /\ UNCHANGED <<cells, number, kernel>>

\* The loop condition of the four walks, cur # NULL apart.
Reached(a) ==
    \/ adm[a].how = "from" /\ adm[a].i >= adm[a].o.number
    \/ adm[a].how = "at" /\ adm[a].i = adm[a].o.number
    \/ adm[a].how = "same" /\ rule[adm[a].cur] = adm[a].o.rule

WalkOn(a) ==
    /\ At(a, "walk")
    /\ \/ /\ adm[a].cur # Null /\ ~Reached(a)
          /\ adm' = [adm EXCEPT ![a].prev = adm[a].cur, ![a].cur = next[adm[a].cur],
                                ![a].i = @ + 1]
       \/ adm[a].cur = Null /\ Goto(a, "link")
       \/ adm[a].cur # Null /\ Reached(a) /\ Goto(a, "link")
    /\ UNCHANGED <<cells, tables, kernel>>

\* prev->next = x, or l->rule = x in front.
PointPrev(a, x) ==
    \/ /\ adm[a].prev = Null
       /\ head' = [head EXCEPT ![Chn(a)] = x] /\ UNCHANGED next
    \/ /\ adm[a].prev # Null
       /\ next' = [next EXCEPT ![adm[a].prev] = x] /\ UNCHANGED head

LinkBehind(a) ==            \* APPEND and INSERT
    /\ At(a, "link") /\ Cmd(a) \in {"APPEND", "INSERT"}
    /\ \/ adm[a].prev = Null /\ Oops
       \/ /\ adm[a].prev # Null
          /\ PointPrev(a, adm[a].r)
          /\ \/ Cmd(a) = "APPEND" /\ Goto(a, "count")
             \/ Cmd(a) = "INSERT" /\ adm[a].how = "tail" /\ Done(a)
             \/ Cmd(a) = "INSERT" /\ adm[a].how = "from" /\ Goto(a, "relink")
          /\ UNCHANGED <<live, rule, number, kernel>>

LinkInstead(a) ==           \* REPLACE
    /\ At(a, "link") /\ Cmd(a) = "REPLACE"
    /\ \/ adm[a].cur = Null /\ Done(a) /\ UNCHANGED <<next, head>>
       \/ adm[a].cur # Null /\ PointPrev(a, adm[a].r) /\ Goto(a, "relink")
    /\ UNCHANGED <<live, rule, number, kernel>>

UnlinkCur(a) ==             \* DELETE
    /\ At(a, "link") /\ Cmd(a) = "DELETE"
    /\ \/ /\ adm[a].cur = Null /\ UNCHANGED <<next, head>>
          /\ IF adm[a].how = "same" THEN Done(a) ELSE Goto(a, "drop")
       \/ adm[a].cur # Null /\ PointPrev(a, next[adm[a].cur]) /\ Goto(a, "free")
    /\ UNCHANGED <<live, rule, number, kernel>>

\* rule->next = cur->next, once the rule is already on the list.
Relink(a) ==
    /\ At(a, "relink")
    /\ \/ adm[a].cur = Null /\ Oops
       \/ /\ adm[a].cur # Null
          /\ next' = [next EXCEPT ![adm[a].r] = next[adm[a].cur]]
          /\ IF Cmd(a) = "REPLACE" THEN Goto(a, "free") ELSE Done(a)
          /\ UNCHANGED <<live, rule, tables, kernel>>

FreeCur(a) ==
    /\ At(a, "free")
    /\ live' = [live EXCEPT ![adm[a].cur] = FALSE]
    /\ IF Cmd(a) = "DELETE" THEN Goto(a, "count") ELSE Done(a)
    /\ UNCHANGED <<rule, next, tables, kernel>>

DropRule(a) ==
    /\ At(a, "drop")
    /\ live' = [live EXCEPT ![adm[a].r] = FALSE]
    /\ Done(a)
    /\ UNCHANGED <<rule, next, tables, kernel>>

\* l->number++ and l->number--: a load, then a store.
CountLoad(a) ==
    /\ At(a, "count")
    /\ adm' = [adm EXCEPT ![a].pc = "store", ![a].i = number[Chn(a)]]
    /\ UNCHANGED <<cells, tables, kernel>>

CountStore(a) ==
    /\ At(a, "store")
    /\ \/ Cmd(a) = "APPEND" /\ number' = [number EXCEPT ![Chn(a)] = adm[a].i + 1] /\ Done(a)
       \/ /\ Cmd(a) = "DELETE" /\ number' = [number EXCEPT ![Chn(a)] = adm[a].i - 1]
          /\ Goto(a, "drop")
    /\ UNCHANGED <<cells, head, kernel>>

\* FLUSH and unloading: the loop frees the cell behind its cursor, and each
\* chain loses its head only when the cells behind it are gone.
FlushHead(a) ==
    /\ At(a, "flush")
    /\ adm' = [adm EXCEPT ![a].pc = "flushwalk", ![a].cur = head[adm[a].i]]
    /\ UNCHANGED <<cells, tables, kernel>>

FlushWalk(a) ==
    /\ At(a, "flushwalk") /\ adm[a].cur # Null
    /\ live' = [x \in Cell |-> IF x = adm[a].prev THEN FALSE ELSE live[x]]
    /\ adm' = [adm EXCEPT ![a].prev = adm[a].cur, ![a].cur = next[adm[a].cur]]
    /\ UNCHANGED <<rule, next, tables, kernel>>

FlushClear(a) ==
    /\ At(a, "flushwalk") /\ adm[a].cur = Null
    /\ head' = [head EXCEPT ![adm[a].i] = Null]
    /\ number' = [number EXCEPT ![adm[a].i] = 0]
    /\ \/ /\ Cmd(a) \in {"FLUSHALL", "EXIT"} /\ adm[a].i < 2
          /\ adm' = [adm EXCEPT ![a].pc = "flush", ![a].i = @ + 1]
       \/ Cmd(a) = "FLUSHALL" /\ adm[a].i = 2 /\ Goto(a, "drop")
       \/ Cmd(a) = "EXIT" /\ adm[a].i = 2 /\ Goto(a, "unhook")
       \/ Cmd(a) = "FLUSH" /\ Goto(a, "drop")
    /\ UNCHANGED <<cells, kernel>>

\* rmmod: the lists are destroyed first, the hooks unregistered last.
Exit(a) ==
    /\ MayUnload
    /\ At(a, "idle") /\ \A b \in Admin : adm[b].pc = "idle"
    /\ adm' = [adm EXCEPT ![a].pc = "flush", ![a].o = [cmd |-> "EXIT"], ![a].n = Budget]
    /\ UNCHANGED <<cells, tables, kernel>>

\* nf_unregister_hooks waits for the hooks that are running.
Unhook(a) ==
    /\ At(a, "unhook") /\ \A p \in Pkt : pkt[p].pc \in {"idle", "done"}
    /\ Done(a)
    /\ kernel' = "unloaded"
    /\ UNCHANGED <<cells, tables>>

Relinking(a) ==
    \/ Lose(a) \/ TestHead(a) \/ Behead(a) \/ SetHead(a) \/ WalkOn(a) \/ LinkBehind(a)
    \/ LinkInstead(a) \/ UnlinkCur(a) \/ Relink(a) \/ FreeCur(a) \/ DropRule(a)
    \/ CountLoad(a) \/ CountStore(a) \/ FlushHead(a) \/ FlushWalk(a) \/ FlushClear(a)

-----------------------------------------------------------------------------
(* The hooks.  A packet enters one hook, and leaves it with a verdict.      *)

In(p, pc) == pkt[p].pc = pc /\ kernel = "running"
Leave(p, v) == pkt' = [pkt EXCEPT ![p].pc = "done", ![p].verdict = v]

\* FORWARD sends the packet itself before it looks at anything; the others
\* look at cf.Invalid first.
HookEnter(p, h, k) ==
    /\ In(p, "idle")
    /\ LET e == [pkt[p] EXCEPT !.hook = h, !.kind = k] IN
       pkt' = [pkt EXCEPT ![p] =
                 CASE h = "FORWARD" -> [e EXCEPT !.pc = "done", !.verdict = STOLEN]
                   [] h # "FORWARD" /\ cf.Invalid -> [e EXCEPT !.pc = "done"]
                   [] h # "FORWARD" /\ ~cf.Invalid -> [e EXCEPT !.pc = "head"]]
    /\ UNCHANGED cf

HookHead(p) ==
    /\ In(p, "head")
    /\ pkt' = [pkt EXCEPT ![p].pc = "match", ![p].cur = head[ChainOf(pkt[p].hook)]]
    /\ UNCHANGED cf

\* Mutants: the loop stops before the last rule; the counter is raised whether
\* or not a rule was found.
IsMatchButLast(p) ==
    /\ In(p, "match")
    /\ LET x == pkt[p].cur IN
       \/ (IF x = Null THEN TRUE ELSE next[x] = Null) /\ pkt' = [pkt EXCEPT ![p].pc = "verdict"]
       \/ /\ x # Null /\ next[x] # Null /\ pkt[p].kind \in rule[x].hits
          /\ pkt' = [pkt EXCEPT ![p].pc = "log", ![p].found = TRUE]
       \/ /\ x # Null /\ next[x] # Null /\ pkt[p].kind \notin rule[x].hits
          /\ pkt' = [pkt EXCEPT ![p].cur = next[x]]
    /\ UNCHANGED cf

IsMatchCounts(p) ==
    /\ In(p, "match")
    /\ LET x == pkt[p].cur IN
       \/ x = Null /\ pkt' = [pkt EXCEPT ![p].pc = "hit"]
       \/ /\ x # Null /\ pkt[p].kind \in rule[x].hits
          /\ pkt' = [pkt EXCEPT ![p].pc = "log", ![p].found = TRUE]
       \/ /\ x # Null /\ pkt[p].kind \notin rule[x].hits
          /\ pkt' = [pkt EXCEPT ![p].cur = next[x]]
    /\ UNCHANGED cf

\* One turn of the loop of SIPFW_IsMatch.
IsMatch(p) ==
    /\ In(p, "match")
    /\ LET x == pkt[p].cur IN
       \/ x = Null /\ pkt' = [pkt EXCEPT ![p].pc = "verdict"]
       \/ /\ x # Null /\ pkt[p].kind \in rule[x].hits
          /\ pkt' = [pkt EXCEPT ![p].pc = "log", ![p].found = TRUE]
       \/ /\ x # Null /\ pkt[p].kind \notin rule[x].hits
          /\ pkt' = [pkt EXCEPT ![p].cur = next[x]]
    /\ UNCHANGED cf

LogAppend(p) == In(p, "log") /\ pkt' = [pkt EXCEPT ![p].pc = "hit"] /\ UNCHANGED cf

\* cf.HitNumber++, a load and a store.
HitLoad(p) ==
    /\ In(p, "hit")
    /\ pkt' = [pkt EXCEPT ![p].pc = "hitstore", ![p].hit = cf.HitNumber]
    /\ UNCHANGED cf

HitStore(p) ==
    /\ In(p, "hitstore")
    /\ cf' = [cf EXCEPT !.HitNumber = pkt[p].hit + 1]
    /\ pkt' = [pkt EXCEPT ![p].pc = "verdict"]

HookVerdict(p) ==
    /\ In(p, "verdict")
    /\ Leave(p, IF pkt[p].found THEN rule[pkt[p].cur].action ELSE cf.DefaultAction)
    /\ UNCHANGED cf

HookStep(p) ==
    \/ HookHead(p) \/ IsMatch(p) \/ LogAppend(p) \/ HitLoad(p) \/ HitStore(p) \/ HookVerdict(p)

\* A write to one of the files of /proc/net/sipfw.
ProcWrite(k) ==
    /\ kernel = "running"
    /\ IF k = "DefaultAction" THEN cf' = [cf EXCEPT ![k] = 1 - @]
                              ELSE cf' = [cf EXCEPT ![k] = ~@]
    /\ UNCHANGED pkt

-----------------------------------------------------------------------------
Filtering == {p \in Pkt : pkt[p].pc \in {"head", "match", "log", "hit", "hitstore", "verdict"}}

\* The rules of a chain as the commands mean them: the store still to come that
\* mends a chain just cut (Relink) is taken as done.
After(x) ==
    LET R == {a \in Admin : adm[a].pc = "relink" /\ adm[a].r = x /\ adm[a].cur # Null}
    IN IF R = {} THEN next[x] ELSE next[adm[CHOOSE a \in R : TRUE].cur]
Settled[n \in 0..Cardinality(Cell)] ==
    [x \in Ptr |-> IF x = Null \/ n = 0 THEN <<>> ELSE <<rule[x]>> \o Settled[n - 1][After(x)]]
Contents(c) == Settled[Cardinality(Cell)][head[c]]

\* What the rules from cell x on say of a packet of kind k.
Verdict(x, k) ==
    LET s == Settled[Cardinality(Cell)][x]
        m == {i \in 1..Len(s) : k \in s[i].hits} IN
    IF m = {} THEN cf.DefaultAction ELSE s[Min(m)].action

\* seen[p] gathers those verdicts from the moment p's hook has read cf.Invalid.
Observe ==
    /\ began' = [p \in Pkt |-> IF pkt'[p].pc = "head" THEN head'[ChainOf(pkt'[p].hook)] ELSE began[p]]
    /\ seen' = [p \in Pkt |->
        IF p \notin Filtering' THEN seen[p]
        ELSE (IF p \in Filtering THEN seen[p] ELSE {}) \cup {Verdict(began[p], pkt[p].kind)'}]

AdminStep(a) ==
    /\ Exit(a) \/ Unhook(a) \/ Relinking(a) \/ \E o \in Opts : NLDoAction(a, o)
    /\ UNCHANGED <<cf, pkt>>
    /\ Observe

HookRuns(p) == HookStep(p) /\ UNCHANGED <<cells, tables, adm, kernel>> /\ Observe

PktEnters(p) ==
    /\ \E h \in Hook, k \in Kind : HookEnter(p, h, k)
    /\ UNCHANGED <<cells, tables, adm, kernel>>
    /\ Observe

Proc ==
    /\ \E k \in Knobs : ProcWrite(k)
    /\ UNCHANGED <<cells, tables, adm, kernel>>
    /\ Observe

Next == (\E a \in Admin : AdminStep(a)) \/ (\E p \in Pkt : HookRuns(p) \/ PktEnters(p)) \/ Proc

Spec == Init /\ [][Next]_vars

\* A hook that has begun runs to its end (softirqs are not preempted by the
\* command's process); commands and writes come when they come.
FairSpec == Spec /\ \A p \in Pkt : WF_vars(HookRuns(p))

-----------------------------------------------------------------------------
(* Properties.                                                             *)

TypeOK ==
    /\ live \in [Cell -> BOOLEAN] /\ rule \in [Cell -> Rules] /\ next \in [Cell -> Ptr]
    /\ head \in [Chain -> Ptr] /\ number \in [Chain -> Int]
    /\ cf \in [Invalid: BOOLEAN, LogPause: BOOLEAN, DefaultAction: 0..1, HitNumber: Nat]
    /\ kernel \in {"running", "unloaded", "oops"}
    /\ \A p \in Pkt : pkt[p].cur \in Ptr /\ pkt[p].verdict \in 0..2 /\ seen[p] \subseteq 0..1
    /\ \A a \in Admin : {adm[a].r, adm[a].prev, adm[a].cur} \subseteq Ptr

\* The cells an actor's next step dereferences.
AdminDerefs(a) ==
    LET f == adm[a] IN
    {x \in Cell : \/ f.pc = "walk" /\ x = f.cur /\ (f.how = "same" \/ ~Reached(a))
                  \/ f.pc = "link" /\ x \in {f.prev} \cup (IF Cmd(a) = "DELETE" THEN {f.cur} ELSE {})
                  \/ f.pc = "relink" /\ x \in {f.r, f.cur}
                  \/ f.pc = "free" /\ x = f.cur
                  \/ f.pc = "drop" /\ x = f.r
                  \/ f.pc = "flushwalk" /\ f.cur # Null /\ x \in {f.prev, f.cur}}
PktDerefs(p) ==
    {x \in Cell : /\ x = pkt[p].cur
                  /\ \/ pkt[p].pc = "match"
                     \/ pkt[p].pc = "log" /\ ~cf.LogPause
                     \/ pkt[p].pc = "verdict" /\ pkt[p].found}

\* No hook and no command reads or writes a cell that has been freed.
NoUseAfterFree ==
    kernel = "running" =>
        /\ \A a \in Admin : \A x \in AdminDerefs(a) : live[x]
        /\ \A p \in Pkt : \A x \in PktDerefs(p) : live[x]

\* What the walks rely on, at every store of a command.
HooksSound == TypeOK /\ NoUseAfterFree

\* The verdict of a filtered packet is one that the chain gave it at some moment while
\* its hook ran, from the rule on that was the first when it began: no packet sees half
\* of a command.  (What was put in front of that rule since is not for this packet, so
\* that two commands may reach it in the other order.)
LinearVerdict ==
    \A p \in Pkt : pkt[p].pc = "done" /\ seen[p] # {} => pkt[p].verdict \in seen[p]

Hits == {p \in Pkt : pkt[p].found /\ pkt[p].pc \in {"verdict", "done"}}

\* The hit counter never exceeds the packets that hit a rule, whatever the
\* hooks do to each other's increments.
HitsNeverOvercounted == cf.HitNumber <= Cardinality(Hits)

\* A packet that has entered a hook gets its verdict, whatever the commands
\* do to the list under it, unless the kernel dies.
PacketLeaves == \A p \in Pkt : p \in Filtering ~> (p \notin Filtering \/ kernel = "oops")

\* The tables as FilterPolicy has them.
Policy == INSTANCE FilterPolicy WITH
    Rules <- {o.rule : o \in Opts},
    policy <- [c \in Chain |-> Contents(c)],
    stopped <- kernel # "running"

\* With one command at a time and nobody looking, the stores of each command
\* add up to one step of the policy (one per chain for a flush).
PointersImplementPolicy == Policy!Spec

\* The commands of one administrator and SIPFW_Exit are the policy's, and read no
\* cell that is freed.
AloneImplementsPolicy == PointersImplementPolicy /\ []HooksSound
=============================================================================
