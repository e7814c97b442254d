---------------------------- MODULE SipfwTables ----------------------------
(***************************************************************************)
(* The rule tables of the SIPFW firewall module (src/20_sipfw/sipfw/module)*)
(* and the netlink commands that edit them, one atomic action per command. *)
(*                                                                         *)
(* A table (struct sipfw_list, sipfw.h:190) is a NULL-terminated list of   *)
(* kmalloc'ed rule cells, and a counter `number` kept beside it.  Here the *)
(* list is the sequence of its cells, and heap says what each cell holds:  *)
(* NoRule for a cell the allocator owns.  SipfwHooks keeps the same tables *)
(* pointer by pointer, with packets walking them while a command runs.     *)
(*                                                                         *)
(* The options (`o`) are what sipfw_u.c sends: -1 is an option not given.  *)
(***************************************************************************)
EXTENDS Integers, SequencesExt, FiniteSetsExt

CONSTANTS
    Cell,      \* kmalloc'able rule cells
    NoRule,    \* the contents of a cell that is not allocated
    Opts,      \* the command options a user can give
    Addr       \* what an uninitialised dest field may contain

Chain == 0..2                       \* SIPFW_CHAIN_INPUT, _OUTPUT, _FORWARD
ChainAll == 3                       \* SIPFW_CHAIN_ALL = SIPFW_CHAIN_NUM

Cmd == {"INSERT", "DELETE", "APPEND", "LIST", "FLUSH", "REPLACE"}
Options == [cmd: Cmd, chain: -1..3, source: Nat, dest: Nat, sport: Nat, dport: Nat,
            protocol: Int, action: -1..1, valid: Nat, number: Int]
Rule == [chain: -1..3, source: Nat, dest: Addr, sport: Nat, dport: Nat,
         protocol: 0..255, action: -1..1, valid: Nat]

ASSUME NoRuleAssumption == NoRule \notin Rule
ASSUME OptsAssumption == Opts \subseteq Options
ASSUME AddrAssumption == Addr \subseteq Nat

VARIABLES
    heap,      \* [Cell -> Rule \cup {NoRule}]
    list,      \* [Chain -> Seq(Cell)]: l->rule and the next pointers
    number,    \* [Chain -> Int]: l->number
    phase      \* "running", "unloaded", or how the kernel died

vars == <<heap, list, number, phase>>

Free == {r \in Cell : heap[r] = NoRule}
Linked == UNION {ToSet(list[c]) : c \in Chain}
Leaked == (Cell \ Free) \ Linked    \* allocated, and no pointer leads there

Init ==
    /\ heap = [r \in Cell |-> NoRule]
    /\ list = [c \in Chain |-> <<>>]
    /\ number = [c \in Chain |-> 0]
    /\ phase = "running"

-----------------------------------------------------------------------------
(* The tool: which options SIPFW_JudgeCommand lets through, and what they  *)
(* are when it does.                                                       *)

\* FLUSH and LIST take "no chain" for "all chains".
Normalised(o) ==
    IF o.cmd \in {"FLUSH", "LIST"} /\ o.chain = -1
    THEN [o EXCEPT !.chain = ChainAll] ELSE o

\* The tests compare with > SIPFW_CHAIN_NUM where they need >=; the test of
\* INSERT guards a break instead of the error.
JudgeCommand(o) ==
    \/ o.cmd = "APPEND"  /\ o.chain \in 0..3 /\ o.action # -1
    \/ o.cmd = "DELETE"  /\ o.chain \in 0..3
    \/ o.cmd = "INSERT"
    \/ o.cmd \in {"FLUSH", "LIST"}
    \/ o.cmd = "REPLACE" /\ o.chain \in Chain /\ o.number # -1

Sent == {Normalised(o) : o \in {x \in Opts : JudgeCommand(x)}}

-----------------------------------------------------------------------------
(* The kernel side.                                                        *)

\* The cell SIPFW_NLDoAction fills: source is assigned twice and dest never,
\* so dest is what kmalloc's memory held; protocol is cut to its __u8.
RuleOf(o, d) ==
    [chain |-> o.chain, source |-> o.source, dest |-> d, sport |-> o.sport,
     dport |-> o.dport, protocol |-> o.protocol % 256, action |-> o.action,
     valid |-> o.valid]

Dies(how) == phase' = how /\ UNCHANGED <<heap, list, number>>

\* The command ends with its own cell on no list: kfree(rule) or a leak.
KeepTables == UNCHANGED <<list, number, phase>>
KfreeRule == KeepTables /\ UNCHANGED heap
LeakRule(r, rl) == KeepTables /\ heap' = [heap EXCEPT ![r] = rl]

\* r goes on chain c, whose cells become s; the counter is set to n.
LinkRule(r, rl, c, s, n) ==
    /\ heap' = [heap EXCEPT ![r] = rl]
    /\ list' = [list EXCEPT ![c] = s]
    /\ number' = [number EXCEPT ![c] = n]
    /\ UNCHANGED phase

\* Mutants of Unlink: freed but left on the list; the last cell moved
\* into the hole; the rest of the chain cut off.
UnlinkForgets(c, i) ==
    /\ heap' = [heap EXCEPT ![list[c][i]] = NoRule]
    /\ UNCHANGED <<list, number, phase>>

UnlinkSwaps(c, i) ==
    /\ heap' = [heap EXCEPT ![list[c][i]] = NoRule]
    /\ list' = [list EXCEPT ![c] = Front(ReplaceAt(@, i, Last(@)))]
    /\ number' = [number EXCEPT ![c] = @ - 1]
    /\ UNCHANGED phase

UnlinkCuts(c, i) ==
    /\ heap' = [heap EXCEPT ![list[c][i]] = NoRule]
    /\ list' = [list EXCEPT ![c] = SubSeq(@, 1, i - 1)]
    /\ number' = [number EXCEPT ![c] = i - 1]
    /\ UNCHANGED phase

\* The cell at position i of chain c is unlinked, freed and uncounted.
Unlink(c, i) ==
    /\ heap' = [heap EXCEPT ![list[c][i]] = NoRule]
    /\ list' = [list EXCEPT ![c] = RemoveAt(@, i)]
    /\ number' = [number EXCEPT ![c] = @ - 1]
    /\ UNCHANGED phase

RuleAddpend(r, rl) ==
    LET c == rl.chain IN
    \/ /\ c \in Chain
       /\ LinkRule(r, rl, c, Append(list[c], r), number[c] + 1)
    \/ c \notin Chain /\ Dies("out_of_bounds")

\* INSERT never counts the rule.  At the head it links it; beyond the counter
\* it links it at the tail, through a NULL prev when the list is empty; at a
\* position in between, prev->next = rule and rule->next = cur->next drop cur.
RuleInsert(r, rl, num) ==
    LET c == rl.chain IN
    \/ c \notin Chain /\ Dies("out_of_bounds")
    \/ /\ c \in Chain
       /\ \/ num = 1 /\ LinkRule(r, rl, c, <<r>> \o list[c], number[c])
          \/ /\ num # 1 /\ num > number[c]
             /\ \/ /\ list[c] # <<>>
                   /\ LinkRule(r, rl, c, Append(list[c], r), number[c])
                \/ list[c] = <<>> /\ Dies("null_deref")
          \/ /\ num \notin {1, -1} /\ num <= number[c]
             /\ \/ /\ num \in 2..Len(list[c])
                   /\ LinkRule(r, rl, c, ReplaceAt(list[c], num, r), number[c])
                \/ num \notin 2..Len(list[c]) /\ Dies("null_deref")
          \/ num = -1 /\ num <= number[c] /\ LeakRule(r, rl)

\* What SIPFW_NLAction_RuleDelete compares when no position is given.
SameRule(a, b) ==
    /\ a.action = b.action /\ a.valid = b.valid /\ a.chain = b.chain
    /\ a.source = b.source /\ a.dest = b.dest
    /\ a.sport = b.sport /\ a.dport = b.dport /\ a.protocol = b.protocol

\* The positions of chain c that hold a rule like rl.
Same(c, rl) == {i \in 1..Len(list[c]) : SameRule(heap[list[c][i]], rl)}

RuleDelete(r, rl, num) ==
    LET c == rl.chain IN
    \/ c \notin Chain /\ Dies("out_of_bounds")
    \/ /\ c \in Chain
       /\ \/ num > number[c] /\ KfreeRule
          \/ /\ num <= number[c] /\ num # -1
             /\ \/ num \in 1..Len(list[c]) /\ Unlink(c, num)
                \/ num \notin 1..Len(list[c]) /\ KfreeRule
          \/ /\ num <= number[c] /\ num = -1
             /\ \/ \E i \in Same(c, rl) :
                     /\ \A j \in Same(c, rl) : i <= j
                     /\ Unlink(c, i)
                \/ Same(c, rl) = {} /\ LeakRule(r, rl)

\* The branch that frees the unused rule is only reached without a position.
RuleReplace(r, rl, num) ==
    LET c == rl.chain IN
    /\ c \in Chain
    /\ \/ /\ num # -1 /\ num \in 1..Len(list[c])
          /\ heap' = [heap EXCEPT ![r] = rl, ![list[c][num]] = NoRule]
          /\ list' = [list EXCEPT ![c] = ReplaceAt(@, num, r)]
          /\ UNCHANGED <<number, phase>>
       \/ num # -1 /\ num \notin 1..Len(list[c]) /\ LeakRule(r, rl)
       \/ num = -1 /\ num > number[c] /\ KfreeRule
       \/ num = -1 /\ num <= number[c] /\ LeakRule(r, rl)

\* FLUSH and unloading walk the chains cs in order, freeing the cell behind
\* the cursor; prev is carried from chain to chain and never freed at the end,
\* so the last cell of the last chain that is not empty is lost.
Survivor(cs) ==
    {Last(list[c]) : c \in {x \in cs : /\ list[x] # <<>>
                                       /\ \A y \in cs : y > x => list[y] = <<>>}}

FreeChains(cs) ==
    /\ heap' = [r \in Cell |->
                  IF r \in (UNION {ToSet(list[c]) : c \in cs}) \ Survivor(cs)
                  THEN NoRule ELSE heap[r]]
    /\ list' = [c \in Chain |-> IF c \in cs THEN <<>> ELSE list[c]]
    /\ number' = [c \in Chain |-> IF c \in cs THEN 0 ELSE number[c]]

ChainsOf(o) == IF o.chain = ChainAll THEN Chain ELSE {o.chain}

RuleFlush(o) == FreeChains(ChainsOf(o)) /\ UNCHANGED phase

\* A failed kmalloc is reported and then written through.
NLDoAction(o) ==
    /\ phase = "running"
    /\ \/ \E r \in Free, d \in Addr :
            LET rl == RuleOf(o, d) IN
            \/ o.cmd = "APPEND"  /\ RuleAddpend(r, rl)
            \/ o.cmd = "INSERT"  /\ RuleInsert(r, rl, o.number)
            \/ o.cmd = "DELETE"  /\ RuleDelete(r, rl, o.number)
            \/ o.cmd = "REPLACE" /\ RuleReplace(r, rl, o.number)
            \/ o.cmd = "FLUSH"   /\ RuleFlush(o)
            \/ o.cmd = "LIST"    /\ KfreeRule
       \/ Free = {} /\ Dies("null_deref")

\* SIPFW_Exit, as far as the tables go.
ListDestroy ==
    /\ phase = "running"
    /\ FreeChains(Chain)
    /\ phase' = "unloaded"

Next == ListDestroy \/ \E o \in Sent : NLDoAction(o)

Spec == Init /\ [][Next]_vars

-----------------------------------------------------------------------------
(* Properties.                                                             *)

\* Each variable holds what its C declaration allows.
TypeOK ==
    /\ heap \in [Cell -> Rule \cup {NoRule}]
    /\ list \in [Chain -> Seq(Cell)]
    /\ number \in [Chain -> Int]
    /\ phase \in {"running", "unloaded", "null_deref", "out_of_bounds"}

\* Every cell a walk of a chain meets is allocated (the handlers unlink before
\* they free), and is met once: no chain loops or runs into another one.
LinkedAllocated == \A c \in Chain : \A i \in 1..Len(list[c]) : heap[list[c][i]] # NoRule
LinkedOnce ==
    \A c, k \in Chain : \A i \in 1..Len(list[c]), j \in 1..Len(list[k]) :
        list[c][i] = list[k][j] => c = k /\ i = j
ChainsSound == LinkedAllocated /\ LinkedOnce

\* The counter of a chain never exceeds its rules, whatever the commands: the
\* position tests of INSERT and DELETE (num > l->number) never let a walk run
\* off the list, and a client told `number` rules never gets fewer.
CountNeverExceedsRules == \A c \in Chain : number[c] <= Len(list[c])

\* A rule sits on the chain its own chain field names, which is what lets
\* DELETE compare that field and LIST print it.
RulesAtHome == \A c \in Chain : \A i \in 1..Len(list[c]) : heap[list[c][i]].chain = c

\* What the handlers take for granted at every command, whatever came before it:
\* the chains are lists of allocated cells, apart from each other, no shorter than
\* their counters say, and of rules that name them.
TablesSound == TypeOK /\ ChainsSound /\ CountNeverExceedsRules /\ RulesAtHome

\* No command changes the order of the rules that stay on a chain: the first
\* match of a packet only changes when a rule comes or goes.
KeepsOrder ==
    \A c \in Chain : \A i, j \in 1..Len(list[c]), k, l \in 1..Len(list'[c]) :
        i < j /\ list[c][i] = list'[c][k] /\ list[c][j] = list'[c][l] => k < l
OrderKept == [][KeepsOrder]_vars

\* A command loses at most one cell, and a lost cell stays lost: what a long
\* sequence of commands costs in memory is bounded by its length.
LosesOneAtMost == Leaked \subseteq Leaked' /\ Cardinality(Leaked' \ Leaked) <= 1
LosesAtMostOneCell == [][LosesOneAtMost]_vars

\* A command moves no rule that stays, and loses no more than one.
CellsKept == OrderKept /\ LosesAtMostOneCell

\* The tables as the administrator thinks of them: per chain, a list of rules.
Rules == {RuleOf(o, d) : o \in Sent, d \in Addr}
RulesOn == [c \in Chain |-> [i \in 1..Len(list[c]) |-> heap[list[c][i]]]]
Stopped == phase # "running"
Policy == INSTANCE FilterPolicy WITH policy <- RulesOn, stopped <- Stopped

\* Whatever happens to cells and counters, each command edits the policy the
\* way one of the policy's own operations does.
ImplementsPolicy == Policy!Spec

-----------------------------------------------------------------------------
(* What comments of the code say, and the code does not do.                *)

\* sipfw.h:128: INSERT puts a new rule into the chain; none leaves it.
InsertKeepsRules ==
    [][\A o \in Sent : o.cmd = "INSERT" /\ NLDoAction(o) => Linked \subseteq Linked']_vars

=============================================================================
