------------------------- MODULE SipfwTablesProofs -------------------------
(***************************************************************************)
(* Theorems about SipfwTables for every number of cells, every set of      *)
(* options and every garbage kmalloc may hand out.                         *)
(***************************************************************************)
EXTENDS SipfwTables, SequenceTheorems, FiniteSetTheorems, TLAPS

(***************************************************************************)
(* Sequences.                                                              *)
(***************************************************************************)

\* Taking out position i moves the later elements one place down.
LEMMA RemoveAtProperties ==
    ASSUME NEW S, NEW s \in Seq(S), NEW i \in 1..Len(s)
    PROVE  /\ RemoveAt(s, i) \in Seq(S)
           /\ Len(RemoveAt(s, i)) = Len(s) - 1
           /\ \A j \in 1..Len(s) - 1 :
                RemoveAt(s, i)[j] = IF j < i THEN s[j] ELSE s[j + 1]
<1> DEFINE p == SubSeq(s, 1, i - 1)
           q == SubSeq(s, i + 1, Len(s))
<1>0. Len(s) \in Nat /\ \A j \in 1..Len(s) : s[j] \in S
    BY ElementOfSeq, LenProperties
<1>1. /\ p \in Seq(S) /\ Len(p) = i - 1
      /\ \A j \in 1..i - 1 : p[j] = s[j]
    <2>1. \A j \in 1..i - 1 : s[j] \in S  BY <1>0
    <2>2. /\ SubSeq(s, 1, i - 1) \in Seq(S)
          /\ Len(SubSeq(s, 1, i - 1)) = IF 1 <= i - 1 THEN (i - 1) - 1 + 1 ELSE 0
          /\ \A j \in 1..(i - 1) - 1 + 1 : SubSeq(s, 1, i - 1)[j] = s[1 + j - 1]
        BY <1>0, <2>1, SubSeqProperties
    <2> QED  BY <1>0, <2>2
<1>2. /\ q \in Seq(S) /\ Len(q) = Len(s) - i
      /\ \A j \in 1..Len(s) - i : q[j] = s[i + j]
    <2>1. \A j \in i + 1..Len(s) : s[j] \in S  BY <1>0
    <2>2. /\ SubSeq(s, i + 1, Len(s)) \in Seq(S)
          /\ Len(SubSeq(s, i + 1, Len(s))) =
                IF i + 1 <= Len(s) THEN Len(s) - (i + 1) + 1 ELSE 0
          /\ \A j \in 1..Len(s) - (i + 1) + 1 :
                SubSeq(s, i + 1, Len(s))[j] = s[(i + 1) + j - 1]
        BY <1>0, <2>1, SubSeqProperties
    <2> QED  BY <1>0, <2>2
<1>3. /\ p \o q \in Seq(S) /\ Len(p \o q) = Len(p) + Len(q)
      /\ \A j \in 1..Len(p) + Len(q) :
            (p \o q)[j] = IF j <= Len(p) THEN p[j] ELSE q[j - Len(p)]
    BY <1>1, <1>2, ConcatProperties
<1>4. RemoveAt(s, i) = p \o q
    BY DEF RemoveAt
<1> HIDE DEF p, q
<1>5. \A j \in 1..Len(s) - 1 : (p \o q)[j] = IF j < i THEN s[j] ELSE s[j + 1]
    <2> SUFFICES ASSUME NEW j \in 1..Len(s) - 1
                 PROVE  (p \o q)[j] = IF j < i THEN s[j] ELSE s[j + 1]
        OBVIOUS
    <2>1. CASE j < i   BY <2>1, <1>0, <1>1, <1>2, <1>3
    <2>2. CASE ~(j < i)
        <3>1. j - (i - 1) \in 1..Len(s) - i  BY <2>2, <1>0
        <3>2. q[j - (i - 1)] = s[j + 1]  BY <3>1, <1>0, <1>2
        <3> QED  BY <2>2, <3>1, <3>2, <1>0, <1>1, <1>2, <1>3
    <2> QED  BY <2>1, <2>2
<1>6. p \o q \in Seq(S) /\ Len(p \o q) = Len(s) - 1
    BY <1>0, <1>1, <1>2, <1>3
<1> QED  BY <1>4, <1>5, <1>6, Zenon

\* Putting e in front moves the elements one place up.
LEMMA ConsProperties ==
    ASSUME NEW S, NEW s \in Seq(S), NEW e \in S
    PROVE  /\ <<e>> \o s \in Seq(S)
           /\ Len(<<e>> \o s) = Len(s) + 1
           /\ \A j \in 1..Len(s) + 1 :
                (<<e>> \o s)[j] = IF j = 1 THEN e ELSE s[j - 1]
<1>1. <<e>> \in Seq(S) /\ Len(<<e>>) = 1 /\ <<e>>[1] = e  OBVIOUS
<1>2. /\ <<e>> \o s \in Seq(S)
      /\ Len(<<e>> \o s) = Len(<<e>>) + Len(s)
      /\ \A j \in 1..Len(<<e>>) + Len(s) :
            (<<e>> \o s)[j] = IF j <= Len(<<e>>) THEN <<e>>[j] ELSE s[j - Len(<<e>>)]
    BY <1>1, ConcatProperties
<1>3. Len(s) \in Nat  BY LenProperties
<1> QED  BY <1>1, <1>2, <1>3

(***************************************************************************)
(* What a step can be.                                                     *)
(***************************************************************************)

\* What the tool sends is in Options, and the cell made of it is a rule.
LEMMA SentRules ==
    ASSUME NEW o \in Sent
    PROVE  /\ o \in Options
           /\ \A d \in Addr : RuleOf(o, d) \in Rule /\ RuleOf(o, d).chain = o.chain
<1>1. PICK x \in Opts : o = Normalised(x)
    BY DEF Sent
<1>2. o \in Options
    BY <1>1, OptsAssumption DEF Normalised, Options, ChainAll
<1>3. o.protocol % 256 \in 0..255
    BY <1>2 DEF Options
<1> QED
    BY <1>2, <1>3 DEF RuleOf, Rule, Options

\* A FLUSH names one chain, or all of them.
LEMMA SentFlush ==
    ASSUME NEW o \in Sent, o.cmd = "FLUSH"
    PROVE  o.chain \in Chain \cup {ChainAll}
<1>1. PICK x \in Opts : o = Normalised(x)
    BY DEF Sent
<1> QED
    BY <1>1, OptsAssumption DEF Normalised, Options, Chain, ChainAll

Phases == {"running", "unloaded", "null_deref", "out_of_bounds"}

\* Every rule a command brings is a rule.
LEMMA RulesAreRules == Rules \subseteq Rule
    BY SentRules DEF Rules

\* The ways a command leaves a cell on a chain.
Linking(r, rl) ==
    LET c == rl.chain IN
    /\ c \in Chain
    /\ \/ LinkRule(r, rl, c, Append(list[c], r), number[c] + 1)
       \/ LinkRule(r, rl, c, Append(list[c], r), number[c])
       \/ LinkRule(r, rl, c, <<r>> \o list[c], number[c])
       \/ \E i \in 1..Len(list[c]) :
            LinkRule(r, rl, c, ReplaceAt(list[c], i, r), number[c])

Replacing(r, rl) ==
    LET c == rl.chain IN
    /\ c \in Chain
    /\ \E i \in 1..Len(list[c]) :
        /\ heap' = [heap EXCEPT ![r] = rl, ![list[c][i]] = NoRule]
        /\ list' = [list EXCEPT ![c] = ReplaceAt(@, i, r)]
        /\ UNCHANGED <<number, phase>>

\* What FLUSH can name: every chain, or one.
ChainSets == {Chain} \cup {{c} : c \in Chain}

\* What a command that does something does: it stops everything, or one of five
\* things to the tables.
Stopping ==
    /\ phase' \in Phases \ {"running"}
    /\ FreeChains(Chain) \/ UNCHANGED <<heap, list, number>>

Doing ==
    \/ Stopping
    \/ \E r \in Free, rl \in Rules : LeakRule(r, rl)
    \/ \E r \in Free, rl \in Rules : Linking(r, rl)
    \/ \E r \in Free, rl \in Rules : Replacing(r, rl)
    \/ \E c \in Chain : \E i \in 1..Len(list[c]) : Unlink(c, i)
    \/ \E cs \in ChainSets : FreeChains(cs) /\ UNCHANGED phase

TableStep == UNCHANGED vars \/ (phase = "running" /\ Doing)

\* Every step of a table is one of those, while the module runs, or none.
LEMMA StepCases ==
    ASSUME [Next]_vars
    PROVE  TableStep
<1> USE DEF TableStep
<1>1. CASE ListDestroy
    <2>1. phase = "running" /\ Stopping
        BY <1>1 DEF ListDestroy, Stopping, Phases
    <2> QED  BY <2>1 DEF Doing
<1>2. ASSUME NEW how \in {"null_deref", "out_of_bounds"}, Dies(how)
      PROVE  Stopping
    BY <1>2 DEF Dies, Stopping, Phases
<1>3. ASSUME KfreeRule PROVE UNCHANGED vars
    BY <1>3 DEF KfreeRule, KeepTables, vars
<1>4. ASSUME NEW o \in Sent, NLDoAction(o), ~UNCHANGED vars
      PROVE  phase = "running" /\ Doing
    <2>0. phase = "running"  BY <1>4 DEF NLDoAction
    <2>1. ASSUME NEW r \in Free, NEW d \in Addr, NEW rl, rl = RuleOf(o, d)
          PROVE  rl \in Rules
        BY <1>4, <2>1 DEF Rules
    <2>2. ASSUME NEW r \in Free, NEW d \in Addr, NEW rl, rl = RuleOf(o, d),
                 RuleAddpend(r, rl)
          PROVE  Doing
        <3>1. Stopping \/ Linking(r, rl)
            BY <2>2, <1>2 DEF RuleAddpend, Linking
        <3> QED  BY <3>1, <2>1, <2>2 DEF Doing
    <2>3. ASSUME NEW r \in Free, NEW d \in Addr, NEW rl, rl = RuleOf(o, d),
                 RuleInsert(r, rl, o.number)
          PROVE  Doing
        <3>1. 2..Len(list[rl.chain]) \subseteq 1..Len(list[rl.chain])
            OBVIOUS
        <3>2. Stopping \/ Linking(r, rl) \/ LeakRule(r, rl)
            BY <2>3, <1>2, <3>1 DEF RuleInsert, Linking
        <3> QED  BY <3>2, <2>1, <2>3 DEF Doing
    <2>4. ASSUME NEW r \in Free, NEW d \in Addr, NEW rl, rl = RuleOf(o, d),
                 RuleDelete(r, rl, o.number)
          PROVE  Doing
        <3>1. Same(rl.chain, rl) \subseteq 1..Len(list[rl.chain])
            BY DEF Same
        <3>2. \/ Stopping
              \/ LeakRule(r, rl)
              \/ rl.chain \in Chain /\ \E i \in 1..Len(list[rl.chain]) : Unlink(rl.chain, i)
            BY <2>4, <1>2, <1>3, <1>4, <3>1 DEF RuleDelete
        <3> QED  BY <3>2, <2>1, <2>4 DEF Doing
    <2>5. ASSUME NEW r \in Free, NEW d \in Addr, NEW rl, rl = RuleOf(o, d),
                 RuleReplace(r, rl, o.number)
          PROVE  Doing
        <3>1. LeakRule(r, rl) \/ Replacing(r, rl)
            BY <2>5, <1>3, <1>4 DEF RuleReplace, Replacing
        <3> QED  BY <3>1, <2>1, <2>5 DEF Doing
    <2>6. ASSUME RuleFlush(o), o.cmd = "FLUSH"
          PROVE  Doing
        <3>1. ChainsOf(o) \in ChainSets
            BY <1>4, <2>6, SentFlush DEF ChainsOf, ChainSets
        <3>2. FreeChains(ChainsOf(o)) /\ UNCHANGED phase
            BY <2>6 DEF RuleFlush
        <3> QED  BY <3>1, <3>2 DEF Doing
    <2>7. ASSUME Dies("null_deref") PROVE Doing
        BY <1>2, <2>7 DEF Doing
    <2> QED
        BY <1>3, <1>4, <2>0, <2>2, <2>3, <2>4, <2>5, <2>6, <2>7 DEF NLDoAction
<1> QED
    BY <1>1, <1>4 DEF Next

(***************************************************************************)
(* The inductive invariant: the checked invariants together.  ChainsSound  *)
(* needs TypeOK (positions are positions of sequences); the count needs    *)
(* TypeOK; RulesAtHome needs ChainsSound, for a step must not write to a   *)
(* linked cell.                                                            *)
(***************************************************************************)
IInv == TypeOK /\ ChainsSound /\ CountNeverExceedsRules /\ RulesAtHome

\* The tables are empty at first.
LEMMA InitIInv == Init => IInv
<1> SUFFICES ASSUME Init PROVE IInv  OBVIOUS
<1>1. \A c \in Chain : list[c] = <<>> /\ Len(list[c]) = 0
    BY DEF Init
<1>2. TypeOK
    BY DEF Init, TypeOK
<1>3. ChainsSound /\ RulesAtHome
    BY <1>1 DEF ChainsSound, LinkedAllocated, LinkedOnce, RulesAtHome
<1>4. CountNeverExceedsRules
    BY <1>1 DEF CountNeverExceedsRules, Init
<1> QED
    BY <1>2, <1>3, <1>4 DEF IInv

\* Linking a free cell: the chain is longer by that cell, or has it in the
\* place of another one; the cells of the chain stay distinct.
LEMMA LinkRuleIInv ==
    ASSUME IInv, NEW r \in Free, NEW rl \in Rule, rl.chain \in Chain,
           NEW s \in Seq(Cell), NEW n \in Int, n <= Len(s),
           \E i \in 1..Len(s) : s[i] = r,
           \A i \in 1..Len(s) :
              s[i] = r \/ \E j \in 1..Len(list[rl.chain]) : s[i] = list[rl.chain][j],
           \A i, j \in 1..Len(s) : s[i] = s[j] => i = j,
           LinkRule(r, rl, rl.chain, s, n)
    PROVE  IInv'
<1> DEFINE c == rl.chain
<1>1. /\ heap \in [Cell -> Rule \cup {NoRule}]
      /\ list \in [Chain -> Seq(Cell)]
      /\ number \in [Chain -> Int]
      /\ r \in Cell /\ heap[r] = NoRule
    BY DEF IInv, TypeOK, Free
<1>2. /\ heap' = [heap EXCEPT ![r] = rl]
      /\ list' = [list EXCEPT ![c] = s]
      /\ number' = [number EXCEPT ![c] = n]
      /\ phase' = phase
    BY DEF LinkRule
<1>3. TypeOK'
    BY <1>1, <1>2 DEF IInv, TypeOK
<1>4. \A k \in Chain : \A i \in 1..Len(list[k]) :
        /\ list[k][i] \in Cell /\ heap[list[k][i]] # NoRule
        /\ list[k][i] # r /\ heap[list[k][i]].chain = k
    BY <1>1, ElementOfSeq
    DEF IInv, ChainsSound, LinkedAllocated, RulesAtHome
<1>5. list'[c] = s /\ \A k \in Chain : k # c => list'[k] = list[k]
    BY <1>1, <1>2
<1>6. rl # NoRule  BY NoRuleAssumption
<1>7. \A i \in 1..Len(s) : s[i] \in Cell
    BY ElementOfSeq
<1>8. LinkedAllocated' /\ RulesAtHome'
    <2> SUFFICES ASSUME NEW k \in Chain, NEW i \in 1..Len(list'[k])
                 PROVE  heap'[list'[k][i]] # NoRule /\ heap'[list'[k][i]].chain = k
        BY DEF LinkedAllocated, RulesAtHome
    <2>1. CASE k # c  BY <2>1, <1>1, <1>2, <1>4, <1>5
    <2>2. CASE k = c /\ s[i] = r  BY <2>2, <1>1, <1>2, <1>5, <1>6
    <2>3. CASE k = c /\ s[i] # r
        <3>1. PICK j \in 1..Len(list[c]) : s[i] = list[c][j]
            BY <2>3, <1>5
        <3> QED  BY <2>3, <3>1, <1>1, <1>2, <1>4, <1>5
    <2> QED  BY <2>1, <2>2, <2>3
<1>9. LinkedOnce'
    <2> SUFFICES ASSUME NEW k \in Chain, NEW h \in Chain,
                        NEW i \in 1..Len(list'[k]), NEW j \in 1..Len(list'[h]),
                        list'[k][i] = list'[h][j]
                 PROVE  k = h /\ i = j
        BY DEF LinkedOnce
    <2>1. CASE k # c /\ h # c
        BY <2>1, <1>5 DEF IInv, ChainsSound, LinkedOnce
    <2>2. CASE k = c /\ h = c  BY <2>2, <1>5
    <2>3. CASE k = c /\ h # c
        <3>1. s[i] = list[h][j]  BY <2>3, <1>5
        <3>2. s[i] # r  BY <2>3, <3>1, <1>4, <1>5
        <3>3. PICK m \in 1..Len(list[c]) : s[i] = list[c][m]
            BY <2>3, <3>2, <1>5
        <3> QED
            BY <2>3, <3>1, <3>3, <1>5 DEF IInv, ChainsSound, LinkedOnce
    <2>4. CASE k # c /\ h = c
        <3>1. s[j] = list[k][i]  BY <2>4, <1>5
        <3>2. s[j] # r  BY <2>4, <3>1, <1>4, <1>5
        <3>3. PICK m \in 1..Len(list[c]) : s[j] = list[c][m]
            BY <2>4, <3>2, <1>5
        <3> QED
            BY <2>4, <3>1, <3>3, <1>5 DEF IInv, ChainsSound, LinkedOnce
    <2> QED  BY <2>1, <2>2, <2>3, <2>4
<1>10. CountNeverExceedsRules'
    BY <1>1, <1>2, <1>5 DEF IInv, CountNeverExceedsRules
<1> QED
    BY <1>3, <1>8, <1>9, <1>10 DEF IInv, ChainsSound

\* Linking a cell that was free, wherever APPEND or INSERT puts it, keeps the tables sound.
LEMMA LinkingIInv ==
    ASSUME IInv, NEW r \in Free, NEW rl \in Rule, Linking(r, rl)
    PROVE  IInv'
<1> DEFINE c == rl.chain
           L == list[c]
<1>1. /\ c \in Chain /\ r \in Cell
      /\ L \in Seq(Cell) /\ Len(L) \in Nat /\ number[c] \in Int
      /\ number[c] <= Len(L)
    BY LenProperties DEF Linking, IInv, TypeOK, Free, CountNeverExceedsRules
<1>2. \A i \in 1..Len(L) : L[i] # r
    BY <1>1 DEF IInv, ChainsSound, LinkedAllocated, Free
<1>3. \A i, j \in 1..Len(L) : L[i] = L[j] => i = j
    BY <1>1 DEF IInv, ChainsSound, LinkedOnce
<1>4. ASSUME NEW n \in {number[c], number[c] + 1},
             LinkRule(r, rl, c, Append(L, r), n)
      PROVE  IInv'
    <2> DEFINE s == Append(L, r)
    <2>1. /\ s \in Seq(Cell) /\ Len(s) = Len(L) + 1 /\ s[Len(L) + 1] = r
          /\ \A i \in 1..Len(L) : s[i] = L[i]
        BY <1>1, AppendProperties
    <2>2. n \in Int /\ n <= Len(s)  BY <1>1, <1>4, <2>1
    <2> HIDE DEF s
    <2>3. \E i \in 1..Len(s) : s[i] = r  BY <1>1, <2>1
    <2>4. \A i \in 1..Len(s) : s[i] = r \/ \E j \in 1..Len(L) : s[i] = L[j]
        BY <1>1, <2>1
    <2>5. \A i, j \in 1..Len(s) : s[i] = s[j] => i = j
        BY <1>1, <1>2, <1>3, <2>1
    <2>6. LinkRule(r, rl, c, s, n)  BY <1>4 DEF s
    <2> QED  BY <1>1, <2>1, <2>2, <2>3, <2>4, <2>5, <2>6, LinkRuleIInv
<1>5. ASSUME LinkRule(r, rl, c, <<r>> \o L, number[c])
      PROVE  IInv'
    <2> DEFINE s == <<r>> \o L
    <2>1. /\ s \in Seq(Cell) /\ Len(s) = Len(L) + 1
          /\ \A i \in 1..Len(L) + 1 : s[i] = IF i = 1 THEN r ELSE L[i - 1]
        BY <1>1, ConsProperties
    <2>2. number[c] <= Len(s)  BY <1>1, <2>1
    <2> HIDE DEF s
    <2>3. \E i \in 1..Len(s) : s[i] = r  BY <1>1, <2>1
    <2>a. \A i \in 1..Len(s) : i # 1 => i - 1 \in 1..Len(L) /\ s[i] = L[i - 1]
        BY <1>1, <2>1
    <2>b. s[1] = r  BY <1>1, <2>1
    <2>4. \A i \in 1..Len(s) : s[i] = r \/ \E j \in 1..Len(L) : s[i] = L[j]
        BY <2>a, <2>b
    <2>5. \A i, j \in 1..Len(s) : s[i] = s[j] => i = j
        <3> SUFFICES ASSUME NEW i \in 1..Len(s), NEW j \in 1..Len(s), s[i] = s[j]
                     PROVE  i = j
            OBVIOUS
        <3>1. CASE i = 1 \/ j = 1  BY <3>1, <2>a, <2>b, <1>2
        <3>2. CASE i # 1 /\ j # 1
            <4>1. i - 1 = j - 1  BY <3>2, <2>a, <1>3
            <4> QED  BY <4>1
        <3> QED  BY <3>1, <3>2
    <2>6. LinkRule(r, rl, c, s, number[c])  BY <1>5 DEF s
    <2> QED  BY <1>1, <2>1, <2>2, <2>3, <2>4, <2>5, <2>6, LinkRuleIInv
<1>6. ASSUME NEW k \in 1..Len(L), LinkRule(r, rl, c, ReplaceAt(L, k, r), number[c])
      PROVE  IInv'
    <2> DEFINE s == ReplaceAt(L, k, r)
    <2>1. /\ s \in Seq(Cell) /\ Len(s) = Len(L)
          /\ \A i \in 1..Len(L) : s[i] = IF i = k THEN r ELSE L[i]
        BY <1>1, ExceptSeq DEF ReplaceAt
    <2>2. number[c] <= Len(s)  BY <1>1, <2>1
    <2> HIDE DEF s
    <2>3. \E i \in 1..Len(s) : s[i] = r  BY <1>1, <2>1
    <2>4. \A i \in 1..Len(s) : s[i] = r \/ \E j \in 1..Len(L) : s[i] = L[j]
        BY <1>1, <2>1
    <2>5. \A i, j \in 1..Len(s) : s[i] = s[j] => i = j
        BY <1>1, <1>2, <1>3, <2>1
    <2>6. LinkRule(r, rl, c, s, number[c])  BY <1>6 DEF s
    <2> QED  BY <1>1, <2>1, <2>2, <2>3, <2>4, <2>5, <2>6, LinkRuleIInv
<1> QED
    BY <1>4, <1>5, <1>6 DEF Linking

\* Replacing: as linking at that position, and the cell that was there is freed.
LEMMA ReplacingIInv ==
    ASSUME IInv, NEW r \in Free, NEW rl \in Rule, Replacing(r, rl)
    PROVE  IInv'
<1> DEFINE c == rl.chain
           L == list[c]
<1>1. /\ c \in Chain /\ r \in Cell /\ heap[r] = NoRule
      /\ heap \in [Cell -> Rule \cup {NoRule}]
      /\ list \in [Chain -> Seq(Cell)]
      /\ number \in [Chain -> Int]
    BY DEF Replacing, IInv, TypeOK, Free
<1>2. PICK k \in 1..Len(L) :
        /\ heap' = [heap EXCEPT ![r] = rl, ![L[k]] = NoRule]
        /\ list' = [list EXCEPT ![c] = ReplaceAt(@, k, r)]
        /\ number' = number /\ phase' = phase
    BY DEF Replacing
<1>3. /\ list'[c] \in Seq(Cell) /\ Len(list'[c]) = Len(L)
      /\ \A i \in 1..Len(L) : list'[c][i] = IF i = k THEN r ELSE L[i]
    BY <1>1, <1>2, ExceptSeq DEF ReplaceAt
<1>4. \A h \in Chain : h # c => list'[h] = list[h]
    BY <1>1, <1>2
<1>5. \A h \in Chain : \A i \in 1..Len(list[h]) :
        /\ list[h][i] \in Cell /\ heap[list[h][i]] # NoRule
        /\ list[h][i] # r /\ heap[list[h][i]].chain = h
        /\ list[h][i] = L[k] => h = c /\ i = k
    BY <1>1, ElementOfSeq
    DEF IInv, ChainsSound, LinkedAllocated, LinkedOnce, RulesAtHome
<1>6. L[k] \in Cell /\ L[k] # r  BY <1>1, <1>2, <1>5
<1>7. TypeOK'
    <2>1. heap' \in [Cell -> Rule \cup {NoRule}]  BY <1>1, <1>2
    <2>2. list' \in [Chain -> Seq(Cell)]  BY <1>1, <1>2, <1>3, <1>4
    <2> QED  BY <1>1, <1>2, <2>1, <2>2 DEF IInv, TypeOK
<1>8. heap'[r] = rl /\ \A x \in Cell : x # r /\ x # L[k] => heap'[x] = heap[x]
    BY <1>1, <1>2, <1>6
<1>9. LinkedAllocated' /\ RulesAtHome'
    <2> SUFFICES ASSUME NEW h \in Chain, NEW i \in 1..Len(list'[h])
                 PROVE  heap'[list'[h][i]] # NoRule /\ heap'[list'[h][i]].chain = h
        BY DEF LinkedAllocated, RulesAtHome
    <2>1. CASE h # c  BY <2>1, <1>4, <1>5, <1>8
    <2>2. CASE h = c /\ i = k
        BY <2>2, <1>3, <1>8, NoRuleAssumption
    <2>3. CASE h = c /\ i # k  BY <2>3, <1>1, <1>3, <1>5, <1>8
    <2> QED  BY <2>1, <2>2, <2>3
<1>10. LinkedOnce'
    <2> SUFFICES ASSUME NEW g \in Chain, NEW h \in Chain,
                        NEW i \in 1..Len(list'[g]), NEW j \in 1..Len(list'[h]),
                        list'[g][i] = list'[h][j]
                 PROVE  g = h /\ i = j
        BY DEF LinkedOnce
    <2>1. /\ i \in 1..Len(list[g])
          /\ list'[g][i] = IF g = c /\ i = k THEN r ELSE list[g][i]
        BY <1>3, <1>4
    <2>2. /\ j \in 1..Len(list[h])
          /\ list'[h][j] = IF h = c /\ j = k THEN r ELSE list[h][j]
        BY <1>3, <1>4
    <2>3. CASE (g = c /\ i = k) \/ (h = c /\ j = k)
        <3>1. list[g][i] # r /\ list[h][j] # r  BY <2>1, <2>2, <1>5
        <3>2. (g = c /\ i = k) <=> (h = c /\ j = k)
            BY <3>1, <2>1, <2>2, Zenon
        <3> QED  BY <2>3, <3>2
    <2>4. CASE ~(g = c /\ i = k) /\ ~(h = c /\ j = k)
        <3>1. list[g][i] = list[h][j]  BY <2>1, <2>2, <2>4
        <3> QED  BY <3>1, <2>1, <2>2 DEF IInv, ChainsSound, LinkedOnce
    <2> QED
        BY <2>3, <2>4
<1>11. CountNeverExceedsRules'
    BY <1>2, <1>3, <1>4 DEF IInv, CountNeverExceedsRules
<1> QED
    BY <1>7, <1>9, <1>10, <1>11 DEF IInv, ChainsSound

\* Taking a cell out of its chain, and freeing it, keeps the tables sound.
LEMMA UnlinkIInv ==
    ASSUME IInv, NEW c \in Chain, NEW k \in 1..Len(list[c]), Unlink(c, k)
    PROVE  IInv'
<1> DEFINE L == list[c]
           P(i) == IF i < k THEN i ELSE i + 1
<1>1. /\ heap \in [Cell -> Rule \cup {NoRule}]
      /\ list \in [Chain -> Seq(Cell)]
      /\ number \in [Chain -> Int]
      /\ L \in Seq(Cell) /\ Len(L) \in Nat
    BY LenProperties DEF IInv, TypeOK
<1>2. /\ heap' = [heap EXCEPT ![L[k]] = NoRule]
      /\ list' = [list EXCEPT ![c] = RemoveAt(@, k)]
      /\ number' = [number EXCEPT ![c] = @ - 1]
      /\ phase' = phase
    BY DEF Unlink
<1>3. /\ list'[c] \in Seq(Cell) /\ Len(list'[c]) = Len(L) - 1
      /\ \A i \in 1..Len(L) - 1 : P(i) \in 1..Len(L) /\ P(i) # k /\ list'[c][i] = L[P(i)]
    <2>1. list'[c] = RemoveAt(L, k)  BY <1>1, <1>2
    <2>2. /\ RemoveAt(L, k) \in Seq(Cell)
          /\ Len(RemoveAt(L, k)) = Len(L) - 1
          /\ \A j \in 1..Len(L) - 1 :
                RemoveAt(L, k)[j] = IF j < k THEN L[j] ELSE L[j + 1]
        BY <1>1, RemoveAtProperties
    <2>3. \A i \in 1..Len(L) - 1 : P(i) \in 1..Len(L) /\ P(i) # k
        BY <1>1
    <2> QED  BY <2>1, <2>2, <2>3
<1>4. \A h \in Chain : h # c => list'[h] = list[h]
    BY <1>1, <1>2
<1>5. \A h \in Chain : \A i \in 1..Len(list[h]) :
        /\ list[h][i] \in Cell /\ heap[list[h][i]] # NoRule
        /\ heap[list[h][i]].chain = h
        /\ list[h][i] = L[k] => h = c /\ i = k
    BY <1>1, ElementOfSeq
    DEF IInv, ChainsSound, LinkedAllocated, LinkedOnce, RulesAtHome
<1>6. \A x \in Cell : x # L[k] => heap'[x] = heap[x]
    BY <1>1, <1>2
<1>7. TypeOK'
    <2>1. heap' \in [Cell -> Rule \cup {NoRule}]  BY <1>1, <1>2
    <2>2. list' \in [Chain -> Seq(Cell)]  BY <1>1, <1>2, <1>3
    <2>3. number' \in [Chain -> Int]  BY <1>1, <1>2
    <2> QED  BY <1>2, <2>1, <2>2, <2>3 DEF IInv, TypeOK
<1>8. \* where the elements of the new chains were
      \A h \in Chain : \A i \in 1..Len(list'[h]) :
        LET j == IF h = c THEN P(i) ELSE i IN
        j \in 1..Len(list[h]) /\ list'[h][i] = list[h][j] /\ ~(h = c /\ j = k)
    BY <1>3, <1>4
<1>9. LinkedAllocated' /\ RulesAtHome'
    <2> SUFFICES ASSUME NEW h \in Chain, NEW i \in 1..Len(list'[h])
                 PROVE  heap'[list'[h][i]] # NoRule /\ heap'[list'[h][i]].chain = h
        BY DEF LinkedAllocated, RulesAtHome
    <2> DEFINE j == IF h = c THEN P(i) ELSE i
    <2>1. j \in 1..Len(list[h]) /\ list'[h][i] = list[h][j] /\ ~(h = c /\ j = k)
        BY <1>8
    <2> HIDE DEF j, P
    <2>2. list[h][j] \in Cell /\ list[h][j] # L[k]  BY <2>1, <1>5
    <2> QED  BY <2>1, <2>2, <1>5, <1>6
<1>10. LinkedOnce'
    <2> SUFFICES ASSUME NEW g \in Chain, NEW h \in Chain,
                        NEW i \in 1..Len(list'[g]), NEW j \in 1..Len(list'[h]),
                        list'[g][i] = list'[h][j]
                 PROVE  g = h /\ i = j
        BY DEF LinkedOnce
    <2> DEFINE a == IF g = c THEN P(i) ELSE i
               b == IF h = c THEN P(j) ELSE j
    <2>1. a \in 1..Len(list[g]) /\ b \in 1..Len(list[h]) /\ list[g][a] = list[h][b]
        BY <1>8
    <2>2. g = h /\ a = b
        BY <2>1 DEF IInv, ChainsSound, LinkedOnce
    <2>3. \A x, y \in Int : P(x) = P(y) => x = y  OBVIOUS
    <2>4. i \in Int /\ j \in Int  OBVIOUS
    <2> QED  BY <2>2, <2>3, <2>4
<1>11. CountNeverExceedsRules'
    BY <1>1, <1>2, <1>3, <1>4 DEF IInv, CountNeverExceedsRules
<1> QED
    BY <1>7, <1>9, <1>10, <1>11 DEF IInv, ChainsSound

\* Freeing whole chains, as FLUSH and unloading do, keeps the tables sound.
LEMMA FreeChainsIInv ==
    ASSUME IInv, NEW cs \in SUBSET Chain, FreeChains(cs), phase' \in Phases
    PROVE  IInv'
<1> DEFINE gone == (UNION {ToSet(list[c]) : c \in cs}) \ Survivor(cs)
<1>1. /\ heap \in [Cell -> Rule \cup {NoRule}]
      /\ list \in [Chain -> Seq(Cell)]
      /\ number \in [Chain -> Int]
    BY DEF IInv, TypeOK
<1>2. /\ heap' = [r \in Cell |-> IF r \in gone THEN NoRule ELSE heap[r]]
      /\ list' = [c \in Chain |-> IF c \in cs THEN <<>> ELSE list[c]]
      /\ number' = [c \in Chain |-> IF c \in cs THEN 0 ELSE number[c]]
    BY DEF FreeChains
<1> HIDE DEF gone
<1>3. TypeOK'
    <2>1. heap' \in [Cell -> Rule \cup {NoRule}]  BY <1>1, <1>2
    <2>2. list' \in [Chain -> Seq(Cell)]  BY <1>1, <1>2
    <2>3. number' \in [Chain -> Int]  BY <1>1, <1>2
    <2> QED  BY <2>1, <2>2, <2>3 DEF TypeOK, Phases
<1>4. \A h \in Chain : \A i \in 1..Len(list'[h]) :
        /\ h \notin cs /\ list'[h] = list[h]
        /\ list[h][i] \in Cell /\ list[h][i] \notin gone
    <2> SUFFICES ASSUME NEW h \in Chain, NEW i \in 1..Len(list'[h])
                 PROVE  /\ h \notin cs /\ list'[h] = list[h]
                        /\ list[h][i] \in Cell /\ list[h][i] \notin gone
        OBVIOUS
    <2>1. h \notin cs /\ list'[h] = list[h]  BY <1>2
    <2>2. list[h][i] \in Cell  BY <1>1, <2>1, ElementOfSeq
    <2>3. ASSUME NEW c \in cs, list[h][i] \in ToSet(list[c])
          PROVE  FALSE
        <3>1. PICK j \in 1..Len(list[c]) : list[h][i] = list[c][j]
            BY <1>1, <2>3, LenProperties DEF ToSet
        <3> QED
            BY <2>1, <3>1 DEF IInv, ChainsSound, LinkedOnce
    <2> QED  BY <2>1, <2>2, <2>3 DEF gone
<1>5. LinkedAllocated' /\ RulesAtHome'
    BY <1>2, <1>4 DEF IInv, ChainsSound, LinkedAllocated, RulesAtHome
<1>6. LinkedOnce'
    BY <1>4 DEF IInv, ChainsSound, LinkedOnce
<1>7. CountNeverExceedsRules'
    <2> SUFFICES ASSUME NEW c \in Chain PROVE number'[c] <= Len(list'[c])
        BY DEF CountNeverExceedsRules
    <2>1. CASE c \in cs  BY <1>2, <2>1
    <2>2. CASE c \notin cs
        BY <1>2, <2>2 DEF IInv, CountNeverExceedsRules
    <2> QED  BY <2>1, <2>2
<1> QED
    BY <1>3, <1>5, <1>6, <1>7 DEF IInv, ChainsSound

\* Filling a cell that nothing links keeps the tables sound.
LEMMA LeakRuleIInv ==
    ASSUME IInv, NEW r \in Free, NEW rl \in Rule, LeakRule(r, rl)
    PROVE  IInv'
<1>1. /\ heap \in [Cell -> Rule \cup {NoRule}]
      /\ r \in Cell /\ heap[r] = NoRule
      /\ list \in [Chain -> Seq(Cell)]
    BY DEF IInv, TypeOK, Free
<1>2. heap' = [heap EXCEPT ![r] = rl] /\ UNCHANGED <<list, number, phase>>
    BY DEF LeakRule, KeepTables
<1>3. \A c \in Chain : \A i \in 1..Len(list[c]) :
        list[c][i] \in Cell /\ heap'[list[c][i]] = heap[list[c][i]]
    BY <1>1, <1>2, ElementOfSeq DEF IInv, ChainsSound, LinkedAllocated
<1>4. TypeOK'
    BY <1>1, <1>2 DEF IInv, TypeOK
<1>5. LinkedAllocated'
    BY <1>2, <1>3 DEF IInv, ChainsSound, LinkedAllocated
<1>6. LinkedOnce'
    <2>1. LinkedOnce  BY DEF IInv, ChainsSound
    <2> QED  BY <1>2, <2>1 DEF LinkedOnce
<1>7. CountNeverExceedsRules'
    <2>1. CountNeverExceedsRules  BY DEF IInv
    <2> QED  BY <1>2, <2>1 DEF CountNeverExceedsRules
<1>8. RulesAtHome'
    BY <1>2, <1>3 DEF IInv, RulesAtHome
<1> QED
    BY <1>4, <1>5, <1>6, <1>7, <1>8 DEF IInv, ChainsSound

\* Every command, and unloading, keeps the tables sound.
LEMMA NextIInv == IInv /\ TableStep => IInv'
<1> SUFFICES ASSUME IInv, TableStep PROVE IInv'  OBVIOUS
<1>1. CASE UNCHANGED <<heap, list, number>> /\ phase' \in Phases
    BY <1>1 DEF IInv, TypeOK, Phases, ChainsSound, LinkedAllocated, LinkedOnce,
                CountNeverExceedsRules, RulesAtHome
<1>2. CASE \E cs \in SUBSET Chain : FreeChains(cs) /\ phase' \in Phases
    BY <1>2, FreeChainsIInv
<1>3. phase \in Phases  BY DEF IInv, TypeOK, Phases
<1>4. CASE UNCHANGED vars  BY <1>1, <1>3, <1>4 DEF vars
<1>5. CASE Stopping
    <2>1. Chain \in SUBSET Chain  OBVIOUS
    <2> QED  BY <1>1, <1>2, <1>5, <2>1 DEF Stopping
<1>6. CASE \E r \in Free, rl \in Rules : LeakRule(r, rl)
    BY <1>6, LeakRuleIInv, RulesAreRules
<1>7. CASE \E r \in Free, rl \in Rules : Linking(r, rl)
    BY <1>7, LinkingIInv, RulesAreRules
<1>8. CASE \E r \in Free, rl \in Rules : Replacing(r, rl)
    BY <1>8, ReplacingIInv, RulesAreRules
<1>9. CASE \E c \in Chain : \E i \in 1..Len(list[c]) : Unlink(c, i)
    BY <1>9, UnlinkIInv
<1>10. CASE \E cs \in ChainSets : FreeChains(cs) /\ UNCHANGED phase
    BY <1>2, <1>3, <1>10 DEF ChainSets
<1> QED
    BY <1>4, <1>5, <1>6, <1>7, <1>8, <1>9, <1>10 DEF TableStep, Doing

(***************************************************************************)
(* The refinement: the rules on the chains are the administrator's policy. *)
(* It needs the invariant: the heap may be rewritten only where no chain   *)
(* looks, and a freed cell must not be one of another chain's.             *)
(***************************************************************************)

\* The policy of a chain has one rule per cell, the one the cell holds.
LEMMA RulesOnChain ==
    ASSUME IInv, NEW c \in Chain
    PROVE  /\ RulesOn[c] \in Seq(Rule)
           /\ Len(RulesOn[c]) = Len(list[c])
           /\ \A i \in 1..Len(list[c]) : RulesOn[c][i] = heap[list[c][i]]
<1>1. list[c] \in Seq(Cell) /\ Len(list[c]) \in Nat
    BY LenProperties DEF IInv, TypeOK
<1>2. \A i \in 1..Len(list[c]) : heap[list[c][i]] \in Rule
    <2>1. \A i \in 1..Len(list[c]) : list[c][i] \in Cell  BY <1>1, ElementOfSeq
    <2> QED  BY <2>1 DEF IInv, TypeOK, ChainsSound, LinkedAllocated
<1>3. RulesOn[c] = [i \in 1..Len(list[c]) |-> heap[list[c][i]]]
    BY DEF RulesOn
<1>4. RulesOn[c] \in Seq(Rule)
    BY <1>1, <1>2, <1>3, IsASeq
<1>5. Len(RulesOn[c]) = Len(list[c])
    BY <1>1, <1>3, <1>4, LenProperties
<1> QED  BY <1>3, <1>4, <1>5

\* A step that gives the cells of one chain the rules s, and leaves the cells of
\* the other chains and what they hold alone, edits that chain of the policy.
LEMMA EditOfChain ==
    ASSUME IInv, IInv', NEW c \in Chain, NEW s \in Seq(Rule),
           Len(list'[c]) = Len(s),
           \A i \in 1..Len(s) : heap'[list'[c][i]] = s[i],
           \A h \in Chain : h # c => list'[h] = list[h],
           \A h \in Chain : h # c =>
                \A i \in 1..Len(list[h]) : heap'[list[h][i]] = heap[list[h][i]],
           phase' = phase
    PROVE  Policy!Edit(c, s)
<1>1. RulesOn'[c] = s
    <2>1. /\ RulesOn'[c] \in Seq(Rule)
          /\ Len(RulesOn'[c]) = Len(list'[c])
          /\ \A i \in 1..Len(list'[c]) : RulesOn'[c][i] = heap'[list'[c][i]]
        <3>1. RulesOn'[c] = [i \in 1..Len(list'[c]) |-> heap'[list'[c][i]]]
            BY DEF RulesOn
        <3>2. list'[c] \in Seq(Cell) /\ Len(list'[c]) \in Nat
            BY LenProperties DEF IInv, TypeOK
        <3>3. \A i \in 1..Len(s) : s[i] \in Rule  BY ElementOfSeq
        <3>4. \A i \in 1..Len(list'[c]) : heap'[list'[c][i]] \in Rule
            BY <3>3
        <3>5. RulesOn'[c] \in Seq(Rule)  BY <3>1, <3>2, <3>4, IsASeq
        <3> QED  BY <3>1, <3>2, <3>5, LenProperties
    <2> QED  BY <2>1, SeqEqual
<1>2. \A h \in Chain : h # c => RulesOn'[h] = RulesOn[h]
    <2> SUFFICES ASSUME NEW h \in Chain, h # c PROVE RulesOn'[h] = RulesOn[h]
        OBVIOUS
    <2>1. /\ RulesOn[h] = [i \in 1..Len(list[h]) |-> heap[list[h][i]]]
          /\ RulesOn'[h] = [i \in 1..Len(list'[h]) |-> heap'[list'[h][i]]]
        BY DEF RulesOn
    <2>2. list'[h] = list[h]  OBVIOUS
    <2>3. \A i \in 1..Len(list[h]) : heap'[list[h][i]] = heap[list[h][i]]  OBVIOUS
    <2>4. [i \in 1..Len(list[h]) |-> heap'[list[h][i]]]
            = [i \in 1..Len(list[h]) |-> heap[list[h][i]]]
        BY <2>3, Zenon
    <2> QED  BY <2>1, <2>2, <2>4, Zenon
<1>3. RulesOn = [h \in Chain |-> RulesOn[h]] /\ RulesOn' = [h \in Chain |-> RulesOn'[h]]
    BY DEF RulesOn
<1>4. RulesOn' = [RulesOn EXCEPT ![c] = s]
    BY <1>1, <1>2, <1>3
<1> QED
    BY <1>4 DEF Policy!Edit, Stopped

\* What every chain holds is what it held, if its cells and their rules are kept.
LEMMA SameRulesOn ==
    ASSUME list' = list,
           \A h \in Chain : \A i \in 1..Len(list[h]) : heap'[list[h][i]] = heap[list[h][i]]
    PROVE  RulesOn' = RulesOn
<1>1. \A h \in Chain : [i \in 1..Len(list[h]) |-> heap'[list[h][i]]]
                       = [i \in 1..Len(list[h]) |-> heap[list[h][i]]]
    BY Zenon
<1>2. RulesOn' = [h \in Chain |-> [i \in 1..Len(list[h]) |-> heap'[list[h][i]]]]
    BY DEF RulesOn
<1> QED  BY <1>1, <1>2, Zenon DEF RulesOn

\* Freeing chains clears them, and touches no rule of another chain.
LEMMA FreeChainsClears ==
    ASSUME IInv, NEW cs \in SUBSET Chain, FreeChains(cs)
    PROVE  Policy!Cleared(cs)
<1> DEFINE gone == (UNION {ToSet(list[c]) : c \in cs}) \ Survivor(cs)
<1>1. /\ heap' = [r \in Cell |-> IF r \in gone THEN NoRule ELSE heap[r]]
      /\ list' = [c \in Chain |-> IF c \in cs THEN <<>> ELSE list[c]]
    BY DEF FreeChains
<1> HIDE DEF gone
<1>2. \A h \in Chain : \A i \in 1..Len(list[h]) : h \notin cs => list[h][i] \in Cell \ gone
    <2> SUFFICES ASSUME NEW h \in Chain, NEW i \in 1..Len(list[h]), h \notin cs
                 PROVE  list[h][i] \in Cell \ gone
        OBVIOUS
    <2>1. list \in [Chain -> Seq(Cell)]  BY DEF IInv, TypeOK
    <2>2. list[h][i] \in Cell  BY <2>1, ElementOfSeq
    <2>3. ASSUME NEW c \in cs, list[h][i] \in ToSet(list[c]) PROVE FALSE
        <3>1. PICK j \in 1..Len(list[c]) : list[h][i] = list[c][j]
            BY <2>1, <2>3, LenProperties DEF ToSet
        <3> QED  BY <3>1 DEF IInv, ChainsSound, LinkedOnce
    <2> QED  BY <2>2, <2>3 DEF gone
<1>3. \A h \in Chain : RulesOn'[h] = IF h \in cs THEN <<>> ELSE RulesOn[h]
    <2> SUFFICES ASSUME NEW h \in Chain
                 PROVE  RulesOn'[h] = IF h \in cs THEN <<>> ELSE RulesOn[h]
        OBVIOUS
    <2>1. /\ RulesOn[h] = [i \in 1..Len(list[h]) |-> heap[list[h][i]]]
          /\ RulesOn'[h] = [i \in 1..Len(list'[h]) |-> heap'[list'[h][i]]]
        BY DEF RulesOn
    <2>2. CASE h \in cs
        <3>1. list'[h] = <<>>  BY <1>1, <2>2
        <3>2. RulesOn'[h] = [i \in 1..0 |-> heap'[list'[h][i]]]  BY <2>1, <3>1
        <3> QED  BY <2>2, <3>2
    <2>3. CASE h \notin cs
        <3>1. list'[h] = list[h]  BY <1>1, <2>3
        <3>2. \A i \in 1..Len(list[h]) : heap'[list[h][i]] = heap[list[h][i]]
            BY <1>1, <1>2, <2>3
        <3>3. RulesOn'[h] = RulesOn[h]  BY <2>1, <3>1, <3>2, Zenon
        <3> QED  BY <2>3, <3>3
    <2> QED  BY <2>2, <2>3
<1>4. RulesOn' = [h \in Chain |-> RulesOn'[h]]
    BY DEF RulesOn
<1>5. RulesOn' = [h \in Chain |-> IF h \in cs THEN <<>> ELSE RulesOn[h]]
    BY <1>3, <1>4, Zenon
<1> QED
    BY <1>5 DEF Policy!Cleared, Policy!Chains, Chain

\* A cell put on a chain adds its rule at an end of the policy, or puts it in the
\* place of another one.
LEMMA LinkingEdits ==
    ASSUME IInv, IInv', NEW r \in Free, NEW rl \in Rules, Linking(r, rl)
    PROVE  LET c == rl.chain IN
           /\ c \in Chain
           /\ \/ Policy!AddFirst(c, rl)
              \/ Policy!AddLast(c, rl)
              \/ \E i \in 1..Len(RulesOn[c]) : Policy!Put(c, i, rl)
<1> DEFINE c == rl.chain
           L == list[c]
           R == RulesOn[c]
<1>1. /\ c \in Chain /\ r \in Cell /\ rl \in Rule
      /\ heap \in [Cell -> Rule \cup {NoRule}]
      /\ list \in [Chain -> Seq(Cell)]
      /\ L \in Seq(Cell) /\ Len(L) \in Nat
    BY LenProperties, RulesAreRules DEF Linking, IInv, TypeOK, Free
<1>2. R \in Seq(Rule) /\ Len(R) = Len(L) /\ \A i \in 1..Len(L) : R[i] = heap[L[i]]
    BY <1>1, RulesOnChain
<1>3. \A h \in Chain : \A i \in 1..Len(list[h]) : list[h][i] \in Cell \ {r}
    BY <1>1, ElementOfSeq DEF IInv, ChainsSound, LinkedAllocated, Free
<1>4. ASSUME NEW s \in Seq(Cell), NEW t \in Seq(Rule), NEW n,
             LinkRule(r, rl, c, s, n), Len(s) = Len(t),
             \A i \in 1..Len(s) : \/ s[i] = r /\ t[i] = rl
                                  \/ s[i] \in Cell \ {r} /\ t[i] = heap[s[i]]
      PROVE  Policy!Edit(c, t)
    <2>1. /\ heap' = [heap EXCEPT ![r] = rl] /\ list' = [list EXCEPT ![c] = s]
          /\ phase' = phase
        BY <1>4 DEF LinkRule
    <2>2. heap'[r] = rl /\ \A x \in Cell \ {r} : heap'[x] = heap[x]
        BY <1>1, <2>1
    <2>3. list'[c] = s /\ \A h \in Chain : h # c => list'[h] = list[h]
        BY <1>1, <2>1
    <2>4. \A i \in 1..Len(t) : heap'[list'[c][i]] = t[i]
        BY <1>4, <2>2, <2>3
    <2>5. \A h \in Chain : h # c =>
            \A i \in 1..Len(list[h]) : heap'[list[h][i]] = heap[list[h][i]]
        BY <1>3, <2>2
    <2>6. Len(list'[c]) = Len(t)  BY <1>4, <2>3
    <2> QED  BY <1>1, <2>1, <2>3, <2>4, <2>5, <2>6, EditOfChain
<1>5. ASSUME NEW n, LinkRule(r, rl, c, Append(L, r), n)
      PROVE  Policy!AddLast(c, rl)
    <2> DEFINE s == Append(L, r)
               t == Append(R, rl)
    <2>1. /\ s \in Seq(Cell) /\ Len(s) = Len(L) + 1
          /\ \A i \in 1..Len(L) + 1 : s[i] = IF i = Len(L) + 1 THEN r ELSE L[i]
        BY <1>1, AppendProperties
    <2>2. /\ t \in Seq(Rule) /\ Len(t) = Len(L) + 1
          /\ \A i \in 1..Len(L) + 1 : t[i] = IF i = Len(L) + 1 THEN rl ELSE R[i]
        BY <1>1, <1>2, AppendProperties
    <2>3. LinkRule(r, rl, c, s, n)  BY <1>5
    <2>4. Policy!AddLast(c, rl) = Policy!Edit(c, t)  BY DEF Policy!AddLast
    <2> HIDE DEF s, t
    <2>5. \A i \in 1..Len(s) : \/ s[i] = r /\ t[i] = rl
                               \/ s[i] \in Cell \ {r} /\ t[i] = heap[s[i]]
        <3> SUFFICES ASSUME NEW i \in 1..Len(s), i # Len(L) + 1
                     PROVE  s[i] \in Cell \ {r} /\ t[i] = heap[s[i]]
            BY <1>1, <2>1, <2>2
        <3>1. i \in 1..Len(L)  BY <1>1, <2>1
        <3> QED  BY <1>1, <1>2, <1>3, <2>1, <2>2, <3>1
    <2>6. Policy!Edit(c, t)  BY <1>4, <2>1, <2>2, <2>3, <2>5
    <2> QED  BY <2>4, <2>6
<1>6. ASSUME NEW n, LinkRule(r, rl, c, <<r>> \o L, n)
      PROVE  Policy!AddFirst(c, rl)
    <2> DEFINE s == <<r>> \o L
               t == <<rl>> \o R
    <2>1. /\ s \in Seq(Cell) /\ Len(s) = Len(L) + 1
          /\ \A i \in 1..Len(L) + 1 : s[i] = IF i = 1 THEN r ELSE L[i - 1]
        BY <1>1, ConsProperties
    <2>2. /\ t \in Seq(Rule) /\ Len(t) = Len(L) + 1
          /\ \A i \in 1..Len(L) + 1 : t[i] = IF i = 1 THEN rl ELSE R[i - 1]
        BY <1>1, <1>2, ConsProperties
    <2>3. LinkRule(r, rl, c, s, n)  BY <1>6
    <2>4. Policy!AddFirst(c, rl) = Policy!Edit(c, t)  BY DEF Policy!AddFirst
    <2> HIDE DEF s, t
    <2>5. \A i \in 1..Len(s) : \/ s[i] = r /\ t[i] = rl
                               \/ s[i] \in Cell \ {r} /\ t[i] = heap[s[i]]
        <3> SUFFICES ASSUME NEW i \in 1..Len(s), i # 1
                     PROVE  s[i] \in Cell \ {r} /\ t[i] = heap[s[i]]
            BY <1>1, <2>1, <2>2
        <3>1. i - 1 \in 1..Len(L) /\ i \in 1..Len(L) + 1  BY <1>1, <2>1
        <3>2. s[i] = L[i - 1] /\ t[i] = R[i - 1]  BY <2>1, <2>2, <3>1
        <3> QED  BY <1>1, <1>2, <1>3, <3>1, <3>2
    <2>6. Policy!Edit(c, t)  BY <1>4, <2>1, <2>2, <2>3, <2>5
    <2> QED  BY <2>4, <2>6
<1>7. ASSUME NEW n, NEW k \in 1..Len(L), LinkRule(r, rl, c, ReplaceAt(L, k, r), n)
      PROVE  Policy!Put(c, k, rl)
    <2> DEFINE s == ReplaceAt(L, k, r)
               t == ReplaceAt(R, k, rl)
    <2>1. /\ s \in Seq(Cell) /\ Len(s) = Len(L)
          /\ \A i \in 1..Len(L) : s[i] = IF i = k THEN r ELSE L[i]
        BY <1>1, ExceptSeq DEF ReplaceAt
    <2>2. /\ t \in Seq(Rule) /\ Len(t) = Len(L)
          /\ \A i \in 1..Len(L) : t[i] = IF i = k THEN rl ELSE R[i]
        BY <1>1, <1>2, ExceptSeq DEF ReplaceAt
    <2>3. LinkRule(r, rl, c, s, n)  BY <1>7
    <2>4. Policy!Put(c, k, rl) = Policy!Edit(c, t)
        BY DEF Policy!Put, Policy!ReplaceAt, ReplaceAt
    <2> HIDE DEF s, t
    <2>5. \A i \in 1..Len(s) : \/ s[i] = r /\ t[i] = rl
                               \/ s[i] \in Cell \ {r} /\ t[i] = heap[s[i]]
        BY <1>1, <1>2, <1>3, <2>1, <2>2
    <2>6. Policy!Edit(c, t)  BY <1>4, <2>1, <2>2, <2>3, <2>5
    <2> QED  BY <2>4, <2>6
<1> QED
    BY <1>1, <1>2, <1>5, <1>6, <1>7 DEF Linking

\* REPLACE puts its rule in the place of another one.
LEMMA ReplacingEdits ==
    ASSUME IInv, IInv', NEW r \in Free, NEW rl \in Rules, Replacing(r, rl)
    PROVE  LET c == rl.chain IN
           c \in Chain /\ \E i \in 1..Len(RulesOn[c]) : Policy!Put(c, i, rl)
<1> DEFINE c == rl.chain
           L == list[c]
           R == RulesOn[c]
<1>1. /\ c \in Chain /\ r \in Cell /\ rl \in Rule
      /\ heap \in [Cell -> Rule \cup {NoRule}]
      /\ list \in [Chain -> Seq(Cell)]
      /\ L \in Seq(Cell) /\ Len(L) \in Nat
    BY LenProperties, RulesAreRules DEF Replacing, IInv, TypeOK, Free
<1>2. R \in Seq(Rule) /\ Len(R) = Len(L) /\ \A i \in 1..Len(L) : R[i] = heap[L[i]]
    BY <1>1, RulesOnChain
<1>3. PICK k \in 1..Len(L) :
        /\ heap' = [heap EXCEPT ![r] = rl, ![L[k]] = NoRule]
        /\ list' = [list EXCEPT ![c] = ReplaceAt(@, k, r)]
        /\ phase' = phase
    BY DEF Replacing
<1>4. \A h \in Chain : \A i \in 1..Len(list[h]) :
        list[h][i] \in Cell \ {r} /\ (list[h][i] = L[k] => h = c /\ i = k)
    BY <1>1, <1>3, ElementOfSeq
    DEF IInv, ChainsSound, LinkedAllocated, LinkedOnce, Free
<1> DEFINE t == ReplaceAt(R, k, rl)
<1>5. /\ t \in Seq(Rule) /\ Len(t) = Len(L)
      /\ \A i \in 1..Len(L) : t[i] = IF i = k THEN rl ELSE R[i]
    BY <1>1, <1>2, <1>3, ExceptSeq DEF ReplaceAt
<1>6. Policy!Put(c, k, rl) = Policy!Edit(c, t)
        BY DEF Policy!Put, Policy!ReplaceAt, ReplaceAt
<1> HIDE DEF t
<1>7. /\ Len(list'[c]) = Len(L)
      /\ \A i \in 1..Len(L) : list'[c][i] = IF i = k THEN r ELSE L[i]
    BY <1>1, <1>3, ExceptSeq DEF ReplaceAt
<1>8. \A h \in Chain : h # c => list'[h] = list[h]
    BY <1>1, <1>3
<1>9. heap'[r] = rl /\ \A x \in Cell \ {r, L[k]} : heap'[x] = heap[x]
    BY <1>1, <1>3, <1>4
<1>10. \A i \in 1..Len(t) : heap'[list'[c][i]] = t[i]
    BY <1>1, <1>2, <1>4, <1>5, <1>7, <1>9
<1>11. \A h \in Chain : h # c =>
        \A i \in 1..Len(list[h]) : heap'[list[h][i]] = heap[list[h][i]]
    BY <1>4, <1>9
<1>12. Len(list'[c]) = Len(t)  BY <1>5, <1>7
<1>13. Policy!Edit(c, t)
    BY <1>1, <1>3, <1>5, <1>8, <1>10, <1>11, <1>12, EditOfChain
<1> QED
    BY <1>1, <1>2, <1>3, <1>6, <1>13

\* Unlinking a cell takes its rule out.
LEMMA UnlinkEdits ==
    ASSUME IInv, IInv', NEW c \in Chain, NEW k \in 1..Len(list[c]), Unlink(c, k)
    PROVE  k \in 1..Len(RulesOn[c]) /\ Policy!TakeOut(c, k)
<1> DEFINE L == list[c]
           R == RulesOn[c]
<1>1. /\ heap \in [Cell -> Rule \cup {NoRule}]
      /\ list \in [Chain -> Seq(Cell)]
      /\ L \in Seq(Cell) /\ Len(L) \in Nat
    BY LenProperties DEF IInv, TypeOK
<1>2. R \in Seq(Rule) /\ Len(R) = Len(L) /\ \A i \in 1..Len(L) : R[i] = heap[L[i]]
    BY <1>1, RulesOnChain
<1>3. /\ heap' = [heap EXCEPT ![L[k]] = NoRule]
      /\ list' = [list EXCEPT ![c] = RemoveAt(@, k)]
      /\ phase' = phase
    BY DEF Unlink
<1>4. \A h \in Chain : \A i \in 1..Len(list[h]) :
        list[h][i] \in Cell /\ (list[h][i] = L[k] => h = c /\ i = k)
    BY <1>1, ElementOfSeq DEF IInv, ChainsSound, LinkedOnce
<1> DEFINE t == RemoveAt(R, k)
<1>5. /\ t \in Seq(Rule) /\ Len(t) = Len(L) - 1
      /\ \A i \in 1..Len(L) - 1 : t[i] = IF i < k THEN R[i] ELSE R[i + 1]
    <2>1. k \in 1..Len(R)  BY <1>2
    <2> QED  BY <1>2, <2>1, RemoveAtProperties
<1>6. Policy!TakeOut(c, k) = Policy!Edit(c, t)
    BY DEF Policy!TakeOut, Policy!RemoveAt, RemoveAt
<1> HIDE DEF t
<1>7. /\ Len(list'[c]) = Len(L) - 1
      /\ \A i \in 1..Len(L) - 1 : list'[c][i] = IF i < k THEN L[i] ELSE L[i + 1]
    <2>1. list'[c] = RemoveAt(L, k)  BY <1>1, <1>3
    <2> QED  BY <1>1, <2>1, RemoveAtProperties
<1>8. \A h \in Chain : h # c => list'[h] = list[h]
    BY <1>1, <1>3
<1>9. \A x \in Cell \ {L[k]} : heap'[x] = heap[x]
    BY <1>1, <1>3
<1>10. \A i \in 1..Len(t) : heap'[list'[c][i]] = t[i]
    <2> SUFFICES ASSUME NEW i \in 1..Len(t) PROVE heap'[list'[c][i]] = t[i]
        OBVIOUS
    <2>1. i \in 1..Len(L) - 1  BY <1>5
    <2>2. CASE i < k
        <3>1. i \in 1..Len(L) /\ i # k  BY <1>1, <2>1, <2>2
        <3> QED  BY <2>1, <2>2, <3>1, <1>2, <1>4, <1>5, <1>7, <1>9
    <2>3. CASE ~(i < k)
        <3>1. i + 1 \in 1..Len(L) /\ i + 1 # k  BY <1>1, <2>1, <2>3
        <3> QED  BY <2>1, <2>3, <3>1, <1>2, <1>4, <1>5, <1>7, <1>9
    <2> QED  BY <2>2, <2>3
<1>11. \A h \in Chain : h # c =>
        \A i \in 1..Len(list[h]) : heap'[list[h][i]] = heap[list[h][i]]
    BY <1>4, <1>9
<1>12. Len(list'[c]) = Len(t)  BY <1>5, <1>7
<1>13. Policy!Edit(c, t)
    BY <1>3, <1>5, <1>8, <1>10, <1>11, <1>12, EditOfChain
<1> QED
    BY <1>2, <1>6, <1>13

\* The chains are empty at first, and so is the policy.
LEMMA InitEdits == Init => Policy!Init
<1> SUFFICES ASSUME Init PROVE Policy!Init  OBVIOUS
<1>1. \A c \in Chain : RulesOn[c] = <<>>
    <2> SUFFICES ASSUME NEW c \in Chain PROVE RulesOn[c] = <<>>  OBVIOUS
    <2>1. RulesOn[c] = [i \in 1..Len(list[c]) |-> heap[list[c][i]]]  BY DEF RulesOn
    <2>2. list[c] = <<>>  BY DEF Init
    <2>3. RulesOn[c] = [i \in 1..0 |-> heap[list[c][i]]]  BY <2>1, <2>2
    <2> QED  BY <2>3
<1>2. RulesOn = [c \in Chain |-> RulesOn[c]]  BY DEF RulesOn
<1>3. RulesOn = [c \in Chain |-> <<>>]  BY <1>1, <1>2, Zenon
<1>4. Stopped = FALSE  BY DEF Stopped, Init
<1> QED  BY <1>3, <1>4 DEF Policy!Init, Policy!Chains, Chain

\* Every step of the tables is a step of the policy, or none.
LEMMA NextEdits ==
    ASSUME IInv, IInv', TableStep
    PROVE  [Policy!Next]_(Policy!pvars)
<1>0. Policy!Chains = Chain  BY DEF Policy!Chains, Chain
<1>1. ASSUME UNCHANGED <<list, phase>>,
             \A h \in Chain : \A i \in 1..Len(list[h]) :
                heap'[list[h][i]] = heap[list[h][i]]
      PROVE  UNCHANGED Policy!pvars
    BY <1>1, SameRulesOn DEF Policy!pvars, Stopped
<1>2. CASE UNCHANGED vars
    BY <1>1, <1>2 DEF vars
<1>3. CASE phase = "running" /\ Doing
    <2>0. Stopped = FALSE  BY <1>3 DEF Stopped
    <2>1. CASE Stopping
        <3>1. Stopped' = TRUE  BY <2>1 DEF Stopping, Stopped
        <3>2. CASE FreeChains(Chain)
            <4>1. Chain \in SUBSET Chain  OBVIOUS
            <4>2. Policy!Cleared(Policy!Chains)
                BY <1>0, <3>2, <4>1, FreeChainsClears
            <4> QED  BY <2>0, <3>1, <4>2 DEF Policy!Next, Policy!Stop
        <3>3. CASE UNCHANGED <<heap, list, number>>
            <4>1. RulesOn' = RulesOn  BY <3>3, SameRulesOn
            <4> QED  BY <2>0, <3>1, <4>1 DEF Policy!Next, Policy!Stop
        <3> QED  BY <2>1, <3>2, <3>3 DEF Stopping
    <2>2. ASSUME NEW r \in Free, NEW rl \in Rules, LeakRule(r, rl)
          PROVE  UNCHANGED Policy!pvars
        <3>1. heap' = [heap EXCEPT ![r] = rl] /\ UNCHANGED <<list, phase>>
            BY <2>2 DEF LeakRule, KeepTables
        <3>2. heap \in [Cell -> Rule \cup {NoRule}] /\ list \in [Chain -> Seq(Cell)]
            BY DEF IInv, TypeOK
        <3>3. \A h \in Chain : \A i \in 1..Len(list[h]) : list[h][i] \in Cell \ {r}
            BY <3>2, ElementOfSeq DEF IInv, ChainsSound, LinkedAllocated, Free
        <3>4. \A h \in Chain : \A i \in 1..Len(list[h]) :
                heap'[list[h][i]] = heap[list[h][i]]
            BY <3>1, <3>2, <3>3
        <3> QED  BY <1>1, <3>1, <3>4
    <2>3. ASSUME NEW r \in Free, NEW rl \in Rules, Linking(r, rl)
          PROVE  Policy!Next
        BY <1>0, <2>0, <2>3, LinkingEdits DEF Policy!Next
    <2>4. ASSUME NEW r \in Free, NEW rl \in Rules, Replacing(r, rl)
          PROVE  Policy!Next
        BY <1>0, <2>0, <2>4, ReplacingEdits DEF Policy!Next
    <2>5. ASSUME NEW c \in Chain, NEW i \in 1..Len(list[c]), Unlink(c, i)
          PROVE  Policy!Next
        BY <1>0, <2>0, <2>5, UnlinkEdits DEF Policy!Next
    <2>6. ASSUME NEW cs \in ChainSets, FreeChains(cs), UNCHANGED phase
          PROVE  Policy!Next
        <3>1. cs \in SUBSET Chain  BY DEF ChainSets
        <3>2. Policy!Clear(cs)
            BY <2>6, <3>1, FreeChainsClears DEF Policy!Clear, Stopped
        <3> QED  BY <1>0, <2>0, <3>2 DEF Policy!Next, ChainSets
    <2> QED
        BY <1>3, <2>1, <2>2, <2>3, <2>4, <2>5, <2>6 DEF Doing
<1> QED
    BY <1>2, <1>3 DEF TableStep

(***************************************************************************)
(* What a step does to the cells that stay, and to the ones it loses.      *)
(***************************************************************************)

\* The cells on chains f: Linked is that of list.
LinkedBy(f) == UNION {ToSet(f[c]) : c \in Chain}

\* The cells on the chains, position by position.
LEMMA LinkedCells ==
    ASSUME NEW f \in [Chain -> Seq(Cell)]
    PROVE  \A x : x \in LinkedBy(f) <=> \E c \in Chain : \E i \in 1..Len(f[c]) : x = f[c][i]
<1>1. \A c \in Chain : f[c] \in Seq(Cell) /\ Len(f[c]) \in Nat
    BY LenProperties
<1>2. \A c \in Chain : ToSet(f[c]) = {f[c][i] : i \in 1..Len(f[c])}
    BY <1>1 DEF ToSet
<1> QED  BY <1>2 DEF LinkedBy

\* f and g differ on chain c alone, and g has every cell f has there but x.
KeepsBut(f, g, c, x) ==
    /\ \A h \in Chain : h # c => g[h] = f[h]
    /\ \A j \in 1..Len(f[c]) : f[c][j] = x \/ \E i \in 1..Len(g[c]) : g[c][i] = f[c][j]

\* Then g has every cell f has on any chain, but x.
LEMMA LinkedBut ==
    ASSUME NEW f \in [Chain -> Seq(Cell)], NEW g \in [Chain -> Seq(Cell)],
           NEW c \in Chain, NEW x, KeepsBut(f, g, c, x)
    PROVE  \A y \in LinkedBy(f) : y = x \/ y \in LinkedBy(g)
<1> USE DEF KeepsBut
<1> SUFFICES ASSUME NEW y \in LinkedBy(f), y # x PROVE y \in LinkedBy(g)
    OBVIOUS
<1>1. PICK h \in Chain : \E j \in 1..Len(f[h]) : y = f[h][j]
    BY LinkedCells
<1>2. PICK j \in 1..Len(f[h]) : y = f[h][j]
    BY <1>1
<1>3. \E i \in 1..Len(g[h]) : y = g[h][i]
    BY <1>2
<1> QED  BY <1>3, LinkedCells

\* A set with nothing in it but x has one element at most.
LEMMA OneAtMost ==
    ASSUME NEW S, NEW x, S \subseteq {x}
    PROVE  Cardinality(S) <= 1
<1>1. IsFiniteSet({x}) /\ Cardinality({x}) = 1
    BY FS_Singleton
<1>2. Cardinality(S) <= Cardinality({x})
    BY <1>1, FS_Subset
<1>3. IsFiniteSet(S)  BY <1>1, FS_Subset
<1> QED
    BY <1>1, <1>2, <1>3, FS_CardinalityType

\* A step that neither frees nor links a lost cell, and loses none but x.
LEMMA LosesOnly ==
    ASSUME NEW x,
           \A y \in Cell : heap[y] # NoRule /\ y \notin Linked
                            => heap'[y] # NoRule /\ y \notin Linked',
           \A y \in Cell : heap'[y] # NoRule /\ y \notin Linked'
                            => y = x \/ (heap[y] # NoRule /\ y \notin Linked)
    PROVE  LosesOneAtMost
<1>1. /\ Leaked = {y \in Cell : heap[y] # NoRule /\ y \notin Linked}
      /\ Leaked' = {y \in Cell : heap'[y] # NoRule /\ y \notin Linked'}
    BY DEF Leaked, Free
<1>2. Leaked \subseteq Leaked' /\ Leaked' \ Leaked \subseteq {x}
    BY <1>1
<1> QED  BY <1>2, OneAtMost DEF LosesOneAtMost

\* Where the cells of a chain are not moved, their order is kept.
LEMMA OrderOfChain ==
    ASSUME IInv, NEW c \in Chain, list'[c] = list[c]
    PROVE  \A i, j \in 1..Len(list[c]), k, l \in 1..Len(list'[c]) :
            i < j /\ list[c][i] = list'[c][k] /\ list[c][j] = list'[c][l] => k < l
    BY DEF IInv, ChainsSound, LinkedOnce

\* A cell that goes on a chain leaves the others in order, and drops one at most:
\* the one whose place it takes.
LEMMA LinkingKeeps ==
    ASSUME IInv, IInv', NEW r \in Free, NEW rl \in Rule, Linking(r, rl)
    PROVE  KeepsOrder /\ LosesOneAtMost
<1> DEFINE c == rl.chain
           L == list[c]
<1>1. /\ c \in Chain /\ r \in Cell /\ heap[r] = NoRule
      /\ heap \in [Cell -> Rule \cup {NoRule}]
      /\ list \in [Chain -> Seq(Cell)] /\ list' \in [Chain -> Seq(Cell)]
      /\ L \in Seq(Cell) /\ Len(L) \in Nat
    BY LenProperties DEF Linking, IInv, TypeOK, Free
<1>2. \A h \in Chain : \A i \in 1..Len(list[h]) : list[h][i] \in Cell \ {r}
    BY <1>1, ElementOfSeq DEF IInv, ChainsSound, LinkedAllocated
<1>3. \A i, j \in 1..Len(L) : L[i] = L[j] => i = j
    BY <1>1 DEF IInv, ChainsSound, LinkedOnce
<1>4. ASSUME NEW s \in Seq(Cell), NEW n, NEW x, LinkRule(r, rl, c, s, n),
             \A i \in 1..Len(s) : s[i] = r \/ \E j \in 1..Len(L) : s[i] = L[j],
             \A j \in 1..Len(L) : L[j] = x \/ \E i \in 1..Len(s) : s[i] = L[j],
             \E i \in 1..Len(s) : s[i] = r,
             \A i, j \in 1..Len(L), k, l \in 1..Len(s) :
                i < j /\ L[i] = s[k] /\ L[j] = s[l] => k < l
      PROVE  KeepsOrder /\ LosesOneAtMost
    <2>1. heap' = [heap EXCEPT ![r] = rl] /\ list' = [list EXCEPT ![c] = s]
        BY <1>4 DEF LinkRule
    <2>2. list'[c] = s /\ \A h \in Chain : h # c => list'[h] = list[h]
        BY <1>1, <2>1
    <2>3. KeepsOrder
        <3> SUFFICES ASSUME NEW h \in Chain
                     PROVE  \A i, j \in 1..Len(list[h]), k, l \in 1..Len(list'[h]) :
                              i < j /\ list[h][i] = list'[h][k] /\ list[h][j] = list'[h][l]
                                => k < l
            BY DEF KeepsOrder
        <3>1. CASE h = c
            BY <1>4, <2>2, <3>1
        <3>2. CASE h # c
            <4>1. list'[h] = list[h]  BY <2>2, <3>2
            <4> QED  BY <4>1, OrderOfChain
        <3> QED  BY <3>1, <3>2
    <2>4. heap'[r] # NoRule /\ \A y \in Cell \ {r} : heap'[y] = heap[y]
        BY <1>1, <2>1, NoRuleAssumption
    <2>5. Linked = LinkedBy(list) /\ Linked' = LinkedBy(list')
        BY DEF Linked, LinkedBy
    <2>7. \A y \in Linked' : y = r \/ y \in Linked
        <3>1. KeepsBut(list', list, c, r)
            BY <1>4, <2>2 DEF KeepsBut
        <3> QED  BY <1>1, <2>2, <2>5, <3>1, LinkedBut
    <2>8. \A y \in Linked : y = x \/ y \in Linked'
        <3>1. KeepsBut(list, list', c, x)
            BY <1>4, <2>2 DEF KeepsBut
        <3> QED  BY <1>1, <2>2, <2>5, <3>1, LinkedBut
    <2>9. r \in Linked'
        BY <1>1, <1>4, <2>2, <2>5, LinkedCells
    <2>10. LosesOneAtMost
        BY <1>1, <2>4, <2>7, <2>8, <2>9, LosesOnly
    <2> QED  BY <2>3, <2>10
<1>5. ASSUME NEW n, LinkRule(r, rl, c, Append(L, r), n)
      PROVE  KeepsOrder /\ LosesOneAtMost
    <2> DEFINE s == Append(L, r)
    <2>1. /\ s \in Seq(Cell) /\ Len(s) = Len(L) + 1 /\ s[Len(L) + 1] = r
          /\ \A i \in 1..Len(L) : s[i] = L[i]
        BY <1>1, AppendProperties
    <2>2. LinkRule(r, rl, c, s, n)  BY <1>5
    <2> HIDE DEF s
    <2>3. \A i \in 1..Len(s) : i = Len(L) + 1 \/ i \in 1..Len(L)
        BY <1>1, <2>1
    <2>4. \A i \in 1..Len(L) : i \in 1..Len(s)  BY <1>1, <2>1
    <2>5. Len(L) + 1 \in 1..Len(s)  BY <1>1, <2>1
    <2>6. \A i, j \in 1..Len(L), k, l \in 1..Len(s) :
            i < j /\ L[i] = s[k] /\ L[j] = s[l] => k < l
        BY <1>1, <1>2, <1>3, <2>1, <2>3
    <2> QED  BY <1>4, <2>1, <2>2, <2>3, <2>4, <2>5, <2>6
<1>6. ASSUME NEW n, LinkRule(r, rl, c, <<r>> \o L, n)
      PROVE  KeepsOrder /\ LosesOneAtMost
    <2> DEFINE s == <<r>> \o L
    <2>1. /\ s \in Seq(Cell) /\ Len(s) = Len(L) + 1
          /\ \A i \in 1..Len(L) + 1 : s[i] = IF i = 1 THEN r ELSE L[i - 1]
        BY <1>1, ConsProperties
    <2>2. LinkRule(r, rl, c, s, n)  BY <1>6
    <2> HIDE DEF s
    <2>3. s[1] = r /\ 1 \in 1..Len(s)  BY <1>1, <2>1
    <2>4. \A i \in 1..Len(s) : i = 1 \/ (i - 1 \in 1..Len(L) /\ s[i] = L[i - 1])
        BY <1>1, <2>1
    <2>5. \A i \in 1..Len(L) : i + 1 \in 1..Len(s) /\ s[i + 1] = L[i]
        BY <1>1, <2>1
    <2>6. \A i, j \in 1..Len(L), k, l \in 1..Len(s) :
            i < j /\ L[i] = s[k] /\ L[j] = s[l] => k < l
        <3> SUFFICES ASSUME NEW i \in 1..Len(L), NEW j \in 1..Len(L),
                            NEW k \in 1..Len(s), NEW l \in 1..Len(s),
                            i < j, L[i] = s[k], L[j] = s[l]
                     PROVE  k < l
            OBVIOUS
        <3>1. L[i] # r /\ L[j] # r  BY <1>1, <1>2
        <3>2. k - 1 \in 1..Len(L) /\ s[k] = L[k - 1]  BY <2>3, <2>4, <3>1
        <3>3. l - 1 \in 1..Len(L) /\ s[l] = L[l - 1]  BY <2>3, <2>4, <3>1
        <3>4. i = k - 1 /\ j = l - 1  BY <1>3, <3>2, <3>3
        <3> QED  BY <3>4
    <2>7. \A i \in 1..Len(s) : s[i] = r \/ \E j \in 1..Len(L) : s[i] = L[j]
        BY <2>3, <2>4
    <2>8. \A j \in 1..Len(L) : L[j] = r \/ \E i \in 1..Len(s) : s[i] = L[j]
        BY <2>5
    <2>9. s \in Seq(Cell) /\ \E i \in 1..Len(s) : s[i] = r
        BY <2>1, <2>3
    <2> HIDE DEF L, c
    <2> QED  BY <1>4, <2>2, <2>6, <2>7, <2>8, <2>9
<1>7. ASSUME NEW n, NEW m \in 1..Len(L), LinkRule(r, rl, c, ReplaceAt(L, m, r), n)
      PROVE  KeepsOrder /\ LosesOneAtMost
    <2> DEFINE s == ReplaceAt(L, m, r)
    <2>1. /\ s \in Seq(Cell) /\ Len(s) = Len(L)
          /\ \A i \in 1..Len(L) : s[i] = IF i = m THEN r ELSE L[i]
        BY <1>1, ExceptSeq DEF ReplaceAt
    <2>2. LinkRule(r, rl, c, s, n)  BY <1>7
    <2> HIDE DEF s
    <2>3. \A i, j \in 1..Len(L), k, l \in 1..Len(s) :
            i < j /\ L[i] = s[k] /\ L[j] = s[l] => k < l
        BY <1>1, <1>2, <1>3, <2>1
    <2>4. \A i \in 1..Len(s) : s[i] = r \/ \E j \in 1..Len(L) : s[i] = L[j]
        BY <2>1
    <2>5. \A j \in 1..Len(L) : L[j] = L[m] \/ \E i \in 1..Len(s) : s[i] = L[j]
        BY <2>1
    <2>6. \E i \in 1..Len(s) : s[i] = r  BY <2>1
    <2> QED  BY <1>4, <2>1, <2>2, <2>3, <2>4, <2>5, <2>6
<1> QED
    BY <1>5, <1>6, <1>7 DEF Linking

\* REPLACE leaves the others in order, frees the one it takes off, and loses none.
LEMMA ReplacingKeeps ==
    ASSUME IInv, IInv', NEW r \in Free, NEW rl \in Rule, Replacing(r, rl)
    PROVE  KeepsOrder /\ LosesOneAtMost
<1> DEFINE c == rl.chain
           L == list[c]
<1>1. /\ c \in Chain /\ r \in Cell /\ heap[r] = NoRule
      /\ heap \in [Cell -> Rule \cup {NoRule}]
      /\ list \in [Chain -> Seq(Cell)] /\ list' \in [Chain -> Seq(Cell)]
      /\ L \in Seq(Cell) /\ Len(L) \in Nat
    BY LenProperties DEF Replacing, IInv, TypeOK, Free
<1>2. PICK m \in 1..Len(L) :
        /\ heap' = [heap EXCEPT ![r] = rl, ![L[m]] = NoRule]
        /\ list' = [list EXCEPT ![c] = ReplaceAt(@, m, r)]
    BY DEF Replacing
<1>3. /\ Len(list'[c]) = Len(L)
      /\ \A i \in 1..Len(L) : list'[c][i] = IF i = m THEN r ELSE L[i]
    BY <1>1, <1>2, ExceptSeq DEF ReplaceAt
<1>4. \A h \in Chain : h # c => list'[h] = list[h]
    BY <1>1, <1>2
<1>5. \A h \in Chain : \A i \in 1..Len(list[h]) : list[h][i] \in Cell \ {r}
    BY <1>1, ElementOfSeq DEF IInv, ChainsSound, LinkedAllocated
<1>6. \A i, j \in 1..Len(L) : L[i] = L[j] => i = j
    BY <1>1 DEF IInv, ChainsSound, LinkedOnce
<1>7. KeepsOrder
    <2>1. \A i, j \in 1..Len(L), k, l \in 1..Len(list'[c]) :
            i < j /\ L[i] = list'[c][k] /\ L[j] = list'[c][l] => k < l
        BY <1>1, <1>3, <1>5, <1>6
    <2> QED  BY <1>1, <1>4, <2>1, OrderOfChain DEF KeepsOrder
<1>8. L[m] \in Cell \ {r}  BY <1>1, <1>2, <1>5
<1>9. /\ heap'[L[m]] = NoRule
      /\ \A y \in Cell \ {r, L[m]} : heap'[y] = heap[y]
    BY <1>1, <1>2, <1>8
<1>10. Linked = LinkedBy(list) /\ Linked' = LinkedBy(list')
    BY DEF Linked, LinkedBy
<1>12. r \in Linked'
    BY <1>1, <1>2, <1>3, <1>10, LinkedCells
<1>13. \A y \in Linked' : y = r \/ y \in Linked
    <2>1. KeepsBut(list', list, c, r)
        BY <1>3, <1>4 DEF KeepsBut
    <2> QED  BY <1>1, <1>4, <1>10, <2>1, LinkedBut
<1>14. \A y \in Linked : y = L[m] \/ y \in Linked'
    <2> DEFINE x == L[m]
    <2>1. KeepsBut(list, list', c, x)
        BY <1>3, <1>4 DEF KeepsBut
    <2> HIDE DEF x
    <2>2. \A y \in LinkedBy(list) : y = x \/ y \in LinkedBy(list')
        BY <1>1, <2>1, LinkedBut
    <2> QED  BY <1>10, <2>2 DEF x
<1>15. L[m] \in Linked  BY <1>1, <1>2, <1>10, LinkedCells
<1>16. LosesOneAtMost
    BY <1>1, <1>8, <1>9, <1>12, <1>13, <1>14, <1>15, LosesOnly
<1> QED  BY <1>7, <1>16

\* DELETE leaves the others in order, and frees the one it takes off.
LEMMA UnlinkKeeps ==
    ASSUME IInv, IInv', NEW c \in Chain, NEW m \in 1..Len(list[c]), Unlink(c, m)
    PROVE  KeepsOrder /\ LosesOneAtMost
<1> DEFINE L == list[c]
           P(i) == IF i < m THEN i ELSE i + 1
           Q(i) == IF i < m THEN i ELSE i - 1
<1>1. /\ heap \in [Cell -> Rule \cup {NoRule}]
      /\ list \in [Chain -> Seq(Cell)] /\ list' \in [Chain -> Seq(Cell)]
      /\ L \in Seq(Cell) /\ Len(L) \in Nat
    BY LenProperties DEF IInv, TypeOK
<1>2. /\ heap' = [heap EXCEPT ![L[m]] = NoRule]
      /\ list' = [list EXCEPT ![c] = RemoveAt(@, m)]
    BY DEF Unlink
<1>3. /\ Len(list'[c]) = Len(L) - 1
      /\ \A i \in 1..Len(L) - 1 : P(i) \in 1..Len(L) /\ list'[c][i] = L[P(i)]
    <2>1. list'[c] = RemoveAt(L, m)  BY <1>1, <1>2
    <2>2. /\ Len(RemoveAt(L, m)) = Len(L) - 1
          /\ \A j \in 1..Len(L) - 1 :
                RemoveAt(L, m)[j] = IF j < m THEN L[j] ELSE L[j + 1]
        BY <1>1, RemoveAtProperties
    <2>3. \A i \in 1..Len(L) - 1 : P(i) \in 1..Len(L)
        BY <1>1
    <2> QED  BY <2>1, <2>2, <2>3
<1>4. \A h \in Chain : h # c => list'[h] = list[h]
    BY <1>1, <1>2
<1>5. L[m] \in Cell  BY <1>1, ElementOfSeq
<1>6. heap'[L[m]] = NoRule /\ \A y \in Cell \ {L[m]} : heap'[y] = heap[y]
    BY <1>1, <1>2, <1>5
<1>7. \A i, j \in 1..Len(L) : L[i] = L[j] => i = j
    BY <1>1 DEF IInv, ChainsSound, LinkedOnce
<1>8. KeepsOrder
    <2>1. ASSUME NEW i \in 1..Len(L), NEW j \in 1..Len(L),
                 NEW k \in 1..Len(list'[c]), NEW l \in 1..Len(list'[c]),
                 i < j, L[i] = list'[c][k], L[j] = list'[c][l]
          PROVE  k < l
        <3>1. k \in 1..Len(L) - 1 /\ l \in 1..Len(L) - 1  BY <1>3
        <3>2. L[i] = L[P(k)] /\ L[j] = L[P(l)]
              /\ P(k) \in 1..Len(L) /\ P(l) \in 1..Len(L)
            BY <1>3, <2>1, <3>1
        <3> HIDE DEF P
        <3>3. i = P(k) /\ j = P(l)  BY <1>7, <3>2
        <3> QED  BY <2>1, <3>1, <3>3 DEF P
    <2> QED  BY <1>1, <1>4, <2>1, OrderOfChain DEF KeepsOrder
<1>9. \A j \in 1..Len(L) : j # m =>
        \E i \in 1..Len(list'[c]) : list'[c][i] = L[j]
    <2> SUFFICES ASSUME NEW j \in 1..Len(L), j # m
                 PROVE  \E i \in 1..Len(list'[c]) : list'[c][i] = L[j]
        OBVIOUS
    <2>1. Q(j) \in 1..Len(L) - 1 /\ P(Q(j)) = j  BY <1>1
    <2>2. list'[c][Q(j)] = L[P(Q(j))]  BY <1>3, <2>1
    <2> QED  BY <1>3, <2>1, <2>2
<1> HIDE DEF P, Q
<1>10. Linked = LinkedBy(list) /\ Linked' = LinkedBy(list')
    BY DEF Linked, LinkedBy
<1>12. L[m] \in Linked  BY <1>1, <1>10, LinkedCells
<1>13. Linked' \subseteq Linked
    <2>1. KeepsBut(list', list, c, L[m])
        BY <1>3, <1>4 DEF KeepsBut
    <2> QED  BY <1>1, <1>4, <1>10, <1>12, <2>1, LinkedBut
<1>14. \A y \in Linked : y = L[m] \/ y \in Linked'
    <2>1. KeepsBut(list, list', c, L[m])
        BY <1>4, <1>9 DEF KeepsBut
    <2> QED  BY <1>1, <1>4, <1>10, <2>1, LinkedBut
<1>16. LosesOneAtMost
    BY <1>1, <1>5, <1>6, <1>12, <1>13, <1>14, LosesOnly
<1> QED  BY <1>8, <1>16

\* The cell prev still holds when FLUSH ends is the only one: the last cell of
\* the last chain that is not empty.
LEMMA SurvivorIsOne ==
    ASSUME NEW cs \in SUBSET Chain, NEW x \in Survivor(cs), NEW y \in Survivor(cs)
    PROVE  x = y
<1>1. PICK c \in cs : /\ x = Last(list[c]) /\ list[c] # <<>>
                      /\ \A k \in cs : k > c => list[k] = <<>>
    BY DEF Survivor
<1>2. PICK d \in cs : /\ y = Last(list[d]) /\ list[d] # <<>>
                      /\ \A k \in cs : k > d => list[k] = <<>>
    BY DEF Survivor
<1>3. c \in Int /\ d \in Int  BY DEF Chain
<1>4. ~(c > d) /\ ~(d > c)  BY <1>1, <1>2
<1> QED  BY <1>1, <1>2, <1>3, <1>4

\* FLUSH and unloading move nothing, and lose that cell.
LEMMA FreeChainsKeeps ==
    ASSUME IInv, NEW cs \in SUBSET Chain, FreeChains(cs)
    PROVE  KeepsOrder /\ LosesOneAtMost
<1> DEFINE gone == (UNION {ToSet(list[c]) : c \in cs}) \ Survivor(cs)
<1>1. /\ heap' = [r \in Cell |-> IF r \in gone THEN NoRule ELSE heap[r]]
      /\ list' = [c \in Chain |-> IF c \in cs THEN <<>> ELSE list[c]]
    BY DEF FreeChains
<1>2. list \in [Chain -> Seq(Cell)]  BY DEF IInv, TypeOK
<1>3. list' \in [Chain -> Seq(Cell)]  BY <1>1, <1>2
<1>4. KeepsOrder
    <2> SUFFICES ASSUME NEW c \in Chain
                 PROVE  \A i, j \in 1..Len(list[c]), k, l \in 1..Len(list'[c]) :
                          i < j /\ list[c][i] = list'[c][k] /\ list[c][j] = list'[c][l] => k < l
        BY DEF KeepsOrder
    <2>1. CASE c \in cs
        <3>1. Len(list'[c]) = 0  BY <1>1, <2>1
        <3> QED  BY <3>1
    <2>2. CASE c \notin cs
        <3>1. list'[c] = list[c]  BY <1>1, <2>2
        <3> QED  BY <3>1, OrderOfChain
    <2> QED  BY <2>1, <2>2
<1>16. Linked = LinkedBy(list) /\ Linked' = LinkedBy(list')
    BY DEF Linked, LinkedBy
<1>5. \A y : y \in Linked <=> \E h \in Chain : \E i \in 1..Len(list[h]) : y = list[h][i]
    BY <1>2, <1>16, LinkedCells
<1>6. \A y : y \in Linked' <=> \E h \in Chain : \E i \in 1..Len(list'[h]) : y = list'[h][i]
    BY <1>3, <1>16, LinkedCells
<1>7. \A h \in cs : ToSet(list[h]) = {list[h][i] : i \in 1..Len(list[h])}
    BY <1>2, LenProperties DEF ToSet
<1>8. \A y : y \in gone <=> /\ \E h \in cs : \E i \in 1..Len(list[h]) : y = list[h][i]
                            /\ y \notin Survivor(cs)
    <2>1. \A y : y \in gone <=> (\E h \in cs : y \in ToSet(list[h])) /\ y \notin Survivor(cs)
        BY Zenon
    <2>2. \A y : (\E h \in cs : y \in ToSet(list[h]))
                 <=> \E h \in cs : \E i \in 1..Len(list[h]) : y = list[h][i]
        BY <1>7
    <2> HIDE DEF gone
    <2> QED  BY <2>1, <2>2
<1> HIDE DEF gone
<1>9. /\ \A h \in cs : list'[h] = <<>> /\ Len(list'[h]) = 0
      /\ \A h \in Chain : h \notin cs => list'[h] = list[h]
    BY <1>1
<1>10. Linked' \subseteq Linked
    BY <1>5, <1>6, <1>9
<1>11. \A y : y \in Linked => y \in Linked' \/ y \in gone \/ y \in Survivor(cs)
    BY <1>5, <1>6, <1>8, <1>9
<1>12. gone \subseteq Linked  BY <1>5, <1>8
<1>13. \A y \in Cell : heap'[y] = IF y \in gone THEN NoRule ELSE heap[y]
    BY <1>1
<1>14. PICK x : Survivor(cs) \subseteq {x}
    <2>1. CASE Survivor(cs) = {}  BY <2>1
    <2>2. CASE Survivor(cs) # {}
        <3>1. PICK x : x \in Survivor(cs)  BY <2>2
        <3>2. Survivor(cs) \subseteq {x}  BY <3>1, SurvivorIsOne
        <3> QED  BY <3>2
    <2> QED  BY <2>1, <2>2
<1>15. LosesOneAtMost
    BY <1>10, <1>11, <1>12, <1>13, <1>14, LosesOnly
<1> QED  BY <1>4, <1>15

\* Filling a cell that nothing links loses that cell, and moves none.
LEMMA LeakRuleKeeps ==
    ASSUME IInv, NEW r \in Free, NEW rl \in Rule, LeakRule(r, rl)
    PROVE  KeepsOrder /\ LosesOneAtMost
<1>1. heap' = [heap EXCEPT ![r] = rl] /\ list' = list
    BY DEF LeakRule, KeepTables
<1>2. heap \in [Cell -> Rule \cup {NoRule}] /\ r \in Cell
    BY DEF IInv, TypeOK, Free
<1>3. heap'[r] # NoRule /\ \A y \in Cell \ {r} : heap'[y] = heap[y]
    BY <1>1, <1>2, NoRuleAssumption
<1>4. Linked' = Linked  BY <1>1 DEF Linked
<1>5. LosesOneAtMost  BY <1>3, <1>4, LosesOnly DEF Free
<1>6. KeepsOrder  BY <1>1, OrderOfChain DEF KeepsOrder
<1> QED  BY <1>5, <1>6

\* Every step keeps the order of the cells that stay, and loses one at most.
LEMMA NextKeeps ==
    ASSUME IInv, IInv', TableStep
    PROVE  KeepsOrder /\ LosesOneAtMost
<1>1. ASSUME UNCHANGED <<heap, list>>
      PROVE  KeepsOrder /\ LosesOneAtMost
    <2>1. KeepsOrder  BY <1>1, OrderOfChain DEF KeepsOrder
    <2>2. Linked' = Linked  BY <1>1 DEF Linked
    <2>3. LosesOneAtMost  BY <1>1, <2>2, LosesOnly
    <2> QED  BY <2>1, <2>3
<1>2. CASE UNCHANGED vars  BY <1>1, <1>2 DEF vars
<1>3. CASE Stopping
    <2>1. Chain \in SUBSET Chain  OBVIOUS
    <2> QED  BY <1>1, <1>3, <2>1, FreeChainsKeeps DEF Stopping
<1>4. CASE \E r \in Free, rl \in Rules : LeakRule(r, rl)
    BY <1>4, LeakRuleKeeps, RulesAreRules
<1>5. CASE \E r \in Free, rl \in Rules : Linking(r, rl)
    BY <1>5, LinkingKeeps, RulesAreRules
<1>6. CASE \E r \in Free, rl \in Rules : Replacing(r, rl)
    BY <1>6, ReplacingKeeps, RulesAreRules
<1>7. CASE \E c \in Chain : \E i \in 1..Len(list[c]) : Unlink(c, i)
    BY <1>7, UnlinkKeeps
<1>8. CASE \E cs \in ChainSets : FreeChains(cs) /\ UNCHANGED phase
    <2>1. ChainSets \subseteq SUBSET Chain  BY DEF ChainSets
    <2> QED  BY <1>8, <2>1, FreeChainsKeeps
<1> QED
    BY <1>2, <1>3, <1>4, <1>5, <1>6, <1>7, <1>8 DEF TableStep, Doing

(***************************************************************************)
(* The theorems.                                                           *)
(***************************************************************************)

\* The invariant the others are parts of.
THEOREM Invariance == Spec => []IInv
<1>1. IInv /\ [Next]_vars => IInv'
    BY StepCases, NextIInv
<1> QED
    BY <1>1, InitIInv, PTL DEF Spec

\* Every variable keeps to its declaration.
THEOREM TypeCorrect == Spec => []TypeOK
<1>1. IInv => TypeOK  BY DEF IInv
<1> QED  BY <1>1, Invariance, PTL

\* No sequence of commands leaves a freed cell on a chain, or one cell on two
\* places of the chains.
THEOREM ChainsStaySound == Spec => []ChainsSound
<1>1. IInv => ChainsSound  BY DEF IInv
<1> QED  BY <1>1, Invariance, PTL

\* The counter of a chain never exceeds its rules.
THEOREM CountBounded == Spec => []CountNeverExceedsRules
<1>1. IInv => CountNeverExceedsRules  BY DEF IInv
<1> QED  BY <1>1, Invariance, PTL

\* Every rule stays on the chain it names.
THEOREM HomeKept == Spec => []RulesAtHome
<1>1. IInv => RulesAtHome  BY DEF IInv
<1> QED  BY <1>1, Invariance, PTL

\* All four at once: what every handler assumes of the chains and counters it is
\* given is what every handler leaves.
THEOREM TablesStaySound == Spec => []TablesSound
<1>1. IInv => TablesSound  BY DEF IInv, TablesSound
<1> QED  BY <1>1, Invariance, PTL

\* Cells, counters and leaks apart, the tables are the administrator's policy, and
\* every command edits it the way one of the policy's own operations does.
THEOREM Implementation == Spec => ImplementsPolicy
<1>1. IInv /\ IInv' /\ [Next]_vars => [Policy!Next]_(Policy!pvars)
    BY StepCases, NextEdits
<1> QED
    BY <1>1, InitEdits, Invariance, PTL DEF Spec, ImplementsPolicy, Policy!Spec

\* No command changes the order of the rules that stay; it loses one cell at most,
\* and what is lost stays lost.
THEOREM CellsStayKept == Spec => CellsKept
<1>1. IInv /\ IInv' /\ [Next]_vars => [KeepsOrder]_vars
    BY StepCases, NextKeeps
<1>2. IInv /\ IInv' /\ [Next]_vars => [LosesOneAtMost]_vars
    BY StepCases, NextKeeps
<1> QED
    BY <1>1, <1>2, Invariance, PTL DEF Spec, CellsKept, OrderKept, LosesAtMostOneCell
=============================================================================
