-------------------------- MODULE SipfwHooksProofs --------------------------
(***************************************************************************)
(* SipfwHooks for every number of packets, cells, administrators and       *)
(* commands: the increments of the hit counter the hooks lose to each      *)
(* other never make it too large; commands that only add leave no pointer  *)
(* to a cell that is not allocated; and a packet that walks while one      *)
(* administrator adds at the ends of the chains gets a verdict they gave.  *)
(***************************************************************************)
EXTENDS SipfwHooks, FiniteSetTheorems, SequenceTheorems, NaturalsInduction,
        WellFoundedInduction, TLAPS

-----------------------------------------------------------------------------
(* The inductive invariant.                                                *)

PktFields == {"pc", "hook", "kind", "cur", "found", "hit", "verdict"}

CfShape == cf \in [Invalid: BOOLEAN, LogPause: BOOLEAN, DefaultAction: 0..1, HitNumber: Nat]

PktShape ==
    /\ DOMAIN pkt = Pkt
    /\ \A p \in Pkt : DOMAIN pkt[p] = PktFields /\ pkt[p].found \in BOOLEAN

\* Only a packet that hit a rule raises the counter.
OnlyHitsCount == \A p \in Pkt : pkt[p].pc \in {"log", "hit", "hitstore"} => pkt[p].found

\* What a hook has loaded is never more than the packets that are through: it
\* was not more when it was loaded, and no packet takes its hit back.
LoadBounded ==
    \A p \in Pkt : pkt[p].pc = "hitstore" =>
        pkt[p].hit \in Nat /\ pkt[p].hit <= Cardinality(Hits)

HitInv ==
    /\ CfShape
    /\ PktShape
    /\ OnlyHitsCount
    /\ LoadBounded
    /\ HitsNeverOvercounted

-----------------------------------------------------------------------------

\* The packets that are through are finitely many.
LEMMA HitsFinite == IsFiniteSet(Hits) /\ Cardinality(Hits) \in Nat
<1>1. Hits \in SUBSET Pkt  BY DEF Hits
<1> QED  BY <1>1, PktAssumption, FS_Subset, FS_CardinalityType

\* There are finitely many hits after any step: they are packets.
LEMMA HitsFiniteNext == IsFiniteSet(Hits') /\ Cardinality(Hits') \in Nat
<1>1. Hits' \in SUBSET Pkt  BY DEF Hits
<1> QED  BY <1>1, PktAssumption, FS_Subset, FS_CardinalityType

\* What a step of the hook of p leaves alone: the other packets; a packet
\* through stays through.
Moves(p) ==
    /\ DOMAIN pkt' = Pkt
    /\ DOMAIN pkt'[p] = PktFields /\ pkt'[p].found \in BOOLEAN
    /\ \A q \in Pkt \ {p} : pkt'[q] = pkt[q]
    /\ p \in Hits => p \in Hits'

\* A step of one hook takes no hit back, and adds at most its own.
LEMMA HitsGrow ==
    ASSUME PktShape, NEW p \in Pkt, Moves(p)
    PROVE  /\ PktShape'
           /\ Hits \subseteq Hits'
           /\ Hits' \subseteq Hits \cup {p}
           /\ Cardinality(Hits) <= Cardinality(Hits')
<1>1. PktShape'
    BY DEF PktShape, Moves
<1>2. Hits \subseteq Hits' /\ Hits' \subseteq Hits \cup {p}
    <2>1. \A q \in Pkt \ {p} : q \in Hits <=> q \in Hits'
        BY DEF Moves, Hits
    <2> QED  BY <2>1 DEF Moves, Hits
<1>3. Hits \in SUBSET Hits'  BY <1>2
<1>4. Cardinality(Hits) <= Cardinality(Hits')
    BY <1>3, HitsFiniteNext, FS_Subset
<1> QED  BY <1>1, <1>2, <1>4

\* A step that leaves the counter alone and loads nothing.
LEMMA QuietStep ==
    ASSUME HitInv, NEW p \in Pkt, Moves(p),
           CfShape', cf'.HitNumber = cf.HitNumber,
           pkt'[p].pc \in {"log", "hit"} => pkt'[p].found,
           pkt'[p].pc # "hitstore"
    PROVE  HitInv'
<1>1. /\ PktShape' /\ Hits \subseteq Hits'
      /\ Cardinality(Hits) <= Cardinality(Hits')
    BY HitsGrow DEF HitInv
<1>2. OnlyHitsCount'
    BY DEF HitInv, OnlyHitsCount, Moves
<1>3. LoadBounded'
    <2> SUFFICES ASSUME NEW q \in Pkt, pkt'[q].pc = "hitstore"
                 PROVE  pkt'[q].hit \in Nat /\ pkt'[q].hit <= Cardinality(Hits')
        BY DEF LoadBounded
    <2>1. q # p /\ pkt'[q] = pkt[q]  BY DEF Moves
    <2>2. pkt[q].hit \in Nat /\ pkt[q].hit <= Cardinality(Hits)
        BY <2>1 DEF HitInv, LoadBounded
    <2> QED  BY <1>1, <2>1, <2>2, HitsFinite, HitsFiniteNext
<1>4. HitsNeverOvercounted'
    BY <1>1, HitsFinite, HitsFiniteNext DEF HitInv, HitsNeverOvercounted, CfShape
<1> QED  BY <1>1, <1>2, <1>3, <1>4 DEF HitInv

\* A step that changes neither the packets nor the counter.
LEMMA OutsideStep ==
    ASSUME HitInv, pkt' = pkt, CfShape', cf'.HitNumber = cf.HitNumber
    PROVE  HitInv'
<1>1. Hits' = Hits  BY DEF Hits
<1>2. PktShape' /\ OnlyHitsCount'
    BY DEF HitInv, PktShape, OnlyHitsCount
<1>3. LoadBounded' /\ HitsNeverOvercounted'
    BY <1>1 DEF HitInv, LoadBounded, HitsNeverOvercounted
<1> QED  BY <1>2, <1>3 DEF HitInv

\* Nothing is counted and nothing was hit at first.
LEMMA HitInit == Init => HitInv
<1> SUFFICES ASSUME Init PROVE HitInv  OBVIOUS
<1>1. cf = [Invalid |-> FALSE, LogPause |-> FALSE, DefaultAction |-> ACCEPT, HitNumber |-> 0]
    BY DEF Init
<1>2. CfShape /\ cf.HitNumber = 0
    <2>1. ACCEPT \in 0..1  BY DEF ACCEPT
    <2> QED  BY <1>1, <2>1 DEF CfShape
<1>3. pkt = [p \in Pkt |-> NoPkt]  BY DEF Init
<1>4. DOMAIN NoPkt = PktFields /\ NoPkt.found \in BOOLEAN /\ NoPkt.pc = "idle"
    BY DEF NoPkt, PktFields
<1>5. PktShape
    BY <1>3, <1>4 DEF PktShape
<1>6. OnlyHitsCount /\ LoadBounded
    BY <1>3, <1>4 DEF OnlyHitsCount, LoadBounded
<1>7. HitsNeverOvercounted
    BY <1>2, HitsFinite DEF HitsNeverOvercounted
<1> QED  BY <1>2, <1>5, <1>6, <1>7 DEF HitInv

\* Every load and store of hooks and commands keeps the counter below the hits.
LEMMA HitNext == HitInv /\ [Next]_vars => HitInv'
<1> SUFFICES ASSUME HitInv, [Next]_vars PROVE HitInv'  OBVIOUS
<1> USE DEF HitInv
<1>1. ASSUME NEW a \in Admin, AdminStep(a) PROVE HitInv'
    BY <1>1, OutsideStep DEF AdminStep, CfShape
<1>2. ASSUME Proc PROVE HitInv'
    <2>1. PICK k \in Knobs : ProcWrite(k)  BY <1>2 DEF Proc
    <2>2. k \in {"Invalid", "LogPause", "DefaultAction"}  BY KnobsAssumption
    <2>3. pkt' = pkt /\ CfShape' /\ cf'.HitNumber = cf.HitNumber
        <3>1. pkt' = pkt  BY <2>1 DEF ProcWrite
        <3>2. CASE k = "DefaultAction"
            <4>1. cf' = [cf EXCEPT !["DefaultAction"] = 1 - @]
                BY <2>1, <3>2 DEF ProcWrite
            <4>2. 1 - cf.DefaultAction \in 0..1  BY DEF CfShape
            <4> QED  BY <3>1, <4>1, <4>2 DEF CfShape
        <3>3. CASE k \in {"Invalid", "LogPause"}
            <4>1. cf' = [cf EXCEPT ![k] = ~@]
                BY <2>1, <3>3 DEF ProcWrite
            <4> QED  BY <3>1, <3>3, <4>1 DEF CfShape
        <3> QED  BY <2>2, <3>2, <3>3
    <2> QED  BY <2>3, OutsideStep
<1>3. ASSUME NEW p \in Pkt, PktEnters(p) PROVE HitInv'
    <2>1. PICK h \in Hook, k \in Kind : HookEnter(p, h, k)  BY <1>3 DEF PktEnters
    <2>2. pkt[p].pc = "idle"  BY <2>1 DEF HookEnter, In
    <2>3. CfShape' /\ cf' = cf  BY <2>1 DEF HookEnter, CfShape
    <2> DEFINE e == [pkt[p] EXCEPT !.hook = h, !.kind = k]
    <2>4. \E r \in {[e EXCEPT !.pc = "done", !.verdict = STOLEN], [e EXCEPT !.pc = "done"],
                    [e EXCEPT !.pc = "head"]} : pkt' = [pkt EXCEPT ![p] = r]
        BY <2>1 DEF HookEnter
    <2>5. PICK r : /\ pkt' = [pkt EXCEPT ![p] = r]
                   /\ DOMAIN r = DOMAIN pkt[p] /\ r.found = pkt[p].found
                   /\ r.pc \in {"done", "head"}
        BY <2>4 DEF PktShape, PktFields
    <2>6. Moves(p) /\ pkt'[p].pc \in {"done", "head"}
        BY <2>2, <2>5 DEF Moves, PktShape, PktFields, Hits
    <2> QED  BY <2>3, <2>6, QuietStep
<1>4. ASSUME NEW p \in Pkt, HookRuns(p) PROVE HitInv'
    <2>1. CASE HookHead(p)
        <3>1. Moves(p) /\ pkt'[p].pc = "match"
            BY <2>1 DEF HookHead, In, Moves, PktShape, PktFields, Hits
        <3>2. CfShape' /\ cf' = cf  BY <2>1 DEF HookHead, CfShape
        <3> QED  BY <3>1, <3>2, QuietStep
    <2>2. CASE IsMatch(p)
        <3>1. /\ Moves(p) /\ pkt'[p].pc \in {"verdict", "log", "match"}
              /\ pkt'[p].pc = "log" => pkt'[p].found
            BY <2>2 DEF IsMatch, In, Moves, PktShape, PktFields, Hits
        <3>2. CfShape' /\ cf' = cf  BY <2>2 DEF IsMatch, CfShape
        <3> QED  BY <3>1, <3>2, QuietStep
    <2>3. CASE LogAppend(p)
        <3>1. Moves(p) /\ pkt'[p].pc = "hit" /\ pkt'[p].found
            BY <2>3 DEF LogAppend, In, Moves, PktShape, PktFields, Hits, OnlyHitsCount
        <3>2. CfShape' /\ cf' = cf  BY <2>3 DEF LogAppend, CfShape
        <3> QED  BY <3>1, <3>2, QuietStep
    <2>4. CASE HitLoad(p)
        <3>1. /\ Moves(p) /\ pkt'[p].pc = "hitstore" /\ pkt'[p].found
              /\ pkt'[p].hit = cf.HitNumber
            BY <2>4 DEF HitLoad, In, Moves, PktShape, PktFields, Hits, OnlyHitsCount
        <3>2. CfShape' /\ cf' = cf  BY <2>4 DEF HitLoad, CfShape
        <3>3. PktShape' /\ Cardinality(Hits) <= Cardinality(Hits')
            BY <3>1, HitsGrow
        <3>4. OnlyHitsCount'
            BY <3>1 DEF OnlyHitsCount, Moves
        <3>5. LoadBounded'
            <4> SUFFICES ASSUME NEW q \in Pkt, pkt'[q].pc = "hitstore"
                         PROVE  pkt'[q].hit \in Nat /\ pkt'[q].hit <= Cardinality(Hits')
                BY DEF LoadBounded
            <4>1. CASE q = p
                BY <4>1, <3>1, <3>3, HitsFinite, HitsFiniteNext DEF HitsNeverOvercounted, CfShape
            <4>2. CASE q # p
                <5>1. pkt'[q] = pkt[q]  BY <4>2, <3>1 DEF Moves
                <5>2. pkt[q].hit \in Nat /\ pkt[q].hit <= Cardinality(Hits)
                    BY <5>1 DEF LoadBounded
                <5> QED  BY <5>1, <5>2, <3>3, HitsFinite, HitsFiniteNext
            <4> QED  BY <4>1, <4>2
        <3>6. HitsNeverOvercounted'
            BY <3>2, <3>3, HitsFinite, HitsFiniteNext DEF HitsNeverOvercounted, CfShape
        <3> QED  BY <3>2, <3>3, <3>4, <3>5, <3>6
    <2>5. CASE HitStore(p)
        <3>1. pkt[p].pc = "hitstore" /\ pkt[p].found
            BY <2>5 DEF HitStore, In, OnlyHitsCount
        <3>2. Moves(p) /\ pkt'[p].pc = "verdict" /\ pkt'[p].found
            BY <2>5, <3>1 DEF HitStore, In, Moves, PktShape, PktFields, Hits
        <3>3. /\ PktShape' /\ Hits \subseteq Hits' /\ Hits' \subseteq Hits \cup {p}
              /\ Cardinality(Hits) <= Cardinality(Hits')
            BY <3>2, HitsGrow
        <3>4. p \notin Hits /\ p \in Hits'
            BY <3>1, <3>2 DEF Hits
        <3>5. Cardinality(Hits') = Cardinality(Hits) + 1
            <4>1. Hits' = Hits \cup {p}  BY <3>3, <3>4
            <4>2. Cardinality(Hits \cup {p}) = Cardinality(Hits) + 1
                BY <3>4, HitsFinite, FS_AddElement
            <4> QED  BY <4>1, <4>2
        <3>6. pkt[p].hit \in Nat /\ pkt[p].hit <= Cardinality(Hits)
            BY <3>1 DEF LoadBounded
        <3>7. CfShape' /\ cf'.HitNumber = pkt[p].hit + 1
            BY <2>5, <3>6 DEF HitStore, CfShape
        <3>8. HitsNeverOvercounted'
            BY <3>5, <3>6, <3>7, HitsFinite, HitsFiniteNext DEF HitsNeverOvercounted
        <3>9. OnlyHitsCount'
            BY <3>2 DEF OnlyHitsCount, Moves
        <3>10. LoadBounded'
            <4> SUFFICES ASSUME NEW q \in Pkt, pkt'[q].pc = "hitstore"
                         PROVE  pkt'[q].hit \in Nat /\ pkt'[q].hit <= Cardinality(Hits')
                BY DEF LoadBounded
            <4>1. q # p /\ pkt'[q] = pkt[q]  BY <3>2 DEF Moves
            <4>2. pkt[q].hit \in Nat /\ pkt[q].hit <= Cardinality(Hits)
                BY <4>1 DEF LoadBounded
            <4> QED  BY <4>1, <4>2, <3>3, HitsFinite, HitsFiniteNext
        <3> QED  BY <3>3, <3>7, <3>8, <3>9, <3>10
    <2>6. CASE HookVerdict(p)
        <3>1. Moves(p) /\ pkt'[p].pc = "done"
            BY <2>6 DEF HookVerdict, Leave, In, Moves, PktShape, PktFields, Hits
        <3>2. CfShape' /\ cf' = cf  BY <2>6 DEF HookVerdict, CfShape
        <3> QED  BY <3>1, <3>2, QuietStep
    <2> QED  BY <1>4, <2>1, <2>2, <2>3, <2>4, <2>5, <2>6 DEF HookRuns, HookStep
<1>5. CASE UNCHANGED vars
    BY <1>5, OutsideStep DEF vars, CfShape
<1> QED  BY <1>1, <1>2, <1>3, <1>4, <1>5 DEF Next

-----------------------------------------------------------------------------

\* The hit counter never exceeds the packets that hit a rule: an increment may
\* be lost between the load and the store of cf.HitNumber++ in
\* SIPFW_HookLocalIn and its sisters, never counted twice.
THEOREM HitsBounded == Spec => []HitsNeverOvercounted
<1>1. HitInv => HitsNeverOvercounted  BY DEF HitInv
<1> QED  BY HitInit, HitNext, <1>1, PTL DEF Spec

-----------------------------------------------------------------------------
(* The verdicts the history gathers are verdicts.  Settled is a recursive  *)
(* function: that it exists, and that its values are sequences of rules, is*)
(* shown by the least number of turns for which it were not so.            *)

\* What the settled rules are read from, and how many turns they take.
N == Cardinality(Cell)
Reads == /\ rule \in [Cell -> Rules] /\ next \in [Cell -> Ptr]
         /\ \A a \in Admin : adm[a].cur \in Ptr
         /\ cf.DefaultAction \in 0..1

\* One turn of Settled.
Turn(f, m) == [x \in Ptr |-> IF x = Null \/ m = 0 THEN <<>> ELSE <<rule[x]>> \o f[m - 1][After(x)]]

\* f is Settled as far as n.
SettledTo(f, n) ==
    /\ f \in [0..n -> [Ptr -> Seq(Rules)]]
    /\ \A m \in 0..n : f[m] = Turn(f, m)

\* The bound of Settled is a number: there are finitely many cells.
LEMMA CellsFinite == N \in Nat  BY CellAssumption, FS_CardinalityType DEF N

\* What a cell is followed by, mended or not, is a pointer.
LEMMA AfterIsPtr == ASSUME Reads, NEW x \in Cell PROVE After(x) \in Ptr
<1> DEFINE R == {a \in Admin : adm[a].pc = "relink" /\ adm[a].r = x /\ adm[a].cur # Null}
           a == CHOOSE b \in R : TRUE
<1>1. After(x) = IF R = {} THEN next[x] ELSE next[adm[a].cur]  BY DEF After
<1>2. next[x] \in Ptr  BY DEF Reads
<1>3. ASSUME R # {} PROVE next[adm[a].cur] \in Ptr
  <2>1. a \in R  BY <1>3
  <2>2. adm[a].cur \in Cell  BY <2>1 DEF Reads, Ptr
  <2> QED  BY <2>2 DEF Reads
<1> HIDE DEF R, a
<1> QED  BY <1>1, <1>2, <1>3


\* A turn adds one rule to what the turn before has.
LEMMA TurnTyped ==
    ASSUME Reads, NEW f, NEW m, m # 0 => f[m - 1] \in [Ptr -> Seq(Rules)]
    PROVE  Turn(f, m) \in [Ptr -> Seq(Rules)]
<1> SUFFICES ASSUME NEW x \in Ptr
             PROVE  (IF x = Null \/ m = 0 THEN <<>> ELSE <<rule[x]>> \o f[m - 1][After(x)]) \in Seq(Rules)
  BY DEF Turn
<1>1. CASE x = Null \/ m = 0
  <2>1. <<>> \in Seq(Rules)  BY EmptySeq
  <2> QED  BY <1>1, <2>1
<1>2. CASE ~(x = Null \/ m = 0)
  <2>1. x \in Cell  BY <1>2 DEF Ptr
  <2>2. After(x) \in Ptr  BY <2>1, AfterIsPtr
  <2>4. f[m - 1] \in [Ptr -> Seq(Rules)]  BY <1>2
  <2>5. f[m - 1][After(x)] \in Seq(Rules)  BY <2>2, <2>4
  <2>6. rule[x] \in Rules  BY <2>1 DEF Reads
  <2>7. <<rule[x]>> \in Seq(Rules)  BY <2>6
  <2>8. <<rule[x]>> \o f[m - 1][After(x)] \in Seq(Rules)  BY <2>5, <2>7, ConcatProperties
  <2> QED  BY <1>2, <2>8
<1> QED  BY <1>1, <1>2

\* A turn reads nothing of its function but the turn before.
LEMMA TurnLocal ==
    ASSUME NEW n \in Nat, NEW f, NEW g, \A m \in 0..n : g[m] = f[m], NEW m \in 0..(n + 1)
    PROVE  Turn(g, m) = Turn(f, m)
<1>1. CASE m = 0  BY <1>1 DEF Turn
<1>2. CASE m # 0
  <2>1. m - 1 \in 0..n  BY <1>2
  <2>2. g[m - 1] = f[m - 1]  BY <2>1
  <2> QED  BY <2>2 DEF Turn
<1> QED  BY <1>1, <1>2

\* The recursion of Settled has a solution up to every n: the least n without one
\* would have a solution one below, and one turn more solves n.
LEMMA SettledExists == ASSUME Reads, NEW n \in Nat PROVE \E f : SettledTo(f, n)
<1> DEFINE Bad == {m \in Nat : ~\E f : SettledTo(f, m)}
<1>1. SUFFICES ASSUME Bad # {} PROVE FALSE  OBVIOUS
<1>2. \E x \in Bad : \A y \in Bad : ~(<<y, x>> \in OpToRel(<, Nat))
  BY <1>1, NatLessThanWellFounded, WFMin
<1>3. PICK b \in Bad : \A y \in Bad : ~(<<y, b>> \in OpToRel(<, Nat))  BY <1>2
<1>4. ASSUME b = 0 PROVE FALSE
  <2> DEFINE f == [m \in 0..0 |-> [x \in Ptr |-> <<>>]]
  <2>1. f \in [0..0 -> [Ptr -> Seq(Rules)]]  BY EmptySeq
  <2>2. \A m \in 0..0 : f[m] = Turn(f, m)  BY DEF Turn
  <2> HIDE DEF f
  <2>3. SettledTo(f, 0)  BY <2>1, <2>2 DEF SettledTo
  <2> QED  BY <1>4, <2>3
<1>5. ASSUME b # 0 PROVE FALSE
  <2> DEFINE n0 == b - 1
  <2>1. n0 \in Nat /\ n0 < b /\ b = n0 + 1  BY <1>5
  <2>2. n0 \notin Bad  BY <1>3, <2>1 DEF OpToRel
  <2>3. PICK f : SettledTo(f, n0)  BY <2>1, <2>2
  <2> DEFINE g == [m \in 0..b |-> Turn(f, m)]
  <2> HIDE DEF n0
  <2>4. g \in [0..b -> [Ptr -> Seq(Rules)]]
    <3>1. ASSUME NEW m \in 0..b PROVE m # 0 => f[m - 1] \in [Ptr -> Seq(Rules)]
      <4>1. m # 0 => m - 1 \in 0..n0  BY <2>1
      <4> QED  BY <4>1, <2>3 DEF SettledTo
    <3>2. \A m \in 0..b : Turn(f, m) \in [Ptr -> Seq(Rules)]  BY <3>1, TurnTyped
    <3> QED  BY <3>2
  <2>5. \A m \in 0..n0 : g[m] = f[m]
    BY <2>1, <2>3 DEF SettledTo
  <2>6. \A m \in 0..b : g[m] = Turn(g, m)
    <3> SUFFICES ASSUME NEW m \in 0..b PROVE g[m] = Turn(g, m)  OBVIOUS
    <3>1. g[m] = Turn(f, m)  OBVIOUS
    <3> HIDE DEF g
    <3>2. Turn(g, m) = Turn(f, m)  BY <2>1, <2>5, TurnLocal
    <3> QED  BY <3>1, <3>2
  <2> HIDE DEF g
  <2>7. SettledTo(g, b)  BY <2>4, <2>6 DEF SettledTo
  <2> QED  BY <2>7
<1> QED  BY <1>4, <1>5

\* So Settled, which its definition chooses, is one, and its values are sequences of rules.
LEMMA SettledTyped == ASSUME Reads PROVE SettledTo(Settled, N)
<1>1. PICK f : SettledTo(f, N)  BY SettledExists, CellsFinite
<1> DEFINE P(g) == g = [m \in 0..N |-> Turn(g, m)]
<1>2. Settled = CHOOSE g : P(g)  BY DEF Settled, N, Turn
<1>3. P(f)
  BY <1>1 DEF SettledTo
<1>4. P(CHOOSE g : P(g))
  <2> HIDE DEF P
  <2> QED  BY <1>3
<1>5. P(Settled)
  <2> HIDE DEF P
  <2> QED  BY <1>2, <1>4
<1>6. Settled = [m \in 0..N |-> Turn(Settled, m)]  BY <1>5
<1> HIDE DEF P
<1>7. \A m \in 0..N : Settled[m] = Turn(Settled, m)  BY <1>6
<1> DEFINE Bad == {m \in 0..N : Settled[m] \notin [Ptr -> Seq(Rules)]}
<1>8. ASSUME Bad # {} PROVE FALSE
  <2>1. Bad \subseteq Nat  BY CellsFinite
  <2>2. \E x \in Bad : \A y \in Bad : ~(<<y, x>> \in OpToRel(<, Nat))
    BY <1>8, <2>1, NatLessThanWellFounded, WFMin
  <2>3. PICK b \in Bad : \A y \in Bad : ~(<<y, b>> \in OpToRel(<, Nat))  BY <2>2
  <2>4. ASSUME b # 0 PROVE Settled[b - 1] \in [Ptr -> Seq(Rules)]
    <3>1. b - 1 \in 0..N /\ b - 1 \in Nat /\ b \in Nat /\ b - 1 < b  BY <2>4, CellsFinite
    <3>2. b - 1 \notin Bad  BY <2>3, <3>1 DEF OpToRel
    <3> QED  BY <3>1, <3>2
  <2>5. Turn(Settled, b) \in [Ptr -> Seq(Rules)]  BY <2>4, TurnTyped
  <2> QED  BY <1>7, <2>5
<1>9. \A m \in 0..N : Settled[m] \in [Ptr -> Seq(Rules)]  BY <1>8
<1>10. Settled \in [0..N -> [Ptr -> Seq(Rules)]]  BY <1>6, <1>9
<1> QED  BY <1>7, <1>10 DEF SettledTo

\* A set of numbers that is not empty has its minimum.
LEMMA MinIn == ASSUME NEW S, S \subseteq Nat, S # {} PROVE Min(S) \in S
<1>1. \E x \in S : \A y \in S : ~(<<y, x>> \in OpToRel(<, Nat))
  BY NatLessThanWellFounded, WFMin
<1>2. PICK x \in S : \A y \in S : ~(<<y, x>> \in OpToRel(<, Nat))  BY <1>1
<1>3. ASSUME NEW y \in S PROVE x <= y
  <2>1. x \in Nat /\ y \in Nat  OBVIOUS
  <2>2. SUFFICES ASSUME y < x PROVE FALSE  BY <2>1
  <2>3. <<y, x>> \in OpToRel(<, Nat)  BY <2>1, <2>2 DEF OpToRel
  <2> QED  BY <1>2, <2>3
<1> QED  BY <1>3 DEF Min

\* What the rules say of a packet is to drop it or to let it pass.
LEMMA VerdictTyped ==
    ASSUME Reads, NEW x \in Ptr, NEW k PROVE Verdict(x, k) \in 0..1
<1> DEFINE s == Settled[Cardinality(Cell)][x]
           m == {i \in 1..Len(s) : k \in s[i].hits}
<1>1. s \in Seq(Rules)
  BY SettledTyped, CellsFinite DEF SettledTo, N
<1>2. cf.DefaultAction \in 0..1  BY DEF Reads
<1>3. ASSUME m # {} PROVE s[Min(m)].action \in 0..1
  <2>1. m \subseteq Nat  OBVIOUS
  <2>2. Min(m) \in 1..Len(s)  BY <2>1, <1>3, MinIn
  <2>3. s[Min(m)] \in Rules  BY <1>1, <2>2, ElementOfSeq
  <2> QED  BY <2>3 DEF Rules
<1>4. Verdict(x, k) = IF m = {} THEN cf.DefaultAction ELSE s[Min(m)].action
  BY DEF Verdict
<1> QED  BY <1>2, <1>3, <1>4

\* The packets have begun at a rule.
Begun == Reads /\ began \in [Pkt -> Ptr]

\* Every packet's chain has a verdict.
Judged == \A p \in Pkt : Verdict(began[p], pkt[p].kind) \in 0..1

\* The same of every packet, from the rule it began at.
LEMMA BegunJudged == Begun => Judged
BY VerdictTyped DEF Begun, Judged

\* And after the step.
LEMMA BegunJudgedNext == Begun' => Judged'
BY BegunJudged, PTL

\* What Observe adds to the verdicts seen is one.
LEMMA SeenTyped == ASSUME Begun', Observe, NEW p \in Pkt, seen[p] \subseteq 0..1 PROVE seen'[p] \subseteq 0..1
<1>1. Judged' BY BegunJudgedNext
<1>2. (Verdict(began[p], pkt[p].kind))' \in 0..1 BY <1>1 DEF Judged
<1>3. seen'[p] = IF p \notin Filtering' THEN seen[p]
        ELSE (IF p \in Filtering THEN seen[p] ELSE {}) \cup {Verdict(began[p], pkt[p].kind)'} BY DEF Observe
<1> QED BY <1>2, <1>3

-----------------------------------------------------------------------------
\* The commands only add, and the module stays.
Additions ==
    /\ Opts \subseteq [cmd: {"APPEND", "INSERT"}, rule: Rules, number: Int]
    /\ MayUnload = FALSE

\* A pointer that is null or leads to an allocated cell.
Held(x) == x = Null \/ (x \in Cell /\ live[x])

AddPcs == {"idle", "lost", "test", "sethead", "behead", "walk", "link", "relink", "count", "store"}

CellsHeld ==
    /\ live \in [Cell -> BOOLEAN] /\ rule \in [Cell -> Rules] /\ next \in [Cell -> Ptr]
    /\ head \in [Chain -> Ptr] /\ number \in [Chain -> Int]
    /\ \A x \in Cell : Held(next[x])
    /\ \A c \in Chain : Held(head[c])

AdmRecord == [pc: AddPcs, o: Opts \cup {Null}, how: {"", "tail", "from"}, r: Ptr, prev: Ptr,
              cur: Ptr, i: Int, n: Nat]

AdminsHeld ==
    /\ adm \in [Admin -> AdmRecord]
    /\ \A a \in Admin : /\ Held(adm[a].r) /\ Held(adm[a].prev) /\ Held(adm[a].cur)
                        /\ adm[a].pc # "idle" => adm[a].o \in Opts /\ adm[a].r \in Cell

PktHeld(p) ==
    /\ Held(pkt[p].cur) /\ pkt[p].verdict \in 0..2 /\ pkt[p].hook \in Hook
    /\ pkt[p].found => pkt[p].cur # Null
    /\ pkt[p].pc \in {"idle", "head", "match"} => ~pkt[p].found

PktsHeld == \A p \in Pkt : PktHeld(p)

History == began \in [Pkt -> Ptr] /\ seen \in [Pkt -> SUBSET (0..1)]

AddInv ==
    /\ HitInv
    /\ CellsHeld /\ AdminsHeld /\ PktsHeld /\ History
    /\ kernel \in {"running", "unloaded", "oops"}

\* A cell once allocated stays so: nothing that is held is let go.
LEMMA HeldOn ==
    ASSUME \A x \in Cell : live[x] => live'[x], NEW x, Held(x) PROVE Held(x)'
BY DEF Held

\* The empty tables hold nothing.
LEMMA AddInit == Init => AddInv
<1> SUFFICES ASSUME Init PROVE AddInv  OBVIOUS
<1>1. HitInv  BY HitInit
<1>2. CellsHeld
  <2>1. /\ live = [x \in Cell |-> FALSE] /\ next = [x \in Cell |-> Null]
        /\ rule \in [Cell -> {[chain |-> 0, hits |-> {}, action |-> DROP]}]
        /\ head = [c \in Chain |-> Null] /\ number = [c \in Chain |-> 0]
    BY DEF Init
  <2>2. [chain |-> 0, hits |-> {}, action |-> DROP] \in Rules  BY DEF Rules, Chain, DROP
  <2>3. rule \in [Cell -> Rules]  BY <2>1, <2>2
  <2> QED  BY <2>1, <2>3 DEF CellsHeld, Held, Ptr
<1>3. AdminsHeld
  <2> DEFINE f == NoCommand(0)
  <2>1. adm = [a \in Admin |-> f]  BY DEF Init
  <2>2. f \in AdmRecord  BY DEF NoCommand, AdmRecord, AddPcs, Ptr
  <2>3. f.pc = "idle" /\ f.r = Null /\ f.prev = Null /\ f.cur = Null  BY DEF NoCommand
  <2> HIDE DEF f
  <2> QED  BY <2>1, <2>2, <2>3 DEF AdminsHeld, Held
<1>4. PktsHeld
  <2>1. pkt = [p \in Pkt |-> NoPkt]  BY DEF Init
  <2>2. /\ NoPkt.cur = Null /\ NoPkt.verdict = 1 /\ NoPkt.hook = "LOCAL_IN"
        /\ NoPkt.found = FALSE
    BY DEF NoPkt, ACCEPT
  <2> QED  BY <2>1, <2>2 DEF PktsHeld, PktHeld, Held, Hook
<1>5. History  BY DEF Init, History, Ptr
<1>6. kernel = "running"  BY DEF Init
<1> QED  BY <1>1, <1>2, <1>3, <1>4, <1>5, <1>6 DEF AddInv

\* A command's record from its fields.
LEMMA AdmFrom ==
    ASSUME NEW pc \in AddPcs, NEW o \in Opts \cup {Null}, NEW how \in {"", "tail", "from"},
           NEW r \in Ptr, NEW prev \in Ptr, NEW cur \in Ptr, NEW i \in Int, NEW n \in Nat
    PROVE  [pc |-> pc, o |-> o, how |-> how, r |-> r, prev |-> prev, cur |-> cur, i |-> i, n |-> n]
             \in AdmRecord
BY DEF AdmRecord

\* The same after the step.
HeldNext(x) == x = Null \/ (x \in Cell /\ live'[x])

\* The record of one admin may become any that holds its cells.
LEMMA AdminMoves ==
    ASSUME AdminsHeld, NEW a \in Admin, NEW f \in AdmRecord, adm' = [adm EXCEPT ![a] = f],
           \A x \in Cell : live[x] => live'[x],
           HeldNext(f.r), HeldNext(f.prev), HeldNext(f.cur), f.pc # "idle" => f.o \in Opts /\ f.r \in Cell
    PROVE  AdminsHeld'
<1>1. adm' \in [Admin -> AdmRecord]  BY DEF AdminsHeld
<1>2. adm'[a] = f /\ \A b \in Admin \ {a} : adm'[b] = adm[b]  BY DEF AdminsHeld
<1>3. ASSUME NEW b \in Admin
      PROVE  /\ Held(adm[b].r)' /\ Held(adm[b].prev)' /\ Held(adm[b].cur)'
             /\ adm'[b].pc # "idle" => adm'[b].o \in Opts /\ adm'[b].r \in Cell
  <2>1. CASE b = a  BY <1>2, <2>1 DEF Held, HeldNext
  <2>2. CASE b # a
    <3>1. adm'[b] = adm[b]  BY <1>2, <2>2
    <3>2. Held(adm[b].r) /\ Held(adm[b].prev) /\ Held(adm[b].cur)  BY DEF AdminsHeld
    <3> QED  BY <3>1, <3>2 DEF AdminsHeld, Held
  <2> QED  BY <2>1, <2>2
<1> QED  BY <1>1, <1>3 DEF AdminsHeld

\* What a command leaves of its record when it is done.
LEMMA AdmDone ==
    ASSUME NEW f \in AdmRecord
    PROVE  NoCommand(f.n) \in AdmRecord
<1>1. f.n \in Nat  BY DEF AdmRecord
<1>2. "idle" \in AddPcs /\ Null \in Ptr /\ Null \in Opts \cup {Null} /\ 0 \in Int
      /\ "" \in {"", "tail", "from"}
  BY DEF AddPcs, Ptr
<1> QED  BY <1>1, <1>2, AdmFrom DEF NoCommand

\* A step of a command frees no cell and leaves no pointer to a cell that is free.
LEMMA AdminStepHeld ==
    ASSUME Additions, CellsHeld, AdminsHeld, NEW a \in Admin, AdminStep(a)
    PROVE  /\ CellsHeld' /\ AdminsHeld'
           /\ \A x \in Cell : live[x] => live'[x]
           /\ kernel' \in {kernel, "oops"}
<1> DEFINE f == adm[a]
           Goal == /\ CellsHeld' /\ AdminsHeld'
                   /\ \A x \in Cell : live[x] => live'[x]
                   /\ kernel' \in {kernel, "oops"}
<1>1. /\ f \in AdmRecord
      /\ Held(f.r) /\ Held(f.prev) /\ Held(f.cur)
      /\ f.pc # "idle" => f.o \in Opts /\ f.r \in Cell
  BY DEF AdminsHeld
<1>2. f.pc \in AddPcs /\ f.i \in Int /\ f.o \in Opts \cup {Null} /\ {f.r, f.prev, f.cur} \subseteq Ptr
  BY <1>1 DEF AdmRecord
<1>3. ASSUME f.pc # "idle"
      PROVE  Cmd(a) \in {"APPEND", "INSERT"} /\ Chn(a) \in Chain /\ f.r \in Cell /\ live[f.r]
  <2>1. f.o \in [cmd: {"APPEND", "INSERT"}, rule: Rules, number: Int]  BY <1>1, <1>3 DEF Additions
  <2>2. f.r \in Cell /\ live[f.r]  BY <1>1, <1>3, NullAssumption DEF Held
  <2> QED  BY <2>1, <2>2 DEF Cmd, Chn, Rules
<1>4. ASSUME NEW g \in AdmRecord, adm' = [adm EXCEPT ![a] = g], CellsHeld',
             \A x \in Cell : live[x] => live'[x],
             HeldNext(g.r), HeldNext(g.prev), HeldNext(g.cur), g.pc # "idle" => g.o \in Opts /\ g.r \in Cell,
             kernel' = kernel
      PROVE  Goal
  BY <1>4, AdminMoves
\* Steps that only move the cursors.
<1>5. ASSUME NEW pc \in AddPcs, NEW prev, NEW cur, NEW i \in Int, Held(prev), Held(cur), pc # "idle",
             f.pc # "idle",
             adm' = [adm EXCEPT ![a] = [f EXCEPT !.pc = pc, !.prev = prev, !.cur = cur, !.i = i]],
             CellsHeld', \A x \in Cell : live[x] => live'[x], kernel' = kernel
      PROVE  Goal
  <2> DEFINE g == [f EXCEPT !.pc = pc, !.prev = prev, !.cur = cur, !.i = i]
  <2>1. prev \in Ptr /\ cur \in Ptr  BY <1>5 DEF Held, Ptr
  <2>2. g \in AdmRecord  BY <1>1, <1>5, <2>1 DEF AdmRecord
  <2>3. g.r = f.r /\ g.prev = prev /\ g.cur = cur /\ g.o = f.o /\ g.pc = pc  BY <1>1 DEF AdmRecord
  <2>4. HeldNext(f.r) /\ HeldNext(prev) /\ HeldNext(cur)  BY <1>1, <1>5 DEF Held, HeldNext
  <2>6. adm' = [adm EXCEPT ![a] = g]  BY <1>5
  <2> HIDE DEF g
  <2>5. HeldNext(g.r) /\ HeldNext(g.prev) /\ HeldNext(g.cur)  BY <2>3, <2>4
  <2> QED  BY <1>1, <1>4, <1>5, <2>2, <2>3, <2>5, <2>6
<1>6. ASSUME Done(a), f.pc # "idle", CellsHeld', \A x \in Cell : live[x] => live'[x], kernel' = kernel
      PROVE  Goal
  <2> DEFINE g == NoCommand(f.n)
  <2>1. adm' = [adm EXCEPT ![a] = g]  BY <1>6 DEF Done
  <2>2. g \in AdmRecord  BY <1>1, AdmDone
  <2>3. g.r = Null /\ g.prev = Null /\ g.cur = Null /\ g.pc = "idle"  BY DEF NoCommand
  <2> HIDE DEF g
  <2>4. HeldNext(g.r) /\ HeldNext(g.prev) /\ HeldNext(g.cur)  BY <2>3 DEF HeldNext
  <2> QED  BY <1>4, <1>6, <2>1, <2>2, <2>3, <2>4
<1>7. ASSUME NEW pc \in AddPcs, Goto(a, pc), pc # "idle", f.pc # "idle", CellsHeld',
             \A x \in Cell : live[x] => live'[x], kernel' = kernel
      PROVE  Goal
  <2>1. adm' = [adm EXCEPT ![a] =
        [f EXCEPT !.pc = pc, !.prev = f.prev, !.cur = f.cur, !.i = f.i]]
    <3>1. [f EXCEPT !.pc = pc] = [f EXCEPT !.pc = pc, !.prev = f.prev, !.cur = f.cur, !.i = f.i]
      BY <1>1 DEF AdmRecord
    <3> QED  BY <1>7, <3>1 DEF Goto
  <2> QED  BY <1>1, <1>2, <1>5, <1>7, <2>1
<1>8. ASSUME Oops PROVE Goal
  BY <1>8 DEF Oops, cells, tables, CellsHeld, AdminsHeld, Held
<1>9. ASSUME UNCHANGED <<cells, tables>> PROVE CellsHeld' /\ \A x \in Cell : live[x] => live'[x]
  BY <1>9 DEF cells, tables, CellsHeld, Held
<1>10. ASSUME NEW o \in Opts, NLDoAction(a, o) PROVE Goal
  <2>1. CASE (\A x \in Cell : live[x]) /\ Oops  BY <1>8, <2>1
  <2>2. CASE ~((\A x \in Cell : live[x]) /\ Oops)
    <3>1. o \in [cmd: {"APPEND", "INSERT"}, rule: Rules, number: Int]  BY DEF Additions
    <3> DEFINE g(r) == [pc |-> Started(o)[1], o |-> o, how |-> Started(o)[2], r |-> r,
                        prev |-> Null,
                        cur |-> IF Started(o)[1] = "walk" THEN head[o.rule.chain] ELSE Null,
                        i |-> IF o.cmd = "FLUSHALL" THEN 0
                              ELSE IF o.cmd = "FLUSH" THEN o.rule.chain ELSE 1,
                        n |-> adm[a].n + 1]
    <3>2. PICK r \in {x \in Cell : ~live[x]} :
             /\ live' = [live EXCEPT ![r] = TRUE]
             /\ rule' = [rule EXCEPT ![r] = o.rule]
             /\ next' = [next EXCEPT ![r] = Null]
             /\ adm' = [adm EXCEPT ![a] = g(r)]
             /\ UNCHANGED <<tables, kernel>>
      BY <1>10, <2>2 DEF NLDoAction
    <3>3. r \in Cell /\ ~live[r] /\ r # Null  BY NullAssumption
    <3>4. Started(o)[1] \in AddPcs \ {"idle"} /\ Started(o)[2] \in {"", "tail", "from"}
      <4>1. CASE o.cmd = "APPEND"  BY <4>1 DEF Started, AddPcs
      <4>2. CASE o.cmd = "INSERT"  BY <4>2 DEF Started, AddPcs
      <4> QED  BY <3>1, <4>1, <4>2
    <3>5. o.rule \in Rules /\ o.rule.chain \in Chain /\ o.cmd \notin {"FLUSHALL", "FLUSH"}
      BY <3>1 DEF Rules
    <3>6. live' \in [Cell -> BOOLEAN] /\ live'[r] /\ \A x \in Cell : live[x] => live'[x]
      BY <3>2, <3>3, Zenon DEF CellsHeld
    <3>7. rule' \in [Cell -> Rules]  BY <3>2, <3>3, <3>5 DEF CellsHeld
    <3>8. next' \in [Cell -> Ptr] /\ next'[r] = Null /\ \A x \in Cell \ {r} : next'[x] = next[x]
      BY <3>2, <3>3 DEF CellsHeld, Ptr
    <3>9. head' = head /\ number' = number  BY <3>2 DEF tables
    <3>10. \A x \in Cell : Held(next[x])'
      <4> SUFFICES ASSUME NEW x \in Cell PROVE Held(next[x])'  OBVIOUS
      <4>1. CASE x = r  BY <3>8, <4>1 DEF Held
      <4>2. CASE x # r
        <5>1. next'[x] = next[x] /\ Held(next[x])  BY <3>8, <4>2 DEF CellsHeld
        <5> QED  BY <3>6, <5>1 DEF Held
      <4> QED  BY <4>1, <4>2
    <3>11. \A c \in Chain : Held(head[c])'
      BY <3>6, <3>9 DEF CellsHeld, Held
    <3>12. CellsHeld'
      BY <3>6, <3>7, <3>8, <3>9, <3>10, <3>11 DEF CellsHeld
    <3>13. g(r).cur \in {Null, head[o.rule.chain]} /\ head[o.rule.chain] \in Ptr /\ Held(head[o.rule.chain])
      <4>1. g(r).cur = IF Started(o)[1] = "walk" THEN head[o.rule.chain] ELSE Null  OBVIOUS
      <4> QED  BY <3>5, <4>1 DEF CellsHeld
    <3>14. g(r) \in AdmRecord
      <4>1. g(r).i = 1 /\ g(r).i \in Int
        <5>1. g(r).i = IF o.cmd = "FLUSHALL" THEN 0 ELSE IF o.cmd = "FLUSH" THEN o.rule.chain ELSE 1
          OBVIOUS
        <5> QED  BY <3>5, <5>1
      <4>2. g(r) = [pc |-> Started(o)[1], o |-> o, how |-> Started(o)[2], r |-> r, prev |-> Null,
                    cur |-> g(r).cur, i |-> g(r).i, n |-> adm[a].n + 1]
        OBVIOUS
      <4>3. g(r).cur \in Ptr
        <5> HIDE DEF g
        <5> QED  BY <3>13 DEF Ptr
      <4>4. adm[a].n \in Nat
        <5> HIDE DEF g
        <5> QED  BY <1>1 DEF AdmRecord
      <4>5. adm[a].n + 1 \in Nat
        <5> HIDE DEF g
        <5> QED  BY <4>4
      <4>6. r \in Ptr /\ Null \in Ptr  BY <3>3 DEF Ptr
      <4> HIDE DEF g
      <4>7. /\ Started(o)[1] \in AddPcs /\ Started(o)[2] \in {"", "tail", "from"}
            /\ o \in Opts \cup {Null}
        BY <3>4
      <4>8. [pc |-> Started(o)[1], o |-> o, how |-> Started(o)[2], r |-> r, prev |-> Null,
             cur |-> g(r).cur, i |-> g(r).i, n |-> adm[a].n + 1] \in AdmRecord
        BY <4>1, <4>3, <4>5, <4>6, <4>7, AdmFrom
      <4> QED  BY <4>2, <4>8
    <3>15. g(r).r = r /\ g(r).prev = Null /\ g(r).o = o  OBVIOUS
    <3>16. g(r).cur = Null \/ (g(r).cur \in Cell /\ live'[g(r).cur])
      BY <3>6, <3>13 DEF Held
    <3> HIDE DEF g
    <3>17. HeldNext(g(r).r) /\ HeldNext(g(r).prev) /\ HeldNext(g(r).cur)
      BY <3>3, <3>6, <3>15, <3>16 DEF HeldNext
    <3> QED  BY <1>4, <3>2, <3>3, <3>6, <3>12, <3>14, <3>15, <3>17
  <2> QED  BY <2>1, <2>2
<1>11. ASSUME Relinking(a) PROVE Goal
  <2>1. CASE Lose(a)  BY <1>6, <1>9, <2>1 DEF Lose, At
  <2>2. CASE TestHead(a)
    <3>1. f.pc = "test" /\ UNCHANGED <<cells, tables, kernel>>  BY <2>2 DEF TestHead, At
    <3>2. Held(head[Chn(a)])  BY <1>3, <3>1 DEF CellsHeld
    <3>3. CASE Goto(a, "sethead")
      BY <1>7, <1>9, <3>1, <3>3 DEF AddPcs
    <3>4. CASE adm' = [adm EXCEPT ![a].pc = "walk", ![a].cur = head[Chn(a)]]
      <4>1. [f EXCEPT !.pc = "walk", !.cur = head[Chn(a)]]
              = [f EXCEPT !.pc = "walk", !.prev = f.prev, !.cur = head[Chn(a)], !.i = f.i]
        BY <1>1 DEF AdmRecord
      <4>2. adm' = [adm EXCEPT ![a] =
            [f EXCEPT !.pc = "walk", !.prev = f.prev, !.cur = head[Chn(a)], !.i = f.i]]
        BY <3>4, <4>1
      <4>3. "walk" \in AddPcs /\ "walk" # "idle"  BY DEF AddPcs
      <4> QED  BY <1>1, <1>2, <1>5, <1>9, <3>1, <3>2, <4>2, <4>3
    <3> QED  BY <2>2, <3>3, <3>4 DEF TestHead
  <2>3. CASE Behead(a)
    <3>1. f.pc = "behead" /\ UNCHANGED <<live, rule, tables, kernel>> /\ Goto(a, "sethead")
          /\ next' = [next EXCEPT ![f.r] = head[Chn(a)]]
      BY <2>3 DEF Behead, At
    <3>2. CellsHeld' /\ \A x \in Cell : live[x] => live'[x]
      BY <1>3, <3>1 DEF CellsHeld, tables, Held
    <3> QED  BY <1>7, <3>1, <3>2 DEF AddPcs
  <2>4. CASE SetHead(a)
    <3>1. f.pc = "sethead" /\ UNCHANGED <<cells, number, kernel>>
          /\ head' = [head EXCEPT ![Chn(a)] = f.r]
      BY <2>4 DEF SetHead, At
    <3>2. CellsHeld' /\ \A x \in Cell : live[x] => live'[x]
      BY <1>2, <1>3, <3>1 DEF CellsHeld, cells, Held
    <3>3. CASE Goto(a, "count")  BY <1>7, <3>1, <3>2, <3>3 DEF AddPcs
    <3>4. CASE Done(a)  BY <1>6, <3>1, <3>2, <3>4
    <3> QED  BY <2>4, <3>3, <3>4 DEF SetHead
  <2>5. CASE WalkOn(a)
    <3>1. f.pc = "walk" /\ UNCHANGED <<cells, tables, kernel>>  BY <2>5 DEF WalkOn, At
    <3>2. CASE Goto(a, "link")  BY <1>7, <1>9, <3>1, <3>2 DEF AddPcs
    <3>3. CASE f.cur # Null /\ adm' = [adm EXCEPT ![a].prev = adm[a].cur, ![a].cur = next[adm[a].cur],
                                                  ![a].i = @ + 1]
      <4>1. f.cur \in Cell /\ Held(next[f.cur])  BY <1>1, <3>3 DEF Held, CellsHeld
      <4>2. [f EXCEPT !.prev = f.cur, !.cur = next[f.cur], !.i = @ + 1]
              = [f EXCEPT !.pc = "walk", !.prev = f.cur, !.cur = next[f.cur], !.i = f.i + 1]
        BY <1>1, <3>1 DEF AdmRecord
      <4>3. adm' = [adm EXCEPT ![a] =
            [f EXCEPT !.pc = "walk", !.prev = f.cur, !.cur = next[f.cur], !.i = f.i + 1]]
        BY <3>3, <4>2
      <4>4. "walk" \in AddPcs /\ "walk" # "idle"  BY DEF AddPcs
      <4>5. f.i + 1 \in Int  BY <1>2
      <4> QED  BY <1>1, <1>5, <1>9, <3>1, <4>1, <4>3, <4>4, <4>5
    <3> QED  BY <2>5, <3>2, <3>3 DEF WalkOn
  <2>6. CASE LinkBehind(a)
    <3>1. CASE Oops  BY <1>8, <3>1
    <3>2. CASE ~Oops
      <4>1. f.pc = "link" /\ f.prev # Null /\ UNCHANGED <<live, rule, number, kernel>>
            /\ PointPrev(a, f.r)
        BY <2>6, <3>2 DEF LinkBehind, At
      <4>2. next' = [next EXCEPT ![f.prev] = f.r] /\ UNCHANGED head  BY <4>1 DEF PointPrev
      <4>3. CellsHeld' /\ \A x \in Cell : live[x] => live'[x]
        BY <1>1, <1>2, <1>3, <4>1, <4>2 DEF CellsHeld, Held
      <4>4. Goto(a, "count") \/ Done(a) \/ Goto(a, "relink")
        BY <2>6, <3>2 DEF LinkBehind
      <4>5. {"count", "relink"} \subseteq AddPcs  BY DEF AddPcs
      <4> QED  BY <1>6, <1>7, <4>1, <4>3, <4>4, <4>5
    <3> QED  BY <3>1, <3>2
  <2>7. CASE Relink(a)
    <3>1. CASE Oops  BY <1>8, <3>1
    <3>2. CASE ~Oops
      <4>1. f.pc = "relink" /\ f.cur # Null /\ UNCHANGED <<live, rule, tables, kernel>>
            /\ next' = [next EXCEPT ![f.r] = next[f.cur]]
        BY <2>7, <3>2 DEF Relink, At
      <4>2. f.cur \in Cell /\ Held(next[f.cur]) /\ next[f.cur] \in Ptr
        BY <1>1, <4>1 DEF Held, CellsHeld
      <4>3. CellsHeld' /\ \A x \in Cell : live[x] => live'[x]
        BY <4>1, <4>2 DEF CellsHeld, tables, Held
      <4>4. Cmd(a) # "REPLACE"  BY <1>3, <4>1
      <4>5. Done(a)  BY <2>7, <3>2, <4>4 DEF Relink
      <4> QED  BY <1>6, <4>1, <4>3, <4>5
    <3> QED  BY <3>1, <3>2
  <2>8. CASE CountLoad(a)
    <3>1. f.pc = "count" /\ UNCHANGED <<cells, tables, kernel>>
          /\ adm' = [adm EXCEPT ![a].pc = "store", ![a].i = number[Chn(a)]]
      BY <2>8 DEF CountLoad, At
    <3>2. number[Chn(a)] \in Int  BY <1>3, <3>1 DEF CellsHeld
    <3>3. [f EXCEPT !.pc = "store", !.i = number[Chn(a)]]
            = [f EXCEPT !.pc = "store", !.prev = f.prev, !.cur = f.cur, !.i = number[Chn(a)]]
      BY <1>1 DEF AdmRecord
    <3>4. adm' = [adm EXCEPT ![a] =
          [f EXCEPT !.pc = "store", !.prev = f.prev, !.cur = f.cur, !.i = number[Chn(a)]]]
      BY <3>1, <3>3
    <3>5. "store" \in AddPcs /\ "store" # "idle"  BY DEF AddPcs
    <3>6. f.pc # "idle" /\ Held(f.prev) /\ Held(f.cur)  BY <1>1, <3>1
    <3>7. CellsHeld' /\ (\A x \in Cell : live[x] => live'[x]) /\ kernel' = kernel  BY <1>9, <3>1
    <3> QED  BY <1>5, <3>2, <3>4, <3>5, <3>6, <3>7
  <2>9. CASE CountStore(a)
    <3>1. f.pc = "store" /\ UNCHANGED <<cells, head, kernel>>  BY <2>9 DEF CountStore, At
    <3>2. Cmd(a) # "DELETE"  BY <1>3, <3>1
    <3>3. number' = [number EXCEPT ![Chn(a)] = f.i + 1] /\ Done(a)  BY <2>9, <3>2 DEF CountStore
    <3>4. f.i + 1 \in Int  BY <1>2
    <3>5. CellsHeld' /\ \A x \in Cell : live[x] => live'[x]
      BY <3>1, <3>3, <3>4 DEF CellsHeld, cells, Held
    <3> QED  BY <1>6, <3>1, <3>3, <3>5
  <2>10. CASE LinkInstead(a) \/ UnlinkCur(a)
    BY <1>3, <2>10 DEF LinkInstead, UnlinkCur, At
  <2>11. CASE FreeCur(a) \/ DropRule(a) \/ FlushHead(a) \/ FlushWalk(a) \/ FlushClear(a)
    BY <1>2, <2>11 DEF FreeCur, DropRule, FlushHead, FlushWalk, FlushClear, At, AddPcs
  <2> QED  BY <1>11, <2>1, <2>2, <2>3, <2>4, <2>5, <2>6, <2>7, <2>8, <2>9, <2>10, <2>11 DEF Relinking
<1>12. ~Exit(a) /\ ~Unhook(a)  BY <1>2 DEF Exit, Unhook, At, AddPcs, Additions
<1> QED  BY <1>10, <1>11, <1>12 DEF AdminStep

\* The hooks only follow pointers: a packet keeps to cells that are held.
LEMMA HookHeld ==
    ASSUME HitInv, CellsHeld, PktsHeld, NEW p \in Pkt, HookStep(p), UNCHANGED <<cells, tables>>
    PROVE  PktsHeld'
<1> DEFINE e == pkt[p]
<1>1. live' = live /\ rule' = rule /\ next' = next /\ head' = head  BY DEF cells, tables
<1>2. DOMAIN pkt = Pkt /\ DOMAIN e = PktFields /\ e.found \in BOOLEAN
  BY DEF HitInv, PktShape
<1>3. PktHeld(p)  BY DEF PktsHeld
<1>4. ASSUME NEW q \in Pkt, pkt'[q] = pkt[q] PROVE PktHeld(q)'
  <2>1. PktHeld(q)  BY DEF PktsHeld
  <2> QED  BY <1>1, <1>4, <2>1 DEF PktHeld, Held
<1>5. ASSUME \A q \in Pkt \ {p} : pkt'[q] = pkt[q], PktHeld(p)' PROVE PktsHeld'
  BY <1>4, <1>5 DEF PktsHeld
<1>6. CASE HookHead(p)
  <2>1. e.pc = "head" /\ pkt' = [pkt EXCEPT ![p].pc = "match", ![p].cur = head[ChainOf(e.hook)]]
    BY <1>6 DEF HookHead, In
  <2>2. ChainOf(e.hook) \in Chain  BY DEF ChainOf, Chain
  <2>3. Held(head[ChainOf(e.hook)]) /\ ~e.found  BY <1>3, <2>1, <2>2 DEF CellsHeld, PktHeld
  <2>4. /\ pkt'[p].pc = "match" /\ pkt'[p].cur = head[ChainOf(e.hook)] /\ pkt'[p].found = e.found
        /\ pkt'[p].verdict = e.verdict /\ pkt'[p].hook = e.hook
        /\ \A q \in Pkt \ {p} : pkt'[q] = pkt[q]
    BY <1>2, <2>1 DEF PktFields
  <2>5. PktHeld(p)'  BY <1>1, <1>3, <2>3, <2>4 DEF PktHeld, Held
  <2> QED  BY <1>5, <2>4, <2>5
<1>7. CASE IsMatch(p)
  <2>1. e.pc = "match" /\ ~e.found  BY <1>3, <1>7 DEF IsMatch, In, PktHeld
  <2>2. CASE pkt' = [pkt EXCEPT ![p].pc = "verdict"]
    <3>1. /\ pkt'[p].pc = "verdict" /\ pkt'[p].cur = e.cur /\ pkt'[p].found = e.found
          /\ pkt'[p].verdict = e.verdict /\ pkt'[p].hook = e.hook
          /\ \A q \in Pkt \ {p} : pkt'[q] = pkt[q]
      BY <1>2, <2>2 DEF PktFields
    <3>2. PktHeld(p)'  BY <1>1, <1>3, <3>1 DEF PktHeld, Held
    <3> QED  BY <1>5, <3>1, <3>2
  <2>3. CASE e.cur # Null /\ pkt' = [pkt EXCEPT ![p].pc = "log", ![p].found = TRUE]
    <3>1. /\ pkt'[p].pc = "log" /\ pkt'[p].cur = e.cur /\ pkt'[p].found = TRUE
          /\ pkt'[p].verdict = e.verdict /\ pkt'[p].hook = e.hook
          /\ \A q \in Pkt \ {p} : pkt'[q] = pkt[q]
      BY <1>2, <2>3 DEF PktFields
    <3>2. PktHeld(p)'  BY <1>1, <1>3, <2>3, <3>1 DEF PktHeld, Held
    <3> QED  BY <1>5, <3>1, <3>2
  <2>4. CASE e.cur # Null /\ pkt' = [pkt EXCEPT ![p].cur = next[e.cur]]
    <3>1. /\ pkt'[p].pc = e.pc /\ pkt'[p].cur = next[e.cur] /\ pkt'[p].found = e.found
          /\ pkt'[p].verdict = e.verdict /\ pkt'[p].hook = e.hook
          /\ \A q \in Pkt \ {p} : pkt'[q] = pkt[q]
      BY <1>2, <2>4 DEF PktFields
    <3>2. e.cur \in Cell  BY <1>3, <2>4 DEF PktHeld, Held
    <3>3. Held(next[e.cur])  BY <3>2 DEF CellsHeld
    <3>4. PktHeld(p)'  BY <1>1, <1>3, <2>1, <3>1, <3>3 DEF PktHeld, Held
    <3> QED  BY <1>5, <3>1, <3>4
  <2> QED  BY <1>7, <2>2, <2>3, <2>4 DEF IsMatch
<1>8. CASE LogAppend(p) \/ HitLoad(p) \/ HitStore(p)
  <2>1. /\ pkt'[p].pc \in {"hit", "hitstore", "verdict"} /\ pkt'[p].cur = e.cur
        /\ pkt'[p].found = e.found /\ pkt'[p].verdict = e.verdict /\ pkt'[p].hook = e.hook
        /\ \A q \in Pkt \ {p} : pkt'[q] = pkt[q]
    BY <1>2, <1>8 DEF LogAppend, HitLoad, HitStore, PktFields
  <2>2. PktHeld(p)'  BY <1>1, <1>3, <2>1 DEF PktHeld, Held
  <2> QED  BY <1>5, <2>1, <2>2
<1>9. CASE HookVerdict(p)
  <2> DEFINE v == IF e.found THEN rule[e.cur].action ELSE cf.DefaultAction
  <2>1. pkt' = [pkt EXCEPT ![p].pc = "done", ![p].verdict = v]  BY <1>9 DEF HookVerdict, Leave
  <2>2. /\ pkt'[p].pc = "done" /\ pkt'[p].cur = e.cur /\ pkt'[p].found = e.found
        /\ pkt'[p].verdict = v /\ pkt'[p].hook = e.hook
        /\ \A q \in Pkt \ {p} : pkt'[q] = pkt[q]
    BY <1>2, <2>1 DEF PktFields
  <2>3. v \in 0..2
    <3>1. CASE e.found
      <4>1. e.cur \in Cell  BY <1>3, <3>1 DEF PktHeld, Held
      <4>2. rule[e.cur] \in Rules  BY <4>1 DEF CellsHeld
      <4>3. rule[e.cur].action \in 0..1  BY <4>2 DEF Rules
      <4> QED  BY <3>1, <4>3
    <3>2. CASE ~e.found
      <4>1. cf.DefaultAction \in 0..1  BY DEF HitInv, CfShape
      <4> QED  BY <3>2, <4>1
    <3> QED  BY <3>1, <3>2
  <2> HIDE DEF v
  <2>4. PktHeld(p)'  BY <1>1, <1>3, <2>2, <2>3 DEF PktHeld, Held
  <2> QED  BY <1>5, <2>2, <2>4
<1> QED  BY <1>6, <1>7, <1>8, <1>9 DEF HookStep

\* A packet that enters a hook has found nothing yet.
LEMMA EntryHeld ==
    ASSUME HitInv, PktsHeld, NEW p \in Pkt, NEW h \in Hook, NEW k \in Kind, HookEnter(p, h, k),
           UNCHANGED cells
    PROVE  PktsHeld'
<1> DEFINE e == [pkt[p] EXCEPT !.hook = h, !.kind = k]
<1>1. DOMAIN pkt = Pkt /\ DOMAIN pkt[p] = PktFields  BY DEF HitInv, PktShape
<1>2. pkt[p].pc = "idle" /\ ~pkt[p].found /\ PktHeld(p)
  BY DEF HookEnter, In, PktsHeld, PktHeld
<1>3. PICK r \in {[e EXCEPT !.pc = "done", !.verdict = STOLEN], [e EXCEPT !.pc = "done"],
                  [e EXCEPT !.pc = "head"]} : pkt' = [pkt EXCEPT ![p] = r]
  BY DEF HookEnter
<1>4. r.found = pkt[p].found /\ r.cur = pkt[p].cur /\ r.hook = h /\ r.verdict \in {pkt[p].verdict, 2}
  BY <1>1 DEF PktFields, STOLEN
<1>5. pkt'[p] = r /\ \A q \in Pkt \ {p} : pkt'[q] = pkt[q]  BY <1>1, <1>3
<1>6. live' = live  BY DEF cells
<1>7. PktHeld(p)'
  BY <1>2, <1>4, <1>5, <1>6 DEF PktHeld, Held
<1>8. ASSUME NEW q \in Pkt, q # p PROVE PktHeld(q)'
  <2>1. PktHeld(q) /\ pkt'[q] = pkt[q]  BY <1>5, <1>8 DEF PktsHeld
  <2> QED  BY <1>6, <2>1 DEF PktHeld, Held
<1> QED  BY <1>7, <1>8 DEF PktsHeld

\* What the observer writes is a verdict.
LEMMA HistoryKept ==
    ASSUME HitInv', CellsHeld', AdminsHeld', PktsHeld', History, Observe
    PROVE  History'
<1>1. began' \in [Pkt -> Ptr]
  <2>1. ASSUME NEW p \in Pkt PROVE head'[ChainOf(pkt'[p].hook)] \in Ptr
    <3>1. ChainOf(pkt'[p].hook) \in Chain  BY DEF ChainOf, Chain
    <3> QED  BY <3>1 DEF CellsHeld
  <2> QED  BY <2>1 DEF Observe, History
<1>2. Begun'
  <2>1. Reads'  BY DEF Reads, HitInv, CfShape, CellsHeld, AdminsHeld, AdmRecord
  <2> QED  BY <1>1, <2>1 DEF Begun
<1>3. \A p \in Pkt : seen'[p] \subseteq 0..1  BY <1>2, SeenTyped DEF History
<1>4. seen' \in [Pkt -> SUBSET (0..1)]  BY <1>3 DEF Observe
<1> QED  BY <1>1, <1>4 DEF History

\* Every store of an addition, every load of a hook keeps to allocated cells.
LEMMA AddNext == Additions /\ AddInv /\ [Next]_vars => AddInv'
<1> SUFFICES ASSUME Additions, AddInv, [Next]_vars PROVE AddInv'  OBVIOUS
<1>1. HitInv'  BY HitNext DEF AddInv
<1> USE DEF AddInv
<1>2. ASSUME NEW a \in Admin, AdminStep(a) PROVE AddInv'
  <2>1. CellsHeld' /\ AdminsHeld' /\ (\A x \in Cell : live[x] => live'[x])
        /\ kernel' \in {kernel, "oops"}
    BY <1>2, AdminStepHeld
  <2>2. pkt' = pkt /\ Observe  BY <1>2 DEF AdminStep
  <2>3. PktsHeld'  BY <2>1, <2>2 DEF PktsHeld, PktHeld, Held
  <2> QED  BY <1>1, <2>1, <2>2, <2>3, HistoryKept
<1>3. ASSUME UNCHANGED <<cells, tables, adm, kernel>>, PktsHeld', Observe PROVE AddInv'
  <2>1. CellsHeld'  BY <1>3 DEF CellsHeld, cells, tables, Held
  <2>2. AdminsHeld'  BY <1>3 DEF AdminsHeld, cells, Held
  <2> QED  BY <1>1, <1>3, <2>1, <2>2, HistoryKept
<1>4. ASSUME NEW p \in Pkt, HookRuns(p) PROVE AddInv'
  <2>1. PktsHeld'  BY <1>4, HookHeld DEF HookRuns
  <2> QED  BY <1>3, <1>4, <2>1 DEF HookRuns
<1>5. ASSUME NEW p \in Pkt, PktEnters(p) PROVE AddInv'
  <2>1. PktsHeld'  BY <1>5, EntryHeld DEF PktEnters
  <2> QED  BY <1>3, <1>5, <2>1 DEF PktEnters
<1>6. ASSUME Proc PROVE AddInv'
  <2>1. pkt' = pkt /\ live' = live  BY <1>6 DEF Proc, ProcWrite, cells
  <2>2. PktsHeld'  BY <2>1 DEF PktsHeld, PktHeld, Held
  <2> QED  BY <1>3, <1>6, <2>2 DEF Proc
<1>7. CASE UNCHANGED vars
  <2>1. UNCHANGED <<live, rule, next, head, number, adm, pkt, began, seen, kernel>>
    BY <1>7 DEF vars, cells, tables
  <2>2. CellsHeld' /\ AdminsHeld' /\ PktsHeld' /\ History'
    BY <2>1 DEF CellsHeld, AdminsHeld, PktsHeld, PktHeld, History, Held
  <2> QED  BY <1>1, <2>1, <2>2
<1> QED  BY <1>2, <1>4, <1>5, <1>6, <1>7 DEF Next

\* What the invariant says of the cells every actor's next step touches.
LEMMA AddSound == AddInv => HooksSound
<1> SUFFICES ASSUME AddInv PROVE HooksSound  OBVIOUS
<1> USE DEF AddInv
<1>1. TypeOK
  <2>1. \A p \in Pkt : pkt[p].cur \in Ptr /\ pkt[p].verdict \in 0..2 /\ seen[p] \subseteq 0..1
    BY DEF PktsHeld, PktHeld, Held, Ptr, History
  <2>2. \A a \in Admin : {adm[a].r, adm[a].prev, adm[a].cur} \subseteq Ptr
    BY DEF AdminsHeld, AdmRecord
  <2> QED  BY <2>1, <2>2 DEF TypeOK, CellsHeld, HitInv, CfShape
<1>2. ASSUME NEW a \in Admin, NEW x \in AdminDerefs(a) PROVE live[x]
  <2>1. x \in Cell /\ x \in {adm[a].r, adm[a].prev, adm[a].cur}  BY DEF AdminDerefs
  <2>2. Held(adm[a].r) /\ Held(adm[a].prev) /\ Held(adm[a].cur)  BY DEF AdminsHeld
  <2> QED  BY <2>1, <2>2, NullAssumption DEF Held
<1>3. ASSUME NEW p \in Pkt, NEW x \in PktDerefs(p) PROVE live[x]
  <2>1. x \in Cell /\ x = pkt[p].cur  BY DEF PktDerefs
  <2> QED  BY <2>1, NullAssumption DEF PktsHeld, PktHeld, Held
<1> QED  BY <1>1, <1>2, <1>3 DEF HooksSound, NoUseAfterFree

\* As long as the commands only add, no handler of sipfw_k_nl.c and no loop of
\* SIPFW_IsMatch follows a pointer to a cell that was never allocated; nothing is freed.
LEMMA AdditionsAreSafe == ASSUME Additions PROVE Spec => []HooksSound
<1>1. AddInv /\ [Next]_vars => AddInv'  BY AddNext
<1> QED  BY AddInit, <1>1, AddSound, PTL DEF Spec

-----------------------------------------------------------------------------
(* One administrator at the ends of the chains: what a packet gets is what *)
(* the chain said.                                                         *)

\* The commands add a rule in front of a chain or behind it, one command at a
\* time, and nobody changes the default action.
AtTheEnds ==
    /\ Additions
    /\ \A o \in Opts : o.cmd = "INSERT" => o.number \in {1, -1} \/ o.number > Budget
    /\ \A a, b \in Admin : a = b
    /\ "DefaultAction" \notin Knobs

\* The rule of a command that is on no chain yet.
FreshPcs == {"test", "walk", "link", "behead", "sethead", "lost"}
Fresh(a) == adm[a].pc \in FreshPcs

\* Every other rule that there is.
Linked == {x \in Cell : live[x] /\ \A a \in Admin : Fresh(a) => adm[a].r # x}
On(x) == x = Null \/ x \in Linked

\* What a command has found out: it goes to the end of the chain, since number never
\* exceeds the commands there were, and stands behind what it has walked over.
CommandOK(a) ==
    LET f == adm[a] IN
    /\ f.n <= Budget
    /\ \A c \in Chain : number[c] <= IF f.pc = "idle" THEN f.n ELSE f.n - 1
    /\ f.pc # "relink"
    /\ f.pc = "store" => f.i <= f.n - 1
    /\ f.pc \in {"test", "walk", "link"} => f.how = "tail"
    /\ f.pc = "test" => f.prev = Null
    /\ f.pc \in {"walk", "link"} =>
         On(f.prev) /\ On(f.cur) /\ (f.prev # Null => next[f.prev] = f.cur)
    /\ f.pc = "link" => f.cur = Null
    /\ Fresh(a) => next[f.r] = IF f.pc = "sethead" THEN head[Chn(a)] ELSE Null

OnChains == (\A c \in Chain : On(head[c])) /\ \A x \in Linked : On(next[x])

\* The chains end: every rule ranks above the one it points to.
RankedBy(g) ==
    /\ g \in [Ptr -> 0..Cardinality(Linked)] /\ g[Null] = 0
    /\ \A x \in Linked : 1 <= g[x] /\ g[next[x]] < g[x]
Ranked == \E g \in [Ptr -> 0..Cardinality(Linked)] : RankedBy(g)

GrowInv == (\A a \in Admin : CommandOK(a)) /\ OnChains /\ Ranked

\* The rules p's hook has passed, from the first to the one it stands at: none matches p.
Passed(p) ==
    \E W \in SUBSET Linked :
        /\ began[p] \in W \cup {pkt[p].cur}
        /\ \A z \in W : pkt[p].kind \notin rule[z].hits /\ next[z] \in W \cup {pkt[p].cur}

\* What p has seen accounts for where its hook stands.
PktKnows(p) ==
    LET e == pkt[p] IN
    /\ On(began[p]) /\ On(e.cur)
    /\ e.pc \in {"idle", "head", "match", "log", "hit", "hitstore", "verdict", "done"}
    /\ e.pc = "idle" => seen[p] = {}
    /\ e.pc = "head" => began[p] = head[ChainOf(e.hook)]
    /\ e.pc = "match" => IF e.cur = Null THEN cf.DefaultAction \in seen[p] ELSE Passed(p)
    /\ e.pc = "verdict" /\ ~e.found => cf.DefaultAction \in seen[p]
    /\ e.pc \in {"log", "hit", "hitstore", "verdict"} /\ e.found => rule[e.cur].action \in seen[p]
    /\ e.pc = "done" /\ seen[p] # {} => e.verdict \in seen[p]

LinInv == AddInv /\ GrowInv /\ \A p \in Pkt : PktKnows(p)

-----------------------------------------------------------------------------
(* The verdicts of a chain, read off its rules one by one.                 *)

\* The rules on the chains are finitely many, and not more than there are cells.
LEMMA LinkedFinite ==
    /\ IsFiniteSet(Linked) /\ Cardinality(Linked) \in Nat
    /\ Cardinality(Linked) <= N
<1>1. Linked \in SUBSET Cell  BY DEF Linked
<1> QED  BY <1>1, CellAssumption, FS_Subset, FS_CardinalityType DEF N

\* Without a store to come, a rule is followed by the one it points to.
LEMMA AfterIsNext ==
    ASSUME \A a \in Admin : adm[a].pc # "relink", NEW x PROVE After(x) = next[x]
<1>1. {a \in Admin : adm[a].pc = "relink" /\ adm[a].r = x /\ adm[a].cur # Null} = {}  OBVIOUS
<1> QED  BY <1>1 DEF After

\* Turns enough to reach the end of the chain are as good as more.
LEMMA SettledSame ==
    ASSUME Reads, OnChains, \A a \in Admin : adm[a].pc # "relink", NEW g, RankedBy(g),
           NEW x \in Linked \cup {Null}, NEW n \in 0..N, NEW m \in 0..N, g[x] <= n, g[x] <= m
    PROVE  Settled[n][x] = Settled[m][x]
<1> DEFINE Differ(v, y, i, j) == g[y] = v /\ v <= i /\ v <= j /\ Settled[i][y] # Settled[j][y]
           Bad == {v \in Nat : \E y \in Linked \cup {Null}, i, j \in 0..N : Differ(v, y, i, j)}
<1>1. Linked \subseteq Cell /\ Null \notin Cell  BY NullAssumption DEF Linked
<1>2. \A y \in Linked \cup {Null} : g[y] \in Nat
  BY <1>1, LinkedFinite DEF RankedBy, Ptr
<1>3. ASSUME Bad # {} PROVE FALSE
  <2>1. \E b \in Bad : \A y \in Bad : ~(<<y, b>> \in OpToRel(<, Nat))
    BY <1>3, NatLessThanWellFounded, WFMin
  <2>2. PICK b \in Bad : \A y \in Bad : ~(<<y, b>> \in OpToRel(<, Nat))  BY <2>1
  <2>3. PICK y \in Linked \cup {Null}, i \in 0..N, j \in 0..N : Differ(b, y, i, j)  BY <2>2
  <2>4. Settled[i] = Turn(Settled, i) /\ Settled[j] = Turn(Settled, j)  BY SettledTyped DEF SettledTo
  <2>5. y \in Ptr /\ i \in Nat /\ j \in Nat /\ N \in Nat  BY <1>1, CellsFinite DEF Ptr
  <2>6. CASE y = Null  BY <2>3, <2>4, <2>5, <2>6 DEF Turn
  <2>7. CASE y # Null
    <3>1. y \in Linked /\ After(y) = next[y]  BY <2>7, AfterIsNext
    <3>2. 1 <= g[y] /\ g[next[y]] < g[y] /\ next[y] \in Linked \cup {Null}
      BY <3>1 DEF RankedBy, OnChains, On
    <3>3. g[next[y]] \in Nat /\ b \in Nat /\ g[y] = b /\ b <= i /\ b <= j  BY <1>2, <2>3, <3>2
    <3>4. g[next[y]] \notin Bad  BY <2>2, <3>2, <3>3 DEF OpToRel
    <3>5. i - 1 \in 0..N /\ j - 1 \in 0..N /\ g[next[y]] <= i - 1 /\ g[next[y]] <= j - 1
          /\ i # 0 /\ j # 0
      BY <2>5, <3>2, <3>3
    <3>6. Settled[i - 1][next[y]] = Settled[j - 1][next[y]]  BY <3>2, <3>3, <3>4, <3>5
    <3>7. Turn(Settled, i)[y] = <<rule[y]>> \o Settled[i - 1][After(y)]
      BY <2>5, <2>7, <3>5 DEF Turn
    <3>8. Turn(Settled, j)[y] = <<rule[y]>> \o Settled[j - 1][After(y)]
      BY <2>5, <2>7, <3>5 DEF Turn
    <3>9. /\ Settled[i][y] = <<rule[y]>> \o Settled[i - 1][next[y]]
          /\ Settled[j][y] = <<rule[y]>> \o Settled[j - 1][next[y]]
      BY <2>4, <3>1, <3>7, <3>8
    <3> QED  BY <2>3, <3>6, <3>9
  <2> QED  BY <2>6, <2>7
<1>4. g[x] \in Nat  BY <1>2
<1> QED  BY <1>3, <1>4

\* So a chain's rules are its first and those of the rest.
LEMMA SettledUnfolds ==
    ASSUME Reads, GrowInv, NEW x \in Linked
    PROVE  Settled[N][x] = <<rule[x]>> \o Settled[N][next[x]]
<1>1. PICK g : RankedBy(g)  BY DEF GrowInv, Ranked
<1>2. OnChains /\ \A a \in Admin : adm[a].pc # "relink"  BY DEF GrowInv, CommandOK
<1>3. x \in Cell /\ x \in Ptr /\ x # Null  BY NullAssumption DEF Linked, Ptr
<1>4. next[x] \in Linked \cup {Null} /\ next[x] \in Ptr  BY <1>2 DEF OnChains, On, Linked, Ptr
<1>5. g[x] \in 0..Cardinality(Linked) /\ g[next[x]] \in 0..Cardinality(Linked) /\ 1 <= g[x]
      /\ g[next[x]] < g[x]
  BY <1>1, <1>3, <1>4 DEF RankedBy
<1>6. N \in 0..N /\ N - 1 \in 0..N /\ g[next[x]] <= N - 1 /\ g[next[x]] <= N /\ N # 0
  BY <1>5, LinkedFinite, CellsFinite
<1>7. Settled[N] = Turn(Settled, N)  BY <1>6, SettledTyped DEF SettledTo
<1>8. Settled[N][x] = <<rule[x]>> \o Settled[N - 1][After(x)]  BY <1>3, <1>6, <1>7 DEF Turn
<1>9. After(x) = next[x]  BY <1>2, AfterIsNext
<1>10. Settled[N - 1][next[x]] = Settled[N][next[x]]  BY <1>1, <1>2, <1>4, <1>6, SettledSame
<1> QED  BY <1>8, <1>9, <1>10

\* The least of a set of numbers is its minimum.
LEMMA MinIs ==
    ASSUME NEW S, S \subseteq Nat, NEW x \in S, \A y \in S : x <= y PROVE Min(S) = x
<1>1. Min(S) \in S  BY MinIn
<1>2. \A y \in S : Min(S) <= y
  <2> DEFINE P(z) == z \in S /\ \A y \in S : z <= y
  <2>1. P(x)  OBVIOUS
  <2>2. Min(S) = CHOOSE z \in S : \A y \in S : z <= y  BY DEF Min
  <2> QED  BY <2>1, <2>2
<1>3. x \in Nat /\ Min(S) \in Nat /\ x <= Min(S) /\ Min(S) <= x  BY <1>1, <1>2
<1> QED  BY <1>3

\* The first rule of s that matches k decides.
Matching(s, k) == {i \in 1..Len(s) : k \in s[i].hits}
Decides(s, k) == IF Matching(s, k) = {} THEN cf.DefaultAction ELSE s[Min(Matching(s, k))].action

\* So the first rule decides if it matches, and the rest of them if it does not.
LEMMA DecidesFirst ==
    ASSUME NEW r, NEW t \in Seq(Rules), r \in Rules, NEW k
    PROVE  /\ k \in r.hits => Decides(<<r>> \o t, k) = r.action
           /\ k \notin r.hits => Decides(<<r>> \o t, k) = Decides(t, k)
<1> DEFINE s == <<r>> \o t
<1>1. /\ s \in Seq(Rules) /\ Len(s) = Len(t) + 1 /\ s[1] = r
      /\ \A i \in 1..Len(t) : s[i + 1] = t[i]
  <2>1. <<r>> \in Seq(Rules) /\ Len(<<r>>) = 1 /\ <<r>>[1] = r  OBVIOUS
  <2>2. s \in Seq(Rules) /\ Len(s) = Len(<<r>>) + Len(t)  BY <2>1, ConcatProperties
  <2>3. \A i \in 1..(Len(<<r>>) + Len(t)) :
          s[i] = IF i <= Len(<<r>>) THEN <<r>>[i] ELSE t[i - Len(<<r>>)]
    BY <2>1, ConcatProperties
  <2>4. Len(t) \in Nat  BY LenProperties
  <2> QED  BY <2>1, <2>2, <2>3, <2>4
<1> HIDE DEF s
<1>2. Len(t) \in Nat  BY LenProperties
<1>3. ASSUME k \in r.hits PROVE Decides(s, k) = r.action
  <2>1. Matching(s, k) \subseteq Nat /\ 1 \in Matching(s, k)
    BY <1>1, <1>2, <1>3 DEF Matching
  <2>2. \A y \in Matching(s, k) : 1 <= y  BY DEF Matching
  <2>3. Min(Matching(s, k)) = 1  BY <2>1, <2>2, MinIs
  <2> QED  BY <1>1, <2>1, <2>3 DEF Decides
<1>4. ASSUME k \notin r.hits PROVE Decides(s, k) = Decides(t, k)
  <2>1. \A i \in 1..Len(t) : i \in Matching(t, k) <=> i + 1 \in Matching(s, k)
    BY <1>1, <1>2 DEF Matching
  <2>2. \A i \in Matching(s, k) : i - 1 \in 1..Len(t) /\ i - 1 \in Matching(t, k) /\ i \in Nat
    <3> SUFFICES ASSUME NEW i \in Matching(s, k)
                 PROVE  i - 1 \in 1..Len(t) /\ i - 1 \in Matching(t, k) /\ i \in Nat
      OBVIOUS
    <3>1. i \in 1..Len(s) /\ k \in s[i].hits  BY DEF Matching
    <3>2. i # 1  BY <1>1, <1>4, <3>1
    <3>3. i - 1 \in 1..Len(t) /\ (i - 1) + 1 = i  BY <1>1, <1>2, <3>1, <3>2
    <3> QED  BY <2>1, <3>1, <3>3
  <2>3. CASE Matching(t, k) = {}
    <3>1. Matching(s, k) = {}  BY <2>2, <2>3
    <3> QED  BY <2>3, <3>1 DEF Decides
  <2>4. CASE Matching(t, k) # {}
    <3> DEFINE m == Min(Matching(t, k))
    <3>1. Matching(t, k) \subseteq Nat /\ Matching(t, k) \subseteq 1..Len(t)  BY <1>2 DEF Matching
    <3>2. m \in Matching(t, k)  BY <2>4, <3>1, MinIn
    <3>3. \A y \in Matching(t, k) : m <= y
      <4> DEFINE P(z) == z \in Matching(t, k) /\ \A y \in Matching(t, k) : z <= y
      <4>1. \E z \in Matching(t, k) : \A y \in Matching(t, k) : ~(<<y, z>> \in OpToRel(<, Nat))
        BY <2>4, <3>1, NatLessThanWellFounded, WFMin
      <4>2. PICK z \in Matching(t, k) : \A y \in Matching(t, k) : ~(<<y, z>> \in OpToRel(<, Nat))
        BY <4>1
      <4>3. \A y \in Matching(t, k) : z <= y
        <5> SUFFICES ASSUME NEW y \in Matching(t, k), y < z PROVE FALSE  BY <3>1
        <5> QED  BY <3>1, <4>2 DEF OpToRel
      <4>4. m = z  BY <3>1, <4>3, MinIs
      <4> QED  BY <4>3, <4>4
    <3> HIDE DEF m
    <3>4. m \in 1..Len(t) /\ m + 1 \in Matching(s, k)  BY <2>1, <3>1, <3>2
    <3>5. Matching(s, k) \subseteq Nat  BY <2>2
    <3>6. \A y \in Matching(s, k) : m + 1 <= y
      <4> SUFFICES ASSUME NEW y \in Matching(s, k) PROVE m + 1 <= y  OBVIOUS
      <4>1. y \in Nat /\ m \in Nat /\ m <= y - 1  BY <2>2, <3>3, <3>4
      <4> QED  BY <4>1
    <3>7. Min(Matching(s, k)) = m + 1  BY <3>4, <3>5, <3>6, MinIs
    <3>8. s[m + 1] = t[m]  BY <1>1, <3>4
    <3> QED  BY <2>4, <3>4, <3>7, <3>8 DEF Decides, m
  <2> QED  BY <2>3, <2>4
<1> QED  BY <1>3, <1>4 DEF s

\* The verdict of a chain: its first rule's if that matches, else the rest's; the default
\* action at the end.
LEMMA VerdictUnfolds ==
    ASSUME Reads, GrowInv, NEW k
    PROVE  /\ Verdict(Null, k) = cf.DefaultAction
           /\ \A x \in Linked : k \in rule[x].hits => Verdict(x, k) = rule[x].action
           /\ \A x \in Linked : k \notin rule[x].hits => Verdict(x, k) = Verdict(next[x], k)
<1>1. \A x : Verdict(x, k) = Decides(Settled[N][x], k)  BY DEF Verdict, Decides, Matching, N
<1>2. Settled[N] \in [Ptr -> Seq(Rules)] /\ Settled[N] = Turn(Settled, N)
  BY SettledTyped, CellsFinite DEF SettledTo
<1>3. Verdict(Null, k) = cf.DefaultAction
  <2>1. Settled[N][Null] = <<>>  BY <1>2 DEF Turn, Ptr
  <2>2. Matching(<<>>, k) = {}  BY DEF Matching
  <2> QED  BY <1>1, <2>1, <2>2 DEF Decides
<1>4. ASSUME NEW x \in Linked
      PROVE  /\ k \in rule[x].hits => Verdict(x, k) = rule[x].action
             /\ k \notin rule[x].hits => Verdict(x, k) = Verdict(next[x], k)
  <2>1. x \in Cell /\ rule[x] \in Rules  BY DEF Linked, Reads
  <2>2. next[x] \in Ptr  BY <2>1 DEF Reads
  <2>3. Settled[N][next[x]] \in Seq(Rules)  BY <1>2, <2>2
  <2>4. Settled[N][x] = <<rule[x]>> \o Settled[N][next[x]]  BY SettledUnfolds
  <2> DEFINE t == Settled[N][next[x]]
  <2>5. /\ k \in rule[x].hits => Decides(<<rule[x]>> \o t, k) = rule[x].action
        /\ k \notin rule[x].hits => Decides(<<rule[x]>> \o t, k) = Decides(t, k)
    <3> HIDE DEF t
    <3> QED  BY <2>1, <2>3, DecidesFirst DEF t
  <2>6. Decides(<<rule[x]>> \o t, k) = Verdict(x, k)  BY <1>1, <2>4, Zenon
  <2>7. Decides(t, k) = Verdict(next[x], k)  BY <1>1, Zenon
  <2> QED  BY <2>5, <2>6, <2>7
<1> QED  BY <1>3, <1>4

\* p has seen what its chain says now.
Sees(p) == Verdict(began[p], pkt[p].kind) \in seen[p]

\* What that is once its hook has passed the rules before the one it stands at.
Learns(p) ==
    Passed(p) /\ Sees(p) =>
        /\ pkt[p].cur = Null => cf.DefaultAction \in seen[p]
        /\ pkt[p].cur \in Linked /\ pkt[p].kind \in rule[pkt[p].cur].hits
             => rule[pkt[p].cur].action \in seen[p]

Learning == \A p \in Pkt : On(pkt[p].cur) => Learns(p)

\* The rules a hook has passed do not matter to the verdict.
LEMMA PassedLearns == Reads /\ GrowInv => Learning
<1> SUFFICES ASSUME Reads, GrowInv, NEW p \in Pkt, On(pkt[p].cur), Passed(p), Sees(p)
             PROVE  /\ pkt[p].cur = Null => cf.DefaultAction \in seen[p]
                    /\ pkt[p].cur \in Linked /\ pkt[p].kind \in rule[pkt[p].cur].hits
                         => rule[pkt[p].cur].action \in seen[p]
  BY DEF Learns, Learning
<1> DEFINE k == pkt[p].kind
           y == pkt[p].cur
           b == began[p]
<1>1. PICK W \in SUBSET Linked :
        /\ b \in W \cup {y}
        /\ \A z \in W : k \notin rule[z].hits /\ next[z] \in W \cup {y}
  BY DEF Passed
<1>2. PICK g : RankedBy(g)  BY DEF GrowInv, Ranked
<1> HIDE DEF k, y, b
<1>3. W \subseteq Cell /\ y \in Ptr  BY DEF On, Linked, Ptr, y
<1>4. \A z \in Ptr : g[z] \in Nat  BY <1>2, LinkedFinite DEF RankedBy
<1>5. \A z \in W : Verdict(z, k) = Verdict(y, k)
  <2> DEFINE Bad == {v \in Nat : \E z \in W : g[z] = v /\ Verdict(z, k) # Verdict(y, k)}
  <2>1. ASSUME Bad # {} PROVE FALSE
    <3>1. \E v \in Bad : \A u \in Bad : ~(<<u, v>> \in OpToRel(<, Nat))
      BY <2>1, NatLessThanWellFounded, WFMin
    <3>2. PICK v \in Bad : \A u \in Bad : ~(<<u, v>> \in OpToRel(<, Nat))  BY <3>1
    <3>3. PICK z \in W : g[z] = v /\ Verdict(z, k) # Verdict(y, k)  BY <3>2
    <3>4. z \in Linked /\ Verdict(z, k) = Verdict(next[z], k)  BY <1>1, <3>3, VerdictUnfolds
    <3>5. next[z] \in W /\ Verdict(next[z], k) # Verdict(y, k)  BY <1>1, <3>3, <3>4
    <3>6. g[next[z]] < g[z] /\ g[next[z]] \in Nat /\ v \in Nat
      BY <1>2, <1>3, <1>4, <3>4, <3>5 DEF RankedBy, Ptr
    <3>7. g[next[z]] \in Bad  BY <3>5, <3>6
    <3> QED  BY <3>2, <3>3, <3>6, <3>7 DEF OpToRel
  <2>2. \A z \in W : g[z] \in Nat  BY <1>3, <1>4 DEF Ptr
  <2> QED  BY <2>1, <2>2
<1>6. Verdict(b, k) = Verdict(y, k) /\ Verdict(b, k) \in seen[p]
  BY <1>1, <1>5 DEF Sees, b, k
<1>7. Verdict(Null, k) = cf.DefaultAction
      /\ \A x \in Linked : k \in rule[x].hits => Verdict(x, k) = rule[x].action
  BY VerdictUnfolds
<1>8. y = Null => cf.DefaultAction \in seen[p]  BY <1>6, <1>7
<1>9. y \in Linked /\ k \in rule[y].hits => rule[y].action \in seen[p]  BY <1>6, <1>7
<1> QED  BY <1>8, <1>9 DEF y, k

-----------------------------------------------------------------------------
(* The commands keep the chains.                                           *)

\* What a step of a command leaves of the chains: every rule on them, and what is
\* behind it unless that was nothing.
Extends ==
    /\ Linked \subseteq Linked'
    /\ \A x \in Linked : rule'[x] = rule[x] /\ (next[x] = Null \/ next'[x] = next[x])

\* A step that touches no rule on a chain keeps the rank.
LEMMA RankStays ==
    ASSUME Ranked, Linked' = Linked, \A x \in Linked : next'[x] = next[x] PROVE Ranked'
<1>1. PICK g : RankedBy(g)  BY DEF Ranked
<1>2. RankedBy(g)'  BY <1>1 DEF RankedBy
<1>3. g \in [Ptr -> 0..Cardinality(Linked')]  BY <1>2 DEF RankedBy
<1> QED  BY <1>2, <1>3 DEF Ranked

\* A rule that joins, with a chain behind it or nothing, gets the highest rank.
LEMMA RankJoins ==
    ASSUME Ranked, OnChains, NEW r \in Cell \ Linked, Linked' = Linked \cup {r},
           \A x \in Linked : next'[x] = next[x], next'[r] \in Linked \cup {Null}
    PROVE  Ranked'
<1>1. PICK g : RankedBy(g)  BY DEF Ranked
<1>n. PICK n : n = Cardinality(Linked)  OBVIOUS
<1>h. PICK h : h = [x \in Ptr |-> IF x = r THEN n + 1 ELSE g[x]]  OBVIOUS
<1>2. n \in Nat /\ Cardinality(Linked') = n + 1  BY <1>n, LinkedFinite, FS_AddElement
<1>3. \A x \in Ptr : g[x] \in 0..n  BY <1>1, <1>n DEF RankedBy
<1>4. Linked \subseteq Cell /\ r # Null /\ r \notin Linked /\ Null \in Ptr /\ Cell \subseteq Ptr
  BY NullAssumption DEF Linked, Ptr
<1>5. h \in [Ptr -> 0..(n + 1)] /\ h[Null] = 0
  BY <1>1, <1>2, <1>3, <1>4, <1>h DEF RankedBy
<1>6. ASSUME NEW x \in Linked' PROVE 1 <= h[x] /\ h[next'[x]] < h[x]
  <2>1. CASE x = r
    <3>1. next'[r] \in Ptr /\ next'[r] # r  BY <1>4
    <3>2. h[r] = n + 1 /\ h[next'[r]] = g[next'[r]]  BY <1>4, <1>h, <3>1
    <3> QED  BY <1>2, <1>3, <2>1, <3>1, <3>2
  <2>2. CASE x # r
    <3>1. x \in Linked /\ next'[x] = next[x] /\ next[x] \in Linked \cup {Null}
      BY <2>2 DEF OnChains, On
    <3>2. h[x] = g[x] /\ h[next[x]] = g[next[x]]  BY <1>4, <1>h, <3>1
    <3> QED  BY <1>1, <3>1, <3>2 DEF RankedBy
  <2> QED  BY <2>1, <2>2
<1>7. RankedBy(h)'  BY <1>2, <1>5, <1>6 DEF RankedBy
<1>8. h \in [Ptr -> 0..Cardinality(Linked')]  BY <1>2, <1>5
<1> QED  BY <1>7, <1>8 DEF Ranked

\* A rule linked behind the last one of a chain gets the lowest, and all others
\* rise by one.
LEMMA RankTail ==
    ASSUME Ranked, OnChains, NEW r \in Cell \ Linked, Linked' = Linked \cup {r}, next'[r] = Null,
           NEW q \in Linked, next'[q] = r, \A x \in Linked \ {q} : next'[x] = next[x]
    PROVE  Ranked'
<1>1. PICK g : RankedBy(g)  BY DEF Ranked
<1>n. PICK n : n = Cardinality(Linked)  OBVIOUS
<1>h. PICK h : h = [x \in Ptr |-> IF x = Null THEN 0 ELSE IF x = r THEN 1
                                   ELSE IF x \in Linked THEN g[x] + 1 ELSE 0]
  OBVIOUS
<1>2. n \in Nat /\ Cardinality(Linked') = n + 1  BY <1>n, LinkedFinite, FS_AddElement
<1>3. \A x \in Ptr : g[x] \in 0..n  BY <1>1, <1>n DEF RankedBy
<1>4. Linked \subseteq Cell /\ r # Null /\ r \notin Linked /\ Null \in Ptr /\ Cell \subseteq Ptr
      /\ Null \notin Linked
  BY NullAssumption DEF Linked, Ptr
<1>5. h[Null] = 0 /\ h[r] = 1 /\ \A x \in Linked : h[x] = g[x] + 1
  BY <1>4, <1>h
<1>6. h \in [Ptr -> 0..(n + 1)]
  <2>1. ASSUME NEW x \in Ptr PROVE (IF x = Null THEN 0 ELSE IF x = r THEN 1
                               ELSE IF x \in Linked THEN g[x] + 1 ELSE 0) \in 0..(n + 1)
    BY <1>2, <1>3
  <2> QED  BY <1>h, <2>1
<1>7. ASSUME NEW x \in Linked' PROVE 1 <= h[x] /\ h[next'[x]] < h[x]
  <2>1. CASE x = r  BY <1>5, <2>1
  <2>2. CASE x = q
    <3>1. 1 <= g[q] /\ g[q] \in 0..n  BY <1>1, <1>3, <1>4 DEF RankedBy
    <3>2. h[x] = g[q] + 1 /\ h[next'[x]] = 1  BY <1>5, <2>2
    <3> QED  BY <1>2, <3>1, <3>2
  <2>3. CASE x # r /\ x # q
    <3>1. x \in Linked /\ next'[x] = next[x] /\ next[x] \in Linked \cup {Null}
      BY <2>3 DEF OnChains, On
    <3>2. 1 <= g[x] /\ g[next[x]] < g[x]  BY <1>1, <3>1 DEF RankedBy
    <3>3. g[x] \in 0..n /\ g[next[x]] \in 0..n  BY <1>3, <1>4, <3>1
    <3>4. h[x] = g[x] + 1 /\ h[next[x]] \in {0, g[next[x]] + 1}  BY <1>5, <3>1
    <3> QED  BY <1>2, <3>1, <3>2, <3>3, <3>4
  <2> QED  BY <2>1, <2>2, <2>3
<1>8. RankedBy(h)'  BY <1>2, <1>5, <1>6, <1>7 DEF RankedBy
<1>9. h \in [Ptr -> 0..Cardinality(Linked')]  BY <1>2, <1>6
<1> QED  BY <1>8, <1>9 DEF Ranked

\* A step that changes no rule on a chain.
LEMMA GrowStays ==
    ASSUME GrowInv, NEW a \in Admin, \A b \in Admin : b = a, Linked' = Linked, head' = head,
           \A x \in Linked : rule'[x] = rule[x] /\ next'[x] = next[x], CommandOK(a)'
    PROVE  GrowInv' /\ Extends
<1>1. Ranked'  BY RankStays DEF GrowInv
<1>2. OnChains'  BY DEF GrowInv, OnChains, On
<1>3. Extends  BY DEF Extends
<1>4. \A b \in Admin : CommandOK(b)'  OBVIOUS
<1> QED  BY <1>1, <1>2, <1>3, <1>4 DEF GrowInv

\* A step that puts a rule in front of a chain, or gives it up.
LEMMA GrowJoins ==
    ASSUME GrowInv, NEW a \in Admin, \A b \in Admin : b = a, NEW r \in Cell \ Linked,
           Linked' = Linked \cup {r}, \A c \in Chain : head'[c] \in {head[c], r},
           rule' = rule, next' = next, next[r] \in Linked \cup {Null}, CommandOK(a)'
    PROVE  GrowInv' /\ Extends
<1>1. Ranked'  BY RankJoins DEF GrowInv
<1>2. OnChains'  BY DEF GrowInv, OnChains, On
<1>3. Extends  BY DEF Extends
<1>4. \A b \in Admin : CommandOK(b)'  OBVIOUS
<1> QED  BY <1>1, <1>2, <1>3, <1>4 DEF GrowInv

\* A step that puts a rule behind the last one of a chain.
LEMMA GrowTail ==
    ASSUME GrowInv, NEW a \in Admin, \A b \in Admin : b = a, NEW r \in Cell \ Linked,
           Linked' = Linked \cup {r}, head' = head, rule' = rule, next'[r] = Null,
           NEW q \in Linked, next[q] = Null, next'[q] = r,
           \A x \in Linked \ {q} : next'[x] = next[x], CommandOK(a)'
    PROVE  GrowInv' /\ Extends
<1>1. Ranked'  BY RankTail DEF GrowInv
<1>2. OnChains'  BY DEF GrowInv, OnChains, On
<1>3. Extends  BY DEF Extends
<1>4. \A b \in Admin : CommandOK(b)'  OBVIOUS
<1> QED  BY <1>1, <1>2, <1>3, <1>4 DEF GrowInv

\* A command's step adds its rule at one end of a chain, or moves towards it.
LEMMA CommandGrows ==
    ASSUME AtTheEnds, AddInv, CellsHeld', AdminsHeld', GrowInv, NEW a \in Admin, AdminStep(a)
    PROVE  GrowInv' /\ Extends
<1> DEFINE f == adm[a]
           g == adm'[a]
<1>1. \A b \in Admin : b = a  BY DEF AtTheEnds
<1>2. /\ adm \in [Admin -> AdmRecord] /\ f \in AdmRecord
      /\ f.pc # "idle" => f.o \in Opts /\ f.r \in Cell /\ live[f.r]
      /\ f.n \in Nat /\ f.i \in Int /\ Budget \in Nat
      /\ live \in [Cell -> BOOLEAN] /\ next \in [Cell -> Ptr] /\ head \in [Chain -> Ptr]
      /\ number \in [Chain -> Int]
  BY NullAssumption, BudgetAssumption DEF AddInv, AdminsHeld, CellsHeld, AdmRecord, Held
<1>3. ASSUME f.pc # "idle"
      PROVE  Cmd(a) \in {"APPEND", "INSERT"} /\ Chn(a) \in Chain
  <2>1. f.o \in [cmd: {"APPEND", "INSERT"}, rule: Rules, number: Int]
    BY <1>2, <1>3 DEF AtTheEnds, Additions
  <2> QED  BY <2>1 DEF Cmd, Chn, Rules
<1>4. CommandOK(a) /\ OnChains  BY DEF GrowInv
<1>5. Linked = {x \in Cell : live[x] /\ (f.pc \in FreshPcs => f.r # x)}
  BY <1>1 DEF Linked, Fresh
<1>6. Linked' = {x \in Cell : live'[x] /\ (g.pc \in FreshPcs => g.r # x)}
  BY <1>1 DEF Linked, Fresh
<1>7. ASSUME UNCHANGED <<cells, tables, adm>> PROVE GrowInv' /\ Extends
  <2>1. live' = live /\ rule' = rule /\ next' = next /\ head' = head /\ number' = number /\ adm' = adm
    BY <1>7 DEF cells, tables
  <2>2. Linked' = Linked  BY <2>1 DEF Linked, Fresh
  <2>3. CommandOK(a)'  BY <1>4, <2>1, <2>2 DEF CommandOK, On, Fresh, Chn
  <2> QED  BY <1>1, <2>1, <2>2, <2>3, GrowStays
<1>8. ASSUME Goto(a, "count") \/ Done(a) PROVE g.n = f.n /\ g.pc \in {"idle", "count"}
  <2>1. CASE Goto(a, "count")  BY <1>2, <2>1 DEF Goto, AdmRecord
  <2>2. CASE Done(a)
    <3>1. adm' = [adm EXCEPT ![a] = NoCommand(f.n)]  BY <2>2 DEF Done
    <3>2. g = NoCommand(f.n)  BY <1>2, <3>1
    <3>3. NoCommand(f.n).n = f.n /\ NoCommand(f.n).pc = "idle"  BY DEF NoCommand
    <3> QED  BY <3>2, <3>3
  <2> QED  BY <1>8, <2>1, <2>2
<1>9. ASSUME f.pc \in FreshPcs, g.pc \notin FreshPcs, live' = live
      PROVE  f.r \in Cell \ Linked /\ Linked' = Linked \cup {f.r}
  <2>1. f.r \in Cell /\ live[f.r]  BY <1>2, <1>9 DEF FreshPcs
  <2> QED  BY <1>5, <1>6, <1>9, <2>1
<1>10. ASSUME NEW o \in Opts, NLDoAction(a, o) PROVE GrowInv' /\ Extends
  <2>1. CASE (\A x \in Cell : live[x]) /\ Oops  BY <1>7, <2>1 DEF Oops
  <2>2. CASE ~((\A x \in Cell : live[x]) /\ Oops)
    <3>1. o \in [cmd: {"APPEND", "INSERT"}, rule: Rules, number: Int] /\ o.rule.chain \in Chain
          /\ (o.cmd = "INSERT" => o.number \in {1, -1} \/ o.number > Budget)
      BY DEF AtTheEnds, Additions, Rules
    <3>2. f.pc = "idle" /\ f.n < Budget  BY <1>10 DEF NLDoAction, At
    <3> DEFINE cur == IF Started(o)[1] = "walk" THEN head[o.rule.chain] ELSE Null
    <3>3. PICK r \in {x \in Cell : ~live[x]} :
             /\ live' = [live EXCEPT ![r] = TRUE]
             /\ rule' = [rule EXCEPT ![r] = o.rule]
             /\ next' = [next EXCEPT ![r] = Null]
             /\ g.pc = Started(o)[1] /\ g.how = Started(o)[2] /\ g.r = r /\ g.o = o
             /\ g.prev = Null /\ g.cur = cur /\ g.n = f.n + 1
             /\ UNCHANGED tables
      BY <1>2, <1>10, <2>2 DEF NLDoAction
    <3> HIDE DEF cur
    <3>4. /\ r \in Cell /\ ~live[r] /\ live'[r] /\ next'[r] = Null
          /\ \A x \in Cell \ {r} : live'[x] = live[x] /\ rule'[x] = rule[x] /\ next'[x] = next[x]
      BY <1>2, <3>3 DEF AddInv, CellsHeld
    <3>5. head' = head /\ number' = number  BY <3>3 DEF tables
    <3>6. number[o.rule.chain] \in Int /\ number[o.rule.chain] <= f.n
      BY <1>2, <1>4, <3>1, <3>2 DEF CommandOK
    <3>7. \/ g.pc = "test" /\ g.how = "tail"
          \/ g.pc = "behead"
          \/ g.pc = "walk" /\ g.how = "tail" /\ g.cur = head[o.rule.chain]
          \/ g.pc = "lost"
      <4>1. CASE o.cmd = "APPEND"  BY <3>3, <4>1 DEF Started
      <4>2. CASE o.cmd = "INSERT"
        <5>1. o.number > Budget => o.number > number[o.rule.chain]
          BY <1>2, <3>1, <3>2, <3>6
        <5>2. CASE o.number = 1
          <6>1. Started(o)[1] = "behead"  BY <4>2, <5>2 DEF Started
          <6> QED  BY <3>3, <6>1
        <5>3. CASE o.number # 1 /\ o.number > number[o.rule.chain]
          <6>1. Started(o) = <<"walk", "tail">>  BY <4>2, <5>3 DEF Started
          <6> QED  BY <3>3, <6>1 DEF cur
        <5>4. CASE o.number = -1 /\ ~(o.number > number[o.rule.chain])
          <6>1. Started(o)[1] = "lost"  BY <4>2, <5>4 DEF Started
          <6> QED  BY <3>3, <6>1
        <5> QED  BY <3>1, <4>2, <5>1, <5>2, <5>3, <5>4
      <4> QED  BY <3>1, <4>1, <4>2
    <3>8. g.pc \in FreshPcs \ {"sethead", "link"}  BY <3>7 DEF FreshPcs
    <3>9. r \notin Linked /\ Linked' = Linked
      BY <1>5, <1>6, <3>2, <3>3, <3>4, <3>8 DEF FreshPcs
    <3>10. On(head[o.rule.chain])'  BY <1>4, <3>1, <3>5, <3>9 DEF OnChains, On
    <3>11. CommandOK(a)'
      <4>1. \A c \in Chain : number'[c] \in Int /\ number'[c] <= g.n - 1
        BY <1>2, <1>4, <3>2, <3>3, <3>5 DEF CommandOK
      <4>2. g.n <= Budget  BY <1>2, <3>2, <3>3
      <4>3. g.pc # "idle" /\ g.pc # "relink" /\ g.pc # "store" /\ g.pc # "link" /\ g.pc # "sethead"
        BY <3>8 DEF FreshPcs
      <4>4. g.pc \in {"test", "walk", "link"} => g.how = "tail"  BY <3>7
      <4>5. g.pc = "walk" => On(adm[a].prev)' /\ On(adm[a].cur)'
        BY <3>3, <3>5, <3>7, <3>10 DEF On
      <4> QED  BY <3>3, <3>4, <4>1, <4>2, <4>3, <4>4, <4>5 DEF CommandOK
    <3>12. \A x \in Linked : rule'[x] = rule[x] /\ next'[x] = next[x]  BY <1>5, <3>4, <3>9
    <3> QED  BY <1>1, <3>5, <3>9, <3>11, <3>12, GrowStays
  <2> QED  BY <2>1, <2>2
<1>11. CASE Lose(a)
  <2>1. f.pc = "lost" /\ UNCHANGED <<cells, tables>> /\ adm' = [adm EXCEPT ![a] = NoCommand(f.n)]
    BY <1>11 DEF Lose, At, Done
  <2>2. live' = live /\ rule' = rule /\ next' = next /\ head' = head /\ number' = number
    BY <2>1 DEF cells, tables
  <2>3. g.pc = "idle" /\ g.n = f.n  BY <1>2, <2>1 DEF NoCommand
  <2>4. f.r \in Cell \ Linked /\ Linked' = Linked \cup {f.r}
    BY <1>9, <2>1, <2>2, <2>3 DEF FreshPcs
  <2>5. next[f.r] = Null  BY <1>4, <2>1 DEF CommandOK, Fresh, FreshPcs
  <2>6. CommandOK(a)'  BY <1>2, <1>4, <2>1, <2>2, <2>3 DEF CommandOK, Fresh, FreshPcs
  <2> QED  BY <1>1, <2>2, <2>4, <2>5, <2>6, GrowJoins
<1>12. CASE TestHead(a)
  <2>1. f.pc = "test" /\ UNCHANGED <<cells, tables>>  BY <1>12 DEF TestHead, At
  <2>2. live' = live /\ rule' = rule /\ next' = next /\ head' = head /\ number' = number
    BY <2>1 DEF cells, tables
  <2>3. Chn(a) \in Chain /\ On(head[Chn(a)])  BY <1>3, <1>4, <2>1 DEF OnChains
  <2>4. /\ f.how = "tail" /\ f.prev = Null /\ next[f.r] = Null
        /\ \A c \in Chain : number[c] <= f.n - 1
    BY <1>4, <2>1 DEF CommandOK, Fresh, FreshPcs
  <2>5. /\ g.r = f.r /\ g.o = f.o /\ g.how = f.how /\ g.prev = f.prev /\ g.n = f.n /\ g.i = f.i
        /\ \/ g.pc = "sethead" /\ head[Chn(a)] = Null
           \/ g.pc = "walk" /\ g.cur = head[Chn(a)]
    <3>1. CASE head[Chn(a)] = Null /\ Goto(a, "sethead")
      BY <1>2, <3>1 DEF Goto, AdmRecord
    <3>2. CASE adm' = [adm EXCEPT ![a].pc = "walk", ![a].cur = head[Chn(a)]]
      BY <1>2, <3>2 DEF AdmRecord
    <3> QED  BY <1>12, <3>1, <3>2 DEF TestHead
  <2>6. Linked' = Linked  BY <1>5, <1>6, <2>1, <2>2, <2>5 DEF FreshPcs
  <2>7. Chn(a)' = Chn(a)  BY <2>5 DEF Chn
  <2>8. CommandOK(a)'
    BY <1>2, <1>4, <2>2, <2>3, <2>4, <2>5, <2>6, <2>7 DEF CommandOK, On, Fresh, FreshPcs
  <2> QED  BY <1>1, <2>2, <2>6, <2>8, GrowStays
<1>13. CASE Behead(a)
  <2>1. f.pc = "behead" /\ UNCHANGED <<live, rule, tables>> /\ Goto(a, "sethead")
        /\ next' = [next EXCEPT ![f.r] = head[Chn(a)]]
    BY <1>13 DEF Behead, At
  <2>2. head' = head /\ number' = number  BY <2>1 DEF tables
  <2>3. g.r = f.r /\ g.o = f.o /\ g.n = f.n /\ g.i = f.i /\ g.pc = "sethead"
    BY <1>2, <2>1 DEF Goto, AdmRecord
  <2>4. Linked' = Linked  BY <1>5, <1>6, <2>1, <2>3 DEF FreshPcs
  <2>5. f.r \in Cell /\ next'[f.r] = head[Chn(a)] /\ \A x \in Linked : next'[x] = next[x]
    BY <1>2, <1>5, <2>1 DEF FreshPcs
  <2>6. Chn(a)' = Chn(a)  BY <2>3 DEF Chn
  <2>7. CommandOK(a)'
    BY <1>2, <1>4, <2>1, <2>2, <2>3, <2>5, <2>6 DEF CommandOK, Fresh, FreshPcs
  <2> QED  BY <1>1, <2>1, <2>2, <2>4, <2>5, <2>7, GrowStays
<1>14. CASE SetHead(a)
  <2>1. f.pc = "sethead" /\ UNCHANGED <<cells, number>> /\ head' = [head EXCEPT ![Chn(a)] = f.r]
    BY <1>14 DEF SetHead, At
  <2>2. live' = live /\ rule' = rule /\ next' = next /\ number' = number  BY <2>1 DEF cells
  <2>3. g.n = f.n /\ g.pc \in {"idle", "count"}
    BY <1>8, <1>14 DEF SetHead
  <2>4. f.r \in Cell \ Linked /\ Linked' = Linked \cup {f.r}
    BY <1>9, <2>1, <2>2, <2>3 DEF FreshPcs
  <2>5. Chn(a) \in Chain /\ next[f.r] = head[Chn(a)] /\ On(head[Chn(a)])
    BY <1>3, <1>4, <2>1 DEF CommandOK, OnChains, Fresh, FreshPcs
  <2>6. next[f.r] \in Linked \cup {Null}  BY <2>5 DEF On
  <2>7. \A c \in Chain : head'[c] \in {head[c], f.r}  BY <1>2, <2>1
  <2>8. CommandOK(a)'
    BY <1>2, <1>4, <2>1, <2>2, <2>3 DEF CommandOK, Fresh, FreshPcs
  <2> QED  BY <1>1, <2>2, <2>4, <2>6, <2>7, <2>8, GrowJoins
<1>15. CASE WalkOn(a)
  <2>1. f.pc = "walk" /\ UNCHANGED <<cells, tables>>  BY <1>15 DEF WalkOn, At
  <2>2. live' = live /\ rule' = rule /\ next' = next /\ head' = head /\ number' = number
    BY <2>1 DEF cells, tables
  <2>3. /\ f.how = "tail" /\ On(f.prev) /\ On(f.cur) /\ (f.prev # Null => next[f.prev] = f.cur)
        /\ next[f.r] = Null /\ \A c \in Chain : number[c] <= f.n - 1
    BY <1>4, <2>1 DEF CommandOK, Fresh, FreshPcs
  <2>4. ~Reached(a)  BY <2>3 DEF Reached
  <2>5. /\ g.r = f.r /\ g.o = f.o /\ g.how = f.how /\ g.n = f.n
        /\ \/ g.pc = "walk" /\ f.cur # Null /\ g.prev = f.cur /\ g.cur = next[f.cur]
           \/ g.pc = "link" /\ f.cur = Null /\ g.prev = f.prev /\ g.cur = f.cur
    <3>1. CASE f.cur # Null /\ adm' = [adm EXCEPT ![a].prev = adm[a].cur, ![a].cur = next[adm[a].cur],
                                                  ![a].i = @ + 1]
      BY <1>2, <2>1, <3>1 DEF AdmRecord
    <3>2. CASE f.cur = Null /\ Goto(a, "link")  BY <1>2, <3>2 DEF Goto, AdmRecord
    <3> QED  BY <1>15, <2>4, <3>1, <3>2 DEF WalkOn
  <2>6. Linked' = Linked  BY <1>5, <1>6, <2>1, <2>2, <2>5 DEF FreshPcs
  <2>7. f.cur # Null => On(next[f.cur])  BY <1>4, <2>3 DEF On, OnChains
  <2>8. CommandOK(a)'
    BY <1>2, <1>4, <2>2, <2>3, <2>5, <2>6, <2>7 DEF CommandOK, On, Fresh, FreshPcs
  <2> QED  BY <1>1, <2>2, <2>6, <2>8, GrowStays
<1>16. CASE LinkBehind(a)
  <2>1. CASE Oops  BY <1>7, <2>1 DEF Oops
  <2>2. CASE ~Oops
    <3>1. f.pc = "link" /\ f.prev # Null /\ UNCHANGED <<live, rule, number>> /\ PointPrev(a, f.r)
      BY <1>16, <2>2 DEF LinkBehind, At
    <3>2. next' = [next EXCEPT ![f.prev] = f.r] /\ head' = head  BY <3>1 DEF PointPrev
    <3>3. /\ f.how = "tail" /\ f.prev \in Linked /\ next[f.prev] = Null /\ next[f.r] = Null
          /\ \A c \in Chain : number[c] <= f.n - 1
      BY <1>4, <3>1 DEF CommandOK, On, Fresh, FreshPcs
    <3>4. g.n = f.n /\ g.pc \in {"idle", "count"}
      BY <1>8, <1>16, <2>2, <3>3 DEF LinkBehind
    <3>5. f.r \in Cell \ Linked /\ Linked' = Linked \cup {f.r}
      BY <1>9, <3>1, <3>4 DEF FreshPcs
    <3>6. next'[f.r] = Null /\ next'[f.prev] = f.r /\ \A x \in Linked \ {f.prev} : next'[x] = next[x]
      BY <1>2, <1>5, <3>2, <3>3, <3>5
    <3>7. CommandOK(a)'
      BY <1>2, <1>4, <3>1, <3>3, <3>4 DEF CommandOK, Fresh, FreshPcs
    <3>8. rule' = rule  BY <3>1
    <3> QED  BY <1>1, <3>2, <3>3, <3>5, <3>6, <3>7, <3>8, GrowTail
  <2> QED  BY <2>1, <2>2
<1>17. CASE CountLoad(a) \/ CountStore(a)
  <2>1. f.pc \in {"count", "store"} /\ UNCHANGED <<cells, head>>
    BY <1>17 DEF CountLoad, CountStore, At, tables
  <2>2. live' = live /\ rule' = rule /\ next' = next /\ head' = head  BY <2>1 DEF cells
  <2>3. \A c \in Chain : number[c] <= f.n - 1  BY <1>4, <2>1 DEF CommandOK
  <2>4. CASE CountLoad(a)
    <3>1. number' = number /\ adm' = [adm EXCEPT ![a].pc = "store", ![a].i = number[Chn(a)]]
      BY <2>4 DEF CountLoad, tables
    <3>2. g.pc = "store" /\ g.i = number[Chn(a)] /\ g.n = f.n  BY <1>2, <3>1 DEF AdmRecord
    <3>3. CommandOK(a)'
      BY <1>2, <1>3, <1>4, <2>1, <2>3, <3>1, <3>2 DEF CommandOK, Fresh, FreshPcs
    <3>4. Linked' = Linked  BY <1>5, <1>6, <2>1, <2>2, <3>2 DEF FreshPcs
    <3> QED  BY <1>1, <2>2, <3>3, <3>4, GrowStays
  <2>5. CASE CountStore(a)
    <3>1. Cmd(a) # "DELETE" /\ f.pc = "store"  BY <1>3, <2>1, <2>5 DEF CountStore, At
    <3>2. number' = [number EXCEPT ![Chn(a)] = f.i + 1] /\ Done(a)  BY <2>5, <3>1 DEF CountStore
    <3>3. g.pc = "idle" /\ g.n = f.n  BY <1>2, <3>2 DEF Done, NoCommand
    <3>4. f.i <= f.n - 1  BY <1>4, <3>1 DEF CommandOK
    <3>5. \A c \in Chain : number'[c] <= g.n
      <4> SUFFICES ASSUME NEW c \in Chain PROVE number'[c] <= f.n  BY <3>3
      <4>1. number'[c] \in {number[c], f.i + 1} /\ number[c] \in Int  BY <1>2, <3>2
      <4> QED  BY <1>2, <2>3, <3>4, <4>1
    <3>6. CommandOK(a)'  BY <1>4, <3>3, <3>5 DEF CommandOK, Fresh, FreshPcs
    <3>7. Linked' = Linked  BY <1>5, <1>6, <2>1, <2>2, <3>3 DEF FreshPcs
    <3> QED  BY <1>1, <2>2, <3>6, <3>7, GrowStays
  <2> QED  BY <1>17, <2>4, <2>5
<1>18. CASE Exit(a) \/ Unhook(a) \/ LinkInstead(a) \/ UnlinkCur(a) \/ Relink(a) \/ FreeCur(a)
            \/ DropRule(a) \/ FlushHead(a) \/ FlushWalk(a) \/ FlushClear(a)
  <2>1. f.pc \in AddPcs \ {"relink"}  BY <1>2, <1>4 DEF AdmRecord, CommandOK
  <2> QED  BY <1>3, <1>18, <2>1
        DEF AtTheEnds, Additions, Exit, Unhook, LinkInstead, UnlinkCur, Relink, FreeCur, DropRule,
            FlushHead, FlushWalk, FlushClear, At, AddPcs
<1> QED
  BY <1>10, <1>11, <1>12, <1>13, <1>14, <1>15, <1>16, <1>17, <1>18 DEF AdminStep, Relinking

-----------------------------------------------------------------------------
(* The packets.                                                            *)

\* While its hook runs, p has seen what its chain says after the step.
LEMMA ObserveSees == ASSUME Observe, NEW p \in Pkt, p \in Filtering' PROVE Sees(p)'
<1>1. seen'[p] = IF p \notin Filtering' THEN seen[p]
        ELSE (IF p \in Filtering THEN seen[p] ELSE {}) \cup {Verdict(began[p], pkt[p].kind)'}
  BY DEF Observe
<1>2. Verdict(began[p], pkt[p].kind)' \in seen'[p]  BY <1>1
<1> QED  BY <1>2 DEF Sees

\* And it forgets nothing it has seen.
LEMMA ObserveKeeps ==
    ASSUME Observe, NEW p \in Pkt, p \in Filtering \/ p \notin Filtering' PROVE seen[p] \subseteq seen'[p]
BY DEF Observe

\* The pointers after the step, from those before.
LEMMA OnStays == ASSUME Linked \subseteq Linked', NEW x, On(x) PROVE On(x)'
BY DEF On

\* What a packet that does not move knows stays true while the chains grow, and so what a
\* chain says of it.
LEMMA KnowsOn ==
    ASSUME AddInv, Extends, OnChains', Observe, cf'.DefaultAction = cf.DefaultAction,
           NEW p \in Pkt, PktKnows(p), pkt'[p] = pkt[p], pkt'[p].hook \in Hook
    PROVE  PktKnows(p)'
<1> DEFINE e == pkt[p]
<1>1. Linked \subseteq Linked' /\ Linked \subseteq Cell /\ Null \notin Linked
  BY NullAssumption DEF Extends, Linked
<1>2. seen[p] \subseteq seen'[p] /\ (e.pc \notin {"head", "match", "log", "hit", "hitstore", "verdict"}
        => seen'[p] = seen[p])
  BY DEF Observe, Filtering
<1>3. On(began[p])'
  <2>1. began'[p] = IF e.pc = "head" THEN head'[ChainOf(e.hook)] ELSE began[p]  BY DEF Observe
  <2>2. ChainOf(e.hook) \in Chain  BY DEF ChainOf, Chain
  <2>3. On(head[ChainOf(e.hook)])'
    <3>1. \A c \in Chain : On(head[c])'  BY DEF OnChains
    <3> QED  BY <2>2, <3>1 DEF On
  <2> QED  BY <1>1, <2>1, <2>3 DEF On, PktKnows
<1>4. On(e.cur)'  BY <1>1 DEF On, PktKnows
<1>5. e.pc = "head" => began'[p] = head'[ChainOf(e.hook)]  BY DEF Observe
<1>6. e.pc = "match" => IF e.cur = Null THEN cf'.DefaultAction \in seen'[p] ELSE Passed(p)'
  <2> SUFFICES ASSUME e.pc = "match", e.cur # Null PROVE Passed(p)'  BY <1>2 DEF PktKnows
  <2>1. PICK W \in SUBSET Linked :
          /\ began[p] \in W \cup {e.cur}
          /\ \A z \in W : e.kind \notin rule[z].hits /\ next[z] \in W \cup {e.cur}
    BY DEF PktKnows, Passed
  <2>2. began'[p] = began[p]  BY DEF Observe
  <2>3. \A z \in W : rule'[z] = rule[z] /\ next'[z] = next[z]
    <3> SUFFICES ASSUME NEW z \in W PROVE rule'[z] = rule[z] /\ next'[z] = next[z]  OBVIOUS
    <3>1. next[z] # Null  BY <1>1, <2>1
    <3> QED  BY <3>1 DEF Extends
  <2>4. W \in SUBSET Linked'  BY <1>1
  <2> QED  BY <2>1, <2>2, <2>3, <2>4 DEF Passed
<1>7. e.pc \in {"log", "hit", "hitstore", "verdict"} /\ e.found => rule'[e.cur].action \in seen'[p]
  <2> SUFFICES ASSUME e.pc \in {"log", "hit", "hitstore", "verdict"}, e.found
               PROVE  rule'[e.cur].action \in seen'[p]
    OBVIOUS
  <2>1. e.cur \in Linked  BY DEF PktKnows, On, AddInv, PktsHeld, PktHeld
  <2> QED  BY <1>2, <2>1 DEF PktKnows, Extends
<1>8. /\ e.pc \in {"idle", "head", "match", "log", "hit", "hitstore", "verdict", "done"}
      /\ e.pc = "idle" => seen'[p] = {}
      /\ e.pc = "verdict" /\ ~e.found => cf'.DefaultAction \in seen'[p]
      /\ e.pc = "done" /\ seen'[p] # {} => e.verdict \in seen'[p]
  BY <1>2 DEF PktKnows
<1> QED  BY <1>3, <1>4, <1>5, <1>6, <1>7, <1>8 DEF PktKnows

\* And after the step.
LEMMA LearningNext == Reads' /\ GrowInv' => Learning'
BY PassedLearns, PTL

\* What a hook that stands at a rule has learned, after the step.
LEMMA LearnsNext ==
    ASSUME Reads', GrowInv', NEW p \in Pkt, On(pkt[p].cur)', Passed(p)', Sees(p)'
    PROVE  /\ pkt'[p].cur = Null => cf'.DefaultAction \in seen'[p]
           /\ pkt'[p].cur \in Linked' /\ pkt'[p].kind \in rule'[pkt'[p].cur].hits
                => rule'[pkt'[p].cur].action \in seen'[p]
<1>1. On(pkt[p].cur)' => Learns(p)'  BY LearningNext DEF Learning
<1> QED  BY <1>1 DEF Learns

\* A hook's step leaves the chains as they are.
LEMMA HookExtends ==
    ASSUME GrowInv, UNCHANGED <<cells, tables, adm>> PROVE GrowInv' /\ Extends /\ Linked' = Linked
<1>1. live' = live /\ rule' = rule /\ next' = next /\ head' = head /\ number' = number /\ adm' = adm
  BY DEF cells, tables
<1>2. Linked' = Linked  BY <1>1 DEF Linked, Fresh
<1>3. Ranked'  BY <1>1, <1>2, RankStays DEF GrowInv
<1>4. OnChains'  BY <1>1, <1>2 DEF GrowInv, OnChains, On
<1>5. \A a \in Admin : CommandOK(a)'
  BY <1>1, <1>2 DEF GrowInv, CommandOK, On, Fresh, Chn
<1>6. Extends  BY <1>1, <1>2 DEF Extends
<1> QED  BY <1>2, <1>3, <1>4, <1>5, <1>6 DEF GrowInv

\* A hook follows what its packet's chain says: it passes rules that do not match, and
\* what it decides by is what it has seen.
LEMMA HookKnows ==
    ASSUME AddInv, AddInv', GrowInv, NEW p \in Pkt, PktKnows(p), HookRuns(p)
    PROVE  PktKnows(p)'
<1> DEFINE e == pkt[p]
           h == pkt'[p]
<1>1. /\ DOMAIN pkt = Pkt /\ DOMAIN e = PktFields /\ e.found \in BOOLEAN /\ e.hook \in Hook
      /\ ChainOf(e.hook) \in Chain /\ PktHeld(p)
  BY DEF AddInv, HitInv, PktShape, PktsHeld, PktHeld, ChainOf, Chain
<1>2. HookStep(p) /\ Observe  BY DEF HookRuns
<1>3. GrowInv' /\ Linked' = Linked  BY HookExtends DEF HookRuns
<1>4. rule' = rule /\ next' = next /\ head' = head  BY DEF HookRuns, cells, tables
<1>5. cf'.DefaultAction = cf.DefaultAction
  <2>1. cf' = cf \/ cf' = [cf EXCEPT !.HitNumber = pkt[p].hit + 1]
    BY <1>2 DEF HookStep, HookHead, IsMatch, LogAppend, HitLoad, HitStore, HookVerdict
  <2>2. cf \in [Invalid: BOOLEAN, LogPause: BOOLEAN, DefaultAction: 0..1, HitNumber: Nat]
    BY DEF AddInv, HitInv, CfShape
  <2> QED  BY <2>1, <2>2
<1>6. e.pc \in {"head", "match", "log", "hit", "hitstore", "verdict"}
  BY <1>2 DEF HookStep, HookHead, IsMatch, LogAppend, HitLoad, HitStore, HookVerdict, In
<1>7. p \in Filtering  BY <1>6 DEF Filtering
<1>8. seen[p] \subseteq seen'[p]  BY <1>2, <1>7, ObserveKeeps
<1>9. Reads'  BY DEF AddInv, Reads, HitInv, CfShape, CellsHeld, AdminsHeld, AdmRecord
<1>10. h.pc # "head" => began'[p] = began[p]  BY <1>2 DEF Observe
<1>11. h.pc # "head" => On(began[p])'  BY <1>3, <1>10 DEF On, PktKnows
\* Where it has come to, and what it has learned there.
<1>12. ASSUME h.pc \in {"match", "log", "verdict"}, Passed(p)', On(pkt[p].cur)'
       PROVE  /\ h.cur = Null => cf'.DefaultAction \in seen'[p]
              /\ h.cur \in Linked' /\ h.kind \in rule'[h.cur].hits => rule'[h.cur].action \in seen'[p]
  <2>1. p \in Filtering'  BY <1>12 DEF Filtering
  <2>2. Sees(p)'  BY <1>2, <2>1, ObserveSees
  <2> QED  BY <1>3, <1>9, <1>12, <2>2, LearnsNext
<1>13. CASE HookHead(p)
  <2>1. e.pc = "head" /\ pkt' = [pkt EXCEPT ![p].pc = "match", ![p].cur = head[ChainOf(e.hook)]]
    BY <1>13 DEF HookHead, In
  <2>2. h.pc = "match" /\ h.cur = head[ChainOf(e.hook)] /\ h.found = e.found
    BY <1>1, <2>1 DEF PktFields
  <2>3. began'[p] = h.cur  BY <1>10, <2>1, <2>2 DEF PktKnows
  <2>4. On(pkt[p].cur)'  BY <1>1, <1>3, <2>2 DEF GrowInv, OnChains, On
  <2>5. Passed(p)'
    <3>1. {} \in SUBSET Linked' /\ began'[p] \in {} \cup {h.cur}  BY <2>3
    <3> QED  BY <3>1 DEF Passed
  <2>6. h.cur = Null => cf'.DefaultAction \in seen'[p]  BY <1>12, <2>2, <2>4, <2>5
  <2> QED  BY <1>11, <2>2, <2>4, <2>5, <2>6 DEF PktKnows
<1>14. CASE IsMatch(p)
  <2>1. e.pc = "match" /\ ~e.found /\ On(e.cur)
    BY <1>1, <1>14 DEF IsMatch, In, PktHeld, PktKnows
  <2>2. CASE e.cur = Null
    <3>1. pkt' = [pkt EXCEPT ![p].pc = "verdict"]  BY <1>14, <2>2 DEF IsMatch
    <3>2. h.pc = "verdict" /\ h.cur = Null /\ ~h.found  BY <1>1, <2>1, <2>2, <3>1 DEF PktFields
    <3>3. cf'.DefaultAction \in seen'[p]  BY <1>5, <1>8, <2>1, <2>2 DEF PktKnows
    <3>4. On(pkt[p].cur)'  BY <3>2 DEF On
    <3> QED  BY <1>11, <3>2, <3>3, <3>4 DEF PktKnows
  <2>3. CASE e.cur # Null
    <3>1. PICK W \in SUBSET Linked :
            /\ began[p] \in W \cup {e.cur}
            /\ \A z \in W : e.kind \notin rule[z].hits /\ next[z] \in W \cup {e.cur}
      BY <2>1, <2>3 DEF PktKnows, Passed
    <3>2. e.cur \in Linked  BY <2>1, <2>3 DEF On
    <3>3. CASE e.kind \in rule[e.cur].hits
      <4>1. pkt' = [pkt EXCEPT ![p].pc = "log", ![p].found = TRUE]  BY <1>14, <2>3, <3>3 DEF IsMatch
      <4>2. h.pc = "log" /\ h.cur = e.cur /\ h.kind = e.kind /\ h.found = TRUE
        BY <1>1, <4>1 DEF PktFields
      <4>3. On(pkt[p].cur)'  BY <1>3, <3>2, <4>2 DEF On
      <4>4. Passed(p)'
        <5>1. W \in SUBSET Linked' /\ began'[p] \in W \cup {h.cur}  BY <1>3, <1>10, <3>1, <4>2
        <5>2. \A z \in W : h.kind \notin rule'[z].hits /\ next'[z] \in W \cup {h.cur}
          BY <1>4, <3>1, <4>2
        <5> QED  BY <5>1, <5>2 DEF Passed
      <4>5. rule'[h.cur].action \in seen'[p]  BY <1>3, <1>4, <1>12, <3>2, <3>3, <4>2, <4>3, <4>4
      <4> QED  BY <1>11, <4>2, <4>3, <4>5 DEF PktKnows
    <3>4. CASE e.kind \notin rule[e.cur].hits
      <4>1. pkt' = [pkt EXCEPT ![p].cur = next[e.cur]]  BY <1>14, <2>3, <3>4 DEF IsMatch
      <4>2. h.pc = "match" /\ h.cur = next[e.cur] /\ h.kind = e.kind
        BY <1>1, <2>1, <4>1 DEF PktFields
      <4>3. On(pkt[p].cur)'  BY <1>3, <3>2, <4>2 DEF On, GrowInv, OnChains
      <4>4. Passed(p)'
        <5> DEFINE V == W \cup {e.cur}
        <5>1. V \in SUBSET Linked' /\ began'[p] \in V \cup {h.cur}  BY <1>3, <1>10, <3>1, <3>2, <4>2
        <5>2. \A z \in V : h.kind \notin rule'[z].hits /\ next'[z] \in V \cup {h.cur}
          BY <1>4, <3>1, <3>4, <4>2
        <5>3. PICK U : U = V  OBVIOUS
        <5> QED  BY <5>1, <5>2, <5>3 DEF Passed
      <4>5. h.cur = Null => cf'.DefaultAction \in seen'[p]  BY <1>12, <4>2, <4>3, <4>4
      <4> QED  BY <1>11, <4>2, <4>3, <4>4, <4>5 DEF PktKnows
    <3> QED  BY <3>3, <3>4
  <2> QED  BY <2>2, <2>3
<1>15. CASE LogAppend(p) \/ HitLoad(p) \/ HitStore(p)
  <2>1. /\ h.pc \in {"hit", "hitstore", "verdict"} /\ h.cur = e.cur /\ h.found = e.found
        /\ e.pc \in {"log", "hit", "hitstore"}
    BY <1>1, <1>15 DEF LogAppend, HitLoad, HitStore, In, PktFields
  <2>2. e.found /\ rule[e.cur].action \in seen[p]
    BY <2>1 DEF AddInv, HitInv, OnlyHitsCount, PktKnows
  <2>3. On(pkt[p].cur)'  BY <1>3, <2>1 DEF PktKnows, On
  <2>4. rule'[h.cur].action \in seen'[p] /\ h.found  BY <1>4, <1>8, <2>1, <2>2
  <2> QED  BY <1>11, <2>1, <2>3, <2>4 DEF PktKnows
<1>16. CASE HookVerdict(p)
  <2>1. PICK v : /\ v = IF e.found THEN rule[e.cur].action ELSE cf.DefaultAction
                 /\ pkt' = [pkt EXCEPT ![p].pc = "done", ![p].verdict = v]
    BY <1>16 DEF HookVerdict, Leave
  <2>2. h.pc = "done" /\ h.cur = e.cur /\ h.verdict = v  BY <1>1, <2>1 DEF PktFields
  <2>3. e.pc = "verdict"  BY <1>16 DEF HookVerdict, In
  <2>4. v \in seen[p]  BY <1>1, <2>1, <2>3 DEF PktKnows
  <2>5. On(pkt[p].cur)'  BY <1>3, <2>2 DEF PktKnows, On
  <2> QED  BY <1>8, <1>11, <2>2, <2>4, <2>5 DEF PktKnows
<1> QED  BY <1>2, <1>13, <1>14, <1>15, <1>16 DEF HookStep

\* A packet that enters a hook has seen nothing before.
LEMMA EntryKnows ==
    ASSUME AddInv, AddInv', GrowInv, NEW p \in Pkt, PktKnows(p), PktEnters(p)
    PROVE  PktKnows(p)'
<1>1. PICK h \in Hook, k \in Kind : HookEnter(p, h, k)  BY DEF PktEnters
<1> DEFINE e == [pkt[p] EXCEPT !.hook = h, !.kind = k]
<1>2. DOMAIN pkt = Pkt /\ DOMAIN pkt[p] = PktFields  BY DEF AddInv, HitInv, PktShape
<1>3. pkt[p].pc = "idle" /\ ~pkt[p].found  BY <1>1 DEF HookEnter, In, AddInv, PktsHeld, PktHeld
<1>4. PICK r \in {[e EXCEPT !.pc = "done", !.verdict = STOLEN], [e EXCEPT !.pc = "done"],
                  [e EXCEPT !.pc = "head"]} : pkt' = [pkt EXCEPT ![p] = r]
  BY <1>1 DEF HookEnter
<1>5. r.cur = pkt[p].cur /\ r.hook = h /\ r.pc \in {"head", "done"} /\ pkt'[p] = r
  BY <1>2, <1>4 DEF PktFields
<1>6. Linked' = Linked /\ head' = head  BY HookExtends DEF PktEnters, tables
<1>7. seen[p] = {} /\ On(began[p]) /\ On(pkt[p].cur)  BY <1>3 DEF PktKnows
<1>8. Observe  BY DEF PktEnters
<1>9. CASE r.pc = "head"
  <2>1. began'[p] = head[ChainOf(h)]  BY <1>5, <1>6, <1>8, <1>9 DEF Observe
  <2>2. On(head[ChainOf(h)])
    <3>1. ChainOf(h) \in Chain  BY DEF ChainOf, Chain
    <3> QED  BY <3>1 DEF GrowInv, OnChains
  <2> QED  BY <1>5, <1>6, <1>7, <1>9, <2>1, <2>2 DEF PktKnows, On
<1>10. CASE r.pc = "done"
  <2>1. p \notin Filtering'  BY <1>5, <1>10 DEF Filtering
  <2>2. seen'[p] = {} /\ began'[p] = began[p]  BY <1>5, <1>7, <1>8, <1>10, <2>1 DEF Observe
  <2> QED  BY <1>5, <1>6, <1>7, <1>10, <2>2 DEF PktKnows, On
<1> QED  BY <1>5, <1>9, <1>10

\* The inductive invariant holds at first: no rule, no packet.
LEMMA LinInit == AtTheEnds => (Init => LinInv)
<1> SUFFICES ASSUME Init PROVE LinInv  OBVIOUS
<1>1. AddInv  BY AddInit
<1>2. /\ live = [x \in Cell |-> FALSE] /\ head = [c \in Chain |-> Null]
      /\ number = [c \in Chain |-> 0] /\ adm = [a \in Admin |-> NoCommand(0)]
      /\ pkt = [p \in Pkt |-> NoPkt] /\ began = [p \in Pkt |-> Null] /\ seen = [p \in Pkt |-> {}]
  BY DEF Init
<1>3. Linked = {}  BY <1>2 DEF Linked
<1>4. OnChains  BY <1>2, <1>3 DEF OnChains, On
<1>5. \A a \in Admin : CommandOK(a)
  <2>1. NoCommand(0).pc = "idle" /\ NoCommand(0).n = 0  BY DEF NoCommand
  <2> QED  BY <1>2, <2>1, BudgetAssumption DEF CommandOK, Fresh, FreshPcs
<1>6. Ranked
  <2> DEFINE g == [x \in Ptr |-> 0]
  <2>1. Cardinality(Linked) = 0  BY <1>3, FS_EmptySet
  <2>2. g \in [Ptr -> 0..Cardinality(Linked)] /\ g[Null] = 0  BY <2>1 DEF Ptr
  <2> HIDE DEF g
  <2>3. RankedBy(g)  BY <1>3, <2>2 DEF RankedBy
  <2> QED  BY <2>2, <2>3 DEF Ranked
<1>7. \A p \in Pkt : PktKnows(p)
  <2>1. NoPkt.pc = "idle" /\ NoPkt.cur = Null  BY DEF NoPkt
  <2> QED  BY <1>2, <2>1 DEF PktKnows, On
<1> QED  BY <1>1, <1>4, <1>5, <1>6, <1>7 DEF LinInv, GrowInv

\* And it is kept: a command's step extends the chains under the packets, a hook's step
\* learns from them.
LEMMA LinNext == AtTheEnds /\ LinInv /\ [Next]_vars => LinInv'
<1> SUFFICES ASSUME AtTheEnds, LinInv, [Next]_vars PROVE LinInv'  OBVIOUS
<1>1. AddInv /\ GrowInv /\ \A p \in Pkt : PktKnows(p)  BY DEF LinInv
<1>2. AddInv'  BY <1>1, AddNext DEF AtTheEnds
<1>3. CellsHeld' /\ AdminsHeld' /\ \A p \in Pkt : pkt'[p].hook \in Hook
  BY <1>2 DEF AddInv, PktsHeld, PktHeld
<1>4. cf \in [Invalid: BOOLEAN, LogPause: BOOLEAN, DefaultAction: 0..1, HitNumber: Nat]
  BY <1>1 DEF AddInv, HitInv, CfShape
<1>5. ASSUME NEW a \in Admin, AdminStep(a) PROVE LinInv'
  <2>1. GrowInv' /\ Extends  BY <1>1, <1>3, <1>5, CommandGrows
  <2>2. cf' = cf /\ pkt' = pkt /\ Observe /\ OnChains'  BY <1>5, <2>1 DEF AdminStep, GrowInv
  <2>3. ASSUME NEW p \in Pkt PROVE PktKnows(p)'
    BY <1>1, <1>3, <2>1, <2>2, KnowsOn
  <2> QED  BY <1>2, <2>1, <2>3 DEF LinInv
<1>6. ASSUME UNCHANGED <<cells, tables, adm>>, Observe, cf'.DefaultAction = cf.DefaultAction,
             NEW Q, \A p \in Pkt \ Q : pkt'[p] = pkt[p], \A p \in Pkt \cap Q : PktKnows(p)'
      PROVE  LinInv'
  <2>1. GrowInv' /\ Extends  BY <1>1, <1>6, HookExtends
  <2>2. OnChains'  BY <2>1 DEF GrowInv
  <2>3. ASSUME NEW p \in Pkt PROVE PktKnows(p)'
    <3>1. CASE p \in Q  BY <1>6, <3>1
    <3>2. CASE p \notin Q
      <4>1. pkt'[p] = pkt[p]  BY <1>6, <3>2
      <4> QED  BY <1>1, <1>3, <1>6, <2>1, <2>2, <4>1, KnowsOn
    <3> QED  BY <3>1, <3>2
  <2> QED  BY <1>2, <2>1, <2>3 DEF LinInv
<1>7. ASSUME NEW p \in Pkt, HookRuns(p) PROVE LinInv'
  <2>1. PktKnows(p)'  BY <1>1, <1>2, <1>7, HookKnows
  <2>2. cf' = cf \/ cf' = [cf EXCEPT !.HitNumber = pkt[p].hit + 1]
    BY <1>7 DEF HookRuns, HookStep, HookHead, IsMatch, LogAppend, HitLoad, HitStore, HookVerdict
  <2>3. cf'.DefaultAction = cf.DefaultAction  BY <1>4, <2>2
  <2>4. DOMAIN pkt = Pkt  BY <1>1 DEF AddInv, HitInv, PktShape
  <2>5. \A q \in Pkt \ {p} : pkt'[q] = pkt[q]
    BY <1>7, <2>4 DEF HookRuns, HookStep, HookHead, IsMatch, LogAppend, HitLoad, HitStore,
                      HookVerdict, Leave
  <2>6. \A q \in Pkt \cap {p} : PktKnows(q)'  BY <2>1
  <2> QED  BY <1>6, <1>7, <2>3, <2>5, <2>6 DEF HookRuns
<1>8. ASSUME NEW p \in Pkt, PktEnters(p) PROVE LinInv'
  <2>1. PktKnows(p)'  BY <1>1, <1>2, <1>8, EntryKnows
  <2>2. DOMAIN pkt = Pkt  BY <1>1 DEF AddInv, HitInv, PktShape
  <2>3. cf' = cf /\ \A q \in Pkt \ {p} : pkt'[q] = pkt[q]  BY <1>8, <2>2 DEF PktEnters, HookEnter
  <2>4. \A q \in Pkt \cap {p} : PktKnows(q)'  BY <2>1
  <2> QED  BY <1>6, <1>8, <2>3, <2>4 DEF PktEnters
<1>9. ASSUME Proc PROVE LinInv'
  <2>1. PICK k \in Knobs : ProcWrite(k)  BY <1>9 DEF Proc
  <2>2. k \in {"Invalid", "LogPause"}  BY KnobsAssumption DEF AtTheEnds
  <2>3. pkt' = pkt /\ cf' = [cf EXCEPT ![k] = ~@]  BY <2>1, <2>2 DEF ProcWrite
  <2>4. cf'.DefaultAction = cf.DefaultAction  BY <1>4, <2>2, <2>3
  <2>5. (\A p \in Pkt \ {} : pkt'[p] = pkt[p]) /\ \A p \in Pkt \cap {} : PktKnows(p)'
    BY <2>3
  <2> QED  BY <1>6, <1>9, <2>4, <2>5 DEF Proc
<1>10. CASE UNCHANGED vars
  <2>1. UNCHANGED <<live, rule, next, head, number, cf, adm, pkt, began, seen>>
    BY <1>10 DEF vars, cells, tables
  <2>2. GrowInv' /\ Linked' = Linked  BY <1>1, <2>1, HookExtends DEF cells, tables
  <2>3. \A p \in Pkt : PktKnows(p)'
    BY <1>1, <2>1, <2>2 DEF PktKnows, Passed, On
  <2> QED  BY <1>2, <2>2, <2>3 DEF LinInv
<1> QED  BY <1>5, <1>7, <1>8, <1>9, <1>10 DEF Next

\* One administrator who puts rules in front of the chains and behind them, store by store,
\* while any number of packets walk (sipfw_k_nl.c, SIPFW_IsMatch): every packet gets a verdict
\* that the rules from the first its hook saw gave at some moment of its walk, as if it had
\* been filtered in one step between two of the administrator's commands.
THEOREM WalksAreLinear == ASSUME AtTheEnds PROVE Spec => []LinearVerdict
<1>1. LinInv /\ [Next]_vars => LinInv'  BY LinNext
<1>2. Init => LinInv  BY LinInit
<1>3. LinInv => LinearVerdict  BY DEF LinInv, PktKnows, LinearVerdict
<1> QED  BY <1>1, <1>2, <1>3, PTL DEF Spec

=============================================================================
