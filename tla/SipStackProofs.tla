--------------------------- MODULE SipStackProofs ---------------------------
(***************************************************************************)
(* The ARP table of the user-space stack, for every number of addresses,   *)
(* hardware addresses and slots, and every live time, whoever claims the   *)
(* address of the stack itself: it is a map, it says of an address what    *)
(* was last told of it, and it keeps what is alive.                        *)
(***************************************************************************)
EXTENDS SipStack, FiniteSetTheorems, NaturalsInduction, WellFoundedInduction, TLAPS

-----------------------------------------------------------------------------
(* The table t, the history h and the clock apart from the state: arp_input *)
(* changes the table twice in one call.                                     *)

Entry == [ip: Peer \cup {NoPeer}, hw: Hardware \cup {NoHardware},
          ctime: 0..MaxClock, status: {"EMPTY", "ESTABLISHED"}]
Table == [Slot -> Entry]
Heard == [Peer -> Hardware \cup {NoHardware}]
Est(t) == {i \in Slot : t[i].status = "ESTABLISHED"}

\* A map to what was last heard.
Good(t, h) ==
    /\ \A i \in Est(t) : t[i].ip \in Peer /\ t[i].hw = h[t[i].ip]
    /\ \A i, j \in Est(t) : t[i].ip = t[j].ip => i = j

\* A peer that was heard has an entry, unless the table is full.
Full(t, h) ==
    \A p \in Peer : h[p] # NoHardware => Est(t) = Slot \/ \E i \in Est(t) : t[i].ip = p

\* With a clock that only goes on no entry is of a later time: so none expires.
Fresh(t) == \A i \in Slot : t[i].ctime <= clock

\* u has what t has, except what is outdated.
Keeps(t, u) == \A i \in Est(t) : Outdated(t[i]) \/ (Holds(u[i], t[i].ip) /\ ~Outdated(u[i]))

ArpInv ==
    /\ SipTypeOK
    /\ Good(arp, heard)
    /\ ~setBack => Full(arp, heard) /\ Fresh(arp)

-----------------------------------------------------------------------------
(* What the functions of the table do.                                     *)

\* The least element of a set of numbers.
LEMMA LeastIs ==
    ASSUME NEW S, S \subseteq Nat, S # {} PROVE Min(S) \in S /\ \A y \in S : Min(S) <= y
<1>1. PICK x \in S : \A y \in S : ~(<<y, x>> \in OpToRel(<, Nat))
  BY NatLessThanWellFounded, WFMin
<1>2. ASSUME NEW y \in S PROVE x <= y
  <2>1. x \in Nat /\ y \in Nat  OBVIOUS
  <2>2. SUFFICES ASSUME y < x PROVE FALSE  BY <2>1
  <2>3. <<y, x>> \in OpToRel(<, Nat)  BY <2>1, <2>2 DEF OpToRel
  <2> QED  BY <1>1, <2>3
<1> QED  BY <1>2 DEF Min

\* The least of some slots is one of them.
LEMMA SlotMin ==
    ASSUME NEW S \in SUBSET Slot, S # {}
    PROVE  Min(S) \in S
<1>1. S \subseteq Nat  BY DEF Slot
<1> QED  BY <1>1, LeastIs

\* A sweep empties outdated entries and touches nothing else.
LEMMA SweptProperties ==
    ASSUME SipAssumption, NEW t \in Table, NEW ip
    PROVE  LET s == Swept(t, ip) IN
           /\ s \in Table
           /\ Est(s) \subseteq Est(t)
           /\ \A i \in Slot : s[i] = t[i] \/ (Outdated(t[i]) /\ s[i] = [t[i] EXCEPT !.status = "EMPTY"])
           /\ Fresh(t) /\ clock \in 0..MaxClock => s = t
<1> DEFINE s == Swept(t, ip)
<1>1. s = [i \in Slot |-> IF Outdated(t[i]) /\ (FindEntry(t, ip) = 0 \/ i < FindEntry(t, ip))
                          THEN [t[i] EXCEPT !.status = "EMPTY"] ELSE t[i]]
  BY DEF Swept
<1>2. \A i \in Slot : s[i] = t[i] \/ (Outdated(t[i]) /\ s[i] = [t[i] EXCEPT !.status = "EMPTY"])
  BY <1>1
<1>3. \A i \in Slot : t[i] \in Entry /\ [t[i] EXCEPT !.status = "EMPTY"] \in Entry
                      /\ [t[i] EXCEPT !.status = "EMPTY"].status = "EMPTY"
  BY DEF Table, Entry
<1>4. s \in Table
  BY <1>1, <1>3 DEF Table
<1>5. Est(s) \subseteq Est(t)
  BY <1>2, <1>3 DEF Est
<1>6. ASSUME Fresh(t), clock \in 0..MaxClock PROVE s = t
  <2>1. \A i \in Slot : ~Outdated(t[i])
    BY <1>6 DEF Outdated, Fresh, Table, Entry, SipAssumption
  <2>2. s = [i \in Slot |-> t[i]]  BY <1>1, <2>1
  <2> QED  BY <2>2 DEF Table
<1> QED  BY <1>2, <1>4, <1>5, <1>6

\* What a sweep keeps.
LEMMA SweptKeeps ==
    ASSUME SipAssumption, NEW t \in Table, NEW ip, NEW h \in Heard, Good(t, h)
    PROVE  Good(Swept(t, ip), h) /\ Keeps(t, Swept(t, ip))
<1> DEFINE s == Swept(t, ip)
<1>1. /\ Est(s) \subseteq Est(t)
      /\ \A i \in Slot : s[i] = t[i] \/ (Outdated(t[i]) /\ s[i] = [t[i] EXCEPT !.status = "EMPTY"])
  BY SweptProperties
<1>2. \A i \in Est(s) : s[i].ip = t[i].ip /\ s[i].hw = t[i].hw
  BY <1>1 DEF Est, Table, Entry
<1>3. Good(s, h)  BY <1>1, <1>2 DEF Good
<1>4. Keeps(t, s)  BY <1>1 DEF Keeps, Holds, Est
<1> QED  BY <1>3, <1>4
-----------------------------------------------------------------------------
(* arp_add_entry.                                                          *)

\* An entry of ip that is not outdated is found.
LEMMA FindEntryFinds ==
    ASSUME NEW t \in Table, NEW ip
    PROVE  LET f == FindEntry(t, ip) IN
           /\ f # 0 => f \in Slot /\ ~Outdated(t[f]) /\ Holds(t[f], ip)
           /\ f = 0 => \A i \in Slot : Outdated(t[i]) \/ ~Holds(t[i], ip)
<1> DEFINE hits == {i \in Slot : ~Outdated(t[i]) /\ Holds(t[i], ip)}
<1>1. CASE hits = {}
  <2>1. FindEntry(t, ip) = 0  BY <1>1 DEF FindEntry
  <2> QED  BY <1>1, <2>1
<1>2. CASE hits # {}
  <2>1. Min(hits) \in hits  BY <1>2, SlotMin
  <2>2. FindEntry(t, ip) = Min(hits)  BY <1>2 DEF FindEntry
  <2>3. Min(hits) # 0  BY <2>1 DEF Slot
  <2> QED  BY <2>1, <2>2, <2>3
<1> QED  BY <1>1, <1>2

\* What it makes of the table: at most one slot changes after the sweep, and that
\* one held ip, or nothing; if none does, ip has no slot and the table is full.
LEMMA AddEntryCases ==
    ASSUME SipAssumption, NEW t \in Table, NEW ip, NEW hw
    PROVE  LET s == Swept(t, ip)
               e == [ip |-> ip, hw |-> hw, ctime |-> clock, status |-> "ESTABLISHED"] IN
           \/ \E g \in Slot : /\ AddEntry(t, ip, hw) = [s EXCEPT ![g] = e]
                              /\ s[g] = t[g] /\ Holds(t[g], ip)
           \/ \E g \in Slot : /\ AddEntry(t, ip, hw) = [s EXCEPT ![g] = e]
                              /\ g \notin Est(s) /\ \A i \in Est(s) : s[i].ip # ip
           \/ AddEntry(t, ip, hw) = s /\ Est(s) = Slot /\ \A i \in Est(s) : s[i].ip # ip
<1> DEFINE s == Swept(t, ip)
           f == FindEntry(t, ip)
           free == {i \in Slot : s[i].status = "EMPTY"}
           e == [ip |-> ip, hw |-> hw, ctime |-> clock, status |-> "ESTABLISHED"]
<1>1. s \in Table /\ \A i \in Slot : s[i] = t[i] \/ Outdated(t[i])
  BY SweptProperties
<1>2. s = [i \in Slot |-> IF Outdated(t[i]) /\ (f = 0 \/ i < f)
                          THEN [t[i] EXCEPT !.status = "EMPTY"] ELSE t[i]]
  BY DEF Swept
<1>3. Est(s) = Slot \ free
  BY <1>1 DEF Est, Table, Entry
<1>4. CASE f # 0
  <2>1. f \in Slot /\ ~Outdated(t[f]) /\ Holds(t[f], ip)  BY <1>4, FindEntryFinds
  <2>2. AddEntry(t, ip, hw) = [s EXCEPT ![f] = e]  BY <1>4 DEF AddEntry
  <2> QED  BY <1>1, <2>1, <2>2
<1>5. ASSUME f = 0 PROVE \A i \in Est(s) : s[i].ip # ip
  <2>1. SUFFICES ASSUME NEW i \in Est(s), s[i].ip = ip PROVE FALSE  OBVIOUS
  <2>2. i \in Slot /\ s[i].status = "ESTABLISHED"  BY DEF Est
  <2>3. CASE Outdated(t[i])
    <3>1. s[i] = [t[i] EXCEPT !.status = "EMPTY"]  BY <1>2, <1>5, <2>2, <2>3
    <3> QED  BY <2>2, <3>1 DEF Table, Entry
  <2>4. CASE ~Outdated(t[i])
    <3>1. Holds(t[i], ip)  BY <1>1, <2>1, <2>2, <2>4 DEF Holds
    <3> QED  BY <1>5, <2>2, <2>4, <3>1, FindEntryFinds
  <2> QED  BY <2>3, <2>4
<1>6. CASE f = 0 /\ free # {}
  <2>1. Min(free) \in free  BY <1>6, SlotMin
  <2>2. Min(free) # 0  BY <2>1 DEF Slot
  <2>3. AddEntry(t, ip, hw) = [s EXCEPT ![Min(free)] = e]  BY <1>6, <2>2 DEF AddEntry
  <2> QED  BY <1>3, <1>5, <1>6, <2>1, <2>3
<1>7. CASE f = 0 /\ free = {}
  <2>1. AddEntry(t, ip, hw) = s  BY <1>7 DEF AddEntry
  <2> QED  BY <1>3, <1>5, <1>7, <2>1
<1> QED  BY <1>4, <1>6, <1>7
\* Of a good table and a history it makes a good table and the history that has heard
\* hw from ip last, and what is not outdated stays.
LEMMA AddEntryKeeps ==
    ASSUME SipAssumption, clock \in 0..MaxClock,
           NEW t \in Table, NEW h \in Heard, Good(t, h), NEW ip \in Peer, NEW hw \in Hardware
    PROVE  LET u == AddEntry(t, ip, hw)
               k == [h EXCEPT ![ip] = hw] IN
           /\ u \in Table /\ k \in Heard
           /\ Good(u, k) /\ Keeps(t, u)
           /\ Fresh(t) /\ Full(t, h) => Fresh(u) /\ Full(u, k)
<1> DEFINE s == Swept(t, ip)
           u == AddEntry(t, ip, hw)
           k == [h EXCEPT ![ip] = hw]
           e == [ip |-> ip, hw |-> hw, ctime |-> clock, status |-> "ESTABLISHED"]
<1>1. /\ s \in Table /\ Good(s, h) /\ Keeps(t, s)
      /\ \A i \in Slot : s[i] = t[i] \/ Outdated(t[i])
      /\ Fresh(t) => s = t
  BY SweptProperties, SweptKeeps
<1>2. e \in Entry /\ e.ip = ip /\ e.hw = hw /\ e.status = "ESTABLISHED" /\ e.ctime = clock
  BY DEF Entry
<1>3. k \in Heard /\ k[ip] = hw /\ \A p \in Peer \ {ip} : k[p] = h[p]
  BY DEF Heard
<1>4. ASSUME NEW g \in Slot, u = [s EXCEPT ![g] = e],
             \/ s[g] = t[g] /\ Holds(t[g], ip)
             \/ g \notin Est(s) /\ \A i \in Est(s) : s[i].ip # ip
      PROVE  u \in Table /\ Good(u, k) /\ Keeps(t, u) /\ (Fresh(t) /\ Full(t, h) => Fresh(u) /\ Full(u, k))
  <2>1. u \in Table /\ u[g] = e /\ \A i \in Slot \ {g} : u[i] = s[i]
    BY <1>1, <1>2, <1>4 DEF Table
  <2>2. Est(u) = Est(s) \cup {g}
    BY <1>2, <2>1 DEF Est
  <2>3. \A i \in Est(s) \ {g} : s[i].ip # ip
    BY <1>1, <1>4 DEF Good, Est, Holds
  <2>4. Good(u, k)
    <3>1. \A i \in Est(u) : u[i].ip \in Peer /\ u[i].hw = k[u[i].ip]
      BY <1>1, <1>2, <1>3, <2>1, <2>2, <2>3 DEF Good, Est
    <3>2. \A i, j \in Est(u) : u[i].ip = u[j].ip => i = j
      BY <1>1, <1>2, <2>1, <2>2, <2>3 DEF Good, Est
    <3> QED  BY <3>1, <3>2 DEF Good
  <2>5. Keeps(t, u)
    <3>1. SUFFICES ASSUME NEW i \in Est(t), ~Outdated(t[i])
                   PROVE  Holds(u[i], t[i].ip) /\ ~Outdated(u[i])
      BY DEF Keeps
    <3>2. i \in Slot /\ Holds(s[i], t[i].ip) /\ s[i] = t[i] /\ i \in Est(s)
      BY <1>1, <3>1 DEF Keeps, Est
    <3>3. CASE i = g
      <4>1. ~Outdated(e)  BY <1>2 DEF Outdated, SipAssumption
      <4> QED  BY <1>2, <1>4, <2>1, <3>2, <3>3, <4>1 DEF Holds
    <3>4. CASE i # g
      BY <2>1, <3>1, <3>2, <3>4
    <3> QED  BY <3>3, <3>4
  <2>6. ASSUME Fresh(t), Full(t, h) PROVE Fresh(u) /\ Full(u, k)
    <3>1. s = t  BY <1>1, <2>6
    <3>2. Fresh(u)
      BY <1>2, <2>1, <2>6, <3>1 DEF Fresh
    <3>3. Full(u, k)
      <4>1. SUFFICES ASSUME NEW p \in Peer, k[p] # NoHardware, Est(u) # Slot
                     PROVE  \E i \in Est(u) : u[i].ip = p
        BY DEF Full
      <4>2. CASE p = ip  BY <1>2, <2>1, <2>2, <4>2
      <4>3. CASE p # ip
        <5>1. PICK i \in Est(t) : t[i].ip = p
          BY <1>3, <2>2, <2>6, <3>1, <4>1, <4>3 DEF Full, Est
        <5>2. i # g  BY <1>4, <3>1, <4>3, <5>1 DEF Holds
        <5> QED  BY <2>1, <2>2, <3>1, <5>1, <5>2 DEF Est
      <4> QED  BY <4>2, <4>3
    <3> QED  BY <3>2, <3>3
  <2> QED  BY <2>1, <2>4, <2>5, <2>6
<1>5. ASSUME u = s, Est(s) = Slot, \A i \in Est(s) : s[i].ip # ip
      PROVE  u \in Table /\ Good(u, k) /\ Keeps(t, u) /\ (Fresh(t) /\ Full(t, h) => Fresh(u) /\ Full(u, k))
  <2>1. Good(u, k)
    BY <1>1, <1>3, <1>5 DEF Good
  <2>2. Fresh(t) => Fresh(u)
    BY <1>1, <1>5
  <2>3. Full(u, k)
    BY <1>5 DEF Full
  <2> QED  BY <1>1, <1>5, <2>1, <2>2, <2>3
<1>6. \/ \E g \in Slot : u = [s EXCEPT ![g] = e] /\ s[g] = t[g] /\ Holds(t[g], ip)
      \/ \E g \in Slot : u = [s EXCEPT ![g] = e] /\ g \notin Est(s) /\ \A i \in Est(s) : s[i].ip # ip
      \/ u = s /\ Est(s) = Slot /\ \A i \in Est(s) : s[i].ip # ip
  BY AddEntryCases
<1> QED  BY <1>3, <1>4, <1>5, <1>6
-----------------------------------------------------------------------------
(* The stack.                                                              *)

\* What input does besides the table keeps to the types.
Rest ==
    /\ reass \in {"empty", "one", "freed"} /\ stack \in {"running", "dead"}
    /\ heardAt \in [Peer -> 0..MaxClock]

\* The type invariant, in the words of the lemmas above.
LEMMA TypeSplit ==
    SipTypeOK <=> arp \in Table /\ clock \in 0..MaxClock /\ heard \in Heard /\ setBack \in BOOLEAN /\ Rest
BY DEF SipTypeOK, Table, Entry, Heard, Rest

\* t and h are a table and a history that the present ones may become.
Follows(t, h) ==
    /\ t \in Table /\ h \in Heard /\ Good(t, h) /\ Keeps(arp, t)
    /\ Fresh(arp) /\ Full(arp, heard) => Fresh(t) /\ Full(t, h)

\* They may stay what they are.
LEMMA StaysAsItIs == ASSUME ArpInv PROVE Follows(arp, heard)
BY TypeSplit DEF ArpInv, Follows, Keeps, Holds, Est

\* One of them more, by which ip is heard of hw.
LEMMA HearFollows ==
    ASSUME SipAssumption, ArpInv, NEW t, NEW h, Follows(t, h), NEW ip \in Peer, NEW hw \in Hardware
    PROVE  Follows(AddEntry(t, ip, hw), [h EXCEPT ![ip] = hw])
<1> DEFINE u == AddEntry(t, ip, hw)
           k == [h EXCEPT ![ip] = hw]
<1>1. clock \in 0..MaxClock /\ arp \in Table  BY TypeSplit DEF ArpInv
<1>2. t \in Table /\ h \in Heard /\ Good(t, h) /\ Keeps(arp, t)  BY DEF Follows
<1>3. /\ u \in Table /\ k \in Heard /\ Good(u, k) /\ Keeps(t, u)
      /\ Fresh(t) /\ Full(t, h) => Fresh(u) /\ Full(u, k)
  BY <1>1, <1>2, AddEntryKeeps
<1>4. Keeps(arp, u)  BY <1>2, <1>3 DEF Keeps, Holds, Est, Table
<1> QED  BY <1>3, <1>4 DEF Follows

\* The table after our own address was looked up, and set if it has an entry.
LEMMA OwnFollows == ASSUME SipAssumption, ArpInv PROVE Follows(OwnEntry, OwnHeard)
<1>1. clock \in 0..MaxClock /\ arp \in Table /\ heard \in Heard /\ Good(arp, heard)
  BY TypeSplit DEF ArpInv
<1>2. CASE FindEntry(arp, Own) = 0
  <2> DEFINE s == Swept(arp, Own)
  <2>1. OwnEntry = s /\ OwnHeard = heard  BY <1>2 DEF OwnEntry, OwnHeard
  <2>2. s \in Table /\ (Fresh(arp) => s = arp)  BY <1>1, SweptProperties
  <2>3. Good(s, heard) /\ Keeps(arp, s)  BY <1>1, SweptKeeps
  <2>4. Follows(s, heard)  BY <1>1, <2>2, <2>3 DEF Follows
  <2> QED  BY <2>1, <2>4
<1>3. CASE FindEntry(arp, Own) # 0
  <2>1. OwnEntry = AddEntry(arp, Own, OwnHardware) /\ OwnHeard = [heard EXCEPT ![Own] = OwnHardware]
    BY <1>3 DEF OwnEntry, OwnHeard
  <2>2. Own \in Peer /\ OwnHardware \in Hardware  BY DEF SipAssumption
  <2>3. Follows(AddEntry(arp, Own, OwnHardware), [heard EXCEPT ![Own] = OwnHardware])
    BY <2>2, StaysAsItIs, HearFollows
  <2> QED  BY <2>1, <2>3
<1> QED  BY <1>2, <1>3

\* A frame after which they are the table and the history.
LEMMA FollowsKeepsInv ==
    ASSUME ArpInv, Follows(arp', heard'), UNCHANGED <<clock, setBack>>, Rest'
    PROVE  ArpInv' /\ Keeps(arp, arp')
<1>1. clock \in 0..MaxClock /\ setBack \in BOOLEAN  BY TypeSplit DEF ArpInv
<1>2. arp' \in Table /\ heard' \in Heard /\ Good(arp', heard') /\ Keeps(arp, arp')  BY DEF Follows
<1>3. SipTypeOK'
  BY <1>1, <1>2 DEF SipTypeOK, Table, Entry, Heard, Rest
<1>4. ASSUME ~setBack' PROVE Full(arp', heard') /\ Fresh(arp)'
  <2>1. Full(arp, heard) /\ Fresh(arp)  BY <1>4 DEF ArpInv
  <2>2. Fresh(arp') /\ Full(arp', heard')  BY <2>1 DEF Follows
  <2> QED  BY <2>2 DEF Fresh
<1> QED  BY <1>2, <1>3, <1>4 DEF ArpInv, Good, Full, Est

\* The table is empty at first.
LEMMA ArpStarts == ASSUME SipAssumption, SipNobody PROVE SipInit => ArpInv
<1> SUFFICES ASSUME SipInit PROVE ArpInv  OBVIOUS
<1>1. SipTypeOK
  <2>1. EmptySlot \in Entry  BY DEF EmptySlot, Entry, SipAssumption
  <2>2. arp \in Table  BY <2>1 DEF SipInit, Table
  <2>3. heard \in Heard  BY DEF SipInit, Heard
  <2>4. Rest
    <3>1. 0 \in 0..MaxClock  BY DEF SipAssumption
    <3> QED  BY <3>1 DEF SipInit, Rest
  <2>5. clock \in 0..MaxClock  BY DEF SipInit, SipAssumption
  <2>6. setBack \in BOOLEAN  BY Zenon DEF SipInit
  <2> QED  BY <2>2, <2>3, <2>4, <2>5, <2>6, TypeSplit
<1>2. Est(arp) = {}  BY DEF SipInit, Est, EmptySlot
<1>3. Good(arp, heard)  BY <1>2 DEF Good
<1>4. Full(arp, heard)  BY DEF Full, SipInit
<1>5. Fresh(arp)  BY DEF Fresh, SipInit, EmptySlot
<1> QED  BY <1>1, <1>3, <1>4, <1>5 DEF ArpInv

\* Every frame and every change of the clock keeps the invariant, and what the table holds.
LEMMA ArpStep ==
    ASSUME SipAssumption, ArpInv, [SipNext]_sipvars
    PROVE  ArpInv' /\ Keeps(arp, arp')
<1>1. /\ clock \in 0..MaxClock /\ heard \in Heard /\ arp \in Table /\ setBack \in BOOLEAN /\ Rest
      /\ Good(arp, heard) /\ Keeps(arp, arp)
  BY TypeSplit DEF ArpInv, Keeps, Holds, Est
<1>2. CASE InputOther
  BY <1>1, <1>2 DEF InputOther, sipvars, ArpInv, SipTypeOK, Good, Full, Fresh, Est, Keeps, Holds
<1>3. CASE ClockTick
  <2>1. clock' \in 0..MaxClock /\ clock' = clock + 1 /\ UNCHANGED <<arp, heard, setBack>> /\ Rest'
    BY <1>1, <1>3 DEF ClockTick, SipAssumption, Rest
  <2>2. SipTypeOK'  BY <1>1, <2>1 DEF SipTypeOK, Table, Entry, Heard, Rest
  <2>3. Fresh(arp) => Fresh(arp)'
    BY <1>1, <2>1 DEF Fresh, Table, Entry, SipAssumption
  <2> QED  BY <1>1, <2>1, <2>2, <2>3 DEF ArpInv, Good, Full, Est
<1>4. ASSUME NEW t \in 0..MaxClock, SetClockBack(t) PROVE ArpInv' /\ Keeps(arp, arp')
  <2>1. clock' \in 0..MaxClock /\ setBack' = TRUE /\ UNCHANGED <<arp, heard>> /\ Rest'
    BY <1>1, <1>4 DEF SetClockBack, Rest
  <2>2. SipTypeOK'  BY <1>1, <2>1 DEF SipTypeOK, Table, Entry, Heard, Rest
  <2> QED  BY <1>1, <2>1, <2>2 DEF ArpInv, Good, Full, Est
<1>5. ASSUME NEW ip \in Peer, NEW hw \in Hardware, NEW op \in {"request", "reply", "other", "elsewhere"},
             InputArp(ip, hw, op)
      PROVE  ArpInv' /\ Keeps(arp, arp')
  <2>1. heardAt' \in [Peer -> 0..MaxClock]
    BY <1>1, <1>5 DEF InputArp, AfterArp, OwnHeardAt, Rest, SipAssumption
  <2>2. Rest' /\ UNCHANGED <<clock, setBack>>
    BY <1>1, <1>5, <2>1 DEF InputArp, Rest
  <2>3. Follows(OwnEntry, OwnHeard)  BY OwnFollows
  <2>4. Follows(arp', heard')
    <3>1. CASE op = "elsewhere"
      <4>1. arp' = arp /\ heard' = heard  BY <1>5, <3>1 DEF InputArp, AfterArp
      <4> QED  BY <4>1, StaysAsItIs
    <3>2. CASE op = "other"
      <4>1. arp' = OwnEntry /\ heard' = OwnHeard  BY <1>5, <3>2 DEF InputArp, AfterArp
      <4> QED  BY <2>3, <4>1
    <3>3. CASE op \in {"request", "reply"}
      <4>1. arp' = AddEntry(OwnEntry, ip, hw) /\ heard' = [OwnHeard EXCEPT ![ip] = hw]
        BY <1>5, <3>3 DEF InputArp, AfterArp
      <4>2. Follows(AddEntry(OwnEntry, ip, hw), [OwnHeard EXCEPT ![ip] = hw])
        BY <2>3, HearFollows
      <4> QED  BY <4>1, <4>2
    <3> QED  BY <3>1, <3>2, <3>3
  <2> QED  BY <2>2, <2>4, FollowsKeepsInv
<1>6. ASSUME NEW ip \in Peer, NEW hw \in Hardware, NEW d \in Datagram, InputIp(ip, hw, d)
      PROVE  ArpInv' /\ Keeps(arp, arp')
  <2>1. arp' = AddEntry(arp, ip, hw) /\ heard' = [heard EXCEPT ![ip] = hw]
    BY <1>6 DEF InputIp, Hear
  <2>2. heardAt' \in [Peer -> 0..MaxClock]
    BY <1>1, <1>6 DEF InputIp, Hear, Rest
  <2>3. reass' \in {"empty", "one", "freed"} /\ stack' \in {"running", "dead"}
    BY <1>1, <1>6 DEF InputIp, HandUp, Reassemble, Rest
  <2>4. Rest' /\ UNCHANGED <<clock, setBack>>
    BY <1>6, <2>2, <2>3 DEF InputIp, Rest
  <2>5. Follows(AddEntry(arp, ip, hw), [heard EXCEPT ![ip] = hw])
    BY StaysAsItIs, HearFollows
  <2>6. Follows(arp', heard')  BY <2>1, <2>5
  <2> QED  BY <2>4, <2>6, FollowsKeepsInv
<1>7. CASE UNCHANGED sipvars
  BY <1>1, <1>7 DEF sipvars, ArpInv, SipTypeOK, Good, Full, Fresh, Est
<1> QED  BY <1>2, <1>3, <1>4, <1>5, <1>6, <1>7 DEF SipNext

\* However frames and the clock come, the table is a map of what was last told, and
\* keeps what is alive.
THEOREM ArpTableHolds == SipSpec => ArpTableSound
<1>1. SipInit => ArpInv  BY ArpStarts, SipAssumption, SipNobody
<1>2. ArpInv /\ [SipNext]_sipvars => ArpInv'  BY ArpStep, SipAssumption
<1>3. ArpInv => SipTypeOK /\ ArpIsAMap /\ ArpHoldsLastHeard
  BY DEF ArpInv, Good, Full, Est, Established, ArpIsAMap, ArpHoldsLastHeard
<1>4. ArpInv /\ [SipNext]_sipvars
        => [\A i \in Established :
              arp[i].ctime <= clock + ArpLiveTime /\ clock <= arp[i].ctime + ArpLiveTime =>
                  Holds(arp'[i], arp[i].ip)]_sipvars
  <2> SUFFICES ASSUME ArpInv, [SipNext]_sipvars, NEW i \in Established,
                      arp[i].ctime <= clock + ArpLiveTime
               PROVE  Holds(arp'[i], arp[i].ip)
    OBVIOUS
  <2>1. arp \in Table /\ clock \in 0..MaxClock  BY TypeSplit DEF ArpInv
  <2>2. arp[i].ctime \in Int /\ clock \in Int /\ ArpLiveTime \in Int
    <3>1. i \in Slot  BY DEF Established
    <3>2. arp[i] \in Entry  BY <2>1, <3>1 DEF Table
    <3> QED  BY <2>1, <3>2, SipAssumption DEF Entry, SipAssumption
  <2>3. ~(arp[i].ctime > clock + ArpLiveTime)  BY <2>2
  <2>4. ~Outdated(arp[i])  BY <2>3 DEF Outdated
  <2> QED  BY <2>4, ArpStep, SipAssumption DEF Keeps, Est, Established
<1>5. SipSpec => []ArpInv  BY <1>1, <1>2, PTL DEF SipSpec
<1>6. SipSpec => LiveEntriesStay  BY <1>4, <1>5, PTL DEF SipSpec, LiveEntriesStay
<1>7. SipSpec => [](SipTypeOK /\ ArpIsAMap /\ ArpHoldsLastHeard)  BY <1>3, <1>5, PTL
<1> QED  BY <1>6, <1>7, PTL DEF ArpTableSound
=============================================================================
