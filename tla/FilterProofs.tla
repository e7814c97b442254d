---------------------------- MODULE FilterProofs ----------------------------
(***************************************************************************)
(* What the two packet filters go by.  SIPFW: from the words of a command  *)
(* line to the packets a rule catches, for every set of addresses, of      *)
(* 16-bit ports and positions, and whatever the dest field of a fresh rule *)
(* holds.  The netfilter example, for every number of CPUs and             *)
(* administrators and all addresses and ports: what its hooks decide       *)
(* although they take no lock, and what its administrators may rely on.    *)
(***************************************************************************)
EXTENDS SipfwMatch, NfBand, FiniteSetTheorems, TLAPS

-----------------------------------------------------------------------------
(* The two byte orders.  Nothing is lost by swapping the bytes, and only 0 *)
(* looks like the wildcard.  The width is a bound on the numbers.          *)

Port16 == {x \in Nat : x < 65536}

\* Every port to type or to send is 16 bits wide.
LEMMA PortWide == ASSUME NEW x \in Port PROVE x \in Port16
BY PortAssumption DEF Port16
\* So is every position to type.
LEMMA NumberWide == ASSUME NEW x \in Number PROVE x \in Port16
BY NumberAssumption DEF Port16

\* 0 is a port to type: it asks for any.
LEMMA ZeroPort == 0 \in Port16
BY DEF Port16

\* htons maps 0, the wildcard, to 0.
LEMMA HtonsOfZero == Htons(0) = 0
BY SMT DEF Htons

\* A number below 65536 is its two digits of base 256.
LEMMA Bytes ==
    ASSUME NEW x \in Port16
    PROVE  \E q \in Nat, r \in Nat :
              q < 256 /\ r < 256 /\ q = x \div 256 /\ r = x % 256 /\ x = 256 * q + r
<1>1. x \in Nat /\ x < 65536  BY DEF Port16
<1>2. x \div 256 \in Nat /\ x % 256 \in Nat /\ x % 256 < 256  BY <1>1, SMT
<1>3. ASSUME NEW q \in Nat, NEW r \in Nat, q = x \div 256, r = x % 256, r < 256
      PROVE  x = 256 * q + r
  BY <1>1, <1>3, SMT
<1>4. ASSUME NEW q \in Nat, NEW r \in Nat, x = 256 * q + r PROVE q < 256
  BY <1>1, <1>4, SMT
<1> QED  BY <1>2, <1>3, <1>4

\* A port in the other byte order is a number.
LEMMA HtonsType == ASSUME NEW x \in Port16 PROVE Htons(x) \in Int
<1>1. PICK q \in Nat, r \in Nat : q = x \div 256 /\ r = x % 256  BY Bytes
<1>2. Htons(x) = r * 256 + q  BY <1>1 DEF Htons
<1> QED  BY <1>2

\* Two ports with the same bytes in the other order are the same.
LEMMA HtonsInjective ==
    ASSUME NEW x \in Port16, NEW y \in Port16, Htons(x) = Htons(y)
    PROVE  x = y
<1>1. PICK a \in Nat, b \in Nat :
          a < 256 /\ b < 256 /\ a = x \div 256 /\ b = x % 256 /\ x = 256 * a + b
  BY Bytes
<1>2. PICK c \in Nat, d \in Nat :
          c < 256 /\ d < 256 /\ c = y \div 256 /\ d = y % 256 /\ y = 256 * c + d
  BY Bytes
<1>3. b * 256 + a = d * 256 + c  BY <1>1, <1>2 DEF Htons
<1>4. a = c /\ b = d
  <2>1. a \in Nat /\ b \in Nat /\ c \in Nat /\ d \in Nat /\ a < 256 /\ b < 256 /\ c < 256 /\ d < 256
    BY <1>1, <1>2
  <2> QED  BY <1>3, <2>1, SMT
<1>5. x = 256 * a + b /\ y = 256 * c + d  BY <1>1, <1>2
<1> QED  BY <1>4, <1>5

\* Only port 0 becomes the wildcard.
LEMMA HtonsIsZero == ASSUME NEW x \in Port16, Htons(x) = 0 PROVE x = 0
BY ZeroPort, HtonsOfZero, HtonsInjective

\* -1, kept in the eight bits of the rule, is the protocol 255.
LEMMA NoProtocol == (-1) % 256 = 255
<1>1. ASSUME NEW x \in Int, NEW q \in Int, NEW r \in Int, q = x \div 256, r = x % 256
      PROVE  x = 256 * q + r /\ 0 <= r /\ r < 256
  BY <1>1, SMT
<1>2. ASSUME NEW q \in Int, NEW r \in Int, 256 * q + r + 1 = 0, 0 <= r, r < 256 PROVE r = 255
  BY <1>2, SMT
<1>3. ASSUME NEW x \in Int PROVE x \div 256 \in Int /\ x % 256 \in Int  BY SMT
<1>4. ASSUME NEW x \in Int, x + 1 = 0 PROVE x % 256 = 255
  <2>1. PICK q \in Int, r \in Int : q = x \div 256 /\ r = x % 256  BY <1>3
  <2>2. x = 256 * q + r /\ 0 <= r /\ r < 256  BY <1>1, <2>1
  <2>3. 256 * q + r + 1 = 0  BY <1>4, <2>2
  <2>4. r = 255  BY <1>2, <2>2, <2>3
  <2> QED  BY <2>1, <2>4
<1>5. -1 \in Int /\ (-1) + 1 = 0  BY SMT
<1> QED  BY <1>4, <1>5

-----------------------------------------------------------------------------
(* The inductive invariant: the options hold what was typed, in the byte   *)
(* order of the network, and the rule holds the options.                   *)

Typed ==
    typed \in [s: Nat, d: Nat, m: Port16, n: Port16, p: ProtocolNames \cup {""},
               flags: SUBSET {"y", "f", "k", "r"}, u: Int]

OptShape ==
    opt \in [source: Nat, dest: Nat, sport: Int, dport: Int, protocol: Int, flags: SUBSET Flags,
             valid: 0..1, number: Int]

OptHoldsTyped ==
    /\ opt.source = typed.s
    /\ opt.sport = Htons(typed.m) /\ opt.dport = Htons(typed.n)
    /\ opt.protocol = IF typed.p = "" THEN -1 ELSE ProtocolValue(typed.p)
    /\ \A f \in typed.flags : FlagsOf(f) \subseteq opt.flags
    /\ opt.valid = IF typed.flags = {} THEN 0 ELSE 1

RuleOf(d) ==
    [source |-> opt.source, dest |-> d, sport |-> opt.sport, dport |-> opt.dport,
     protocol |-> opt.protocol % 256, flags |-> opt.flags, valid |-> opt.valid]

RuleHoldsOpt == rule = <<>> \/ \E d \in Garbage : rule = <<RuleOf(d)>>

MatchInv == Typed /\ OptShape /\ OptHoldsTyped /\ RuleHoldsOpt

-----------------------------------------------------------------------------

\* The names of protocols, and what stands for a name that is none.
LEMMA ProtocolValues ==
    ASSUME NEW name \in ProtocolNames
    PROVE  /\ ProtocolValue(name) \in {0, 1, 2, 6, 17}
           /\ ProtocolValue(name) = 0 <=> name = "all"
BY DEF ProtocolNames, ProtocolValue, TCP, UDP, ICMP, IGMP

\* An empty command line: every option at its default.
LEMMA MatchInitInv == MatchInit => MatchInv
<1> SUFFICES ASSUME MatchInit PROVE MatchInv  OBVIOUS
<1>1. /\ typed = [s |-> 0, d |-> 0, m |-> 0, n |-> 0, p |-> "", flags |-> {}, u |-> -1]
      /\ opt = [source |-> 0, dest |-> 0, sport |-> 0, dport |-> 0, protocol |-> -1,
                flags |-> {}, valid |-> 0, number |-> -1]
      /\ rule = <<>>
  BY DEF MatchInit
<1>2. Typed
  <2>1. "" \in ProtocolNames \cup {""} /\ -1 \in Int /\ 0 \in Nat  OBVIOUS
  <2>2. {} \in SUBSET {"y", "f", "k", "r"}  OBVIOUS
  <2> QED  BY <1>1, <2>1, <2>2, ZeroPort, Zenon DEF Typed
<1>3. OptShape
  <2>1. -1 \in Int /\ 0 \in Int /\ 0 \in Nat /\ 0 \in 0..1 /\ {} \in SUBSET Flags  OBVIOUS
  <2> QED  BY <1>1, <2>1, Zenon DEF OptShape
<1>4. OptHoldsTyped  BY <1>1, HtonsOfZero DEF OptHoldsTyped
<1>5. RuleHoldsOpt  BY <1>1 DEF RuleHoldsOpt
<1> QED  BY <1>2, <1>3, <1>4, <1>5 DEF MatchInv

\* Each option keeps words and fields together, and the rule is a copy.
LEMMA MatchNextInv == MatchInv /\ [MatchNext]_matchvars => MatchInv'
<1> SUFFICES ASSUME MatchInv, [MatchNext]_matchvars PROVE MatchInv'  OBVIOUS
<1> USE DEF MatchInv
<1>1. ASSUME Parsing, Typed', OptShape', OptHoldsTyped' PROVE MatchInv'
  BY <1>1 DEF Parsing, RuleHoldsOpt
<1>2. ASSUME NEW a \in Host, OptSource(a) PROVE MatchInv'
  <2>1. a \in Nat  BY HostAssumption
  <2>2. Typed' /\ OptShape'  BY <1>2, <2>1 DEF OptSource, Typed, OptShape
  <2>3. OptHoldsTyped'  BY <1>2 DEF OptSource, Typed, OptShape, OptHoldsTyped
  <2> QED  BY <1>1, <1>2, <2>2, <2>3 DEF OptSource
<1>10. ASSUME NEW a \in Host, OptDest(a) PROVE MatchInv'
  <2>1. a \in Nat  BY HostAssumption
  <2>2. Typed' /\ OptShape'  BY <1>10, <2>1 DEF OptDest, Typed, OptShape
  <2>3. OptHoldsTyped'  BY <1>10 DEF OptDest, Typed, OptShape, OptHoldsTyped
  <2> QED  BY <1>1, <1>10, <2>2, <2>3 DEF OptDest
<1>3. ASSUME NEW x \in Port, OptSport(x) PROVE MatchInv'
  <2>1. x \in Port16  BY PortWide
  <2>2. Htons(x) \in Int  BY <2>1, HtonsType
  <2>3. Typed' /\ OptShape'  BY <1>3, <2>1, <2>2 DEF OptSport, Typed, OptShape
  <2>4. OptHoldsTyped'  BY <1>3 DEF OptSport, Typed, OptShape, OptHoldsTyped
  <2> QED  BY <1>1, <1>3, <2>3, <2>4 DEF OptSport
<1>4. ASSUME NEW x \in Port, OptDport(x) PROVE MatchInv'
  <2>1. x \in Port16  BY PortWide
  <2>2. Htons(x) \in Int  BY <2>1, HtonsType
  <2>3. Typed' /\ OptShape'  BY <1>4, <2>1, <2>2 DEF OptDport, Typed, OptShape
  <2>4. OptHoldsTyped'  BY <1>4 DEF OptDport, Typed, OptShape, OptHoldsTyped
  <2> QED  BY <1>1, <1>4, <2>3, <2>4 DEF OptDport
<1>5. ASSUME NEW name \in ProtocolNames, OptProtocol(name) PROVE MatchInv'
  <2>1. ProtocolValue(name) \in Int /\ name # ""
    <3>1. name # ""  BY DEF ProtocolNames
    <3>2. ProtocolValue(name) \in {0, 1, 2, 6, 17}  BY ProtocolValues
    <3>3. \A v \in {0, 1, 2, 6, 17} : v \in Int  OBVIOUS
    <3> QED  BY <3>1, <3>2, <3>3, Zenon
  <2>2. Typed' /\ OptShape'  BY <1>5, <2>1 DEF OptProtocol, Typed, OptShape
  <2>3. OptHoldsTyped'  BY <1>5, <2>1 DEF OptProtocol, Typed, OptShape, OptHoldsTyped
  <2> QED  BY <1>1, <1>5, <2>2, <2>3 DEF OptProtocol
<1>6. ASSUME NEW f \in {"y", "f", "k", "r"}, OptFlag(f) PROVE MatchInv'
  <2>1. FlagsOf(f) \subseteq Flags  BY DEF FlagsOf, Flags
  <2>2. /\ typed' = [typed EXCEPT !.flags = typed.flags \cup {f}]
        /\ opt' = [opt EXCEPT !.flags = opt.flags \cup FlagsOf(f), !.valid = 1]
    BY <1>6 DEF OptFlag
  <2>3. Typed'  BY <2>2 DEF Typed
  <2>4. OptShape'
    <3>1. opt.flags \cup FlagsOf(f) \in SUBSET Flags  BY <2>1 DEF OptShape
    <3>2. 1 \in 0..1  OBVIOUS
    <3> QED  BY <2>2, <3>1, <3>2 DEF OptShape
  <2>5. /\ opt'.source = opt.source /\ opt'.sport = opt.sport /\ opt'.dport = opt.dport
        /\ opt'.protocol = opt.protocol /\ opt'.flags = opt.flags \cup FlagsOf(f) /\ opt'.valid = 1
    BY <2>2 DEF OptShape
  <2>6. /\ typed'.s = typed.s /\ typed'.m = typed.m /\ typed'.n = typed.n /\ typed'.p = typed.p
        /\ typed'.flags = typed.flags \cup {f}
    BY <2>2 DEF Typed
  <2>7. OptHoldsTyped'  BY <2>5, <2>6 DEF OptHoldsTyped
  <2> QED  BY <1>1, <1>6, <2>3, <2>4, <2>7 DEF OptFlag
<1>7. ASSUME NEW x \in Number, OptNumber(x) PROVE MatchInv'
  <2>1. x \in Port16  BY NumberWide
  <2>2. Htons(x) \in Int  BY <2>1, HtonsType
  <2>3. Typed'
    <3>1. x \in Int  BY <2>1 DEF Port16
    <3> QED  BY <1>7, <3>1 DEF OptNumber, Typed
  <2>4. OptShape'  BY <1>7, <2>2 DEF OptNumber, OptShape
  <2>5. OptHoldsTyped'  BY <1>7 DEF OptNumber, Typed, OptShape, OptHoldsTyped
  <2> QED  BY <1>1, <1>7, <2>3, <2>4, <2>5 DEF OptNumber
<1>8. ASSUME NEW d \in Garbage, NLCopyRule(d) PROVE MatchInv'
  <2>1. typed' = typed /\ opt' = opt /\ rule' = <<RuleOf(d)>>  BY <1>8 DEF NLCopyRule, RuleOf
  <2>2. Typed' /\ OptShape' /\ OptHoldsTyped'  BY <2>1 DEF Typed, OptShape, OptHoldsTyped
  <2>3. RuleHoldsOpt'  BY <2>1 DEF RuleHoldsOpt, RuleOf
  <2> QED  BY <2>2, <2>3
<1>9. CASE UNCHANGED matchvars
  BY <1>9 DEF matchvars, Typed, OptShape, OptHoldsTyped, RuleHoldsOpt, RuleOf
<1> QED  BY <1>2, <1>3, <1>4, <1>5, <1>6, <1>7, <1>8, <1>9, <1>10 DEF MatchNext

-----------------------------------------------------------------------------
(* What the rule says, field by field, of what was typed.                  *)

\* The rule in the kernel, against the words.
LEMMA RuleHoldsTyped ==
    ASSUME MatchInv, rule # <<>>
    PROVE  LET r == rule[1] IN
           /\ r.source = typed.s
           /\ r.sport = Htons(typed.m) /\ r.dport = Htons(typed.n)
           /\ typed.p = "" => r.protocol = 255
           /\ typed.p # "" => r.protocol = ProtocolValue(typed.p)
           /\ \A f \in typed.flags : FlagsOf(f) \subseteq r.flags
           /\ r.valid = IF typed.flags = {} THEN 0 ELSE 1
<1>1. PICK d \in Garbage : rule = <<RuleOf(d)>>  BY DEF MatchInv, RuleHoldsOpt
<1>2. rule[1] = RuleOf(d)  BY <1>1
<1>3. /\ RuleOf(d).source = opt.source /\ RuleOf(d).sport = opt.sport /\ RuleOf(d).dport = opt.dport
      /\ RuleOf(d).protocol = opt.protocol % 256
      /\ RuleOf(d).flags = opt.flags /\ RuleOf(d).valid = opt.valid
  BY DEF RuleOf
<1>4. typed.p = "" => opt.protocol % 256 = 255
  BY NoProtocol DEF MatchInv, OptHoldsTyped
<1>5. typed.p # "" => opt.protocol % 256 = ProtocolValue(typed.p)
  <2>1. SUFFICES ASSUME typed.p # "" PROVE opt.protocol % 256 = ProtocolValue(typed.p)  OBVIOUS
  <2>2. typed.p \in ProtocolNames  BY <2>1 DEF MatchInv, Typed
  <2>3. ProtocolValue(typed.p) \in Nat /\ ProtocolValue(typed.p) < 256
    BY <2>2 DEF ProtocolNames, ProtocolValue, TCP, UDP, ICMP, IGMP
  <2>4. opt.protocol = ProtocolValue(typed.p)  BY <2>1 DEF MatchInv, OptHoldsTyped
  <2>5. ASSUME NEW v \in Nat, v < 256 PROVE v % 256 = v  BY <2>5, SMT
  <2> QED  BY <2>3, <2>4, <2>5
<1> QED  BY <1>2, <1>3, <1>4, <1>5 DEF MatchInv, OptHoldsTyped

\* A packet's ports are 16 bits wide, and its protocol is one of five.
LEMMA PacketShape ==
    ASSUME NEW k \in Packet
    PROVE  /\ k.source \in Port16 /\ k.dest \in Port16
           /\ k.protocol \in {1, 2, 6, 17, 47}
<1>1. k.source \in Port /\ k.dest \in Port /\ k.protocol \in {ICMP, IGMP, TCP, UDP, GRE}
  BY DEF Packet
<1> QED  BY <1>1, PortWide DEF ICMP, IGMP, TCP, UDP, GRE

\* No packet is caught that the options exclude.
LEMMA Wide == MatchInv => NeverTooWide
<1> SUFFICES ASSUME MatchInv, rule # <<>>, NEW k \in Packet, Matches(k, rule[1])
             PROVE  Described(k)
  BY DEF NeverTooWide
<1> DEFINE r == rule[1]
<1>1. /\ r.source = typed.s
      /\ r.sport = Htons(typed.m) /\ r.dport = Htons(typed.n)
      /\ typed.p # "" => r.protocol = ProtocolValue(typed.p)
  BY RuleHoldsTyped
<1>2. IsIPMatch(k, r) /\ IsAddtionMatch(k, r)  BY DEF Matches
<1>3. typed.s \in {0, k.saddr}  BY <1>1, <1>2 DEF IsIPMatch
<1>4. typed.p \in {"", "all"} \/ k.protocol = ProtocolValue(typed.p)
  <2>1. SUFFICES ASSUME typed.p # "" PROVE typed.p = "all" \/ k.protocol = ProtocolValue(typed.p)
    OBVIOUS
  <2>2. typed.p \in ProtocolNames  BY <2>1 DEF MatchInv, Typed
  <2>3. k.protocol = r.protocol \/ r.protocol = 0  BY <1>2 DEF IsIPMatch
  <2> QED  BY <1>1, <2>1, <2>2, <2>3, ProtocolValues
<1>5. ASSUME k.protocol \in {TCP, UDP} PROVE typed.m \in {0, k.source} /\ typed.n \in {0, k.dest}
  <2>1. PortsMatch(k, r)
    BY <1>2, <1>5 DEF IsAddtionMatch, TCP, UDP, ICMP, IGMP
  <2>2. typed.m \in Port16 /\ typed.n \in Port16  BY DEF MatchInv, Typed
  <2>3. Htons(k.source) = Htons(typed.m) \/ Htons(typed.m) = 0  BY <1>1, <2>1 DEF PortsMatch
  <2>4. Htons(k.dest) = Htons(typed.n) \/ Htons(typed.n) = 0  BY <1>1, <2>1 DEF PortsMatch
  <2> QED  BY <2>2, <2>3, <2>4, PacketShape, HtonsInjective, HtonsIsZero
<1> QED  BY <1>3, <1>4, <1>5 DEF Described

\* With a protocol and no flags, none is missed that the options describe.
LEMMA Narrow == MatchInv => NeverTooNarrow
<1> SUFFICES ASSUME MatchInv, rule # <<>>, typed.p # "", typed.flags = {}, NEW k \in Packet,
                    Described(k), k.protocol # GRE, rule[1].dest \in {0, k.daddr}
             PROVE  Matches(k, rule[1])
  BY DEF NeverTooNarrow
<1> DEFINE r == rule[1]
<1>1. /\ r.source = typed.s
      /\ r.sport = Htons(typed.m) /\ r.dport = Htons(typed.n)
      /\ r.protocol = ProtocolValue(typed.p)
      /\ r.valid = 0
  BY RuleHoldsTyped
<1>2. IsIPMatch(k, r)
  <2>1. k.saddr = r.source \/ r.source = 0  BY <1>1 DEF Described
  <2>2. k.protocol = r.protocol \/ r.protocol = 0
    <3>1. typed.p \in ProtocolNames  BY DEF MatchInv, Typed
    <3>2. typed.p = "all" \/ k.protocol = ProtocolValue(typed.p)  BY DEF Described
    <3> QED  BY <1>1, <3>1, <3>2, ProtocolValues
  <2> QED  BY <2>1, <2>2 DEF IsIPMatch
<1>3. ASSUME k.protocol \in {TCP, UDP} PROVE PortsMatch(k, r)
  <2>1. typed.m \in {0, k.source} /\ typed.n \in {0, k.dest}  BY <1>3 DEF Described
  <2> QED  BY <1>1, <2>1, HtonsOfZero DEF PortsMatch
<1>4. IsAddtionMatch(k, r)
  <2>1. k.protocol \in {ICMP, IGMP, TCP, UDP}
    BY PacketShape DEF ICMP, IGMP, TCP, UDP, GRE
  <2> QED  BY <1>1, <1>3, <2>1 DEF IsAddtionMatch
<1> QED  BY <1>2, <1>4 DEF Matches

\* The flags of -y, -k and -f are carried by every TCP packet caught.
LEMMA Carried == MatchInv => FlagsAreCarried
<1> SUFFICES ASSUME MatchInv, rule # <<>>, NEW k \in Packet, k.protocol = TCP, Matches(k, rule[1]),
                    NEW f \in typed.flags \ {"r"}, NEW g \in FlagsOf(f)
             PROVE  g \in k.flags
  BY DEF FlagsAreCarried
<1> DEFINE r == rule[1]
<1>1. g \in r.flags /\ r.valid = 1
  BY RuleHoldsTyped
<1>2. g \in {"ack", "fin", "syn"}
  <2>1. f \in {"y", "f", "k"}  BY DEF MatchInv, Typed
  <2> QED  BY <2>1 DEF FlagsOf
<1>3. \A h \in {"ack", "fin", "syn"} : h \in r.flags <=> h \in k.flags
  <2>1. r.valid # 0  BY <1>1
  <2> QED  BY <2>1 DEF Matches, IsAddtionMatch, TCP, UDP, ICMP, IGMP
<1> QED  BY <1>1, <1>2, <1>3

-----------------------------------------------------------------------------

\* What SIPFW_ParseCommand reads, SIPFW_NLDoAction copies and SIPFW_IsMatch compares
\* catches no packet that the words of the command exclude, misses none that they
\* describe, and keeps the flags asked for, whatever addresses and ports are typed.
THEOREM RulesAreAsDescribed == MatchSpec => []MatchesDescribed
<1>1. MatchInv => MatchesDescribed  BY Wide, Narrow, Carried DEF MatchesDescribed
<1> QED  BY MatchInitInv, MatchNextInv, <1>1, PTL DEF MatchSpec

-----------------------------------------------------------------------------
(* The inductive invariant.  A hook's first load and its test of the       *)
(* protocol say something of every b_status there has been since it began: *)
(* what stood all the time stood at either, and what either found stood at *)
(* some time.                                                              *)

PortBan == [protocol : {0, IPPROTO_TCP, IPPROTO_UDP}, port : Port17 \cup {0}]
BandStatus == [band_ip : Addr17 \cup {0}, band_port : PortBan, band_ping : {0}]
CpuState == [packet : Packet17 \cup {NoPacket}, at : {"load", "protocol", "compare", "accept", "drop"},
             first : Nat, always : BOOLEAN, protocol : BOOLEAN, key : BOOLEAN]

BandShape ==
    /\ b_status \in BandStatus
    /\ setter \in [Admin -> [ban : PortBan, todo : SUBSET {"protocol", "port"}]]
    /\ lastban \in [ban : PortBan, alone : BOOLEAN]
    /\ cpu \in [Cpu -> CpuState]

\* A hook that runs has a packet whose fate is open, and its marks are true of now.
Running(c, b) == c.at \notin {"accept", "drop"} =>
    /\ c.packet \in Packet17 /\ c.packet.protocol # IPPROTO_ICMP
    /\ c.always => Bans(b, c.packet)
    /\ ProtocolBanned(b, c.packet) => c.protocol
    /\ KeyBanned(b, c.packet) => c.key

\* What the loads have found.
Loaded(c) ==
    /\ c.at \in {"protocol", "compare"} => (c.always => c.first = c.packet.key)
    /\ c.at \in {"protocol", "compare"} => (c.first = c.packet.key => c.key)
    /\ c.at = "protocol" => c.packet.hook = "nfin"
    /\ c.at = "compare" => c.protocol

\* What the verdict says.
Decided(c) ==
    /\ c.at = "accept" => ~c.always
    /\ c.at = "drop" /\ c.packet.protocol # IPPROTO_ICMP => c.protocol /\ c.key
    /\ c.packet.protocol = IPPROTO_ICMP => c.at = "drop"

Sound(c, b) == Running(c, b) /\ Loaded(c) /\ Decided(c)

HooksSound == \A k \in Cpu : Sound(cpu[k], b_status)

\* While the last call has met no other, it alone is under way, and every half it
\* has stored still stands.
LastAlone == lastban.alone =>
    /\ \A a \in Admin : InCall(a) => setter[a].ban = lastban.ban
    /\ \A a, b \in Admin : InCall(a) /\ InCall(b) => a = b
    /\ (\A a \in Admin : "protocol" \notin setter[a].todo)
          => b_status.band_port.protocol = lastban.ban.protocol
    /\ (\A a \in Admin : "port" \notin setter[a].todo)
          => b_status.band_port.port = lastban.ban.port

BandInv == BandShape /\ HooksSound /\ LastAlone

-----------------------------------------------------------------------------

\* init gives every variable a value the invariant allows.
LEMMA BandStarts == BandInit => BandInv
<1> SUFFICES ASSUME BandInit PROVE BandInv  OBVIOUS
<1>1. BandShape
  BY DEF BandInit, BandShape, BandStatus, PortBan, NoBan, CpuState
<1>2. HooksSound
  BY DEF BandInit, HooksSound, Sound, Running, Loaded, Decided, NoPacket, IPPROTO_ICMP
<1>3. LastAlone
  BY DEF BandInit, LastAlone, InCall, NoBan
<1> QED  BY <1>1, <1>2, <1>3 DEF BandInv

\* A store by whomever leaves the hooks sound.
LEMMA StoreSound ==
    ASSUME BandShape, HooksSound, NEW b \in BandStatus, Store(b)
    PROVE  b_status' = b /\ cpu' \in [Cpu -> CpuState] /\ HooksSound'
<1>1. b_status' = b  BY DEF Store
<1>2. ASSUME NEW k \in Cpu
      PROVE  cpu'[k] \in CpuState /\ Sound(cpu'[k], b)
  <2>0. cpu[k] \in CpuState /\ Sound(cpu[k], b_status)  BY DEF BandShape, HooksSound
  <2>1. CASE ~InHook(k)
    <3>1. cpu'[k] = cpu[k]  BY <2>1 DEF Store
    <3> QED  BY <3>1, <2>0, <2>1 DEF Sound, Running, InHook
  <2>2. CASE InHook(k)
    <3> DEFINE p == cpu[k].packet
    <3>1. cpu'[k] = [cpu[k] EXCEPT !.always = @ /\ Bans(b, p), !.protocol = @ \/ ProtocolBanned(b, p),
                                   !.key = @ \/ KeyBanned(b, p)]
      BY <2>2 DEF Store
    <3> HIDE DEF p
    <3>2. /\ cpu'[k].packet = cpu[k].packet /\ cpu'[k].at = cpu[k].at /\ cpu'[k].first = cpu[k].first
          /\ cpu'[k].always = (cpu[k].always /\ Bans(b, p))
          /\ cpu'[k].protocol = (cpu[k].protocol \/ ProtocolBanned(b, p))
          /\ cpu'[k].key = (cpu[k].key \/ KeyBanned(b, p))
      BY <3>1, <2>0 DEF CpuState
    <3>3. cpu'[k] \in CpuState  BY <3>1, <2>0 DEF CpuState, Bans, ProtocolBanned, KeyBanned
    <3>4. Running(cpu'[k], b)  BY <3>2, <2>0, <2>2 DEF Running, Sound, InHook, p
    <3>5. Loaded(cpu'[k])  BY <3>2, <2>0, <2>2 DEF Loaded, Sound
    <3>6. Decided(cpu'[k])  BY <3>2, <2>0, <2>2 DEF Decided, Sound, InHook, Running
    <3> QED  BY <3>3, <3>4, <3>5, <3>6 DEF Sound
  <2> QED  BY <2>1, <2>2
<1>3. cpu' = [k \in Cpu |-> cpu'[k]]  BY DEF Store
<1> QED  BY <1>1, <1>2, <1>3 DEF HooksSound

\* No step of the module's life disturbs a hook: exit resets b_status when nobody
\* is inside, and a call that is over has been waited for.
LEMMA LifeKeepsInv ==
    ASSUME BandInv, init \/ rmmod \/ exit
    PROVE  BandInv'
<1> USE DEF BandInv
<1>1. CASE UNCHANGED <<b_status, setter, lastban, cpu>>
  BY <1>1 DEF BandShape, HooksSound, LastAlone, InCall
<1>2. CASE exit /\ registered = {}
  <2>1. /\ b_status' = [band_ip |-> 0, band_port |-> NoBan, band_ping |-> 0]
        /\ lastban' = [ban |-> NoBan, alone |-> TRUE] /\ UNCHANGED <<setter, cpu>>
    BY <1>2 DEF exit
  <2>2. ~Inside("nfin") /\ ~Inside("nfout") /\ ~Inside("nfsockopt")
    BY <1>2 DEF exit, Hooks
  <2>3. ASSUME NEW k \in Cpu PROVE ~InHook(k)
    <3>1. InHook(k) => cpu[k].packet \in Packet17  BY DEF HooksSound, Sound, Running, InHook
    <3>2. InHook(k) => cpu[k].packet.hook \in {"nfin", "nfout"}  BY <3>1 DEF Packet17
    <3> QED  BY <3>2, <2>2 DEF Inside
  <2>4. \A a \in Admin : ~InCall(a)  BY <2>2 DEF Inside
  <2>5. BandShape'  BY <2>1 DEF BandShape, BandStatus, PortBan, NoBan
  <2>6. HooksSound'  BY <2>1, <2>3 DEF HooksSound, Sound, Running, Loaded, Decided, InHook
  <2>7. LastAlone'  BY <2>1, <2>4 DEF LastAlone, InCall, NoBan
  <2> QED  BY <2>5, <2>6, <2>7
<1> QED  BY <1>1, <1>2 DEF init, rmmod, exit

\* A ban of the address, the only command of one word that arrives.
LEMMA SetWordKeepsInv ==
    ASSUME BandInv, NEW a \in Admin, SetWord(a)
    PROVE  BandInv'
<1> USE DEF BandInv
<1>1. PICK word \in Addr17 \cup {0} : Store([b_status EXCEPT !.band_ip = word])
  BY DEF SetWord, InRange, SOE_BANDIP, SOE_BANDPING
<1> DEFINE b == [b_status EXCEPT !.band_ip = word]
<1>2. b \in BandStatus /\ b.band_port = b_status.band_port  BY DEF BandShape, BandStatus
<1>3. b_status' = b /\ cpu' \in [Cpu -> CpuState] /\ HooksSound'
  BY <1>1, <1>2, StoreSound
<1>4. UNCHANGED <<setter, lastban>>  BY DEF SetWord
<1> HIDE DEF b
<1>5. BandShape'  BY <1>2, <1>3, <1>4 DEF BandShape
<1>6. LastAlone'  BY <1>2, <1>3, <1>4 DEF LastAlone, InCall
<1> QED  BY <1>3, <1>5, <1>6

\* A call that is to store a ban of a port.
LEMMA SetPortKeepsInv ==
    ASSUME BandInv, NEW a \in Admin, SetPort(a)
    PROVE  BandInv'
<1> USE DEF BandInv
<1>1. PICK protocol \in {0, IPPROTO_TCP, IPPROTO_UDP}, port \in Port17 \cup {0} :
        /\ setter' = [setter EXCEPT ![a] = [ban |-> Ban(protocol, port), todo |-> {"protocol", "port"}]]
        /\ lastban' = [ban |-> Ban(protocol, port), alone |-> \A c \in Admin : ~InCall(c)]
  BY DEF SetPort
<1> DEFINE ban == Ban(protocol, port)
<1>2. ban \in PortBan  BY DEF Ban, NoBan, PortBan
<1> HIDE DEF ban
<1>3. UNCHANGED <<b_status, cpu>>  BY DEF SetPort
<1>4. lastban'.ban = ban /\ lastban'.alone \in BOOLEAN /\ (lastban'.alone => \A c \in Admin : ~InCall(c))
  BY <1>1 DEF ban
<1>5. /\ setter'[a] = [ban |-> ban, todo |-> {"protocol", "port"}]
      /\ \A c \in Admin \ {a} : setter'[c] = setter[c]
  BY <1>1 DEF BandShape, ban
<1>6. BandShape'
  <2>1. lastban' \in [ban : PortBan, alone : BOOLEAN]  BY <1>1, <1>2, <1>4 DEF ban
  <2>2. setter' \in [Admin -> [ban : PortBan, todo : SUBSET {"protocol", "port"}]]
    BY <1>1, <1>2 DEF BandShape, ban
  <2> QED  BY <1>3, <2>1, <2>2 DEF BandShape
<1>7. HooksSound'  BY <1>3 DEF HooksSound
<1>8. LastAlone'  BY <1>4, <1>5 DEF LastAlone, InCall
<1> QED  BY <1>6, <1>7, <1>8

\* One half of the ban is stored.
LEMMA StoreHalfKeepsInv ==
    ASSUME BandInv, NEW a \in Admin, StoreHalf(a)
    PROVE  BandInv'
<1> USE DEF BandInv
<1> DEFINE stored(half) == [b_status EXCEPT
              !.band_port.protocol = IF half = "protocol" THEN setter[a].ban.protocol ELSE @,
              !.band_port.port = IF half = "port" THEN setter[a].ban.port ELSE @]
<1>1. PICK half \in setter[a].todo :
        Store(stored(half)) /\ setter' = [setter EXCEPT ![a].todo = @ \ {half}] /\ UNCHANGED lastban
  BY DEF StoreHalf
<1>2. half \in {"protocol", "port"} /\ InCall(a) /\ setter[a].ban \in PortBan
  BY <1>1 DEF BandShape, InCall
<1>3. /\ stored(half) \in BandStatus
      /\ stored(half).band_port.protocol =
            IF half = "protocol" THEN setter[a].ban.protocol ELSE b_status.band_port.protocol
      /\ stored(half).band_port.port =
            IF half = "port" THEN setter[a].ban.port ELSE b_status.band_port.port
  BY <1>2 DEF BandShape, BandStatus, PortBan
<1> HIDE DEF stored
<1>4. b_status' = stored(half) /\ cpu' \in [Cpu -> CpuState] /\ HooksSound'
  BY <1>1, <1>3, StoreSound
<1>5. /\ setter'[a].ban = setter[a].ban /\ setter'[a].todo = setter[a].todo \ {half}
      /\ \A c \in Admin \ {a} : setter'[c] = setter[c]
  BY <1>1 DEF BandShape
<1>6. BandShape'
  <2>1. setter' \in [Admin -> [ban : PortBan, todo : SUBSET {"protocol", "port"}]]
    BY <1>1, <1>2 DEF BandShape
  <2> QED  BY <2>1, <1>1, <1>3, <1>4 DEF BandShape
<1>7. LastAlone'
  <2> SUFFICES ASSUME lastban.alone PROVE LastAlone'  BY <1>1 DEF LastAlone
  <2>1. setter[a].ban = lastban.ban /\ \A c \in Admin : InCall(c) => c = a  BY <1>2 DEF LastAlone
  <2>2. \A c \in Admin : InCall(c)' => c = a /\ setter'[c].ban = lastban'.ban  BY <2>1, <1>1, <1>5 DEF InCall
  <2>3. (\A c \in Admin : "protocol" \notin setter'[c].todo)
          => b_status'.band_port.protocol = lastban'.ban.protocol
    BY <2>1, <1>1, <1>2, <1>3, <1>4, <1>5 DEF LastAlone
  <2>4. (\A c \in Admin : "port" \notin setter'[c].todo) => b_status'.band_port.port = lastban'.ban.port
    BY <2>1, <1>1, <1>2, <1>3, <1>4, <1>5 DEF LastAlone
  <2> QED  BY <2>2, <2>3, <2>4 DEF LastAlone
<1> QED  BY <1>4, <1>6, <1>7

\* A step of one CPU's hook that leaves it sound leaves every hook sound.
LEMMA OneCpu ==
    ASSUME BandInv, NEW k \in Cpu, NEW c \in CpuState, cpu' = [cpu EXCEPT ![k] = c],
           Sound(c, b_status), UNCHANGED <<b_status, setter, lastban>>
    PROVE  BandInv'
<1>1. cpu'[k] = c /\ \A j \in Cpu \ {k} : cpu'[j] = cpu[j]  BY DEF BandInv, BandShape
<1>2. BandShape'  BY DEF BandInv, BandShape
<1>3. HooksSound'  BY <1>1 DEF BandInv, HooksSound
<1>4. LastAlone'  BY DEF BandInv, LastAlone, InCall
<1> QED  BY <1>2, <1>3, <1>4 DEF BandInv

\* The marks of a packet that has just come are those of b_status as it is.
LEMMA PacketArrivesKeepsInv ==
    ASSUME BandInv, NEW k \in Cpu, PacketArrives(k)
    PROVE  BandInv'
<1>1. PICK p \in Packet17 :
        cpu' = [cpu EXCEPT ![k] = [packet |-> p, first |-> 0, always |-> Bans(b_status, p),
                protocol |-> ProtocolBanned(b_status, p), key |-> KeyBanned(b_status, p),
                at |-> IF p.protocol = IPPROTO_ICMP THEN Verdict(b_status.band_ping = 0) ELSE "load"]]
  BY DEF PacketArrives
<1> DEFINE c == [packet |-> p, first |-> 0, always |-> Bans(b_status, p),
                protocol |-> ProtocolBanned(b_status, p), key |-> KeyBanned(b_status, p),
                at |-> IF p.protocol = IPPROTO_ICMP THEN Verdict(b_status.band_ping = 0) ELSE "load"]
<1>2. b_status \in BandStatus  BY DEF BandInv, BandShape
<1>3. b_status.band_ping = 0  BY <1>2 DEF BandStatus
<1>4. /\ c.packet = p /\ c.always = Bans(b_status, p) /\ c.protocol = ProtocolBanned(b_status, p)
      /\ c.key = KeyBanned(b_status, p)
      /\ c.at = IF p.protocol = IPPROTO_ICMP THEN "drop" ELSE "load"
  BY <1>3 DEF Verdict
<1>5. c \in CpuState  BY <1>1, <1>3 DEF CpuState, Bans, ProtocolBanned, KeyBanned, Verdict
<1> HIDE DEF c
<1>6. Sound(c, b_status)  BY <1>4 DEF Sound, Running, Loaded, Decided
<1>7. cpu' = [cpu EXCEPT ![k] = c] /\ UNCHANGED <<b_status, setter, lastban>>
  BY <1>1 DEF c, PacketArrives
<1> QED  BY <1>5, <1>6, <1>7, OneCpu

\* What a hook that runs knows of its packet.
LEMMA RunningFacts ==
    ASSUME BandInv, NEW k \in Cpu, InHook(k)
    PROVE  /\ cpu[k] \in CpuState /\ Sound(cpu[k], b_status)
           /\ cpu[k].packet.key \in Nat \ {0}
           /\ cpu[k].packet.hook \in {"nfin", "nfout"}
           /\ b_status.band_port.port \in Nat /\ b_status.band_ip \in Nat
<1>1. cpu[k] \in CpuState /\ Sound(cpu[k], b_status) /\ b_status \in BandStatus
  BY DEF BandInv, BandShape, HooksSound
<1>2. cpu[k].packet \in Packet17 /\ cpu[k].packet.protocol # IPPROTO_ICMP
  BY <1>1 DEF Sound, Running, InHook
<1>3. cpu[k].packet.key \in Port17 \cup Addr17 /\ cpu[k].packet.hook \in {"nfin", "nfout"}
  BY <1>2 DEF Packet17
<1>4. b_status.band_port.port \in Port17 \cup {0} /\ b_status.band_ip \in Addr17 \cup {0}
  BY <1>1 DEF BandStatus, PortBan
<1>5. Port17 \subseteq Nat \ {0} /\ Addr17 \subseteq Nat \ {0}  BY BandAssumption
<1>6. cpu[k].packet.key \in Nat \ {0}  BY <1>3, <1>5
<1>7. b_status.band_port.port \in Nat /\ b_status.band_ip \in Nat
  <2>1. \A x \in (Port17 \cup {0}) \cup (Addr17 \cup {0}) : x \in Nat  BY <1>5
  <2> QED  BY <1>4, <2>1
<1> QED  BY <1>1, <1>3, <1>6, <1>7

\* The first load: without a ban now, the packet was not banned all the time.
LEMMA LoadFirstKeepsInv ==
    ASSUME BandInv, NEW k \in Cpu, LoadFirst(k)
    PROVE  BandInv'
<1> DEFINE port == cpu[k].packet.hook = "nfin"
           v == IF port THEN b_status.band_port.port ELSE b_status.band_ip
           c == [cpu[k] EXCEPT !.first = v,
                    !.at = IF v = 0 THEN "accept" ELSE IF port THEN "protocol" ELSE "compare"]
<1>1. cpu[k].at = "load" /\ cpu' = [cpu EXCEPT ![k] = c] /\ UNCHANGED <<b_status, setter, lastban>>
  BY DEF LoadFirst, BandInv, BandShape
<1>2. InHook(k)  BY <1>1 DEF InHook
<1>3. /\ cpu[k] \in CpuState /\ Sound(cpu[k], b_status) /\ cpu[k].packet.key \in Nat \ {0}
      /\ cpu[k].packet.hook \in {"nfin", "nfout"} /\ v \in Nat
  BY <1>2, RunningFacts
<1>4. KeyBanned(b_status, cpu[k].packet) <=> v = cpu[k].packet.key  BY <1>3 DEF KeyBanned
<1>5. ~port => ProtocolBanned(b_status, cpu[k].packet)  BY <1>3 DEF ProtocolBanned
<1> HIDE DEF v, port
<1>6. c \in CpuState /\ c.first = v /\ c.packet = cpu[k].packet /\ c.always = cpu[k].always
      /\ c.protocol = cpu[k].protocol /\ c.key = cpu[k].key
      /\ c.at = IF v = 0 THEN "accept" ELSE IF port THEN "protocol" ELSE "compare"
  BY <1>3 DEF CpuState
<1> HIDE DEF c
<1>7. Running(cpu[k], b_status) /\ cpu[k].at = "load"  BY <1>1, <1>3 DEF Sound
<1>8. /\ c.packet \in Packet17 /\ c.packet.protocol # IPPROTO_ICMP
      /\ c.always => v = c.packet.key
      /\ v = c.packet.key => c.key
  BY <1>4, <1>6, <1>7 DEF Running, Bans
<1>9. Running(c, b_status)  BY <1>6, <1>7 DEF Running
<1>10. Loaded(c)  BY <1>5, <1>6, <1>7, <1>8 DEF Loaded, Running, port
<1>11. Decided(c)  BY <1>3, <1>6, <1>8 DEF Decided
<1> QED  BY <1>1, <1>6, <1>9, <1>10, <1>11, OneCpu DEF Sound

\* The test of the protocol.
LEMMA LoadProtocolKeepsInv ==
    ASSUME BandInv, NEW k \in Cpu, LoadProtocol(k)
    PROVE  BandInv'
<1> DEFINE c == [cpu[k] EXCEPT !.at = IF b_status.band_port.protocol = cpu[k].packet.protocol
                                      THEN "compare" ELSE "accept"]
<1>1. cpu[k].at = "protocol" /\ cpu' = [cpu EXCEPT ![k] = c] /\ UNCHANGED <<b_status, setter, lastban>>
  BY DEF LoadProtocol
<1>2. InHook(k)  BY <1>1 DEF InHook
<1>3. cpu[k] \in CpuState /\ Sound(cpu[k], b_status)  BY <1>2, RunningFacts
<1>4. /\ c \in CpuState /\ c.first = cpu[k].first /\ c.packet = cpu[k].packet
      /\ c.always = cpu[k].always /\ c.protocol = cpu[k].protocol /\ c.key = cpu[k].key
      /\ c.at = IF b_status.band_port.protocol = cpu[k].packet.protocol THEN "compare" ELSE "accept"
  BY <1>3 DEF CpuState
<1> HIDE DEF c
<1>5. Running(cpu[k], b_status) /\ Loaded(cpu[k])  BY <1>3 DEF Sound
<1>6. cpu[k].packet.hook = "nfin"  BY <1>1, <1>5 DEF Loaded
<1>7. ProtocolBanned(b_status, cpu[k].packet) <=> b_status.band_port.protocol = cpu[k].packet.protocol
  BY <1>6 DEF ProtocolBanned
<1>8. Sound(c, b_status)
  BY <1>1, <1>4, <1>5, <1>7 DEF Sound, Running, Loaded, Decided, Bans
<1> QED  BY <1>1, <1>4, <1>8, OneCpu

\* The last look: what stood all the time is found there, and what is found stood
\* at one time.
LEMMA CompareKeepsInv ==
    ASSUME BandInv, NEW k \in Cpu, Compare(k)
    PROVE  BandInv'
<1> DEFINE now == IF cpu[k].packet.hook = "nfin" THEN b_status.band_port.port ELSE b_status.band_ip
<1>1. PICK v \in {now, cpu[k].first} : cpu' = [cpu EXCEPT ![k].at = Verdict(v = cpu[k].packet.key)]
  BY DEF Compare
<1> DEFINE c == [cpu[k] EXCEPT !.at = Verdict(v = cpu[k].packet.key)]
<1>2. cpu[k].at = "compare" /\ cpu' = [cpu EXCEPT ![k] = c] /\ UNCHANGED <<b_status, setter, lastban>>
  BY <1>1 DEF Compare
<1>3. InHook(k)  BY <1>2 DEF InHook
<1>4. /\ cpu[k] \in CpuState /\ Sound(cpu[k], b_status)
      /\ cpu[k].packet.hook \in {"nfin", "nfout"}
  BY <1>3, RunningFacts
<1>5. KeyBanned(b_status, cpu[k].packet) <=> now = cpu[k].packet.key  BY <1>4 DEF KeyBanned
<1> HIDE DEF now
<1>6. /\ c \in CpuState /\ c.first = cpu[k].first /\ c.packet = cpu[k].packet
      /\ c.always = cpu[k].always /\ c.protocol = cpu[k].protocol /\ c.key = cpu[k].key
      /\ c.at = IF v = cpu[k].packet.key THEN "drop" ELSE "accept"
  BY <1>4 DEF CpuState, Verdict
<1> HIDE DEF c
<1>7. Running(cpu[k], b_status) /\ Loaded(cpu[k])  BY <1>4 DEF Sound
<1>8. Sound(c, b_status)
  BY <1>1, <1>2, <1>5, <1>6, <1>7 DEF Sound, Running, Loaded, Decided, Bans
<1> QED  BY <1>2, <1>6, <1>8, OneCpu

\* Every step keeps the invariant.
LEMMA BandStep == BandInv /\ [BandNext]_bandvars => BandInv'
<1> SUFFICES ASSUME BandInv, [BandNext]_bandvars PROVE BandInv'  OBVIOUS
<1>1. CASE init \/ rmmod \/ exit  BY <1>1, LifeKeepsInv
<1>2. CASE \E a \in Admin : SetWord(a) \/ SetPort(a) \/ StoreHalf(a)
  BY <1>2, SetWordKeepsInv, SetPortKeepsInv, StoreHalfKeepsInv
<1>3. CASE \E k \in Cpu : PacketArrives(k) \/ LoadFirst(k) \/ LoadProtocol(k) \/ Compare(k)
  BY <1>3, PacketArrivesKeepsInv, LoadFirstKeepsInv, LoadProtocolKeepsInv, CompareKeepsInv
<1>4. CASE UNCHANGED bandvars
  BY <1>4 DEF bandvars, BandInv, BandShape, HooksSound, LastAlone, InCall
<1> QED  BY <1>1, <1>2, <1>3, <1>4 DEF BandNext

\* The invariant holds in every state of the module.
LEMMA BandInvHolds == BandSpec => []BandInv
<1>1. BandInit => BandInv  BY BandStarts
<1>2. BandInv /\ [BandNext]_bandvars => BandInv'  BY BandStep
<1> QED  BY <1>1, <1>2, PTL DEF BandSpec

-----------------------------------------------------------------------------
(* The module's life.  Until exit begins a hook that runs is registered;   *)
(* and exit ends when nobody is in the hooks that no longer are.           *)

AllHooks == {"nfin", "nfout", "nfsockopt"}

LifeInv ==
    /\ \/ life = "unloaded" /\ registered = {}
       \/ life = "init" /\ registered \in {{"nfin"}, {"nfin", "nfout"}}
       \/ life = "live" /\ registered = AllHooks
       \/ life = "exit" /\ registered \in {AllHooks, {"nfout", "nfsockopt"}, {"nfsockopt"}, {}}
    /\ life # "exit" => \A i \in 1..Len(Hooks) : Inside(Hooks[i]) => Hooks[i] \in registered
    /\ \A a \in Admin : setter[a].ban = NoBan \/ 0 \notin {setter[a].ban.protocol, setter[a].ban.port}

\* How many hooks there are in each of those.
LEMMA HookCount ==
    /\ Cardinality({}) = 0
    /\ Cardinality({"nfin"}) = 1 /\ Cardinality({"nfsockopt"}) = 1
    /\ Cardinality({"nfin", "nfout"}) = 2 /\ Cardinality({"nfout", "nfsockopt"}) = 2
    /\ Cardinality(AllHooks) = 3
<1>1. \A x : IsFiniteSet({x}) /\ Cardinality({x}) = 1  BY FS_Singleton
<1>2. ASSUME NEW x, NEW y, x # y PROVE IsFiniteSet({x, y}) /\ Cardinality({x, y}) = 2
  <2>1. {x, y} = {x} \cup {y} /\ y \notin {x}  BY <1>2
  <2>2. IsFiniteSet({x}) /\ Cardinality({x}) = 1  BY <1>1
  <2>3. IsFiniteSet({x} \cup {y}) /\ Cardinality({x} \cup {y}) = Cardinality({x}) + 1
    BY <2>1, <2>2, FS_AddElement
  <2> QED  BY <2>1, <2>2, <2>3
<1>3. AllHooks = {"nfin", "nfout"} \cup {"nfsockopt"} /\ "nfsockopt" \notin {"nfin", "nfout"}
  BY DEF AllHooks
<1>4. IsFiniteSet({"nfin", "nfout"}) /\ Cardinality({"nfin", "nfout"}) = 2
  <2>1. "nfin" # "nfout"  OBVIOUS
  <2> QED  BY <1>2, <2>1
<1>5. Cardinality({"nfout", "nfsockopt"}) = 2
  <2>1. "nfout" # "nfsockopt"  OBVIOUS
  <2> QED  BY <1>2, <2>1
<1>6. Cardinality(AllHooks) = 3  BY <1>3, <1>4, FS_AddElement
<1> QED  BY <1>1, <1>4, <1>5, <1>6, FS_EmptySet

\* A step after which nobody is inside that was not keeps the hooks that run registered.
LEMMA InsideKept ==
    ASSUME LifeInv, UNCHANGED <<registered, life>>,
           \A a \in Admin : InCall(a)' => InCall(a),
           \A k \in Cpu : InHook(k)' => InHook(k) /\ cpu'[k].packet.hook = cpu[k].packet.hook,
           \A a \in Admin : setter'[a].ban = setter[a].ban
    PROVE  LifeInv'
<1>1. \A h : Inside(h)' => Inside(h)  BY DEF Inside
<1> QED  BY <1>1 DEF LifeInv

\* A store moves no hook and no packet.
LEMMA StoreMoves ==
    ASSUME BandShape, NEW b, Store(b)
    PROVE  \A k \in Cpu : InHook(k)' => InHook(k) /\ cpu'[k].packet.hook = cpu[k].packet.hook
<1> SUFFICES ASSUME NEW k \in Cpu
             PROVE  InHook(k)' => InHook(k) /\ cpu'[k].packet.hook = cpu[k].packet.hook
  OBVIOUS
<1>1. CASE ~InHook(k)
  <2>1. cpu'[k] = cpu[k]  BY <1>1 DEF Store
  <2> QED  BY <1>1, <2>1 DEF InHook
<1>2. CASE InHook(k)
  <2> DEFINE p == cpu[k].packet
  <2>1. cpu'[k] = [cpu[k] EXCEPT !.always = @ /\ Bans(b, p), !.protocol = @ \/ ProtocolBanned(b, p),
                                 !.key = @ \/ KeyBanned(b, p)]
    BY <1>2 DEF Store
  <2>2. cpu[k] \in CpuState  BY DEF BandShape
  <2> HIDE DEF p
  <2>3. cpu'[k].packet = cpu[k].packet  BY <2>1, <2>2 DEF CpuState
  <2> QED  BY <1>2, <2>3
<1> QED  BY <1>1, <1>2

\* Loading and unloading: the hooks come, and go, in their order.
LEMMA LifeOfHooks ==
    ASSUME BandInv, LifeInv, init \/ rmmod \/ exit
    PROVE  LifeInv'
<1>1. /\ Len(Hooks) = 3 /\ Hooks[1] = "nfin" /\ Hooks[2] = "nfout" /\ Hooks[3] = "nfsockopt"
  BY DEF Hooks
<1>2. UNCHANGED <<setter, cpu>>  BY DEF init, rmmod, exit
<1>3. \A h : Inside(h)' <=> Inside(h)  BY <1>2 DEF Inside, InCall, InHook
<1>4. CASE init
  <2>1. \/ life = "unloaded" /\ registered = {}
        \/ life = "init" /\ registered \in {{"nfin"}, {"nfin", "nfout"}}
    BY <1>4 DEF init, LifeInv
  <2>2. /\ registered' = registered \cup {Hooks[Cardinality(registered) + 1]}
        /\ life' = IF Cardinality(registered) + 1 = 3 THEN "live" ELSE "init"
    BY <1>1, <1>4 DEF init
  <2>3. \/ registered' = {"nfin"} /\ life' = "init"
        \/ registered' = {"nfin", "nfout"} /\ life' = "init"
        \/ registered' = {"nfin", "nfout", "nfsockopt"} /\ life' = "live"
    BY <1>1, <2>1, <2>2, HookCount
  <2>4. \A i \in 1..Len(Hooks) : Inside(Hooks[i]) => Hooks[i] \in registered
    BY <2>1 DEF LifeInv
  <2>5. registered \subseteq registered'  BY <2>2
  <2> QED  BY <1>2, <1>3, <2>3, <2>4, <2>5 DEF LifeInv, AllHooks
<1>5. CASE rmmod
  <2>1. life = "live" /\ life' = "exit" /\ UNCHANGED registered  BY <1>5 DEF rmmod
  <2> QED  BY <1>2, <2>1 DEF LifeInv
<1>6. CASE exit /\ registered = {}
  <2>1. /\ life' = "unloaded" /\ registered' = {}
        /\ \A i \in 1..Len(Hooks) : ~Inside(Hooks[i])
    BY <1>6 DEF exit
  <2> QED  BY <1>2, <1>3, <2>1 DEF LifeInv, AllHooks
<1>7. CASE exit /\ registered # {}
  <2>1. /\ life = "exit" /\ life' = life
        /\ registered' = registered \ {Hooks[1 + 3 - Cardinality(registered)]}
    BY <1>1, <1>7 DEF exit
  <2>2. \/ registered = AllHooks /\ registered' = {"nfout", "nfsockopt"}
        \/ registered = {"nfout", "nfsockopt"} /\ registered' = {"nfsockopt"}
        \/ registered = {"nfsockopt"} /\ registered' = {}
    <3>1. registered \in {AllHooks, {"nfout", "nfsockopt"}, {"nfsockopt"}}
      BY <1>7, <2>1 DEF LifeInv
    <3>2. CASE registered = AllHooks
      BY <1>1, <2>1, <3>2, HookCount DEF AllHooks
    <3>3. CASE registered = {"nfout", "nfsockopt"}
      BY <1>1, <2>1, <3>3, HookCount
    <3>4. CASE registered = {"nfsockopt"}
      BY <1>1, <2>1, <3>4, HookCount
    <3> QED  BY <3>1, <3>2, <3>3, <3>4
  <2> QED  BY <1>2, <2>1, <2>2 DEF LifeInv
<1> QED  BY <1>4, <1>5, <1>6, <1>7

\* Every step keeps it: a packet, or a call, only comes to what is registered.
LEMMA LifeStep ==
    ASSUME BandInv, LifeInv, [BandNext]_bandvars
    PROVE  LifeInv'
<1>0. BandShape  BY DEF BandInv
<1>1. CASE init \/ rmmod \/ exit  BY <1>1, LifeOfHooks
<1>2. ASSUME NEW a \in Admin, SetWord(a) PROVE LifeInv'
  <2>1. UNCHANGED <<registered, life, setter>> /\ \E b : Store(b)  BY <1>2 DEF SetWord
  <2> QED  BY <1>0, <2>1, StoreMoves, InsideKept DEF InCall
<1>3. ASSUME NEW a \in Admin, SetPort(a) PROVE LifeInv'
  <2>0. PICK protocol \in {0, IPPROTO_TCP, IPPROTO_UDP}, port \in Port17 \cup {0} :
          setter' = [setter EXCEPT ![a] = [ban |-> Ban(protocol, port), todo |-> {"protocol", "port"}]]
    BY <1>3 DEF SetPort
  <2> DEFINE ban == Ban(protocol, port)
  <2>1. setter' = [setter EXCEPT ![a] = [ban |-> ban, todo |-> {"protocol", "port"}]]
    BY <2>0
  <2>2. "nfsockopt" \in registered /\ UNCHANGED <<registered, life, cpu>>  BY <1>3 DEF SetPort
  <2>3. ban = NoBan \/ 0 \notin {ban.protocol, ban.port}
    BY DEF Ban, NoBan, IPPROTO_TCP, IPPROTO_UDP
  <2> HIDE DEF ban
  <2>4. \A c \in Admin : setter'[c] = setter[c] \/ setter'[c].ban = ban
    BY <1>0, <2>1 DEF BandShape
  <2>5. \A h : Inside(h)' => Inside(h) \/ h = "nfsockopt"
    BY <2>2 DEF Inside, InHook
  <2> QED  BY <2>2, <2>3, <2>4, <2>5 DEF LifeInv
<1>4. ASSUME NEW a \in Admin, StoreHalf(a) PROVE LifeInv'
  <2>1. UNCHANGED <<registered, life>> /\ \E b : Store(b)  BY <1>4 DEF StoreHalf
  <2>2. PICK half : setter' = [setter EXCEPT ![a].todo = @ \ {half}]  BY <1>4 DEF StoreHalf
  <2>3. \A c \in Admin : setter'[c].ban = setter[c].ban /\ setter'[c].todo \subseteq setter[c].todo
    BY <1>0, <2>2 DEF BandShape
  <2>4. \A c \in Admin : InCall(c)' => InCall(c)  BY <2>3 DEF InCall
  <2> QED  BY <1>0, <2>1, <2>3, <2>4, StoreMoves, InsideKept
<1>5. ASSUME NEW k \in Cpu, PacketArrives(k) PROVE LifeInv'
  <2>1. PICK p \in Packet17 : /\ p.hook \in registered
          /\ \A j \in Cpu : cpu'[j] = cpu[j] \/ cpu'[j].packet = p
    BY <1>0, <1>5 DEF PacketArrives, BandShape
  <2>2. UNCHANGED <<registered, life, setter>>  BY <1>5 DEF PacketArrives
  <2>3. \A h : Inside(h)' => Inside(h) \/ h \in registered
    BY <2>1, <2>2 DEF Inside, InHook, InCall
  <2> QED  BY <2>2, <2>3 DEF LifeInv
<1>6. ASSUME NEW k \in Cpu, LoadFirst(k) \/ LoadProtocol(k) \/ Compare(k) PROVE LifeInv'
  <2>1. UNCHANGED <<registered, life, setter>> /\ InHook(k)
    BY <1>6 DEF LoadFirst, LoadProtocol, Compare, InHook
  <2>2. cpu'[k].packet = cpu[k].packet /\ \A j \in Cpu : j # k => cpu'[j] = cpu[j]
    <3>1. cpu[k] \in CpuState /\ DOMAIN cpu = Cpu  BY <1>0 DEF BandShape
    <3>2. CASE LoadFirst(k)  BY <3>1, <3>2 DEF LoadFirst, CpuState
    <3>3. CASE LoadProtocol(k)  BY <3>1, <3>3 DEF LoadProtocol, CpuState
    <3>4. CASE Compare(k)  BY <3>1, <3>4 DEF Compare, CpuState
    <3> QED  BY <1>6, <3>2, <3>3, <3>4
  <2>3. \A j \in Cpu : InHook(j)' => InHook(j) /\ cpu'[j].packet.hook = cpu[j].packet.hook
    BY <2>1, <2>2 DEF InHook
  <2> QED  BY <2>1, <2>3, InsideKept DEF InCall
<1>7. CASE UNCHANGED bandvars
  BY <1>7, InsideKept DEF bandvars, InCall, InHook
<1> QED  BY <1>1, <1>2, <1>3, <1>4, <1>5, <1>6, <1>7 DEF BandNext

\* The module is not there at first, and nobody in it.
LEMMA LifeStarts == BandInit => LifeInv
<1> SUFFICES ASSUME BandInit PROVE LifeInv  OBVIOUS
<1>1. \A h : ~Inside(h)  BY DEF BandInit, Inside, InCall, InHook
<1> QED  BY <1>1 DEF BandInit, LifeInv

-----------------------------------------------------------------------------
(* What follows of it.                                                     *)

\* Whatever administrators store meanwhile, a packet whose ban stood for as long as
\* its hook ran is dropped.
THEOREM BannedIsDropped == BandSpec => []NoAcceptUnderBan
<1>1. BandInv => NoAcceptUnderBan
  BY DEF BandInv, HooksSound, Sound, Decided, NoAcceptUnderBan
<1> QED  BY <1>1, BandInvHolds, PTL

\* A packet that is dropped met a ban of its protocol and one of its port, or of its
\* address, while its hook ran.
THEOREM DroppedForACause == BandSpec => []NoDropWithoutCause
<1>1. BandInv => NoDropWithoutCause
  BY DEF BandInv, HooksSound, Sound, Decided, NoDropWithoutCause
<1> QED  BY <1>1, BandInvHolds, PTL

\* An administrator whose call met no other finds its ban in force.
THEOREM LoneBanStands == BandSpec => []LastBanStands
<1>1. BandInv => LastBanStands
  <2> SUFFICES ASSUME BandInv, \A a \in Admin : ~InCall(a), lastban.alone
               PROVE  b_status.band_port = lastban.ban
    BY DEF LastBanStands
  <2>1. \A a \in Admin : setter[a].todo = {}  BY DEF InCall
  <2>2. /\ b_status.band_port.protocol = lastban.ban.protocol
        /\ b_status.band_port.port = lastban.ban.port
    BY <2>1 DEF BandInv, LastAlone
  <2>3. b_status.band_port \in PortBan /\ lastban.ban \in PortBan
    BY DEF BandInv, BandShape, BandStatus
  <2> QED  BY <2>2, <2>3 DEF PortBan
<1> QED  BY <1>1, BandInvHolds, PTL

\* All of it: the hooks do what the bans say, though nothing is locked.
THEOREM BansAlwaysHold == BandSpec => []BansHold
<1>1. NoAcceptUnderBan /\ NoDropWithoutCause /\ LastBanStands => BansHold
  BY DEF BansHold
<1> QED  BY <1>1, BannedIsDropped, DroppedForACause, LoneBanStands, PTL

\* Its words keep to their values, and when the module is gone nobody is inside: each
\* hook is waited for, although the three go one after the other.
THEOREM BandStaysSound == BandSpec => []BandSound
<1>1. LifeInv /\ BandInv /\ [BandNext]_bandvars => LifeInv'  BY LifeStep
<1>2. BandInv /\ LifeInv => BandSound
  <2> SUFFICES ASSUME BandInv, LifeInv PROVE BandSound  OBVIOUS
  <2>1. NobodyInside  BY DEF NobodyInside, LifeInv
  <2>2. registered \subseteq {Hooks[i] : i \in 1..Len(Hooks)}
    <3>1. registered \subseteq AllHooks  BY DEF LifeInv, AllHooks
    <3>2. /\ 1 \in 1..Len(Hooks) /\ 2 \in 1..Len(Hooks) /\ 3 \in 1..Len(Hooks)
          /\ Hooks[1] = "nfin" /\ Hooks[2] = "nfout" /\ Hooks[3] = "nfsockopt"
      BY DEF Hooks
    <3> QED  BY <3>1, <3>2 DEF AllHooks
  <2>3. b_status \in [band_ip : Addr17 \cup {0}, band_ping : {0, 1}, band_port : PortBan]
    BY DEF BandInv, BandShape, BandStatus
  <2>4. \A k \in Cpu : cpu[k].packet \in Packet17 \cup {NoPacket}
    BY DEF BandInv, BandShape, CpuState
  <2>5. BandTypeOK  BY <2>2, <2>3, <2>4 DEF BandTypeOK, PortBan, LifeInv
  <2> QED  BY <2>1, <2>5 DEF BandSound
<1> QED  BY <1>1, <1>2, LifeStarts, BandInvHolds, PTL DEF BandSpec
=============================================================================
