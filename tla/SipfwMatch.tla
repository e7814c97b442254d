----------------------------- MODULE SipfwMatch -----------------------------
(***************************************************************************)
(* From what an administrator types to the packets a rule catches: the     *)
(* option parser of the tool (sipfw_u.c), the rule the kernel makes of the *)
(* options (sipfw_k_nl.c) and the comparison of a packet with it           *)
(* (sipfw_k_common.c).  `typed` remembers the options as words; the packets*)
(* are compared with the words in the properties and with the rule in the  *)
(* code.                                                                   *)
(*                                                                         *)
(* Addresses and ports are small numbers; 0 is the code's wildcard.  The   *)
(* union addtion is kept as its flag bits, which are also the ICMP type,   *)
(* and its valid byte, which is also the ICMP code (sipfw.h:83-110, little *)
(* endian).                                                                *)
(***************************************************************************)
EXTENDS Integers, Sequences, FiniteSets, FiniteSetsExt

CONSTANTS
    Host, Port,         \* the addresses and ports to type and to send
    Number,             \* the positions to type
    Garbage             \* what the dest field of a fresh rule may hold

ASSUME HostAssumption == Host \subseteq Nat
ASSUME PortAssumption == \A x \in Port : x \in Nat /\ x < 65536
ASSUME NumberAssumption == \A x \in Number : x \in Nat /\ x < 65536

ICMP == 1  IGMP == 2  TCP == 6  UDP == 17  GRE == 47
ProtocolNames == {"tcp", "udp", "icmp", "igmp", "all"}      \* "all": no such name

Flags == {"fin", "syn", "rst", "ack"}
Bit == [f \in Flags |-> CASE f = "fin" -> 1 [] f = "syn" -> 2 [] f = "rst" -> 4 [] f = "ack" -> 16]
\* The byte of struct tcp_flag that holds the flags fs.
ByteOf(fs) == MapThenSumSet(LAMBDA f : Bit[f], fs)

\* -y, -f, -k and -r: the flags each sets in addtion.tcp.
FlagsOf(opt) ==
    CASE opt = "y" -> {"syn"} [] opt = "f" -> {"fin"} [] opt = "k" -> {"ack", "syn"} [] opt = "r" -> {"rst"}

\* An IP packet, with the fields every protocol has in one record: flags are TCP's, a type
\* and a code those of ICMP and IGMP.
Packet ==
    {k \in [protocol: {ICMP, IGMP, TCP, UDP, GRE}, saddr: Host \ {0}, daddr: Host \ {0},
            source: Port \ {0}, dest: Port \ {0}, flags: SUBSET Flags, type: {0, 2, 8}, code: {0, 1}] :
        /\ k.protocol # TCP => k.flags = {}
        /\ k.protocol \notin {ICMP, IGMP} => k.type = 0 /\ k.code = 0}

VARIABLES
    typed,      \* the options as the administrator means them
    opt,        \* struct sipfw_cmd_opts
    rule,       \* the rule in the kernel, or <<>>
    position    \* the number that came with it
matchvars == <<typed, opt, rule, position>>

MatchInit ==
    /\ typed = [s |-> 0, d |-> 0, m |-> 0, n |-> 0, p |-> "", flags |-> {}, u |-> -1]
    /\ opt = [source |-> 0, dest |-> 0, sport |-> 0, dport |-> 0, protocol |-> -1,
              flags |-> {}, valid |-> 0, number |-> -1]
    /\ rule = <<>>
    /\ position = -1

-----------------------------------------------------------------------------
(* The tool.                                                               *)

Htons(x) == (x % 256) * 256 + x \div 256

\* The name of a protocol becomes its value, and a name not in the table 0.
ProtocolValue(name) ==
    CASE name = "tcp" -> TCP [] name = "udp" -> UDP [] name = "icmp" -> ICMP
      [] name = "igmp" -> IGMP [] name = "all" -> 0

Parsing == rule = <<>> /\ UNCHANGED <<rule, position>>

\* One option of the command line; the last of two like ones holds.
OptSource(a) ==
    /\ Parsing
    /\ typed' = [typed EXCEPT !.s = a]
    /\ opt' = [opt EXCEPT !.source = a]
OptDest(a) ==
    /\ Parsing
    /\ typed' = [typed EXCEPT !.d = a]
    /\ opt' = [opt EXCEPT !.dest = a]
OptSport(x) ==
    /\ Parsing
    /\ typed' = [typed EXCEPT !.m = x]
    /\ opt' = [opt EXCEPT !.sport = Htons(x)]
OptDport(x) ==
    /\ Parsing
    /\ typed' = [typed EXCEPT !.n = x]
    /\ opt' = [opt EXCEPT !.dport = Htons(x)]
OptProtocol(name) ==
    /\ Parsing
    /\ typed' = [typed EXCEPT !.p = name]
    /\ opt' = [opt EXCEPT !.protocol = ProtocolValue(name)]
OptFlag(f) ==
    /\ Parsing
    /\ typed' = [typed EXCEPT !.flags = @ \cup {f}]
    /\ opt' = [opt EXCEPT !.flags = @ \cup FlagsOf(f), !.valid = 1]
\* A position is read like a port.
OptNumber(x) ==
    /\ Parsing
    /\ typed' = [typed EXCEPT !.u = x]
    /\ opt' = [opt EXCEPT !.number = Htons(x)]

-----------------------------------------------------------------------------
(* The kernel.                                                             *)

\* The rule of SIPFW_NLDoAction: opt.dest is not copied, and the rule's keeps what
\* kmalloc found there.
NLCopyRule(d) ==
    /\ rule = <<>>
    /\ rule' = <<[source |-> opt.source, dest |-> d, sport |-> opt.sport, dport |-> opt.dport,
                  protocol |-> opt.protocol % 256, flags |-> opt.flags, valid |-> opt.valid]>>
    /\ position' = opt.number
    /\ UNCHANGED <<typed, opt>>

\* Mutant: the source address not compared.
IPMatchDestOnly(k, r) ==
    /\ k.daddr = r.dest \/ r.dest = 0
    /\ k.protocol = r.protocol \/ r.protocol = 0

IsIPMatch(k, r) ==
    /\ k.daddr = r.dest \/ r.dest = 0
    /\ k.saddr = r.source \/ r.source = 0
    /\ k.protocol = r.protocol \/ r.protocol = 0

PortsMatch(k, r) ==
    /\ Htons(k.source) = r.sport \/ r.sport = 0
    /\ Htons(k.dest) = r.dport \/ r.dport = 0

IsAddtionMatch(k, r) ==
    \/ /\ k.protocol = TCP /\ PortsMatch(k, r)
       /\ r.valid = 0 \/ \A f \in {"ack", "fin", "syn"} : f \in r.flags <=> f \in k.flags
    \/ k.protocol = UDP /\ PortsMatch(k, r)
    \/ /\ k.protocol \in {ICMP, IGMP}
       /\ r.valid = 0 \/ (ByteOf(r.flags) = k.type /\ r.valid = k.code)

Matches(k, r) == IsIPMatch(k, r) /\ IsAddtionMatch(k, r)

MatchNext ==
    \/ \E a \in Host : OptSource(a) \/ OptDest(a)
    \/ \E x \in Port : OptSport(x) \/ OptDport(x)
    \/ \E name \in ProtocolNames : OptProtocol(name)
    \/ \E f \in {"y", "f", "k", "r"} : OptFlag(f)
    \/ \E x \in Number : OptNumber(x)
    \/ \E d \in Garbage : NLCopyRule(d)

MatchSpec == MatchInit /\ [][MatchNext]_matchvars

-----------------------------------------------------------------------------
(* Properties.                                                             *)

\* The packets the options describe, option by option, flags and -d apart.
Described(k) ==
    /\ typed.s \in {0, k.saddr}
    /\ typed.p \in {"", "all"} \/ k.protocol = ProtocolValue(typed.p)
    /\ k.protocol \in {TCP, UDP} => typed.m \in {0, k.source} /\ typed.n \in {0, k.dest}

\* A rule never catches a packet that -s, -m, -n or -p excludes: the byte orders of tool
\* and kernel agree, -p narrows, and no option widens what another one asks.  (-d
\* excludes nothing: see DestinationIsMatched.)
NeverTooWide == rule # <<>> => \A k \in Packet : Matches(k, rule[1]) => Described(k)

\* A rule with a protocol and no flags catches every packet its options
\* describe that its (unset) dest lets pass, of the four protocols it knows.
NeverTooNarrow ==
    rule # <<>> /\ typed.p # "" /\ typed.flags = {} =>
        \A k \in Packet :
            Described(k) /\ k.protocol # GRE /\ rule[1].dest \in {0, k.daddr} => Matches(k, rule[1])

\* A TCP packet that a rule with -y, -k or -f catches carries those flags.
FlagsAreCarried ==
    rule # <<>> =>
        \A k \in Packet : k.protocol = TCP /\ Matches(k, rule[1]) =>
            \A f \in typed.flags \ {"r"} : FlagsOf(f) \subseteq k.flags

\* A rule matches what its options other than -d describe, and its flags no less.
MatchesDescribed == NeverTooWide /\ NeverTooNarrow /\ FlagsAreCarried

\* -d is "the IP address of the destination host" (sipfw_u.c:168): a rule catches no packet
\* to another one.
DestinationIsMatched == rule # <<>> => \A k \in Packet : Matches(k, rule[1]) => typed.d \in {0, k.daddr}
=============================================================================
