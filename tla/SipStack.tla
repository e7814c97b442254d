------------------------------ MODULE SipStack ------------------------------
(***************************************************************************)
(* The user-space IP stack (src/19_sip/sip): one loop reads a frame and    *)
(* carries it through Ethernet, ARP, IP, reassembly, ICMP and UDP, all in  *)
(* one call of input.  Kept: the ARP table, the list of reassemblies, and  *)
(* whether the process lives; its buffers are left out.                    *)
(*                                                                         *)
(* The device is cleared by sip_init_ethnet and nobody sets its mtu, so    *)
(* ip_output always goes through ip_frag with an mtu of 0.  sendto is given *)
(* the wrapped length that skb_put leaves in a new buffer and refuses it:  *)
(* whatever lowoutput is given, it only frees.                             *)
(***************************************************************************)
EXTENDS Integers, FiniteSets, FiniteSetsExt

CONSTANTS
    Peer,           \* addresses that frames come from
    Hardware,       \* hardware addresses
    Own, OwnHardware,   \* the stack's own, which frames may come from too
    ArpTableSize, ArpLiveTime,
    MaxClock        \* bound of time(NULL)

ASSUME SipAssumption ==
    /\ ArpTableSize \in Nat \ {0} /\ ArpLiveTime \in Nat
    /\ MaxClock \in Nat
    /\ Own \in Peer /\ OwnHardware \in Hardware

Slot == 1..ArpTableSize
NoPeer == 0
NoHardware == 0
ASSUME SipNobody == NoPeer \notin Peer /\ NoHardware \notin Hardware

VARIABLES
    arp,        \* arp_table
    clock,      \* time(NULL)
    reass,      \* ip_reass_list: "empty", "one" entry, or a "freed" one
    stack,      \* "running" or "dead"
    heard,      \* history: the hardware address last told of each address
    heardAt,    \* history: and when
    setBack     \* history: the clock has been set back
sipvars == <<arp, clock, reass, stack, heard, heardAt, setBack>>

EmptySlot == [ip |-> NoPeer, hw |-> NoHardware, ctime |-> 0, status |-> "EMPTY"]

-----------------------------------------------------------------------------
(* The ARP table.                                                           *)

Outdated(e) == e.ctime > clock + ArpLiveTime
Holds(e, ip) == e.ip = ip /\ e.status = "ESTABLISHED"

\* Where arp_find_entry stops: 0 when it reaches the end.
FindEntry(t, ip) ==
    LET hits == {i \in Slot : ~Outdated(t[i]) /\ Holds(t[i], ip)} IN
    IF hits = {} THEN 0 ELSE Min(hits)

\* What arp_find_entry leaves of the table: it empties what it passes.
Swept(t, ip) ==
    LET f == FindEntry(t, ip) IN
    [i \in Slot |-> IF Outdated(t[i]) /\ (f = 0 \/ i < f)
                    THEN [t[i] EXCEPT !.status = "EMPTY"] ELSE t[i]]

\* Mutant: a table that is full gives up its first entry.
AddEntryEvicts(t, ip, hw) ==
    LET s == Swept(t, ip)
        f == FindEntry(t, ip)
        free == {i \in Slot : s[i].status = "EMPTY"}
        g == IF f # 0 THEN f ELSE IF free # {} THEN Min(free) ELSE 1 IN
    [s EXCEPT ![g] = [ip |-> ip, hw |-> hw, ctime |-> clock, status |-> "ESTABLISHED"]]

\* arp_add_entry: the entry of the address, else the first empty one, else none.
AddEntry(t, ip, hw) ==
    LET s == Swept(t, ip)
        f == FindEntry(t, ip)
        free == {i \in Slot : s[i].status = "EMPTY"}
        g == IF f # 0 THEN f ELSE IF free # {} THEN Min(free) ELSE 0 IN
    IF g = 0 THEN s
    ELSE [s EXCEPT ![g] = [ip |-> ip, hw |-> hw, ctime |-> clock, status |-> "ESTABLISHED"]]

Hear(ip, hw) ==
    /\ arp' = AddEntry(arp, ip, hw)
    /\ heard' = [heard EXCEPT ![ip] = hw]
    /\ heardAt' = [heardAt EXCEPT ![ip] = clock]

-----------------------------------------------------------------------------
(* Frames.  A datagram is what ip_input asks of it: whether it is "refused"  *)
(* for its version, its lengths, its checksum or its address, whether it is *)
(* a fragment, and where it goes.  A datagram that is longer than its       *)
(* header is one of the refused, by the test of sip_ip.c:286.               *)
(* "silent" is whatever leaves nothing behind: an echo to a broadcast       *)
(* address, the other ICMP types, UDP (no control block is ever made), and  *)
(* the protocols nobody handles.                                            *)

Fragment == {"whole", "part", "exact"}          \* "exact": its end is at byte 20
Upper == {"echo", "silent"}
Datagram ==
    [refused: {TRUE}, frag: {"whole"}, up: {"silent"}] \cup [refused: {FALSE}, frag: Fragment, up: Upper]

SipInit ==
    /\ arp = [i \in Slot |-> EmptySlot]
    /\ clock = 0
    /\ reass = "empty"
    /\ stack = "running"
    /\ heard = [p \in Peer |-> NoHardware]
    /\ heardAt = [p \in Peer |-> 0]
    /\ setBack = FALSE

\* A frame for another host, or of another protocol.
InputOther == stack = "running" /\ UNCHANGED sipvars

\* update_arp_entry for our own address, which has an entry once a frame has come from it.
OwnEntry ==
    IF FindEntry(arp, Own) = 0 THEN Swept(arp, Own) ELSE AddEntry(arp, Own, OwnHardware)
OwnHeard == IF FindEntry(arp, Own) = 0 THEN heard ELSE [heard EXCEPT ![Own] = OwnHardware]
OwnHeardAt == IF FindEntry(arp, Own) = 0 THEN heardAt ELSE [heardAt EXCEPT ![Own] = clock]

\* What arp_input makes of the table.  A frame that asks for another address does
\* not get there; of any other our own address is looked up first.
AfterArp(ip, hw, op) ==
    \/ op = "elsewhere" /\ UNCHANGED <<arp, heard, heardAt>>
    \/ op = "other" /\ arp' = OwnEntry /\ heard' = OwnHeard /\ heardAt' = OwnHeardAt
    \/ /\ op \in {"request", "reply"}
       /\ arp' = AddEntry(OwnEntry, ip, hw)
       /\ heard' = [OwnHeard EXCEPT ![ip] = hw]
       /\ heardAt' = [OwnHeardAt EXCEPT ![ip] = clock]

\* input and arp_input.  The answer to a request goes out before its sender is entered.
InputArp(ip, hw, op) ==
    /\ stack = "running"
    /\ AfterArp(ip, hw, op)
    /\ UNCHANGED <<clock, reass, stack, setBack>>

\* The switch of ip_input, with icmp_input, icmp_echo and ip_output behind it:
\* output is given the NULL that ip_frag makes of an answer to an echo.
HandUp(up) == stack' = IF up = "echo" THEN "dead" ELSE stack

\* sip_reassemble: the first fragment gets an entry that holds no data, and is
\* handed up as if whole.  An entry always looks timed out; it is unlinked
\* through itself, freed and followed: the process dies, or finds the end of
\* the list there and links a new entry before the freed one.
Reassemble(frag, up) ==
    \/ (reass # "empty" \/ frag = "exact") /\ stack' = "dead" /\ UNCHANGED reass
    \/ /\ frag # "exact"
       /\ HandUp(up)
       /\ reass' = IF reass = "empty" THEN "one" ELSE "freed"

\* input and ip_input: the sender is entered first, whatever is wrong with the rest.
InputIp(ip, hw, d) ==
    /\ stack = "running"
    /\ Hear(ip, hw)
    /\ UNCHANGED <<clock, setBack>>
    /\ IF d.refused THEN UNCHANGED <<reass, stack>>
       ELSE IF d.frag = "whole" THEN HandUp(d.up) /\ UNCHANGED reass
       ELSE Reassemble(d.frag, d.up)

ClockTick ==
    /\ stack = "running" /\ clock < MaxClock
    /\ clock' = clock + 1
    /\ UNCHANGED <<arp, reass, stack, heard, heardAt, setBack>>

SetClockBack(t) ==
    /\ stack = "running" /\ t < clock
    /\ clock' = t
    /\ setBack' = TRUE
    /\ UNCHANGED <<arp, reass, stack, heard, heardAt>>

SipNext ==
    \/ InputOther \/ ClockTick
    \/ \E t \in 0..MaxClock : SetClockBack(t)
    \/ \E ip \in Peer, hw \in Hardware :
          \/ \E op \in {"request", "reply", "other", "elsewhere"} : InputArp(ip, hw, op)
          \/ \E d \in Datagram : InputIp(ip, hw, d)

SipSpec == SipInit /\ [][SipNext]_sipvars

-----------------------------------------------------------------------------
(* Properties.                                                             *)

Established == {i \in Slot : arp[i].status = "ESTABLISHED"}

SipTypeOK ==
    /\ arp \in [Slot -> [ip: Peer \cup {NoPeer}, hw: Hardware \cup {NoHardware},
                         ctime: 0..MaxClock, status: {"EMPTY", "ESTABLISHED"}]]
    /\ clock \in 0..MaxClock
    /\ reass \in {"empty", "one", "freed"}
    /\ stack \in {"running", "dead"}
    /\ heard \in [Peer -> Hardware \cup {NoHardware}] /\ heardAt \in [Peer -> 0..MaxClock]
    /\ setBack \in BOOLEAN

\* The table is a map: an address is established in at most one slot, however
\* entries were refused, emptied by a clock that was set back, and refilled.
ArpIsAMap ==
    \A i, j \in Established : arp[i].ip = arp[j].ip => i = j

\* What the table says of an address is what was last told of it, by a frame that came
\* from it or, of our own, by the stack; and as long as the clock was never set back it
\* says so of every address heard of within the live time, unless the table is full.
ArpHoldsLastHeard ==
    /\ \A i \in Established : arp[i].hw = heard[arp[i].ip]
    /\ \A p \in Peer : heard[p] # NoHardware /\ clock <= heardAt[p] + ArpLiveTime /\ ~setBack =>
           Established = Slot \/ \E i \in Established : arp[i].ip = p

\* An entry whose time is within the live time of the clock, before or behind it, is not
\* given up, whoever else asks for a slot.
LiveEntriesStay ==
    [][\A i \in Established :
          arp[i].ctime <= clock + ArpLiveTime /\ clock <= arp[i].ctime + ArpLiveTime =>
              Holds(arp'[i], arp[i].ip)]_sipvars

\* The ARP table from frame to frame: a map, of the addresses last heard, that
\* keeps what is alive.
ArpTableSound == [](SipTypeOK /\ ArpIsAMap /\ ArpHoldsLastHeard) /\ LiveEntriesStay
=============================================================================
