------------------------------- MODULE NfBand -------------------------------
(***************************************************************************)
(* The second netfilter example (17_netfiler/17.6.9/test.c): hooks that    *)
(* drop packets as b_status says, and the socket option with which an      *)
(* administrator sets it.  Neither takes a lock: the hooks of two CPUs and *)
(* the calls of two administrators read and write b_status word by word.   *)
(* The kernel's part is external: a hook that is unregistered is waited    *)
(* for, and so is a call of the option.  A caller without the capability,  *)
(* or whose buffer cannot be read, changes nothing and is left out, and    *)
(* the calls of registration are taken to succeed.                         *)
(***************************************************************************)
EXTENDS Integers, Sequences, FiniteSets

CONSTANTS
    Admin,      \* sockets with the capability CAP_NET_ADMIN
    Cpu,        \* each runs one hook at a time
    Addr17,     \* addresses a packet may come from
    Port17,     \* ports a packet may go to
    MaxSets     \* bound: calls of setsockopt

ASSUME BandAssumption ==
    /\ Addr17 \subseteq Nat \ {0} /\ Port17 \subseteq Nat \ {0} /\ MaxSets \in Nat

IPPROTO_TCP == 6
IPPROTO_UDP == 17
IPPROTO_ICMP == 1
SOE_BANDIP == 24577         \* 0x6001
SOE_BANDPORT == 24578
SOE_BANDPING == 24579


Hooks == <<"nfin", "nfout", "nfsockopt">>       \* in the order of init and of exit
NoBan == [protocol |-> 0, port |-> 0]
Packet17 == [hook : {"nfin"}, protocol : {IPPROTO_TCP, IPPROTO_UDP}, key : Port17]
          \cup {[hook |-> "nfin", protocol |-> IPPROTO_ICMP, key |-> 0]}
          \cup [hook : {"nfout"}, protocol : {0}, key : Addr17]
NoPacket == [hook |-> "none", protocol |-> 0, key |-> 0]

VARIABLES
    life,       \* "unloaded", "init", "live" or "exit"
    registered, \* the members of Hooks the kernel knows
    b_status,
    setter,     \* an administrator's call: the port ban it stores, the halves not stored yet
    sets,       \* calls so far
    lastban,    \* the port ban asked for last, and whether its call has met no other
    cpu         \* a CPU's packet, the step of its hook and its first load; and, since
                \* the hook began: was the packet always banned, was its protocol
                \* ever, was its key ever
bandvars == <<life, registered, b_status, setter, sets, lastban, cpu>>

BandInit ==
    /\ life = "unloaded" /\ registered = {}
    /\ b_status = [band_ip |-> 0, band_port |-> NoBan, band_ping |-> 0]
    /\ setter = [a \in Admin |-> [ban |-> NoBan, todo |-> {}]]
    /\ sets = 0
    /\ lastban = [ban |-> NoBan, alone |-> TRUE]
    /\ cpu = [k \in Cpu |-> [packet |-> NoPacket, at |-> "accept", first |-> 0,
                          always |-> FALSE, protocol |-> FALSE, key |-> FALSE]]

InHook(k) == cpu[k].at \notin {"accept", "drop"}
InCall(a) == setter[a].todo # {}
Inside(h) ==
    \/ h = "nfsockopt" /\ \E a \in Admin : InCall(a)
    \/ \E k \in Cpu : InHook(k) /\ cpu[k].packet.hook = h

-----------------------------------------------------------------------------
(* The module's life.  b_status is zero when the module is loaded.         *)

init ==
    /\ life \in {"unloaded", "init"}
    /\ registered' = registered \cup {Hooks[Cardinality(registered) + 1]}
    /\ life' = IF Cardinality(registered) + 1 = Len(Hooks) THEN "live" ELSE "init"
    /\ UNCHANGED <<b_status, setter, sets, lastban, cpu>>

rmmod ==
    /\ life = "live" /\ life' = "exit"
    /\ UNCHANGED <<registered, b_status, setter, sets, lastban, cpu>>

\* Mutant: exit forgets the socket option.
exitKeepsOption ==
    /\ life = "exit" /\ \A i \in 1..Len(Hooks) : Hooks[i] \notin registered => ~Inside(Hooks[i])
    /\ life' = IF Cardinality(registered) = 1 THEN "unloaded" ELSE "exit"
    /\ registered' = IF life' = "unloaded" THEN {}
                     ELSE registered \ {Hooks[1 + Len(Hooks) - Cardinality(registered)]}
    /\ UNCHANGED <<b_status, lastban, setter, sets, cpu>>

\* One unregistering after the other, each when the one before it has found its
\* hook, or its option, empty.
exit ==
    /\ life = "exit" /\ \A i \in 1..Len(Hooks) : Hooks[i] \notin registered => ~Inside(Hooks[i])
    /\ IF registered = {}
       THEN /\ life' = "unloaded" /\ UNCHANGED registered
            /\ b_status' = [band_ip |-> 0, band_port |-> NoBan, band_ping |-> 0]
            /\ lastban' = [ban |-> NoBan, alone |-> TRUE]
       ELSE /\ registered' = registered \ {Hooks[1 + Len(Hooks) - Cardinality(registered)]}
            /\ UNCHANGED <<life, b_status, lastban>>
    /\ UNCHANGED <<setter, sets, cpu>>

-----------------------------------------------------------------------------
(* nf_sockopt_set.                                                         *)

\* What b bans.
ProtocolBanned(b, p) == p.hook = "nfout" \/ b.band_port.protocol = p.protocol
KeyBanned(b, p) == p.key = IF p.hook = "nfout" THEN b.band_ip ELSE b.band_port.port
Bans(b, p) == ProtocolBanned(b, p) /\ KeyBanned(b, p)

\* A store, which the running hooks may see from now on.
Store(b) ==
    /\ b_status' = b
    /\ cpu' = [k \in Cpu |-> LET p == cpu[k].packet IN
            IF ~InHook(k) THEN cpu[k]
            ELSE [cpu[k] EXCEPT !.always = @ /\ Bans(b, p),
                                !.protocol = @ \/ ProtocolBanned(b, p), !.key = @ \/ KeyBanned(b, p)]]

\* The kernel takes set_optmax for the first command that is not the module's.
InRange(cmd) == SOE_BANDIP <= cmd /\ cmd < SOE_BANDIP + 2

\* IS_BANDPORT_TCP, IS_BANDPORT_UDP, or no ban.
Ban(protocol, port) ==
    IF port # 0 /\ protocol \in {IPPROTO_TCP, IPPROTO_UDP}
    THEN [protocol |-> protocol, port |-> port] ELSE NoBan

\* The address, and the ping if its command ever arrived, are one store.  Where the
\* caller's buffer is shorter than status, the rest is what the stack held.
SetWord(a) ==
    /\ "nfsockopt" \in registered /\ ~InCall(a) /\ sets < MaxSets
    /\ \E cmd \in {c \in {SOE_BANDIP, SOE_BANDPING} : InRange(c)} :
          \E word \in (IF cmd = SOE_BANDIP THEN Addr17 \cup {0} ELSE {0, 1}) :
             Store(IF cmd = SOE_BANDIP THEN [b_status EXCEPT !.band_ip = word]
                   ELSE [b_status EXCEPT !.band_ping = word])
    /\ sets' = sets + 1
    /\ UNCHANGED <<life, registered, setter, lastban>>

\* The port's ban is two.
SetPort(a) ==
    /\ "nfsockopt" \in registered /\ ~InCall(a) /\ sets < MaxSets
    /\ \E protocol \in {0, IPPROTO_TCP, IPPROTO_UDP}, port \in Port17 \cup {0} :
          LET ban == Ban(protocol, port) IN
          /\ setter' = [setter EXCEPT ![a] = [ban |-> ban, todo |-> {"protocol", "port"}]]
          /\ lastban' = [ban |-> ban, alone |-> \A b \in Admin : ~InCall(b)]
    /\ sets' = sets + 1
    /\ UNCHANGED <<life, registered, b_status, cpu>>

\* The compiler may put them in either order.
StoreHalf(a) == \E half \in setter[a].todo :
    /\ Store([b_status EXCEPT
                !.band_port.protocol = IF half = "protocol" THEN setter[a].ban.protocol ELSE @,
                !.band_port.port = IF half = "port" THEN setter[a].ban.port ELSE @])
    /\ setter' = [setter EXCEPT ![a].todo = @ \ {half}]
    /\ UNCHANGED <<life, registered, sets, lastban>>

-----------------------------------------------------------------------------
(* nf_hook_in and nf_hook_out.                                             *)

Verdict(dropped) == IF dropped THEN "drop" ELSE "accept"

\* A packet comes; one of ICMP is dropped unless band_ping is set.
PacketArrives(k) ==
    /\ ~InHook(k)
    /\ \E p \in Packet17 :
          /\ p.hook \in registered
          /\ cpu' = [cpu EXCEPT ![k] = [packet |-> p, first |-> 0, always |-> Bans(b_status, p),
                protocol |-> ProtocolBanned(b_status, p), key |-> KeyBanned(b_status, p),
                at |-> IF p.protocol = IPPROTO_ICMP THEN Verdict(b_status.band_ping = 0) ELSE "load"]]
    /\ UNCHANGED <<life, registered, b_status, setter, sets, lastban>>

\* Is there a ban at all?
LoadFirst(k) ==
    LET port == cpu[k].packet.hook = "nfin"
        v == IF port THEN b_status.band_port.port ELSE b_status.band_ip IN
    /\ cpu[k].at = "load"
    /\ cpu' = [cpu EXCEPT ![k].first = v,
                          ![k].at = IF v = 0 THEN "accept" ELSE IF port THEN "protocol" ELSE "compare"]
    /\ UNCHANGED <<life, registered, b_status, setter, sets, lastban>>

\* Mutant: the case of UDP asks for TCP.
LoadProtocolTcp(k) ==
    /\ cpu[k].at = "protocol"
    /\ cpu' = [cpu EXCEPT ![k].at = IF b_status.band_port.protocol = IPPROTO_TCP THEN "compare" ELSE "accept"]
    /\ UNCHANGED <<life, registered, b_status, setter, sets, lastban>>

LoadProtocol(k) ==
    /\ cpu[k].at = "protocol"
    /\ cpu' = [cpu EXCEPT ![k].at = IF b_status.band_port.protocol = cpu[k].packet.protocol
                                    THEN "compare" ELSE "accept"]
    /\ UNCHANGED <<life, registered, b_status, setter, sets, lastban>>

\* The last look is at memory again or, if the compiler kept it, at the first load.
Compare(k) ==
    LET now == IF cpu[k].packet.hook = "nfin" THEN b_status.band_port.port ELSE b_status.band_ip IN
    /\ cpu[k].at = "compare"
    /\ \E v \in {now, cpu[k].first} : cpu' = [cpu EXCEPT ![k].at = Verdict(v = cpu[k].packet.key)]
    /\ UNCHANGED <<life, registered, b_status, setter, sets, lastban>>

BandNext ==
    \/ init \/ rmmod \/ exit
    \/ \E a \in Admin : SetWord(a) \/ SetPort(a) \/ StoreHalf(a)
    \/ \E k \in Cpu : PacketArrives(k) \/ LoadFirst(k) \/ LoadProtocol(k) \/ Compare(k)

BandSpec == BandInit /\ [][BandNext]_bandvars

-----------------------------------------------------------------------------
(* Properties.                                                             *)

BandTypeOK ==
    /\ registered \subseteq {Hooks[i] : i \in 1..Len(Hooks)}
    /\ b_status \in [band_ip : Addr17 \cup {0}, band_ping : {0, 1},
                     band_port : [protocol : {0, IPPROTO_TCP, IPPROTO_UDP}, port : Port17 \cup {0}]]
    /\ \A a \in Admin : setter[a].ban = NoBan \/ 0 \notin {setter[a].ban.protocol, setter[a].ban.port}
    /\ \A k \in Cpu : cpu[k].packet \in Packet17 \cup {NoPacket}

\* Without a lock on either side: a packet whose ban stood for as long as its hook
\* ran does not get through.
NoAcceptUnderBan == \A k \in Cpu : cpu[k].at = "accept" => ~cpu[k].always

\* A packet is dropped for a ban, whose halves may be those of two that followed
\* each other while the hook ran, but for none that was over.
NoDropWithoutCause ==
    \A k \in Cpu : cpu[k].at = "drop" /\ cpu[k].packet.protocol # IPPROTO_ICMP => cpu[k].protocol /\ cpu[k].key

\* The ban that stands when nobody is setting one is the one asked for last, unless
\* its call met another's: then it may be made of the halves of both.
LastBanStands ==
    (\A a \in Admin : ~InCall(a)) /\ lastban.alone => b_status.band_port = lastban.ban

\* Nobody is inside the module when it is gone.
NobodyInside == life = "unloaded" => \A i \in 1..Len(Hooks) : ~Inside(Hooks[i])

\* What the module does to packets, for all that is stored while hooks run.
BansHold == NoAcceptUnderBan /\ NoDropWithoutCause /\ LastBanStands

\* What it keeps, and that it may go.
BandSound == BandTypeOK /\ NobodyInside
=============================================================================
