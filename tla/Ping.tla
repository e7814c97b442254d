-------------------------------- MODULE Ping --------------------------------
(***************************************************************************)
(* ping (src/13_raw_socket/13.6.10/ping.c): one thread sends a request     *)
(* each second and enters it in a table, another takes the answers and     *)
(* looks them up there; SIGINT ends both, and main prints what they count. *)
(*                                                                         *)
(* The times in the table are left out: nothing is decided by them.  A     *)
(* request may be lost, and its answer, or come twice.                     *)
(***************************************************************************)
EXTENDS Integers, FiniteSets, FiniteSetsExt

CONSTANTS
    TableSize,  \* entries of pingpacket
    SeqBase,    \* values of the 16 bits of a sequence number
    MaxPackets  \* bound of the requests, below SeqBase

ASSUME PingAssumption ==
    /\ TableSize \in Nat \ {0} /\ SeqBase \in Nat \ {0, 1}
    /\ MaxPackets \in Nat /\ MaxPackets < SeqBase

Entry == 1..TableSize
NoEntry == 0
Requests == 0..MaxPackets - 1

VARIABLES
    pingpacket, \* seq and flag of each entry
    packet_send, packet_recv,
    alive,
    bigPid,     \* the process number needs more than 16 bits
    reply,      \* answers on their way, for each request
    icmp_send,  \* the sender: where it is, and the entry it uses
    icmp_recv,  \* the receiver: where it is, and the entry it has found
    ping,       \* main
    entered,    \* history: requests that were given an entry
    arrived,    \* history: requests an answer has come for
    doubled     \* history: an answer came twice
pingvars == <<pingpacket, packet_send, packet_recv, alive, bigPid, reply, icmp_send, icmp_recv,
              ping, entered, arrived, doubled>>

PingInit ==
    /\ pingpacket = [e \in Entry |-> [seq |-> 0, flag |-> 0]]
    /\ packet_send = 0 /\ packet_recv = 0
    /\ alive = 0
    /\ bigPid = FALSE
    /\ reply = [k \in Requests |-> 0]
    /\ icmp_send = [pc |-> "none", entry |-> NoEntry]
    /\ icmp_recv = [pc |-> "none", entry |-> NoEntry]
    /\ ping = "signal"
    /\ entered = {} /\ arrived = {}
    /\ doubled = FALSE

\* What a 16-bit number is when it is read as a short.
Short(n) == IF n % SeqBase >= SeqBase \div 2 THEN (n % SeqBase) - SeqBase ELSE n % SeqBase

-----------------------------------------------------------------------------
(* main and the handler of SIGINT.                                         *)

\* The program is run, with any process number, and installs the handler.
PingRuns ==
    /\ ping = "signal" /\ ping' = "alive"
    /\ bigPid' \in BOOLEAN
    /\ UNCHANGED <<pingpacket, packet_send, packet_recv, alive, reply, icmp_send, icmp_recv,
                   entered, arrived, doubled>>
\* alive is set after that.
PingStarts ==
    /\ ping = "alive" /\ ping' = "join"
    /\ alive' = 1
    /\ icmp_send' = [icmp_send EXCEPT !.pc = "test"]
    /\ icmp_recv' = [icmp_recv EXCEPT !.pc = "test"]
    /\ UNCHANGED <<pingpacket, packet_send, packet_recv, bigPid, reply, entered, arrived, doubled>>
PingJoins ==
    /\ ping = "join" /\ icmp_send.pc = "done" /\ icmp_recv.pc = "done"
    /\ ping' = "statistics"
    /\ UNCHANGED <<pingpacket, packet_send, packet_recv, alive, bigPid, reply, icmp_send, icmp_recv,
                   entered, arrived, doubled>>
icmp_sigint ==
    /\ ping \in {"alive", "join"}
    /\ alive' = 0
    /\ UNCHANGED <<pingpacket, packet_send, packet_recv, bigPid, reply, icmp_send, icmp_recv, ping,
                   entered, arrived, doubled>>

-----------------------------------------------------------------------------
(* icmp_send.                                                              *)

Sender(pc, e) == icmp_send' = [pc |-> pc, entry |-> e]
Vacant == {e \in Entry : pingpacket[e].flag = 0}

\* The head of the loop, and the first vacant entry, if there is one.
SendFind ==
    /\ icmp_send.pc = "test"
    /\ IF alive = 0 THEN Sender("done", NoEntry)
       ELSE /\ packet_send < MaxPackets
            /\ Sender("fill", IF Vacant = {} THEN NoEntry ELSE Min(Vacant))
    /\ UNCHANGED <<pingpacket, packet_send, packet_recv, alive, bigPid, reply, icmp_recv, ping,
                   entered, arrived, doubled>>
SendFill ==
    LET e == icmp_send.entry IN
    /\ icmp_send.pc = "fill" /\ Sender("flag", e)
    /\ pingpacket' = IF e = NoEntry THEN pingpacket ELSE [pingpacket EXCEPT ![e].seq = Short(packet_send)]
    /\ UNCHANGED <<packet_send, packet_recv, alive, bigPid, reply, icmp_recv, ping,
                   entered, arrived, doubled>>
SendFlag ==
    LET e == icmp_send.entry IN
    /\ icmp_send.pc = "flag" /\ Sender("sendto", e)
    /\ pingpacket' = IF e = NoEntry THEN pingpacket ELSE [pingpacket EXCEPT ![e].flag = 1]
    /\ entered' = IF e = NoEntry THEN entered ELSE entered \cup {packet_send}
    /\ UNCHANGED <<packet_send, packet_recv, alive, bigPid, reply, icmp_recv, ping,
                   arrived, doubled>>
\* What sendto returns is not looked at.  n answers will come; at most one request
\* is answered twice.
SendTo(n) ==
    /\ icmp_send.pc = "sendto" /\ Sender("test", NoEntry)
    /\ n > 1 => ~doubled
    /\ reply' = [reply EXCEPT ![packet_send] = n]
    /\ doubled' = (doubled \/ n > 1)
    /\ packet_send' = packet_send + 1
    /\ UNCHANGED <<pingpacket, packet_recv, alive, bigPid, icmp_recv, ping, entered, arrived>>

-----------------------------------------------------------------------------
(* icmp_recv.                                                              *)

Receiver(pc, e) == icmp_recv' = [pc |-> pc, entry |-> e]

\* Mutant: the entry of an answer is the first one that is in use.
FindSeqAny(seq) ==
    LET hits == {e \in Entry : pingpacket[e].flag = 1} IN
    IF hits = {} THEN NoEntry ELSE Min(hits)

\* icmp_findpacket for an answer: the flag is not looked at, and the number on the
\* wire has no sign.
FindSeq(seq) ==
    LET hits == {e \in Entry : pingpacket[e].seq = seq} IN
    IF hits = {} THEN NoEntry ELSE Min(hits)

\* select and recvfrom, and the tests of icmp_unpack: the 16 bits of the answer are
\* compared with the whole process number.
RecvReply(k) ==
    LET e == IF bigPid THEN NoEntry ELSE FindSeq(k % SeqBase) IN
    /\ icmp_recv.pc = "test" /\ alive = 1 /\ reply[k] > 0
    /\ reply' = [reply EXCEPT ![k] = @ - 1]
    /\ arrived' = arrived \cup {k}
    /\ IF e = NoEntry THEN UNCHANGED icmp_recv ELSE Receiver("clear", e)
    /\ UNCHANGED <<pingpacket, packet_send, packet_recv, alive, bigPid, icmp_send, ping,
                   entered, doubled>>
RecvEnds ==
    /\ icmp_recv.pc = "test" /\ alive = 0 /\ Receiver("done", NoEntry)
    /\ UNCHANGED <<pingpacket, packet_send, packet_recv, alive, bigPid, reply, icmp_send, ping,
                   entered, arrived, doubled>>

RecvClear ==
    /\ icmp_recv.pc = "clear" /\ Receiver("count", icmp_recv.entry)
    /\ pingpacket' = [pingpacket EXCEPT ![icmp_recv.entry].flag = 0]
    /\ UNCHANGED <<packet_send, packet_recv, alive, bigPid, reply, icmp_send, ping,
                   entered, arrived, doubled>>

\* Mutant: the receiver goes on whatever alive says.
RecvCountForever ==
    /\ icmp_recv.pc = "count" /\ Receiver("clear", icmp_recv.entry)
    /\ packet_recv' = packet_recv
    /\ UNCHANGED <<pingpacket, packet_send, alive, bigPid, reply, icmp_send, ping,
                   entered, arrived, doubled>>

RecvCount ==
    /\ icmp_recv.pc = "count" /\ Receiver("test", NoEntry)
    /\ packet_recv' = packet_recv + 1
    /\ UNCHANGED <<pingpacket, packet_send, alive, bigPid, reply, icmp_send, ping,
                   entered, arrived, doubled>>

PingSend == SendFind \/ SendFill \/ SendFlag \/ \E n \in 0..2 : SendTo(n)
PingReceive == RecvEnds \/ RecvClear \/ RecvCount \/ \E k \in Requests : RecvReply(k)

PingNext == PingRuns \/ PingStarts \/ PingJoins \/ icmp_sigint \/ PingSend \/ PingReceive

PingFair ==
    /\ WF_pingvars(PingStarts \/ PingJoins)
    /\ WF_pingvars(PingSend) /\ WF_pingvars(PingReceive)

PingSpec == PingInit /\ [][PingNext]_pingvars /\ PingFair

-----------------------------------------------------------------------------
(* Properties.                                                             *)

PingTypeOK ==
    /\ \A e \in Entry : Short(pingpacket[e].seq) = pingpacket[e].seq /\ pingpacket[e].flag \in 0..1
    /\ packet_send \in 0..MaxPackets /\ packet_recv \in 0..MaxPackets + 1
    /\ icmp_send.entry \in Entry \cup {NoEntry} /\ icmp_recv.entry \in Entry \cup {NoEntry}
    /\ entered \subseteq Requests /\ arrived \subseteq Requests

\* The answers ping can tell from others: it is 16 bits long, the request was
\* entered, and its number is not negative.
Heard == IF bigPid THEN {} ELSE {k \in arrived \cap entered : Short(k) >= 0}

\* If no answer comes twice, the entries in use are those of the requests without
\* an answer: a request that was lost keeps its entry for ever, and requests that
\* find the table full are never counted.
TableIsOutstanding ==
    doubled \/
    Cardinality({e \in Entry : pingpacket[e].flag = 1}) =
        Cardinality(entered) - Cardinality(Heard) + (IF icmp_recv.pc = "clear" THEN 1 ELSE 0)

\* If no answer comes twice, exactly the answers it can tell are counted, though
\* entries are looked up by numbers that stay in them after they were given back.
CountedOnce ==
    doubled \/
    packet_recv + (IF icmp_recv.pc \in {"clear", "count"} THEN 1 ELSE 0) = Cardinality(Heard)

\* SIGINT ends ping with its statistics, unless it comes between the installation
\* of the handler and the assignment of alive, which undoes it.
InterruptEnds ==
    (ping = "join" /\ alive = 0) ~> (ping = "statistics")

\* The table of packets and the statistics agree with what was sent and answered.
StatisticsSound == PingTypeOK /\ TableIsOutstanding /\ CountedOnce
=============================================================================
