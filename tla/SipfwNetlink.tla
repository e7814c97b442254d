---------------------------- MODULE SipfwNetlink ----------------------------
(***************************************************************************)
(* The conversation between the tool (sipfw_u.c) and the kernel module     *)
(* (sipfw_k_nl.c) over netlink, on top of the tables of SipfwTables.  Each *)
(* client runs the tool again and again: it sends one command, waits for   *)
(* the answer and, after LIST, for as many rules as the answer counts.     *)
(* SIGINT may end it at any moment.                                        *)
(*                                                                         *)
(* The socket buffers are the kernel's, modelled from how they are used:   *)
(* the memory a message takes there is the kernel's affair (Rooms); the    *)
(* module sends with MSG_DONTWAIT, a message that finds the buffer full    *)
(* is dropped, and so is every other one until the buffer has been emptied;*)
(* the next recvfrom fails once (ENOBUFS).                                 *)
(***************************************************************************)
EXTENDS SipfwTables

CONSTANTS
    Client,         \* who runs the tool
    Rooms,          \* messages a client's socket buffer may hold
    Budget          \* bound: the times each client runs the tool

ASSUME RoomsAssumption == Rooms \subseteq Nat \ {0}
ASSUME BudgetAssumption == Budget \in [Client -> Nat]

VARIABLES
    queue,      \* nlfd->sk_receive_queue: [from, type, o]
    inbox,      \* each client's receive buffer: [msgs, err, congested]
    tool,       \* each client's run: [pc, cmd, left, got, n]
    snapshot    \* history: the rules on the chains a LIST was answered from

netvars == <<queue, inbox, tool, snapshot>>
allvars == <<heap, list, number, phase, queue, inbox, tool, snapshot>>

EmptyInbox == [msgs |-> <<>>, err |-> FALSE, congested |-> FALSE]
NoTool == [pc |-> "idle", cmd |-> "", left |-> 0, got |-> <<>>, n |-> 0]

\* count is unsigned: what the tool counts to when the kernel sends a negative
\* number (the bound stands for 2^32 - k, which no list reaches).
Endless == 1000
Unsigned(k) == IF k < 0 THEN Endless ELSE k

NetInit ==
    /\ Init
    /\ queue = <<>>
    /\ inbox = [c \in Client |-> EmptyInbox]
    /\ tool = [c \in Client |-> NoTool]
    /\ snapshot = [c \in Client |-> <<>>]

-----------------------------------------------------------------------------
(* The kernel side.                                                        *)

\* netlink_unicast of the messages ms, one after the other, to buffer b, which
\* holds n.
Deliver(b, ms, n) ==
    LET room == IF n > Len(b.msgs) THEN n - Len(b.msgs) ELSE 0 IN
    CASE b.congested -> b
      [] ~b.congested /\ Len(ms) <= room -> [b EXCEPT !.msgs = @ \o ms]
      [] ~b.congested /\ Len(ms) > room ->
           [msgs |-> b.msgs \o SubSeq(ms, 1, room), err |-> TRUE, congested |-> TRUE]

\* The rules a LIST walks, and the count it announces before them.
Listed(o) ==
    LET of(c) == [i \in 1..Len(list[c]) |-> heap[list[c][i]]] IN
    IF o.chain = ChainAll THEN of(0) \o of(1) \o of(2) ELSE of(o.chain)
\* Mutant: the counter of the first chain only.
AnnouncedFirst(o) == IF o.chain = ChainAll THEN number[0] + number[0] + number[0] ELSE number[o.chain]
Announced(o) ==
    IF o.chain = ChainAll THEN number[0] + number[1] + number[2] ELSE number[o.chain]

\* Mutant: LIST says SUCCESS first, as the other commands do.
AnswerTwice(o) ==
    IF phase' # "running" THEN <<>>
    ELSE <<[type |-> "SUCCESS", val |-> 0]>>
         \o IF o.cmd # "LIST" THEN <<>> ELSE <<[type |-> "count", val |-> Announced(o)]>>
         \o [i \in 1..Len(Listed(o)) |-> [type |-> "rule", val |-> Listed(o)[i]]]

\* A command that does nothing answers SUCCESS too; one that kills the kernel
\* nothing.
Answer(o) ==
    IF phase' # "running" THEN <<>>
    ELSE IF o.cmd = "LIST" THEN <<[type |-> "count", val |-> Announced(o)]>>
                               \o [i \in 1..Len(Listed(o)) |-> [type |-> "rule", val |-> Listed(o)[i]]]
    ELSE <<[type |-> "SUCCESS", val |-> 0]>>

\* The kernel reads a command behind the header of a CLOSE, from memory nobody
\* wrote for it: the remains of a command sent before, or no command at all,
\* and then the rule is lost.
NLInput ==
    /\ queue # <<>> /\ phase = "running"
    /\ queue' = Tail(queue)
    /\ LET m == Head(queue) IN
       \/ /\ m.type = "CMD"
          /\ NLDoAction(m.o)
          /\ \E n \in Rooms :
               inbox' = [inbox EXCEPT ![m.from] = IF tool[m.from].pc = "killed" THEN @
                                                  ELSE Deliver(@, Answer(m.o), n)]
          /\ snapshot' = [snapshot EXCEPT ![m.from] = IF m.o.cmd = "LIST" THEN Listed(m.o) ELSE @]
       \/ /\ m.type = "CLOSE"
          /\ \/ \E o \in Sent : NLDoAction(o)
             \/ \E r \in Free, o \in Sent, d \in Addr : LeakRule(r, RuleOf(o, d))
             \/ Free = {} /\ Dies("null_deref")
          /\ UNCHANGED <<inbox, snapshot>>
    /\ UNCHANGED tool

-----------------------------------------------------------------------------
(* The tool.                                                               *)

Up == phase = "running" /\ UNCHANGED <<heap, list, number, phase>>

\* A run of the tool, with a socket of its own.
NLSend(c, o) ==
    /\ Up /\ tool[c].pc = "idle" /\ tool[c].n < Budget[c]
    /\ tool' = [tool EXCEPT ![c] = [NoTool EXCEPT !.pc = "waiting", !.cmd = o.cmd, !.n = tool[c].n + 1]]
    /\ inbox' = [inbox EXCEPT ![c] = EmptyInbox]
    /\ queue' = Append(queue, [from |-> c, type |-> "CMD", o |-> o])
    /\ UNCHANGED snapshot

Exits(c) == [tool EXCEPT ![c].pc = "idle"]

\* What recvfrom leaves in the buffer: an error is reported before any message.
AfterRecv(b) ==
    IF b.err THEN [b EXCEPT !.err = FALSE]
    ELSE [b EXCEPT !.msgs = Tail(@), !.congested = @ /\ Len(b.msgs) > 1]
Receives(c) ==
    /\ Up /\ (inbox[c].err \/ inbox[c].msgs # <<>>)
    /\ inbox' = [inbox EXCEPT ![c] = AfterRecv(@)]
    /\ UNCHANGED <<queue, snapshot>>

\* main: the answer; an error ends the tool.
RecvAnswer(c) ==
    /\ tool[c].pc = "waiting" /\ Receives(c)
    /\ LET count == Unsigned(Head(inbox[c].msgs).val) IN
       \/ inbox[c].err /\ tool' = Exits(c)
       \/ ~inbox[c].err /\ tool[c].cmd # "LIST" /\ tool' = Exits(c)
       \/ /\ ~inbox[c].err /\ tool[c].cmd = "LIST"
          /\ tool' = IF count = 0 THEN Exits(c)
                     ELSE [tool EXCEPT ![c].pc = "listing", ![c].left = count]

\* SIPFW_NLRecvRuleList: a failed receive counts as a rule.
RecvRule(c) ==
    /\ tool[c].pc = "listing" /\ Receives(c)
    /\ tool' = [tool EXCEPT
                  ![c].left = @ - 1,
                  ![c].got = IF inbox[c].err THEN @ ELSE Append(@, Head(inbox[c].msgs).val),
                  ![c].pc = IF tool[c].left = 1 THEN "idle" ELSE @]

\* sig_int: a header without a payload, and the socket is closed.
SigInt(c) ==
    /\ Up /\ tool[c].pc \in {"waiting", "listing"}
    /\ queue' = Append(queue, [from |-> c, type |-> "CLOSE"])
    /\ tool' = [tool EXCEPT ![c].pc = "killed"]
    /\ UNCHANGED <<inbox, snapshot>>

NetNext ==
    \/ NLInput
    \/ \E c \in Client : RecvAnswer(c) \/ RecvRule(c) \/ SigInt(c) \/ \E o \in Sent : NLSend(c, o)

NetSpec == NetInit /\ [][NetNext]_allvars

\* sendto runs the kernel's handler before it returns, and a tool in recvfrom
\* wakes up when there is something to receive.
FairNetSpec ==
    /\ NetSpec
    /\ WF_allvars(NLInput)
    /\ \A c \in Client : WF_allvars(RecvAnswer(c)) /\ WF_allvars(RecvRule(c))

-----------------------------------------------------------------------------
(* Properties.                                                             *)

\* What a LIST prints is what was on the chains when the kernel answered it, in
\* that order and without a gap, whatever was dropped and whatever the other
\* client has changed since.
ListIsAPrefix == \A c \in Client : tool[c].got # <<>> => IsPrefix(tool[c].got, snapshot[c])

\* The buffer of a client that waits holds the answer to its own command and
\* nothing older: a count for LIST, a word for the others.
AnswersMatch ==
    \A c \in Client :
        tool[c].pc = "waiting" /\ inbox[c].msgs # <<>> =>
            (tool[c].cmd = "LIST" <=> Head(inbox[c].msgs).type = "count")

\* A client hears of its own command, and what it hears was true.
AnswersSound == ListIsAPrefix /\ AnswersMatch

\* A tool that has sent its command ends, whatever is dropped and whoever is
\* interrupted, unless the kernel dies or tells it a negative count.
Talking(c) == tool[c].pc \in {"waiting", "listing"}
ToolEnds ==
    \A c \in Client :
        Talking(c) ~> (~Talking(c) \/ phase # "running" \/ tool[c].left > Endless \div 2)

(* What comments of the code say, and the code does not do.                *)

\* sipfw_k_nl.c:66: the count is sent first so that the client can count: a
\* client that counts ends.
EveryToolEnds == \A c \in Client : Talking(c) ~> (~Talking(c) \/ phase # "running")

=============================================================================
