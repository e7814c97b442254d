---------------------------- MODULE SelectServer ----------------------------
(***************************************************************************)
(* The time server with two threads and one table                          *)
(* (src/14_server_mode/14.4.2/server.c): handle_connect puts the           *)
(* descriptors it accepts into connect_host, handle_request waits for them *)
(* with select, answers, and empties the slot.  Nothing is locked.         *)
(*                                                                         *)
(* main clears the table with memset(connect_host, -1, CLIENTNUM), a       *)
(* number of bytes: the other slots hold 0, the standard input.  select is *)
(* given a timeout that it has itself counted down: from the second call   *)
(* on it returns at once.  A descriptor is named by its client, since none *)
(* is ever closed: with OpenMax of them accept fails, and it may at other  *)
(* times.  Nobody looks: -1 goes into a free slot, which stays free, and   *)
(* is counted as a client.  Each thread's scan of the table is one step.   *)
(***************************************************************************)
EXTENDS Integers, FiniteSets, FiniteSetsExt

CONSTANTS
    SelectClient,
    CLIENTNUM,      \* slots of connect_host
    SizeOfInt,      \* bytes of an int: memset clears CLIENTNUM \div SizeOfInt slots
    OpenMax,        \* descriptors the process may open for clients
    MaxRefused       \* bound of the accepts that fail and are counted

CONSTANTS Empty, Stdin      \* -1 and 0 in a slot

ASSUME SelectAssumption ==
    /\ IsFiniteSet(SelectClient) /\ {Empty, Stdin} \cap SelectClient = {} /\ Empty # Stdin
    /\ SizeOfInt \in Nat \ {0} /\ CLIENTNUM \in Nat /\ CLIENTNUM >= SizeOfInt
    /\ OpenMax \in Nat /\ MaxRefused \in Nat

Slot == 1..CLIENTNUM

VARIABLES
    connect_host, connect_number,
    phase,       \* a client: "new", "open" (silent), "TIME", "other" (it said
                \* something else, or left) or "served"
    given,      \* clients that were sent the time
    typed,      \* the standard input is readable
    acceptor,   \* handle_connect: where it is, s_c, and the count it read
    handler,    \* handle_request: where it is, scanfd, i, and the count it read
    forgotten,  \* history: accepted with no slot left
    refused,    \* history: accepts that failed and were counted
    lost        \* history: the two threads changed the count at once
selectvars == <<connect_host, connect_number, phase, given, typed, acceptor, handler, forgotten, refused, lost>>

SelectInit ==
    /\ connect_host = [i \in Slot |-> IF i <= CLIENTNUM \div SizeOfInt THEN Empty ELSE Stdin]
    /\ connect_number = 0
    /\ phase = [c \in SelectClient |-> "new"]
    /\ given = {}
    /\ typed = FALSE
    /\ acceptor = [pc |-> "accept", read |-> 0]
    /\ handler = [pc |-> "select", scanfd |-> {}, i |-> 0, read |-> 0]
    /\ forgotten = {}
    /\ refused = 0
    /\ lost = FALSE

\* Connections that wait for accept are the open ones nobody knows of.
SelectConnect(c) ==
    /\ phase[c] = "new"
    /\ phase' = [phase EXCEPT ![c] = "open"]
    /\ UNCHANGED <<connect_host, connect_number, given, typed, acceptor, handler, forgotten, refused, lost>>
SelectSpeak(c, what) ==
    /\ phase[c] = "open"
    /\ phase' = [phase EXCEPT ![c] = what]
    /\ UNCHANGED <<connect_host, connect_number, given, typed, acceptor, handler, forgotten, refused, lost>>
TypeLine ==
    /\ ~typed /\ typed' = TRUE
    /\ UNCHANGED <<connect_host, connect_number, phase, given, acceptor, handler, forgotten, refused, lost>>

-----------------------------------------------------------------------------
(* handle_connect.                                                         *)

InTable == {connect_host[i] : i \in Slot} \cap SelectClient
Free == {i \in Slot : connect_host[i] = Empty}
Accepted == InTable \cup forgotten \cup {c \in SelectClient : phase[c] = "served"}
Pending == {c \in SelectClient : phase[c] # "new"} \ Accepted

\* Mutant: the loop does not break, and fills every free slot.
AcceptNoBreak(c) ==
    /\ acceptor.pc = "accept" /\ c \in Pending /\ Cardinality(Accepted) < OpenMax
    /\ IF Free = {}
       THEN forgotten' = forgotten \cup {c} /\ UNCHANGED <<connect_host, acceptor>>
       ELSE /\ connect_host' = [i \in Slot |-> IF i \in Free THEN c ELSE connect_host[i]]
            /\ acceptor' = [acceptor EXCEPT !.pc = "load"]
            /\ UNCHANGED forgotten
    /\ UNCHANGED <<connect_number, phase, given, typed, handler, refused, lost>>

\* accept, and the first slot that is free; with none the descriptor is dropped.
AcceptOne(c) ==
    /\ acceptor.pc = "accept" /\ c \in Pending /\ Cardinality(Accepted) < OpenMax
    /\ IF Free = {}
       THEN forgotten' = forgotten \cup {c} /\ UNCHANGED <<connect_host, acceptor>>
       ELSE /\ connect_host' = [connect_host EXCEPT ![Min(Free)] = c]
            /\ acceptor' = [acceptor EXCEPT !.pc = "load"]
            /\ UNCHANGED forgotten
    /\ UNCHANGED <<connect_number, phase, given, typed, handler, refused, lost>>

\* accept fails with a client waiting; with no slot free nothing comes of it.
AcceptRefused ==
    /\ acceptor.pc = "accept" /\ Pending # {} /\ Free # {} /\ refused < MaxRefused
    /\ acceptor' = [acceptor EXCEPT !.pc = "load"]
    /\ refused' = refused + 1
    /\ UNCHANGED <<connect_host, connect_number, phase, given, typed, handler, forgotten, lost>>

\* connect_number++: what was read may be old when it is written back.
IncLoad ==
    /\ acceptor.pc = "load"
    /\ acceptor' = [pc |-> "store", read |-> connect_number]
    /\ UNCHANGED <<connect_host, connect_number, phase, given, typed, handler, forgotten, refused, lost>>
\* Mutant: the new client is not counted.
IncStoreNothing ==
    /\ acceptor.pc = "store"
    /\ acceptor' = [pc |-> "accept", read |-> 0]
    /\ UNCHANGED <<connect_host, connect_number, phase, given, typed, handler, forgotten, refused, lost>>

IncStore ==
    /\ acceptor.pc = "store"
    /\ connect_number' = acceptor.read + 1
    /\ lost' = (lost \/ handler.pc = "store" \/ connect_number # acceptor.read)
    /\ acceptor' = [pc |-> "accept", read |-> 0]
    /\ UNCHANGED <<connect_host, phase, given, typed, handler, forgotten, refused>>

HandleConnect == AcceptRefused \/ IncLoad \/ IncStore \/ \E c \in SelectClient : AcceptOne(c)

-----------------------------------------------------------------------------
(* handle_request.                                                         *)

Readable(d) == IF d = Stdin THEN typed ELSE phase[d] # "open"

\* The set, select, and the test of connect_number.  With nothing readable the
\* loop begins again.
Select ==
    LET ready == {d \in {connect_host[i] : i \in Slot} \ {Empty} : Readable(d)} IN
    /\ handler.pc = "select" /\ ready # {} /\ connect_number > 0
    /\ handler' = [handler EXCEPT !.pc = "scan", !.scanfd = ready, !.i = 0]
    /\ UNCHANGED <<connect_host, connect_number, phase, given, typed, acceptor, forgotten, refused, lost>>

Hit == {i \in Slot : i > handler.i /\ connect_host[i] \in handler.scanfd}

\* The next slot in the set: recv, the answer to "TIME", and -1 into the slot.
\* recv on the standard input fails and leaves what was typed; the close that
\* follows is given the -1.
HandleSlot ==
    LET d == connect_host[Min(Hit)] IN
    /\ handler.pc = "scan" /\ Hit # {}
    /\ IF d = Stdin THEN UNCHANGED <<phase, given>>
       ELSE /\ given' = IF phase[d] = "TIME" THEN given \cup {d} ELSE given
            /\ phase' = [phase EXCEPT ![d] = "served"]
    /\ connect_host' = [connect_host EXCEPT ![Min(Hit)] = Empty]
    /\ handler' = [handler EXCEPT !.pc = "load", !.i = Min(Hit)]
    /\ UNCHANGED <<connect_number, typed, acceptor, forgotten, refused, lost>>

\* connect_number--
DecLoad ==
    /\ handler.pc = "load"
    /\ handler' = [handler EXCEPT !.pc = "store", !.read = connect_number]
    /\ UNCHANGED <<connect_host, connect_number, phase, given, typed, acceptor, forgotten, refused, lost>>
DecStore ==
    /\ handler.pc = "store"
    /\ connect_number' = handler.read - 1
    /\ lost' = (lost \/ acceptor.pc = "store" \/ connect_number # handler.read)
    /\ handler' = [handler EXCEPT !.pc = "scan", !.read = 0]
    /\ UNCHANGED <<connect_host, phase, given, typed, acceptor, forgotten, refused>>

\* The end of the table.
TableEnds ==
    /\ handler.pc = "scan" /\ Hit = {}
    /\ handler' = [pc |-> "select", scanfd |-> {}, i |-> 0, read |-> 0]
    /\ UNCHANGED <<connect_host, connect_number, phase, given, typed, acceptor, forgotten, refused, lost>>

HandleRequest == Select \/ HandleSlot \/ DecLoad \/ DecStore \/ TableEnds

SelectNext ==
    \/ HandleConnect \/ HandleRequest \/ TypeLine
    \/ \E c \in SelectClient : SelectConnect(c) \/ \E what \in {"TIME", "other"} : SelectSpeak(c, what)

SelectFair == WF_selectvars(HandleConnect) /\ WF_selectvars(HandleRequest)

SelectSpec == SelectInit /\ [][SelectNext]_selectvars /\ SelectFair

-----------------------------------------------------------------------------
(* Properties.                                                             *)

SelectTypeOK ==
    /\ connect_host \in [Slot -> SelectClient \cup {Empty, Stdin}]
    /\ connect_number \in -CLIENTNUM..Cardinality(SelectClient) + MaxRefused
    /\ phase \in [SelectClient -> {"new", "open", "TIME", "other", "served"}]
    /\ handler.scanfd \subseteq SelectClient \cup {Stdin}

\* The slots that memset did not reach and that still hold the standard input.
StdinLeft == {i \in Slot : connect_host[i] = Stdin}

\* connect_number is the number of clients in the table and of accepts that failed, less
\* one for each time the standard input was taken for a client, give or take the change
\* each thread is about to make, as long as they never changed it at once.
CountIsClients ==
    lost \/
    connect_number = Cardinality(InTable) + refused
                     - (CLIENTNUM - CLIENTNUM \div SizeOfInt - Cardinality(StdinLeft))
                     - (IF acceptor.pc # "accept" THEN 1 ELSE 0)
                     + (IF handler.pc \in {"load", "store"} THEN 1 ELSE 0)

\* No client stands in two slots, and the table never holds more clients than the
\* slots memset reached, and those the standard input has left.
TableHoldsEachOnce ==
    /\ \A i, j \in Slot : connect_host[i] \in SelectClient /\ i # j => connect_host[i] # connect_host[j]
    /\ ~typed => Cardinality(InTable) <= CLIENTNUM \div SizeOfInt

\* A client that asks is answered, unless it is forgotten, the process has no descriptor
\* left for it, or connect_number has gone wrong: through the standard input, or a change
\* that was lost.  (The accepts that fail only ever raise it.)
SelectAnswers(c) ==
    (phase[c] = "TIME") ~>
        \/ c \in given \/ c \in forgotten \/ typed \/ lost
        \/ c \notin Accepted /\ Cardinality(Accepted) = OpenMax

\* The table and its counter, which two threads keep without a lock.
SelectTableSound == SelectTypeOK /\ CountIsClients /\ TableHoldsEachOnce
=============================================================================
