---------------------------- MODULE ReuseServer ----------------------------
(***************************************************************************)
(* The select servers with a table of connected descriptors: the TCP       *)
(* servers of src/12_sockopt/sol_socket_12_2 (server_reuse.c,              *)
(* server_noreuse.c and server_reuse_diffip.c, whose loop is the same, and *)
(* server_reuse_using_oob.c, which also waits for urgent data),            *)
(* shutdown/server_slower_reuse.c (which never answers),                   *)
(* select_exception/server_exception.c, and the server of                  *)
(* src/11_unix_socket/unix_socket_11_1; and their clients.  `program' says *)
(* which one runs.                                                         *)
(*                                                                         *)
(* Descriptor 0 stands for the listening socket, 1.. for those behind it:  *)
(* accept returns the lowest that is not open.  A read takes everything    *)
(* there is up to the mark of urgent data; the only error of a read is a   *)
(* reset, so no client is ever told "error" and sends again.  SIGPIPE ends *)
(* the server, except the UNIX one, which ignores it.                      *)
(***************************************************************************)
EXTENDS Integers, Sequences, FiniteSets, FiniteSetsExt, SequencesExt

CONSTANTS
    ReuseClient,
    BACKLOG,        \* entries of isconnect
    MaxSaid,        \* bound of how often each client speaks
    NoReuse

ASSUME ReuseAssumption ==
    /\ IsFiniteSet(ReuseClient) /\ NoReuse \notin ReuseClient
    /\ BACKLOG \in Nat \ {0} /\ MaxSaid \in [ReuseClient -> Nat]

\* "reuse" stands for server_noreuse.c and server_reuse_diffip.c as well.
Program == {"reuse", "oob", "exception", "slower", "unix"}

ListenFd == 0
ReuseFd == 1..BACKLOG

VARIABLES
    program,    \* which of the servers runs
    isconnect,  \* the table
    accepted,   \* the connection each open descriptor stands for
    select,     \* the loop: where it is, readfds, exceptionfds, change, fd, maxfd
    peer,       \* a client: "new", "queued", "refused", "ask" (reads the keyboard),
                \* "wait" and "bye" (has said something, or "exit", and reads the
                \* answer), "left", "broken" (left, and written to since), "reset"
    toServer,   \* what each client said and the server has not read
    toClient,   \* answers a client has not read
    spoken,       \* how often each client has spoken
    oob,        \* clients whose urgent byte has not been read
    urged,      \* history: clients that sent one
    refusedEarly\* history: a client was refused with an entry free
reusevars == <<program, isconnect, accepted, select, peer, toServer, toClient,
               spoken, oob, urged, refusedEarly>>

ReuseInit ==
    /\ program \in Program
    /\ isconnect = [f \in ReuseFd |-> FALSE]
    /\ accepted = [f \in ReuseFd |-> NoReuse]
    /\ select = [pc |-> "select", readfds |-> {}, exceptionfds |-> {}, change |-> 0, fd |-> 0, maxfd |-> 0]
    /\ peer = [c \in ReuseClient |-> "new"]
    /\ toServer = [c \in ReuseClient |-> <<>>]
    /\ toClient = [c \in ReuseClient |-> 0]
    /\ spoken = [c \in ReuseClient |-> 0]
    /\ oob = {} /\ urged = {}
    /\ refusedEarly = FALSE

Gone == {"left", "broken", "reset"}

-----------------------------------------------------------------------------
(* client_reuse.c; the others do a part of what it does.                   *)

ReuseConnect(c) ==
    /\ select.pc # "over" /\ peer[c] = "new"
    /\ peer' = [peer EXCEPT ![c] = "queued"]
    /\ UNCHANGED <<program, isconnect, accepted, select, toServer, toClient, spoken, oob, urged, refusedEarly>>

\* client_faster_shutdown.c writes whenever it can, and reads no answers.
FasterWrite(c) ==
    /\ program = "slower" /\ select.pc # "over" /\ peer[c] = "ask" /\ spoken[c] < MaxSaid[c]
    /\ spoken' = [spoken EXCEPT ![c] = @ + 1]
    /\ toServer' = [toServer EXCEPT ![c] = Append(@, "text")]
    /\ UNCHANGED <<program, isconnect, accepted, select, peer, toClient, oob, urged, refusedEarly>>

\* "urg" is sent with MSG_OOB, once at most, and no answer is read for it.
ReuseSay(c, what) ==
    /\ program # "slower" /\ select.pc # "over" /\ peer[c] = "ask" /\ spoken[c] < MaxSaid[c]
    /\ spoken' = [spoken EXCEPT ![c] = @ + 1]
    /\ toServer' = [toServer EXCEPT ![c] = Append(@, what)]
    /\ \/ /\ what = "urg" /\ program # "unix" /\ c \notin urged
          /\ oob' = oob \cup {c} /\ urged' = urged \cup {c} /\ UNCHANGED peer
       \/ what = "text" /\ peer' = [peer EXCEPT ![c] = "wait"] /\ UNCHANGED <<oob, urged>>
       \/ what = "exit" /\ peer' = [peer EXCEPT ![c] = "bye"] /\ UNCHANGED <<oob, urged>>
    /\ UNCHANGED <<program, isconnect, accepted, select, toClient, refusedEarly>>

\* One read takes all the answers there are; the first says "ok".
ReuseAnswer(c) ==
    /\ select.pc # "over" /\ peer[c] \in {"wait", "bye"} /\ toClient[c] > 0
    /\ toClient' = [toClient EXCEPT ![c] = 0]
    /\ peer' = [peer EXCEPT ![c] = IF @ = "wait" THEN "ask" ELSE "left"]
    /\ UNCHANGED <<program, isconnect, accepted, select, toServer, spoken, oob, urged, refusedEarly>>

\* A client may be stopped at any time; with answers unread its end is a reset.
ReuseLeave(c) ==
    /\ select.pc # "over" /\ peer[c] \in {"ask", "wait", "bye"}
    /\ peer' = [peer EXCEPT ![c] = IF toClient[c] > 0 THEN "reset" ELSE "left"]
    /\ UNCHANGED <<program, isconnect, accepted, select, toServer, toClient, spoken, oob, urged, refusedEarly>>

-----------------------------------------------------------------------------
(* The loop of the servers.                                                *)

ReadableFd(f) ==
    IF f = ListenFd THEN \E c \in ReuseClient : peer[c] = "queued"
    ELSE accepted[f] # NoReuse /\ (toServer[accepted[f]] # <<>> \/ peer[accepted[f]] \in Gone)
ReadyFds == {f \in {ListenFd} \cup {g \in ReuseFd : isconnect[g]} : ReadableFd(f)}
UrgentFds == {f \in ReuseFd : program \in {"oob", "exception"} /\ isconnect[f] /\ accepted[f] \in oob}

\* The sets, maxfd, which only grows in most of them, and select.
SelectReturns ==
    /\ select.pc = "select" /\ ReadyFds \cup UrgentFds # {}
    /\ select' = [pc |-> "scan", readfds |-> ReadyFds, exceptionfds |-> UrgentFds,
                  change |-> Cardinality(ReadyFds) + Cardinality(UrgentFds), fd |-> 0,
                  maxfd |-> Max({IF program = "exception" THEN 0 ELSE select.maxfd}
                                   \cup {f \in ReuseFd : isconnect[f]})]
    /\ UNCHANGED <<program, isconnect, accepted, peer, toServer, toClient, spoken, oob, urged, refusedEarly>>

\* SIGINT, or a SIGIO that comes after its connection was accepted, interrupts a
\* select that waits and ends the server; anywhere else it is only printed.
SelectInterrupted ==
    /\ select.pc = "select" /\ ReadyFds \cup UrgentFds = {}
    /\ select' = [select EXCEPT !.pc = "over"]
    /\ isconnect' = IF program = "unix" THEN isconnect ELSE [f \in ReuseFd |-> FALSE]
    /\ accepted' = [f \in ReuseFd |-> NoReuse]
    /\ UNCHANGED <<program, peer, toServer, toClient, spoken, oob, urged, refusedEarly>>

\* The next descriptor the scan comes to, if change is not used up before.
Marked == {f \in select.readfds \cup select.exceptionfds : select.fd <= f /\ f <= select.maxfd}
Scanning == select.pc = "scan" /\ select.change > 0 /\ Marked # {}
NextFd == Min(Marked)
AtMarked(f) == Scanning /\ f = NextFd
AtReadable(f) == AtMarked(f) /\ f \notin select.exceptionfds /\ f \in select.readfds

ScanEnds ==
    /\ select.pc = "scan" /\ ~Scanning
    /\ select' = [pc |-> "select", readfds |-> {}, exceptionfds |-> {}, change |-> 0, fd |-> 0,
                  maxfd |-> select.maxfd]
    /\ UNCHANGED <<program, isconnect, accepted, peer, toServer, toClient, spoken, oob, urged, refusedEarly>>

\* Urgent data: recv with MSG_OOB, then the same descriptor as the others do.
ReadOob(f) ==
    /\ AtMarked(f) /\ f \in select.exceptionfds
    /\ oob' = oob \ {accepted[f]}
    /\ select' = [select EXCEPT !.exceptionfds = @ \ {f}, !.change = @ - 1]
    /\ UNCHANGED <<program, isconnect, accepted, peer, toServer, toClient, spoken, urged, refusedEarly>>

\* server_exception.c asks for the socket's error, and leaves the urgent byte.
AskError(f) ==
    /\ AtMarked(f) /\ f \in select.exceptionfds
    /\ select' = [select EXCEPT !.exceptionfds = @ \ {f}, !.change = @ - 1]
    /\ UNCHANGED <<program, isconnect, accepted, peer, toServer, toClient, spoken, oob, urged, refusedEarly>>

\* The scan goes on behind f, with readfds as it was left.
Past(f, fds) == select' = [select EXCEPT !.readfds = fds, !.change = @ - 1, !.fd = f + 1]

\* Mutant: the new client is not entered in the table.
AcceptNoEntry(c) ==
    LET free == {f \in ReuseFd : accepted[f] = NoReuse} IN
    /\ AtReadable(ListenFd) /\ peer[c] = "queued"
    /\ IF free = {}
       THEN /\ peer' = [peer EXCEPT ![c] = "refused"]
            /\ refusedEarly' = (refusedEarly \/ \E f \in ReuseFd : ~isconnect[f])
            /\ Past(ListenFd, select.readfds)
            /\ UNCHANGED <<isconnect, accepted>>
       ELSE /\ peer' = [peer EXCEPT ![c] = "ask"]
            /\ accepted' = [accepted EXCEPT ![Min(free)] = c]
            /\ Past(ListenFd, select.readfds \cup {Min(free)})
            /\ UNCHANGED <<refusedEarly, isconnect>>
    /\ UNCHANGED <<program, toServer, toClient, spoken, oob, urged>>

\* accept: the descriptor's number decides whether there is an entry for it.  It
\* is also marked as readable, which nobody has asked select about.
AcceptFd(c) ==
    LET free == {f \in ReuseFd : accepted[f] = NoReuse} IN
    /\ AtReadable(ListenFd) /\ peer[c] = "queued"
    /\ IF free = {}
       THEN /\ peer' = [peer EXCEPT ![c] = "refused"]
            /\ refusedEarly' = (refusedEarly \/ \E f \in ReuseFd : ~isconnect[f])
            /\ Past(ListenFd, select.readfds)
            /\ UNCHANGED <<isconnect, accepted>>
       ELSE /\ peer' = [peer EXCEPT ![c] = "ask"]
            /\ accepted' = [accepted EXCEPT ![Min(free)] = c]
            /\ isconnect' = [isconnect EXCEPT ![Min(free)] = TRUE]
            /\ Past(ListenFd, select.readfds \cup {Min(free)})
            /\ UNCHANGED refusedEarly
    /\ UNCHANGED <<program, toServer, toClient, spoken, oob, urged>>

\* What one read returns of c's bytes: up to the first urgent mark.
ReadBytes(c) ==
    LET u == SelectInSeq(toServer[c], LAMBDA m : m = "urg") IN
    IF u = 0 THEN Len(toServer[c]) ELSE u
\* An urgent byte nobody asked for is gone when what follows it is read.
ReadFrom(f) ==
    LET c == accepted[f] IN
    /\ AtReadable(f) /\ f # ListenFd /\ toServer[c] # <<>>
    /\ toServer' = [toServer EXCEPT ![c] = SubSeq(@, ReadBytes(c) + 1, Len(@))]
    /\ oob' = IF "urg" \in Range(toServer[c]) THEN oob ELSE oob \ {c}
    /\ UNCHANGED <<program, spoken, urged, refusedEarly>>

CloseFd(f) ==
    /\ isconnect' = [isconnect EXCEPT ![f] = FALSE]
    /\ accepted' = [accepted EXCEPT ![f] = NoReuse]

\* The write of "ok" succeeds.  After the answer to "exit" the rest of the scan is
\* left out.
AnswerOk(f) ==
    LET c == accepted[f] IN
    /\ toClient' = IF peer[c] \in Gone THEN toClient ELSE [toClient EXCEPT ![c] = @ + 1]
    /\ peer' = IF peer[c] = "left" THEN [peer EXCEPT ![c] = "broken"] ELSE peer
    /\ IF Head(toServer[c]) = "exit"
       THEN CloseFd(f) /\ select' = [select EXCEPT !.readfds = {}, !.exceptionfds = {}]
       ELSE Past(f, select.readfds) /\ UNCHANGED <<isconnect, accepted>>
\* It fails with ECONNRESET, of a client that has left answers unread: nothing is
\* done about it, and the next read finds the end.
AnswerFails(f) ==
    /\ peer[accepted[f]] = "reset"
    /\ Past(f, select.readfds)
    /\ UNCHANGED <<isconnect, accepted, peer, toClient>>

\* A read that gives bytes is answered.  Of a client that has left the first write
\* makes a reset come back, and a write after that raises SIGPIPE.
ReadAndAnswer(f) ==
    /\ ReadFrom(f)
    /\ \/ peer[accepted[f]] # "reset" /\ AnswerOk(f)
       \/ AnswerFails(f)
       \/ /\ peer[accepted[f]] = "broken"
          /\ select' = [select EXCEPT !.pc = "killed"]
          /\ UNCHANGED <<isconnect, accepted, peer, toClient>>

\* On a UNIX socket the first write to a client that has left fails with EPIPE.
UnixReadAndAnswer(f) ==
    /\ ReadFrom(f)
    /\ \/ peer[accepted[f]] \notin Gone /\ AnswerOk(f)
       \/ AnswerFails(f)
       \/ /\ peer[accepted[f]] = "left"
          /\ CloseFd(f)
          /\ Past(f, select.readfds \ {f})
          /\ UNCHANGED <<peer, toClient>>

\* server_slower_reuse.c only reads.
SlowerRead(f) ==
    /\ ReadFrom(f)
    /\ Past(f, select.readfds)
    /\ UNCHANGED <<isconnect, accepted, peer, toClient>>

\* Mutant: the entry stays when the descriptor is closed.
ReadEndKeeps(f) ==
    /\ AtReadable(f) /\ f # ListenFd
    /\ toServer[accepted[f]] = <<>> /\ peer[accepted[f]] \in Gone
    /\ accepted' = [accepted EXCEPT ![f] = NoReuse]
    /\ Past(f, select.readfds \ {f})
    /\ UNCHANGED <<program, isconnect, peer, toServer, toClient, spoken, oob, urged, refusedEarly>>

\* A read that gives no bytes: the end, or the reset.
ReadEnd(f) ==
    /\ AtReadable(f) /\ f # ListenFd
    /\ toServer[accepted[f]] = <<>> /\ peer[accepted[f]] \in Gone
    /\ CloseFd(f)
    /\ Past(f, select.readfds \ {f})
    /\ UNCHANGED <<program, peer, toServer, toClient, spoken, oob, urged, refusedEarly>>

Step ==
    SelectReturns \/ ScanEnds \/ (\E c \in ReuseClient : AcceptFd(c)) \/ \E f \in ReuseFd : ReadEnd(f)
ReuseLoop == program = "reuse" /\ (Step \/ \E f \in ReuseFd : ReadAndAnswer(f))
OobLoop == program = "oob" /\ (Step \/ \E f \in ReuseFd : ReadOob(f) \/ ReadAndAnswer(f))
ExceptionLoop == program = "exception" /\ (Step \/ \E f \in ReuseFd : AskError(f) \/ ReadAndAnswer(f))
SlowerLoop == program = "slower" /\ (Step \/ \E f \in ReuseFd : SlowerRead(f))
UnixLoop == program = "unix" /\ (Step \/ \E f \in ReuseFd : UnixReadAndAnswer(f))
ServerLoop == ReuseLoop \/ OobLoop \/ ExceptionLoop \/ SlowerLoop \/ UnixLoop

ReuseNext ==
    \/ ServerLoop \/ SelectInterrupted
    \/ \E c \in ReuseClient :
          \/ ReuseConnect(c) \/ ReuseAnswer(c) \/ ReuseLeave(c) \/ FasterWrite(c)
          \/ \E what \in {"text", "exit", "urg"} : ReuseSay(c, what)

\* The server runs; nobody makes a client speak, or a signal come.
ReuseFair == WF_reusevars(ServerLoop)

ReuseSpec == ReuseInit /\ [][ReuseNext]_reusevars /\ ReuseFair

-----------------------------------------------------------------------------
(* Properties.                                                             *)

ReuseTypeOK ==
    /\ isconnect \in [ReuseFd -> BOOLEAN]
    /\ accepted \in [ReuseFd -> ReuseClient \cup {NoReuse}]
    /\ select.readfds \subseteq ReuseFd \cup {ListenFd} /\ select.exceptionfds \subseteq ReuseFd
    /\ select.change \in 0..2 * BACKLOG + 1 /\ select.maxfd \in 0..BACKLOG
    /\ \A c \in ReuseClient : toClient[c] \in 0..MaxSaid[c] /\ Len(toServer[c]) <= MaxSaid[c]

\* The entries of the table are the open descriptors: select is never given one
\* that is closed (which would fail for ever), no connection is forgotten, and
\* nobody is refused while an entry is free.
TableIsOpenDescriptors ==
    /\ select.pc # "over" => \A f \in ReuseFd : isconnect[f] <=> accepted[f] # NoReuse
    /\ \A f, g \in ReuseFd : accepted[f] = accepted[g] /\ accepted[f] # NoReuse => f = g
    /\ ~refusedEarly

\* A client that is told "ok" has been read, unless it sent urgent data, whose
\* answer it takes for the answer to what it says next.
OkMeansRead ==
    \A c \in ReuseClient \ urged : program # "slower" /\ peer[c] = "ask" => toServer[c] = <<>>

\* Only a client that sent urgent data, and left without waiting for the answer,
\* ends the server with SIGPIPE.
OnlyUrgentKills == select.pc = "killed" => \E c \in urged : peer[c] = "broken"

\* The server reads from a descriptor that has nothing: it was accepted in this
\* scan, below maxfd, while others were still to be read.
Stuck == \E f \in ReuseFd : AtReadable(f) /\ ~ReadableFd(f)

\* Whoever waits for an answer gets it, and all that is said is read, if the server
\* is not for ever stuck in a read of a client that is silent.
ClientIsServed(c) ==
    []<>~Stuck =>
        ((IF program = "slower" THEN toServer[c] # <<>> ELSE peer[c] \in {"wait", "bye"}) ~>
            ((IF program = "slower" THEN toServer[c] = <<>>
                                    ELSE toClient[c] > 0 \/ peer[c] \notin {"wait", "bye"})
             \/ select.pc \in {"over", "killed"}))

\* The table, the answers and the end of the servers with a table of descriptors.
ReuseSound == ReuseTypeOK /\ TableIsOpenDescriptors /\ OkMeansRead /\ OnlyUrgentKills
=============================================================================
