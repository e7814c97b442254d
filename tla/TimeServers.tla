---------------------------- MODULE TimeServers ----------------------------
(***************************************************************************)
(* The seven time servers of src/14_server_mode that keep no table of      *)
(* clients.  Each takes a client, reads once, answers "TIME" with the time *)
(* and closes; they differ in who does it: the process itself (14.1.2),    *)
(* processes forked ahead (14.2.3), a process (14.3.1) or a thread (14.3.2) *)
(* for each client, threads that take turns at accept (14.3.3), and, over  *)
(* UDP, one process (14.1.1) or two (14.2.2) at one socket.                *)
(*                                                                         *)
(* accept is taken to succeed, and the queue of listen to hold everyone.   *)
(* A send to a client that is gone may raise SIGPIPE, which nobody catches.*)
(***************************************************************************)
EXTENDS Integers, Sequences, FiniteSets, FiniteSetsExt

CONSTANTS
    Client,     \* each connects, or asks, once
    PIDNUMB,    \* processes of 14.2.3, and of 14.2.2
    POOLSIZE,   \* threads of 14.3.3
    NoClient

ASSUME TimeAssumption ==
    /\ IsFiniteSet(Client) /\ NoClient \notin Client
    /\ PIDNUMB \in Nat \ {0} /\ POOLSIZE \in Nat \ {0}

Server == {"iterative", "prefork", "forkEach", "threadEach", "pool", "udp", "udpFork"}
Threaded == {"threadEach", "pool"}
Udp == {"udp", "udpFork"}
Main == 0
Worker == 0..Cardinality(Client) + PIDNUMB + POOLSIZE
ThreadFd == 1..Cardinality(Client)        \* the descriptors accept can return

VARIABLES
    server,     \* which of the programs runs
    over,       \* it has ended
    said,       \* what a client sent: "nothing", "TIME" or "other"
    line,       \* a client's side: "new", "open" or "gone"
    backlog,    \* connections, or datagrams, that wait for the server
    answers,    \* times a client was sent
    worker,     \* the processes and threads
    ALOCK,      \* the mutex of 14.3.3: who holds it
    fds,        \* descriptors of 14.3.2, shared by its threads
    s_c,        \* the variable of 14.3.2 whose address the threads are given
    read,       \* history: clients whose bytes were read
    hurried,    \* history: 14.3.2 accepted before a thread had read s_c
    failed      \* history: a fork or pthread_create failed, or a datagram got lost
timevars == <<server, over, said, line, backlog, answers, worker, ALOCK, fds, s_c, read, hurried, failed>>
clientvars == <<said, line>>
threadvars == <<fds, s_c, hurried>>

Idle == [pc |-> "none", fd |-> 0, conn |-> NoClient]
At(pc, c) == [pc |-> pc, fd |-> 0, conn |-> c]

\* What each program has started when it first waits.
Started(s) ==
    CASE s = "prefork" -> 1..PIDNUMB
      [] s = "pool" -> 1..POOLSIZE
      [] s = "udpFork" -> 1..2
      [] OTHER -> {Main}
Waiting(s) == IF s = "pool" THEN "lock" ELSE "accept"

TimeInit ==
    /\ server \in Server
    /\ over = FALSE
    /\ said = [c \in Client |-> "nothing"]
    /\ line = [c \in Client |-> "new"]
    /\ backlog = <<>>
    /\ answers = [c \in Client |-> 0]
    /\ worker = [w \in Worker |-> IF w \in Started(server) THEN At(Waiting(server), NoClient) ELSE Idle]
    /\ ALOCK = 0
    /\ fds = [f \in ThreadFd |-> NoClient]
    /\ s_c = 0
    /\ read = {}
    /\ hurried = FALSE
    /\ failed = FALSE

-----------------------------------------------------------------------------
(* Clients (14.1.2/client.c, 14.1.1/client.c, and others).                 *)

\* Someone still has c's connection open at the server.
Held(c) ==
    \/ \E i \in DOMAIN backlog : backlog[i] = c
    \/ \E w \in Worker : worker[w].conn = c
    \/ \E f \in ThreadFd : fds[f] = c

TimeConnect(c) ==
    /\ ~over /\ server \notin Udp /\ line[c] = "new"
    /\ line' = [line EXCEPT ![c] = "open"]
    /\ backlog' = Append(backlog, c)
    /\ UNCHANGED <<server, over, said, answers, worker, ALOCK, threadvars, read, failed>>

\* The clients of the repository say "TIME"; others say less, or something else.
TimeSpeak(c, what) ==
    /\ said[c] = "nothing"
    /\ said' = [said EXCEPT ![c] = what]
    /\ \/ server \notin Udp /\ line[c] = "open" /\ UNCHANGED <<line, backlog, failed>>
       \/ /\ ~over /\ server \in Udp /\ line[c] = "new"
          /\ line' = [line EXCEPT ![c] = "open"]
          /\ \/ backlog' = Append(backlog, c) /\ UNCHANGED failed
             \/ failed' = TRUE /\ UNCHANGED backlog         \* the datagram is lost
    /\ UNCHANGED <<server, over, answers, worker, ALOCK, threadvars, read>>

\* A client closes after the answer or the end of the connection, or any time.
TimeLeave(c) ==
    /\ line[c] = "open"
    /\ line' = [line EXCEPT ![c] = "gone"]
    /\ UNCHANGED <<server, over, said, backlog, answers, worker, ALOCK, threadvars, read, failed>>

-----------------------------------------------------------------------------
(* What the servers do with one client.                                    *)

\* recv returns when the client has spoken, and nobody has read it yet, or left.
Arrived(c) == said[c] # "nothing" /\ c \notin read
Recv(w) ==
    LET c == worker[w].conn IN
    /\ ~over /\ worker[w].pc = "recv"
    /\ Arrived(c) \/ line[c] = "gone"
    /\ read' = IF Arrived(c) THEN read \cup {c} ELSE read
    /\ worker' = [worker EXCEPT ![w].pc = IF Arrived(c) /\ said[c] = "TIME" THEN "send" ELSE "close",
                                ![w].conn = IF server = "threadEach" THEN NoClient ELSE c]
    /\ UNCHANGED <<server, over, clientvars, backlog, answers, ALOCK, threadvars, failed>>

\* The connection a worker's descriptor stands for.
Conn(w) ==
    IF server # "threadEach" THEN worker[w].conn
    ELSE IF worker[w].fd = 0 THEN NoClient ELSE fds[worker[w].fd]

Answer(c) == answers' = [answers EXCEPT ![c] = @ + 1]

Send(w) ==
    /\ ~over /\ worker[w].pc = "send"
    /\ IF Conn(w) = NoClient \/ line[Conn(w)] = "gone" THEN UNCHANGED answers ELSE Answer(Conn(w))
    /\ worker' = [worker EXCEPT ![w].pc = "close"]
    /\ UNCHANGED <<server, over, clientvars, backlog, ALOCK, threadvars, read, failed>>

\* SIGPIPE ends the process: a child alone, or everyone.
SendKills(w) ==
    /\ ~over /\ worker[w].pc = "send" /\ Conn(w) # NoClient /\ line[Conn(w)] = "gone"
    /\ over' = (server \in Threaded \cup {"iterative"} \/ w = Main)
    /\ worker' = [worker EXCEPT ![w] = At("dead", NoClient)]
    /\ UNCHANGED <<server, clientvars, backlog, answers, ALOCK, threadvars, read, failed>>

\* close, and what follows it: pc.
CloseThen(w, pc) ==
    /\ ~over /\ worker[w].pc = "close"
    /\ worker' = [worker EXCEPT ![w] = At(pc, NoClient)]
    /\ fds' = IF worker[w].fd = 0 THEN fds ELSE [fds EXCEPT ![worker[w].fd] = NoClient]
    /\ over' = (pc = "over")
    /\ UNCHANGED <<server, clientvars, backlog, answers, ALOCK, s_c, hurried, read, failed>>

Take == backlog # <<>> /\ backlog' = Tail(backlog)

\* accept, and recv on the connection it gives.
Accept(w) ==
    /\ ~over /\ worker[w].pc = "accept" /\ Take
    /\ worker' = [worker EXCEPT ![w] = At("recv", Head(backlog))]
    /\ UNCHANGED <<server, over, clientvars, answers, ALOCK, threadvars, read, failed>>

ServeClient(w) == Recv(w) \/ Send(w) \/ SendKills(w)

-----------------------------------------------------------------------------
(* The programs: what worker w does in each.                               *)

\* 14.1.2
Iterative(w) == w = Main /\ (Accept(w) \/ ServeClient(w) \/ CloseThen(w, "accept"))

\* 14.2.3: the children each do what 14.1.2 does, the parent spins.
Prefork(w) == Accept(w) \/ ServeClient(w) \/ CloseThen(w, "accept")

\* SIGINT reaches the parent and the children.
Interrupt ==
    /\ ~over /\ server \in {"prefork", "udpFork"}
    /\ over' = TRUE
    /\ UNCHANGED <<server, clientvars, backlog, answers, worker, ALOCK, threadvars, read, failed>>

\* 14.3.1: a fork that fails makes the server serve the client and return.
NewWorker == Min({w \in Worker \ {Main} : worker[w].pc = "none"})
\* Mutant: the parent goes on to serve as well.
ForkBothServe ==
    /\ ~over /\ worker[Main].pc = "accept" /\ Take
    /\ worker' = [worker EXCEPT ![NewWorker] = At("recv", Head(backlog)), ![Main] = At("recv", Head(backlog))]
    /\ UNCHANGED <<server, over, clientvars, answers, ALOCK, threadvars, read, failed>>

Fork ==
    /\ ~over /\ worker[Main].pc = "accept" /\ Take
    /\ \/ worker' = [worker EXCEPT ![NewWorker] = At("recv", Head(backlog))] /\ UNCHANGED failed
       \/ worker' = [worker EXCEPT ![Main] = At("recv", Head(backlog))] /\ failed' = TRUE
    /\ UNCHANGED <<server, over, clientvars, answers, ALOCK, threadvars, read>>
ForkEach(w) ==
    \/ w = Main /\ Fork
    \/ ServeClient(w)
    \/ CloseThen(w, IF w = Main THEN "over" ELSE "dead")

\* 14.3.2: the thread is given the address of s_c.
AcceptForThread ==
    LET f == Min({g \in ThreadFd : fds[g] = NoClient}) IN
    /\ ~over /\ worker[Main].pc = "accept" /\ Take
    /\ fds' = [fds EXCEPT ![f] = Head(backlog)]
    /\ s_c' = f
    /\ \/ worker' = [worker EXCEPT ![NewWorker] = At("argv", NoClient)] /\ UNCHANGED failed
       \/ failed' = TRUE /\ UNCHANGED worker
    /\ hurried' = (hurried \/ \E w \in Worker : worker[w].pc = "argv")
    /\ UNCHANGED <<server, over, clientvars, answers, ALOCK, read>>
ReadArgv(w) ==
    /\ ~over /\ worker[w].pc = "argv"
    /\ worker' = [worker EXCEPT ![w].fd = s_c, ![w].pc = "call"]
    /\ UNCHANGED <<server, over, clientvars, backlog, answers, ALOCK, threadvars, read, failed>>
\* recv finds the connection now, and keeps it however long it waits.
CallRecv(w) ==
    /\ ~over /\ worker[w].pc = "call"
    /\ worker' = [worker EXCEPT ![w].conn = Conn(w),
                                ![w].pc = IF Conn(w) = NoClient THEN "close" ELSE "recv"]
    /\ UNCHANGED <<server, over, clientvars, backlog, answers, ALOCK, threadvars, read, failed>>
ThreadEach(w) ==
    \/ w = Main /\ AcceptForThread
    \/ ReadArgv(w) \/ CallRecv(w) \/ ServeClient(w) \/ CloseThen(w, "dead")

\* 14.3.3
Lock(w) ==
    /\ ~over /\ worker[w].pc = "lock" /\ ALOCK = 0
    /\ ALOCK' = w
    /\ worker' = [worker EXCEPT ![w].pc = "accept"]
    /\ UNCHANGED <<server, over, clientvars, backlog, answers, threadvars, read, failed>>
\* Mutant: the mutex is not given back.
AcceptNoUnlock(w) ==
    /\ ~over /\ worker[w].pc = "accept" /\ Take
    /\ worker' = [worker EXCEPT ![w] = At("recv", Head(backlog))]
    /\ UNCHANGED <<server, over, clientvars, answers, ALOCK, threadvars, read, failed>>

AcceptAndUnlock(w) ==
    /\ ~over /\ worker[w].pc = "accept" /\ Take
    /\ ALOCK' = 0
    /\ worker' = [worker EXCEPT ![w] = At("recv", Head(backlog))]
    /\ UNCHANGED <<server, over, clientvars, answers, threadvars, read, failed>>
Pool(w) == Lock(w) \/ AcceptAndUnlock(w) \/ ServeClient(w) \/ CloseThen(w, "lock")

\* 14.1.1 and 14.2.2: recvfrom takes a datagram, and only "TIME" is answered, to
\* a client that may be gone and by a datagram that may be lost.
RecvFrom(w) ==
    LET c == Head(backlog) IN
    /\ ~over /\ worker[w].pc = "accept" /\ Take
    /\ worker' = IF said[c] = "TIME" THEN [worker EXCEPT ![w] = At("send", c)] ELSE worker
    /\ read' = read \cup {c}
    /\ UNCHANGED <<server, over, clientvars, answers, ALOCK, threadvars, failed>>
SendTo(w) ==
    LET c == worker[w].conn IN
    /\ ~over /\ worker[w].pc = "send"
    /\ \/ line[c] # "gone" /\ Answer(c) /\ UNCHANGED failed
       \/ failed' = TRUE /\ UNCHANGED answers
    /\ worker' = [worker EXCEPT ![w] = At("accept", NoClient)]
    /\ UNCHANGED <<server, over, clientvars, backlog, ALOCK, threadvars, read>>
OneSocket(w) == RecvFrom(w) \/ SendTo(w)
SharedSocket(w) == RecvFrom(w) \/ SendTo(w)

Serve(w) ==
    \/ server = "iterative" /\ Iterative(w)
    \/ server = "prefork" /\ Prefork(w)
    \/ server = "forkEach" /\ ForkEach(w)
    \/ server = "threadEach" /\ ThreadEach(w)
    \/ server = "pool" /\ Pool(w)
    \/ server = "udp" /\ OneSocket(w)
    \/ server = "udpFork" /\ SharedSocket(w)

TimeNext ==
    \/ \E w \in Worker : Serve(w)
    \/ Interrupt
    \/ \E c \in Client : TimeConnect(c) \/ TimeLeave(c) \/ \E what \in {"TIME", "other"} : TimeSpeak(c, what)

\* The scheduler runs every process and thread; nobody makes a client speak.
TimeFair == \A w \in Worker : WF_timevars(Serve(w))

TimeSpec == TimeInit /\ [][TimeNext]_timevars /\ TimeFair

-----------------------------------------------------------------------------
(* Properties.                                                             *)

TimeTypeOK ==
    /\ said \in [Client -> {"nothing", "TIME", "other"}]
    /\ line \in [Client -> {"new", "open", "gone"}]
    /\ \A i \in DOMAIN backlog : backlog[i] \in Client
    /\ answers \in [Client -> Nat]
    /\ \A w \in Worker : worker[w].conn \in Client \cup {NoClient} /\ worker[w].fd \in ThreadFd \cup {0}
    /\ ALOCK \in {0} \cup {w \in Worker : worker[w].pc = "accept"}
    /\ fds \in [ThreadFd -> Client \cup {NoClient}] /\ s_c \in ThreadFd \cup {0}

\* Whoever is sent the time has asked for it and was read, and is sent it once.  Of
\* 14.3.2 that is true as long as no connection is accepted before the thread of the
\* one before has read s_c: two threads may then share a descriptor, and the one that
\* closes it frees its number for a client that the other one will write to as well.
OnlyTheAskerIsAnswered ==
    hurried \/ \A c \in Client : answers[c] > 0 => answers[c] = 1 /\ said[c] = "TIME" /\ c \in read

\* Every descriptor of 14.3.2 belongs to one client and one thread, with the
\* same exception.
OneThreadPerClient ==
    hurried \/ over \/
    \A v, w \in Worker : v # w /\ Conn(v) # NoClient => Conn(v) # Conn(w)

\* A worker that could take another client: it waits at accept, or the client it
\* waits for has spoken or left.
Able(w) ==
    /\ worker[w].pc \notin {"none", "dead"}
    /\ worker[w].pc = "recv" => Arrived(worker[w].conn) \/ line[worker[w].conn] = "gone"
Reached(c) == answers[c] > 0 \/ line[c] = "gone"

\* A client that asks is answered, whoever else is silent, as long as time and
\* again some worker is able; 14.3.1 and 14.3.2 have one for each client, so
\* that nobody has to wait for a silent client there.
AskerIsAnswered(c) ==
    []<>(\E w \in Worker : Able(w)) =>
        ((line[c] = "open" /\ said[c] = "TIME") ~> (Reached(c) \/ over \/ hurried \/ failed))
NoWaitForOthers(c) ==
    (server \in {"forkEach", "threadEach"} /\ line[c] = "open" /\ said[c] = "TIME")
        ~> (Reached(c) \/ over \/ hurried \/ failed)

\* Nobody's connection stays open once it was read.
ReadIsClosed(c) == (c \in read) ~> (~Held(c) \/ over \/ hurried)

\* Nobody serves another one's client, and nobody is told what it did not ask.
EachServesItsOwn == TimeTypeOK /\ OnlyTheAskerIsAnswered /\ OneThreadPerClient
=============================================================================
