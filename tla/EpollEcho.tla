----------------------------- MODULE EpollEcho -----------------------------
(***************************************************************************)
(* The echo server (src/epoll_for_tcp_echo/echo_server.cpp): one loop over *)
(* the events of epoll_wait accepts clients, reads commands from the       *)
(* standard input, and sends back what a client sent.                      *)
(*                                                                         *)
(* A byte is known by its number.  The sockets of the clients do not block:*)
(* a send takes what there is room for, and what it does not take is gone. *)
(* The length given to accept is never set; the first accept sets it.      *)
(***************************************************************************)
EXTENDS Integers, Sequences, FiniteSets, FiniteSetsExt

CONSTANTS
    EchoClient,
    MAX_EVENT_COUNT, BUF_SIZE,
    SendRoom,       \* bytes that fit between a send and the client
    MaxSent,        \* bound of the bytes each client sends
    NoEcho

ASSUME EchoAssumption ==
    /\ IsFiniteSet(EchoClient) /\ NoEcho \notin EchoClient
    /\ {MAX_EVENT_COUNT, BUF_SIZE, SendRoom} \subseteq Nat \ {0} /\ MaxSent \in [EchoClient -> Nat]

STDIN_FILENO == 0
server_fd == 3
ClientFd == 4..3 + Cardinality(EchoClient)
Fd == {STDIN_FILENO, server_fd} \cup ClientFd

VARIABLES
    conn,       \* the connection a descriptor stands for
    side,       \* a client: "new", "queued", "open", "left" or "broken" (left,
                \* and the server has sent to it since)
    sent,       \* bytes a client has sent
    taken,      \* bytes of it the server has read
    echo,       \* the bytes sent back to it
    seen,       \* how many of those it has read
    stdin,      \* what can be read there: "nothing", "exit", "else" or "end"
    event_array,\* the events still to be handled, each with the connection meant
    buf,        \* what was read and not sent back yet: descriptor, bytes
    addr_len,   \* "unset" or "set"
    loop,       \* "running", "stopped" or "killed"
    eager       \* history: clients that sent with SendRoom bytes unread
epollvars == <<conn, side, sent, taken, echo, seen, stdin, event_array, buf, addr_len, loop, eager>>

NoBuf == [fd |-> -1, from |-> 0, to |-> 0]

EpollInit ==
    /\ conn = [f \in ClientFd |-> NoEcho]
    /\ side = [c \in EchoClient |-> "new"]
    /\ sent = [c \in EchoClient |-> 0]
    /\ taken = [c \in EchoClient |-> 0]
    /\ echo = [c \in EchoClient |-> <<>>]
    /\ seen = [c \in EchoClient |-> 0]
    /\ stdin = "nothing"
    /\ event_array = {}
    /\ buf = NoBuf
    /\ addr_len = "unset"
    /\ loop = "running"
    /\ eager = {}

-----------------------------------------------------------------------------
(* The clients and the terminal.                                           *)

EchoConnect(c) ==
    /\ side[c] = "new"
    /\ side' = [side EXCEPT ![c] = "queued"]
    /\ UNCHANGED <<conn, sent, taken, echo, seen, stdin, event_array, buf, addr_len, loop, eager>>
EchoWrite(c) ==
    /\ side[c] \in {"queued", "open"} /\ sent[c] < MaxSent[c]
    /\ sent' = [sent EXCEPT ![c] = @ + 1]
    /\ eager' = IF sent[c] - seen[c] >= SendRoom THEN eager \cup {c} ELSE eager
    /\ UNCHANGED <<conn, side, taken, echo, seen, stdin, event_array, buf, addr_len, loop>>
EchoRead(c) ==
    /\ side[c] = "open" /\ seen[c] < Len(echo[c])
    /\ seen' = [seen EXCEPT ![c] = @ + 1]
    /\ UNCHANGED <<conn, side, sent, taken, echo, stdin, event_array, buf, addr_len, loop, eager>>
EchoLeave(c) ==
    /\ side[c] = "open"
    /\ side' = [side EXCEPT ![c] = "left"]
    /\ UNCHANGED <<conn, sent, taken, echo, seen, stdin, event_array, buf, addr_len, loop, eager>>
TypeCommand(what) ==
    /\ stdin = "nothing"
    /\ stdin' = what
    /\ UNCHANGED <<conn, side, sent, taken, echo, seen, event_array, buf, addr_len, loop, eager>>

-----------------------------------------------------------------------------
(* The loop.                                                               *)

Fresh(c) == side[c] \in {"left", "broken"} \/ sent[c] > taken[c]
Ready ==
    {f \in Fd : CASE f = STDIN_FILENO -> stdin # "nothing"
                  [] f = server_fd -> \E c \in EchoClient : side[c] = "queued"
                  [] OTHER -> conn[f] # NoEcho /\ Fresh(conn[f])}
Event(f) == [fd |-> f, conn |-> IF f \in ClientFd THEN conn[f] ELSE NoEcho]

\* epoll_wait: as many of the ready descriptors as the array takes, in any order.
EpollWait(fs) ==
    /\ loop = "running" /\ event_array = {} /\ buf = NoBuf
    /\ fs # {} /\ fs \subseteq Ready
    /\ Cardinality(fs) = Min({Cardinality(Ready), MAX_EVENT_COUNT})
    /\ event_array' = {Event(f) : f \in fs}
    /\ UNCHANGED <<conn, side, sent, taken, echo, seen, stdin, buf, addr_len, loop, eager>>

Handled(e) == loop = "running" /\ buf = NoBuf /\ e \in event_array
Stop == loop' = "stopped" /\ event_array' = {}
Done(e) == event_array' = event_array \ {e} /\ UNCHANGED loop

\* Mutant: the new descriptor is not added to the set.
AcceptNoAdd(e) ==
    /\ Handled(e) /\ e.fd = server_fd
    /\ \E c \in EchoClient :
          side[c] = "queued" /\ side' = [side EXCEPT ![c] = "open"]
    /\ addr_len' = "set"
    /\ Done(e)
    /\ UNCHANGED <<conn, sent, taken, echo, seen, stdin, buf, eager>>

\* A length that was never set may be negative: accept fails then.
AcceptClient(e) ==
    /\ Handled(e) /\ e.fd = server_fd
    /\ \/ addr_len = "unset" /\ Stop /\ UNCHANGED <<conn, side, addr_len>>
       \/ \E c \in EchoClient :
             /\ side[c] = "queued"
             /\ conn' = [conn EXCEPT ![Min({f \in ClientFd : conn[f] = NoEcho})] = c]
             /\ side' = [side EXCEPT ![c] = "open"]
             /\ addr_len' = "set"
             /\ Done(e)
    /\ UNCHANGED <<sent, taken, echo, seen, stdin, buf, eager>>

\* The end of the input is readable for ever.
ReadCommand(e) ==
    /\ Handled(e) /\ e.fd = STDIN_FILENO
    /\ stdin' = IF stdin = "end" THEN "end" ELSE "nothing"
    /\ IF stdin = "exit" THEN Stop ELSE Done(e)
    /\ UNCHANGED <<conn, side, sent, taken, echo, seen, buf, addr_len, eager>>

\* recv: what there is, as far as the buffer goes, or the end and close.
RecvEvent(e) ==
    LET c == conn[e.fd]
        n == Min({sent[c] - taken[c], BUF_SIZE}) IN
    /\ Handled(e) /\ e.fd \in ClientFd
    /\ IF n = 0
       THEN conn' = [conn EXCEPT ![e.fd] = NoEcho] /\ UNCHANGED <<taken, buf>>
       ELSE /\ taken' = [taken EXCEPT ![c] = @ + n]
            /\ buf' = [fd |-> e.fd, from |-> taken[c] + 1, to |-> taken[c] + n]
            /\ UNCHANGED conn
    /\ Done(e)
    /\ UNCHANGED <<side, sent, echo, seen, stdin, addr_len, eager>>

\* Mutant: what the send did not take is read, and sent, again.
SendRewinds ==
    LET c == conn[buf.fd]
        room == SendRoom - (Len(echo[c]) - seen[c])
        n == Min({room, buf.to - buf.from + 1}) IN
    /\ loop = "running" /\ buf # NoBuf
    /\ buf' = NoBuf
    /\ CASE side[c] = "open" ->
              /\ echo' = [echo EXCEPT ![c] = @ \o [i \in 1..n |-> buf.from - 1 + i]]
              /\ taken' = [taken EXCEPT ![c] = buf.from - 1]
              /\ UNCHANGED <<side, loop>>
         [] side[c] = "left" -> side' = [side EXCEPT ![c] = "broken"] /\ UNCHANGED <<taken, echo, loop>>
         [] side[c] = "broken" -> loop' \in {"running", "killed"} /\ UNCHANGED <<taken, echo, side>>
    /\ UNCHANGED <<conn, sent, seen, stdin, event_array, addr_len, eager>>

\* send: as much as there is room for.  The first send to a client that has left
\* fails or is answered with a reset; one after the reset has come raises SIGPIPE.
SendBack ==
    LET c == conn[buf.fd]
        room == SendRoom - (Len(echo[c]) - seen[c])
        n == Min({room, buf.to - buf.from + 1}) IN
    /\ loop = "running" /\ buf # NoBuf
    /\ buf' = NoBuf
    /\ CASE side[c] = "open" ->
              echo' = [echo EXCEPT ![c] = @ \o [i \in 1..n |-> buf.from - 1 + i]] /\ UNCHANGED <<side, loop>>
         [] side[c] = "left" -> side' = [side EXCEPT ![c] = "broken"] /\ UNCHANGED <<echo, loop>>
         [] side[c] = "broken" -> loop' \in {"running", "killed"} /\ UNCHANGED <<echo, side>>
    /\ UNCHANGED <<conn, sent, taken, seen, stdin, event_array, addr_len, eager>>

HandleEvent ==
    SendBack \/ \E e \in event_array : AcceptClient(e) \/ ReadCommand(e) \/ RecvEvent(e)

EpollNext ==
    \/ HandleEvent
    \/ \E fs \in SUBSET Ready : EpollWait(fs)
    \/ \E c \in EchoClient : EchoConnect(c) \/ EchoWrite(c) \/ EchoRead(c) \/ EchoLeave(c)
    \/ \E what \in {"exit", "else", "end"} : TypeCommand(what)

\* The loop goes on.  (With more ready descriptors than the array takes, the
\* kernel leaves none out for ever; the instances with fairness have room.)
EpollFair == WF_epollvars(HandleEvent \/ \E fs \in SUBSET Ready : EpollWait(fs))

EpollSpec == EpollInit /\ [][EpollNext]_epollvars /\ EpollFair

-----------------------------------------------------------------------------
(* Properties.                                                             *)

EpollTypeOK ==
    /\ conn \in [ClientFd -> EchoClient \cup {NoEcho}]
    /\ side \in [EchoClient -> {"new", "queued", "open", "left", "broken"}]
    /\ \A c \in EchoClient :
          /\ 0 <= seen[c] /\ seen[c] <= Len(echo[c]) /\ Len(echo[c]) <= taken[c]
          /\ taken[c] <= sent[c] /\ sent[c] <= MaxSent[c]
    /\ event_array \subseteq {[fd |-> f, conn |-> c] : f \in Fd, c \in EchoClient \cup {NoEcho}}
    /\ Cardinality(event_array) <= MAX_EVENT_COUNT

\* No event is handled for a connection it was not meant for: a descriptor that
\* is closed while the events of one epoll_wait are handled, and given out again
\* by accept, has no event left among them.
EventsAreFresh == \A e \in event_array : e = Event(e.fd)

\* What comes back is what was sent, in order and without repetition; and without
\* a gap for a client that never has more on the way than a send has room for.
EchoIsPrefix ==
    \A c \in EchoClient :
        /\ \A i, j \in DOMAIN echo[c] : i < j => echo[c][i] < echo[c][j]
        /\ c \notin eager => \A i \in DOMAIN echo[c] : echo[c][i] = i

\* The server is only killed by a client that left before its echo was complete.
PatientClientsDoNoHarm ==
    loop = "killed" => \E c \in EchoClient : side[c] = "broken" /\ seen[c] < sent[c]

\* A client that waits for its echo gets it, whatever the others and the terminal
\* do, short of ending the server.
EchoComes(c) ==
    (side[c] = "open" /\ sent[c] > seen[c]) ~>
        (Len(echo[c]) = sent[c] \/ c \in eager \/ side[c] # "open" \/ loop # "running")

\* "exit" ends the loop, whatever else was in the same batch of events.
ExitStops == (stdin = "exit") ~> (loop # "running")

\* Each event is for the client it came from, each echo is of what that one sent,
\* and a patient client costs the others nothing.
EchoSound == EpollTypeOK /\ EventsAreFresh /\ EchoIsPrefix /\ PatientClientsDoNoHarm
=============================================================================
