---------------------------- MODULE CountServer ----------------------------
(***************************************************************************)
(* The server that forks a child for each client, which answers whatever   *)
(* it reads with the number of bytes, and the client that sends a line and *)
(* reads an answer: with read and write (07_tcp/7.3.2), recv and send      *)
(* (09_io/9.2.3), vectors (9.2.4), messages (9.2.5), and a handler that    *)
(* waits for the children (13_raw_socket/13.6.10/tcp_server.c).  The IPv6  *)
(* server (15_ipv6) greets one client after the other and hears it.        *)
(*                                                                         *)
(* A line is so many bytes; TCP may cut it or join it to the next, and an  *)
(* answer arrives whole.  Of 9.2.5, which tells the kernel of thirty       *)
(* vectors where it has three, the calls work like those of 9.2.4 or fail. *)
(* Nobody stops a child, which would raise SIGCHLD too.                    *)
(***************************************************************************)
EXTENDS Integers, Sequences, FiniteSets, FiniteSetsExt, SequencesExt

CONSTANTS
    CountClient,    \* each connects once
    MaxTyped,       \* bound: bytes the users type
    NoPeer07        \* no connection

ASSUME CountAssumption ==
    /\ IsFiniteSet(CountClient) /\ NoPeer07 \notin CountClient /\ MaxTyped \in Nat

Version == {"plain", "io", "fails", "chld", "ipv6"}   \* "fails": 9.2.5, if its calls do
ClosesFirst == {"io", "fails"}   \* the child closes ss before it serves
Server == 0
Forked == 1..Cardinality(CountClient)
Process == {Server} \cup Forked

VARIABLES
    version,    \* which of the programs runs
    proc,       \* its processes: pc, the connection sc, is ss open, the size read
    sigchld,    \* SIGCHLD is pending
    handler,    \* the server is in sig_chld
    queue,      \* connections nobody accepted yet
    side,       \* a client's side: "new", "open", "closed", "reset", or "told" to the server
    user,       \* what a client does: "prompt", "read" or "gone"
    toServer,   \* bytes on their way to the server
    toClient,   \* answers on their way back: the counts
    given,      \* bytes the client sent
    counted     \* the sum of the counts it printed
countvars == <<version, proc, sigchld, handler, queue, side, user, toServer, toClient, given, counted>>
linevars == <<toServer, toClient, given, counted>>

CountInit ==
    /\ version \in Version
    /\ proc = [p \in Process |-> [pc |-> IF p = Server THEN "accept" ELSE "none",
                                  sc |-> NoPeer07, ss |-> p = Server, size |-> 0]]
    /\ sigchld = FALSE /\ handler = FALSE
    /\ queue = <<>>
    /\ side = [c \in CountClient |-> "new"]
    /\ user = [c \in CountClient |-> "none"]
    /\ toServer = [c \in CountClient |-> 0]
    /\ toClient = [c \in CountClient |-> <<>>]
    /\ given = [c \in CountClient |-> 0]
    /\ counted = [c \in CountClient |-> 0]

\* Nobody at the server has c's connection any more.
Hung(c) == c \notin Range(queue) /\ \A p \in Process : proc[p].sc # c
SumOf(counts) == FoldSeq(LAMBDA a, b : a + b, 0, counts)
Runs(p, pc) == proc[p].pc = pc /\ ~(p = Server /\ handler)
Go(p, pc) == proc' = [proc EXCEPT ![p].pc = pc]

-----------------------------------------------------------------------------
(* The clients.                                                            *)

\* The program is run.
CountConnect(c) ==
    /\ side[c] = "new"
    /\ side' = [side EXCEPT ![c] = "open"]
    /\ user' = [user EXCEPT ![c] = IF version = "ipv6" THEN "read" ELSE "prompt"]
    /\ queue' = Append(queue, c)
    /\ UNCHANGED <<version, proc, sigchld, handler, linevars>>

\* process_conn_client, from the line to the read: a server that is gone answers
\* with a reset, and the next line ends the client or, in 9.2.3, goes nowhere.
TypeLine07(c) ==
    /\ user[c] = "prompt" /\ version # "ipv6"
    /\ \E n \in 1..MaxTyped - MapThenSumSet(LAMBDA d : given[d], CountClient) :
          LET sent == IF version = "fails" THEN 0 ELSE n IN
          /\ given' = [given EXCEPT ![c] = @ + sent]
          /\ toServer' = [toServer EXCEPT ![c] = IF Hung(c) THEN @ ELSE @ + sent]
    /\ \E u \in (IF side[c] # "reset" THEN {"read"}
                 ELSE IF version = "io" THEN {"read", "gone"} ELSE {"gone"}) :
          user' = [user EXCEPT ![c] = u]
    /\ side' = [side EXCEPT ![c] = IF Hung(c) /\ version # "fails" THEN "reset" ELSE @]
    /\ UNCHANGED <<version, proc, sigchld, handler, queue, toClient, counted>>

\* The read takes one answer or several, or learns that the server is gone.
ReadAnswer07(c) ==
    /\ user[c] = "read" /\ version # "ipv6"
    /\ \/ \E k \in 1..Len(toClient[c]) :
             /\ counted' = [counted EXCEPT ![c] = @ + SumOf(SubSeq(toClient[c], 1, k))]
             /\ toClient' = [toClient EXCEPT ![c] = SubSeq(@, k + 1, Len(@))]
       \/ /\ (toClient[c] = <<>> /\ Hung(c)) \/ version = "fails"
          /\ UNCHANGED <<counted, toClient>>
    /\ user' = [user EXCEPT ![c] = "prompt"]
    /\ UNCHANGED <<version, proc, sigchld, handler, queue, side, toServer, given>>

\* The client of 15 hears the greeting, answers it and closes.
HearGreeting(c) ==
    /\ user[c] = "read" /\ version = "ipv6"
    /\ toClient[c] # <<>> \/ Hung(c)
    /\ user' = [user EXCEPT ![c] = "gone"]
    /\ side' = [side EXCEPT ![c] = "closed"]
    /\ toServer' = [toServer EXCEPT ![c] = IF Hung(c) THEN @ ELSE @ + 1]
    /\ given' = [given EXCEPT ![c] = @ + 1]
    /\ counted' = [counted EXCEPT ![c] = @ + Len(toClient[c])]
    /\ toClient' = [toClient EXCEPT ![c] = <<>>]
    /\ UNCHANGED <<version, proc, sigchld, handler, queue>>

\* SIGINT ends a client; answers it has not read make its end a reset.
CountLeave(c) ==
    /\ user[c] \in {"prompt", "read"}
    /\ user' = [user EXCEPT ![c] = "gone"]
    /\ side' = [side EXCEPT ![c] = IF toClient[c] = <<>> /\ @ = "open" THEN "closed" ELSE "reset"]
    /\ toClient' = [toClient EXCEPT ![c] = <<>>]
    /\ UNCHANGED <<version, proc, sigchld, handler, queue, toServer, given, counted>>

-----------------------------------------------------------------------------
(* The accept loop, which a child enters too when it has served its client. *)

AcceptNext(p) ==
    /\ Runs(p, "accept") /\ proc[p].ss /\ queue # <<>>
    /\ proc' = [proc EXCEPT ![p].sc = Head(queue), ![p].pc = IF version = "ipv6" THEN "greet" ELSE "fork"]
    /\ queue' = Tail(queue)
    /\ UNCHANGED <<version, sigchld, handler, side, user, linevars>>

\* The child has copies of both descriptors; a fork that fails is not noticed.
ForkChild(p) ==
    LET k == Min({q \in Forked : proc[q].pc = "none"}) IN
    /\ Runs(p, "fork")
    /\ \/ Go(p, "close")
       \/    proc' = [proc EXCEPT ![p].pc = "close",
                ![k] = [proc[p] EXCEPT !.pc = IF version \in ClosesFirst THEN "closeSs" ELSE "conn"]]
    /\ UNCHANGED <<version, sigchld, handler, queue, side, user, linevars>>

CloseSc(p) ==
    /\ Runs(p, "close")
    /\ proc' = [proc EXCEPT ![p].pc = "accept", ![p].sc = NoPeer07]
    /\ UNCHANGED <<version, sigchld, handler, queue, side, user, linevars>>

\* Where close(ss) leads: to the client, or, after it, to the end of the child or
\* to the loop, in which accept fails for ever.
AfterSs == IF version \in ClosesFirst THEN "conn" ELSE IF version = "chld" THEN "zombie" ELSE "accept"

\* Mutant: the child forgets to close ss.
CloseSsNothing(p) ==
    /\ Runs(p, "closeSs")
    /\ Go(p, AfterSs)
    /\ sigchld' = (sigchld \/ AfterSs = "zombie")
    /\ UNCHANGED <<version, handler, queue, side, user, linevars>>

CloseSs(p) ==
    /\ Runs(p, "closeSs")
    /\ proc' = [proc EXCEPT ![p].ss = FALSE, ![p].pc = AfterSs]
    /\ sigchld' = (sigchld \/ AfterSs = "zombie")
    /\ UNCHANGED <<version, handler, queue, side, user, linevars>>

-----------------------------------------------------------------------------
(* process_conn_server.                                                    *)

\* A read takes some of what has arrived.
ReadPiece(p) ==
    LET c == proc[p].sc IN
    /\ Runs(p, "conn")
    /\ \E n \in 1..toServer[c] :
          /\ proc' = [proc EXCEPT ![p].pc = "answer", ![p].size = n]
          /\ toServer' = [toServer EXCEPT ![c] = @ - n]
    /\ UNCHANGED <<version, sigchld, handler, queue, side, user, toClient, given, counted>>

\* A reset is told once: by a read, which returns -1, or by a write.  With the vectors of
\* 9.2.5 every read may return -1, and what it returns is answered like a size.
ResetTold(c) == side' = [side EXCEPT ![c] = IF @ = "reset" THEN "told" ELSE @]
ReadFails(p) ==
    LET c == proc[p].sc IN
    /\ Runs(p, "conn") /\ ((side[c] = "reset" /\ toServer[c] = 0) \/ version = "fails")
    /\ Go(p, "answer")
    /\ ResetTold(c)
    /\ UNCHANGED <<version, sigchld, handler, queue, user, linevars>>

\* Nothing more comes: tcp_server.c closes the connection, the others leave it open.
ReadNothing(p) ==
    LET c == proc[p].sc IN
    /\ Runs(p, "conn") /\ side[c] \in {"closed", "told"} /\ toServer[c] = 0
    /\ proc' = [proc EXCEPT ![p].pc = IF version \in ClosesFirst THEN "accept" ELSE "closeSs",
                            ![p].sc = IF version = "chld" THEN NoPeer07 ELSE c]
    /\ UNCHANGED <<version, sigchld, handler, queue, side, user, linevars>>

IsHeard(c) == side[c] = "open" /\ version # "fails"

\* The answer; one to a client that has closed is met with a reset, of which no read
\* tells any more.  A reset that nobody has been told of yet only fails the write.
Answer07(p) ==
    LET c == proc[p].sc IN
    /\ Runs(p, "answer") /\ side[c] # "told"
    /\ proc' = [proc EXCEPT ![p].pc = "conn", ![p].size = 0]
    /\ toClient' = [toClient EXCEPT ![c] = IF IsHeard(c) THEN Append(@, proc[p].size) ELSE @]
    /\ side' = [side EXCEPT ![c] = IF @ = "open" THEN @ ELSE "told"]
    /\ UNCHANGED <<version, sigchld, handler, queue, user, toServer, given, counted>>

\* After that it is SIGPIPE, which ends the child.
AnswerKills(p) ==
    /\ Runs(p, "answer") /\ side[proc[p].sc] = "told"
    /\ proc' = [proc EXCEPT ![p] = [pc |-> "zombie", sc |-> NoPeer07, ss |-> FALSE, size |-> 0]]
    /\ sigchld' = TRUE
    /\ UNCHANGED <<version, handler, queue, side, user, linevars>>

process_conn_server(p) == ReadPiece(p) \/ ReadFails(p) \/ ReadNothing(p) \/ Answer07(p) \/ AnswerKills(p)

-----------------------------------------------------------------------------
(* sig_chld of tcp_server.c: one wait for each signal, and signals merge.   *)

sig_chld ==
    /\ version = "chld" /\ sigchld /\ ~handler
    /\ sigchld' = FALSE /\ handler' = TRUE
    /\ UNCHANGED <<version, proc, queue, side, user, linevars>>

WaitChild ==
    /\ handler
    /\ \E k \in Forked : proc[k].pc = "zombie" /\ Go(k, "reaped")
    /\ handler' = FALSE
    /\ UNCHANGED <<version, sigchld, queue, side, user, linevars>>

-----------------------------------------------------------------------------
(* The IPv6 server.                                                        *)

\* Mutant: the server hears the client before it greets it.
GreetLate(p) ==
    LET c == proc[p].sc IN
    /\ Runs(p, "greet") /\ (toServer[c] > 0 \/ side[c] # "open")
    /\ Go(p, "hear")
    /\ toClient' = [toClient EXCEPT ![c] = IF side[c] = "open" THEN Append(@, 1) ELSE @]
    /\ UNCHANGED <<version, sigchld, handler, queue, side, user, toServer, given, counted>>

Greet(p) ==
    LET c == proc[p].sc IN
    /\ Runs(p, "greet")
    /\ Go(p, "hear")
    /\ toClient' = [toClient EXCEPT ![c] = IF side[c] = "open" THEN Append(@, 1) ELSE @]
    /\ UNCHANGED <<version, sigchld, handler, queue, side, user, toServer, given, counted>>

\* recv returns the client's greeting, or that it left, and the server closes.
HearClient(p) ==
    LET c == proc[p].sc IN
    /\ Runs(p, "hear") /\ (toServer[c] > 0 \/ side[c] # "open")
    /\ toServer' = [toServer EXCEPT ![c] = 0]
    /\ Go(p, "close")
    /\ UNCHANGED <<version, sigchld, handler, queue, side, user, toClient, given, counted>>

CountServe(p) ==
    \/ AcceptNext(p) \/ ForkChild(p) \/ CloseSc(p) \/ CloseSs(p)
    \/ process_conn_server(p) \/ Greet(p) \/ HearClient(p)

CountHandler(p) == p = Server /\ (sig_chld \/ WaitChild)

CountNext ==
    \/ \E c \in CountClient :
          CountConnect(c) \/ TypeLine07(c) \/ ReadAnswer07(c) \/ HearGreeting(c) \/ CountLeave(c)
    \/ \E p \in Process : CountServe(p) \/ CountHandler(p)

\* Every process runs, and a client that waits in read reads; nobody makes a user type.
CountFair ==
    /\ \A p \in Process : WF_countvars(CountServe(p) \/ CountHandler(p))
    /\ \A c \in CountClient : WF_countvars(ReadAnswer07(c) \/ HearGreeting(c))

CountSpec == CountInit /\ [][CountNext]_countvars /\ CountFair

-----------------------------------------------------------------------------
(* Properties.                                                             *)

CountTypeOK ==
    /\ \A p \in Process :
          /\ proc[p].pc \in {"none", "accept", "fork", "close", "closeSs", "conn", "answer",
                             "greet", "hear", "zombie", "reaped"}
          /\ proc[p].sc \in CountClient \cup {NoPeer07}
          /\ proc[p].pc \in {"conn", "answer", "greet", "hear"} => proc[p].sc # NoPeer07
    /\ side \in [CountClient -> {"new", "open", "closed", "reset", "told"}]
    /\ user \in [CountClient -> {"none", "prompt", "read", "gone"}]
    /\ \A c \in CountClient : toServer[c] \in 0..MaxTyped + 1 /\ given[c] \in 0..MaxTyped + 1

\* However TCP cuts the lines, and however late a client reads, the counts it has
\* printed, those on their way, the piece being answered and the bytes not read yet
\* make up what it sent.  Whoever loses bytes has been told so by a reset.
Total(c) ==
    counted[c] + SumOf(toClient[c]) + toServer[c]
    + MapThenSumSet(LAMBDA p : proc[p].size, {q \in Process : proc[q].sc = c /\ proc[q].pc = "answer"})
CountsAddUp ==
    version # "ipv6" => \A c \in CountClient : side[c] = "open" /\ ~Hung(c) => Total(c) = given[c]

\* A child never takes a client away from the server, although it comes back to
\* the server's loop: its connection is the one it was forked for, to the end.
ChildKeepsClient ==
    [][\A k \in Forked : proc[k].sc # NoPeer07 => proc'[k].sc \in {proc[k].sc, NoPeer07}]_countvars

\* wait in the handler of SIGCHLD finds a child that has ended: though signals
\* merge, the server never blocks there while clients wait for accept.
WaitNeverBlocks == handler => \E k \in Forked : proc[k].pc = "zombie"

\* A client that waits in read is not left waiting: not when the fork failed, not
\* behind another client, and neither side of the IPv6 example for the other.
PromptBack(c) == (user[c] = "read") ~> (user[c] # "read")

\* tcp_server.c lets go of every client that left.
LeaverIsLetGo(c) == (version = "chld" /\ side[c] \in {"closed", "reset", "told"}) ~> Hung(c)

\* The processes of the count servers keep to their clients, lose none of their
\* bytes, and are waited for without waiting.
CountingSound == [](CountTypeOK /\ CountsAddUp /\ WaitNeverBlocks) /\ ChildKeepsClient
=============================================================================
