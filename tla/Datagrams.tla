----------------------------- MODULE Datagrams -----------------------------
(***************************************************************************)
(* Programs that exchange datagrams; `exchange' says which pair runs:      *)
(*   "found"     11_unix_socket/broadcast_11_2: client.c broadcasts, until *)
(*               a server.c acknowledges or it has tried `times' times;    *)
(*   "broadcast" and "unicast"  12_sockopt/sol_socket_12_2:                *)
(*               client_reuse_udp_boardcast.c and                          *)
(*               client_reuse_udp_unicast.c always send `times' requests,  *)
(*               and servers server_reuse_udp.c share one port;            *)
(*   "dgram"     11_unix_socket/unix_socket_11_1: client_dgram.c and       *)
(*               server_dgram.c, over the UNIX domain, which loses nothing;*)
(*   "echo"      10_udp/10.3.5: one datagram, and its echo;                *)
(*   "flood"     12_sockopt/sockopt_sndrcvbuf: send_faster_udp.c sends and *)
(*               receive_slower_udp.c reads, neither waits for the other.  *)
(* A request is known by its round.  UDP may lose it, or its answer.       *)
(***************************************************************************)
EXTENDS Integers, Sequences, FiniteSets

CONSTANTS
    Asking,         \* clients
    Answering,      \* servers
    times,          \* rounds of a client
    Room            \* datagrams a socket keeps

ASSUME DatagramAssumption == times \in Nat \ {0} /\ Room \in Nat \ {0} /\ IsFiniteSet(Answering)

Exchange == {"found", "broadcast", "unicast", "dgram", "echo", "flood"}
Searches == {"found", "broadcast", "unicast"}

VARIABLES
    exchange,   \* which programs run, "none" at first
    asker,      \* a client: "ask", "wait" or "closed", and its round
    inbox,      \* answers a client has not read: their rounds
    socket,     \* requests a server has not read: [from, round]
    answerer,   \* a server: "select", "busy" (with a request) or "over"
    exitpipe,   \* signals that wait: in the pipe of broadcast_11_2/server.c, or in
                \* the flag of receive_slower_udp.c
    timedOut,   \* history: clients whose select timed up
    astray      \* history: clients that took an answer for that of another round
dgramvars == <<exchange, asker, inbox, socket, answerer, exitpipe, timedOut, astray>>

NoRequest == [from |-> "nobody", round |-> 0]
Serving(pc, r, exits) == [pc |-> pc, request |-> r, exits |-> exits]

\* One client searches, of one or more servers; one server has all other clients.
DatagramInit ==
    /\ exchange = "none"
    /\ asker = [c \in Asking |-> [pc |-> "closed", round |-> 1]]
    /\ inbox = [c \in Asking |-> <<>>]
    /\ socket = [s \in Answering |-> <<>>]
    /\ answerer = [s \in Answering |-> Serving("over", NoRequest, FALSE)]
    /\ exitpipe = {} /\ timedOut = {} /\ astray = {}

\* Programs are run, that have to do with each other.
RunPrograms ==
    /\ exchange = "none" /\ exchange' \in Exchange
    /\ \E c0 \in Asking : asker' =
         [c \in Asking |->
             [asker[c] EXCEPT !.pc = IF exchange' \in Searches /\ c # c0 THEN "closed" ELSE "ask"]]
    /\ \E s0 \in Answering : answerer' =
         [s \in Answering |->
            Serving(IF exchange' \in Searches \/ s = s0 THEN "select" ELSE "over", NoRequest, FALSE)]
    /\ UNCHANGED <<inbox, socket, exitpipe, timedOut, astray>>

Live == {s \in Answering : answerer[s].pc # "over"}

-----------------------------------------------------------------------------
(* The clients.                                                            *)

\* The end of a round: `times' of them end every client.
NextRound(c) == [pc |-> IF asker[c].round = times THEN "closed" ELSE "ask", round |-> asker[c].round + 1]

\* A request put into the sockets of `to'.
Sent(c, to) ==
    socket' = [s \in Answering |->
                 IF s \in to /\ Len(socket[s]) < Room
                 THEN Append(socket[s], [from |-> c, round |-> asker[c].round]) ELSE socket[s]]

\* sendto fails, and the round is over; or some servers get the request: all that
\* listen get a broadcast, one gets what is sent to a single address.
Ask(c) ==
    /\ exchange \in Searches /\ asker[c].pc = "ask"
    /\ \/ asker' = [asker EXCEPT ![c] = NextRound(c)] /\ UNCHANGED socket
       \/ /\ asker' = [asker EXCEPT ![c].pc = "wait"]
          /\ \E to \in SUBSET Live :
                /\ exchange = "unicast" => Cardinality(to) <= 1
                /\ Sent(c, to)
    /\ UNCHANGED <<exchange, inbox, answerer, exitpipe, timedOut, astray>>

\* Mutant: a round without an answer is not counted.
TimesUpUncounted(c) ==
    /\ exchange \in Searches /\ asker[c].pc = "wait" /\ inbox[c] = <<>>
    /\ asker' = [asker EXCEPT ![c].pc = "ask"]
    /\ timedOut' = timedOut \cup {c}
    /\ UNCHANGED <<exchange, inbox, socket, answerer, exitpipe, astray>>

\* Nothing to read within five seconds.
TimesUp(c) ==
    /\ exchange \in Searches /\ asker[c].pc = "wait" /\ inbox[c] = <<>>
    /\ asker' = [asker EXCEPT ![c] = NextRound(c)]
    /\ timedOut' = timedOut \cup {c}
    /\ UNCHANGED <<exchange, inbox, socket, answerer, exitpipe, astray>>

\* client_dgram.c: the write fails once the server has gone, and ends the client.
DgramWrite(c) ==
    /\ exchange = "dgram" /\ asker[c].pc = "ask"
    /\ IF Live = {} THEN asker' = [asker EXCEPT ![c].pc = "closed"] /\ UNCHANGED socket
       ELSE /\ \A s \in Live : Len(socket[s]) < Room
            /\ asker' = [asker EXCEPT ![c].pc = "wait"] /\ Sent(c, Live)
    /\ UNCHANGED <<exchange, inbox, answerer, exitpipe, timedOut, astray>>

\* udpclie_echo: a lost datagram is waited for for ever.
udpclie_echo(c) ==
    /\ exchange = "echo" /\ asker[c].pc = "ask"
    /\ asker' = [asker EXCEPT ![c].pc = "wait"]
    /\ \E to \in SUBSET Live : Sent(c, to)
    /\ UNCHANGED <<exchange, inbox, answerer, exitpipe, timedOut, astray>>

\* send_faster_udp.c: a sendto that fails ends it, as SIGINT does.
SendFaster(c) ==
    /\ exchange = "flood" /\ asker[c].pc = "ask"
    /\ \/ asker' = [asker EXCEPT ![c].pc = "closed"] /\ UNCHANGED socket
       \/ /\ asker' = [asker EXCEPT ![c] = NextRound(c)]
          /\ \E to \in SUBSET Live : Sent(c, to)
    /\ UNCHANGED <<exchange, inbox, answerer, exitpipe, timedOut, astray>>

\* The first answer there is, of whichever round.
ReadAnswer(c) ==
    /\ asker[c].pc = "wait" /\ inbox[c] # <<>>
    /\ inbox' = [inbox EXCEPT ![c] = Tail(@)]
    /\ astray' = IF Head(inbox[c]) = asker[c].round THEN astray ELSE astray \cup {c}
    /\ asker' = [asker EXCEPT ![c] = IF exchange \in {"found", "echo"} THEN [@ EXCEPT !.pc = "closed"]
                                     ELSE NextRound(c)]
    /\ UNCHANGED <<exchange, socket, answerer, exitpipe, timedOut>>

AskerSteps(c) == Ask(c) \/ TimesUp(c) \/ DgramWrite(c) \/ udpclie_echo(c) \/ SendFaster(c) \/ ReadAnswer(c)

-----------------------------------------------------------------------------
(* The servers.                                                            *)

\* select, or a recvfrom that blocks, and the request: broadcast_11_2/server.c
\* also learns whether there is a signal in its pipe.
ReceiveRequest(s) ==
    /\ exchange # "flood" /\ answerer[s].pc = "select" /\ socket[s] # <<>>
    /\ answerer' = [answerer EXCEPT
           ![s] = Serving("busy", Head(socket[s]), exchange = "found" /\ s \in exitpipe)]
    /\ socket' = [socket EXCEPT ![s] = Tail(@)]
    /\ UNCHANGED <<exchange, asker, inbox, exitpipe, timedOut, astray>>

\* Mutant: a second answer is sent when the first was not read yet.
AnswerAgain(s) ==
    LET q == answerer[s].request IN
    /\ answerer[s].pc = "busy"
    /\ inbox' = IF asker[q.from].pc = "wait"
                THEN [inbox EXCEPT ![q.from] = Append(Append(@, q.round), q.round)] ELSE inbox
    /\ answerer' = [answerer EXCEPT
           ![s] = Serving(IF answerer[s].exits THEN "over" ELSE "select", NoRequest, FALSE)]
    /\ UNCHANGED <<exchange, asker, socket, exitpipe, timedOut, astray>>

\* The answer goes to the sender of the request, and UDP may lose it.
Answer(s) ==
    LET q == answerer[s].request IN
    /\ answerer[s].pc = "busy"
    /\ \/ inbox' = IF asker[q.from].pc = "closed" THEN inbox
                   ELSE [inbox EXCEPT ![q.from] = Append(@, q.round)]
       \/ exchange # "dgram" /\ UNCHANGED inbox
    /\ answerer' = [answerer EXCEPT
           ![s] = Serving(IF answerer[s].exits THEN "over" ELSE "select", NoRequest, FALSE)]
    /\ UNCHANGED <<exchange, asker, socket, exitpipe, timedOut, astray>>

\* receive_slower_udp.c: the flag, then a read that does not wait, then a sleep.
ReceiveSlower(s) ==
    /\ exchange = "flood" /\ answerer[s].pc = "select"
    /\ IF s \in exitpipe THEN answerer' = [answerer EXCEPT ![s].pc = "over"] /\ UNCHANGED socket
       ELSE socket[s] # <<>> /\ socket' = [socket EXCEPT ![s] = Tail(@)] /\ UNCHANGED answerer
    /\ UNCHANGED <<exchange, asker, inbox, exitpipe, timedOut, astray>>

\* broadcast_11_2/server.c: nothing but the pipe is readable.
ReadPipe(s) ==
    /\ exchange = "found" /\ answerer[s].pc = "select" /\ socket[s] = <<>> /\ s \in exitpipe
    /\ answerer' = [answerer EXCEPT ![s].pc = "over"]
    /\ UNCHANGED <<exchange, asker, inbox, socket, exitpipe, timedOut, astray>>

AnswererSteps(s) == ReceiveRequest(s) \/ Answer(s) \/ ReceiveSlower(s) \/ ReadPipe(s)

\* SIGINT.  It interrupts a select that waits, which ends the two servers that
\* select; the handler of broadcast_11_2/server.c also leaves a byte in the pipe,
\* that of server_dgram.c nothing.  The others have no handler.
Sigint(s) ==
    LET waits == answerer[s].pc = "select" /\ socket[s] = <<>>
        ends == answerer' = [answerer EXCEPT ![s].pc = "over"] IN
    /\ s \in Live /\ s \notin exitpipe
    /\ CASE exchange = "found" -> exitpipe' = exitpipe \cup {s} /\ (UNCHANGED answerer \/ (waits /\ ends))
         [] exchange = "flood" -> exitpipe' = exitpipe \cup {s} /\ UNCHANGED answerer
         [] exchange = "dgram" -> waits /\ ends /\ UNCHANGED exitpipe
         [] OTHER -> ends /\ UNCHANGED exitpipe
    /\ UNCHANGED <<exchange, asker, inbox, socket, timedOut, astray>>

DatagramNext ==
    \/ RunPrograms
    \/ \E c \in Asking : AskerSteps(c)
    \/ \E s \in Answering : AnswererSteps(s) \/ Sigint(s)

DatagramFair ==
    /\ \A c \in Asking : WF_dgramvars(AskerSteps(c))
    /\ \A s \in Answering : WF_dgramvars(AnswererSteps(s))

DatagramSpec == DatagramInit /\ [][DatagramNext]_dgramvars /\ DatagramFair

-----------------------------------------------------------------------------
(* Properties.                                                             *)

\* A socket never holds more than the requests of the rounds begun, nor a client
\* more answers than it was sent for them.
DatagramTypeOK ==
    /\ \A s \in Answering : \A i \in DOMAIN socket[s] :
          socket[s][i].round <= asker[socket[s][i].from].round
    /\ \A c \in Asking :
          /\ asker[c].round \in 1..times + 1
          /\ Len(inbox[c]) <= asker[c].round
                * (IF exchange \in {"found", "broadcast"} THEN Cardinality(Answering) ELSE 1)
    /\ \A c \in Asking : \A i \in DOMAIN inbox[c] : inbox[c][i] <= asker[c].round

\* An answer is that of the round it is read in, unless a round before had timed
\* up, or several servers answered a broadcast: from then on every answer may be
\* that of an earlier round, since nothing in it says to which it belongs.
AnswersInStep == astray \subseteq timedOut \/ exchange = "broadcast"

\* A search ends after its rounds, whatever is lost, and whether servers live.
SearchEnds(c) == (exchange \in Searches) ~> (asker[c].pc = "closed")

\* SIGINT ends broadcast_11_2/server.c and receive_slower_udp.c wherever it
\* comes, even between the test and the select, or while a request is answered.
SigintEnds(s) == (s \in exitpipe) ~> (answerer[s].pc = "over")

\* Over the UNIX domain whoever writes is answered, if the server does not end.
DgramAnswered(c) ==
    (exchange = "dgram" /\ asker[c].pc = "wait") ~> (asker[c].pc # "wait" \/ Live = {})

\* Datagrams that are lost, late or of several servers: what a client reads is of
\* its round, or it has been warned.
RoundsSound == DatagramTypeOK /\ AnswersInStep
=============================================================================
