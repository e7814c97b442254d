------------------------------- MODULE Shttpd -------------------------------
(***************************************************************************)
(* The SHTTPD web server (src/18_shttpd/sources): the accept loop that     *)
(* forks a process per connection and counts them (main.c), what such a    *)
(* process does with its request (main.c, handlers.c, mime.c), and the CGI *)
(* script it may start, at the other end of two pipes.                     *)
(*                                                                         *)
(* A request is what the server tells apart: the size of its header, the   *)
(* method, what the address leads to, its Content-Length, its body, and,   *)
(* for a script, what it reads and writes.  An answer is the status of the *)
(* page that was sent; pages themselves are left out.                      *)
(*                                                                         *)
(* The kernel's part is modelled from how the server uses it: a connection *)
(* waits in the backlog; a write to a peer that is gone is lost or raises  *)
(* SIGPIPE; a pipe holds PipeRoom units; wait blocks while there are only  *)
(* running children and fails when there are none.                         *)
(***************************************************************************)
EXTENDS Integers, Sequences, FiniteSets

CONSTANTS
    Client,         \* who connects, once each
    Leavers,        \* the clients that may close their end early
    Proc, Null,     \* process table slots for the children, and no client
    Requests,       \* what each client may ask
    max_child,      \* from pserv.conf
    MAX_STUCK_COUNTER,
    BUFFER_SIZE,    \* units of a header
    POST_BUFFER_SIZE,
    PipeRoom,       \* units in a pipe
    SocketRoom,     \* units on their way to a client that reads none of them
    Terminal,       \* whether stdout is a terminal
    Faults          \* bound: system calls that fail

Method == {"GET", "HEAD", "POST", "OTHER"}
\* file: a file or a directory with an index; list: a directory without; none:
\* no such file, or a directory without its slash; up: the check of the depth
\* refuses it; deep: CGI_MATCH_STRING is inside; below it, cgi: a script, nocgi: no
\* file, or a directory.
Target == {"file", "list", "none", "up", "deep", "cgi", "nocgi"}
Status == {200, 400, 403, 404, 411, 500, 501}

\* header and body in units; clen: Content-Length, or Null where there is none;
\* script: what the script reads before it writes, and how much it writes; deaf: the
\* client does not read what it is sent.
Request == [header: Nat, method: Method, target: Target, clen: Int \cup {Null}, body: Nat,
            deaf: BOOLEAN, script: [reads: {"nothing", "line", "eof"}, out: Nat]]

ASSUME RequestAssumption == \A c \in Client : \A r \in Requests[c] : r \in Request /\ r.header > 0
ASSUME LeaversAssumption == Leavers \subseteq Client
ASSUME NullAssumption == Null \notin Client
ASSUME ProcAssumption == IsFiniteSet(Proc)
ASSUME MaxChildAssumption == max_child \in Nat \ {0}    \* DHTTPD_InitPara
ASSUME BoundsAssumption ==
    {MAX_STUCK_COUNTER, BUFFER_SIZE, POST_BUFFER_SIZE, PipeRoom, SocketRoom, Faults} \subseteq Nat

VARIABLES
    srv,        \* the server process: [pc, cs, runningChildren]
    backlog,    \* connections not accepted yet, oldest first
    net,        \* each client: [req, at, sent, gone, got, out]
    kid,        \* each child process
    cgi,        \* the script of each child, with its pipes
    log,        \* the statuses written to the log for each client
    faults      \* system calls that may still fail

vars == <<srv, backlog, net, kid, cgi, log, faults>>

\* open: its copy of cs is open; ready: newSocketReady; total, post: units of
\* the header and of the body read; req: the request as it understood it.
NoKid == [pc |-> "none", cs |-> Null, open |-> FALSE, ready |-> FALSE, total |-> 0,
          post |-> 0, stuck |-> 0, req |-> Null]
\* sock: the script has a copy of an open cs; in, pipe: what is in the pipes to
\* and from it; left: units it has still to write; ok: it will exit with 0.
NoCgi == [pc |-> "none", sock |-> FALSE, in |-> 0, pipe |-> <<>>, left |-> 0, ok |-> TRUE]

Init ==
    /\ srv = [pc |-> "accept", cs |-> Null, runningChildren |-> 0]
    /\ backlog = <<>>
    /\ \E req \in [Client -> UNION {Requests[c] : c \in Client}] :
          /\ \A c \in Client : req[c] \in Requests[c]
          /\ net = [c \in Client |-> [req |-> req[c], at |-> "home", sent |-> 0, gone |-> FALSE,
                                     got |-> <<>>, out |-> <<>>]]
    /\ kid = [p \in Proc |-> NoKid]
    /\ cgi = [p \in Proc |-> NoCgi]
    /\ log = [c \in Client |-> <<>>]
    /\ faults = Faults

Fails == faults > 0 /\ faults' = faults - 1

-----------------------------------------------------------------------------
(* The clients.                                                            *)

Connect(c) ==
    /\ net[c].at = "home" /\ srv.pc # "down"
    /\ net' = [net EXCEPT ![c].at = "in"]
    /\ backlog' = Append(backlog, c)
    /\ UNCHANGED <<srv, kid, cgi, log, faults>>

Sends(c) ==
    /\ net[c].at = "in" /\ ~net[c].gone
    /\ net[c].sent < net[c].req.header + net[c].req.body
    /\ net' = [net EXCEPT ![c].sent = @ + 1]
    /\ UNCHANGED <<srv, backlog, kid, cgi, log, faults>>

Leaves(c) ==
    /\ c \in Leavers /\ net[c].at = "in" /\ ~net[c].gone
    /\ net' = [net EXCEPT ![c].gone = TRUE]
    /\ UNCHANGED <<srv, backlog, kid, cgi, log, faults>>

-----------------------------------------------------------------------------
(* The server process: accept, fork, close, count, wait.                   *)

Children == {p \in Proc : kid[p].pc # "none"}
Zombies == {p \in Proc : kid[p].pc = "zombie"}

Accept ==
    /\ srv.pc = "accept"
    /\ \/ /\ backlog # <<>>
          /\ srv' = [srv EXCEPT !.pc = "fork", !.cs = Head(backlog)]
          /\ backlog' = Tail(backlog)
          /\ UNCHANGED faults
       \/ srv' = [srv EXCEPT !.pc = "fork", !.cs = Null] /\ Fails /\ UNCHANGED backlog
    /\ UNCHANGED <<net, kid, cgi, log>>

\* A connection no process has open any more is over.
HangUp(c) == net' = [x \in Client |-> IF x = c THEN [net[x] EXCEPT !.at = "out"] ELSE net[x]]

\* Mutant: the count forgotten where fork has succeeded.
ForkUncounted ==
    /\ srv.pc = "fork"
    /\ \/ /\ \E p \in Proc \ Children :
               kid' = [kid EXCEPT ![p] = IF srv.cs = Null THEN [NoKid EXCEPT !.pc = "zombie"]
                                         ELSE [NoKid EXCEPT !.pc = "header", !.cs = srv.cs,
                                                            !.open = TRUE, !.ready = TRUE]]
          /\ srv' = [srv EXCEPT !.pc = "reap", !.cs = Null]
          /\ UNCHANGED <<net, faults>>
       \/ /\ Fails /\ HangUp(srv.cs) /\ UNCHANGED kid
          /\ srv' = [srv EXCEPT !.pc = IF @.runningChildren + 1 >= max_child THEN "wait" ELSE "reap",
                                !.cs = Null, !.runningChildren = @ + 1]
    /\ UNCHANGED <<backlog, cgi, log>>

\* The child of a failed accept exits at once; a fork that fails is counted
\* like one that succeeds.
Fork ==
    /\ srv.pc = "fork"
    /\ \/ /\ \E p \in Proc \ Children :
               kid' = [kid EXCEPT ![p] = IF srv.cs = Null THEN [NoKid EXCEPT !.pc = "zombie"]
                                         ELSE [NoKid EXCEPT !.pc = "header", !.cs = srv.cs,
                                                            !.open = TRUE, !.ready = TRUE]]
          /\ UNCHANGED <<net, faults>>
       \/ Fails /\ HangUp(srv.cs) /\ UNCHANGED kid
    /\ srv' = [pc |-> IF srv.runningChildren + 1 >= max_child THEN "wait" ELSE "reap",
               cs |-> Null, runningChildren |-> srv.runningChildren + 1]
    /\ UNCHANGED <<backlog, cgi, log>>

Bury(p) == kid' = [kid EXCEPT ![p] = NoKid]

\* wait: blocks while children run, fails when there are none; runningChildren
\* is lowered either way.
Wait ==
    /\ srv.pc = "wait"
    /\ \/ \E p \in Zombies : Bury(p)
       \/ Children = {} /\ UNCHANGED kid
    /\ srv' = [srv EXCEPT !.pc = "reap", !.runningChildren = @ - 1]
    /\ UNCHANGED <<backlog, net, cgi, log, faults>>

\* One waitpid: the loop in front of the block is empty.
Waitpid ==
    /\ srv.pc = "reap"
    /\ \/ /\ \E p \in Zombies : Bury(p)
          /\ srv' = [srv EXCEPT !.pc = "accept", !.runningChildren = @ - 1]
       \/ Zombies = {} /\ srv' = [srv EXCEPT !.pc = "accept"] /\ UNCHANGED kid
    /\ UNCHANGED <<backlog, net, cgi, log, faults>>

\* The server's own SIGINT: newSocketReady is never YES here, and what it has
\* accepted dies with it.
sig_int ==
    /\ srv.pc # "down"
    /\ srv' = [srv EXCEPT !.pc = "down", !.cs = Null]
    /\ net' = [c \in Client |->
                 IF net[c].at = "in" /\ \A p \in Proc : kid[p].cs # c
                 THEN [net[c] EXCEPT !.at = "out"] ELSE net[c]]
    /\ backlog' = <<>>
    /\ UNCHANGED <<kid, cgi, log, faults>>

Server == Accept \/ Fork \/ Wait \/ Waitpid

-----------------------------------------------------------------------------
(* A child: reading the header.                                            *)

At(p, pc) == kid[p].pc = pc
Cs(p) == kid[p].cs
Available(p) == net[Cs(p)].sent > kid[p].total + kid[p].post
Gone(p) == net[Cs(p)].gone

\* What the record of a child becomes: f are its new fields.
Becomes(p, f) ==
    kid' = [kid EXCEPT ![p] = [x \in DOMAIN @ |-> IF x \in DOMAIN f THEN f[x] ELSE @[x]]]
Goto(p, pc) == Becomes(p, [pc |-> pc])
Local(p) == UNCHANGED <<srv, backlog, net, cgi, log, faults>>

\* A header that is too long is answered, and then handled all the same.
ReadHeader(p) ==
    /\ At(p, "header") /\ Available(p)
    /\ LET n == kid[p].total + 1 IN
       Becomes(p, [total |-> n, pc |-> IF n >= BUFFER_SIZE THEN "toolong"
                                       ELSE IF n = net[Cs(p)].req.header THEN "handle"
                                       ELSE "header"])
    /\ Local(p)

\* Nothing more will come of this connection: the socket is closed, and what
\* was read is handled unless it is nothing.
CloseCs(p, read, pc) ==
    Becomes(p, [open |-> FALSE, ready |-> FALSE, pc |-> IF read > 0 THEN pc ELSE "close"])

\* A read with EAGAIN: MAX_STUCK_COUNTER of them in all are too many.
Stuck(p, read, pc) ==
    IF kid[p].stuck + 1 >= MAX_STUCK_COUNTER THEN CloseCs(p, read, pc)
    ELSE Becomes(p, [stuck |-> kid[p].stuck + 1])

\* errno is not set by an end of file: it may still be EAGAIN.
HeaderEnds(p) ==
    /\ At(p, "header") /\ ~Available(p)
    /\ \/ Stuck(p, kid[p].total, "handle")
       \/ Gone(p) /\ CloseCs(p, kid[p].total, "handle")
    /\ Local(p)

-----------------------------------------------------------------------------
(* Handling the request.                                                   *)

\* sendChunk ends when everything is in the socket, or the client has left: SO_SNDTIMEO
\* only makes it try again, for ever if the client does not read.
RoomFor(c) == ~net[c].req.deaf \/ Len(net[c].got) + Len(net[c].out) < SocketRoom

\* Page s is sent and ll is written to the log.  To a socket closed before,
\* nothing is sent; to a client that has left, nothing that it gets, and SIGPIPE
\* may close the socket.
Say(p, s, ll, pc) ==
    LET c == Cs(p) IN
    /\ log' = [log EXCEPT ![c] = @ \o ll]
    /\ \/ /\ kid[p].open /\ ~Gone(p) /\ RoomFor(c) /\ Goto(p, pc)
          /\ net' = [net EXCEPT ![c].got = Append(@, s)]
       \/ (~kid[p].open \/ Gone(p)) /\ Goto(p, pc) /\ UNCHANGED net
       \/ /\ kid[p].open /\ Gone(p) /\ UNCHANGED net
          /\ Becomes(p, [pc |-> pc, open |-> FALSE, ready |-> FALSE])
    /\ UNCHANGED <<srv, backlog, cgi, faults>>

TooLong(p) == At(p, "toolong") /\ Say(p, 400, <<>>, "handle")

\* The request as DHTTPD_ParseRequest understands it.  contentLength, which only
\* a POST looks at, keeps what the stack held when there is no such line; a
\* header that was not read to its end may be taken for anything that begins
\* like it.
Lengths(r) == IF r.method = "POST" THEN -1..POST_BUFFER_SIZE ELSE {r.clen}
ReadAs(r, m, t, n) == [r EXCEPT !.method = m, !.target = t, !.clen = n]
ParseRequest(p) ==
    LET r == net[Cs(p)].req IN
    IF kid[p].total = r.header
    THEN IF r.clen = Null THEN {ReadAs(r, r.method, r.target, n) : n \in Lengths(r)} ELSE {r}
    ELSE {ReadAs(r, m, t, n) : m \in {r.method, "OTHER"}, t \in Target, n \in Lengths(r)}

CgiPath(r) == r.target \in {"cgi", "nocgi"}

\* What HandleMethod answers itself: the depth of the path comes first; POST is
\* for scripts, and its length is checked before the body is read.
StatusOf(r) ==
    CASE r.target = "up" -> 403
      [] r.target # "up" /\ (r.method = "OTHER" \/ (r.method = "POST" /\ ~CgiPath(r))) -> 501
      [] r.method = "POST" /\ CgiPath(r) -> IF r.clen < 0 THEN 411 ELSE 500
      [] r.method = "GET" /\ r.target = "deep" -> 403
      [] r.method \in {"GET", "HEAD"} /\ r.target = "none" -> 404
      [] r.method = "HEAD" /\ r.target = "list" -> 404
      [] OTHER -> 200

\* The lines of the log that say what a request was answered; 411 passes
\* logWriter one argument too few, and what that writes is no such line.
Logged(s) == IF s \in {200, 403, 404} THEN <<s>> ELSE <<>>

Takes(r) == r.target # "up" /\ CgiPath(r) /\ r.method # "OTHER"

\* Mutant: the refusal of a script's name in the middle of a path does not
\* return.
HandleMethodFalls(p) ==
    /\ At(p, "handle")
    /\ \E r \in ParseRequest(p) :
       \/ /\ Takes(r) /\ Local(p)
          /\ IF r.method # "POST" THEN Becomes(p, [pc |-> "cgi", req |-> r])
             ELSE r.clen \in 0..POST_BUFFER_SIZE - 1
                  /\ Becomes(p, [pc |-> "body", req |-> r, stuck |-> 0])
       \/ /\ ~Takes(r) \/ (r.method = "POST" /\ r.clen \notin 0..POST_BUFFER_SIZE - 1)
          /\ Say(p, StatusOf(r), Logged(StatusOf(r)), IF StatusOf(r) = 403 THEN "toolong" ELSE "close")

HandleMethod(p) ==
    /\ At(p, "handle")
    /\ \E r \in ParseRequest(p) :
       \/ /\ Takes(r) /\ Local(p)
          /\ \/ r.method # "POST" /\ Becomes(p, [pc |-> "cgi", req |-> r])
             \/ /\ r.method = "POST" /\ r.clen \in 0..POST_BUFFER_SIZE - 1
                /\ Becomes(p, [pc |-> "body", req |-> r, stuck |-> 0])
       \/ /\ ~Takes(r) \/ (r.method = "POST" /\ r.clen \notin 0..POST_BUFFER_SIZE - 1)
          /\ Say(p, StatusOf(r), Logged(StatusOf(r)), "close")

\* The body of a POST.  A length of 0 is never reached.
ReadBody(p) ==
    /\ At(p, "body") /\ Available(p)
    /\ Becomes(p, [post |-> kid[p].post + 1, stuck |-> 0,
                   pc |-> IF kid[p].post + 1 = kid[p].req.clen THEN "cgi" ELSE "body"])
    /\ Local(p)

BodyEnds(p) ==
    /\ At(p, "body") /\ ~Available(p)
    /\ \/ Stuck(p, kid[p].post, "cgi")
       \/ Gone(p) /\ CloseCs(p, kid[p].post, "cgi")
    /\ Local(p)

\* The parent closes its copy with the process; so does the kernel.
Close(p) ==
    /\ At(p, "close")
    /\ Goto(p, "zombie")
    /\ HangUp(Cs(p))
    /\ UNCHANGED <<srv, backlog, cgi, log, faults>>

-----------------------------------------------------------------------------
(* cgiHandler, from the pipes on, and the script.                          *)

Script(p, f) ==
    cgi' = [cgi EXCEPT ![p] = [x \in DOMAIN @ |-> IF x \in DOMAIN f THEN f[x] ELSE @[x]]]

StartCgi(p) ==
    /\ At(p, "cgi")
    /\ \/ kid[p].req.target = "nocgi" /\ \E s \in {403, 404} : Say(p, s, Logged(s), "close")
       \/ /\ kid[p].req.target # "nocgi"
          /\ Fails /\ Goto(p, "close")
          /\ UNCHANGED <<srv, backlog, net, cgi, log>>
       \/ /\ kid[p].req.target # "nocgi"
          /\ Goto(p, IF kid[p].req.method = "POST" THEN "feed" ELSE "relay")
          /\ Script(p, [pc |-> "head", sock |-> kid[p].open, left |-> kid[p].req.script.out])
          /\ UNCHANGED <<srv, backlog, net, log, faults>>

\* A script that has gone without reading raises SIGPIPE, whose handler closes
\* the client's socket; if that was closed before, the process exits.
Feed(p) ==
    /\ At(p, "feed")
    /\ \/ cgi[p].pc # "exited" /\ Script(p, [in |-> 1]) /\ Goto(p, "relay") /\ UNCHANGED net
       \/ /\ cgi[p].pc = "exited" /\ kid[p].ready
          /\ Becomes(p, [pc |-> "relay", open |-> FALSE, ready |-> FALSE])
          /\ UNCHANGED <<cgi, net>>
       \/ /\ cgi[p].pc = "exited" /\ ~kid[p].ready
          /\ Goto(p, "zombie") /\ HangUp(Cs(p)) /\ Script(p, NoCgi)
    /\ UNCHANGED <<srv, backlog, log, faults>>

\* Mutant: the script is waited for before its output is read.
RelayLate(p) ==
    /\ At(p, "relay") /\ cgi[p].pc = "exited"
    /\ \/ cgi[p].pipe = <<>> /\ Goto(p, "wait") /\ UNCHANGED <<net, cgi>>
       \/ /\ cgi[p].pipe # <<>> /\ Script(p, [pipe |-> Tail(cgi[p].pipe)]) /\ UNCHANGED kid
          /\ net' = [net EXCEPT ![Cs(p)].out = Append(@, Head(cgi[p].pipe))]
    /\ UNCHANGED <<srv, backlog, log, faults>>

\* A turn of the loop: read the pipe, send what was read; the end of the pipe
\* and a failed send end the loop.
Relay(p) ==
    /\ At(p, "relay")
    /\ \/ /\ cgi[p].pipe = <<>> /\ cgi[p].pc = "exited"
          /\ Goto(p, "wait") /\ UNCHANGED <<net, cgi>>
       \/ /\ cgi[p].pipe # <<>> /\ Script(p, [pipe |-> Tail(cgi[p].pipe)])
          /\ \/ /\ kid[p].open /\ (Gone(p) \/ RoomFor(Cs(p))) /\ UNCHANGED kid
                /\ net' = IF Gone(p) THEN net
                          ELSE [net EXCEPT ![Cs(p)].out = Append(@, Head(cgi[p].pipe))]
             \/ ~kid[p].open /\ Goto(p, "wait") /\ UNCHANGED net
             \/ /\ kid[p].open /\ Gone(p) /\ UNCHANGED net
                /\ Becomes(p, [pc |-> "wait", open |-> FALSE, ready |-> FALSE])
    /\ UNCHANGED <<srv, backlog, log, faults>>

WaitCgi(p) ==
    /\ At(p, "wait") /\ cgi[p].pc = "exited"
    /\ log' = [log EXCEPT ![Cs(p)] = @ \o IF cgi[p].ok THEN Logged(200) ELSE <<>>]
    /\ Goto(p, "close") /\ Script(p, NoCgi)
    /\ UNCHANGED <<srv, backlog, net, faults>>

Kid(p) ==
    \/ ReadHeader(p) \/ HeaderEnds(p) \/ TooLong(p) \/ HandleMethod(p) \/ ReadBody(p) \/ BodyEnds(p)
    \/ Close(p) \/ StartCgi(p) \/ Feed(p) \/ Relay(p) \/ WaitCgi(p)

\* In the process of the script, before it is one: the head of the answer goes
\* to the socket, sendChunk's printf of it to stdout, which is the pipe by now
\* (a terminal's stdout is flushed at every line); then execve, which may fail.
ScriptHead(p) ==
    /\ cgi[p].pc = "head" /\ (cgi[p].sock /\ ~Gone(p) => RoomFor(Cs(p)))
    /\ net' = IF cgi[p].sock /\ ~Gone(p) THEN [net EXCEPT ![Cs(p)].got = Append(@, 200)] ELSE net
    /\ LET pipe == IF Terminal THEN <<"debug">> ELSE <<>> IN
       \/ Script(p, [pc |-> "reads", pipe |-> pipe])
       \/ Script(p, [pc |-> "writes", pipe |-> pipe, left |-> 1, ok |-> FALSE])
    /\ UNCHANGED <<srv, backlog, kid, log, faults>>

\* The child keeps its end of the script's stdin open until the script is over.
ScriptReads(p) ==
    /\ cgi[p].pc = "reads"
    /\ \/ kid[p].req.script.reads = "nothing"
       \/ kid[p].req.script.reads = "line" /\ cgi[p].in > 0
    /\ Script(p, [pc |-> "writes"])
    /\ UNCHANGED <<srv, backlog, net, kid, log, faults>>

ScriptWrites(p) ==
    /\ cgi[p].pc = "writes" /\ cgi[p].left > 0 /\ Len(cgi[p].pipe) < PipeRoom
    /\ Script(p, [pipe |-> Append(cgi[p].pipe, "out"), left |-> cgi[p].left - 1])
    /\ UNCHANGED <<srv, backlog, net, kid, log, faults>>

ScriptExits(p) ==
    /\ cgi[p].pc = "writes" /\ cgi[p].left = 0
    /\ \E ok \in {cgi[p].ok, FALSE} : Script(p, [pc |-> "exited", ok |-> ok])
    /\ UNCHANGED <<srv, backlog, net, kid, log, faults>>

Cgi(p) == ScriptHead(p) \/ ScriptReads(p) \/ ScriptWrites(p) \/ ScriptExits(p)

Next ==
    \/ Server \/ sig_int
    \/ \E c \in Client : Connect(c) \/ Sends(c) \/ Leaves(c)
    \/ \E p \in Proc : Kid(p) \/ Cgi(p)

Spec == Init /\ [][Next]_vars

\* The scheduler runs every process that can run, and SO_RCVTIMEO ends a read;
\* nothing makes a client send, or leave.
FairSpec == Spec /\ WF_vars(Server) /\ \A p \in Proc : WF_vars(Kid(p)) /\ WF_vars(Cgi(p))

-----------------------------------------------------------------------------
(* Properties.                                                             *)

TypeOK ==
    /\ srv \in [pc: {"accept", "fork", "wait", "reap", "down"}, cs: Client \cup {Null},
                runningChildren: 0..max_child]
    /\ backlog \in Seq(Client)
    /\ \A c \in Client : net[c].at \in {"home", "in", "out"} /\ net[c].got \in Seq(Status)
    /\ \A p \in Proc : kid[p].cs \in Client \cup {Null} /\ kid[p].ready = kid[p].open
    /\ log \in [Client -> Seq(Status)]
    /\ faults \in 0..Faults

\* runningChildren is never less than the children there are, running or dead,
\* and less than max_child whenever the server accepts: so there are never more
\* than max_child of them, whatever fails.
ChildrenCounted ==
    /\ Cardinality(Children) <= srv.runningChildren
    /\ srv.runningChildren <= max_child
    /\ srv.pc = "accept" => srv.runningChildren < max_child

\* A connection gets one answer; one whose header is too long may get two.
AnsweredOnce ==
    \A c \in Client : Len(net[c].got) <= IF net[c].req.header >= BUFFER_SIZE THEN 2 ELSE 1

\* Of a connection that neither side closed early, the log says nothing that the
\* client was not answered.
LogIsTrue ==
    \A p \in Zombies : kid[p].cs # Null /\ kid[p].open /\ ~Gone(p) =>
        \A i \in DOMAIN log[Cs(p)] : \E j \in DOMAIN net[Cs(p)].got :
            log[Cs(p)][i] = net[Cs(p)].got[j]

\* The units in s that a script has written.
Outs(s) == Cardinality({i \in 1..Len(s) : s[i] = "out"})

\* Everything a script has written has reached its client by the time its
\* success is logged, unless one side closed the socket early.
OutputDelivered ==
    \A p \in Zombies :
        kid[p].cs # Null /\ kid[p].open /\ ~Gone(p) /\ kid[p].req # Null /\ log[Cs(p)] = <<200>> =>
            Outs(net[Cs(p)].out) = kid[p].req.script.out

\* Client, log and script agree on what a connection was told.
AnswersSound == TypeOK /\ AnsweredOnce /\ LogIsTrue /\ OutputDelivered

\* The process that answers c tries again and again to send it something.
Unheard(c) == net[c].at = "in" /\ ~net[c].gone /\ ~RoomFor(c)

\* Every connection comes to its end, whoever is slow to send and whatever fails: the
\* backlog moves, no child stays for ever.  Only a client that neither reads nor leaves
\* keeps its own, and those behind it once the server waits for a child to end.
\* (Scripts that wait for the end of their input, and clients that leave while much is
\* being sent, are the other exceptions: see CleanUpEnds.)
ConnectionEnds ==
    \A c \in Client : net[c].at = "in" ~>
        net[c].at = "out" \/ []Unheard(c) \/ [](srv.pc = "wait" /\ \E d \in Client : Unheard(d))

\* handlers.c:213: once the loop is over, the child cleans up: it does not stay
\* in wait.
CleanUpEnds == \A p \in Proc : At(p, "wait") ~> ~At(p, "wait")

=============================================================================
