------------------------------ MODULE MCExamples ------------------------------
(* The examples of processes and threads, ping, the passing of a file, the     *)
(* programs that exchange datagrams, the count servers, and my_open, for TLC.  *)
(* They share nothing: `runs` says which of them runs, and the others are not  *)
(* begun.                                                                      *)
EXTENDS Tasks, Ping, FilePassing, Datagrams, CountServer, OpenFile

CONSTANTS c1, s1

VARIABLE runs       \* "tasks", "ping", "file", "dgram", "count" or "open"

Init ==
    /\ runs \in {"tasks", "ping", "file", "dgram", "count", "open"}
    /\ TaskInit /\ PingInit /\ FileInit /\ DatagramInit
    /\ CountInit /\ (runs # "count" => version = "plain")
    /\ OpenInit

Next ==
    \/ runs = "tasks" /\ TaskNext /\ UNCHANGED <<runs, pingvars, filevars, dgramvars, countvars, openvars>>
    \/ runs = "ping" /\ PingNext /\ UNCHANGED <<runs, taskvars, filevars, dgramvars, countvars, openvars>>
    \/ runs = "file" /\ FileNext /\ UNCHANGED <<runs, taskvars, pingvars, dgramvars, countvars, openvars>>
    \/ runs = "dgram" /\ DatagramNext /\ UNCHANGED <<runs, taskvars, pingvars, filevars, countvars, openvars>>
    \/ runs = "count" /\ CountNext /\ UNCHANGED <<runs, taskvars, pingvars, filevars, dgramvars, openvars>>
    \/ runs = "open" /\ OpenNext /\ UNCHANGED <<runs, taskvars, pingvars, filevars, dgramvars, countvars>>

vars == <<runs, taskvars, pingvars, filevars, dgramvars, countvars, openvars>>

\* The fairness of each program, for the one that runs.
Fair ==
    /\ WF_taskvars(runs = "tasks" /\ Main) /\ WF_taskvars(runs = "tasks" /\ Child)
    /\ \A p \in Proc : WF_taskvars(runs = "tasks" /\ Threads /\ pc'[p] # pc[p])
    /\ WF_pingvars(runs = "ping" /\ (PingStarts \/ PingJoins))
    /\ WF_pingvars(runs = "ping" /\ PingSend) /\ WF_pingvars(runs = "ping" /\ PingReceive)
    /\ WF_filevars(runs = "file" /\ FileServes)
    /\ \A c \in FileClient : WF_filevars(runs = "file" /\ (recv_fd(c) \/ ReadOk(c)))
    /\ \A c \in Asking : WF_dgramvars(runs = "dgram" /\ AskerSteps(c))
    /\ \A s \in Answering : WF_dgramvars(runs = "dgram" /\ AnswererSteps(s))
    /\ \A p \in Process : WF_countvars(runs = "count" /\ (CountServe(p) \/ CountHandler(p)))
    /\ \A c \in CountClient : WF_countvars(runs = "count" /\ (ReadAnswer07(c) \/ HearGreeting(c)))
    /\ WF_openvars(runs = "open" /\ (ForkOpener \/ my_open("main")))
    /\ WF_openvars(runs = "open" /\ (openfile \/ my_open("child")))

Spec == Init /\ [][Next]_vars /\ Fair

-----------------------------------------------------------------------------
(* Liveness, for one client or server: any other is its equal.              *)

\* Whoever asks the file server is answered, unless the open failed.
FileClientsAnswered == FileAnswered(c1)

\* A search for a server ends.
SearchesEnd == SearchEnds(c1)

\* SIGINT ends a server that catches it with a pipe or a flag.
SigintEndsServers == SigintEnds(s1)

\* A datagram over the UNIX domain is answered.
DgramsAnswered == DgramAnswered(c1)

\* A client of a count server, or of the IPv6 server, comes back from its read.
PromptComesBack == PromptBack(c1)

\* The server that reaps its children lets go of a client that left.
LeaversAreLetGo == LeaverIsLetGo(c1)

\* Pipes are drained, and threads that are told to end do so.
TasksEnd == PipeIsDrained /\ MainEnds

\* A client of a datagram server is not left waiting where it has a bound on the time
\* or a server, and SIGINT ends its server.
DatagramsEnd == SearchesEnd /\ SigintEndsServers /\ DgramsAnswered

\* The clients of the count servers are answered, and let go.
CountersServe == PromptComesBack /\ LeaversAreLetGo
=============================================================================
