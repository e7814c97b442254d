------------------------------- MODULE MCServers -------------------------------
(* The servers of the examples, for TLC.  They share nothing, so that one run  *)
(* checks them side by side: `runs` says which of the four components runs,    *)
(* and the variables of the others keep a first value.                         *)
EXTENDS TimeServers, SelectServer, EpollEcho, ReuseServer, TLC

CONSTANTS c1, c2, c3

VARIABLE runs       \* "time", "select", "epoll" or "reuse"

\* One client sends too much for the patience of the other.
EchoMaxSent == (c1 :> 2) @@ (c2 :> 1)
\* One client of ReuseServer speaks twice, the others connect and leave.
ReuseMaxSaid == (c1 :> 0) @@ (c2 :> 2) @@ (c3 :> 0)

\* A server that does not run, and that no client can reach: it has no step to take.
Resting ==
    /\ runs # "time" => server = "udp"
    /\ runs # "reuse" => program = "reuse"

\* The two clients of ReuseServer that say nothing are alike: c1 connects first.
FirstComesFirst == peer'[c3] # "new" => peer[c1] # "new"

\* The third client of SelectServer says nothing: it takes a descriptor, or finds none.
ThirdIsSilent == phase'[c3] \in {"new", "open"}

Init ==
    /\ runs \in {"time", "select", "epoll", "reuse"}
    /\ TimeInit /\ SelectInit /\ EpollInit /\ ReuseInit
    /\ Resting

Next ==
    \/ runs = "time" /\ TimeNext /\ UNCHANGED <<runs, selectvars, epollvars, reusevars>>
    \/ runs = "select" /\ SelectNext /\ ThirdIsSilent
       /\ UNCHANGED <<runs, timevars, epollvars, reusevars>>
    \/ runs = "epoll" /\ EpollNext /\ UNCHANGED <<runs, timevars, selectvars, reusevars>>
    \/ runs = "reuse" /\ ReuseNext /\ FirstComesFirst
       /\ UNCHANGED <<runs, timevars, selectvars, epollvars>>

vars == <<runs, timevars, selectvars, epollvars, reusevars>>

\* The fairness of each component, for the one that runs.
Fair ==
    /\ \A w \in Worker : WF_timevars(runs = "time" /\ Serve(w))
    /\ WF_selectvars(runs = "select" /\ HandleConnect)
    /\ WF_selectvars(runs = "select" /\ HandleRequest)
    /\ WF_epollvars(runs = "epoll" /\ (HandleEvent \/ \E fs \in SUBSET Ready : EpollWait(fs)))
    /\ WF_reusevars(runs = "reuse" /\ ServerLoop)

Spec == Init /\ [][Next]_vars /\ Fair

-----------------------------------------------------------------------------
(* Liveness, for one client: any other is its equal, except that the second *)
(* one is the patient client of the epoll server, and the one who speaks to *)
(* the servers of ReuseServer.                                              *)

\* Whoever asks is answered, as long as now and then some worker is free.
AskersAreAnswered == AskerIsAnswered(c1)

\* With a process or a thread for each client, nobody waits for another one.
NoWaitingForOthers == NoWaitForOthers(c1)

\* A connection whose bytes were read is closed.
ReadsAreClosed == ReadIsClosed(c1)

\* 14.4.2 answers a client it has not forgotten.
SelectClientsAnswered == SelectAnswers(c1)

\* The echo comes to a patient client, whatever an impatient one does.
PatientEchoComes == EchoComes(c2)

\* A client that speaks to a server with a table is answered.
SpeakersAreServed == ClientIsServed(c2)

\* The time servers answer whoever asks, as far as their workers allow, and let go of it.
TimeIsTold == AskersAreAnswered /\ NoWaitingForOthers /\ ReadsAreClosed

\* The epoll loop gets round to a patient client, and to the terminal.
LoopServesAll == PatientEchoComes /\ ExitStops
=============================================================================
