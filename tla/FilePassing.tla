---------------------------- MODULE FilePassing ----------------------------
(***************************************************************************)
(* A file whose descriptor is passed between processes                     *)
(* (src/11_unix_socket/unix_socket_11_1, file_unix_server.c and            *)
(* file_unix_client.c): the server opens one file and sends its descriptor *)
(* to whoever asks, moves it to the start, and closes it.  Server and      *)
(* clients share the open description, and with it the offset.             *)
(*                                                                         *)
(* A description lives as long as someone holds it.  Datagrams of the UNIX *)
(* domain are neither lost nor reordered.                                  *)
(***************************************************************************)
EXTENDS Integers, Sequences, FiniteSets, FiniteSetsExt

CONSTANTS
    FileClient,
    MaxCommands,    \* bound of the commands of each client
    MaxOpens        \* bound of the descriptions the server opens

ASSUME FileAssumption ==
    IsFiniteSet(FileClient) /\ MaxCommands \in Nat /\ MaxOpens \in Nat

Description == 1..MaxOpens
NoFile == -1

VARIABLES
    shared_file,    \* the server's descriptor: a description, or NoFile
    opened,         \* how many descriptions there have been
    atStart,        \* descriptions whose offset is 0
    shared_fd,      \* each client's descriptor
    dropped,        \* descriptions a client still has open and has forgotten
    client,         \* each client: "prompt", "recv_fd", "read" or "gone"
    commands,       \* how many commands it has taken
    requests,       \* datagrams at the server: [from, what]
    answer,         \* the answer a client has not read: [is, fd]
    fileServer,     \* "select", or "over"
    closedBy,       \* history: descriptions closed in the server, and for whom
    untold          \* history: clients whose open failed
filevars == <<shared_file, opened, atStart, shared_fd, dropped, client, commands, requests,
              answer, fileServer, closedBy, untold>>

NoAnswer == [is |-> "none", fd |-> NoFile]

FileInit ==
    /\ shared_file = NoFile /\ opened = 0 /\ atStart = {}
    /\ shared_fd = [c \in FileClient |-> NoFile]
    /\ dropped = [c \in FileClient |-> {}]
    /\ client = [c \in FileClient |-> "prompt"]
    /\ commands = [c \in FileClient |-> 0]
    /\ requests = <<>>
    /\ answer = [c \in FileClient |-> NoAnswer]
    /\ fileServer = "select"
    /\ closedBy = {} /\ untold = {}

-----------------------------------------------------------------------------
(* file_unix_client.c: one command of the terminal at a time.              *)

AtPrompt(c) ==
    /\ client[c] = "prompt" /\ commands[c] < MaxCommands
    /\ commands' = [commands EXCEPT ![c] = @ + 1]
\* The write to the server: it fails once the server has gone, and the client ends.
Request(c, what, then) ==
    IF fileServer = "over"
    THEN client' = [client EXCEPT ![c] = "gone"] /\ UNCHANGED requests
    ELSE /\ requests' = Append(requests, [from |-> c, what |-> what])
         /\ client' = [client EXCEPT ![c] = then]
\* What an end of the process closes.
Exits(c) ==
    /\ shared_fd' = [shared_fd EXCEPT ![c] = NoFile]
    /\ dropped' = [dropped EXCEPT ![c] = {}]

CommandOpen(c) ==
    /\ AtPrompt(c)
    /\ Request(c, "open", "recv_fd")
    /\ IF fileServer = "over" THEN Exits(c) ELSE UNCHANGED <<shared_fd, dropped>>
    /\ UNCHANGED <<shared_file, opened, atStart, answer, fileServer, closedBy, untold>>
CommandSeek(c) ==
    /\ AtPrompt(c) /\ shared_fd[c] # NoFile
    /\ Request(c, "seek_start", "read")
    /\ IF fileServer = "over" THEN Exits(c) ELSE UNCHANGED <<shared_fd, dropped>>
    /\ UNCHANGED <<shared_file, opened, atStart, answer, fileServer, closedBy, untold>>
\* A line is written after the request to close, and then the descriptor closed.
CommandClose(c) ==
    /\ AtPrompt(c) /\ shared_fd[c] # NoFile
    /\ Request(c, "close", "read")
    /\ IF fileServer = "over" THEN Exits(c) /\ UNCHANGED atStart
       ELSE /\ atStart' = atStart \ {shared_fd[c]}
            /\ shared_fd' = [shared_fd EXCEPT ![c] = NoFile] /\ UNCHANGED dropped
    /\ UNCHANGED <<shared_file, opened, answer, fileServer, closedBy, untold>>
CommandWrite(c) ==
    /\ AtPrompt(c) /\ shared_fd[c] # NoFile
    /\ atStart' = atStart \ {shared_fd[c]}
    /\ UNCHANGED <<shared_file, opened, shared_fd, dropped, client, requests, answer>>
    /\ UNCHANGED <<fileServer, closedBy, untold>>
\* "exit" with a file open asks the server to close, and does not wait.
CommandExit(c) ==
    /\ AtPrompt(c)
    /\ IF shared_fd[c] # NoFile THEN Request(c, "close", "gone")
       ELSE client' = [client EXCEPT ![c] = "gone"] /\ UNCHANGED requests
    /\ Exits(c)
    /\ UNCHANGED <<shared_file, opened, atStart, answer, fileServer, closedBy, untold>>

\* recv_fd puts what came over the descriptor it had, which stays open.  What is
\* not a descriptor makes it -1.
recv_fd(c) ==
    /\ client[c] = "recv_fd" /\ answer[c] # NoAnswer
    /\ shared_fd' = [shared_fd EXCEPT ![c] = answer[c].fd]
    /\ dropped' = [dropped EXCEPT ![c] = IF shared_fd[c] = NoFile THEN @ ELSE @ \cup {shared_fd[c]}]
    /\ answer' = [answer EXCEPT ![c] = NoAnswer]
    /\ client' = [client EXCEPT ![c] = "prompt"]
    /\ UNCHANGED <<shared_file, opened, atStart, commands, requests, fileServer, closedBy, untold>>
\* The read of "ok": nothing is done about another answer.
ReadOk(c) ==
    /\ client[c] = "read" /\ answer[c] # NoAnswer
    /\ answer' = [answer EXCEPT ![c] = NoAnswer]
    /\ client' = [client EXCEPT ![c] = "prompt"]
    /\ UNCHANGED <<shared_file, opened, atStart, shared_fd, dropped, commands, requests>>
    /\ UNCHANGED <<fileServer, closedBy, untold>>

-----------------------------------------------------------------------------
(* file_unix_server.c                                                      *)

Asked(what) ==
    /\ fileServer = "select" /\ requests # <<>> /\ Head(requests).what = what
    /\ requests' = Tail(requests)
Asker == Head(requests).from
\* The answer is refused when the client has gone, and nothing is done about it.
Reply(a) == answer' = IF client[Asker] = "gone" THEN answer ELSE [answer EXCEPT ![Asker] = a]
Ok == Reply([is |-> "ok", fd |-> NoFile])

\* The file is opened if it is not, and its descriptor sent with no data.  An open
\* that fails leaves -1, which cannot be sent: the client is told nothing.
ServeOpen ==
    /\ Asked("open")
    /\ \/ /\ shared_file # NoFile
          /\ Reply([is |-> "fd", fd |-> shared_file])
          /\ UNCHANGED <<shared_file, opened, atStart, untold>>
       \/ /\ shared_file = NoFile /\ opened < MaxOpens
          /\ shared_file' = opened + 1 /\ opened' = opened + 1
          /\ atStart' = atStart \cup {opened + 1}
          /\ Reply([is |-> "fd", fd |-> opened + 1])
          /\ UNCHANGED untold
       \/ /\ shared_file = NoFile
          /\ untold' = untold \cup {Asker}
          /\ UNCHANGED <<shared_file, opened, atStart, answer>>
    /\ UNCHANGED <<shared_fd, dropped, client, commands, fileServer, closedBy>>

\* Mutant: only the answer is sent.
ServeSeekNothing ==
    /\ Asked("seek_start")
    /\ Ok
    /\ UNCHANGED <<shared_file, opened, atStart, shared_fd, dropped, client, commands>>
    /\ UNCHANGED <<fileServer, closedBy, untold>>

\* Mutant: with no file open there is no answer.
ServeSeekSilent ==
    /\ Asked("seek_start")
    /\ atStart' = IF shared_file = NoFile THEN atStart ELSE atStart \cup {shared_file}
    /\ IF shared_file = NoFile THEN UNCHANGED answer ELSE Ok
    /\ UNCHANGED <<shared_file, opened, shared_fd, dropped, client, commands, fileServer, closedBy, untold>>

ServeSeek ==
    /\ Asked("seek_start")
    /\ atStart' = IF shared_file = NoFile THEN atStart ELSE atStart \cup {shared_file}
    /\ Ok
    /\ UNCHANGED <<shared_file, opened, shared_fd, dropped, client, commands, fileServer, closedBy, untold>>

ServeClose ==
    /\ Asked("close")
    /\ shared_file' = NoFile
    /\ closedBy' = IF shared_file = NoFile THEN closedBy ELSE closedBy \cup {<<shared_file, Asker>>}
    /\ Ok
    /\ UNCHANGED <<opened, atStart, shared_fd, dropped, client, commands, fileServer, untold>>

\* SIGINT ends the server if it comes while select waits, else it is only printed.
FileInterrupted ==
    /\ fileServer = "select" /\ requests = <<>>
    /\ fileServer' = "over"
    /\ shared_file' = NoFile
    /\ UNCHANGED <<opened, atStart, shared_fd, dropped, client, commands, requests, answer, closedBy, untold>>

FileServes == ServeOpen \/ ServeSeek \/ ServeClose

FileNext ==
    \/ FileServes \/ FileInterrupted
    \/ \E c \in FileClient :
          \/ CommandOpen(c) \/ CommandSeek(c) \/ CommandClose(c) \/ CommandWrite(c) \/ CommandExit(c)
          \/ recv_fd(c) \/ ReadOk(c)

\* The server runs, and a client goes on when an answer has come.
FileFair ==
    /\ WF_filevars(FileServes)
    /\ \A c \in FileClient : WF_filevars(recv_fd(c) \/ ReadOk(c))

FileSpec == FileInit /\ [][FileNext]_filevars /\ FileFair

-----------------------------------------------------------------------------
(* Properties.                                                             *)

\* Every client asks for one thing at a time and is given what it waits for: one
\* that waits for a descriptor is never given "ok", nor the other way round,
\* though others ask, close and end in between.
FileTypeOK ==
    /\ shared_file \in Description \cup {NoFile} /\ atStart \subseteq 1..opened
    /\ \A c \in FileClient :
          /\ shared_fd[c] \in 1..opened \cup {NoFile} /\ dropped[c] \subseteq 1..opened
          /\ answer[c].is = "fd" => client[c] = "recv_fd" /\ answer[c].fd \in 1..opened
          /\ answer[c].is = "ok" => client[c] = "read"
          /\ Cardinality({i \in DOMAIN requests : requests[i].from = c}) <= 1

\* All descriptors of clients lead to the file the server has open, except those
\* of descriptions another client had the server close: of these every client has
\* its own offset to the same file.
OneOffset ==
    \A c \in FileClient : shared_fd[c] # NoFile /\ shared_fd[c] # shared_file =>
        fileServer = "over" \/ \E d \in FileClient : <<shared_fd[c], d>> \in closedBy

\* Whoever asks is answered, whatever the others do, unless the file could not be
\* opened, when the server says nothing (file_unix_server.c:110), or it has ended.
Told(c) == client[c] \notin {"recv_fd", "read"}
FileAnswered(c) == (~Told(c)) ~> (Told(c) \/ fileServer = "over" \/ c \in untold)

\* "ok" of a seek: from then on the client writes at the start, until someone
\* writes, unless another client had the server close the file since it was opened.
SeekFindsStart ==
    [][\A c \in FileClient :
          fileServer = "select" /\ requests # <<>> /\ Head(requests).from = c
            /\ Head(requests).what = "seek_start" /\ requests' = Tail(requests) /\ client[c] = "read"
          => shared_fd[c] \in atStart' \/ \E d \in FileClient \ {c} : <<shared_fd[c], d>> \in closedBy]_filevars

\* The clients of the file server have one file and one offset, as long as nobody
\* closes it under the others.
OffsetIsShared == [](FileTypeOK /\ OneOffset) /\ SeekFindsStart
=============================================================================
