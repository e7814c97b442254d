------------------------------ MODULE OpenFile ------------------------------
(***************************************************************************)
(* my_open (11_unix_socket/socketpair_11_1): a child runs openfile, which  *)
(* opens the file, writes to it and sends the descriptor over a pair of    *)
(* sockets; the parent waits for the child's end and then receives.  A     *)
(* child whose execl fails goes on with the parent's code.  What fd and    *)
(* status hold before they are set is what the stack held.  Lengths count  *)
(* in pieces of what openfile writes; socketpair is taken to succeed.      *)
(***************************************************************************)
EXTENDS Integers

CONSTANT MaxOld     \* bound: how long the file may have been
ASSUME OpenAssumption == MaxOld \in Nat

Opener == {"main", "child"}

VARIABLES
    opener,     \* pc and fd of the parent and of the child
    holds,      \* who has sockfd[1] open
    message,    \* the descriptor is in the socket
    ended,      \* how the child ended: "no", "zero", "error" or "signal"
    length,     \* of the file
    offset,     \* of the descriptor openfile opened, which it shares with whoever is sent it
    wrote,      \* pieces openfile has written
    got         \* pieces the parent has read
openvars == <<opener, holds, message, ended, length, offset, wrote, got>>

OpenInit ==
    /\ opener = [p \in Opener |-> [pc |-> "none", fd |-> "unset"]]
    /\ holds = {}
    /\ message = FALSE /\ ended = "no"
    /\ length = 0 /\ offset = 0 /\ wrote = 0 /\ got = 0

OpenerAt(p, pc) == opener[p].pc = pc
Become(p, pc) == opener' = [opener EXCEPT ![p].pc = pc]
Ends(code) == Become("child", "over") /\ holds' = holds \ {"child"} /\ ended' = code

\* The program is run, on a file that has some length.
RunOpener ==
    /\ opener = [p \in Opener |-> [pc |-> "none", fd |-> "unset"]]
    /\ Become("main", "fork")
    /\ holds' = {"main"} /\ length' \in 0..MaxOld
    /\ UNCHANGED <<message, ended, offset, wrote, got>>

\* A fork that fails is taken for the parent's side of one that did not.
ForkOpener ==
    /\ OpenerAt("main", "fork")
    /\ \/ /\ opener' = [p \in Opener |-> [opener[p] EXCEPT !.pc = IF p = "main" THEN "close" ELSE "exec"]]
          /\ holds' = Opener
       \/ Become("main", "close") /\ UNCHANGED holds
    /\ UNCHANGED <<message, ended, length, offset, wrote, got>>

-----------------------------------------------------------------------------
(* openfile.                                                               *)

ExecOpenfile ==
    /\ OpenerAt("child", "exec")
    /\ \/ opener' = [opener EXCEPT !["child"] = [pc |-> "open", fd |-> "other"]]
       \/ Become("child", "close")
    /\ UNCHANGED <<holds, message, ended, length, offset, wrote, got>>

OpenPath ==
    /\ OpenerAt("child", "open")
    /\ \/ Become("child", "write") /\ UNCHANGED <<holds, ended>>
       \/ Ends("error")
    /\ UNCHANGED <<message, length, offset, wrote, got>>

\* Whether the write succeeds is not asked.
WriteHello ==
    /\ OpenerAt("child", "write")
    /\ Become("child", "send")
    /\ wrote' \in {0, 1} /\ offset' = wrote' /\ length' = IF length < wrote' THEN wrote' ELSE length
    /\ UNCHANGED <<holds, message, ended, got>>

send_fd ==
    /\ OpenerAt("child", "send")
    /\ \/ Ends("zero") /\ message' = TRUE
       \/ Ends("error") /\ UNCHANGED message
    /\ UNCHANGED <<length, offset, wrote, got>>

\* A signal ends the child anywhere.
KillChild ==
    /\ opener["child"].pc \notin {"none", "over"}
    /\ Ends("signal")
    /\ UNCHANGED <<message, length, offset, wrote, got>>

-----------------------------------------------------------------------------
(* my_open after the fork, and main: of the parent, and of a child without *)
(* openfile, whose childpid is 0 and whose sockfd[0] is closed.            *)

\* Mutant: sockfd[1] stays open.
CloseOtherNot(p) ==
    /\ OpenerAt(p, "close")
    /\ Become(p, "wait")
    /\ UNCHANGED <<holds, message, ended, length, offset, wrote, got>>

CloseOther(p) ==
    /\ OpenerAt(p, "close")
    /\ Become(p, "wait")
    /\ holds' = holds \ {p}
    /\ UNCHANGED <<message, ended, length, offset, wrote, got>>

\* waitpid leaves status alone where there is no child; WEXITSTATUS is zero for a
\* child that was killed.
WaitStatus(p) ==
    /\ OpenerAt(p, "wait")
    /\ p = "child" \/ OpenerAt("child", "none") \/ OpenerAt("child", "over")
    /\ \/ /\ p = "child" \/ ended \in {"no", "zero", "signal"}
          /\ Become(p, "recv")
       \/ /\ p = "child" \/ ended \in {"no", "error"}
          /\ opener' = [opener EXCEPT ![p] = [pc |-> "test", fd |-> "minus1"]]
    /\ UNCHANGED <<holds, message, ended, length, offset, wrote, got>>

\* recv_fd sets fd if there is a message, and waits while one may come.
my_recv_fd(p) ==
    /\ OpenerAt(p, "recv")
    /\ \/ /\ p = "main" /\ message /\ message' = FALSE
          /\ opener' = [opener EXCEPT ![p] = [pc |-> "test", fd |-> "file"]]
       \/ /\ p = "child" \/ (~message /\ holds = {})
          /\ Become(p, "test") /\ UNCHANGED message
    /\ UNCHANGED <<holds, ended, length, offset, wrote, got>>

\* A descriptor that was never set may be less than zero, or be anything.
TestFd(p) ==
    /\ OpenerAt(p, "test")
    /\ \/ opener[p].fd \in {"minus1", "unset"}
          /\ IF p = "child" THEN Ends("error") ELSE Become(p, "over") /\ UNCHANGED <<holds, ended>>
       \/ opener[p].fd \in {"file", "unset"} /\ Become(p, "read") /\ UNCHANGED <<holds, ended>>
    /\ UNCHANGED <<message, length, offset, wrote, got>>

\* It reads from where openfile left off.
ReadAll(p) ==
    /\ OpenerAt(p, "read") /\ opener[p].fd = "file"
    /\ got' = length - offset /\ offset' = length
    /\ Become(p, "over")
    /\ UNCHANGED <<holds, message, ended, length, wrote>>

\* Reading what was never opened ends at some time or never.
ReadUnset(p) ==
    /\ OpenerAt(p, "read") /\ opener[p].fd = "unset"
    /\ IF p = "child" THEN Ends("zero") ELSE Become(p, "over") /\ UNCHANGED <<holds, ended>>
    /\ UNCHANGED <<message, length, offset, wrote, got>>

openfile == ExecOpenfile \/ OpenPath \/ WriteHello \/ send_fd
my_open(p) == CloseOther(p) \/ WaitStatus(p) \/ my_recv_fd(p) \/ TestFd(p) \/ ReadAll(p)

OpenNext ==
    \/ RunOpener \/ ForkOpener \/ openfile \/ KillChild
    \/ \E p \in Opener : my_open(p) \/ ReadUnset(p)

\* Both processes run; nobody must start them, no signal is promised, nor an end to reading what is not open.
OpenFair ==
    /\ WF_openvars(ForkOpener \/ my_open("main"))
    /\ WF_openvars(openfile \/ my_open("child"))

OpenSpec == OpenInit /\ [][OpenNext]_openvars /\ OpenFair

-----------------------------------------------------------------------------
(* Properties.                                                             *)

OpenTypeOK ==
    /\ \A p \in Opener : opener[p].fd \in {"unset", "minus1", "file", "other"}
    /\ opener["child"].pc \in {"none", "over"} => "child" \notin holds
    /\ offset \in 0..length /\ got \in 0..length /\ wrote \in 0..1
    /\ ended = "no" <=> opener["child"].pc # "over"

\* The descriptor's offset came with it: what openfile has just written is the one
\* part of the file the parent does not print.
NeverReadsHello == got + wrote <= length

\* my_open returns what was never set only if there was no child, or no openfile in
\* it, or a signal ended it: an openfile that fails by itself is heard of.
UnsetHasACause ==
    opener["main"].fd = "unset" /\ opener["main"].pc \in {"test", "read"}
        => ended \in {"no", "signal"} \/ (opener["child"].fd = "unset" /\ ended = "zero")

\* my_open returns: its receive ends with the message or with the end of the stream,
\* unless a child without openfile reads for ever what it took for a descriptor.
OpenReturns ==
    OpenerAt("main", "fork") ~> (opener["main"].pc \in {"test", "read", "over"} \/ OpenerAt("child", "read"))

\* my_open returns, with the descriptor of the file or a reason for having none, and
\* what openfile wrote is behind it.
OpenKeepsWord == [](OpenTypeOK /\ NeverReadsHello /\ UnsetHasACause) /\ OpenReturns
=============================================================================
