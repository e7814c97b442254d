------------------------------ MODULE SipfwProc ------------------------------
(***************************************************************************)
(* The life of the SIPFW module (SIPFW_Init and SIPFW_Exit, sipfw_k.c) and *)
(* the files it puts in /proc/net/sipfw (sipfw_k_proc.c).  Every write to  *)
(* one of the files goes through one buffer, cookie_pot, which is cleared  *)
(* once, when the module is loaded.                                        *)
(*                                                                         *)
(* A text and the buffer are sequences of characters; the zeros behind     *)
(* what was written are left out.  A shorter text leaves the end of a      *)
(* longer one behind it, and nothing keeps two writers apart.              *)
(***************************************************************************)
EXTENDS Integers, SequencesExt

CONSTANTS
    Writer,         \* processes that write to the files
    Text            \* what they write: no blank and no sign before a number

DROP == 0
ACCEPT == 1
File == {"DefaultAction", "Invalid", "LogPause"}
Word == [a \in {DROP, ACCEPT} |->
            IF a = DROP THEN <<"D", "R", "O", "P">> ELSE <<"A", "C", "C", "E", "P", "T">>]

VARIABLES
    stage,      \* how far SIPFW_Init or SIPFW_Exit has come
    parts,      \* what the module has registered and allocated
    cf,         \* the configuration
    cookie,     \* cookie_pot
    last,       \* the text copied into it last
    writer      \* the file that each process is writing to, or ""
modulevars == <<stage, parts, cf, cookie, last, writer>>

ModuleInit ==
    /\ stage = "conf"
    /\ parts = {}
    /\ cf = [DefaultAction |-> ACCEPT, Invalid |-> 0, LogPause |-> 0]
    /\ cookie = <<>> /\ last = <<>>
    /\ writer = [w \in Writer |-> ""]

-----------------------------------------------------------------------------
(* insmod and rmmod: one step per call, and the error ladder.               *)

Stage(from, to) == stage = from /\ stage' = to /\ UNCHANGED writer

HandleConf ==
    /\ Stage("conf", "netlink")
    /\ \E a \in {DROP, ACCEPT} : cf' = [cf EXCEPT !.DefaultAction = a]
    /\ UNCHANGED <<parts, cookie, last>>

NLCreate ==
    /\ \/ Stage("netlink", "proc") /\ parts' = parts \cup {"netlink"}
       \/ Stage("netlink", "failed") /\ UNCHANGED parts
    /\ UNCHANGED <<cf, cookie, last>>

\* With the entries refused only the buffer is given back.
ProcInit ==
    /\ \/ Stage("proc", "hooks") /\ parts' = parts \cup {"cookie", "entries"}
       \/ Stage("proc", "error2") /\ UNCHANGED parts
       \/ Stage("proc", "error2") /\ parts' = parts \cup {"entries"}
    /\ cookie' = <<>> /\ last' = <<>>
    /\ UNCHANGED cf

\* A write holds the module's entries, which are only removed when it is over.
NoWriter == \A w \in Writer : writer[w] = ""

RegisterHooks ==
    /\ \/ Stage("hooks", "loaded") /\ parts' = parts \cup {"hooks"}
       \/ Stage("hooks", "error3") /\ UNCHANGED parts
    /\ UNCHANGED <<cf, cookie, last>>

Error3 ==
    /\ NoWriter /\ Stage("error3", "error2")
    /\ parts' = parts \ {"cookie", "entries"}
    /\ UNCHANGED <<cf, cookie, last>>
Error2 == Stage("error2", "failed") /\ parts' = parts \ {"netlink"} /\ UNCHANGED <<cf, cookie, last>>

Exit ==
    /\ NoWriter /\ Stage("loaded", "cleanup")
    /\ parts' = parts \ {"netlink"}
    /\ UNCHANGED <<cf, cookie, last>>
ProcCleanUp ==
    /\ Stage("cleanup", "unhook")
    /\ parts' = parts \ {"cookie", "entries"}
    /\ UNCHANGED <<cf, cookie, last>>
UnregisterHooks ==
    /\ Stage("unhook", "unloaded")
    /\ parts' = parts \ {"hooks"}
    /\ UNCHANGED <<cf, cookie, last>>

-----------------------------------------------------------------------------
(* A write: the text is copied into the buffer, then read from it.          *)

CopyFromUser(w, f, t) ==
    /\ stage \in {"hooks", "error3", "loaded"} /\ writer[w] = ""
    /\ writer' = [writer EXCEPT ![w] = f]
    /\ cookie' = t \o SubSeq(cookie, Len(t) + 1, Len(cookie))
    /\ last' = t
    /\ UNCHANGED <<stage, parts, cf>>

\* How many digits s begins with.
Digit == {"0", "1", "2", "3", "4", "5", "6", "7", "8", "9"}
Digits(s) == CHOOSE k \in 0..Len(s) : /\ \A i \in 1..k : s[i] \in Digit
                                      /\ k < Len(s) => s[k + 1] \notin Digit

ValueOf == [c \in Digit |-> CASE c = "0" -> 0 [] c = "1" -> 1 [] c = "2" -> 2 [] c = "3" -> 3
                              [] c = "4" -> 4 [] c = "5" -> 5 [] c = "6" -> 6 [] c = "7" -> 7
                              [] c = "8" -> 8 [] c = "9" -> 9]
Value(ds) == FoldLeft(LAMBDA v, c : 10 * v + ValueOf[c], 0, ds)

\* Mutant: a number read only when the whole buffer is one, as strcmp would.
ScanWhole(s) == IF Digits(s) > 0 /\ Digits(s) = Len(s) THEN {Value(s)} ELSE {}

\* sscanf("%d"): all the digits at the start, whatever is behind them; without one, nothing.
Scan(s) == IF Digits(s) > 0 THEN {Value(SubSeq(s, 1, Digits(s)))} ELSE {}

\* strcmp sees the word alone: no newline, and nothing behind it.
Apply(w) ==
    /\ writer[w] # ""
    /\ writer' = [writer EXCEPT ![w] = ""]
    /\ LET f == writer[w]
           read == IF f = "DefaultAction" THEN {a \in {DROP, ACCEPT} : cookie = Word[a]} ELSE Scan(cookie) IN
       \/ \E v \in read : cf' = [cf EXCEPT ![f] = v]
       \/ read = {} /\ UNCHANGED cf
    /\ UNCHANGED <<stage, parts, cookie, last>>

ModuleNext ==
    \/ HandleConf \/ NLCreate \/ ProcInit \/ RegisterHooks \/ Error3 \/ Error2
    \/ Exit \/ ProcCleanUp \/ UnregisterHooks
    \/ \E w \in Writer : Apply(w) \/ \E f \in File, t \in Text : CopyFromUser(w, f, t)

ModuleSpec == ModuleInit /\ [][ModuleNext]_modulevars

-----------------------------------------------------------------------------
(* Properties.                                                             *)

Gone == stage \in {"failed", "unloaded"}

\* When the module's code is gone, nothing calls into it any more: no hook, no
\* netlink handler, whichever call of SIPFW_Init failed.
NoCallbackOutlivesModule == Gone => parts \cap {"netlink", "hooks", "cookie"} = {}

\* A number that ends in a newline, as `echo` writes it.
NumberLine(t) == Len(t) > 1 /\ Digits(t) = Len(t) - 1

\* The number line that was copied last is what any writer of `invalid` or `logpause`
\* takes, whatever longer text the buffer held: a process alone its own, and two that
\* write at once the later one's, both of them, be it meant for the other file.
LastLineDecides ==
    [][\A w \in Writer :
          writer[w] \in {"Invalid", "LogPause"} /\ Apply(w) /\ NumberLine(last) =>
              cf'[writer[w]] = Value(SubSeq(last, 1, Len(last) - 1))]_modulevars

\* Once the buffer has held anything longer than a word it does so for good, and nothing
\* that is written changes the default action any more.
LongTextFreezesAction ==
    [][Len(cookie) > Len(Word[ACCEPT]) =>
          Len(cookie') > Len(Word[ACCEPT]) /\ cf'.DefaultAction = cf.DefaultAction]_modulevars

\* From SIPFW_Init to SIPFW_Exit: what is registered is taken back, and of what is
\* written to its files in between it is known what counts.
ModuleLifeSound ==
    []NoCallbackOutlivesModule /\ LastLineDecides /\ LongTextFreezesAction
=============================================================================
