---------------------------- MODULE ServersProofs ----------------------------
(***************************************************************************)
(* The concurrent servers, for any number of clients, of processes and     *)
(* threads, and any sizes of their tables and buffers: the seven servers   *)
(* of TimeServers, the two threads and the table of SelectServer, the two  *)
(* servers of ReuseServer, and the echo server of EpollEcho with the       *)
(* clients it serves from one loop.                                        *)
(***************************************************************************)
EXTENDS TimeServers, SelectServer, ReuseServer, EpollEcho, FiniteSetTheorems, SequenceTheorems,
        NaturalsInduction, WellFoundedInduction, TLAPS

-----------------------------------------------------------------------------
(* Minima.                                                                 *)

\* The lesser of two numbers, as the models write it.
LEMMA MinOfTwo ==
    ASSUME NEW a \in Int, NEW b \in Int
    PROVE  Min({a, b}) \in {a, b} /\ Min({a, b}) <= a /\ Min({a, b}) <= b
<1>1. \E x \in {a, b} : \A y \in {a, b} : x <= y
  <2>1. a <= b \/ b <= a  OBVIOUS
  <2> QED  BY <2>1
<1> DEFINE m == CHOOSE x \in {a, b} : \A y \in {a, b} : x <= y
<1>2. m \in {a, b} /\ \A y \in {a, b} : m <= y  BY <1>1
<1>3. Min({a, b}) = m  BY DEF Min
<1> HIDE DEF m
<1> QED  BY <1>2, <1>3

\* The least element of a set of numbers.
LEMMA LeastIs ==
    ASSUME NEW S, S \subseteq Nat, S # {} PROVE Min(S) \in S /\ \A y \in S : Min(S) <= y
<1>1. PICK x \in S : \A y \in S : ~(<<y, x>> \in OpToRel(<, Nat))
  BY NatLessThanWellFounded, WFMin
<1>2. ASSUME NEW y \in S PROVE x <= y
  <2>1. x \in Nat /\ y \in Nat  OBVIOUS
  <2>2. SUFFICES ASSUME y < x PROVE FALSE  BY <2>1
  <2>3. <<y, x>> \in OpToRel(<, Nat)  BY <2>1, <2>2 DEF OpToRel
  <2> QED  BY <1>1, <2>3
<1> QED  BY <1>2 DEF Min

\* A finite set that gains at most one element.
LEMMA OneMore ==
    ASSUME NEW S, IsFiniteSet(S), NEW x, NEW T, T \subseteq S \cup {x}
    PROVE  IsFiniteSet(T) /\ Cardinality(T) \in Nat /\ Cardinality(T) <= Cardinality(S) + 1
<1>1. Cardinality(S) \in Nat  BY FS_CardinalityType
<1>2. /\ IsFiniteSet(S \cup {x})
      /\ Cardinality(S \cup {x}) = IF x \in S THEN Cardinality(S) ELSE Cardinality(S) + 1
  BY FS_AddElement
<1>3. IsFiniteSet(T) /\ Cardinality(T) <= Cardinality(S \cup {x})  BY <1>2, FS_Subset
<1>4. Cardinality(T) \in Nat  BY <1>3, FS_CardinalityType
<1> QED  BY <1>1, <1>2, <1>3, <1>4

-----------------------------------------------------------------------------
(* TimeServers: the inductive invariant.                                   *)

TimePlaces == {"none", "dead", "over", "lock", "accept", "argv", "call", "recv", "send", "close"}
Unbound == {"none", "dead", "over", "lock", "accept", "argv"}       \* with no descriptor
WorkerShape == [pc: TimePlaces, fd: ThreadFd \cup {0}, conn: Client \cup {NoClient}]

TimeShape ==
    /\ server \in Server
    /\ said \in [Client -> {"nothing", "TIME", "other"}]
    /\ line \in [Client -> {"new", "open", "gone"}]
    /\ backlog \in Seq(Client)
    /\ answers \in [Client -> Nat]
    /\ worker \in [Worker -> WorkerShape]
    /\ fds \in [ThreadFd -> Client \cup {NoClient}] /\ s_c \in ThreadFd \cup {0}
    /\ read \subseteq Client /\ hurried \in BOOLEAN

\* The mutex of 14.3.3 is free, or a thread waits at accept with it.
LockOK == ALOCK \in Worker /\ (ALOCK # 0 => server = "pool" /\ worker[ALOCK].pc = "accept")

\* Who waits in the queue waits there once, and nobody has taken or read it.
QueueOK ==
    /\ \A c \in Client : line[c] = "new" => c \notin read
    /\ \A i \in 1..Len(backlog) :
          /\ line[backlog[i]] # "new" /\ backlog[i] \notin read
          /\ \A j \in 1..Len(backlog) : i # j => backlog[i] # backlog[j]
          /\ \A f \in ThreadFd : fds[f] # backlog[i]
          /\ \A w \in Worker : worker[w].conn # backlog[i]

\* What a worker holds where it stands; only those of 14.3.2 have descriptors of a
\* table, the others have one connection each.
Fits(r) ==
    /\ r.pc \in Unbound => r.conn = NoClient /\ r.fd = 0
    /\ r.pc = "recv" => r.conn \in Client
    /\ server # "threadEach" =>
          r.fd = 0 /\ r.pc \notin {"argv", "call"} /\ (r.pc = "send" => r.conn \in Client)
HeldOnce ==
    /\ \A w \in Worker : Fits(worker[w]) /\ (worker[w].conn # NoClient => line[worker[w].conn] # "new")
    /\ \A f, g \in ThreadFd : fds[f] # NoClient => line[fds[f]] # "new" /\ (f # g => fds[f] # fds[g])
    /\ server # "threadEach" =>
          /\ ~hurried
          /\ \A v, w \in Worker : v # w /\ worker[v].conn # NoClient => worker[v].conn # worker[w].conn

\* In 14.3.2, as long as nobody hurries: a descriptor belongs to one thread, stands
\* for a connection, and s_c holds that of the one thread that has not read it.
ThreadsOwn ==
    server = "threadEach" /\ ~hurried => \A w \in Worker :
        /\ worker[w].fd # 0 => /\ fds[worker[w].fd] # NoClient
                               /\ \A v \in Worker \ {w} : worker[v].fd # worker[w].fd
        /\ worker[w].pc = "recv" => worker[w].fd # 0 /\ worker[w].conn = fds[worker[w].fd]
        /\ worker[w].pc = "argv" =>
              /\ s_c # 0 /\ fds[s_c] # NoClient
              /\ \A v \in Worker : worker[v].fd # s_c /\ (v # w => worker[v].pc # "argv")

\* There are workers and descriptors for as many clients as there are.
Begun == {c \in Client : line[c] # "new"}
Enlisted == {w \in Worker \ {Main} : worker[w].pc # "none"}
UsedFds == {f \in ThreadFd : fds[f] # NoClient}
RoomForAll ==
    /\ server \in {"forkEach", "threadEach"} => Cardinality(Enlisted) + Len(backlog) <= Cardinality(Begun)
    /\ server = "threadEach" => Cardinality(UsedFds) + Len(backlog) <= Cardinality(Begun)

\* Whoever is about to be answered has asked, was read, and was not answered yet.
AskedAndRead(c) == said[c] = "TIME" /\ c \in read
AnsweredOnce ==
    ~hurried =>
        /\ \A c \in Client : answers[c] > 0 => answers[c] = 1 /\ AskedAndRead(c)
        /\ \A w \in Worker : worker[w].pc = "send" /\ Conn(w) # NoClient =>
              AskedAndRead(Conn(w)) /\ answers[Conn(w)] = 0

TimeInv ==
    TimeShape /\ LockOK /\ QueueOK /\ HeldOnce /\ ThreadsOwn /\ RoomForAll /\ AnsweredOnce

-----------------------------------------------------------------------------

\* Workers and descriptors are finitely many, and more than the clients.
LEMMA TimeNumbers ==
    /\ IsFiniteSet(Client) /\ Cardinality(Client) \in Nat /\ NoClient \notin Client
    /\ Main \in Worker /\ 0 \in Worker /\ Worker \subseteq Nat /\ ThreadFd \subseteq Nat /\ 0 \notin ThreadFd
    /\ IsFiniteSet(Worker) /\ Cardinality(Worker \ {Main}) > Cardinality(Client)
    /\ IsFiniteSet(Worker \ {Main}) /\ Cardinality(Worker \ {Main}) \in Nat
    /\ IsFiniteSet(ThreadFd) /\ Cardinality(ThreadFd) = Cardinality(Client)
<1>1. IsFiniteSet(Client) /\ Cardinality(Client) \in Nat /\ NoClient \notin Client
  BY TimeAssumption, FS_CardinalityType
<1>2. PIDNUMB \in Nat /\ PIDNUMB > 0 /\ POOLSIZE \in Nat /\ POOLSIZE > 0  BY TimeAssumption
<1> DEFINE n == Cardinality(Client) + PIDNUMB + POOLSIZE
<1>3. n \in Nat /\ n > Cardinality(Client) /\ Worker = 0..n  BY <1>1, <1>2 DEF Worker
<1> HIDE DEF n
<1>4. Worker \ {Main} = 1..n  BY <1>3 DEF Main
<1>5. IsFiniteSet(Worker) /\ IsFiniteSet(1..n) /\ Cardinality(1..n) = n  BY <1>3, FS_Interval
<1>6. IsFiniteSet(ThreadFd) /\ Cardinality(ThreadFd) = Cardinality(Client)
  BY <1>1, FS_Interval DEF ThreadFd
<1>7. Main \in Worker /\ 0 \in Worker /\ Worker \subseteq Nat  BY <1>3 DEF Main
<1>8. ThreadFd \subseteq Nat /\ 0 \notin ThreadFd  BY <1>1 DEF ThreadFd
<1> QED  BY <1>1, <1>3, <1>4, <1>5, <1>6, <1>7, <1>8

\* What is counted is finite.
LEMMA TimeFinite ==
    /\ IsFiniteSet(Begun) /\ Cardinality(Begun) \in Nat /\ Cardinality(Begun) <= Cardinality(Client)
    /\ IsFiniteSet(Enlisted) /\ Cardinality(Enlisted) \in Nat
    /\ IsFiniteSet(UsedFds) /\ Cardinality(UsedFds) \in Nat
<1>1. Begun \subseteq Client /\ Enlisted \subseteq Worker \ {Main} /\ UsedFds \subseteq ThreadFd
  BY DEF Begun, Enlisted, UsedFds
<1> QED  BY <1>1, TimeNumbers, FS_Subset, FS_CardinalityType

\* A worker moves to a place, with a descriptor and a connection; the others stay.
Moved(w, p, f, c) ==
    /\ worker' \in [Worker -> WorkerShape]
    /\ worker'[w].pc = p /\ worker'[w].fd = f /\ worker'[w].conn = c
    /\ \A v \in Worker \ {w} : worker'[v] = worker[v]
LEMMA MovesTo ==
    ASSUME TimeShape, NEW w \in Worker, NEW p \in TimePlaces, NEW f \in ThreadFd \cup {0},
           NEW c \in Client \cup {NoClient},
           worker' = [worker EXCEPT ![w] = [pc |-> p, fd |-> f, conn |-> c]]
    PROVE  Moved(w, p, f, c)
BY DEF Moved, TimeShape, WorkerShape


\* Everything begins with nobody.
LEMMA TimeInitInv == TimeInit => TimeInv
<1> SUFFICES ASSUME TimeInit PROVE TimeInv  OBVIOUS
<1> USE TimeNumbers
<1>1. \A w \in Worker : worker[w] \in WorkerShape /\ worker[w].fd = 0 /\ worker[w].conn = NoClient
                        /\ worker[w].pc \in {"none", "lock", "accept"}
                        /\ (worker[w].pc = "lock" => server = "pool")
  BY DEF TimeInit, At, Waiting, Idle, WorkerShape, TimePlaces
<1>2. TimeShape
  <2>1. worker \in [Worker -> WorkerShape]  BY <1>1 DEF TimeInit
  <2>2. /\ server \in Server /\ said = [c \in Client |-> "nothing"] /\ line = [c \in Client |-> "new"]
        /\ backlog = <<>> /\ answers = [c \in Client |-> 0]
        /\ fds = [f \in ThreadFd |-> NoClient] /\ s_c = 0 /\ read = {} /\ hurried = FALSE
    BY DEF TimeInit
  <2>3. /\ said \in [Client -> {"nothing", "TIME", "other"}]
        /\ line \in [Client -> {"new", "open", "gone"}] /\ answers \in [Client -> Nat]
    BY <2>2
  <2>4. fds \in [ThreadFd -> Client \cup {NoClient}] /\ s_c \in ThreadFd \cup {0}  BY <2>2
  <2>5. backlog \in Seq(Client)  BY <2>2
  <2>6. read \subseteq Client /\ hurried \in BOOLEAN  BY <2>2
  <2> QED  BY <2>1, <2>2, <2>3, <2>4, <2>5, <2>6 DEF TimeShape
<1>3. LockOK  BY DEF TimeInit, LockOK
<1>4. QueueOK  BY DEF TimeInit, QueueOK
<1>5. HeldOnce  BY <1>1 DEF TimeInit, HeldOnce, Fits, Unbound
<1>6. ThreadsOwn  BY <1>1 DEF ThreadsOwn
<1>7. RoomForAll
  <2>1. Len(backlog) = 0 /\ UsedFds = {}  BY DEF TimeInit, UsedFds
  <2>2. server \in {"forkEach", "threadEach"} => Enlisted = {}
    BY DEF TimeInit, Enlisted, Idle, Started
  <2>3. /\ Cardinality(UsedFds) = 0
        /\ server \in {"forkEach", "threadEach"} => Cardinality(Enlisted) = 0
    BY <2>1, <2>2, FS_EmptySet
  <2>4. Cardinality(Begun) >= 0  BY TimeFinite
  <2> QED  BY <2>1, <2>3, <2>4 DEF RoomForAll
<1>8. AnsweredOnce  BY <1>1 DEF TimeInit, AnsweredOnce
<1> QED  BY <1>2, <1>3, <1>4, <1>5, <1>6, <1>7, <1>8 DEF TimeInv

-----------------------------------------------------------------------------

\* No two workers have the same connection, unless somebody hurried.
LEMMA OneConn ==
    ASSUME TimeInv, ~hurried, NEW v \in Worker, NEW w \in Worker, v # w, Conn(v) # NoClient
    PROVE  Conn(v) # Conn(w)
<1> USE DEF TimeInv
<1>1. CASE server # "threadEach"  BY <1>1 DEF Conn, HeldOnce
<1>2. CASE server = "threadEach"
  <2>1. worker[v].fd \in ThreadFd /\ Conn(v) = fds[worker[v].fd]
    BY <1>2 DEF Conn, TimeShape, WorkerShape
  <2>2. CASE worker[w].fd = 0  BY <1>2, <2>2 DEF Conn
  <2>3. CASE worker[w].fd # 0
    <3>1. worker[w].fd \in ThreadFd /\ Conn(w) = fds[worker[w].fd]
      BY <1>2, <2>3 DEF Conn, TimeShape, WorkerShape
    <3>2. worker[v].fd # worker[w].fd  BY <1>2, <2>3 DEF ThreadsOwn
    <3> QED  BY <2>1, <3>1, <3>2 DEF HeldOnce
  <2> QED  BY <2>2, <2>3
<1> QED  BY <1>1, <1>2

\* A worker's connection is a client's, or none.
LEMMA ConnIs == ASSUME TimeShape, NEW w \in Worker PROVE Conn(w) \in Client \cup {NoClient}
BY DEF Conn, TimeShape, WorkerShape

\* A step after which nobody newly is about to answer, and that answers nobody.
LEMMA AnsweredStays ==
    ASSUME TimeInv, TimeShape', answers' = answers, hurried => hurried', read \subseteq read',
           \A c \in Client : said[c] = "TIME" => said'[c] = "TIME",
           ~hurried' => \A w \in Worker : worker'[w].pc = "send" =>
              worker[w].pc = "send" /\ Conn(w)' \in {Conn(w), NoClient}
    PROVE  AnsweredOnce'
<1> SUFFICES ASSUME ~hurried' PROVE /\ \A c \in Client : answers[c] > 0 => answers[c] = 1 /\ AskedAndRead(c)'
                                    /\ \A w \in Worker : worker'[w].pc = "send" /\ Conn(w)' # NoClient =>
                                          AskedAndRead(Conn(w))' /\ answers[Conn(w)'] = 0
  BY DEF AnsweredOnce
<1>1. ~hurried  OBVIOUS
<1>2. \A c \in Client : AskedAndRead(c) => AskedAndRead(c)'  BY DEF AskedAndRead
<1>3. \A c \in Client : answers[c] > 0 => answers[c] = 1 /\ AskedAndRead(c)'
  BY <1>1, <1>2 DEF TimeInv, AnsweredOnce
<1>4. ASSUME NEW w \in Worker, worker'[w].pc = "send", Conn(w)' # NoClient
      PROVE  AskedAndRead(Conn(w))' /\ answers[Conn(w)'] = 0
  <2>1. worker[w].pc = "send" /\ Conn(w)' = Conn(w) /\ Conn(w) # NoClient  BY <1>4
  <2>2. Conn(w) \in Client  BY <2>1, ConnIs DEF TimeInv
  <2>3. AskedAndRead(Conn(w)) /\ answers[Conn(w)] = 0  BY <1>1, <2>1 DEF TimeInv, AnsweredOnce
  <2>4. said'[Conn(w)] = "TIME" /\ Conn(w) \in read'  BY <2>2, <2>3 DEF AskedAndRead
  <2> QED  BY <2>1, <2>3, <2>4 DEF AskedAndRead
<1> QED  BY <1>3, <1>4

-----------------------------------------------------------------------------

\* A client that is new is held by nobody, and may come to wait in the queue.
LEMMA ComesIn ==
    ASSUME TimeInv, TimeShape', NEW c \in Client, line[c] = "new", line' = [line EXCEPT ![c] = "open"],
           backlog' = backlog \/ backlog' = Append(backlog, c),
           UNCHANGED <<server, worker, fds, s_c, read, hurried>>
    PROVE  QueueOK' /\ HeldOnce' /\ ThreadsOwn' /\ RoomForAll'
<1> USE DEF TimeInv
<1>1. line'[c] = "open" /\ \A d \in Client \ {c} : line'[d] = line[d]  BY DEF TimeShape
<1>2. backlog \in Seq(Client) /\ Len(backlog) \in Nat /\ \A i \in 1..Len(backlog) : backlog[i] \in Client
  BY DEF TimeShape
<1>3. /\ \A i \in 1..Len(backlog) : backlog[i] # c
      /\ \A f \in ThreadFd : fds[f] # c
      /\ \A w \in Worker : worker[w].conn # c
      /\ c \notin read
  <2>1. \A i \in 1..Len(backlog) : backlog[i] # c  BY <1>2 DEF QueueOK
  <2>2. \A f \in ThreadFd : fds[f] # c  BY TimeNumbers DEF HeldOnce
  <2>3. \A w \in Worker : worker[w].conn # c  BY TimeNumbers DEF HeldOnce
  <2> QED  BY <2>1, <2>2, <2>3 DEF QueueOK
<1>4. /\ Len(backlog') \in Nat /\ Len(backlog') <= Len(backlog) + 1
      /\ \A i \in 1..Len(backlog') :
            \/ i \in 1..Len(backlog) /\ backlog'[i] = backlog[i]
            \/ i = Len(backlog) + 1 /\ backlog'[i] = c
  <2>1. CASE backlog' = backlog
    <3>1. \A i \in 1..Len(backlog') : i \in 1..Len(backlog) /\ backlog'[i] = backlog[i]  BY <2>1
    <3>2. Len(backlog') = Len(backlog)  BY <2>1
    <3> QED  BY <1>2, <3>1, <3>2
  <2>2. CASE backlog' = Append(backlog, c)
    <3>1. /\ Len(backlog') = Len(backlog) + 1 /\ backlog'[Len(backlog) + 1] = c
          /\ \A i \in 1..Len(backlog) : backlog'[i] = backlog[i]
      BY <1>2, <2>2
    <3>2. \A i \in 1..Len(backlog) + 1 : i \in 1..Len(backlog) \/ i = Len(backlog) + 1  BY <1>2
    <3> QED  BY <1>2, <3>1, <3>2
  <2> QED  BY <2>1, <2>2
<1>5. QueueOK'
  <2>1. \A d \in Client : line'[d] = "new" => d \notin read  BY <1>1 DEF QueueOK
  <2>2. ASSUME NEW i \in 1..Len(backlog')
        PROVE  /\ line'[backlog'[i]] # "new" /\ backlog'[i] \notin read
               /\ \A f \in ThreadFd : fds[f] # backlog'[i]
               /\ \A w \in Worker : worker[w].conn # backlog'[i]
    <3>1. CASE i \in 1..Len(backlog) /\ backlog'[i] = backlog[i]
      BY <1>1, <1>2, <3>1 DEF QueueOK
    <3>2. CASE backlog'[i] = c  BY <1>1, <1>3, <3>2
    <3> QED  BY <1>4, <3>1, <3>2
  <2>3. ASSUME NEW i \in 1..Len(backlog'), NEW j \in 1..Len(backlog'), i # j
        PROVE  backlog'[i] # backlog'[j]
    <3>1. CASE /\ i \in 1..Len(backlog) /\ backlog'[i] = backlog[i]
               /\ j \in 1..Len(backlog) /\ backlog'[j] = backlog[j]
      BY <2>3, <3>1 DEF QueueOK
    <3>2. CASE ~(i \in 1..Len(backlog))  BY <1>3, <1>4, <2>3, <3>2
    <3>3. CASE ~(j \in 1..Len(backlog))  BY <1>3, <1>4, <2>3, <3>3
    <3> QED  BY <1>2, <1>4, <3>1, <3>2, <3>3
  <2> QED  BY <2>1, <2>2, <2>3 DEF QueueOK
<1>6. HeldOnce'
  <2>1. ASSUME NEW d \in Client, line[d] # "new" PROVE line'[d] # "new"  BY <1>1, <2>1
  <2>2. \A w \in Worker : Fits(worker[w])' /\ (worker'[w].conn # NoClient => line'[worker'[w].conn] # "new")
    BY <2>1 DEF HeldOnce, Fits, TimeShape, WorkerShape
  <2>3. \A f \in ThreadFd : fds[f] # NoClient => line'[fds[f]] # "new"  BY <2>1 DEF HeldOnce, TimeShape
  <2> QED  BY <2>2, <2>3 DEF HeldOnce
<1>7. ThreadsOwn'  BY DEF ThreadsOwn
<1>8. RoomForAll'
  <2>1. Enlisted' = Enlisted /\ UsedFds' = UsedFds  BY DEF Enlisted, UsedFds
  <2>2. Begun' = Begun \cup {c} /\ c \notin Begun  BY <1>1 DEF Begun
  <2>3. Cardinality(Begun') = Cardinality(Begun) + 1  BY <2>2, TimeFinite, FS_AddElement
  <2> QED  BY <1>2, <1>4, <2>1, <2>3, TimeFinite DEF RoomForAll
<1> QED  BY <1>5, <1>6, <1>7, <1>8

\* Clients connect, speak and leave.
LEMMA TimeClientInv ==
    ASSUME TimeInv, NEW c \in Client,
           TimeConnect(c) \/ TimeLeave(c) \/ \E what \in {"TIME", "other"} : TimeSpeak(c, what)
    PROVE  TimeInv'
<1> USE DEF TimeInv
<1>1. /\ UNCHANGED <<server, worker, fds, s_c, read, hurried, answers, ALOCK>>
      /\ said' \in [Client -> {"nothing", "TIME", "other"}]
      /\ \A d \in Client : said[d] = "TIME" => said'[d] = "TIME"
  <2>1. CASE TimeConnect(c)  BY <2>1 DEF TimeConnect, threadvars, TimeShape
  <2>2. CASE TimeLeave(c)  BY <2>2 DEF TimeLeave, threadvars, TimeShape
  <2>3. ASSUME NEW what \in {"TIME", "other"}, TimeSpeak(c, what)
        PROVE  /\ UNCHANGED <<server, worker, fds, s_c, read, hurried, answers, ALOCK>>
               /\ said' \in [Client -> {"nothing", "TIME", "other"}]
               /\ \A d \in Client : said[d] = "TIME" => said'[d] = "TIME"
    BY <2>3 DEF TimeSpeak, threadvars, TimeShape
  <2> QED  BY <2>1, <2>2, <2>3
<1>2. \/ /\ line[c] = "new" /\ line' = [line EXCEPT ![c] = "open"]
         /\ backlog' = backlog \/ backlog' = Append(backlog, c)
      \/ line[c] = "open" /\ line' \in {line, [line EXCEPT ![c] = "gone"]} /\ backlog' = backlog
  BY DEF TimeConnect, TimeLeave, TimeSpeak
<1>3. line' \in [Client -> {"new", "open", "gone"}]  BY <1>2 DEF TimeShape
<1>4. backlog' \in Seq(Client)
  <2>1. CASE backlog' = backlog  BY <2>1 DEF TimeShape
  <2>2. CASE backlog' = Append(backlog, c)  BY <2>2 DEF TimeShape
  <2> QED  BY <1>2, <2>1, <2>2
<1>5. TimeShape'  BY <1>1, <1>3, <1>4 DEF TimeShape
<1>6. LockOK'  BY <1>1 DEF LockOK
<1>7. AnsweredOnce'
  <2>1. \A w \in Worker : Conn(w)' = Conn(w)  BY <1>1 DEF Conn
  <2> QED  BY <1>1, <1>5, <2>1, AnsweredStays
<1>8. QueueOK' /\ HeldOnce' /\ ThreadsOwn' /\ RoomForAll'
  <2>1. CASE line[c] = "new"
    <3>1. /\ line' = [line EXCEPT ![c] = "open"]
          /\ backlog' = backlog \/ backlog' = Append(backlog, c)
      BY <1>2, <2>1
    <3> QED  BY <1>1, <1>5, <2>1, <3>1, ComesIn
  <2>2. CASE line[c] # "new"
    <3>1. backlog' = backlog /\ \A d \in Client : line'[d] = "new" <=> line[d] = "new"
      BY <1>2, <2>2 DEF TimeShape
    <3>2. \A i \in 1..Len(backlog) : backlog[i] \in Client  BY DEF TimeShape
    <3>3. QueueOK'  BY <1>1, <3>1, <3>2 DEF QueueOK
    <3>4. HeldOnce'
      <4>1. \A w \in Worker : Fits(worker[w])'
                              /\ (worker'[w].conn # NoClient => line'[worker'[w].conn] # "new")
        BY <1>1, <3>1 DEF HeldOnce, Fits, TimeShape, WorkerShape
      <4>2. \A f \in ThreadFd : fds[f] # NoClient => line'[fds[f]] # "new"
        BY <3>1 DEF HeldOnce, TimeShape
      <4> QED  BY <1>1, <4>1, <4>2 DEF HeldOnce
    <3>5. ThreadsOwn'  BY <1>1 DEF ThreadsOwn
    <3>6. Begun' = Begun /\ Enlisted' = Enlisted /\ UsedFds' = UsedFds
      BY <1>1, <3>1 DEF Begun, Enlisted, UsedFds
    <3>7. RoomForAll'  BY <1>1, <3>1, <3>6 DEF RoomForAll
    <3> QED  BY <3>3, <3>4, <3>5, <3>7
  <2> QED  BY <2>1, <2>2
<1> QED  BY <1>5, <1>6, <1>7, <1>8

-----------------------------------------------------------------------------

\* A worker that has begun moves on: what it holds fits its place, and it holds a
\* connection it had, or that of its descriptor.
LEMMA MovesOn ==
    ASSUME TimeInv, NEW w \in Worker, NEW p \in TimePlaces, NEW f \in ThreadFd \cup {0},
           NEW c \in Client \cup {NoClient}, Moved(w, p, f, c),
           UNCHANGED <<server, line, backlog, fds, s_c, hurried>>,
           TimeShape', LockOK', worker[w].pc # "none", p # "none", p # "argv", Fits(worker'[w]),
           read' \subseteq read \cup {worker[w].conn},
           c \in {worker[w].conn, NoClient} \/ (server = "threadEach" /\ \E g \in ThreadFd : c = fds[g]),
           server = "threadEach" /\ ~hurried =>
              /\ f \in {worker[w].fd, 0} \/ (worker[w].pc = "argv" /\ f = s_c)
              /\ p = "recv" => f # 0 /\ c = fds[f]
    PROVE  QueueOK' /\ HeldOnce' /\ ThreadsOwn' /\ RoomForAll'
<1> USE DEF TimeInv
<1>1. /\ worker'[w].pc = p /\ worker'[w].fd = f /\ worker'[w].conn = c
      /\ \A v \in Worker \ {w} : worker'[v] = worker[v]
  BY DEF Moved
<1>2. c # NoClient => line[c] # "new" /\ \A i \in 1..Len(backlog) : backlog[i] # c
  <2>1. CASE c = worker[w].conn  BY <2>1 DEF HeldOnce, QueueOK
  <2>2. CASE \E g \in ThreadFd : c = fds[g]  BY <2>2 DEF HeldOnce, QueueOK
  <2> QED  BY <2>1, <2>2
<1>3. QueueOK'
  <2>5. \A i \in 1..Len(backlog) : backlog[i] \in Client
    <3>1. backlog \in Seq(Client)  BY DEF TimeShape
    <3> QED  BY <3>1
  <2>6. \A i \in 1..Len(backlog) : backlog[i] # worker[w].conn  BY DEF QueueOK
  <2>1. \A i \in 1..Len(backlog) : backlog[i] \in Client /\ backlog[i] # worker[w].conn
    BY <2>5, <2>6
  <2>2. ASSUME NEW d \in Client, line[d] = "new" PROVE d \notin read'
    <3>1. d \notin read  BY <2>2 DEF QueueOK
    <3>2. d # worker[w].conn  BY <2>2, TimeNumbers DEF HeldOnce
    <3> QED  BY <3>1, <3>2
  <2>3. ASSUME NEW i \in 1..Len(backlog), NEW v \in Worker PROVE worker'[v].conn # backlog[i]
    <3>1. CASE v = w  BY <1>1, <1>2, <2>1, <3>1, TimeNumbers
    <3>2. CASE v # w  BY <1>1, <3>2 DEF QueueOK
    <3> QED  BY <3>1, <3>2
  <2>4. \A i \in 1..Len(backlog) : backlog[i] \notin read'  BY <2>1 DEF QueueOK
  <2> QED  BY <2>2, <2>3, <2>4 DEF QueueOK
<1>4. HeldOnce'
  <2>1. ASSUME NEW v \in Worker
        PROVE  Fits(worker[v])' /\ (worker'[v].conn # NoClient => line'[worker'[v].conn] # "new")
    <3>1. CASE v = w  BY <1>1, <1>2, <3>1 DEF Fits
    <3>2. CASE v # w  BY <1>1, <3>2 DEF HeldOnce, Fits
    <3> QED  BY <3>1, <3>2
  <2>2. ASSUME server # "threadEach", NEW v \in Worker, NEW u \in Worker, v # u, worker'[v].conn # NoClient
        PROVE  worker'[v].conn # worker'[u].conn
    <3>1. c \in {worker[w].conn, NoClient}  BY <2>2
    <3>2. CASE v = w  BY <1>1, <2>2, <3>1, <3>2 DEF HeldOnce
    <3>3. CASE u = w  BY <1>1, <2>2, <3>1, <3>3 DEF HeldOnce
    <3>4. CASE v # w /\ u # w  BY <1>1, <2>2, <3>4 DEF HeldOnce
    <3> QED  BY <3>2, <3>3, <3>4
  <2> QED  BY <2>1, <2>2 DEF HeldOnce
<1>5. ThreadsOwn'
  <2> SUFFICES ASSUME server = "threadEach", ~hurried, NEW v \in Worker
               PROVE  /\ worker'[v].fd # 0 => /\ fds[worker'[v].fd] # NoClient
                                              /\ \A u \in Worker \ {v} : worker'[u].fd # worker'[v].fd
                      /\ worker'[v].pc = "recv" => worker'[v].fd # 0 /\ worker'[v].conn = fds[worker'[v].fd]
                      /\ worker'[v].pc = "argv" =>
                            /\ s_c # 0 /\ fds[s_c] # NoClient
                            /\ \A u \in Worker : worker'[u].fd # s_c /\ (u # v => worker'[u].pc # "argv")
    BY DEF ThreadsOwn
  <2>1. f \in {worker[w].fd, 0} \/ (worker[w].pc = "argv" /\ f = s_c)  OBVIOUS
  <2>2. f # 0 => fds[f] # NoClient /\ \A u \in Worker \ {w} : worker[u].fd # f
    BY <2>1 DEF ThreadsOwn
  <2>3. CASE v = w  BY <1>1, <2>2, <2>3
  <2>4. CASE v # w
    <3>1. worker'[v] = worker[v]  BY <1>1, <2>4
    <3>2. worker[v].fd # 0 => /\ fds[worker[v].fd] # NoClient
                              /\ \A u \in Worker \ {v} : worker'[u].fd # worker[v].fd
      <4>1. worker[v].fd # 0 => f # worker[v].fd  BY <2>2, <2>4
      <4> QED  BY <1>1, <4>1 DEF ThreadsOwn
    <3>3. worker[v].pc = "argv" =>
             /\ s_c # 0 /\ fds[s_c] # NoClient
             /\ \A u \in Worker : worker'[u].fd # s_c /\ (u # v => worker'[u].pc # "argv")
      <4> SUFFICES ASSUME worker[v].pc = "argv"
                   PROVE  /\ s_c # 0 /\ fds[s_c] # NoClient
                          /\ \A u \in Worker : worker'[u].fd # s_c /\ (u # v => worker'[u].pc # "argv")
        OBVIOUS
      <4>1. /\ s_c # 0 /\ fds[s_c] # NoClient
            /\ \A u \in Worker : worker[u].fd # s_c /\ (u # v => worker[u].pc # "argv")
        BY DEF ThreadsOwn
      <4>2. f # s_c  BY <2>1, <2>4, <4>1
      <4> QED  BY <1>1, <4>1, <4>2
    <3> QED  BY <3>1, <3>2, <3>3 DEF ThreadsOwn
  <2> QED  BY <2>3, <2>4
<1>6. RoomForAll'
  <2>1. Enlisted' = Enlisted /\ UsedFds' = UsedFds /\ Begun' = Begun
    BY <1>1 DEF Enlisted, UsedFds, Begun
  <2> QED  BY <2>1 DEF RoomForAll
<1> QED  BY <1>3, <1>4, <1>5, <1>6

-----------------------------------------------------------------------------

\* Whoever stays where it is keeps its connection.
LEMMA ConnStays ==
    ASSUME NEW v, worker'[v] = worker[v], UNCHANGED <<server, fds>> PROVE Conn(v)' = Conn(v)
BY DEF Conn

\* A worker has read a client that asks, and is about to answer it.
LEMMA AboutToAnswer ==
    ASSUME TimeInv, NEW w \in Worker, NEW c \in Client, c \notin read, read' = read \cup {c},
           said[c] = "TIME", UNCHANGED <<answers, said, hurried>>, ~hurried => Conn(w)' = c,
           \A v \in Worker \ {w} : worker'[v] = worker[v] /\ Conn(v)' = Conn(v)
    PROVE  AnsweredOnce'
<1> SUFFICES ASSUME ~hurried PROVE /\ \A d \in Client : answers[d] > 0 => answers[d] = 1 /\ AskedAndRead(d)'
                                   /\ \A v \in Worker : worker'[v].pc = "send" /\ Conn(v)' # NoClient =>
                                         AskedAndRead(Conn(v))' /\ answers[Conn(v)'] = 0
  BY DEF AnsweredOnce
<1> USE DEF TimeInv
<1>1. \A d \in Client : AskedAndRead(d) => AskedAndRead(d)'  BY DEF AskedAndRead
<1>2. \A d \in Client : answers[d] > 0 => answers[d] = 1 /\ AskedAndRead(d)'
  BY <1>1 DEF AnsweredOnce
<1>3. AskedAndRead(c)'  BY DEF AskedAndRead
<1>4. answers[c] = 0
  <2>1. ~(answers[c] > 0)  BY DEF AnsweredOnce, AskedAndRead
  <2>2. answers[c] \in Nat  BY DEF TimeShape
  <2> QED  BY <2>1, <2>2
<1>5. ASSUME NEW v \in Worker, worker'[v].pc = "send", Conn(v)' # NoClient
      PROVE  AskedAndRead(Conn(v))' /\ answers[Conn(v)'] = 0
  <2>1. CASE v = w
    <3>1. Conn(v)' = c  BY <2>1
    <3>2. AskedAndRead(Conn(v))'  BY <1>3, <3>1 DEF AskedAndRead
    <3> QED  BY <1>4, <3>1, <3>2
  <2>2. CASE v # w
    <3>1. worker[v].pc = "send" /\ Conn(v)' = Conn(v) /\ Conn(v) # NoClient  BY <1>5, <2>2
    <3>2. AskedAndRead(Conn(v)) /\ answers[Conn(v)] = 0  BY <3>1 DEF AnsweredOnce
    <3>3. AskedAndRead(Conn(v))'  BY <3>1, <3>2 DEF AskedAndRead
    <3> QED  BY <3>1, <3>2, <3>3
  <2> QED  BY <2>1, <2>2
<1> QED  BY <1>2, <1>5

\* A worker answers the client of its descriptor, and is done with it.
LEMMA Answers ==
    ASSUME TimeInv, NEW w \in Worker, worker[w].pc = "send", worker'[w].pc # "send",
           Answer(Conn(w)), Conn(w) \in Client, UNCHANGED <<server, fds, said, read, hurried>>,
           \A v \in Worker \ {w} : worker'[v] = worker[v]
    PROVE  AnsweredOnce' /\ answers' \in [Client -> Nat]
<1> USE DEF TimeInv
<1> DEFINE c == Conn(w)
<1>1. c \in Client /\ c # NoClient  BY TimeNumbers
<1>2. /\ answers' \in [Client -> Nat] /\ answers'[c] = answers[c] + 1
      /\ \A d \in Client \ {c} : answers'[d] = answers[d]
  BY <1>1 DEF Answer, TimeShape
<1>3. ASSUME ~hurried
      PROVE  /\ \A d \in Client : answers'[d] > 0 => answers'[d] = 1 /\ AskedAndRead(d)'
             /\ \A v \in Worker : worker'[v].pc = "send" /\ Conn(v)' # NoClient =>
                   AskedAndRead(Conn(v))' /\ answers'[Conn(v)'] = 0
  <2>1. AskedAndRead(c) /\ answers[c] = 0  BY <1>1, <1>3 DEF AnsweredOnce
  <2>2. \A d \in Client : AskedAndRead(d)' = AskedAndRead(d)  BY DEF AskedAndRead
  <2>3. \A d \in Client : answers'[d] > 0 => answers'[d] = 1 /\ AskedAndRead(d)'
    BY <1>1, <1>2, <1>3, <2>1, <2>2 DEF AnsweredOnce
  <2>4. ASSUME NEW v \in Worker, worker'[v].pc = "send", Conn(v)' # NoClient
        PROVE  AskedAndRead(Conn(v))' /\ answers'[Conn(v)'] = 0
    <3>1. v # w  BY <2>4
    <3>2. worker[v].pc = "send" /\ Conn(v)' = Conn(v)  BY <2>4, <3>1, ConnStays
    <3>3. Conn(v) # c /\ Conn(v) \in Client  BY <1>3, <2>4, <3>1, <3>2, OneConn, ConnIs
    <3>4. AskedAndRead(Conn(v)) /\ answers[Conn(v)] = 0  BY <1>3, <2>4, <3>2 DEF AnsweredOnce
    <3>5. AskedAndRead(Conn(v))'  BY <3>2, <3>4 DEF AskedAndRead
    <3> QED  BY <1>2, <3>2, <3>3, <3>4, <3>5
  <2> QED  BY <2>3, <2>4
<1> QED  BY <1>2, <1>3 DEF AnsweredOnce

\* The mutex stays with its thread when another one moves, or one that does not wait.
LEMMA LockStays ==
    ASSUME LockOK, NEW w \in Worker, worker[w].pc # "accept" \/ server # "pool",
           UNCHANGED <<server, ALOCK>>, \A v \in Worker \ {w} : worker'[v] = worker[v]
    PROVE  LockOK'
BY DEF LockOK

\* recv returns.
LEMMA RecvInv == ASSUME TimeInv, NEW w \in Worker, Recv(w) PROVE TimeInv'
<1> USE DEF TimeInv
<1> DEFINE c == worker[w].conn
<1>1. /\ worker[w].pc = "recv"
      /\ read' = IF Arrived(c) THEN read \cup {c} ELSE read
      /\ UNCHANGED <<server, said, line, backlog, answers, ALOCK, fds, s_c, hurried>>
  BY DEF Recv, clientvars, threadvars
<1>2. c \in Client /\ worker[w].fd \in ThreadFd \cup {0}
  BY <1>1 DEF HeldOnce, Fits, TimeShape, WorkerShape
<1>3. PICK p \in {"send", "close"}, d \in {c, NoClient} :
         /\ worker' = [worker EXCEPT ![w].pc = p, ![w].conn = d]
         /\ p = "send" => Arrived(c) /\ said[c] = "TIME"
         /\ d = IF server = "threadEach" THEN NoClient ELSE c
  BY DEF Recv
<1> HIDE DEF c
<1>4. Moved(w, p, worker[w].fd, d)  BY <1>2, <1>3 DEF Moved, TimeShape, WorkerShape, TimePlaces
<1>5. /\ worker'[w].pc = p /\ worker'[w].fd = worker[w].fd /\ worker'[w].conn = d
      /\ \A v \in Worker \ {w} : worker'[v] = worker[v]
  BY <1>4 DEF Moved
<1>6. TimeShape'
  <2>1. read' \subseteq Client  BY <1>1, <1>2 DEF TimeShape
  <2> QED  BY <1>1, <1>4, <2>1 DEF TimeShape, Moved
<1>7. LockOK'  BY <1>1, <1>5, LockStays
<1>8. Fits(worker'[w])  BY <1>1, <1>2, <1>3, <1>5 DEF HeldOnce, Fits, Unbound
<1>9. QueueOK' /\ HeldOnce' /\ ThreadsOwn' /\ RoomForAll'
  <2>1. p \in TimePlaces /\ p # "recv" /\ p # "none" /\ p # "argv" /\ d \in Client \cup {NoClient}
    BY <1>2, <1>3 DEF TimePlaces
  <2>2. read' \subseteq read \cup {worker[w].conn} /\ d \in {worker[w].conn, NoClient}
    BY <1>1, <1>3 DEF c
  <2> QED  BY <1>1, <1>2, <1>4, <1>6, <1>7, <1>8, <2>1, <2>2, MovesOn
<1>10. AnsweredOnce'
  <2>1. \A v \in Worker \ {w} : Conn(v)' = Conn(v)  BY <1>1, <1>5, ConnStays
  <2>2. CASE p = "send"
    <3>1. c \notin read /\ read' = read \cup {c} /\ said[c] = "TIME"
      BY <1>1, <1>3, <2>2 DEF Arrived
    <3>2. ~hurried => Conn(w)' = c
      <4>1. CASE server # "threadEach"  BY <1>1, <1>3, <1>5, <4>1 DEF Conn
      <4>2. CASE server = "threadEach"
        BY <1>1, <1>5, <4>2 DEF Conn, ThreadsOwn, c
      <4> QED  BY <4>1, <4>2
    <3> QED  BY <1>1, <1>2, <1>5, <2>1, <3>1, <3>2, AboutToAnswer
  <2>3. CASE p = "close"
    <3>1. \A v \in Worker : worker'[v].pc = "send" => worker[v].pc = "send" /\ Conn(v)' = Conn(v)
      BY <1>5, <2>1, <2>3
    <3>2. read \subseteq read'  BY <1>1
    <3> QED  BY <1>1, <1>6, <3>1, <3>2, AnsweredStays
  <2> QED  BY <2>2, <2>3
<1> QED  BY <1>6, <1>7, <1>9, <1>10

\* A worker that has a connection, or none yet, moves on without reading anything and
\* without a part in the answers.
LEMMA QuietMove ==
    ASSUME TimeInv, NEW w \in Worker, NEW p \in TimePlaces, NEW f \in ThreadFd \cup {0},
           NEW c \in Client \cup {NoClient}, Moved(w, p, f, c),
           UNCHANGED <<server, said, line, backlog, answers, fds, s_c, read, hurried>>,
           LockOK', worker[w].pc # "none", p \notin {"none", "argv", "send"}, Fits(worker'[w]),
           c \in {worker[w].conn, NoClient} \/ (server = "threadEach" /\ \E g \in ThreadFd : c = fds[g]),
           server = "threadEach" /\ ~hurried =>
              /\ f \in {worker[w].fd, 0} \/ (worker[w].pc = "argv" /\ f = s_c)
              /\ p = "recv" => f # 0 /\ c = fds[f]
    PROVE  TimeInv'
<1> USE DEF TimeInv
<1>1. TimeShape'  BY DEF TimeShape, Moved
<1>2. QueueOK' /\ HeldOnce' /\ ThreadsOwn' /\ RoomForAll'  BY <1>1, MovesOn
<1>3. AnsweredOnce'
  <2>1. \A v \in Worker \ {w} : worker'[v] = worker[v] /\ Conn(v)' = Conn(v)
    BY ConnStays DEF Moved
  <2>2. worker'[w].pc # "send"  BY DEF Moved
  <2>3. \A v \in Worker : worker'[v].pc = "send" => worker[v].pc = "send" /\ Conn(v)' = Conn(v)
    BY <2>1, <2>2
  <2> QED  BY <1>1, <2>3, AnsweredStays
<1> QED  BY <1>1, <1>2, <1>3

\* The answer is sent, or raises SIGPIPE.
LEMMA SendInv == ASSUME TimeInv, NEW w \in Worker, Send(w) \/ SendKills(w) PROVE TimeInv'
<1> USE DEF TimeInv
<1>1. worker[w].pc = "send"
      /\ UNCHANGED <<server, said, line, backlog, ALOCK, fds, s_c, read, hurried>>
  BY DEF Send, SendKills, clientvars, threadvars
<1>2. worker[w].fd \in ThreadFd \cup {0} /\ worker[w].conn \in Client \cup {NoClient}
  BY DEF TimeShape, WorkerShape
<1>3. CASE Send(w)
  <2>1. Moved(w, "close", worker[w].fd, worker[w].conn)
    <3>1. worker' = [worker EXCEPT ![w].pc = "close"]  BY <1>3 DEF Send
    <3> QED  BY <1>2, <3>1 DEF Moved, TimeShape, WorkerShape, TimePlaces
  <2>2. /\ worker'[w].pc = "close" /\ worker'[w].fd = worker[w].fd /\ worker'[w].conn = worker[w].conn
        /\ \A v \in Worker \ {w} : worker'[v] = worker[v]
    BY <2>1 DEF Moved
  <2>3. LockOK'  BY <1>1, <2>2, LockStays
  <2>4. Fits(worker'[w])  BY <1>1, <2>2 DEF HeldOnce, Fits, Unbound
  <2>5. "close" \in TimePlaces  BY DEF TimePlaces
  <2>6. CASE answers' = answers
    BY <1>1, <1>2, <2>1, <2>3, <2>4, <2>5, <2>6, QuietMove
  <2>7. CASE Answer(Conn(w)) /\ Conn(w) # NoClient
    <3>1. Conn(w) \in Client  BY <2>7, ConnIs
    <3>2. AnsweredOnce' /\ answers' \in [Client -> Nat]  BY <1>1, <2>2, <2>7, <3>1, Answers
    <3>3. TimeShape'  BY <1>1, <2>1, <3>2 DEF TimeShape, Moved
    <3>4. QueueOK' /\ HeldOnce' /\ ThreadsOwn' /\ RoomForAll'
      BY <1>1, <1>2, <2>1, <2>3, <2>4, <2>5, <3>3, MovesOn
    <3> QED  BY <2>3, <3>2, <3>3, <3>4
  <2> QED  BY <1>3, <2>6, <2>7 DEF Send
<1>4. CASE SendKills(w)
  <2>1. Moved(w, "dead", 0, NoClient)
    <3>1. worker' = [worker EXCEPT ![w] = [pc |-> "dead", fd |-> 0, conn |-> NoClient]]
      BY <1>4 DEF SendKills, At
    <3> QED  BY <3>1, MovesTo DEF TimePlaces
  <2>2. /\ worker'[w].pc = "dead" /\ worker'[w].fd = 0 /\ worker'[w].conn = NoClient
        /\ \A v \in Worker \ {w} : worker'[v] = worker[v] /\ answers' = answers
    BY <1>4, <2>1 DEF Moved, SendKills
  <2>3. LockOK'  BY <1>1, <2>2, LockStays
  <2>4. Fits(worker'[w])  BY <2>2, TimeNumbers DEF Fits
  <2>5. "dead" \in TimePlaces /\ answers' = answers  BY <1>4 DEF TimePlaces, SendKills
  <2> QED  BY <1>1, <2>1, <2>3, <2>4, <2>5, QuietMove
<1> QED  BY <1>3, <1>4

\* The thread of 14.3.2 reads s_c, and finds the connection of its descriptor.
LEMMA ArgvInv ==
    ASSUME TimeInv, server = "threadEach", NEW w \in Worker, ReadArgv(w) \/ CallRecv(w)
    PROVE  TimeInv'
<1> USE DEF TimeInv
<1>1. worker[w].pc \in {"argv", "call"}
      /\ UNCHANGED <<server, said, line, backlog, answers, ALOCK, fds, s_c, read, hurried>>
  BY DEF ReadArgv, CallRecv, clientvars, threadvars
<1>2. worker[w].fd \in ThreadFd \cup {0} /\ worker[w].conn \in Client \cup {NoClient}
      /\ s_c \in ThreadFd \cup {0}
  BY DEF TimeShape, WorkerShape
<1>3. CASE ReadArgv(w)
  <2>1. Moved(w, "call", s_c, worker[w].conn)
    <3>1. worker' = [worker EXCEPT ![w].fd = s_c, ![w].pc = "call"]  BY <1>3 DEF ReadArgv
    <3> QED  BY <1>2, <3>1 DEF Moved, TimeShape, WorkerShape, TimePlaces
  <2>2. /\ worker'[w].pc = "call" /\ worker'[w].fd = s_c /\ worker'[w].conn = worker[w].conn
        /\ \A v \in Worker \ {w} : worker'[v] = worker[v]
    BY <2>1 DEF Moved
  <2>3. LockOK'  BY <1>1, <2>2, LockStays
  <2>4. Fits(worker'[w])  BY <2>2 DEF Fits, Unbound
  <2>5. "call" \in TimePlaces /\ worker[w].pc = "argv"  BY <1>3 DEF TimePlaces, ReadArgv
  <2> QED  BY <1>1, <1>2, <2>1, <2>3, <2>4, <2>5, QuietMove
<1>4. CASE CallRecv(w)
  <2> DEFINE p == IF Conn(w) = NoClient THEN "close" ELSE "recv"
             c == Conn(w)
  <2>0. c \in Client \cup {NoClient}  BY ConnIs
  <2>1. Moved(w, p, worker[w].fd, c)
    <3>1. worker' = [worker EXCEPT ![w].conn = c, ![w].pc = p]  BY <1>4 DEF CallRecv
    <3>2. p \in TimePlaces  BY DEF TimePlaces
    <3> HIDE DEF p, c
    <3> QED  BY <1>2, <2>0, <3>1, <3>2 DEF Moved, TimeShape, WorkerShape
  <2>2. /\ worker'[w].pc = p /\ worker'[w].fd = worker[w].fd /\ worker'[w].conn = c
        /\ \A v \in Worker \ {w} : worker'[v] = worker[v]
    BY <2>1 DEF Moved
  <2>3. LockOK'  BY <1>1, <2>2, LockStays
  <2>4. p \in TimePlaces /\ p \in {"close", "recv"} /\ (p = "recv" => c \in Client)
    BY <2>0 DEF TimePlaces
  <2>5. c = NoClient \/ (worker[w].fd \in ThreadFd /\ c = fds[worker[w].fd])
    BY <1>2 DEF Conn
  <2>6. p = "recv" => worker[w].fd # 0 /\ c = fds[worker[w].fd]  BY <1>2 DEF Conn
  <2> HIDE DEF p, c
  <2>7. Fits(worker'[w])  BY <2>2, <2>4 DEF Fits, Unbound
  <2>8. c \in {worker[w].conn, NoClient} \/ \E g \in ThreadFd : c = fds[g]  BY <2>5
  <2>9. p \notin {"none", "argv", "send"} /\ worker[w].pc # "none"  BY <1>1, <2>4
  <2> QED  BY <1>1, <1>2, <2>0, <2>1, <2>3, <2>4, <2>6, <2>7, <2>8, <2>9, QuietMove
<1> QED  BY <1>3, <1>4

\* A thread of 14.3.3 takes the mutex.
LEMMA LockInv == ASSUME TimeInv, server = "pool", NEW w \in Worker, Lock(w) PROVE TimeInv'
<1> USE DEF TimeInv
<1>1. worker[w].pc = "lock" /\ ALOCK' = w
      /\ UNCHANGED <<server, said, line, backlog, answers, fds, s_c, read, hurried>>
  BY DEF Lock, clientvars, threadvars
<1>2. worker[w].fd = 0 /\ worker[w].conn = NoClient  BY <1>1 DEF HeldOnce, Fits, Unbound
<1>3. Moved(w, "accept", 0, NoClient)
  <2>1. worker' = [worker EXCEPT ![w].pc = "accept"]  BY DEF Lock
  <2> QED  BY <1>2, <2>1 DEF Moved, TimeShape, WorkerShape, TimePlaces
<1>4. worker'[w].pc = "accept" /\ worker'[w].fd = 0 /\ worker'[w].conn = NoClient  BY <1>3 DEF Moved
<1>5. LockOK'  BY <1>1, <1>4 DEF LockOK
<1>6. Fits(worker'[w]) /\ "accept" \in TimePlaces  BY <1>4, TimeNumbers DEF Fits, TimePlaces
<1> QED  BY <1>1, <1>3, <1>5, <1>6, QuietMove

\* A datagram is answered, or gets lost.
LEMMA SendToInv == ASSUME TimeInv, server \in Udp, NEW w \in Worker, SendTo(w) PROVE TimeInv'
<1> USE DEF TimeInv
<1> DEFINE c == worker[w].conn
<1>1. worker[w].pc = "send" /\ (Answer(c) \/ answers' = answers)
      /\ UNCHANGED <<server, said, line, backlog, ALOCK, fds, s_c, read, hurried>>
  BY DEF SendTo, clientvars, threadvars
<1>2. c \in Client /\ Conn(w) = c  BY <1>1 DEF HeldOnce, Fits, Conn, Udp
<1>3. Moved(w, "accept", 0, NoClient)
  <2>1. worker' = [worker EXCEPT ![w] = [pc |-> "accept", fd |-> 0, conn |-> NoClient]]
    BY DEF SendTo, At
  <2> QED  BY <2>1, MovesTo DEF TimePlaces
<1>4. /\ worker'[w].pc = "accept" /\ worker'[w].fd = 0 /\ worker'[w].conn = NoClient
      /\ \A v \in Worker \ {w} : worker'[v] = worker[v]
  BY <1>3 DEF Moved
<1>5. LockOK'  BY <1>1, <1>4, LockStays
<1>6. Fits(worker'[w]) /\ "accept" \in TimePlaces  BY <1>4, TimeNumbers DEF Fits, TimePlaces
<1>7. CASE answers' = answers  BY <1>1, <1>3, <1>5, <1>6, <1>7, QuietMove
<1>8. CASE Answer(c)
  <2>1. AnsweredOnce' /\ answers' \in [Client -> Nat]  BY <1>1, <1>2, <1>4, <1>8, Answers
  <2>2. TimeShape'  BY <1>1, <1>3, <2>1 DEF TimeShape, Moved
  <2>3. QueueOK' /\ HeldOnce' /\ ThreadsOwn' /\ RoomForAll'
    BY <1>1, <1>3, <1>5, <1>6, <2>2, MovesOn
  <2> QED  BY <1>5, <2>1, <2>2, <2>3
<1> QED  BY <1>1, <1>7, <1>8

-----------------------------------------------------------------------------

\* A worker closes its connection, and with it the descriptor it has.
LEMMA CloseInv ==
    ASSUME TimeInv, NEW w \in Worker, NEW p \in {"accept", "lock", "dead", "over"}, CloseThen(w, p),
           server # "threadEach" \/ p = "dead", server = "pool" => p = "lock"
    PROVE  TimeInv'
<1> USE DEF TimeInv
<1>1. /\ worker[w].pc = "close"
      /\ worker' = [worker EXCEPT ![w] = [pc |-> p, fd |-> 0, conn |-> NoClient]]
      /\ UNCHANGED <<server, said, line, backlog, answers, ALOCK, s_c, read, hurried>>
  BY DEF CloseThen, At, clientvars
<1>2. p \in TimePlaces  BY DEF TimePlaces
<1>3. Moved(w, p, 0, NoClient)  BY <1>1, <1>2, MovesTo
<1>4. /\ worker'[w].pc = p /\ worker'[w].fd = 0 /\ worker'[w].conn = NoClient
      /\ \A v \in Worker \ {w} : worker'[v] = worker[v]
  BY <1>3 DEF Moved
<1>5. LockOK'  BY <1>1, <1>4, LockStays
<1>6. Fits(worker'[w])  BY <1>4, TimeNumbers DEF Fits
<1>7. CASE worker[w].fd = 0
  <2>1. fds' = fds  BY <1>7 DEF CloseThen
  <2>2. p \notin {"none", "argv", "send", "recv"} /\ worker[w].pc # "none"  BY <1>1
  <2> QED  BY <1>1, <1>2, <1>3, <1>5, <1>6, <2>1, <2>2, QuietMove
<1>8. CASE worker[w].fd # 0
  <2> DEFINE f == worker[w].fd
  <2>1. f \in ThreadFd /\ fds' = [fds EXCEPT ![f] = NoClient]
    BY <1>8 DEF CloseThen, TimeShape, WorkerShape
  <2>2. server = "threadEach"  BY <1>8 DEF HeldOnce, Fits
  <2>3. /\ fds'[f] = NoClient /\ \A g \in ThreadFd \ {f} : fds'[g] = fds[g]
        /\ fds' \in [ThreadFd -> Client \cup {NoClient}]
    BY <2>1 DEF TimeShape
  <2> HIDE DEF f
  <2>4. TimeShape'  BY <1>1, <1>3, <2>3 DEF TimeShape, Moved
  <2>5. QueueOK'
    <3>1. backlog \in Seq(Client)  BY DEF TimeShape
    <3>2. \A i \in 1..Len(backlog) : backlog[i] # NoClient  BY <3>1, TimeNumbers
    <3>3. \A i \in 1..Len(backlog) : \A g \in ThreadFd : fds'[g] # backlog[i]
      BY <2>3, <3>2 DEF QueueOK
    <3>4. \A i \in 1..Len(backlog) : \A v \in Worker : worker'[v].conn # backlog[i]
      BY <1>4, <3>2 DEF QueueOK
    <3> QED  BY <1>1, <3>3, <3>4 DEF QueueOK
  <2>6. HeldOnce'
    <3>1. ASSUME NEW v \in Worker
          PROVE  Fits(worker[v])' /\ (worker'[v].conn # NoClient => line'[worker'[v].conn] # "new")
      <4>1. CASE v = w  BY <1>1, <1>4, <1>6, <4>1 DEF Fits
      <4>2. CASE v # w  BY <1>1, <1>4, <4>2 DEF HeldOnce, Fits
      <4> QED  BY <4>1, <4>2
    <3>2. \A g, h \in ThreadFd : fds'[g] # NoClient =>
             line'[fds'[g]] # "new" /\ (g # h => fds'[g] # fds'[h])
      BY <1>1, <2>3 DEF HeldOnce
    <3> QED  BY <1>1, <2>2, <3>1, <3>2 DEF HeldOnce
  <2>7. ThreadsOwn'
    <3> SUFFICES ASSUME ~hurried, NEW v \in Worker
                 PROVE  /\ worker'[v].fd # 0 => /\ fds'[worker'[v].fd] # NoClient
                                                /\ \A u \in Worker \ {v} : worker'[u].fd # worker'[v].fd
                        /\ worker'[v].pc = "recv" => worker'[v].fd # 0 /\ worker'[v].conn = fds'[worker'[v].fd]
                        /\ worker'[v].pc = "argv" =>
                              /\ s_c # 0 /\ fds'[s_c] # NoClient
                              /\ \A u \in Worker : worker'[u].fd # s_c /\ (u # v => worker'[u].pc # "argv")
      BY <1>1 DEF ThreadsOwn
    <3>1. CASE v = w  BY <1>4, <3>1
    <3>2. CASE v # w
      <4>1. worker'[v] = worker[v] /\ worker[v].fd # f  BY <1>4, <1>8, <2>2, <3>2 DEF ThreadsOwn, f
      <4>2. worker[v].fd \in ThreadFd \cup {0} /\ s_c \in ThreadFd \cup {0}  BY DEF TimeShape, WorkerShape
      <4>3. worker[v].fd # 0 => /\ fds'[worker[v].fd] # NoClient
                                /\ \A u \in Worker \ {v} : worker'[u].fd # worker[v].fd
        BY <1>4, <2>2, <2>3, <4>1, <4>2 DEF ThreadsOwn
      <4>4. worker[v].pc = "recv" => worker[v].fd # 0 /\ worker[v].conn = fds'[worker[v].fd]
        BY <2>2, <2>3, <4>1, <4>2 DEF ThreadsOwn
      <4>5. worker[v].pc = "argv" =>
               /\ s_c # 0 /\ fds'[s_c] # NoClient
               /\ \A u \in Worker : worker'[u].fd # s_c /\ (u # v => worker'[u].pc # "argv")
        <5>1. ASSUME worker[v].pc = "argv"
              PROVE  /\ s_c # 0 /\ fds[s_c] # NoClient /\ s_c # f
                     /\ \A u \in Worker : worker[u].fd # s_c /\ (u # v => worker[u].pc # "argv")
          BY <2>2, <5>1 DEF ThreadsOwn, f
        <5> QED  BY <1>4, <2>3, <4>2, <5>1
      <4> QED  BY <4>1, <4>3, <4>4, <4>5
    <3> QED  BY <3>1, <3>2
  <2>8. RoomForAll'
    <3>1. Enlisted' = Enlisted /\ Begun' = Begun  BY <1>1, <1>4 DEF Enlisted, Begun
    <3>2. UsedFds' \subseteq UsedFds  BY <2>3 DEF UsedFds
    <3>3. Cardinality(UsedFds') \in Nat /\ Cardinality(UsedFds') <= Cardinality(UsedFds)
      BY <3>2, TimeFinite, FS_Subset, FS_CardinalityType
    <3>4. Len(backlog) \in Nat  BY DEF TimeShape
    <3> QED  BY <1>1, <2>2, <3>1, <3>3, <3>4, TimeFinite DEF RoomForAll
  <2>9. AnsweredOnce'
    <3>1. ASSUME NEW v \in Worker, worker'[v].pc = "send"
          PROVE  worker[v].pc = "send" /\ Conn(v)' \in {Conn(v), NoClient}
      <4>1. v # w  BY <1>4, <3>1
      <4>2. worker'[v] = worker[v] /\ worker[v].fd \in ThreadFd \cup {0}
        BY <1>4, <4>1 DEF TimeShape, WorkerShape
      <4> QED  BY <1>1, <2>2, <2>3, <3>1, <4>2 DEF Conn
    <3> QED  BY <1>1, <2>4, <3>1, AnsweredStays
  <2> QED  BY <1>5, <2>4, <2>5, <2>6, <2>7, <2>8, <2>9
<1> QED  BY <1>7, <1>8

-----------------------------------------------------------------------------

\* The client at the head of the queue is nobody's yet, and was not read.
LEMMA TakeIs ==
    ASSUME TimeInv, Take
    PROVE  LET c == Head(backlog) IN
           /\ c \in Client /\ line[c] # "new" /\ c \notin read
           /\ \A f \in ThreadFd : fds[f] # c
           /\ \A w \in Worker : worker[w].conn # c
           /\ backlog' \in Seq(Client) /\ Len(backlog) \in Nat
           /\ Len(backlog') \in Nat /\ Len(backlog') + 1 = Len(backlog)
           /\ \A i \in 1..Len(backlog') : /\ i + 1 \in 1..Len(backlog) /\ backlog'[i] = backlog[i + 1]
                                          /\ backlog'[i] \in Client /\ backlog'[i] # c
<1> USE DEF TimeInv
<1>1. backlog \in Seq(Client) /\ backlog # <<>> /\ backlog' = Tail(backlog)  BY DEF Take, TimeShape
<1>2. Len(backlog) \in Nat /\ Len(backlog) > 0 /\ Head(backlog) = backlog[1] /\ 1 \in 1..Len(backlog)
  BY <1>1
<1>3. backlog[1] \in Client  BY <1>1, <1>2
<1>4. /\ backlog' \in Seq(Client) /\ Len(backlog') = Len(backlog) - 1
      /\ \A i \in 1..Len(backlog) - 1 : backlog'[i] = backlog[i + 1]
  BY <1>1, <1>2
<1>5. \A i \in 1..Len(backlog) : i # 1 => backlog[i] # backlog[1]  BY <1>2 DEF QueueOK
<1>6. ASSUME NEW i \in 1..Len(backlog')
      PROVE  /\ i + 1 \in 1..Len(backlog) /\ backlog'[i] = backlog[i + 1]
             /\ backlog'[i] \in Client /\ backlog'[i] # backlog[1]
  <2>1. i + 1 \in 1..Len(backlog) /\ i + 1 # 1 /\ backlog'[i] = backlog[i + 1]  BY <1>2, <1>4
  <2> QED  BY <1>4, <1>5, <2>1
<1>7. /\ line[backlog[1]] # "new" /\ backlog[1] \notin read
      /\ \A f \in ThreadFd : fds[f] # backlog[1]
      /\ \A w \in Worker : worker[w].conn # backlog[1]
  BY <1>2 DEF QueueOK
<1> QED  BY <1>2, <1>3, <1>4, <1>6, <1>7

\* The others wait on.
LEMMA QueueShortens ==
    ASSUME TimeInv, Take, line' = line, read' \subseteq read \cup {Head(backlog)},
           \A f \in ThreadFd : fds'[f] \in {fds[f], Head(backlog)},
           \A w \in Worker : worker'[w].conn \in {worker[w].conn, Head(backlog), NoClient}
    PROVE  QueueOK'
<1> DEFINE c == Head(backlog)
<1>1. /\ c \in Client /\ line[c] # "new"
      /\ Len(backlog') \in Nat /\ Len(backlog') + 1 = Len(backlog)
      /\ \A i \in 1..Len(backlog') : /\ i + 1 \in 1..Len(backlog) /\ backlog'[i] = backlog[i + 1]
                                     /\ backlog'[i] \in Client /\ backlog'[i] # c
  BY TakeIs
<1>0. QueueOK  BY DEF TimeInv
<1> HIDE DEF c
<1>2. \A d \in Client : line'[d] = "new" => d \notin read'  BY <1>0, <1>1 DEF QueueOK, c
<1>3. ASSUME NEW i \in 1..Len(backlog')
      PROVE  /\ line'[backlog'[i]] # "new" /\ backlog'[i] \notin read'
             /\ \A f \in ThreadFd : fds'[f] # backlog'[i]
             /\ \A w \in Worker : worker'[w].conn # backlog'[i]
  <2>1. /\ line[backlog'[i]] # "new" /\ backlog'[i] \notin read
        /\ \A f \in ThreadFd : fds[f] # backlog'[i]
        /\ \A w \in Worker : worker[w].conn # backlog'[i]
    BY <1>0, <1>1 DEF QueueOK
  <2> QED  BY <1>1, <2>1, TimeNumbers DEF c
<1>4. ASSUME NEW i \in 1..Len(backlog'), NEW j \in 1..Len(backlog'), i # j
      PROVE  backlog'[i] # backlog'[j]
  <2>1. i + 1 \in 1..Len(backlog) /\ j + 1 \in 1..Len(backlog) /\ i + 1 # j + 1  BY <1>1, <1>4
  <2> QED  BY <1>0, <1>1, <2>1 DEF QueueOK
<1> QED  BY <1>2, <1>3, <1>4 DEF QueueOK

\* A worker that has none takes the client; one that was not begun, from 1 on.
LEMMA TakenBy ==
    ASSUME TimeInv, Take, server # "threadEach", NEW w \in Worker, worker[w].conn = NoClient,
           NEW p \in {"recv", "send"}, Moved(w, p, 0, Head(backlog)),
           UNCHANGED <<server, line, fds, s_c, hurried>>, read' \subseteq read \cup {Head(backlog)}
    PROVE  QueueOK' /\ HeldOnce' /\ ThreadsOwn' /\ RoomForAll'
<1> USE DEF TimeInv
<1> DEFINE c == Head(backlog)
<1>1. /\ c \in Client /\ line[c] # "new" /\ (\A v \in Worker : worker[v].conn # c)
      /\ Len(backlog') \in Nat /\ Len(backlog') + 1 = Len(backlog) /\ Len(backlog) \in Nat
  BY TakeIs
<1>2. /\ worker'[w].pc = p /\ worker'[w].fd = 0 /\ worker'[w].conn = c
      /\ \A v \in Worker \ {w} : worker'[v] = worker[v]
  BY DEF Moved
<1> HIDE DEF c
<1>3. QueueOK'
  <2>1. \A v \in Worker : worker'[v].conn \in {worker[v].conn, Head(backlog), NoClient}
    BY <1>2 DEF c
  <2> QED  BY <2>1, QueueShortens
<1>4. HeldOnce'
  <2>1. ASSUME NEW v \in Worker
        PROVE  Fits(worker[v])' /\ (worker'[v].conn # NoClient => line'[worker'[v].conn] # "new")
    <3>1. CASE v = w  BY <1>1, <1>2, <3>1 DEF Fits, Unbound
    <3>2. CASE v # w  BY <1>2, <3>2 DEF HeldOnce, Fits
    <3> QED  BY <3>1, <3>2
  <2>2. ASSUME NEW v \in Worker, NEW u \in Worker, v # u, worker'[v].conn # NoClient
        PROVE  worker'[v].conn # worker'[u].conn
    <3>1. CASE v = w  BY <1>1, <1>2, <2>2, <3>1
    <3>2. CASE u = w  BY <1>1, <1>2, <2>2, <3>2
    <3>3. CASE v # w /\ u # w  BY <1>2, <2>2, <3>3 DEF HeldOnce
    <3> QED  BY <3>1, <3>2, <3>3
  <2> QED  BY <2>1, <2>2 DEF HeldOnce
<1>5. ThreadsOwn'  BY DEF ThreadsOwn
<1>6. RoomForAll'
  <2>1. Begun' = Begun /\ Enlisted' \subseteq Enlisted \cup {w}
    BY <1>2 DEF Begun, Enlisted
  <2>2. Cardinality(Enlisted') <= Cardinality(Enlisted) + 1 /\ Cardinality(Enlisted') \in Nat
    BY <2>1, TimeFinite, OneMore
  <2> QED  BY <1>1, <2>1, <2>2, TimeFinite DEF RoomForAll
<1> QED  BY <1>3, <1>4, <1>5, <1>6

\* A connection is accepted, by a worker that waits there or is begun for it.
LEMMA AcceptedInv ==
    ASSUME TimeInv, Take, server # "threadEach", NEW w \in Worker, worker[w].conn = NoClient,
           worker' = [worker EXCEPT ![w] = At("recv", Head(backlog))], LockOK',
           UNCHANGED <<server, said, line, answers, fds, s_c, read, hurried>>
    PROVE  TimeInv'
<1> USE DEF TimeInv
<1>1. Head(backlog) \in Client /\ backlog' \in Seq(Client)  BY TakeIs
<1>2. Moved(w, "recv", 0, Head(backlog))
  <2>1. worker' = [worker EXCEPT ![w] = [pc |-> "recv", fd |-> 0, conn |-> Head(backlog)]]  BY DEF At
  <2> QED  BY <1>1, <2>1, MovesTo DEF TimePlaces
<1>3. TimeShape'  BY <1>1, <1>2 DEF TimeShape, Moved
<1>4. QueueOK' /\ HeldOnce' /\ ThreadsOwn' /\ RoomForAll'  BY <1>2, TakenBy
<1>5. AnsweredOnce'
  <2>1. \A v \in Worker \ {w} : worker'[v] = worker[v] /\ Conn(v)' = Conn(v)
    BY <1>2, ConnStays DEF Moved
  <2>2. worker'[w].pc # "send"  BY <1>2 DEF Moved
  <2>3. \A v \in Worker : worker'[v].pc = "send" => worker[v].pc = "send" /\ Conn(v)' = Conn(v)
    BY <2>1, <2>2
  <2> QED  BY <1>3, <2>3, AnsweredStays
<1> QED  BY <1>3, <1>4, <1>5

\* accept, of those that serve what they accept themselves; in 14.3.3 the mutex is
\* given back.
LEMMA AcceptTimeInv ==
    ASSUME TimeInv, server # "threadEach", NEW w \in Worker,
           (server # "pool" /\ Accept(w)) \/ AcceptAndUnlock(w)
    PROVE  TimeInv'
<1> USE DEF TimeInv
<1>1. /\ worker[w].pc = "accept" /\ Take
      /\ worker' = [worker EXCEPT ![w] = At("recv", Head(backlog))]
      /\ UNCHANGED <<server, said, line, answers, fds, s_c, read, hurried>>
      /\ (server # "pool" /\ ALOCK' = ALOCK) \/ ALOCK' = 0
  BY DEF Accept, AcceptAndUnlock, clientvars, threadvars
<1>2. worker[w].conn = NoClient  BY <1>1 DEF HeldOnce, Fits, Unbound
<1>3. LockOK'
  <2>1. CASE ALOCK' = 0  BY <2>1, TimeNumbers DEF LockOK
  <2>2. CASE server # "pool" /\ ALOCK' = ALOCK  BY <1>1, <2>2 DEF LockOK
  <2> QED  BY <1>1, <2>1, <2>2
<1> QED  BY <1>1, <1>2, <1>3, AcceptedInv

\* There is a worker for everyone who waits.
LEMMA FreeWorker ==
    ASSUME TimeInv, Take, server \in {"forkEach", "threadEach"}
    PROVE  NewWorker \in Worker \ {Main} /\ worker[NewWorker].pc = "none"
<1> USE DEF TimeInv
<1> DEFINE free == {w \in Worker \ {Main} : worker[w].pc = "none"}
<1>1. Len(backlog) \in Nat /\ Len(backlog) > 0
  <2>1. Len(backlog') \in Nat /\ Len(backlog') + 1 = Len(backlog)  BY TakeIs
  <2> QED  BY <2>1
<1>2. Cardinality(Enlisted) < Cardinality(Worker \ {Main})
  <2>1. /\ Cardinality(Enlisted) \in Nat /\ Cardinality(Begun) \in Nat
        /\ Cardinality(Begun) <= Cardinality(Client) /\ Cardinality(Client) \in Nat
        /\ Cardinality(Worker \ {Main}) \in Nat /\ Cardinality(Worker \ {Main}) > Cardinality(Client)
    BY TimeFinite, TimeNumbers
  <2>2. Cardinality(Enlisted) + Len(backlog) <= Cardinality(Begun)  BY DEF RoomForAll
  <2> QED  BY <1>1, <2>1, <2>2
<1>3. free # {}
  <2> SUFFICES ASSUME free = {} PROVE FALSE  OBVIOUS
  <2>1. Enlisted = Worker \ {Main}  BY DEF Enlisted
  <2>2. Cardinality(Enlisted) \in Nat  BY TimeFinite
  <2> QED  BY <1>2, <2>1, <2>2
<1>4. free \subseteq Nat  BY TimeNumbers
<1>5. NewWorker = Min(free)  BY DEF NewWorker
<1> HIDE DEF free
<1>6. NewWorker \in free  BY <1>3, <1>4, <1>5, LeastIs
<1> QED  BY <1>6 DEF free

\* 14.3.1 begins a process for the client, or serves it itself.
LEMMA ForkInv == ASSUME TimeInv, server = "forkEach", Fork PROVE TimeInv'
<1> USE DEF TimeInv
<1>1. /\ worker[Main].pc = "accept" /\ Take
      /\ UNCHANGED <<server, said, line, answers, ALOCK, fds, s_c, read, hurried>>
  BY DEF Fork, clientvars, threadvars
<1>2. NewWorker \in Worker /\ worker[NewWorker].pc = "none"  BY <1>1, FreeWorker
<1>3. PICK w \in Worker : /\ worker' = [worker EXCEPT ![w] = At("recv", Head(backlog))]
                          /\ worker[w].pc \in {"none", "accept"}
  BY <1>1, <1>2, TimeNumbers DEF Fork
<1>4. worker[w].conn = NoClient  BY <1>3 DEF HeldOnce, Fits, Unbound
<1>5. LockOK'  BY <1>1 DEF LockOK
<1> QED  BY <1>1, <1>3, <1>4, <1>5, AcceptedInv

-----------------------------------------------------------------------------

\* There is a descriptor for everyone who waits.
LEMMA FreeDescriptor ==
    ASSUME TimeInv, Take, server = "threadEach"
    PROVE  LET f == Min({g \in ThreadFd : fds[g] = NoClient}) IN f \in ThreadFd /\ fds[f] = NoClient
<1> DEFINE free == {g \in ThreadFd : fds[g] = NoClient}
<1>1. Len(backlog) \in Nat /\ Len(backlog) > 0
  <2>1. Len(backlog') \in Nat /\ Len(backlog') + 1 = Len(backlog)  BY TakeIs
  <2> QED  BY <2>1
<1>2. Cardinality(UsedFds) < Cardinality(ThreadFd)
  <2>1. /\ Cardinality(UsedFds) \in Nat /\ Cardinality(Begun) \in Nat /\ Cardinality(Client) \in Nat
        /\ Cardinality(Begun) <= Cardinality(Client) /\ Cardinality(ThreadFd) = Cardinality(Client)
    BY TimeFinite, TimeNumbers
  <2>2. Cardinality(UsedFds) + Len(backlog) <= Cardinality(Begun)  BY DEF TimeInv, RoomForAll
  <2> QED  BY <1>1, <2>1, <2>2
<1>3. free # {}
  <2> SUFFICES ASSUME free = {} PROVE FALSE  OBVIOUS
  <2>1. UsedFds = ThreadFd  BY DEF UsedFds
  <2>2. Cardinality(UsedFds) \in Nat  BY TimeFinite
  <2> QED  BY <1>2, <2>1, <2>2
<1>4. free \subseteq Nat  BY TimeNumbers
<1>5. Min(free) \in free  BY <1>3, <1>4, LeastIs
<1> QED  BY <1>5

\* 14.3.2 accepts a connection, and begins a thread for it, or fails to.
LEMMA AcceptForThreadInv ==
    ASSUME TimeInv, server = "threadEach", AcceptForThread PROVE TimeInv'
<1> USE DEF TimeInv
<1> DEFINE c == Head(backlog)
<1>0. PICK f \in ThreadFd : /\ fds[f] = NoClient /\ fds' = [fds EXCEPT ![f] = c] /\ s_c' = f
  <2>1. Take  BY DEF AcceptForThread
  <2> QED  BY <2>1, FreeDescriptor DEF AcceptForThread
<1>1. /\ Take /\ hurried' = (hurried \/ \E w \in Worker : worker[w].pc = "argv")
      /\ UNCHANGED <<server, said, line, answers, ALOCK, read>>
  BY DEF AcceptForThread, clientvars
<1>2. /\ c \in Client /\ line[c] # "new" /\ (\A g \in ThreadFd : fds[g] # c)
      /\ backlog' \in Seq(Client) /\ Len(backlog) \in Nat
      /\ Len(backlog') \in Nat /\ Len(backlog') + 1 = Len(backlog)
  BY <1>1, TakeIs
<1> HIDE DEF c
<1>3. PICK n \in Worker \ {Main} :
         \/ worker[n].pc = "none" /\ worker' = [worker EXCEPT ![n] = At("argv", NoClient)]
         \/ worker' = worker
  BY <1>1, FreeWorker DEF AcceptForThread
<1>4. /\ worker' \in [Worker -> WorkerShape]
      /\ \A w \in Worker \ {n} : worker'[w] = worker[w]
      /\ \/ worker'[n] = worker[n]
         \/ /\ worker[n].pc = "none" /\ worker'[n].pc = "argv"
            /\ worker'[n].fd = 0 /\ worker'[n].conn = NoClient
  <2>1. CASE worker' = worker  BY <2>1 DEF TimeShape
  <2>2. CASE worker[n].pc = "none" /\ worker' = [worker EXCEPT ![n] = At("argv", NoClient)]
    <3>1. worker' = [worker EXCEPT ![n] = [pc |-> "argv", fd |-> 0, conn |-> NoClient]]
      BY <2>2 DEF At
    <3>2. Moved(n, "argv", 0, NoClient)  BY <3>1, MovesTo DEF TimePlaces
    <3> QED  BY <2>2, <3>2 DEF Moved
  <2> QED  BY <1>3, <2>1, <2>2
<1>5. /\ fds'[f] = c /\ (\A g \in ThreadFd \ {f} : fds'[g] = fds[g])
      /\ fds' \in [ThreadFd -> Client \cup {NoClient}]
  BY <1>0, <1>2 DEF TimeShape
<1>6. TimeShape'
  <2>1. hurried' \in BOOLEAN  BY <1>1 DEF TimeShape
  <2> QED  BY <1>0, <1>1, <1>2, <1>4, <1>5, <2>1 DEF TimeShape
<1>7. LockOK'  BY <1>1 DEF LockOK
<1>8. QueueOK'
  <2>1. \A g \in ThreadFd : fds'[g] \in {fds[g], Head(backlog)}  BY <1>5 DEF c
  <2>2. \A w \in Worker : worker'[w].conn \in {worker[w].conn, Head(backlog), NoClient}  BY <1>4
  <2> QED  BY <1>1, <2>1, <2>2, QueueShortens
<1>9. HeldOnce'
  <2>1. ASSUME NEW w \in Worker
        PROVE  Fits(worker[w])' /\ (worker'[w].conn # NoClient => line'[worker'[w].conn] # "new")
    <3>1. CASE worker'[w] = worker[w]  BY <1>1, <3>1 DEF HeldOnce, Fits
    <3>2. CASE worker'[w].pc = "argv" /\ worker'[w].fd = 0 /\ worker'[w].conn = NoClient
      BY <1>1, <3>2 DEF Fits
    <3> QED  BY <1>4, <3>1, <3>2
  <2>2. \A g, h \in ThreadFd : fds'[g] # NoClient =>
           line'[fds'[g]] # "new" /\ (g # h => fds'[g] # fds'[h])
    BY <1>1, <1>2, <1>5 DEF HeldOnce
  <2> QED  BY <1>1, <2>1, <2>2 DEF HeldOnce
<1>10. ThreadsOwn'
  <2> SUFFICES ASSUME ~hurried', NEW w \in Worker
               PROVE  /\ worker'[w].fd # 0 => /\ fds'[worker'[w].fd] # NoClient
                                              /\ \A u \in Worker \ {w} : worker'[u].fd # worker'[w].fd
                      /\ worker'[w].pc = "recv" => worker'[w].fd # 0 /\ worker'[w].conn = fds'[worker'[w].fd]
                      /\ worker'[w].pc = "argv" =>
                            /\ s_c' # 0 /\ fds'[s_c'] # NoClient
                            /\ \A u \in Worker : worker'[u].fd # s_c' /\ (u # w => worker'[u].pc # "argv")
    BY DEF ThreadsOwn
  <2>1. ~hurried /\ \A u \in Worker : worker[u].pc # "argv"  BY <1>1
  <2>2. \A u \in Worker : worker[u].fd \in ThreadFd \cup {0} /\ worker[u].fd # f
    <3>1. \A u \in Worker : worker[u].fd \in ThreadFd \cup {0}  BY DEF TimeShape, WorkerShape
    <3>2. \A u \in Worker : worker[u].fd # 0 => fds[worker[u].fd] # NoClient
      BY <2>1 DEF ThreadsOwn
    <3> QED  BY <1>0, <3>1, <3>2, TimeNumbers
  <2>3. \A u \in Worker : worker'[u].fd \in {worker[u].fd, 0}  BY <1>4
  <2>4. f # 0 /\ c # NoClient  BY <1>2, TimeNumbers
  <2>5. \A u \in Worker : worker'[u].fd # f  BY <2>2, <2>3, <2>4
  <2>6. worker'[w].fd # 0 => /\ fds'[worker'[w].fd] # NoClient
                             /\ \A u \in Worker \ {w} : worker'[u].fd # worker'[w].fd
    <3>1. CASE worker'[w] = worker[w]
      <4>1. worker[w].fd # 0 => /\ fds[worker[w].fd] # NoClient
                                /\ \A u \in Worker \ {w} : worker[u].fd # worker[w].fd
        BY <2>1 DEF ThreadsOwn
      <4>2. worker[w].fd # 0 => fds'[worker[w].fd] = fds[worker[w].fd]  BY <1>5, <2>2
      <4> QED  BY <2>3, <3>1, <4>1, <4>2
    <3>2. CASE worker'[w].fd = 0  BY <3>2
    <3> QED  BY <1>4, <3>1, <3>2
  <2>7. worker'[w].pc = "recv" => worker'[w].fd # 0 /\ worker'[w].conn = fds'[worker'[w].fd]
    <3>1. CASE worker'[w] = worker[w]
      <4>1. worker[w].pc = "recv" => worker[w].fd # 0 /\ worker[w].conn = fds[worker[w].fd]
        BY <2>1 DEF ThreadsOwn
      <4>2. worker[w].fd # 0 => fds'[worker[w].fd] = fds[worker[w].fd]  BY <1>5, <2>2
      <4> QED  BY <3>1, <4>1, <4>2
    <3>2. CASE worker'[w].pc = "argv"  BY <3>2
    <3> QED  BY <1>4, <3>1, <3>2
  <2>8. worker'[w].pc = "argv" => \A u \in Worker \ {w} : worker'[u].pc # "argv"
    <3>1. worker'[w].pc = "argv" => w = n  BY <1>4, <2>1
    <3> QED  BY <1>4, <2>1, <3>1
  <2> QED  BY <1>0, <1>5, <2>4, <2>5, <2>6, <2>7, <2>8
<1>11. RoomForAll'
  <2>1. Begun' = Begun /\ Enlisted' \subseteq Enlisted \cup {n} /\ UsedFds' \subseteq UsedFds \cup {f}
    BY <1>1, <1>4, <1>5 DEF Begun, Enlisted, UsedFds
  <2>2. Cardinality(Enlisted') \in Nat /\ Cardinality(Enlisted') <= Cardinality(Enlisted) + 1
    BY <2>1, TimeFinite, OneMore
  <2>3. Cardinality(UsedFds') \in Nat /\ Cardinality(UsedFds') <= Cardinality(UsedFds) + 1
    BY <2>1, TimeFinite, OneMore
  <2>4. /\ Cardinality(Enlisted) + Len(backlog) <= Cardinality(Begun)
        /\ Cardinality(UsedFds) + Len(backlog) <= Cardinality(Begun)
    BY DEF RoomForAll
  <2>5. /\ Cardinality(Enlisted') + Len(backlog') <= Cardinality(Begun)
        /\ Cardinality(UsedFds') + Len(backlog') <= Cardinality(Begun)
    BY <1>2, <2>2, <2>3, <2>4, TimeFinite
  <2> QED  BY <2>1, <2>5 DEF RoomForAll
<1>12. AnsweredOnce'
  <2>1. hurried => hurried'  BY <1>1
  <2>2. ASSUME ~hurried', NEW w \in Worker, worker'[w].pc = "send"
        PROVE  worker[w].pc = "send" /\ Conn(w)' \in {Conn(w), NoClient}
    <3>1. worker'[w] = worker[w]  BY <1>4, <2>2
    <3>2. worker[w].fd \in ThreadFd \cup {0}  BY DEF TimeShape, WorkerShape
    <3>3. worker[w].fd # 0 => fds[worker[w].fd] # NoClient  BY <2>1, <2>2 DEF ThreadsOwn
    <3>4. worker[w].fd # 0 => worker[w].fd # f  BY <1>0, <3>3
    <3>5. Conn(w)' = Conn(w)  BY <1>1, <1>5, <3>1, <3>2, <3>4 DEF Conn
    <3> QED  BY <2>2, <3>1, <3>5
  <2> QED  BY <1>1, <1>6, <2>1, <2>2, AnsweredStays
<1> QED  BY <1>6, <1>7, <1>8, <1>9, <1>10, <1>11, <1>12

-----------------------------------------------------------------------------

\* 14.1.1 and 14.2.2 take a datagram, and answer it or not.
LEMMA RecvFromInv == ASSUME TimeInv, server \in Udp, NEW w \in Worker, RecvFrom(w) PROVE TimeInv'
<1> USE DEF TimeInv
<1> DEFINE c == Head(backlog)
<1>1. /\ worker[w].pc = "accept" /\ Take /\ read' = read \cup {c}
      /\ worker' = IF said[c] = "TIME" THEN [worker EXCEPT ![w] = At("send", c)] ELSE worker
      /\ UNCHANGED <<server, said, line, answers, ALOCK, fds, s_c, hurried>>
  BY DEF RecvFrom, clientvars, threadvars
<1>2. /\ c \in Client /\ line[c] # "new" /\ c \notin read
      /\ backlog' \in Seq(Client) /\ Len(backlog) \in Nat
      /\ Len(backlog') \in Nat /\ Len(backlog') + 1 = Len(backlog)
  BY <1>1, TakeIs
<1>3. server \notin {"forkEach", "threadEach", "pool"}  BY DEF Udp
<1>4. worker[w].conn = NoClient  BY <1>1 DEF HeldOnce, Fits, Unbound
<1>5. read' \subseteq Client /\ read \subseteq read'  BY <1>1, <1>2 DEF TimeShape
<1>6. LockOK'  BY <1>1, <1>3 DEF LockOK
<1>7. CASE said[c] = "TIME"
  <2>1. worker' = [worker EXCEPT ![w] = [pc |-> "send", fd |-> 0, conn |-> c]]
    BY <1>1, <1>7 DEF At
  <2>2. Moved(w, "send", 0, c)  BY <1>2, <2>1, MovesTo DEF TimePlaces
  <2>3. TimeShape'  BY <1>1, <1>2, <1>5, <2>2 DEF TimeShape, Moved
  <2>4. QueueOK' /\ HeldOnce' /\ ThreadsOwn' /\ RoomForAll'
    BY <1>1, <1>3, <1>4, <2>2, TakenBy
  <2>5. Conn(w)' = c /\ \A v \in Worker \ {w} : worker'[v] = worker[v] /\ Conn(v)' = Conn(v)
    <3>1. worker'[w].conn = c /\ \A v \in Worker \ {w} : worker'[v] = worker[v]  BY <2>2 DEF Moved
    <3> QED  BY <1>1, <1>3, <3>1 DEF Conn
  <2>6. AnsweredOnce'  BY <1>1, <1>2, <1>7, <2>5, AboutToAnswer
  <2> QED  BY <1>6, <2>3, <2>4, <2>6
<1>8. CASE said[c] # "TIME"
  <2>1. worker' = worker  BY <1>1, <1>8
  <2>2. TimeShape'  BY <1>1, <1>2, <1>5, <2>1 DEF TimeShape
  <2>3. QueueOK'
    <3>1. \A v \in Worker : worker'[v].conn = worker[v].conn  BY <2>1
    <3>2. \A f \in ThreadFd : fds'[f] = fds[f]  BY <1>1
    <3> QED  BY <1>1, <3>1, <3>2, QueueShortens
  <2>4. HeldOnce'  BY <1>1, <2>1 DEF HeldOnce, Fits
  <2>5. ThreadsOwn' /\ RoomForAll'  BY <1>1, <1>3 DEF ThreadsOwn, RoomForAll
  <2>6. AnsweredOnce'
    <3>1. \A v \in Worker : worker'[v].pc = worker[v].pc /\ Conn(v)' = Conn(v)  BY <1>1, <2>1 DEF Conn
    <3> QED  BY <1>1, <1>5, <2>2, <3>1, AnsweredStays
  <2> QED  BY <1>6, <2>2, <2>3, <2>4, <2>5, <2>6
<1> QED  BY <1>7, <1>8

-----------------------------------------------------------------------------

\* Each program keeps the invariant, whichever of its workers moves.
LEMMA ServeInv == ASSUME TimeInv, NEW w \in Worker, Serve(w) PROVE TimeInv'
<1>1. CASE server = "iterative" /\ Iterative(w)
  BY <1>1, AcceptTimeInv, RecvInv, SendInv, CloseInv DEF Iterative, ServeClient
<1>2. CASE server = "prefork" /\ Prefork(w)
  BY <1>2, AcceptTimeInv, RecvInv, SendInv, CloseInv DEF Prefork, ServeClient
<1>3. CASE server = "forkEach" /\ ForkEach(w)
  <2>1. ASSUME CloseThen(w, IF w = Main THEN "over" ELSE "dead") PROVE TimeInv'
    <3>1. PICK p \in {"dead", "over"} : CloseThen(w, p)  BY <2>1
    <3> QED  BY <1>3, <3>1, CloseInv
  <2> QED  BY <1>3, <2>1, ForkInv, RecvInv, SendInv DEF ForkEach, ServeClient
<1>4. CASE server = "threadEach" /\ ThreadEach(w)
  BY <1>4, AcceptForThreadInv, ArgvInv, RecvInv, SendInv, CloseInv DEF ThreadEach, ServeClient
<1>5. CASE server = "pool" /\ Pool(w)
  BY <1>5, LockInv, AcceptTimeInv, RecvInv, SendInv, CloseInv DEF Pool, ServeClient
<1>6. CASE server \in Udp /\ (OneSocket(w) \/ SharedSocket(w))
  BY <1>6, RecvFromInv, SendToInv DEF OneSocket, SharedSocket
<1> QED  BY <1>1, <1>2, <1>3, <1>4, <1>5, <1>6 DEF Serve, Udp

\* And so does everything that can happen.
LEMMA TimeNextInv == TimeInv /\ [TimeNext]_timevars => TimeInv'
<1> SUFFICES ASSUME TimeInv, [TimeNext]_timevars PROVE TimeInv'  OBVIOUS
<1>1. ASSUME NEW w \in Worker, Serve(w) PROVE TimeInv'  BY <1>1, ServeInv
<1>2. ASSUME UNCHANGED <<server, said, line, backlog, answers, worker, ALOCK, fds, s_c, read, hurried>>
      PROVE  TimeInv'
  <2>1. TimeShape' /\ LockOK' /\ ThreadsOwn' /\ QueueOK'
    BY <1>2 DEF TimeInv, TimeShape, LockOK, ThreadsOwn, QueueOK
  <2>2. HeldOnce'  BY <1>2 DEF TimeInv, HeldOnce, Fits
  <2>3. RoomForAll'  BY <1>2 DEF TimeInv, RoomForAll, Enlisted, UsedFds, Begun
  <2>4. AnsweredOnce'  BY <1>2 DEF TimeInv, AnsweredOnce, AskedAndRead, Conn
  <2> QED  BY <2>1, <2>2, <2>3, <2>4 DEF TimeInv
<1>3. CASE Interrupt  BY <1>2, <1>3 DEF Interrupt, clientvars, threadvars
<1>4. ASSUME NEW c \in Client,
             TimeConnect(c) \/ TimeLeave(c) \/ \E what \in {"TIME", "other"} : TimeSpeak(c, what)
      PROVE  TimeInv'
  BY <1>4, TimeClientInv
<1>5. CASE UNCHANGED timevars  BY <1>2, <1>5 DEF timevars
<1> QED  BY <1>1, <1>3, <1>4, <1>5 DEF TimeNext

\* EachServesItsOwn, for any number of clients, processes and threads: in each of the
\* seven servers nobody is sent the time that has not asked for it, or is sent it
\* twice, and no two workers have one connection; in 14.3.2 as long as no connection
\* is accepted before the thread of the one before has read s_c.
THEOREM EachServesItsOwnAlways == TimeSpec => []EachServesItsOwn
<1>1. TimeInv => EachServesItsOwn
  <2> SUFFICES ASSUME TimeInv PROVE EachServesItsOwn  OBVIOUS
  <2>1. TimeTypeOK
    <3>1. \A i \in DOMAIN backlog : backlog[i] \in Client
      <4>1. backlog \in Seq(Client)  BY DEF TimeInv, TimeShape
      <4> QED  BY <4>1
    <3>2. ALOCK \in {0} \cup {w \in Worker : worker[w].pc = "accept"}
      BY DEF TimeInv, LockOK
    <3> QED  BY <3>1, <3>2 DEF TimeInv, TimeShape, WorkerShape, TimeTypeOK
  <2>2. OnlyTheAskerIsAnswered
    BY DEF TimeInv, AnsweredOnce, AskedAndRead, OnlyTheAskerIsAnswered
  <2>3. OneThreadPerClient  BY OneConn DEF OneThreadPerClient
  <2> QED  BY <2>1, <2>2, <2>3 DEF EachServesItsOwn
<1> QED  BY <1>1, TimeInitInv, TimeNextInv, PTL DEF TimeSpec

-----------------------------------------------------------------------------
(* SelectServer: the inductive invariant.                                  *)

Cleared == CLIENTNUM \div SizeOfInt     \* slots that memset reached

\* The clients that stand in the table or have.
Known == InTable \cup {c \in SelectClient : phase[c] = "served"}

HandlerShape ==
    [pc: {"select", "scan", "load", "store"}, scanfd: SUBSET (SelectClient \cup {Stdin}),
     i: 0..CLIENTNUM, read: Int]

SelectShape ==
    /\ connect_host \in [Slot -> SelectClient \cup {Empty, Stdin}]
    /\ phase \in [SelectClient -> {"new", "open", "TIME", "other", "served"}]
    /\ connect_number \in Int /\ refused \in 0..MaxRefused
    /\ acceptor \in [pc: {"accept", "load", "store"}, read: Int]
    /\ handler \in HandlerShape

NoneTwice ==
    \A i, j \in Slot : connect_host[i] \in SelectClient /\ i # j => connect_host[i] # connect_host[j]

\* Until something is typed, what memset did not reach holds the standard input.
StdinStays ==
    ~typed => /\ Stdin \notin handler.scanfd
              /\ \A i \in Slot : i > Cleared => connect_host[i] = Stdin

\* Between its load and its store a thread finds the count at most as the other
\* left it: handle_connect's may be too high, handle_request's too low.
NotAbove ==
    /\ connect_number + (IF acceptor.pc # "accept" THEN 1 ELSE 0) <= Cardinality(Known) + refused
    /\ acceptor.pc = "store" =>
          connect_number <= acceptor.read /\ acceptor.read + 1 <= Cardinality(Known) + refused
    /\ handler.pc = "store" => handler.read <= connect_number

\* A scan begins with a count above zero, and lowers it once a slot at most.
NotBelow ==
    LET low == IF handler.pc = "select" THEN CLIENTNUM
               ELSE IF handler.pc = "scan" THEN handler.i ELSE handler.i - 1 IN
    /\ connect_number >= 1 - low
    /\ handler.pc = "store" => handler.read >= 1 - low

SelectInv ==
    /\ SelectShape /\ NoneTwice /\ StdinStays /\ CountIsClients /\ NotAbove /\ NotBelow

-----------------------------------------------------------------------------

\* The bounds of the table are numbers.
LEMMA SelectNumbers ==
    /\ CLIENTNUM \in Nat /\ SizeOfInt \in Nat /\ 1 <= CLIENTNUM /\ 1 <= SizeOfInt
    /\ MaxRefused \in Nat
    /\ IsFiniteSet(SelectClient) /\ Empty \notin SelectClient /\ Stdin \notin SelectClient /\ Empty # Stdin
BY SelectAssumption

\* memset reaches a number of slots.
LEMMA ClearedIsNumber == Cleared \in Nat /\ Cleared <= CLIENTNUM
<1>1. ASSUME NEW a \in Nat, NEW b \in Nat, 1 <= b PROVE a \div b \in Nat /\ a \div b <= a  BY <1>1
<1> QED  BY <1>1, SelectNumbers DEF Cleared

\* The clients known are finitely many.
LEMMA KnownFinite ==
    /\ IsFiniteSet(InTable) /\ Cardinality(InTable) \in Nat
    /\ IsFiniteSet(Known) /\ Cardinality(Known) \in Nat /\ Cardinality(Known) <= Cardinality(SelectClient)
    /\ Cardinality(SelectClient) \in Nat
<1>1. InTable \subseteq SelectClient /\ Known \subseteq SelectClient  BY DEF InTable, Known
<1> QED  BY <1>1, SelectNumbers, FS_Subset, FS_CardinalityType

\* So are the slots that still hold the standard input.
LEMMA StdinLeftFinite == IsFiniteSet(StdinLeft) /\ Cardinality(StdinLeft) \in Nat
<1>1. IsFiniteSet(1..CLIENTNUM)  BY SelectNumbers, FS_Interval
<1>2. StdinLeft \subseteq 1..CLIENTNUM  BY DEF StdinLeft, Slot
<1> QED  BY <1>1, <1>2, FS_Subset, FS_CardinalityType

\* A step that leaves the table and the clients served alone leaves both sets.
LEMMA KnownStays ==
    ASSUME connect_host' = connect_host,
           \A c \in SelectClient : phase'[c] = "served" <=> phase[c] = "served"
    PROVE  InTable' = InTable /\ Known' = Known /\ StdinLeft' = StdinLeft
<1>1. InTable' = InTable /\ StdinLeft' = StdinLeft  BY DEF InTable, StdinLeft
<1> QED  BY <1>1 DEF Known

\* What handle_request changes of its own variables: where its scan begins, the
\* slot it has emptied, the count it has read.
ScanFrom(h, S) == [h EXCEPT !.pc = "scan", !.scanfd = S, !.i = 0]
Emptied(h, m) == [h EXCEPT !.pc = "load", !.i = m]
HasRead(h, p, n) == [h EXCEPT !.pc = p, !.read = n]
LEMMA HandlerMoves ==
    ASSUME NEW h \in HandlerShape
    PROVE  /\ \A S \in SUBSET (SelectClient \cup {Stdin}) :
                ScanFrom(h, S) \in HandlerShape /\ ScanFrom(h, S).pc = "scan"
                /\ ScanFrom(h, S).scanfd = S /\ ScanFrom(h, S).i = 0
           /\ \A m \in 0..CLIENTNUM :
                Emptied(h, m) \in HandlerShape /\ Emptied(h, m).pc = "load"
                /\ Emptied(h, m).scanfd = h.scanfd /\ Emptied(h, m).i = m
           /\ \A p \in {"scan", "store"}, n \in Int :
                HasRead(h, p, n) \in HandlerShape /\ HasRead(h, p, n).pc = p
                /\ HasRead(h, p, n).scanfd = h.scanfd /\ HasRead(h, p, n).i = h.i
                /\ HasRead(h, p, n).read = n
<1>0. 0 \in 0..CLIENTNUM  BY SelectNumbers
<1>1. ASSUME NEW S \in SUBSET (SelectClient \cup {Stdin})
      PROVE  ScanFrom(h, S) \in HandlerShape /\ ScanFrom(h, S).pc = "scan"
             /\ ScanFrom(h, S).scanfd = S /\ ScanFrom(h, S).i = 0
  BY <1>0 DEF ScanFrom, HandlerShape
<1>2. ASSUME NEW m \in 0..CLIENTNUM
      PROVE  Emptied(h, m) \in HandlerShape /\ Emptied(h, m).pc = "load"
             /\ Emptied(h, m).scanfd = h.scanfd /\ Emptied(h, m).i = m
  BY DEF Emptied, HandlerShape
<1>3. ASSUME NEW p \in {"scan", "store"}, NEW n \in Int
      PROVE  HasRead(h, p, n) \in HandlerShape /\ HasRead(h, p, n).pc = p
             /\ HasRead(h, p, n).scanfd = h.scanfd /\ HasRead(h, p, n).i = h.i
             /\ HasRead(h, p, n).read = n
  BY DEF HasRead, HandlerShape
<1> QED  BY <1>1, <1>2, <1>3

\* A descriptor put into a free slot is in the table.
LEMMA PutIn ==
    ASSUME SelectShape, NoneTwice, NEW c \in SelectClient, c \notin InTable,
           NEW m \in Slot, connect_host[m] = Empty, connect_host' = [connect_host EXCEPT ![m] = c]
    PROVE  InTable' = InTable \cup {c} /\ NoneTwice' /\ StdinLeft' = StdinLeft
<1>1. connect_host'[m] = c /\ \A i \in Slot \ {m} : connect_host'[i] = connect_host[i]
  BY DEF SelectShape, HandlerShape
<1>2. \A i \in Slot : connect_host[i] # c  BY DEF InTable
<1>3. Empty \notin SelectClient  BY SelectNumbers
<1>4. InTable' = InTable \cup {c}  BY <1>1, <1>3 DEF InTable
<1>5. NoneTwice'  BY <1>1, <1>2 DEF NoneTwice
<1>6. StdinLeft' = StdinLeft  BY <1>1, SelectNumbers DEF StdinLeft
<1> QED  BY <1>4, <1>5, <1>6

\* A slot that is cleared takes its client, if it holds one, out of the table.
LEMMA TakeOut ==
    ASSUME SelectShape, NoneTwice, NEW m \in Slot, connect_host' = [connect_host EXCEPT ![m] = Empty]
    PROVE  /\ InTable' = InTable \ {connect_host[m]} /\ NoneTwice'
           /\ StdinLeft' = StdinLeft \ {m}
<1>1. connect_host'[m] = Empty /\ \A i \in Slot \ {m} : connect_host'[i] = connect_host[i]
  BY DEF SelectShape, HandlerShape
<1>2. Empty \notin SelectClient  BY SelectNumbers
<1>3. InTable' = InTable \ {connect_host[m]}
  <2>1. ASSUME NEW x \in InTable' PROVE x \in InTable \ {connect_host[m]}
    <3>1. PICK i \in Slot : connect_host'[i] = x /\ x \in SelectClient  BY DEF InTable
    <3>2. i # m /\ connect_host[i] = x  BY <1>1, <1>2, <3>1
    <3> QED  BY <3>1, <3>2 DEF InTable, NoneTwice
  <2>2. ASSUME NEW x \in InTable, x # connect_host[m] PROVE x \in InTable'
    <3>1. PICK i \in Slot : connect_host[i] = x /\ x \in SelectClient  BY DEF InTable
    <3>2. connect_host'[i] = x  BY <1>1, <2>2, <3>1
    <3> QED  BY <3>1, <3>2 DEF InTable
  <2> QED  BY <2>1, <2>2
<1>4. NoneTwice'  BY <1>1, <1>2 DEF NoneTwice
<1>5. StdinLeft' = StdinLeft \ {m}  BY <1>1, SelectNumbers DEF StdinLeft
<1> QED  BY <1>3, <1>4, <1>5

-----------------------------------------------------------------------------

\* The table that main clears with memset.
LEMMA SelectInitInv == SelectInit => SelectInv
<1> SUFFICES ASSUME SelectInit PROVE SelectInv  OBVIOUS
<1>1. SelectShape  BY SelectNumbers, ClearedIsNumber DEF SelectInit, SelectShape, HandlerShape, Slot, Cleared
<1>2. InTable = {}  BY SelectNumbers DEF SelectInit, InTable, Cleared
<1>3. NoneTwice  BY <1>2 DEF NoneTwice, InTable
<1>4. StdinStays  BY ClearedIsNumber DEF SelectInit, StdinStays, Cleared, Slot
<1>5. Cardinality(InTable) = 0  BY <1>2, FS_EmptySet
<1>6. CountIsClients
  <2>1. StdinLeft = Cleared + 1..CLIENTNUM
    BY ClearedIsNumber, SelectNumbers DEF SelectInit, StdinLeft, Slot, Cleared
  <2>2. Cardinality(Cleared + 1..CLIENTNUM) = CLIENTNUM - Cleared
    <3>1. Cleared + 1 \in Int /\ CLIENTNUM \in Int /\ Cleared <= CLIENTNUM
      BY ClearedIsNumber, SelectNumbers
    <3>2. Cardinality(Cleared + 1..CLIENTNUM)
            = IF Cleared + 1 > CLIENTNUM THEN 0 ELSE CLIENTNUM - (Cleared + 1) + 1
      BY <3>1, FS_Interval
    <3> QED  BY <3>1, <3>2, ClearedIsNumber
  <2>3. CLIENTNUM - Cleared - Cardinality(StdinLeft) = 0
    BY <2>1, <2>2, ClearedIsNumber, SelectNumbers
  <2> QED  BY <1>5, <2>3 DEF SelectInit, CountIsClients, Cleared
<1>7. NotAbove /\ NotBelow  BY KnownFinite, SelectNumbers DEF SelectInit, NotAbove, NotBelow
<1> QED  BY <1>1, <1>3, <1>4, <1>6, <1>7 DEF SelectInv

\* What clients and the terminal do touches neither the table nor the count.
LEMMA SelectOutside ==
    ASSUME SelectInv, UNCHANGED <<connect_host, connect_number, acceptor, handler, refused, lost>>,
           phase' \in [SelectClient -> {"new", "open", "TIME", "other", "served"}],
           \A c \in SelectClient : phase'[c] = "served" <=> phase[c] = "served",
           typed => typed'
    PROVE  SelectInv'
<1> USE DEF SelectInv
<1>1. InTable' = InTable /\ Known' = Known /\ StdinLeft' = StdinLeft  BY KnownStays
<1>2. SelectShape' /\ NoneTwice' /\ StdinStays'  BY DEF SelectShape, NoneTwice, StdinStays
<1>3. CountIsClients'  BY <1>1 DEF CountIsClients
<1>4. NotAbove' /\ NotBelow'  BY <1>1 DEF NotAbove, NotBelow
<1> QED  BY <1>2, <1>3, <1>4

\* handle_connect puts what it accepted into the first free slot.
LEMMA AcceptOneInv == ASSUME SelectInv, NEW c \in SelectClient, AcceptOne(c) PROVE SelectInv'
<1> USE DEF SelectInv
<1>1. /\ acceptor.pc = "accept" /\ c \notin InTable /\ phase[c] # "served"
      /\ UNCHANGED <<connect_number, phase, given, typed, handler, refused, lost>>
  BY DEF AcceptOne, Pending, Accepted
<1>2. CASE Free = {}
  <2>1. UNCHANGED <<connect_host, acceptor>>  BY <1>2 DEF AcceptOne
  <2> QED  BY <1>1, <2>1, SelectOutside DEF SelectShape, HandlerShape
<1>3. CASE Free # {}
  <2> DEFINE m == Min(Free)
  <2>1. connect_host' = [connect_host EXCEPT ![m] = c] /\ acceptor' = [acceptor EXCEPT !.pc = "load"]
    BY <1>3 DEF AcceptOne
  <2>2. m \in Slot /\ connect_host[m] = Empty
    <3>1. Free \subseteq Nat  BY DEF Free, Slot
    <3>2. m \in Free  BY <1>3, <3>1, LeastIs
    <3> QED  BY <3>2 DEF Free
  <2> HIDE DEF m
  <2>3. InTable' = InTable \cup {c} /\ NoneTwice' /\ StdinLeft' = StdinLeft
    BY <1>1, <2>1, <2>2, PutIn
  <2>4. Known' = Known \cup {c} /\ c \notin Known  BY <1>1, <2>3 DEF Known
  <2>5. Cardinality(InTable') = Cardinality(InTable) + 1 /\ Cardinality(Known') = Cardinality(Known) + 1
    BY <1>1, <2>3, <2>4, KnownFinite, FS_AddElement
  <2>6. acceptor'.pc = "load" /\ acceptor' \in [pc: {"accept", "load", "store"}, read: Int]
    BY <2>1 DEF SelectShape, HandlerShape
  <2>7. SelectShape'  BY <1>1, <2>1, <2>2, <2>6 DEF SelectShape, HandlerShape
  <2>8. StdinStays'  BY <1>1, <2>1, <2>2, SelectNumbers DEF StdinStays, SelectShape
  <2>9. CountIsClients'
    <3> SUFFICES ASSUME ~lost PROVE CountIsClients'  BY <1>1 DEF CountIsClients
    <3>1. CLIENTNUM - Cleared - Cardinality(StdinLeft) \in Int
      BY ClearedIsNumber, StdinLeftFinite, SelectNumbers
    <3>2. connect_number = Cardinality(InTable) + refused - (CLIENTNUM - Cleared - Cardinality(StdinLeft))
                           + (IF handler.pc \in {"load", "store"} THEN 1 ELSE 0)
      BY <1>1, <3>1, KnownFinite DEF CountIsClients, Cleared, SelectShape
    <3>3. connect_number = Cardinality(InTable') + refused - (CLIENTNUM - Cleared - Cardinality(StdinLeft))
                           - 1 + (IF handler.pc \in {"load", "store"} THEN 1 ELSE 0)
      BY <2>5, <3>1, <3>2, KnownFinite DEF SelectShape
    <3> QED  BY <1>1, <2>3, <2>6, <3>3 DEF CountIsClients, Cleared
  <2>10. NotAbove'  BY <1>1, <2>5, <2>6, KnownFinite DEF NotAbove, SelectShape
  <2>11. NotBelow'  BY <1>1 DEF NotBelow
  <2> QED  BY <2>3, <2>7, <2>8, <2>9, <2>10, <2>11
<1> QED  BY <1>2, <1>3

\* An accept that fails is counted like one that does not.
LEMMA RefusedInv == ASSUME SelectInv, AcceptRefused PROVE SelectInv'
<1> USE DEF SelectInv
<1>1. /\ acceptor.pc = "accept" /\ refused' = refused + 1 /\ refused < MaxRefused
      /\ acceptor' = [acceptor EXCEPT !.pc = "load"]
      /\ UNCHANGED <<connect_host, connect_number, phase, typed, handler, lost>>
  BY DEF AcceptRefused
<1>2. InTable' = InTable /\ Known' = Known /\ StdinLeft' = StdinLeft  BY <1>1, KnownStays
<1>3. acceptor'.pc = "load" /\ acceptor' \in [pc: {"accept", "load", "store"}, read: Int]
  BY <1>1 DEF SelectShape
<1>4. refused \in Int /\ refused' \in 0..MaxRefused  BY <1>1, SelectNumbers DEF SelectShape
<1>5. SelectShape' /\ NoneTwice' /\ StdinStays'
  BY <1>1, <1>3, <1>4 DEF SelectShape, NoneTwice, StdinStays
<1>6. CountIsClients'
  <2> SUFFICES ASSUME ~lost PROVE CountIsClients'  BY <1>1 DEF CountIsClients
  <2> DEFINE k == CLIENTNUM - Cleared - Cardinality(StdinLeft)
             n == Cardinality(InTable)
             h == IF handler.pc \in {"load", "store"} THEN 1 ELSE 0
  <2>1. k \in Int /\ n \in Int /\ h \in Int
    BY ClearedIsNumber, StdinLeftFinite, KnownFinite, SelectNumbers
  <2>2. connect_number = n + refused - k - 0 + h  BY <1>1 DEF CountIsClients, Cleared
  <2> HIDE DEF k, n, h
  <2>3. connect_number = n + (refused + 1) - k - 1 + h  BY <1>4, <2>1, <2>2
  <2>4. connect_number' = n + refused' - k - 1 + h  BY <1>1, <2>3
  <2> QED  BY <1>1, <1>2, <1>3, <2>4 DEF CountIsClients, Cleared, k, n, h
<1>7. NotAbove'
  BY <1>1, <1>2, <1>3, <1>4, KnownFinite DEF NotAbove, SelectShape
<1>8. NotBelow'  BY <1>1 DEF NotBelow
<1> QED  BY <1>5, <1>6, <1>7, <1>8

\* A step that changes the count or what the threads have read of it.
LEMMA CountStep ==
    ASSUME SelectInv, UNCHANGED <<connect_host, phase, typed, refused>>,
           connect_number' \in Int, acceptor' \in [pc: {"accept", "load", "store"}, read: Int],
           handler' \in HandlerShape,
           Stdin \in handler'.scanfd => Stdin \in handler.scanfd \/ typed,
           CountIsClients', NotAbove', NotBelow'
    PROVE  SelectInv'
<1>1. SelectShape' /\ NoneTwice' /\ StdinStays'  BY DEF SelectInv, SelectShape, NoneTwice, StdinStays
<1> QED  BY <1>1 DEF SelectInv

\* handle_connect counts its client.
LEMMA IncInv == ASSUME SelectInv, IncLoad \/ IncStore PROVE SelectInv'
<1> USE DEF SelectInv
<1>1. /\ UNCHANGED <<connect_host, phase, typed, handler, refused>>
      /\ acceptor' \in [pc: {"accept", "load", "store"}, read: Int] /\ connect_number' \in Int
  BY DEF IncLoad, IncStore, SelectShape
<1>2. InTable' = InTable /\ Known' = Known /\ StdinLeft' = StdinLeft  BY <1>1, KnownStays
<1>3. Cardinality(Known) \in Nat /\ Cardinality(InTable) \in Nat  BY KnownFinite
<1>4. /\ handler.i \in Int /\ handler.read \in Int /\ acceptor.read \in Int /\ connect_number \in Int
      /\ CLIENTNUM \in Nat /\ refused \in Int
  BY SelectNumbers DEF SelectShape, HandlerShape
<1>5. CASE IncLoad
  <2>1. acceptor.pc = "load" /\ acceptor' = [pc |-> "store", read |-> connect_number]
        /\ UNCHANGED <<connect_number, lost>>
    BY <1>5 DEF IncLoad
  <2>2. CountIsClients'  BY <1>1, <1>2, <2>1 DEF CountIsClients
  <2>3. NotAbove' /\ NotBelow'  BY <1>1, <1>2, <1>3, <1>4, <2>1 DEF NotAbove, NotBelow
  <2> QED  BY <1>1, <2>2, <2>3, CountStep DEF SelectShape, HandlerShape
<1>6. CASE IncStore
  <2>1. /\ acceptor.pc = "store" /\ acceptor' = [pc |-> "accept", read |-> 0]
        /\ connect_number' = acceptor.read + 1
        /\ lost' = (lost \/ handler.pc = "store" \/ connect_number # acceptor.read)
    BY <1>6 DEF IncStore
  <2>2. CountIsClients'
    <3> SUFFICES ASSUME ~lost' PROVE CountIsClients'  BY DEF CountIsClients
    <3> DEFINE k == CLIENTNUM - Cleared - Cardinality(StdinLeft)
               n == Cardinality(InTable)
    <3>1. ~lost /\ connect_number = acceptor.read /\ ~(handler.pc = "store")  BY <2>1
    <3>2. k \in Int /\ n \in Int
      BY <1>3, ClearedIsNumber, StdinLeftFinite, SelectNumbers
    <3>3. connect_number = n + refused - k - 1 + (IF handler.pc \in {"load", "store"} THEN 1 ELSE 0)
      BY <2>1, <3>1 DEF CountIsClients, Cleared
    <3> HIDE DEF k, n
    <3>4. connect_number' = n + refused - k - 0 + (IF handler.pc \in {"load", "store"} THEN 1 ELSE 0)
      BY <1>4, <2>1, <3>1, <3>2, <3>3
    <3>5. acceptor'.pc = "accept"  BY <2>1
    <3> QED  BY <1>1, <1>2, <3>4, <3>5 DEF CountIsClients, Cleared, k, n
  <2>3. NotAbove'  BY <1>1, <1>2, <1>3, <1>4, <2>1 DEF NotAbove
  <2>4. NotBelow'  BY <1>1, <1>4, <2>1 DEF NotBelow, NotAbove
  <2> QED  BY <1>1, <2>2, <2>3, <2>4, CountStep DEF SelectShape, HandlerShape
<1> QED  BY <1>5, <1>6

\* A turn of handle_request finds the readable descriptors.
LEMMA SelectReady == ASSUME SelectInv, Select PROVE SelectInv'
<1> USE DEF SelectInv
<1> DEFINE ready == {d \in {connect_host[i] : i \in Slot} \ {Empty} : Readable(d)}
<1>1. /\ handler.pc = "select" /\ connect_number > 0
      /\ handler' = [handler EXCEPT !.pc = "scan", !.scanfd = ready, !.i = 0]
      /\ UNCHANGED <<connect_host, connect_number, phase, typed, acceptor, refused, lost>>
  BY DEF Select
<1>2. ready \subseteq SelectClient \cup {Stdin} /\ (Stdin \in ready => typed)
  BY DEF SelectShape, HandlerShape, Readable
<1> HIDE DEF ready
<1>3. /\ handler'.pc = "scan" /\ handler'.i = 0 /\ handler'.scanfd = ready
      /\ handler' \in HandlerShape
  <2>1. handler \in HandlerShape /\ 0 \in 0..CLIENTNUM /\ ready \in SUBSET (SelectClient \cup {Stdin})
    BY <1>2, SelectNumbers DEF SelectShape, HandlerShape
  <2>2. handler' = ScanFrom(handler, ready)  BY <1>1 DEF ScanFrom
  <2> QED  BY <2>1, <2>2, HandlerMoves
<1>4. InTable' = InTable /\ Known' = Known /\ StdinLeft' = StdinLeft  BY <1>1, KnownStays
<1>5. CountIsClients'  BY <1>1, <1>3, <1>4 DEF CountIsClients
<1>6. NotAbove'  BY <1>1, <1>3, <1>4 DEF NotAbove
<1>7. NotBelow'  BY <1>1, <1>3 DEF NotBelow, SelectShape, HandlerShape
<1> QED  BY <1>1, <1>2, <1>3, <1>5, <1>6, <1>7, CountStep DEF SelectShape, HandlerShape

\* handle_request serves a slot and empties it.
LEMMA HandleSlotInv == ASSUME SelectInv, HandleSlot PROVE SelectInv'
<1> USE DEF SelectInv
<1> DEFINE m == Min(Hit)
           d == connect_host[m]
<1>1. /\ handler.pc = "scan" /\ Hit # {}
      /\ connect_host' = [connect_host EXCEPT ![m] = Empty]
      /\ handler' = [handler EXCEPT !.pc = "load", !.i = m]
      /\ UNCHANGED <<connect_number, typed, acceptor, refused, lost>>
  BY DEF HandleSlot
<1>2. m \in Slot /\ m > handler.i /\ d \in handler.scanfd
  <2>1. Hit \subseteq Nat  BY DEF Hit, Slot
  <2>2. m \in Hit  BY <1>1, <2>1, LeastIs
  <2> QED  BY <2>2 DEF Hit
<1>3. IF d = Stdin THEN phase' = phase ELSE phase' = [phase EXCEPT ![d] = "served"]
  BY DEF HandleSlot
<1> HIDE DEF m
<1>4. d \in SelectClient \cup {Stdin}  BY <1>2 DEF SelectShape, HandlerShape
<1>5. InTable' = InTable \ {d} /\ NoneTwice' /\ StdinLeft' = StdinLeft \ {m}
  BY <1>1, <1>2, TakeOut
<1> HIDE DEF d
<1>6. /\ handler'.pc = "load" /\ handler'.i = m /\ handler'.scanfd = handler.scanfd
      /\ handler' \in HandlerShape
  <2>1. handler \in HandlerShape /\ m \in 0..CLIENTNUM
    BY <1>2, SelectNumbers DEF SelectShape, Slot
  <2>2. handler' = Emptied(handler, m)  BY <1>1 DEF Emptied
  <2> QED  BY <2>1, <2>2, HandlerMoves
<1>7. SelectShape'
  <2>1. phase' \in [SelectClient -> {"new", "open", "TIME", "other", "served"}]
    BY <1>3, <1>4 DEF SelectShape, HandlerShape
  <2>2. connect_host' \in [Slot -> SelectClient \cup {Empty, Stdin}]
    BY <1>1, <1>2 DEF SelectShape
  <2> QED  BY <1>1, <1>6, <2>1, <2>2 DEF SelectShape, HandlerShape
<1>8. Known' = Known
  <2>1. CASE d = Stdin
    <3>1. d \notin SelectClient  BY <2>1, SelectNumbers
    <3>2. InTable' = InTable /\ phase' = phase  BY <1>3, <1>5, <2>1, <3>1 DEF InTable
    <3> QED  BY <3>2 DEF Known
  <2>2. CASE d # Stdin
    <3>1. d \in SelectClient /\ phase' = [phase EXCEPT ![d] = "served"]  BY <1>3, <1>4, <2>2
    <3>2. d \in InTable  BY <1>2, <3>1 DEF InTable, d
    <3>3. \A c \in SelectClient : phase'[c] = "served" <=> (phase[c] = "served" \/ c = d)
      BY <3>1 DEF SelectShape, HandlerShape
    <3> QED  BY <1>5, <3>1, <3>2, <3>3 DEF Known
  <2> QED  BY <2>1, <2>2
<1>9. StdinStays'
  <2> SUFFICES ASSUME ~typed PROVE Stdin \notin handler.scanfd
                                   /\ \A i \in Slot : i > Cleared => connect_host'[i] = Stdin
    BY <1>1, <1>6 DEF StdinStays
  <2>1. Stdin \notin handler.scanfd /\ d # Stdin  BY <1>2 DEF StdinStays
  <2>2. ~(m > Cleared)  BY <1>2, <2>1 DEF StdinStays, d
  <2> QED  BY <1>1, <1>2, <2>1, <2>2 DEF StdinStays, SelectShape
<1>10. CountIsClients'
  <2> SUFFICES ASSUME ~lost PROVE CountIsClients'  BY <1>1 DEF CountIsClients
  <2> DEFINE k == CLIENTNUM - Cleared
             n == Cardinality(InTable)
             l == Cardinality(StdinLeft)
             a == IF acceptor.pc # "accept" THEN 1 ELSE 0
  <2>1. k \in Int /\ n \in Int /\ l \in Int /\ a \in Int /\ refused \in Int
    BY ClearedIsNumber, StdinLeftFinite, KnownFinite, SelectNumbers DEF SelectShape
  <2>2. connect_number = n + refused - (k - l) - a + 0  BY <1>1 DEF CountIsClients, Cleared
  <2>3. Cardinality(InTable') + Cardinality(StdinLeft') = n + l - 1
        /\ Cardinality(InTable') \in Int /\ Cardinality(StdinLeft') \in Int
    <3>1. CASE d = Stdin
      <4>1. InTable' = InTable  BY <1>5, <3>1, SelectNumbers DEF InTable
      <4>2. m \in StdinLeft  BY <1>2, <3>1 DEF StdinLeft, d
      <4>3. Cardinality(StdinLeft') = l - 1  BY <1>5, <4>2, StdinLeftFinite, FS_RemoveElement
      <4> QED  BY <2>1, <4>1, <4>3
    <3>2. CASE d # Stdin
      <4>1. d \in InTable  BY <1>2, <1>4, <3>2 DEF InTable, d
      <4>2. Cardinality(InTable') = n - 1  BY <1>5, <4>1, KnownFinite, FS_RemoveElement
      <4>3. StdinLeft' = StdinLeft  BY <1>5, <3>2 DEF StdinLeft, d
      <4> QED  BY <2>1, <4>2, <4>3
    <3> QED  BY <3>1, <3>2
  <2> HIDE DEF k, n, l, a
  <2>4. connect_number = Cardinality(InTable') + refused - (k - Cardinality(StdinLeft')) - a + 1
    <3>1. PICK x \in Int : x = Cardinality(InTable')  BY <2>3
    <3>2. PICK y \in Int : y = Cardinality(StdinLeft')  BY <2>3
    <3>3. x + y = n + l - 1  BY <2>3, <3>1, <3>2
    <3>4. n + refused - (k - l) - a + 0 = x + refused - (k - y) - a + 1  BY <2>1, <3>3
    <3> QED  BY <2>2, <3>1, <3>2, <3>4
  <2>5. /\ (IF acceptor'.pc # "accept" THEN 1 ELSE 0) = a
        /\ (IF handler'.pc \in {"load", "store"} THEN 1 ELSE 0) = 1
    BY <1>1, <1>6 DEF a
  <2>6. connect_number' = connect_number /\ refused' = refused  BY <1>1
  <2>7. connect_number' = Cardinality(InTable') + refused'
                          - (CLIENTNUM - CLIENTNUM \div SizeOfInt - Cardinality(StdinLeft'))
                          - (IF acceptor'.pc # "accept" THEN 1 ELSE 0)
                          + (IF handler'.pc \in {"load", "store"} THEN 1 ELSE 0)
    BY <2>4, <2>5, <2>6, Zenon DEF Cleared, k
  <2> QED  BY <2>7 DEF CountIsClients
<1>11. NotAbove'  BY <1>1, <1>6, <1>8 DEF NotAbove
<1>12. NotBelow'
  <2>1. m \in Int /\ handler.i \in Int /\ connect_number \in Int /\ connect_number >= 1 - handler.i
    BY <1>1, <1>2 DEF NotBelow, SelectShape, HandlerShape, Slot
  <2> QED  BY <1>1, <1>2, <1>6, <2>1 DEF NotBelow
<1> QED  BY <1>5, <1>7, <1>9, <1>10, <1>11, <1>12

\* handle_request discounts the client, and goes on to the end of the table.
LEMMA DecInv == ASSUME SelectInv, DecLoad \/ DecStore \/ TableEnds PROVE SelectInv'
<1> USE DEF SelectInv
<1>1. /\ UNCHANGED <<connect_host, phase, typed, acceptor, refused>>
      /\ connect_number' \in Int
  <2>1. handler.read - 1 \in Int /\ connect_number \in Int  BY DEF SelectShape, HandlerShape
  <2> QED  BY <2>1 DEF DecLoad, DecStore, TableEnds
<1>2. InTable' = InTable /\ Known' = Known /\ StdinLeft' = StdinLeft  BY <1>1, KnownStays
<1>3. Cardinality(Known) \in Nat /\ Cardinality(InTable) \in Nat  BY KnownFinite
<1>4. /\ handler.i \in Int /\ handler.i <= CLIENTNUM /\ handler.read \in Int /\ acceptor.read \in Int
      /\ connect_number \in Int /\ CLIENTNUM \in Nat /\ refused \in Int
  BY SelectNumbers DEF SelectShape, HandlerShape
<1>8. handler \in HandlerShape /\ 0 \in Int /\ connect_number \in Int
  BY SelectNumbers DEF SelectShape, HandlerShape
<1>5. CASE DecLoad
  <2>1. handler.pc = "load" /\ handler' = [handler EXCEPT !.pc = "store", !.read = connect_number]
        /\ UNCHANGED <<connect_number, lost>>
    BY <1>5 DEF DecLoad
  <2>2. /\ handler'.pc = "store" /\ handler'.read = connect_number /\ handler'.i = handler.i
        /\ handler'.scanfd = handler.scanfd
        /\ handler' \in HandlerShape
    <3>1. handler' = HasRead(handler, "store", connect_number)  BY <2>1 DEF HasRead
    <3> QED  BY <1>8, <3>1, HandlerMoves
  <2>3. CountIsClients'  BY <1>1, <1>2, <2>1, <2>2 DEF CountIsClients
  <2>4. NotAbove' /\ NotBelow'  BY <1>1, <1>2, <1>3, <1>4, <2>1, <2>2 DEF NotAbove, NotBelow
  <2> QED  BY <1>1, <2>2, <2>3, <2>4, CountStep DEF SelectShape, HandlerShape
<1>6. CASE DecStore
  <2>1. /\ handler.pc = "store" /\ handler' = [handler EXCEPT !.pc = "scan", !.read = 0]
        /\ connect_number' = handler.read - 1
        /\ lost' = (lost \/ acceptor.pc = "store" \/ connect_number # handler.read)
    BY <1>6 DEF DecStore
  <2>2. /\ handler'.pc = "scan" /\ handler'.i = handler.i /\ handler'.scanfd = handler.scanfd
        /\ handler' \in HandlerShape
    <3>1. handler' = HasRead(handler, "scan", 0)  BY <2>1 DEF HasRead
    <3> QED  BY <1>8, <3>1, HandlerMoves
  <2>3. CountIsClients'
    <3> SUFFICES ASSUME ~lost' PROVE CountIsClients'  BY DEF CountIsClients
    <3> DEFINE k == CLIENTNUM - Cleared - Cardinality(StdinLeft)
               n == Cardinality(InTable)
               a == IF acceptor.pc # "accept" THEN 1 ELSE 0
    <3>1. ~lost /\ connect_number = handler.read  BY <2>1
    <3>2. k \in Int /\ n \in Int /\ a \in Int /\ refused \in Int
      BY <1>3, ClearedIsNumber, StdinLeftFinite, SelectNumbers DEF SelectShape
    <3>3. connect_number = n + refused - k - a + 1  BY <2>1, <3>1 DEF CountIsClients, Cleared
    <3> HIDE DEF k, n, a
    <3>4. connect_number' = n + refused - k - a + 0  BY <1>4, <2>1, <3>1, <3>2, <3>3
    <3>5. /\ (IF acceptor'.pc # "accept" THEN 1 ELSE 0) = a
          /\ (IF handler'.pc \in {"load", "store"} THEN 1 ELSE 0) = 0
      BY <1>1, <2>2 DEF a
    <3>6. Cardinality(InTable') = n /\ refused' = refused
          /\ CLIENTNUM - CLIENTNUM \div SizeOfInt - Cardinality(StdinLeft') = k
      BY <1>1, <1>2 DEF Cleared, k, n
    <3>7. connect_number' = Cardinality(InTable') + refused'
                            - (CLIENTNUM - CLIENTNUM \div SizeOfInt - Cardinality(StdinLeft'))
                            - (IF acceptor'.pc # "accept" THEN 1 ELSE 0)
                            + (IF handler'.pc \in {"load", "store"} THEN 1 ELSE 0)
      BY <3>4, <3>5, <3>6, Zenon
    <3> QED  BY <3>7 DEF CountIsClients
  <2>4. NotAbove'  BY <1>1, <1>2, <1>3, <1>4, <2>1, <2>2 DEF NotAbove
  <2>5. NotBelow'  BY <1>4, <2>1, <2>2 DEF NotBelow
  <2> QED  BY <1>1, <2>2, <2>3, <2>4, <2>5, CountStep DEF SelectShape, HandlerShape
<1>7. CASE TableEnds
  <2>1. /\ handler.pc = "scan" /\ UNCHANGED <<connect_number, lost>>
        /\ handler' = [pc |-> "select", scanfd |-> {}, i |-> 0, read |-> 0]
    BY <1>7 DEF TableEnds
  <2>2. handler' \in HandlerShape
    BY <1>4, <2>1 DEF HandlerShape
  <2>3. CountIsClients'  BY <1>1, <1>2, <2>1 DEF CountIsClients
  <2>4. NotAbove' /\ NotBelow'  BY <1>1, <1>2, <1>3, <1>4, <2>1 DEF NotAbove, NotBelow
  <2> QED  BY <1>1, <2>1, <2>2, <2>3, <2>4, CountStep DEF SelectShape, HandlerShape
<1> QED  BY <1>5, <1>6, <1>7

\* Every step keeps the invariant.
LEMMA SelectNextInv == SelectInv /\ [SelectNext]_selectvars => SelectInv'
<1> SUFFICES ASSUME SelectInv, [SelectNext]_selectvars PROVE SelectInv'  OBVIOUS
<1>1. CASE HandleConnect  BY <1>1, IncInv, AcceptOneInv, RefusedInv DEF HandleConnect
<1>2. CASE HandleRequest  BY <1>2, SelectReady, HandleSlotInv, DecInv DEF HandleRequest
<1>3. CASE TypeLine
  <2>1. UNCHANGED <<connect_host, connect_number, phase, acceptor, handler, refused, lost>> /\ ~typed
    BY <1>3 DEF TypeLine
  <2> QED  BY <2>1, SelectOutside DEF SelectInv, SelectShape
<1>4. ASSUME NEW c \in SelectClient, NEW what \in {"TIME", "other"}, SelectConnect(c) \/ SelectSpeak(c, what)
      PROVE  SelectInv'
  <2>1. UNCHANGED <<connect_host, connect_number, acceptor, handler, refused, lost, typed>>
    BY <1>4 DEF SelectConnect, SelectSpeak
  <2>2. PICK to \in {"open", "TIME", "other"} :
            phase[c] \in {"new", "open"} /\ phase' = [phase EXCEPT ![c] = to]
    BY <1>4 DEF SelectConnect, SelectSpeak
  <2>3. /\ phase' \in [SelectClient -> {"new", "open", "TIME", "other", "served"}]
        /\ \A x \in SelectClient : phase'[x] = "served" <=> phase[x] = "served"
    BY <2>2 DEF SelectInv, SelectShape
  <2> QED  BY <2>1, <2>3, SelectOutside
<1>5. CASE UNCHANGED selectvars
  <2>1. UNCHANGED <<connect_host, connect_number, phase, acceptor, handler, refused, lost, typed>>
    BY <1>5 DEF selectvars
  <2> QED  BY <2>1, SelectOutside DEF SelectInv, SelectShape
<1>6. (\E c \in SelectClient : SelectConnect(c)) => SelectInv'  BY <1>4
<1>7. (\E c \in SelectClient : \E what \in {"TIME", "other"} : SelectSpeak(c, what)) => SelectInv'  BY <1>4
<1> QED  BY <1>1, <1>2, <1>3, <1>5, <1>6, <1>7 DEF SelectNext

\* The two threads of 14.4.2 keep connect_number the number of clients in
\* connect_host, plus the accepts that failed and less the slots that standard input
\* has left (give or take what each is about to change), unless a change was lost, and
\* never let a client stand in two slots: for any number of clients and slots.
THEOREM SelectTableStaysSound == SelectSpec => []SelectTableSound
<1>1. SelectInv => SelectTableSound
  <2> SUFFICES ASSUME SelectInv PROVE SelectTableSound  OBVIOUS
  <2> USE DEF SelectInv
  <2>1. connect_number \in -CLIENTNUM..Cardinality(SelectClient) + MaxRefused
    <3>1. connect_number <= Cardinality(SelectClient) + MaxRefused
      BY KnownFinite, SelectNumbers DEF NotAbove, SelectShape
    <3>2. connect_number >= -CLIENTNUM
      <4>1. handler.i \in Int /\ handler.i <= CLIENTNUM /\ CLIENTNUM \in Nat /\ connect_number \in Int
        BY SelectNumbers DEF SelectShape, HandlerShape
      <4> QED  BY <4>1 DEF NotBelow
    <3>3. connect_number \in Int /\ CLIENTNUM \in Nat /\ Cardinality(SelectClient) \in Nat
          /\ MaxRefused \in Nat
      BY KnownFinite, SelectNumbers DEF SelectShape
    <3> QED  BY <3>1, <3>2, <3>3
  <2>2. SelectTypeOK  BY <2>1 DEF SelectTypeOK, SelectShape, HandlerShape
  <2>3. TableHoldsEachOnce
    <3> SUFFICES ASSUME ~typed PROVE Cardinality(InTable) <= Cleared
      BY DEF TableHoldsEachOnce, NoneTwice, Cleared
    <3> DEFINE S == {i \in 1..Cleared : i \in Slot /\ connect_host[i] \in SelectClient}
               f == [i \in S |-> connect_host[i]]
    <3>1. IsFiniteSet(1..Cleared) /\ Cardinality(1..Cleared) = Cleared
      <4>1. 1 \in Int /\ Cleared \in Int /\ Cleared >= 0  BY ClearedIsNumber
      <4>2. IsFiniteSet(1..Cleared) /\ Cardinality(1..Cleared) = IF 1 > Cleared THEN 0 ELSE Cleared - 1 + 1
        BY <4>1, FS_Interval
      <4> QED  BY <4>1, <4>2
    <3>2. IsFiniteSet(S) /\ Cardinality(S) <= Cleared  BY <3>1, FS_Subset
    <3>3. f \in Surjection(S, InTable)
      <4>1. f \in [S -> InTable]  BY DEF InTable
      <4>2. \A x \in InTable : \E i \in S : f[i] = x
        <5> SUFFICES ASSUME NEW x \in InTable PROVE \E i \in S : f[i] = x  OBVIOUS
        <5>1. PICK i \in Slot : connect_host[i] = x /\ x \in SelectClient  BY DEF InTable
        <5>2. i \in 1..Cleared  BY <5>1, SelectNumbers, ClearedIsNumber DEF StdinStays, Slot
        <5> QED  BY <5>1, <5>2
      <4> QED  BY <4>1, <4>2 DEF Surjection
    <3>4. Cardinality(InTable) <= Cardinality(S)  BY <3>2, <3>3, FS_Surjection
    <3>5. Cardinality(S) \in Nat  BY <3>2, FS_CardinalityType
    <3> QED  BY <3>2, <3>4, <3>5, KnownFinite, ClearedIsNumber
  <2> QED  BY <2>2, <2>3 DEF SelectTableSound
<1> QED  BY SelectInitInv, SelectNextInv, <1>1, PTL DEF SelectSpec

-----------------------------------------------------------------------------
(* ReuseServer: the inductive invariant.                                   *)

Word == {"text", "exit", "urg"}
Before == {"new", "queued", "refused"}      \* a client that is not yet served

ScanShape ==
    [pc: {"select", "scan", "over", "killed"}, readfds: SUBSET (0..BACKLOG),
     exceptionfds: SUBSET (1..BACKLOG), change: 0..2 * BACKLOG + 1, fd: Nat, maxfd: 0..BACKLOG]

ReuseShape ==
    /\ program \in Program
    /\ isconnect \in [ReuseFd -> BOOLEAN]
    /\ accepted \in [ReuseFd -> ReuseClient \cup {NoReuse}]
    /\ select \in ScanShape
    /\ peer \in [ReuseClient -> Before \cup {"ask", "wait", "bye"} \cup Gone]
    /\ toServer \in [ReuseClient -> Seq(Word)]
    /\ urged \subseteq ReuseClient
    /\ toClient \in [ReuseClient -> Nat] /\ spoken \in [ReuseClient -> Nat]

\* What the scan has still to come to is open.
ScanIsOpen ==
    select.pc = "scan" =>
        \A f \in ReuseFd : f \in select.readfds \cup select.exceptionfds /\ select.fd <= f
                           => accepted[f] # NoReuse

\* Only clients that were accepted have a descriptor,
NotYetAccepted == \A c \in ReuseClient : peer[c] \in Before => \A f \in ReuseFd : accepted[f] # c

\* or have said anything.  Whatever a client has said is unread, or answered at most
\* once; one that sends nothing urgent waits for the answer before it speaks again,
\* so that nothing of it is left to be read when it is answered after it has gone.
Owed(c) ==
    /\ peer[c] \in Before => toServer[c] = <<>> /\ toClient[c] = 0 /\ c \notin urged
    /\ Len(toServer[c]) + toClient[c] <= spoken[c] /\ spoken[c] <= MaxSaid[c]
    /\ c \notin urged /\ program # "slower" =>
          /\ Len(toServer[c]) + toClient[c] <= (IF peer[c] = "ask" THEN 0 ELSE 1)
          /\ peer[c] = "broken" => toServer[c] = <<>>

ReuseInv ==
    /\ ReuseShape /\ TableIsOpenDescriptors /\ ScanIsOpen /\ NotYetAccepted
    /\ \A c \in ReuseClient : Owed(c)
    /\ OnlyUrgentKills

\* The greatest of numbers that have a bound.
LEMMA GreatestIs ==
    ASSUME NEW n \in Nat, NEW S, S \subseteq 0..n, S # {}
    PROVE  Max(S) \in S /\ \A y \in S : Max(S) >= y
<1> DEFINE T == {n - x : x \in S}
<1>1. T \subseteq Nat /\ T # {}
  <2>1. \A x \in S : n - x \in Nat  OBVIOUS
  <2> QED  BY <2>1
<1> HIDE DEF T
<1>2. Min(T) \in T /\ \A y \in T : Min(T) <= y  BY <1>1, LeastIs
<1>3. PICK x \in S : n - x = Min(T)  BY <1>2 DEF T
<1>4. \A y \in S : x >= y
  <2>1. ASSUME NEW y \in S PROVE x >= y
    <3>1. n - y \in T /\ x \in Nat /\ y \in Nat  BY DEF T
    <3>2. n - x <= n - y  BY <1>2, <1>3, <3>1
    <3> QED  BY <3>1, <3>2
  <2> QED  BY <2>1
<1>5. \E m \in S : \A y \in S : m >= y  BY <1>4
<1> QED  BY <1>5 DEF Max

-----------------------------------------------------------------------------

\* The bounds of the servers with a table.
LEMMA ReuseNumbers ==
    /\ BACKLOG \in Nat /\ 1 <= BACKLOG /\ ReuseFd = 1..BACKLOG
    /\ NoReuse \notin ReuseClient /\ \A c \in ReuseClient : MaxSaid[c] \in Nat
BY ReuseAssumption DEF ReuseFd

\* What the loop changes of its own variables.
WithoutUrgent(s, f) == [s EXCEPT !.exceptionfds = @ \ {f}, !.change = @ - 1]
Behind(s, f, marks) == [s EXCEPT !.readfds = marks, !.change = @ - 1, !.fd = f + 1]
LeftOut(s) == [s EXCEPT !.readfds = {}, !.exceptionfds = {}]
EndedBy(s, p) == [s EXCEPT !.pc = p]

\* It takes one descriptor off those with urgent data,
LEMMA UrgentMoves ==
    ASSUME NEW s \in ScanShape, s.change > 0, NEW f
    PROVE  /\ WithoutUrgent(s, f) \in ScanShape /\ WithoutUrgent(s, f).pc = s.pc
           /\ WithoutUrgent(s, f).readfds = s.readfds /\ WithoutUrgent(s, f).fd = s.fd
           /\ WithoutUrgent(s, f).exceptionfds = s.exceptionfds \ {f}
<1>1. s.change - 1 \in 0..2 * BACKLOG + 1  BY ReuseNumbers DEF ScanShape
<1>2. s.exceptionfds \ {f} \in SUBSET (1..BACKLOG)  BY DEF ScanShape
<1> QED  BY <1>1, <1>2 DEF WithoutUrgent, ScanShape

\* goes on behind one,
LEMMA BehindMoves ==
    ASSUME NEW s \in ScanShape, s.change > 0, NEW f \in 0..BACKLOG, NEW marks \in SUBSET (0..BACKLOG)
    PROVE  /\ Behind(s, f, marks) \in ScanShape /\ Behind(s, f, marks).pc = s.pc
           /\ Behind(s, f, marks).readfds = marks /\ Behind(s, f, marks).fd = f + 1
           /\ Behind(s, f, marks).exceptionfds = s.exceptionfds
<1>1. s.change - 1 \in 0..2 * BACKLOG + 1 /\ f + 1 \in Nat  BY ReuseNumbers DEF ScanShape
<1> QED  BY <1>1 DEF Behind, ScanShape

\* leaves out the rest, or ends.
LEMMA LoopMoves ==
    ASSUME NEW s \in ScanShape
    PROVE  /\ LeftOut(s) \in ScanShape /\ LeftOut(s).pc = s.pc
           /\ LeftOut(s).readfds = {} /\ LeftOut(s).exceptionfds = {}
           /\ \A p \in {"over", "killed"} : EndedBy(s, p) \in ScanShape /\ EndedBy(s, p).pc = p
<1>1. /\ LeftOut(s) \in ScanShape /\ LeftOut(s).pc = s.pc
      /\ LeftOut(s).readfds = {} /\ LeftOut(s).exceptionfds = {}
  BY DEF LeftOut, ScanShape
<1>2. ASSUME NEW p \in {"over", "killed"}
      PROVE  EndedBy(s, p) \in ScanShape /\ EndedBy(s, p).pc = p
  BY DEF EndedBy, ScanShape
<1> QED  BY <1>1, <1>2

\* A read that finds bytes takes one of them at least, and all if none is urgent.
LEMMA ReadBytesIs ==
    ASSUME NEW c \in ReuseClient, toServer[c] \in Seq(Word), toServer[c] # <<>>
    PROVE  LET left == SubSeq(toServer[c], ReadBytes(c) + 1, Len(toServer[c])) IN
           /\ left \in Seq(Word) /\ Len(left) < Len(toServer[c])
           /\ Len(toServer[c]) = 1 => left = <<>>
<1> DEFINE s == toServer[c]
           urgent == {i \in 1..Len(s) : s[i] = "urg"}
           k == ReadBytes(c)
<1>1. s \in Seq(Word) /\ Len(s) \in Nat /\ Len(s) > 0  OBVIOUS
<1>2. k \in 1..Len(s)
  <2>1. CASE urgent = {}
    <3>1. k = Len(s)  BY <2>1 DEF ReadBytes, SelectInSeq
    <3> QED  BY <1>1, <3>1
  <2>2. CASE urgent # {}
    <3>0. urgent \subseteq Nat  BY <1>1
    <3> HIDE DEF urgent
    <3>1. Min(urgent) \in urgent  BY <2>2, <3>0, LeastIs
    <3> USE DEF urgent
    <3>2. Min(urgent) # 0 /\ Min(urgent) \in 1..Len(s)  BY <3>1
    <3>3. k = Min(urgent)  BY <2>2, <3>2 DEF ReadBytes, SelectInSeq
    <3> QED  BY <3>2, <3>3
  <2> QED  BY <2>1, <2>2
<1> HIDE DEF k, s
<1>3. /\ SubSeq(s, k + 1, Len(s)) \in Seq(Word)
      /\ Len(SubSeq(s, k + 1, Len(s))) = Len(s) - k
  BY <1>1, <1>2
<1>4. Len(s) = 1 => Len(SubSeq(s, k + 1, Len(s))) = 0  BY <1>1, <1>2, <1>3
<1>5. Len(s) = 1 => SubSeq(s, k + 1, Len(s)) = <<>>  BY <1>3, <1>4
<1> QED  BY <1>1, <1>2, <1>3, <1>5 DEF k, s

\* What is known of the descriptor that the scan has come to.
LEMMA ScanAt ==
    ASSUME ReuseInv, NEW f, AtMarked(f)
    PROVE  /\ f \in 0..BACKLOG /\ select.pc = "scan" /\ select.change > 0 /\ select.fd <= f
           /\ f \in ReuseFd => accepted[f] \in ReuseClient
<1> USE DEF ReuseInv
<1>1. select.pc = "scan" /\ select.change > 0 /\ Marked # {} /\ f = Min(Marked)
  BY DEF AtMarked, Scanning, NextFd
<1>2. Marked \subseteq 0..BACKLOG /\ Marked \subseteq Nat
  BY ReuseNumbers DEF Marked, ReuseShape, ScanShape
<1>3. f \in Marked  BY <1>1, <1>2, LeastIs
<1>4. f \in select.readfds \cup select.exceptionfds /\ select.fd <= f  BY <1>3 DEF Marked
<1>5. f \in ReuseFd => accepted[f] # NoReuse  BY <1>1, <1>4 DEF ScanIsOpen
<1> QED  BY <1>1, <1>2, <1>3, <1>4, <1>5 DEF ReuseShape

-----------------------------------------------------------------------------

\* At first nobody is accepted and nothing is said.
LEMMA ReuseInitInv == ReuseInit => ReuseInv
<1> SUFFICES ASSUME ReuseInit PROVE ReuseInv  OBVIOUS
<1> USE ReuseNumbers DEF ReuseInit
<1>1. ReuseShape
  <2>1. select \in ScanShape  BY DEF ScanShape
  <2> QED  BY <2>1 DEF ReuseShape, Before, Gone
<1>2. TableIsOpenDescriptors /\ ScanIsOpen /\ NotYetAccepted /\ OnlyUrgentKills
  BY DEF TableIsOpenDescriptors, ScanIsOpen, NotYetAccepted, OnlyUrgentKills
<1>3. \A c \in ReuseClient : Owed(c)  BY DEF Owed
<1> QED  BY <1>1, <1>2, <1>3 DEF ReuseInv

\* A step of which a client has no part leaves what it is owed.
LEMMA OwedStays ==
    ASSUME NEW c, Owed(c), program' = program, peer'[c] = peer[c], toServer'[c] = toServer[c],
           toClient'[c] = toClient[c], spoken'[c] = spoken[c], c \in urged' <=> c \in urged
    PROVE  Owed(c)'
BY DEF Owed

\* What a client does concerns that client alone, and not its descriptor.
LEMMA ClientAlone ==
    ASSUME ReuseInv, UNCHANGED <<program, isconnect, accepted, select, refusedEarly>>, ReuseShape',
           NEW c \in ReuseClient, Owed(c)', peer'[c] \in Before => peer[c] \in Before,
           peer[c] = "broken" => peer'[c] = "broken", urged \subseteq urged', urged' \subseteq urged \cup {c},
           \A d \in ReuseClient \ {c} : /\ peer'[d] = peer[d] /\ toServer'[d] = toServer[d]
                                        /\ toClient'[d] = toClient[d] /\ spoken'[d] = spoken[d]
    PROVE  ReuseInv'
<1> USE DEF ReuseInv
<1>1. TableIsOpenDescriptors' /\ ScanIsOpen'  BY DEF TableIsOpenDescriptors, ScanIsOpen
<1>2. NotYetAccepted'  BY DEF NotYetAccepted
<1>3. ASSUME NEW d \in ReuseClient PROVE Owed(d)'
  <2>1. CASE d = c  BY <2>1
  <2>2. CASE d # c  BY <2>2, OwedStays
  <2> QED  BY <2>1, <2>2
<1>4. OnlyUrgentKills'
  <2> SUFFICES ASSUME select.pc = "killed" PROVE \E d \in urged' : peer'[d] = "broken"
    BY DEF OnlyUrgentKills
  <2>1. PICK d \in urged : peer[d] = "broken"  BY DEF OnlyUrgentKills
  <2>2. peer'[d] = "broken"  BY <2>1 DEF ReuseShape
  <2> QED  BY <2>1, <2>2
<1> QED  BY <1>1, <1>2, <1>3, <1>4

\* Numbers of what is said and answered.
LEMMA OwedTypes ==
    ASSUME ReuseShape, NEW c \in ReuseClient
    PROVE  /\ toClient[c] \in Nat /\ spoken[c] \in Nat /\ MaxSaid[c] \in Nat
           /\ toServer[c] \in Seq(Word) /\ Len(toServer[c]) \in Nat
BY ReuseNumbers DEF ReuseShape

\* A client connects, speaks, reads an answer or leaves.
LEMMA ReuseClientInv ==
    ASSUME ReuseInv, NEW c \in ReuseClient,
           ReuseConnect(c) \/ ReuseAnswer(c) \/ ReuseLeave(c) \/ FasterWrite(c)
           \/ \E what \in Word : ReuseSay(c, what)
    PROVE  ReuseInv'
<1> USE DEF ReuseInv
<1>1. UNCHANGED <<program, isconnect, accepted, select, refusedEarly>>
  BY DEF ReuseConnect, ReuseAnswer, ReuseLeave, FasterWrite, ReuseSay
<1>2. Owed(c)  OBVIOUS
<1>3. /\ toClient[c] \in Nat /\ spoken[c] \in Nat /\ MaxSaid[c] \in Nat
      /\ toServer[c] \in Seq(Word) /\ Len(toServer[c]) \in Nat
  BY OwedTypes
<1>4. CASE ReuseConnect(c)
  <2>1. /\ peer[c] = "new" /\ peer' = [peer EXCEPT ![c] = "queued"]
        /\ UNCHANGED <<toServer, toClient, spoken, urged>>
    BY <1>4 DEF ReuseConnect
  <2>2. ReuseShape'  BY <1>1, <2>1 DEF ReuseShape, Before
  <2>3. peer'[c] = "queued" /\ \A d \in ReuseClient \ {c} : peer'[d] = peer[d]  BY <2>1 DEF ReuseShape
  <2>4. Owed(c)'  BY <1>1, <1>2, <1>3, <2>1, <2>3 DEF Owed, Before
  <2> QED  BY <1>1, <2>1, <2>2, <2>3, <2>4, ClientAlone DEF Before
<1>5. CASE ReuseAnswer(c)
  <2>1. /\ peer[c] \in {"wait", "bye"} /\ toClient[c] > 0 /\ toClient' = [toClient EXCEPT ![c] = 0]
        /\ peer' = [peer EXCEPT ![c] = IF peer[c] = "wait" THEN "ask" ELSE "left"]
        /\ UNCHANGED <<toServer, spoken, urged>>
    BY <1>5 DEF ReuseAnswer
  <2>2. ReuseShape'  BY <1>1, <2>1 DEF ReuseShape, Gone
  <2>3. /\ peer'[c] \in {"ask", "left"} /\ toClient'[c] = 0
        /\ \A d \in ReuseClient \ {c} : peer'[d] = peer[d] /\ toClient'[d] = toClient[d]
    BY <2>1 DEF ReuseShape
  <2>4. Owed(c)'  BY <1>1, <1>2, <1>3, <2>1, <2>3 DEF Owed, Before
  <2> QED  BY <1>1, <2>1, <2>2, <2>3, <2>4, ClientAlone DEF Before
<1>6. CASE ReuseLeave(c)
  <2>1. /\ peer[c] \in {"ask", "wait", "bye"}
        /\ peer' = [peer EXCEPT ![c] = IF toClient[c] > 0 THEN "reset" ELSE "left"]
        /\ UNCHANGED <<toServer, toClient, spoken, urged>>
    BY <1>6 DEF ReuseLeave
  <2>2. ReuseShape'  BY <1>1, <2>1 DEF ReuseShape, Gone
  <2>3. peer'[c] \in {"reset", "left"} /\ \A d \in ReuseClient \ {c} : peer'[d] = peer[d]
    BY <2>1 DEF ReuseShape
  <2>4. Owed(c)'  BY <1>1, <1>2, <1>3, <2>1, <2>3 DEF Owed, Before
  <2> QED  BY <1>1, <2>1, <2>2, <2>3, <2>4, ClientAlone DEF Before
<1>7. CASE FasterWrite(c)
  <2>1. /\ program = "slower" /\ peer[c] = "ask" /\ spoken[c] < MaxSaid[c]
        /\ spoken' = [spoken EXCEPT ![c] = spoken[c] + 1]
        /\ toServer' = [toServer EXCEPT ![c] = Append(toServer[c], "text")]
        /\ UNCHANGED <<peer, toClient, urged>>
    BY <1>7 DEF FasterWrite
  <2>2. /\ Append(toServer[c], "text") \in Seq(Word)
        /\ Len(Append(toServer[c], "text")) = Len(toServer[c]) + 1
    BY <1>3 DEF Word
  <2>3. ReuseShape'  BY <1>1, <1>3, <2>1, <2>2 DEF ReuseShape
  <2>4. /\ spoken'[c] = spoken[c] + 1 /\ Len(toServer'[c]) = Len(toServer[c]) + 1
        /\ \A d \in ReuseClient \ {c} : spoken'[d] = spoken[d] /\ toServer'[d] = toServer[d]
    BY <2>1, <2>2 DEF ReuseShape
  <2>6. spoken'[c] <= MaxSaid[c] /\ Len(toServer'[c]) + toClient'[c] <= spoken'[c]
        /\ peer'[c] = "ask" /\ program' = "slower"
    BY <1>1, <1>2, <1>3, <2>1, <2>4 DEF Owed
  <2>5. Owed(c)'  BY <2>6 DEF Owed, Before
  <2> QED  BY <1>1, <2>1, <2>3, <2>4, <2>5, ClientAlone
<1>8. ASSUME NEW what \in Word, ReuseSay(c, what) PROVE ReuseInv'
  <2>1. /\ program # "slower" /\ peer[c] = "ask" /\ spoken[c] < MaxSaid[c]
        /\ spoken' = [spoken EXCEPT ![c] = spoken[c] + 1]
        /\ toServer' = [toServer EXCEPT ![c] = Append(toServer[c], what)]
        /\ UNCHANGED toClient
        /\ \/ urged' = urged \cup {c} /\ peer' = peer
           \/ urged' = urged /\ \E p \in {"wait", "bye"} : peer' = [peer EXCEPT ![c] = p]
    BY <1>8 DEF ReuseSay
  <2>2. /\ Append(toServer[c], what) \in Seq(Word)
        /\ Len(Append(toServer[c], what)) = Len(toServer[c]) + 1
    BY <1>3
  <2>3. peer' \in [ReuseClient -> Before \cup {"ask", "wait", "bye"} \cup Gone]
    BY <2>1 DEF ReuseShape
  <2>7. urged' \subseteq ReuseClient /\ spoken' \in [ReuseClient -> Nat]
        /\ toServer' \in [ReuseClient -> Seq(Word)]
    BY <1>3, <2>1, <2>2 DEF ReuseShape
  <2>4. ReuseShape'  BY <1>1, <2>1, <2>3, <2>7 DEF ReuseShape
  <2>5. /\ spoken'[c] = spoken[c] + 1 /\ Len(toServer'[c]) = Len(toServer[c]) + 1
        /\ \A d \in ReuseClient \ {c} :
              spoken'[d] = spoken[d] /\ toServer'[d] = toServer[d] /\ peer'[d] = peer[d]
        /\ (c \in urged' /\ peer'[c] = "ask") \/ peer'[c] \in {"wait", "bye"}
    BY <2>1, <2>2 DEF ReuseShape
  <2>6. Owed(c)'  BY <1>1, <1>2, <1>3, <2>1, <2>5 DEF Owed, Before
  <2> QED  BY <1>1, <2>1, <2>4, <2>5, <2>6, ClientAlone DEF Before
<1> QED  BY <1>4, <1>5, <1>6, <1>7, <1>8

-----------------------------------------------------------------------------

\* A turn of the loop that touches no descriptor and no client.
LEMMA LoopOnly ==
    ASSUME ReuseInv, UNCHANGED <<program, isconnect, accepted, peer, toServer, toClient,
                                 spoken, urged, refusedEarly>>,
           select' \in ScanShape, select.pc # "over", select'.pc # "killed", ScanIsOpen'
    PROVE  ReuseInv'
<1> USE DEF ReuseInv
<1>1. ReuseShape'  BY DEF ReuseShape
<1>2. TableIsOpenDescriptors' /\ NotYetAccepted' /\ OnlyUrgentKills'
  BY DEF TableIsOpenDescriptors, NotYetAccepted, OnlyUrgentKills
<1>3. \A c \in ReuseClient : Owed(c)'  BY DEF Owed
<1> QED  BY <1>1, <1>2, <1>3

\* select marks descriptors of the table, and counts every mark.
LEMMA SelectReturnsInv == ASSUME ReuseInv, SelectReturns PROVE ReuseInv'
<1> USE DEF ReuseInv
<1> DEFINE open == {f \in ReuseFd : isconnect[f]}
           high == {IF program = "exception" THEN 0 ELSE select.maxfd} \cup open
           count == Cardinality(ReadyFds) + Cardinality(UrgentFds)
<1>1. /\ select.pc = "select"
      /\ select' = [pc |-> "scan", readfds |-> ReadyFds, exceptionfds |-> UrgentFds,
                    change |-> count, fd |-> 0, maxfd |-> Max(high)]
      /\ UNCHANGED <<program, isconnect, accepted, peer, toServer, toClient, spoken, urged, refusedEarly>>
  BY DEF SelectReturns
<1>2. ReadyFds \in SUBSET (0..BACKLOG) /\ UrgentFds \in SUBSET (1..BACKLOG)
  BY ReuseNumbers DEF ReadyFds, UrgentFds, ListenFd
<1>3. count \in 0..2 * BACKLOG + 1
  <2>1. IsFiniteSet(0..BACKLOG) /\ Cardinality(0..BACKLOG) = BACKLOG + 1
    BY ReuseNumbers, FS_Interval
  <2>2. IsFiniteSet(1..BACKLOG) /\ Cardinality(1..BACKLOG) = BACKLOG
    BY ReuseNumbers, FS_Interval
  <2>3. Cardinality(ReadyFds) \in Nat /\ Cardinality(ReadyFds) <= BACKLOG + 1
    BY <1>2, <2>1, FS_Subset, FS_CardinalityType
  <2>4. Cardinality(UrgentFds) \in Nat /\ Cardinality(UrgentFds) <= BACKLOG
    BY <1>2, <2>2, FS_Subset, FS_CardinalityType
  <2> QED  BY <2>3, <2>4, ReuseNumbers
<1>4. Max(high) \in 0..BACKLOG
  <2>1. high \subseteq 0..BACKLOG /\ high # {}
    BY ReuseNumbers DEF ReuseShape, ScanShape
  <2> HIDE DEF high
  <2>2. Max(high) \in high  BY <2>1, ReuseNumbers, GreatestIs
  <2> QED  BY <2>1, <2>2
<1> HIDE DEF count, high
<1>5. select' \in ScanShape /\ select'.pc = "scan"
  BY <1>1, <1>2, <1>3, <1>4 DEF ScanShape
<1>6. \A f \in ReuseFd : f \in ReadyFds \cup UrgentFds => accepted[f] # NoReuse
  BY <1>1, ReuseNumbers DEF ReadyFds, UrgentFds, ReadableFd, ListenFd, TableIsOpenDescriptors
<1>7. ScanIsOpen'  BY <1>1, <1>6 DEF ScanIsOpen
<1> QED  BY <1>1, <1>5, <1>7, LoopOnly

\* The scan ends, or passes over urgent data.
LEMMA ScanOnInv ==
    ASSUME ReuseInv, ScanEnds \/ \E f \in ReuseFd : ReadOob(f) \/ AskError(f)
    PROVE  ReuseInv'
<1> USE DEF ReuseInv
<1>1. CASE ScanEnds
  <2>1. /\ UNCHANGED <<program, isconnect, accepted, peer, toServer, toClient, spoken, urged, refusedEarly>>
        /\ select.pc = "scan"
        /\ select' = [pc |-> "select", readfds |-> {}, exceptionfds |-> {}, change |-> 0, fd |-> 0,
                      maxfd |-> select.maxfd]
    BY <1>1 DEF ScanEnds
  <2>2. select' \in ScanShape  BY <2>1, ReuseNumbers DEF ReuseShape, ScanShape
  <2>3. ScanIsOpen'  BY <2>1 DEF ScanIsOpen
  <2> QED  BY <2>1, <2>2, <2>3, LoopOnly
<1>2. ASSUME NEW f \in ReuseFd, ReadOob(f) \/ AskError(f) PROVE ReuseInv'
  <2>1. /\ UNCHANGED <<program, isconnect, accepted, peer, toServer, toClient, spoken, urged, refusedEarly>>
        /\ AtMarked(f) /\ select' = WithoutUrgent(select, f)
    BY <1>2 DEF ReadOob, AskError, WithoutUrgent
  <2>2. select.pc = "scan" /\ select.change > 0 /\ select \in ScanShape
    BY <2>1, ScanAt DEF ReuseShape
  <2>3. /\ select' \in ScanShape /\ select'.pc = select.pc /\ select'.readfds = select.readfds
        /\ select'.fd = select.fd /\ select'.exceptionfds = select.exceptionfds \ {f}
    BY <2>1, <2>2, UrgentMoves
  <2>4. ScanIsOpen'  BY <2>1, <2>3 DEF ScanIsOpen
  <2> QED  BY <2>1, <2>2, <2>3, <2>4, LoopOnly
<1> QED  BY <1>1, <1>2

\* The servers that end when select is interrupted close everything.
LEMMA InterruptedInv == ASSUME ReuseInv, SelectInterrupted PROVE ReuseInv'
<1> USE DEF ReuseInv
<1>1. /\ select' = EndedBy(select, "over") /\ accepted' = [f \in ReuseFd |-> NoReuse]
      /\ isconnect' = IF program = "unix" THEN isconnect ELSE [f \in ReuseFd |-> FALSE]
      /\ UNCHANGED <<program, peer, toServer, toClient, spoken, urged, refusedEarly>>
  BY DEF SelectInterrupted, EndedBy
<1>2. select \in ScanShape  BY DEF ReuseShape
<1>3. select' \in ScanShape /\ select'.pc = "over"  BY <1>1, <1>2, LoopMoves
<1>4. ReuseShape'  BY <1>1, <1>3 DEF ReuseShape
<1>5. TableIsOpenDescriptors' /\ ScanIsOpen' /\ NotYetAccepted' /\ OnlyUrgentKills'
  BY <1>1, <1>3, ReuseNumbers
     DEF TableIsOpenDescriptors, ScanIsOpen, NotYetAccepted, OnlyUrgentKills
<1>6. \A c \in ReuseClient : Owed(c)'  BY <1>1 DEF Owed
<1> QED  BY <1>4, <1>5, <1>6

-----------------------------------------------------------------------------

\* The scan goes on behind a descriptor it has come to.
LEMMA PastIs ==
    ASSUME ReuseInv, NEW f, AtMarked(f), NEW marks \in SUBSET (0..BACKLOG), Past(f, marks)
    PROVE  /\ select' \in ScanShape /\ select'.pc = "scan" /\ select'.readfds = marks
           /\ select'.fd = f + 1 /\ select'.exceptionfds = select.exceptionfds
           /\ \A g \in ReuseFd : select'.fd <= g => select.fd <= g
<1>1. f \in 0..BACKLOG /\ select.pc = "scan" /\ select.change > 0 /\ select.fd <= f  BY ScanAt
<1>2. select \in ScanShape  BY DEF ReuseInv, ReuseShape
<1>3. select' = Behind(select, f, marks)  BY DEF Past, Behind
<1>4. /\ select' \in ScanShape /\ select'.pc = "scan" /\ select'.readfds = marks
      /\ select'.fd = f + 1 /\ select'.exceptionfds = select.exceptionfds
  BY <1>1, <1>2, <1>3, BehindMoves
<1>5. select.fd \in Nat /\ f \in Nat  BY <1>1, <1>2 DEF ScanShape
<1> QED  BY <1>1, <1>4, <1>5, ReuseNumbers

\* A client that is accepted gets the lowest descriptor that is not open.
LEMMA AcceptFdInv == ASSUME ReuseInv, NEW c \in ReuseClient, AcceptFd(c) PROVE ReuseInv'
<1> USE DEF ReuseInv
<1> DEFINE free == {f \in ReuseFd : accepted[f] = NoReuse}
<1>1. /\ AtMarked(0) /\ peer[c] = "queued"
      /\ UNCHANGED <<program, toServer, toClient, spoken, urged>>
  BY DEF AcceptFd, AtReadable, ListenFd
<1>2. select.pc = "scan"  BY <1>1, ScanAt
<1>3. select.readfds \in SUBSET (0..BACKLOG)  BY DEF ReuseShape, ScanShape
<1>4. ASSUME NEW d \in ReuseClient, NEW p \in {"refused", "ask"}, peer' = [peer EXCEPT ![c] = p]
      PROVE  Owed(d)'
  <2>1. Owed(d) /\ toClient[d] \in Nat /\ toServer[d] \in Seq(Word)  BY OwedTypes
  <2>2. CASE d # c
    <3>1. peer'[d] = peer[d]  BY <1>4, <2>2 DEF ReuseShape
    <3> QED  BY <1>1, <2>1, <3>1, OwedStays
  <2>3. CASE d = c
    <3>1. peer'[c] = p  BY <1>4 DEF ReuseShape
    <3>2. toServer[c] = <<>> /\ toClient[c] = 0 /\ c \notin urged  BY <1>1, <2>1, <2>3 DEF Owed, Before
    <3> QED  BY <1>1, <2>1, <2>3, <3>1, <3>2 DEF Owed
  <2> QED  BY <2>2, <2>3
<1>5. CASE free = {}
  <2>1. /\ peer' = [peer EXCEPT ![c] = "refused"] /\ Past(0, select.readfds)
        /\ refusedEarly' = (refusedEarly \/ \E f \in ReuseFd : ~isconnect[f])
        /\ UNCHANGED <<isconnect, accepted>>
    BY <1>5 DEF AcceptFd, ListenFd
  <2>2. /\ select' \in ScanShape /\ select'.pc = "scan" /\ select'.readfds = select.readfds
        /\ select'.exceptionfds = select.exceptionfds
        /\ \A g \in ReuseFd : select'.fd <= g => select.fd <= g
    BY <1>1, <1>3, <2>1, PastIs
  <2>3. ReuseShape'  BY <1>1, <2>1, <2>2 DEF ReuseShape, Before
  <2>4. TableIsOpenDescriptors'
    <3>1. \A f \in ReuseFd : isconnect[f]  BY <1>2, <1>5 DEF TableIsOpenDescriptors
    <3> QED  BY <2>1, <2>2, <3>1, <1>2 DEF TableIsOpenDescriptors
  <2>5. ScanIsOpen'  BY <1>2, <2>1, <2>2 DEF ScanIsOpen
  <2>6. NotYetAccepted'
    <3>1. \A d \in ReuseClient : peer'[d] \in Before => peer[d] \in Before
      BY <1>1, <2>1 DEF ReuseShape, Before
    <3> QED  BY <2>1, <3>1 DEF NotYetAccepted
  <2>7. OnlyUrgentKills'  BY <2>2 DEF OnlyUrgentKills
  <2> QED  BY <1>4, <2>1, <2>3, <2>4, <2>5, <2>6, <2>7
<1>6. CASE free # {}
  <2> DEFINE m == Min(free)
  <2>1. /\ peer' = [peer EXCEPT ![c] = "ask"] /\ accepted' = [accepted EXCEPT ![m] = c]
        /\ isconnect' = [isconnect EXCEPT ![m] = TRUE] /\ Past(0, select.readfds \cup {m})
        /\ refusedEarly' = refusedEarly
    BY <1>6 DEF AcceptFd, ListenFd
  <2>2. m \in ReuseFd /\ accepted[m] = NoReuse
    <3>1. free \subseteq Nat  BY ReuseNumbers
    <3>2. m \in free  BY <1>6, <3>1, LeastIs
    <3> QED  BY <3>2
  <2> HIDE DEF m, free
  <2>3. select.readfds \cup {m} \in SUBSET (0..BACKLOG)  BY <1>3, <2>2, ReuseNumbers
  <2>4. /\ select' \in ScanShape /\ select'.pc = "scan" /\ select'.readfds = select.readfds \cup {m}
        /\ select'.exceptionfds = select.exceptionfds
        /\ \A g \in ReuseFd : select'.fd <= g => select.fd <= g
    BY <1>1, <2>1, <2>3, PastIs
  <2>5. ReuseShape'  BY <1>1, <2>1, <2>2, <2>4 DEF ReuseShape
  <2>6. /\ accepted'[m] = c /\ isconnect'[m] /\ c # NoReuse
        /\ \A g \in ReuseFd \ {m} : accepted'[g] = accepted[g] /\ isconnect'[g] = isconnect[g]
    BY <2>1, <2>2, ReuseNumbers DEF ReuseShape
  <2>7. \A g \in ReuseFd : accepted[g] # c  BY <1>1 DEF NotYetAccepted, Before
  <2>8. TableIsOpenDescriptors'
    <3>1. \A f \in ReuseFd : isconnect'[f] <=> accepted'[f] # NoReuse
      BY <1>2, <2>6 DEF TableIsOpenDescriptors
    <3>2. \A f, g \in ReuseFd : accepted'[f] = accepted'[g] /\ accepted'[f] # NoReuse => f = g
      BY <2>6, <2>7 DEF TableIsOpenDescriptors
    <3> QED  BY <2>1, <3>1, <3>2 DEF TableIsOpenDescriptors
  <2>9. ScanIsOpen'  BY <1>2, <2>4, <2>6 DEF ScanIsOpen
  <2>10. NotYetAccepted'
    <3>1. \A d \in ReuseClient : peer'[d] \in Before => peer[d] \in Before /\ d # c
      BY <1>1, <2>1 DEF ReuseShape, Before
    <3> QED  BY <2>6, <3>1 DEF NotYetAccepted
  <2>11. OnlyUrgentKills'  BY <2>4 DEF OnlyUrgentKills
  <2> QED  BY <1>4, <2>1, <2>5, <2>8, <2>9, <2>10, <2>11
<1> QED  BY <1>5, <1>6

-----------------------------------------------------------------------------

\* A descriptor is closed, and the scan does not come to it again.
LEMMA CloseFdInv ==
    ASSUME ReuseInv, NEW f \in ReuseFd, CloseFd(f), select.pc = "scan", select'.pc = "scan",
           refusedEarly' = refusedEarly, \A c \in ReuseClient : peer'[c] \in Before => peer[c] \in Before,
           \A g \in ReuseFd : g \in select'.readfds \cup select'.exceptionfds /\ select'.fd <= g =>
              g # f /\ g \in select.readfds \cup select.exceptionfds /\ select.fd <= g
    PROVE  /\ isconnect' \in [ReuseFd -> BOOLEAN]
           /\ accepted' \in [ReuseFd -> ReuseClient \cup {NoReuse}]
           /\ TableIsOpenDescriptors' /\ ScanIsOpen' /\ NotYetAccepted' /\ OnlyUrgentKills'
<1> USE DEF ReuseInv
<1>1. /\ accepted'[f] = NoReuse /\ ~isconnect'[f]
      /\ \A g \in ReuseFd \ {f} : accepted'[g] = accepted[g] /\ isconnect'[g] = isconnect[g]
      /\ isconnect' \in [ReuseFd -> BOOLEAN]
      /\ accepted' \in [ReuseFd -> ReuseClient \cup {NoReuse}]
  BY DEF CloseFd, ReuseShape
<1>2. TableIsOpenDescriptors'  BY <1>1 DEF TableIsOpenDescriptors
<1>3. ScanIsOpen'  BY <1>1 DEF ScanIsOpen
<1>4. NotYetAccepted'  BY <1>1, ReuseNumbers DEF NotYetAccepted
<1>5. OnlyUrgentKills'  BY DEF OnlyUrgentKills
<1> QED  BY <1>1, <1>2, <1>3, <1>4, <1>5

\* A descriptor stays open, and the scan goes on behind it.
LEMMA StayOpenInv ==
    ASSUME ReuseInv, NEW f \in ReuseFd, AtMarked(f), Past(f, select.readfds),
           UNCHANGED <<isconnect, accepted, refusedEarly>>,
           \A c \in ReuseClient : peer'[c] \in Before => peer[c] \in Before
    PROVE  /\ select' \in ScanShape /\ isconnect' \in [ReuseFd -> BOOLEAN]
           /\ accepted' \in [ReuseFd -> ReuseClient \cup {NoReuse}]
           /\ TableIsOpenDescriptors' /\ ScanIsOpen' /\ NotYetAccepted' /\ OnlyUrgentKills'
<1> USE DEF ReuseInv
<1>1. select.readfds \in SUBSET (0..BACKLOG) /\ select.pc = "scan"  BY ScanAt DEF ReuseShape, ScanShape
<1>2. /\ select' \in ScanShape /\ select'.pc = "scan" /\ select'.readfds = select.readfds
      /\ select'.exceptionfds = select.exceptionfds
      /\ \A g \in ReuseFd : select'.fd <= g => select.fd <= g
  BY <1>1, PastIs
<1>3. TableIsOpenDescriptors' /\ NotYetAccepted' /\ OnlyUrgentKills'
  BY <1>1, <1>2 DEF TableIsOpenDescriptors, NotYetAccepted, OnlyUrgentKills
<1>4. ScanIsOpen'  BY <1>1, <1>2 DEF ScanIsOpen
<1> QED  BY <1>2, <1>3, <1>4 DEF ReuseShape

\* The end of a connection is read.
LEMMA ReadEndInv == ASSUME ReuseInv, NEW f \in ReuseFd, ReadEnd(f) PROVE ReuseInv'
<1> USE DEF ReuseInv
<1>1. /\ AtMarked(f) /\ CloseFd(f) /\ Past(f, select.readfds \ {f})
      /\ UNCHANGED <<program, peer, toServer, toClient, spoken, urged, refusedEarly>>
  BY DEF ReadEnd, AtReadable
<1>2. select.readfds \ {f} \in SUBSET (0..BACKLOG) /\ select.pc = "scan"
  BY <1>1, ScanAt DEF ReuseShape, ScanShape
<1>3. /\ select' \in ScanShape /\ select'.pc = "scan" /\ select'.readfds = select.readfds \ {f}
      /\ select'.fd = f + 1 /\ select'.exceptionfds = select.exceptionfds
      /\ \A g \in ReuseFd : select'.fd <= g => select.fd <= g
  BY <1>1, <1>2, PastIs
<1>4. \A g \in ReuseFd : select'.fd <= g => g # f  BY <1>3, ReuseNumbers
<1>5. /\ isconnect' \in [ReuseFd -> BOOLEAN]
      /\ accepted' \in [ReuseFd -> ReuseClient \cup {NoReuse}]
      /\ TableIsOpenDescriptors' /\ ScanIsOpen' /\ NotYetAccepted' /\ OnlyUrgentKills'
  BY <1>1, <1>2, <1>3, <1>4, CloseFdInv
<1>6. ReuseShape'  BY <1>1, <1>3, <1>5 DEF ReuseShape
<1>7. \A c \in ReuseClient : Owed(c)'  BY <1>1 DEF Owed
<1> QED  BY <1>5, <1>6, <1>7

-----------------------------------------------------------------------------

\* A read takes what one client has said, and leaves the others'.
LEMMA ReadIs ==
    ASSUME ReuseInv, NEW f \in ReuseFd, ReadFrom(f)
    PROVE  LET c == accepted[f] IN
           /\ AtMarked(f) /\ select.pc = "scan" /\ c \in ReuseClient /\ toServer[c] # <<>>
           /\ peer[c] \notin Before /\ peer[c] \in {"ask", "wait", "bye"} \cup Gone
           /\ toServer' \in [ReuseClient -> Seq(Word)] /\ Len(toServer'[c]) < Len(toServer[c])
           /\ Len(toServer[c]) = 1 => toServer'[c] = <<>>
           /\ \A d \in ReuseClient \ {c} : toServer'[d] = toServer[d]
           /\ UNCHANGED <<program, spoken, urged, refusedEarly>>
<1> USE DEF ReuseInv
<1> DEFINE c == accepted[f]
           left == SubSeq(toServer[c], ReadBytes(c) + 1, Len(toServer[c]))
<1>1. /\ AtMarked(f) /\ toServer[c] # <<>> /\ toServer' = [toServer EXCEPT ![c] = left]
      /\ UNCHANGED <<program, spoken, urged, refusedEarly>>
  BY DEF ReadFrom, AtReadable
<1>2. select.pc = "scan" /\ c \in ReuseClient  BY <1>1, ScanAt
<1>3. toServer[c] \in Seq(Word)  BY <1>2, OwedTypes
<1>4. left \in Seq(Word) /\ Len(left) < Len(toServer[c]) /\ (Len(toServer[c]) = 1 => left = <<>>)
  BY <1>1, <1>2, <1>3, ReadBytesIs
<1>5. peer[c] \notin Before  BY <1>2 DEF NotYetAccepted
<1> HIDE DEF left, c
<1>6. /\ toServer' \in [ReuseClient -> Seq(Word)] /\ toServer'[c] = left
      /\ \A d \in ReuseClient \ {c} : toServer'[d] = toServer[d]
  BY <1>1, <1>2, <1>4 DEF ReuseShape
<1>7. peer[c] \in {"ask", "wait", "bye"} \cup Gone  BY <1>2, <1>5 DEF ReuseShape
<1> QED  BY <1>1, <1>2, <1>4, <1>5, <1>6, <1>7 DEF c

\* What was read is answered at most once, and the client stays where it is or has
\* gone by then.
LEMMA AnsweredIsOwed ==
    ASSUME ReuseInv, NEW f \in ReuseFd, ReadFrom(f),
           NEW n \in 0..1, toClient' = [toClient EXCEPT ![accepted[f]] = @ + n],
           peer' \in [ReuseClient -> Before \cup {"ask", "wait", "bye"} \cup Gone],
           peer'[accepted[f]] = peer[accepted[f]] \/ peer'[accepted[f]] = "broken",
           \A d \in ReuseClient \ {accepted[f]} : peer'[d] = peer[d]
    PROVE  /\ toClient' \in [ReuseClient -> Nat]
           /\ \A d \in ReuseClient : Owed(d)' /\ (peer'[d] \in Before => peer[d] \in Before)
<1> USE DEF ReuseInv
<1> DEFINE c == accepted[f]
<1>1. /\ c \in ReuseClient /\ toServer[c] # <<>> /\ peer[c] \notin Before
      /\ toServer' \in [ReuseClient -> Seq(Word)] /\ Len(toServer'[c]) < Len(toServer[c])
      /\ Len(toServer[c]) = 1 => toServer'[c] = <<>>
      /\ \A d \in ReuseClient \ {c} : toServer'[d] = toServer[d]
      /\ UNCHANGED <<program, spoken, urged, refusedEarly>>
  BY ReadIs
<1>2. /\ toClient'[c] = toClient[c] + n /\ toClient' \in [ReuseClient -> Nat]
      /\ \A d \in ReuseClient \ {c} : toClient'[d] = toClient[d]
      /\ peer'[c] = peer[c] \/ peer'[c] = "broken"
      /\ \A d \in ReuseClient \ {c} : peer'[d] = peer[d]
  BY <1>1 DEF ReuseShape
<1> HIDE DEF c
<1>3. ASSUME NEW d \in ReuseClient PROVE Owed(d)' /\ (peer'[d] \in Before => peer[d] \in Before)
  <2>1. CASE d # c  BY <1>1, <1>2, <2>1, OwedStays
  <2>2. CASE d = c
    <3>1. peer'[c] \notin Before  BY <1>1, <1>2 DEF Before
    <3>2. /\ toClient[c] \in Nat /\ spoken[c] \in Nat /\ MaxSaid[c] \in Nat
          /\ Len(toServer[c]) \in Nat /\ Len(toServer'[c]) \in Nat /\ Len(toServer[c]) > 0
      BY <1>1, OwedTypes
    <3>3. Owed(c)  BY <1>1
    <3>4. /\ Len(toServer'[c]) + toClient'[c] <= Len(toServer[c]) + toClient[c]
      BY <1>1, <1>2, <3>2
    <3>7. /\ Len(toServer[c]) + toClient[c] <= spoken[c] /\ spoken[c] <= MaxSaid[c]
          /\ c \notin urged /\ program # "slower" =>
                Len(toServer[c]) + toClient[c] <= (IF peer[c] = "ask" THEN 0 ELSE 1)
      BY <3>3 DEF Owed
    <3>8. toClient'[c] \in Nat /\ spoken'[c] = spoken[c]  BY <1>1, <1>2
    <3>5. Len(toServer'[c]) + toClient'[c] <= spoken'[c] /\ spoken'[c] <= MaxSaid[c]
      BY <3>2, <3>4, <3>7, <3>8
    <3>6. ASSUME c \notin urged', program' # "slower"
          PROVE  /\ Len(toServer'[c]) + toClient'[c] <= (IF peer'[c] = "ask" THEN 0 ELSE 1)
                 /\ peer'[c] = "broken" => toServer'[c] = <<>>
      <4>1. Len(toServer[c]) + toClient[c] <= (IF peer[c] = "ask" THEN 0 ELSE 1)
        BY <1>1, <3>6, <3>7
      <4>2. Len(toServer[c]) = 1 /\ peer[c] # "ask"
        <5>1. CASE peer[c] = "ask"
          <6>1. Len(toServer[c]) + toClient[c] <= 0  BY <4>1, <5>1
          <6> QED  BY <3>2, <6>1
        <5>2. CASE peer[c] # "ask"
          <6>1. Len(toServer[c]) + toClient[c] <= 1  BY <4>1, <5>2
          <6>2. \A m, k \in Nat : m > 0 /\ m + k <= 1 => m = 1  OBVIOUS
          <6>3. Len(toServer[c]) = 1  BY <3>2, <6>1, <6>2
          <6> QED  BY <5>2, <6>3
        <5> QED  BY <5>1, <5>2
      <4>3. peer'[c] # "ask"  BY <1>2, <4>2
      <4> QED  BY <1>1, <1>2, <3>2, <3>4, <4>1, <4>2, <4>3
    <3> QED  BY <2>2, <3>1, <3>5, <3>6 DEF Owed
  <2> QED  BY <2>1, <2>2
<1> QED  BY <1>2, <1>3

\* Nothing is one of the numbers that can be added.
LEMMA NothingAdded ==
    ASSUME NEW g \in [ReuseClient -> Nat], NEW c \in ReuseClient
    PROVE  \E n \in 0..1 : g = [g EXCEPT ![c] = @ + n]
<1>1. g[c] + 0 = g[c]  OBVIOUS
<1>2. g = [g EXCEPT ![c] = @ + 0]  BY <1>1
<1>3. 0 \in 0..1  OBVIOUS
<1> QED  BY <1>2, <1>3

\* "ok" is written.
LEMMA AnswerOkInv == ASSUME ReuseInv, NEW f \in ReuseFd, ReadFrom(f), AnswerOk(f) PROVE ReuseInv'
<1> USE DEF ReuseInv
<1> DEFINE c == accepted[f]
<1>1. /\ AtMarked(f) /\ select.pc = "scan" /\ c \in ReuseClient
      /\ toServer' \in [ReuseClient -> Seq(Word)]
      /\ UNCHANGED <<program, spoken, urged, refusedEarly>>
  BY ReadIs
<1>2. /\ toClient' = IF peer[c] \in Gone THEN toClient ELSE [toClient EXCEPT ![c] = @ + 1]
      /\ peer' = IF peer[c] = "left" THEN [peer EXCEPT ![c] = "broken"] ELSE peer
  BY DEF AnswerOk
<1>3. PICK n \in 0..1 : toClient' = [toClient EXCEPT ![c] = @ + n]
  <2>1. CASE peer[c] \in Gone
    <3>1. toClient' = toClient  BY <1>2, <2>1
    <3> QED  BY <1>1, <3>1, NothingAdded DEF ReuseShape
  <2>2. CASE peer[c] \notin Gone  BY <1>2, <2>2
  <2> QED  BY <2>1, <2>2
<1>4. /\ peer' \in [ReuseClient -> Before \cup {"ask", "wait", "bye"} \cup Gone]
      /\ peer'[c] = peer[c] \/ peer'[c] = "broken"
      /\ \A d \in ReuseClient \ {c} : peer'[d] = peer[d]
  BY <1>1, <1>2 DEF ReuseShape, Gone
<1>5. /\ toClient' \in [ReuseClient -> Nat]
      /\ \A d \in ReuseClient : Owed(d)' /\ (peer'[d] \in Before => peer[d] \in Before)
  BY <1>3, <1>4, AnsweredIsOwed
<1>6. CASE Head(toServer[c]) = "exit"
  <2>1. CloseFd(f) /\ select' = LeftOut(select)  BY <1>6 DEF AnswerOk, LeftOut
  <2>2. /\ select' \in ScanShape /\ select'.pc = "scan"
        /\ select'.readfds = {} /\ select'.exceptionfds = {}
    BY <1>1, <2>1, LoopMoves DEF ReuseShape
  <2>3. /\ isconnect' \in [ReuseFd -> BOOLEAN]
        /\ accepted' \in [ReuseFd -> ReuseClient \cup {NoReuse}]
        /\ TableIsOpenDescriptors' /\ ScanIsOpen' /\ NotYetAccepted' /\ OnlyUrgentKills'
    BY <1>1, <1>5, <2>1, <2>2, CloseFdInv
  <2>4. ReuseShape'  BY <1>1, <1>4, <1>5, <2>2, <2>3 DEF ReuseShape
  <2> QED  BY <1>5, <2>3, <2>4
<1>7. CASE Head(toServer[c]) # "exit"
  <2>1. Past(f, select.readfds) /\ UNCHANGED <<isconnect, accepted>>  BY <1>7 DEF AnswerOk
  <2>2. /\ select' \in ScanShape /\ isconnect' \in [ReuseFd -> BOOLEAN]
        /\ accepted' \in [ReuseFd -> ReuseClient \cup {NoReuse}]
        /\ TableIsOpenDescriptors' /\ ScanIsOpen' /\ NotYetAccepted' /\ OnlyUrgentKills'
    BY <1>1, <1>5, <2>1, StayOpenInv
  <2>3. ReuseShape'  BY <1>1, <1>4, <1>5, <2>2 DEF ReuseShape
  <2> QED  BY <1>5, <2>2, <2>3
<1> QED  BY <1>6, <1>7

\* Nothing is written, or nothing comes of it.
LEMMA UnansweredInv ==
    ASSUME ReuseInv, NEW f \in ReuseFd, ReadFrom(f), Past(f, select.readfds),
           UNCHANGED <<isconnect, accepted, peer, toClient>>
    PROVE  ReuseInv'
<1> USE DEF ReuseInv
<1>1. /\ AtMarked(f) /\ accepted[f] \in ReuseClient /\ toServer' \in [ReuseClient -> Seq(Word)]
      /\ UNCHANGED <<program, spoken, urged, refusedEarly>>
  BY ReadIs
<1>2. PICK n \in 0..1 : toClient' = [toClient EXCEPT ![accepted[f]] = @ + n]
  BY <1>1, NothingAdded DEF ReuseShape
<1>3. peer' \in [ReuseClient -> Before \cup {"ask", "wait", "bye"} \cup Gone]  BY DEF ReuseShape
<1>4. /\ toClient' \in [ReuseClient -> Nat]
      /\ \A d \in ReuseClient : Owed(d)' /\ (peer'[d] \in Before => peer[d] \in Before)
  BY <1>2, <1>3, AnsweredIsOwed
<1>5. /\ select' \in ScanShape /\ isconnect' \in [ReuseFd -> BOOLEAN]
      /\ accepted' \in [ReuseFd -> ReuseClient \cup {NoReuse}]
      /\ TableIsOpenDescriptors' /\ ScanIsOpen' /\ NotYetAccepted' /\ OnlyUrgentKills'
  BY <1>1, <1>4, StayOpenInv
<1>6. ReuseShape'  BY <1>1, <1>3, <1>4, <1>5 DEF ReuseShape
<1> QED  BY <1>4, <1>5, <1>6

\* A read that gives bytes, and what follows it in each server.  SIGPIPE comes of
\* the answer to a client that had said more than it waited for.
LEMMA ReadAndAnswerInv ==
    ASSUME ReuseInv, NEW f \in ReuseFd, program # "slower" /\ ReadAndAnswer(f) PROVE ReuseInv'
<1> USE DEF ReuseInv
<1>1. ReadFrom(f) /\ program # "slower"  BY DEF ReadAndAnswer
<1>2. CASE AnswerOk(f)  BY <1>1, <1>2, AnswerOkInv
<1>3. CASE AnswerFails(f)  BY <1>1, <1>3, UnansweredInv DEF AnswerFails
<1>4. CASE /\ peer[accepted[f]] = "broken" /\ select' = [select EXCEPT !.pc = "killed"]
           /\ UNCHANGED <<isconnect, accepted, peer, toClient>>
  <2> DEFINE c == accepted[f]
  <2>1. /\ select.pc = "scan" /\ c \in ReuseClient /\ toServer[c] # <<>>
        /\ toServer' \in [ReuseClient -> Seq(Word)]
        /\ UNCHANGED <<program, spoken, urged, refusedEarly>>
    BY <1>1, ReadIs
  <2>2. PICK n \in 0..1 : toClient' = [toClient EXCEPT ![c] = @ + n]
    BY <1>4, <2>1, NothingAdded DEF ReuseShape
  <2>3. peer' \in [ReuseClient -> Before \cup {"ask", "wait", "bye"} \cup Gone]  BY <1>4 DEF ReuseShape
  <2>4. toClient' \in [ReuseClient -> Nat] /\ \A d \in ReuseClient : Owed(d)'
    BY <1>1, <1>4, <2>2, <2>3, AnsweredIsOwed
  <2>5. select' = EndedBy(select, "killed") /\ select \in ScanShape  BY <1>4 DEF EndedBy, ReuseShape
  <2>6. select' \in ScanShape /\ select'.pc = "killed"  BY <2>5, LoopMoves
  <2>7. ReuseShape'  BY <1>4, <2>1, <2>3, <2>4, <2>6 DEF ReuseShape
  <2>8. TableIsOpenDescriptors' /\ ScanIsOpen' /\ NotYetAccepted'
    BY <1>4, <2>1, <2>6 DEF TableIsOpenDescriptors, ScanIsOpen, NotYetAccepted
  <2>9. OnlyUrgentKills'
    <3>1. Owed(c)  BY <2>1
    <3>2. c \in urged  BY <1>1, <1>4, <2>1, <3>1 DEF Owed
    <3> QED  BY <1>4, <2>1, <3>2 DEF OnlyUrgentKills
  <2> QED  BY <2>4, <2>7, <2>8, <2>9
<1> QED  BY <1>2, <1>3, <1>4 DEF ReadAndAnswer

\* The UNIX server closes the descriptor when the answer fails with EPIPE.
LEMMA UnixReadInv == ASSUME ReuseInv, NEW f \in ReuseFd, UnixReadAndAnswer(f) PROVE ReuseInv'
<1> USE DEF ReuseInv
<1>1. ReadFrom(f)  BY DEF UnixReadAndAnswer
<1>2. CASE AnswerOk(f)  BY <1>1, <1>2, AnswerOkInv
<1>3. CASE AnswerFails(f)  BY <1>1, <1>3, UnansweredInv DEF AnswerFails
<1>4. CASE CloseFd(f) /\ Past(f, select.readfds \ {f}) /\ UNCHANGED <<peer, toClient>>
  <2>1. /\ AtMarked(f) /\ select.pc = "scan" /\ accepted[f] \in ReuseClient
        /\ toServer' \in [ReuseClient -> Seq(Word)]
        /\ UNCHANGED <<program, spoken, urged, refusedEarly>>
    BY <1>1, ReadIs
  <2>2. PICK n \in 0..1 : toClient' = [toClient EXCEPT ![accepted[f]] = @ + n]
    BY <1>4, <2>1, NothingAdded DEF ReuseShape
  <2>3. peer' \in [ReuseClient -> Before \cup {"ask", "wait", "bye"} \cup Gone]  BY <1>4 DEF ReuseShape
  <2>4. /\ toClient' \in [ReuseClient -> Nat]
        /\ \A d \in ReuseClient : Owed(d)' /\ (peer'[d] \in Before => peer[d] \in Before)
    BY <1>1, <1>4, <2>2, <2>3, AnsweredIsOwed
  <2>5. select.readfds \ {f} \in SUBSET (0..BACKLOG)  BY DEF ReuseShape, ScanShape
  <2>6. /\ select' \in ScanShape /\ select'.pc = "scan" /\ select'.readfds = select.readfds \ {f}
        /\ select'.fd = f + 1 /\ select'.exceptionfds = select.exceptionfds
        /\ \A g \in ReuseFd : select'.fd <= g => select.fd <= g
    BY <1>4, <2>1, <2>5, PastIs
  <2>7. \A g \in ReuseFd : select'.fd <= g => g # f  BY <2>6, ReuseNumbers
  <2>8. /\ isconnect' \in [ReuseFd -> BOOLEAN]
        /\ accepted' \in [ReuseFd -> ReuseClient \cup {NoReuse}]
        /\ TableIsOpenDescriptors' /\ ScanIsOpen' /\ NotYetAccepted' /\ OnlyUrgentKills'
    BY <1>4, <2>1, <2>4, <2>6, <2>7, CloseFdInv
  <2>9. ReuseShape'  BY <2>1, <2>3, <2>4, <2>6, <2>8 DEF ReuseShape
  <2> QED  BY <2>4, <2>8, <2>9
<1> QED  BY <1>2, <1>3, <1>4 DEF UnixReadAndAnswer

\* Every step keeps the invariant.
LEMMA ReuseNextInv == ReuseInv /\ [ReuseNext]_reusevars => ReuseInv'
<1> SUFFICES ASSUME ReuseInv, [ReuseNext]_reusevars PROVE ReuseInv'  OBVIOUS
<1>1. CASE Step  BY <1>1, SelectReturnsInv, ScanOnInv, AcceptFdInv, ReadEndInv DEF Step
<1>2. ASSUME NEW f \in ReuseFd, program # "slower", ReadAndAnswer(f) PROVE ReuseInv'
  BY <1>2, ReadAndAnswerInv
<1>3. ASSUME NEW f \in ReuseFd, ReadOob(f) \/ AskError(f) PROVE ReuseInv'  BY <1>3, ScanOnInv
<1>4. CASE SlowerLoop
  <2>1. ASSUME NEW f \in ReuseFd, SlowerRead(f) PROVE ReuseInv'  BY <2>1, UnansweredInv DEF SlowerRead
  <2> QED  BY <1>1, <1>4, <2>1 DEF SlowerLoop
<1>5. CASE UnixLoop  BY <1>1, <1>5, UnixReadInv DEF UnixLoop
<1>6. CASE ReuseLoop  BY <1>1, <1>2, <1>6 DEF ReuseLoop
<1>7. CASE OobLoop  BY <1>1, <1>2, <1>3, <1>7 DEF OobLoop
<1>8. CASE ExceptionLoop  BY <1>1, <1>2, <1>3, <1>8 DEF ExceptionLoop
<1>9. CASE SelectInterrupted  BY <1>9, InterruptedInv
<1>10. ASSUME NEW c \in ReuseClient,
              ReuseConnect(c) \/ ReuseAnswer(c) \/ ReuseLeave(c) \/ FasterWrite(c)
              \/ \E what \in Word : ReuseSay(c, what)
       PROVE  ReuseInv'
  BY <1>10, ReuseClientInv
<1>11. CASE UNCHANGED reusevars
  <2>1. UNCHANGED <<program, isconnect, accepted, select, peer, toServer, toClient, spoken, urged,
                    refusedEarly>>
    BY <1>11 DEF reusevars
  <2>2. /\ ReuseShape' /\ TableIsOpenDescriptors' /\ ScanIsOpen' /\ NotYetAccepted' /\ OnlyUrgentKills'
    BY <2>1 DEF ReuseInv, ReuseShape, TableIsOpenDescriptors, ScanIsOpen, NotYetAccepted, OnlyUrgentKills
  <2>3. \A c \in ReuseClient : Owed(c)'  BY <2>1 DEF ReuseInv, Owed
  <2> QED  BY <2>2, <2>3 DEF ReuseInv
<1> QED
  BY <1>4, <1>5, <1>6, <1>7, <1>8, <1>9, <1>10, <1>11 DEF ReuseNext, ServerLoop, Word

\* The table of every server is its open descriptors and nobody is refused while an
\* entry is free, a client that is told "ok" was read unless it sent something urgent,
\* and only such a client can end the server with SIGPIPE.
THEOREM ReuseStaysSound == ReuseSpec => []ReuseSound
<1>1. ReuseInv => ReuseSound
  <2> SUFFICES ASSUME ReuseInv PROVE ReuseSound  OBVIOUS
  <2>1. ReuseTypeOK
    <3>1. /\ select.readfds \subseteq ReuseFd \cup {ListenFd} /\ select.exceptionfds \subseteq ReuseFd
          /\ select.change \in 0..2 * BACKLOG + 1 /\ select.maxfd \in 0..BACKLOG
      BY ReuseNumbers DEF ReuseInv, ReuseShape, ScanShape, ListenFd
    <3>2. ASSUME NEW c \in ReuseClient
          PROVE  toClient[c] \in 0..MaxSaid[c] /\ Len(toServer[c]) <= MaxSaid[c]
      <4>1. /\ toClient[c] \in Nat /\ spoken[c] \in Nat /\ MaxSaid[c] \in Nat /\ Len(toServer[c]) \in Nat
            /\ Len(toServer[c]) + toClient[c] <= spoken[c] /\ spoken[c] <= MaxSaid[c]
        BY OwedTypes DEF ReuseInv, Owed
      <4> QED  BY <4>1
    <3> QED  BY <3>1, <3>2 DEF ReuseInv, ReuseShape, ReuseTypeOK
  <2>2. OkMeansRead
    <3> SUFFICES ASSUME NEW c \in ReuseClient, c \notin urged, program # "slower", peer[c] = "ask"
                 PROVE  toServer[c] = <<>>
      BY DEF OkMeansRead
    <3>1. Len(toServer[c]) + toClient[c] <= 0  BY DEF ReuseInv, Owed
    <3>2. toServer[c] \in Seq(Word) /\ Len(toServer[c]) \in Nat /\ toClient[c] \in Nat
      BY OwedTypes DEF ReuseInv
    <3>3. Len(toServer[c]) = 0  BY <3>1, <3>2
    <3> QED  BY <3>2, <3>3
  <2> QED  BY <2>1, <2>2 DEF ReuseInv, ReuseSound
<1> QED  BY <1>1, ReuseInitInv, ReuseNextInv, PTL DEF ReuseSpec

-----------------------------------------------------------------------------
(* EpollEcho: the inductive invariant.                                     *)

EchoShape ==
    /\ conn \in [ClientFd -> EchoClient \cup {NoEcho}]
    /\ side \in [EchoClient -> {"new", "queued", "open", "left", "broken"}]
    /\ sent \in [EchoClient -> Nat] /\ taken \in [EchoClient -> Nat] /\ seen \in [EchoClient -> Nat]
    /\ echo \in [EchoClient -> Seq(Nat)]
    /\ eager \subseteq EchoClient

\* A connection has one descriptor, once it was accepted.
ConnOK ==
    /\ \A f \in ClientFd : conn[f] # NoEcho => side[conn[f]] \in {"open", "left", "broken"}
    /\ \A f, g \in ClientFd : conn[f] # NoEcho /\ f # g => conn[f] # conn[g]

\* An event is for the connection its descriptor still stands for.
EventsOK ==
    /\ \A e \in event_array : e.fd \in Fd /\ e = Event(e.fd) /\ (e.fd \in ClientFd => e.conn # NoEcho)
    /\ IsFiniteSet(event_array) /\ Cardinality(event_array) <= MAX_EVENT_COUNT

\* What was read and not sent back is the last that was taken of an open connection.
BufOK ==
    buf # NoBuf =>
        /\ buf \in [fd: ClientFd, from: Nat, to: Nat]
        /\ conn[buf.fd] # NoEcho
        /\ 1 <= buf.from /\ buf.from <= buf.to /\ buf.to = taken[conn[buf.fd]]

\* The bytes of c that were read, and sent back or given up.
Passed(c) == IF buf # NoBuf /\ conn[buf.fd] = c THEN buf.from - 1 ELSE taken[c]

\* An echo grows with what passed, within the room of a send; without a gap for a
\* client that was never eager and is still there.
Bytes(c) ==
    /\ seen[c] <= Len(echo[c]) /\ Len(echo[c]) <= seen[c] + SendRoom
    /\ Len(echo[c]) <= Passed(c) /\ Passed(c) <= taken[c]
    /\ taken[c] <= sent[c] /\ sent[c] <= MaxSent[c]
    /\ \A i, j \in 1..Len(echo[c]) : i < j => echo[c][i] < echo[c][j]
    /\ \A i \in 1..Len(echo[c]) : echo[c][i] <= Passed(c)
    /\ c \notin eager =>
          /\ sent[c] <= seen[c] + SendRoom
          /\ \A i \in 1..Len(echo[c]) : echo[c][i] = i
          /\ side[c] \notin {"left", "broken"} => Len(echo[c]) = Passed(c)

EchoInv ==
    /\ EchoShape /\ ConnOK /\ EventsOK /\ BufOK
    /\ \A c \in EchoClient : Bytes(c)
    /\ PatientClientsDoNoHarm

-----------------------------------------------------------------------------

\* There is a descriptor for each client, and none of them is a special one.
LEMMA ClientFds ==
    /\ MAX_EVENT_COUNT \in Nat /\ BUF_SIZE \in Nat /\ SendRoom \in Nat
    /\ MAX_EVENT_COUNT > 0 /\ BUF_SIZE > 0 /\ SendRoom > 0
    /\ ClientFd \subseteq Nat /\ STDIN_FILENO \notin ClientFd /\ server_fd \notin ClientFd
    /\ IsFiniteSet(ClientFd) /\ Cardinality(ClientFd) = Cardinality(EchoClient)
<1>1. Cardinality(EchoClient) \in Nat  BY EchoAssumption, FS_CardinalityType
<1>2. IsFiniteSet(ClientFd) /\ Cardinality(ClientFd) = Cardinality(EchoClient)
  BY <1>1, FS_Interval DEF ClientFd
<1>3. ClientFd \subseteq Nat /\ STDIN_FILENO \notin ClientFd /\ server_fd \notin ClientFd
  BY <1>1 DEF ClientFd, STDIN_FILENO, server_fd
<1> QED  BY <1>2, <1>3, EchoAssumption

\* While a client waits to be accepted, there is a descriptor for it.
LEMMA FreeFd ==
    ASSUME EchoShape, ConnOK, NEW c \in EchoClient, side[c] = "queued"
    PROVE  LET f == Min({g \in ClientFd : conn[g] = NoEcho}) IN f \in ClientFd /\ conn[f] = NoEcho
<1> DEFINE T == {g \in ClientFd : conn[g] = NoEcho}
           others == EchoClient \ {c}
<1>1. T # {}
  <2>1. SUFFICES ASSUME T = {} PROVE FALSE  OBVIOUS
  <2>2. \A f \in ClientFd : conn[f] \in others  BY <2>1 DEF EchoShape, ConnOK
  <2>3. conn \in [ClientFd -> others]  BY <2>2 DEF EchoShape
  <2>4. /\ IsFiniteSet(others) /\ Cardinality(others) = Cardinality(EchoClient) - 1
        /\ Cardinality(EchoClient) \in Nat
    BY EchoAssumption, FS_RemoveElement, FS_CardinalityType
  <2>5. Cardinality(others) < Cardinality(ClientFd) /\ IsFiniteSet(ClientFd)  BY <2>4, ClientFds
  <2> HIDE DEF others
  <2>6. \E x, y \in ClientFd : x # y /\ conn[x] = conn[y]
    BY <2>3, <2>4, <2>5, FS_PigeonHole
  <2> QED  BY <2>1, <2>6 DEF ConnOK
<1>2. T \subseteq Nat  BY ClientFds
<1>3. Min(T) \in T  BY <1>1, <1>2, LeastIs
<1> QED  BY <1>3

\* Nobody has connected.
LEMMA EchoInitInv == EpollInit => EchoInv
<1> SUFFICES ASSUME EpollInit PROVE EchoInv  OBVIOUS
<1> USE DEF EpollInit
<1>1. EchoShape  BY DEF EchoShape
<1>2. ConnOK  BY DEF ConnOK
<1>3. EventsOK  BY FS_EmptySet, ClientFds DEF EventsOK
<1>4. BufOK  BY DEF BufOK
<1>5. ASSUME NEW c \in EchoClient PROVE Bytes(c)
  <2>1. Passed(c) = 0  BY DEF Passed
  <2>2. seen[c] = 0 /\ taken[c] = 0 /\ sent[c] = 0 /\ echo[c] = <<>> /\ MaxSent[c] \in Nat
    BY EchoAssumption
  <2>3. Len(echo[c]) = 0  BY <2>2
  <2> HIDE DEF EpollInit
  <2> QED  BY <2>1, <2>2, <2>3, ClientFds DEF Bytes
<1>6. PatientClientsDoNoHarm  BY DEF PatientClientsDoNoHarm
<1> QED  BY <1>1, <1>2, <1>3, <1>4, <1>5, <1>6 DEF EchoInv

\* What a client does, or the terminal, changes no connection, event or buffer.
LEMMA EchoFrame ==
    ASSUME EchoInv, UNCHANGED <<conn, taken, event_array, buf>>
    PROVE  EventsOK' /\ BufOK' /\ \A c \in EchoClient : Passed(c)' = Passed(c)
BY DEF EchoInv, EventsOK, BufOK, Passed, Event

\* Numbers of bytes.
LEMMA EchoTypes ==
    ASSUME EchoShape, NEW c \in EchoClient
    PROVE  /\ seen[c] \in Nat /\ sent[c] \in Nat /\ taken[c] \in Nat /\ echo[c] \in Seq(Nat)
           /\ Len(echo[c]) \in Nat /\ \A i \in 1..Len(echo[c]) : echo[c][i] \in Nat
           /\ MaxSent[c] \in Nat
<1>1. echo[c] \in Seq(Nat)  BY DEF EchoShape
<1>2. Len(echo[c]) \in Nat /\ \A i \in 1..Len(echo[c]) : echo[c][i] \in Nat
  BY <1>1, LenProperties, ElementOfSeq
<1> QED  BY <1>1, <1>2, EchoAssumption DEF EchoShape

\* What a client or the terminal does.
LEMMA EchoClientInv ==
    ASSUME EchoInv, NEW c \in EchoClient,
           EchoConnect(c) \/ EchoWrite(c) \/ EchoRead(c) \/ EchoLeave(c)
    PROVE  EchoInv'
<1> USE DEF EchoInv
<1>1. UNCHANGED <<conn, taken, event_array, buf, echo, loop>>
  BY DEF EchoConnect, EchoWrite, EchoRead, EchoLeave
<1>2. EventsOK' /\ BufOK' /\ \A d \in EchoClient : Passed(d)' = Passed(d)  BY <1>1, EchoFrame
<1>3. \A d \in EchoClient : Passed(d) \in Int
  <2> SUFFICES ASSUME NEW d \in EchoClient PROVE Passed(d) \in Int  OBVIOUS
  <2>1. taken[d] \in Nat  BY EchoTypes
  <2> QED  BY <2>1 DEF Passed, BufOK
<1>4. ASSUME NEW d \in EchoClient, side'[d] = side[d], seen'[d] = seen[d], sent'[d] = sent[d],
             d \in eager' <=> d \in eager
      PROVE  Bytes(d)'
  BY <1>1, <1>2, <1>4 DEF Bytes
<1>5. CASE EchoConnect(c)
  <2>1. side' = [side EXCEPT ![c] = "queued"] /\ side[c] = "new" /\ UNCHANGED <<seen, sent, eager>>
    BY <1>5 DEF EchoConnect
  <2>2. side'[c] = "queued" /\ \A d \in EchoClient \ {c} : side'[d] = side[d]  BY <2>1 DEF EchoShape
  <2>3. EchoShape'  BY <1>1, <2>1 DEF EchoShape
  <2>4. ConnOK'  BY <1>1, <2>1, <2>2 DEF ConnOK, EchoShape
  <2>5. Bytes(c)'  BY <1>1, <1>2, <2>1, <2>2 DEF Bytes
  <2>6. \A d \in EchoClient : Bytes(d)'  BY <1>4, <2>1, <2>2, <2>5
  <2>7. PatientClientsDoNoHarm'  BY <1>1, <2>1, <2>2 DEF PatientClientsDoNoHarm
  <2> QED  BY <1>2, <2>3, <2>4, <2>6, <2>7
<1>6. CASE EchoWrite(c)
  <2>1. /\ sent' = [sent EXCEPT ![c] = sent[c] + 1] /\ sent[c] < MaxSent[c]
        /\ side[c] \in {"queued", "open"}
        /\ eager' = IF sent[c] - seen[c] >= SendRoom THEN eager \cup {c} ELSE eager
        /\ UNCHANGED <<seen, side>>
    BY <1>6 DEF EchoWrite
  <2>2. sent'[c] = sent[c] + 1 /\ \A d \in EchoClient \ {c} : sent'[d] = sent[d]  BY <2>1 DEF EchoShape
  <2>3. EchoShape'
    <3>1. sent[c] + 1 \in Nat  BY EchoTypes
    <3>2. sent' \in [EchoClient -> Nat]  BY <2>1, <3>1 DEF EchoShape
    <3>3. eager' \subseteq EchoClient  BY <2>1 DEF EchoShape
    <3> QED  BY <1>1, <2>1, <3>2, <3>3 DEF EchoShape
  <2>4. ConnOK'  BY <1>1, <2>1 DEF ConnOK
  <2>5. Bytes(c)'
    <3>1. c \notin eager' => c \notin eager /\ sent'[c] <= seen[c] + SendRoom
      BY <2>1, <2>2, EchoTypes, ClientFds
    <3> QED  BY <1>1, <1>2, <2>1, <2>2, <3>1, EchoTypes DEF Bytes
  <2>6. \A d \in EchoClient : Bytes(d)'  BY <1>4, <2>1, <2>2, <2>5
  <2>7. PatientClientsDoNoHarm'  BY <1>1, <2>1, <2>2 DEF PatientClientsDoNoHarm
  <2> QED  BY <1>2, <2>3, <2>4, <2>6, <2>7
<1>7. CASE EchoRead(c)
  <2>1. /\ seen' = [seen EXCEPT ![c] = seen[c] + 1] /\ seen[c] < Len(echo[c]) /\ side[c] = "open"
        /\ UNCHANGED <<sent, side, eager>>
    BY <1>7 DEF EchoRead
  <2>2. seen'[c] = seen[c] + 1 /\ \A d \in EchoClient \ {c} : seen'[d] = seen[d]  BY <2>1 DEF EchoShape
  <2>3. EchoShape'
    <3>1. seen[c] + 1 \in Nat  BY EchoTypes
    <3> QED  BY <1>1, <2>1, <3>1 DEF EchoShape
  <2>4. ConnOK'  BY <1>1, <2>1 DEF ConnOK
  <2>5. Bytes(c)'
    <3>1. /\ seen[c] + 1 <= Len(echo[c])
          /\ Len(echo[c]) <= seen[c] + SendRoom => Len(echo[c]) <= (seen[c] + 1) + SendRoom
          /\ sent[c] <= seen[c] + SendRoom => sent[c] <= (seen[c] + 1) + SendRoom
      BY <2>1, EchoTypes, ClientFds
    <3>2. /\ echo'[c] = echo[c] /\ taken'[c] = taken[c] /\ sent'[c] = sent[c] /\ side'[c] = side[c]
          /\ eager' = eager /\ Passed(c)' = Passed(c) /\ seen'[c] = seen[c] + 1
      BY <1>1, <1>2, <2>1, <2>2
    <3> QED  BY <3>1, <3>2 DEF Bytes
  <2>6. \A d \in EchoClient : Bytes(d)'  BY <1>4, <2>1, <2>2, <2>5
  <2>7. PatientClientsDoNoHarm'  BY <1>1, <2>1, <2>2 DEF PatientClientsDoNoHarm
  <2> QED  BY <1>2, <2>3, <2>4, <2>6, <2>7
<1>8. CASE EchoLeave(c)
  <2>1. side' = [side EXCEPT ![c] = "left"] /\ side[c] = "open" /\ UNCHANGED <<seen, sent, eager>>
    BY <1>8 DEF EchoLeave
  <2>2. side'[c] = "left" /\ \A d \in EchoClient \ {c} : side'[d] = side[d]  BY <2>1 DEF EchoShape
  <2>3. EchoShape'  BY <1>1, <2>1 DEF EchoShape
  <2>4. ConnOK'  BY <1>1, <2>1, <2>2 DEF ConnOK, EchoShape
  <2>5. Bytes(c)'  BY <1>1, <1>2, <2>1, <2>2 DEF Bytes
  <2>6. \A d \in EchoClient : Bytes(d)'  BY <1>4, <2>1, <2>2, <2>5
  <2>7. PatientClientsDoNoHarm'  BY <1>1, <2>1, <2>2 DEF PatientClientsDoNoHarm
  <2> QED  BY <1>2, <2>3, <2>4, <2>6, <2>7
<1> QED  BY <1>5, <1>6, <1>7, <1>8

\* Events that are left over stay good while their connections do.
LEMMA EventsShrink ==
    ASSUME EventsOK, event_array' \subseteq event_array,
           \A x \in event_array' : Event(x.fd)' = Event(x.fd)
    PROVE  EventsOK'
<1>1. IsFiniteSet(event_array') /\ Cardinality(event_array') <= Cardinality(event_array)
  BY FS_Subset DEF EventsOK
<1>2. /\ Cardinality(event_array) \in Nat /\ Cardinality(event_array') \in Nat
      /\ Cardinality(event_array) <= MAX_EVENT_COUNT
  BY <1>1, FS_CardinalityType DEF EventsOK
<1>3. Cardinality(event_array') <= MAX_EVENT_COUNT  BY <1>1, <1>2, ClientFds
<1>4. \A e \in event_array' : e.fd \in Fd /\ e = Event(e.fd)' /\ (e.fd \in ClientFd => e.conn # NoEcho)
  BY DEF EventsOK
<1> QED  BY <1>1, <1>3, <1>4 DEF EventsOK

\* epoll_wait reports what is ready now.
LEMMA EpollWaitInv ==
    ASSUME EchoInv, NEW fs \in SUBSET Ready, EpollWait(fs)
    PROVE  EchoInv'
<1> USE DEF EchoInv
<1>1. /\ UNCHANGED <<conn, side, sent, taken, echo, seen, buf, loop, eager>>
      /\ Cardinality(fs) = Min({Cardinality(Ready), MAX_EVENT_COUNT})
      /\ event_array' = {Event(f) : f \in fs}
  BY DEF EpollWait
<1>2. EchoShape' /\ ConnOK' /\ BufOK'  BY <1>1 DEF EchoShape, ConnOK, BufOK
<1>3. \A c \in EchoClient : Bytes(c)'  BY <1>1 DEF Bytes, Passed
<1>4. PatientClientsDoNoHarm'  BY <1>1 DEF PatientClientsDoNoHarm
<1>5. IsFiniteSet(Ready) /\ IsFiniteSet(fs)
  <2>1. IsFiniteSet({STDIN_FILENO, server_fd})
    <3>1. IsFiniteSet({STDIN_FILENO}) /\ {STDIN_FILENO, server_fd} = {STDIN_FILENO} \cup {server_fd}
      BY FS_Singleton
    <3> QED  BY <3>1, FS_AddElement
  <2>2. IsFiniteSet(Fd)  BY <2>1, ClientFds, FS_Union DEF Fd
  <2>3. Ready \subseteq Fd  BY DEF Ready
  <2> QED  BY <2>2, <2>3, FS_Subset
<1>6. Cardinality(fs) <= MAX_EVENT_COUNT /\ Cardinality(fs) \in Nat
  <2>1. Cardinality(Ready) \in Int /\ MAX_EVENT_COUNT \in Int  BY <1>5, ClientFds, FS_CardinalityType
  <2>2. Min({Cardinality(Ready), MAX_EVENT_COUNT}) <= MAX_EVENT_COUNT  BY <2>1, MinOfTwo
  <2> QED  BY <1>1, <1>5, <2>2, FS_CardinalityType
<1>7. IsFiniteSet(event_array') /\ Cardinality(event_array') <= MAX_EVENT_COUNT
  <2> DEFINE g == [f \in fs |-> Event(f)]
  <2>1. g \in Surjection(fs, event_array')  BY <1>1 DEF Surjection
  <2> HIDE DEF g
  <2>2. IsFiniteSet(event_array') /\ Cardinality(event_array') <= Cardinality(fs)
    BY <1>5, <2>1, FS_Surjection
  <2>3. Cardinality(event_array') \in Nat  BY <2>2, FS_CardinalityType
  <2> QED  BY <1>6, <2>2, <2>3, ClientFds
<1>8. ASSUME NEW e \in event_array'
      PROVE  e.fd \in Fd /\ e = Event(e.fd)' /\ (e.fd \in ClientFd => e.conn # NoEcho)
  <2>1. PICK f \in fs : e = Event(f)  BY <1>1
  <2>2. e.fd = f /\ e.conn = IF f \in ClientFd THEN conn[f] ELSE NoEcho  BY <2>1 DEF Event
  <2>3. Event(f)' = Event(f)  BY <1>1 DEF Event
  <2>4. f \in Fd  BY DEF Ready
  <2>5. f \in ClientFd => conn[f] # NoEcho  BY ClientFds DEF Ready
  <2> QED  BY <2>1, <2>2, <2>3, <2>4, <2>5
<1>9. EventsOK'  BY <1>7, <1>8 DEF EventsOK
<1> QED  BY <1>2, <1>3, <1>4, <1>9

\* accept gives a descriptor out that no event is left for.
LEMMA AcceptInv ==
    ASSUME EchoInv, NEW e \in event_array, AcceptClient(e)
    PROVE  EchoInv'
<1> USE DEF EchoInv
<1>1. UNCHANGED <<sent, taken, echo, seen, buf, eager>> /\ buf = NoBuf
  BY DEF AcceptClient, Handled
<1>2. \A c \in EchoClient : Passed(c)' = Passed(c)  BY <1>1 DEF Passed
<1>3. BufOK'  BY <1>1 DEF BufOK
<1>4. CASE Stop /\ UNCHANGED <<conn, side>>
  <2>1. event_array' = {} /\ loop' = "stopped"  BY <1>4 DEF Stop
  <2>2. EventsOK'  BY <2>1, EventsShrink
  <2>3. EchoShape' /\ ConnOK'  BY <1>1, <1>4 DEF EchoShape, ConnOK
  <2>4. \A c \in EchoClient : Bytes(c)'  BY <1>1, <1>2, <1>4 DEF Bytes
  <2>5. PatientClientsDoNoHarm'  BY <2>1 DEF PatientClientsDoNoHarm
  <2> QED  BY <1>3, <2>2, <2>3, <2>4, <2>5
<1>5. ASSUME NEW c \in EchoClient, side[c] = "queued", side' = [side EXCEPT ![c] = "open"],
             conn' = [conn EXCEPT ![Min({f \in ClientFd : conn[f] = NoEcho})] = c], Done(e)
      PROVE  EchoInv'
  <2>1. PICK f0 \in ClientFd : conn[f0] = NoEcho /\ conn' = [conn EXCEPT ![f0] = c]
    BY <1>5, FreeFd
  <2>2. event_array' = event_array \ {e} /\ loop' = loop  BY <1>5 DEF Done
  <2>3. side'[c] = "open" /\ \A d \in EchoClient \ {c} : side'[d] = side[d]
    BY <1>5 DEF EchoShape
  <2>4. conn'[f0] = c /\ \A f \in ClientFd \ {f0} : conn'[f] = conn[f]  BY <2>1 DEF EchoShape
  <2>5. EchoShape'
    <3>1. conn' \in [ClientFd -> EchoClient \cup {NoEcho}]  BY <2>1 DEF EchoShape
    <3> QED  BY <1>1, <1>5, <3>1 DEF EchoShape
  <2>6. c # NoEcho  BY EchoAssumption
  <2>7. \A f \in ClientFd : conn[f] # c  BY <1>5, <2>6 DEF ConnOK
  <2>8. ConnOK'
    <3>1. ASSUME NEW f \in ClientFd, conn'[f] # NoEcho PROVE side'[conn'[f]] \in {"open", "left", "broken"}
      <4>1. CASE f = f0  BY <2>3, <2>4, <4>1
      <4>2. CASE f # f0
        <5>1. conn'[f] = conn[f] /\ conn[f] \in EchoClient \ {c}  BY <2>4, <2>7, <3>1, <4>2 DEF EchoShape
        <5> QED  BY <2>3, <3>1, <5>1 DEF ConnOK
      <4> QED  BY <4>1, <4>2
    <3>2. ASSUME NEW f \in ClientFd, NEW g \in ClientFd, conn'[f] # NoEcho, f # g PROVE conn'[f] # conn'[g]
      BY <2>4, <2>7, <3>2 DEF ConnOK
    <3> QED  BY <3>1, <3>2 DEF ConnOK
  <2>9. EventsOK'
    <3>1. ASSUME NEW x \in event_array' PROVE Event(x.fd)' = Event(x.fd)
      <4>1. x = Event(x.fd) /\ (x.fd \in ClientFd => x.conn # NoEcho)  BY <2>2 DEF EventsOK
      <4>2. x.fd \in ClientFd => x.conn = conn[x.fd]  BY <4>1 DEF Event
      <4>3. x.fd # f0  BY <2>1, <4>1, <4>2
      <4> QED  BY <2>4, <4>3 DEF Event
    <3> QED  BY <2>2, <3>1, EventsShrink
  <2>10. ASSUME NEW d \in EchoClient PROVE Bytes(d)'
    <3>1. side'[d] \notin {"left", "broken"} => side[d] \notin {"left", "broken"}  BY <1>5, <2>3
    <3> QED  BY <1>1, <1>2, <3>1 DEF Bytes
  <2>11. PatientClientsDoNoHarm'  BY <1>1, <1>5, <2>2, <2>3 DEF PatientClientsDoNoHarm
  <2> QED  BY <1>3, <2>5, <2>8, <2>9, <2>10, <2>11
<1> QED  BY <1>4, <1>5 DEF AcceptClient

\* A command, or the end of the input.
LEMMA ReadCommandInv ==
    ASSUME EchoInv, NEW e \in event_array, ReadCommand(e)
    PROVE  EchoInv'
<1> USE DEF EchoInv
<1>1. UNCHANGED <<conn, side, sent, taken, echo, seen, buf, eager>>  BY DEF ReadCommand
<1>2. event_array' \subseteq event_array /\ loop' \in {loop, "stopped"}  BY DEF ReadCommand, Stop, Done
<1>3. EchoShape' /\ ConnOK' /\ BufOK'  BY <1>1 DEF EchoShape, ConnOK, BufOK
<1>4. \A c \in EchoClient : Bytes(c)'  BY <1>1 DEF Bytes, Passed
<1>5. PatientClientsDoNoHarm'  BY <1>1, <1>2 DEF PatientClientsDoNoHarm
<1>6. EventsOK'
  <2>1. \A x \in event_array' : Event(x.fd)' = Event(x.fd)  BY <1>1 DEF Event
  <2> QED  BY <1>2, <2>1, EventsShrink
<1> QED  BY <1>3, <1>4, <1>5, <1>6

\* recv takes what there is of the connection the event was for, or closes it.
LEMMA RecvEventInv ==
    ASSUME EchoInv, NEW e \in event_array, RecvEvent(e)
    PROVE  EchoInv'
<1> USE DEF EchoInv
<1> DEFINE f == e.fd
           c == conn[f]
           n == Min({sent[c] - taken[c], BUF_SIZE})
<1>1. /\ UNCHANGED <<side, sent, echo, seen, eager>> /\ buf = NoBuf /\ f \in ClientFd
      /\ event_array' = event_array \ {e} /\ loop' = loop
  BY DEF RecvEvent, Handled, Done
<1>2. e = Event(f) /\ c \in EchoClient /\ c # NoEcho
  <2>1. e = Event(f) /\ e.conn # NoEcho  BY <1>1 DEF EventsOK
  <2>2. e.conn = c  BY <1>1, <2>1 DEF Event
  <2> QED  BY <1>1, <2>1, <2>2 DEF EchoShape
<1>3. \A x \in event_array' : x.fd # f
  BY <1>1, <1>2 DEF EventsOK
<1>4. n \in Nat /\ n <= sent[c] - taken[c]
  <2>1. sent[c] \in Nat /\ taken[c] \in Nat /\ taken[c] <= sent[c] /\ BUF_SIZE \in Nat
    BY <1>2, EchoTypes, ClientFds DEF Bytes
  <2>2. sent[c] - taken[c] \in Nat  BY <2>1
  <2>3. n \in {sent[c] - taken[c], BUF_SIZE} /\ n <= sent[c] - taken[c]
    <3> DEFINE left == sent[c] - taken[c]
    <3>1. left \in Int /\ BUF_SIZE \in Int  BY <2>1, <2>2
    <3> HIDE DEF left
    <3>2. Min({left, BUF_SIZE}) \in {left, BUF_SIZE} /\ Min({left, BUF_SIZE}) <= left
      BY <3>1, MinOfTwo, Zenon
    <3> QED  BY <3>2 DEF left
  <2> QED  BY <2>1, <2>2, <2>3
<1>5. IF n = 0
      THEN conn' = [conn EXCEPT ![f] = NoEcho] /\ UNCHANGED <<taken, buf>>
      ELSE /\ taken' = [taken EXCEPT ![c] = taken[c] + n]
           /\ buf' = [fd |-> f, from |-> taken[c] + 1, to |-> taken[c] + n]
           /\ UNCHANGED conn
  BY DEF RecvEvent
<1>6. PatientClientsDoNoHarm'  BY <1>1 DEF PatientClientsDoNoHarm
<1>7. \A d \in EchoClient : Passed(d) = taken[d]  BY <1>1 DEF Passed
<1> HIDE DEF n
<1>8. CASE n = 0
  <2>1. conn' = [conn EXCEPT ![f] = NoEcho] /\ UNCHANGED <<taken, buf>>  BY <1>5, <1>8
  <2>2. conn'[f] = NoEcho /\ \A g \in ClientFd \ {f} : conn'[g] = conn[g]  BY <1>1, <2>1 DEF EchoShape
  <2>3. EchoShape'  BY <1>1, <2>1 DEF EchoShape
  <2>4. ConnOK'  BY <1>1, <2>2 DEF ConnOK
  <2>5. EventsOK'
    <3>1. ASSUME NEW x \in event_array' PROVE Event(x.fd)' = Event(x.fd)
      BY <1>3, <2>2 DEF Event
    <3> QED  BY <1>1, <3>1, EventsShrink
  <2>6. BufOK'  BY <1>1, <2>1 DEF BufOK
  <2>7. \A d \in EchoClient : Passed(d)' = Passed(d)  BY <1>1, <1>7, <2>1 DEF Passed
  <2>8. \A d \in EchoClient : Bytes(d)'  BY <1>1, <2>1, <2>7 DEF Bytes
  <2> QED  BY <1>6, <2>3, <2>4, <2>5, <2>6, <2>8
<1>9. CASE n # 0
  <2>1. /\ taken' = [taken EXCEPT ![c] = taken[c] + n]
        /\ buf' = [fd |-> f, from |-> taken[c] + 1, to |-> taken[c] + n]
        /\ conn' = conn
    BY <1>5, <1>9
  <2>2. taken[c] \in Nat /\ taken[c] + n \in Nat /\ taken[c] + 1 \in Nat  BY <1>2, <1>4, EchoTypes
  <2>3. taken'[c] = taken[c] + n /\ \A d \in EchoClient \ {c} : taken'[d] = taken[d]
    BY <1>2, <2>1 DEF EchoShape
  <2>4. EchoShape'  BY <1>1, <2>1, <2>2 DEF EchoShape
  <2>5. ConnOK'  BY <1>1, <2>1 DEF ConnOK
  <2>6. EventsOK'
    <3>1. \A x \in event_array' : Event(x.fd)' = Event(x.fd)  BY <2>1 DEF Event
    <3> QED  BY <1>1, <3>1, EventsShrink
  <2>7. /\ buf' # NoBuf /\ buf'.fd = f /\ buf'.from = taken[c] + 1 /\ buf'.to = taken[c] + n
        /\ buf' \in [fd: ClientFd, from: Nat, to: Nat]
    <3>1. f # -1  BY <1>1, ClientFds
    <3> QED  BY <1>1, <2>1, <2>2, <3>1 DEF NoBuf
  <2>8. BufOK'
    <3>1. 1 <= buf'.from /\ buf'.from <= buf'.to /\ buf'.to = taken'[c]  BY <1>4, <1>9, <2>2, <2>3, <2>7
    <3>2. conn'[buf'.fd] = c  BY <2>1, <2>7
    <3> QED  BY <1>2, <2>7, <3>1, <3>2 DEF BufOK
  <2>9. \A d \in EchoClient : Passed(d)' = Passed(d)
    <3> SUFFICES ASSUME NEW d \in EchoClient PROVE Passed(d)' = Passed(d)  OBVIOUS
    <3>1. Passed(d)' = IF c = d THEN (taken[c] + 1) - 1 ELSE taken'[d]  BY <2>1, <2>7 DEF Passed
    <3> QED  BY <1>7, <2>2, <2>3, <3>1
  <2>10. ASSUME NEW d \in EchoClient PROVE Bytes(d)'
    <3>1. CASE d = c
      <4>1. taken[c] + n <= sent[c] /\ Passed(c) <= taken[c] + n  BY <1>2, <1>4, <1>7, EchoTypes
      <4> QED  BY <1>1, <2>3, <2>9, <3>1, <4>1 DEF Bytes
    <3>2. CASE d # c  BY <1>1, <2>3, <2>9, <3>2 DEF Bytes
    <3> QED  BY <3>1, <3>2
  <2> QED  BY <1>6, <2>4, <2>5, <2>6, <2>8, <2>10
<1> QED  BY <1>8, <1>9

\* The echo w after a send of the bytes from..to, when z of it were read.
Sending(w, from, to, z) ==
    w \o [i \in 1..Min({SendRoom - (Len(w) - z), to - from + 1}) |-> from - 1 + i]

\* A send of the bytes from..to can follow on w, of which z bytes were read.
CanSend(w, from, to, z) ==
    /\ w \in Seq(Nat) /\ {from, to, z} \subseteq Nat
    /\ 1 <= from /\ from <= to /\ z <= Len(w) /\ Len(w) <= z + SendRoom /\ Len(w) <= from - 1
    /\ \A i, j \in 1..Len(w) : i < j => w[i] < w[j]
    /\ \A i \in 1..Len(w) : w[i] <= from - 1

\* What is then on the connection, in order, and without a gap when it all fits.
WasSent(is, w, from, to, z) ==
    /\ is \in Seq(Nat)
    /\ z <= Len(is) /\ Len(is) <= z + SendRoom /\ Len(is) <= to
    /\ \A i, j \in 1..Len(is) : i < j => is[i] < is[j]
    /\ \A i \in 1..Len(is) : is[i] <= to
    /\ (Len(w) = from - 1 /\ to <= z + SendRoom /\ \A i \in 1..Len(w) : w[i] = i) =>
          (Len(is) = to /\ \A i \in 1..Len(is) : is[i] = i)

\* It has grown by what the room took.
LEMMA EchoGrows ==
    ASSUME NEW w, NEW from, NEW to, NEW z, CanSend(w, from, to, z)
    PROVE  WasSent(Sending(w, from, to, z), w, from, to, z)
<1> USE DEF CanSend
<1> DEFINE room == SendRoom - (Len(w) - z)
           k == to - from + 1
           n == Min({room, k})
           add == [i \in 1..n |-> from - 1 + i]
           is == w \o add
<1>1. Len(w) \in Nat /\ \A i \in 1..Len(w) : w[i] \in Nat  BY LenProperties, ElementOfSeq
<1>2. room \in Nat /\ k \in Nat /\ SendRoom \in Nat  BY <1>1, ClientFds
<1>3. n \in Nat /\ n <= room /\ n <= k /\ n \in {room, k}
  <2>1. \A a, b \in Int : Min({a, b}) \in {a, b} /\ Min({a, b}) <= a /\ Min({a, b}) <= b
    BY MinOfTwo
  <2>2. room \in Int /\ k \in Int  BY <1>2
  <2> HIDE DEF room, k
  <2>3. n \in {room, k} /\ n <= room /\ n <= k  BY <2>1, <2>2, Zenon
  <2> QED  BY <1>2, <2>3
<1> HIDE DEF n
<1>4. add \in Seq(Nat) /\ Len(add) = n /\ \A i \in 1..n : add[i] = from - 1 + i
  BY <1>3
<1> HIDE DEF add
<1>5. is \in Seq(Nat) /\ Len(is) = Len(w) + n  BY <1>4, ConcatProperties
<1>6. ASSUME NEW i \in 1..Len(w) PROVE is[i] = w[i]
  <2>1. i \in 1..Len(w) + Len(add) /\ i <= Len(w)  BY <1>1, <1>3, <1>4
  <2> QED  BY <1>4, <2>1, ConcatProperties
<1>7. ASSUME NEW i \in 1..Len(is), i > Len(w) PROVE is[i] = from - 1 + (i - Len(w)) /\ i - Len(w) \in 1..n
  <2>1. i \in 1..Len(w) + Len(add) /\ ~(i <= Len(w)) /\ i - Len(w) \in 1..n
    BY <1>1, <1>3, <1>4, <1>5, <1>7
  <2> QED  BY <1>4, <2>1, ConcatProperties
<1>8. ASSUME NEW i \in 1..Len(is) PROVE i \in 1..Len(w) \/ i > Len(w)  BY <1>1
<1> HIDE DEF is
<1>9. z <= Len(is) /\ Len(is) <= z + SendRoom /\ Len(is) <= to
  BY <1>1, <1>2, <1>3, <1>5
<1>10. ASSUME NEW i \in 1..Len(is) PROVE is[i] <= to
  <2>1. CASE i \in 1..Len(w)  BY <1>1, <1>6, <2>1
  <2>2. CASE i > Len(w)
    <3>1. is[i] = from - 1 + (i - Len(w)) /\ i - Len(w) <= n  BY <1>7, <2>2
    <3>2. i \in Nat  OBVIOUS
    <3> QED  BY <1>1, <1>3, <3>1, <3>2
  <2> QED  BY <1>8, <2>1, <2>2
<1>11. ASSUME NEW i \in 1..Len(is), NEW j \in 1..Len(is), i < j PROVE is[i] < is[j]
  <2>1. CASE j \in 1..Len(w)
    <3>1. i \in 1..Len(w)  BY <1>1, <1>11, <2>1
    <3> QED  BY <1>6, <1>11, <2>1, <3>1
  <2>2. CASE i \in 1..Len(w) /\ j > Len(w)
    <3>1. is[i] \in Nat /\ is[i] <= from - 1  BY <1>1, <1>6, <2>2
    <3>2. is[j] = from - 1 + (j - Len(w)) /\ j \in Nat  BY <1>7, <2>2
    <3> QED  BY <1>1, <2>2, <3>1, <3>2
  <2>3. CASE i > Len(w)
    <3>1. j > Len(w) /\ i \in Nat /\ j \in Nat  BY <1>1, <1>11, <2>3
    <3>2. is[i] = from - 1 + (i - Len(w)) /\ is[j] = from - 1 + (j - Len(w))  BY <1>7, <2>3, <3>1
    <3> QED  BY <1>1, <1>11, <3>1, <3>2
  <2> QED  BY <1>8, <2>1, <2>2, <2>3
<1>12. ASSUME Len(w) = from - 1, to <= z + SendRoom, \A i \in 1..Len(w) : w[i] = i
       PROVE  Len(is) = to /\ \A i \in 1..Len(is) : is[i] = i
  <2>1. n = k  BY <1>1, <1>2, <1>3, <1>12
  <2>2. Len(is) = to  BY <1>1, <1>5, <1>12, <2>1
  <2>3. ASSUME NEW i \in 1..Len(is) PROVE is[i] = i
    <3>1. CASE i \in 1..Len(w)  BY <1>6, <1>12, <3>1
    <3>2. CASE i > Len(w)
      <4>1. is[i] = from - 1 + (i - Len(w)) /\ i \in Nat  BY <1>7, <3>2
      <4> QED  BY <1>1, <1>12, <4>1
    <3> QED  BY <1>8, <3>1, <3>2
  <2> QED  BY <2>2, <2>3
<1>13. is = Sending(w, from, to, z)  BY DEF is, add, n, Sending
<1> QED  BY <1>5, <1>9, <1>10, <1>11, <1>12, <1>13 DEF WasSent

\* send gives back what there is room for, and gives the rest up.
LEMMA SendBackInv == ASSUME EchoInv, SendBack PROVE EchoInv'
<1> USE DEF EchoInv
<1>1. /\ UNCHANGED <<conn, sent, taken, seen, event_array, eager>>
      /\ loop = "running" /\ buf # NoBuf /\ buf' = NoBuf
  BY DEF SendBack
<1>2. PICK c \in EchoClient : c = conn[buf.fd]
  BY <1>1 DEF BufOK, EchoShape
<1>3. /\ buf.fd \in ClientFd /\ buf.from \in Nat /\ buf.to \in Nat
      /\ 1 <= buf.from /\ buf.from <= buf.to /\ buf.to = taken[c]
      /\ side[c] \in {"open", "left", "broken"}
  BY <1>1, <1>2 DEF BufOK, ConnOK
<1>4. Passed(c) = buf.from - 1 /\ \A d \in EchoClient \ {c} : Passed(d) = taken[d]
  BY <1>1, <1>2 DEF Passed
<1>5. \A d \in EchoClient : Passed(d)' = taken[d]  BY <1>1 DEF Passed
<1>6. BufOK'  BY <1>1 DEF BufOK
<1>7. EventsOK'  BY <1>1 DEF EventsOK, Event
<1>8. ASSUME NEW d \in EchoClient \ {c}, side'[d] = side[d], echo'[d] = echo[d] PROVE Bytes(d)'
  BY <1>1, <1>4, <1>5, <1>8 DEF Bytes
<1>9. /\ seen[c] \in Nat /\ sent[c] \in Nat /\ taken[c] \in Nat /\ echo[c] \in Seq(Nat)
      /\ Len(echo[c]) \in Nat /\ \A i \in 1..Len(echo[c]) : echo[c][i] \in Nat
  BY EchoTypes
<1>10. /\ seen[c] <= Len(echo[c]) /\ Len(echo[c]) <= seen[c] + SendRoom
       /\ Len(echo[c]) <= buf.from - 1 /\ taken[c] <= sent[c] /\ sent[c] <= MaxSent[c]
       /\ \A i, j \in 1..Len(echo[c]) : i < j => echo[c][i] < echo[c][j]
       /\ \A i \in 1..Len(echo[c]) : echo[c][i] <= buf.from - 1
       /\ c \notin eager =>
             /\ sent[c] <= seen[c] + SendRoom
             /\ \A i \in 1..Len(echo[c]) : echo[c][i] = i
             /\ side[c] \notin {"left", "broken"} => Len(echo[c]) = buf.from - 1
  BY <1>4 DEF Bytes
<1>11. taken[c] <= taken[c]  BY <1>9
<1>12. CASE side[c] = "open"
  <2> DEFINE w == echo[c]
             is == Sending(w, buf.from, buf.to, seen[c])
  <2>1. /\ echo' = [echo EXCEPT ![c] = is] /\ UNCHANGED <<side, loop>>
    BY <1>2, <1>12 DEF SendBack, Sending
  <2>2. /\ is \in Seq(Nat)
        /\ seen[c] <= Len(is) /\ Len(is) <= seen[c] + SendRoom /\ Len(is) <= buf.to
        /\ \A i, j \in 1..Len(is) : i < j => is[i] < is[j]
        /\ \A i \in 1..Len(is) : is[i] <= buf.to
        /\ (Len(w) = buf.from - 1 /\ buf.to <= seen[c] + SendRoom /\ \A i \in 1..Len(w) : w[i] = i) =>
              (Len(is) = buf.to /\ \A i \in 1..Len(is) : is[i] = i)
    <3>1. CanSend(w, buf.from, buf.to, seen[c])  BY <1>3, <1>9, <1>10 DEF CanSend
    <3>2. WasSent(is, w, buf.from, buf.to, seen[c])  BY <3>1, EchoGrows
    <3> QED  BY <3>2 DEF WasSent
  <2> HIDE DEF is
  <2>3. echo'[c] = is /\ \A d \in EchoClient \ {c} : echo'[d] = echo[d]  BY <2>1 DEF EchoShape
  <2>4. EchoShape'
    <3>1. echo' \in [EchoClient -> Seq(Nat)]  BY <2>1, <2>2 DEF EchoShape
    <3> QED  BY <1>1, <2>1, <3>1 DEF EchoShape
  <2>5. c \notin eager => Len(is) = taken[c] /\ \A i \in 1..Len(is) : is[i] = i
    <3>1. SUFFICES ASSUME c \notin eager PROVE Len(is) = buf.to /\ \A i \in 1..Len(is) : is[i] = i
      BY <1>3
    <3>2. taken[c] <= sent[c] /\ sent[c] <= seen[c] + SendRoom /\ SendRoom \in Nat  BY <1>10, <3>1, ClientFds
    <3>3. buf.to <= seen[c] + SendRoom  BY <1>3, <1>9, <3>2
    <3> QED  BY <1>10, <1>12, <2>2, <3>1, <3>3
  <2> HIDE DEF w
  <2>6. Bytes(c)'
    BY <1>1, <1>3, <1>5, <1>10, <1>11, <2>1, <2>2, <2>3, <2>5 DEF Bytes
  <2>7. \A d \in EchoClient : Bytes(d)'  BY <1>8, <2>1, <2>3, <2>6
  <2>8. ConnOK' /\ PatientClientsDoNoHarm'  BY <1>1, <2>1 DEF ConnOK, PatientClientsDoNoHarm
  <2> QED  BY <1>6, <1>7, <2>4, <2>7, <2>8
<1>13. ASSUME side' = [side EXCEPT ![c] = "broken"], echo' = echo
       PROVE  EchoShape' /\ ConnOK' /\ \A d \in EchoClient : Bytes(d)'
  <2>1. side'[c] = "broken" /\ \A d \in EchoClient \ {c} : side'[d] = side[d]  BY <1>13 DEF EchoShape
  <2>2. side' \in [EchoClient -> {"new", "queued", "open", "left", "broken"}]  BY <1>13 DEF EchoShape
  <2>3. EchoShape'  BY <1>1, <1>13, <2>2 DEF EchoShape
  <2>4. ConnOK'  BY <1>1, <2>1 DEF ConnOK, EchoShape
  <2>5. Len(echo[c]) <= taken[c] /\ \A i \in 1..Len(echo[c]) : echo[c][i] <= taken[c]
    BY <1>3, <1>9, <1>10
  <2>6. Bytes(c)'  BY <1>1, <1>5, <1>10, <1>11, <1>13, <2>1, <2>5 DEF Bytes
  <2> QED  BY <1>8, <1>13, <2>1, <2>3, <2>4, <2>6
<1>14. CASE side[c] = "left"
  <2>1. side' = [side EXCEPT ![c] = "broken"] /\ UNCHANGED <<echo, loop>>  BY <1>2, <1>14 DEF SendBack
  <2>2. PatientClientsDoNoHarm'  BY <1>1, <2>1 DEF PatientClientsDoNoHarm
  <2> QED  BY <1>6, <1>7, <1>13, <2>1, <2>2
<1>15. CASE side[c] = "broken"
  <2>1. UNCHANGED <<echo, side>>  BY <1>2, <1>15 DEF SendBack
  <2>2. side' = [side EXCEPT ![c] = "broken"]  BY <1>15, <2>1 DEF EchoShape
  <2>3. seen[c] < sent[c]  BY <1>3, <1>9, <1>10
  <2>4. PatientClientsDoNoHarm'  BY <1>1, <1>15, <2>1, <2>3 DEF PatientClientsDoNoHarm
  <2> QED  BY <1>6, <1>7, <1>13, <2>1, <2>2, <2>4
<1> QED  BY <1>3, <1>12, <1>14, <1>15

\* Every step keeps the invariant.
LEMMA EchoNextInv == EchoInv /\ [EpollNext]_epollvars => EchoInv'
<1> SUFFICES ASSUME EchoInv, [EpollNext]_epollvars PROVE EchoInv'  OBVIOUS
<1>1. CASE HandleEvent
  BY <1>1, SendBackInv, AcceptInv, ReadCommandInv, RecvEventInv DEF HandleEvent
<1>2. ASSUME NEW what, TypeCommand(what) PROVE EchoInv'
  <2>1. UNCHANGED <<conn, side, sent, taken, echo, seen, event_array, buf, addr_len, loop, eager>>
    BY <1>2 DEF TypeCommand
  <2> QED  BY <2>1, EchoFrame
        DEF EchoInv, EchoShape, ConnOK, Bytes, PatientClientsDoNoHarm
<1>3. CASE UNCHANGED epollvars
  <2>1. UNCHANGED <<conn, side, sent, taken, echo, seen, event_array, buf, addr_len, loop, eager>>
    BY <1>3 DEF epollvars
  <2> QED  BY <2>1, EchoFrame
        DEF EchoInv, EchoShape, ConnOK, Bytes, PatientClientsDoNoHarm
<1> QED  BY <1>1, <1>2, <1>3, EpollWaitInv, EchoClientInv DEF EpollNext

\* Each event is handled for the connection it came from, each echo is what its client
\* sent, in order and, if it was patient, without a gap, and only a client that left
\* early kills the server, for every number of clients, of events, and size of buffer.
THEOREM EchoStaysSound == EpollSpec => []EchoSound
<1>1. EchoInv => EchoSound
  <2> SUFFICES ASSUME EchoInv PROVE EchoSound  OBVIOUS
  <2> USE DEF EchoInv
  <2>1. EventsAreFresh  BY DEF EventsOK, EventsAreFresh
  <2>2. EchoIsPrefix
    <3> SUFFICES ASSUME NEW c \in EchoClient
                 PROVE  /\ \A i, j \in DOMAIN echo[c] : i < j => echo[c][i] < echo[c][j]
                        /\ c \notin eager => \A i \in DOMAIN echo[c] : echo[c][i] = i
      BY DEF EchoIsPrefix
    <3>1. DOMAIN echo[c] = 1..Len(echo[c])  BY EchoTypes, LenProperties
    <3> QED  BY <3>1 DEF Bytes
  <2>3. EpollTypeOK
    <3>1. event_array \subseteq {[fd |-> f, conn |-> c] : f \in Fd, c \in EchoClient \cup {NoEcho}}
      <4> SUFFICES ASSUME NEW e \in event_array
                   PROVE  \E f \in Fd, c \in EchoClient \cup {NoEcho} : e = [fd |-> f, conn |-> c]
        OBVIOUS
      <4>1. e.fd \in Fd /\ e = Event(e.fd)  BY DEF EventsOK
      <4>2. (IF e.fd \in ClientFd THEN conn[e.fd] ELSE NoEcho) \in EchoClient \cup {NoEcho}
        BY DEF EchoShape
      <4> QED  BY <4>1, <4>2 DEF Event
    <3>2. ASSUME NEW c \in EchoClient
          PROVE  /\ 0 <= seen[c] /\ seen[c] <= Len(echo[c]) /\ Len(echo[c]) <= taken[c]
                 /\ taken[c] <= sent[c] /\ sent[c] <= MaxSent[c]
      <4>1. Passed(c) \in Int
        <5>1. taken[c] \in Nat  BY EchoTypes
        <5> QED  BY <5>1 DEF Passed, BufOK
      <4> QED  BY <4>1, EchoTypes DEF Bytes
    <3> QED  BY <3>1, <3>2 DEF EpollTypeOK, EchoShape, EventsOK
  <2> QED  BY <2>1, <2>2, <2>3 DEF EchoSound
<1> QED  BY EchoInitInv, EchoNextInv, <1>1, PTL DEF EpollSpec

==============================================================================
