--------------------------- MODULE ExamplesProofs ---------------------------
(***************************************************************************)
(* The examples whose actors share something, for any number of them and   *)
(* any sizes: the processes and threads of Tasks, the two threads and the  *)
(* statistics of Ping, and the clients and servers of Datagrams.           *)
(***************************************************************************)
EXTENDS Tasks, Ping, Datagrams, FiniteSetTheorems, SequenceTheorems,
        NaturalsInduction, WellFoundedInduction, TLAPS

-----------------------------------------------------------------------------
(* Minima.                                                                 *)

\* The lesser of two numbers, as the models write it.
LEMMA MinOfTwo ==
    ASSUME NEW a \in Int, NEW b \in Int
    PROVE  Min({a, b}) \in {a, b} /\ Min({a, b}) <= a /\ Min({a, b}) <= b
<1>1. \E x \in {a, b} : \A y \in {a, b} : x <= y
  <2>1. a <= b \/ b <= a  OBVIOUS
  <2> QED  BY <2>1
<1> DEFINE m == CHOOSE x \in {a, b} : \A y \in {a, b} : x <= y
<1>2. m \in {a, b} /\ \A y \in {a, b} : m <= y  BY <1>1
<1>3. Min({a, b}) = m  BY DEF Min
<1> HIDE DEF m
<1> QED  BY <1>2, <1>3

\* The least element of a set of numbers.
LEMMA LeastIs ==
    ASSUME NEW S, S \subseteq Nat, S # {} PROVE Min(S) \in S /\ \A y \in S : Min(S) <= y
<1>1. PICK x \in S : \A y \in S : ~(<<y, x>> \in OpToRel(<, Nat))
  BY NatLessThanWellFounded, WFMin
<1>2. ASSUME NEW y \in S PROVE x <= y
  <2>1. x \in Nat /\ y \in Nat  OBVIOUS
  <2>2. SUFFICES ASSUME y < x PROVE FALSE  BY <2>1
  <2>3. <<y, x>> \in OpToRel(<, Nat)  BY <2>1, <2>2 DEF OpToRel
  <2> QED  BY <1>1, <2>3
<1> QED  BY <1>2 DEF Min

-----------------------------------------------------------------------------
(* Tasks: the inductive invariant.                                         *)

TwoThreads == {"producter", "consumer"}

\* The places of the code where each process or thread of an example can be.
Places(t, p) ==
    CASE p = "main" -> (CASE t \in {"test2", "test3"} -> {"read", "done"}
                          [] t = "shm" -> {"memcpy", "sem_p", "destroy", "done"}
                          [] t = "none" -> {"none"}
                          [] OTHER -> {"sleep", "join", "done"})
      [] p = "child" -> (CASE t \in {"test2", "test3"} -> {"write", "sleep", "done"}
                           [] t = "shm" -> {"sem_v", "print", "done"}
                           [] OTHER -> {"none"})
      [] p = "producter" -> (CASE t = "mutex" -> {"test", "lock", "load", "store", "unlock", "exit", "done"}
                               [] t = "sem" -> {"test", "post", "exit", "done"}
                               [] t = "pthread" -> {"test", "exit", "done"}
                               [] OTHER -> {"none"})
      [] OTHER -> (CASE t = "mutex" -> {"test", "lock", "load", "store", "unlock", "exit", "done"}
                     [] t = "sem" -> {"test", "wait", "exit", "done"}
                     [] OTHER -> {"none"})

PlacesOK ==
    /\ task \in Task \cup {"none"}
    /\ pc = [p \in Proc |-> pc[p]]
    /\ \A p \in Proc : pc[p] \in Places(task, p)

\* What the child was to write is in the pipe, has been read, or is still to come.
ToWrite == CASE task = "test3" -> WRITELEN [] task = "test2" -> 1 [] OTHER -> 0
PipeOK ==
    /\ pipe \in Nat /\ nread \in Nat /\ cut \in Nat /\ write_size \in Nat
    /\ pipe <= PipeSize
    /\ cut <= write_size
    /\ pipe + nread + (write_size - cut) = ToWrite
    /\ write_size \in {0, ToWrite}

\* The semaphore is above 0 only when the message is there.
ShmOK ==
    /\ semaphore \in {NoSemaphore, 0, 1}
    /\ shm \in {"old", "msg"} /\ printed \in {"nothing", "old", "msg"}
    /\ pc["main"] \in {"sem_p", "destroy"} => shm = "msg"
    /\ semaphore = 1 => shm = "msg" /\ pc["main"] \notin {"memcpy", "sem_p"}
    /\ downed => shm = "msg"
    /\ printed # "nothing" => pc["child"] = "done"
    /\ downed /\ printed # "nothing" => printed = "msg"
    /\ task # "shm" => ~downed /\ printed = "nothing" /\ semaphore # 1

\* Who is between lock and unlock holds the mutex, and what it read is the count.
MutexOK ==
    /\ value \in Int
    /\ items \in [made: Int, used: Int]
    /\ tmp \in [Proc -> Int]
    /\ mutex \in {Nobody} \cup TwoThreads
    /\ \A p \in TwoThreads : pc[p] \in {"load", "store", "unlock"} <=> mutex = p
    /\ \A p \in TwoThreads : pc[p] = "store" => tmp[p] = value
    /\ task = "mutex" => value = items.made - items.used
    /\ task = "none" => items.made = 0 /\ items.used = 0

TaskInv == PlacesOK /\ PipeOK /\ ShmOK /\ MutexOK

-----------------------------------------------------------------------------

\* The sizes are numbers, and none is 0.
LEMMA TaskNumbers ==
    /\ WRITELEN \in Nat /\ PipeSize \in Nat /\ READLEN \in Nat
    /\ WRITELEN > 0 /\ PipeSize > 0 /\ READLEN > 0
BY TaskAssumption

\* Only the process that a step is about moves, to a place of its own.
LEMMA Moves ==
    ASSUME PlacesOK, NEW p \in Proc, NEW l, l \in Places(task, p), task' = task, Goto(p, l)
    PROVE  PlacesOK' /\ pc'[p] = l /\ \A q \in Proc \ {p} : pc'[q] = pc[q]
<1>1. pc' = [pc EXCEPT ![p] = l]  BY DEF Goto
<1>2. pc' = [q \in Proc |-> pc'[q]] /\ pc'[p] = l /\ \A q \in Proc \ {p} : pc'[q] = pc[q]
  BY <1>1 DEF PlacesOK
<1>3. \A q \in Proc : pc'[q] \in Places(task', q)  BY <1>2 DEF PlacesOK
<1> QED  BY <1>2, <1>3 DEF PlacesOK

\* No example has begun.
LEMMA TaskInitInv == TaskInit => TaskInv
<1> SUFFICES ASSUME TaskInit PROVE TaskInv  OBVIOUS
<1> USE DEF TaskInit
<1>1. PlacesOK
  <2>1. pc = [p \in Proc |-> pc[p]] /\ \A p \in Proc : pc[p] = "none"  OBVIOUS
  <2>2. \A p \in Proc : "none" \in Places("none", p)  BY DEF Places, Proc
  <2> QED  BY <2>1, <2>2 DEF PlacesOK
<1>2. PipeOK
  <2>1. ToWrite = 0 /\ 0 \in {0, ToWrite}  BY DEF ToWrite
  <2>2. 0 <= PipeSize /\ 0 + 0 + (0 - 0) = 0  BY TaskNumbers
  <2>3. pipe = 0 /\ nread = 0 /\ cut = 0 /\ write_size = 0  OBVIOUS
  <2> HIDE DEF TaskInit
  <2> QED  BY <2>1, <2>2, <2>3 DEF PipeOK
<1>3. ShmOK  BY DEF ShmOK, NoSemaphore, Proc
<1>4. MutexOK  BY DEF MutexOK, TwoThreads, Proc, Nobody
<1> QED  BY <1>1, <1>2, <1>3, <1>4 DEF TaskInv

\* An example is begun.
LEMMA RunTaskInv == TaskInv /\ RunTask => TaskInv'
<1> SUFFICES ASSUME TaskInv, RunTask PROVE TaskInv'  OBVIOUS
<1> USE DEF TaskInv
<1>1. /\ task = "none" /\ task' \in Task
      /\ pc' = [p \in Proc |-> FirstPc(task', p)]
  BY DEF RunTask
<1>2. \A p \in Proc : FirstPc(task', p) \in Places(task', p)
  <2> SUFFICES ASSUME NEW p \in Proc PROVE FirstPc(task', p) \in Places(task', p)  OBVIOUS
  <2>1. CASE p = "main"  BY <1>1, <2>1 DEF FirstPc, Places, Task
  <2>2. CASE p = "child"  BY <1>1, <2>2 DEF FirstPc, Places, Task
  <2>3. CASE p = "producter"  BY <1>1, <2>3 DEF FirstPc, Places, Task
  <2>4. CASE p = "consumer"  BY <1>1, <2>4 DEF FirstPc, Places, Task
  <2> QED  BY <2>1, <2>2, <2>3, <2>4 DEF Proc
<1>3. PlacesOK'  BY <1>1, <1>2 DEF PlacesOK
<1>4. PipeOK'
  <2>1. pipe' = pipe /\ cut' = cut /\ nread' = nread /\ ToWrite = 0  BY <1>1 DEF RunTask, ToWrite
  <2>2. pipe = 0 /\ nread = 0 /\ cut = 0 /\ write_size = 0  BY <2>1 DEF PipeOK
  <2>3. write_size' = ToWrite'  BY DEF RunTask, ToWrite
  <2>4. ToWrite' \in Nat  BY TaskNumbers DEF ToWrite
  <2>5. pipe' + nread' + (write_size' - cut') = ToWrite'
    <3>1. \A w \in Nat : 0 + 0 + (w - 0) = w  OBVIOUS
    <3>2. pipe' = 0 /\ nread' = 0 /\ cut' = 0  BY <2>1, <2>2
    <3> QED  BY <2>3, <2>4, <3>1, <3>2
  <2>6. cut' <= write_size' /\ pipe' <= PipeSize  BY <2>1, <2>2, <2>3, <2>4, TaskNumbers
  <2>7. write_size' \in {0, ToWrite'}  BY <2>3
  <2>8. pipe' \in Nat /\ nread' \in Nat /\ cut' \in Nat /\ write_size' \in Nat
    BY <2>1, <2>2, <2>3, <2>4
  <2> QED  BY <2>5, <2>6, <2>7, <2>8 DEF PipeOK
<1>5. ShmOK'
  <2>1. shm' = shm /\ printed' = printed /\ downed' = downed /\ semaphore' \in {NoSemaphore, 0}
    BY DEF RunTask
  <2>2. pc'["main"] \notin {"sem_p", "destroy"}  BY <1>1 DEF FirstPc, Proc
  <2>3. task' # "none"  BY <1>1 DEF Task
  <2> QED  BY <1>1, <2>1, <2>2, <2>3 DEF ShmOK, NoSemaphore
<1>6. MutexOK'
  <2>1. items' = items /\ tmp' = tmp /\ mutex' = mutex /\ (task' = "mutex" => value' = 0) /\ value' \in Int
    BY TaskAssumption DEF RunTask
  <2>2. \A p \in TwoThreads : pc[p] = "none"  BY <1>1 DEF PlacesOK, Places, TwoThreads, Proc
  <2>3. mutex = Nobody  BY <2>2 DEF MutexOK
  <2>4. \A p \in TwoThreads : pc'[p] \in {"test", "none"}  BY <1>1 DEF FirstPc, TwoThreads, Proc
  <2>5. task' # "none"  BY <1>1 DEF Task
  <2> QED  BY <1>1, <2>1, <2>3, <2>4, <2>5 DEF MutexOK, TwoThreads, Nobody
<1> QED  BY <1>3, <1>4, <1>5, <1>6

\* What a step leaves alone stays as it was: the threads and their count,
LEMMA ThreadsFrame ==
    ASSUME MutexOK, task' = task, UNCHANGED <<value, tmp, mutex, items>>, \A q \in TwoThreads : pc'[q] = pc[q]
    PROVE  MutexOK'
BY DEF MutexOK

\* the shared memory of an example that has none,
LEMMA ShmFrame ==
    ASSUME ShmOK, PlacesOK', task' = task, task # "shm", UNCHANGED shmvars
    PROVE  ShmOK'
<1>1. shm' = shm /\ semaphore' = semaphore /\ printed' = printed /\ downed' = downed  BY DEF shmvars
<1>2. pc'["main"] \notin {"sem_p", "destroy"}  BY DEF PlacesOK, Places, Proc
<1> QED  BY <1>1, <1>2 DEF ShmOK

\* and the pipe.
LEMMA PipeFrame == ASSUME PipeOK, task' = task, UNCHANGED pipevars PROVE PipeOK'
<1>1. pipe' = pipe /\ write_size' = write_size /\ cut' = cut /\ nread' = nread  BY DEF pipevars
<1> QED  BY <1>1 DEF PipeOK, ToWrite

\* A write or a read of the pipe keeps count of every byte.
LEMMA PipeStepInv ==
    ASSUME TaskInv, PipeWrite \/ PipeSleep \/ PipeWake \/ (task \in {"test2", "test3"} /\ PipeRead)
    PROVE  TaskInv'
<1> USE DEF TaskInv
<1>1. task' = task /\ UNCHANGED shmvars /\ UNCHANGED <<value, tmp, mutex, items>>
  BY DEF PipeWrite, PipeSleep, PipeWake, PipeRead, threadvars
<1>2. task \in {"test2", "test3"}
  BY DEF PipeWrite, PipeSleep, PipeWake, PlacesOK, Places, Proc, At, Task
<1>3. /\ "write" \in Places(task, "child") /\ "sleep" \in Places(task, "child")
      /\ "done" \in Places(task, "child") /\ "done" \in Places(task, "main")
  BY <1>2 DEF Places
<1>4. ASSUME PlacesOK', \A q \in TwoThreads : pc'[q] = pc[q], PipeOK' PROVE TaskInv'
  BY <1>1, <1>2, <1>4, ThreadsFrame, ShmFrame
<1>5. ASSUME NEW p \in {"main", "child"}, NEW l \in {"write", "sleep", "done"}, l \in Places(task, p),
             UNCHANGED pc \/ Goto(p, l)
      PROVE  PlacesOK' /\ \A q \in TwoThreads : pc'[q] = pc[q]
  BY <1>1, <1>5, Moves DEF TwoThreads, Proc, PlacesOK
<1>6. CASE PipeWrite
  <2>1. PICK n \in 1..Min({PipeSize - pipe, write_size - cut}) :
          /\ pipe' = pipe + n
          /\ IF cut + n < write_size
             THEN cut' = cut + n /\ UNCHANGED <<write_size, pc>>
             ELSE /\ cut' = 0
                  /\ write_size' = 0
                  /\ IF task = "test2" THEN Goto("child", "done") ELSE UNCHANGED pc
    BY <1>6 DEF PipeWrite
  <2>2. PipeSize - pipe \in Int /\ write_size - cut \in Int  BY TaskNumbers DEF PipeOK
  <2> DEFINE m == Min({PipeSize - pipe, write_size - cut})
  <2>a. m \in Int /\ m <= PipeSize - pipe /\ m <= write_size - cut
    <3>1. m \in {PipeSize - pipe, write_size - cut} /\ m <= PipeSize - pipe /\ m <= write_size - cut
      BY <2>2, MinOfTwo
    <3> QED  BY <2>2, <3>1
  <2>b. n \in 1..m  OBVIOUS
  <2> HIDE DEF m
  <2>3. n \in Nat /\ n <= PipeSize - pipe /\ n <= write_size - cut  BY <2>2, <2>a, <2>b
  <2>4. nread' = nread /\ write_size > 0  BY <1>6 DEF PipeWrite
  <2>5. PipeOK'
    <3>1. CASE cut + n < write_size
      BY <1>1, <2>1, <2>3, <2>4, <3>1, TaskNumbers DEF PipeOK, ToWrite
    <3>2. CASE ~(cut + n < write_size)
      BY <1>1, <2>1, <2>3, <2>4, <3>2, TaskNumbers DEF PipeOK, ToWrite
    <3> QED  BY <3>1, <3>2
  <2> QED  BY <1>3, <1>4, <1>5, <2>1, <2>5
<1>7. CASE PipeSleep \/ PipeWake
  <2>1. UNCHANGED pipevars  BY <1>7 DEF PipeSleep, PipeWake
  <2> QED  BY <1>1, <1>3, <1>4, <1>5, <1>7, <2>1, PipeFrame DEF PipeSleep, PipeWake
<1>8. CASE PipeRead
  <2> DEFINE n == Min({pipe, READLEN})
  <2>1. n \in Nat /\ n <= pipe
    <3>1. pipe \in Nat /\ READLEN \in Nat  BY TaskNumbers DEF PipeOK
    <3>2. n \in {pipe, READLEN} /\ n <= pipe  BY <3>1, MinOfTwo
    <3> QED  BY <3>1, <3>2
  <2> HIDE DEF n
  <2>2. write_size' = write_size /\ cut' = cut  BY <1>8 DEF PipeRead
  <2>3. (nread' = nread + n /\ pipe' = pipe - n) \/ (nread' = nread /\ pipe' = pipe)
    BY <1>8 DEF PipeRead, n
  <2>4. PipeOK'  BY <1>1, <2>1, <2>2, <2>3, TaskNumbers DEF PipeOK, ToWrite
  <2>5. UNCHANGED pc \/ Goto("main", "done")  BY <1>8 DEF PipeRead
  <2> QED  BY <1>3, <1>4, <1>5, <2>4, <2>5
<1> QED  BY <1>6, <1>7, <1>8

\* The semaphore and the message.
LEMMA ShmStepInv ==
    ASSUME TaskInv, (task = "shm" /\ ShmParent) \/ Sem_V \/ ShmPrint
    PROVE  TaskInv'
<1> USE DEF TaskInv
<1>1. task' = task /\ UNCHANGED pipevars /\ UNCHANGED <<value, tmp, mutex, items>>
  BY DEF ShmParent, Sem_V, ShmPrint, threadvars
<1>2. task = "shm"  BY DEF Sem_V, ShmPrint, PlacesOK, Places, Proc, At, Task
<1>3. PipeOK'  BY <1>1, PipeFrame
<1>4. /\ \A l \in {"sem_p", "destroy", "done"} : l \in Places(task, "main")
      /\ \A l \in {"print", "done"} : l \in Places(task, "child")
  BY <1>2 DEF Places
<1>5. ASSUME NEW p \in {"main", "child"}, NEW l \in {"sem_p", "destroy", "print", "done"},
             l \in Places(task, p), Goto(p, l)
      PROVE  PlacesOK' /\ MutexOK' /\ pc'[p] = l /\ \A q \in {"main", "child"} \ {p} : pc'[q] = pc[q]
  <2>1. PlacesOK' /\ pc'[p] = l /\ \A q \in Proc \ {p} : pc'[q] = pc[q]
    BY <1>1, <1>5, Moves DEF Proc
  <2>2. \A q \in TwoThreads : pc'[q] = pc[q]  BY <2>1 DEF TwoThreads, Proc
  <2> QED  BY <1>1, <2>1, <2>2, ThreadsFrame DEF Proc
<1>6. CASE ShmParent
  <2>1. downed' = downed /\ printed' = printed  BY <1>6 DEF ShmParent
  <2>2. CASE At("main", "memcpy") /\ Goto("main", "sem_p") /\ shm' = "msg" /\ UNCHANGED semaphore
    <3>1. PlacesOK' /\ MutexOK' /\ pc'["main"] = "sem_p" /\ pc'["child"] = pc["child"]
      BY <1>4, <1>5, <2>2
    <3>2. ShmOK'  BY <1>1, <1>2, <2>1, <2>2, <3>1 DEF ShmOK, At
    <3> QED  BY <1>3, <3>1, <3>2
  <2>3. CASE /\ At("main", "sem_p") /\ Goto("main", "destroy") /\ UNCHANGED shm
             /\ semaphore' = IF semaphore = NoSemaphore THEN NoSemaphore ELSE semaphore + 1
    <3>1. PlacesOK' /\ MutexOK' /\ pc'["main"] = "destroy" /\ pc'["child"] = pc["child"]
      BY <1>4, <1>5, <2>3
    <3>2. semaphore' \in {NoSemaphore, 1}  BY <2>3 DEF ShmOK, At, NoSemaphore
    <3>3. ShmOK'  BY <1>1, <1>2, <2>1, <2>3, <3>1, <3>2 DEF ShmOK, At
    <3> QED  BY <1>3, <3>1, <3>3
  <2>4. CASE At("main", "destroy") /\ Goto("main", "done") /\ semaphore' = NoSemaphore /\ UNCHANGED shm
    <3>1. PlacesOK' /\ MutexOK' /\ pc'["main"] = "done" /\ pc'["child"] = pc["child"]
      BY <1>4, <1>5, <2>4
    <3>2. ShmOK'  BY <1>1, <1>2, <2>1, <2>4, <3>1 DEF ShmOK, At, NoSemaphore
    <3> QED  BY <1>3, <3>1, <3>2
  <2> QED  BY <1>6, <2>2, <2>3, <2>4 DEF ShmParent
<1>7. CASE Sem_V
  <2>1. PlacesOK' /\ MutexOK' /\ pc'["child"] = "print" /\ pc'["main"] = pc["main"]
    BY <1>4, <1>5, <1>7 DEF Sem_V
  <2>2. printed' = printed /\ shm' = shm /\ pc["child"] = "sem_v"  BY <1>7 DEF Sem_V, At
  <2>3. downed' = (semaphore > 0)  BY <1>7 DEF Sem_V
  <2>a. downed' => semaphore = 1
    <3>1. semaphore > 0 => semaphore = 1  BY DEF ShmOK, NoSemaphore
    <3> QED  BY <2>3, <3>1
  <2>b. semaphore' \in {NoSemaphore, 0}  BY <1>7 DEF Sem_V, ShmOK, NoSemaphore
  <2>4. ShmOK'  BY <1>1, <1>2, <2>1, <2>2, <2>3, <2>a, <2>b DEF ShmOK, NoSemaphore
  <2> QED  BY <1>3, <2>1, <2>4
<1>8. CASE ShmPrint
  <2>1. PlacesOK' /\ MutexOK' /\ pc'["child"] = "done" /\ pc'["main"] = pc["main"]
    BY <1>4, <1>5, <1>8 DEF ShmPrint
  <2>2. printed' = shm /\ shm' = shm /\ downed' = downed /\ semaphore' = semaphore  BY <1>8 DEF ShmPrint
  <2>3. ShmOK'  BY <1>1, <1>2, <2>1, <2>2 DEF ShmOK
  <2> QED  BY <1>3, <2>1, <2>3
<1> QED  BY <1>6, <1>7, <1>8

\* main stops the threads, and joins them.
LEMMA MainStepInv == ASSUME TaskInv, TaskStops \/ TaskJoins PROVE TaskInv'
<1> USE DEF TaskInv
<1>1. /\ task' = task /\ UNCHANGED pipevars /\ UNCHANGED shmvars
      /\ UNCHANGED <<value, tmp, mutex, items>>
  BY DEF TaskStops, TaskJoins, threadvars
<1>2. pc["main"] \in {"sleep", "join"}  BY DEF TaskStops, TaskJoins, At
<1>3. task \in {"pthread", "mutex", "sem"}
  BY <1>2 DEF PlacesOK, Places, Proc, Task
<1>4. "join" \in Places(task, "main") /\ "done" \in Places(task, "main")  BY <1>3 DEF Places
<1>5. Goto("main", "join") \/ Goto("main", "done")  BY DEF TaskStops, TaskJoins
<1>6. PlacesOK' /\ \A q \in Proc \ {"main"} : pc'[q] = pc[q]
  BY <1>1, <1>4, <1>5, Moves DEF Proc
<1>7. \A q \in TwoThreads : pc'[q] = pc[q]  BY <1>6 DEF TwoThreads, Proc
<1> QED  BY <1>1, <1>3, <1>6, <1>7, PipeFrame, ShmFrame, ThreadsFrame

\* The count is changed by one thread at a time.
LEMMA ThreadStepInv == ASSUME TaskInv, Threads PROVE TaskInv'
<1> USE DEF TaskInv
<1>1. ASSUME NEW p \in TwoThreads, NEW l, l \in Places(task, p), task \in {"pthread", "mutex", "sem"},
             Goto(p, l), task' = task, UNCHANGED pipevars, UNCHANGED shmvars
      PROVE  /\ PlacesOK' /\ PipeOK' /\ ShmOK'
             /\ pc'[p] = l /\ \A q \in TwoThreads \ {p} : pc'[q] = pc[q]
  <2>1. PlacesOK' /\ pc'[p] = l /\ \A q \in Proc \ {p} : pc'[q] = pc[q]
    BY <1>1, Moves DEF TwoThreads, Proc
  <2>2. PipeOK' /\ ShmOK'  BY <1>1, <2>1, PipeFrame, ShmFrame
  <2> QED  BY <2>1, <2>2 DEF TwoThreads, Proc
<1>2. ASSUME NEW p \in TwoThreads, NEW next, next \in Places(task, p),
             task \in {"pthread", "mutex", "sem"}, next \notin {"load", "store", "unlock"}, Test(p, next)
      PROVE  TaskInv'
  <2> DEFINE l == IF running = 0 THEN "exit" ELSE next
  <2>1. /\ Goto(p, l) /\ task' = task /\ UNCHANGED pipevars /\ UNCHANGED shmvars
        /\ UNCHANGED <<value, tmp, mutex, items>> /\ pc[p] = "test"
    BY <1>2 DEF Test, At, threadvars
  <2>2. l \in Places(task, p)
    <3>1. p \in Proc  BY DEF TwoThreads, Proc
    <3>2. "test" \in Places(task, p)  BY <2>1, <3>1 DEF PlacesOK
    <3>3. "exit" \in Places(task, p)  BY <1>2, <3>2 DEF Places, TwoThreads
    <3> QED  BY <1>2, <3>3
  <2>3. l \notin {"load", "store", "unlock"}  BY <1>2
  <2> HIDE DEF l
  <2>4. /\ PlacesOK' /\ PipeOK' /\ ShmOK'
        /\ pc'[p] = l /\ \A q \in TwoThreads \ {p} : pc'[q] = pc[q]
    BY <1>1, <1>2, <2>1, <2>2
  <2>5. MutexOK'  BY <2>1, <2>3, <2>4 DEF MutexOK
  <2> QED  BY <2>4, <2>5
<1>3. ASSUME NEW p \in TwoThreads, NEW v \in Int, Exit(p, v), task \in {"pthread", "mutex", "sem"},
             task = "mutex" => v = value
      PROVE  TaskInv'
  <2>1. /\ Goto(p, "done") /\ task' = task /\ UNCHANGED pipevars /\ UNCHANGED shmvars
        /\ value' = v /\ UNCHANGED <<tmp, mutex, items>> /\ pc[p] = "exit"
    BY <1>3 DEF Exit, At
  <2>2. "done" \in Places(task, p)
    <3>1. p \in Proc  BY DEF TwoThreads, Proc
    <3>2. "exit" \in Places(task, p)  BY <2>1, <3>1 DEF PlacesOK
    <3> QED  BY <1>3, <3>2 DEF Places, TwoThreads
  <2>3. /\ PlacesOK' /\ PipeOK' /\ ShmOK'
        /\ pc'[p] = "done" /\ \A q \in TwoThreads \ {p} : pc'[q] = pc[q]
    BY <1>1, <1>3, <2>1, <2>2
  <2>4. task # "mutex" => \A q \in TwoThreads : pc[q] # "store"
    BY <1>3 DEF PlacesOK, Places, TwoThreads, Proc
  <2>5. MutexOK'  BY <1>3, <2>1, <2>3, <2>4 DEF MutexOK
  <2> QED  BY <2>3, <2>5
<1>4. CASE start_routine
  <2>1. task = "pthread" /\ "test" \in Places(task, "producter")  BY <1>4 DEF start_routine, Places
  <2> QED  BY <1>2, <1>3, <1>4, <2>1 DEF start_routine, TwoThreads
<1>5. CASE sem_f
  <2>1. /\ task = "sem"
        /\ "post" \in Places(task, "producter") /\ "test" \in Places(task, "producter")
        /\ "wait" \in Places(task, "consumer") /\ "test" \in Places(task, "consumer")
    BY <1>5 DEF sem_f, Places
  <2>2. value \in Int  BY DEF MutexOK
  <2>3. \A q \in TwoThreads : pc[q] # "store"  BY <2>1 DEF PlacesOK, Places, TwoThreads, Proc
  <2>4. ASSUME NEW p \in TwoThreads, Goto(p, "test"), pc[p] \in {"post", "wait"}, value' \in Int,
               UNCHANGED <<task, running, tmp, mutex, items, pipevars, shmvars>>
        PROVE  TaskInv'
    <3>1. "test" \in Places(task, p)  BY <2>1 DEF TwoThreads
    <3>2. /\ PlacesOK' /\ PipeOK' /\ ShmOK'
          /\ pc'[p] = "test" /\ \A q \in TwoThreads \ {p} : pc'[q] = pc[q]
      BY <1>1, <2>1, <2>4, <3>1
    <3>3. MutexOK'  BY <2>1, <2>3, <2>4, <3>2 DEF MutexOK
    <3> QED  BY <3>2, <3>3
  <2>5. CASE Post
    <3>1. value + 1 \in Int /\ MaxSem \in Int  BY <2>2, TaskAssumption
    <3>2. Min({value + 1, MaxSem}) \in Int  BY <3>1, MinOfTwo
    <3> QED  BY <2>4, <2>5, <3>2 DEF Post, At, TwoThreads
  <2>6. CASE Wait  BY <2>2, <2>4, <2>6 DEF Wait, At, TwoThreads
  <2>7. ASSUME NEW p \in TwoThreads, Exit(p, value) PROVE TaskInv'  BY <1>3, <2>1, <2>2, <2>7
  <2>8. CASE Test("producter", "post") \/ Test("consumer", "wait")
    BY <1>2, <2>1, <2>8 DEF TwoThreads
  <2> QED  BY <1>5, <2>5, <2>6, <2>7, <2>8 DEF sem_f, TwoThreads
<1>6. ASSUME NEW p \in TwoThreads, mutex_f(p) PROVE TaskInv'
  <2>1. /\ task = "mutex"
        /\ \A l \in {"test", "lock", "load", "store", "unlock"} : l \in Places(task, p)
    BY <1>6 DEF mutex_f, Places, TwoThreads
  <2>2. value \in Int  BY DEF MutexOK
  <2>3. CASE Test(p, "lock")  BY <1>2, <2>1, <2>3
  <2>4. CASE Exit(p, value)  BY <1>3, <2>1, <2>2, <2>4
  <2>5. ASSUME NEW l \in {"test", "load", "store", "unlock"}, Goto(p, l),
               UNCHANGED <<task, pipevars, shmvars>>
        PROVE  /\ PlacesOK' /\ PipeOK' /\ ShmOK'
               /\ pc'[p] = l /\ \A q \in TwoThreads \ {p} : pc'[q] = pc[q]
    BY <1>1, <2>1, <2>5
  <2>6. CASE Lock(p)
    <3>1. /\ PlacesOK' /\ PipeOK' /\ ShmOK'
          /\ pc'[p] = "load" /\ \A q \in TwoThreads \ {p} : pc'[q] = pc[q]
      BY <2>5, <2>6 DEF Lock
    <3>2. MutexOK'  BY <2>6, <3>1 DEF MutexOK, Lock, At, TwoThreads, Nobody
    <3> QED  BY <3>1, <3>2
  <2>7. CASE Load(p)
    <3>1. /\ PlacesOK' /\ PipeOK' /\ ShmOK'
          /\ pc'[p] = "store" /\ \A q \in TwoThreads \ {p} : pc'[q] = pc[q]
      BY <2>5, <2>7 DEF Load
    <3>2. p \in Proc /\ tmp' = [tmp EXCEPT ![p] = value] /\ UNCHANGED <<task, value, mutex, items>>
          /\ pc[p] = "load"
      BY <2>7 DEF Load, At, TwoThreads, Proc
    <3>3. tmp' \in [Proc -> Int] /\ tmp'[p] = value /\ \A q \in TwoThreads \ {p} : tmp'[q] = tmp[q]
      BY <2>2, <3>2 DEF MutexOK, TwoThreads, Proc
    <3>4. MutexOK'  BY <3>1, <3>2, <3>3 DEF MutexOK, TwoThreads
    <3> QED  BY <3>1, <3>4
  <2>8. CASE Store(p)
    <3>1. /\ PlacesOK' /\ PipeOK' /\ ShmOK'
          /\ pc'[p] = "unlock" /\ \A q \in TwoThreads \ {p} : pc'[q] = pc[q]
      BY <2>5, <2>8 DEF Store
    <3>2. pc[p] = "store" /\ UNCHANGED <<task, tmp, mutex>>  BY <2>8 DEF Store, At
    <3>3. mutex = p /\ tmp[p] = value  BY <3>2 DEF MutexOK
    <3>4. \A q \in TwoThreads \ {p} : pc[q] # "store"  BY <3>3 DEF MutexOK
    <3>5. items' \in [made: Int, used: Int] /\ value' \in Int
          /\ value' = items'.made - items'.used
      <4>1. CASE p = "producter"
        BY <2>1, <2>2, <2>8, <3>3, <4>1 DEF Store, MutexOK
      <4>2. CASE p = "consumer"
        BY <2>1, <2>2, <2>8, <3>3, <4>2 DEF Store, MutexOK
      <4> QED  BY <4>1, <4>2 DEF TwoThreads
    <3>6. MutexOK'  BY <2>1, <3>1, <3>2, <3>3, <3>4, <3>5 DEF MutexOK
    <3> QED  BY <3>1, <3>6
  <2>9. CASE Unlock(p)
    <3>1. /\ PlacesOK' /\ PipeOK' /\ ShmOK'
          /\ pc'[p] = "test" /\ \A q \in TwoThreads \ {p} : pc'[q] = pc[q]
      BY <2>5, <2>9 DEF Unlock
    <3>2. mutex = p  BY <2>9 DEF MutexOK, Unlock, At
    <3>3. MutexOK'  BY <2>9, <3>1, <3>2 DEF MutexOK, Unlock, TwoThreads, Nobody
    <3> QED  BY <3>1, <3>3
  <2> QED  BY <1>6, <2>3, <2>4, <2>6, <2>7, <2>8, <2>9 DEF mutex_f
<1> QED  BY <1>4, <1>5, <1>6 DEF Threads, TwoThreads

\* Every step of an example keeps the invariant.
LEMMA TaskNextInv == TaskInv /\ [TaskNext]_taskvars => TaskInv'
<1>1. ASSUME TaskInv, Main PROVE TaskInv'
  BY <1>1, PipeStepInv, ShmStepInv, MainStepInv DEF Main
<1>2. ASSUME TaskInv, Child PROVE TaskInv'
  BY <1>2, PipeStepInv, ShmStepInv DEF Child
<1>3. ASSUME TaskInv, UNCHANGED taskvars PROVE TaskInv'
  BY <1>3 DEF taskvars, TaskInv, PlacesOK, PipeOK, ToWrite, ShmOK, MutexOK
<1> QED  BY <1>1, <1>2, <1>3, RunTaskInv, ThreadStepInv DEF TaskNext

\* A message that a semaphore announced is the one that was written, no change of a
\* count that a mutex guards is lost, and a pipe neither overflows nor gains a byte,
\* for buffers, pipes and counts of any size.
THEOREM SharingStaysSound == TaskSpec => []SharingSound
<1>1. TaskInv => SharingSound
  <2> SUFFICES ASSUME TaskInv PROVE SharingSound  OBVIOUS
  <2>1. ToWrite \in 0..WRITELEN  BY TaskNumbers DEF ToWrite
  <2>2. pipe \in 0..PipeSize /\ write_size \in 0..WRITELEN /\ cut \in 0..WRITELEN /\ nread \in 0..WRITELEN
    BY <2>1, TaskNumbers DEF TaskInv, PipeOK
  <2>3. TaskTypeOK  BY <2>2 DEF TaskInv, ShmOK, MutexOK, TaskTypeOK, TwoThreads
  <2>4. SemaphoreOrders /\ ItemsAddUp  BY DEF TaskInv, ShmOK, MutexOK, SemaphoreOrders, ItemsAddUp
  <2> QED  BY <2>3, <2>4 DEF SharingSound
<1> QED  BY TaskInitInv, TaskNextInv, <1>1, PTL DEF TaskSpec

-----------------------------------------------------------------------------
(* Ping: the inductive invariant.                                          *)

PingShape ==
    /\ pingpacket \in [Entry -> [seq: Int, flag: 0..1]]
    /\ \A e \in Entry : Short(pingpacket[e].seq) = pingpacket[e].seq
    /\ packet_send \in 0..MaxPackets /\ packet_recv \in Nat
    /\ reply \in [Requests -> 0..2]
    /\ icmp_send \in [pc: {"none", "test", "fill", "flag", "sendto", "done"}, entry: 0..TableSize]
    /\ icmp_recv \in [pc: {"none", "test", "clear", "count", "done"}, entry: 0..TableSize]
    /\ entered \subseteq Requests /\ arrived \subseteq Requests

\* Nothing runs before main has started the threads.
NotBegun ==
    ping \in {"signal", "alive"} => icmp_send.pc = "none" /\ icmp_recv.pc = "none" /\ entered = {}

\* The sender works for request packet_send, in an entry it found vacant.
SenderOK ==
    /\ icmp_send.pc \in {"fill", "flag", "sendto"} => packet_send < MaxPackets
    /\ \A k \in entered : k < packet_send \/ (k = packet_send /\ icmp_send.pc = "sendto")
    /\ icmp_send.pc \in {"fill", "flag"} /\ icmp_send.entry # NoEntry =>
          pingpacket[icmp_send.entry].flag = 0
    /\ icmp_send.pc = "flag" /\ icmp_send.entry # NoEntry =>
          pingpacket[icmp_send.entry].seq = Short(packet_send)
    /\ icmp_send.pc = "sendto" /\ icmp_send.entry # NoEntry => packet_send \in entered

\* Answers are to requests that were sent, and come once if none is doubled.
RepliesOK ==
    /\ \A k \in Requests : reply[k] > 0 \/ k \in arrived => k < packet_send
    /\ ~doubled => \A k \in Requests : reply[k] <= 1 /\ (reply[k] > 0 => k \notin arrived)
    /\ icmp_recv.pc = "clear" => icmp_recv.entry # NoEntry

\* The answers on their way, each by itself.
Coming == {x \in Requests \X (1..2) : x[2] <= reply[x[1]]}
Pending == IF icmp_recv.pc \in {"clear", "count"} THEN 1 ELSE 0
AnswersBounded ==
    Cardinality(Coming) + packet_recv + Pending <= packet_send + (IF doubled THEN 1 ELSE 0)

\* Every number in the table is that of a request with an entry, or of none yet.
NumbersKnown ==
    \A e \in Entry :
        \/ pingpacket[e].seq = 0
        \/ \E j \in entered : pingpacket[e].seq = Short(j)
        \/ icmp_send.pc = "flag" /\ icmp_send.entry = e

\* Request 0 has the first entry, so that its number is not mistaken.
FirstIsFirst ==
    \/ 0 \in entered
    \/ /\ entered = {} /\ packet_send = 0 /\ icmp_send.pc # "sendto"
       /\ \A e \in Entry : pingpacket[e].flag = 0
       /\ icmp_send.pc \in {"fill", "flag"} => icmp_send.entry = 1

\* A request that can still be heard is found under its number, in use.
FoundIn(e, k) ==
    /\ pingpacket[e].flag = 1 /\ pingpacket[e].seq = k
    /\ \A d \in Entry : pingpacket[d].seq = k => e <= d
LookupOK ==
    /\ \A k \in entered \ arrived : Short(k) >= 0 => \E e \in Entry : FoundIn(e, k)
    /\ icmp_recv.pc = "clear" =>
          /\ pingpacket[icmp_recv.entry].flag = 1
          /\ pingpacket[icmp_recv.entry].seq \in arrived

PingInv ==
    /\ PingShape /\ NotBegun /\ SenderOK /\ RepliesOK /\ AnswersBounded
    /\ NumbersKnown /\ FirstIsFirst
    /\ bigPid => icmp_recv.pc \notin {"clear", "count"}
    /\ ~doubled => LookupOK
    /\ TableIsOutstanding /\ CountedOnce

Flagged == {e \in Entry : pingpacket[e].flag = 1}

-----------------------------------------------------------------------------

\* The sizes are numbers.
LEMMA PingNumbers ==
    /\ TableSize \in Nat /\ 1 <= TableSize /\ SeqBase \in Nat /\ 2 <= SeqBase
    /\ MaxPackets \in Nat /\ MaxPackets < SeqBase
BY PingAssumption

\* What a number is as a remainder, and as a short.
LEMMA RemainderIs ==
    ASSUME NEW b \in Nat, NEW a \in Nat, a < b
    PROVE  a % b = a /\ (a - b) % b = a
<1>1. a % b = a  OBVIOUS
<1>2. (a - b) % b = a  OBVIOUS
<1> QED  BY <1>1, <1>2

\* The short of a number below SeqBase is the number, or is negative.
LEMMA ShortIs ==
    ASSUME NEW k \in Nat, k < SeqBase
    PROVE  /\ k % SeqBase = k
           /\ Short(k) \in Int /\ Short(Short(k)) = Short(k)
           /\ Short(k) = k \/ Short(k) < 0
           /\ k = 0 => Short(k) = 0
<1> DEFINE B == SeqBase
           h == SeqBase \div 2
<1>1. B \in Nat /\ 2 <= B  BY PingNumbers
<1>2. h \in Nat /\ 1 <= h  BY <1>1
<1>3. k % B = k /\ (k - B) % B = k  BY <1>1, RemainderIs
<1>4. \A n \in Int : Short(n) = IF n % B >= h THEN (n % B) - B ELSE n % B  BY DEF Short
<1> HIDE DEF h, B
<1>5. Short(k) = IF k >= h THEN k - B ELSE k  BY <1>3, <1>4
<1>6. Short(k - B) = IF k >= h THEN k - B ELSE k  BY <1>1, <1>3, <1>4
<1>7. k < B  BY DEF B
<1> QED  BY <1>1, <1>2, <1>3, <1>5, <1>6, <1>7 DEF B

\* The requests are numbers below SeqBase, and the entries numbers from 1.
LEMMA PingSets ==
    /\ Entry \subseteq Nat \ {NoEntry} /\ 1 \in Entry /\ NoEntry = 0
    /\ \A k \in Requests : k \in Nat /\ k < MaxPackets /\ k < SeqBase
    /\ \A k \in 0..MaxPackets : k < MaxPackets => k \in Requests
BY PingNumbers DEF Entry, NoEntry, Requests

\* What is counted is finite.
LEMMA PingFinite ==
    ASSUME PingShape
    PROVE  /\ IsFiniteSet(Flagged) /\ Cardinality(Flagged) \in Nat
           /\ IsFiniteSet(entered) /\ Cardinality(entered) \in Nat
           /\ IsFiniteSet(Heard) /\ Cardinality(Heard) \in Nat
           /\ IsFiniteSet(Coming) /\ Cardinality(Coming) \in Nat
<1>1. IsFiniteSet(Entry) /\ IsFiniteSet(Requests) /\ IsFiniteSet(1..2)
  <2>1. 1 \in Int /\ 2 \in Int /\ 0 \in Int /\ TableSize \in Int /\ MaxPackets - 1 \in Int  BY PingNumbers
  <2> QED  BY <2>1, FS_Interval DEF Entry, Requests
<1>2. IsFiniteSet(Requests \X (1..2))  BY <1>1, FS_Product
<1>3. Flagged \subseteq Entry /\ Coming \subseteq Requests \X (1..2)  BY DEF Flagged, Coming
<1>4. entered \subseteq Requests /\ Heard \subseteq Requests  BY DEF PingShape, Heard
<1> QED  BY <1>1, <1>2, <1>3, <1>4, FS_Subset, FS_CardinalityType

\* ping as it is started.
LEMMA PingInitInv == PingInit => PingInv
<1> SUFFICES ASSUME PingInit PROVE PingInv  OBVIOUS
<1>1. Short(0) = 0  BY PingNumbers, ShortIs
<1>2. PingShape  BY <1>1, PingNumbers DEF PingInit, PingShape, NoEntry
<1>3. Flagged = {} /\ Heard = {} /\ Coming = {} /\ entered = {}
  BY PingSets DEF PingInit, Flagged, Heard, Coming
<1>4. Cardinality(Flagged) = 0 /\ Cardinality(Heard) = 0 /\ Cardinality(Coming) = 0 /\ Cardinality(entered) = 0
  BY <1>3, FS_EmptySet
<1>5. TableIsOutstanding /\ CountedOnce  BY <1>4 DEF PingInit, TableIsOutstanding, CountedOnce, Flagged
<1>6. AnswersBounded  BY <1>4 DEF PingInit, AnswersBounded, Pending
<1>7. NotBegun /\ SenderOK /\ RepliesOK /\ NumbersKnown /\ FirstIsFirst /\ LookupOK
  BY PingSets DEF PingInit, NotBegun, SenderOK, RepliesOK, NumbersKnown, FirstIsFirst, LookupOK
<1>8. icmp_recv.pc \notin {"clear", "count"}  BY DEF PingInit
<1> QED  BY <1>2, <1>5, <1>6, <1>7, <1>8 DEF PingInv

-----------------------------------------------------------------------------

\* A step that touches neither the table nor the counts.
LEMMA PingQuiet ==
    ASSUME PingInv,
           UNCHANGED <<pingpacket, packet_send, packet_recv, bigPid, reply, entered, arrived, doubled>>,
           icmp_send' \in [pc: {"none", "test", "fill", "flag", "sendto", "done"}, entry: 0..TableSize],
           icmp_send' = icmp_send \/ {icmp_send.pc, icmp_send'.pc} \subseteq {"none", "test", "done"},
           icmp_recv' \in [pc: {"none", "test", "clear", "count", "done"}, entry: 0..TableSize],
           icmp_recv' = icmp_recv \/ {icmp_recv.pc, icmp_recv'.pc} \subseteq {"none", "test", "done"},
           NotBegun'
    PROVE  PingInv'
<1> USE DEF PingInv
<1>1. PingShape'  BY DEF PingShape
<1>2. SenderOK' /\ RepliesOK' /\ NumbersKnown' /\ FirstIsFirst'
  BY DEF SenderOK, RepliesOK, NumbersKnown, FirstIsFirst
<1>3. Flagged' = Flagged /\ Heard' = Heard /\ Coming' = Coming /\ Pending' = Pending
      /\ (icmp_recv'.pc = "clear" <=> icmp_recv.pc = "clear")
      /\ (icmp_recv'.pc = "count" <=> icmp_recv.pc = "count")
  BY DEF Flagged, Heard, Coming, Pending
<1>4. AnswersBounded' /\ TableIsOutstanding' /\ CountedOnce'
  BY <1>3 DEF AnswersBounded, TableIsOutstanding, CountedOnce, Flagged
<1>5. (~doubled => LookupOK)'  BY DEF LookupOK, FoundIn
<1> QED  BY <1>1, <1>2, <1>3, <1>4, <1>5

\* What main and its handler do.
LEMMA PingMainInv ==
    ASSUME PingInv, PingRuns \/ PingStarts \/ PingJoins \/ icmp_sigint PROVE PingInv'
<1> USE DEF PingInv
<1>1. CASE PingRuns
  <2>1. UNCHANGED <<pingpacket, packet_send, packet_recv, reply, entered, arrived, doubled,
                    icmp_send, icmp_recv>> /\ ping = "signal" /\ ping' = "alive"
    BY <1>1 DEF PingRuns
  <2>2. Heard' = {} /\ Heard = {} /\ icmp_recv.pc = "none"  BY <2>1 DEF NotBegun, Heard
  <2>3. Flagged' = Flagged /\ Coming' = Coming /\ Pending' = Pending  BY <2>1 DEF Flagged, Coming, Pending
  <2>4. AnswersBounded' /\ TableIsOutstanding' /\ CountedOnce'
    BY <2>1, <2>2, <2>3 DEF AnswersBounded, TableIsOutstanding, CountedOnce, Flagged
  <2>5. PingShape' /\ NotBegun'  BY <2>1 DEF PingShape, NotBegun
  <2>6. SenderOK' /\ RepliesOK' /\ NumbersKnown' /\ FirstIsFirst'
    BY <2>1 DEF SenderOK, RepliesOK, NumbersKnown, FirstIsFirst
  <2>7. (~doubled => LookupOK)'  BY <2>1 DEF LookupOK, FoundIn
  <2> QED  BY <2>1, <2>2, <2>4, <2>5, <2>6, <2>7
<1>2. CASE PingStarts
  <2>1. /\ ping = "alive" /\ ping' = "join"
        /\ icmp_send' = [icmp_send EXCEPT !.pc = "test"] /\ icmp_recv' = [icmp_recv EXCEPT !.pc = "test"]
        /\ UNCHANGED <<pingpacket, packet_send, packet_recv, bigPid, reply, entered, arrived, doubled>>
    BY <1>2 DEF PingStarts
  <2>2. icmp_send.pc = "none" /\ icmp_recv.pc = "none" /\ NotBegun'  BY <2>1 DEF NotBegun
  <2>3. /\ icmp_send' \in [pc: {"none", "test", "fill", "flag", "sendto", "done"}, entry: 0..TableSize]
        /\ icmp_recv' \in [pc: {"none", "test", "clear", "count", "done"}, entry: 0..TableSize]
        /\ icmp_send'.pc = "test" /\ icmp_recv'.pc = "test"
    BY <2>1 DEF PingShape
  <2> QED  BY <2>1, <2>2, <2>3, PingQuiet
<1>3. CASE PingJoins
  <2>1. UNCHANGED <<pingpacket, packet_send, packet_recv, bigPid, reply, entered, arrived, doubled,
                    icmp_send, icmp_recv>> /\ ping' = "statistics"
    BY <1>3 DEF PingJoins
  <2> QED  BY <2>1, PingQuiet DEF PingShape, NotBegun
<1>4. CASE icmp_sigint
  <2>1. UNCHANGED <<pingpacket, packet_send, packet_recv, bigPid, reply, entered, arrived, doubled,
                    icmp_send, icmp_recv, ping>>
    BY <1>4 DEF icmp_sigint
  <2> QED  BY <2>1, PingQuiet DEF PingShape, NotBegun
<1> QED  BY <1>1, <1>2, <1>3, <1>4

\* The sender finds an entry, writes the number of its request into it, and then
\* marks it.
LEMMA SendFindInv == ASSUME PingInv, SendFind PROVE PingInv'
<1> USE DEF PingInv
<1>1. /\ icmp_send.pc = "test"
      /\ UNCHANGED <<pingpacket, packet_send, packet_recv, bigPid, reply, icmp_recv, ping,
                     entered, arrived, doubled>>
  BY DEF SendFind
<1>2. CASE icmp_send' = [pc |-> "done", entry |-> NoEntry]
  BY <1>1, <1>2, PingQuiet, PingNumbers DEF PingShape, NotBegun, NoEntry
<1>3. CASE /\ packet_send < MaxPackets
           /\ icmp_send' = [pc |-> "fill", entry |-> IF Vacant = {} THEN NoEntry ELSE Min(Vacant)]
  <2>1. /\ icmp_send'.entry # NoEntry => icmp_send'.entry \in Entry /\ pingpacket[icmp_send'.entry].flag = 0
        /\ icmp_send'.entry \in 0..TableSize
    <3>1. Vacant \subseteq Nat  BY PingSets DEF Vacant
    <3>2. Vacant # {} => Min(Vacant) \in Vacant  BY <3>1, LeastIs
    <3> QED  BY <1>3, <3>2, PingNumbers DEF Vacant, Entry, NoEntry
  <2>2. (\A e \in Entry : pingpacket[e].flag = 0) => icmp_send'.entry = 1
    <3>1. SUFFICES ASSUME \A e \in Entry : pingpacket[e].flag = 0 PROVE icmp_send'.entry = 1  OBVIOUS
    <3>2. Vacant = Entry /\ 1 \in Entry /\ Entry \subseteq Nat \ {0}  BY <3>1, PingSets DEF Vacant, NoEntry
    <3>3. icmp_send'.entry = Min(Entry)  BY <1>3, <3>2
    <3>4. Min(Entry) \in Nat \ {0} /\ Min(Entry) <= 1
      <4>1. Entry \subseteq Nat /\ Entry # {}  BY <3>2
      <4> QED  BY <3>2, <4>1, LeastIs
    <3> QED  BY <3>3, <3>4
  <2>3. icmp_send'.pc = "fill"  BY <1>3
  <2>4. PingShape'
    <3>1. icmp_send' \in [pc: {"none", "test", "fill", "flag", "sendto", "done"}, entry: 0..TableSize]
      BY <1>3, <2>1
    <3> QED  BY <1>1, <3>1 DEF PingShape
  <2>5. NotBegun'  BY <1>1 DEF NotBegun
  <2>6. SenderOK'  BY <1>1, <1>3, <2>1, <2>3 DEF SenderOK
  <2>7. FirstIsFirst'  BY <1>1, <2>2, <2>3 DEF FirstIsFirst
  <2>8. NumbersKnown' /\ RepliesOK'  BY <1>1 DEF NumbersKnown, RepliesOK
  <2>9. Flagged' = Flagged /\ Heard' = Heard /\ Coming' = Coming /\ Pending' = Pending
    BY <1>1 DEF Flagged, Heard, Coming, Pending
  <2>10. AnswersBounded' /\ TableIsOutstanding' /\ CountedOnce'
    BY <1>1, <2>9 DEF AnswersBounded, TableIsOutstanding, CountedOnce, Flagged
  <2>11. (~doubled => LookupOK)'  BY <1>1 DEF LookupOK, FoundIn
  <2> QED  BY <1>1, <2>4, <2>5, <2>6, <2>7, <2>8, <2>10, <2>11
<1> QED  BY <1>2, <1>3 DEF SendFind, Sender

\* An entry that is not in use is not the one of a request that can be heard.
LEMMA SendFillInv == ASSUME PingInv, SendFill PROVE PingInv'
<1> USE DEF PingInv
<1> DEFINE e == icmp_send.entry
<1>1. /\ icmp_send.pc = "fill" /\ icmp_send' = [pc |-> "flag", entry |-> e]
      /\ pingpacket' = IF e = NoEntry THEN pingpacket ELSE [pingpacket EXCEPT ![e].seq = Short(packet_send)]
      /\ UNCHANGED <<packet_send, packet_recv, bigPid, reply, icmp_recv, ping, entered, arrived, doubled>>
  BY DEF SendFill, Sender
<1>2. e \in 0..TableSize /\ (e # NoEntry => e \in Entry)  BY PingNumbers DEF PingShape, Entry, NoEntry
<1>3. packet_send < MaxPackets /\ packet_send \in Nat /\ packet_send < SeqBase /\ packet_send \in Requests
      /\ \A k \in entered : k < packet_send
  BY <1>1, PingNumbers, PingSets DEF SenderOK, PingShape
<1>4. /\ Short(packet_send) \in Int /\ Short(Short(packet_send)) = Short(packet_send)
      /\ \A k \in Nat : Short(packet_send) = k => packet_send = k
  BY <1>3, ShortIs
<1>5. /\ \A d \in Entry : pingpacket'[d].flag = pingpacket[d].flag
      /\ \A d \in Entry : d # e => pingpacket'[d].seq = pingpacket[d].seq
      /\ e # NoEntry => pingpacket'[e].seq = Short(packet_send)
      /\ pingpacket' \in [Entry -> [seq: Int, flag: 0..1]]
  BY <1>1, <1>2, <1>4 DEF PingShape
<1>6. e # NoEntry => pingpacket[e].flag = 0  BY <1>1 DEF SenderOK
<1>7. PingShape'  BY <1>1, <1>2, <1>4, <1>5 DEF PingShape
<1>8. NotBegun' /\ RepliesOK'  BY <1>1 DEF NotBegun, RepliesOK
<1>9. SenderOK'  BY <1>1, <1>2, <1>3, <1>5, <1>6 DEF SenderOK
<1>10. NumbersKnown'  BY <1>1, <1>5 DEF NumbersKnown
<1>11. FirstIsFirst'  BY <1>1, <1>5 DEF FirstIsFirst
<1>12. Flagged' = Flagged /\ Heard' = Heard /\ Coming' = Coming /\ Pending' = Pending
  BY <1>1, <1>5 DEF Flagged, Heard, Coming, Pending
<1>13. AnswersBounded' /\ TableIsOutstanding' /\ CountedOnce'
  BY <1>1, <1>12 DEF AnswersBounded, TableIsOutstanding, CountedOnce, Flagged
<1>14. ASSUME ~doubled PROVE LookupOK'
  <2>1. ASSUME NEW k \in entered \ arrived, Short(k) >= 0 PROVE \E d \in Entry : FoundIn(d, k)'
    <3>1. PICK d \in Entry : FoundIn(d, k)  BY <1>14, <2>1 DEF LookupOK
    <3>2. d # e
      <4>1. d # NoEntry /\ pingpacket[d].flag = 1  BY <3>1, PingSets DEF FoundIn
      <4> QED  BY <1>6, <4>1
    <3>3. k \in Nat /\ k < packet_send  BY <1>3, PingSets DEF PingShape
    <3>4. ASSUME NEW x \in Entry, pingpacket'[x].seq = k PROVE d <= x
      <4>1. x # e  BY <1>3, <1>4, <1>5, <3>3, <3>4, PingSets
      <4> QED  BY <1>5, <3>1, <3>4, <4>1 DEF FoundIn
    <3> QED  BY <1>5, <3>1, <3>2, <3>4 DEF FoundIn
  <2>2. icmp_recv.pc = "clear" => /\ pingpacket'[icmp_recv.entry].flag = 1
                                  /\ pingpacket'[icmp_recv.entry].seq \in arrived
    <3>1. SUFFICES ASSUME icmp_recv.pc = "clear" PROVE /\ pingpacket'[icmp_recv.entry].flag = 1
                                                       /\ pingpacket'[icmp_recv.entry].seq \in arrived
      OBVIOUS
    <3>2. pingpacket[icmp_recv.entry].flag = 1 /\ pingpacket[icmp_recv.entry].seq \in arrived
      BY <1>14, <3>1 DEF LookupOK
    <3>3. icmp_recv.entry \in Entry  BY <3>1, PingNumbers DEF RepliesOK, PingShape, Entry, NoEntry
    <3>4. icmp_recv.entry # e  BY <1>6, <3>2, <3>3, PingSets
    <3> QED  BY <1>5, <3>2, <3>3, <3>4
  <2> QED  BY <1>1, <2>1, <2>2 DEF LookupOK
<1> QED  BY <1>1, <1>7, <1>8, <1>9, <1>10, <1>11, <1>13, <1>14

\* From then on the request can be heard, and is the first with its number.
LEMMA SendFlagInv == ASSUME PingInv, SendFlag PROVE PingInv'
<1> USE DEF PingInv
<1> DEFINE e == icmp_send.entry
           n == packet_send
<1>1. /\ icmp_send.pc = "flag" /\ icmp_send' = [pc |-> "sendto", entry |-> e]
      /\ UNCHANGED <<packet_send, packet_recv, bigPid, reply, icmp_recv, ping, arrived, doubled>>
  BY DEF SendFlag, Sender
<1>2. e \in 0..TableSize /\ (e # NoEntry => e \in Entry)  BY PingNumbers DEF PingShape, Entry, NoEntry
<1>3. n < MaxPackets /\ n \in Nat /\ n < SeqBase /\ n \in Requests /\ n \notin entered
      /\ \A k \in entered : k \in Nat /\ k < n
  BY <1>1, PingNumbers, PingSets DEF SenderOK, PingShape
<1>4. NotBegun'  BY <1>1 DEF NotBegun
<1>5. RepliesOK'  BY <1>1 DEF RepliesOK
<1>6. n \notin arrived  BY <1>3 DEF RepliesOK
<1>7. CASE e = NoEntry
  <2>1. pingpacket' = pingpacket /\ entered' = entered  BY <1>7 DEF SendFlag
  <2>2. PingShape'  BY <1>1, <1>2, <2>1 DEF PingShape
  <2>3. SenderOK'  BY <1>1, <1>3, <1>7, <2>1 DEF SenderOK
  <2>4. NumbersKnown'  BY <1>1, <1>7, <2>1, PingSets DEF NumbersKnown
  <2>5. FirstIsFirst'  BY <1>1, <1>7, <2>1, PingSets DEF FirstIsFirst
  <2>6. Flagged' = Flagged /\ Heard' = Heard /\ Coming' = Coming /\ Pending' = Pending
    BY <1>1, <2>1 DEF Flagged, Heard, Coming, Pending
  <2>7. AnswersBounded' /\ TableIsOutstanding' /\ CountedOnce'
    BY <1>1, <2>1, <2>6 DEF AnswersBounded, TableIsOutstanding, CountedOnce, Flagged
  <2>8. (~doubled => LookupOK)'  BY <1>1, <2>1 DEF LookupOK, FoundIn
  <2> QED  BY <1>1, <1>4, <1>5, <2>2, <2>3, <2>4, <2>5, <2>7, <2>8
<1>8. CASE e # NoEntry
  <2>1. pingpacket' = [pingpacket EXCEPT ![e].flag = 1] /\ entered' = entered \cup {n}
    BY <1>8 DEF SendFlag
  <2>2. e \in Entry /\ pingpacket[e].flag = 0 /\ pingpacket[e].seq = Short(n)
    BY <1>1, <1>2, <1>8 DEF SenderOK
  <2>3. /\ \A d \in Entry : pingpacket'[d].seq = pingpacket[d].seq
        /\ \A d \in Entry : d # e => pingpacket'[d].flag = pingpacket[d].flag
        /\ pingpacket'[e].flag = 1
        /\ pingpacket' \in [Entry -> [seq: Int, flag: 0..1]]
    BY <2>1, <2>2 DEF PingShape
  <2>4. PingShape'  BY <1>1, <1>2, <1>3, <2>1, <2>3 DEF PingShape
  <2>5. SenderOK'  BY <1>1, <1>3, <2>1 DEF SenderOK
  <2>6. NumbersKnown'  BY <1>1, <2>1, <2>2, <2>3 DEF NumbersKnown
  <2>7. 0 \in entered'
    <3>1. CASE 0 \in entered  BY <2>1, <3>1
    <3>2. CASE 0 \notin entered  BY <2>1, <3>2 DEF FirstIsFirst
    <3> QED  BY <3>1, <3>2
  <2>8. FirstIsFirst'  BY <2>7 DEF FirstIsFirst
  <2>9. Heard' = Heard  BY <1>1, <1>6, <2>1 DEF Heard
  <2>10. Coming' = Coming /\ Pending' = Pending  BY <1>1 DEF Coming, Pending
  <2>11. Flagged' = Flagged \cup {e} /\ e \notin Flagged  BY <2>2, <2>3 DEF Flagged
  <2>12. Cardinality(Flagged') = Cardinality(Flagged) + 1 /\ Cardinality(entered') = Cardinality(entered) + 1
    BY <1>3, <2>1, <2>11, PingFinite, FS_AddElement
  <2>13. AnswersBounded' /\ CountedOnce'  BY <1>1, <2>9, <2>10 DEF AnswersBounded, CountedOnce
  <2>14. TableIsOutstanding'
    <3>1. SUFFICES ASSUME ~doubled PROVE TableIsOutstanding'  BY <1>1 DEF TableIsOutstanding
    <3> DEFINE x == IF icmp_recv.pc = "clear" THEN 1 ELSE 0
    <3>2. Cardinality(Flagged) = Cardinality(entered) - Cardinality(Heard) + x
      BY <3>1 DEF TableIsOutstanding, Flagged
    <3>3. Cardinality(Flagged') = Cardinality(entered') - Cardinality(Heard') + x
      BY <2>9, <2>12, <3>2, PingFinite
    <3> QED  BY <1>1, <3>3 DEF TableIsOutstanding, Flagged
  <2>15. ASSUME ~doubled PROVE LookupOK'
    <3>1. ASSUME NEW k \in entered' \ arrived, Short(k) >= 0 PROVE \E d \in Entry : FoundIn(d, k)'
      <4>1. CASE k \in entered
        <5>1. PICK d \in Entry : FoundIn(d, k)  BY <2>15, <3>1, <4>1 DEF LookupOK
        <5> QED  BY <2>2, <2>3, <5>1 DEF FoundIn
      <4>2. CASE k = n
        <5>1. pingpacket'[e].seq = k /\ pingpacket'[e].flag = 1
          <6>1. Short(k) = k  BY <1>3, <3>1, <4>2, ShortIs
          <6> QED  BY <2>2, <2>3, <4>2, <6>1
        <5>2. ASSUME NEW d \in Entry, pingpacket'[d].seq = k PROVE e <= d
          <6>1. pingpacket[d].seq = k /\ e \in Nat /\ d \in Nat /\ 1 <= d
            <7>1. pingpacket[d].seq = k  BY <2>3, <5>2
            <7>2. e \in Nat /\ d \in Nat /\ d # 0  BY <2>2, PingSets
            <7> QED  BY <7>1, <7>2
          <6>2. CASE \E j \in entered : pingpacket[d].seq = Short(j)
            <7>1. PICK j \in entered : pingpacket[d].seq = Short(j)  BY <6>2
            <7>2. j \in Nat /\ j < n /\ j < SeqBase  BY <1>3, PingNumbers
            <7>3. Short(j) = j \/ Short(j) < 0  BY <7>2, ShortIs
            <7> QED  BY <1>3, <4>2, <6>1, <7>1, <7>2, <7>3
          <6>3. CASE pingpacket[d].seq = 0
            <7>1. 0 \notin entered  BY <1>3, <4>2, <6>1, <6>3
            <7>2. e = 1  BY <1>1, <7>1 DEF FirstIsFirst
            <7> QED  BY <6>1, <7>2
          <6>4. CASE d = e  BY <6>1, <6>4
          <6> QED  BY <6>2, <6>3, <6>4 DEF NumbersKnown
        <5> QED  BY <2>2, <5>1, <5>2 DEF FoundIn
      <4> QED  BY <2>1, <3>1, <4>1, <4>2
    <3>2. icmp_recv.pc = "clear" => /\ pingpacket'[icmp_recv.entry].flag = 1
                                    /\ pingpacket'[icmp_recv.entry].seq \in arrived
      <4>1. SUFFICES ASSUME icmp_recv.pc = "clear" PROVE /\ pingpacket'[icmp_recv.entry].flag = 1
                                                         /\ pingpacket'[icmp_recv.entry].seq \in arrived
        OBVIOUS
      <4>2. icmp_recv.entry \in Entry  BY <4>1, PingNumbers DEF RepliesOK, PingShape, Entry, NoEntry
      <4> QED  BY <2>3, <2>15, <4>1, <4>2 DEF LookupOK
    <3> QED  BY <1>1, <3>1, <3>2 DEF LookupOK
  <2> QED  BY <1>1, <1>4, <1>5, <2>4, <2>5, <2>6, <2>8, <2>13, <2>14, <2>15
<1> QED  BY <1>7, <1>8

\* Its answers, at most one more than its request, are on their way.
LEMMA ComingGrows ==
    ASSUME PingInv, NEW k \in Requests, NEW n \in 0..2, reply[k] = 0, reply' = [reply EXCEPT ![k] = n]
    PROVE  Cardinality(Coming') = Cardinality(Coming) + n
<1>1. PingShape  BY DEF PingInv
<1>2. reply'[k] = n /\ \A j \in Requests \ {k} : reply'[j] = reply[j]  BY <1>1 DEF PingShape
<1>3. <<k, 1>> \notin Coming /\ <<k, 2>> \notin Coming /\ <<k, 1>> # <<k, 2>>  BY DEF Coming
<1>4. Coming' = Coming \cup {<<k, m>> : m \in 1..n}
  <2>1. ASSUME NEW j \in Requests, NEW m \in 1..2
        PROVE  <<j, m>> \in Coming' <=> <<j, m>> \in Coming \/ (j = k /\ m <= n)
    <3>1. CASE j = k  BY <1>2, <3>1 DEF Coming
    <3>2. CASE j # k  BY <1>2, <3>2 DEF Coming
    <3> QED  BY <3>1, <3>2
  <2>2. Coming \subseteq Requests \X (1..2) /\ Coming' \subseteq Requests \X (1..2)  BY DEF Coming
  <2>3. ASSUME NEW x PROVE x \in Coming' <=> x \in Coming \/ x \in {<<k, m>> : m \in 1..n}
    <3>1. CASE x \in Requests \X (1..2)
      <4>1. PICK j \in Requests, m \in 1..2 : x = <<j, m>>  BY <3>1
      <4>2. <<j, m>> \in {<<k, i>> : i \in 1..n} <=> j = k /\ m <= n  OBVIOUS
      <4> QED  BY <2>1, <4>1, <4>2
    <3>2. CASE x \notin Requests \X (1..2)
      <4>1. {<<k, m>> : m \in 1..n} \subseteq Requests \X (1..2)  OBVIOUS
      <4> QED  BY <2>2, <3>2, <4>1
    <3> QED  BY <3>1, <3>2
  <2> QED  BY <2>3
<1>5. IsFiniteSet(Coming) /\ Cardinality(Coming) \in Nat  BY <1>1, PingFinite
<1>6. CASE n = 0
  <2>1. Coming' = Coming  BY <1>4, <1>6
  <2> QED  BY <1>5, <1>6, <2>1
<1>7. CASE n = 1
  <2>1. Coming' = Coming \cup {<<k, 1>>}  BY <1>4, <1>7
  <2> QED  BY <1>3, <1>5, <1>7, <2>1, FS_AddElement
<1>8. CASE n = 2
  <2> DEFINE S == Coming \cup {<<k, 1>>}
  <2>1. Coming' = S \cup {<<k, 2>>} /\ <<k, 2>> \notin S  BY <1>3, <1>4, <1>8
  <2>2. IsFiniteSet(S) /\ Cardinality(S) = Cardinality(Coming) + 1  BY <1>3, <1>5, FS_AddElement
  <2> HIDE DEF S
  <2>3. Cardinality(Coming') = Cardinality(S) + 1  BY <2>1, <2>2, FS_AddElement
  <2> QED  BY <1>5, <1>8, <2>2, <2>3
<1> QED  BY <1>6, <1>7, <1>8

\* sendto.
LEMMA SendToInv == ASSUME PingInv, NEW n \in 0..2, SendTo(n) PROVE PingInv'
<1> USE DEF PingInv
<1>1. /\ icmp_send.pc = "sendto" /\ icmp_send' = [pc |-> "test", entry |-> NoEntry]
      /\ (n > 1 => ~doubled) /\ doubled' = (doubled \/ n > 1)
      /\ reply' = [reply EXCEPT ![packet_send] = n] /\ packet_send' = packet_send + 1
      /\ UNCHANGED <<pingpacket, packet_recv, bigPid, icmp_recv, ping, entered, arrived>>
  BY DEF SendTo, Sender
<1>2. packet_send \in Nat /\ packet_send < MaxPackets /\ packet_send \in Requests
  BY <1>1, PingSets DEF SenderOK, PingShape
<1>3. reply[packet_send] = 0 /\ packet_send \notin arrived
  BY <1>2 DEF RepliesOK, PingShape
<1>4. reply'[packet_send] = n /\ \A j \in Requests \ {packet_send} : reply'[j] = reply[j]
  BY <1>1, <1>2 DEF PingShape
<1>5. PingShape'
  <2>1. reply' \in [Requests -> 0..2]  BY <1>1 DEF PingShape
  <2>2. packet_send' \in 0..MaxPackets  BY <1>1, <1>2, PingNumbers
  <2>3. icmp_send' \in [pc: {"none", "test", "fill", "flag", "sendto", "done"}, entry: 0..TableSize]
    BY <1>1, PingNumbers DEF NoEntry
  <2> QED  BY <1>1, <2>1, <2>2, <2>3 DEF PingShape
<1>6. NotBegun'  BY <1>1 DEF NotBegun
<1>7. SenderOK'
  <2>1. \A k \in entered : k < packet_send + 1  BY <1>2, PingSets DEF SenderOK, PingShape
  <2> QED  BY <1>1, <2>1 DEF SenderOK
<1>8. RepliesOK'
  <2>1. \A k \in Requests : reply'[k] > 0 \/ k \in arrived => k < packet_send + 1
    <3>1. ASSUME NEW k \in Requests, reply'[k] > 0 \/ k \in arrived PROVE k < packet_send + 1
      <4>1. CASE k = packet_send  BY <1>2, <4>1
      <4>2. CASE k # packet_send
        <5>1. k < packet_send  BY <1>4, <3>1, <4>2 DEF RepliesOK
        <5> QED  BY <1>2, <5>1, PingSets
      <4> QED  BY <4>1, <4>2
    <3> QED  BY <3>1
  <2>2. ASSUME ~doubled', NEW k \in Requests PROVE reply'[k] <= 1 /\ (reply'[k] > 0 => k \notin arrived)
    <3>1. ~doubled /\ ~(n > 1)  BY <1>1, <2>2
    <3>2. CASE k = packet_send  BY <1>3, <1>4, <3>1, <3>2
    <3>3. CASE k # packet_send  BY <1>4, <3>1, <3>3 DEF RepliesOK
    <3> QED  BY <3>2, <3>3
  <2> QED  BY <1>1, <2>1, <2>2 DEF RepliesOK
<1>9. NumbersKnown'  BY <1>1 DEF NumbersKnown
<1>10. FirstIsFirst'  BY <1>1 DEF FirstIsFirst
<1>11. Flagged' = Flagged /\ Heard' = Heard /\ Pending' = Pending  BY <1>1 DEF Flagged, Heard, Pending
<1>12. AnswersBounded'
  <2>1. Cardinality(Coming') = Cardinality(Coming) + n  BY <1>1, <1>2, <1>3, ComingGrows
  <2>2. Cardinality(Coming) \in Nat /\ packet_recv \in Nat /\ Pending \in 0..1
    BY PingFinite DEF PingShape, Pending
  <2>3. Cardinality(Coming) + packet_recv + Pending <= packet_send + (IF doubled THEN 1 ELSE 0)
    BY DEF AnswersBounded
  <2>4. CASE n > 1
    <3>1. doubled' /\ ~doubled  BY <1>1, <2>4
    <3>2. Cardinality(Coming') + packet_recv' + Pending' <= packet_send' + 1
      BY <1>1, <1>2, <1>11, <2>1, <2>2, <2>3, <3>1
    <3> QED  BY <3>1, <3>2 DEF AnswersBounded
  <2>5. CASE ~(n > 1)
    <3>1. doubled' <=> doubled  BY <1>1, <2>5
    <3>2. n <= 1  BY <2>5
    <3> DEFINE d == IF doubled THEN 1 ELSE 0
    <3>3. d \in 0..1  OBVIOUS
    <3>4. Cardinality(Coming') + packet_recv' + Pending' <= packet_send' + d
      BY <1>1, <1>2, <1>11, <2>1, <2>2, <2>3, <3>2
    <3> QED  BY <3>1, <3>4 DEF AnswersBounded
  <2> QED  BY <2>4, <2>5
<1>13. TableIsOutstanding' /\ CountedOnce'
  <2>1. CASE doubled
    <3>1. doubled'  BY <1>1, <2>1
    <3> QED  BY <3>1 DEF TableIsOutstanding, CountedOnce
  <2>2. CASE ~doubled
    <3>1. /\ Cardinality(Flagged) = Cardinality(entered) - Cardinality(Heard)
                                    + (IF icmp_recv.pc = "clear" THEN 1 ELSE 0)
          /\ packet_recv + (IF icmp_recv.pc \in {"clear", "count"} THEN 1 ELSE 0) = Cardinality(Heard)
      BY <2>2 DEF TableIsOutstanding, CountedOnce, Flagged
    <3>2. icmp_recv' = icmp_recv /\ packet_recv' = packet_recv /\ entered' = entered  BY <1>1
    <3>3. /\ Cardinality(Flagged') = Cardinality(entered') - Cardinality(Heard')
                                     + (IF icmp_recv'.pc = "clear" THEN 1 ELSE 0)
          /\ packet_recv' + (IF icmp_recv'.pc \in {"clear", "count"} THEN 1 ELSE 0) = Cardinality(Heard')
      BY <1>11, <3>1, <3>2
    <3>4. TableIsOutstanding'  BY <3>3, Zenon DEF TableIsOutstanding, Flagged
    <3>5. CountedOnce'  BY <3>3, Zenon DEF CountedOnce
    <3> QED  BY <3>4, <3>5
  <2> QED  BY <2>1, <2>2
<1>14. (~doubled => LookupOK)'
  <2>1. SUFFICES ASSUME ~doubled' PROVE LookupOK'  OBVIOUS
  <2>2. ~doubled  BY <1>1, <2>1
  <2>3. LookupOK  BY <2>2
  <2> QED  BY <1>1, <2>3 DEF LookupOK, FoundIn
<1> QED  BY <1>1, <1>5, <1>6, <1>7, <1>8, <1>9, <1>10, <1>12, <1>13, <1>14

-----------------------------------------------------------------------------

\* What icmp_findpacket returns for the number of a request an answer has come for:
\* the entry of that request, if it was given one and its number is not negative.
LEMMA FindIs ==
    ASSUME PingInv, ~doubled, NEW k \in Requests, reply[k] > 0
    PROVE  /\ FindSeq(k % SeqBase) # NoEntry =>
                /\ k \in entered /\ Short(k) >= 0
                /\ FindSeq(k % SeqBase) \in Entry /\ FoundIn(FindSeq(k % SeqBase), k)
           /\ FindSeq(k % SeqBase) = NoEntry => k \notin entered \/ ~(Short(k) >= 0)
<1> USE DEF PingInv
<1> DEFINE hits == {e \in Entry : pingpacket[e].seq = k}
<1>1. k \in Nat /\ k < SeqBase /\ k % SeqBase = k  BY PingSets, ShortIs
<1>2. FindSeq(k % SeqBase) = IF hits = {} THEN NoEntry ELSE Min(hits)  BY <1>1 DEF FindSeq
<1>3. k < packet_send /\ k \notin arrived /\ packet_send \in Nat  BY DEF RepliesOK, PingShape
<1>4. hits \subseteq Entry /\ hits \subseteq Nat /\ NoEntry \notin hits  BY PingSets
<1>5. ASSUME NEW e \in hits PROVE k \in entered /\ Short(k) >= 0
  <2>1. e \in Entry /\ pingpacket[e].seq = k  OBVIOUS
  <2>2. CASE pingpacket[e].seq = 0
    <3>1. k = 0  BY <2>1, <2>2
    <3>2. 0 \in entered  BY <1>3, <3>1 DEF FirstIsFirst
    <3> QED  BY <1>1, <3>1, <3>2, ShortIs
  <2>3. CASE \E j \in entered : pingpacket[e].seq = Short(j)
    <3>1. PICK j \in entered : k = Short(j)  BY <2>1, <2>3
    <3>2. j \in Nat /\ j < SeqBase  BY PingSets DEF PingShape
    <3>3. Short(j) = j \/ Short(j) < 0  BY <3>2, ShortIs
    <3>4. j = k  BY <1>1, <3>1, <3>2, <3>3
    <3> QED  BY <1>1, <3>1, <3>4
  <2>4. CASE icmp_send.pc = "flag" /\ icmp_send.entry = e
    <3>1. e # NoEntry  BY <2>1, PingSets
    <3>2. k = Short(packet_send) /\ packet_send < SeqBase
      BY <1>3, <2>1, <2>4, <3>1, PingNumbers DEF SenderOK
    <3>3. Short(packet_send) = packet_send \/ Short(packet_send) < 0  BY <1>3, <3>2, ShortIs
    <3> QED  BY <1>1, <1>3, <3>2, <3>3
  <2> QED  BY <2>1, <2>2, <2>3, <2>4 DEF NumbersKnown
<1>6. ASSUME k \in entered, Short(k) >= 0 PROVE hits # {} /\ FoundIn(Min(hits), k)
  <2>1. PICK e \in Entry : FoundIn(e, k)  BY <1>3, <1>6 DEF LookupOK
  <2>2. e \in hits /\ \A d \in hits : e <= d  BY <2>1 DEF FoundIn
  <2>3. Min(hits) \in hits /\ Min(hits) <= e  BY <1>4, <2>2, LeastIs
  <2>4. Min(hits) = e  BY <1>4, <2>2, <2>3
  <2> QED  BY <2>1, <2>2, <2>4
<1>7. hits # {} => Min(hits) \in hits  BY <1>4, LeastIs
<1> HIDE DEF hits
<1>8. CASE hits = {}  BY <1>2, <1>6, <1>8
<1>9. CASE hits # {}  BY <1>2, <1>4, <1>5, <1>6, <1>7, <1>9
<1> QED  BY <1>8, <1>9

\* An answer less is on its way.
LEMMA ComingShrinks ==
    ASSUME PingInv, NEW k \in Requests, reply[k] > 0, reply' = [reply EXCEPT ![k] = reply[k] - 1]
    PROVE  Cardinality(Coming') = Cardinality(Coming) - 1
<1>1. PingShape  BY DEF PingInv
<1>2. reply'[k] = reply[k] - 1 /\ \A j \in Requests \ {k} : reply'[j] = reply[j]
  BY <1>1 DEF PingShape
<1>3. reply[k] \in 1..2  BY <1>1 DEF PingShape
<1>4. <<k, reply[k]>> \in Coming  BY <1>3 DEF Coming
<1>5. Coming' = Coming \ {<<k, reply[k]>>}
  <2>1. ASSUME NEW j \in Requests, NEW m \in 1..2
        PROVE  <<j, m>> \in Coming' <=> <<j, m>> \in Coming /\ <<j, m>> # <<k, reply[k]>>
    <3>1. CASE j = k  BY <1>2, <1>3, <3>1 DEF Coming
    <3>2. CASE j # k  BY <1>2, <3>2 DEF Coming
    <3> QED  BY <3>1, <3>2
  <2>2. Coming \subseteq Requests \X (1..2) /\ Coming' \subseteq Requests \X (1..2)  BY DEF Coming
  <2>3. ASSUME NEW x PROVE x \in Coming' <=> x \in Coming /\ x # <<k, reply[k]>>
    <3>1. CASE x \in Requests \X (1..2)
      <4>1. PICK j \in Requests, m \in 1..2 : x = <<j, m>>  BY <3>1
      <4> QED  BY <2>1, <4>1
    <3>2. CASE x \notin Requests \X (1..2)  BY <2>2, <3>2
    <3> QED  BY <3>1, <3>2
  <2> QED  BY <2>3
<1>6. IsFiniteSet(Coming)  BY <1>1, PingFinite
<1> QED  BY <1>4, <1>5, <1>6, FS_RemoveElement

\* The receiver takes an answer and looks for its request, in the table that the
\* sender may just be changing.
LEMMA RecvReplyInv == ASSUME PingInv, NEW k \in Requests, RecvReply(k) PROVE PingInv'
<1> USE DEF PingInv
<1> DEFINE e == IF bigPid THEN NoEntry ELSE FindSeq(k % SeqBase)
<1>1. /\ icmp_recv.pc = "test" /\ reply[k] > 0
      /\ reply' = [reply EXCEPT ![k] = reply[k] - 1]
      /\ arrived' = arrived \cup {k}
      /\ IF e = NoEntry THEN icmp_recv' = icmp_recv ELSE icmp_recv' = [pc |-> "clear", entry |-> e]
      /\ UNCHANGED <<pingpacket, packet_send, packet_recv, bigPid, icmp_send, ping, entered, doubled>>
  BY DEF RecvReply, Receiver
<1>2. k < packet_send /\ packet_send \in Nat /\ k \in Nat  BY <1>1, PingSets DEF RepliesOK, PingShape
<1>3. reply'[k] = reply[k] - 1 /\ reply[k] \in 1..2 /\ \A j \in Requests \ {k} : reply'[j] = reply[j]
  BY <1>1 DEF PingShape
<1>4. e # NoEntry => ~bigPid /\ e \in Entry
  <2>1. SUFFICES ASSUME e # NoEntry PROVE ~bigPid /\ e \in Entry  OBVIOUS
  <2> DEFINE hits == {d \in Entry : pingpacket[d].seq = k % SeqBase}
  <2>2. ~bigPid /\ e = IF hits = {} THEN NoEntry ELSE Min(hits)  BY <2>1 DEF FindSeq
  <2>3. hits # {} /\ e = Min(hits)  BY <2>1, <2>2
  <2>4. Min(hits) \in hits  BY <2>3, PingSets, LeastIs
  <2> QED  BY <2>2, <2>3, <2>4
<1>5. ~doubled /\ ~bigPid =>
        /\ e # NoEntry => k \in entered /\ Short(k) >= 0 /\ FoundIn(e, k)
        /\ e = NoEntry => k \notin entered \/ ~(Short(k) >= 0)
  BY <1>1, FindIs
<1> HIDE DEF e
<1>6. icmp_recv' = icmp_recv \/ (e # NoEntry /\ icmp_recv'.pc = "clear" /\ icmp_recv'.entry = e)
  BY <1>1
<1>7. PingShape'
  <2>1. reply' \in [Requests -> 0..2]
    <3>1. reply[k] - 1 \in 0..2  BY <1>3
    <3> QED  BY <1>1, <3>1 DEF PingShape
  <2>2. icmp_recv' \in [pc: {"none", "test", "clear", "count", "done"}, entry: 0..TableSize]
    BY <1>1, <1>4, PingNumbers DEF PingShape, Entry
  <2> QED  BY <1>1, <2>1, <2>2 DEF PingShape
<1>8. NotBegun'
  <2>1. ping \notin {"signal", "alive"}  BY <1>1 DEF NotBegun
  <2> QED  BY <1>1, <2>1 DEF NotBegun
<1>9. SenderOK' /\ NumbersKnown' /\ FirstIsFirst'  BY <1>1 DEF SenderOK, NumbersKnown, FirstIsFirst
<1>10. RepliesOK'
  <2>1. \A j \in Requests : reply'[j] > 0 \/ j \in arrived' => j < packet_send
    <3>1. ASSUME NEW j \in Requests, reply'[j] > 0 \/ j \in arrived' PROVE j < packet_send
      <4>1. CASE j = k  BY <1>2, <4>1
      <4>2. CASE j # k  BY <1>1, <1>3, <3>1, <4>2 DEF RepliesOK
      <4> QED  BY <4>1, <4>2
    <3> QED  BY <3>1
  <2>2. ASSUME ~doubled, NEW j \in Requests PROVE reply'[j] <= 1 /\ (reply'[j] > 0 => j \notin arrived')
    <3>1. CASE j = k
      <4>1. reply[k] <= 1  BY <2>2 DEF RepliesOK
      <4> QED  BY <1>3, <3>1, <4>1
    <3>2. CASE j # k  BY <1>1, <1>3, <2>2, <3>2 DEF RepliesOK
    <3> QED  BY <3>1, <3>2
  <2>3. icmp_recv'.pc = "clear" => icmp_recv'.entry # NoEntry  BY <1>1, <1>6
  <2> QED  BY <1>1, <2>1, <2>2, <2>3 DEF RepliesOK
<1>11. AnswersBounded'
  <2>1. Cardinality(Coming') = Cardinality(Coming) - 1  BY <1>1, ComingShrinks
  <2>2. Pending = 0 /\ Pending' \in 0..1  BY <1>1 DEF Pending
  <2>3. Cardinality(Coming) \in Nat /\ packet_recv \in Nat  BY PingFinite DEF PingShape
  <2> DEFINE d == IF doubled THEN 1 ELSE 0
  <2>4. Cardinality(Coming) + packet_recv + Pending <= packet_send + d  BY DEF AnswersBounded
  <2>5. d \in 0..1  OBVIOUS
  <2> HIDE DEF d
  <2>6. Cardinality(Coming') + packet_recv + Pending' <= packet_send + d
    BY <1>2, <2>1, <2>2, <2>3, <2>4, <2>5
  <2> QED  BY <1>1, <2>6 DEF AnswersBounded, d
<1>12. bigPid' => icmp_recv'.pc \notin {"clear", "count"}  BY <1>1, <1>4, <1>6
<1>13. CASE doubled
  BY <1>1, <1>7, <1>8, <1>9, <1>10, <1>11, <1>12, <1>13 DEF TableIsOutstanding, CountedOnce
<1>14. CASE ~doubled
  <2>1. k \notin arrived  BY <1>1, <1>14 DEF RepliesOK
  <2>2. Flagged' = Flagged  BY <1>1 DEF Flagged
  <2>3. CASE e = NoEntry
    <3>1. icmp_recv' = icmp_recv  BY <1>1, <2>3
    <3>2. Heard' = Heard  BY <1>1, <1>5, <1>14, <2>3 DEF Heard
    <3>3. TableIsOutstanding' /\ CountedOnce'
      BY <1>1, <2>2, <3>1, <3>2 DEF TableIsOutstanding, CountedOnce, Flagged
    <3>4. LookupOK'  BY <1>1, <1>14, <3>1 DEF LookupOK, FoundIn
    <3> QED  BY <1>1, <1>7, <1>8, <1>9, <1>10, <1>11, <1>12, <3>3, <3>4
  <2>4. CASE e # NoEntry
    <3>1. ~bigPid /\ e \in Entry /\ k \in entered /\ Short(k) >= 0 /\ FoundIn(e, k)
          /\ icmp_recv' = [pc |-> "clear", entry |-> e]
      BY <1>1, <1>4, <1>5, <1>14, <2>4
    <3>2. Heard' = Heard \cup {k} /\ k \notin Heard  BY <1>1, <2>1, <3>1 DEF Heard
    <3>3. Cardinality(Heard') = Cardinality(Heard) + 1  BY <3>2, PingFinite, FS_AddElement
    <3>4. Cardinality(Flagged) = Cardinality(entered) - Cardinality(Heard) + 0
          /\ packet_recv + 0 = Cardinality(Heard)
      BY <1>1, <1>14 DEF TableIsOutstanding, CountedOnce, Flagged
    <3>5. Cardinality(Flagged') = Cardinality(entered') - Cardinality(Heard') + 1
          /\ packet_recv' + 1 = Cardinality(Heard')
      BY <1>1, <2>2, <3>3, <3>4, PingFinite DEF PingShape
    <3>6. TableIsOutstanding' /\ CountedOnce'
      BY <3>1, <3>5 DEF TableIsOutstanding, CountedOnce, Flagged
    <3>7. LookupOK'  BY <1>1, <1>14, <3>1 DEF LookupOK, FoundIn
    <3> QED  BY <1>1, <1>7, <1>8, <1>9, <1>10, <1>11, <1>12, <3>6, <3>7
  <2> QED  BY <2>3, <2>4
<1> QED  BY <1>13, <1>14

\* It gives the entry back, and then counts the answer.
LEMMA RecvClearInv == ASSUME PingInv, RecvClear PROVE PingInv'
<1> USE DEF PingInv
<1> DEFINE e == icmp_recv.entry
<1>1. /\ icmp_recv.pc = "clear" /\ icmp_recv' = [pc |-> "count", entry |-> e]
      /\ pingpacket' = [pingpacket EXCEPT ![e].flag = 0]
      /\ UNCHANGED <<packet_send, packet_recv, bigPid, reply, icmp_send, ping, entered, arrived, doubled>>
  BY DEF RecvClear, Receiver
<1>2. e \in Entry  BY <1>1, PingNumbers DEF RepliesOK, PingShape, Entry, NoEntry
<1>3. /\ \A d \in Entry : pingpacket'[d].seq = pingpacket[d].seq
      /\ \A d \in Entry : d # e => pingpacket'[d].flag = pingpacket[d].flag
      /\ pingpacket'[e].flag = 0
      /\ pingpacket' \in [Entry -> [seq: Int, flag: 0..1]]
  BY <1>1, <1>2 DEF PingShape
<1>4. PingShape'
  <2>1. icmp_recv' \in [pc: {"none", "test", "clear", "count", "done"}, entry: 0..TableSize]
    BY <1>1 DEF PingShape
  <2> QED  BY <1>1, <1>3, <2>1 DEF PingShape
<1>5. NotBegun'
  <2>1. ping \notin {"signal", "alive"}  BY <1>1 DEF NotBegun
  <2> QED  BY <1>1, <2>1 DEF NotBegun
<1>6. SenderOK'
  <2>1. icmp_send.entry # NoEntry => icmp_send.entry \in Entry
    BY PingNumbers DEF PingShape, Entry, NoEntry
  <2> QED  BY <1>1, <1>3, <2>1 DEF SenderOK
<1>7. RepliesOK'  BY <1>1 DEF RepliesOK
<1>8. NumbersKnown'  BY <1>1, <1>3 DEF NumbersKnown
<1>9. FirstIsFirst'  BY <1>1, <1>3 DEF FirstIsFirst
<1>10. Heard' = Heard /\ Coming' = Coming /\ Pending' = Pending  BY <1>1 DEF Heard, Coming, Pending
<1>11. AnswersBounded'  BY <1>1, <1>10 DEF AnswersBounded
<1>12. CountedOnce'  BY <1>1, <1>10 DEF CountedOnce
<1>13. ASSUME ~doubled PROVE TableIsOutstanding' /\ LookupOK'
  <2>1. e \in Flagged /\ pingpacket[e].seq \in arrived  BY <1>1, <1>2, <1>13 DEF LookupOK, Flagged
  <2>2. Flagged' = Flagged \ {e}  BY <1>2, <1>3 DEF Flagged
  <2>3. Cardinality(Flagged') = Cardinality(Flagged) - 1  BY <2>1, <2>2, PingFinite, FS_RemoveElement
  <2>4. Cardinality(Flagged) = Cardinality(entered) - Cardinality(Heard) + 1
    BY <1>1, <1>13 DEF TableIsOutstanding, Flagged
  <2>5. Cardinality(Flagged') = Cardinality(entered') - Cardinality(Heard') + 0
    BY <1>1, <1>10, <2>3, <2>4, PingFinite
  <2>6. TableIsOutstanding'  BY <1>1, <2>5 DEF TableIsOutstanding, Flagged
  <2>7. ASSUME NEW k \in entered \ arrived, Short(k) >= 0 PROVE \E d \in Entry : FoundIn(d, k)'
    <3>1. PICK d \in Entry : FoundIn(d, k)  BY <1>13, <2>7 DEF LookupOK
    <3>2. d # e  BY <2>1, <3>1 DEF FoundIn
    <3> QED  BY <1>3, <3>1, <3>2 DEF FoundIn
  <2>8. LookupOK'  BY <1>1, <2>7 DEF LookupOK
  <2> QED  BY <2>6, <2>8
<1>14. icmp_recv'.pc \notin {"clear"} /\ bigPid' => icmp_recv'.pc \notin {"clear", "count"}
  BY <1>1
<1> QED  BY <1>1, <1>4, <1>5, <1>6, <1>7, <1>8, <1>9, <1>11, <1>12, <1>13, <1>14 DEF TableIsOutstanding

\* The answer is counted.
LEMMA RecvCountInv == ASSUME PingInv, RecvCount PROVE PingInv'
<1> USE DEF PingInv
<1>1. /\ icmp_recv.pc = "count" /\ icmp_recv' = [pc |-> "test", entry |-> NoEntry]
      /\ packet_recv' = packet_recv + 1
      /\ UNCHANGED <<pingpacket, packet_send, bigPid, reply, icmp_send, ping, entered, arrived, doubled>>
  BY DEF RecvCount, Receiver
<1>2. PingShape'
  <2>1. icmp_recv' \in [pc: {"none", "test", "clear", "count", "done"}, entry: 0..TableSize]
    BY <1>1, PingNumbers DEF NoEntry
  <2>2. packet_recv' \in Nat  BY <1>1 DEF PingShape
  <2> QED  BY <1>1, <2>1, <2>2 DEF PingShape
<1>3. NotBegun'
  <2>1. ping \notin {"signal", "alive"}  BY <1>1 DEF NotBegun
  <2> QED  BY <1>1, <2>1 DEF NotBegun
<1>4. SenderOK' /\ RepliesOK' /\ NumbersKnown' /\ FirstIsFirst'
  BY <1>1 DEF SenderOK, RepliesOK, NumbersKnown, FirstIsFirst
<1>5. Flagged' = Flagged /\ Heard' = Heard /\ Coming' = Coming /\ Pending = 1 /\ Pending' = 0
  BY <1>1 DEF Flagged, Heard, Coming, Pending
<1>6. AnswersBounded'
  <2>1. Cardinality(Coming) + packet_recv + 1 = Cardinality(Coming') + packet_recv' + 0
    BY <1>1, <1>5, PingFinite DEF PingShape
  <2> QED  BY <1>1, <1>5, <2>1 DEF AnswersBounded
<1>7. TableIsOutstanding'  BY <1>1, <1>5 DEF TableIsOutstanding, Flagged
<1>8. CountedOnce'
  <2>1. SUFFICES ASSUME ~doubled PROVE packet_recv' + 0 = Cardinality(Heard)
    BY <1>1, <1>5 DEF CountedOnce
  <2>2. packet_recv + 1 = Cardinality(Heard)  BY <1>1, <2>1 DEF CountedOnce
  <2> QED  BY <1>1, <2>2, PingFinite DEF PingShape
<1>9. (~doubled => LookupOK)'  BY <1>1 DEF LookupOK, FoundIn
<1> QED  BY <1>1, <1>2, <1>3, <1>4, <1>6, <1>7, <1>8, <1>9

\* Every step keeps the invariant.
LEMMA PingNextInv == PingInv /\ [PingNext]_pingvars => PingInv'
<1> SUFFICES ASSUME PingInv, [PingNext]_pingvars PROVE PingInv'  OBVIOUS
<1>1. CASE PingRuns \/ PingStarts \/ PingJoins \/ icmp_sigint  BY <1>1, PingMainInv
<1>2. CASE PingSend  BY <1>2, SendFindInv, SendFillInv, SendFlagInv, SendToInv DEF PingSend
<1>3. CASE RecvEnds
  <2>1. /\ icmp_recv.pc = "test" /\ icmp_recv' = [pc |-> "done", entry |-> NoEntry]
        /\ UNCHANGED <<pingpacket, packet_send, packet_recv, bigPid, reply, icmp_send, ping,
                       entered, arrived, doubled>>
    BY <1>3 DEF RecvEnds, Receiver
  <2>2. icmp_recv' \in [pc: {"none", "test", "clear", "count", "done"}, entry: 0..TableSize]
    BY <2>1, PingNumbers DEF NoEntry
  <2>3. NotBegun'  BY <2>1 DEF PingInv, NotBegun
  <2> QED  BY <2>1, <2>2, <2>3, PingQuiet DEF PingInv, PingShape
<1>4. CASE RecvClear \/ RecvCount \/ \E k \in Requests : RecvReply(k)
  BY <1>4, RecvClearInv, RecvCountInv, RecvReplyInv
<1>5. CASE UNCHANGED pingvars
  <2>1. UNCHANGED <<pingpacket, packet_send, packet_recv, bigPid, reply, icmp_send, icmp_recv, ping,
                    entered, arrived, doubled>>
    BY <1>5 DEF pingvars
  <2> QED  BY <2>1, PingQuiet DEF PingInv, PingShape, NotBegun
<1> QED  BY <1>1, <1>2, <1>3, <1>4, <1>5 DEF PingNext, PingReceive

\* The two threads of ping, which share the table of packets and the statistics
\* without a lock, keep them in agreement: the entries in use are those of the
\* requests without an answer, and every answer ping can tell is counted once,
\* unless one came twice.  For any number of requests and entries.
THEOREM StatisticsStaySound == PingSpec => []StatisticsSound
<1>1. PingInv => StatisticsSound
  <2> SUFFICES ASSUME PingInv PROVE StatisticsSound  OBVIOUS
  <2> USE DEF PingInv
  <2>1. packet_recv \in 0..MaxPackets + 1
    <3>1. Cardinality(Coming) \in Nat /\ packet_recv \in Nat /\ Pending \in 0..1
          /\ packet_send \in Nat /\ packet_send <= MaxPackets
      BY PingFinite, PingNumbers DEF PingShape, Pending
    <3> DEFINE d == IF doubled THEN 1 ELSE 0
    <3>2. Cardinality(Coming) + packet_recv + Pending <= packet_send + d  BY DEF AnswersBounded
    <3>3. d \in 0..1  OBVIOUS
    <3> HIDE DEF d
    <3> QED  BY <3>1, <3>2, <3>3, PingNumbers
  <2>2. icmp_send.entry \in Entry \cup {NoEntry} /\ icmp_recv.entry \in Entry \cup {NoEntry}
    BY PingNumbers DEF PingShape, Entry, NoEntry
  <2>3. PingTypeOK  BY <2>1, <2>2 DEF PingTypeOK, PingShape
  <2> QED  BY <2>3 DEF StatisticsSound
<1> QED  BY PingInitInv, PingNextInv, <1>1, PTL DEF PingSpec

-----------------------------------------------------------------------------
(* Datagrams: the inductive invariant.                                     *)

Request == [from: Asking, round: 1..times]

DatagramShape ==
    /\ exchange \in Exchange \cup {"none"}
    /\ asker \in [Asking -> [pc: {"ask", "wait", "closed"}, round: 1..times + 1]]
    /\ inbox \in [Asking -> Seq(1..times)]
    /\ socket \in [Answering -> Seq(Request)]
    /\ answerer \in [Answering -> [pc: {"select", "busy", "over"},
                                   request: Request \cup {NoRequest}, exits: BOOLEAN]]
    /\ timedOut \subseteq Asking

\* What waits at a server, or is being answered, is there once.
In(q) == {q[i] : i \in 1..Len(q)}
Once(q) == \A i, j \in 1..Len(q) : i # j => q[i] # q[j]
AtWork(s) == In(socket[s]) \cup (IF answerer[s].pc = "busy" THEN {answerer[s].request} ELSE {})
NoneTwiceAt(s) ==
    /\ Once(socket[s])
    /\ answerer[s].pc = "busy" => answerer[s].request \in Request \ In(socket[s])

\* Before the programs are run there is nothing; afterwards one server, where there is
\* only one; and who floods or is done waits for nothing.
Programs ==
    /\ exchange = "none" =>
          /\ \A c \in Asking : asker[c] = [pc |-> "closed", round |-> 1] /\ inbox[c] = <<>>
          /\ \A s \in Answering : AtWork(s) = {}
    /\ exchange \in {"dgram", "echo", "flood"} => \A s, t \in Live : s = t
    /\ exchange = "flood" => \A c \in Asking : asker[c].pc # "wait"

\* What of a client is under way: requests at servers, known by the server and the
\* round, and answers in its own socket; and their rounds.
Unanswered(c) == {x \in Answering \X (1..times) : [from |-> c, round |-> x[2]] \in AtWork(x[1])}
UnderWay(c) == Cardinality(Unanswered(c)) + Len(inbox[c])
Rounds(c) ==
    {r \in 1..times : \/ \E s \in Answering : [from |-> c, round |-> r] \in AtWork(s)
                      \/ r \in In(inbox[c])}

\* The rounds a client has asked in, and how often it asks in each.
Asked(c) == IF asker[c].pc = "ask" THEN asker[c].round - 1 ELSE asker[c].round
Each == IF exchange \in {"found", "broadcast"} THEN Cardinality(Answering) ELSE 1

\* Nothing under way is of a round to come, and no more than was asked.
NoneAhead(c) ==
    /\ asker[c].pc \in {"ask", "wait"} => asker[c].round <= times
    /\ \A r \in Rounds(c) : r <= Asked(c)
    /\ UnderWay(c) <= Asked(c) * Each

\* A client whose select never timed up: what it waits for is of its round, and when it
\* asks again nothing is left of the rounds before.
Follows(c) ==
    exchange \notin {"broadcast", "flood"} /\ c \notin timedOut =>
        /\ asker[c].pc = "ask" => UnderWay(c) = 0
        /\ asker[c].pc = "wait" =>
              /\ \A r \in Rounds(c) : r = asker[c].round
              /\ exchange # "found" => UnderWay(c) <= 1

DatagramInv ==
    /\ DatagramShape /\ Programs /\ AnswersInStep
    /\ \A s \in Answering : NoneTwiceAt(s)
    /\ \A c \in Asking : NoneAhead(c) /\ Follows(c)

-----------------------------------------------------------------------------

\* There are finitely many servers and rounds.
LEMMA DatagramNumbers ==
    /\ times \in Nat /\ 1 <= times /\ IsFiniteSet(Answering) /\ Cardinality(Answering) \in Nat
    /\ IsFiniteSet(Answering \X (1..times)) /\ Each \in Nat
<1>1. times \in Nat /\ 1 <= times /\ IsFiniteSet(Answering)  BY DatagramAssumption
<1>2. IsFiniteSet(1..times)  BY <1>1, FS_Interval
<1>3. IsFiniteSet(Answering \X (1..times))  BY <1>1, <1>2, FS_Product
<1>4. Cardinality(Answering) \in Nat  BY <1>1, FS_CardinalityType
<1> QED  BY <1>1, <1>3, <1>4 DEF Each

\* So what is under way can be counted.
LEMMA UnansweredFinite ==
    ASSUME NEW c PROVE IsFiniteSet(Unanswered(c)) /\ Cardinality(Unanswered(c)) \in Nat
<1>1. Unanswered(c) \subseteq Answering \X (1..times)  BY DEF Unanswered
<1> QED  BY <1>1, DatagramNumbers, FS_Subset, FS_CardinalityType

\* Now and after any step,
LEMMA UnansweredStaysFinite ==
    ASSUME NEW c PROVE IsFiniteSet(Unanswered(c)') /\ Cardinality(Unanswered(c)') \in Nat
<1>1. Unanswered(c)' \subseteq Answering \X (1..times)  BY DEF Unanswered
<1> QED  BY <1>1, DatagramNumbers, FS_Subset, FS_CardinalityType

\* and with the answers.
LEMMA UnderWayIs ==
    ASSUME DatagramShape', NEW c \in Asking
    PROVE  UnderWay(c)' \in Nat /\ UnderWay(c)' = Cardinality(Unanswered(c)') + Len(inbox'[c])
<1>1. inbox'[c] \in Seq(1..times)  BY DEF DatagramShape
<1>2. Len(inbox'[c]) \in Nat  BY <1>1
<1>3. UnderWay(c)' = Cardinality(Unanswered(c)') + Len(inbox'[c])  BY DEF UnderWay
<1> QED  BY <1>2, <1>3, UnansweredStaysFinite

\* The rounds are numbers.
LEMMA AskerIs ==
    ASSUME DatagramShape, NEW c \in Asking
    PROVE  /\ asker[c].pc \in {"ask", "wait", "closed"} /\ asker[c].round \in 1..times + 1
           /\ asker[c].round \in Nat /\ asker[c].round >= 1 /\ Asked(c) \in Nat
           /\ Len(inbox[c]) \in Nat /\ UnderWay(c) \in Nat
<1>1. asker[c] \in [pc: {"ask", "wait", "closed"}, round: 1..times + 1]  BY DEF DatagramShape
<1>2. inbox[c] \in Seq(1..times)  BY DEF DatagramShape
<1>3. Len(inbox[c]) \in Nat  BY <1>2
<1>4. asker[c].round \in Nat /\ asker[c].round >= 1  BY <1>1, DatagramNumbers
<1> QED  BY <1>1, <1>3, <1>4, UnansweredFinite DEF Asked, UnderWay

\* Whoever has nothing under way has no round of it.
LEMMA NothingUnderWay ==
    ASSUME DatagramShape, NEW c \in Asking, UnderWay(c) = 0 PROVE Rounds(c) = {} /\ Len(inbox[c]) = 0
<1>1. Cardinality(Unanswered(c)) = 0 /\ Len(inbox[c]) = 0  BY AskerIs, UnansweredFinite DEF UnderWay
<1>2. Unanswered(c) = {}  BY <1>1, UnansweredFinite, FS_EmptySet
<1>3. ASSUME NEW r \in Rounds(c) PROVE FALSE
  <2>0. In(inbox[c]) = {}  BY <1>1 DEF In
  <2>1. r \in 1..times /\ \E s \in Answering : [from |-> c, round |-> r] \in AtWork(s)
    BY <1>3, <2>0 DEF Rounds
  <2>2. PICK s \in Answering : [from |-> c, round |-> r] \in AtWork(s)  BY <2>1
  <2>3. <<s, r>> \in Unanswered(c)  BY <2>1, <2>2 DEF Unanswered
  <2> QED  BY <1>2, <2>3
<1> QED  BY <1>1, <1>3

\* Who asks more often may be answered more often.
LEMMA MoreAsked ==
    \A a, b, e \in Nat : /\ a * e \in Nat /\ (a <= b => a * e <= b * e)
                         /\ (a + 1) * e = a * e + e
<1> SUFFICES ASSUME NEW a \in Nat, NEW b \in Nat, NEW e \in Nat
             PROVE  a * e \in Nat /\ (a <= b => a * e <= b * e) /\ (a + 1) * e = a * e + e
  OBVIOUS
<1>1. ASSUME a <= b PROVE a * e <= b * e
  <2>1. PICK d \in Nat : b = a + d
    <3>1. b - a \in Nat /\ b = a + (b - a)  BY <1>1
    <3> QED  BY <3>1
  <2>2. b * e = a * e + d * e  BY <2>1
  <2>3. d * e \in Nat /\ a * e \in Nat  OBVIOUS
  <2> QED  BY <2>2, <2>3
<1>2. (a + 1) * e = a * e + e  OBVIOUS
<1> QED  BY <1>1, <1>2

-----------------------------------------------------------------------------

\* A client that does nothing, while no more comes under way for it.
LEMMA ClientWaits ==
    ASSUME DatagramInv, DatagramShape', NEW c \in Asking, exchange' = exchange, asker'[c] = asker[c],
           Rounds(c)' \subseteq Rounds(c), UnderWay(c)' <= UnderWay(c), timedOut \subseteq timedOut'
    PROVE  NoneAhead(c)' /\ Follows(c)'
<1> USE DEF DatagramInv
<1>1. NoneAhead(c) /\ Follows(c)  OBVIOUS
<1>2. UnderWay(c) \in Nat /\ UnderWay(c)' \in Nat  BY AskerIs, UnderWayIs
<1>3. Asked(c)' = Asked(c) /\ Each' = Each  BY DEF Asked, Each
<1>4. NoneAhead(c)'
  <2>1. Asked(c) * Each \in Nat  BY AskerIs, DatagramNumbers, MoreAsked
  <2>2. UnderWay(c)' <= Asked(c)' * Each'  BY <1>1, <1>2, <1>3, <2>1 DEF NoneAhead
  <2> QED  BY <1>1, <1>3, <2>2 DEF NoneAhead
<1>5. Follows(c)'  BY <1>1, <1>2 DEF Follows
<1> QED  BY <1>4, <1>5

\* The round that follows, if there is one.
LEMMA NextRoundIs ==
    ASSUME DatagramInv, NEW c \in Asking, asker[c].pc \in {"ask", "wait"}
    PROVE  /\ NextRound(c) \in [pc: {"ask", "wait", "closed"}, round: 1..times + 1]
           /\ NextRound(c).pc \in {"ask", "closed"} /\ NextRound(c).round = asker[c].round + 1
           /\ NextRound(c).pc = "ask" => asker[c].round + 1 <= times
<1>1. asker[c].round \in 1..times + 1 /\ asker[c].round <= times
  BY AskerIs DEF DatagramInv, NoneAhead
<1> QED  BY <1>1, DatagramNumbers DEF NextRound

\* A client goes on to its next round, or closes, while no more comes under way.
LEMMA ClientGoesOn ==
    ASSUME DatagramInv, DatagramShape', NEW c \in Asking, exchange' = exchange,
           asker[c].pc \in {"ask", "wait"},
           asker'[c] \in {NextRound(c), [asker[c] EXCEPT !.pc = "closed"]},
           Rounds(c)' \subseteq Rounds(c), UnderWay(c)' <= UnderWay(c),
           exchange \notin {"broadcast", "flood"} /\ c \notin timedOut' /\ asker'[c].pc = "ask"
              => UnderWay(c)' = 0
    PROVE  NoneAhead(c)' /\ Follows(c)'
<1> USE DEF DatagramInv
<1>1. NoneAhead(c) /\ Follows(c)  OBVIOUS
<1>2. UnderWay(c) \in Nat /\ UnderWay(c)' \in Nat /\ Asked(c) \in Nat  BY AskerIs, UnderWayIs
<1>3. /\ asker'[c].pc \in {"ask", "closed"} /\ asker[c].round \in Nat
      /\ \/ asker'[c].round = asker[c].round + 1 /\ (asker'[c].pc = "ask" => asker'[c].round <= times)
         \/ asker'[c].round = asker[c].round /\ asker'[c].pc = "closed"
  <2>1. CASE asker'[c] = NextRound(c)  BY <2>1, NextRoundIs, AskerIs
  <2>2. CASE asker'[c] = [asker[c] EXCEPT !.pc = "closed"]
    <3>1. asker'[c].pc = "closed" /\ asker'[c].round = asker[c].round
      <4>1. asker[c] \in [pc: {"ask", "wait", "closed"}, round: 1..times + 1]  BY DEF DatagramShape
      <4> QED  BY <2>2, <4>1
    <3> QED  BY <3>1, AskerIs
  <2> QED  BY <2>1, <2>2
<1>4. Asked(c)' \in Nat /\ Asked(c) <= Asked(c)'
  BY <1>2, <1>3 DEF Asked
<1>5. Each' = Each /\ Each \in Nat  BY DatagramNumbers DEF Each
<1>6. Asked(c) * Each <= Asked(c)' * Each /\ Asked(c) * Each \in Nat /\ Asked(c)' * Each \in Nat
  BY <1>2, <1>4, <1>5, MoreAsked
<1>7. NoneAhead(c)'
  <2>1. UnderWay(c)' <= Asked(c)' * Each'  BY <1>1, <1>2, <1>5, <1>6 DEF NoneAhead
  <2>2. \A r \in Rounds(c)' : r <= Asked(c)'
    <3>1. \A r \in Rounds(c) : r \in Nat /\ r <= Asked(c)  BY <1>1 DEF NoneAhead, Rounds
    <3> QED  BY <1>2, <1>4, <3>1
  <2>3. asker'[c].pc \in {"ask", "wait"} => asker'[c].round <= times  BY <1>3
  <2> QED  BY <2>1, <2>2, <2>3 DEF NoneAhead
<1>8. Follows(c)'  BY <1>3 DEF Follows
<1> QED  BY <1>7, <1>8

\* A client asks, in a round it had not asked in yet.
LEMMA ClientAsks ==
    ASSUME DatagramInv, DatagramShape', NEW c \in Asking, exchange' = exchange, timedOut' = timedOut,
           asker[c].pc = "ask",
           \/ asker'[c].pc = "wait" /\ asker'[c].round = asker[c].round
           \/ exchange = "flood" /\ asker'[c] = NextRound(c),
           Rounds(c)' \subseteq Rounds(c) \cup {asker[c].round}, UnderWay(c)' <= UnderWay(c) + Each
    PROVE  NoneAhead(c)' /\ Follows(c)'
<1> USE DEF DatagramInv
<1>1. NoneAhead(c) /\ Follows(c)  OBVIOUS
<1>2. UnderWay(c) \in Nat /\ UnderWay(c)' \in Nat /\ Asked(c) \in Nat  BY AskerIs, UnderWayIs
<1>3. /\ asker[c].round \in Nat /\ asker[c].round <= times /\ asker[c].round >= 1
      /\ Asked(c) = asker[c].round - 1
  BY <1>1, AskerIs DEF NoneAhead, Asked
<1>4. /\ \/ asker'[c].pc = "wait" /\ asker'[c].round = asker[c].round
         \/ /\ asker'[c].pc \in {"ask", "closed"} /\ asker'[c].round = asker[c].round + 1
            /\ (asker'[c].pc = "ask" => asker'[c].round <= times)
      /\ asker'[c].pc = "wait" \/ exchange = "flood"
  BY NextRoundIs
<1>5. Asked(c)' \in Nat /\ Asked(c) + 1 <= Asked(c)'
  BY <1>2, <1>3, <1>4 DEF Asked
<1>6. Each' = Each /\ Each \in Nat /\ (exchange \notin {"found", "broadcast"} => Each = 1)
  BY DatagramNumbers DEF Each
<1>7. /\ Asked(c) * Each + Each <= Asked(c)' * Each
      /\ Asked(c) * Each \in Nat /\ Asked(c)' * Each \in Nat
  BY <1>2, <1>5, <1>6, MoreAsked
<1>8. NoneAhead(c)'
  <2>1. UnderWay(c)' <= Asked(c)' * Each'  BY <1>1, <1>2, <1>6, <1>7 DEF NoneAhead
  <2>2. \A r \in Rounds(c)' : r <= Asked(c)'
    <3>1. \A r \in Rounds(c) : r \in Nat /\ r <= Asked(c)  BY <1>1 DEF NoneAhead, Rounds
    <3> QED  BY <1>2, <1>3, <1>5, <3>1
  <2>3. asker'[c].pc \in {"ask", "wait"} => asker'[c].round <= times  BY <1>3, <1>4
  <2> QED  BY <2>1, <2>2, <2>3 DEF NoneAhead
<1>9. Follows(c)'
  <2> SUFFICES ASSUME exchange \notin {"broadcast", "flood"}, c \notin timedOut
               PROVE  /\ asker'[c].pc = "ask" => UnderWay(c)' = 0
                      /\ asker'[c].pc = "wait" => /\ \A r \in Rounds(c)' : r = asker'[c].round
                                                  /\ exchange # "found" => UnderWay(c)' <= 1
    BY DEF Follows
  <2>1. UnderWay(c) = 0  BY <1>1 DEF Follows
  <2>2. Rounds(c) = {}  BY <2>1, NothingUnderWay
  <2> QED  BY <1>2, <1>4, <1>6, <2>1, <2>2
<1> QED  BY <1>8, <1>9

-----------------------------------------------------------------------------

\* A queue that grows behind,
LEMMA QueueGrows ==
    ASSUME NEW T, NEW q \in Seq(T), NEW x \in T
    PROVE  /\ Append(q, x) \in Seq(T) /\ Len(Append(q, x)) = Len(q) + 1
           /\ In(Append(q, x)) = In(q) \cup {x}
           /\ Once(q) /\ x \notin In(q) => Once(Append(q, x))
<1> DEFINE a == Append(q, x)
<1>1. /\ Len(q) \in Nat /\ a \in Seq(T) /\ Len(a) = Len(q) + 1 /\ a[Len(q) + 1] = x
      /\ \A i \in 1..Len(q) : a[i] = q[i]
  OBVIOUS
<1> HIDE DEF a
<1>2. \A i \in 1..Len(a) : i \in 1..Len(q) \/ i = Len(q) + 1  BY <1>1
<1>3. Len(q) + 1 \in 1..Len(a) /\ \A i \in 1..Len(q) : i \in 1..Len(a)  BY <1>1
<1>4. In(a) = In(q) \cup {x}  BY <1>1, <1>2, <1>3 DEF In
<1>5. ASSUME Once(q), x \notin In(q) PROVE Once(a)
  <2> SUFFICES ASSUME NEW i \in 1..Len(a), NEW j \in 1..Len(a), i # j PROVE a[i] # a[j]
    BY DEF Once
  <2>1. \A k \in 1..Len(q) : q[k] # x  BY <1>5 DEF In
  <2> QED  BY <1>1, <1>2, <1>5, <2>1 DEF Once
<1> QED  BY <1>1, <1>4, <1>5 DEF a

\* and one whose first element is taken.
LEMMA QueueIsTaken ==
    ASSUME NEW T, NEW q \in Seq(T), q # <<>>
    PROVE  /\ Tail(q) \in Seq(T) /\ Len(q) \in Nat /\ Len(Tail(q)) + 1 = Len(q)
           /\ Head(q) \in T /\ In(q) = In(Tail(q)) \cup {Head(q)}
           /\ Once(q) => Once(Tail(q)) /\ Head(q) \notin In(Tail(q))
<1> DEFINE t == Tail(q)
<1>1. /\ Len(q) \in Nat /\ Len(q) >= 1 /\ t \in Seq(T) /\ Len(t) = Len(q) - 1 /\ Head(q) = q[1]
      /\ \A i \in 1..Len(q) - 1 : t[i] = q[i + 1]
  OBVIOUS
<1> HIDE DEF t
<1>2. q[1] \in T /\ 1 \in 1..Len(q)  BY <1>1
<1>3. \A i \in 1..Len(t) : i + 1 \in 1..Len(q) /\ t[i] = q[i + 1]  BY <1>1
<1>4. \A j \in 1..Len(q) : j = 1 \/ (j - 1 \in 1..Len(t) /\ t[j - 1] = q[j])
  <2> SUFFICES ASSUME NEW j \in 1..Len(q), j # 1 PROVE j - 1 \in 1..Len(t) /\ t[j - 1] = q[j]
    OBVIOUS
  <2>1. j - 1 \in 1..Len(t) /\ (j - 1) + 1 = j  BY <1>1
  <2> QED  BY <1>3, <2>1
<1>5. In(q) = In(t) \cup {q[1]}
  <2>1. \A x \in In(q) : x \in In(t) \cup {q[1]}  BY <1>4 DEF In
  <2>2. \A x \in In(t) : x \in In(q)  BY <1>3 DEF In
  <2>3. q[1] \in In(q)  BY <1>2 DEF In
  <2> QED  BY <2>1, <2>2, <2>3
<1>6. ASSUME Once(q) PROVE Once(t) /\ q[1] \notin In(t)
  <2>1. \A i \in 1..Len(t) : t[i] # q[1]
    <3>1. \A i \in 1..Len(t) : i + 1 # 1  BY <1>1
    <3> QED  BY <1>2, <1>3, <1>6, <3>1 DEF Once
  <2>2. \A i, j \in 1..Len(t) : i # j => i + 1 # j + 1  BY <1>1
  <2> QED  BY <1>3, <1>6, <2>1, <2>2 DEF Once, In
<1> QED  BY <1>1, <1>2, <1>5, <1>6 DEF t

-----------------------------------------------------------------------------

\* What waits at a server asks for the round it was sent in.
LEMMA AtWorkIs ==
    ASSUME DatagramInv, NEW s \in Answering, NEW q \in AtWork(s)
    PROVE  /\ q \in Request /\ q = [from |-> q.from, round |-> q.round] /\ q.from \in Asking
           /\ q.round \in 1..times /\ q.round \in Rounds(q.from)
<1>1. q \in Request
  <2>1. socket[s] \in Seq(Request)  BY DEF DatagramInv, DatagramShape
  <2>2. In(socket[s]) \subseteq Request  BY <2>1 DEF In
  <2> QED  BY <2>2 DEF DatagramInv, NoneTwiceAt, AtWork
<1>2. q = [from |-> q.from, round |-> q.round] /\ q.from \in Asking /\ q.round \in 1..times
  BY <1>1 DEF Request
<1>3. [from |-> q.from, round |-> q.round] \in AtWork(s)  BY <1>2
<1> QED  BY <1>1, <1>2, <1>3 DEF Rounds

\* No more of a client is under way if the servers have no more of it.
LEMMA NoMoreUnderWay ==
    ASSUME DatagramShape, DatagramShape', NEW c \in Asking, inbox'[c] = inbox[c],
           \A s \in Answering : \A r \in 1..times :
              [from |-> c, round |-> r] \in AtWork(s)' => [from |-> c, round |-> r] \in AtWork(s)
    PROVE  Rounds(c)' \subseteq Rounds(c) /\ UnderWay(c)' <= UnderWay(c)
<1>1. Rounds(c)' \subseteq Rounds(c)  BY DEF Rounds
<1>2. Unanswered(c)' \subseteq Unanswered(c)  BY DEF Unanswered
<1>3. Cardinality(Unanswered(c)') <= Cardinality(Unanswered(c))  BY <1>2, UnansweredFinite, FS_Subset
<1>4. UnderWay(c) = Cardinality(Unanswered(c)) + Len(inbox[c])  BY DEF UnderWay
<1>5. UnderWay(c)' = Cardinality(Unanswered(c)') + Len(inbox[c])  BY UnderWayIs
<1> QED  BY <1>1, <1>3, <1>4, <1>5, AskerIs, UnansweredFinite, UnansweredStaysFinite

\* A request comes to some servers.
LEMMA MoreUnderWay ==
    ASSUME DatagramShape, DatagramShape', NEW c \in Asking, inbox'[c] = inbox[c],
           NEW to \in SUBSET Answering, NEW n \in 1..times,
           \A s \in Answering : \A r \in 1..times :
              [from |-> c, round |-> r] \in AtWork(s)' =>
                 [from |-> c, round |-> r] \in AtWork(s) \/ (s \in to /\ r = n)
    PROVE  Rounds(c)' \subseteq Rounds(c) \cup {n} /\ UnderWay(c)' <= UnderWay(c) + Cardinality(to)
<1>1. Rounds(c)' \subseteq Rounds(c) \cup {n}  BY DEF Rounds
<1>2. Unanswered(c)' \subseteq Unanswered(c) \cup (to \X {n})  BY DEF Unanswered
<1>3. IsFiniteSet(to) /\ Cardinality(to) \in Nat  BY DatagramNumbers, FS_Subset, FS_CardinalityType
<1>4. IsFiniteSet({n}) /\ Cardinality({n}) = 1  BY FS_Singleton
<1>5. IsFiniteSet(to \X {n}) /\ Cardinality(to \X {n}) = Cardinality(to)
  <2>1. IsFiniteSet(to \X {n}) /\ Cardinality(to \X {n}) = Cardinality(to) * Cardinality({n})
    BY <1>3, <1>4, FS_Product
  <2> QED  BY <1>3, <1>4, <2>1
<1>6. /\ IsFiniteSet(Unanswered(c) \cup (to \X {n}))
      /\ Cardinality(Unanswered(c) \cup (to \X {n})) <= Cardinality(Unanswered(c)) + Cardinality(to)
  <2>1. /\ IsFiniteSet(Unanswered(c) \cup (to \X {n}))
        /\ Cardinality(Unanswered(c) \cup (to \X {n})) =
              Cardinality(Unanswered(c)) + Cardinality(to \X {n}) - Cardinality(Unanswered(c) \cap (to \X {n}))
    BY <1>5, UnansweredFinite, FS_Union
  <2>2. Cardinality(Unanswered(c) \cap (to \X {n})) \in Nat
    BY UnansweredFinite, FS_Intersection, FS_CardinalityType
  <2> QED  BY <1>3, <1>5, <2>1, <2>2, UnansweredFinite
<1>7. Cardinality(Unanswered(c)') <= Cardinality(Unanswered(c) \cup (to \X {n}))  BY <1>2, <1>6, FS_Subset
<1>8. Cardinality(Unanswered(c) \cup (to \X {n})) \in Nat  BY <1>6, FS_CardinalityType
<1>9. UnderWay(c) = Cardinality(Unanswered(c)) + Len(inbox[c])  BY DEF UnderWay
<1>10. UnderWay(c)' = Cardinality(Unanswered(c)') + Len(inbox[c])  BY UnderWayIs
<1> QED
  BY <1>1, <1>3, <1>6, <1>7, <1>8, <1>9, <1>10, AskerIs, UnansweredFinite, UnansweredStaysFinite

\* A request becomes an answer, or nothing.
LEMMA AnswerUnderWay ==
    ASSUME DatagramShape, DatagramShape', NEW c \in Asking, NEW s \in Answering, NEW n \in 1..times,
           [from |-> c, round |-> n] \in AtWork(s), [from |-> c, round |-> n] \notin AtWork(s)',
           \A t \in Answering : \A r \in 1..times :
              [from |-> c, round |-> r] \in AtWork(t)' => [from |-> c, round |-> r] \in AtWork(t),
           inbox'[c] = inbox[c] \/ inbox'[c] = Append(inbox[c], n)
    PROVE  Rounds(c)' \subseteq Rounds(c) /\ UnderWay(c)' <= UnderWay(c)
<1>1. /\ Len(inbox[c]) \in Nat /\ Len(inbox'[c]) \in Nat /\ Len(inbox'[c]) <= Len(inbox[c]) + 1
      /\ In(inbox'[c]) \subseteq In(inbox[c]) \cup {n}
  <2>1. inbox[c] \in Seq(1..times)  BY DEF DatagramShape
  <2>2. Len(inbox[c]) \in Nat  BY <2>1
  <2>3. CASE inbox'[c] = inbox[c]  BY <2>2, <2>3
  <2>4. CASE inbox'[c] = Append(inbox[c], n)
    <3>1. /\ Len(Append(inbox[c], n)) = Len(inbox[c]) + 1
          /\ In(Append(inbox[c], n)) = In(inbox[c]) \cup {n}
      <4>1. PICK T : T = 1..times  OBVIOUS
      <4>2. inbox[c] \in Seq(T) /\ n \in T  BY <2>1, <4>1
      <4> QED  BY <4>2, QueueGrows
    <3>2. Len(inbox'[c]) = Len(inbox[c]) + 1 /\ In(inbox'[c]) = In(inbox[c]) \cup {n}
      BY <2>4, <3>1
    <3> QED  BY <2>2, <3>2
  <2> QED  BY <2>3, <2>4
<1>2. Rounds(c)' \subseteq Rounds(c)
  <2> SUFFICES ASSUME NEW r \in Rounds(c)' PROVE r \in Rounds(c)  OBVIOUS
  <2>1. r \in 1..times  BY DEF Rounds
  <2>2. CASE r \in In(inbox'[c])
    <3>1. CASE r = n  BY <3>1 DEF Rounds
    <3>2. CASE r \in In(inbox[c])  BY <2>1, <3>2 DEF Rounds
    <3> QED  BY <1>1, <2>2, <3>1, <3>2
  <2>3. CASE \E t \in Answering : [from |-> c, round |-> r] \in AtWork(t)'
    <3>1. PICK t \in Answering : [from |-> c, round |-> r] \in AtWork(t)'  BY <2>3
    <3> QED  BY <2>1, <3>1 DEF Rounds
  <2> QED  BY <2>2, <2>3 DEF Rounds
<1>3. Unanswered(c)' \subseteq Unanswered(c) \ {<<s, n>>} /\ <<s, n>> \in Unanswered(c)
  <2>1. <<s, n>> \in Unanswered(c)  BY DEF Unanswered
  <2>2. <<s, n>> \notin Unanswered(c)'  BY DEF Unanswered
  <2>3. Unanswered(c)' \subseteq Unanswered(c)  BY DEF Unanswered
  <2> QED  BY <2>1, <2>2, <2>3
<1>4. /\ IsFiniteSet(Unanswered(c) \ {<<s, n>>})
      /\ Cardinality(Unanswered(c) \ {<<s, n>>}) = Cardinality(Unanswered(c)) - 1
  BY <1>3, UnansweredFinite, FS_RemoveElement
<1>5. Cardinality(Unanswered(c)') <= Cardinality(Unanswered(c) \ {<<s, n>>})  BY <1>3, <1>4, FS_Subset
<1>6. UnderWay(c) = Cardinality(Unanswered(c)) + Len(inbox[c])  BY DEF UnderWay
<1>7. UnderWay(c)' = Cardinality(Unanswered(c)') + Len(inbox'[c])  BY UnderWayIs
<1> QED  BY <1>1, <1>2, <1>4, <1>5, <1>6, <1>7, UnansweredFinite, UnansweredStaysFinite

-----------------------------------------------------------------------------

\* At first there is nothing.
LEMMA DatagramInitInv == DatagramInit => DatagramInv
<1> SUFFICES ASSUME DatagramInit PROVE DatagramInv  OBVIOUS
<1> USE DatagramNumbers DEF DatagramInit
<1>1. DatagramShape
  <2>1. asker \in [Asking -> [pc: {"ask", "wait", "closed"}, round: 1..times + 1]]  OBVIOUS
  <2>2. inbox \in [Asking -> Seq(1..times)]
    <3>1. <<>> \in Seq(1..times)  OBVIOUS
    <3> QED  BY <3>1
  <2>3. socket \in [Answering -> Seq(Request)]
    <3>1. <<>> \in Seq(Request)  OBVIOUS
    <3> QED  BY <3>1
  <2>4. answerer \in [Answering -> [pc: {"select", "busy", "over"},
                                    request: Request \cup {NoRequest}, exits: BOOLEAN]]
    BY DEF Serving
  <2> QED  BY <2>1, <2>2, <2>3, <2>4 DEF DatagramShape
<1>2. \A s \in Answering : socket[s] = <<>> /\ answerer[s].pc = "over"  BY DEF Serving
<1>3. \A s \in Answering : AtWork(s) = {} /\ NoneTwiceAt(s)
  <2>1. In(<<>>) = {} /\ Once(<<>>)  BY DEF In, Once
  <2> QED  BY <1>2, <2>1 DEF AtWork, NoneTwiceAt
<1>4. \A c \in Asking : asker[c] = [pc |-> "closed", round |-> 1] /\ inbox[c] = <<>>  OBVIOUS
<1>5. Programs  BY <1>3, <1>4 DEF Programs
<1>6. ASSUME NEW c \in Asking PROVE NoneAhead(c) /\ Follows(c)
  <2>1. Unanswered(c) = {} /\ Rounds(c) = {}
    <3>1. In(<<>>) = {}  BY DEF In
    <3> QED  BY <1>3, <1>4, <3>1 DEF Unanswered, Rounds
  <2>2. UnderWay(c) = 0  BY <1>4, <2>1, FS_EmptySet DEF UnderWay
  <2>3. Asked(c) \in Nat /\ asker[c].pc = "closed"  BY <1>4 DEF Asked
  <2>4. Asked(c) * Each \in Nat  BY <2>3, MoreAsked
  <2> QED  BY <2>1, <2>2, <2>3, <2>4 DEF NoneAhead, Follows
<1>7. AnswersInStep  BY DEF AnswersInStep
<1> QED  BY <1>1, <1>3, <1>5, <1>6, <1>7 DEF DatagramInv

\* Programs are run.
LEMMA RunProgramsInv == ASSUME DatagramInv, RunPrograms PROVE DatagramInv'
<1> USE DEF DatagramInv
<1>1. exchange = "none" /\ exchange' \in Exchange /\ UNCHANGED <<inbox, socket, timedOut, astray>>
  BY DEF RunPrograms
<1>2. PICK c0 \in Asking : asker' =
         [c \in Asking |->
             [asker[c] EXCEPT !.pc = IF exchange' \in Searches /\ c # c0 THEN "closed" ELSE "ask"]]
  BY DEF RunPrograms
<1>3. PICK s0 \in Answering : answerer' =
         [s \in Answering |->
            Serving(IF exchange' \in Searches \/ s = s0 THEN "select" ELSE "over", NoRequest, FALSE)]
  BY DEF RunPrograms
<1>4. \A c \in Asking : asker[c] = [pc |-> "closed", round |-> 1] /\ inbox[c] = <<>>
  BY <1>1 DEF Programs
<1>5. /\ asker' \in [Asking -> [pc: {"ask", "wait", "closed"}, round: 1..times + 1]]
      /\ \A c \in Asking : asker'[c].pc \in {"ask", "closed"} /\ asker'[c].round = 1
  BY <1>2, <1>4, DatagramNumbers
<1>6. /\ answerer' \in [Answering -> [pc: {"select", "busy", "over"},
                                      request: Request \cup {NoRequest}, exits: BOOLEAN]]
      /\ \A s \in Answering : answerer'[s].pc \in {"select", "over"}
  BY <1>3 DEF Serving
<1>7. DatagramShape'  BY <1>1, <1>5, <1>6 DEF DatagramShape
<1>8. \A s \in Answering : In(socket[s]) = {} /\ Once(socket[s])  BY <1>1 DEF Programs, AtWork, NoneTwiceAt
<1>9. \A s \in Answering : AtWork(s)' = {}  BY <1>1, <1>6, <1>8 DEF AtWork
<1>10. Programs'
  <2>1. exchange' # "none"  BY <1>1 DEF Exchange
  <2>2. exchange' \in {"dgram", "echo", "flood"} => \A s \in Answering : s # s0 => answerer'[s].pc = "over"
    BY <1>3 DEF Searches, Serving
  <2>3. exchange' \in {"dgram", "echo", "flood"} => \A s, t \in Live' : s = t  BY <2>2 DEF Live
  <2> QED  BY <1>5, <2>1, <2>3 DEF Programs
<1>11. \A s \in Answering : NoneTwiceAt(s)'
  BY <1>1, <1>6, <1>8 DEF NoneTwiceAt
<1>12. ASSUME NEW c \in Asking PROVE NoneAhead(c)' /\ Follows(c)'
  <2>1. Unanswered(c)' = {} /\ Rounds(c)' = {}
    <3>1. In(inbox'[c]) = {}
      <4>1. In(<<>>) = {}  BY DEF In
      <4> QED  BY <1>1, <1>4, <4>1
    <3> QED  BY <1>9, <3>1 DEF Unanswered, Rounds
  <2>2. UnderWay(c)' = 0
    <3>1. UnderWay(c)' = Cardinality(Unanswered(c)') + Len(inbox'[c])  BY <1>7, UnderWayIs
    <3>2. Len(inbox'[c]) = 0  BY <1>1, <1>4
    <3>3. Cardinality(Unanswered(c)') = 0  BY <2>1, FS_EmptySet
    <3> QED  BY <3>1, <3>2, <3>3
  <2>3. Asked(c)' \in Nat  BY <1>5 DEF Asked
  <2>4. Each' \in Nat  BY DatagramNumbers DEF Each
  <2>5. Asked(c)' * Each' \in Nat  BY <2>3, <2>4, MoreAsked
  <2> QED  BY <1>5, <2>1, <2>2, <2>5, DatagramNumbers DEF NoneAhead, Follows
<1>13. AnswersInStep'  BY <1>1 DEF AnswersInStep
<1> QED  BY <1>7, <1>10, <1>11, <1>12, <1>13

-----------------------------------------------------------------------------

\* A client goes on to its next round, or closes, and reads at most an answer.
LEMMA AskerGoesOn ==
    ASSUME DatagramInv, NEW c \in Asking, asker[c].pc \in {"ask", "wait"},
           NEW a \in {NextRound(c), [asker[c] EXCEPT !.pc = "closed"]}, asker' = [asker EXCEPT ![c] = a],
           UNCHANGED <<exchange, socket, answerer>>, timedOut \subseteq timedOut', timedOut' \subseteq Asking,
           NEW q \in Seq(1..times), inbox' = [inbox EXCEPT ![c] = q], In(q) \subseteq In(inbox[c]),
           Len(q) <= Len(inbox[c]),
           exchange \notin {"broadcast", "flood"} /\ c \notin timedOut' /\ a.pc = "ask" =>
              UnderWay(c) + Len(q) = Len(inbox[c]),
           AnswersInStep'
    PROVE  DatagramInv'
<1> USE DEF DatagramInv
<1>1. /\ a \in [pc: {"ask", "wait", "closed"}, round: 1..times + 1] /\ a.pc \in {"ask", "closed"}
      /\ asker[c] \in [pc: {"ask", "wait", "closed"}, round: 1..times + 1]
  BY NextRoundIs DEF DatagramShape
<1>2. /\ asker'[c] = a /\ \A d \in Asking \ {c} : asker'[d] = asker[d]
      /\ asker' \in [Asking -> [pc: {"ask", "wait", "closed"}, round: 1..times + 1]]
  BY <1>1 DEF DatagramShape
<1>3. /\ inbox'[c] = q /\ \A d \in Asking \ {c} : inbox'[d] = inbox[d]
      /\ inbox' \in [Asking -> Seq(1..times)]
  <2>1. PICK S : S = Seq(1..times)  OBVIOUS
  <2>2. q \in S /\ inbox \in [Asking -> S]  BY <2>1 DEF DatagramShape
  <2>3. inbox' \in [Asking -> S] /\ inbox'[c] = q /\ \A d \in Asking \ {c} : inbox'[d] = inbox[d]
    BY <2>2
  <2> QED  BY <2>1, <2>3
<1>4. DatagramShape'  BY <1>2, <1>3 DEF DatagramShape
<1>5. \A s \in Answering : AtWork(s)' = AtWork(s) /\ NoneTwiceAt(s)'  BY DEF AtWork, NoneTwiceAt
<1>6. Programs'
  <2>1. exchange # "none"  BY DEF Programs
  <2>2. Live' = Live  BY DEF Live
  <2>3. \A d \in Asking : asker'[d].pc = "wait" => asker[d].pc = "wait"  BY <1>1, <1>2
  <2> QED  BY <2>1, <2>2, <2>3 DEF Programs
<1>7. ASSUME NEW d \in Asking PROVE NoneAhead(d)' /\ Follows(d)'
  <2>1. CASE d # c
    <3>1. inbox'[d] = inbox[d] /\ asker'[d] = asker[d]  BY <1>2, <1>3, <2>1
    <3>2. Rounds(d)' \subseteq Rounds(d) /\ UnderWay(d)' <= UnderWay(d)
      BY <1>4, <1>5, <3>1, NoMoreUnderWay
    <3> QED  BY <1>4, <3>1, <3>2, ClientWaits
  <2>2. CASE d = c
    <3>1. Rounds(c)' \subseteq Rounds(c)  BY <1>3, <1>5 DEF Rounds
    <3>2. Unanswered(c)' = Unanswered(c)  BY <1>5 DEF Unanswered
    <3>3. UnderWay(c)' = Cardinality(Unanswered(c)) + Len(q)  BY <1>3, <1>4, <3>2, UnderWayIs
    <3>4. UnderWay(c) = Cardinality(Unanswered(c)) + Len(inbox[c])  BY DEF UnderWay
    <3>5. Len(q) \in Nat /\ Len(inbox[c]) \in Nat /\ Cardinality(Unanswered(c)) \in Nat
      BY AskerIs, UnansweredFinite
    <3>6. UnderWay(c)' <= UnderWay(c)  BY <3>3, <3>4, <3>5
    <3>7. exchange \notin {"broadcast", "flood"} /\ c \notin timedOut' /\ a.pc = "ask" => UnderWay(c)' = 0
      BY <3>3, <3>4, <3>5
    <3>8. NoneAhead(c)' /\ Follows(c)'  BY <1>2, <1>4, <3>1, <3>6, <3>7, ClientGoesOn
    <3> QED  BY <2>2, <3>8
  <2> QED  BY <2>1, <2>2
<1> QED  BY <1>4, <1>5, <1>6, <1>7

\* A request is sent to some of the servers that live.
LEMMA SentInv ==
    ASSUME DatagramInv, NEW c \in Asking, asker[c].pc = "ask", NEW to \in SUBSET Live, Sent(c, to),
           Cardinality(to) <= Each,
           NEW a, asker' = [asker EXCEPT ![c] = a],
           \/ a = [asker[c] EXCEPT !.pc = "wait"] /\ exchange # "flood"
           \/ exchange = "flood" /\ a = NextRound(c),
           UNCHANGED <<exchange, inbox, answerer, timedOut, astray>>
    PROVE  DatagramInv'
<1> USE DEF DatagramInv
<1> DEFINE n == asker[c].round
           q == [from |-> c, round |-> n]
<1>1. /\ asker[c] \in [pc: {"ask", "wait", "closed"}, round: 1..times + 1]
      /\ n \in 1..times /\ n \in Nat /\ Asked(c) = n - 1
  <2>1. n <= times /\ n \in 1..times + 1  BY AskerIs DEF NoneAhead
  <2> QED  BY <2>1, DatagramNumbers DEF DatagramShape, Asked
<1>2. /\ a \in [pc: {"ask", "wait", "closed"}, round: 1..times + 1]
      /\ \/ a.pc = "wait" /\ a.round = n /\ exchange # "flood"
         \/ a = NextRound(c) /\ a.pc # "wait" /\ exchange = "flood"
  BY <1>1, NextRoundIs
<1>3. /\ asker'[c] = a /\ \A d \in Asking \ {c} : asker'[d] = asker[d]
      /\ asker' \in [Asking -> [pc: {"ask", "wait", "closed"}, round: 1..times + 1]]
  BY <1>2 DEF DatagramShape
<1>4. q \in Request  BY <1>1 DEF Request
<1>5. \A s \in Answering : q \notin AtWork(s)
  <2>1. n \notin Rounds(c)
    <3>1. n \in Rounds(c) => n <= n - 1  BY <1>1 DEF NoneAhead
    <3> QED  BY <1>1, <3>1
  <2> QED  BY <1>1, <2>1 DEF Rounds
<1>6. to \subseteq Answering  BY DEF Live
<1> HIDE DEF n, q
<1>7. ASSUME NEW s \in Answering
      PROVE  /\ socket'[s] \in Seq(Request)
             /\ In(socket'[s]) \subseteq In(socket[s]) \cup (IF s \in to THEN {q} ELSE {})
             /\ Once(socket'[s])
  <2>1. socket[s] \in Seq(Request) /\ Once(socket[s])  BY DEF DatagramShape, NoneTwiceAt
  <2>2. q \notin In(socket[s])  BY <1>5 DEF AtWork
  <2>3. socket'[s] = socket[s] \/ (s \in to /\ socket'[s] = Append(socket[s], q))
    BY DEF Sent, q, n
  <2>4. /\ Append(socket[s], q) \in Seq(Request) /\ Once(Append(socket[s], q))
        /\ In(Append(socket[s], q)) = In(socket[s]) \cup {q}
    BY <1>4, <2>1, <2>2, QueueGrows
  <2>5. CASE socket'[s] = socket[s]  BY <2>1, <2>5
  <2>6. CASE s \in to /\ socket'[s] = Append(socket[s], q)  BY <2>4, <2>6
  <2> QED  BY <2>3, <2>5, <2>6
<1>8. DatagramShape'
  <2>1. socket' \in [Answering -> Seq(Request)]
    <3>1. DOMAIN socket' = Answering /\ socket' = [s \in Answering |-> socket'[s]]  BY DEF Sent
    <3> QED  BY <1>7, <3>1
  <2> QED  BY <1>3, <2>1 DEF DatagramShape
<1>9. \A s \in Answering : NoneTwiceAt(s)'
  <2> SUFFICES ASSUME NEW s \in Answering, answerer[s].pc = "busy"
               PROVE  answerer[s].request \in Request \ In(socket'[s])
    BY <1>7 DEF NoneTwiceAt
  <2>1. answerer[s].request \in Request \ In(socket[s]) /\ answerer[s].request \in AtWork(s)
    BY DEF NoneTwiceAt, AtWork
  <2>2. answerer[s].request # q  BY <1>5, <2>1
  <2> QED  BY <1>7, <2>1, <2>2
<1>10. \A s \in Answering : AtWork(s)' \subseteq AtWork(s) \cup (IF s \in to THEN {q} ELSE {})
  BY <1>7 DEF AtWork
<1>11. Programs'
  <2>1. exchange # "none"  BY DEF Programs
  <2>2. Live' = Live  BY DEF Live
  <2>3. exchange = "flood" => \A d \in Asking : asker'[d].pc # "wait"  BY <1>2, <1>3 DEF Programs
  <2> QED  BY <2>1, <2>2, <2>3 DEF Programs
<1>12. ASSUME NEW d \in Asking PROVE NoneAhead(d)' /\ Follows(d)'
  <2>0. inbox'[d] = inbox[d]  OBVIOUS
  <2>1. CASE d # c
    <3>1. asker'[d] = asker[d]  BY <1>3, <2>1
    <3>2. \A s \in Answering : \A r \in 1..times :
             [from |-> d, round |-> r] \in AtWork(s)' => [from |-> d, round |-> r] \in AtWork(s)
      BY <1>10, <2>1 DEF q
    <3>3. Rounds(d)' \subseteq Rounds(d) /\ UnderWay(d)' <= UnderWay(d)
      BY <1>8, <2>0, <3>2, NoMoreUnderWay
    <3> QED  BY <1>8, <3>1, <3>3, ClientWaits
  <2>2. CASE d = c
    <3>1. \A s \in Answering : \A r \in 1..times :
             [from |-> c, round |-> r] \in AtWork(s)' =>
                [from |-> c, round |-> r] \in AtWork(s) \/ (s \in to /\ r = n)
      BY <1>10 DEF q
    <3>2. Rounds(c)' \subseteq Rounds(c) \cup {n} /\ UnderWay(c)' <= UnderWay(c) + Cardinality(to)
      BY <1>1, <1>6, <1>8, <3>1, MoreUnderWay
    <3>3. UnderWay(c)' <= UnderWay(c) + Each
      <4>1. UnderWay(c) \in Nat /\ UnderWay(c)' \in Nat  BY <1>8, AskerIs, UnderWayIs
      <4>2. Cardinality(to) \in Nat /\ Each \in Nat
        BY <1>6, DatagramNumbers, FS_Subset, FS_CardinalityType
      <4> QED  BY <3>2, <4>1, <4>2
    <3>4. \/ asker'[c].pc = "wait" /\ asker'[c].round = asker[c].round
          \/ exchange = "flood" /\ asker'[c] = NextRound(c)
      BY <1>2, <1>3 DEF n
    <3>5. Rounds(c)' \subseteq Rounds(c) \cup {asker[c].round}  BY <3>2 DEF n
    <3>6. NoneAhead(c)' /\ Follows(c)'  BY <1>8, <3>3, <3>4, <3>5, ClientAsks
    <3> QED  BY <2>2, <3>6
  <2> QED  BY <2>1, <2>2
<1>13. AnswersInStep'  BY DEF AnswersInStep
<1> QED  BY <1>8, <1>9, <1>11, <1>12, <1>13

\* Where there is one server, one request is sent, and where there are more, at most
\* as many.
LEMMA ToFew ==
    ASSUME DatagramInv, NEW to \in SUBSET Live, exchange = "unicast" => Cardinality(to) <= 1,
           exchange # "none"
    PROVE  Cardinality(to) <= Each
<1>1. to \subseteq Answering  BY DEF Live
<1>2. CASE exchange \in {"found", "broadcast"}
  BY <1>1, <1>2, DatagramNumbers, FS_Subset DEF Each
<1>3. CASE exchange \in {"dgram", "echo", "flood"}
  <2>1. \A s, t \in to : s = t  BY <1>3 DEF DatagramInv, Programs
  <2>2. CASE to = {}  BY <1>3, <2>2, FS_EmptySet DEF Each
  <2>3. CASE to # {}
    <3>1. PICK s \in to : TRUE  BY <2>3
    <3>2. to = {s}  BY <2>1, <3>1
    <3> QED  BY <1>3, <3>2, FS_Singleton DEF Each
  <2> QED  BY <2>2, <2>3
<1>4. CASE exchange = "unicast"  BY <1>4 DEF Each
<1> QED  BY <1>2, <1>3, <1>4 DEF DatagramInv, DatagramShape, Exchange

\* The clients of every pair.
LEMMA AskerInv == ASSUME DatagramInv, NEW c \in Asking, AskerSteps(c) PROVE DatagramInv'
<1> USE DEF DatagramInv
<1> DEFINE closed == [asker[c] EXCEPT !.pc = "closed"]
           waiting == [asker[c] EXCEPT !.pc = "wait"]
<1>1. /\ inbox[c] \in Seq(1..times) /\ Len(inbox[c]) \in Nat /\ In(inbox[c]) \subseteq In(inbox[c])
      /\ inbox = [inbox EXCEPT ![c] = inbox[c]]
  BY AskerIs DEF DatagramShape
<1>2. timedOut \subseteq Asking /\ timedOut \cup {c} \subseteq Asking  BY DEF DatagramShape
<1>3. asker[c].pc = "ask" /\ exchange \notin {"broadcast", "flood"} /\ c \notin timedOut =>
         UnderWay(c) = 0 /\ Len(inbox[c]) = 0
  BY NothingUnderWay DEF Follows
<1>4. ASSUME NEW a \in {NextRound(c), closed}, asker' = [asker EXCEPT ![c] = a],
             asker[c].pc = "ask" \/ (asker[c].pc = "wait" /\ timedOut' = timedOut \cup {c}),
             timedOut' \in {timedOut, timedOut \cup {c}},
             UNCHANGED <<exchange, inbox, socket, answerer, astray>>
      PROVE  DatagramInv'
  <2>1. inbox' = [inbox EXCEPT ![c] = inbox[c]]  BY <1>1, <1>4
  <2>2. exchange \notin {"broadcast", "flood"} /\ c \notin timedOut' /\ a.pc = "ask" =>
           UnderWay(c) + Len(inbox[c]) = Len(inbox[c])
    BY <1>3, <1>4
  <2>3. AnswersInStep'  BY <1>4 DEF AnswersInStep
  <2>4. timedOut \subseteq timedOut' /\ timedOut' \subseteq Asking  BY <1>2, <1>4
  <2>5. PICK q \in Seq(1..times) : q = inbox[c]  BY <1>1
  <2>6. inbox' = [inbox EXCEPT ![c] = q] /\ In(q) \subseteq In(inbox[c]) /\ Len(q) <= Len(inbox[c])
    BY <1>1, <2>1, <2>5
  <2>7. exchange \notin {"broadcast", "flood"} /\ c \notin timedOut' /\ a.pc = "ask" =>
           UnderWay(c) + Len(q) = Len(inbox[c])
    BY <2>2, <2>5
  <2>8. asker[c].pc \in {"ask", "wait"} /\ a \in {NextRound(c), [asker[c] EXCEPT !.pc = "closed"]}  BY <1>4
  <2>9. UNCHANGED <<exchange, socket, answerer>> /\ asker' = [asker EXCEPT ![c] = a]  BY <1>4
  <2> HIDE DEF closed
  <2> QED  BY <2>3, <2>4, <2>6, <2>7, <2>8, <2>9, AskerGoesOn
<1>5. ASSUME asker[c].pc = "ask", NEW to \in SUBSET Live, Sent(c, to),
             exchange = "unicast" => Cardinality(to) <= 1, exchange # "none",
             NEW a, asker' = [asker EXCEPT ![c] = a],
             \/ a = waiting /\ exchange # "flood"
             \/ exchange = "flood" /\ a = NextRound(c),
             UNCHANGED <<exchange, inbox, answerer, timedOut, astray>>
      PROVE  DatagramInv'
  BY <1>5, ToFew, SentInv
<1>6. asker' = [asker EXCEPT ![c].pc = "wait"] => asker' = [asker EXCEPT ![c] = waiting]
  OBVIOUS
<1>7. asker' = [asker EXCEPT ![c].pc = "closed"] => asker' = [asker EXCEPT ![c] = closed]
  OBVIOUS
<1> HIDE DEF closed, waiting
<1>8. CASE Ask(c)
  <2>1. CASE asker' = [asker EXCEPT ![c] = NextRound(c)] /\ UNCHANGED socket
    BY <1>4, <1>8, <2>1 DEF Ask
  <2>2. ASSUME asker' = [asker EXCEPT ![c].pc = "wait"], NEW to \in SUBSET Live,
               exchange = "unicast" => Cardinality(to) <= 1, Sent(c, to)
        PROVE  DatagramInv'
    BY <1>5, <1>6, <1>8, <2>2 DEF Ask, Searches
  <2> QED  BY <1>8, <2>1, <2>2 DEF Ask
<1>9. CASE TimesUp(c)  BY <1>4, <1>9 DEF TimesUp
<1>10. CASE DgramWrite(c)
  <2>1. CASE Live = {}  BY <1>4, <1>7, <1>10, <2>1 DEF DgramWrite
  <2>2. CASE Live # {}
    <3>1. Live \in SUBSET Live  OBVIOUS
    <3> QED  BY <1>5, <1>6, <1>10, <2>2, <3>1 DEF DgramWrite
  <2> QED  BY <2>1, <2>2
<1>11. CASE udpclie_echo(c)  BY <1>5, <1>6, <1>11 DEF udpclie_echo
<1>12. CASE SendFaster(c)
  <2>1. CASE asker' = [asker EXCEPT ![c].pc = "closed"] /\ UNCHANGED socket
    BY <1>4, <1>7, <1>12, <2>1 DEF SendFaster
  <2>2. ASSUME asker' = [asker EXCEPT ![c] = NextRound(c)], NEW to \in SUBSET Live, Sent(c, to)
        PROVE  DatagramInv'
    BY <1>5, <1>12, <2>2 DEF SendFaster
  <2> QED  BY <1>12, <2>1, <2>2 DEF SendFaster
<1>13. CASE ReadAnswer(c)
  <2>1. /\ asker[c].pc = "wait" /\ inbox[c] # <<>> /\ inbox' = [inbox EXCEPT ![c] = Tail(inbox[c])]
        /\ astray' = IF Head(inbox[c]) = asker[c].round THEN astray ELSE astray \cup {c}
        /\ UNCHANGED <<exchange, socket, answerer, timedOut>>
    BY <1>13 DEF ReadAnswer
  <2>2. PICK a \in {NextRound(c), closed} :
           /\ asker' = [asker EXCEPT ![c] = a]
           /\ exchange \in {"found", "echo"} => a = closed
    <3>1. CASE exchange \in {"found", "echo"}  BY <1>13, <3>1 DEF ReadAnswer, closed
    <3>2. CASE exchange \notin {"found", "echo"}  BY <1>13, <3>2 DEF ReadAnswer
    <3> QED  BY <3>1, <3>2
  <2>3. /\ Tail(inbox[c]) \in Seq(1..times) /\ Len(Tail(inbox[c])) + 1 = Len(inbox[c])
        /\ Head(inbox[c]) \in 1..times /\ In(inbox[c]) = In(Tail(inbox[c])) \cup {Head(inbox[c])}
    <3>1. PICK T : T = 1..times  OBVIOUS
    <3>2. inbox[c] \in Seq(T)  BY <1>1, <3>1
    <3> QED  BY <2>1, <3>1, <3>2, QueueIsTaken
  <2>4. Head(inbox[c]) \in Rounds(c)  BY <2>3 DEF Rounds
  <2>5. AnswersInStep'
    <3>1. CASE Head(inbox[c]) = asker[c].round  BY <2>1, <3>1 DEF AnswersInStep
    <3>2. CASE exchange = "broadcast"  BY <2>1, <3>2 DEF AnswersInStep
    <3>3. CASE c \in timedOut  BY <2>1, <3>3 DEF AnswersInStep
    <3>4. exchange # "flood"  BY <2>1 DEF Programs
    <3> QED  BY <2>1, <2>4, <3>1, <3>2, <3>3, <3>4 DEF Follows
  <2>6. exchange \notin {"broadcast", "flood"} /\ c \notin timedOut' /\ a.pc = "ask" =>
           UnderWay(c) + Len(Tail(inbox[c])) = Len(inbox[c])
    <3> SUFFICES ASSUME exchange \notin {"broadcast", "flood"}, c \notin timedOut, a.pc = "ask"
                 PROVE  UnderWay(c) + Len(Tail(inbox[c])) = Len(inbox[c])
      BY <2>1
    <3>1. exchange # "found"
      <4>1. closed.pc = "closed"
        <5>1. asker[c] \in [pc: {"ask", "wait", "closed"}, round: 1..times + 1]  BY DEF DatagramShape
        <5> QED  BY <5>1 DEF closed
      <4> QED  BY <2>2, <4>1
    <3>2. UnderWay(c) <= 1  BY <2>1, <3>1 DEF Follows
    <3>3. UnderWay(c) = Cardinality(Unanswered(c)) + Len(inbox[c])  BY DEF UnderWay
    <3>4. Cardinality(Unanswered(c)) \in Nat /\ Len(Tail(inbox[c])) \in Nat
      <4>1. Len(Tail(inbox[c])) \in Nat  BY <2>3
      <4> QED  BY <4>1, UnansweredFinite
    <3> QED  BY <1>1, <2>3, <3>2, <3>3, <3>4
  <2>7. In(Tail(inbox[c])) \subseteq In(inbox[c]) /\ Len(Tail(inbox[c])) <= Len(inbox[c])
    <3>1. Len(Tail(inbox[c])) \in Nat  BY <2>3
    <3> QED  BY <1>1, <2>3, <3>1
  <2>8. timedOut \subseteq timedOut' /\ timedOut' \subseteq Asking  BY <1>2, <2>1
  <2> HIDE DEF closed
  <2>9. a \in {NextRound(c), [asker[c] EXCEPT !.pc = "closed"]}  BY <2>2 DEF closed
  <2>10. PICK q \in Seq(1..times) : q = Tail(inbox[c])  BY <2>3
  <2> QED  BY <2>1, <2>2, <2>5, <2>6, <2>7, <2>8, <2>9, <2>10, AskerGoesOn
<1> QED  BY <1>8, <1>9, <1>10, <1>11, <1>12, <1>13 DEF AskerSteps

-----------------------------------------------------------------------------

\* A server that lives moves on, while it has no more to do than before.
LEMMA AnswererInv ==
    ASSUME DatagramInv, NEW s \in Live, UNCHANGED <<exchange, asker, inbox, timedOut, astray>>,
           NEW a \in [pc: {"select", "busy", "over"}, request: Request \cup {NoRequest}, exits: BOOLEAN],
           answerer' = [answerer EXCEPT ![s] = a],
           NEW q \in Seq(Request), socket' = [socket EXCEPT ![s] = q],
           AtWork(s)' \subseteq AtWork(s), NoneTwiceAt(s)'
    PROVE  DatagramInv'
<1> USE DEF DatagramInv
<1>1. s \in Answering /\ answerer[s].pc # "over"  BY DEF Live
<1>2. \A t \in Answering \ {s} : answerer'[t] = answerer[t] /\ socket'[t] = socket[t]
  BY DEF DatagramShape
<1>3. DatagramShape'
  <2>1. PICK S : S = Seq(Request)  OBVIOUS
  <2>2. q \in S /\ socket \in [Answering -> S]  BY <2>1 DEF DatagramShape
  <2>3. socket' \in [Answering -> S]  BY <2>2
  <2>4. answerer' \in [Answering -> [pc: {"select", "busy", "over"},
                                     request: Request \cup {NoRequest}, exits: BOOLEAN]]
    BY DEF DatagramShape
  <2> QED  BY <2>1, <2>3, <2>4 DEF DatagramShape
<1>4. \A t \in Answering : AtWork(t)' \subseteq AtWork(t) /\ NoneTwiceAt(t)'
  BY <1>2 DEF AtWork, NoneTwiceAt
<1>5. Programs'
  <2>1. Live' \subseteq Live  BY <1>1, <1>2 DEF Live
  <2>2. exchange = "none" => \A t \in Answering : AtWork(t)' = {}  BY <1>4 DEF Programs
  <2> QED  BY <2>1, <2>2 DEF Programs
<1>6. ASSUME NEW c \in Asking PROVE NoneAhead(c)' /\ Follows(c)'
  <2>1. Rounds(c)' \subseteq Rounds(c) /\ UnderWay(c)' <= UnderWay(c)
    BY <1>3, <1>4, NoMoreUnderWay
  <2> QED  BY <1>3, <2>1, ClientWaits
<1>7. AnswersInStep'  BY DEF AnswersInStep
<1> QED  BY <1>3, <1>4, <1>5, <1>6, <1>7

\* A server takes a request.
LEMMA ReceiveRequestInv == ASSUME DatagramInv, NEW s \in Answering, ReceiveRequest(s) PROVE DatagramInv'
<1> USE DEF DatagramInv
<1> DEFINE a == Serving("busy", Head(socket[s]), exchange = "found" /\ s \in exitpipe)
<1>1. /\ answerer[s].pc = "select" /\ socket[s] # <<>> /\ answerer' = [answerer EXCEPT ![s] = a]
      /\ socket' = [socket EXCEPT ![s] = Tail(socket[s])]
      /\ UNCHANGED <<exchange, asker, inbox, timedOut, astray>>
  BY DEF ReceiveRequest
<1>2. socket[s] \in Seq(Request) /\ Once(socket[s])  BY DEF DatagramShape, NoneTwiceAt
<1>3. /\ Tail(socket[s]) \in Seq(Request) /\ Head(socket[s]) \in Request /\ Once(Tail(socket[s]))
      /\ In(socket[s]) = In(Tail(socket[s])) \cup {Head(socket[s])}
      /\ Head(socket[s]) \notin In(Tail(socket[s]))
  BY <1>1, <1>2, QueueIsTaken
<1>4. /\ a \in [pc: {"select", "busy", "over"}, request: Request \cup {NoRequest}, exits: BOOLEAN]
      /\ a.pc = "busy" /\ a.request = Head(socket[s])
  BY <1>3 DEF Serving
<1> HIDE DEF a
<1>5. s \in Live  BY <1>1 DEF Live
<1>6. answerer'[s] = a /\ socket'[s] = Tail(socket[s])  BY <1>1 DEF DatagramShape
<1>7. AtWork(s)' \subseteq AtWork(s)  BY <1>1, <1>3, <1>4, <1>6 DEF AtWork
<1>8. NoneTwiceAt(s)'  BY <1>3, <1>4, <1>6 DEF NoneTwiceAt
<1>9. PICK q \in Seq(Request) : q = Tail(socket[s])  BY <1>3
<1> QED  BY <1>1, <1>4, <1>5, <1>7, <1>8, <1>9, AnswererInv

\* A server ends, or reads a datagram and throws it away.
LEMMA ServerQuietInv ==
    ASSUME DatagramInv, NEW s \in Live,
           UNCHANGED <<exchange, asker, inbox, timedOut, astray>>,
           \/ UNCHANGED socket /\ (UNCHANGED answerer \/ answerer' = [answerer EXCEPT ![s].pc = "over"])
           \/ /\ answerer[s].pc = "select" /\ UNCHANGED answerer
              /\ socket[s] # <<>> /\ socket' = [socket EXCEPT ![s] = Tail(@)]
    PROVE  DatagramInv'
<1> USE DEF DatagramInv
<1>1. s \in Answering  BY DEF Live
<1>2. answerer[s] \in [pc: {"select", "busy", "over"}, request: Request \cup {NoRequest}, exits: BOOLEAN]
  BY <1>1 DEF DatagramShape
<1>3. PICK a \in [pc: {"select", "busy", "over"}, request: Request \cup {NoRequest}, exits: BOOLEAN] :
         /\ answerer' = [answerer EXCEPT ![s] = a]
         /\ a = answerer[s] \/ (a.pc = "over" /\ UNCHANGED socket)
  <2>1. CASE UNCHANGED answerer
    <3>1. answerer' = [answerer EXCEPT ![s] = answerer[s]]  BY <1>1, <2>1 DEF DatagramShape
    <3> QED  BY <1>2, <3>1
  <2>2. CASE answerer' = [answerer EXCEPT ![s].pc = "over"] /\ UNCHANGED socket
    <3>1. answerer' = [answerer EXCEPT ![s] = [answerer[s] EXCEPT !.pc = "over"]]  BY <2>2
    <3>2. /\ [answerer[s] EXCEPT !.pc = "over"]
                \in [pc: {"select", "busy", "over"}, request: Request \cup {NoRequest}, exits: BOOLEAN]
          /\ [answerer[s] EXCEPT !.pc = "over"].pc = "over"
      BY <1>2
    <3> QED  BY <2>2, <3>1, <3>2
  <2> QED  BY <2>1, <2>2
<1>4. answerer'[s] = a  BY <1>1, <1>3 DEF DatagramShape
<1>5. socket[s] \in Seq(Request) /\ Once(socket[s])  BY <1>1 DEF DatagramShape, NoneTwiceAt
<1>6. PICK q \in Seq(Request) : /\ socket' = [socket EXCEPT ![s] = q] /\ socket'[s] = q
                                /\ Once(q) /\ In(q) \subseteq In(socket[s])
  <2>1. CASE UNCHANGED socket
    <3>1. socket' = [socket EXCEPT ![s] = socket[s]]  BY <1>1, <2>1 DEF DatagramShape
    <3> QED  BY <1>5, <2>1, <3>1
  <2>2. CASE socket[s] # <<>> /\ socket' = [socket EXCEPT ![s] = Tail(socket[s])]
    <3>1. /\ Tail(socket[s]) \in Seq(Request) /\ Once(Tail(socket[s]))
          /\ In(Tail(socket[s])) \subseteq In(socket[s])
      BY <1>5, <2>2, QueueIsTaken
    <3>2. socket'[s] = Tail(socket[s])  BY <1>1, <2>2 DEF DatagramShape
    <3> QED  BY <2>2, <3>1, <3>2
  <2> QED  BY <2>1, <2>2
<1>7. AtWork(s)' \subseteq AtWork(s)  BY <1>3, <1>4, <1>6 DEF AtWork
<1>8. NoneTwiceAt(s)'  BY <1>1, <1>3, <1>4, <1>6 DEF NoneTwiceAt
<1> QED  BY <1>3, <1>6, <1>7, <1>8, AnswererInv

\* A server answers, and the answer arrives or does not.
LEMMA AnswerInv == ASSUME DatagramInv, NEW s \in Answering, Answer(s) PROVE DatagramInv'
<1> USE DEF DatagramInv
<1> DEFINE q == answerer[s].request
           c == q.from
           n == q.round
           a == Serving(IF answerer[s].exits THEN "over" ELSE "select", NoRequest, FALSE)
<1>1. /\ answerer[s].pc = "busy" /\ answerer' = [answerer EXCEPT ![s] = a]
      /\ inbox' = inbox \/ inbox' = [inbox EXCEPT ![c] = Append(inbox[c], n)]
      /\ UNCHANGED <<exchange, asker, socket, timedOut, astray>>
  BY DEF Answer
<1>2. q \in AtWork(s) /\ q \notin In(socket[s])  BY <1>1 DEF AtWork, NoneTwiceAt
<1>3. q = [from |-> c, round |-> n] /\ c \in Asking /\ n \in 1..times  BY <1>2, AtWorkIs
<1>4. /\ a \in [pc: {"select", "busy", "over"}, request: Request \cup {NoRequest}, exits: BOOLEAN]
      /\ a.pc # "busy"
  BY DEF Serving
<1> HIDE DEF q, c, n, a
<1>5. /\ answerer'[s] = a /\ \A t \in Answering \ {s} : answerer'[t] = answerer[t]
      /\ answerer' \in [Answering -> [pc: {"select", "busy", "over"},
                                      request: Request \cup {NoRequest}, exits: BOOLEAN]]
  BY <1>1, <1>4 DEF DatagramShape
<1>6. /\ inbox'[c] = inbox[c] \/ inbox'[c] = Append(inbox[c], n)
      /\ \A d \in Asking \ {c} : inbox'[d] = inbox[d]
      /\ inbox' \in [Asking -> Seq(1..times)]
  <2>1. PICK T : T = 1..times  OBVIOUS
  <2>2. inbox[c] \in Seq(T) /\ n \in T  BY <1>3, <2>1 DEF DatagramShape
  <2>3. Append(inbox[c], n) \in Seq(T)  BY <2>2, QueueGrows
  <2>4. PICK S : S = Seq(1..times)  OBVIOUS
  <2>5. inbox \in [Asking -> S] /\ Append(inbox[c], n) \in S  BY <2>1, <2>3, <2>4 DEF DatagramShape
  <2>6. /\ inbox'[c] = inbox[c] \/ inbox'[c] = Append(inbox[c], n)
        /\ \A d \in Asking \ {c} : inbox'[d] = inbox[d]
        /\ inbox' \in [Asking -> S]
    <3>1. CASE inbox' = inbox  BY <2>5, <3>1
    <3>2. CASE inbox' = [inbox EXCEPT ![c] = Append(inbox[c], n)]  BY <1>3, <2>5, <3>2
    <3> QED  BY <1>1, <3>1, <3>2
  <2> QED  BY <2>4, <2>6
<1>7. DatagramShape'  BY <1>1, <1>5, <1>6 DEF DatagramShape
<1>8. /\ \A t \in Answering : AtWork(t)' \subseteq AtWork(t) /\ NoneTwiceAt(t)'
      /\ q \notin AtWork(s)'
  <2>1. AtWork(s)' = In(socket[s])  BY <1>1, <1>4, <1>5 DEF AtWork
  <2>2. AtWork(s)' \subseteq AtWork(s) /\ NoneTwiceAt(s)'
    BY <1>1, <1>4, <1>5, <2>1 DEF AtWork, NoneTwiceAt
  <2>3. \A t \in Answering \ {s} : AtWork(t)' = AtWork(t) /\ NoneTwiceAt(t)'
    BY <1>1, <1>5 DEF AtWork, NoneTwiceAt
  <2> QED  BY <1>2, <2>1, <2>2, <2>3
<1>9. Programs'
  <2>1. exchange # "none"  BY <1>2 DEF Programs
  <2>2. Live' \subseteq Live  BY <1>1, <1>5 DEF Live
  <2> QED  BY <1>1, <2>1, <2>2 DEF Programs
<1>10. ASSUME NEW d \in Asking PROVE NoneAhead(d)' /\ Follows(d)'
  <2>1. Rounds(d)' \subseteq Rounds(d) /\ UnderWay(d)' <= UnderWay(d)
    <3>1. \A t \in Answering : \A r \in 1..times :
             [from |-> d, round |-> r] \in AtWork(t)' => [from |-> d, round |-> r] \in AtWork(t)
      BY <1>8
    <3>2. DatagramShape /\ DatagramShape'  BY <1>7
    <3>3. CASE d # c
      <4>1. inbox'[d] = inbox[d]  BY <1>6, <3>3
      <4> QED  BY <3>1, <3>2, <4>1, NoMoreUnderWay
    <3>4. CASE d = c
      <4>1. PICK m \in 1..times : m = n  BY <1>3
      <4>2. [from |-> d, round |-> m] \in AtWork(s) /\ [from |-> d, round |-> m] \notin AtWork(s)'
        BY <1>2, <1>3, <1>8, <3>4, <4>1
      <4>3. inbox'[d] = inbox[d] \/ inbox'[d] = Append(inbox[d], m)  BY <1>6, <3>4, <4>1
      <4> QED  BY <3>1, <3>2, <4>2, <4>3, AnswerUnderWay
    <3> QED  BY <3>3, <3>4
  <2> QED  BY <1>1, <1>7, <2>1, ClientWaits
<1>11. AnswersInStep'  BY <1>1 DEF AnswersInStep
<1> QED  BY <1>7, <1>8, <1>9, <1>10, <1>11

\* SIGINT ends a server, or is noted.
LEMMA SigintInv == ASSUME DatagramInv, NEW s \in Answering, Sigint(s) PROVE DatagramInv'
<1>1. s \in Live /\ UNCHANGED <<exchange, asker, inbox, socket, timedOut, astray>>  BY DEF Sigint
<1>2. UNCHANGED answerer \/ answerer' = [answerer EXCEPT ![s].pc = "over"]
  <2>1. CASE exchange = "found"  BY <2>1 DEF Sigint
  <2>2. CASE exchange = "flood"  BY <2>2 DEF Sigint
  <2>3. CASE exchange = "dgram"  BY <2>3 DEF Sigint
  <2>4. CASE exchange \notin {"found", "flood", "dgram"}  BY <2>4 DEF Sigint
  <2> QED  BY <2>1, <2>2, <2>3, <2>4
<1> QED  BY <1>1, <1>2, ServerQuietInv

\* Everything that can happen.
LEMMA DatagramNextInv == DatagramInv /\ [DatagramNext]_dgramvars => DatagramInv'
<1> SUFFICES ASSUME DatagramInv, [DatagramNext]_dgramvars PROVE DatagramInv'  OBVIOUS
<1>1. CASE RunPrograms  BY <1>1, RunProgramsInv
<1>2. ASSUME NEW c \in Asking, AskerSteps(c) PROVE DatagramInv'  BY <1>2, AskerInv
<1>3. ASSUME NEW s \in Answering, AnswererSteps(s) PROVE DatagramInv'
  <2>1. CASE ReceiveRequest(s)  BY <2>1, ReceiveRequestInv
  <2>2. CASE Answer(s)  BY <2>2, AnswerInv
  <2>3. CASE ReceiveSlower(s)
    <3>1. s \in Live  BY <2>3 DEF ReceiveSlower, Live
    <3> QED  BY <2>3, <3>1, ServerQuietInv DEF ReceiveSlower
  <2>4. CASE ReadPipe(s)
    <3>1. s \in Live  BY <2>4 DEF ReadPipe, Live
    <3> QED  BY <2>4, <3>1, ServerQuietInv DEF ReadPipe
  <2> QED  BY <1>3, <2>1, <2>2, <2>3, <2>4 DEF AnswererSteps
<1>4. ASSUME NEW s \in Answering, Sigint(s) PROVE DatagramInv'  BY <1>4, SigintInv
<1>5. CASE UNCHANGED dgramvars
  <2>1. UNCHANGED <<exchange, asker, inbox, socket, answerer, timedOut, astray>>
    BY <1>5 DEF dgramvars
  <2>2. DatagramShape' /\ AnswersInStep'  BY <2>1 DEF DatagramInv, DatagramShape, AnswersInStep
  <2>3. Programs' /\ \A s \in Answering : NoneTwiceAt(s)'
    BY <2>1 DEF DatagramInv, Programs, NoneTwiceAt, AtWork, Live
  <2>4. \A c \in Asking : NoneAhead(c)' /\ Follows(c)'
    BY <2>1 DEF DatagramInv, NoneAhead, Follows, Rounds, UnderWay, Unanswered, AtWork, Asked, Each
  <2> QED  BY <2>2, <2>3, <2>4 DEF DatagramInv
<1> QED  BY <1>1, <1>2, <1>3, <1>4, <1>5 DEF DatagramNext

\* RoundsSound, for any number of clients, servers and rounds and any room in their
\* sockets: no socket holds more than was asked, or anything of a round to come, and an
\* answer is that of the round it is read in, unless a round before had timed up or a
\* broadcast was answered by several servers.
THEOREM RoundsStaySound == DatagramSpec => []RoundsSound
<1>1. DatagramInv => RoundsSound
  <2> SUFFICES ASSUME DatagramInv PROVE RoundsSound  OBVIOUS
  <2> USE DEF DatagramInv
  <2>1. ASSUME NEW c \in Asking
        PROVE  /\ asker[c].round \in 1..times + 1 /\ asker[c].round \in Nat
               /\ Asked(c) \in Nat /\ Asked(c) <= asker[c].round
    BY AskerIs DEF Asked
  <2>2. ASSUME NEW s \in Answering, NEW i \in DOMAIN socket[s]
        PROVE  socket[s][i].round <= asker[socket[s][i].from].round
    <3>1. socket[s] \in Seq(Request)  BY DEF DatagramShape
    <3>2. i \in 1..Len(socket[s])  BY <3>1
    <3>3. socket[s][i] \in AtWork(s)  BY <3>2 DEF AtWork, In
    <3>4. PICK q \in AtWork(s) : q = socket[s][i]  BY <3>3
    <3>5. q.from \in Asking /\ q.round \in Rounds(q.from) /\ q.round \in 1..times  BY AtWorkIs
    <3>6. q.round <= Asked(q.from)  BY <3>5 DEF NoneAhead
    <3>7. q.round <= asker[q.from].round  BY <2>1, <3>5, <3>6
    <3> QED  BY <3>4, <3>7
  <2>3. ASSUME NEW c \in Asking
        PROVE  Len(inbox[c]) <= asker[c].round
                  * (IF exchange \in {"found", "broadcast"} THEN Cardinality(Answering) ELSE 1)
    <3>1. UnderWay(c) <= Asked(c) * Each  BY DEF NoneAhead
    <3>2. Asked(c) * Each <= asker[c].round * Each /\ asker[c].round * Each \in Nat /\ Asked(c) * Each \in Nat
      BY <2>1, DatagramNumbers, MoreAsked
    <3>3. Len(inbox[c]) \in Nat /\ Len(inbox[c]) <= UnderWay(c) /\ UnderWay(c) \in Nat
      <4>1. UnderWay(c) = Cardinality(Unanswered(c)) + Len(inbox[c])  BY DEF UnderWay
      <4> QED  BY <4>1, AskerIs, UnansweredFinite
    <3>4. Len(inbox[c]) <= asker[c].round * Each  BY <3>1, <3>2, <3>3
    <3> QED  BY <3>4 DEF Each
  <2>4. ASSUME NEW c \in Asking, NEW i \in DOMAIN inbox[c]
        PROVE  inbox[c][i] <= asker[c].round
    <3>1. PICK T : T = 1..times  OBVIOUS
    <3>2. inbox[c] \in Seq(T)  BY <3>1 DEF DatagramShape
    <3>3. i \in 1..Len(inbox[c]) /\ inbox[c][i] \in T  BY <3>2
    <3>4. inbox[c][i] \in Rounds(c)  BY <3>3, <3>1 DEF Rounds, In
    <3>5. inbox[c][i] <= Asked(c)  BY <3>4 DEF NoneAhead
    <3> QED  BY <2>1, <3>3, <3>1, <3>5
  <2>5. DatagramTypeOK  BY <2>1, <2>2, <2>3, <2>4 DEF DatagramTypeOK
  <2> QED  BY <2>5 DEF RoundsSound
<1> QED  BY <1>1, DatagramInitInv, DatagramNextInv, PTL DEF DatagramSpec
=============================================================================
