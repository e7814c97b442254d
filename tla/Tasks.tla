------------------------------- MODULE Tasks -------------------------------
(***************************************************************************)
(* The examples of src/04_task_thread in which two processes or threads    *)
(* meet: a pipe (4.3.1/test2.c and test3.c), shared memory with a          *)
(* semaphore (4.3.6/shm_test.c on the functions of 4.3.5/test_sem.c), and  *)
(* threads that main stops with a flag and joins (4.4.1, 4.4.5, 4.4.6).    *)
(* fork, pipe and the creation of threads are taken to succeed.            *)
(***************************************************************************)
EXTENDS Integers, FiniteSets, FiniteSetsExt

CONSTANTS
    WRITELEN,   \* bytes test3.c writes in one call
    PipeSize,   \* bytes a pipe holds
    READLEN,    \* bytes of the buffer of the reader
    SemStart,   \* the first value of the semaphore of sem.c
    MaxSem,     \* bound of it: a post at the bound changes nothing
    MaxItems    \* bound of what mutex.c makes and uses

ASSUME TaskAssumption ==
    /\ {WRITELEN, PipeSize, READLEN} \subseteq Nat \ {0}
    /\ SemStart \in Nat /\ MaxSem \in Nat /\ SemStart <= MaxSem /\ MaxItems \in Nat

Task == {"test2", "test3", "shm", "pthread", "mutex", "sem"}
Proc == {"main", "child", "producter", "consumer"}

VARIABLES
    task,       \* which example runs, "none" at first
    pc,         \* where each of its processes or threads is
    pipe,       \* bytes in the pipe
    write_size, \* bytes the child still has to write; "cut" is what is left of the call
    cut,
    nread,      \* bytes the parent has read
    shm,        \* what the shared memory holds: "old" or "msg"
    semaphore,  \* the semaphore of shm_test.c: its value, or NoSemaphore
    printed,    \* what the child of shm_test.c printed
    downed,     \* its Sem_V succeeded
    running,    \* the flag: run, or running
    value,      \* retvalue, or buffer_has_item, or sem
    tmp,        \* buffer_has_item as each thread has read it
    mutex,      \* who holds the mutex
    items       \* history: what was made and used
taskvars == <<task, pc, pipe, write_size, cut, nread, shm, semaphore, printed, downed,
              running, value, tmp, mutex, items>>
pipevars == <<pipe, write_size, cut, nread>>
shmvars == <<shm, semaphore, printed, downed>>
threadvars == <<running, value, tmp, mutex, items>>

NoSemaphore == -1
Nobody == "nobody"

TaskInit ==
    /\ task = "none"
    /\ pc = [p \in Proc |-> "none"]
    /\ pipe = 0 /\ nread = 0 /\ cut = 0 /\ write_size = 0
    /\ shm = "old" /\ printed = "nothing" /\ downed = FALSE
    /\ semaphore = NoSemaphore
    /\ running = 1 /\ value = 0
    /\ tmp = [p \in Proc |-> 0] /\ mutex = Nobody /\ items = [made |-> 0, used |-> 0]

\* Where the processes and threads of an example begin.
FirstPc(t, p) ==
    CASE p = "main" -> (CASE t \in {"test2", "test3"} -> "read" [] t = "shm" -> "memcpy" [] OTHER -> "sleep")
      [] p = "child" -> (CASE t \in {"test2", "test3"} -> "write" [] t = "shm" -> "sem_v" [] OTHER -> "none")
      [] p = "producter" -> IF t \in {"mutex", "sem", "pthread"} THEN "test" ELSE "none"
      [] OTHER -> IF t \in {"mutex", "sem"} THEN "test" ELSE "none"

\* An example is run: pipe and fork, the semaphore and the shared memory and fork,
\* or pthread_create.  CreateSem asks semget for a set of no semaphores: there is
\* one only if another program has made it with this key.
RunTask ==
    /\ task = "none" /\ task' \in Task
    /\ pc' = [p \in Proc |-> FirstPc(task', p)]
    /\ write_size' = CASE task' = "test3" -> WRITELEN [] task' = "test2" -> 1 [] OTHER -> 0
    /\ semaphore' \in IF task' = "shm" THEN {NoSemaphore, 0} ELSE {NoSemaphore}
    /\ value' = IF task' = "sem" THEN SemStart ELSE 0
    /\ UNCHANGED <<pipe, cut, nread, shm, printed, downed, running, tmp, mutex, items>>

At(p, l) == pc[p] = l
Goto(p, l) == pc' = [pc EXCEPT ![p] = l]

-----------------------------------------------------------------------------
(* The pipe.  A write goes on until everything is in the pipe.             *)

PipeWrite ==
    /\ At("child", "write") /\ write_size > 0
    /\ pipe < PipeSize
    /\ \E n \in 1..Min({PipeSize - pipe, write_size - cut}) :
          /\ pipe' = pipe + n
          /\ IF cut + n < write_size
             THEN cut' = cut + n /\ UNCHANGED <<write_size, pc>>
             ELSE /\ cut' = 0
                  /\ write_size' = 0
                  /\ IF task = "test2" THEN Goto("child", "done") ELSE UNCHANGED pc
    /\ UNCHANGED <<task, nread, shmvars, threadvars>>

\* test3.c: with nothing left to write the loop goes on, writes no bytes, takes
\* that for a failure and sleeps, again and again.
PipeSleep ==
    /\ At("child", "write") /\ write_size = 0
    /\ Goto("child", "sleep")
    /\ UNCHANGED <<task, pipevars, shmvars, threadvars>>
PipeWake ==
    /\ At("child", "sleep")
    /\ Goto("child", "write")
    /\ UNCHANGED <<task, pipevars, shmvars, threadvars>>

\* The parent of test2.c reads once, that of test3.c until the end of the pipe.
PipeRead ==
    /\ At("main", "read")
    /\ \/ /\ pipe > 0
          /\ nread' = nread + Min({pipe, READLEN}) /\ pipe' = pipe - Min({pipe, READLEN})
          /\ IF task = "test2" THEN Goto("main", "done") ELSE UNCHANGED pc
       \/ /\ pipe = 0 /\ At("child", "done")
          /\ Goto("main", "done") /\ UNCHANGED <<pipe, nread>>
    /\ UNCHANGED <<task, write_size, cut, shmvars, threadvars>>

-----------------------------------------------------------------------------
(* Shared memory.  Sem_P adds 1 and Sem_V takes 1, neither waits, and nobody *)
(* looks at what they return.                                              *)

ShmParent ==
    /\ \/ At("main", "memcpy") /\ Goto("main", "sem_p") /\ shm' = "msg" /\ UNCHANGED semaphore
       \/ At("main", "sem_p") /\ Goto("main", "destroy") /\ UNCHANGED shm
          /\ semaphore' = IF semaphore = NoSemaphore THEN NoSemaphore ELSE semaphore + 1
       \/ At("main", "destroy") /\ Goto("main", "done") /\ semaphore' = NoSemaphore /\ UNCHANGED shm
    /\ UNCHANGED <<task, printed, downed, pipevars, threadvars>>

Sem_V ==
    /\ At("child", "sem_v") /\ Goto("child", "print")
    /\ downed' = (semaphore > 0)
    /\ semaphore' = IF semaphore > 0 THEN semaphore - 1 ELSE semaphore
    /\ UNCHANGED <<task, shm, printed, pipevars, threadvars>>
ShmPrint ==
    /\ At("child", "print") /\ Goto("child", "done")
    /\ printed' = shm
    /\ UNCHANGED <<task, shm, semaphore, downed, pipevars, threadvars>>

-----------------------------------------------------------------------------
(* Threads.                                                                *)

\* main sleeps, clears the flag, and joins the consumer and the producer.
TaskStops ==
    /\ At("main", "sleep") /\ Goto("main", "join")
    /\ running' = 0
    /\ UNCHANGED <<task, value, tmp, mutex, items, pipevars, shmvars>>
TaskJoins ==
    /\ At("main", "join") /\ Goto("main", "done")
    /\ pc["consumer"] \in {"none", "done"} /\ At("producter", "done")
    /\ UNCHANGED <<task, threadvars, pipevars, shmvars>>

\* Mutant: the flag is read once, before the loop.
TestOnce(p, next) ==
    /\ At(p, "test")
    /\ Goto(p, next)
    /\ UNCHANGED <<task, threadvars, pipevars, shmvars>>

\* The test of the flag, at the head of each loop.
Test(p, next) ==
    /\ At(p, "test")
    /\ Goto(p, IF running = 0 THEN "exit" ELSE next)
    /\ UNCHANGED <<task, threadvars, pipevars, shmvars>>
Exit(p, v) ==
    /\ At(p, "exit") /\ Goto(p, "done")
    /\ value' = v
    /\ UNCHANGED <<task, running, tmp, mutex, items, pipevars, shmvars>>

\* 4.4.1: the loop only prints; the thread leaves 8 behind.
start_routine == task = "pthread" /\ (Test("producter", "test") \/ Exit("producter", 8))

\* Mutant: the count is changed without the mutex.
LockNothing(p) ==
    /\ At(p, "lock") /\ Goto(p, "load")
    /\ UNCHANGED <<task, running, value, tmp, mutex, items, pipevars, shmvars>>

\* 4.4.5: the count is read, changed and written under the mutex.
Lock(p) ==
    /\ At(p, "lock") /\ mutex = Nobody
    /\ mutex' = p /\ Goto(p, "load")
    /\ UNCHANGED <<task, running, value, tmp, items, pipevars, shmvars>>
Load(p) ==
    /\ At(p, "load") /\ Goto(p, "store")
    /\ tmp' = [tmp EXCEPT ![p] = value]
    /\ UNCHANGED <<task, running, value, mutex, items, pipevars, shmvars>>
Store(p) ==
    /\ At(p, "store") /\ Goto(p, "unlock")
    /\ IF p = "producter"
       THEN value' = tmp[p] + 1 /\ items' = [items EXCEPT !.made = @ + 1]
       ELSE value' = tmp[p] - 1 /\ items' = [items EXCEPT !.used = @ + 1]
    /\ UNCHANGED <<task, running, tmp, mutex, pipevars, shmvars>>
Unlock(p) ==
    /\ At(p, "unlock") /\ Goto(p, "test")
    /\ mutex' = Nobody
    /\ UNCHANGED <<task, running, value, tmp, items, pipevars, shmvars>>
mutex_f(p) ==
    /\ task = "mutex"
    /\ \/ items.made + items.used < MaxItems /\ Test(p, "lock")
       \/ running = 0 /\ Test(p, "lock")
       \/ Lock(p) \/ Load(p) \/ Store(p) \/ Unlock(p) \/ Exit(p, value)

\* 4.4.6
Post ==
    /\ At("producter", "post") /\ Goto("producter", "test")
    /\ value' = Min({value + 1, MaxSem})
    /\ UNCHANGED <<task, running, tmp, mutex, items, pipevars, shmvars>>
Wait ==
    /\ At("consumer", "wait") /\ Goto("consumer", "test")
    /\ value > 0 /\ value' = value - 1
    /\ UNCHANGED <<task, running, tmp, mutex, items, pipevars, shmvars>>
sem_f ==
    /\ task = "sem"
    /\ \/ Test("producter", "post") \/ Post \/ Exit("producter", value)
       \/ Test("consumer", "wait") \/ Wait \/ Exit("consumer", value)

-----------------------------------------------------------------------------
Main == (task \in {"test2", "test3"} /\ PipeRead) \/ (task = "shm" /\ ShmParent) \/ TaskStops \/ TaskJoins
Child == PipeWrite \/ (task = "test3" /\ PipeSleep) \/ PipeWake \/ Sem_V \/ ShmPrint
Threads == start_routine \/ sem_f \/ \E p \in {"producter", "consumer"} : mutex_f(p)

TaskNext == RunTask \/ Main \/ Child \/ Threads

\* Every process and thread is scheduled.
TaskFair ==
    /\ WF_taskvars(Main) /\ WF_taskvars(Child)
    /\ \A p \in Proc : WF_taskvars(Threads /\ pc'[p] # pc[p])

TaskSpec == TaskInit /\ [][TaskNext]_taskvars /\ TaskFair

-----------------------------------------------------------------------------
(* Properties.                                                             *)

TaskTypeOK ==
    /\ pipe \in 0..PipeSize /\ write_size \in 0..WRITELEN /\ cut \in 0..WRITELEN
    /\ nread \in 0..WRITELEN
    /\ semaphore \in {NoSemaphore, 0, 1} /\ value \in Int
    /\ mutex \in {Nobody, "producter", "consumer"}

\* The example of shared memory prints whatever it finds, unless Sem_V took what
\* Sem_P had added: then it was the message.
SemaphoreOrders == downed /\ printed # "nothing" => printed = "msg"

\* No change of buffer_has_item gets lost, whoever is in the middle of one.
ItemsAddUp == task = "mutex" => value = items.made - items.used

\* Everything that is written into the pipe is read, though the reader of
\* test3.c is never told that it was the last.
PipeIsDrained ==
    (task = "test3" /\ write_size > 0) ~> (nread = WRITELEN /\ At("main", "read"))

\* main ends once it has cleared the flag, and finds what the thread of 4.4.1 left,
\* except that the consumer of 4.4.6 may have tested the flag before and wait for
\* a semaphore nobody posts any more.
Starved == task = "sem" /\ At("consumer", "wait") /\ value = 0 /\ At("producter", "done")
MainEnds ==
    (At("main", "join")) ~> (Starved \/ (At("main", "done") /\ (task = "pthread" => value = 8)))

\* What processes and threads share is not lost between them.
SharingSound == TaskTypeOK /\ SemaphoreOrders /\ ItemsAddUp
=============================================================================
