# A verification development for linux_network_program2

The repository holds the programs of a book on network programming under Linux.
Three are systems of their own: **SIPFW** (`src/20_sipfw`), a packet filter made of a
kernel module and a command-line tool; **SHTTPD** (`src/18_shttpd`), a web server that
forks and runs CGI scripts; and **SIP** (`src/19_sip`), an IP stack in user space. The
rest are chapters of short programs, among them servers, clients and thread
examples that are concurrent in earnest. This development models all of these in
TLA+, checks the models with TLC, and proves with TLAPS, for every value of the
constants, most of the safety properties the runs check: of SIPFW's tables, hooks,
matching and netlink conversation and the refinement of the abstract policy, of
SHTTPD's children and answers, of the ban module of chapter 17, of the SIP stack's ARP
table, of the concurrent servers, and of ping, the datagram
programs and the processes and threads of chapter 4.

Contents: [inventory](#1-inventory), [plan](#2-plan),
[modules and code](#3-modules-and-how-they-correspond-to-the-code),
[runs](#4-what-each-run-checks), [fairness](#5-fairness), [proofs](#6-proofs),
[findings](#7-findings), [what is not modelled](#8-what-is-not-modelled).

To repeat a run: `tlc -config MCSipfw.cfg MCSipfw`; to repeat the proofs:
`tlapm SipfwTablesProofs.tla` (and the other `*Proofs.tla`).

## 1. Inventory

### SIPFW, the packet filter (`src/20_sipfw/sipfw`)

| part | state it keeps | operations |
|---|---|---|
| rule tables (`module/sipfw_k_nl.c`, `sipfw.h`) | `sipfw_tables[3]`: per chain a linked list of kmalloc'ed rules and a counter `number` | APPEND, INSERT, DELETE, REPLACE, FLUSH, LIST, destruction at unload |
| hooks (`module/sipfw_k.c`, `sipfw_k_common.c`) | `cf.HitNumber`; each packet's position in a list | five netfilter hooks, `SIPFW_IsMatch`, the verdict |
| matching (`sipfw_k_common.c`, `app/sipfw_u.c`) | `struct sipfw_cmd_opts`, a rule | option parsing, byte orders, comparison with a packet |
| log time (`sipfw_k_common.c`) | none (tables of days) | `SIPFW_Localtime` |
| netlink conversation (`sipfw_k_nl.c`, `app/sipfw_u.c`) | socket queues, the tool's loop | send a command, answer, list rules, SIGINT |
| module life and `/proc` (`sipfw_k.c`, `sipfw_k_proc.c`) | what is registered; `cf`; the buffer `cookie_pot` | load, unload, writes to three files |
| files (`sipfw_k_file.c`) | the log file, the configuration file | open, read a line, append |

How they interact: the tool sends a `struct sipfw_cmd_opts` over netlink;
`SIPFW_NLInput` runs in the sender's context and edits the tables; hooks walk the
same tables for every packet, on every CPU; `/proc` writes change the `cf` that
hooks read. Nothing is locked: the `rwlock_t` of `struct sipfw_list` is declared
and never taken.

Hard behaviours: list surgery by hand under a counter that not every command
maintains; a walk concurrent with relinking and freeing; a non-atomic counter
raised on several CPUs; answers dropped at a full socket buffer; a shared text
buffer; an error ladder at load time and its order at unload; a date search
without an end test.

What makes it correct: chains stay well-formed lists of allocated cells; each
command edits the policy the way it says; a packet's verdict is one the whole
table gave; no walk touches freed memory; what LIST prints was on the chains; a
conversation ends; nothing registered outlives the module.

### SHTTPD, the web server (`src/18_shttpd/sources`)

| part | state it keeps | operations |
|---|---|---|
| accept loop (`main.c`) | `runningChildren`, `cs` | accept, fork, close, wait, waitpid, SIGINT |
| a child (`main.c`) | `newSocketReady`, `totalRead`, `stuckCounter`, the request | read the header, parse, choose an answer, read the body |
| CGI (`handlers.c`) | two pipes, a process | check the path, fork, feed, relay, wait, log |
| pages and log (`handlers.c`, `mime.c`, `log.c`) | the log file | headers, files, directory listings, log lines |
| configuration (`main.c`, `mime.c`) | ports, limits, MIME types | read at start |

The parts interact through fork (a child is a copy with one socket), signals
(SIGPIPE closes the socket behind the code's back), two pipes per script, and the
log file all of them append to.

Hard behaviours: a bounded number of children that are counted by hand; clients
that stall (a receive timeout and stuck counters), leave, or send too much;
SIGPIPE from a client and SIGPIPE from a script, told apart by nobody; a script
that stops reading or goes on writing; system calls that fail half way.

What makes it correct: never more children than `max_child`, and never a server
that stops accepting; one answer per connection; a log that says what was
answered; all of a script's output before its success is logged; every
connection ends.

### SIP, the IP stack (`src/19_sip/sip`)

| part | state it keeps | operations |
|---|---|---|
| buffers (`sip_skbuff.c`) | who owns a `skbuff` | allocate, free |
| Ethernet, ARP (`sip_ether.c`, `sip_arp.c`) | the ARP table of 10 entries | read a frame, look up, enter, expire, answer |
| IP, ICMP (`sip_ip.c`, `sip_icmp.c`) | the list of reassemblies | check, reassemble, deliver, answer an echo, fragment |
| UDP (`sip_udp.c`) | `udp_pcbs`, lists of control blocks | new, bind, connect, remove, input |
| sockets (`sip_sock.c`, `sip_api.c`) | four sockets | in no build file |

The stack is one loop over frames; everything a frame causes happens inside one call of
`input`. Its hard behaviours are a table that is full, frames that come from the stack's
own address, expiry with a clock that may be set back, and fragments in any order.
What makes it correct: the table is a map that says what was last heard and gives up no
live entry. Who frees a buffer and which control block a datagram finds would matter as
well, if the build ever came to it (section 8).

### The ban module (`src/17_netfiler/17.6.9`)

`b_status` (a banned port, address, and ping), two hooks that read it, a socket option
that writes it, one word at a time and without a lock. What makes it correct: a ban
that stands stops its packets; what is dropped was banned; the module goes with
nobody inside.

### Servers and clients of the chapters

| part | state | hard behaviour |
|---|---|---|
| time servers (`14_server_mode/14.1` to `14.3`) | workers (processes, threads), the lock around accept, `s_c` | one descriptor variable shared by threads, a failing fork, clients that say nothing |
| select server (`14.4.2`) | `connect_host`, `connect_number` | two threads on one table without a lock |
| epoll echo (`epoll_for_tcp_echo`) | the batch of events, each client's buffers | partial sends, SIGPIPE, descriptors closed and reused inside a batch |
| select servers (`12_sockopt`, `11_unix_socket`) | table of descriptors, urgent data | a descriptor read in the round it was accepted in |
| file passing (`11_unix_socket/unix_socket_11_1`) | one open description, its offset | an offset shared by processes, a file closed under others |
| datagrams (`10_udp`, `11_unix_socket`, `12_sockopt`) | rounds, timeouts, queues | loss, late answers, SIGINT through a pipe |
| count servers (`07_tcp`, `09_io`, `13.6.10`, `15_ipv6`) | children, connections | children that fall back into accept, merged SIGCHLD |
| my_open (`11_unix_socket/socketpair_11_1`) | a pair of sockets, a child, an offset | failing execl, the order of wait and receive |
| ping (`13.6.10/ping.c`) | the table of packets, two counters | two threads without a lock, loss, repetition, SIGINT |
| pipes, semaphores, threads (`04_task_thread`) | a pipe, a semaphore, a mutex, a flag | partial writes, a flag tested before a wait |

What makes each correct: whoever asks is answered and nobody else is; a table agrees with
the descriptors that are open; counters count what they say; what is told to end ends.

### The rest

Chapters 02, 03 and 08 and the remaining programs of 09 to 13 show one system call or
option at a time and keep no state worth a model; `19_sip/ref` is a vendored driver;
`18_shttpd/configure` is generated. `PROJECT.json` lists every component with its reason.

## 2. Plan

Order: what is shared and concurrent first.

1. Done: `FilterPolicy` (abstract), `SipfwTables`, `SipfwHooks` (both refine it), `SipfwNetlink`,
   `SipfwMatch`, `SipfwTime`, `SipfwProc`; `SipfwTablesProofs`, `SipfwHooksProofs`.
2. Done: `Shttpd`, `ShttpdProofs`.
3. Done: the concurrent servers: `TimeServers`, `SelectServer`, `EpollEcho`, `ReuseServer`.
4. Done: the SIP stack and chapter 17: `SipStack`, `NfBand`; `SipStackProofs`,
   `FilterProofs`.
5. Done: the programs of the chapters: `Tasks`, `Ping`, `FilePassing`, `Datagrams`,
   `CountServer`, `OpenFile`.
6. To come: two administrators in `SipfwHooks` (a lost rule, which needs a statement of
   what the code promises them); the configuration reader of SHTTPD.
7. Done: the proofs of section 6: `SipfwNetlinkProofs`, `FilterProofs`, `ServersProofs`,
   `ExamplesProofs` and the refinement of `FilterPolicy` by `SipfwTables`.
8. Done: the proofs that count: `RoundsSound` of `Datagrams` (what is under way),
   `EachServesItsOwn` of `TimeServers` (room for everybody), `ReuseSound` of `ReuseServer`.
9. Proofs to come: `CountingSound`, `OffsetIsShared`, `OpenKeepsWord`, `ModuleLifeSound`.

## 3. Modules, and how they correspond to the code

`PROJECT.json` maps every definition to its lines. In short:

**FilterPolicy** is what the tables promise: three ordered lists of rules, edited one
rule at a time or cleared, until the firewall stops. It knows no cells, pointers or
counters.

**SipfwTables** has one action per netlink command, each a whole handler of
`sipfw_k_nl.c`: `RuleAddpend`, `RuleInsert`, `RuleDelete`, `RuleReplace`, `RuleFlush`, and
`ListDestroy` for unloading. `heap` says what each kmalloc'ed cell holds, `list` the
cells of each chain in order, `number` is `l->number`. `JudgeCommand` and `Normalised` are
the tool's tests before it sends. A cell that is allocated and on no chain is leaked.
A write outside `sipfw_tables`, and one through NULL, end the model in a phase of
their own, since nothing can be said of the program after it. Memory that kmalloc
hands out holds any value of `Addr`, which is what `dest` keeps (the code assigns
`source` twice).

**SipfwHooks** has the same commands again, one load or store per action, in the
order of the code, with a record per administrator (`prev`, `cur`, `i` are the handler's
variables) and one per packet (`SIPFW_HookLocalIn` and its siblings). `began` and `seen`
are history variables: the rule that was the first when a packet's hook read the head,
and the verdicts the chain from that rule on has given the packet since. `Contents`
takes a store that is still to come (`rule->next = cur->next`) as done, so that REPLACE is one
policy step for the refinement.

**SipfwMatch** follows an option from the command line to the comparison: `typed` keeps
what was meant, `opt` what the tool sends, `rule` what the kernel stores (of `-d` nothing: it
keeps what kmalloc found). **SipfwTime** lets a clock tick beside the calendar, from before the
first day the code's table covers to beyond its last. **SipfwNetlink** extends `SipfwTables`
with socket buffers, the tool's loops and SIGINT; `snapshot` is a history variable.
**SipfwProc** has one action per call of `SIPFW_Init` and `SIPFW_Exit`, and two per write, the
copy into `cookie_pot` and what is made of it; the buffer is a sequence of characters, since
what a longer text left behind is read as part of the next one.

**Shttpd** has the server process (`srv`), a record per child (`kid`: the program counter,
its copy of the socket, `totalRead`, `stuckCounter`), one per script with its pipes (`cgi`),
what each client sent and got (`net`), and the log. A page is its status; a header, a body
and a script's output are counted in units (`Outs` counts those of the output that reached
the client; `ReadAs` says what a request may be read as). `Say` sends a page, including the
SIGPIPE that closes the socket, the send into a socket already closed, and the retry without
end while a client that stays does not read (`RoomFor`, `Unheard`). The kernel's part is
external: the backlog, pipes of `PipeRoom` units, wait and waitpid.

**TimeServers** has one action per call of a worker (`Recv`, `Send`, `CloseThen`, ...);
`server` says which of the seven servers runs, and `Fork`, `Accept...` and `RecvFrom` are
those of its file. The thread server's `s_c` and the numbers of descriptors (`fds`) are
kept, since its race is about them. **SelectServer** lets `handle_connect` and
`handle_request` each do a scan of `connect_host` as a step and load and store
`connect_number` as two; an accept that fails is counted like any other (`refused`).
**EpollEcho** has one action per kind of event (`AcceptClient`, `RecvEvent`, `SendBack`,
`ReadCommand`); `event_array` is the batch, `echo` the numbers of the bytes that came back.
**ReuseServer** is the common loop of the select servers; `program` chooses the file, whose
differences are guards.

**SipStack** has one action per kind of frame (`InputArp`, `InputIp`, `InputOther`), each
the whole call of `input`, and two for the clock. `heard`, `heardAt` and `setBack` are
history variables. `Own` is one of the addresses frames may claim to come from: the stack
then enters it, and writes its own hardware address into that entry at the next frame. Three
facts of the code decide a great deal: nobody sets the device's mtu, so `ip_frag` returns
NULL for an answer to an echo and the process dies; the test of sip_ip.c:286 drops every
datagram that carries anything; and `output`'s five requests for an address are never
reached, since nothing is ever sent that way. **NfBand** has a step per word that is stored
and per word that is read; `cpu[k].always` and its neighbours are history.

**Tasks**, **Ping**, **FilePassing**, **Datagrams**, **CountServer** and **OpenFile** follow the
programs call by call. `task`, `exchange` and `version` say which of several like programs runs.
In `FilePassing` a description is a number, lives as long as someone holds it and has one
offset (`atStart`); in `CountServer` a line is its length, which is all the server answers; in
`Ping` a sequence number has six values, half of them negative, in place of 65536.

**MCSipfw**, **MCParts**, **MCServers** and **MCExamples** put components that share nothing
side by side, **MCHooks** three settings of one module: `part` (`runs`, `setting`) is chosen
in the initial state and says whose steps are taken, and the others keep a first state. Fairness is that of the component that runs
(`runs = ... /\ ...` in `Fair`). So the states of a run are the sum of those of its
components, not their product, and nothing is asked of an idle one.

The other `MC...` modules give the constants: which commands, which requests.

## 4. What each run checks

| run | question | bounds, and why they are enough |
|---|---|---|
| `sipfw` | Do all sequences of commands keep the tables sound (`TablesSound`), keep the order of rules and lose at most a cell each (`CellsKept`), and implement `FilterPolicy`? Beside them: dates (`DatesSound`), matching (`MatchesDescribed`), loading, `/proc` and unloading (`ModuleLifeSound`), the bans of 17.6.9 (`BansHold`, `BandSound`). | 4 cells, so that a command (which needs a cell of its own) meets a chain of 3 rules: head, middle and tail all occur, and kmalloc failing. Positions 0..4 reach before, on and beyond every rule. Counters drift down to -2 (state constraint: INSERT and DELETE lower them without end). Cells are symmetric. Every day from 2007-01-01, the first the table has and does not serve, to 2012-01-04, where it is left, in ticks of 21601 s, which drift through every hour. 3 addresses, ports 0, 1 and 256 (a byte order mistake maps 1 to 256), 4 options on a command line. Every failing call of loading; 2 writers, words and numbers with and without a newline, and one of two digits that a shorter one is written over. 2 administrators, of whom one is the first, and 1 CPU with 2 ports. |
| `insert_keeps_rules` | Does INSERT keep the rules already there? It does not. | 3 cells |
| `date_is_local` | Is the date in the log the local one? It is that of the day before. | the same years |
| `destination_is_matched` | Does a rule typed with `-d` leave packets to other destinations alone? It does not. | 3 addresses |
| `hooks` | *add*: one administrator adds rules at the ends of the chains while a packet walks: no freed cell (`HooksSound`), a verdict the chain gave from the first rule the packet saw (`LinearVerdict`), every packet leaves. *pair*: two packets on one rule, whose two `HitNumber++` overlap: exact until they do, never too many (`HitsCounted`). *alone*: do the stores of every command, with nobody looking, add up to one step of `FilterPolicy`, unloading included (`AloneImplementsPolicy`), and free nothing that is reachable? | *add*: 3 commands on 3 cells, so that both ends of a chain that a packet walks get a rule, one that drops it and one that lets it pass; 2 kinds of packet; its hook interleaves with every store and with writes to `/proc`. REPLACE and INSERT in the middle are left out: with them `LinearVerdict` is false (below). *pair*: one APPEND. *alone*: 4 commands of every kind on 3 cells. Of the hooks that walk OUTPUT, LOCAL_OUT stands for all: they differ in their name. |
| `no_use_after_free` | DELETE against one packet. It fails. | 2 cells, 2 commands |
| `parts` | Two tools at once, full buffers, SIGINT: is a listing a prefix of the rules and the answer that of the command (`AnswersSound`), does a tool end (`ToolEnds`)? Beside them the ARP table (`ArpTableSound`). | 3 cells (a LIST, which needs one, finds 2 rules), of which kmalloc takes the first that is free, buffers that hold 2 messages or 3 (the count and 2 rules fit or overflow), 2 runs and 1, every command that moves the counter. 3 addresses, the stack's own among them, for 2 slots, so that the table is full with one to spare; 2 hardware addresses; a clock that goes from 0 to 2 and back, with a live time of 1, so that entries fall on both sides of it. |
| `every_tool_ends` | Does every tool end, with a negative count too? It does not. | one tool, 2 cells, 3 runs: INSERT, DELETE, LIST |
| `shttpd` | Children counted; one answer each, a true log, complete output (`AnswersSound`); every connection ends unless its client keeps it without reading (`ConnectionEnds`). | 2 clients, of which one may leave or not read, `max_child` 2, two failing system calls; a socket that takes 2 units and then no more from a client that does not read; a header one unit too long, a body and an output longer than the pipe |
| `cleanup_ends` | Does a child that has finished relaying get through its clean-up? Not when the client has left and the script has more than a pipe to write. | one child, a pipe of 1, an output of 3 |
| `servers` | Seven time servers (`EachServesItsOwn`, `TimeIsTold`), the select server (`SelectTableSound`, `SelectClientsAnswered`), epoll (`EchoSound`, `LoopServesAll`), select servers (`ReuseSound`, `SpeakersAreServed`). | 2 clients (one stalls or leaves while the other asks) for 2 workers; 3 slots of which `memset` clears 1, so that one client fits and the next is forgotten, 2 descriptors for 3 clients, of whom one says nothing, and one accept that fails; a send takes 1 of 2 bytes; a backlog of 2 for 3 clients, so that the third is refused. |
| `examples` | Shared memory, threads, pipes (`SharingSound`, `TasksEnd`), ping (`StatisticsSound`, `InterruptEnds`), file passing (`OffsetIsShared`, `FileClientsAnswered`), datagrams (`RoundsSound`, `DatagramsEnd`), count servers (`CountingSound`, `CountersServe`), my_open (`OpenKeepsWord`). | A pipe half as long as the message; a packet table of 2 for 4 packets, with numbers that pass the sign; 2 clients, 4 commands and 3 opens of the file; 2 servers, 2 rounds, a queue of 2; 2 lines of a client, so that TCP can join them. |

Every property of a passing run has a mutant in `PROJECT.json`: a plausible bug of the
code that makes TLC report that property. A property with `Sound` or `Hold` in its name is a
conjunction of named parts, each with its own comment in the module.

Parts worth a word:

- `CountNeverExceedsRules` is why a drifting counter is harmless inside the kernel:
  `number` may be far below the length but never above, so no position test lets a walk
  run off a list. The other direction does not hold, and `every_tool_ends` shows what
  that does to the tool.
- `LinearVerdict` is linearizability of a packet's walk against one administrator who
  only adds, at the head or the tail, and it speaks of the rules from the one the packet
  saw first: a rule put in front of that one is not for this packet, so that it may meet a
  later addition at the tail and not an earlier one at the head. With REPLACE it fails (the
  rule is linked before its `next` is set), and with an INSERT in the middle too (it
  unlinks the rule at that place, and an APPEND behind it then reaches some packets only).
- `LogIsTrue`, `OutputDelivered` speak of connections neither side closed early: the code
  logs 200 also when it could send nothing.
- `ConnectionEnds` includes children of a failed accept, of a failed fork, and requests
  handled after the stuck counter has closed the socket. It excuses one thing, named in the
  property: a connected client that never reads, to which `sendChunk` tries to send for ever
  (`SO_SNDTIMEO` makes each try end, nothing counts them), and those the server then keeps
  waiting because a child has to end first.
- `HitsCounted` is exact for as long as the increments of two hooks have not overlapped
  (`together`), and says after that only what stays true, that no hit is invented.
- `DatesSound` says what a reader of the log can go by: the dates follow the calendar, and
  where there is none. That they are the wrong ones is `date_is_local`.
- `LastLineDecides` is what two writers of `/proc` can rely on: the number line copied last
  is what both take. `LongTextFreezesAction` says that one text longer than ACCEPT settles
  the default action for the life of the module.
- `LiveEntriesStay` is stated for times within the live time on either side of the clock. The
  code's test (sip_arp.c:22) compares the wrong way round, so that an entry goes only when the clock
  was set back by more than that; an entry that is too old stays.
- Exceptions are named, not assumed away: `hurried` is the moment 14.3.2 accepts before a
  thread has read `s_c`, `lost` the moment 14.4.2's threads change the counter at once, `eager` a
  client that sends more than a send takes, `doubled` an answer that comes twice,
  `setBack` a clock that was set back, `Starved` the consumer of 4.4.6 left in `sem_wait`. A
  property holds up to that moment; the behaviours after it are in the state space.
- `CountIsClients` says by how much the counter is off: by the accepts that failed, which the code
  counts (`refused`), and by the standard input in the table; beyond that a change lost
  to the race is the only way for it to leave the table.
- `EventsAreFresh` is why the epoll loop may close and accept inside one batch: no event of
  the batch is left for a descriptor that is given out again.
- `NoAcceptUnderBan` and `NoDropWithoutCause` bound what a torn read of the ban can do.

## 5. Fairness

- `SipfwHooks`: weak fairness of each packet's own steps. A hook runs in softirq context
  and is not preempted by the process that issued a command; commands and writes have
  none, nobody has to give one.
- `SipfwNetlink`: weak fairness of `NLInput` (`sendto` on a netlink socket runs the kernel's
  handler before it returns) and of a tool whose buffer is not empty (`recvfrom` wakes up).
  None for starting a tool or pressing ^C.
- `Shttpd`: weak fairness of the server, of each child and of each script: the scheduler
  runs what can run, and `SO_RCVTIMEO` (main.c:839) ends a read that nothing comes for,
  which is why `HeaderEnds` and `BodyEnds` are enabled without input. None for clients: they
  may stall for ever, none for scripts that wait for an end of file that never comes.
- The servers of `MCServers` and the programs of `MCExamples`: weak fairness of each process or
  thread of the repository that can run, blocking calls being enabled only when they
  return. None for the environment: clients connecting, speaking or leaving, signals,
  the terminal, the start of a program, the network losing, repeating or delaying. In
  `Datagrams` the timeout of an asker is one of its own steps: `select` or `SO_RCVTIMEO` gives it.
- `AskerIsAnswered` and `ClientIsServed` are conditional on workers that are able time and
  again, because a server that reads from a silent client has no timeout: the
  condition is part of the property and not of the specification.
- `sipfw` promises safety alone and has no fairness; in `parts` only the tools have it, in
  `hooks` only the packets.

## 6. Proofs

Each theorem is `Spec => []P` (or `Spec => P` for an action property or a refinement), for
every value of the constants that the named `ASSUME`s of the module allow; TLC evaluates
those in the runs.

| theorem | module | says |
|---|---|---|
| `TablesStaySound` (`ChainsStaySound`, `CountBounded`, `HomeKept`) | `SipfwTablesProofs` | `TablesSound`, for every set of cells, options and garbage |
| `Implementation` | `SipfwTablesProofs` | `ImplementsPolicy`: the tables refine `FilterPolicy` |
| `CellsStayKept` | `SipfwTablesProofs` | `CellsKept`, an action property: order kept, at most one cell lost |
| `HitsBounded` | `SipfwHooksProofs` | `HitsNeverOvercounted`, the half of `HitsCounted` that survives the race, for any finite set of packets, any commands, any interleaving |
| `WalksAreLinear` | `SipfwHooksProofs` | `LinearVerdict` for any number of packets, cells and commands, if one administrator adds at the ends |
| `AnswersStaySound` | `SipfwNetlinkProofs` | `AnswersSound` for any number of tools, any buffers, ^C at any moment |
| `TablesSoundUnderClients`, `ClientsEditThePolicy` | `SipfwNetlinkProofs` | `TablesSound` and `ImplementsPolicy` again, under those tools |
| `RulesAreAsDescribed` | `FilterProofs` | `MatchesDescribed` (every option but `-d`, whatever `dest` holds) for any addresses, positions and ports |
| `CountCorrect` | `ShttpdProofs` | `ChildrenCounted` for any number of clients, slots and failures and every `max_child` |
| `AnswersAgree` | `ShttpdProofs` | `AnswersSound` for any requests, clients, scripts and failing calls |
| `BansAlwaysHold` (`BannedIsDropped`, `DroppedForACause`, `LoneBanStands`) | `FilterProofs` | `BansHold` for any number of administrators, CPUs, addresses, ports and settings |
| `BandStaysSound` | `FilterProofs` | `BandSound`: the module goes with nobody inside |
| `ArpTableHolds` | `SipStackProofs` | `ArpTableSound`, the action property in it included, for any peers (the stack's own address one of them), hardware addresses, slots, live time and clock settings |
| `SharingStaysSound` | `ExamplesProofs` | `SharingSound`: pipe, shared memory, flag and mutex, of any size |
| `EchoStaysSound` | `ServersProofs` | `EchoSound` for any clients, events, bytes and room |
| `SelectTableStaysSound` | `ServersProofs` | `SelectTableSound` for any clients, slots and failing accepts |
| `ReuseStaysSound` | `ServersProofs` | `ReuseSound` for any clients, backlog and words |
| `EachServesItsOwnAlways` | `ServersProofs` | `EachServesItsOwn` for any clients, processes and threads of the seven time servers |
| `RoundsStaySound` | `ExamplesProofs` | `RoundsSound` for any clients, servers, rounds and sockets |
| `StatisticsStaySound` | `ExamplesProofs` | `StatisticsSound` for any requests and entries |

*Rule tables.* The inductive invariant `IInv` is the conjunction of four parts. They need each
other: a step writes to a free cell or to a linked one, and `ChainsSound` says the two
differ, without which `RulesAtHome` would not survive; `LinkedOnce` is what makes freeing
one position leave every other position allocated. `StepCases` reduces each handler to one
of six changes of the tables, and one lemma per change shows `IInv` kept. Sequence lemmas
(`RemoveAtProperties`, `ConsProperties`) are stated once. The same cases give the other two: each
change is one step of the policy on one chain or none, or a stutter, because under `IInv`
the cells of a chain are not written by what happens to the others; and each change keeps
the order of what stays.

*Netlink.* The conversation extends the tables, so its steps are table steps or leave
them alone, and the theorems about the tables carry over. `NetInv` adds what is in flight:
a tool has at most one question out (`AsksOnce`), and what its buffer holds is what is left
of the kernel's answer to that question (`Talk`), compared with the `snapshot` of the rules.

*Hits.* A lost update is possible: two hooks load the same value. What is invariant is that
a value in flight (`pkt[p].hit`) and the counter are each at most the packets that have
already stored, and those only grow.

*Additions.* A lemma (`AdditionsAreSafe`), which the linear walks need: while commands only
add, `HooksSound` holds for any number of packets and administrators. With a DELETE, FLUSH
or unloading it is false (`no_use_after_free`), and without them nothing is freed, so what
there is to show is that nothing unallocated is reached. `AddInv` says that whatever a cell,
a head, an administrator or a packet points to is allocated (`Held`), the history variables
included, since the verdicts in `seen` are read off the chains; that these are 0 or 1 needs
the recursive `Settled` to be sequences of rules, by a least counterexample. Two
administrators may lose a rule to each other; no cell is freed for it.

*Linear walks.* `LinearVerdict` is proved under `AtTheEnds`: one administrator, additions at the
head and the tail, the default action left alone. A command never counts on more rules than
it has added, which is why a number beyond `Budget` always means the tail (`CommandOK`). `GrowInv`
says where a rule that is not yet linked may be pointed to from (nowhere), and that the linked
ones have a rank, the number of turns `Settled` needs from there; so a chain's verdict
is its first rule's or the verdict of the rest (`VerdictUnfolds`), although `Settled` is
recursive. `PktKnows` says what a hook knows at each place: it has passed rules that do not
match, each pointing to another of them or to the one it stands at, so that the verdict from
there is the chain's (`PassedLearns`). A command's step keeps that, since it changes no `next` but
one that was null (`Extends`), and a packet that has reached the end had seen the default
action by then.

*Matching.* `MatchInv` says that the option record holds what was typed, converted, and the
stored rule what the record holds, with a byte swap where the code has one.

*Children.* `ChildrenCounted` is not inductive: where the server stands decides how close
to `max_child` the count may be. The strengthening (`CountInv`) bounds the count by place
(below `max_child` wherever the server is about to accept, to fork or to reap) and keeps it
above zero in `wait`, where the count is lowered even if there is nobody to wait for. A
fork adds at most one child and one to the count; a burial takes one from each
(`Born`, `Buried`); whatever a child does with its own record leaves it a child
(`KidRewrites`, `Stays`).

*Answers.* `AnswersInv` needs, besides shapes: that a connection is in one place, the backlog,
the server or one child (`Placed`), so that nobody else answers it; how many answers and log
lines it has by where its child stands (`Few`, `Going`); and for each phase of a child
what it has read, said and relayed (`Reading`, `Answering`, `Relaying`, together `Serves`). A step
of a child touches its own connection and script, so each handler needs only `Serves` of
that child; `ToldServes` is the one lemma for all pages.

*Bans.* A hook that has read a protocol and not yet the port, or a ban of which one half is
stored, breaks the properties read as an invariant of the end of a walk. `BandInv` says for
every place in a hook what it knows: a walk under a ban that always stood (`always`) has
read that ban's words, and what it has read was in the ban at some moment (`protocol`,
`key`). A store keeps it because the history is updated with it (one lemma, `StoreSound`, for all
stores), a hook's own step because the next word is read from a ban the history covers.
`LastAlone` says that a call nobody met leaves its own two halves, or has one to go.
`LifeInv` says that until the exit begins whoever is inside a hook is inside a registered one.

*ARP.* `ArpTableSound` is not inductive: nothing in it says that entries do not expire while
the clock goes on. `ArpInv` adds `Fresh` (no entry is of a later time), so that a sweep empties
nothing unless the clock was set back; and since `arp_input` sweeps the table and fills it
within one call, the lemmas speak of any table `t` and history `h`: what a search finds
(`FindEntryFinds`, from the least element of a set of slots by well-foundedness), what a sweep
leaves (`SweptProperties`, `SweptKeeps`), which slot an entry takes (`AddEntryCases`), and that both
keep `Good`, `Full` and `Fresh`. The action property follows from `Keeps`, proved along with it.

*Tasks, echo, select, ping.* `TaskInv` says what each process's or thread's place implies of
the pipe, the shared memory and the flag. `EchoInv` says which descriptor stands for which
client, that events of a batch are for descriptors still open, and what each client has
sent, is buffered and came back (`Bytes`). `SelectInv` bounds `connect_number` from above by
the clients there are and the accepts that failed, less the one about to be counted
(`NotAbove`), and from below by the slots a scan has been through (`NotBelow`), since a
thread between its load and its store undoes what the other did meanwhile; `StdinStays` says
what `memset` did not reach. `PingInv` says that the numbers in the table are those of
requests with an entry (`NumbersKnown`), that request 0 takes the first entry, so that the
zero of an unused one is not mistaken for it (`FirstIsFirst`), that an answer to come is
found in use (`LookupOK`), and bounds those answers by the requests not yet counted
(`AnswersBounded`).

*Time servers.* One connection is in one place: the queue (`QueueOK`), a worker, or in 14.3.2 an
entry of the table of descriptors (`HeldOnce`). `ThreadsOwn` carries the argument about the
variable `s_c` all threads share: until one hurries, it holds the descriptor of the one
thread that has not read it. A `fork` or a `pthread_create` takes a worker, and an accept a
descriptor, that is free; that there is one is a count, of those in use against the
clients that have come (`RoomForAll`). `AnsweredOnce` says that whoever stands at `send` holds a
client that asked, was read and has no answer. The attempt to prove an earlier form of
the type invariant failed for a reason: it said that no client gets two answers in any
case, which two clients bear out and three refute, since of two hurried threads of 14.3.2 that
share a connection a third client may leave both able to send; the bound is now part of
`OnlyTheAskerIsAnswered`, and holds until one hurries.

*Select servers.* `ReuseInv` adds `ScanIsOpen` (what the scan has still to come to was not
closed, though a scan accepts and closes as it goes), `NotYetAccepted`, and `Owed`: a client
that sends nothing urgent has said at most one thing that is unread or unanswered, and
nothing once it has gone without reading, so that only the others meet SIGPIPE.

*Datagrams.* Queues have no useful shape, since anything may be lost and several servers
answer at different speeds; what is invariant is a number. A request is known by its server
and its round, and `NoneTwiceAt` says that no server has one twice, so that the requests of
a client without an answer are a finite set (`Unanswered`); with the answers it has not read
they are what is under way (`UnderWay`). Each ask adds at most one for each server it goes
to, an answer moves one from the set to the queue or loses it (`AnswerUnderWay`), and so
there is never more than was asked (`NoneAhead`). A client whose `select` never timed up has
nothing under way when it asks, so that all it can read is of its round (`Follows`). The
count needs `Answering` to be finite, which `DatagramAssumption` now says.

Only model-checked: everything under fairness (liveness and ENABLED are outside the
prover); `AloneImplementsPolicy` (chains are followed by the recursive `Settled`, and what a
recursive definition computes for every input is induction over data, outside it too);
`DatesSound` (the calendar, a search in a table of fixed length); that `HitsCounted` is exact until
two increments overlap; and, so far,
`ModuleLifeSound`, `OffsetIsShared`, `CountingSound` and `OpenKeepsWord` (section 2).

## 7. Findings

Six runs show the code doing something other than its own comments say; `PROJECT.json`
quotes them: INSERT in the middle drops the rule at that position; the date in the log is
that of the day before; a rule typed with `-d` catches packets to other destinations; DELETE
frees a cell a hook may stand on; a negative count sends the tool into a wait without end; a child
waits for a script that waits for it.

Further departures met while modelling, which the models keep and no run singles out:

- INSERT never raises `number`; DELETE without a matching rule leaks its cell; FLUSH and
  unloading lose the last cell (sipfw_k_nl.c).
- REPLACE cuts the chain for a moment, and a packet may be accepted that a later rule drops
  (`LinearVerdict` fails with REPLACE among the commands).
- Two APPENDs at once lose a rule; HitNumber loses increments.
- A packet that has read the head of a chain may meet a rule appended later and not one
  inserted at the head before that: two commands reach it in the other order.
- `SIPFW_Exit` frees the lists before it unregisters the hooks.
- The FORWARD hook sends the packet itself before it looks at `cf.Invalid`.
- On 2007-01-01, and from 2012-01-02 on, the search for the year runs out of its table
  (sipfw_k_common.c:46).
- RST is parsed and never compared; `-u` goes through `htons` in the tool and
  is never converted back (sipfw_k_nl.c:337); a rule without `-p` has
  protocol 255 and matches nothing.
- A CLOSE is handled as a command, read from memory behind the message.
- One `/proc` buffer serves all files: with two writers a switch may take the other's value, a
  short number is read with the digits of a longer one behind it ("1" over "10\n" is 10), and a
  word is no longer recognised once anything longer was written.
- With the entries refused at load, those already made stay (sipfw_k_proc.c).
- SHTTPD: a failed fork is counted like a child; `for (...);` at main.c:821 is an empty loop, so
  one child is reaped per turn; the stuck counter of the header is cumulative while that of
  the body is reset; a request is handled after its socket was closed, and logged 200; a
  header that is too long gets a second answer; SIGPIPE from a script closes the client's
  socket; `sendChunk` prints what it sends, which for a script's head goes into the script's
  own output when stdout is a terminal, and tries again for ever when a connected client does
  not read, whatever `SO_SNDTIMEO` says (handlers.c:48-96).
- SIP: an echo request ends the process, since the mtu is never set and `ip_frag` returns
  NULL; datagrams with a payload are dropped (sip_ip.c:286); `ARP_LIVE_TIME`
  (sip_arp.h:8) lets no entry grow old: they expire only if the clock is set back, and a full table
  takes no new peer; a frame that claims the stack's own address enters it into the table
  (sip_ether.c:55, sip_arp.c:204); what is handed
  to a protocol is never freed; a timed-out reassembly is unlinked through itself
  (sip_ip.c:53). `cksum` is declared and nowhere defined.
- 14.3.2: two threads may share one client; 14.4.2: a descriptor is forgotten when the slots
  `memset` cleared are taken, served ones are never closed, and a lost change of
  `connect_number` stops the serving; an accept that fails is counted and
  its -1 stored (server.c:101-115).
- epoll: the part of a buffer that a send does not take is lost; a client that leaves before its
  echo is complete may end the server by SIGPIPE.
- select servers: a client accepted in a round may be read in the same round, which blocks the
  server; an answer to urgent data is taken for the next answer.
- 4.4.6: the consumer may wait for ever; 4.3.1/test3.c: the reader is never told the end.
- ping: a SIGINT between the handler's installation and `alive = 1` is undone; a pid above
  16 bits hears nothing; a lost packet keeps its entry.
- 17.6.9: an option is there to ban pings and to allow them again (test.c:80-88, 197-198), but the
  test is the wrong way round and the option's number out of range: no ping is ever let through.
  The model drops them, and no property says that it should.
- file passing: a file that cannot be opened is reported to nobody; a client may have the
  server close the file others asked for.

## 8. What is not modelled

- Of SIPFW: the text of log lines, the file API of the kernel and the configuration reader
  (its result, the default action, is an input of `SipfwProc`); reads of `/proc`; the
  superseded single-file versions and the GTK window.
- Of SHTTPD: the wording of pages and headers, MIME types, the directory listing, the
  configuration file, SIGINT sent to the children as well, and characters: a header is
  a number of units and what it leads to. Where the code reads past what it filled in
  (a header cut short, a Content-Length never set), the model takes any value.
- Of SIP: `sip_udp.c`'s control blocks: what makes one is called by `sip_api.c` alone, so that the
  lists are empty for ever and every datagram for a port finds nobody (a model of its calls would
  have to invent their caller; a block bound twice would stand in two lists, sip_udp.c:116);
  who owns a buffer, which on the paths that are reached is one allocation and one free in the same
  call, or a leak; the text of headers and checksums, `sip_sock.c` and `sip_api.c` (in no build
  file, and calling functions that do not exist), the vendored driver.
- Of the chapters: programs without state (one call, one option, one listing), the floods of
  chapter 13, name resolution, and the text of times and messages.
- Calls taken to succeed are named at the head of each module; those whose failure the
  code handles, or fails to, do fail in the models.

Undefined behaviour is a choice: unset memory may hold any value of a constant set; a
write out of bounds or through NULL ends the model. The kernel's side of system calls is
modelled from their use and marked external.
