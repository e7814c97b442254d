------------------------- MODULE SipfwNetlinkProofs -------------------------
(***************************************************************************)
(* The netlink conversation, for every number of clients, every size of    *)
(* their buffers and every sequence of commands: a client hears of its own *)
(* command and of nothing else, what a LIST prints is what was on the      *)
(* chains, and the tables stay what SipfwTablesProofs shows them to be,    *)
(* with the commands read from memory nobody wrote among the others.       *)
(***************************************************************************)
EXTENDS SipfwNetlink, SipfwTablesProofs

-----------------------------------------------------------------------------
(* The inductive invariant.                                                *)

\* What a client reads, and what the kernel reads.
Word == {"count", "SUCCESS", "rule"}
Message == [type: Word, val: Rule \cup Int]
Command == [from: Client, type: {"CMD"}, o: Sent]
Closing == [from: Client, type: {"CLOSE"}]

\* The command m is one of client c; the queue q holds one; and it holds at most one
\* of each client.
IsOf(m, c) == m.type = "CMD" /\ m.from = c
Asked(q, c) == \E i \in 1..Len(q) : IsOf(q[i], c)
AsksOnce(q) ==
    \A c \in Client : \A i, j \in 1..Len(q) : IsOf(q[i], c) /\ IsOf(q[j], c) => i = j

\* What the queue q still asks for client c is the command cmd.
Asks(q, c, cmd) == \A i \in 1..Len(q) : IsOf(q[i], c) => q[i].o.cmd = cmd

\* The messages ms are the rules s from the one behind the first k; the messages in
\* front of the first rule (k < 0) are not rules.
Continue(ms, k, s) ==
    \A i \in 1..Len(ms) : i + k >= 1 => i + k <= Len(s) /\ ms[i].val = s[i + k]

\* got is the beginning of s.
Begins(got, s) == Len(got) <= Len(s) /\ \A i \in 1..Len(got) : got[i] = s[i]

\* The messages ms answer cmd: those of a LIST announce the rules s.
Answers(ms, cmd, s) ==
    /\ ms # <<>> => (cmd = "LIST" <=> ms[1].type = "count")
    /\ cmd = "LIST" => Continue(ms, -1, s)

\* Where client c stands: the queue q, its buffer b, its tool t, and the rules s of its
\* last LIST.  A command that is still in the queue has no answer yet, and once a tool
\* has ended there is none.
Conversation(c, q, b, t, s) ==
    /\ t.pc \in {"idle", "waiting", "listing", "killed"}
    /\ Asked(q, c) => t.pc \in {"waiting", "killed"} /\ t.got = <<>>
    /\ t.pc = "waiting" =>
         /\ t.got = <<>>
         /\ Asked(q, c) => b = EmptyInbox
         /\ Asks(q, c, t.cmd)
         /\ Answers(b.msgs, t.cmd, s)
    /\ t.pc = "listing" => ~b.err /\ Continue(b.msgs, Len(t.got), s)
    /\ Begins(t.got, s)

IsInbox(b) == DOMAIN b = {"msgs", "err", "congested"} /\ b.msgs \in Seq(Message)
IsTool(t) == DOMAIN t = {"pc", "cmd", "left", "got", "n"} /\ t.got \in Seq(Rule \cup Int)

Shapes ==
    /\ queue \in Seq(Command \cup Closing)
    /\ DOMAIN inbox = Client /\ DOMAIN tool = Client
    /\ \A c \in Client : IsInbox(inbox[c]) /\ IsTool(tool[c])
    /\ snapshot \in [Client -> Seq(Rule)]

Talk == \A c \in Client : Conversation(c, queue, inbox[c], tool[c], snapshot[c])

NetInv == Shapes /\ AsksOnce(queue) /\ Talk

-----------------------------------------------------------------------------
(* The tables under the conversation.                                      *)

\* What the kernel reads is a command or the end of a run.
LEMMA HeadOfQueue ==
    ASSUME Shapes, queue # <<>>
    PROVE  /\ Head(queue).from \in Client
           /\ Head(queue).type \in {"CMD", "CLOSE"}
           /\ Head(queue).type = "CMD" => Head(queue).o \in Sent
<1>1. Head(queue) \in Command \cup Closing  BY HeadTailProperties DEF Shapes
<1> QED  BY <1>1 DEF Command, Closing

\* A message the kernel reads does to the tables what a command does, or less.
LEMMA NetTableStep ==
    ASSUME Shapes, [NetNext]_allvars
    PROVE  TableStep
<1>1. CASE UNCHANGED <<heap, list, number, phase>>
    BY <1>1 DEF TableStep, vars
<1>2. ASSUME NEW o \in Sent, NLDoAction(o) PROVE TableStep
    BY <1>2, StepCases DEF Next
<1>3. ASSUME phase = "running", Dies("null_deref") PROVE TableStep
    BY <1>3 DEF TableStep, Doing, Stopping, Dies, Phases
<1>4. ASSUME phase = "running", NEW r \in Free, NEW o \in Sent, NEW d \in Addr,
             LeakRule(r, RuleOf(o, d))
      PROVE  TableStep
    <2>1. RuleOf(o, d) \in Rules  BY DEF Rules
    <2> QED  BY <1>4, <2>1 DEF TableStep, Doing
<1>5. CASE NLInput
    BY <1>2, <1>3, <1>4, <1>5, HeadOfQueue DEF NLInput
<1>6. CASE UNCHANGED allvars
    BY <1>1, <1>6 DEF allvars
<1>7. CASE \E c \in Client : RecvAnswer(c) \/ RecvRule(c) \/ SigInt(c) \/ \E o \in Sent : NLSend(c, o)
    BY <1>1, <1>7 DEF RecvAnswer, RecvRule, Receives, SigInt, NLSend, Up
<1> QED  BY <1>5, <1>6, <1>7 DEF NetNext

-----------------------------------------------------------------------------
(* What the kernel answers.                                                *)

\* A LIST walks rules.
LEMMA ListedRules ==
    ASSUME IInv, NEW o \in Sent, o.cmd = "LIST"
    PROVE  Listed(o) \in Seq(Rule) /\ Announced(o) \in Int
<1> DEFINE of(c) == [i \in 1..Len(list[c]) |-> heap[list[c][i]]]
<1>1. ASSUME NEW c \in Chain PROVE of(c) \in Seq(Rule) /\ number[c] \in Int
    <2>1. of(c) = RulesOn[c]  BY DEF RulesOn
    <2> QED  BY <2>1, RulesOnChain DEF IInv, TypeOK
<1>2. PICK x \in Opts : o = Normalised(x)
    BY DEF Sent
<1>3. o.chain \in Chain \cup {ChainAll}
    BY <1>2, OptsAssumption DEF Normalised, Options, Chain, ChainAll
<1>4. 0 \in Chain /\ 1 \in Chain /\ 2 \in Chain  BY DEF Chain
<1>5. of(0) \o of(1) \o of(2) \in Seq(Rule)
    <2> HIDE DEF of
    <2> QED  BY <1>1, <1>4, ConcatProperties
<1>6. Listed(o) = IF o.chain = ChainAll THEN of(0) \o of(1) \o of(2) ELSE of(o.chain)
    BY DEF Listed
<1>7. Listed(o) \in Seq(Rule)
    <2> HIDE DEF of
    <2> QED  BY <1>1, <1>3, <1>5, <1>6
<1>8. Announced(o) \in Int
    BY <1>1, <1>3, <1>4 DEF Announced
<1> QED  BY <1>7, <1>8

\* The answer to a command is one word, or the count and the rules that are listed.
LEMMA AnswerTo ==
    ASSUME IInv, NEW o \in Sent
    PROVE  /\ Answer(o) \in Seq(Message)
           /\ Answers(Answer(o), o.cmd, IF o.cmd = "LIST" THEN Listed(o) ELSE <<>>)
<1>1. CASE phase' # "running"
    <2>1. Answer(o) = <<>>  BY <1>1 DEF Answer
    <2> QED  BY <2>1 DEF Answers, Continue
<1>2. CASE phase' = "running" /\ o.cmd # "LIST"
    <2>1. Answer(o) = <<[type |-> "SUCCESS", val |-> 0]>>  BY <1>2 DEF Answer
    <2>2. [type |-> "SUCCESS", val |-> 0] \in Message  BY DEF Message, Word
    <2> QED  BY <1>2, <2>1, <2>2 DEF Answers
<1>3. CASE phase' = "running" /\ o.cmd = "LIST"
    <2> DEFINE l == Listed(o)
               e(i) == [type |-> "rule", val |-> l[i]]
               m == [type |-> "count", val |-> Announced(o)]
               rs == [i \in 1..Len(l) |-> e(i)]
    <2>1. Answer(o) = <<m>> \o rs  BY <1>3 DEF Answer
    <2>2. l \in Seq(Rule) /\ Announced(o) \in Int  BY <1>3, ListedRules
    <2> HIDE DEF l
    <2>3. Len(l) \in Nat  BY <2>2, LenProperties
    <2>4. ASSUME NEW i \in 1..Len(l) PROVE e(i) \in Message
        <3>1. l[i] \in Rule  BY <2>2, ElementOfSeq
        <3> QED  BY <3>1 DEF Message, Word
    <2>5. rs \in Seq(Message)
        <3> HIDE DEF e
        <3> QED  BY <2>3, <2>4, IsASeq
    <2>6. Len(rs) = Len(l)  BY <2>3, <2>5, LenProperties
    <2>7. \A i \in 1..Len(l) : rs[i].val = l[i]  OBVIOUS
    <2> HIDE DEF rs
    <2>8. m \in Message /\ m.type = "count"  BY <2>2 DEF Message, Word
    <2> HIDE DEF m
    <2>9. /\ <<m>> \o rs \in Seq(Message)
          /\ Len(<<m>> \o rs) = Len(l) + 1
          /\ \A j \in 1..Len(l) + 1 : (<<m>> \o rs)[j] = IF j = 1 THEN m ELSE rs[j - 1]
        BY <2>5, <2>6, <2>8, ConsProperties
    <2> DEFINE a == <<m>> \o rs
    <2> HIDE DEF a
    <2>10. a \in Seq(Message) /\ Len(a) = Len(l) + 1 /\ a[1].type = "count"
        BY <2>3, <2>8, <2>9 DEF a
    <2>11. Continue(a, -1, l)
        <3> SUFFICES ASSUME NEW i \in 1..Len(a), i + (-1) >= 1
                     PROVE  i + (-1) <= Len(l) /\ a[i].val = l[i + (-1)]
            BY DEF Continue
        <3>1. i - 1 \in 1..Len(l) /\ i \in 1..Len(l) + 1 /\ i # 1  BY <2>3, <2>10
        <3>2. a[i] = rs[i - 1]  BY <2>9, <3>1 DEF a
        <3> QED  BY <2>7, <3>1, <3>2
    <2> QED  BY <1>3, <2>1, <2>10, <2>11 DEF Answers, a, l
<1> QED  BY <1>1, <1>2, <1>3

\* What gets into an empty buffer is the beginning of the answer.
LEMMA Delivered ==
    ASSUME NEW ms \in Seq(Message), NEW n \in Nat
    PROVE  LET d == Deliver(EmptyInbox, ms, n) IN
           /\ IsInbox(d)
           /\ Len(d.msgs) <= Len(ms)
           /\ \A i \in 1..Len(d.msgs) : d.msgs[i] = ms[i]
<1> DEFINE d == Deliver(EmptyInbox, ms, n)
<1>1. Len(ms) \in Nat /\ \A i \in 1..Len(ms) : ms[i] \in Message
    BY LenProperties, ElementOfSeq
<1>2. <<>> \in Seq(Message) /\ Len(<<>>) = 0  OBVIOUS
<1>3. CASE Len(ms) <= n
    <2>1. d = [EmptyInbox EXCEPT !.msgs = @ \o ms]
        BY <1>1, <1>2, <1>3 DEF Deliver, EmptyInbox
    <2>2. <<>> \o ms = ms  BY ConcatEmptySeq
    <2>3. d = [msgs |-> ms, err |-> FALSE, congested |-> FALSE]
        BY <2>1, <2>2 DEF EmptyInbox
    <2> QED  BY <1>1, <2>3 DEF IsInbox
<1>4. CASE ~(Len(ms) <= n)
    <2> DEFINE s == SubSeq(ms, 1, n)
    <2>1. n - 0 = n /\ n < Len(ms) /\ n \in Int /\ 1 \in Int  BY <1>1, <1>4
    <2>0. /\ EmptyInbox.msgs = <<>> /\ EmptyInbox.congested = FALSE
          /\ (IF n > Len(EmptyInbox.msgs) THEN n - Len(EmptyInbox.msgs) ELSE 0) = n
        BY <1>2, <2>1 DEF EmptyInbox
    <2>9. Len(ms) > n  BY <2>1
    <2>2. d = [msgs |-> <<>> \o s, err |-> TRUE, congested |-> TRUE]
        BY <1>4, <2>0, <2>9, Zenon DEF Deliver
    <2>3. \A i \in 1..n : ms[i] \in Message  BY <1>1, <2>1
    <2>4. /\ s \in Seq(Message)
          /\ Len(s) = IF 1 <= n THEN n - 1 + 1 ELSE 0
          /\ \A i \in 1..n - 1 + 1 : s[i] = ms[1 + i - 1]
        BY <2>1, <2>3, SubSeqProperties
    <2> HIDE DEF s
    <2>5. <<>> \o s = s  BY <2>4, ConcatEmptySeq
    <2>6. Len(s) = n /\ \A i \in 1..n : s[i] = ms[i]  BY <2>1, <2>4
    <2>7. d = [msgs |-> s, err |-> TRUE, congested |-> TRUE]  BY <2>2, <2>5
    <2> HIDE DEF d
    <2>8. IsInbox(d) /\ d.msgs = s  BY <2>4, <2>7 DEF IsInbox
    <2> QED  BY <1>1, <2>1, <2>6, <2>8 DEF d
<1> QED  BY <1>3, <1>4

\* The beginning of an answer is an answer.
LEMMA AnswersBegin ==
    ASSUME NEW ms \in Seq(Message), NEW d \in Seq(Message), NEW cmd, NEW s,
           Answers(ms, cmd, s),
           Len(d) <= Len(ms), \A i \in 1..Len(d) : d[i] = ms[i]
    PROVE  Answers(d, cmd, s)
<1>1. Len(d) \in Nat /\ Len(ms) \in Nat /\ (d # <<>> => Len(d) \in Nat \ {0})
    BY LenProperties, EmptySeq
<1>2. d # <<>> => ms # <<>> /\ d[1] = ms[1]
    BY <1>1
<1>3. Continue(ms, -1, s) => Continue(d, -1, s)
    BY <1>1 DEF Continue
<1> QED  BY <1>2, <1>3 DEF Answers

-----------------------------------------------------------------------------
(* The queue.                                                              *)

\* A message that is read is asked for no more.
LEMMA QueueTail ==
    ASSUME NEW S, NEW q \in Seq(S), q # <<>>, AsksOnce(q)
    PROVE  /\ AsksOnce(Tail(q))
           /\ \A c \in Client : Asked(Tail(q), c) => Asked(q, c) /\ ~IsOf(Head(q), c)
           /\ \A c \in Client : IsOf(Head(q), c) => Asked(q, c)
           /\ \A c, cmd : Asks(q, c, cmd) => Asks(Tail(q), c, cmd)
<1>1. /\ Len(Tail(q)) = Len(q) - 1 /\ Len(q) \in Nat \ {0}
      /\ \A i \in 1..Len(Tail(q)) : Tail(q)[i] = q[i + 1]
      /\ Head(q) = q[1]
    BY HeadTailProperties, EmptySeq
<1> DEFINE t == Tail(q)
<1> HIDE DEF t
<1>2. /\ 1 \in 1..Len(q)
      /\ \A i \in 1..Len(t) : i + 1 \in 1..Len(q) /\ i + 1 # 1 /\ t[i] = q[i + 1]
    BY <1>1 DEF t
<1>3. AsksOnce(t)
    <2> SUFFICES ASSUME NEW c \in Client, NEW i \in 1..Len(t), NEW j \in 1..Len(t),
                        IsOf(t[i], c), IsOf(t[j], c)
                 PROVE  i = j
        BY DEF AsksOnce
    <2>1. i + 1 = j + 1  BY <1>2 DEF AsksOnce
    <2> QED  BY <2>1
<1>4. ASSUME NEW c \in Client, Asked(t, c) PROVE Asked(q, c) /\ ~IsOf(q[1], c)
    BY <1>2, <1>4 DEF Asked, AsksOnce
<1>5. ASSUME NEW c \in Client, IsOf(q[1], c) PROVE Asked(q, c)
    BY <1>2, <1>5 DEF Asked
<1>6. ASSUME NEW c, NEW cmd, Asks(q, c, cmd) PROVE Asks(t, c, cmd)
    BY <1>2, <1>6 DEF Asks
<1> QED  BY <1>1, <1>3, <1>4, <1>5, <1>6 DEF t

\* A message that is sent is asked for from then on.
LEMMA QueueAppend ==
    ASSUME NEW S, NEW q \in Seq(S), NEW m \in S, AsksOnce(q),
           \A c \in Client : IsOf(m, c) => ~Asked(q, c)
    PROVE  /\ AsksOnce(Append(q, m))
           /\ \A c : Asked(Append(q, m), c) => Asked(q, c) \/ IsOf(m, c)
           /\ \A c, cmd : Asks(q, c, cmd) /\ (IsOf(m, c) => m.o.cmd = cmd) => Asks(Append(q, m), c, cmd)
<1> DEFINE a == Append(q, m)
<1>1. /\ Len(a) = Len(q) + 1 /\ Len(q) \in Nat
      /\ \A i \in 1..Len(q) : a[i] = q[i]
      /\ a[Len(q) + 1] = m
    BY AppendProperties, LenProperties
<1> HIDE DEF a
<1>2. \A i \in 1..Len(a) : (i \in 1..Len(q) /\ a[i] = q[i]) \/ (i = Len(q) + 1 /\ a[i] = m)
    BY <1>1
<1>3. AsksOnce(a)
    <2> SUFFICES ASSUME NEW c \in Client, NEW i \in 1..Len(a), NEW j \in 1..Len(a),
                        IsOf(a[i], c), IsOf(a[j], c)
                 PROVE  i = j
        BY DEF AsksOnce
    <2> QED  BY <1>2 DEF AsksOnce, Asked
<1>4. ASSUME NEW c, Asked(a, c) PROVE Asked(q, c) \/ IsOf(m, c)
    BY <1>2, <1>4 DEF Asked
<1>5. ASSUME NEW c, NEW cmd, Asks(q, c, cmd), IsOf(m, c) => m.o.cmd = cmd PROVE Asks(a, c, cmd)
    BY <1>2, <1>5 DEF Asks
<1> QED  BY <1>3, <1>4, <1>5 DEF a

\* A conversation goes on as it was when less is asked for.
LEMMA ConversationAsksLess ==
    ASSUME NEW c, NEW q, NEW r, NEW b, NEW t, NEW s,
           Conversation(c, q, b, t, s),
           Asked(r, c) => Asked(q, c),
           \A cmd : Asks(q, c, cmd) => Asks(r, c, cmd)
    PROVE  Conversation(c, r, b, t, s)
    BY DEF Conversation

-----------------------------------------------------------------------------
(* The steps.                                                              *)

\* Nobody has said anything.
LEMMA NetInitInv == NetInit => NetInv
<1> SUFFICES ASSUME NetInit PROVE NetInv  OBVIOUS
<1>1. queue = <<>> /\ Len(queue) = 0  BY DEF NetInit
<1>2. Shapes
    <2>1. \A c \in Client : inbox[c] = EmptyInbox /\ tool[c] = NoTool
        BY DEF NetInit
    <2>2. IsInbox(EmptyInbox) /\ IsTool(NoTool)
        BY DEF IsInbox, IsTool, EmptyInbox, NoTool
    <2>3. snapshot \in [Client -> Seq(Rule)]
        <3>1. <<>> \in Seq(Rule)  OBVIOUS
        <3> QED  BY <3>1 DEF NetInit
    <2>4. DOMAIN inbox = Client /\ DOMAIN tool = Client  BY DEF NetInit
    <2> QED  BY <1>1, <2>1, <2>2, <2>3, <2>4 DEF Shapes
<1>3. AsksOnce(queue)
    BY <1>1 DEF AsksOnce
<1>4. ASSUME NEW c \in Client
      PROVE  Conversation(c, queue, inbox[c], tool[c], snapshot[c])
    <2>1. tool[c] = NoTool /\ tool[c].pc = "idle" /\ tool[c].got = <<>>
        BY DEF NetInit, NoTool
    <2>2. snapshot[c] = <<>> /\ Len(<<>>) = 0  BY DEF NetInit
    <2>3. ~Asked(queue, c)  BY <1>1 DEF Asked
    <2>4. Begins(tool[c].got, snapshot[c])  BY <2>1, <2>2 DEF Begins
    <2> QED  BY <2>1, <2>3, <2>4 DEF Conversation
<1> QED  BY <1>2, <1>3, <1>4 DEF NetInv, Talk

\* The kernel reads a message, and answers the one who sent it.
LEMMA NLInputInv ==
    ASSUME IInv, NetInv, NLInput
    PROVE  NetInv'
<1> DEFINE m == Head(queue)
           c0 == m.from
<1> USE DEF NetInv
<1>1. queue # <<>> /\ queue' = Tail(queue) /\ tool' = tool
    BY DEF NLInput
<1>2. m.from \in Client /\ (m.type = "CMD" => m.o \in Sent)
    BY <1>1, HeadOfQueue
<1>3. /\ AsksOnce(queue')
      /\ \A c \in Client : Asked(queue', c) => Asked(queue, c) /\ ~IsOf(m, c)
      /\ \A c \in Client : IsOf(m, c) => Asked(queue, c)
      /\ \A c, cmd : Asks(queue, c, cmd) => Asks(queue', c, cmd)
    BY <1>1, QueueTail DEF Shapes
<1>4. queue' \in Seq(Command \cup Closing)
    BY <1>1, HeadTailProperties DEF Shapes
<1>5. ASSUME NEW c \in Client, inbox'[c] = inbox[c], snapshot'[c] = snapshot[c]
      PROVE  Conversation(c, queue', inbox'[c], tool'[c], snapshot'[c])
    <2>1. Conversation(c, queue, inbox[c], tool[c], snapshot[c])  BY DEF Talk
    <2> QED  BY <1>1, <1>3, <1>5, <2>1, ConversationAsksLess
<1>6. CASE UNCHANGED <<inbox, snapshot>>
    BY <1>1, <1>3, <1>4, <1>5, <1>6 DEF Shapes, Talk
<1>7. ASSUME m.type = "CMD",
             NEW n \in Rooms,
             inbox' = [inbox EXCEPT ![c0] = IF tool[c0].pc = "killed" THEN @
                                            ELSE Deliver(@, Answer(m.o), n)],
             snapshot' = [snapshot EXCEPT ![c0] = IF m.o.cmd = "LIST" THEN Listed(m.o) ELSE @]
      PROVE  NetInv'
    <2> DEFINE o == m.o
               b == inbox[c0]
               t == tool[c0]
    <2> HIDE DEF m
    <2>1. c0 \in Client /\ o \in Sent /\ IsOf(m, c0) /\ n \in Nat
        BY <1>2, <1>7, RoomsAssumption DEF IsOf, m
    <2>2. /\ Asked(queue, c0) /\ ~Asked(queue', c0)
          /\ Asks(queue, c0, t.cmd) => o.cmd = t.cmd
        <3>1. Asked(queue, c0) /\ ~Asked(queue', c0)  BY <1>3, <2>1 DEF m
        <3>2. m = queue[1] /\ 1 \in 1..Len(queue)
            BY <1>1, HeadTailProperties, EmptySeq DEF Shapes, m
        <3> QED  BY <2>1, <3>1, <3>2 DEF Asks
    <2>3. Conversation(c0, queue, b, t, snapshot[c0]) /\ IsInbox(b) /\ IsTool(t)
        BY <2>1 DEF Talk, Shapes
    <2>4. /\ t.pc \in {"waiting", "killed"} /\ t.got = <<>>
          /\ t.pc = "waiting" => b = EmptyInbox /\ o.cmd = t.cmd
        BY <2>2, <2>3 DEF Conversation
    <2>5. /\ DOMAIN inbox' = Client /\ snapshot' \in [Client -> Seq(Rule)]
          /\ inbox'[c0] = IF t.pc = "killed" THEN b ELSE Deliver(b, Answer(o), n)
          /\ snapshot'[c0] = IF o.cmd = "LIST" THEN Listed(o) ELSE snapshot[c0]
          /\ \A c \in Client : c # c0 => inbox'[c] = inbox[c] /\ snapshot'[c] = snapshot[c]
        <3>1. o.cmd = "LIST" => Listed(o) \in Seq(Rule)  BY <2>1, ListedRules
        <3> HIDE DEF o, c0
        <3> QED  BY <1>7, <2>1, <3>1 DEF Shapes, o
    <2>6. Answer(o) \in Seq(Message) /\ Answers(Answer(o), o.cmd, IF o.cmd = "LIST" THEN Listed(o) ELSE <<>>)
        BY <2>1, AnswerTo
    <2>7. t.pc = "waiting" => /\ IsInbox(inbox'[c0])
                              /\ Answers(inbox'[c0].msgs, o.cmd, IF o.cmd = "LIST" THEN Listed(o) ELSE <<>>)
        <3> SUFFICES ASSUME t.pc = "waiting"
                     PROVE  /\ IsInbox(inbox'[c0])
                            /\ Answers(inbox'[c0].msgs, o.cmd, IF o.cmd = "LIST" THEN Listed(o) ELSE <<>>)
            OBVIOUS
        <3> DEFINE d == Deliver(EmptyInbox, Answer(o), n)
        <3>1. inbox'[c0] = d  BY <2>4, <2>5
        <3>2. /\ IsInbox(d)
              /\ Len(d.msgs) <= Len(Answer(o))
              /\ \A i \in 1..Len(d.msgs) : d.msgs[i] = Answer(o)[i]
            BY <2>1, <2>6, Delivered
        <3> HIDE DEF d, o
        <3>3. d.msgs \in Seq(Message)  BY <3>2 DEF IsInbox
        <3> QED  BY <2>6, <3>1, <3>2, <3>3, AnswersBegin
    <2>8. Answers(inbox'[c0].msgs, o.cmd, IF o.cmd = "LIST" THEN Listed(o) ELSE <<>>)
            => Answers(inbox'[c0].msgs, o.cmd, snapshot'[c0])
        BY <2>5 DEF Answers
    <2>9. Conversation(c0, queue', inbox'[c0], t, snapshot'[c0])
        <3>1. Begins(t.got, snapshot'[c0])
            <4>1. snapshot'[c0] \in Seq(Rule)  BY <2>1, <2>5
            <4> QED  BY <2>4, <4>1, LenProperties DEF Begins
        <3>2. Asks(queue', c0, t.cmd)  BY <2>2 DEF Asks, Asked
        <3> QED  BY <2>2, <2>4, <2>7, <2>8, <3>1, <3>2 DEF Conversation
    <2>10. IsInbox(inbox'[c0])  BY <2>3, <2>4, <2>5, <2>7
    <2>11. Shapes'
        <3> HIDE DEF o, c0
        <3> QED  BY <1>1, <1>4, <2>5, <2>10 DEF Shapes
    <2>12. Talk'
        <3> HIDE DEF o, c0
        <3> QED  BY <1>1, <1>5, <2>5, <2>9 DEF Talk
    <2> QED  BY <1>3, <2>11, <2>12
<1>8. CASE m.type = "CMD"
    BY <1>6, <1>7, <1>8 DEF NLInput
<1>9. CASE m.type # "CMD"
    BY <1>6, <1>9 DEF NLInput
<1> QED  BY <1>8, <1>9
\* A step of client c leaves the others' conversations alone, if it asks for nothing in
\* their names.
LEMMA ClientMoves ==
    ASSUME NetInv, NEW c \in Client,
           queue' \in Seq(Command \cup Closing), AsksOnce(queue'),
           \A d \in Client : d # c => (Asked(queue', d) => Asked(queue, d)),
           \A d \in Client : d # c => \A cmd : Asks(queue, d, cmd) => Asks(queue', d, cmd),
           DOMAIN inbox' = Client, DOMAIN tool' = Client, snapshot' = snapshot,
           \A d \in Client : d # c => inbox'[d] = inbox[d] /\ tool'[d] = tool[d],
           IsInbox(inbox'[c]), IsTool(tool'[c]),
           Conversation(c, queue', inbox'[c], tool'[c], snapshot[c])
    PROVE  NetInv'
<1> USE DEF NetInv
<1>1. Shapes'  BY DEF Shapes
<1>2. ASSUME NEW d \in Client, d # c
      PROVE  Conversation(d, queue', inbox[d], tool[d], snapshot[d])
    <2>1. Conversation(d, queue, inbox[d], tool[d], snapshot[d])  BY DEF Talk
    <2> QED  BY <1>2, <2>1, ConversationAsksLess
<1>3. Talk'
    <2> SUFFICES ASSUME NEW d \in Client
                 PROVE  Conversation(d, queue', inbox'[d], tool'[d], snapshot'[d])
        BY DEF Talk
    <2> QED  BY <1>2
<1> QED  BY <1>1, <1>3

\* A tool that is run has asked for one thing, and been told nothing.
LEMMA NLSendInv ==
    ASSUME NetInv, NEW c \in Client, NEW o \in Sent, NLSend(c, o)
    PROVE  NetInv'
<1> USE DEF NetInv
<1> DEFINE m == [from |-> c, type |-> "CMD", o |-> o]
           t == [NoTool EXCEPT !.pc = "waiting", !.cmd = o.cmd, !.n = tool[c].n + 1]
<1>1. /\ tool[c].pc = "idle" /\ tool' = [tool EXCEPT ![c] = t]
      /\ inbox' = [inbox EXCEPT ![c] = EmptyInbox]
      /\ queue' = Append(queue, m) /\ snapshot' = snapshot
    BY DEF NLSend
<1>2. m \in Command \cup Closing /\ IsOf(m, c) /\ m.o.cmd = o.cmd
      /\ \A d : IsOf(m, d) => d = c
    BY DEF Command, IsOf
<1>3. /\ DOMAIN t = {"pc", "cmd", "left", "got", "n"}
      /\ t.pc = "waiting" /\ t.cmd = o.cmd /\ t.got = <<>>
    BY DEF NoTool
<1> HIDE DEF m, t
<1>4. ~Asked(queue, c)
    BY <1>1 DEF Talk, Conversation
<1>5. /\ AsksOnce(queue')
      /\ \A d : Asked(queue', d) => Asked(queue, d) \/ IsOf(m, d)
      /\ \A d, cmd : Asks(queue, d, cmd) /\ (IsOf(m, d) => m.o.cmd = cmd) => Asks(queue', d, cmd)
    BY <1>1, <1>2, <1>4, QueueAppend DEF Shapes
<1>6. queue' \in Seq(Command \cup Closing)
    BY <1>1, <1>2, AppendProperties DEF Shapes
<1>7. /\ DOMAIN inbox' = Client /\ DOMAIN tool' = Client
      /\ inbox'[c] = EmptyInbox /\ tool'[c] = t
      /\ \A d \in Client : d # c => inbox'[d] = inbox[d] /\ tool'[d] = tool[d]
    BY <1>1 DEF Shapes
<1>8. IsInbox(inbox'[c]) /\ IsTool(tool'[c])
    <2>1. IsInbox(EmptyInbox)  BY DEF IsInbox, EmptyInbox
    <2>2. IsTool(t)  BY <1>3 DEF IsTool
    <2> QED  BY <1>7, <2>1, <2>2
<1>9. Conversation(c, queue', inbox'[c], tool'[c], snapshot[c])
    <2>1. EmptyInbox.msgs = <<>> /\ Len(<<>>) = 0  BY DEF EmptyInbox
    <2>2. Answers(EmptyInbox.msgs, o.cmd, snapshot[c])  BY <2>1 DEF Answers, Continue
    <2>3. Asks(queue, c, o.cmd)  BY <1>4 DEF Asks, Asked
    <2>4. Asks(queue', c, o.cmd)  BY <1>2, <1>5, <2>3
    <2>5. Begins(t.got, snapshot[c])
        <3>1. Len(snapshot[c]) \in Nat  BY LenProperties DEF Shapes
        <3> QED  BY <1>3, <2>1, <3>1 DEF Begins
    <2> QED  BY <1>3, <1>7, <2>2, <2>4, <2>5 DEF Conversation
<1> QED  BY <1>1, <1>2, <1>5, <1>6, <1>7, <1>8, <1>9, ClientMoves

\* A tool that is interrupted leaves a message that asks for nothing.
LEMMA SigIntInv ==
    ASSUME NetInv, NEW c \in Client, SigInt(c)
    PROVE  NetInv'
<1> USE DEF NetInv
<1> DEFINE m == [from |-> c, type |-> "CLOSE"]
<1>1. /\ tool[c].pc \in {"waiting", "listing"} /\ tool' = [tool EXCEPT ![c].pc = "killed"]
      /\ queue' = Append(queue, m) /\ snapshot' = snapshot /\ inbox' = inbox
    BY DEF SigInt
<1>2. m \in Command \cup Closing /\ \A d : ~IsOf(m, d)
    BY DEF Closing, IsOf
<1> HIDE DEF m
<1>3. /\ AsksOnce(queue')
      /\ \A d : Asked(queue', d) => Asked(queue, d)
      /\ \A d, cmd : Asks(queue, d, cmd) => Asks(queue', d, cmd)
    BY <1>1, <1>2, QueueAppend DEF Shapes
<1>4. queue' \in Seq(Command \cup Closing)
    BY <1>1, <1>2, AppendProperties DEF Shapes
<1>5. /\ DOMAIN tool' = Client
      /\ tool'[c] = [tool[c] EXCEPT !.pc = "killed"]
      /\ \A d \in Client : d # c => tool'[d] = tool[d]
    BY <1>1 DEF Shapes
<1>6. IsTool(tool[c]) /\ IsInbox(inbox[c])  BY DEF Shapes
<1>7. IsTool(tool'[c]) /\ tool'[c].pc = "killed" /\ tool'[c].got = tool[c].got
    BY <1>5, <1>6 DEF IsTool
<1>8. Conversation(c, queue', inbox'[c], tool'[c], snapshot[c])
    <2>1. Conversation(c, queue, inbox[c], tool[c], snapshot[c])  BY DEF Talk
    <2> QED  BY <1>3, <1>7, <2>1 DEF Conversation
<1> QED  BY <1>1, <1>3, <1>4, <1>5, <1>6, <1>7, <1>8, ClientMoves DEF Shapes

\* What recvfrom does to a buffer with something in it, and that such a buffer is not
\* that of a command the kernel has still to read.
LEMMA AfterReceive ==
    ASSUME NetInv, NEW c \in Client, Receives(c), tool[c].pc \in {"waiting", "listing"}
    PROVE  /\ ~Asked(queue, c)
           /\ DOMAIN inbox' = Client
           /\ \A d \in Client : d # c => inbox'[d] = inbox[d]
           /\ IsInbox(inbox'[c])
           /\ ~inbox[c].err => /\ ~inbox'[c].err
                               /\ inbox[c].msgs # <<>>
                               /\ inbox'[c].msgs = Tail(inbox[c].msgs)
<1> USE DEF NetInv
<1> DEFINE b == inbox[c]
<1>1. b.err \/ b.msgs # <<>>  BY DEF Receives
<1>2. ~Asked(queue, c)
    <2>1. b # EmptyInbox  BY <1>1 DEF EmptyInbox
    <2> QED  BY <2>1 DEF Talk, Conversation
<1>3. /\ DOMAIN inbox' = Client /\ inbox'[c] = AfterRecv(b)
      /\ \A d \in Client : d # c => inbox'[d] = inbox[d]
    BY DEF Receives, Shapes
<1>4. IsInbox(b)  BY DEF Shapes
<1>5. CASE b.err
    <2>1. AfterRecv(b) = [b EXCEPT !.err = FALSE]  BY <1>5 DEF AfterRecv
    <2>2. IsInbox(AfterRecv(b))  BY <1>4, <2>1 DEF IsInbox
    <2> QED  BY <1>2, <1>3, <1>5, <2>2
<1>6. CASE ~b.err
    <2> DEFINE g == b.congested /\ Len(b.msgs) > 1
    <2>1. AfterRecv(b) = [b EXCEPT !.msgs = Tail(@), !.congested = g]  BY <1>6 DEF AfterRecv
    <2> HIDE DEF g
    <2>2. b.msgs # <<>> /\ Tail(b.msgs) \in Seq(Message)
        BY <1>1, <1>4, <1>6, HeadTailProperties DEF IsInbox
    <2>3. /\ DOMAIN AfterRecv(b) = DOMAIN b
          /\ AfterRecv(b).msgs = Tail(b.msgs) /\ AfterRecv(b).err = b.err
        BY <1>4, <2>1 DEF IsInbox
    <2> QED  BY <1>2, <1>3, <1>4, <1>6, <2>2, <2>3 DEF IsInbox
<1> QED  BY <1>5, <1>6

\* The answer: the tool ends, or knows how many rules come next.
LEMMA RecvAnswerInv ==
    ASSUME NetInv, NEW c \in Client, RecvAnswer(c)
    PROVE  NetInv'
<1> USE DEF NetInv
<1> DEFINE b == inbox[c]
           t == tool[c]
<1>1. t.pc = "waiting" /\ Receives(c) /\ queue' = queue /\ snapshot' = snapshot
    BY DEF RecvAnswer, Receives
<1>2. /\ ~Asked(queue, c)
      /\ DOMAIN inbox' = Client
      /\ \A d \in Client : d # c => inbox'[d] = inbox[d]
      /\ IsInbox(inbox'[c])
      /\ ~b.err => ~inbox'[c].err /\ b.msgs # <<>> /\ inbox'[c].msgs = Tail(b.msgs)
    BY <1>1, AfterReceive
<1>3. Conversation(c, queue, b, t, snapshot[c]) /\ IsTool(t) /\ IsInbox(b)
    BY DEF Talk, Shapes
<1>4. t.got = <<>> /\ Answers(b.msgs, t.cmd, snapshot[c]) /\ Begins(t.got, snapshot[c])
    BY <1>1, <1>3 DEF Conversation
<1>5. ASSUME NEW u, IsTool(u), u.got = <<>>,
             tool' = [tool EXCEPT ![c] = u],
             u.pc = "idle" \/ (u.pc = "listing" /\ ~inbox'[c].err /\ Continue(inbox'[c].msgs, 0, snapshot[c]))
      PROVE  NetInv'
    <2>1. /\ DOMAIN tool' = Client /\ tool'[c] = u
          /\ \A d \in Client : d # c => tool'[d] = tool[d]
        BY <1>5 DEF Shapes
    <2>2. Len(u.got) = 0  BY <1>5
    <2>3. Conversation(c, queue, inbox'[c], u, snapshot[c])
        BY <1>2, <1>4, <1>5, <2>2 DEF Conversation
    <2> QED  BY <1>1, <1>2, <1>5, <2>1, <2>3, ClientMoves DEF Shapes
<1>6. CASE tool' = Exits(c)
    <2> DEFINE u == [t EXCEPT !.pc = "idle"]
    <2>1. tool' = [tool EXCEPT ![c] = u]  BY <1>6 DEF Exits
    <2>2. IsTool(u) /\ u.got = <<>> /\ u.pc = "idle"  BY <1>3, <1>4 DEF IsTool
    <2> HIDE DEF u
    <2> QED  BY <1>5, <2>1, <2>2
<1>7. ASSUME NEW count, ~b.err, t.cmd = "LIST",
             tool' = [tool EXCEPT ![c].pc = "listing", ![c].left = count]
      PROVE  NetInv'
    <2> DEFINE u == [t EXCEPT !.pc = "listing", !.left = count]
    <2>1. tool' = [tool EXCEPT ![c] = u]
        BY <1>7 DEF Shapes
    <2>2. IsTool(u) /\ u.got = <<>> /\ u.pc = "listing"  BY <1>3, <1>4 DEF IsTool
    <2>3. Continue(b.msgs, -1, snapshot[c])  BY <1>4, <1>7 DEF Answers
    <2>4. Continue(Tail(b.msgs), 0, snapshot[c])
        <3>1. /\ Len(Tail(b.msgs)) = Len(b.msgs) - 1 /\ Len(b.msgs) \in Nat
              /\ \A i \in 1..Len(Tail(b.msgs)) : Tail(b.msgs)[i] = b.msgs[i + 1]
            BY <1>2, <1>3, <1>7, HeadTailProperties, LenProperties DEF IsInbox
        <3> SUFFICES ASSUME NEW i \in 1..Len(Tail(b.msgs))
                     PROVE  i <= Len(snapshot[c]) /\ Tail(b.msgs)[i].val = snapshot[c][i]
            BY DEF Continue
        <3>2. i + 1 \in 1..Len(b.msgs) /\ (i + 1) + (-1) = i /\ (i + 1) + (-1) >= 1
            BY <3>1
        <3> QED  BY <2>3, <3>1, <3>2 DEF Continue
    <2> HIDE DEF u
    <2> QED  BY <1>2, <1>5, <1>7, <2>1, <2>2, <2>4
<1> QED  BY <1>6, <1>7 DEF RecvAnswer

\* A rule: the tool prints it, and waits for the next one.
LEMMA RecvRuleInv ==
    ASSUME NetInv, NEW c \in Client, RecvRule(c)
    PROVE  NetInv'
<1> USE DEF NetInv
<1> DEFINE b == inbox[c]
           t == tool[c]
           g == Append(t.got, Head(b.msgs).val)
           k == Len(t.got)
<1>1. t.pc = "listing" /\ Receives(c) /\ queue' = queue /\ snapshot' = snapshot
    BY DEF RecvRule, Receives
<1>2. /\ ~Asked(queue, c)
      /\ DOMAIN inbox' = Client
      /\ \A d \in Client : d # c => inbox'[d] = inbox[d]
      /\ IsInbox(inbox'[c])
      /\ ~b.err => ~inbox'[c].err /\ b.msgs # <<>> /\ inbox'[c].msgs = Tail(b.msgs)
    BY <1>1, AfterReceive
<1>3. Conversation(c, queue, b, t, snapshot[c]) /\ IsTool(t) /\ IsInbox(b)
    BY DEF Talk, Shapes
<1>4. ~b.err /\ Continue(b.msgs, k, snapshot[c]) /\ Begins(t.got, snapshot[c])
    BY <1>1, <1>3 DEF Conversation
<1>5. PICK l, p : /\ p \in {"idle", "listing"}
                  /\ tool' = [tool EXCEPT ![c].left = l, ![c].got = g, ![c].pc = p]
    <2>1. tool' = [tool EXCEPT ![c].left = t.left - 1, ![c].got = g,
                               ![c].pc = IF t.left = 1 THEN "idle" ELSE t.pc]
        BY <1>4 DEF RecvRule, Shapes
    <2> QED  BY <1>1, <2>1
<1>6. /\ DOMAIN tool' = Client
      /\ tool'[c] = [t EXCEPT !.left = l, !.got = g, !.pc = p]
      /\ \A d \in Client : d # c => tool'[d] = tool[d]
    BY <1>5 DEF Shapes
<1>7. /\ Head(b.msgs) = b.msgs[1] /\ Head(b.msgs).val \in Rule \cup Int
      /\ Len(Tail(b.msgs)) = Len(b.msgs) - 1 /\ Len(b.msgs) \in Nat \ {0}
      /\ \A i \in 1..Len(Tail(b.msgs)) : Tail(b.msgs)[i] = b.msgs[i + 1]
    <2>1. b.msgs \in Seq(Message) /\ b.msgs # <<>>  BY <1>2, <1>3, <1>4 DEF IsInbox
    <2>2. Head(b.msgs) \in Message  BY <2>1, HeadTailProperties
    <2> QED  BY <2>1, <2>2, HeadTailProperties, EmptySeq DEF Message
<1>8. /\ g \in Seq(Rule \cup Int) /\ Len(g) = k + 1 /\ k \in Nat
      /\ \A i \in 1..k : g[i] = t.got[i]
      /\ g[k + 1] = Head(b.msgs).val
    BY <1>3, <1>7, AppendProperties, LenProperties DEF IsTool
<1> HIDE DEF g, k
<1>9. /\ DOMAIN tool'[c] = {"pc", "cmd", "left", "got", "n"}
      /\ tool'[c].got = g /\ tool'[c].pc = p
    BY <1>3, <1>6 DEF IsTool
<1>10. Begins(g, snapshot[c])
    <2>1. k + 1 <= Len(snapshot[c]) /\ b.msgs[1].val = snapshot[c][k + 1]
        <3>1. 1 \in 1..Len(b.msgs) /\ 1 + k = k + 1 /\ 1 + k >= 1  BY <1>7, <1>8
        <3> QED  BY <1>4, <3>1 DEF Continue
    <2>2. \A i \in 1..k + 1 : i \in 1..k \/ i = k + 1  BY <1>8
    <2>3. \A i \in 1..k : t.got[i] = snapshot[c][i]  BY <1>4 DEF Begins, k
    <2> QED  BY <1>7, <1>8, <2>1, <2>2, <2>3 DEF Begins
<1>11. Continue(inbox'[c].msgs, k + 1, snapshot[c])
    <2> SUFFICES ASSUME NEW i \in 1..Len(Tail(b.msgs))
                 PROVE  i + (k + 1) <= Len(snapshot[c]) /\ Tail(b.msgs)[i].val = snapshot[c][i + (k + 1)]
        BY <1>2, <1>4 DEF Continue
    <2>1. i + 1 \in 1..Len(b.msgs) /\ (i + 1) + k = i + (k + 1) /\ (i + 1) + k >= 1
        BY <1>7, <1>8
    <2> QED  BY <1>4, <1>7, <2>1 DEF Continue
<1>12. Conversation(c, queue, inbox'[c], tool'[c], snapshot[c])
    BY <1>2, <1>4, <1>5, <1>8, <1>9, <1>10, <1>11 DEF Conversation
<1>13. IsTool(tool'[c])  BY <1>8, <1>9 DEF IsTool
<1> QED  BY <1>1, <1>2, <1>6, <1>12, <1>13, ClientMoves DEF Shapes
\* Every step keeps the tables sound and the conversations straight.
LEMMA NetNextInv ==
    ASSUME IInv, NetInv, [NetNext]_allvars
    PROVE  IInv' /\ NetInv'
<1>1. IInv'
    BY NetTableStep, NextIInv DEF NetInv
<1>2. CASE UNCHANGED allvars
    <2>1. queue' = queue /\ inbox' = inbox /\ tool' = tool /\ snapshot' = snapshot
        BY <1>2 DEF allvars
    <2>2. Shapes' /\ AsksOnce(queue')  BY <2>1 DEF NetInv, Shapes
    <2>3. Talk'  BY <2>1 DEF NetInv, Talk
    <2> QED  BY <1>1, <2>2, <2>3 DEF NetInv
<1>3. CASE NLInput
    BY <1>1, <1>3, NLInputInv
<1>4. ASSUME NEW c \in Client, RecvAnswer(c) \/ RecvRule(c) \/ SigInt(c)
      PROVE  NetInv'
    <2>1. CASE RecvAnswer(c)  BY <2>1, RecvAnswerInv
    <2>2. CASE RecvRule(c)  BY <2>2, RecvRuleInv
    <2>3. CASE SigInt(c)  BY <2>3, SigIntInv
    <2> QED  BY <1>4, <2>1, <2>2, <2>3
<1>5. ASSUME NEW c \in Client, NEW o \in Sent, NLSend(c, o)
      PROVE  NetInv'
    BY <1>5, NLSendInv
<1> QED  BY <1>1, <1>2, <1>3, <1>4, <1>5 DEF NetNext

\* Conversations kept straight are what AnswersSound says of them.
LEMMA TalkIsSound ==
    ASSUME NetInv
    PROVE  AnswersSound
<1> USE DEF NetInv
<1> SUFFICES ASSUME NEW c \in Client
             PROVE  /\ IsPrefix(tool[c].got, snapshot[c])
                    /\ tool[c].pc = "waiting" /\ inbox[c].msgs # <<>> =>
                            (tool[c].cmd = "LIST" <=> Head(inbox[c].msgs).type = "count")
    BY DEF AnswersSound, ListIsAPrefix, AnswersMatch
<1>1. Conversation(c, queue, inbox[c], tool[c], snapshot[c]) /\ IsTool(tool[c]) /\ IsInbox(inbox[c])
    BY DEF Talk, Shapes
<1>2. IsPrefix(tool[c].got, snapshot[c])
    <2> DEFINE g == tool[c].got
               s == snapshot[c]
               n == Len(g)
    <2>1. g \in Seq(Rule \cup Int) /\ s \in Seq(Rule \cup Int)
        BY <1>1, SeqMonotonic DEF IsTool, Shapes
    <2>2. n \in Nat /\ n <= Len(s) /\ \A i \in 1..n : g[i] = s[i]
        BY <1>1, <2>1, LenProperties DEF Conversation, Begins
    <2> HIDE DEF g, s, n
    <2>3. \A i \in 1..n : g[i] \in Rule \cup Int /\ s[i] \in Rule \cup Int
        BY <2>1, <2>2, ElementOfSeq DEF n
    <2>4. /\ SubSeq(g, 1, n) \in Seq(Rule \cup Int) /\ Len(SubSeq(g, 1, n)) = n
          /\ \A i \in 1..n : SubSeq(g, 1, n)[i] = g[i]
        BY <2>2, <2>3, SubSeqProperties
    <2>5. /\ SubSeq(s, 1, n) \in Seq(Rule \cup Int) /\ Len(SubSeq(s, 1, n)) = n
          /\ \A i \in 1..n : SubSeq(s, 1, n)[i] = s[i]
        BY <2>2, <2>3, SubSeqProperties
    <2>6. SubSeq(g, 1, n) = SubSeq(s, 1, n)
        <3> DEFINE x == SubSeq(g, 1, n)
                   y == SubSeq(s, 1, n)
        <3>1. \A i \in 1..n : x[i] = y[i]  BY <2>2, <2>4, <2>5
        <3> HIDE DEF x, y
        <3>2. x \in Seq(Rule \cup Int) /\ y \in Seq(Rule \cup Int) /\ Len(x) = n /\ Len(y) = n
            BY <2>4, <2>5 DEF x, y
        <3>3. x = y  BY <3>1, <3>2, SeqEqual
        <3> QED  BY <3>3 DEF x, y
    <2> QED  BY <2>2, <2>6 DEF IsPrefix, g, s, n
<1>3. ASSUME tool[c].pc = "waiting", inbox[c].msgs # <<>>
      PROVE  tool[c].cmd = "LIST" <=> Head(inbox[c].msgs).type = "count"
    <2>1. inbox[c].msgs # <<>> => (tool[c].cmd = "LIST" <=> inbox[c].msgs[1].type = "count")
        BY <1>1, <1>3 DEF Conversation, Answers
    <2>2. Head(inbox[c].msgs) = inbox[c].msgs[1]
        BY <1>1, <1>3, HeadTailProperties DEF IsInbox
    <2> QED  BY <1>3, <2>1, <2>2
<1> QED  BY <1>2, <1>3

(***************************************************************************)
(* The theorems.                                                           *)
(***************************************************************************)

\* The invariant the others are parts of.
THEOREM NetInvariance == NetSpec => [](IInv /\ NetInv)
<1>1. NetInit => IInv /\ NetInv
    BY InitIInv, NetInitInv DEF NetInit
<1>2. (IInv /\ NetInv) /\ [NetNext]_allvars => (IInv /\ NetInv)'
    BY NetNextInv
<1> QED
    BY <1>1, <1>2, PTL DEF NetSpec

\* A tool hears of its own command and of nothing older, and what it prints after LIST
\* is what was on the chains when the kernel answered, without a gap: whatever the
\* buffers dropped, and whoever was interrupted.
THEOREM AnswersStaySound == NetSpec => []AnswersSound
<1>1. NetInv => AnswersSound
    BY TalkIsSound
<1> QED
    BY <1>1, NetInvariance, PTL

\* The tables stay sound under any number of clients, though the kernel also reads
\* commands from behind the header of a CLOSE.
THEOREM TablesSoundUnderClients == NetSpec => []TablesSound
<1>1. IInv => TablesSound
    BY DEF IInv, TablesSound
<1> QED
    BY <1>1, NetInvariance, PTL

\* So is the policy: whatever the clients send, and however they end, the rules on the
\* chains are edited as the policy is.
THEOREM ClientsEditThePolicy == NetSpec => ImplementsPolicy
<1>1. NetInit => Policy!Init
    BY InitEdits DEF NetInit
<1>2. IInv /\ NetInv /\ IInv' /\ [NetNext]_allvars => [Policy!Next]_(Policy!pvars)
    BY NetTableStep, NextEdits DEF NetInv
<1> QED
    BY <1>1, <1>2, NetInvariance, PTL DEF NetSpec, ImplementsPolicy, Policy!Spec
=============================================================================
