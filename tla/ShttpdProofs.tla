---------------------------- MODULE ShttpdProofs ----------------------------
(***************************************************************************)
(* The accounting of SHTTPD's children, and what client, log and script    *)
(* agree on, for every number of clients and processes, every request,     *)
(* every max_child and every system call that fails.                       *)
(***************************************************************************)
EXTENDS Shttpd, FiniteSetTheorems, SequenceTheorems, TLAPS

-----------------------------------------------------------------------------
(* The inductive invariant.  The server goes to accept only with room for  *)
(* one more child, so a fork keeps the count within max_child; wait is the *)
(* only place where the count may be max_child; every child buried lowers  *)
(* the count, and only a buried child, or a wait with nobody to wait for,  *)
(* does.                                                                   *)

SrvShape ==
    /\ DOMAIN srv = {"pc", "cs", "runningChildren"}
    /\ srv.pc \in {"accept", "fork", "wait", "reap", "down"}
    /\ srv.runningChildren \in Nat

KidShape == DOMAIN kid = Proc /\ \A p \in Proc : DOMAIN kid[p] = DOMAIN NoKid

RoomToFork ==
    /\ srv.pc \in {"accept", "fork", "reap"} => srv.runningChildren < max_child
    /\ srv.pc \in {"wait", "down"} => srv.runningChildren <= max_child

NoneWaitsIdle == srv.pc = "wait" => srv.runningChildren >= 1

EachCounted == Cardinality(Children) <= srv.runningChildren

CountInv ==
    /\ SrvShape
    /\ KidShape
    /\ RoomToFork
    /\ NoneWaitsIdle
    /\ EachCounted

-----------------------------------------------------------------------------

\* The children are finitely many.
LEMMA ChildrenFinite == IsFiniteSet(Children) /\ Cardinality(Children) \in Nat
<1>1. Children \in SUBSET Proc  BY DEF Children
<1> QED  BY <1>1, ProcAssumption, FS_Subset, FS_CardinalityType

\* There are finitely many children after any step: they are processes.
LEMMA ChildrenFiniteNext == IsFiniteSet(Children') /\ Cardinality(Children') \in Nat
<1>1. Children' \in SUBSET Proc  BY DEF Children
<1> QED  BY <1>1, ProcAssumption, FS_Subset, FS_CardinalityType

\* Forking adds one child, and burying one takes one away.
LEMMA Born ==
    ASSUME KidShape, NEW p \in Proc \ Children, NEW k, kid' = [kid EXCEPT ![p] = k],
           DOMAIN k = DOMAIN NoKid, k.pc # "none"
    PROVE  KidShape' /\ Cardinality(Children') = Cardinality(Children) + 1
<1>1. KidShape'  BY DEF KidShape
<1>2. Children' = Children \cup {p}  BY DEF KidShape, Children
<1> QED  BY <1>1, <1>2, ChildrenFinite, FS_AddElement

\* wait and waitpid take one child away.
LEMMA Buried ==
    ASSUME KidShape, NEW p \in Zombies, Bury(p)
    PROVE  KidShape' /\ Cardinality(Children') = Cardinality(Children) - 1
<1>1. p \in Proc /\ p \in Children  BY DEF Zombies, Children
<1>2. kid' = [kid EXCEPT ![p] = NoKid]  BY DEF Bury
<1>3. KidShape'  BY <1>1, <1>2 DEF KidShape
<1>4. NoKid.pc = "none"  BY DEF NoKid
<1>5. Children' = Children \ {p}  BY <1>1, <1>2, <1>4 DEF KidShape, Children
<1> QED  BY <1>1, <1>3, <1>5, ChildrenFinite, FS_RemoveElement

\* What a child does with its own record keeps it a child.
LEMMA Stays ==
    ASSUME KidShape, NEW p \in Proc, kid[p].pc # "none", NEW f, Becomes(p, f),
           "pc" \in DOMAIN f => f["pc"] # "none"
    PROVE  KidShape' /\ Children' = Children
<1> DEFINE k == [x \in DOMAIN kid[p] |-> IF x \in DOMAIN f THEN f[x] ELSE kid[p][x]]
<1>1. kid' = [kid EXCEPT ![p] = k]  BY DEF Becomes
<1>2. DOMAIN k = DOMAIN NoKid  BY DEF KidShape
<1>3. "pc" \in DOMAIN NoKid  BY DEF NoKid
<1>4. k["pc"] # "none"  BY <1>3, Zenon DEF KidShape
<1> HIDE DEF k
<1>5. KidShape'  BY <1>1, <1>2 DEF KidShape
<1>6. Children' = Children  BY <1>1, <1>4 DEF KidShape, Children
<1> QED  BY <1>5, <1>6

\* A step of a child: the server keeps its count.
LEMMA ChildStep ==
    ASSUME CountInv, UNCHANGED srv, KidShape', Children' = Children
    PROVE  CountInv'
BY DEF CountInv, SrvShape, RoomToFork, NoneWaitsIdle, EachCounted

-----------------------------------------------------------------------------
(* Every step a child takes by itself rewrites its own record, if any, and *)
(* leaves it a child.                                                      *)

Rewrites(p) ==
    \/ UNCHANGED kid
    \/ \E f : Becomes(p, f) /\ ("pc" \in DOMAIN f => f["pc"] # "none")

\* A child that only goes on rewrites its own record and stays a child.
LEMMA GotoRewrites ==
    ASSUME NEW p \in Proc, NEW pc, pc # "none", Goto(p, pc)
    PROVE  Rewrites(p)
<1> DEFINE f == [pc |-> pc]
<1>1. Becomes(p, f)  BY DEF Goto
<1>2. f["pc"] # "none"  OBVIOUS
<1> HIDE DEF f
<1> QED  BY <1>1, <1>2 DEF Rewrites

\* So does one that closes its socket.
LEMMA CloseCsRewrites ==
    ASSUME NEW p \in Proc, NEW read, NEW pc, pc # "none", CloseCs(p, read, pc)
    PROVE  Rewrites(p)
<1> DEFINE f == [open |-> FALSE, ready |-> FALSE, pc |-> IF read > 0 THEN pc ELSE "close"]
<1>1. Becomes(p, f)  BY DEF CloseCs
<1>2. f["pc"] # "none"  OBVIOUS
<1> HIDE DEF f
<1> QED  BY <1>1, <1>2 DEF Rewrites

\* So does one that counts a timeout.
LEMMA StuckRewrites ==
    ASSUME NEW p \in Proc, NEW read, NEW pc, pc # "none", Stuck(p, read, pc)
    PROVE  Rewrites(p)
<1>1. CASE CloseCs(p, read, pc)  BY <1>1, CloseCsRewrites
<1>2. CASE Becomes(p, [stuck |-> kid[p].stuck + 1])
    <2> DEFINE f == [stuck |-> kid[p].stuck + 1]
    <2>1. Becomes(p, f)  BY <1>2
    <2>2. "pc" \notin DOMAIN f  OBVIOUS
    <2> HIDE DEF f
    <2> QED  BY <2>1, <2>2 DEF Rewrites
<1> QED  BY <1>1, <1>2 DEF Stuck

\* So does one that sends a page, and the server is not touched.
LEMMA SayRewrites ==
    ASSUME NEW p \in Proc, NEW s, NEW ll, NEW pc, pc # "none", Say(p, s, ll, pc)
    PROVE  Rewrites(p) /\ UNCHANGED srv
<1>1. UNCHANGED srv  BY DEF Say
<1>2. Goto(p, pc) \/ Becomes(p, [pc |-> pc, open |-> FALSE, ready |-> FALSE])
    BY DEF Say
<1>3. CASE Goto(p, pc)  BY <1>1, <1>3, GotoRewrites
<1>4. CASE Becomes(p, [pc |-> pc, open |-> FALSE, ready |-> FALSE])
    <2> DEFINE f == [pc |-> pc, open |-> FALSE, ready |-> FALSE]
    <2>1. Becomes(p, f)  BY <1>4
    <2>2. f["pc"] # "none"  OBVIOUS
    <2> HIDE DEF f
    <2> QED  BY <1>1, <2>1, <2>2 DEF Rewrites
<1> QED  BY <1>2, <1>3, <1>4

\* Whatever a child does rewrites its own record alone.
LEMMA KidRewrites ==
    ASSUME NEW p \in Proc, Kid(p)
    PROVE  kid[p].pc # "none" /\ Rewrites(p) /\ UNCHANGED srv
<1>1. CASE ReadHeader(p)
    <2>1. kid[p].pc # "none" /\ UNCHANGED srv  BY <1>1 DEF ReadHeader, At, Local
    <2> DEFINE n == kid[p].total + 1
               f == [total |-> n, pc |-> IF n >= BUFFER_SIZE THEN "toolong"
                                         ELSE IF n = net[Cs(p)].req.header THEN "handle"
                                         ELSE "header"]
    <2>2. Becomes(p, f)  BY <1>1 DEF ReadHeader
    <2>3. f["pc"] # "none"  OBVIOUS
    <2> HIDE DEF f
    <2> QED  BY <2>1, <2>2, <2>3 DEF Rewrites
<1>2. CASE HeaderEnds(p)
    <2>1. kid[p].pc # "none" /\ UNCHANGED srv  BY <1>2 DEF HeaderEnds, At, Local
    <2>2. Stuck(p, kid[p].total, "handle") \/ CloseCs(p, kid[p].total, "handle")
        BY <1>2 DEF HeaderEnds
    <2> QED  BY <2>1, <2>2, StuckRewrites, CloseCsRewrites
<1>3. CASE TooLong(p)
    BY <1>3, SayRewrites DEF TooLong, At
<1>4. CASE HandleMethod(p)
    <2>1. kid[p].pc # "none"  BY <1>4 DEF HandleMethod, At
    <2>2. PICK r \in ParseRequest(p) :
            \/ /\ Takes(r) /\ Local(p)
               /\ \/ r.method # "POST" /\ Becomes(p, [pc |-> "cgi", req |-> r])
                  \/ /\ r.method = "POST" /\ r.clen \in 0..POST_BUFFER_SIZE - 1
                     /\ Becomes(p, [pc |-> "body", req |-> r, stuck |-> 0])
            \/ Say(p, StatusOf(r), Logged(StatusOf(r)), "close")
        BY <1>4 DEF HandleMethod
    <2>3. CASE Say(p, StatusOf(r), Logged(StatusOf(r)), "close")
        BY <2>1, <2>3, SayRewrites
    <2>4. CASE Local(p) /\ Becomes(p, [pc |-> "cgi", req |-> r])
        <3> DEFINE f == [pc |-> "cgi", req |-> r]
        <3>1. UNCHANGED srv /\ Becomes(p, f)  BY <2>4 DEF Local
        <3>2. f["pc"] # "none"  OBVIOUS
        <3> HIDE DEF f
        <3> QED  BY <2>1, <3>1, <3>2 DEF Rewrites
    <2>5. CASE Local(p) /\ Becomes(p, [pc |-> "body", req |-> r, stuck |-> 0])
        <3> DEFINE f == [pc |-> "body", req |-> r, stuck |-> 0]
        <3>1. UNCHANGED srv /\ Becomes(p, f)  BY <2>5 DEF Local
        <3>2. f["pc"] # "none"  OBVIOUS
        <3> HIDE DEF f
        <3> QED  BY <2>1, <3>1, <3>2 DEF Rewrites
    <2> QED  BY <2>2, <2>3, <2>4, <2>5
<1>5. CASE ReadBody(p)
    <2>1. kid[p].pc # "none" /\ UNCHANGED srv  BY <1>5 DEF ReadBody, At, Local
    <2> DEFINE f == [post |-> kid[p].post + 1, stuck |-> 0,
                     pc |-> IF kid[p].post + 1 = kid[p].req.clen THEN "cgi" ELSE "body"]
    <2>2. Becomes(p, f)  BY <1>5 DEF ReadBody
    <2>3. f["pc"] # "none"  OBVIOUS
    <2> HIDE DEF f
    <2> QED  BY <2>1, <2>2, <2>3 DEF Rewrites
<1>6. CASE BodyEnds(p)
    <2>1. kid[p].pc # "none" /\ UNCHANGED srv  BY <1>6 DEF BodyEnds, At, Local
    <2>2. Stuck(p, kid[p].post, "cgi") \/ CloseCs(p, kid[p].post, "cgi")
        BY <1>6 DEF BodyEnds
    <2> QED  BY <2>1, <2>2, StuckRewrites, CloseCsRewrites
<1>7. CASE Close(p)
    BY <1>7, GotoRewrites DEF Close, At
<1>8. CASE StartCgi(p)
    <2>1. kid[p].pc # "none"  BY <1>8 DEF StartCgi, At
    <2>2. CASE \E s \in {403, 404} : Say(p, s, Logged(s), "close")
        <3>1. PICK s \in {403, 404} : Say(p, s, Logged(s), "close")  BY <2>2
        <3> QED  BY <2>1, <3>1, SayRewrites
    <2>3. CASE Goto(p, "close") /\ UNCHANGED srv
        BY <2>1, <2>3, GotoRewrites
    <2>4. CASE /\ Goto(p, IF kid[p].req.method = "POST" THEN "feed" ELSE "relay")
               /\ UNCHANGED srv
        BY <2>1, <2>4, GotoRewrites
    <2> QED  BY <1>8, <2>2, <2>3, <2>4 DEF StartCgi
<1>9. CASE Feed(p)
    <2>1. kid[p].pc # "none" /\ UNCHANGED srv  BY <1>9 DEF Feed, At
    <2>2. \/ Goto(p, "relay") \/ Goto(p, "zombie")
          \/ Becomes(p, [pc |-> "relay", open |-> FALSE, ready |-> FALSE])
        BY <1>9 DEF Feed
    <2>3. CASE Goto(p, "relay") \/ Goto(p, "zombie")  BY <2>1, <2>3, GotoRewrites
    <2>4. CASE Becomes(p, [pc |-> "relay", open |-> FALSE, ready |-> FALSE])
        <3> DEFINE f == [pc |-> "relay", open |-> FALSE, ready |-> FALSE]
        <3>1. Becomes(p, f)  BY <2>4
        <3>2. f["pc"] # "none"  OBVIOUS
        <3> HIDE DEF f
        <3> QED  BY <2>1, <3>1, <3>2 DEF Rewrites
    <2> QED  BY <2>2, <2>3, <2>4
<1>10. CASE Relay(p)
    <2>1. kid[p].pc # "none" /\ UNCHANGED srv  BY <1>10 DEF Relay, At
    <2>2. \/ UNCHANGED kid \/ Goto(p, "wait")
          \/ Becomes(p, [pc |-> "wait", open |-> FALSE, ready |-> FALSE])
        BY <1>10 DEF Relay
    <2>3. CASE UNCHANGED kid  BY <2>1, <2>3 DEF Rewrites
    <2>4. CASE Goto(p, "wait")  BY <2>1, <2>4, GotoRewrites
    <2>5. CASE Becomes(p, [pc |-> "wait", open |-> FALSE, ready |-> FALSE])
        <3> DEFINE f == [pc |-> "wait", open |-> FALSE, ready |-> FALSE]
        <3>1. Becomes(p, f)  BY <2>5
        <3>2. f["pc"] # "none"  OBVIOUS
        <3> HIDE DEF f
        <3> QED  BY <2>1, <3>1, <3>2 DEF Rewrites
    <2> QED  BY <2>2, <2>3, <2>4, <2>5
<1>11. CASE WaitCgi(p)
    BY <1>11, GotoRewrites DEF WaitCgi, At
<1> QED  BY <1>1, <1>2, <1>3, <1>4, <1>5, <1>6, <1>7, <1>8, <1>9, <1>10, <1>11 DEF Kid

-----------------------------------------------------------------------------

\* No child is there at first, and none is counted.
LEMMA CountInit == Init => CountInv
<1> SUFFICES ASSUME Init PROVE CountInv  OBVIOUS
<1>1. srv = [pc |-> "accept", cs |-> Null, runningChildren |-> 0]  BY DEF Init
<1>2. kid = [p \in Proc |-> NoKid]  BY DEF Init
<1>3. NoKid.pc = "none"  BY DEF NoKid
<1>4. Children = {}  BY <1>2, <1>3 DEF Children
<1>5. SrvShape /\ NoneWaitsIdle  BY <1>1 DEF SrvShape, NoneWaitsIdle
<1>6. RoomToFork  BY <1>1, MaxChildAssumption DEF RoomToFork
<1>7. EachCounted  BY <1>1, <1>4, FS_EmptySet DEF EachCounted
<1>8. KidShape  BY <1>2 DEF KidShape
<1> QED  BY <1>5, <1>6, <1>7, <1>8 DEF CountInv

\* Accepting, forking, closing, waiting and reaping keep the count in its bounds.
LEMMA ServerStep == ASSUME CountInv, Server PROVE CountInv'
<1> USE MaxChildAssumption DEF CountInv
<1> USE ChildrenFinite, ChildrenFiniteNext
<1>1. CASE Accept
    <2>1. /\ srv.pc = "accept" /\ srv'.pc = "fork" /\ DOMAIN srv' = DOMAIN srv
          /\ srv'.runningChildren = srv.runningChildren /\ kid' = kid
        BY <1>1 DEF Accept, SrvShape
    <2>2. Children' = Children /\ KidShape'  BY <2>1 DEF Children, KidShape
    <2>3. SrvShape' /\ RoomToFork' /\ NoneWaitsIdle'
        BY <2>1 DEF SrvShape, RoomToFork, NoneWaitsIdle
    <2> QED  BY <2>1, <2>2, <2>3 DEF EachCounted
<1>2. CASE Fork
    <2> DEFINE n == srv.runningChildren + 1
    <2>1. /\ srv.pc = "fork"
          /\ srv' = [pc |-> IF n >= max_child THEN "wait" ELSE "reap",
                     cs |-> Null, runningChildren |-> n]
        BY <1>2 DEF Fork
    <2>2. SrvShape' /\ RoomToFork' /\ NoneWaitsIdle'
        BY <2>1 DEF SrvShape, RoomToFork, NoneWaitsIdle
    <2>3. KidShape' /\ Cardinality(Children') <= Cardinality(Children) + 1
        <3>1. CASE UNCHANGED kid
            BY <3>1 DEF Children, KidShape
        <3>2. CASE \E p \in Proc \ Children :
                     kid' = [kid EXCEPT ![p] = IF srv.cs = Null THEN [NoKid EXCEPT !.pc = "zombie"]
                                               ELSE [NoKid EXCEPT !.pc = "header", !.cs = srv.cs,
                                                                  !.open = TRUE, !.ready = TRUE]]
            <4> DEFINE k == IF srv.cs = Null THEN [NoKid EXCEPT !.pc = "zombie"]
                            ELSE [NoKid EXCEPT !.pc = "header", !.cs = srv.cs,
                                               !.open = TRUE, !.ready = TRUE]
            <4>1. PICK p \in Proc \ Children : kid' = [kid EXCEPT ![p] = k]  BY <3>2
            <4>2. DOMAIN k = DOMAIN NoKid /\ k.pc # "none"  BY DEF NoKid
            <4> HIDE DEF k
            <4>3. KidShape'  BY <4>1, <4>2 DEF KidShape
            <4>4. Cardinality(Children') = Cardinality(Children) + 1  BY <4>1, <4>2, Born
            <4> QED  BY <4>3, <4>4
        <3> QED  BY <1>2, <3>1, <3>2 DEF Fork
    <2> QED  BY <2>1, <2>2, <2>3 DEF EachCounted, SrvShape
<1>3. CASE Wait
    <2>1. /\ srv.pc = "wait" /\ DOMAIN srv' = DOMAIN srv /\ srv'.pc = "reap"
          /\ srv'.runningChildren = srv.runningChildren - 1
        BY <1>3 DEF Wait, SrvShape
    <2>2. SrvShape' /\ RoomToFork' /\ NoneWaitsIdle'
        BY <2>1 DEF SrvShape, RoomToFork, NoneWaitsIdle
    <2>3. CASE \E p \in Zombies : Bury(p)
        <3>1. KidShape' /\ Cardinality(Children') = Cardinality(Children) - 1
            BY <2>3, Buried
        <3> QED  BY <2>1, <2>2, <3>1 DEF EachCounted, SrvShape
    <2>4. CASE Children = {} /\ UNCHANGED kid
        <3>1. KidShape' /\ Cardinality(Children') = 0
            BY <2>4, FS_EmptySet DEF Children, KidShape
        <3> QED  BY <2>1, <2>2, <3>1 DEF EachCounted, SrvShape, NoneWaitsIdle
    <2> QED  BY <1>3, <2>3, <2>4 DEF Wait
<1>4. CASE Waitpid
    <2>1. CASE \E p \in Zombies : Bury(p)
        <3>0. CASE srv' = [srv EXCEPT !.pc = "accept"] /\ UNCHANGED kid
            <4>1. /\ srv.pc = "reap" /\ DOMAIN srv' = DOMAIN srv /\ srv'.pc = "accept"
                  /\ srv'.runningChildren = srv.runningChildren
                BY <1>4, <3>0 DEF Waitpid, SrvShape
            <4>2. Children' = Children /\ KidShape'  BY <3>0 DEF Children, KidShape
            <4> QED  BY <4>1, <4>2
                     DEF SrvShape, RoomToFork, NoneWaitsIdle, EachCounted
        <3>1. CASE srv' = [srv EXCEPT !.pc = "accept", !.runningChildren = @ - 1]
            <4>1. /\ srv.pc = "reap" /\ DOMAIN srv' = DOMAIN srv /\ srv'.pc = "accept"
                  /\ srv'.runningChildren = srv.runningChildren - 1
                BY <1>4, <3>1 DEF Waitpid, SrvShape
            <4>2. KidShape' /\ Cardinality(Children') = Cardinality(Children) - 1
                BY <2>1, Buried
            <4>3. srv.runningChildren >= 1
                BY <4>2 DEF EachCounted, SrvShape
            <4> QED  BY <4>1, <4>2, <4>3
                     DEF SrvShape, RoomToFork, NoneWaitsIdle, EachCounted
        <3> QED  BY <1>4, <3>0, <3>1 DEF Waitpid
    <2>2. CASE srv' = [srv EXCEPT !.pc = "accept"] /\ UNCHANGED kid
        <3>1. /\ srv.pc = "reap" /\ DOMAIN srv' = DOMAIN srv /\ srv'.pc = "accept"
              /\ srv'.runningChildren = srv.runningChildren
            BY <1>4, <2>2 DEF Waitpid, SrvShape
        <3>2. Children' = Children /\ KidShape'  BY <2>2 DEF Children, KidShape
        <3> QED  BY <3>1, <3>2 DEF SrvShape, RoomToFork, NoneWaitsIdle, EachCounted
    <2> QED  BY <1>4, <2>1, <2>2 DEF Waitpid
<1> QED  BY <1>1, <1>2, <1>3, <1>4 DEF Server

\* So does every step of server, children, scripts and clients.
LEMMA CountNext == CountInv /\ [Next]_vars => CountInv'
<1> SUFFICES ASSUME CountInv, [Next]_vars PROVE CountInv'  OBVIOUS
<1>1. CASE Server  BY <1>1, ServerStep
<1>2. CASE sig_int
    <2>1. /\ DOMAIN srv' = DOMAIN srv /\ srv'.pc = "down"
          /\ srv'.runningChildren = srv.runningChildren /\ kid' = kid
        BY <1>2 DEF sig_int, CountInv, SrvShape
    <2>2. Children' = Children /\ KidShape'
        BY <2>1 DEF Children, KidShape, CountInv
    <2>3. SrvShape' /\ RoomToFork' /\ NoneWaitsIdle'
        BY <2>1, MaxChildAssumption DEF CountInv, SrvShape, RoomToFork, NoneWaitsIdle
    <2> QED  BY <2>1, <2>2, <2>3 DEF CountInv, EachCounted
<1>3. ASSUME NEW c \in Client, Connect(c) \/ Sends(c) \/ Leaves(c) PROVE CountInv'
    <2>1. UNCHANGED <<srv, kid>>  BY <1>3 DEF Connect, Sends, Leaves
    <2> QED  BY <2>1, ChildStep DEF Children, KidShape, CountInv
<1>4. ASSUME NEW p \in Proc, Kid(p) PROVE CountInv'
    <2>1. kid[p].pc # "none" /\ Rewrites(p) /\ UNCHANGED srv
        BY <1>4, KidRewrites
    <2>2. KidShape' /\ Children' = Children
        <3>1. CASE UNCHANGED kid  BY <3>1 DEF Children, KidShape, CountInv
        <3>2. CASE \E f : Becomes(p, f) /\ ("pc" \in DOMAIN f => f["pc"] # "none")
            <4>1. KidShape  BY DEF CountInv
            <4> QED  BY <2>1, <3>2, <4>1, Stays
        <3> QED  BY <2>1, <3>1, <3>2 DEF Rewrites
    <2> QED  BY <2>1, <2>2, ChildStep
<1>5. ASSUME NEW p \in Proc, Cgi(p) PROVE CountInv'
    <2>1. UNCHANGED <<srv, kid>>
        BY <1>5 DEF Cgi, ScriptHead, ScriptReads, ScriptWrites, ScriptExits
    <2> QED  BY <2>1, ChildStep DEF Children, KidShape, CountInv
<1>6. CASE UNCHANGED vars
    <2>1. UNCHANGED <<srv, kid>>  BY <1>6 DEF vars
    <2> QED  BY <2>1, ChildStep DEF Children, KidShape, CountInv
<1> QED  BY <1>1, <1>2, <1>3, <1>4, <1>5, <1>6 DEF Next

-----------------------------------------------------------------------------

\* There are never more children, running or dead, than runningChildren says,
\* nor more than max_child of them: the loop of main (main.c) neither loses a
\* child nor lowers the count for one it has not waited for, except where it
\* forked none.
THEOREM CountCorrect == Spec => []ChildrenCounted
<1>1. CountInv => ChildrenCounted
    BY MaxChildAssumption DEF CountInv, SrvShape, RoomToFork, EachCounted, ChildrenCounted
<1> QED  BY CountInit, CountNext, <1>1, PTL DEF Spec

-----------------------------------------------------------------------------
(* What a connection was told.  A client that has connected is in the      *)
(* backlog, in the hands of the server, or of one child; what that child   *)
(* has said, logged and relayed follows from how far it and its script     *)
(* have come.                                                              *)

Unit == {"out", "debug"}
WithScript == {"feed", "relay", "wait"}
Before == {"header", "toolong", "handle"}
Ended == {"close", "zombie"}
Active == Before \cup {"body", "cgi", "close"} \cup WithScript

\* The sequences and the records; no field of them is ever lost.
Shape ==
    /\ DOMAIN net = Client /\ log \in [Client -> Seq(Status)] /\ DOMAIN cgi = Proc
    /\ srv.cs \in Client \cup {Null} /\ backlog \in Seq(Client) /\ faults \in 0..Faults
    /\ \A c \in Client :
          /\ DOMAIN net[c] = {"req", "at", "sent", "gone", "got", "out"}
          /\ net[c].req \in Requests[c] /\ net[c].at \in {"home", "in", "out"}
          /\ net[c].got \in Seq(Status) /\ net[c].out \in Seq(Unit)
    /\ \A p \in Proc :
          /\ DOMAIN cgi[p] = DOMAIN NoCgi
          /\ cgi[p].pipe \in Seq(Unit) /\ cgi[p].left \in Nat

\* Nobody has said anything to c, nor about it.
Untold(c) == net[c].got = <<>> /\ net[c].out = <<>> /\ log[c] = <<>>
NoKidHas(c) == \A p \in Proc : kid[p].cs # c

\* A connection is in one place.
Placed ==
    /\ \A c \in Client :
          net[c].at = "home" =>
             Untold(c) /\ NoKidHas(c) /\ srv.cs # c /\ \A i \in 1..Len(backlog) : backlog[i] # c
    /\ \A i \in 1..Len(backlog) : Untold(backlog[i]) /\ NoKidHas(backlog[i]) /\ srv.cs # backlog[i]
    /\ \A i, j \in 1..Len(backlog) : backlog[i] = backlog[j] => i = j
    /\ srv.cs # Null => Untold(srv.cs) /\ NoKidHas(srv.cs)
    /\ \A p, q \in Proc : kid[p].cs = kid[q].cs /\ kid[p].cs # Null => p = q

\* The pages a connection may get beyond the first.
Extra(c) == IF net[c].req.header >= BUFFER_SIZE THEN 1 ELSE 0
Few == \A c \in Client : Len(net[c].got) <= Extra(c) + 1

\* A script runs as long as its child feeds it, relays it or waits for it.
Going(p) ==
    /\ kid[p].pc \in Active \cup {"none", "zombie"} /\ kid[p].ready = kid[p].open
    /\ kid[p].cs \in Client \cup {Null}
    /\ kid[p].pc = "none" => kid[p].cs = Null
    /\ kid[p].pc \in Active => kid[p].cs \in Client
    /\ cgi[p].pc \in IF kid[p].pc \in WithScript THEN {"head", "reads", "writes", "exited"} ELSE {"none"}
    /\ cgi[p].pc \in {"none", "head"} => cgi[p].pipe = <<>>

Whole(p) == kid[p].open /\ ~Gone(p)

Reading(p) ==
    LET k == kid[p]
        n == net[k.cs] IN
    /\ k.pc \in Before => k.req = Null
    /\ k.pc \in {"body", "cgi"} \cup WithScript => k.req.script.out \in Nat
    /\ k.pc = "header" => k.total \in Nat /\ k.total < n.req.header
    /\ k.pc = "toolong" => Extra(k.cs) = 1

Answering(p) ==
    LET k == kid[p]
        n == net[k.cs] IN
    /\ k.pc \notin Ended => log[k.cs] = <<>>
    /\ k.pc \in {"header", "toolong"} => n.got = <<>>
    /\ k.pc \in {"handle", "body", "cgi"} => Len(n.got) <= Extra(k.cs)
    /\ k.pc \in WithScript =>
          /\ cgi[p].pc = "head" => Len(n.got) <= Extra(k.cs)
          /\ k.open => cgi[p].sock
          /\ cgi[p].pc # "head" /\ cgi[p].sock /\ ~n.gone => \E j \in 1..Len(n.got) : n.got[j] = 200
    /\ k.pc \in Ended /\ Whole(p) =>
          \A i \in 1..Len(log[k.cs]) : \E j \in 1..Len(n.got) : log[k.cs][i] = n.got[j]

Relaying(p) ==
    LET k == kid[p]
        n == net[k.cs] IN
    /\ k.pc \notin Ended \cup WithScript => n.out = <<>>
    /\ k.pc \in WithScript /\ Whole(p) /\ cgi[p].ok =>
          Outs(n.out) + Outs(cgi[p].pipe) + cgi[p].left = k.req.script.out
    /\ k.pc = "wait" /\ Whole(p) => cgi[p].pc = "exited" /\ cgi[p].pipe = <<>>
    /\ cgi[p].pc = "exited" => cgi[p].left = 0
    /\ k.pc \in Ended /\ Whole(p) /\ k.req # Null /\ log[k.cs] = <<200>> =>
          Outs(n.out) = k.req.script.out

Serves(p) == kid[p].cs # Null => Reading(p) /\ Answering(p) /\ Relaying(p)

AnswersInv ==
    /\ Shape /\ Placed /\ Few
    /\ \A p \in Proc : Going(p) /\ Serves(p)

-----------------------------------------------------------------------------
(* Sequences of units, and of statuses.                                    *)

\* What a script has written is finite.
LEMMA OutsType ==
    ASSUME NEW s, Len(s) \in Nat
    PROVE  Outs(s) \in Nat /\ IsFiniteSet({i \in 1..Len(s) : s[i] = "out"})
<1>1. 1 \in Int /\ Len(s) \in Int  OBVIOUS
<1>2. IsFiniteSet(1..Len(s))  BY <1>1, FS_Interval
<1>3. IsFiniteSet({i \in 1..Len(s) : s[i] = "out"})  BY <1>2, FS_Subset
<1> QED  BY <1>3, FS_CardinalityType DEF Outs

\* Nothing written is no unit.
LEMMA OutsNone == Outs(<<>>) = 0
<1>1. {i \in 1..Len(<<>>) : <<>>[i] = "out"} = {}  BY EmptySeq
<1> QED  BY <1>1, FS_EmptySet DEF Outs

\* A unit more.
LEMMA OutsAppend ==
    ASSUME NEW s \in Seq(Unit), NEW x \in Unit
    PROVE  Outs(Append(s, x)) = Outs(s) + IF x = "out" THEN 1 ELSE 0
<1> DEFINE t == Append(s, x)
           n == Len(s)
           A == {i \in 1..n : s[i] = "out"}
           B == {i \in 1..Len(t) : t[i] = "out"}
<1>1. /\ n \in Nat /\ Len(t) = n + 1 /\ \A i \in 1..n : t[i] = s[i]
      /\ t[n + 1] = x
  BY AppendProperties, LenProperties
<1>2. IsFiniteSet(A) /\ Cardinality(A) \in Nat  BY <1>1, OutsType DEF Outs
<1> HIDE DEF t
<1>3. n + 1 \notin A /\ B = IF x = "out" THEN A \cup {n + 1} ELSE A
  <2> HIDE DEF n
  <2>1. \A i : i \in 1..n + 1 <=> i \in 1..n \/ i = n + 1  BY <1>1
  <2>2. n + 1 \notin 1..n  BY <1>1
  <2> QED  BY <1>1, <2>1, <2>2
<1>4. Cardinality(B) = Cardinality(A) + IF x = "out" THEN 1 ELSE 0
  <2> HIDE DEF A, B, n
  <2>1. CASE x = "out"  BY <1>2, <1>3, <2>1, FS_AddElement
  <2>2. CASE x # "out"  BY <1>2, <1>3, <2>2
  <2> QED  BY <2>1, <2>2
<1> QED  BY <1>4 DEF Outs, t

\* The units that are left when the first has been read.
LEMMA OutsTail ==
    ASSUME NEW s \in Seq(Unit), s # <<>>
    PROVE  /\ Head(s) \in Unit /\ Tail(s) \in Seq(Unit)
           /\ Outs(s) = Outs(Tail(s)) + IF Head(s) = "out" THEN 1 ELSE 0
<1> DEFINE t == Tail(s)
           n == Len(s)
           A == {i \in 1..Len(t) : t[i] = "out"}
           C == {i \in 1..n : s[i] = "out" /\ i # 1}
           B == {i \in 1..n : s[i] = "out"}
<1>1. /\ n \in Nat /\ n # 0 /\ Len(t) = n - 1 /\ \A i \in 1..n - 1 : t[i] = s[i + 1]
      /\ Head(s) \in Unit /\ t \in Seq(Unit) /\ Head(s) = s[1]
  BY HeadTailProperties, LenProperties, EmptySeq
<1>2. IsFiniteSet(A) /\ Cardinality(A) \in Nat
  <2>1. Len(t) \in Nat  BY <1>1
  <2> HIDE DEF t
  <2> QED  BY <2>1, OutsType DEF Outs
<1>3. IsFiniteSet(C) /\ Cardinality(C) = Cardinality(A)
  <2> DEFINE f == [i \in A |-> i + 1]
  <2>1. \A i \in A : f[i] \in C  BY <1>1
  <2>2. \A i, j \in A : f[i] = f[j] => i = j  BY <1>1
  <2>3. \A j \in C : \E i \in A : f[i] = j
    <3> SUFFICES ASSUME NEW j \in C PROVE \E i \in A : f[i] = j  OBVIOUS
    <3>1. j - 1 \in 1..n - 1 /\ (j - 1) + 1 = j  BY <1>1
    <3>2. j - 1 \in A  BY <1>1, <3>1
    <3> QED  BY <3>1, <3>2
  <2>4. f \in [A -> C]  BY <2>1
  <2>5. ExistsBijection(A, C)
    <3> HIDE DEF f, A, C
    <3> QED  BY <2>2, <2>3, <2>4 DEF ExistsBijection, Bijection, Injection, Surjection, IsInjective
  <2> HIDE DEF A, C
  <2> QED  BY <1>2, <2>5, FS_Bijection
<1>4. B = IF s[1] = "out" THEN C \cup {1} ELSE C  BY <1>1
<1>5. 1 \notin C  OBVIOUS
<1>6. Cardinality(B) = Cardinality(A) + IF s[1] = "out" THEN 1 ELSE 0
  <2> HIDE DEF A, B, C, t, n
  <2>1. CASE s[1] = "out"  BY <1>2, <1>3, <1>4, <1>5, <2>1, FS_AddElement
  <2>2. CASE s[1] # "out"  BY <1>2, <1>3, <1>4, <2>2
  <2> QED  BY <2>1, <2>2
<1> QED  BY <1>1, <1>6 DEF Outs

\* What is sent on is what was read.
LEMMA OutsMoved ==
    ASSUME NEW a \in Seq(Unit), NEW s \in Seq(Unit), s # <<>>
    PROVE  Outs(Append(a, Head(s))) + Outs(Tail(s)) = Outs(a) + Outs(s)
<1>1. Outs(a) \in Nat /\ Outs(Tail(s)) \in Nat  BY OutsTail, OutsType, LenProperties
<1> QED  BY <1>1, OutsTail, OutsAppend

\* What a script has written and what it has still to write are one sum.
LEMMA SameSum ==
    ASSUME NEW a \in Nat, NEW b \in Nat, NEW c \in Nat, NEW d \in Nat, NEW e \in Nat, d + e = b + c
    PROVE  a + d + e = a + b + c
OBVIOUS

-----------------------------------------------------------------------------
(* What a step leaves alone.                                               *)

\* The record of a child after its step.
LEMMA KidAfter ==
    ASSUME KidShape, NEW p \in Proc, NEW f, Becomes(p, f)
    PROVE  /\ \A x \in DOMAIN NoKid : kid'[p][x] = IF x \in DOMAIN f THEN f[x] ELSE kid[p][x]
           /\ \A q \in Proc \ {p} : kid'[q] = kid[q]
BY DEF Becomes, KidShape

\* A child that only goes on.
LEMMA GoesOn ==
    ASSUME KidShape, NEW p \in Proc, NEW pc, Goto(p, pc)
    PROVE  /\ kid'[p].pc = pc /\ kid'[p].cs = kid[p].cs /\ kid'[p].open = kid[p].open
           /\ kid'[p].ready = kid[p].ready /\ kid'[p].total = kid[p].total /\ kid'[p].req = kid[p].req
           /\ \A q \in Proc \ {p} : kid'[q] = kid[q]
<1> DEFINE f == [pc |-> pc]
<1>1. DOMAIN f = {"pc"} /\ f["pc"] = pc  OBVIOUS
<1>2. Becomes(p, f)  BY DEF Goto
<1> HIDE DEF f
<1>3. /\ \A x \in DOMAIN NoKid : kid'[p][x] = IF x \in DOMAIN f THEN f[x] ELSE kid[p][x]
      /\ \A q \in Proc \ {p} : kid'[q] = kid[q]
  BY <1>2, KidAfter
<1> QED  BY <1>1, <1>3 DEF NoKid

\* A child that goes on without its socket.
LEMMA GoesOnShut ==
    ASSUME KidShape, NEW p \in Proc, NEW pc, Becomes(p, [pc |-> pc, open |-> FALSE, ready |-> FALSE])
    PROVE  /\ kid'[p].pc = pc /\ kid'[p].cs = kid[p].cs /\ kid'[p].open = FALSE
           /\ kid'[p].ready = FALSE /\ kid'[p].total = kid[p].total /\ kid'[p].req = kid[p].req
           /\ \A q \in Proc \ {p} : kid'[q] = kid[q]
<1> DEFINE f == [pc |-> pc, open |-> FALSE, ready |-> FALSE]
<1>1. DOMAIN f = {"pc", "open", "ready"} /\ f["pc"] = pc /\ f["open"] = FALSE /\ f["ready"] = FALSE  OBVIOUS
<1>2. Becomes(p, f)  OBVIOUS
<1> HIDE DEF f
<1>3. /\ \A x \in DOMAIN NoKid : kid'[p][x] = IF x \in DOMAIN f THEN f[x] ELSE kid[p][x]
      /\ \A q \in Proc \ {p} : kid'[q] = kid[q]
  BY <1>2, KidAfter
<1> QED  BY <1>1, <1>3 DEF NoKid

\* The record of a script after its step.
LEMMA ScriptAfter ==
    ASSUME Shape, NEW p \in Proc, NEW f, Script(p, f)
    PROVE  /\ \A x \in DOMAIN NoCgi : cgi'[p][x] = IF x \in DOMAIN f THEN f[x] ELSE cgi[p][x]
           /\ \A q \in Proc \ {p} : cgi'[q] = cgi[q]
           /\ DOMAIN cgi' = Proc /\ DOMAIN cgi'[p] = DOMAIN NoCgi
BY DEF Script, Shape

\* A child whose connection is not spoken of, except that its client may leave.
LEMMA Undisturbed ==
    ASSUME NEW p \in Proc, Going(p), Serves(p), kid'[p] = kid[p], cgi'[p] = cgi[p],
           kid[p].cs # Null =>
              LET c == kid[p].cs IN
              /\ net'[c].req = net[c].req /\ net'[c].got = net[c].got /\ net'[c].out = net[c].out
              /\ log'[c] = log[c] /\ (net[c].gone => net'[c].gone)
    PROVE  Going(p)' /\ Serves(p)'
<1>1. Going(p)'  BY DEF Going
<1>2. CASE kid[p].cs = Null  BY <1>1, <1>2 DEF Serves
<1>3. CASE kid[p].cs # Null
  <2>1. Whole(p)' => Whole(p)  BY <1>3 DEF Whole, Gone, Cs
  <2>2. Extra(kid[p].cs)' = Extra(kid[p].cs)  BY <1>3 DEF Extra
  <2>3. Reading(p)'  BY <1>3, <2>2 DEF Reading, Serves
  <2>4. Answering(p)'
    <3> DEFINE c == kid[p].cs
    <3>1. Answering(p)  BY <1>3 DEF Serves
    <3>2. /\ net'[c].got = net[c].got /\ log'[c] = log[c] /\ (net[c].gone => net'[c].gone)
          /\ kid'[p] = kid[p] /\ cgi'[p] = cgi[p] /\ Extra(c)' = Extra(c)
      BY <1>3, <2>2
    <3> QED  BY <2>1, <3>1, <3>2 DEF Answering
  <2>5. Relaying(p)'  BY <1>3, <2>1 DEF Relaying, Serves
  <2> QED  BY <1>1, <2>3, <2>4, <2>5 DEF Serves
<1> QED  BY <1>2, <1>3

\* The step of one child, or of its script: it speaks to its own client alone.
LEMMA OneServes ==
    ASSUME AnswersInv, NEW p \in Proc, kid[p].cs # Null, Shape', UNCHANGED <<srv, backlog>>,
           kid'[p].cs = kid[p].cs, \A q \in Proc \ {p} : kid'[q] = kid[q] /\ cgi'[q] = cgi[q],
           \A x \in Client \ {kid[p].cs} : net'[x] = net[x] /\ log'[x] = log[x],
           net'[kid[p].cs].at \in {net[kid[p].cs].at, "out"}, net'[kid[p].cs].req = net[kid[p].cs].req,
           Len(net'[kid[p].cs].got) <= Extra(kid[p].cs) + 1,
           Going(p)', Serves(p)'
    PROVE  AnswersInv'
<1> DEFINE c == kid[p].cs
<1>1. c \in Client  BY DEF AnswersInv, Going
<1>2. \A x \in Client : Extra(x)' = Extra(x)
  <2>1. \A x \in Client : net'[x].req = net[x].req  OBVIOUS
  <2> QED  BY <2>1 DEF Extra
<1>3. Few'  BY <1>2 DEF Few, AnswersInv
<1>4. \A q \in Proc : kid'[q].cs = kid[q].cs  OBVIOUS
<1>5. \A i \in 1..Len(backlog) : backlog[i] \in Client /\ backlog[i] # c
  <2>1. \A i \in 1..Len(backlog) : backlog[i] \in Client  BY ElementOfSeq DEF AnswersInv, Shape
  <2> QED  BY <2>1 DEF AnswersInv, Placed, NoKidHas
<1>6. srv.cs # c /\ net[c].at # "home"  BY <1>1 DEF AnswersInv, Placed, NoKidHas
<1>7. \A x \in Client \ {c} : Untold(x) => Untold(x)'  BY DEF Untold
<1>8. Placed'
  <2>1. \A x : NoKidHas(x)' <=> NoKidHas(x)  BY <1>4 DEF NoKidHas
  <2>2. \A x \in Client : net'[x].at = "home" =>
           Untold(x)' /\ NoKidHas(x)' /\ srv'.cs # x /\ \A i \in 1..Len(backlog') : backlog'[i] # x
    BY <1>6, <1>7, <2>1 DEF AnswersInv, Placed
  <2>3. \A i \in 1..Len(backlog') : Untold(backlog[i])' /\ NoKidHas(backlog[i])' /\ srv'.cs # backlog'[i]
    BY <1>5, <1>7, <2>1 DEF AnswersInv, Placed
  <2>4. srv'.cs # Null => Untold(srv.cs)' /\ NoKidHas(srv.cs)'
    BY <1>6, <1>7, <2>1 DEF AnswersInv, Placed, Shape
  <2>5. \A a, b \in Proc : kid'[a].cs = kid'[b].cs /\ kid'[a].cs # Null => a = b
    BY <1>4 DEF AnswersInv, Placed
  <2> QED  BY <2>2, <2>3, <2>4, <2>5 DEF AnswersInv, Placed
<1>9. ASSUME NEW q \in Proc \ {p} PROVE Going(q)' /\ Serves(q)'
  <2>1. Going(q) /\ Serves(q) /\ kid[q].cs # c  BY DEF AnswersInv, Placed
  <2>2. kid[q].cs # Null => kid[q].cs \in Client \ {c}  BY <2>1 DEF Going
  <2> QED  BY <2>1, <2>2, Undisturbed
<1> QED  BY <1>3, <1>8, <1>9 DEF AnswersInv

\* A step that changes the record of one child and nothing else.
LEMMA AloneServes ==
    ASSUME AnswersInv, NEW p \in Proc, kid[p].cs # Null, UNCHANGED <<srv, backlog, net, cgi, log>>,
           faults' \in 0..Faults, kid'[p].cs = kid[p].cs, \A q \in Proc \ {p} : kid'[q] = kid[q],
           Going(p)', Serves(p)'
    PROVE  AnswersInv'
<1>1. Shape'  BY DEF AnswersInv, Shape
<1>2. Len(net[kid[p].cs].got) <= Extra(kid[p].cs) + 1  BY DEF AnswersInv, Few, Going
<1> QED  BY <1>1, <1>2, OneServes

\* What a request is.
LEMMA Asks ==
    ASSUME Shape, NEW c \in Client
    PROVE  /\ net[c].req \in Request /\ net[c].req.header \in Nat /\ net[c].req.header > 0
           /\ net[c].req.script.out \in Nat /\ BUFFER_SIZE \in Nat /\ Extra(c) \in {0, 1}
<1>1. net[c].req \in Request /\ net[c].req.header > 0  BY RequestAssumption DEF Shape
<1> QED  BY <1>1, BoundsAssumption DEF Request, Extra

-----------------------------------------------------------------------------
(* Reading.                                                                *)

Reads == {"header", "toolong", "handle", "body", "cgi"}

\* A child that reads on says nothing.
LEMMA ReadsOn ==
    ASSUME AnswersInv, NEW p \in Proc, kid[p].pc \in Reads, UNCHANGED <<srv, backlog, net, cgi, log>>,
           faults' \in 0..Faults, kid'[p].cs = kid[p].cs, \A q \in Proc \ {p} : kid'[q] = kid[q],
           kid'[p].ready = kid'[p].open, kid'[p].pc \in Reads \cup {"close"},
           kid'[p].pc \in {"header", "toolong"} => kid[p].pc = "header",
           Reading(p)'
    PROVE  AnswersInv'
<1>1. PICK c : c = kid[p].cs  OBVIOUS
<1>2. c \in Client /\ c # Null /\ Going(p) /\ Serves(p)
  BY <1>1, NullAssumption DEF Reads, AnswersInv, Going, Active, Before
<1>3. /\ log[c] = <<>> /\ net[c].out = <<>> /\ cgi[p].pc = "none"
      /\ kid[p].pc \in {"header", "toolong"} => net[c].got = <<>>
      /\ kid[p].pc \in {"handle", "body", "cgi"} => Len(net[c].got) <= Extra(c)
  BY <1>1, <1>2 DEF Reads, Serves, Answering, Relaying, Going, WithScript, Ended
<1>4. Extra(c) \in {0, 1} /\ Extra(c)' = Extra(c) /\ Len(<<>>) = 0
  BY <1>2, Asks, EmptySeq DEF AnswersInv, Extra
<1>5. Len(net[c].got) <= Extra(c)  BY <1>3, <1>4 DEF Reads
<1>6. Going(p)'
  BY <1>1, <1>2, <1>3 DEF Going, Active, Reads, Before, WithScript
<1>7. Answering(p)'
  BY <1>1, <1>3, <1>4, <1>5 DEF Answering, Reads, WithScript, Ended
<1>8. Relaying(p)'
  <2>1. <<>> # <<200>>  BY EmptySeq
  <2> QED  BY <1>1, <1>3, <2>1 DEF Relaying, Reads, WithScript, Ended
<1>9. Serves(p)'  BY <1>7, <1>8 DEF Serves
<1> QED  BY <1>1, <1>2, <1>6, <1>9, AloneServes

\* A unit of the header.
LEMMA ReadHeaderServes == ASSUME AnswersInv, KidShape, NEW p \in Proc, ReadHeader(p) PROVE AnswersInv'
<1>1. PICK c : c = kid[p].cs  OBVIOUS
<1> DEFINE n == kid[p].total + 1
           pc == IF n >= BUFFER_SIZE THEN "toolong" ELSE IF n = net[c].req.header THEN "handle" ELSE "header"
           f == [total |-> n, pc |-> pc]
<1>2. /\ kid[p].pc = "header" /\ c \in Client /\ c # Null /\ Going(p) /\ Serves(p)
  BY <1>1, NullAssumption DEF ReadHeader, At, AnswersInv, Going, Active, Before
<1>3. UNCHANGED <<srv, backlog, net, cgi, log, faults>>  BY DEF ReadHeader, Local
<1>4. /\ kid'[p].pc = pc /\ kid'[p].total = n /\ kid'[p].cs = c /\ kid'[p].open = kid[p].open
      /\ kid'[p].ready = kid[p].ready /\ kid'[p].req = kid[p].req /\ \A q \in Proc \ {p} : kid'[q] = kid[q]
  <2>1. Becomes(p, f)  BY <1>1 DEF ReadHeader, Cs
  <2>2. DOMAIN f = {"total", "pc"} /\ f["pc"] = pc /\ f["total"] = n  OBVIOUS
  <2> HIDE DEF f, pc, n
  <2>3. /\ \A x \in DOMAIN NoKid : kid'[p][x] = IF x \in DOMAIN f THEN f[x] ELSE kid[p][x]
        /\ \A q \in Proc \ {p} : kid'[q] = kid[q]
    BY <2>1, KidAfter
  <2> QED  BY <1>1, <2>2, <2>3 DEF NoKid
<1>5. kid[p].req = Null /\ kid[p].total \in Nat /\ kid[p].total < net[c].req.header
  BY <1>1, <1>2 DEF Serves, Reading, Before
<1>6. n \in Nat /\ n <= net[c].req.header /\ BUFFER_SIZE \in Nat /\ net[c].req.header \in Nat
  BY <1>2, <1>5, Asks DEF AnswersInv
<1>7. pc \in {"header", "toolong", "handle"}  OBVIOUS
<1>8. (pc = "header" => n < net[c].req.header) /\ (pc = "toolong" => Extra(c) = 1)
  BY <1>6 DEF Extra
<1> HIDE DEF pc, n
<1>9. Reading(p)'
  BY <1>1, <1>3, <1>4, <1>5, <1>6, <1>7, <1>8 DEF Reading, Before, WithScript, Extra
<1>10. faults' \in 0..Faults  BY <1>3 DEF AnswersInv, Shape
<1>11. kid[p].ready = kid[p].open  BY <1>2 DEF Going
<1> QED  BY <1>1, <1>2, <1>3, <1>4, <1>7, <1>9, <1>10, <1>11, ReadsOn DEF Reads

\* A read that ends without data, or with too little: of the header, or of the body.
LEMMA EndsReading ==
    ASSUME AnswersInv, KidShape, NEW p \in Proc, NEW read, Local(p), NEW pc,
           \/ kid[p].pc = "header" /\ pc = "handle"
           \/ kid[p].pc = "body" /\ pc = "cgi",
           Stuck(p, read, pc) \/ CloseCs(p, read, pc)
    PROVE  AnswersInv'
<1>1. PICK c : c = kid[p].cs  OBVIOUS
<1>2. /\ c \in Client /\ c # Null /\ Going(p) /\ Serves(p)
  BY <1>1, NullAssumption DEF AnswersInv, Going, Active, Before
<1>3. UNCHANGED <<srv, backlog, net, cgi, log, faults>>  BY DEF Local
<1>4. faults' \in 0..Faults  BY <1>3 DEF AnswersInv, Shape
<1>5. kid[p].ready = kid[p].open  BY <1>2 DEF Going
<1>6. CASE CloseCs(p, read, pc)
  <2> DEFINE to == IF read > 0 THEN pc ELSE "close"
  <2>1. /\ kid'[p].pc = to /\ kid'[p].cs = c /\ kid'[p].open = FALSE /\ kid'[p].ready = FALSE
        /\ kid'[p].total = kid[p].total /\ kid'[p].req = kid[p].req /\ \A q \in Proc \ {p} : kid'[q] = kid[q]
    <3>1. [open |-> FALSE, ready |-> FALSE, pc |-> to] = [pc |-> to, open |-> FALSE, ready |-> FALSE]
      OBVIOUS
    <3>2. Becomes(p, [pc |-> to, open |-> FALSE, ready |-> FALSE])  BY <1>6, <3>1 DEF CloseCs
    <3> HIDE DEF to
    <3> QED  BY <1>1, <3>2, GoesOnShut
  <2>2. to \in {pc, "close"}  OBVIOUS
  <2> HIDE DEF to
  <2>3. Reading(p)'
    BY <1>1, <1>2, <1>3, <2>1, <2>2 DEF Serves, Reading, Before, WithScript
  <2>4. kid'[p].pc \in Reads \cup {"close"} /\ kid'[p].pc \notin {"header", "toolong"} /\ kid[p].pc \in Reads
    BY <2>1, <2>2 DEF Reads
  <2> QED  BY <1>1, <1>3, <1>4, <2>1, <2>3, <2>4, ReadsOn
<1>7. CASE Becomes(p, [stuck |-> kid[p].stuck + 1])
  <2> DEFINE f == [stuck |-> kid[p].stuck + 1]
  <2>1. DOMAIN f = {"stuck"} /\ Becomes(p, f)  BY <1>7
  <2> HIDE DEF f
  <2>2. \A x \in DOMAIN NoKid : kid'[p][x] = IF x \in DOMAIN f THEN f[x] ELSE kid[p][x]
    BY <2>1, KidAfter
  <2>3. /\ kid'[p].pc = kid[p].pc /\ kid'[p].cs = c /\ kid'[p].open = kid[p].open
        /\ kid'[p].ready = kid[p].ready /\ kid'[p].total = kid[p].total /\ kid'[p].req = kid[p].req
    BY <1>1, <2>1, <2>2 DEF NoKid
  <2>4. \A q \in Proc \ {p} : kid'[q] = kid[q]  BY <2>1, KidAfter
  <2>5. Reading(p)'
    BY <1>1, <1>2, <1>3, <2>3 DEF Serves, Reading, Before, WithScript, Extra
  <2>6. kid[p].pc \in Reads /\ kid[p].pc # "toolong"  BY DEF Reads
  <2> QED  BY <1>1, <1>3, <1>4, <1>5, <2>3, <2>4, <2>5, <2>6, ReadsOn
<1> QED  BY <1>6, <1>7 DEF Stuck

\* A unit of the body.
LEMMA ReadBodyServes == ASSUME AnswersInv, KidShape, NEW p \in Proc, ReadBody(p) PROVE AnswersInv'
<1>1. PICK c : c = kid[p].cs  OBVIOUS
<1> DEFINE pc == IF kid[p].post + 1 = kid[p].req.clen THEN "cgi" ELSE "body"
           f == [post |-> kid[p].post + 1, stuck |-> 0, pc |-> pc]
<1>2. /\ kid[p].pc = "body" /\ c \in Client /\ c # Null /\ Going(p) /\ Serves(p)
  BY <1>1, NullAssumption DEF ReadBody, At, AnswersInv, Going, Active, Before
<1>3. UNCHANGED <<srv, backlog, net, cgi, log, faults>>  BY DEF ReadBody, Local
<1>4. /\ kid'[p].pc = pc /\ kid'[p].cs = c /\ kid'[p].open = kid[p].open
      /\ kid'[p].ready = kid[p].ready /\ kid'[p].req = kid[p].req /\ \A q \in Proc \ {p} : kid'[q] = kid[q]
  <2>1. Becomes(p, f)  BY DEF ReadBody
  <2>2. DOMAIN f = {"post", "stuck", "pc"} /\ f["pc"] = pc  OBVIOUS
  <2> HIDE DEF f, pc
  <2>3. /\ \A x \in DOMAIN NoKid : kid'[p][x] = IF x \in DOMAIN f THEN f[x] ELSE kid[p][x]
        /\ \A q \in Proc \ {p} : kid'[q] = kid[q]
    BY <2>1, KidAfter
  <2> QED  BY <1>1, <2>2, <2>3 DEF NoKid
<1>5. pc \in {"body", "cgi"}  OBVIOUS
<1> HIDE DEF pc
<1>6. Reading(p)'
  BY <1>1, <1>2, <1>3, <1>4, <1>5 DEF Serves, Reading, Before, WithScript
<1>7. faults' \in 0..Faults  BY <1>3 DEF AnswersInv, Shape
<1>8. kid[p].ready = kid[p].open  BY <1>2 DEF Going
<1> QED  BY <1>1, <1>2, <1>3, <1>4, <1>5, <1>6, <1>7, <1>8, ReadsOn DEF Reads

\* The request as it was understood asks for the same script.
LEMMA Parsed ==
    ASSUME Shape, NEW p \in Proc, kid[p].cs \in Client, NEW r \in ParseRequest(p)
    PROVE  r.script.out \in Nat
<1>1. PICK q : q = net[Cs(p)].req  OBVIOUS
<1>2. q \in Request /\ q.script.out \in Nat  BY <1>1, Asks DEF Cs
<1>3. r = q \/ \E m, t, n : r = ReadAs(q, m, t, n)  BY <1>1 DEF ParseRequest
<1>4. ASSUME NEW m, NEW t, NEW n, r = ReadAs(q, m, t, n) PROVE r.script = q.script
  BY <1>2, <1>4 DEF Request, ReadAs
<1> QED  BY <1>2, <1>3, <1>4

\* A script is asked for: with a body first, or without.
LEMMA TakesServes ==
    ASSUME AnswersInv, KidShape, NEW p \in Proc, kid[p].pc = "handle", NEW r \in ParseRequest(p), Local(p),
           \/ Becomes(p, [pc |-> "cgi", req |-> r])
           \/ Becomes(p, [pc |-> "body", req |-> r, stuck |-> 0])
    PROVE  AnswersInv'
<1>1. PICK c : c = kid[p].cs  OBVIOUS
<1>2. /\ c \in Client /\ c # Null /\ Going(p) /\ Serves(p)
  BY <1>1, NullAssumption DEF AnswersInv, Going, Active, Before
<1>3. UNCHANGED <<srv, backlog, net, cgi, log, faults>>  BY DEF Local
<1>4. faults' \in 0..Faults  BY <1>3 DEF AnswersInv, Shape
<1>5. kid[p].ready = kid[p].open  BY <1>2 DEF Going
<1>6. r.script.out \in Nat  BY <1>1, <1>2, Parsed DEF AnswersInv
<1>7. /\ kid'[p].pc \in {"cgi", "body"} /\ kid'[p].cs = c /\ kid'[p].open = kid[p].open
      /\ kid'[p].ready = kid[p].ready /\ kid'[p].req = r /\ \A q \in Proc \ {p} : kid'[q] = kid[q]
  <2>1. CASE Becomes(p, [pc |-> "cgi", req |-> r])
    <3> DEFINE f == [pc |-> "cgi", req |-> r]
    <3>1. DOMAIN f = {"pc", "req"} /\ f["pc"] = "cgi" /\ f["req"] = r /\ Becomes(p, f)  BY <2>1
    <3> HIDE DEF f
    <3>2. /\ \A x \in DOMAIN NoKid : kid'[p][x] = IF x \in DOMAIN f THEN f[x] ELSE kid[p][x]
          /\ \A q \in Proc \ {p} : kid'[q] = kid[q]
      BY <3>1, KidAfter
    <3> QED  BY <1>1, <3>1, <3>2 DEF NoKid
  <2>2. CASE Becomes(p, [pc |-> "body", req |-> r, stuck |-> 0])
    <3> DEFINE f == [pc |-> "body", req |-> r, stuck |-> 0]
    <3>1. DOMAIN f = {"pc", "req", "stuck"} /\ f["pc"] = "body" /\ f["req"] = r /\ Becomes(p, f)  BY <2>2
    <3> HIDE DEF f
    <3>2. /\ \A x \in DOMAIN NoKid : kid'[p][x] = IF x \in DOMAIN f THEN f[x] ELSE kid[p][x]
          /\ \A q \in Proc \ {p} : kid'[q] = kid[q]
      BY <3>1, KidAfter
    <3> QED  BY <1>1, <3>1, <3>2 DEF NoKid
  <2> QED  BY <2>1, <2>2
<1>8. Reading(p)'
  BY <1>6, <1>7 DEF Reading, Before, WithScript
<1> QED  BY <1>1, <1>3, <1>4, <1>5, <1>7, <1>8, ReadsOn DEF Reads

-----------------------------------------------------------------------------
(* Answering.                                                              *)

\* What Say does to the records.
Told(p, c, s, pc) ==
    /\ Shape' /\ UNCHANGED <<srv, backlog, cgi>>
    /\ kid'[p].pc = pc /\ kid'[p].cs = c /\ kid'[p].total = kid[p].total /\ kid'[p].req = kid[p].req
    /\ kid'[p].ready = kid'[p].open
    /\ \A q \in Proc \ {p} : kid'[q] = kid[q]
    /\ \A x \in Client \ {c} : log'[x] = log[x] /\ net'[x] = net[x]
    /\ net'[c].req = net[c].req /\ net'[c].at = net[c].at /\ net'[c].out = net[c].out
    /\ net'[c].gone = net[c].gone
    /\ net'[c].got = net[c].got \/ net'[c].got = Append(net[c].got, s)
    /\ kid'[p].open /\ ~net'[c].gone => net'[c].got = Append(net[c].got, s)

\* Say touches its own client and its own record.
LEMMA SayTells ==
    ASSUME Shape, KidShape, NEW p \in Proc, NEW c \in Client, c = kid[p].cs, kid[p].ready = kid[p].open,
           NEW s \in Status, NEW ll \in Seq(Status), NEW pc, Say(p, s, ll, pc)
    PROVE  Told(p, c, s, pc) /\ log'[c] = log[c] \o ll
<1>1. UNCHANGED <<srv, backlog, cgi, faults>> /\ log' = [log EXCEPT ![c] = @ \o ll]
  BY DEF Say, Cs
<1>2. log'[c] = log[c] \o ll /\ log' \in [Client -> Seq(Status)]
      /\ \A x \in Client \ {c} : log'[x] = log[x]
  <2>1. log[c] \o ll \in Seq(Status)  BY ConcatProperties DEF Shape
  <2> QED  BY <1>1, <2>1 DEF Shape
<1>3. Append(net[c].got, s) \in Seq(Status)  BY AppendProperties DEF Shape
<1>4. CASE /\ kid[p].open /\ ~Gone(p) /\ Goto(p, pc)
           /\ net' = [net EXCEPT ![c].got = Append(@, s)]
  <2>0. /\ DOMAIN net' = Client /\ net'[c] = [net[c] EXCEPT !.got = Append(@, s)]
        /\ \A x \in Client \ {c} : net'[x] = net[x]
    BY <1>4 DEF Shape
  <2>1. /\ DOMAIN net' = Client /\ DOMAIN net'[c] = DOMAIN net[c]
        /\ net'[c].req = net[c].req /\ net'[c].at = net[c].at /\ net'[c].out = net[c].out
        /\ net'[c].gone = net[c].gone /\ net'[c].got = Append(net[c].got, s)
    BY <2>0 DEF Shape
  <2>2. \A x \in Client :
           /\ DOMAIN net'[x] = {"req", "at", "sent", "gone", "got", "out"}
           /\ net'[x].req \in Requests[x] /\ net'[x].at \in {"home", "in", "out"}
           /\ net'[x].got \in Seq(Status) /\ net'[x].out \in Seq(Unit)
    BY <1>3, <2>0, <2>1 DEF Shape
  <2>3. Shape'  BY <1>1, <1>2, <2>0, <2>2 DEF Shape
  <2>4. /\ kid'[p].pc = pc /\ kid'[p].cs = c /\ kid'[p].total = kid[p].total /\ kid'[p].req = kid[p].req
        /\ kid'[p].ready = kid'[p].open /\ \A q \in Proc \ {p} : kid'[q] = kid[q]
    BY <1>4, GoesOn
  <2> QED  BY <1>1, <1>2, <2>0, <2>1, <2>3, <2>4 DEF Told
<1>5. CASE (~kid[p].open \/ Gone(p)) /\ Goto(p, pc) /\ UNCHANGED net
  <2>1. Shape'  BY <1>1, <1>2, <1>5 DEF Shape
  <2>2. kid'[p].open => net[c].gone  BY <1>5, GoesOn DEF Gone, Cs
  <2> QED  BY <1>1, <1>2, <1>5, <2>1, <2>2, GoesOn DEF Told
<1>6. CASE UNCHANGED net /\ Becomes(p, [pc |-> pc, open |-> FALSE, ready |-> FALSE])
  <2>1. Shape'  BY <1>1, <1>2, <1>6 DEF Shape
  <2> QED  BY <1>1, <1>2, <1>6, <2>1, GoesOnShut DEF Told
<1> QED  BY <1>4, <1>5, <1>6 DEF Say, Cs

\* The step of a child that speaks.
LEMMA ToldServes ==
    ASSUME AnswersInv, NEW p \in Proc, NEW c \in Client, c = kid[p].cs, c # Null, NEW s, NEW pc,
           Told(p, c, s, pc),
           Len(net'[c].got) <= Extra(c) + 1, Going(p)', Serves(p)'
    PROVE  AnswersInv'
<1>1. Shape' /\ UNCHANGED <<srv, backlog>>  BY DEF Told
<1>2. \A q \in Proc \ {p} : kid'[q] = kid[q] /\ cgi'[q] = cgi[q]  BY DEF Told
<1>3. kid'[p].cs = kid[p].cs /\ net'[c].at = net[c].at /\ net'[c].req = net[c].req  BY DEF Told
<1>4. \A x \in Client \ {c} : net'[x] = net[x] /\ log'[x] = log[x]  BY DEF Told
<1> QED  BY <1>1, <1>2, <1>3, <1>4, OneServes

\* The page on a header that is too long.
LEMMA TooLongServes == ASSUME AnswersInv, KidShape, NEW p \in Proc, TooLong(p) PROVE AnswersInv'
<1>1. PICK c : c = kid[p].cs  OBVIOUS
<1>2. /\ kid[p].pc = "toolong" /\ c \in Client /\ c # Null /\ Going(p) /\ Serves(p) /\ Shape
  BY <1>1, NullAssumption DEF TooLong, At, AnswersInv, Going, Active, Before
<1>3. 400 \in Status /\ <<>> \in Seq(Status) /\ Say(p, 400, <<>>, "handle")
  BY EmptySeq DEF TooLong, Status
<1>4. /\ kid[p].req = Null /\ Extra(c) = 1 /\ log[c] = <<>> /\ net[c].got = <<>> /\ net[c].out = <<>>
      /\ cgi[p].pc = "none" /\ kid[p].ready = kid[p].open
  BY <1>1, <1>2 DEF Serves, Reading, Answering, Relaying, Going, Before, WithScript, Ended
<1>5. Told(p, c, 400, "handle") /\ log'[c] = log[c] \o <<>>
  BY <1>1, <1>2, <1>3, <1>4, SayTells
<1>15. Told(p, c, 400, "handle")  BY <1>5
<1>6. log'[c] = <<>>
  <2>1. log[c] \o <<>> = log[c]  BY <1>2, ConcatEmptySeq DEF Shape
  <2> QED  BY <1>4, <1>5, <2>1
<1>7. Extra(c)' = 1  BY <1>4, <1>15 DEF Extra, Told
<1>8. Len(net'[c].got) <= 1
  <2>1. net'[c].got = <<>> \/ net'[c].got = Append(<<>>, 400)  BY <1>4, <1>15 DEF Told
  <2>2. <<>> \in Seq(Status) /\ Len(<<>>) = 0  BY EmptySeq
  <2>3. PICK e : e = Append(<<>>, 400)  OBVIOUS
  <2>4. Len(e) = 1
    <3>1. PICK s \in Seq(Status) : s = <<>>  BY <2>2
    <3>2. Len(Append(s, 400)) = Len(s) + 1  BY <1>3, AppendProperties
    <3> QED  BY <2>2, <2>3, <3>1, <3>2
  <2>5. CASE net'[c].got = <<>>  BY <2>2, <2>5
  <2>6. CASE net'[c].got = e
    <3>1. Len(net'[c].got) = 1  BY <2>4, <2>6, Zenon
    <3> QED  BY <3>1
  <2> QED  BY <2>1, <2>3, <2>5, <2>6
<1>9. Going(p)'  BY <1>2, <1>4, <1>15 DEF Going, Active, Before, WithScript, Told
<1>10. Reading(p)'  BY <1>4, <1>15 DEF Reading, Before, WithScript, Told
<1>11. Answering(p)'
  BY <1>15, <1>6, <1>7, <1>8 DEF Answering, WithScript, Ended, Told
<1>12. Relaying(p)'  BY <1>4, <1>15 DEF Relaying, WithScript, Ended, Told
<1>13. Serves(p)'  BY <1>10, <1>11, <1>12 DEF Serves
<1>14. Len(net'[c].got) <= Extra(c) + 1  BY <1>4, <1>8
<1> QED  BY <1>1, <1>2, <1>15, <1>9, <1>13, <1>14, ToldServes

\* The status of an answer, and what the log says of it.
LEMMA StatusTypes ==
    ASSUME NEW r PROVE  StatusOf(r) \in Status
BY DEF StatusOf, Status

\* The log says the status, or nothing.
LEMMA LoggedTypes ==
    ASSUME NEW s \in Status
    PROVE  /\ Logged(s) \in Seq(Status) /\ Logged(s) \in {<<>>, <<s>>}
           /\ \A i \in 1..Len(Logged(s)) : Logged(s)[i] = s
<1>1. <<s>> \in Seq(Status) /\ Len(<<s>>) = 1 /\ <<s>>[1] = s  OBVIOUS
<1>2. <<>> \in Seq(Status) /\ Len(<<>>) = 0  BY EmptySeq
<1> QED  BY <1>1, <1>2 DEF Logged

\* The answer to a request, which ends it.
LEMMA SayServes ==
    ASSUME AnswersInv, KidShape, NEW p \in Proc, NEW s \in Status, Say(p, s, Logged(s), "close"),
           \/ kid[p].pc = "handle"
           \/ kid[p].pc = "cgi" /\ s # 200
    PROVE  AnswersInv'
<1>1. PICK c : c = kid[p].cs  OBVIOUS
<1>2. /\ c \in Client /\ c # Null /\ Going(p) /\ Serves(p) /\ Shape
  BY <1>1, NullAssumption DEF AnswersInv, Going, Active, Before
<1>3. PICK ll : ll = Logged(s)  OBVIOUS
<1>4. ll \in Seq(Status) /\ ll \in {<<>>, <<s>>} /\ \A i \in 1..Len(ll) : ll[i] = s
  BY <1>3, LoggedTypes
<1>5. /\ log[c] = <<>> /\ Len(net[c].got) <= Extra(c) /\ net[c].out = <<>>
      /\ cgi[p].pc = "none" /\ kid[p].ready = kid[p].open /\ (kid[p].pc = "handle" => kid[p].req = Null)
  BY <1>1, <1>2 DEF Serves, Reading, Answering, Relaying, Going, Before, WithScript, Ended
<1>6. Told(p, c, s, "close")  BY <1>1, <1>2, <1>3, <1>4, <1>5, SayTells
<1>7. log'[c] = ll
  <2>1. log'[c] = log[c] \o ll  BY <1>1, <1>2, <1>3, <1>4, <1>5, SayTells
  <2>2. <<>> \o ll = ll  BY <1>4, ConcatEmptySeq
  <2> QED  BY <1>5, <2>1, <2>2
<1>8. PICK l : l = Len(net[c].got)  OBVIOUS
<1>9. l \in Nat /\ Len(Append(net[c].got, s)) = l + 1 /\ Append(net[c].got, s)[l + 1] = s
  BY <1>2, <1>8, AppendProperties, LenProperties DEF Shape
<1>10. Extra(c) \in {0, 1} /\ l <= Extra(c)  BY <1>2, <1>5, <1>8, Asks
<1>11. Len(net'[c].got) <= Extra(c) + 1
  <2>1. Len(net'[c].got) \in {l, l + 1}  BY <1>6, <1>8, <1>9 DEF Told
  <2> QED  BY <1>9, <1>10, <2>1
<1>12. Going(p)'  BY <1>2, <1>5, <1>6 DEF Told, Going, Active, Before, WithScript
<1>13. Reading(p)'  BY <1>6 DEF Told, Reading, Before, WithScript
<1>14. Answering(p)'
  <2>1. kid'[p].open /\ ~net'[c].gone => \E j \in 1..Len(net'[c].got) : net'[c].got[j] = s
    <3> SUFFICES ASSUME kid'[p].open /\ ~net'[c].gone
                 PROVE  \E j \in 1..Len(net'[c].got) : net'[c].got[j] = s
      OBVIOUS
    <3>1. net'[c].got = Append(net[c].got, s) /\ l + 1 \in 1..l + 1  BY <1>6, <1>9 DEF Told
    <3> QED  BY <1>9, <3>1
  <2>2. Whole(p)' => \A i \in 1..Len(log'[c]) : \E j \in 1..Len(net'[c].got) : log'[c][i] = net'[c].got[j]
    BY <1>4, <1>6, <1>7, <2>1 DEF Told, Whole, Gone, Cs
  <2> QED  BY <1>6, <2>2 DEF Told, Answering, WithScript, Ended
<1>15. Relaying(p)'
  <2>1. ~(kid'[p].req # Null /\ log'[c] = <<200>>)
    <3>1. s # 200 \/ kid'[p].req = Null  BY <1>5, <1>6 DEF Told
    <3>2. ll = <<200>> => Len(ll) = 1 /\ ll[1] = 200  OBVIOUS
    <3>3. Len(ll) = 1 => 1 \in 1..Len(ll)  OBVIOUS
    <3> QED  BY <1>4, <1>7, <3>1, <3>2, <3>3
  <2> QED  BY <1>5, <1>6, <2>1 DEF Told, Relaying, WithScript, Ended
<1>16. Serves(p)'  BY <1>13, <1>14, <1>15 DEF Serves
<1> QED  BY <1>1, <1>2, <1>6, <1>11, <1>12, <1>16, ToldServes

\* What HandleMethod answers, or takes.
LEMMA HandleServes == ASSUME AnswersInv, KidShape, NEW p \in Proc, HandleMethod(p) PROVE AnswersInv'
<1>1. kid[p].pc = "handle"  BY DEF HandleMethod, At
<1>2. PICK r \in ParseRequest(p) :
        \/ /\ Local(p)
           /\ \/ Becomes(p, [pc |-> "cgi", req |-> r])
              \/ Becomes(p, [pc |-> "body", req |-> r, stuck |-> 0])
        \/ Say(p, StatusOf(r), Logged(StatusOf(r)), "close")
  BY DEF HandleMethod
<1>3. CASE Say(p, StatusOf(r), Logged(StatusOf(r)), "close")
  BY <1>1, <1>3, StatusTypes, SayServes
<1> QED  BY <1>1, <1>2, <1>3, TakesServes

-----------------------------------------------------------------------------
(* The script.                                                             *)

\* The shape after a step of p, its script and its client.
LEMMA ShapeAfter ==
    ASSUME Shape, NEW p \in Proc, NEW c \in Client, UNCHANGED <<srv, backlog>>, faults' \in 0..Faults,
           DOMAIN cgi' = Proc, \A q \in Proc \ {p} : cgi'[q] = cgi[q], DOMAIN cgi'[p] = DOMAIN NoCgi,
           cgi'[p].pipe \in Seq(Unit), cgi'[p].left \in Nat,
           DOMAIN net' = Client, \A x \in Client \ {c} : net'[x] = net[x], DOMAIN net'[c] = DOMAIN net[c],
           net'[c].req = net[c].req, net'[c].at \in {"home", "in", "out"}, net'[c].got \in Seq(Status),
           net'[c].out \in Seq(Unit), log' \in [Client -> Seq(Status)]
    PROVE  Shape'
BY DEF Shape

\* A connection that is over.
LEMMA HangsUp ==
    ASSUME Shape, NEW c, HangUp(c)
    PROVE  /\ DOMAIN net' = Client /\ \A x \in Client \ {c} : net'[x] = net[x]
           /\ c \in Client => /\ DOMAIN net'[c] = DOMAIN net[c] /\ net'[c].at = "out"
                              /\ net'[c].req = net[c].req /\ net'[c].got = net[c].got
                              /\ net'[c].out = net[c].out /\ net'[c].gone = net[c].gone
BY DEF HangUp, Shape

\* The child that closes is over, and so is its connection.
LEMMA CloseServes == ASSUME AnswersInv, KidShape, NEW p \in Proc, Close(p) PROVE AnswersInv'
<1>1. PICK c : c = kid[p].cs  OBVIOUS
<1>2. /\ kid[p].pc = "close" /\ c \in Client /\ c # Null /\ Going(p) /\ Serves(p) /\ Shape
  BY <1>1, NullAssumption DEF Close, At, AnswersInv, Going, Active, Before
<1>3. UNCHANGED <<srv, backlog, cgi, log, faults>> /\ Goto(p, "zombie") /\ HangUp(c)
  BY <1>1 DEF Close, Cs
<1>4. /\ DOMAIN net' = Client /\ \A x \in Client \ {c} : net'[x] = net[x]
      /\ DOMAIN net'[c] = DOMAIN net[c] /\ net'[c].at = "out"
      /\ net'[c].req = net[c].req /\ net'[c].got = net[c].got
      /\ net'[c].out = net[c].out /\ net'[c].gone = net[c].gone
  BY <1>2, <1>3, HangsUp
<1>5. /\ kid'[p].pc = "zombie" /\ kid'[p].cs = c /\ kid'[p].open = kid[p].open
      /\ kid'[p].ready = kid[p].ready /\ kid'[p].req = kid[p].req /\ \A q \in Proc \ {p} : kid'[q] = kid[q]
  BY <1>1, <1>3, GoesOn
<1>6. Shape'  BY <1>2, <1>3, <1>4 DEF Shape
<1>7. Going(p)'  BY <1>1, <1>2, <1>3, <1>5 DEF Going, Active, Before, WithScript
<1>8. Whole(p)' => Whole(p)  BY <1>1, <1>4, <1>5 DEF Whole, Gone, Cs
<1>9. Reading(p)'  BY <1>5 DEF Reading, Before, WithScript
<1>10. Answering(p)'
  <2>1. Answering(p)  BY <1>1, <1>2 DEF Serves
  <2>2. Whole(p)' => \A i \in 1..Len(log[c]) : \E j \in 1..Len(net[c].got) : log[c][i] = net[c].got[j]
    BY <1>1, <1>2, <1>8, <2>1 DEF Answering, Ended
  <2> QED  BY <1>3, <1>4, <1>5, <2>2 DEF Answering, WithScript, Ended
<1>11. Relaying(p)'
  <2>1. Relaying(p) /\ cgi[p].pc = "none"  BY <1>1, <1>2 DEF Serves, Going, WithScript
  <2>2. Whole(p)' /\ kid[p].req # Null /\ log[c] = <<200>> => Outs(net[c].out) = kid[p].req.script.out
    BY <1>1, <1>2, <1>8, <2>1 DEF Relaying, Ended
  <2> QED  BY <1>3, <1>4, <1>5, <2>1, <2>2 DEF Relaying, WithScript, Ended
<1>12. Serves(p)'  BY <1>9, <1>10, <1>11 DEF Serves
<1>13. Len(net'[c].got) <= Extra(c) + 1  BY <1>2, <1>4 DEF AnswersInv, Few
<1> QED  BY <1>1, <1>2, <1>3, <1>4, <1>5, <1>6, <1>7, <1>12, <1>13, OneServes

\* The script is started, or there is none, or it cannot be.
LEMMA StartCgiServes == ASSUME AnswersInv, KidShape, NEW p \in Proc, StartCgi(p) PROVE AnswersInv'
<1>1. PICK c : c = kid[p].cs  OBVIOUS
<1>2. /\ kid[p].pc = "cgi" /\ c \in Client /\ c # Null /\ Going(p) /\ Serves(p) /\ Shape
  BY <1>1, NullAssumption DEF StartCgi, At, AnswersInv, Going, Active, Before
<1>3. CASE \E s \in {403, 404} : Say(p, s, Logged(s), "close")
  <2>1. PICK s \in {403, 404} : Say(p, s, Logged(s), "close")  BY <1>3
  <2>2. s \in Status /\ s # 200  BY DEF Status
  <2> QED  BY <1>2, <2>1, <2>2, SayServes
<1>4. CASE Fails /\ Goto(p, "close") /\ UNCHANGED <<srv, backlog, net, cgi, log>>
  <2>1. /\ kid'[p].pc = "close" /\ kid'[p].cs = c /\ kid'[p].open = kid[p].open
        /\ kid'[p].ready = kid[p].ready /\ kid'[p].req = kid[p].req /\ \A q \in Proc \ {p} : kid'[q] = kid[q]
    BY <1>1, <1>4, GoesOn
  <2>2. faults' \in 0..Faults  BY <1>2, <1>4, BoundsAssumption DEF Fails, Shape
  <2>3. Reading(p)'  BY <2>1 DEF Reading, Before, WithScript
  <2>4. kid[p].ready = kid[p].open  BY <1>2 DEF Going
  <2> QED  BY <1>1, <1>2, <1>4, <2>1, <2>2, <2>3, <2>4, ReadsOn DEF Reads
<1>5. CASE /\ Goto(p, IF kid[p].req.method = "POST" THEN "feed" ELSE "relay")
           /\ Script(p, [pc |-> "head", sock |-> kid[p].open, left |-> kid[p].req.script.out])
           /\ UNCHANGED <<srv, backlog, net, log, faults>>
  <2>1. /\ kid'[p].pc \in {"feed", "relay"} /\ kid'[p].cs = c /\ kid'[p].open = kid[p].open
        /\ kid'[p].ready = kid[p].ready /\ kid'[p].req = kid[p].req /\ \A q \in Proc \ {p} : kid'[q] = kid[q]
    BY <1>1, <1>5, GoesOn
  <2>2. /\ cgi'[p].pc = "head" /\ cgi'[p].sock = kid[p].open /\ cgi'[p].left = kid[p].req.script.out
        /\ cgi'[p].pipe = cgi[p].pipe
        /\ \A q \in Proc \ {p} : cgi'[q] = cgi[q]
        /\ DOMAIN cgi' = Proc /\ DOMAIN cgi'[p] = DOMAIN NoCgi
    <3> DEFINE f == [pc |-> "head", sock |-> kid[p].open, left |-> kid[p].req.script.out]
    <3>1. /\ DOMAIN f = {"pc", "sock", "left"} /\ f["pc"] = "head" /\ f["sock"] = kid[p].open
          /\ f["left"] = kid[p].req.script.out /\ Script(p, f)
      BY <1>5
    <3> HIDE DEF f
    <3>2. /\ \A x \in DOMAIN NoCgi : cgi'[p][x] = IF x \in DOMAIN f THEN f[x] ELSE cgi[p][x]
          /\ \A q \in Proc \ {p} : cgi'[q] = cgi[q]
          /\ DOMAIN cgi' = Proc /\ DOMAIN cgi'[p] = DOMAIN NoCgi
      BY <1>2, <3>1, ScriptAfter
    <3> QED  BY <3>1, <3>2 DEF NoCgi
  <2>3. /\ kid[p].req.script.out \in Nat /\ log[c] = <<>> /\ Len(net[c].got) <= Extra(c)
        /\ net[c].out = <<>> /\ cgi[p].pipe = <<>> /\ kid[p].ready = kid[p].open
    BY <1>1, <1>2 DEF Serves, Reading, Answering, Relaying, Going, WithScript, Ended
  <2>4. Shape'
    <3>1. cgi'[p].pipe \in Seq(Unit) /\ cgi'[p].left \in Nat  BY <2>2, <2>3, EmptySeq
    <3> QED  BY <1>2, <1>5, <2>2, <3>1 DEF Shape
  <2>5. Going(p)'  BY <1>2, <2>1, <2>2, <2>3 DEF Going, Active, WithScript
  <2>6. Reading(p)'  BY <2>1, <2>3 DEF Reading, Before, WithScript
  <2>7. Answering(p)'
    <3>1. Extra(c)' = Extra(c)  BY <1>5 DEF Extra
    <3> QED  BY <1>5, <2>1, <2>2, <2>3, <3>1 DEF Answering, WithScript, Ended
  <2>8. Relaying(p)'
    <3>1. Outs(net'[c].out) + Outs(cgi'[p].pipe) + cgi'[p].left = kid'[p].req.script.out
      BY <1>5, <2>1, <2>2, <2>3, OutsNone
    <3> QED  BY <2>1, <2>2, <3>1 DEF Relaying, WithScript, Ended
  <2>9. Serves(p)'  BY <2>6, <2>7, <2>8 DEF Serves
  <2>10. Len(net[c].got) <= Extra(c) + 1  BY <1>2 DEF AnswersInv, Few
  <2> QED  BY <1>1, <1>2, <1>5, <2>1, <2>2, <2>4, <2>5, <2>9, <2>10, OneServes
<1> QED  BY <1>3, <1>4, <1>5 DEF StartCgi

\* The body for the script, or SIGPIPE.
LEMMA FeedServes == ASSUME AnswersInv, KidShape, NEW p \in Proc, Feed(p) PROVE AnswersInv'
<1>1. PICK c : c = kid[p].cs  OBVIOUS
<1>2. /\ kid[p].pc = "feed" /\ c \in Client /\ c # Null /\ Going(p) /\ Serves(p) /\ Shape
  BY <1>1, NullAssumption DEF Feed, At, AnswersInv, Going, Active, WithScript
<1>3. UNCHANGED <<srv, backlog, log, faults>>  BY DEF Feed
<1>4. Reading(p) /\ Answering(p) /\ Relaying(p) /\ kid[p].ready = kid[p].open
      /\ cgi[p].pc \in {"head", "reads", "writes", "exited"}
  BY <1>1, <1>2 DEF Serves, Going, WithScript
<1>5. Len(net[c].got) <= Extra(c) + 1  BY <1>2 DEF AnswersInv, Few
<1>6. CASE Script(p, [in |-> 1]) /\ Goto(p, "relay") /\ UNCHANGED net
  <2>1. /\ kid'[p].pc = "relay" /\ kid'[p].cs = c /\ kid'[p].open = kid[p].open
        /\ kid'[p].ready = kid[p].ready /\ kid'[p].req = kid[p].req /\ \A q \in Proc \ {p} : kid'[q] = kid[q]
    BY <1>1, <1>6, GoesOn
  <2>2. /\ cgi'[p].pc = cgi[p].pc /\ cgi'[p].sock = cgi[p].sock /\ cgi'[p].left = cgi[p].left
        /\ cgi'[p].pipe = cgi[p].pipe /\ cgi'[p].ok = cgi[p].ok
        /\ \A q \in Proc \ {p} : cgi'[q] = cgi[q]
        /\ DOMAIN cgi' = Proc /\ DOMAIN cgi'[p] = DOMAIN NoCgi
    <3> DEFINE f == [in |-> 1]
    <3>1. DOMAIN f = {"in"} /\ Script(p, f)  BY <1>6
    <3> HIDE DEF f
    <3>2. /\ \A x \in DOMAIN NoCgi : cgi'[p][x] = IF x \in DOMAIN f THEN f[x] ELSE cgi[p][x]
          /\ \A q \in Proc \ {p} : cgi'[q] = cgi[q]
          /\ DOMAIN cgi' = Proc /\ DOMAIN cgi'[p] = DOMAIN NoCgi
      BY <1>2, <3>1, ScriptAfter
    <3> QED  BY <3>1, <3>2 DEF NoCgi
  <2>3. Shape'  BY <1>2, <1>3, <1>6, <2>2 DEF Shape
  <2>4. Going(p)'  BY <1>2, <2>1, <2>2 DEF Going, Active, WithScript
  <2>5. Reading(p)'  BY <1>2, <1>4, <2>1 DEF Reading, Before, WithScript
  <2>6. Answering(p)'
    <3>1. Extra(c)' = Extra(c)  BY <1>6 DEF Extra
    <3> QED  BY <1>1, <1>2, <1>3, <1>4, <1>6, <2>1, <2>2, <3>1 DEF Answering, WithScript, Ended
  <2>7. Relaying(p)'
    <3>1. Whole(p)' => Whole(p)  BY <1>1, <1>6, <2>1 DEF Whole, Gone, Cs
    <3> QED  BY <1>1, <1>2, <1>4, <1>6, <2>1, <2>2, <3>1 DEF Relaying, WithScript, Ended
  <2>8. Serves(p)'  BY <2>5, <2>6, <2>7 DEF Serves
  <2> QED  BY <1>1, <1>2, <1>3, <1>5, <1>6, <2>1, <2>2, <2>3, <2>4, <2>8, OneServes
<1>7. CASE Becomes(p, [pc |-> "relay", open |-> FALSE, ready |-> FALSE]) /\ UNCHANGED <<cgi, net>>
  <2>1. /\ kid'[p].pc = "relay" /\ kid'[p].cs = c /\ kid'[p].open = FALSE
        /\ kid'[p].ready = FALSE /\ kid'[p].req = kid[p].req /\ \A q \in Proc \ {p} : kid'[q] = kid[q]
    BY <1>1, <1>7, GoesOnShut
  <2>2. Shape'  BY <1>2, <1>3, <1>7 DEF Shape
  <2>3. Going(p)'  BY <1>2, <1>7, <2>1 DEF Going, Active, WithScript
  <2>4. Reading(p)'  BY <1>2, <1>4, <2>1 DEF Reading, Before, WithScript
  <2>5. Answering(p)'
    <3>1. Extra(c)' = Extra(c)  BY <1>7 DEF Extra
    <3> QED  BY <1>1, <1>2, <1>3, <1>4, <1>7, <2>1, <3>1 DEF Answering, WithScript, Ended
  <2>6. Relaying(p)'
    <3>1. ~Whole(p)'  BY <2>1 DEF Whole
    <3> QED  BY <1>2, <1>4, <1>7, <2>1, <3>1 DEF Relaying, WithScript, Ended
  <2>7. Serves(p)'  BY <2>4, <2>5, <2>6 DEF Serves
  <2> QED  BY <1>1, <1>2, <1>3, <1>5, <1>7, <2>1, <2>2, <2>3, <2>7, OneServes
<1>8. CASE ~kid[p].ready /\ Goto(p, "zombie") /\ HangUp(Cs(p)) /\ Script(p, NoCgi)
  <2>1. /\ kid'[p].pc = "zombie" /\ kid'[p].cs = c /\ kid'[p].open = kid[p].open
        /\ kid'[p].ready = kid[p].ready /\ kid'[p].req = kid[p].req /\ \A q \in Proc \ {p} : kid'[q] = kid[q]
    BY <1>1, <1>8, GoesOn
  <2>2. /\ DOMAIN net' = Client /\ \A x \in Client \ {c} : net'[x] = net[x]
        /\ DOMAIN net'[c] = DOMAIN net[c] /\ net'[c].at = "out"
        /\ net'[c].req = net[c].req /\ net'[c].got = net[c].got
        /\ net'[c].out = net[c].out /\ net'[c].gone = net[c].gone
    BY <1>1, <1>2, <1>8, HangsUp DEF Cs
  <2>3. /\ cgi'[p].pc = "none" /\ cgi'[p].pipe = <<>> /\ cgi'[p].left = 0
        /\ \A q \in Proc \ {p} : cgi'[q] = cgi[q]
        /\ DOMAIN cgi' = Proc /\ DOMAIN cgi'[p] = DOMAIN NoCgi
    <3>1. /\ \A x \in DOMAIN NoCgi : cgi'[p][x] = IF x \in DOMAIN NoCgi THEN NoCgi[x] ELSE cgi[p][x]
          /\ \A q \in Proc \ {p} : cgi'[q] = cgi[q]
          /\ DOMAIN cgi' = Proc /\ DOMAIN cgi'[p] = DOMAIN NoCgi
      BY <1>2, <1>8, ScriptAfter
    <3> QED  BY <3>1 DEF NoCgi
  <2>4. Shape'
    <3>1. cgi'[p].pipe \in Seq(Unit) /\ cgi'[p].left \in Nat  BY <2>3, EmptySeq
    <3>2. net'[c].got \in Seq(Status) /\ net'[c].out \in Seq(Unit)  BY <1>2, <2>2 DEF Shape
    <3>3. log' \in [Client -> Seq(Status)] /\ faults' \in 0..Faults  BY <1>2, <1>3 DEF Shape
    <3> QED  BY <1>2, <1>3, <2>2, <2>3, <3>1, <3>2, <3>3, ShapeAfter
  <2>5. Going(p)'  BY <1>2, <1>4, <2>1, <2>3 DEF Going, Active, Before, WithScript
  <2>6. ~Whole(p)'  BY <1>4, <1>8, <2>1 DEF Whole
  <2>7. Serves(p)'
    BY <2>1, <2>3, <2>6 DEF Serves, Reading, Answering, Relaying, Before, WithScript, Ended
  <2>8. Len(net'[c].got) <= Extra(c) + 1  BY <1>5, <2>2
  <2> QED  BY <1>1, <1>2, <1>3, <2>1, <2>2, <2>3, <2>4, <2>5, <2>7, <2>8, OneServes
<1> QED  BY <1>6, <1>7, <1>8 DEF Feed

\* The child that waits for its script logs that it succeeded.
LEMMA WaitCgiServes == ASSUME AnswersInv, KidShape, NEW p \in Proc, WaitCgi(p) PROVE AnswersInv'
<1>1. PICK c : c = kid[p].cs  OBVIOUS
<1>2. /\ kid[p].pc = "wait" /\ c \in Client /\ c # Null /\ Going(p) /\ Serves(p) /\ Shape
      /\ cgi[p].pc = "exited"
  BY <1>1, NullAssumption DEF WaitCgi, At, AnswersInv, Going, Active, WithScript
<1>3. PICK ll : ll = IF cgi[p].ok THEN Logged(200) ELSE <<>>  OBVIOUS
<1>4. /\ ll \in Seq(Status) /\ (~cgi[p].ok => ll = <<>>)
      /\ \A i \in 1..Len(ll) : ll[i] = 200
  <2>1. 200 \in Status  BY DEF Status
  <2> QED  BY <1>3, <2>1, LoggedTypes, EmptySeq
<1>5. UNCHANGED <<srv, backlog, net, faults>> /\ Goto(p, "close") /\ Script(p, NoCgi)
      /\ log' = [log EXCEPT ![c] = @ \o ll]
  BY <1>1, <1>3 DEF WaitCgi, Cs
<1>6. /\ kid'[p].pc = "close" /\ kid'[p].cs = c /\ kid'[p].open = kid[p].open
      /\ kid'[p].ready = kid[p].ready /\ kid'[p].req = kid[p].req /\ \A q \in Proc \ {p} : kid'[q] = kid[q]
  BY <1>1, <1>5, GoesOn
<1>7. /\ cgi'[p].pc = "none" /\ cgi'[p].pipe = <<>> /\ cgi'[p].left = 0
      /\ \A q \in Proc \ {p} : cgi'[q] = cgi[q]
      /\ DOMAIN cgi' = Proc /\ DOMAIN cgi'[p] = DOMAIN NoCgi
  <2>1. /\ \A x \in DOMAIN NoCgi : cgi'[p][x] = IF x \in DOMAIN NoCgi THEN NoCgi[x] ELSE cgi[p][x]
        /\ \A q \in Proc \ {p} : cgi'[q] = cgi[q]
        /\ DOMAIN cgi' = Proc /\ DOMAIN cgi'[p] = DOMAIN NoCgi
    BY <1>2, <1>5, ScriptAfter
  <2> QED  BY <2>1 DEF NoCgi
<1>8. Reading(p) /\ Answering(p) /\ Relaying(p) /\ kid[p].ready = kid[p].open
  BY <1>1, <1>2 DEF Serves, Going
<1>9. log[c] = <<>>  BY <1>1, <1>2, <1>8 DEF Answering, Ended
<1>10. log'[c] = ll /\ log' \in [Client -> Seq(Status)] /\ \A x \in Client \ {c} : log'[x] = log[x]
  <2>1. <<>> \o ll = ll  BY <1>4, ConcatEmptySeq
  <2> QED  BY <1>2, <1>4, <1>5, <1>9, <2>1 DEF Shape
<1>11. Shape'
  <2>1. cgi'[p].pipe \in Seq(Unit) /\ cgi'[p].left \in Nat  BY <1>7, EmptySeq
  <2>2. faults' \in 0..Faults  BY <1>2, <1>5 DEF Shape
  <2> QED  BY <1>2, <1>5, <1>7, <1>10, <2>1, <2>2 DEF Shape
<1>12. Going(p)'  BY <1>2, <1>6, <1>7, <1>8 DEF Going, Active, Before, WithScript
<1>13. Whole(p)' => Whole(p)  BY <1>1, <1>5, <1>6 DEF Whole, Gone, Cs
<1>14. Answering(p)'
  <2>1. Whole(p)' => \E j \in 1..Len(net[c].got) : net[c].got[j] = 200
    BY <1>1, <1>2, <1>8, <1>13 DEF Answering, WithScript, Whole, Gone, Cs
  <2>2. Whole(p)' => \A i \in 1..Len(ll) : \E j \in 1..Len(net[c].got) : ll[i] = net[c].got[j]
    BY <1>4, <2>1
  <2> QED  BY <1>5, <1>6, <1>10, <2>2 DEF Answering, WithScript, Ended
<1>15. Relaying(p)'
  <2>1. Whole(p)' /\ cgi[p].ok => Outs(net[c].out) = kid[p].req.script.out
    <3> SUFFICES ASSUME Whole(p), cgi[p].ok PROVE Outs(net[c].out) = kid[p].req.script.out  BY <1>13
    <3>1. Outs(net[c].out) + Outs(cgi[p].pipe) + cgi[p].left = kid[p].req.script.out
      BY <1>1, <1>2, <1>8 DEF Relaying, WithScript
    <3>2. cgi[p].pipe = <<>> /\ cgi[p].left = 0  BY <1>2, <1>8 DEF Relaying
    <3>3. Outs(net[c].out) \in Nat  BY <1>2, OutsType, LenProperties DEF Shape
    <3> QED  BY <3>1, <3>2, <3>3, OutsNone
  <2>2. log'[c] = <<200>> => cgi[p].ok
    <3>1. <<>> # <<200>>  BY EmptySeq
    <3> QED  BY <1>4, <1>10, <3>1
  <2> QED  BY <1>5, <1>6, <1>7, <2>1, <2>2 DEF Relaying, WithScript, Ended
<1>16. Serves(p)'
  <2>1. Reading(p)'  BY <1>6 DEF Reading, Before, WithScript
  <2> QED  BY <1>14, <1>15, <2>1 DEF Serves
<1>17. Len(net[c].got) <= Extra(c) + 1  BY <1>2 DEF AnswersInv, Few
<1> QED  BY <1>1, <1>2, <1>5, <1>6, <1>7, <1>10, <1>11, <1>12, <1>16, <1>17, OneServes

\* A turn of the loop that sends on what the script writes.
LEMMA RelayServes == ASSUME AnswersInv, KidShape, NEW p \in Proc, Relay(p) PROVE AnswersInv'
<1>1. PICK c : c = kid[p].cs  OBVIOUS
<1>2. /\ kid[p].pc = "relay" /\ c \in Client /\ c # Null /\ Going(p) /\ Serves(p) /\ Shape
  BY <1>1, NullAssumption DEF Relay, At, AnswersInv, Going, Active, WithScript
<1>3. UNCHANGED <<srv, backlog, log, faults>>  BY DEF Relay
<1>4. Reading(p) /\ Answering(p) /\ Relaying(p) /\ kid[p].ready = kid[p].open
      /\ cgi[p].pc \in {"head", "reads", "writes", "exited"}
  BY <1>1, <1>2 DEF Serves, Going, WithScript
<1>5. Len(net[c].got) <= Extra(c) + 1  BY <1>2 DEF AnswersInv, Few
<1>6. CASE cgi[p].pipe = <<>> /\ cgi[p].pc = "exited" /\ Goto(p, "wait") /\ UNCHANGED <<net, cgi>>
  <2>1. /\ kid'[p].pc = "wait" /\ kid'[p].cs = c /\ kid'[p].open = kid[p].open
        /\ kid'[p].ready = kid[p].ready /\ kid'[p].req = kid[p].req /\ \A q \in Proc \ {p} : kid'[q] = kid[q]
    BY <1>1, <1>6, GoesOn
  <2>2. Shape'  BY <1>2, <1>3, <1>6 DEF Shape
  <2>3. Going(p)'  BY <1>2, <1>6, <2>1 DEF Going, Active, WithScript
  <2>4. Reading(p)'  BY <1>2, <1>4, <2>1 DEF Reading, Before, WithScript
  <2>5. Extra(c)' = Extra(c)  BY <1>6 DEF Extra
  <2>6. Answering(p)'
    BY <1>1, <1>2, <1>3, <1>4, <1>6, <2>1, <2>5 DEF Answering, WithScript, Ended
  <2>7. Whole(p)' => Whole(p)  BY <1>1, <1>6, <2>1 DEF Whole, Gone, Cs
  <2>8. Relaying(p)'
    BY <1>1, <1>2, <1>4, <1>6, <2>1, <2>7 DEF Relaying, WithScript, Ended
  <2>9. Serves(p)'  BY <2>4, <2>6, <2>8 DEF Serves
  <2> QED  BY <1>1, <1>2, <1>3, <1>5, <1>6, <2>1, <2>2, <2>3, <2>9, OneServes
<1>7. CASE /\ cgi[p].pipe # <<>> /\ Script(p, [pipe |-> Tail(cgi[p].pipe)])
           /\ \/ /\ kid[p].open /\ UNCHANGED kid
                 /\ net' = IF Gone(p) THEN net
                           ELSE [net EXCEPT ![Cs(p)].out = Append(@, Head(cgi[p].pipe))]
              \/ ~kid[p].open /\ Goto(p, "wait") /\ UNCHANGED net
              \/ /\ kid[p].open /\ Gone(p) /\ UNCHANGED net
                 /\ Becomes(p, [pc |-> "wait", open |-> FALSE, ready |-> FALSE])
  <2>1. PICK s, u : s = cgi[p].pipe /\ u = Head(s)  OBVIOUS
  <2>2. s \in Seq(Unit) /\ s # <<>> /\ u \in Unit /\ Tail(s) \in Seq(Unit)
    BY <1>2, <1>7, <2>1, OutsTail DEF Shape
  <2>3. /\ cgi'[p].pc = cgi[p].pc /\ cgi'[p].sock = cgi[p].sock /\ cgi'[p].left = cgi[p].left
        /\ cgi'[p].pipe = Tail(s) /\ cgi'[p].ok = cgi[p].ok
        /\ \A q \in Proc \ {p} : cgi'[q] = cgi[q]
        /\ DOMAIN cgi' = Proc /\ DOMAIN cgi'[p] = DOMAIN NoCgi
    <3> DEFINE f == [pipe |-> Tail(s)]
    <3>1. DOMAIN f = {"pipe"} /\ f["pipe"] = Tail(s) /\ Script(p, f)  BY <1>7, <2>1
    <3> HIDE DEF f
    <3>2. /\ \A x \in DOMAIN NoCgi : cgi'[p][x] = IF x \in DOMAIN f THEN f[x] ELSE cgi[p][x]
          /\ \A q \in Proc \ {p} : cgi'[q] = cgi[q]
          /\ DOMAIN cgi' = Proc /\ DOMAIN cgi'[p] = DOMAIN NoCgi
      BY <1>2, <3>1, ScriptAfter
    <3> QED  BY <3>1, <3>2 DEF NoCgi
  <2>4. cgi[p].pc # "head"  BY <1>2, <2>1, <2>2 DEF Going
  <2>5. cgi'[p].pipe \in Seq(Unit) /\ cgi'[p].left \in Nat  BY <1>2, <2>2, <2>3 DEF Shape
  <2>6. net[c].out \in Seq(Unit) /\ net[c].got \in Seq(Status) /\ Append(net[c].out, u) \in Seq(Unit)
    <3>1. net[c].out \in Seq(Unit) /\ net[c].got \in Seq(Status)  BY <1>2 DEF Shape
    <3> QED  BY <2>2, <3>1, AppendProperties
  <2>7. /\ DOMAIN net' = Client /\ \A x \in Client \ {c} : net'[x] = net[x]
        /\ DOMAIN net'[c] = DOMAIN net[c] /\ net'[c].at = net[c].at
        /\ net'[c].req = net[c].req /\ net'[c].got = net[c].got /\ net'[c].gone = net[c].gone
        /\ net'[c].out \in {net[c].out, Append(net[c].out, u)}
        /\ kid[p].open /\ ~net[c].gone => net'[c].out = Append(net[c].out, u)
    <3>1. CASE net' = [net EXCEPT ![c].out = Append(@, u)]
      <4>1. /\ DOMAIN net' = Client /\ net'[c] = [net[c] EXCEPT !.out = Append(@, u)]
            /\ \A x \in Client \ {c} : net'[x] = net[x]
        BY <1>2, <3>1 DEF Shape
      <4> QED  BY <1>2, <4>1 DEF Shape
    <3>2. CASE net' = net /\ ~(kid[p].open /\ ~net[c].gone)  BY <1>2, <3>2 DEF Shape
    <3>3. net' = [net EXCEPT ![c].out = Append(@, u)] \/ (net' = net /\ ~(kid[p].open /\ ~net[c].gone))
      BY <1>1, <1>7, <2>1 DEF Gone, Cs
    <3> QED  BY <3>1, <3>2, <3>3
  <2>8. Shape'
    <3>1. net'[c].out \in Seq(Unit)  BY <2>6, <2>7
    <3>2. log' \in [Client -> Seq(Status)] /\ faults' \in 0..Faults /\ net'[c].at \in {"home", "in", "out"}
      BY <1>2, <1>3, <2>7 DEF Shape
    <3> QED  BY <1>2, <1>3, <2>3, <2>5, <2>6, <2>7, <3>1, <3>2, ShapeAfter
  <2>9. /\ kid'[p].cs = c /\ kid'[p].req = kid[p].req /\ \A q \in Proc \ {p} : kid'[q] = kid[q]
        /\ kid'[p].ready = kid'[p].open /\ (kid'[p].open => kid[p].open)
        /\ \/ kid'[p].pc = "relay"
           \/ kid'[p].pc = "wait" /\ ~kid'[p].open
    <3>1. CASE UNCHANGED kid  BY <1>1, <1>2, <1>4, <3>1
    <3>2. CASE ~kid[p].open /\ Goto(p, "wait")  BY <1>1, <1>4, <3>2, GoesOn
    <3>3. CASE Becomes(p, [pc |-> "wait", open |-> FALSE, ready |-> FALSE])
      BY <1>1, <1>4, <3>3, GoesOnShut
    <3> QED  BY <1>7, <3>1, <3>2, <3>3
  <2>10. Going(p)'
    BY <1>2, <1>4, <2>3, <2>4, <2>9 DEF Going, Active, WithScript
  <2>11. Reading(p)'  BY <1>2, <1>4, <2>9 DEF Reading, Before, WithScript
  <2>12. Answering(p)'
    <3>1. /\ log[c] = <<>> /\ (kid[p].open => cgi[p].sock)
          /\ cgi[p].sock /\ ~net[c].gone => \E j \in 1..Len(net[c].got) : net[c].got[j] = 200
      BY <1>1, <1>2, <1>4, <2>4 DEF Answering, WithScript, Ended
    <3>2. kid'[p].pc \in WithScript /\ kid'[p].pc \notin Ended
          /\ kid'[p].pc \notin {"header", "toolong", "handle", "body", "cgi"}
      BY <2>9 DEF WithScript, Ended
    <3> QED  BY <1>3, <2>3, <2>4, <2>7, <2>9, <3>1, <3>2 DEF Answering
  <2>13. Relaying(p)'
    <3>1. Whole(p)' => kid[p].open /\ ~net[c].gone /\ Whole(p) /\ kid'[p].pc = "relay"
      BY <1>1, <2>7, <2>9 DEF Whole, Gone, Cs
    <3>2. Whole(p)' /\ cgi[p].ok => Outs(net'[c].out) + Outs(Tail(s)) + cgi[p].left = kid[p].req.script.out
      <4> SUFFICES ASSUME Whole(p)', cgi[p].ok
                   PROVE  Outs(net'[c].out) + Outs(Tail(s)) + cgi[p].left = kid[p].req.script.out
        OBVIOUS
      <4>1. net'[c].out = Append(net[c].out, Head(s))  BY <2>1, <2>7, <3>1
      <4>2. Outs(net[c].out) + Outs(s) + cgi[p].left = kid[p].req.script.out
        BY <1>1, <1>2, <1>4, <2>1, <3>1 DEF Relaying, WithScript
      <4>3. Outs(Append(net[c].out, Head(s))) + Outs(Tail(s)) = Outs(net[c].out) + Outs(s)
        BY <2>2, <2>6, OutsMoved
      <4> QED  BY <4>1, <4>2, <4>3
    <3>3. cgi'[p].pc = "exited" => cgi'[p].left = 0  BY <1>4, <2>3 DEF Relaying
    <3>4. kid'[p].pc \in WithScript /\ kid'[p].pc \notin Ended  BY <2>9 DEF WithScript, Ended
    <3> QED  BY <2>3, <2>9, <3>1, <3>2, <3>3, <3>4 DEF Relaying
  <2>14. Serves(p)'  BY <2>11, <2>12, <2>13 DEF Serves
  <2>15. Len(net'[c].got) <= Extra(c) + 1  BY <1>5, <2>7
  <2> QED  BY <1>1, <1>2, <1>3, <2>3, <2>7, <2>8, <2>9, <2>10, <2>14, <2>15, OneServes
<1> QED  BY <1>6, <1>7 DEF Relay

\* Whatever a child does.
LEMMA KidServes == ASSUME AnswersInv, KidShape, NEW p \in Proc, Kid(p) PROVE AnswersInv'
<1>1. CASE HeaderEnds(p)
  <2>1. /\ kid[p].pc = "header" /\ Local(p)
        /\ Stuck(p, kid[p].total, "handle") \/ CloseCs(p, kid[p].total, "handle")
    BY <1>1 DEF HeaderEnds, At
  <2> QED  BY <2>1, EndsReading
<1>2. CASE BodyEnds(p)
  <2>1. /\ kid[p].pc = "body" /\ Local(p)
        /\ Stuck(p, kid[p].post, "cgi") \/ CloseCs(p, kid[p].post, "cgi")
    BY <1>2 DEF BodyEnds, At
  <2> QED  BY <2>1, EndsReading
<1> QED  BY <1>1, <1>2, ReadHeaderServes, TooLongServes, HandleServes, ReadBodyServes, CloseServes,
            StartCgiServes, FeedServes, RelayServes, WaitCgiServes DEF Kid

\* Whatever a script does.
LEMMA CgiServes == ASSUME AnswersInv, KidShape, NEW p \in Proc, Cgi(p) PROVE AnswersInv'
<1>1. PICK c : c = kid[p].cs  OBVIOUS
<1>2. UNCHANGED <<srv, backlog, kid, log, faults>>
      /\ cgi[p].pc \in {"head", "reads", "writes"}
  BY DEF Cgi, ScriptHead, ScriptReads, ScriptWrites, ScriptExits
<1>3. kid[p].pc \in WithScript /\ Going(p) /\ Serves(p) /\ Shape
  BY <1>2 DEF AnswersInv, Going
<1>4. c \in Client /\ c # Null  BY <1>1, <1>3, NullAssumption DEF Going, Active
<1>5. Reading(p) /\ Answering(p) /\ Relaying(p) /\ kid[p].ready = kid[p].open
  BY <1>1, <1>3, <1>4 DEF Serves, Going
<1>6. Len(net[c].got) <= Extra(c) + 1  BY <1>4 DEF AnswersInv, Few
<1>7. kid[p].pc # "wait" \/ ~Whole(p)  BY <1>2, <1>5 DEF Relaying
<1>8. faults' \in 0..Faults /\ log' \in [Client -> Seq(Status)]  BY <1>2, <1>3 DEF Shape
<1>9. Reading(p)'
  <2>1. kid[p].pc \notin Before  BY <1>3 DEF WithScript, Before
  <2> QED  BY <1>2, <1>3, <1>5, <2>1 DEF Reading, WithScript, Before
<1>10. CASE ScriptHead(p)
  <2>1. PICK pipe : pipe = IF Terminal THEN <<"debug">> ELSE <<>>  OBVIOUS
  <2>2. pipe \in Seq(Unit) /\ Outs(pipe) = 0
    <3>1. CASE pipe = <<>>  BY <3>1, EmptySeq, OutsNone
    <3>2. CASE pipe = <<"debug">>
      <4>1. "debug" \in Unit /\ <<>> \in Seq(Unit)  BY EmptySeq DEF Unit
      <4>2. pipe = Append(<<>>, "debug")  BY <3>2
      <4>3. Outs(Append(<<>>, "debug")) = Outs(<<>>) + 0  BY <4>1, OutsAppend
      <4> QED  BY <3>2, <4>1, <4>2, <4>3, OutsNone
    <3> QED  BY <2>1, <3>1, <3>2
  <2>3. /\ cgi[p].pc = "head" /\ cgi'[p].pc \in {"reads", "writes"} /\ cgi'[p].sock = cgi[p].sock
        /\ cgi'[p].pipe = pipe /\ \A q \in Proc \ {p} : cgi'[q] = cgi[q]
        /\ \/ cgi'[p].left = cgi[p].left /\ cgi'[p].ok = cgi[p].ok
           \/ cgi'[p].left = 1 /\ cgi'[p].ok = FALSE
        /\ DOMAIN cgi' = Proc /\ DOMAIN cgi'[p] = DOMAIN NoCgi
    <3>1. CASE Script(p, [pc |-> "reads", pipe |-> pipe])
      <4> DEFINE f == [pc |-> "reads", pipe |-> pipe]
      <4>1. DOMAIN f = {"pc", "pipe"} /\ f["pc"] = "reads" /\ f["pipe"] = pipe /\ Script(p, f)  BY <3>1
      <4> HIDE DEF f
      <4>2. /\ \A x \in DOMAIN NoCgi : cgi'[p][x] = IF x \in DOMAIN f THEN f[x] ELSE cgi[p][x]
            /\ \A q \in Proc \ {p} : cgi'[q] = cgi[q]
            /\ DOMAIN cgi' = Proc /\ DOMAIN cgi'[p] = DOMAIN NoCgi
        BY <1>3, <4>1, ScriptAfter
      <4> QED  BY <1>10, <4>1, <4>2 DEF NoCgi, ScriptHead
    <3>2. CASE Script(p, [pc |-> "writes", pipe |-> pipe, left |-> 1, ok |-> FALSE])
      <4> DEFINE f == [pc |-> "writes", pipe |-> pipe, left |-> 1, ok |-> FALSE]
      <4>1. /\ DOMAIN f = {"pc", "pipe", "left", "ok"} /\ f["pc"] = "writes" /\ f["pipe"] = pipe
            /\ f["left"] = 1 /\ f["ok"] = FALSE /\ Script(p, f)
        BY <3>2
      <4> HIDE DEF f
      <4>2. /\ \A x \in DOMAIN NoCgi : cgi'[p][x] = IF x \in DOMAIN f THEN f[x] ELSE cgi[p][x]
            /\ \A q \in Proc \ {p} : cgi'[q] = cgi[q]
            /\ DOMAIN cgi' = Proc /\ DOMAIN cgi'[p] = DOMAIN NoCgi
        BY <1>3, <4>1, ScriptAfter
      <4> QED  BY <1>10, <4>1, <4>2 DEF NoCgi, ScriptHead
    <3> QED  BY <1>10, <2>1, <3>1, <3>2 DEF ScriptHead
  <2>4. PICK g : g = Append(net[c].got, 200)  OBVIOUS
  <2>5. /\ g \in Seq(Status) /\ Len(g) = Len(net[c].got) + 1 /\ Len(g) \in 1..Len(g) /\ g[Len(g)] = 200
    <3>1. 200 \in Status /\ net[c].got \in Seq(Status)  BY <1>3, <1>4 DEF Shape, Status
    <3>2. /\ g \in Seq(Status) /\ Len(g) = Len(net[c].got) + 1 /\ g[Len(net[c].got) + 1] = 200
      BY <2>4, <3>1, AppendProperties
    <3>3. Len(net[c].got) \in Nat  BY <3>1, LenProperties
    <3>4. Len(g) \in 1..Len(g)  BY <3>2, <3>3
    <3> QED  BY <3>2, <3>4
  <2>6. /\ DOMAIN net' = Client /\ \A x \in Client \ {c} : net'[x] = net[x]
        /\ DOMAIN net'[c] = DOMAIN net[c] /\ net'[c].at = net[c].at
        /\ net'[c].req = net[c].req /\ net'[c].out = net[c].out /\ net'[c].gone = net[c].gone
        /\ net'[c].got \in {net[c].got, g}
        /\ cgi[p].sock /\ ~net[c].gone => net'[c].got = g
    <3>1. CASE net' = [net EXCEPT ![c].got = Append(@, 200)]
      <4>1. /\ DOMAIN net' = Client /\ net'[c] = [net[c] EXCEPT !.got = g]
            /\ \A x \in Client \ {c} : net'[x] = net[x]
        BY <1>3, <1>4, <2>4, <3>1 DEF Shape
      <4> QED  BY <1>3, <1>4, <4>1 DEF Shape
    <3>2. CASE net' = net /\ ~(cgi[p].sock /\ ~net[c].gone)  BY <1>3, <1>4, <3>2 DEF Shape
    <3> QED  BY <1>1, <1>10, <3>1, <3>2 DEF ScriptHead, Gone, Cs
  <2>7. Len(net[c].got) <= Extra(c) /\ cgi[p].pipe = <<>>  BY <1>1, <1>3, <1>5, <2>3 DEF Answering, Going
  <2>8. Len(net'[c].got) <= Extra(c) + 1
    <3>1. Len(net[c].got) \in Nat /\ Extra(c) \in {0, 1}  BY <1>3, <1>4, Asks, LenProperties DEF Shape
    <3>2. Len(net'[c].got) \in {Len(net[c].got), Len(net[c].got) + 1}  BY <2>5, <2>6
    <3> QED  BY <2>7, <3>1, <3>2
  <2>9. Shape'
    <3>1. cgi'[p].pipe \in Seq(Unit) /\ cgi'[p].left \in Nat  BY <1>3, <2>2, <2>3 DEF Shape
    <3>2. net'[c].got \in Seq(Status) /\ net'[c].out \in Seq(Unit) /\ net'[c].at \in {"home", "in", "out"}
      BY <1>3, <1>4, <2>5, <2>6 DEF Shape
    <3> QED  BY <1>2, <1>3, <1>4, <1>8, <2>3, <2>6, <3>1, <3>2, ShapeAfter
  <2>10. Going(p)'  BY <1>2, <1>3, <2>3 DEF Going
  <2>11. Whole(p)' => Whole(p)  BY <1>1, <1>2, <2>6 DEF Whole, Gone, Cs
  <2>12. Answering(p)'
    <3>1. cgi[p].sock /\ ~net[c].gone => \E j \in 1..Len(net'[c].got) : net'[c].got[j] = 200
      BY <2>5, <2>6
    <3>2. kid[p].pc \in WithScript /\ kid[p].pc \notin Ended
          /\ kid[p].pc \notin {"header", "toolong", "handle", "body", "cgi"}
      BY <1>3 DEF WithScript, Ended
    <3>3. log[c] = <<>> /\ (kid[p].open => cgi[p].sock)  BY <1>1, <1>5, <3>2 DEF Answering
    <3> QED  BY <1>1, <1>2, <2>3, <2>6, <3>1, <3>2, <3>3 DEF Answering
  <2>13. Relaying(p)'
    <3>1. Whole(p)' /\ cgi'[p].ok =>
             Outs(net'[c].out) + Outs(cgi'[p].pipe) + cgi'[p].left = kid[p].req.script.out
      <4> SUFFICES ASSUME Whole(p)', cgi'[p].ok
                   PROVE  Outs(net'[c].out) + Outs(cgi'[p].pipe) + cgi'[p].left = kid[p].req.script.out
        OBVIOUS
      <4>1. cgi'[p].left = cgi[p].left /\ cgi[p].ok  BY <2>3
      <4>2. Outs(net[c].out) + Outs(cgi[p].pipe) + cgi[p].left = kid[p].req.script.out
        BY <1>1, <1>3, <1>5, <2>11, <4>1 DEF Relaying
      <4> QED  BY <2>2, <2>3, <2>6, <2>7, <4>1, <4>2, OutsNone
    <3>2. kid[p].pc \in WithScript /\ kid[p].pc \notin Ended  BY <1>3 DEF WithScript, Ended
    <3>3. ~(kid[p].pc = "wait" /\ Whole(p)')  BY <1>7, <2>11
    <3> QED  BY <1>1, <1>2, <2>3, <3>1, <3>2, <3>3 DEF Relaying
  <2>14. Serves(p)'  BY <1>9, <2>12, <2>13 DEF Serves
  <2> QED  BY <1>1, <1>2, <1>4, <2>3, <2>6, <2>8, <2>9, <2>10, <2>14, OneServes
<1>11. CASE ScriptReads(p) \/ ScriptWrites(p) \/ ScriptExits(p)
  <2>1. /\ UNCHANGED net /\ cgi[p].pc \in {"reads", "writes"} /\ cgi'[p].pc \in {"writes", "exited"}
        /\ cgi'[p].sock = cgi[p].sock /\ (cgi'[p].ok => cgi[p].ok)
        /\ \/ cgi'[p].pipe = cgi[p].pipe /\ cgi'[p].left = cgi[p].left
           \/ /\ cgi[p].left > 0 /\ cgi'[p].pc = "writes"
              /\ cgi'[p].pipe = Append(cgi[p].pipe, "out") /\ cgi'[p].left = cgi[p].left - 1
        /\ cgi'[p].pc = "exited" => cgi[p].left = 0 /\ cgi'[p].left = 0
        /\ \A q \in Proc \ {p} : cgi'[q] = cgi[q]
        /\ DOMAIN cgi' = Proc /\ DOMAIN cgi'[p] = DOMAIN NoCgi
    <3>1. CASE ScriptReads(p)
      <4> DEFINE f == [pc |-> "writes"]
      <4>1. DOMAIN f = {"pc"} /\ f["pc"] = "writes" /\ Script(p, f)  BY <3>1 DEF ScriptReads
      <4> HIDE DEF f
      <4>2. /\ \A x \in DOMAIN NoCgi : cgi'[p][x] = IF x \in DOMAIN f THEN f[x] ELSE cgi[p][x]
            /\ \A q \in Proc \ {p} : cgi'[q] = cgi[q]
            /\ DOMAIN cgi' = Proc /\ DOMAIN cgi'[p] = DOMAIN NoCgi
        BY <1>3, <4>1, ScriptAfter
      <4> QED  BY <3>1, <4>1, <4>2 DEF NoCgi, ScriptReads
    <3>2. CASE ScriptWrites(p)
      <4> DEFINE f == [pipe |-> Append(cgi[p].pipe, "out"), left |-> cgi[p].left - 1]
      <4>1. /\ DOMAIN f = {"pipe", "left"} /\ f["pipe"] = Append(cgi[p].pipe, "out")
            /\ f["left"] = cgi[p].left - 1 /\ Script(p, f)
        BY <3>2 DEF ScriptWrites
      <4> HIDE DEF f
      <4>2. /\ \A x \in DOMAIN NoCgi : cgi'[p][x] = IF x \in DOMAIN f THEN f[x] ELSE cgi[p][x]
            /\ \A q \in Proc \ {p} : cgi'[q] = cgi[q]
            /\ DOMAIN cgi' = Proc /\ DOMAIN cgi'[p] = DOMAIN NoCgi
        BY <1>3, <4>1, ScriptAfter
      <4> QED  BY <3>2, <4>1, <4>2 DEF NoCgi, ScriptWrites
    <3>3. CASE ScriptExits(p)
      <4>1. PICK ok \in {cgi[p].ok, FALSE} : Script(p, [pc |-> "exited", ok |-> ok])
        BY <3>3 DEF ScriptExits
      <4> DEFINE f == [pc |-> "exited", ok |-> ok]
      <4>2. DOMAIN f = {"pc", "ok"} /\ f["pc"] = "exited" /\ f["ok"] = ok /\ Script(p, f)  BY <4>1
      <4> HIDE DEF f
      <4>3. /\ \A x \in DOMAIN NoCgi : cgi'[p][x] = IF x \in DOMAIN f THEN f[x] ELSE cgi[p][x]
            /\ \A q \in Proc \ {p} : cgi'[q] = cgi[q]
            /\ DOMAIN cgi' = Proc /\ DOMAIN cgi'[p] = DOMAIN NoCgi
        BY <1>3, <4>2, ScriptAfter
      <4>4. /\ cgi'[p].pc = "exited" /\ cgi'[p].ok = ok /\ cgi'[p].sock = cgi[p].sock
            /\ cgi'[p].pipe = cgi[p].pipe /\ cgi'[p].left = cgi[p].left
        BY <4>2, <4>3 DEF NoCgi
      <4>5. UNCHANGED net /\ cgi[p].pc = "writes" /\ cgi[p].left = 0  BY <3>3 DEF ScriptExits
      <4>6. ok => cgi[p].ok  OBVIOUS
      <4> QED  BY <4>3, <4>4, <4>5, <4>6
    <3> QED  BY <1>11, <3>1, <3>2, <3>3
  <2>2. /\ cgi[p].pipe \in Seq(Unit) /\ cgi[p].left \in Nat /\ "out" \in Unit
        /\ net[c].out \in Seq(Unit)
    BY <1>3, <1>4 DEF Shape, Unit
  <2>3. cgi'[p].pipe \in Seq(Unit) /\ cgi'[p].left \in Nat
        /\ Outs(cgi'[p].pipe) + cgi'[p].left = Outs(cgi[p].pipe) + cgi[p].left
    <3>1. CASE cgi'[p].pipe = cgi[p].pipe /\ cgi'[p].left = cgi[p].left  BY <2>2, <3>1
    <3>2. CASE /\ cgi[p].left > 0 /\ cgi'[p].pipe = Append(cgi[p].pipe, "out")
               /\ cgi'[p].left = cgi[p].left - 1
      <4>1. PICK s : s = cgi[p].pipe  OBVIOUS
      <4>2. Outs(s) \in Nat /\ Append(s, "out") \in Seq(Unit) /\ Outs(Append(s, "out")) = Outs(s) + 1
        BY <2>2, <4>1, OutsType, LenProperties, AppendProperties, OutsAppend
      <4>3. PICK n \in Nat : n = cgi[p].left  BY <2>2
      <4>4. n > 0 /\ cgi'[p].left = n - 1 /\ cgi'[p].pipe = Append(s, "out")  BY <3>2, <4>1, <4>3
      <4> QED  BY <4>1, <4>2, <4>3, <4>4
    <3> QED  BY <2>1, <3>1, <3>2
  <2>4. Shape'  BY <1>2, <1>3, <2>1, <2>3 DEF Shape
  <2>5. Going(p)'  BY <1>2, <1>3, <2>1 DEF Going
  <2>6. Whole(p)' <=> Whole(p)  BY <1>2, <2>1 DEF Whole, Gone, Cs
  <2>7. kid[p].pc \in WithScript /\ kid[p].pc \notin Ended
        /\ kid[p].pc \notin {"header", "toolong", "handle", "body", "cgi"}
    BY <1>3 DEF WithScript, Ended
  <2>8. Answering(p)'
    <3>1. /\ log[c] = <<>> /\ (kid[p].open => cgi[p].sock)
          /\ cgi[p].sock /\ ~net[c].gone => \E j \in 1..Len(net[c].got) : net[c].got[j] = 200
      BY <1>1, <1>5, <2>1, <2>7 DEF Answering
    <3> QED  BY <1>1, <1>2, <2>1, <2>7, <3>1 DEF Answering
  <2>9. Relaying(p)'
    <3>1. Whole(p)' /\ cgi'[p].ok =>
             Outs(net'[c].out) + Outs(cgi'[p].pipe) + cgi'[p].left = kid[p].req.script.out
      <4> SUFFICES ASSUME Whole(p)', cgi'[p].ok
                   PROVE  Outs(net'[c].out) + Outs(cgi'[p].pipe) + cgi'[p].left = kid[p].req.script.out
        OBVIOUS
      <4>1. Outs(net[c].out) + Outs(cgi[p].pipe) + cgi[p].left = kid[p].req.script.out
        BY <1>1, <1>3, <1>5, <2>1, <2>6 DEF Relaying
      <4>2. Outs(net[c].out) \in Nat /\ Outs(cgi[p].pipe) \in Nat /\ Outs(cgi'[p].pipe) \in Nat
        BY <2>2, <2>3, OutsType, LenProperties
      <4>3. net'[c].out = net[c].out  BY <2>1
      <4>4. PICK a, b, l, d, e : /\ a = Outs(net[c].out) /\ b = Outs(cgi[p].pipe) /\ l = cgi[p].left
                                 /\ d = Outs(cgi'[p].pipe) /\ e = cgi'[p].left
        OBVIOUS
      <4>5. a \in Nat /\ b \in Nat /\ l \in Nat /\ d \in Nat /\ e \in Nat /\ d + e = b + l
            /\ a + b + l = kid[p].req.script.out
        BY <2>2, <2>3, <4>1, <4>2, <4>4
      <4>6. a + d + e = a + b + l  BY <4>5, SameSum
      <4> QED  BY <4>3, <4>4, <4>5, <4>6
    <3>2. ~(kid[p].pc = "wait" /\ Whole(p)')  BY <1>7, <2>6
    <3> QED  BY <1>1, <1>2, <2>1, <2>7, <3>1, <3>2 DEF Relaying
  <2>10. Serves(p)'  BY <1>9, <2>1, <2>8, <2>9 DEF Serves
  <2> QED  BY <1>1, <1>2, <1>4, <1>6, <2>1, <2>4, <2>5, <2>10, OneServes
<1> QED  BY <1>10, <1>11 DEF Cgi

-----------------------------------------------------------------------------
(* The clients and the server.                                             *)

\* Nobody has been told anything at first.
LEMMA AnswersInit == Init => AnswersInv
<1> SUFFICES ASSUME Init PROVE AnswersInv  OBVIOUS
<1>1. PICK req \in [Client -> UNION {Requests[c] : c \in Client}] :
        /\ \A c \in Client : req[c] \in Requests[c]
        /\ net = [c \in Client |-> [req |-> req[c], at |-> "home", sent |-> 0, gone |-> FALSE,
                                    got |-> <<>>, out |-> <<>>]]
  BY DEF Init
<1>2. /\ srv.cs = Null /\ backlog = <<>> /\ kid = [p \in Proc |-> NoKid] /\ cgi = [p \in Proc |-> NoCgi]
      /\ log = [c \in Client |-> <<>>] /\ faults = Faults
  BY DEF Init
<1>3. \A c \in Client :
         /\ DOMAIN net[c] = {"req", "at", "sent", "gone", "got", "out"} /\ net[c].req \in Requests[c]
         /\ net[c].at = "home" /\ net[c].got = <<>> /\ net[c].out = <<>>
  BY <1>1
<1>4. /\ <<>> \in Seq(Client) /\ <<>> \in Seq(Status) /\ <<>> \in Seq(Unit) /\ Len(<<>>) = 0
  BY EmptySeq
<1>5. NoKid.cs = Null /\ NoKid.pc = "none" /\ NoKid.ready = NoKid.open  BY DEF NoKid
<1>6. NoCgi.pc = "none" /\ NoCgi.pipe = <<>> /\ NoCgi.left = 0  BY DEF NoCgi
<1>7. Shape
  <2>1. DOMAIN net = Client  BY <1>1
  <2>2. faults \in 0..Faults  BY <1>2, BoundsAssumption
  <2>3. log \in [Client -> Seq(Status)]  BY <1>2, <1>4
  <2>4. \A p \in Proc : /\ DOMAIN cgi[p] = DOMAIN NoCgi
                        /\ cgi[p].pipe \in Seq(Unit) /\ cgi[p].left \in Nat
    <3>1. \A p \in Proc : cgi[p] = NoCgi  BY <1>2
    <3>2. NoCgi.pipe \in Seq(Unit) /\ NoCgi.left \in Nat  BY <1>4, <1>6
    <3> QED  BY <3>1, <3>2
  <2>5. DOMAIN cgi = Proc  BY <1>2
  <2>6. \A c \in Client :
          /\ DOMAIN net[c] = {"req", "at", "sent", "gone", "got", "out"}
          /\ net[c].req \in Requests[c] /\ net[c].at \in {"home", "in", "out"}
          /\ net[c].got \in Seq(Status) /\ net[c].out \in Seq(Unit)
    BY <1>3, <1>4
  <2>7. srv.cs \in Client \cup {Null} /\ backlog \in Seq(Client)  BY <1>2, <1>4
  <2> QED  BY <2>1, <2>2, <2>3, <2>4, <2>5, <2>6, <2>7 DEF Shape
<1>8. Placed
  <2>1. \A p \in Proc : kid[p].cs = Null  BY <1>2, <1>5
  <2>2. \A c \in Client : NoKidHas(c) /\ Untold(c) /\ srv.cs # c
    BY <1>2, <1>3, <2>1, NullAssumption DEF NoKidHas, Untold
  <2>3. 1..Len(backlog) = {}  BY <1>2, <1>4
  <2> QED  BY <1>2, <2>1, <2>2, <2>3 DEF Placed
<1>9. Few  BY <1>3, <1>4 DEF Few, Extra
<1>10. \A p \in Proc : Going(p) /\ Serves(p)
  <2> SUFFICES ASSUME NEW p \in Proc PROVE Going(p) /\ Serves(p)  OBVIOUS
  <2>1. kid[p] = NoKid /\ cgi[p] = NoCgi  BY <1>2
  <2> QED  BY <1>5, <1>6, <2>1 DEF Going, Serves, WithScript, Active, Before
<1> QED  BY <1>7, <1>8, <1>9, <1>10 DEF AnswersInv

\* A client that connects waits in the backlog.
LEMMA ConnectServes == ASSUME AnswersInv, NEW c \in Client, Connect(c) PROVE AnswersInv'
<1>1. /\ UNCHANGED <<srv, kid, cgi, log, faults>> /\ net[c].at = "home"
      /\ net' = [net EXCEPT ![c].at = "in"] /\ backlog' = Append(backlog, c)
  BY DEF Connect
<1>2. Shape  BY DEF AnswersInv
<1>3. /\ DOMAIN net' = Client /\ \A x \in Client \ {c} : net'[x] = net[x]
      /\ DOMAIN net'[c] = DOMAIN net[c] /\ net'[c].at = "in"
  <2>1. /\ DOMAIN net' = Client /\ net'[c] = [net[c] EXCEPT !.at = "in"]
        /\ \A x \in Client \ {c} : net'[x] = net[x]
    BY <1>1, <1>2 DEF Shape
  <2> QED  BY <1>2, <2>1 DEF Shape
<1>4. \A x \in Client : /\ net'[x].req = net[x].req /\ net'[x].got = net[x].got
                        /\ net'[x].out = net[x].out /\ net'[x].gone = net[x].gone
  <2>1. net'[c] = [net[c] EXCEPT !.at = "in"]  BY <1>1, <1>2 DEF Shape
  <2>2. DOMAIN net[c] = {"req", "at", "sent", "gone", "got", "out"}  BY <1>2 DEF Shape
  <2>3. /\ net'[c].req = net[c].req /\ net'[c].got = net[c].got
        /\ net'[c].out = net[c].out /\ net'[c].gone = net[c].gone
    BY <2>1, <2>2
  <2> QED  BY <1>3, <2>3
<1>5. PICK n : n = Len(backlog)  OBVIOUS
<1>6. /\ n \in Nat /\ backlog' \in Seq(Client) /\ Len(backlog') = n + 1
      /\ \A i \in 1..n : backlog'[i] = backlog[i] /\ backlog[i] \in Client
      /\ backlog'[n + 1] = c
  <2>1. backlog \in Seq(Client)  BY <1>2 DEF Shape
  <2> QED  BY <1>1, <1>5, <2>1, AppendProperties, LenProperties, ElementOfSeq
<1>7. \A i \in 1..n + 1 : i \in 1..n \/ i = n + 1  BY <1>6
<1>8. Shape'  BY <1>1, <1>2, <1>3, <1>4, <1>6 DEF Shape
<1>9. \A x \in Client : Untold(x) => Untold(x)'  BY <1>1, <1>4 DEF Untold
<1>10. \A x : NoKidHas(x)' <=> NoKidHas(x)  BY <1>1 DEF NoKidHas
<1>11. Untold(c) /\ NoKidHas(c) /\ srv.cs # c /\ \A i \in 1..n : backlog[i] # c
  BY <1>1, <1>5 DEF AnswersInv, Placed
<1>12. Placed'
  <2>1. ASSUME NEW x \in Client, net'[x].at = "home"
        PROVE  Untold(x)' /\ NoKidHas(x)' /\ srv'.cs # x /\ \A i \in 1..Len(backlog') : backlog'[i] # x
    <3>1. x # c /\ net[x].at = "home"  BY <1>3, <2>1
    <3>2. Untold(x) /\ NoKidHas(x) /\ srv.cs # x /\ \A i \in 1..n : backlog[i] # x
      BY <1>5, <3>1 DEF AnswersInv, Placed
    <3> QED  BY <1>1, <1>6, <1>7, <1>9, <1>10, <3>1, <3>2
  <2>2. ASSUME NEW i \in 1..Len(backlog'), NEW x, x = backlog'[i]
        PROVE  Untold(x)' /\ NoKidHas(x)' /\ srv'.cs # x
    <3>1. CASE i \in 1..n
      <4>1. x = backlog[i] /\ x \in Client  BY <1>6, <2>2, <3>1
      <4>2. Untold(x) /\ NoKidHas(x) /\ srv.cs # x  BY <1>5, <3>1, <4>1 DEF AnswersInv, Placed
      <4> QED  BY <1>1, <1>9, <1>10, <4>1, <4>2
    <3>2. CASE i = n + 1
      <4>1. x = c  BY <1>6, <2>2, <3>2
      <4> QED  BY <1>1, <1>9, <1>10, <1>11, <4>1
    <3> QED  BY <1>6, <1>7, <3>1, <3>2
  <2>3. ASSUME NEW i \in 1..Len(backlog'), NEW j \in 1..Len(backlog'), backlog'[i] = backlog'[j] PROVE i = j
    <3>1. i \in 1..n \/ i = n + 1  BY <1>6, <1>7
    <3>2. j \in 1..n \/ j = n + 1  BY <1>6, <1>7
    <3>3. \A a, b \in 1..n : backlog[a] = backlog[b] => a = b  BY <1>5 DEF AnswersInv, Placed
    <3> QED  BY <1>6, <1>11, <2>3, <3>1, <3>2, <3>3
  <2>4. srv'.cs # Null => Untold(srv.cs)' /\ NoKidHas(srv.cs)'
    <3>1. srv.cs # Null => srv.cs \in Client /\ Untold(srv.cs) /\ NoKidHas(srv.cs)
      BY <1>2 DEF AnswersInv, Placed, Shape
    <3>2. PICK x : x = srv.cs  OBVIOUS
    <3> QED  BY <1>1, <1>9, <1>10, <3>1, <3>2
  <2>5. \A p, q \in Proc : kid'[p].cs = kid'[q].cs /\ kid'[p].cs # Null => p = q
    BY <1>1 DEF AnswersInv, Placed
  <2> QED  BY <2>1, <2>2, <2>3, <2>4, <2>5 DEF Placed
<1>13. Few'  BY <1>4 DEF Few, AnswersInv, Extra
<1>14. ASSUME NEW p \in Proc PROVE Going(p)' /\ Serves(p)'
  <2>1. Going(p) /\ Serves(p)  BY DEF AnswersInv
  <2>2. kid[p].cs # Null => kid[p].cs \in Client  BY <2>1 DEF Going
  <2> QED  BY <1>1, <1>4, <2>1, <2>2, Undisturbed
<1> QED  BY <1>8, <1>12, <1>13, <1>14 DEF AnswersInv


\* A step that says nothing, and changes no child, leaves what was said as it is.
LEMMA QuietServes ==
    ASSUME AnswersInv, Shape', Placed', UNCHANGED <<kid, cgi, log>>,
           \A x \in Client : /\ net'[x].req = net[x].req /\ net'[x].got = net[x].got
                             /\ net'[x].out = net[x].out /\ (net[x].gone => net'[x].gone)
    PROVE  AnswersInv'
<1>1. Few'  BY DEF Few, AnswersInv, Extra
<1>2. ASSUME NEW p \in Proc PROVE Going(p)' /\ Serves(p)'
  <2>1. Going(p) /\ Serves(p)  BY DEF AnswersInv
  <2>2. kid[p].cs # Null => kid[p].cs \in Client  BY <2>1 DEF Going
  <2> QED  BY <2>1, <2>2, Undisturbed
<1> QED  BY <1>1, <1>2 DEF AnswersInv

\* A connection that is only let go of is nowhere else.
LEMMA PlacedAfter ==
    ASSUME AnswersInv, UNCHANGED log, backlog' \in {backlog, <<>>}, srv'.cs \in {srv.cs, Null},
           \A x \in Client : /\ net'[x].got = net[x].got /\ net'[x].out = net[x].out
                             /\ (net'[x].at = "home" => net[x].at = "home"),
           \A p \in Proc : kid'[p].cs \in {kid[p].cs, Null}
    PROVE  Placed'
<1>1. Shape /\ Placed  BY DEF AnswersInv
<1>2. \A x \in Client : Untold(x) => Untold(x)'  BY DEF Untold
<1>3. \A x \in Client : NoKidHas(x) => NoKidHas(x)'  BY NullAssumption DEF NoKidHas
<1>4. Len(backlog') \in Nat /\ \A i \in 1..Len(backlog') : i \in 1..Len(backlog) /\ backlog'[i] = backlog[i]
  <2>1. CASE backlog' = backlog  BY <1>1, <2>1, LenProperties DEF Shape
  <2>2. CASE backlog' = <<>>
    <3>1. Len(<<>>) = 0  BY EmptySeq
    <3> QED  BY <2>2, <3>1
  <2> QED  BY <2>1, <2>2
<1>5. \A i \in 1..Len(backlog) : backlog[i] \in Client  BY <1>1, ElementOfSeq DEF Shape
<1>6. \A x \in Client : net'[x].at = "home" =>
         Untold(x)' /\ NoKidHas(x)' /\ srv'.cs # x /\ \A i \in 1..Len(backlog') : backlog'[i] # x
  BY <1>1, <1>2, <1>3, <1>4, NullAssumption DEF Placed
<1>7. \A i \in 1..Len(backlog') : Untold(backlog[i])' /\ NoKidHas(backlog[i])' /\ srv'.cs # backlog'[i]
  <2> SUFFICES ASSUME NEW i \in 1..Len(backlog'), NEW x, x = backlog'[i]
               PROVE  Untold(x)' /\ NoKidHas(x)' /\ srv'.cs # x
    OBVIOUS
  <2>1. i \in 1..Len(backlog) /\ x = backlog[i] /\ x \in Client  BY <1>4, <1>5
  <2>2. Untold(x) /\ NoKidHas(x) /\ srv.cs # x  BY <1>1, <2>1 DEF Placed
  <2> QED  BY <1>2, <1>3, <2>1, <2>2, NullAssumption
<1>8. \A i, j \in 1..Len(backlog') : backlog'[i] = backlog'[j] => i = j  BY <1>1, <1>4 DEF Placed
<1>9. srv'.cs # Null => Untold(srv.cs)' /\ NoKidHas(srv.cs)'
  <2> SUFFICES ASSUME NEW x, x = srv'.cs, x # Null PROVE Untold(x)' /\ NoKidHas(x)'  OBVIOUS
  <2>1. x = srv.cs /\ x \in Client  BY <1>1 DEF Shape
  <2> QED  BY <1>1, <1>2, <1>3, <2>1 DEF Placed
<1>10. \A p, q \in Proc : kid'[p].cs = kid'[q].cs /\ kid'[p].cs # Null => p = q  BY <1>1 DEF Placed
<1> QED  BY <1>6, <1>7, <1>8, <1>9, <1>10 DEF Placed

\* A client that sends, or leaves, says nothing about its own answer.
LEMMA ClientServes ==
    ASSUME AnswersInv, NEW c \in Client, Sends(c) \/ Leaves(c) PROVE AnswersInv'
<1>1. /\ UNCHANGED <<srv, backlog, kid, cgi, log, faults>>
      /\ \/ net' = [net EXCEPT ![c].sent = @ + 1]
         \/ net' = [net EXCEPT ![c].gone = TRUE]
  BY DEF Sends, Leaves
<1>2. Shape  BY DEF AnswersInv
<1>3. /\ DOMAIN net' = Client
      /\ \A x \in Client : /\ DOMAIN net'[x] = DOMAIN net[x] /\ net'[x].at = net[x].at
                           /\ net'[x].req = net[x].req /\ net'[x].got = net[x].got
                           /\ net'[x].out = net[x].out /\ (net[x].gone => net'[x].gone)
  <2>1. DOMAIN net = Client /\ DOMAIN net[c] = {"req", "at", "sent", "gone", "got", "out"}
    BY <1>2 DEF Shape
  <2>2. PICK n : \/ n = [net[c] EXCEPT !.sent = @ + 1]
                 \/ n = [net[c] EXCEPT !.gone = TRUE]
        /\ net' = [net EXCEPT ![c] = n]
    <3>1. CASE net' = [net EXCEPT ![c].sent = @ + 1]  BY <3>1
    <3>2. CASE net' = [net EXCEPT ![c].gone = TRUE]  BY <3>2
    <3> QED  BY <1>1, <3>1, <3>2
  <2>3. /\ DOMAIN n = DOMAIN net[c] /\ n.at = net[c].at /\ n.req = net[c].req /\ n.got = net[c].got
        /\ n.out = net[c].out /\ (net[c].gone => n.gone)
    BY <2>1, <2>2
  <2>4. net'[c] = n /\ \A x \in Client \ {c} : net'[x] = net[x]  BY <2>1, <2>2
  <2> QED  BY <2>1, <2>2, <2>3, <2>4
<1>4. Shape'  BY <1>1, <1>2, <1>3 DEF Shape
<1>5. Placed'
  <2>1. backlog' = backlog /\ srv'.cs = srv.cs /\ UNCHANGED log /\ \A p \in Proc : kid'[p].cs = kid[p].cs
    BY <1>1
  <2> QED  BY <1>3, <2>1, PlacedAfter
<1> QED  BY <1>1, <1>3, <1>4, <1>5, QuietServes

\* The server takes the oldest connection of the backlog into its hands.
LEMMA AcceptServes == ASSUME AnswersInv, Accept, SrvShape PROVE AnswersInv'
<1>1. Shape /\ Placed /\ UNCHANGED <<net, kid, cgi, log>>  BY DEF AnswersInv, Accept
<1>2. CASE backlog # <<>> /\ srv' = [srv EXCEPT !.pc = "fork", !.cs = Head(backlog)]
           /\ backlog' = Tail(backlog) /\ UNCHANGED faults
  <2>1. PICK c, n : c = Head(backlog) /\ n = Len(backlog)  OBVIOUS
  <2>2. /\ n \in Nat /\ n # 0 /\ backlog' \in Seq(Client) /\ Len(backlog') = n - 1
        /\ c \in Client /\ c = backlog[1]
        /\ \A i \in 1..n - 1 : backlog'[i] = backlog[i + 1]
    <3>1. backlog \in Seq(Client)  BY <1>1 DEF Shape
    <3> QED  BY <1>2, <2>1, <3>1, HeadTailProperties, LenProperties, EmptySeq
  <2>3. srv'.cs = c  BY <1>2, <2>1 DEF SrvShape
  <2>4. \A i \in 1..n : backlog[i] \in Client  BY <1>1, <2>1, ElementOfSeq DEF Shape
  <2>5. 1 \in 1..n /\ \A i \in 1..n - 1 : i + 1 \in 1..n /\ i + 1 # 1  BY <2>2
  <2>6. \A x : (Untold(x)' <=> Untold(x)) /\ (NoKidHas(x)' <=> NoKidHas(x))  BY <1>1 DEF Untold, NoKidHas
  <2>7. Shape'  BY <1>1, <1>2, <2>2, <2>3 DEF Shape
  <2>8. Placed'
    <3>1. ASSUME NEW x \in Client, net'[x].at = "home"
          PROVE  Untold(x)' /\ NoKidHas(x)' /\ srv'.cs # x /\ \A i \in 1..Len(backlog') : backlog'[i] # x
      <4>1. Untold(x) /\ NoKidHas(x) /\ \A i \in 1..n : backlog[i] # x
        BY <1>1, <2>1, <3>1 DEF Placed
      <4> QED  BY <2>2, <2>3, <2>5, <2>6, <4>1
    <3>2. ASSUME NEW i \in 1..Len(backlog'), NEW x, x = backlog'[i]
          PROVE  Untold(x)' /\ NoKidHas(x)' /\ srv'.cs # x
      <4>1. i + 1 \in 1..n /\ x = backlog[i + 1] /\ i + 1 # 1  BY <2>2, <2>5, <3>2
      <4>2. Untold(x) /\ NoKidHas(x)  BY <1>1, <2>1, <4>1 DEF Placed
      <4>3. x # c  BY <1>1, <2>1, <2>2, <2>5, <4>1 DEF Placed
      <4> QED  BY <2>3, <2>6, <4>2, <4>3
    <3>3. ASSUME NEW i \in 1..Len(backlog'), NEW j \in 1..Len(backlog'), backlog'[i] = backlog'[j] PROVE i = j
      <4>1. i + 1 \in 1..n /\ j + 1 \in 1..n /\ backlog[i + 1] = backlog[j + 1]  BY <2>2, <2>5, <3>3
      <4>2. i + 1 = j + 1  BY <1>1, <2>1, <4>1 DEF Placed
      <4> QED  BY <2>2, <4>2
    <3>4. Untold(c)' /\ NoKidHas(c)'  BY <1>1, <2>1, <2>2, <2>5, <2>6 DEF Placed
    <3>5. \A p, q \in Proc : kid'[p].cs = kid'[q].cs /\ kid'[p].cs # Null => p = q
      BY <1>1 DEF Placed
    <3> QED  BY <2>3, <3>1, <3>2, <3>3, <3>4, <3>5 DEF Placed
  <2> QED  BY <1>1, <2>7, <2>8, QuietServes
<1>3. CASE srv' = [srv EXCEPT !.pc = "fork", !.cs = Null] /\ Fails /\ UNCHANGED backlog
  <2>1. srv'.cs = Null /\ backlog' = backlog  BY <1>3 DEF SrvShape
  <2>2. faults' \in 0..Faults
    <3>1. faults \in 0..Faults /\ Faults \in Nat  BY <1>1, BoundsAssumption DEF Shape
    <3> QED  BY <1>3, <3>1 DEF Fails
  <2>3. Shape'  BY <1>1, <2>1, <2>2 DEF Shape
  <2>4. Placed'  BY <1>1, <2>1, PlacedAfter
  <2> QED  BY <1>1, <2>3, <2>4, QuietServes
<1> QED  BY <1>2, <1>3 DEF Accept

\* fork: the child takes the connection over, or nobody does.
LEMMA ForkServes == ASSUME AnswersInv, KidShape, Fork PROVE AnswersInv'
<1>1. Shape /\ Placed /\ UNCHANGED <<backlog, cgi, log>> /\ srv'.cs = Null
  BY DEF AnswersInv, Fork
<1>2. ASSUME NEW p \in Proc \ Children, UNCHANGED <<net, faults>>,
             kid' = [kid EXCEPT ![p] = IF srv.cs = Null THEN [NoKid EXCEPT !.pc = "zombie"]
                                       ELSE [NoKid EXCEPT !.pc = "header", !.cs = srv.cs,
                                                          !.open = TRUE, !.ready = TRUE]]
      PROVE  AnswersInv'
  <2>1. kid[p].pc = "none" /\ kid[p].cs = Null /\ Going(p)
    BY NullAssumption DEF Children, AnswersInv, Going
  <2>2. cgi[p].pc = "none"  BY <2>1 DEF Going, WithScript
  <2>3. \A q \in Proc \ {p} : kid'[q] = kid[q]  BY <1>2 DEF KidShape
  <2>4. Shape'  BY <1>1, <1>2 DEF Shape
  <2>5. Few'  BY <1>2 DEF Few, AnswersInv, Extra
  <2>6. ASSUME NEW q \in Proc \ {p} PROVE Going(q)' /\ Serves(q)'
    <3>1. Going(q) /\ Serves(q)  BY DEF AnswersInv
    <3> QED  BY <1>1, <1>2, <2>3, <3>1, Undisturbed
  <2>7. CASE srv.cs = Null
    <3>1. kid'[p].pc = "zombie" /\ kid'[p].cs = Null /\ kid'[p].ready = kid'[p].open
      BY <1>2, <2>7 DEF KidShape, NoKid
    <3>2. Going(p)' /\ Serves(p)'
      BY <1>1, <2>1, <2>2, <3>1, NullAssumption DEF Going, Serves, WithScript, Active, Before
    <3>3. Placed'
      <4>1. \A q \in Proc : kid'[q].cs \in {kid[q].cs, Null}  BY <2>3, <3>1
      <4> QED  BY <1>1, <1>2, <4>1, PlacedAfter
    <3> QED  BY <2>4, <2>5, <2>6, <3>2, <3>3 DEF AnswersInv
  <2>8. CASE srv.cs # Null
    <3>1. PICK c : c = srv.cs  OBVIOUS
    <3>2. c \in Client /\ c # Null /\ Untold(c) /\ NoKidHas(c) /\ net[c].at # "home"
      BY <1>1, <2>8, <3>1 DEF Shape, Placed
    <3>3. kid'[p] = [NoKid EXCEPT !.pc = "header", !.cs = c, !.open = TRUE, !.ready = TRUE]
      BY <1>2, <2>8, <3>1 DEF KidShape
    <3>4. kid'[p].pc = "header" /\ kid'[p].cs = c /\ kid'[p].open /\ kid'[p].ready
          /\ kid'[p].total = 0 /\ kid'[p].req = Null /\ kid'[p].ready = kid'[p].open
      BY <3>3 DEF NoKid
    <3>5. net[c].req.header \in Nat /\ net[c].req.header > 0
      <4>1. net[c].req \in Requests[c]  BY <1>1, <3>2 DEF Shape
      <4>2. net[c].req \in Request /\ net[c].req.header > 0  BY <3>2, <4>1, RequestAssumption
      <4> QED  BY <4>2 DEF Request
    <3>6. Going(p)'
      BY <1>1, <2>1, <2>2, <3>2, <3>4 DEF Going, WithScript, Active, Before
    <3>7. net[c].got = <<>> /\ net[c].out = <<>> /\ log[c] = <<>>  BY <3>2 DEF Untold
    <3>8. Reading(p)'  BY <1>2, <3>4, <3>5 DEF Reading, Before, WithScript
    <3>9. Answering(p)'  BY <1>1, <1>2, <3>4, <3>7 DEF Answering, WithScript, Ended
    <3>10. Relaying(p)'  BY <1>1, <1>2, <2>2, <3>4, <3>7 DEF Relaying, WithScript, Ended
    <3>11. Serves(p)'  BY <3>8, <3>9, <3>10 DEF Serves
    <3>12. Placed'
      <4>1. \A x : (Untold(x)' <=> Untold(x))  BY <1>1, <1>2 DEF Untold
      <4>2. \A x : x # c /\ NoKidHas(x) => NoKidHas(x)'  BY <2>3, <3>4 DEF NoKidHas
      <4>3. \A i \in 1..Len(backlog) : backlog[i] # c /\ backlog[i] \in Client
        BY <1>1, <3>1, ElementOfSeq DEF Placed, Shape
      <4>4. \A x \in Client : net'[x].at = "home" =>
               Untold(x)' /\ NoKidHas(x)' /\ srv'.cs # x /\ \A i \in 1..Len(backlog') : backlog'[i] # x
        BY <1>1, <1>2, <3>2, <4>1, <4>2, NullAssumption DEF Placed
      <4>5. ASSUME NEW i \in 1..Len(backlog'), NEW x, x = backlog'[i]
            PROVE  Untold(x)' /\ NoKidHas(x)' /\ srv'.cs # x
        BY <1>1, <4>1, <4>2, <4>3, <4>5, NullAssumption DEF Placed
      <4>6. \A i, j \in 1..Len(backlog') : backlog'[i] = backlog'[j] => i = j  BY <1>1 DEF Placed
      <4>7. \A a, b \in Proc : kid'[a].cs = kid'[b].cs /\ kid'[a].cs # Null => a = b
        BY <1>1, <2>3, <3>2, <3>4 DEF Placed, NoKidHas
      <4> QED  BY <1>1, <4>4, <4>5, <4>6, <4>7 DEF Placed
    <3> QED  BY <2>4, <2>5, <2>6, <3>6, <3>11, <3>12 DEF AnswersInv
  <2> QED  BY <2>7, <2>8
<1>3. CASE Fails /\ HangUp(srv.cs) /\ UNCHANGED kid
  <2>1. faults' \in 0..Faults
    <3>1. faults \in 0..Faults /\ Faults \in Nat  BY <1>1, BoundsAssumption DEF Shape
    <3> QED  BY <1>3, <3>1 DEF Fails
  <2>2. /\ DOMAIN net' = Client
        /\ \A x \in Client : /\ DOMAIN net'[x] = DOMAIN net[x] /\ net'[x].at \in {net[x].at, "out"}
                             /\ net'[x].req = net[x].req /\ net'[x].got = net[x].got
                             /\ net'[x].out = net[x].out /\ net'[x].gone = net[x].gone
    BY <1>1, <1>3, HangsUp
  <2>3. Shape'  BY <1>1, <2>1, <2>2 DEF Shape
  <2>4. Placed'
    <3>1. \A x \in Client : net'[x].at = "home" => net[x].at = "home"  BY <2>2
    <3> QED  BY <1>1, <1>3, <2>2, <3>1, PlacedAfter
  <2> QED  BY <1>1, <1>3, <2>2, <2>3, <2>4, QuietServes
<1> QED  BY <1>2, <1>3 DEF Fork

\* wait and waitpid forget a child that is over; the server's own signal ends
\* what no child has.
LEMMA ReapServes == ASSUME AnswersInv, KidShape, SrvShape, Wait \/ Waitpid PROVE AnswersInv'
<1>1. Shape /\ Placed /\ UNCHANGED <<backlog, net, cgi, log, faults>> /\ srv'.cs = srv.cs
  BY DEF AnswersInv, Wait, Waitpid, SrvShape
<1>2. Shape'  BY <1>1 DEF Shape
<1>3. CASE UNCHANGED kid
  <2>1. Placed'  BY <1>1, <1>3, PlacedAfter
  <2> QED  BY <1>1, <1>2, <1>3, <2>1, QuietServes
<1>4. ASSUME NEW p \in Zombies, Bury(p) PROVE AnswersInv'
  <2>1. p \in Proc /\ kid[p].pc = "zombie" /\ Going(p)  BY DEF Zombies, AnswersInv
  <2>2. cgi[p].pc = "none" /\ cgi[p].pipe = <<>>  BY <2>1 DEF Going, WithScript
  <2>3. kid'[p] = NoKid /\ \A q \in Proc \ {p} : kid'[q] = kid[q]  BY <1>4, <2>1 DEF Bury, KidShape
  <2>4. NoKid.cs = Null /\ NoKid.pc = "none" /\ NoKid.ready = NoKid.open  BY DEF NoKid
  <2>5. Going(p)' /\ Serves(p)'
    BY <1>1, <2>2, <2>3, <2>4 DEF Going, Serves, WithScript, Active, Before
  <2>6. ASSUME NEW q \in Proc \ {p} PROVE Going(q)' /\ Serves(q)'
    <3>1. Going(q) /\ Serves(q)  BY DEF AnswersInv
    <3> QED  BY <1>1, <2>3, <3>1, Undisturbed
  <2>7. Placed'
    <3>1. \A q \in Proc : kid'[q].cs \in {kid[q].cs, Null}  BY <2>3, <2>4
    <3> QED  BY <1>1, <3>1, PlacedAfter
  <2>8. Few'  BY <1>1 DEF Few, AnswersInv, Extra
  <2> QED  BY <1>2, <2>5, <2>6, <2>7, <2>8 DEF AnswersInv
<1> QED  BY <1>3, <1>4 DEF Wait, Waitpid

\* What the server's own signal ends.
LEMMA SigIntServes == ASSUME AnswersInv, SrvShape, sig_int PROVE AnswersInv'
<1>1. Shape /\ Placed /\ UNCHANGED <<kid, cgi, log, faults>> /\ backlog' = <<>> /\ srv'.cs = Null
  BY DEF AnswersInv, sig_int, SrvShape
<1>2. /\ DOMAIN net' = Client
      /\ \A x \in Client : net'[x] = net[x] \/ net'[x] = [net[x] EXCEPT !.at = "out"]
  BY DEF sig_int
<1>3. \A x \in Client : /\ DOMAIN net'[x] = DOMAIN net[x] /\ net'[x].at \in {net[x].at, "out"}
                        /\ net'[x].req = net[x].req /\ net'[x].got = net[x].got
                        /\ net'[x].out = net[x].out /\ net'[x].gone = net[x].gone
  <2> SUFFICES ASSUME NEW x \in Client
               PROVE  /\ DOMAIN net'[x] = DOMAIN net[x] /\ net'[x].at \in {net[x].at, "out"}
                      /\ net'[x].req = net[x].req /\ net'[x].got = net[x].got
                      /\ net'[x].out = net[x].out /\ net'[x].gone = net[x].gone
    OBVIOUS
  <2>1. DOMAIN net[x] = {"req", "at", "sent", "gone", "got", "out"}  BY <1>1 DEF Shape
  <2>2. CASE net'[x] = [net[x] EXCEPT !.at = "out"]  BY <2>1, <2>2
  <2> QED  BY <1>2, <2>2
<1>4. Shape'
  <2>1. <<>> \in Seq(Client)  BY EmptySeq
  <2> QED  BY <1>1, <1>2, <1>3, <2>1 DEF Shape
<1>5. Placed'
  <2>1. \A x \in Client : net'[x].at = "home" => net[x].at = "home"  BY <1>3
  <2> QED  BY <1>1, <1>3, <2>1, PlacedAfter
<1> QED  BY <1>1, <1>3, <1>4, <1>5, QuietServes

-----------------------------------------------------------------------------

\* Every step keeps what the connections were told.
LEMMA AnswersNext == AnswersInv /\ CountInv /\ [Next]_vars => AnswersInv'
<1> SUFFICES ASSUME AnswersInv, CountInv, [Next]_vars PROVE AnswersInv'  OBVIOUS
<1>1. KidShape /\ SrvShape  BY DEF CountInv
<1>2. CASE Accept  BY <1>1, <1>2, AcceptServes
<1>3. CASE Fork  BY <1>1, <1>3, ForkServes
<1>4. CASE Wait \/ Waitpid  BY <1>1, <1>4, ReapServes
<1>5. CASE sig_int  BY <1>1, <1>5, SigIntServes
<1>6. ASSUME NEW c \in Client, Connect(c) PROVE AnswersInv'  BY <1>6, ConnectServes
<1>7. ASSUME NEW c \in Client, Sends(c) \/ Leaves(c) PROVE AnswersInv'  BY <1>7, ClientServes
<1>8. ASSUME NEW p \in Proc, Kid(p) PROVE AnswersInv'  BY <1>1, <1>8, KidServes
<1>9. ASSUME NEW p \in Proc, Cgi(p) PROVE AnswersInv'  BY <1>1, <1>9, CgiServes
<1>10. CASE UNCHANGED vars
  <2>1. UNCHANGED <<srv, backlog, net, kid, cgi, log, faults>>  BY <1>10 DEF vars
  <2>2. Shape'  BY <2>1 DEF AnswersInv, Shape
  <2>3. Placed'  BY <2>1, PlacedAfter
  <2> QED  BY <2>1, <2>2, <2>3, QuietServes
<1> QED  BY <1>2, <1>3, <1>4, <1>5, <1>6, <1>7, <1>8, <1>9, <1>10 DEF Next, Server

\* The server's own state is a record.
SrvRecord == srv = [x \in DOMAIN srv |-> srv[x]]

\* It is at first.
LEMMA SrvRecordInit == Init => SrvRecord
BY DEF Init, SrvRecord

\* Every step that touches it rewrites its fields.
LEMMA SrvRecordNext == SrvRecord /\ CountInv /\ [Next]_vars => SrvRecord'
<1> SUFFICES ASSUME SrvRecord, CountInv, [Next]_vars PROVE SrvRecord'  OBVIOUS
<1>1. CASE UNCHANGED srv  BY <1>1 DEF SrvRecord
<1>2. CASE Accept
  <2>1. PICK c : srv' = [srv EXCEPT !.pc = "fork", !.cs = c]  BY <1>2 DEF Accept
  <2> QED  BY <2>1 DEF SrvRecord
<1>3. CASE Fork
  <2>1. PICK a, b : srv' = [pc |-> a, cs |-> Null, runningChildren |-> b]  BY <1>3 DEF Fork
  <2> QED  BY <2>1 DEF SrvRecord
<1>4. CASE Wait \/ Waitpid
  <2>1. PICK a, b : srv' = [srv EXCEPT !.pc = a, !.runningChildren = b] \/ srv' = [srv EXCEPT !.pc = a]
    BY <1>4 DEF Wait, Waitpid
  <2> QED  BY <2>1 DEF SrvRecord
<1>5. CASE sig_int
  <2>1. srv' = [srv EXCEPT !.pc = "down", !.cs = Null]  BY <1>5 DEF sig_int
  <2> QED  BY <2>1 DEF SrvRecord
<1>6. ASSUME NEW c \in Client, Connect(c) \/ Sends(c) \/ Leaves(c) PROVE UNCHANGED srv
  BY <1>6 DEF Connect, Sends, Leaves
<1>7. ASSUME NEW p \in Proc, Kid(p) PROVE UNCHANGED srv  BY <1>7, KidRewrites
<1>8. ASSUME NEW p \in Proc, Cgi(p) PROVE UNCHANGED srv
  BY <1>8 DEF Cgi, ScriptHead, ScriptReads, ScriptWrites, ScriptExits
<1> QED  BY <1>1, <1>2, <1>3, <1>4, <1>5, <1>6, <1>7, <1>8 DEF Next, Server, vars

\* What the server counts and what each connection was told make AnswersSound.
LEMMA AnswersImplied == AnswersInv /\ CountInv /\ SrvRecord => AnswersSound
<1> SUFFICES ASSUME AnswersInv, CountInv, SrvRecord PROVE AnswersSound  OBVIOUS
<1>1. TypeOK
  <2>1. Shape /\ SrvShape /\ RoomToFork  BY DEF AnswersInv, CountInv
  <2>2. srv.runningChildren \in 0..max_child  BY <2>1, MaxChildAssumption DEF SrvShape, RoomToFork
  <2>3. srv = [pc |-> srv.pc, cs |-> srv.cs, runningChildren |-> srv.runningChildren]
    <3>1. PICK a, b, c : a = srv.pc /\ b = srv.cs /\ c = srv.runningChildren  OBVIOUS
    <3>2. DOMAIN srv = {"pc", "cs", "runningChildren"}  BY <2>1 DEF SrvShape
    <3> QED  BY <3>1, <3>2 DEF SrvRecord
  <2>4. srv \in [pc: {"accept", "fork", "wait", "reap", "down"}, cs: Client \cup {Null},
                 runningChildren: 0..max_child]
    BY <2>1, <2>2, <2>3 DEF SrvShape, Shape
  <2>5. \A p \in Proc : kid[p].cs \in Client \cup {Null} /\ kid[p].ready = kid[p].open
    BY DEF AnswersInv, Going
  <2> QED  BY <2>1, <2>4, <2>5 DEF TypeOK, Shape
<1>2. AnsweredOnce
  <2> SUFFICES ASSUME NEW c \in Client
               PROVE  Len(net[c].got) <= IF net[c].req.header >= BUFFER_SIZE THEN 2 ELSE 1
    BY DEF AnsweredOnce
  <2>1. Len(net[c].got) <= Extra(c) + 1  BY DEF AnswersInv, Few
  <2> QED  BY <2>1 DEF Extra
<1>3. ASSUME NEW p \in Zombies, kid[p].cs # Null, kid[p].open, ~Gone(p)
      PROVE  /\ \A i \in 1..Len(log[Cs(p)]) : \E j \in 1..Len(net[Cs(p)].got) :
                   log[Cs(p)][i] = net[Cs(p)].got[j]
             /\ kid[p].req # Null /\ log[Cs(p)] = <<200>> =>
                   Outs(net[Cs(p)].out) = kid[p].req.script.out
             /\ Cs(p) \in Client
  <2>1. p \in Proc /\ kid[p].pc = "zombie"  BY DEF Zombies
  <2>2. Answering(p) /\ Relaying(p) /\ Cs(p) \in Client  BY <1>3, <2>1 DEF AnswersInv, Serves, Going, Cs
  <2> QED  BY <1>3, <2>1, <2>2 DEF Answering, Relaying, Whole, Ended, Cs
<1>4. \A c \in Client : DOMAIN log[c] = 1..Len(log[c]) /\ DOMAIN net[c].got = 1..Len(net[c].got)
  BY LenProperties DEF AnswersInv, Shape
<1>5. LogIsTrue  BY <1>3, <1>4 DEF LogIsTrue
<1>6. OutputDelivered  BY <1>3 DEF OutputDelivered
<1> QED  BY <1>1, <1>2, <1>5, <1>6 DEF AnswersSound

\* Whatever clients ask, send and leave, and whatever fails: a connection gets
\* one answer, or two where its header is too long; of a connection neither side
\* closed early the log says nothing the client was not answered; and a script
\* logged as a success has reached its client with all that it wrote.
THEOREM AnswersAgree == Spec => []AnswersSound
<1>1. Init => AnswersInv  BY AnswersInit
<1>2. Init => CountInv  BY CountInit
<1>3. CountInv /\ [Next]_vars => CountInv'  BY CountNext
<1>4. AnswersInv /\ CountInv /\ [Next]_vars => AnswersInv'  BY AnswersNext
<1>5. Init => SrvRecord  BY SrvRecordInit
<1>6. SrvRecord /\ CountInv /\ [Next]_vars => SrvRecord'  BY SrvRecordNext
<1>7. AnswersInv /\ CountInv /\ SrvRecord => AnswersSound  BY AnswersImplied
<1> QED  BY <1>1, <1>2, <1>3, <1>4, <1>5, <1>6, <1>7, PTL DEF Spec

=============================================================================
