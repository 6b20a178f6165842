-------------------------- MODULE VFSServerProofs --------------------------
(***************************************************************************)
(* Theorems about VFSServer for any finite set of connections: the         *)
(* WaitGroup counts exactly the served connections, an orderly Close never *)
(* makes Serve fail, and Close leaves at most one connection behind.       *)
(* ProxyFs, whose guests have threads and open files, implements VFSServer *)
(* and so inherits them.                                                   *)
(***************************************************************************)
EXTENDS ProxyFs, FiniteSetTheorems, TLAPS

\* done follows Close, and so does the listener; nothing waits in the backlog of
\* a closed one.
Flags ==
  /\ done <=> closer # "none"
  /\ listening <=> closer \in {"none", "done set"}
  /\ \A c \in Conns : conn[c] = "backlog" => listening

\* Serve has at most one connection in hand, and only between Accept and Add.
InHand ==
  \A c \in Conns : conn[c] = "accepted" =>
    serve = "spawn" /\ \A d \in Conns : conn[d] = "accepted" => d = c

Counted == wg = Cardinality(Served)

Inv == TypeOK /\ Flags /\ InHand /\ Counted /\ ServeEndsCleanly /\ AtMostOneLate

\* The served connections are finitely many.
LEMMA ServedFinite == IsFiniteSet(Served)
  BY ConnsAssumption, FS_Subset DEF Served

\* A new server satisfies the invariant.
LEMMA InvInit == Init => Inv
<1> SUFFICES ASSUME Init PROVE Inv
  OBVIOUS
<1>1. Served = {}
  BY DEF Init, Served
<1>2. Counted
  BY <1>1, FS_EmptySet DEF Counted, Init
<1> QED
  BY Zenon, <1>2 DEF Init, Inv, TypeOK, Flags, InHand, ServeEndsCleanly, AtMostOneLate, States

\* Connections in hand or served stay the same set: the counter is still right and
\* nothing is left behind that was not before.
LEMMA SameServed ==
  ASSUME Inv, Served' = Served, Held' = Held, wg' = wg, closer' = closer
  PROVE  Counted' /\ AtMostOneLate'
  BY DEF Inv, Counted, AtMostOneLate

\* The clients' steps preserve the invariant.
LEMMA ClientInv == ASSUME Inv, NEW c \in Conns, Client(c) PROVE Inv'
<1> USE DEF Inv, TypeOK, States, Goto
<1>1. Served' = Served /\ Held' = Held
  BY Zenon DEF Served, Held, Client, Connect, Request, HangUp
<1>2. wg' = wg /\ closer' = closer
  BY Zenon DEF Client, Connect, Request, HangUp
<1>3. Counted' /\ AtMostOneLate'
  BY Zenon, <1>1, <1>2, SameServed
<1>4. TypeOK'
  BY Zenon DEF Client, Connect, Request, HangUp
<1>5. \A d \in Conns : conn'[d] = "backlog" => conn[d] = "backlog" \/ listening
  BY Zenon DEF Client, Connect, Request, HangUp
<1>6. UNCHANGED <<listening, done, closer>>
  BY Zenon DEF Client, Connect, Request, HangUp
<1>7. Flags
  BY Zenon
<1>8. Flags'
  <2> HIDE DEF Inv, TypeOK
  <2> QED
    BY <1>5, <1>6, <1>7, Zenon DEF Flags
<1>9. InHand' /\ ServeEndsCleanly'
  BY ZenonT(60) DEF InHand, ServeEndsCleanly, Client, Connect, Request, HangUp
<1> QED
  BY Zenon, <1>3, <1>4, <1>8, <1>9

\* Dispatching a request and writing its response preserve the invariant.
LEMMA ServeRequestInv ==
  ASSUME Inv, NEW c \in Conns, Dispatch(c) \/ Reply(c) PROVE Inv'
<1> USE DEF Inv, TypeOK, States, Goto
<1>1. Served' = Served /\ Held' = Held
  BY Zenon DEF Served, Held, Dispatch, Reply
<1>2. wg' = wg /\ closer' = closer
  BY Zenon DEF Dispatch, Reply
<1>3. Counted' /\ AtMostOneLate'
  BY Zenon, <1>1, <1>2, SameServed
<1>4. TypeOK'
  BY Zenon DEF Dispatch, Reply
<1>5. \A d \in Conns : conn'[d] = "backlog" => conn[d] = "backlog" \/ listening
  BY Zenon DEF Dispatch, Reply
<1>6. UNCHANGED <<listening, done, closer>>
  BY Zenon DEF Dispatch, Reply
<1>7. Flags
  BY Zenon
<1>8. Flags'
  <2> HIDE DEF Inv, TypeOK
  <2> QED
    BY <1>5, <1>6, <1>7, Zenon DEF Flags
<1>9. InHand' /\ ServeEndsCleanly'
  BY ZenonT(60) DEF InHand, ServeEndsCleanly, Dispatch, Reply
<1> QED
  BY Zenon, <1>3, <1>4, <1>8, <1>9

\* The end of a goroutine counts exactly its connection off.
LEMMA FinishInv == ASSUME Inv, NEW c \in Conns, Finish(c) PROVE Inv'
<1>1. Served' = Served \ {c} /\ c \in Served
  BY Zenon DEF Inv, TypeOK, States, Goto, Served, Finish
<1>2. Cardinality(Served') = Cardinality(Served) - 1
  BY <1>1, ServedFinite, FS_RemoveElement
<1>3. Cardinality(Served') \in Nat
  BY <1>1, ServedFinite, FS_RemoveElement, FS_CardinalityType
<1>4. Counted' /\ wg' \in Nat
  BY <1>2, <1>3 DEF Counted, Inv, Finish
<1>5. TypeOK'
  BY Zenon, <1>4 DEF Inv, TypeOK, States, Goto, Finish
<1>6. Held' \subseteq Held
  BY Zenon DEF Inv, TypeOK, States, Goto, Held, Served, Finish
<1>7. AtMostOneLate'
  BY <1>6 DEF Inv, AtMostOneLate, Finish
<1>8. Flags' /\ InHand' /\ ServeEndsCleanly'
  BY Zenon DEF Inv, TypeOK, States, Goto, Flags, InHand, ServeEndsCleanly, Finish
<1> QED
  BY <1>4, <1>5, <1>7, <1>8 DEF Inv

\* Accept is over once the listener is closed, so it adds no late connection.
LEMMA AcceptInv == ASSUME Inv, Accept PROVE Inv'
<1> PICK c \in Conns : conn[c] = "backlog" /\ Goto(c, "accepted")
  BY DEF Accept
<1>1. Served' = Served
  BY Zenon DEF Inv, TypeOK, States, Goto, Served
<1>2. Counted'
  BY <1>1 DEF Inv, Counted, Accept
<1>3. TypeOK'
  BY Zenon DEF Inv, TypeOK, States, Goto, Accept
<1>4. Flags' /\ InHand' /\ ServeEndsCleanly'
  BY Zenon DEF Inv, TypeOK, States, Goto, Flags, InHand, ServeEndsCleanly, Accept
<1>5. AtMostOneLate'
  BY DEF Inv, Flags, AtMostOneLate, Accept
<1> QED
  BY <1>2, <1>3, <1>4, <1>5 DEF Inv

\* Accept can only fail when done is set.
LEMMA AcceptFailsInv == ASSUME Inv, AcceptFails PROVE Inv'
<1>1. Served' = Served /\ Held' = Held
  BY DEF Served, Held, AcceptFails
<1>2. wg' = wg /\ closer' = closer
  BY DEF AcceptFails
<1>3. Counted' /\ AtMostOneLate'
  BY <1>1, <1>2, SameServed
<1>4. done
  BY Zenon DEF Inv, Flags, AcceptFails, TypeOK
<1>5. TypeOK' /\ Flags' /\ InHand' /\ ServeEndsCleanly'
  BY Zenon, <1>4 DEF Inv, TypeOK, Flags, InHand, ServeEndsCleanly, AcceptFails
<1> QED
  BY <1>3, <1>5 DEF Inv

\* wg.Add counts the connection that Serve has in hand.
LEMMA SpawnInv == ASSUME Inv, Spawn PROVE Inv'
<1> PICK c \in Conns : conn[c] = "accepted" /\ Goto(c, "idle")
  BY DEF Spawn
<1>1. Served' = Served \cup {c} /\ c \notin Served
  BY Zenon DEF Inv, TypeOK, States, Goto, Served
<1>2. Cardinality(Served') = Cardinality(Served) + 1
  BY <1>1, ServedFinite, FS_AddElement
<1>3. Counted'
  BY <1>2 DEF Inv, Counted, Spawn
<1>4. Held' = Held
  BY Zenon DEF Inv, TypeOK, States, Goto, Held, Served
<1>5. AtMostOneLate'
  BY <1>4 DEF Inv, AtMostOneLate, Spawn
<1>6. wg' \in Nat
  <2>1. wg \in Nat
    BY Zenon DEF Inv, TypeOK
  <2>2. wg' = wg + 1
    BY DEF Spawn
  <2> QED
    BY <2>1, <2>2
<1>7. conn' \in [Conns -> States]
  BY Zenon DEF Inv, TypeOK, States, Goto
<1>8. TypeOK'
  BY Zenon, <1>6, <1>7 DEF Inv, TypeOK, Spawn
<1>9. Flags' /\ InHand' /\ ServeEndsCleanly'
  BY Zenon DEF Inv, TypeOK, States, Goto, Flags, InHand, ServeEndsCleanly, Spawn
<1> QED
  BY <1>3, <1>5, <1>8, <1>9 DEF Inv

\* Setting done and closing the listener preserve the invariant.
LEMMA StopInv == ASSUME Inv, SetDone \/ CloseListener PROVE Inv'
<1>1. Served' = Served
  BY Zenon DEF Inv, TypeOK, States, Served, SetDone, CloseListener
<1>2. Counted'
  BY Zenon, <1>1 DEF Inv, Counted, SetDone, CloseListener
<1>3. TypeOK'
  BY Zenon DEF Inv, TypeOK, States, SetDone, CloseListener
<1>4. ServeEndsCleanly' /\ AtMostOneLate'
  BY Zenon DEF Inv, ServeEndsCleanly, AtMostOneLate, SetDone, CloseListener
<1>5. InHand'
  BY Zenon DEF Inv, TypeOK, InHand, SetDone, CloseListener
<1>6. CASE SetDone
  <2>1. Flags'
    BY <1>6, Zenon DEF Inv, Flags, SetDone
  <2> QED
    BY <1>2, <1>3, <1>4, <1>5, <2>1 DEF Inv
<1>7. CASE CloseListener
  <2>1. \A c \in Conns : conn'[c] # "backlog"
    BY Zenon, <1>7 DEF CloseListener
  <2>2. Flags'
    BY <1>7, <2>1, Zenon DEF Inv, Flags, CloseListener
  <2> QED
    BY <1>2, <1>3, <1>4, <1>5, <2>2 DEF Inv
<1> QED
  BY <1>6, <1>7

\* When wg.Wait sees zero, only the connection in Serve's hand can be left.
LEMMA WaitInv == ASSUME Inv, Wait PROVE Inv'
<1>1. Served' = Served
  BY DEF Served, Wait
<1>2. Served = {}
  BY Zenon, ServedFinite, FS_EmptySet DEF Inv, Counted, Wait
<1>3. AtMostOneLate'
  BY <1>1, <1>2 DEF Inv, InHand, AtMostOneLate, Held, Wait
<1>4. Counted'
  BY Zenon, <1>1 DEF Inv, Counted, Wait
<1>5. TypeOK' /\ Flags' /\ InHand' /\ ServeEndsCleanly'
  BY DEF Inv, TypeOK, Flags, InHand, ServeEndsCleanly, Wait
<1> QED
  BY <1>3, <1>4, <1>5 DEF Inv

\* Every step of the server preserves the invariant.
LEMMA InvNext == Inv /\ [Next]_vars => Inv'
<1> SUFFICES ASSUME Inv, [Next]_vars PROVE Inv'
  OBVIOUS
<1>1. ASSUME NEW c \in Conns, Handle(c) PROVE Inv'
  BY <1>1, ServeRequestInv, FinishInv DEF Handle
<1>2. CASE Server
  BY <1>1, <1>2, AcceptInv, AcceptFailsInv, SpawnInv DEF Server
<1>3. CASE Closing
  BY <1>3, StopInv, WaitInv DEF Closing
<1>4. ASSUME NEW c \in Conns, Client(c) PROVE Inv'
  BY <1>4, ClientInv
<1>5. CASE UNCHANGED vars
  BY ZenonT(60), <1>5 DEF vars, Inv, TypeOK, Flags, InHand, Counted, ServeEndsCleanly, AtMostOneLate,
              Served, Held
<1> QED
  BY <1>2, <1>3, <1>4, <1>5 DEF Next

\* The state of Serve, Close and every connection keeps its type, the WaitGroup
\* counter of Serve and handleConn never goes below zero among it.
THEOREM ServerTypes == Spec => []TypeOK
<1>1. Inv => TypeOK
  BY DEF Inv
<1> QED
  BY <1>1, InvInit, InvNext, PTL DEF Spec

\* Serve never reports an accept error, however Close interleaves with Accept.
THEOREM CleanServe == Spec => []ServeEndsCleanly
<1>1. Inv => ServeEndsCleanly
  BY DEF Inv
<1> QED
  BY <1>1, InvInit, InvNext, PTL DEF Spec

\* However many clients there are, Close leaves at most one connection behind.
THEOREM OneLate == Spec => []AtMostOneLate
<1>1. Inv => AtMostOneLate
  BY DEF Inv
<1> QED
  BY <1>1, InvInit, InvNext, PTL DEF Spec

\* Guests use the server as VFSServer's clients do, and the streams and the table
\* change nothing in what its goroutines do.
THEOREM GuestsAreClients == PSpec => Spec
<1>1. PInit => Init
  BY DEF PInit
<1>2. ASSUME PNext PROVE Next \/ UNCHANGED vars
  <2>1. ASSUME NEW c \in Conns, ConnectFs(c) \/ Die(c) \/ HandleConn(c) PROVE Next \/ UNCHANGED vars
    <3>1. ConnectFs(c) \/ Die(c) => Next \/ UNCHANGED vars
      BY DEF ConnectFs, Die, Next, Client
    <3>2. ReadFrame(c) \/ EndOfStream(c) \/ RefuseFrame(c) => Next
      BY Zenon DEF ReadFrame, EndOfStream, RefuseFrame, Next, Client
    <3>3. DispatchFrame(c) \/ ReplyFrame(c) \/ EndConn(c) => Next
      BY Zenon DEF DispatchFrame, ReplyFrame, EndConn, Next, Server, Handle
    <3> QED
      BY <2>1, <3>1, <3>2, <3>3 DEF HandleConn
  <2>2. ASSUME NEW t \in Threads, Program(t) \/ RawCall(t) PROVE UNCHANGED vars
    BY <2>2 DEF Program, RawCall, Begin, Write, Receive, Broken
  <2>3. Lifecycle => Next
    BY DEF Lifecycle, Next, Server
  <2> QED
    BY <1>2, <2>1, <2>2, <2>3 DEF PNext
<1>3. UNCHANGED allVars => UNCHANGED vars
  BY DEF allVars
<1> QED
  BY <1>1, <1>2, <1>3, PTL DEF PSpec, Spec

\* What guests do leaves Close with at most one late connection.
THEOREM GuestsOneLate == PSpec => []AtMostOneLate
  BY GuestsAreClients, OneLate, PTL

=============================================================================
