----------------------------- MODULE VFSServer -----------------------------
(***************************************************************************)
(* vfs/server.go: the life of a Server.  Serve accepts connections and     *)
(* starts a goroutine per connection, which reads a request, dispatches it *)
(* and writes the response until the client is gone; Close sets done,      *)
(* closes the listener and waits on the WaitGroup.  The dispatched calls   *)
(* are MemFS's; here a request is only in flight or not.                   *)
(***************************************************************************)
EXTENDS Naturals, FiniteSets

CONSTANTS Conns   \* connections that clients may open

ASSUME ConnsAssumption == IsFiniteSet(Conns)

VARIABLES
  listening,  \* the listener is open
  done,       \* the done flag
  serve,      \* Serve: in Accept, with a new connection in hand, or returned
  closer,     \* Close: how far it is
  wg,         \* the WaitGroup counter
  conn,       \* each connection, as the server sees it
  gone        \* connections whose client has hung up

vars == <<listening, done, serve, closer, wg, conn, gone>>

\* A connection is new, in the listener's backlog, returned by Accept and not
\* yet counted, or with its goroutine: waiting for a request, dispatching one,
\* writing a response; or closed.
States == {"new", "backlog", "accepted", "idle", "dispatch", "reply", "closed"}

Served == {c \in Conns : conn[c] \in {"idle", "dispatch", "reply"}}

Held == {c \in Conns : conn[c] = "accepted"} \cup Served

Goto(c, s) == conn' = [conn EXCEPT ![c] = s]

-----------------------------------------------------------------------------

Init ==
  /\ listening = TRUE
  /\ done = FALSE
  /\ serve = "accept"
  /\ closer = "none"
  /\ wg = 0
  /\ conn = [c \in Conns |-> "new"]
  /\ gone = {}

\* The client's side: connect, send a request, hang up (or send what is no frame,
\* which ends the connection in the same way).
Connect(c) ==
  /\ conn[c] = "new"
  /\ listening
  /\ Goto(c, "backlog")
  /\ UNCHANGED <<listening, done, serve, closer, wg, gone>>

Request(c) ==
  /\ conn[c] = "idle"
  /\ c \notin gone
  /\ Goto(c, "dispatch")
  /\ UNCHANGED <<listening, done, serve, closer, wg, gone>>

HangUp(c) ==
  /\ conn[c] \in {"backlog", "accepted", "idle", "dispatch", "reply"}
  /\ c \notin gone
  /\ gone' = gone \cup {c}
  /\ UNCHANGED <<listening, done, serve, closer, wg, conn>>

\* Serve.
Accept ==
  /\ serve = "accept"
  /\ listening
  /\ \E c \in Conns : conn[c] = "backlog" /\ Goto(c, "accepted")
  /\ serve' = "spawn"
  /\ UNCHANGED <<listening, done, closer, wg, gone>>

AcceptFails ==
  /\ serve = "accept"
  /\ ~listening
  /\ serve' = IF done THEN "returned" ELSE "error"
  /\ UNCHANGED <<listening, done, closer, wg, conn, gone>>

\* wg.Add(1) and the go statement.
Spawn ==
  /\ serve = "spawn"
  /\ \E c \in Conns : conn[c] = "accepted" /\ Goto(c, "idle")
  /\ wg' = wg + 1
  /\ serve' = "accept"
  /\ UNCHANGED <<listening, done, closer, gone>>

\* handleConn.  A request that has arrived is dispatched even when its client
\* has hung up; the write of the response, or the next read, then fails.
Dispatch(c) ==
  /\ conn[c] = "dispatch"
  /\ Goto(c, "reply")
  /\ UNCHANGED <<listening, done, serve, closer, wg, gone>>

Reply(c) ==
  /\ conn[c] = "reply"
  /\ c \notin gone
  /\ Goto(c, "idle")
  /\ UNCHANGED <<listening, done, serve, closer, wg, gone>>

\* Mutant of Finish: a connection that fails in writeFrame is not counted off.
FinishOnRead(c) ==
  /\ conn[c] \in {"idle", "reply"}
  /\ c \in gone
  /\ Goto(c, "closed")
  /\ wg' = IF conn[c] = "idle" THEN wg - 1 ELSE wg
  /\ UNCHANGED <<listening, done, serve, closer, gone>>

Finish(c) ==
  /\ conn[c] \in {"idle", "reply"}
  /\ c \in gone
  /\ Goto(c, "closed")
  /\ wg' = wg - 1
  /\ UNCHANGED <<listening, done, serve, closer, gone>>

\* Close, in three steps.
SetDone ==
  /\ closer = "none"
  /\ done' = TRUE
  /\ closer' = "done set"
  /\ UNCHANGED <<listening, serve, wg, conn, gone>>

\* What is still in the backlog is reset.
CloseListener ==
  /\ closer = "done set"
  /\ listening' = FALSE
  /\ conn' = [c \in Conns |-> IF conn[c] = "backlog" THEN "closed" ELSE conn[c]]
  /\ closer' = "waiting"
  /\ UNCHANGED <<done, serve, wg, gone>>

\* Mutant of Wait: Close does not wait.
WaitNot ==
  /\ closer = "waiting"
  /\ closer' = "returned"
  /\ UNCHANGED <<listening, done, serve, wg, conn, gone>>

Wait ==
  /\ closer = "waiting"
  /\ wg = 0
  /\ closer' = "returned"
  /\ UNCHANGED <<listening, done, serve, wg, conn, gone>>

Handle(c) == Dispatch(c) \/ Reply(c) \/ Finish(c)

Server == Accept \/ AcceptFails \/ Spawn \/ \E c \in Conns : Handle(c)

Closing == SetDone \/ CloseListener \/ Wait

Client(c) == Connect(c) \/ Request(c) \/ HangUp(c)

Next == Server \/ Closing \/ \E c \in Conns : Client(c)

Spec == Init /\ [][Next]_vars

-----------------------------------------------------------------------------
\* Properties

TypeOK ==
  /\ listening \in BOOLEAN /\ done \in BOOLEAN
  /\ serve \in {"accept", "spawn", "returned", "error"}
  /\ closer \in {"none", "done set", "waiting", "returned"}
  /\ wg \in Nat
  /\ conn \in [Conns -> States]
  /\ gone \subseteq Conns

\* An orderly Close never makes Serve report an accept error: done is set before
\* the listener goes, and Serve looks at it only after Accept has failed.
ServeEndsCleanly == serve # "error"

\* When Close has returned at most one connection is, or will be, served: the one
\* that Accept had returned and Serve had not counted yet when wg.Wait looked.
AtMostOneLate ==
  closer = "returned" => \A c, d \in Held : c = d

\* vfs/server.go on Close: it "waits for in-flight requests", and for nothing else:
\* once the listener is closed, Close returns, and Serve does, without an error.
CloseReturns == closer = "waiting" ~> (closer = "returned" /\ serve = "returned")

=============================================================================
