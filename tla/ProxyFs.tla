------------------------------ MODULE ProxyFs ------------------------------
(***************************************************************************)
(* wasmcli-sandbox/src/proxy_fs.rs and the file handles of vfs/server.go:  *)
(* guests of one Server and the files they have open.  The threads of a    *)
(* guest share one stream behind a mutex (Conn); a call writes a frame and *)
(* reads the next one.  A ProxyFile holds the id of a handle in the        *)
(* server's table and has it closed when it is dropped.                    *)
(*                                                                         *)
(* The server's goroutines are VFSServer's: its actions are conjoined with *)
(* what they do to the streams and to the table.  Paths, contents and      *)
(* positions are MemFS's; here a handle is the guest that opened it.       *)
(***************************************************************************)
EXTENDS VFSServer, Sequences

CONSTANTS
  Threads,    \* the threads of guests: pairs of a guest's connection and a number
  None,       \* nobody
  MaxCalls    \* bound: calls that each guest makes

\* A request is on a path, opens a file, or is on an open file; "huge" is a write of
\* more than the 16 MB that readFrame takes.
Requests == [op : {"path", "open", "file", "huge", "close"}, handle : Nat, from : Threads]

Responses == [ok : BOOLEAN, handle : Nat, to : Threads]

ASSUME GuestAssumption ==
  /\ Threads \subseteq Conns \X Nat
  /\ None \notin Threads \cup Requests \cup Responses
  /\ MaxCalls \in [Conns -> Nat]

VARIABLES
  pc,         \* each thread: in the guest's program, before the mutex, or reading
  req,        \* the request of its call, if it is in one
  stream,     \* who holds the stream's mutex
  toServer,   \* frames written by the guest and not yet read
  toGuest,    \* frames written by the server and not yet read
  answer,     \* the response that handleConn has from dispatch and has not written
  handles,    \* the server's table: id -> the guest that opened it
  nextHandle, \* the last id handed out
  held,       \* the ids of each guest's ProxyFiles
  calls,      \* calls made
  dead        \* guests whose process has ended

threadVars == <<pc, req, stream, held, calls, dead>>
streamVars == <<toServer, toGuest, answer>>
tableVars == <<handles, nextHandle>>
guestVars == <<threadVars, streamVars, tableVars>>
allVars == <<vars, guestVars>>

\* The ids of files that a call is on.  The runtime calls a file's methods, and drops
\* it, one at a time (&mut self).
Busy(c) == {req[t].handle : t \in {u \in Threads : u[1] = c /\ pc[u] # "guest"}}

PInit ==
  /\ Init
  /\ pc = [t \in Threads |-> "guest"]
  /\ req = [t \in Threads |-> None]
  /\ stream = [c \in Conns |-> None]
  /\ toServer = [c \in Conns |-> <<>>]
  /\ toGuest = [c \in Conns |-> <<>>]
  /\ answer = [c \in Conns |-> None]
  /\ handles = <<>>
  /\ nextHandle = 0
  /\ held = [c \in Conns |-> {}]
  /\ calls = [c \in Conns |-> 0]
  /\ dead = {}

-----------------------------------------------------------------------------
\* The guest's side.

\* ProxyFs::connect.
ConnectFs(c) == Connect(c) /\ UNCHANGED guestVars

\* Mutant of Begin: a file can still be used when its close was sent.
BeginKeeps(t, op, h) ==
  /\ pc[t] = "guest"
  /\ conn[t[1]] # "new" /\ t[1] \notin dead
  /\ calls[t[1]] < MaxCalls[t[1]]
  /\ IF op \in {"path", "open"} THEN h = 0 ELSE h \in held[t[1]] \ Busy(t[1])
  /\ pc' = [pc EXCEPT ![t] = "lock"]
  /\ req' = [req EXCEPT ![t] = [op |-> op, handle |-> h, from |-> t]]
  /\ calls' = [calls EXCEPT ![t[1]] = @ + 1]
  /\ UNCHANGED <<vars, held, stream, dead, streamVars, tableVars>>

\* A call of the guest's program that ProxyFs or a ProxyFile forwards.  A file that
\* is dropped is no longer there when its close is sent.
Begin(t, op, h) ==
  /\ pc[t] = "guest"
  /\ conn[t[1]] # "new" /\ t[1] \notin dead
  /\ calls[t[1]] < MaxCalls[t[1]]
  /\ IF op \in {"path", "open"} THEN h = 0 ELSE h \in held[t[1]] \ Busy(t[1])
  /\ pc' = [pc EXCEPT ![t] = "lock"]
  /\ req' = [req EXCEPT ![t] = [op |-> op, handle |-> h, from |-> t]]
  /\ held' = [held EXCEPT ![t[1]] = IF op = "close" THEN @ \ {h} ELSE @]
  /\ calls' = [calls EXCEPT ![t[1]] = @ + 1]
  /\ UNCHANGED <<vars, stream, dead, streamVars, tableVars>>

\* Mutant of Write: the mutex is not taken.
WriteUnlocked(t) ==
  /\ pc[t] = "lock" /\ t[1] \notin dead
  /\ conn[t[1]] # "closed"
  /\ toServer' = [toServer EXCEPT ![t[1]] = Append(@, req[t])]
  /\ pc' = [pc EXCEPT ![t] = "await"]
  /\ UNCHANGED <<vars, req, stream, held, calls, dead, toGuest, answer, tableVars>>

\* raw_call: the mutex, and the two writes.
Write(t) ==
  /\ pc[t] = "lock" /\ t[1] \notin dead
  /\ stream[t[1]] = None
  /\ conn[t[1]] # "closed"
  /\ stream' = [stream EXCEPT ![t[1]] = t]
  /\ toServer' = [toServer EXCEPT ![t[1]] = Append(@, req[t])]
  /\ pc' = [pc EXCEPT ![t] = "await"]
  /\ UNCHANGED <<vars, req, held, calls, dead, toGuest, answer, tableVars>>

Return(t) == pc' = [pc EXCEPT ![t] = "guest"] /\ req' = [req EXCEPT ![t] = None]

\* raw_call: the next frame is the response.  FileOpener::open makes a ProxyFile.
Receive(t) ==
  /\ pc[t] = "await" /\ t[1] \notin dead
  /\ toGuest[t[1]] # <<>>
  /\ LET a == Head(toGuest[t[1]])
     IN held' = [held EXCEPT ![t[1]] = IF req[t].op = "open" /\ a.ok THEN @ \cup {a.handle} ELSE @]
  /\ toGuest' = [toGuest EXCEPT ![t[1]] = Tail(@)]
  /\ stream' = [stream EXCEPT ![t[1]] = None]
  /\ Return(t)
  /\ UNCHANGED <<vars, calls, dead, toServer, answer, tableVars>>

\* raw_call returns an error when the stream is closed, and with it the mutex.
Broken(t) ==
  /\ conn[t[1]] = "closed" /\ t[1] \notin dead
  /\ \/ pc[t] = "lock" /\ stream[t[1]] = None /\ UNCHANGED stream
     \/ /\ pc[t] = "await" /\ toGuest[t[1]] = <<>>
        /\ stream' = [stream EXCEPT ![t[1]] = None]
  /\ Return(t)
  /\ UNCHANGED <<vars, held, calls, dead, streamVars, tableVars>>

\* The process ends, wherever its threads are and whatever files it has open.
Die(c) ==
  /\ conn[c] # "new" /\ c \notin dead
  /\ dead' = dead \cup {c}
  /\ UNCHANGED <<vars, pc, req, stream, held, calls, streamVars, tableVars>>

Exit(c) == (\A t \in Threads : t[1] = c => pc[t] = "guest") /\ Die(c)

-----------------------------------------------------------------------------
\* The server's side.

\* readFrame.  What a guest wrote before it ended is still read.
ReadFrame(c) ==
  /\ toServer[c] # <<>>
  /\ Head(toServer[c]).op # "huge"
  /\ Request(c)
  /\ UNCHANGED guestVars

EndOfStream(c) ==
  /\ c \in dead /\ toServer[c] = <<>>
  /\ HangUp(c)
  /\ UNCHANGED guestVars

\* Mutant of RefuseFrame: the frame is passed over.
SkipFrame(c) ==
  /\ toServer[c] # <<>>
  /\ Head(toServer[c]).op = "huge"
  /\ conn[c] = "idle" /\ c \notin gone
  /\ toServer' = [toServer EXCEPT ![c] = Tail(@)]
  /\ UNCHANGED <<vars, threadVars, toGuest, answer, tableVars>>

\* "frame too large" ends the connection, as a hang-up does.
RefuseFrame(c) ==
  /\ toServer[c] # <<>>
  /\ Head(toServer[c]).op = "huge"
  /\ conn[c] = "idle"
  /\ HangUp(c)
  /\ toServer' = [toServer EXCEPT ![c] = Tail(@)]
  /\ UNCHANGED <<threadVars, toGuest, answer, tableVars>>

NewHandle == nextHandle + 1

\* dispatch.  A call on a path or on an open file succeeds or not; MemFS has which.
DispatchFrame(c) ==
  /\ Dispatch(c)
  /\ \E ok \in BOOLEAN :
       LET r == Head(toServer[c])
           opened == r.op = "open" /\ ok
       IN /\ r.op = "file" /\ ok => r.handle \in DOMAIN handles
          /\ r.op = "close" => ok
          /\ nextHandle' = IF opened THEN nextHandle + 1 ELSE nextHandle
          /\ handles' = IF opened
                          THEN [h \in DOMAIN handles \cup {NewHandle} |-> IF h = NewHandle THEN c ELSE handles[h]]
                        ELSE [h \in DOMAIN handles \ (IF r.op = "close" THEN {r.handle} ELSE {}) |-> handles[h]]
          /\ answer' = [answer EXCEPT ![c] =
               [ok |-> ok, handle |-> IF opened THEN NewHandle ELSE 0, to |-> r.from]]
  /\ toServer' = [toServer EXCEPT ![c] = Tail(@)]
  /\ UNCHANGED <<threadVars, toGuest>>

\* writeFrame.
ReplyFrame(c) ==
  /\ Reply(c)
  /\ toGuest' = [toGuest EXCEPT ![c] = Append(@, answer[c])]
  /\ answer' = [answer EXCEPT ![c] = None]
  /\ UNCHANGED <<threadVars, toServer, tableVars>>

\* What happens to connections as a whole.  The table keeps a lost guest's handles.
Lifecycle == (Accept \/ AcceptFails \/ Spawn \/ Closing) /\ UNCHANGED guestVars
EndConn(c) == Finish(c) /\ UNCHANGED guestVars

HandleConn(c) ==
  ReadFrame(c) \/ EndOfStream(c) \/ RefuseFrame(c) \/ DispatchFrame(c) \/ ReplyFrame(c) \/ EndConn(c)

RawCall(t) == Write(t) \/ Receive(t) \/ Broken(t)

Program(t) ==
  \/ \E op \in {"path", "open"} : Begin(t, op, 0)
  \/ \E op \in {"file", "huge", "close"} : \E h \in held[t[1]] : Begin(t, op, h)

PNext ==
  \/ \E c \in Conns : ConnectFs(c) \/ Die(c) \/ HandleConn(c)
  \/ \E t \in Threads : Program(t) \/ RawCall(t)
  \/ Lifecycle

PSpec == PInit /\ [][PNext]_allVars

\* The server's goroutines, Close's caller and the threads of guests run on.  Guests
\* whose threads are in no call end: tswasmcli.Run waits for that before the server
\* is closed.
PFairness ==
  /\ \A c \in Conns : WF_allVars(HandleConn(c)) /\ WF_allVars(Exit(c))
  /\ \A t \in Threads : WF_allVars(RawCall(t))
  /\ WF_allVars((Accept \/ AcceptFails \/ Spawn) /\ UNCHANGED guestVars)
  /\ WF_allVars((CloseListener \/ Wait) /\ UNCHANGED guestVars)

PFairSpec == PSpec /\ PFairness

-----------------------------------------------------------------------------
\* Properties

\* The frame that a thread reads next is the response to the request that it has
\* written, whatever the guest's other threads call meanwhile (raw_call: "a
\* thread-safe UDS connection that serializes access").
AnswersAreOwn ==
  \A t \in Threads : pc[t] = "await" /\ toGuest[t[1]] # <<>> => Head(toGuest[t[1]]).to = t

\* Ids on their way between the server and a guest's files.
Passing(c) ==
  {req[t].handle : t \in {u \in Threads : u[1] = c /\ pc[u] # "guest" /\ req[u].op = "close"}}
  \cup {toGuest[c][i].handle : i \in 1 .. Len(toGuest[c])}
  \cup (IF answer[c] # None THEN {answer[c].handle} ELSE {})

\* Every file that a guest has open has its handle in the server's table, opened by
\* that guest and closed by nobody else; and the table has no other handles of a
\* guest that is connected but those that a call is just opening or closing.
FilesMatchHandles ==
  \A c \in Conns :
    LET opened == {h \in DOMAIN handles : handles[h] = c}
    IN /\ held[c] \subseteq opened
       /\ c \notin gone => opened \subseteq held[c] \cup Passing(c)

\* A call of a guest ends, unless its process does first: the mutex comes free, and
\* the response or the end of the stream comes, also when the server refuses a frame
\* or is closed.  A guest makes MaxCalls calls at most, so that all of them end means
\* that at last no live thread is in one.
GuestCallsEnd == <>[](\A t \in Threads : pc[t] = "guest" \/ t[1] \in dead)

=============================================================================
