--------------------------- MODULE ProxyFsProofs ---------------------------
(***************************************************************************)
(* Theorems about ProxyFs for any guests and threads: a thread gets the    *)
(* response to its own request; a guest's open files and the server's      *)
(* handles match.  That guests use the server as VFSServer says is in      *)
(* VFSServerProofs.                                                        *)
(***************************************************************************)
EXTENDS ProxyFs, TLAPS

PTypes ==
  /\ conn \in [Conns -> States]
  /\ gone \subseteq Conns
  /\ pc \in [Threads -> {"guest", "lock", "await"}]
  /\ req \in [Threads -> Requests \cup {None}]
  /\ stream \in [Conns -> Threads \cup {None}]
  /\ toServer \in [Conns -> Seq(Requests)]
  /\ toGuest \in [Conns -> Seq(Responses)]
  /\ answer \in [Conns -> Responses \cup {None}]
  /\ nextHandle \in Nat
  /\ handles \in [DOMAIN handles -> Conns]
  /\ DOMAIN handles \subseteq 1 .. nextHandle
  /\ held \in [Conns -> SUBSET Nat]

\* The mutex is with the one thread that awaits a response.
Mutex ==
  /\ \A c \in Conns : stream[c] # None => stream[c][1] = c
  /\ \A t \in Threads : pc[t] = "await" <=> stream[t[1]] = t
  /\ \A t \in Threads : pc[t] # "guest" => req[t] # None /\ req[t].from = t

\* A call's request, then its answer, then its response is all that is under way on a
\* connection that is not closed.
Frames ==
  /\ \A c \in Conns : conn[c] # "closed" =>
       /\ toServer[c] # <<>> =>
            /\ stream[c] # None
            /\ toServer[c] = <<req[stream[c]]>> /\ answer[c] = None /\ toGuest[c] = <<>>
       /\ answer[c] # None =>
            /\ stream[c] # None
            /\ answer[c].to = stream[c] /\ toGuest[c] = <<>>
       /\ conn[c] = "dispatch" => toServer[c] # <<>>
       /\ conn[c] = "reply" <=> answer[c] # None
  /\ \A c \in Conns : toGuest[c] # <<>> =>
       /\ stream[c] # None
       /\ Len(toGuest[c]) = 1 /\ toGuest[c][1].to = stream[c]

\* A handle that a call is to close is no file's any more.
Closers ==
  \A t \in Threads : pc[t] # "guest" /\ req[t].op = "close" =>
    /\ req[t].handle \in 1 .. nextHandle
    /\ req[t].handle \notin held[t[1]]
    /\ req[t].handle \in DOMAIN handles => handles[req[t].handle] = t[1]

\* The response to an open has a handle that is nobody's yet, and the response to a
\* close comes when the handle is gone.
Fits(c, a) ==
  /\ a.handle # 0 =>
       /\ a.handle \in DOMAIN handles /\ handles[a.handle] = c
       /\ a.handle \notin held[c]
       /\ \A t \in Threads : t[1] = c /\ pc[t] # "guest" /\ req[t].op = "close" => req[t].handle # a.handle
  /\ a.handle # 0 <=> req[stream[c]].op = "open" /\ a.ok
  /\ req[stream[c]].op = "close" => req[stream[c]].handle \notin DOMAIN handles

Answers ==
  \A c \in Conns :
    /\ conn[c] # "closed" /\ answer[c] # None => Fits(c, answer[c])
    /\ toGuest[c] # <<>> => Fits(c, toGuest[c][1])

\* A guest that the server has not begun to serve has no handles.
Unserved ==
  \A c \in Conns :
    conn[c] \in {"new", "backlog", "accepted"} \/ (conn[c] = "closed" /\ c \notin gone)
      => \A h \in DOMAIN handles : handles[h] # c

PInv == PTypes /\ Mutex /\ Frames /\ Closers /\ Answers /\ Unserved /\ FilesMatchHandles

-----------------------------------------------------------------------------

\* No guest is connected at first.
LEMMA PInvInit == PInit => PInv
<1> SUFFICES ASSUME PInit PROVE PInv
  OBVIOUS
<1> USE GuestAssumption DEF PInit, Init
<1>1. PTypes
  BY DEF PTypes, States
<1>2. Mutex /\ Frames
  BY DEF Mutex, Frames
<1>3. Closers /\ Answers /\ Unserved
  BY DEF Closers, Answers, Unserved
<1>4. FilesMatchHandles
  BY DEF FilesMatchHandles
<1> QED
  BY <1>1, <1>2, <1>3, <1>4 DEF PInv

\* Steps of the server and its clients that change no stream and not the table.
LEMMA QuietInv ==
  ASSUME PInv, UNCHANGED guestVars,
         conn' \in [Conns -> States], gone' \subseteq Conns, gone \subseteq gone',
         \A c \in Conns :
           /\ conn[c] = "closed" => conn'[c] = "closed"
           /\ conn'[c] = "dispatch" => conn[c] = "dispatch" \/ toServer[c] # <<>>
           /\ conn'[c] # "closed" => (conn'[c] = "reply" <=> conn[c] = "reply")
           /\ conn'[c] \in {"new", "backlog", "accepted"} => conn[c] \in {"new", "backlog", "accepted"}
           /\ conn'[c] = "closed" /\ c \notin gone' => conn[c] \in {"backlog", "closed"} /\ c \notin gone
  PROVE  PInv'
<1> USE DEF guestVars, threadVars, streamVars, tableVars
<1>1. PTypes'
  BY DEF PInv, PTypes
<1>2. Mutex'
  BY DEF PInv, Mutex
<1>3. Frames'
  BY DEF PInv, Frames
<1>4. Closers'
  BY Zenon DEF PInv, Closers
<1>5. Answers'
  BY DEF PInv, Answers, Fits
<1>6. Unserved'
  BY DEF PInv, Unserved
<1>7. FilesMatchHandles'
  BY DEF PInv, FilesMatchHandles, Passing
<1> QED
  BY <1>1, <1>2, <1>3, <1>4, <1>5, <1>6, <1>7 DEF PInv

\* Connections are made, accepted, served and lost.
LEMMA LifeInv ==
  ASSUME PInv,
         Lifecycle \/ \E c \in Conns : ConnectFs(c) \/ EndConn(c) \/ ReadFrame(c) \/ EndOfStream(c)
  PROVE  PInv'
<1> USE DEF PInv, PTypes, Goto
<1>1. CASE Lifecycle
  BY ZenonT(60), <1>1, QuietInv DEF Lifecycle, Accept, AcceptFails, Spawn, Closing, SetDone, CloseListener, Wait, States
<1>2. ASSUME NEW c \in Conns, ConnectFs(c) PROVE PInv'
  BY Zenon, <1>2, QuietInv DEF ConnectFs, Connect, States
<1>3. ASSUME NEW c \in Conns, EndConn(c) PROVE PInv'
  BY Zenon, <1>3, QuietInv DEF EndConn, Finish, States
<1>4. ASSUME NEW c \in Conns, ReadFrame(c) PROVE PInv'
  BY Zenon, <1>4, QuietInv DEF ReadFrame, Request, States
<1>5. ASSUME NEW c \in Conns, EndOfStream(c) PROVE PInv'
  BY <1>5, QuietInv DEF EndOfStream, HangUp, States
<1> QED
  BY <1>1, <1>2, <1>3, <1>4, <1>5

\* A stream with no frame.
LEMMA NoFrame == ASSUME NEW S, NEW s \in Seq(S), Len(s) = 0 PROVE s = <<>>
  OBVIOUS

\* A stream with one frame.
LEMMA OneFrame ==
  ASSUME NEW S, NEW s \in Seq(S), Len(s) = 1
  PROVE  s[1] \in S /\ Head(s) = s[1] /\ Tail(s) = <<>> /\ s # <<>>
<1>1. Len(Tail(s)) = 0 /\ Tail(s) \in Seq(S)
  OBVIOUS
<1>2. Tail(s) = <<>>
  BY Zenon, <1>1, NoFrame
<1> QED
  BY <1>2

\* A thread's guest.
LEMMA GuestOf == ASSUME NEW t \in Threads PROVE t[1] \in Conns
  BY GuestAssumption

\* A process that ends keeps everything as it is.
LEMMA DieInv == ASSUME PInv, NEW c \in Conns, Die(c) PROVE PInv'
<1> USE DEF Die, vars, streamVars, tableVars
<1>1. PTypes' /\ Mutex' /\ Frames'
  BY ZenonT(60) DEF PInv, PTypes, Mutex, Frames
<1>2. Closers' /\ Answers' /\ Unserved'
  BY DEF PInv, Closers, Answers, Fits, Unserved
<1>3. FilesMatchHandles'
  BY DEF PInv, FilesMatchHandles, Passing
<1> QED
  BY <1>1, <1>2, <1>3 DEF PInv

\* A thread that begins a call holds no mutex; the file that it drops goes from the
\* guest's files to the handles on their way.
LEMMA BeginInv ==
  ASSUME PInv, NEW t \in Threads, NEW op \in {"path", "open", "file", "huge", "close"}, NEW h,
         Begin(t, op, h)
  PROVE  PInv'
<1> DEFINE r == [op |-> op, handle |-> h, from |-> t]
<1> USE GuestOf, GuestAssumption DEF Begin, vars, streamVars, tableVars
<1>1. h \in Nat /\ r \in Requests /\ r # None
  BY DEF PInv, PTypes, Requests
<1>2. PTypes'
  BY Zenon, <1>1 DEF PInv, PTypes
<1>3. stream[t[1]] # t
  BY DEF PInv, Mutex
<1>4. req' = [req EXCEPT ![t] = r] /\ pc' = [pc EXCEPT ![t] = "lock"]
  OBVIOUS
<1>5. Mutex'
  <2>1. /\ pc'[t] = "lock" /\ req'[t] = r /\ r.from = t
        /\ \A u \in Threads \ {t} : pc'[u] = pc[u] /\ req'[u] = req[u]
    BY <1>4 DEF PInv, PTypes
  <2>2. stream' = stream
    BY Zenon
  <2>3. \A u \in Threads : pc'[u] = "await" <=> stream[u[1]] = u
    BY <1>3, <2>1 DEF PInv, Mutex
  <2>4. \A u \in Threads : pc'[u] # "guest" => req'[u] # None /\ req'[u].from = u
    BY <1>1, <2>1 DEF PInv, Mutex
  <2> QED
    BY <2>2, <2>3, <2>4 DEF PInv, Mutex
<1>6. \A c \in Conns : stream[c] # None => stream[c] # t /\ req'[stream[c]] = req[stream[c]]
  BY <1>3, <1>4 DEF PInv, PTypes, Mutex
<1>7. Frames'
  BY <1>6 DEF PInv, Frames
<1>8. op = "close" => h \in held[t[1]] /\ h \in DOMAIN handles /\ handles[h] = t[1]
  BY DEF PInv, FilesMatchHandles
<1>9. \A c \in Conns : held'[c] \subseteq held[c]
  BY Zenon DEF PInv, PTypes
<1>10. Closers'
  BY <1>1, <1>4, <1>8, <1>9 DEF PInv, PTypes, Closers
<1>11. ASSUME NEW c \in Conns, NEW a, Fits(c, a), stream[c] # None PROVE Fits(c, a)'
  <2>1. \A u \in Threads : u[1] = c /\ pc'[u] # "guest" /\ req'[u].op = "close" =>
          \/ pc[u] # "guest" /\ req[u].op = "close" /\ req'[u] = req[u]
          \/ req'[u].handle \in held[c]
    BY <1>4, <1>8 DEF PInv, PTypes
  <2>2. stream' = stream /\ handles' = handles
    OBVIOUS
  <2>3. req'[stream[c]] = req[stream[c]]
    BY Zenon, <1>6, <1>11
  <2> QED
    BY <2>1, <2>2, <2>3, <1>9, <1>11 DEF Fits
<1>12. Answers'
  BY <1>11 DEF PInv, Answers, Frames
<1>13. Unserved'
  BY DEF PInv, Unserved
<1>14. FilesMatchHandles'
  <2> SUFFICES ASSUME NEW c \in Conns
               PROVE  /\ held'[c] \subseteq {g \in DOMAIN handles : handles[g] = c}
                      /\ c \notin gone => {g \in DOMAIN handles : handles[g] = c} \subseteq held'[c] \cup Passing(c)'
    BY DEF FilesMatchHandles
  <2>1. Passing(c) \subseteq Passing(c)'
    <3>1. \A u \in Threads : pc[u] # "guest" => pc'[u] # "guest" /\ req'[u] = req[u]
      BY <1>4 DEF PInv, PTypes
    <3> QED
      BY <3>1 DEF Passing
  <2>2. held[c] \subseteq held'[c] \cup Passing(c)'
    <3>1. CASE op = "close" /\ c = t[1]
      <4>1. h \in Passing(c)'
        BY <1>4, <3>1 DEF Passing, PInv, PTypes
      <4>2. held'[c] = held[c] \ {h}
        BY <3>1 DEF PInv, PTypes
      <4> QED
        BY <4>1, <4>2
    <3>2. CASE ~(op = "close" /\ c = t[1])
      BY <3>2 DEF PInv, PTypes
    <3> QED
      BY <3>1, <3>2
  <2> QED
    BY <2>1, <2>2, <1>9 DEF PInv, FilesMatchHandles
<1> QED
  BY <1>2, <1>5, <1>7, <1>10, <1>12, <1>13, <1>14 DEF PInv

\* A thread that has taken the mutex finds nothing on the stream.
LEMMA WriteInv == ASSUME PInv, NEW t \in Threads, Write(t) PROVE PInv'
<1> USE GuestOf, GuestAssumption DEF Write, vars
<1>1. req[t] \in Requests /\ req[t].from = t
  BY DEF PInv, PTypes, Mutex
<1>2. toServer[t[1]] = <<>> /\ answer[t[1]] = None /\ toGuest[t[1]] = <<>>
  BY DEF PInv, Frames
<1>3. toServer' = [toServer EXCEPT ![t[1]] = <<req[t]>>]
  BY <1>1, <1>2 DEF PInv, PTypes
<1>4. PTypes'
  BY <1>1, <1>3 DEF PInv, PTypes, tableVars
<1>5. Mutex'
  BY DEF PInv, PTypes, Mutex
<1>6. Frames'
  <2>1. toServer'[t[1]] = <<req[t]>> /\ stream'[t[1]] = t
    BY Zenon, <1>3 DEF PInv, PTypes
  <2>2. \A c \in Conns : c # t[1] => toServer'[c] = toServer[c] /\ stream'[c] = stream[c]
    BY <1>3 DEF PInv, PTypes
  <2> QED
    BY <1>2, <2>1, <2>2 DEF PInv, Frames
<1>7. Closers'
  BY ZenonT(60) DEF PInv, PTypes, Closers, tableVars
<1>8. ASSUME NEW c \in Conns, NEW a, Fits(c, a), c # t[1] PROVE Fits(c, a)'
  BY ZenonT(60), <1>8 DEF PInv, PTypes, Fits, tableVars
<1>9. Answers'
  BY <1>2, <1>8 DEF PInv, PTypes, Answers
<1>10. Unserved'
  BY Zenon DEF PInv, Unserved, tableVars
<1>11. FilesMatchHandles'
  <2>1. \A u \in Threads : pc'[u] # "guest" <=> pc[u] # "guest"
    BY DEF PInv, PTypes
  <2>2. \A c \in Conns : Passing(c)' = Passing(c)
    BY ZenonT(60), <2>1 DEF Passing
  <2> QED
    BY <2>2 DEF PInv, FilesMatchHandles, tableVars
<1> QED
  BY <1>4, <1>5, <1>6, <1>7, <1>9, <1>10, <1>11 DEF PInv

\* The end of a call leaves the other guests' calls alone.
LEMMA OtherGuests ==
  ASSUME PInv, NEW t \in Threads, Return(t), UNCHANGED <<handles, answer>>,
         NEW c \in Conns, c # t[1],
         stream'[c] = stream[c], held'[c] = held[c], toGuest'[c] = toGuest[c]
  PROVE  /\ Passing(c)' = Passing(c)
         /\ \A a : stream[c] # None /\ Fits(c, a) => Fits(c, a)'
<1>1. \A u \in Threads : u[1] = c => pc'[u] = pc[u] /\ req'[u] = req[u]
  BY Zenon DEF Return, PInv, PTypes
<1>2. Passing(c)' = Passing(c)
  <2>1. {u \in Threads : u[1] = c /\ pc'[u] # "guest" /\ req'[u].op = "close"}
          = {u \in Threads : u[1] = c /\ pc[u] # "guest" /\ req[u].op = "close"}
    BY <1>1
  <2>2. \A u \in {v \in Threads : v[1] = c /\ pc[v] # "guest" /\ req[v].op = "close"} : req'[u].handle = req[u].handle
    BY <1>1
  <2> QED
    BY <2>1, <2>2 DEF Passing
<1>3. ASSUME NEW a, stream[c] # None, Fits(c, a) PROVE Fits(c, a)'
  <2>1. req'[stream[c]] = req[stream[c]]
    BY <1>1, <1>3 DEF PInv, PTypes, Mutex
  <2> QED
    BY <1>1, <1>3, <2>1 DEF Fits
<1> QED
  BY <1>2, <1>3

\* A thread reads the response to its own request: a file that was opened gets its
\* handle, one that was closed has none left.
LEMMA ReceiveInv == ASSUME PInv, NEW t \in Threads, Receive(t) PROVE PInv'
<1> DEFINE c == t[1]
<1> DEFINE a == toGuest[c][1]
<1> USE GuestOf, GuestAssumption DEF vars
<1>1. stream[c] = t
  BY Zenon DEF Receive, PInv, Mutex
<1>2. a \in Responses /\ a = Head(toGuest[c]) /\ Tail(toGuest[c]) = <<>>
  BY OneFrame DEF Receive, PInv, PTypes, Frames
<1>3. Fits(c, a)
  BY DEF Receive, PInv, Answers
<1>4. toGuest' = [toGuest EXCEPT ![c] = <<>>]
  BY Zenon, <1>2 DEF Receive, PInv, PTypes
<1>5. held' = [held EXCEPT ![c] = IF req[t].op = "open" /\ a.ok THEN @ \cup {a.handle} ELSE @]
  BY <1>2 DEF Receive
<1>6. a.handle \in Nat
  BY Zenon, <1>2 DEF Responses
<1>7. PTypes'
  BY <1>4, <1>5, <1>6 DEF Receive, Return, PInv, PTypes, tableVars
<1>8. Mutex'
  BY <1>1 DEF Receive, Return, PInv, PTypes, Mutex
<1>9. Frames'
  <2>1. conn[c] # "closed" => toServer[c] = <<>> /\ answer[c] = None
    BY DEF Receive, PInv, Frames
  <2>2. ASSUME NEW d \in Conns, d # c
        PROVE  stream'[d] = stream[d] /\ (stream[d] # None => req'[stream[d]] = req[stream[d]])
    BY <2>2 DEF Receive, Return, PInv, PTypes, Mutex
  <2>3. \A d \in Conns : d # c => toGuest'[d] = toGuest[d]
    BY <1>4 DEF PInv, PTypes
  <2>4. toGuest'[c] = <<>>
    BY <1>4 DEF PInv, PTypes
  <2>5. UNCHANGED <<conn, toServer, answer>>
    BY DEF Receive
  <2> QED
    BY <2>1, <2>2, <2>3, <2>4, <2>5 DEF Receive, PInv, Frames
<1>10. Closers'
  <2> SUFFICES ASSUME NEW u \in Threads, pc'[u] # "guest", req'[u].op = "close"
               PROVE  /\ req'[u].handle \in 1 .. nextHandle
                      /\ req'[u].handle \notin held'[u[1]]
                      /\ req'[u].handle \in DOMAIN handles => handles[req'[u].handle] = u[1]
    BY DEF Closers, Receive, tableVars
  <2>1. pc[u] # "guest" /\ req'[u] = req[u]
    BY Zenon DEF Receive, Return, PInv, PTypes
  <2>2. req[u].handle \notin held'[u[1]]
    BY ZenonT(60), <1>3, <1>1, <1>5, <2>1 DEF PInv, PTypes, Closers, Fits
  <2> QED
    BY Zenon, <2>1, <2>2 DEF PInv, Closers
<1>11. ASSUME NEW d \in Conns, d # c
       PROVE  /\ Passing(d)' = Passing(d)
              /\ \A b : stream[d] # None /\ Fits(d, b) => Fits(d, b)'
  <2>1. stream'[d] = stream[d] /\ held'[d] = held[d] /\ toGuest'[d] = toGuest[d]
    BY <1>4, <1>5, <1>11 DEF Receive, PInv, PTypes
  <2>2. Return(t) /\ UNCHANGED <<handles, answer>>
    BY DEF Receive, tableVars
  <2> QED
    BY <1>11, <2>1, <2>2, OtherGuests
<1>12. Answers'
  <2>1. conn[c] # "closed" => answer[c] = None
    BY DEF Receive, PInv, Frames
  <2>2. \A d \in Conns : d # c => toGuest'[d] = toGuest[d]
    BY <1>4 DEF PInv, PTypes
  <2> QED
    BY ZenonT(60), <1>4, <1>11, <2>1, <2>2 DEF Receive, PInv, PTypes, Answers, Frames
<1>13. Unserved'
  BY Zenon DEF Receive, PInv, Unserved, tableVars
<1>14. FilesMatchHandles'
  <2>1. held'[c] \subseteq {h \in DOMAIN handles : handles[h] = c}
    BY <1>1, <1>3, <1>5 DEF PInv, PTypes, FilesMatchHandles, Fits
  <2>2. ASSUME NEW h \in DOMAIN handles, h \in Passing(c) PROVE h \in held'[c] \cup Passing(c)'
    <3>1. h # 0
      BY DEF PInv, PTypes
    <3>2. CASE h = a.handle
      BY Zenon, <1>1, <1>3, <1>5, <3>1, <3>2 DEF Fits, PInv, PTypes
    <3>3. ASSUME NEW u \in Threads, u[1] = c, pc[u] # "guest", req[u].op = "close", h = req[u].handle
          PROVE  h \in Passing(c)'
      <4>1. u # t
        BY <1>1, <1>3, <3>3 DEF Fits
      <4>2. pc'[u] = pc[u] /\ req'[u] = req[u]
        BY Zenon, <4>1 DEF Receive, Return, PInv, PTypes
      <4> QED
        BY Zenon, <3>3, <4>2 DEF Passing
    <3>4. ASSUME answer[c] # None, h = answer[c].handle PROVE h \in Passing(c)'
      BY Zenon, <3>4 DEF Passing, Receive
    <3>5. Len(toGuest[c]) = 1
      BY DEF Receive, PInv, Frames
    <3>6. \A i \in 1 .. Len(toGuest[c]) : toGuest[c][i].handle = a.handle
      BY <3>5
    <3> QED
      BY ZenonT(60), <2>2, <3>2, <3>3, <3>4, <3>6 DEF Passing
  <2>3. held[c] \subseteq held'[c]
    BY <1>5 DEF PInv, PTypes
  <2>4. \A d \in Conns : d # c => held'[d] = held[d]
    BY Zenon, <1>5 DEF PInv, PTypes
  <2> QED
    BY ZenonT(60), <1>11, <2>1, <2>2, <2>3, <2>4 DEF Receive, PInv, FilesMatchHandles, tableVars
<1> QED
  BY <1>7, <1>8, <1>9, <1>10, <1>12, <1>13, <1>14 DEF PInv

\* A call on a closed stream returns; the guest's handles stay in the table.
LEMMA BrokenInv == ASSUME PInv, NEW t \in Threads, Broken(t) PROVE PInv'
<1> DEFINE c == t[1]
<1> USE GuestOf, GuestAssumption DEF vars
<1>1. toGuest[c] = <<>> /\ conn[c] = "closed"
  BY Zenon DEF Broken, PInv, Frames
<1>2. pc[t] # "guest" /\ Return(t) /\ UNCHANGED <<conn, gone, toServer, toGuest, answer, handles, nextHandle, held>>
  BY DEF Broken, streamVars, tableVars
<1>3. /\ stream' \in [Conns -> Threads \cup {None}]
      /\ stream'[c] = None
      /\ \A d \in Conns : d # c => stream'[d] = stream[d]
      /\ pc[t] = "await" => stream[c] = t
  BY ZenonT(60) DEF Broken, PInv, PTypes, Mutex
<1>4. PTypes'
  BY <1>2, <1>3 DEF Return, PInv, PTypes
<1>5. Mutex'
  <2>1. \A u \in Threads : u # t => pc'[u] = pc[u] /\ req'[u] = req[u]
    BY <1>2 DEF Return, PInv, PTypes
  <2>2. pc'[t] = "guest"
    BY <1>2 DEF Return, PInv, PTypes
  <2>3. \A u \in Threads : u # t /\ u[1] = c => pc[u] # "await"
    BY DEF Broken, PInv, Mutex
  <2> QED
    BY <1>3, <2>1, <2>2, <2>3 DEF PInv, Mutex
<1>6. Frames'
  <2>1. ASSUME NEW d \in Conns, d # c, stream[d] # None PROVE req'[stream[d]] = req[stream[d]]
    BY <1>2, <2>1 DEF Return, PInv, PTypes, Mutex
  <2> QED
    BY <1>1, <1>2, <1>3, <2>1 DEF PInv, Frames
<1>7. Closers'
  BY <1>2 DEF Return, PInv, PTypes, Closers
<1>8. ASSUME NEW d \in Conns, d # c
      PROVE  /\ Passing(d)' = Passing(d)
             /\ \A b : stream[d] # None /\ Fits(d, b) => Fits(d, b)'
  BY Zenon, <1>2, <1>3, <1>8, OtherGuests
<1>9. Answers'
  BY Zenon, <1>1, <1>2, <1>8 DEF PInv, Answers, Frames
<1>10. Unserved'
  BY Zenon, <1>2 DEF PInv, Unserved
<1>11. FilesMatchHandles'
  <2>1. c \notin gone => \A h \in DOMAIN handles : handles[h] # c
    BY <1>1 DEF PInv, Unserved
  <2> QED
    BY <1>2, <1>8, <2>1 DEF PInv, FilesMatchHandles
<1> QED
  BY <1>4, <1>5, <1>6, <1>7, <1>9, <1>10, <1>11 DEF PInv

\* A frame that is too large is all that was on its stream.
LEMMA RefuseInv == ASSUME PInv, NEW c \in Conns, RefuseFrame(c) PROVE PInv'
<1> USE DEF RefuseFrame, HangUp, threadVars, tableVars
<1>1. stream[c] \in Threads /\ toServer[c] = <<req[stream[c]]>> /\ answer[c] = None /\ toGuest[c] = <<>>
  BY ZenonT(60) DEF PInv, PTypes, Frames
<1>2. req[stream[c]] \in Requests /\ Tail(toServer[c]) = <<>>
  <2>1. toServer[c] \in Seq(Requests) /\ Len(toServer[c]) = 1
    BY Zenon, <1>1 DEF PInv, PTypes
  <2>2. toServer[c][1] \in Requests /\ Tail(toServer[c]) = <<>>
    BY <2>1, OneFrame
  <2> QED
    BY <1>1, <2>2
<1>3. toServer' = [toServer EXCEPT ![c] = <<>>] /\ gone' = gone \cup {c}
  BY ZenonT(60), <1>2
<1>4. PTypes'
  BY <1>3 DEF PInv, PTypes
<1>5. Mutex' /\ Closers'
  BY Zenon DEF PInv, Mutex, Closers
<1>6. Frames'
  <2>1. toServer'[c] = <<>> /\ \A d \in Conns : d # c => toServer'[d] = toServer[d]
    BY ZenonT(60), <1>3 DEF PInv, PTypes
  <2> QED
    BY <2>1 DEF PInv, Frames
<1>7. Answers'
  <2>1. ASSUME NEW d \in Conns, NEW a, Fits(d, a) PROVE Fits(d, a)'
    BY <2>1 DEF Fits
  <2>2. \A d \in Conns : conn'[d] # "closed" => conn[d] # "closed"
    BY DEF PInv, PTypes
  <2> QED
    BY ZenonT(60), <2>1, <2>2 DEF PInv, Answers
<1>8. Unserved'
  BY Zenon, <1>3 DEF PInv, Unserved
<1>9. FilesMatchHandles'
  <2>1. \A d \in Conns : Passing(d)' = Passing(d)
    BY ZenonT(60) DEF Passing
  <2> QED
    BY ZenonT(60), <1>3, <2>1 DEF PInv, FilesMatchHandles
<1> QED
  BY Zenon, <1>4, <1>5, <1>6, <1>7, <1>8, <1>9 DEF PInv

\* A response takes the place of its answer.
LEMMA ReplyInv == ASSUME PInv, NEW c \in Conns, ReplyFrame(c) PROVE PInv'
<1> USE DEF ReplyFrame, Reply, Goto, threadVars, tableVars
<1>1. answer[c] \in Responses /\ answer[c] # None /\ toGuest[c] = <<>> /\ toServer[c] = <<>>
  BY DEF PInv, PTypes, Frames
<1>2. toGuest' = [toGuest EXCEPT ![c] = <<answer[c]>>]
  BY <1>1 DEF PInv, PTypes
<1>3. PTypes'
  BY <1>1, <1>2 DEF PInv, PTypes, States
<1>4. Mutex' /\ Closers'
  BY Zenon DEF PInv, Mutex, Closers
<1>5. Frames'
  <2>1. toGuest'[c] = <<answer[c]>> /\ answer'[c] = None /\ conn'[c] # "reply" /\ conn'[c] # "dispatch"
    BY <1>1, <1>2 DEF PInv, PTypes
  <2>2. \A d \in Conns : d # c => toGuest'[d] = toGuest[d] /\ answer'[d] = answer[d] /\ conn'[d] = conn[d]
    BY ZenonT(60), <1>2 DEF PInv, PTypes
  <2> QED
    BY <1>1, <2>1, <2>2 DEF PInv, Frames
<1>6. Answers'
  BY <1>1, <1>2 DEF PInv, PTypes, Answers, Fits
<1>7. Unserved'
  BY DEF PInv, PTypes, Unserved
<1>8. \A d \in Conns : Passing(d)' = Passing(d)
  <2>1. ASSUME NEW d \in Conns, d # c PROVE Passing(d)' = Passing(d)
    BY <1>2, <2>1 DEF PInv, PTypes, Passing
  <2>2. toGuest'[c] = <<answer[c]>> /\ answer'[c] = None
    BY ZenonT(60), <1>2 DEF PInv, PTypes
  <2>3. {toGuest'[c][i].handle : i \in 1 .. Len(toGuest'[c])} = {answer[c].handle}
    BY <2>2
  <2>4. {toGuest[c][i].handle : i \in 1 .. Len(toGuest[c])} = {}
    BY <1>1
  <2>5. Passing(c)' = Passing(c)
    BY ZenonT(60), <1>1, <2>2, <2>3, <2>4 DEF Passing
  <2> QED
    BY <2>1, <2>5
<1>9. FilesMatchHandles'
  BY <1>8 DEF PInv, FilesMatchHandles
<1> QED
  BY <1>3, <1>4, <1>5, <1>6, <1>7, <1>9 DEF PInv

\* dispatch gives out an id that was never used, and closes only what its own guest
\* has dropped.
LEMMA DispatchInv == ASSUME PInv, NEW c \in Conns, DispatchFrame(c) PROVE PInv'
<1> DEFINE t == stream[c]
<1> DEFINE r == req[t]
<1> USE GuestAssumption DEF Goto
<1>1. t \in Threads /\ t[1] = c /\ toServer[c] = <<r>> /\ answer[c] = None /\ toGuest[c] = <<>> /\ conn[c] = "dispatch"
  BY DEF DispatchFrame, Dispatch, PInv, PTypes, Mutex, Frames
<1>2. r \in Requests /\ r.from = t /\ pc[t] # "guest" /\ Head(toServer[c]) = r /\ Tail(toServer[c]) = <<>>
  <2>1. toServer[c] \in Seq(Requests) /\ Len(toServer[c]) = 1
    BY ZenonT(60), <1>1 DEF PInv, PTypes
  <2>2. toServer[c][1] \in Requests /\ Head(toServer[c]) = toServer[c][1] /\ Tail(toServer[c]) = <<>>
    BY <2>1, OneFrame
  <2>3. pc[t] = "await"
    BY <1>1 DEF PInv, Mutex
  <2>4. r.from = t
    BY <1>1, <2>3 DEF PInv, Mutex
  <2> QED
    BY <1>1, <2>2, <2>3, <2>4
<1>3. PICK ok \in BOOLEAN :
        LET opened == r.op = "open" /\ ok
        IN /\ r.op = "close" => ok
           /\ nextHandle' = IF opened THEN nextHandle + 1 ELSE nextHandle
           /\ handles' = IF opened
                           THEN [h \in DOMAIN handles \cup {NewHandle} |-> IF h = NewHandle THEN c ELSE handles[h]]
                         ELSE [h \in DOMAIN handles \ (IF r.op = "close" THEN {r.handle} ELSE {}) |-> handles[h]]
           /\ answer' = [answer EXCEPT ![c] =
                [ok |-> ok, handle |-> IF opened THEN NewHandle ELSE 0, to |-> r.from]]
  BY ZenonT(60), <1>2 DEF DispatchFrame
<1> DEFINE opened == r.op = "open" /\ ok
<1> DEFINE b == [ok |-> ok, handle |-> IF opened THEN NewHandle ELSE 0, to |-> t]
<1>4. /\ UNCHANGED <<gone, pc, req, stream, held, toGuest>>
      /\ conn' = [conn EXCEPT ![c] = "reply"]
      /\ toServer' = [toServer EXCEPT ![c] = <<>>]
      /\ answer' = [answer EXCEPT ![c] = b]
  BY ZenonT(60), <1>2, <1>3 DEF DispatchFrame, Dispatch, threadVars
<1>5. /\ nextHandle \in Nat /\ nextHandle' \in Nat /\ nextHandle' >= nextHandle
      /\ DOMAIN handles \subseteq 1 .. nextHandle
      /\ NewHandle = nextHandle + 1 /\ NewHandle \notin DOMAIN handles
      /\ opened => nextHandle' = NewHandle
  <2>1. nextHandle \in Nat /\ DOMAIN handles \subseteq 1 .. nextHandle
    BY DEF PInv, PTypes
  <2>2. nextHandle' = IF opened THEN nextHandle + 1 ELSE nextHandle
    BY Zenon, <1>3
  <2> QED
    BY <2>1, <2>2 DEF NewHandle
<1>6. \A h \in DOMAIN handles :
        \/ h \in DOMAIN handles' /\ handles'[h] = handles[h]
        \/ r.op = "close" /\ h = r.handle
  BY ZenonT(60), <1>3, <1>5
<1>7. \A h \in DOMAIN handles' :
        \/ h \in DOMAIN handles /\ handles'[h] = handles[h]
        \/ opened /\ h = NewHandle /\ handles'[h] = c
  BY ZenonT(60), <1>3, <1>5
<1>8. /\ opened => NewHandle \in DOMAIN handles' /\ handles'[NewHandle] = c
      /\ r.op = "close" => r.handle \notin DOMAIN handles'
  BY ZenonT(60), <1>3, <1>5
<1>9. b \in Responses /\ b # None
  BY <1>1, <1>3, <1>5 DEF Responses
<1>10. PTypes'
  <2>1. handles' \in [DOMAIN handles' -> Conns]
    <3>1. handles' = [h \in DOMAIN handles' |-> handles'[h]]
      BY Zenon, <1>3
    <3>2. \A h \in DOMAIN handles' : handles'[h] \in Conns
      BY ZenonT(60), <1>7 DEF PInv, PTypes
    <3> QED
      BY <3>1, <3>2
  <2>2. DOMAIN handles' \subseteq 1 .. nextHandle'
    BY <1>5, <1>7
  <2> QED
    BY <1>4, <1>5, <1>9, <2>1, <2>2 DEF PInv, PTypes, States
<1>11. Mutex'
  BY ZenonT(60), <1>4 DEF PInv, Mutex
<1>12. Frames'
  <2>1. conn'[c] = "reply" /\ toServer'[c] = <<>> /\ answer'[c] = b
    BY <1>4 DEF PInv, PTypes
  <2>2. \A d \in Conns : d # c => conn'[d] = conn[d] /\ toServer'[d] = toServer[d] /\ answer'[d] = answer[d]
    BY ZenonT(60), <1>4 DEF PInv, PTypes
  <2>3. toGuest' = toGuest /\ stream' = stream /\ req' = req /\ b.to = stream[c] /\ stream[c] # None
    BY <1>1, <1>4
  <2>4. b # None /\ toGuest[c] = <<>>
    BY Zenon, <1>1, <1>9
  <2> HIDE DEF b
  <2> QED
    BY <2>1, <2>2, <2>3, <2>4 DEF PInv, Frames
<1>13. Closers'
  <2> SUFFICES ASSUME NEW u \in Threads, pc[u] # "guest", req[u].op = "close"
               PROVE  /\ req[u].handle \in 1 .. nextHandle'
                      /\ req[u].handle \notin held[u[1]]
                      /\ req[u].handle \in DOMAIN handles' => handles'[req[u].handle] = u[1]
    BY Zenon, <1>4 DEF Closers
  <2>1. /\ req[u].handle \in 1 .. nextHandle
        /\ req[u].handle \notin held[u[1]]
        /\ req[u].handle \in DOMAIN handles => handles[req[u].handle] = u[1]
    BY Zenon DEF PInv, Closers
  <2>2. req[u].handle \in 1 .. nextHandle' /\ req[u].handle # NewHandle
    BY <1>5, <2>1
  <2> QED
    BY ZenonT(60), <1>7, <2>1, <2>2
<1>14. Fits(c, answer[c])'
  <2>1. held[c] \subseteq DOMAIN handles
    BY Zenon DEF PInv, FilesMatchHandles
  <2>2. \A u \in Threads : pc[u] # "guest" /\ req[u].op = "close" => req[u].handle # NewHandle
    BY <1>5 DEF PInv, Closers
  <2>3. b.ok = ok /\ b.handle = (IF opened THEN NewHandle ELSE 0) /\ NewHandle # 0
    BY <1>5
  <2>4. b.handle # 0 =>
          /\ b.handle \in DOMAIN handles' /\ handles'[b.handle] = c
          /\ b.handle \notin held[c]
          /\ \A u \in Threads : u[1] = c /\ pc[u] # "guest" /\ req[u].op = "close" => req[u].handle # b.handle
    BY Zenon, <1>5, <1>8, <2>1, <2>2, <2>3
  <2>5. b.handle # 0 <=> r.op = "open" /\ b.ok
    BY <2>3
  <2>6. answer'[c] = b
    BY <1>4 DEF PInv, PTypes
  <2> HIDE DEF b, opened
  <2> QED
    BY ZenonT(60), <1>4, <1>8, <2>4, <2>5, <2>6 DEF Fits
<1>15. ASSUME NEW d \in Conns, d # c, NEW a, stream[d] # None, Fits(d, a) PROVE Fits(d, a)'
  <2>1. stream[d] \in Threads /\ pc[stream[d]] # "guest"
    BY <1>15 DEF PInv, PTypes, Mutex
  <2>2. a.handle # 0 => a.handle \in DOMAIN handles' /\ handles'[a.handle] = d
    BY ZenonT(60), <1>1, <1>2, <1>6, <1>15 DEF Fits, PInv, Closers
  <2>3. req[stream[d]].op = "close" => req[stream[d]].handle \notin DOMAIN handles'
    BY <1>5, <1>7, <1>15, <2>1 DEF Fits, PInv, Closers
  <2> QED
    BY ZenonT(60), <1>4, <1>15, <2>2, <2>3 DEF Fits
<1>16. Answers'
  <2>1. toGuest' = toGuest /\ \A d \in Conns : d # c => answer'[d] = answer[d] /\ conn'[d] = conn[d]
    BY Zenon, <1>4 DEF PInv, PTypes
  <2>2. ASSUME NEW d \in Conns, d # c, conn[d] # "closed", answer[d] # None PROVE Fits(d, answer[d])'
    BY Zenon, <1>15, <2>1, <2>2 DEF PInv, Answers, Frames
  <2>3. ASSUME NEW d \in Conns, d # c, toGuest[d] # <<>> PROVE Fits(d, toGuest[d][1])'
    BY Zenon, <1>15, <2>1, <2>3 DEF PInv, Answers, Frames
  <2> QED
    BY Zenon, <1>1, <1>14, <2>1, <2>2, <2>3 DEF Answers
<1>17. Unserved'
  BY Zenon, <1>4, <1>7 DEF PInv, PTypes, Unserved
<1>18. FilesMatchHandles'
  <2>1. ASSUME NEW d \in Conns, NEW h \in held[d] PROVE h \in DOMAIN handles' /\ handles'[h] = d
    <3>1. h \in DOMAIN handles /\ handles[h] = d
      BY Zenon DEF PInv, FilesMatchHandles
    <3>2. ~(r.op = "close" /\ h = r.handle)
      BY ZenonT(60), <1>1, <1>2, <3>1 DEF PInv, Closers
    <3> QED
      BY <1>6, <3>1, <3>2
  <2>2. \A d \in Conns : Passing(d) \subseteq Passing(d)'
    BY <1>1, <1>4 DEF PInv, PTypes, Passing
  <2>3. opened => NewHandle \in Passing(c)'
    <3>1. answer'[c] = b
      BY <1>4 DEF PInv, PTypes
    <3> QED
      BY <1>9, <3>1 DEF Passing
  <2>4. ASSUME NEW d \in Conns, d \notin gone, NEW h \in DOMAIN handles', handles'[h] = d
        PROVE  h \in held[d] \cup Passing(d)'
    BY <1>7, <2>2, <2>3, <2>4 DEF PInv, FilesMatchHandles
  <2> QED
    BY Zenon, <1>4, <2>1, <2>4 DEF FilesMatchHandles
<1> QED
  BY Zenon, <1>10, <1>11, <1>12, <1>13, <1>16, <1>17, <1>18 DEF PInv

\* Every step of guests and server preserves the invariant.
LEMMA PInvNext == PInv /\ [PNext]_allVars => PInv'
<1> SUFFICES ASSUME PInv, [PNext]_allVars PROVE PInv'
  OBVIOUS
<1>1. ASSUME NEW c \in Conns, HandleConn(c) PROVE PInv'
  BY <1>1, LifeInv, RefuseInv, DispatchInv, ReplyInv DEF HandleConn
<1>2. ASSUME NEW t \in Threads, Program(t) PROVE PInv'
  BY <1>2, BeginInv DEF Program
<1>3. ASSUME NEW t \in Threads, RawCall(t) PROVE PInv'
  BY Zenon, <1>3, WriteInv, ReceiveInv, BrokenInv DEF RawCall
<1>4. CASE UNCHANGED allVars
  BY Zenon, <1>4, QuietInv DEF allVars, vars, PInv, PTypes
<1> QED
  BY <1>1, <1>2, <1>3, <1>4, DieInv, LifeInv DEF PNext

\* The frame that raw_call reads is the response to the request that it wrote, for
\* any number of threads that share the stream.
THEOREM OwnAnswers == PSpec => []AnswersAreOwn
<1>1. PInv => AnswersAreOwn
  BY GuestOf, OneFrame DEF PInv, PTypes, Mutex, Frames, AnswersAreOwn
<1> QED
  BY <1>1, PInvInit, PInvNext, PTL DEF PSpec

\* A guest's ProxyFiles and the server's handle table match, for any number of guests.
THEOREM HandlesMatch == PSpec => []FilesMatchHandles
<1>1. PInv => FilesMatchHandles
  BY DEF PInv
<1> QED
  BY <1>1, PInvInit, PInvNext, PTL DEF PSpec

=============================================================================
