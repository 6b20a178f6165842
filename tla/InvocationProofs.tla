-------------------------- MODULE InvocationProofs --------------------------
(***************************************************************************)
(* Theorems about Invocation for any finite set of calls, any files and    *)
(* any number of guests: a call that overlaps no other is served by its    *)
(* own server and loses no file, whatever runtime it uses; a server        *)
(* outlives its guests; and no socket is left behind.                      *)
(***************************************************************************)
EXTENDS Invocation, TLAPS

\* The call's listener is open.
Live == {"getSession", "check", "script", "exec", "setSession", "close"}

Reached(g) == guest[g] = "queued" \/ Connected(g)

Types == TypeOK /\ \A g \in Calls : Reached(g) => at[g] \in Calls

\* What the path and the guests lead to is there, and a guest runs only in an exec.
Sockets ==
  /\ path # None => pc[path] \in Live
  /\ \A c \in up : pc[c] \in Live
  /\ \A g \in Calls : guest[g] # "none" => pc[g] = "exec"
  /\ \A g \in Calls : Connected(g) => pc[at[g]] \in Live \cup {"wait"}

\* Two calls that are under way have overlapped, and so has one whose server
\* another's guest has reached.
Overlaps ==
  /\ \A c, d \in Active : c # d => c \in overlapped
  /\ \A g \in Calls : Reached(g) /\ at[g] # g => at[g] \in overlapped

OwnServer(c) ==
  c \notin overlapped =>
    /\ guest[c] # "failed"
    /\ Reached(c) => at[c] = c
    /\ pc[c] \in Live => path = c
    /\ pc[c] = "listen" => path = None

\* Where the files that script and guest share are, while a guest is under way.
OwnFiles(c) ==
  c \notin overlapped =>
    /\ guest[c] \in {"none", "connect", "queued", "accepted", "pull", "wasix", "exited"} =>
         files[c] = expect[c]
    /\ guest[c] = "pull" => \A p \in Paths \ todo[c] : copy[c][p] = files[c][p]
    /\ guest[c] \in {"wasip2", "stale", "push"} => copy[c] = expect[c]
    /\ guest[c] = "stale" =>
         \A p \in Paths \ todo[c] : copy[c][p] = None => files[c][p] = None
    /\ guest[c] = "push" => \A p \in Paths \ todo[c] : copy[c][p] = files[c][p]

Own == \A c \in Calls : OwnServer(c) /\ OwnFiles(c)

Inv == Types /\ Sockets /\ Overlaps /\ Own

-----------------------------------------------------------------------------

\* Before the first call the invariant holds.
LEMMA InvInit == Init => Inv
<1> SUFFICES ASSUME Init PROVE Inv
  OBVIOUS
<1> USE DEF Init
<1>1. Types
  <2>1. files \in [Calls -> [Paths -> Contents]]
    BY DEF Contents
  <2>2. copy \in [Calls -> [Paths -> Contents]]
    BY DEF Contents
  <2>3. execs \in [Calls -> 0 .. MaxExecs]
    BY CallsAssumption
  <2> QED
    BY <2>1, <2>2, <2>3 DEF Types, TypeOK, PCs, GuestStates, Reached, Connected
<1>2. Sockets
  BY DEF Sockets, Connected
<1>3. Overlaps
  BY DEF Overlaps, Active, Reached, Connected
<1>4. Own
  BY DEF Own, OwnServer, OwnFiles, Reached, Connected, Live
<1> QED
  BY <1>1, <1>2, <1>3, <1>4 DEF Inv

\* Writing or removing one file of one call.
LEMMA PutFile ==
  ASSUME NEW f \in [Calls -> [Paths -> Contents]],
         NEW c \in Calls, NEW p \in Paths, NEW v \in Contents
  PROVE  [f EXCEPT ![c][p] = v] \in [Calls -> [Paths -> Contents]]
  OBVIOUS

\* Moving one call leaves the others where they are.
LEMMA MoveCall ==
  ASSUME Types, NEW c \in Calls, NEW l \in PCs, Goto(c, l)
  PROVE  pc' \in [Calls -> PCs] /\ pc'[c] = l /\ \A d \in Calls \ {c} : pc'[d] = pc[d]
  BY DEF Types, TypeOK, Goto

\* Moving one guest leaves the others where they are.
LEMMA MoveGuest ==
  ASSUME Types, NEW c \in Calls, NEW l \in GuestStates, GuestTo(c, l)
  PROVE  /\ guest' \in [Calls -> GuestStates]
         /\ guest'[c] = l
         /\ \A d \in Calls \ {c} : guest'[d] = guest[d]
  BY DEF Types, TypeOK, GuestTo

\* While a call is under way, one that has overlapped none is not.
LEMMA OthersAside ==
  ASSUME Inv, NEW c \in Calls, pc[c] \notin {"idle", "done"}, NEW d \in Calls \ {c},
         d \notin overlapped
  PROVE  pc[d] \in {"idle", "done"} /\ guest[d] = "none"
  BY DEF Inv, Overlaps, Active, Sockets

\* So what such a call does changes nothing for one that has overlapped none.
LEMMA OthersOwn ==
  ASSUME Inv, NEW c \in Calls, pc[c] \notin {"idle", "done"}, overlapped' = overlapped,
         \A d \in Calls \ {c} :
           /\ pc'[d] = pc[d]
           /\ guest[d] = "none" => guest'[d] = "none"
           /\ d \notin overlapped => files'[d] = files[d] /\ expect'[d] = expect[d],
         OwnServer(c)', OwnFiles(c)'
  PROVE  Own'
<1>1. ASSUME NEW d \in Calls \ {c}, d \notin overlapped PROVE OwnServer(d)' /\ OwnFiles(d)'
  <2>1. pc'[d] \in {"idle", "done"} /\ guest'[d] = "none"
    BY <1>1, OthersAside
  <2>2. files'[d] = expect'[d]
    BY <1>1, OthersAside DEF Inv, Own, OwnFiles
  <2> QED
    BY <2>1, <2>2 DEF OwnServer, OwnFiles, Reached, Connected, Live
<1>2. ASSUME NEW d \in Calls \ {c}, d \in overlapped PROVE OwnServer(d)' /\ OwnFiles(d)'
  BY <1>2 DEF OwnServer, OwnFiles
<1> QED
  BY <1>1, <1>2 DEF Own

-----------------------------------------------------------------------------
\* The guest's steps

\* A step of c's guest: what has to be shown of it.
LEMMA GuestStep ==
  ASSUME Inv, NEW c \in Calls, guest[c] # "none",
         NEW l \in GuestStates \ {"none"}, GuestTo(c, l),
         UNCHANGED <<pc, path, up, runtime, session, mine, execs, overlapped>>,
         at' \in [Calls -> Calls \cup {None}], \A d \in Calls \ {c} : at'[d] = at[d],
         copy' \in [Calls -> [Paths -> Contents]], todo' \in [Calls -> SUBSET Paths],
         files' \in [Calls -> [Paths -> Contents]], expect' \in [Calls -> [Paths -> Contents]],
         Reached(c)' => at'[c] \in Calls /\ (at'[c] # c => at'[c] \in overlapped),
         Connected(c)' => pc[at'[c]] \in Live \cup {"wait"},
         \A d \in Calls \ {c} :
           d \notin overlapped => files'[d] = files[d] /\ expect'[d] = expect[d],
         OwnServer(c)', OwnFiles(c)'
  PROVE  Inv'
<1>1. pc[c] = "exec"
  BY DEF Inv, Sockets
<1>2. guest' \in [Calls -> GuestStates] /\ guest'[c] = l /\ \A d \in Calls \ {c} : guest'[d] = guest[d]
  BY MoveGuest DEF Inv
<1>3. \A d \in Calls \ {c} : (Reached(d)' <=> Reached(d)) /\ (Connected(d)' <=> Connected(d))
  BY <1>2 DEF Reached, Connected
<1>4. Types'
  BY Zenon, <1>2, <1>3 DEF Inv, Types, TypeOK
<1>5. Sockets'
  BY ZenonT(60), <1>1, <1>2, <1>3 DEF Inv, Sockets
<1>6. Overlaps'
  BY <1>3 DEF Inv, Overlaps, Active
<1>7. Own'
  BY Zenon, <1>1, <1>2, OthersOwn
<1> QED
  BY <1>4, <1>5, <1>6, <1>7 DEF Inv

\* A guest that stays where it is.
LEMMA GuestStays ==
  ASSUME Types, NEW c \in Calls, UNCHANGED guest
  PROVE  guest[c] \in GuestStates /\ GuestTo(c, guest[c])
  BY DEF Types, TypeOK, GuestTo

\* A guest reaches its own server, or one that has overlapped.
LEMMA WhereGuestIs ==
  ASSUME Inv, NEW c \in Calls, Connected(c)
  PROVE  /\ pc[c] = "exec" /\ guest[c] # "none" /\ Reached(c)
         /\ at[c] \in Calls /\ (at[c] # c => at[c] \in overlapped)
         /\ c \notin overlapped => at[c] = c
         /\ pc[at[c]] \in Live \cup {"wait"}
<1>1. guest[c] # "none" /\ Reached(c)
  BY DEF Connected, Reached
<1> QED
  BY <1>1 DEF Inv, Types, Sockets, Overlaps, Own, OwnServer

\* Connecting, to whatever the path leads to.
LEMMA ConnectInv == ASSUME Inv, NEW c \in Calls, Connect(c) PROVE Inv'
<1> DEFINE l == IF path = None THEN "failed" ELSE "queued"
<1>1. l \in GuestStates \ {"none"}
  BY DEF GuestStates
<1>2. guest[c] = "connect" /\ pc[c] = "exec" /\ GuestTo(c, l)
  BY DEF Connect, Inv, Sockets
<1>3. UNCHANGED <<pc, path, up, runtime, session, mine, execs, copy, todo, files, expect, overlapped>>
  BY DEF Connect, socketVars, sessionVars, packageVars, fileVars
<1>4. /\ at' \in [Calls -> Calls \cup {None}]
      /\ at'[c] = path /\ \A d \in Calls \ {c} : at'[d] = at[d]
  BY DEF Connect, Inv, Types, TypeOK
<1>5. path \in Calls \cup {None}
  BY DEF Inv, Types, TypeOK
<1>6. guest'[c] = l
  BY <1>1, <1>2, MoveGuest DEF Inv
<1>7. path # None /\ path # c => path \in overlapped
  <2> SUFFICES ASSUME path # None, path # c PROVE path \in overlapped
    OBVIOUS
  <2>1. pc[path] \in Live /\ path \in Calls
    BY <1>5 DEF Inv, Sockets
  <2>2. path \in Active /\ c \in Active
    BY <1>2, <2>1 DEF Active, Live
  <2> QED
    BY <2>2 DEF Inv, Overlaps
<1>8. c \notin overlapped => path = c
  BY <1>2 DEF Inv, Own, OwnServer, Live
<1>9. ~Connected(c)' /\ (Reached(c)' => path # None)
  BY <1>6 DEF Connected, Reached
<1>10. c \notin overlapped => c # None
  BY CallsAssumption
<1>11. OwnServer(c)'
  BY <1>2, <1>3, <1>4, <1>6, <1>8, <1>10 DEF OwnServer
<1>12. OwnFiles(c)'
  BY <1>2, <1>3, <1>6 DEF Inv, Own, OwnFiles
<1>13. guest[c] # "none"
  BY <1>2
<1> HIDE DEF l
<1> QED
  BY Zenon, <1>1, <1>2, <1>3, <1>4, <1>5, <1>7, <1>9, <1>11, <1>12, <1>13, GuestStep
     DEF Inv, Types, TypeOK

\* A guest that fails before its program runs leaves the files alone.
LEMMA GuestFailsInv == ASSUME Inv, NEW c \in Calls, GuestFails(c) PROVE Inv'
<1>1. "exited" \in GuestStates \ {"none"}
  BY DEF GuestStates
<1>2. guest[c] \in {"connect", "pull"} /\ GuestTo(c, "exited")
  BY DEF GuestFails
<1>3. UNCHANGED <<pc, path, up, runtime, session, mine, execs, files, expect, overlapped>>
  BY DEF GuestFails, socketVars, sessionVars, packageVars, fileVars
<1>4. guest'[c] = "exited"
  BY <1>1, <1>2, MoveGuest DEF Inv
<1>5. at' \in [Calls -> Calls \cup {None}] /\ \A d \in Calls \ {c} : at'[d] = at[d]
  BY DEF GuestFails, Inv, Types, TypeOK
<1>6. copy' \in [Calls -> [Paths -> Contents]]
  <2>1. [p \in Paths |-> None] \in [Paths -> Contents]
    BY DEF Contents
  <2> QED
    BY <2>1 DEF GuestFails, Inv, Types, TypeOK
<1>7. todo' \in [Calls -> SUBSET Paths]
  BY DEF GuestFails, Inv, Types, TypeOK
<1>8. ~Reached(c)' /\ ~Connected(c)'
  BY <1>4 DEF Reached, Connected
<1>9. OwnServer(c)'
  BY <1>3, <1>4, <1>8 DEF Inv, Own, OwnServer
<1>10. OwnFiles(c)'
  BY <1>2, <1>3, <1>4 DEF Inv, Own, OwnFiles
<1>11. guest[c] # "none"
  BY <1>2
<1> QED
  BY Zenon, <1>1, <1>2, <1>3, <1>5, <1>6, <1>7, <1>8, <1>9, <1>10, <1>11, GuestStep DEF Inv, Types, TypeOK

\* Serve accepting the connection.
LEMMA AcceptInv == ASSUME Inv, NEW c \in Calls, Accept(c) PROVE Inv'
<1>1. "accepted" \in GuestStates \ {"none"}
  BY DEF GuestStates
<1>2. guest[c] = "queued" /\ GuestTo(c, "accepted") /\ at[c] \in up
  BY DEF Accept
<1>3. UNCHANGED <<pc, path, up, runtime, session, mine, execs, at, copy, todo, files, expect, overlapped>>
  BY DEF Accept, socketVars, sessionVars, packageVars, fileVars
<1>4. guest'[c] = "accepted"
  BY <1>1, <1>2, MoveGuest DEF Inv
<1>5. at[c] \in Calls /\ pc[at[c]] \in Live /\ (at[c] # c => at[c] \in overlapped)
  BY <1>2 DEF Inv, Types, Sockets, Overlaps, Reached
<1>6. OwnServer(c)'
  BY <1>2, <1>3, <1>4 DEF Inv, Own, OwnServer, Reached
<1>7. OwnFiles(c)'
  BY <1>2, <1>3, <1>4 DEF Inv, Own, OwnFiles
<1> QED
  BY Zenon, <1>1, <1>2, <1>3, <1>5, <1>6, <1>7, GuestStep DEF Inv, Types, TypeOK

\* Starting the runtime.
LEMMA RunInv == ASSUME Inv, NEW c \in Calls, Run(c) PROVE Inv'
<1>1. guest[c] = "accepted" /\ Connected(c)
  BY DEF Run, Connected
<1>2. UNCHANGED <<pc, path, up, runtime, session, mine, execs, at, copy, files, expect, overlapped>>
  BY DEF Run, socketVars, sessionVars, packageVars, fileVars
<1>3. /\ pc[c] = "exec" /\ guest[c] # "none" /\ Reached(c)
      /\ at[c] \in Calls /\ (at[c] # c => at[c] \in overlapped)
      /\ c \notin overlapped => at[c] = c
      /\ pc[at[c]] \in Live \cup {"wait"}
  BY <1>1, WhereGuestIs
<1>4. ASSUME NEW l \in {"wasix", "pull"}, GuestTo(c, l), todo' \in [Calls -> SUBSET Paths],
             l = "pull" => todo'[c] = Paths
      PROVE  Inv'
  <2>1. l \in GuestStates \ {"none"}
    BY DEF GuestStates
  <2>2. guest'[c] = l
    BY <1>4, <2>1, MoveGuest DEF Inv
  <2>3. OwnServer(c)'
    BY <1>2, <1>3, <2>2 DEF Inv, Own, OwnServer
  <2>4. OwnFiles(c)'
    BY <1>1, <1>2, <1>4, <2>2 DEF Inv, Own, OwnFiles
  <2> QED
    BY Zenon, <1>2, <1>3, <1>4, <2>1, <2>3, <2>4, GuestStep DEF Inv, Types, TypeOK
<1>5. CASE runtime = "wasix" /\ GuestTo(c, "wasix") /\ UNCHANGED <<copy, todo>>
  BY <1>4, <1>5 DEF Inv, Types, TypeOK
<1>6. CASE GuestTo(c, "pull") /\ todo' = [todo EXCEPT ![c] = Paths]
  BY <1>4, <1>6 DEF Inv, Types, TypeOK
<1> QED
  BY <1>5, <1>6 DEF Run

\* Copying the server's files in.
LEMMA PullInv == ASSUME Inv, NEW c \in Calls, Pull(c) PROVE Inv'
<1>1. guest[c] = "pull" /\ Connected(c)
  BY DEF Pull, Connected
<1>2. UNCHANGED <<pc, path, up, runtime, session, mine, execs, at, files, expect, overlapped>>
  BY DEF Pull, socketVars, sessionVars, packageVars, fileVars
<1>3. /\ pc[c] = "exec" /\ guest[c] # "none" /\ Reached(c)
      /\ at[c] \in Calls /\ (at[c] # c => at[c] \in overlapped)
      /\ c \notin overlapped => at[c] = c
      /\ pc[at[c]] \in Live \cup {"wait"}
  BY <1>1, WhereGuestIs
<1>4. ASSUME NEW p \in todo[c],
             copy' = [copy EXCEPT ![c][p] = files[at[c]][p]],
             todo' = [todo EXCEPT ![c] = @ \ {p}],
             UNCHANGED guest
      PROVE  Inv'
  <2>1. p \in Paths /\ files[at[c]][p] \in Contents
    BY <1>3 DEF Inv, Types, TypeOK
  <2>2. copy' \in [Calls -> [Paths -> Contents]]
    BY <1>4, <2>1, PutFile DEF Inv, Types, TypeOK
  <2>3. todo' \in [Calls -> SUBSET Paths] /\ todo'[c] = todo[c] \ {p}
    BY <1>4 DEF Inv, Types, TypeOK
  <2>4. copy'[c][p] = files[at[c]][p] /\ \A q \in Paths \ {p} : copy'[c][q] = copy[c][q]
    BY <1>4, <2>1 DEF Inv, Types, TypeOK
  <2>5. OwnServer(c)'
    BY <1>2, <1>4 DEF Inv, Own, OwnServer, Reached, Connected
  <2>6. OwnFiles(c)'
    BY <1>1, <1>2, <1>3, <1>4, <2>3, <2>4 DEF Inv, Own, OwnFiles
  <2>7. guest[c] \in GuestStates \ {"none"} /\ GuestTo(c, guest[c])
    BY <1>3, <1>4, GuestStays DEF Inv
  <2> QED
    BY Zenon, <1>2, <1>3, <2>2, <2>3, <2>5, <2>6, <2>7, GuestStep DEF Inv, Types, TypeOK
<1>5. CASE todo[c] = {} /\ GuestTo(c, "wasip2") /\ UNCHANGED <<copy, todo>>
  <2>1. "wasip2" \in GuestStates \ {"none"}
    BY DEF GuestStates
  <2>2. guest'[c] = "wasip2"
    BY <1>5, <2>1, MoveGuest DEF Inv
  <2>3. OwnServer(c)'
    BY <1>2, <1>3, <2>2 DEF Inv, Own, OwnServer
  <2>4. c \notin overlapped => copy[c] = expect[c]
    <3> SUFFICES ASSUME c \notin overlapped PROVE copy[c] = expect[c]
      OBVIOUS
    <3>1. files[c] = expect[c] /\ \A p \in Paths : copy[c][p] = files[c][p]
      BY <1>1, <1>5 DEF Inv, Own, OwnFiles
    <3>2. copy[c] \in [Paths -> Contents] /\ files[c] \in [Paths -> Contents]
      BY DEF Inv, Types, TypeOK
    <3> QED
      BY <3>1, <3>2
  <2>5. OwnFiles(c)'
    BY <1>2, <1>5, <2>2, <2>4 DEF OwnFiles
  <2> QED
    BY Zenon, <1>2, <1>3, <1>5, <2>1, <2>3, <2>5, GuestStep DEF Inv, Types, TypeOK
<1> QED
  BY <1>4, <1>5 DEF Pull

\* The end of the guest program, and the snapshots.
LEMMA GuestEndsInv == ASSUME Inv, NEW c \in Calls, GuestEnds(c) PROVE Inv'
<1>1. guest[c] \in {"wasix", "wasip2"} /\ Connected(c)
  BY DEF GuestEnds, Connected
<1>2. UNCHANGED <<pc, path, up, runtime, session, mine, execs, at, copy, files, expect, overlapped>>
  BY DEF GuestEnds, socketVars, sessionVars, packageVars, fileVars
<1>3. /\ pc[c] = "exec" /\ guest[c] # "none" /\ Reached(c)
      /\ at[c] \in Calls /\ (at[c] # c => at[c] \in overlapped)
      /\ c \notin overlapped => at[c] = c
      /\ pc[at[c]] \in Live \cup {"wait"}
  BY <1>1, WhereGuestIs
<1>4. CASE GuestTo(c, "exited") /\ guest[c] = "wasix" /\ UNCHANGED todo
  <2>1. "exited" \in GuestStates \ {"none"}
    BY DEF GuestStates
  <2>2. guest'[c] = "exited"
    BY <1>4, <2>1, MoveGuest DEF Inv
  <2>3. OwnServer(c)'
    BY <1>2, <1>3, <2>2 DEF Inv, Own, OwnServer
  <2>4. OwnFiles(c)'
    BY <1>2, <1>4, <2>2 DEF Inv, Own, OwnFiles
  <2> QED
    BY Zenon, <1>2, <1>3, <1>4, <2>1, <2>3, <2>4, GuestStep DEF Inv, Types, TypeOK
<1>5. CASE /\ guest[c] = "wasip2"
           /\ GuestTo(c, "stale")
           /\ todo' = [todo EXCEPT ![c] =
                {p \in Paths : files[at[c]][p] # None /\ copy[c][p] = None}]
  <2>1. "stale" \in GuestStates \ {"none"}
    BY DEF GuestStates
  <2>2. guest'[c] = "stale"
    BY <1>5, <2>1, MoveGuest DEF Inv
  <2>3. /\ todo' \in [Calls -> SUBSET Paths]
        /\ todo'[c] = {p \in Paths : files[at[c]][p] # None /\ copy[c][p] = None}
    BY <1>5 DEF Inv, Types, TypeOK
  <2>4. OwnServer(c)'
    BY Zenon, <1>2, <1>3, <2>2 DEF Inv, Own, OwnServer
  <2>5. OwnFiles(c)'
    <3>1. OwnFiles(c)
      BY Zenon DEF Inv, Own
    <3>2. ASSUME c \notin overlapped, NEW p \in Paths \ todo'[c], copy[c][p] = None
          PROVE  files[c][p] = None
      BY <1>3, <2>3, <3>2
    <3> QED
      BY <1>2, <1>5, <2>2, <3>1, <3>2 DEF OwnFiles
  <2> QED
    BY ZenonT(60), <1>2, <1>3, <1>5, <2>1, <2>3, <2>4, <2>5, GuestStep DEF Inv, Types, TypeOK
<1> QED
  BY <1>4, <1>5 DEF GuestEnds

\* One file of the server that the guest reaches is set: no call's but the guest's
\* own, or one that has overlapped.
LEMMA SetServerFile ==
  ASSUME Inv, NEW c \in Calls, at[c] \in Calls, at[c] # c => at[c] \in overlapped,
         NEW p \in Paths, NEW v \in Contents,
         files' = [files EXCEPT ![at[c]][p] = v]
  PROVE  /\ files' \in [Calls -> [Paths -> Contents]]
         /\ \A d \in Calls \ {c} : d \notin overlapped => files'[d] = files[d]
         /\ at[c] = c => files'[c][p] = v /\ \A q \in Paths \ {p} : files'[c][q] = files[c][q]
<1>1. files \in [Calls -> [Paths -> Contents]]
  BY Zenon DEF Inv, Types, TypeOK
<1>2. files' \in [Calls -> [Paths -> Contents]]
  BY <1>1, PutFile
<1> QED
  BY <1>1, <1>2

\* Removing from the server what the guest's copy does not have.
LEMMA RemoveStaleInv == ASSUME Inv, NEW c \in Calls, RemoveStale(c) PROVE Inv'
<1>1. guest[c] = "stale" /\ Connected(c)
  BY DEF RemoveStale, Connected
<1>2. UNCHANGED <<pc, path, up, runtime, session, mine, execs, at, copy, expect, overlapped>>
  BY DEF RemoveStale, socketVars, sessionVars, packageVars
<1>3. /\ pc[c] = "exec" /\ guest[c] # "none" /\ Reached(c)
      /\ at[c] \in Calls /\ (at[c] # c => at[c] \in overlapped)
      /\ c \notin overlapped => at[c] = c
      /\ pc[at[c]] \in Live \cup {"wait"}
  BY <1>1, WhereGuestIs
<1>4. ASSUME NEW p \in todo[c],
             files' = [files EXCEPT ![at[c]][p] = None],
             todo' = [todo EXCEPT ![c] = @ \ {p}],
             UNCHANGED guest
      PROVE  Inv'
  <2>1. p \in Paths /\ None \in Contents
    BY DEF Inv, Types, TypeOK, Contents
  <2>2. /\ files' \in [Calls -> [Paths -> Contents]]
        /\ \A d \in Calls \ {c} : d \notin overlapped => files'[d] = files[d]
        /\ at[c] = c => files'[c][p] = None /\ \A q \in Paths \ {p} : files'[c][q] = files[c][q]
    BY Zenon, <1>3, <1>4, <2>1, SetServerFile
  <2>3. todo' \in [Calls -> SUBSET Paths] /\ todo'[c] = todo[c] \ {p}
    BY <1>4 DEF Inv, Types, TypeOK
  <2>4. OwnServer(c)'
    BY Zenon, <1>2, <1>4 DEF Inv, Own, OwnServer, Reached, Connected
  <2>5. OwnFiles(c)'
    BY <1>1, <1>2, <1>3, <1>4, <2>2, <2>3 DEF Inv, Own, OwnFiles
  <2>6. guest[c] \in GuestStates \ {"none"} /\ GuestTo(c, guest[c])
    BY <1>3, <1>4, GuestStays DEF Inv
  <2> QED
    BY Zenon, <1>2, <1>3, <2>2, <2>3, <2>4, <2>5, <2>6, GuestStep DEF Inv, Types, TypeOK
<1>5. CASE /\ todo[c] = {}
           /\ GuestTo(c, "push")
           /\ todo' = [todo EXCEPT ![c] = {p \in Paths : copy[c][p] # None}]
           /\ UNCHANGED files
  <2>1. "push" \in GuestStates \ {"none"}
    BY DEF GuestStates
  <2>2. guest'[c] = "push"
    BY <1>5, <2>1, MoveGuest DEF Inv
  <2>3. /\ todo' \in [Calls -> SUBSET Paths]
        /\ todo'[c] = {p \in Paths : copy[c][p] # None}
    BY <1>5 DEF Inv, Types, TypeOK
  <2>4. OwnServer(c)'
    BY Zenon, <1>2, <1>3, <2>2 DEF Inv, Own, OwnServer
  <2>5. OwnFiles(c)'
    BY <1>1, <1>2, <1>5, <2>2, <2>3 DEF Inv, Own, OwnFiles
  <2> QED
    BY Zenon, <1>2, <1>3, <1>5, <2>1, <2>3, <2>4, <2>5, GuestStep DEF Inv, Types, TypeOK
<1> QED
  BY Zenon, <1>4, <1>5 DEF RemoveStale

\* Uploading the guest's copy.
LEMMA PushInv == ASSUME Inv, NEW c \in Calls, Push(c) PROVE Inv'
<1>1. guest[c] = "push" /\ Connected(c)
  BY DEF Push, Connected
<1>2. UNCHANGED <<pc, path, up, runtime, session, mine, execs, at, copy, expect, overlapped>>
  BY DEF Push, socketVars, sessionVars, packageVars
<1>3. /\ pc[c] = "exec" /\ guest[c] # "none" /\ Reached(c)
      /\ at[c] \in Calls /\ (at[c] # c => at[c] \in overlapped)
      /\ c \notin overlapped => at[c] = c
      /\ pc[at[c]] \in Live \cup {"wait"}
  BY <1>1, WhereGuestIs
<1>4. ASSUME NEW p \in todo[c],
             files' = [files EXCEPT ![at[c]][p] = copy[c][p]],
             todo' = [todo EXCEPT ![c] = @ \ {p}],
             UNCHANGED guest
      PROVE  Inv'
  <2>1. p \in Paths /\ copy[c][p] \in Contents
    BY DEF Inv, Types, TypeOK
  <2>2. /\ files' \in [Calls -> [Paths -> Contents]]
        /\ \A d \in Calls \ {c} : d \notin overlapped => files'[d] = files[d]
        /\ at[c] = c => files'[c][p] = copy[c][p] /\ \A q \in Paths \ {p} : files'[c][q] = files[c][q]
    BY Zenon, <1>3, <1>4, <2>1, SetServerFile
  <2>3. todo' \in [Calls -> SUBSET Paths] /\ todo'[c] = todo[c] \ {p}
    BY <1>4 DEF Inv, Types, TypeOK
  <2>4. OwnServer(c)'
    BY Zenon, <1>2, <1>4 DEF Inv, Own, OwnServer, Reached, Connected
  <2>5. OwnFiles(c)'
    BY <1>1, <1>2, <1>3, <1>4, <2>2, <2>3 DEF Inv, Own, OwnFiles
  <2>6. guest[c] \in GuestStates \ {"none"} /\ GuestTo(c, guest[c])
    BY <1>3, <1>4, GuestStays DEF Inv
  <2> QED
    BY Zenon, <1>2, <1>3, <2>2, <2>3, <2>4, <2>5, <2>6, GuestStep DEF Inv, Types, TypeOK
<1>5. CASE todo[c] = {} /\ GuestTo(c, "exited") /\ UNCHANGED <<files, todo>>
  <2>1. "exited" \in GuestStates \ {"none"}
    BY DEF GuestStates
  <2>2. guest'[c] = "exited"
    BY <1>5, <2>1, MoveGuest DEF Inv
  <2>3. OwnServer(c)'
    BY <1>2, <1>3, <2>2 DEF Inv, Own, OwnServer
  <2>4. c \notin overlapped => files[c] = expect[c]
    <3> SUFFICES ASSUME c \notin overlapped PROVE files[c] = expect[c]
      OBVIOUS
    <3>1. copy[c] = expect[c] /\ \A p \in Paths : copy[c][p] = files[c][p]
      BY <1>1, <1>5 DEF Inv, Own, OwnFiles
    <3>2. copy[c] \in [Paths -> Contents] /\ files[c] \in [Paths -> Contents]
      BY DEF Inv, Types, TypeOK
    <3> QED
      BY <3>1, <3>2
  <2>5. OwnFiles(c)'
    BY <1>2, <1>5, <2>2, <2>4 DEF OwnFiles
  <2> QED
    BY Zenon, <1>2, <1>3, <1>5, <2>1, <2>3, <2>5, GuestStep DEF Inv, Types, TypeOK
<1> QED
  BY Zenon, <1>4, <1>5 DEF Push

\* What the guest program writes and removes.
LEMMA GuestWorkInv ==
  ASSUME Inv, NEW c \in Calls, NEW p \in Paths, NEW v \in {c, None}, GuestWork(c, p, v) PROVE Inv'
<1>1. guest[c] \in {"wasix", "wasip2"} /\ Connected(c)
  BY DEF GuestWork, Connected
<1>2. UNCHANGED <<pc, path, up, runtime, session, mine, execs, guest, at, todo, overlapped>>
  BY DEF GuestWork, socketVars, sessionVars, packageVars
<1>3. /\ pc[c] = "exec" /\ guest[c] # "none" /\ Reached(c)
      /\ at[c] \in Calls /\ (at[c] # c => at[c] \in overlapped)
      /\ c \notin overlapped => at[c] = c
      /\ pc[at[c]] \in Live \cup {"wait"}
  BY <1>1, WhereGuestIs
<1>4. v \in Contents
  BY DEF Contents
<1>5. /\ expect' \in [Calls -> [Paths -> Contents]]
      /\ expect'[c] = [expect[c] EXCEPT ![p] = v]
      /\ \A d \in Calls \ {c} : expect'[d] = expect[d]
  BY <1>4, PutFile DEF GuestWork, Inv, Types, TypeOK
<1>6. OwnServer(c)'
  BY <1>2 DEF Inv, Own, OwnServer, Reached, Connected
<1>7. guest[c] \in GuestStates \ {"none"} /\ GuestTo(c, guest[c])
  BY <1>2, <1>3, GuestStays DEF Inv
<1>8. CASE guest[c] = "wasix" /\ files' = [files EXCEPT ![at[c]][p] = v] /\ UNCHANGED copy
  <2>1. /\ files' \in [Calls -> [Paths -> Contents]]
        /\ \A d \in Calls \ {c} : d \notin overlapped => files'[d] = files[d]
    BY ZenonT(60), <1>3, <1>4, <1>8, SetServerFile
  <2>2. c \notin overlapped => files'[c] = [files[c] EXCEPT ![p] = v]
    BY <1>3, <1>8 DEF Inv, Types, TypeOK
  <2>3. OwnFiles(c)'
    BY <1>2, <1>5, <1>8, <2>2 DEF Inv, Own, OwnFiles
  <2> QED
    BY Zenon, <1>2, <1>3, <1>5, <1>6, <1>7, <1>8, <2>1, <2>3, GuestStep DEF Inv, Types, TypeOK
<1>9. CASE guest[c] = "wasip2" /\ copy' = [copy EXCEPT ![c][p] = v] /\ UNCHANGED files
  <2>1. /\ copy' \in [Calls -> [Paths -> Contents]]
        /\ copy'[c] = [copy[c] EXCEPT ![p] = v]
    BY <1>4, <1>9, PutFile DEF Inv, Types, TypeOK
  <2>2. OwnFiles(c)'
    BY Zenon, <1>2, <1>5, <1>9, <2>1 DEF Inv, Own, OwnFiles
  <2> QED
    BY ZenonT(60), <1>2, <1>3, <1>5, <1>6, <1>7, <1>9, <2>1, <2>2, GuestStep DEF Inv, Types, TypeOK
<1> QED
  BY <1>8, <1>9 DEF GuestWork

-----------------------------------------------------------------------------
\* The call's steps

\* A step of a call that is under way and has no guest: what has to be shown of it.
LEMMA CallStep ==
  ASSUME Inv, NEW c \in Calls, pc[c] \notin {"idle", "exec", "done"},
         NEW l \in PCs \ {"idle"}, Goto(c, l),
         UNCHANGED <<runtime, guest, at, copy, todo, files, expect, overlapped>>,
         path' \in Calls \cup {None}, up' \subseteq Calls,
         session' \in Calls \cup {None}, mine' \in [Calls -> Calls \cup {None}],
         execs' \in [Calls -> 0 .. MaxExecs],
         path' # None => pc'[path'] \in Live,
         \A d \in up' : pc'[d] \in Live,
         \A g \in Calls : Connected(g) /\ at[g] = c => l \in Live \cup {"wait"},
         c \notin overlapped /\ l \in Live => path' = c,
         l # "listen"
  PROVE  Inv'
<1>1. pc' \in [Calls -> PCs] /\ pc'[c] = l /\ \A d \in Calls \ {c} : pc'[d] = pc[d]
  BY ZenonT(60), MoveCall DEF Inv
<1>2. guest[c] = "none"
  BY Zenon DEF Inv, Sockets
<1>3. \A d \in Calls : (Reached(d)' <=> Reached(d)) /\ (Connected(d)' <=> Connected(d))
  BY ZenonT(60) DEF Reached, Connected
<1>4. Types'
  BY <1>1, <1>3 DEF Inv, Types, TypeOK
<1>5. Sockets'
  <2>1. \A g \in Calls : guest[g] # "none" => g # c
    BY ZenonT(60), <1>2
  <2>2. \A g \in Calls : guest'[g] # "none" => pc'[g] = "exec"
    BY ZenonT(60), <1>1, <2>1 DEF Inv, Sockets
  <2>3. ASSUME NEW g \in Calls, Connected(g) PROVE pc'[at[g]] \in Live \cup {"wait"}
    BY Zenon, <1>1, <2>3 DEF Inv, Types, Sockets, Reached
  <2> QED
    BY ZenonT(60), <1>3, <2>2, <2>3 DEF Sockets
<1>6. Overlaps'
  BY Zenon, <1>1, <1>3 DEF Inv, Overlaps, Active
<1>7. OwnServer(c)' /\ OwnFiles(c)'
  BY Zenon, <1>1, <1>2 DEF Inv, Own, OwnServer, OwnFiles, Reached, Connected
<1>8. Own'
  BY <1>1, <1>7, OthersOwn
<1> QED
  BY ZenonT(60), <1>4, <1>5, <1>6, <1>8 DEF Inv

\* Opening the listener.
LEMMA ListenInv == ASSUME Inv, NEW c \in Calls, Listen(c) PROVE Inv'
<1>1. pc[c] = "listen" /\ UNCHANGED <<runtime, session, mine, execs, guest, at, copy, todo, files, expect, overlapped>>
  BY DEF Listen, sessionVars, packageVars, guestVars, fileVars
<1>2. ASSUME NEW g \in Calls, Connected(g) PROVE at[g] # c
  BY <1>1, <1>2 DEF Inv, Sockets, Live
<1>3. CASE path = None /\ path' = c /\ up' = up \cup {c} /\ Goto(c, "getSession")
  <2>1. "getSession" \in PCs \ {"idle"} /\ "getSession" \in Live
    BY DEF PCs, Live
  <2>2. pc'[c] = "getSession" /\ \A d \in Calls \ {c} : pc'[d] = pc[d]
    BY <1>3, <2>1, MoveCall DEF Inv
  <2>3. \A d \in up' : pc'[d] \in Live
    BY <1>3, <2>1, <2>2 DEF Inv, Sockets, Types, TypeOK
  <2> QED
    BY Zenon, <1>1, <1>2, <1>3, <2>1, <2>2, <2>3, CallStep DEF Inv, Types, TypeOK
<1>4. CASE path # None /\ Goto(c, "done") /\ UNCHANGED <<path, up>>
  <2>1. "done" \in PCs \ {"idle"} /\ "done" \notin Live
    BY DEF PCs, Live
  <2>2. pc'[c] = "done" /\ \A d \in Calls \ {c} : pc'[d] = pc[d]
    BY <1>4, <2>1, MoveCall DEF Inv
  <2>3. path \in Calls \ {c} /\ \A d \in up : d \in Calls \ {c}
    BY ZenonT(60), <1>1, <1>4 DEF Inv, Sockets, Types, TypeOK, Live
  <2>4. pc'[path'] \in Live /\ \A d \in up' : pc'[d] \in Live
    BY <1>4, <2>2, <2>3 DEF Inv, Sockets
  <2> QED
    BY ZenonT(60), <1>1, <1>2, <1>4, <2>1, <2>3, <2>4, CallStep DEF Inv, Types, TypeOK
<1> QED
  BY <1>3, <1>4 DEF Listen, socketVars

\* The session, the check and the end of the script: the call moves between states
\* in which its listener is open.
LEMMA MoveLive ==
  ASSUME Inv, NEW c \in Calls, pc[c] \in Live \ {"exec", "close"},
         NEW l \in Live, Goto(c, l),
         UNCHANGED <<path, up, runtime, execs, guest, at, copy, todo, files, expect, overlapped>>,
         session' \in Calls \cup {None}, mine' \in [Calls -> Calls \cup {None}]
  PROVE  Inv'
<1>1. l \in PCs \ {"idle"} /\ l # "listen" /\ pc[c] \notin {"idle", "exec", "done"}
  BY DEF Live, PCs
<1>2. pc'[c] = l /\ \A d \in Calls \ {c} : pc'[d] = pc[d]
  BY <1>1, MoveCall DEF Inv
<1>3. path' # None => pc'[path'] \in Live
  BY Zenon, <1>2 DEF Inv, Sockets, Types, TypeOK
<1>4. \A d \in up' : pc'[d] \in Live
  BY ZenonT(60), <1>2 DEF Inv, Sockets, Types, TypeOK
<1>5. c \notin overlapped => path' = c
  BY DEF Inv, Own, OwnServer
<1> QED
  BY Zenon, <1>1, <1>3, <1>4, <1>5, CallStep DEF Inv, Types, TypeOK

\* The steps of the type check and the end of a script touch neither socket nor files.
LEMMA CheckInv ==
  ASSUME Inv, NEW c \in Calls,
         GetCheckSession(c) \/ Check(c) \/ ScriptEnds(c) \/ SetCheckSession(c)
  PROVE  Inv'
<1> USE DEF socketVars, sessionVars, packageVars, guestVars, fileVars
<1>1. UNCHANGED <<path, up, runtime, execs, guest, at, copy, todo, files, expect, overlapped>>
  BY DEF GetCheckSession, Check, ScriptEnds, SetCheckSession
<1>2. session' \in Calls \cup {None} /\ mine' \in [Calls -> Calls \cup {None}]
  <2>1. session \in Calls \cup {None} /\ mine \in [Calls -> Calls \cup {None}]
    BY Zenon DEF Inv, Types, TypeOK
  <2>2. session' \in {session, mine[c]}
    BY DEF GetCheckSession, Check, ScriptEnds, SetCheckSession
  <2>3. \/ mine' = mine
        \/ \E s \in Calls \cup {None} : mine' = [mine EXCEPT ![c] = s]
    BY <2>1 DEF GetCheckSession, Check, ScriptEnds, SetCheckSession
  <2> QED
    BY <2>1, <2>2, <2>3
<1>3. pc[c] \in Live \ {"exec", "close"} /\ \E l \in Live : Goto(c, l)
  BY DEF GetCheckSession, Check, ScriptEnds, SetCheckSession, Live
<1> QED
  BY <1>1, <1>2, <1>3, MoveLive

\* Close waiting, and the last removal of the path.
LEMMA EndInv == ASSUME Inv, NEW c \in Calls, Wait(c) \/ Remove(c) PROVE Inv'
<1>1. PICK l \in {"remove", "done"} : Goto(c, l)
  BY DEF Wait, Remove
<1>2. l \in PCs \ {"idle"} /\ l # "listen" /\ l \notin Live
  BY DEF PCs, Live
<1>3. /\ pc[c] \in {"wait", "remove"} /\ path' \in {path, None}
      /\ UNCHANGED <<up, runtime, session, mine, execs, guest, at, copy, todo, files, expect, overlapped>>
  BY Zenon DEF Wait, Remove, socketVars, sessionVars, packageVars, guestVars, fileVars
<1>4. \A d \in Calls \ {c} : pc'[d] = pc[d]
  BY Zenon, <1>1, <1>2, MoveCall DEF Inv
<1>5. path # None => path \in Calls \ {c} /\ pc[path] \in Live
  BY Zenon, <1>3 DEF Inv, Sockets, Types, TypeOK, Live
<1>6. path' # None => pc'[path'] \in Live
  BY <1>3, <1>4, <1>5
<1>7. \A d \in up' : pc'[d] \in Live
  BY ZenonT(60), <1>3, <1>4 DEF Inv, Sockets, Types, TypeOK, Live
<1>8. \A g \in Calls : ~(Connected(g) /\ at[g] = c)
  BY Zenon DEF Wait, Remove, Inv, Sockets, Live
<1>9. path' \in Calls \cup {None}
  BY <1>3 DEF Inv, Types, TypeOK
<1> QED
  BY ZenonT(60), <1>1, <1>2, <1>3, <1>6, <1>7, <1>8, <1>9, CallStep DEF Inv, Types, TypeOK

\* The beginning: whoever is under way has overlapped from here on.
LEMMA BeginInv == ASSUME Inv, NEW c \in Calls, Begin(c) PROVE Inv'
<1>1. /\ pc[c] = "idle" /\ Goto(c, "listen") /\ path' = None
      /\ overlapped' = IF Active = {} THEN overlapped ELSE overlapped \cup Active \cup {c}
      /\ UNCHANGED <<up, runtime, session, mine, execs, guest, at, copy, todo, files, expect>>
  BY DEF Begin, sessionVars, packageVars, guestVars, fileVars
<1>2. "listen" \in PCs
  BY DEF PCs
<1>3. pc' \in [Calls -> PCs] /\ pc'[c] = "listen" /\ \A d \in Calls \ {c} : pc'[d] = pc[d]
  BY <1>1, <1>2, MoveCall DEF Inv
<1>4. \A d \in Calls : (Reached(d)' <=> Reached(d)) /\ (Connected(d)' <=> Connected(d))
  BY <1>1 DEF Reached, Connected
<1>5. Active \subseteq Calls /\ overlapped \subseteq overlapped' /\ overlapped' \subseteq Calls
  BY Zenon, <1>1 DEF Active, Inv, Types, TypeOK
<1>6. Types'
  BY Zenon, <1>1, <1>3, <1>4, <1>5 DEF Inv, Types, TypeOK
<1>7. Sockets'
  <2>1. \A d \in up : d # c
    BY <1>1 DEF Inv, Sockets, Live
  <2>2. \A g \in Calls : guest[g] # "none" => g # c
    BY Zenon, <1>1 DEF Inv, Sockets
  <2>3. \A g \in Calls : Connected(g) => at[g] \in Calls \ {c}
    BY <1>1 DEF Inv, Sockets, Types, Reached, Live
  <2>4. \A d \in up' : pc'[d] \in Live
    BY ZenonT(60), <1>1, <1>3, <2>1 DEF Inv, Sockets, Types, TypeOK
  <2>5. \A g \in Calls : guest'[g] # "none" => pc'[g] = "exec"
    BY Zenon, <1>1, <1>3, <2>2 DEF Inv, Sockets
  <2>6. \A g \in Calls : Connected(g)' => pc'[at'[g]] \in Live \cup {"wait"}
    BY <1>1, <1>3, <1>4, <2>3 DEF Inv, Sockets
  <2> QED
    BY Zenon, <1>1, <2>4, <2>5, <2>6 DEF Sockets
<1>8. Overlaps'
  <2>1. Active' \subseteq Active \cup {c}
    BY Zenon, <1>3 DEF Active
  <2>2. CASE Active = {}
    BY Zenon, <1>1, <1>4, <1>5, <2>1, <2>2 DEF Inv, Overlaps
  <2>3. CASE Active # {}
    BY Zenon, <1>1, <1>4, <1>5, <2>1, <2>3 DEF Inv, Overlaps
  <2> QED
    BY <2>2, <2>3
<1>9. Own'
  <2> SUFFICES ASSUME NEW d \in Calls, d \notin overlapped' PROVE OwnServer(d)' /\ OwnFiles(d)'
    BY DEF Own, OwnServer, OwnFiles
  <2>1. d \notin overlapped /\ d \notin Active
    BY <1>1, <1>5
  <2>2. pc[d] \in {"idle", "done"} /\ guest[d] = "none"
    BY Zenon, <2>1 DEF Active, Inv, Sockets
  <2>3. pc'[d] \in {"idle", "done", "listen"} /\ guest'[d] = "none"
    BY Zenon, <1>1, <1>3, <2>2
  <2>4. files'[d] = expect'[d]
    BY <1>1, <2>1, <2>2 DEF Inv, Own, OwnFiles
  <2> QED
    BY Zenon, <1>1, <2>3, <2>4 DEF OwnServer, OwnFiles, Reached, Connected, Live
<1> QED
  BY <1>6, <1>7, <1>8, <1>9 DEF Inv

\* The script's exec starting a guest, and returning.
LEMMA ExecInv == ASSUME Inv, NEW c \in Calls, Exec(c) \/ ExecReturns(c) PROVE Inv'
<1>1. PICK l \in {"exec", "script"}, g \in {"connect", "none"} :
        Goto(c, l) /\ GuestTo(c, g) /\ (g # "none" => l = "exec")
  BY Zenon DEF Exec, ExecReturns
<1>2. l \in PCs /\ l \in Live /\ g \in GuestStates
  BY DEF PCs, Live, GuestStates
<1>3. pc[c] \in {"exec", "script"} /\ guest[c] \in {"none", "exited", "failed"}
  BY ZenonT(60) DEF Exec, ExecReturns, Inv, Sockets
<1>4. UNCHANGED <<path, up, runtime, session, mine, todo, files, expect, overlapped>>
  BY DEF Exec, ExecReturns, socketVars, sessionVars, packageVars, fileVars
<1>5. pc' \in [Calls -> PCs] /\ pc'[c] = l /\ \A d \in Calls \ {c} : pc'[d] = pc[d]
  BY <1>1, <1>2, MoveCall DEF Inv
<1>6. guest' \in [Calls -> GuestStates] /\ guest'[c] = g /\ \A d \in Calls \ {c} : guest'[d] = guest[d]
  BY <1>1, <1>2, MoveGuest DEF Inv
<1>7. at' \in [Calls -> Calls \cup {None}] /\ \A d \in Calls \ {c} : at'[d] = at[d]
  BY Zenon DEF Exec, ExecReturns, Inv, Types, TypeOK
<1>8. copy' \in [Calls -> [Paths -> Contents]]
  <2>1. [p \in Paths |-> None] \in [Paths -> Contents]
    BY DEF Contents
  <2>2. copy' = copy \/ copy' = [copy EXCEPT ![c] = [p \in Paths |-> None]]
    BY Zenon DEF Exec, ExecReturns
  <2> QED
    BY ZenonT(60), <2>1, <2>2 DEF Inv, Types, TypeOK
<1>9. execs' \in [Calls -> 0 .. MaxExecs]
  <2>1. execs \in [Calls -> 0 .. MaxExecs]
    BY DEF Inv, Types, TypeOK
  <2>2. execs' = execs \/ (execs[c] < MaxExecs /\ execs' = [execs EXCEPT ![c] = @ + 1])
    BY Zenon DEF Exec, ExecReturns
  <2>3. execs[c] < MaxExecs => execs[c] + 1 \in 0 .. MaxExecs
    BY <2>1, CallsAssumption
  <2> QED
    BY <2>1, <2>2, <2>3
<1>10. \A d \in Calls \ {c} : (Reached(d)' <=> Reached(d)) /\ (Connected(d)' <=> Connected(d))
  BY <1>6 DEF Reached, Connected
<1>11. ~Reached(c)' /\ ~Connected(c)'
  BY <1>6 DEF Reached, Connected
<1>12. Types'
  BY ZenonT(60), <1>4, <1>5, <1>6, <1>7, <1>8, <1>9, <1>10, <1>11 DEF Inv, Types, TypeOK
<1>13. \A d \in Calls : pc[d] \in Live => pc'[d] \in Live
  BY <1>2, <1>5
<1>14. Sockets'
  <2>1. path' # None => pc'[path'] \in Live
    BY Zenon, <1>4, <1>13 DEF Inv, Sockets, Types, TypeOK
  <2>2. \A d \in up' : pc'[d] \in Live
    BY Zenon, <1>4, <1>13 DEF Inv, Sockets, Types, TypeOK
  <2>3. \A d \in Calls : guest'[d] # "none" => pc'[d] = "exec"
    BY <1>1, <1>5, <1>6 DEF Inv, Sockets
  <2>4. ASSUME NEW d \in Calls, Connected(d)' PROVE pc'[at'[d]] \in Live \cup {"wait"}
    <3>1. d # c /\ Connected(d) /\ at'[d] = at[d] /\ at[d] \in Calls
      BY <1>7, <1>10, <1>11, <2>4 DEF Inv, Types, Reached
    <3>2. pc[at[d]] \in Live \cup {"wait"}
      BY Zenon, <3>1 DEF Inv, Sockets
    <3> QED
      BY ZenonT(60), <1>2, <1>5, <3>1, <3>2
  <2> QED
    BY ZenonT(60), <2>1, <2>2, <2>3, <2>4 DEF Sockets
<1>15. Overlaps'
  BY Zenon, <1>3, <1>4, <1>5, <1>7, <1>10, <1>11 DEF Inv, Overlaps, Active
<1>16. OwnServer(c)'
  <2>1. c \notin overlapped => path = c
    BY Zenon, <1>3 DEF Inv, Own, OwnServer, Live
  <2> QED
    BY <1>2, <1>4, <1>5, <1>6, <1>11, <2>1 DEF OwnServer, Live
<1>17. OwnFiles(c)'
  <2>1. c \notin overlapped => files[c] = expect[c]
    BY Zenon, <1>3 DEF Inv, Own, OwnFiles, OwnServer
  <2> QED
    BY Zenon, <1>4, <1>6, <2>1 DEF OwnFiles
<1>18. Own'
  BY <1>3, <1>4, <1>5, <1>6, <1>16, <1>17, OthersOwn
<1> QED
  BY <1>12, <1>14, <1>15, <1>18 DEF Inv

\* Closing the listener resets the connections that were not accepted.
LEMMA CloseListenerInv == ASSUME Inv, NEW c \in Calls, CloseListener(c) PROVE Inv'
<1>1. /\ pc[c] = "close" /\ up' = up \ {c} /\ path' = None /\ Goto(c, "wait")
      /\ UNCHANGED <<runtime, session, mine, execs, at, copy, todo, files, expect, overlapped>>
  BY Zenon DEF CloseListener, sessionVars, packageVars, fileVars
<1>2. "wait" \in PCs /\ "failed" \in GuestStates
  BY DEF PCs, GuestStates
<1>3. pc' \in [Calls -> PCs] /\ pc'[c] = "wait" /\ \A d \in Calls \ {c} : pc'[d] = pc[d]
  BY <1>1, <1>2, MoveCall DEF Inv
<1>4. /\ guest' \in [Calls -> GuestStates]
      /\ \A d \in Calls : \/ guest'[d] = guest[d]
                          \/ guest[d] = "queued" /\ guest'[d] = "failed"
  BY Zenon, <1>2 DEF CloseListener, Inv, Types, TypeOK
<1>5. guest[c] = "none" /\ guest'[c] = "none"
  BY <1>1, <1>4 DEF Inv, Sockets
<1>6. \A d \in Calls : (Reached(d)' => Reached(d)) /\ (Connected(d)' <=> Connected(d))
  BY Zenon, <1>4 DEF Reached, Connected
<1>7. Types'
  BY <1>1, <1>3, <1>4, <1>6 DEF Inv, Types, TypeOK
<1>8. Sockets'
  <2>1. \A d \in up' : pc'[d] \in Live
    BY Zenon, <1>1, <1>3 DEF Inv, Sockets, Types, TypeOK
  <2>2. \A d \in Calls : guest'[d] # "none" => pc'[d] = "exec"
    BY <1>3, <1>4, <1>5 DEF Inv, Sockets
  <2>3. ASSUME NEW d \in Calls, Connected(d) PROVE pc'[at[d]] \in Live \cup {"wait"}
    BY ZenonT(60), <1>3, <2>3 DEF Inv, Sockets, Types, Reached
  <2> QED
    BY ZenonT(60), <1>1, <1>6, <2>1, <2>2, <2>3 DEF Sockets
<1>9. Overlaps'
  BY Zenon, <1>1, <1>3, <1>6 DEF Inv, Overlaps, Active
<1>10. OwnServer(c)'
  BY <1>3, <1>5 DEF OwnServer, Reached, Connected, Live
<1>11. OwnFiles(c)'
  BY ZenonT(60), <1>1, <1>5 DEF Inv, Own, OwnFiles
<1>12. Own'
  BY <1>1, <1>3, <1>4, <1>10, <1>11, OthersOwn
<1> QED
  BY <1>7, <1>8, <1>9, <1>12 DEF Inv

\* What the script writes.
LEMMA ScriptWriteInv ==
  ASSUME Inv, NEW c \in Calls, NEW p \in Paths, ScriptWrite(c, p) PROVE Inv'
<1>1. pc[c] = "script" /\ guest[c] = "none"
  BY DEF ScriptWrite, Inv, Sockets
<1>2. UNCHANGED <<pc, path, up, runtime, session, mine, execs, guest, at, copy, todo, overlapped>>
  BY DEF ScriptWrite, socketVars, sessionVars, packageVars, guestVars
<1>3. c \in Contents
  BY Zenon DEF Contents
<1>4. /\ files' \in [Calls -> [Paths -> Contents]]
      /\ files'[c] = [files[c] EXCEPT ![p] = c]
      /\ \A d \in Calls \ {c} : files'[d] = files[d]
  BY ZenonT(60), <1>3, PutFile DEF ScriptWrite, Inv, Types, TypeOK
<1>5. /\ expect' \in [Calls -> [Paths -> Contents]]
      /\ expect'[c] = [expect[c] EXCEPT ![p] = c]
      /\ \A d \in Calls \ {c} : expect'[d] = expect[d]
  BY ZenonT(60), <1>3, PutFile DEF ScriptWrite, Inv, Types, TypeOK
<1>6. Types' /\ Sockets' /\ Overlaps'
  BY <1>2, <1>4, <1>5 DEF Inv, Types, TypeOK, Sockets, Overlaps, Active, Reached, Connected
<1>7. OwnServer(c)'
  BY ZenonT(60), <1>2 DEF Inv, Own, OwnServer, Reached, Connected
<1>8. OwnFiles(c)'
  BY ZenonT(60), <1>1, <1>2, <1>4, <1>5 DEF Inv, Own, OwnFiles
<1>9. Own'
  BY Zenon, <1>1, <1>2, <1>4, <1>5, <1>7, <1>8, OthersOwn
<1> QED
  BY <1>6, <1>9 DEF Inv

-----------------------------------------------------------------------------

\* Every step of every call and guest preserves the invariant.
LEMMA InvNext == Inv /\ [Next]_vars => Inv'
<1> SUFFICES ASSUME Inv, [Next]_vars PROVE Inv'
  OBVIOUS
<1>1. ASSUME NEW c \in Calls, Call(c) PROVE Inv'
  BY <1>1, ListenInv, CheckInv, ExecInv, CloseListenerInv, EndInv DEF Call
<1>2. ASSUME NEW c \in Calls, Guest(c) PROVE Inv'
  BY <1>2, ConnectInv, GuestFailsInv, AcceptInv, RunInv, PullInv, GuestEndsInv, RemoveStaleInv,
     PushInv DEF Guest
<1>3. ASSUME NEW c \in Calls, Work(c) PROVE Inv'
  BY <1>3, ScriptWriteInv, GuestWorkInv DEF Work
<1>4. CASE UNCHANGED vars
  <2>1. Types' /\ Sockets' /\ Overlaps'
    BY <1>4 DEF vars, Inv, Types, TypeOK, Sockets, Overlaps, Active, Reached, Connected
  <2>2. Own'
    BY ZenonT(60), <1>4 DEF vars, Inv, Own, OwnServer, OwnFiles, Reached, Connected
  <2> QED
    BY Zenon, <2>1, <2>2 DEF Inv
<1> QED
  BY <1>1, <1>2, <1>3, <1>4, BeginInv DEF Next

\* The state of the calls, their guests and their files keeps its type.
THEOREM CallTypes == Spec => []TypeOK
<1>1. Inv => TypeOK
  BY DEF Inv, Types
<1> QED
  BY <1>1, InvInit, InvNext, PTL DEF Spec

\* However many calls there are: the guest of one that overlaps no other reaches
\* the call's own server and never fails to (startVFSServer and its cleanup).
THEOREM OwnServerWhenAlone == Spec => []AloneOwnServer
<1>1. Inv => AloneOwnServer
  <2> SUFFICES ASSUME Inv, NEW c \in Calls \ overlapped
               PROVE  /\ guest[c] # "failed"
                      /\ guest[c] \in {"queued", "accepted"} \/ Connected(c) => at[c] = c
                      /\ pc[c] \notin {"idle", "listen", "remove", "wait", "done"} => path = c
    BY DEF AloneOwnServer
  <2>1. OwnServer(c) /\ pc[c] \in PCs
    BY Zenon DEF Inv, Own, Types, TypeOK
  <2> QED
    BY <2>1 DEF OwnServer, Reached, Connected, Live, PCs
<1> QED
  BY <1>1, InvInit, InvNext, PTL DEF Spec

\* For any set of files: a call that overlaps no other leaves what script and guest
\* have written, in order (sync_from_proxy, sync_to_proxy).
THEOREM FilesSharedWhenAlone == Spec => []AloneSharesFiles
<1>1. Inv => AloneSharesFiles
  BY DEF Inv, Own, OwnFiles, AloneSharesFiles
<1> QED
  BY <1>1, InvInit, InvNext, PTL DEF Spec

\* Close returns only when no guest is connected, whoever's guest it is.
THEOREM ServerOutlivesGuests == Spec => []ServedUntilTheEnd
<1>1. Inv => ServedUntilTheEnd
  BY Zenon DEF Inv, Sockets, ServedUntilTheEnd, Live
<1> QED
  BY <1>1, InvInit, InvNext, PTL DEF Spec

\* When all calls are over nothing is left at the socket path.
THEOREM PathCleanedUp == Spec => []NoSocketLeft
<1>1. Inv => NoSocketLeft
  BY DEF Inv, Types, TypeOK, Sockets, NoSocketLeft, Active, Live
<1> QED
  BY <1>1, InvInit, InvNext, PTL DEF Spec

=============================================================================
