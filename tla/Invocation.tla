----------------------------- MODULE Invocation -----------------------------
(***************************************************************************)
(* invoke/invoke.go: calls of TypeScript+WASM tools in one process.  A     *)
(* call starts a filesystem server on a socket whose path holds only the   *)
(* process id, checks and runs the tool's script (runtime/quickts), whose  *)
(* exec starts a guest process (runtime/tswasmcli) that connects to that   *)
(* path, and cleans up.  mcpserver runs each request's call in the         *)
(* request's goroutine, so calls can overlap.                              *)
(*                                                                         *)
(* Guests are wasmcli-sandbox processes.  A wasix guest works on the       *)
(* server's files directly; a wasip2 guest works on a copy that is made    *)
(* when it starts and written back when it ends (wasip2.rs).               *)
(*                                                                         *)
(* Each call has a MemFS of its own.  A file is its last writer; MemFS.tla *)
(* has the operations themselves, VFSServer.tla the server's goroutines.   *)
(***************************************************************************)
EXTENDS Naturals, FiniteSets

CONSTANTS
  Calls,       \* calls of tools of one package
  Paths,       \* files in a call's MemFS
  None,        \* no file, no server, no session
  Given,       \* the files that the caller has put there
  Caller,      \* their writer
  MaxExecs     \* bound: guests that one call's script starts

ASSUME CallsAssumption ==
  /\ IsFiniteSet(Calls)
  /\ None \notin Calls /\ Caller \notin Calls /\ None # Caller
  /\ Given \subseteq Paths
  /\ MaxExecs \in Nat

VARIABLES
  pc,        \* where each call is
  path,      \* the call whose listener the socket path leads to
  up,        \* calls whose listener is open
  runtime,   \* the package's runtime
  session,   \* checkSessions, for the package: the call whose check made it
  mine,      \* the session a call holds
  execs,     \* guests a call has started
  guest,     \* where each call's guest is
  at,        \* the server the guest is connected to
  copy,      \* a wasip2 guest's working directory
  todo,      \* paths the copying in or out has still to visit
  files,     \* the MemFS of each call
  expect,    \* ghost: the files when script and guest share one filesystem
  overlapped \* ghost: calls that were not alone from begin to end

vars == <<pc, path, up, runtime, session, mine, execs, guest, at, copy, todo, files,
          expect, overlapped>>

socketVars == <<path, up>>
packageVars == <<runtime, session>>
sessionVars == <<packageVars, mine>>
guestVars == <<guest, at, copy, todo>>
fileVars == <<files, expect>>

Contents == Calls \cup {None, Caller}

PCs == {"idle", "listen", "getSession", "check", "script", "exec", "setSession",
        "close", "wait", "remove", "done"}

GuestStates == {"none", "connect", "queued", "accepted", "pull", "wasix", "wasip2",
                "stale", "push", "failed", "exited"}

Connected(g) == guest[g] \in {"accepted", "pull", "wasix", "wasip2", "stale", "push"}

Active == {c \in Calls : pc[c] \notin {"idle", "done"}}

Goto(c, l) == pc' = [pc EXCEPT ![c] = l]

GuestTo(c, l) == guest' = [guest EXCEPT ![c] = l]

-----------------------------------------------------------------------------

Init ==
  /\ pc = [c \in Calls |-> "idle"]
  /\ path = None
  /\ up = {}
  /\ runtime \in {"wasix", "wasip2"}
  /\ session = None
  /\ mine = [c \in Calls |-> None]
  /\ execs = [c \in Calls |-> 0]
  /\ guest = [c \in Calls |-> "none"]
  /\ at = [c \in Calls |-> None]
  /\ copy = [c \in Calls |-> [p \in Paths |-> None]]
  /\ todo = [c \in Calls |-> {}]
  /\ files = [c \in Calls |-> [p \in Paths |-> IF p \in Given THEN Caller ELSE None]]
  /\ expect = files
  /\ overlapped = {}

\* startVFSServer: the stale socket is removed, then the listener is opened.
Begin(c) ==
  /\ pc[c] = "idle"
  /\ Goto(c, "listen")
  /\ path' = None
  /\ overlapped' = IF Active = {} THEN overlapped ELSE overlapped \cup Active \cup {c}
  /\ UNCHANGED <<up, sessionVars, execs, guestVars, fileVars>>

\* net.Listen fails when another listener has taken the path since.
Listen(c) ==
  /\ pc[c] = "listen"
  /\ \/ /\ path = None
        /\ path' = c
        /\ up' = up \cup {c}
        /\ Goto(c, "getSession")
     \/ /\ path # None
        /\ Goto(c, "done")
        /\ UNCHANGED socketVars
  /\ UNCHANGED <<sessionVars, execs, guestVars, fileVars, overlapped>>

GetCheckSession(c) ==
  /\ pc[c] = "getSession"
  /\ mine' = [mine EXCEPT ![c] = session]
  /\ Goto(c, "check")
  /\ UNCHANGED <<socketVars, packageVars, execs, guestVars, fileVars, overlapped>>

\* Mutant of Check: a failed check returns without the cleanup.
CheckReturns(c) ==
  /\ pc[c] = "check"
  /\ mine' = [mine EXCEPT ![c] = IF @ = None THEN c ELSE @]
  /\ \E l \in {"script", "done"} : Goto(c, l)
  /\ UNCHANGED <<socketVars, packageVars, execs, guestVars, fileVars, overlapped>>

\* RunWithHost up to Eval: the check makes a session when it was given none, and
\* ends the call when it finds errors.
Check(c) ==
  /\ pc[c] = "check"
  /\ mine' = [mine EXCEPT ![c] = IF @ = None THEN c ELSE @]
  /\ \E l \in {"script", "setSession"} : Goto(c, l)
  /\ UNCHANGED <<socketVars, packageVars, execs, guestVars, fileVars, overlapped>>

\* What the script may do: fs.writeFileSync, exec, and end.
ScriptWrite(c, p) ==
  /\ pc[c] = "script"
  /\ files' = [files EXCEPT ![c][p] = c]
  /\ expect' = [expect EXCEPT ![c][p] = c]
  /\ UNCHANGED <<pc, socketVars, sessionVars, execs, guestVars, overlapped>>

Exec(c) ==
  /\ pc[c] = "script"
  /\ execs[c] < MaxExecs
  /\ execs' = [execs EXCEPT ![c] = @ + 1]
  /\ Goto(c, "exec")
  /\ GuestTo(c, "connect")
  /\ UNCHANGED <<socketVars, sessionVars, at, copy, todo, fileVars, overlapped>>

\* Mutant of ExecReturns: the guest is started and not waited for.
ExecReturnsEarly(c) ==
  /\ pc[c] = "exec"
  /\ Goto(c, "script")
  /\ UNCHANGED <<socketVars, sessionVars, execs, guestVars, fileVars, overlapped>>

\* tswasmcli.Run returns when the process has exited; a guest that failed is a
\* result for the script, not an error of the call.
ExecReturns(c) ==
  /\ pc[c] = "exec"
  /\ guest[c] \in {"exited", "failed"}
  /\ GuestTo(c, "none")
  /\ at' = [at EXCEPT ![c] = None]
  /\ copy' = [copy EXCEPT ![c] = [p \in Paths |-> None]]
  /\ Goto(c, "script")
  /\ UNCHANGED <<socketVars, sessionVars, execs, todo, fileVars, overlapped>>

ScriptEnds(c) ==
  /\ pc[c] = "script"
  /\ Goto(c, "setSession")
  /\ UNCHANGED <<socketVars, sessionVars, execs, guestVars, fileVars, overlapped>>

SetCheckSession(c) ==
  /\ pc[c] = "setSession"
  /\ session' = mine[c]
  /\ mine' = [mine EXCEPT ![c] = None]
  /\ Goto(c, "close")
  /\ UNCHANGED <<socketVars, runtime, execs, guestVars, fileVars, overlapped>>

\* Mutant of CloseListener: a connection that was not accepted stays open.
CloseListenerQueued(c) ==
  /\ pc[c] = "close"
  /\ up' = up \ {c}
  /\ path' = None
  /\ Goto(c, "wait")
  /\ UNCHANGED <<sessionVars, execs, guestVars, fileVars, overlapped>>

\* The deferred cleanup: srv.Close, which unlinks the socket path, whatever is
\* there, resets the connections that Serve has not accepted and waits for the
\* others; then os.Remove on the path again.
CloseListener(c) ==
  /\ pc[c] = "close"
  /\ up' = up \ {c}
  /\ path' = None
  /\ guest' = [g \in Calls |->
       IF guest[g] = "queued" /\ at[g] = c THEN "failed" ELSE guest[g]]
  /\ Goto(c, "wait")
  /\ UNCHANGED <<sessionVars, execs, at, copy, todo, fileVars, overlapped>>

\* Mutant of Wait: the server goes while a guest is connected to it.
WaitNot(c) ==
  /\ pc[c] = "wait"
  /\ Goto(c, "remove")
  /\ UNCHANGED <<socketVars, sessionVars, execs, guestVars, fileVars, overlapped>>

Wait(c) ==
  /\ pc[c] = "wait"
  /\ \A g \in Calls : ~(Connected(g) /\ at[g] = c)
  /\ Goto(c, "remove")
  /\ UNCHANGED <<socketVars, sessionVars, execs, guestVars, fileVars, overlapped>>

Remove(c) ==
  /\ pc[c] = "remove"
  /\ path' = None
  /\ Goto(c, "done")
  /\ UNCHANGED <<up, sessionVars, execs, guestVars, fileVars, overlapped>>

Call(c) ==
  \/ Listen(c) \/ GetCheckSession(c) \/ Check(c) \/ Exec(c) \/ ExecReturns(c)
  \/ ScriptEnds(c) \/ SetCheckSession(c) \/ CloseListener(c) \/ Wait(c) \/ Remove(c)

-----------------------------------------------------------------------------
\* The guest of call c.

\* ProxyFs::connect, to whichever listener the path leads to now.
Connect(c) ==
  /\ guest[c] = "connect"
  /\ at' = [at EXCEPT ![c] = path]
  /\ GuestTo(c, IF path = None THEN "failed" ELSE "queued")
  /\ UNCHANGED <<pc, socketVars, sessionVars, execs, copy, todo, fileVars, overlapped>>

\* A guest that fails before its program runs exits too: the module does not compile
\* or link, or an entry of the copying in fails.
GuestFails(c) ==
  /\ guest[c] \in {"connect", "pull"}
  /\ GuestTo(c, "exited")
  /\ at' = [at EXCEPT ![c] = None]
  /\ copy' = [copy EXCEPT ![c] = [p \in Paths |-> None]]
  /\ todo' = [todo EXCEPT ![c] = {}]
  /\ UNCHANGED <<pc, socketVars, sessionVars, execs, fileVars, overlapped>>

\* Serve, of the server the guest has reached.
Accept(c) ==
  /\ guest[c] = "queued"
  /\ at[c] \in up
  /\ GuestTo(c, "accepted")
  /\ UNCHANGED <<pc, socketVars, sessionVars, execs, at, copy, todo, fileVars, overlapped>>

\* main.rs: the runtime is the package's.
Run(c) ==
  /\ guest[c] = "accepted"
  /\ \/ runtime = "wasix" /\ GuestTo(c, "wasix") /\ UNCHANGED <<copy, todo>>
     \/ /\ runtime = "wasip2"
        /\ GuestTo(c, "pull")
        /\ UNCHANGED copy
        /\ todo' = [todo EXCEPT ![c] = Paths]
  /\ UNCHANGED <<pc, socketVars, sessionVars, execs, at, fileVars, overlapped>>

\* sync_from_proxy, one entry at a time.
Pull(c) ==
  /\ guest[c] = "pull"
  /\ \/ \E p \in todo[c] :
          /\ copy' = [copy EXCEPT ![c][p] = files[at[c]][p]]
          /\ todo' = [todo EXCEPT ![c] = @ \ {p}]
          /\ UNCHANGED guest
     \/ /\ todo[c] = {}
        /\ GuestTo(c, "wasip2")
        /\ UNCHANGED <<copy, todo>>
  /\ UNCHANGED <<pc, socketVars, sessionVars, execs, at, fileVars, overlapped>>

\* The guest program writes or removes a file.
GuestWork(c, p, v) ==
  /\ \/ /\ guest[c] = "wasix"
        /\ files' = [files EXCEPT ![at[c]][p] = v]
        /\ UNCHANGED copy
     \/ /\ guest[c] = "wasip2"
        /\ copy' = [copy EXCEPT ![c][p] = v]
        /\ UNCHANGED files
  /\ expect' = [expect EXCEPT ![c][p] = v]
  /\ UNCHANGED <<pc, socketVars, sessionVars, execs, guest, at, todo, overlapped>>

\* The program ends; sync_to_proxy begins with the two snapshots.
GuestEnds(c) ==
  /\ \/ GuestTo(c, "exited") /\ guest[c] = "wasix" /\ UNCHANGED todo
     \/ /\ guest[c] = "wasip2"
        /\ GuestTo(c, "stale")
        /\ todo' = [todo EXCEPT ![c] =
             {p \in Paths : files[at[c]][p] # None /\ copy[c][p] = None}]
  /\ UNCHANGED <<pc, socketVars, sessionVars, execs, at, copy, fileVars, overlapped>>

\* Mutant of RemoveStale: only uploads, so that what the guest removed stays.
KeepStale(c) ==
  /\ guest[c] = "stale"
  /\ GuestTo(c, "push")
  /\ todo' = [todo EXCEPT ![c] = {p \in Paths : copy[c][p] # None}]
  /\ UNCHANGED <<pc, socketVars, sessionVars, execs, at, copy, fileVars, overlapped>>

\* sync_to_proxy removes what is in the server's snapshot and not in the copy ...
RemoveStale(c) ==
  /\ guest[c] = "stale"
  /\ \/ \E p \in todo[c] :
          /\ files' = [files EXCEPT ![at[c]][p] = None]
          /\ todo' = [todo EXCEPT ![c] = @ \ {p}]
          /\ UNCHANGED guest
     \/ /\ todo[c] = {}
        /\ GuestTo(c, "push")
        /\ todo' = [todo EXCEPT ![c] = {p \in Paths : copy[c][p] # None}]
        /\ UNCHANGED files
  /\ UNCHANGED <<pc, socketVars, sessionVars, execs, at, copy, expect, overlapped>>

\* ... and uploads every file of the copy, changed or not.
Push(c) ==
  /\ guest[c] = "push"
  /\ \/ \E p \in todo[c] :
          /\ files' = [files EXCEPT ![at[c]][p] = copy[c][p]]
          /\ todo' = [todo EXCEPT ![c] = @ \ {p}]
          /\ UNCHANGED guest
     \/ /\ todo[c] = {}
        /\ GuestTo(c, "exited")
        /\ UNCHANGED <<files, todo>>
  /\ UNCHANGED <<pc, socketVars, sessionVars, execs, at, copy, expect, overlapped>>

Guest(c) ==
  \/ Connect(c) \/ GuestFails(c) \/ Accept(c) \/ Run(c) \/ Pull(c) \/ GuestEnds(c)
  \/ RemoveStale(c) \/ Push(c)

Work(c) ==
  \E p \in Paths : ScriptWrite(c, p) \/ \E v \in {c, None} : GuestWork(c, p, v)

Next == \E c \in Calls : Begin(c) \/ Call(c) \/ Guest(c) \/ Work(c)

Spec == Init /\ [][Next]_vars

\* A call's goroutine runs on, and so do guest processes and the server; scripts
\* and guest programs end.
Fairness == \A c \in Calls :
  /\ WF_vars(Call(c)) /\ WF_vars(Guest(c))
  /\ WF_vars(ScriptEnds(c)) /\ WF_vars(GuestEnds(c))

FairSpec == Spec /\ Fairness

-----------------------------------------------------------------------------
\* Properties

TypeOK ==
  /\ pc \in [Calls -> PCs]
  /\ path \in Calls \cup {None}
  /\ up \subseteq Calls
  /\ runtime \in {"wasix", "wasip2"}
  /\ session \in Calls \cup {None}
  /\ mine \in [Calls -> Calls \cup {None}]
  /\ execs \in [Calls -> 0 .. MaxExecs]
  /\ guest \in [Calls -> GuestStates]
  /\ at \in [Calls -> Calls \cup {None}]
  /\ copy \in [Calls -> [Paths -> Contents]]
  /\ todo \in [Calls -> SUBSET Paths]
  /\ files \in [Calls -> [Paths -> Contents]]
  /\ expect \in [Calls -> [Paths -> Contents]]
  /\ overlapped \subseteq Calls

\* A call that overlaps no other is served by its own server: its guest never
\* fails to connect, is never reset and reaches no other call's files
\* (invoke.go's startVFSServer and its cleanup, one call after another).
AloneOwnServer ==
  \A c \in Calls \ overlapped :
    /\ guest[c] # "failed"
    /\ guest[c] \in {"queued", "accepted"} \/ Connected(c) => at[c] = c
    /\ pc[c] \notin {"idle", "listen", "remove", "wait", "done"} => path = c

\* A call that overlaps no other leaves in its MemFS, whenever no guest runs, what
\* script and guest have written and removed, in order, with the caller's other
\* files untouched: the copying in and out of wasip2.rs loses nothing.
AloneSharesFiles ==
  \A c \in Calls \ overlapped : guest[c] \in {"none", "exited"} => files[c] = expect[c]

\* A server is gone only when no guest is connected to it, its own or another
\* call's that the path led to it (Close waits for the connections).
ServedUntilTheEnd ==
  \A g \in Calls : Connected(g) => pc[at[g]] \notin {"remove", "done"}

\* Whatever calls overlapped, and whichever of them removed another's socket, when
\* all are over nothing is left at the path.
NoSocketLeft == Active = {} => path = None

\* Every call returns, also one whose server another call's guest has reached.  A call
\* is made once, so that all return means that at last none is under way.
CallReturns == <>[](Active = {})

=============================================================================
