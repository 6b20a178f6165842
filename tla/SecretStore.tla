----------------------------- MODULE SecretStore -----------------------------
(***************************************************************************)
(* secrets/local.go: LocalSecretStore, an encrypted map on disk that is    *)
(* read once into memory and written back whole on every mutation.         *)
(* Several goroutines call one store; the process can die at any step and  *)
(* start again, and the unlock and the flush can fail.  Encrypting and     *)
(* encoding the map lose nothing, so a file is the map it encodes.         *)
(***************************************************************************)
EXTENDS Naturals

CONSTANTS
  Threads,     \* goroutines that call the store
  Keys,        \* the keys that validateKey accepts
  Values,      \* secret values
  None,        \* no file, no value, no holder
  MaxFaults    \* bound: failed unlocks, failed flushes and crashes

ASSUME SecretAssumption ==
  /\ None \notin Values /\ None \notin Keys /\ None \notin Threads
  /\ None \notin [Keys -> Values \cup {None}]
  /\ MaxFaults \in Nat

Map == [Keys -> Values \cup {None}]

EmptyMap == [k \in Keys |-> None]

VARIABLES
  file,    \* the store file, None when there is none
  once,    \* sync.Once and unlockErr: not run yet, or how it ended
  data,    \* the decrypted map
  mu,      \* the goroutine that holds mu for writing
  call,    \* the call each goroutine is in
  dirty,   \* history: a flush failed after the last one that succeeded
  recent,  \* history: per key, the last acknowledged value and the ones tried since
  faults

vars == <<file, once, data, mu, call, dirty, recent, faults>>

\* A Set of val, a Delete (val is None), or a Get or List.  tmp is the content of
\* the temporary file.
Call == [pc : {"idle", "unlock", "read", "lock", "write", "rename"},
         op : {"read", "set", "delete"}, key : Keys \cup {None},
         val : Values \cup {None}, tmp : Map \cup {None}]

Idle == [pc |-> "idle", op |-> "read", key |-> None, val |-> None, tmp |-> None]

\* The map that opening the file gives.
FileMap == IF file = None THEN EmptyMap ELSE file

Goto(t, pc) == call' = [call EXCEPT ![t].pc = pc]

Return(t) == call' = [call EXCEPT ![t] = Idle]

-----------------------------------------------------------------------------

Init ==
  /\ file \in Map \cup {None}
  /\ once = "new"
  /\ data = None
  /\ mu = None
  /\ call = [t \in Threads |-> Idle]
  /\ dirty = FALSE
  /\ recent = [k \in Keys |-> {FileMap[k]}]
  /\ faults = 0

\* A call comes in and its key is validated.
Invoke(t) ==
  /\ call[t].pc = "idle"
  /\ \/ call' = [call EXCEPT ![t] = [Idle EXCEPT !.pc = "unlock"]]
     \/ \E k \in Keys, v \in Values :
          call' = [call EXCEPT ![t] =
                     [Idle EXCEPT !.pc = "unlock", !.op = "set", !.key = k, !.val = v]]
     \/ \E k \in Keys :
          call' = [call EXCEPT ![t] = [Idle EXCEPT !.pc = "unlock", !.op = "delete", !.key = k]]
  /\ UNCHANGED <<file, once, data, mu, dirty, recent, faults>>

\* The locked part that each call goes on to.
Body(t) == IF call[t].op = "read" THEN "read" ELSE "lock"

\* ensureUnlocked: the first caller unlocks while the others wait in once.Do;
\* an error stays for the life of the store.
Unlock(t) ==
  /\ call[t].pc = "unlock"
  /\ \/ /\ once = "new"
        /\ once' = "ok"
        /\ data' = FileMap
        /\ Goto(t, Body(t))
        /\ UNCHANGED faults
     \/ /\ once = "new"
        /\ faults < MaxFaults
        /\ faults' = faults + 1
        /\ once' = "failed"
        /\ Return(t)
        /\ UNCHANGED data
     \/ /\ once = "ok"
        /\ Goto(t, Body(t))
        /\ UNCHANGED <<once, data, faults>>
     \/ /\ once = "failed"
        /\ Return(t)
        /\ UNCHANGED <<once, data, faults>>
  /\ UNCHANGED <<file, mu, dirty, recent>>

\* Get and List under the read lock.
Read(t) ==
  /\ call[t].pc = "read"
  /\ mu = None
  /\ Return(t)
  /\ UNCHANGED <<file, once, data, mu, dirty, recent, faults>>

\* Mutant of Mutate: the map is changed and flushed without the lock.
MutateUnlocked(t) ==
  LET k == call[t].key  v == call[t].val
  IN  /\ call[t].pc = "lock"
      /\ IF call[t].op = "delete" /\ data[k] = None
           THEN Return(t) /\ UNCHANGED <<data, recent>>
           ELSE /\ data' = [data EXCEPT ![k] = v]
                /\ recent' = [recent EXCEPT ![k] = @ \cup {v}]
                /\ Goto(t, "write")
      /\ UNCHANGED <<file, once, mu, dirty, faults>>

\* Mutant of Mutate: a Delete is not flushed.
MutateLazyDelete(t) ==
  LET k == call[t].key  v == call[t].val
  IN  /\ call[t].pc = "lock"
      /\ mu = None
      /\ data' = [data EXCEPT ![k] = v]
      /\ recent' = [recent EXCEPT ![k] = @ \cup {v}]
      /\ IF v = None THEN Return(t) /\ UNCHANGED mu ELSE Goto(t, "write") /\ mu' = t
      /\ UNCHANGED <<file, once, dirty, faults>>

\* Set and Delete up to flush: the map changes first.  Delete of a key that is
\* not there returns ErrNotFound.
Mutate(t) ==
  LET k == call[t].key  v == call[t].val
  IN  /\ call[t].pc = "lock"
      /\ mu = None
      /\ IF call[t].op = "delete" /\ data[k] = None
           THEN Return(t) /\ UNCHANGED <<data, mu, recent>>
           ELSE /\ mu' = t
                /\ data' = [data EXCEPT ![k] = v]
                /\ recent' = [recent EXCEPT ![k] = @ \cup {v}]
                /\ Goto(t, "write")
      /\ UNCHANGED <<file, once, dirty, faults>>

\* Mutant of WriteTemp: the file is brought up to date key by key.
WriteTempOneKey(t) ==
  /\ call[t].pc = "write"
  /\ call' = [call EXCEPT ![t].pc = "rename",
                          ![t].tmp = [FileMap EXCEPT ![call[t].key] = call[t].val]]
  /\ UNCHANGED <<file, once, data, mu, dirty, recent, faults>>

\* flush encrypts the whole map into a temporary file
WriteTemp(t) ==
  /\ call[t].pc = "write"
  /\ call' = [call EXCEPT ![t].pc = "rename", ![t].tmp = data]
  /\ UNCHANGED <<file, once, data, mu, dirty, recent, faults>>

\* and renames it over the store file; the call returns nil and unlocks.
Rename(t) ==
  /\ call[t].pc = "rename"
  /\ file' = call[t].tmp
  /\ dirty' = FALSE
  /\ recent' = [recent EXCEPT ![call[t].key] = {call[t].val}]
  /\ mu' = None
  /\ Return(t)
  /\ UNCHANGED <<once, data, faults>>

\* Mutant of FlushFails: the error path keeps the lock.
FlushFailsLocked(t) ==
  /\ call[t].pc \in {"write", "rename"}
  /\ faults < MaxFaults
  /\ faults' = faults + 1
  /\ dirty' = TRUE
  /\ Return(t)
  /\ UNCHANGED <<file, once, data, mu, recent>>

\* Any of flush's error returns: the call reports the error, the temporary file
\* is removed, and the map in memory keeps the change.
FlushFails(t) ==
  /\ call[t].pc \in {"write", "rename"}
  /\ faults < MaxFaults
  /\ faults' = faults + 1
  /\ dirty' = TRUE
  /\ mu' = None
  /\ Return(t)
  /\ UNCHANGED <<file, once, data, recent>>

\* The process dies, or drops the store, and a new store is made.
Crash ==
  /\ faults < MaxFaults
  /\ faults' = faults + 1
  /\ once' = "new"
  /\ data' = None
  /\ mu' = None
  /\ call' = [t \in Threads |-> Idle]
  /\ dirty' = FALSE
  /\ UNCHANGED <<file, recent>>

Step(t) == Unlock(t) \/ Read(t) \/ Mutate(t) \/ WriteTemp(t) \/ Rename(t)

Next == \/ \E t \in Threads : Invoke(t) \/ Step(t) \/ FlushFails(t)
        \/ Crash

Spec == Init /\ [][Next]_vars

-----------------------------------------------------------------------------
\* Properties

TypeOK ==
  /\ file \in Map \cup {None}
  /\ once \in {"new", "ok", "failed"}
  /\ data \in Map \cup {None}
  /\ mu \in Threads \cup {None}
  /\ call \in [Threads -> Call]
  /\ dirty \in BOOLEAN
  /\ recent \in [Keys -> SUBSET (Values \cup {None})]
  /\ faults \in 0..MaxFaults

\* Durability: for every key the store file, and the map that Get and List read,
\* have the last value that a Set or Delete reported as stored, or one that a
\* later call has tried to store; no interleaving of calls, failed flush or
\* crash brings an older value back (Set, Delete, flush).
AckedIsDurable ==
  \A k \in Keys :
    /\ FileMap[k] \in recent[k]
    /\ once = "ok" => data[k] \in recent[k]

\* Unless a flush failed, readers see what a restart would see: nothing is in
\* memory only once the write lock is free (flush inside the lock).
MemoryMatchesFile == once = "ok" /\ mu = None /\ ~dirty => data = FileMap

\* What the store shows its callers, and what is left after a crash.
Shown == IF once = "ok" THEN data ELSE FileMap

WriteBack == INSTANCE WriteBackMap WITH Absent <- None, mem <- Shown, disk <- FileMap

\* The store implements a write-back map: the file only ever changes to the whole
\* of the map in memory, and that map changes by single keys or back to the file.
ImplementsWriteBack == WriteBack!Spec

\* A goroutine that runs goes on; sync.Mutex hands itself to a waiter that has
\* starved, so whoever waits for mu gets it in the end.
Fairness ==
  \A t \in Threads :
    /\ WF_vars(Unlock(t)) /\ WF_vars(WriteTemp(t)) /\ WF_vars(Rename(t))
    /\ SF_vars(Read(t)) /\ SF_vars(Mutate(t))

FairSpec == Spec /\ Fairness

\* Every call returns, also after errors: no path leaves mu locked.
CallsReturn == \A t \in Threads : call[t].pc # "idle" ~> call[t].pc = "idle"

=============================================================================
