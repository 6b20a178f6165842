-------------------------- MODULE SecretStoreProofs --------------------------
(***************************************************************************)
(* Proofs about SecretStore for every number of goroutines, keys, values   *)
(* and faults.                                                             *)
(***************************************************************************)
EXTENDS SecretStore, TLAPS

Flushing == {"write", "rename"}

\* The goroutine that flushes is the one that holds mu; the map still has the
\* value it is storing, and its temporary file is the map.
CallOK(t) ==
  LET c == call[t]
  IN  /\ c.pc \in Flushing <=> mu = t
      /\ c.pc \in {"read", "lock"} \cup Flushing => once = "ok"
      /\ c.pc \in {"lock"} \cup Flushing => c.key \in Keys
      /\ c.pc = "unlock" /\ c.op # "read" => c.key \in Keys
      /\ c.pc \in Flushing => data[c.key] = c.val
      /\ c.pc = "rename" => c.tmp = data

Inv ==
  /\ TypeOK
  /\ once = "ok" => data \in Map
  /\ \A t \in Threads : CallOK(t)
  /\ AckedIsDurable
  /\ MemoryMatchesFile

\* What load() reads from the file is a map of keys to values.
LEMMA FileMapType == ASSUME TypeOK PROVE FileMap \in Map
BY DEF TypeOK, FileMap, EmptyMap, Map

\* A goroutine outside every method is a well-typed call.
LEMMA IdleCall == Idle \in Call /\ Idle.pc = "idle"
BY DEF Idle, Call

\* A freshly opened store satisfies Inv.
LEMMA InitInv == Init => Inv
<1> SUFFICES ASSUME Init PROVE Inv
  OBVIOUS
<1>1. FileMap \in Map
  BY DEF Init, FileMap, EmptyMap, Map
<1>2. TypeOK
  <2>1. \A k \in Keys : FileMap[k] \in Values \cup {None}
    BY <1>1 DEF Map
  <2>2. recent \in [Keys -> SUBSET (Values \cup {None})]
    BY <2>1 DEF Init
  <2>3. faults \in 0..MaxFaults
    BY SecretAssumption DEF Init
  <2> QED
    BY Zenon, <2>2, <2>3, IdleCall DEF Init, TypeOK
<1>3. \A t \in Threads : CallOK(t)
  BY Zenon, IdleCall, SecretAssumption DEF Init, CallOK, Flushing
<1> QED
  BY <1>1, <1>2, <1>3 DEF Init, Inv, AckedIsDurable, MemoryMatchesFile

\* A call that comes in, or is over, holds nothing.
LEMMA InvokeInv == ASSUME Inv, NEW t \in Threads, Invoke(t) PROVE Inv'
<1> DEFINE Comes(c) == /\ call' = [call EXCEPT ![t] = c]
                       /\ c.pc = "unlock" /\ (c.op # "read" => c.key \in Keys)
<1>1. PICK c \in Call : Comes(c)
  <2>1. CASE call' = [call EXCEPT ![t] = [Idle EXCEPT !.pc = "unlock"]]
    <3> DEFINE d == [Idle EXCEPT !.pc = "unlock"]
    <3>1. d \in Call /\ d.pc = "unlock" /\ d.op = "read"
      BY DEF Idle, Call
    <3> QED
      BY Zenon, <2>1, <3>1
  <2>2. ASSUME NEW k \in Keys, NEW v \in Values,
               call' = [call EXCEPT ![t] =
                          [Idle EXCEPT !.pc = "unlock", !.op = "set", !.key = k, !.val = v]]
        PROVE  \E c \in Call : Comes(c)
    <3> DEFINE d == [Idle EXCEPT !.pc = "unlock", !.op = "set", !.key = k, !.val = v]
    <3>1. d \in Call /\ d.pc = "unlock" /\ d.key = k
      BY Zenon DEF Idle, Call
    <3> QED
      BY Zenon, <2>2, <3>1
  <2>3. ASSUME NEW k \in Keys,
               call' = [call EXCEPT ![t] =
                          [Idle EXCEPT !.pc = "unlock", !.op = "delete", !.key = k]]
        PROVE  \E c \in Call : Comes(c)
    <3> DEFINE d == [Idle EXCEPT !.pc = "unlock", !.op = "delete", !.key = k]
    <3>1. d \in Call /\ d.pc = "unlock" /\ d.key = k
      BY Zenon DEF Idle, Call
    <3> QED
      BY Zenon, <2>3, <3>1
  <2> QED
    BY Zenon, <2>1, <2>2, <2>3 DEF Invoke
<1>2. TypeOK'
  BY Zenon, <1>1 DEF Inv, TypeOK, Invoke
<1>3. call'[t] = c /\ (\A u \in Threads \ {t} : call'[u] = call[u]) /\ call[t].pc = "idle"
  BY Zenon, <1>1 DEF Inv, TypeOK, Invoke
<1>4. \A u \in Threads : CallOK(u)'
  BY ZenonT(60), <1>1, <1>3 DEF Inv, Invoke, CallOK, Flushing
<1> QED
  BY ZenonT(60), <1>2, <1>4 DEF Inv, Invoke, AckedIsDurable, MemoryMatchesFile, FileMap

\* A goroutine that moves on inside its method changes only its own call.
LEMMA GotoCall ==
  ASSUME TypeOK, NEW t \in Threads, NEW pc \in {"read", "lock", "write", "rename"}, Goto(t, pc)
  PROVE  /\ call' \in [Threads -> Call]
         /\ call'[t].pc = pc /\ call'[t].op = call[t].op /\ call'[t].key = call[t].key
         /\ call'[t].val = call[t].val
         /\ \A u \in Threads \ {t} : call'[u] = call[u]
<1> DEFINE x == call[t]
           y == [x EXCEPT !.pc = pc]
<1>1. x \in Call /\ call' = [call EXCEPT ![t] = y]
  BY DEF TypeOK, Goto
<1> HIDE DEF x
<1>2. y \in Call /\ y.pc = pc /\ y.op = x.op /\ y.key = x.key /\ y.val = x.val
  BY <1>1 DEF Call
<1> HIDE DEF y
<1> QED
  BY <1>1, <1>2 DEF TypeOK, x

\* A goroutine that returns becomes idle and leaves the other calls alone.
LEMMA ReturnCall ==
  ASSUME TypeOK, NEW t \in Threads, Return(t)
  PROVE  /\ call' \in [Threads -> Call]
         /\ call'[t].pc = "idle"
         /\ \A u \in Threads \ {t} : call'[u] = call[u]
BY IdleCall DEF TypeOK, Return

\* Unlock preserves Inv.
LEMMA UnlockInv == ASSUME Inv, NEW t \in Threads, Unlock(t) PROVE Inv'
<1>1. TypeOK /\ FileMap \in Map /\ UNCHANGED <<file, mu, dirty, recent>> /\ FileMap' = FileMap
  BY FileMapType DEF Inv, Unlock, FileMap
<1>2. Body(t) \in {"read", "lock"} /\ (Body(t) = "lock" => call[t].key \in Keys)
      /\ call[t].pc = "unlock" /\ mu # t
  BY DEF Body, Inv, CallOK, Unlock, Flushing
<1>3. CASE once = "new" /\ once' = "ok" /\ data' = FileMap /\ Goto(t, Body(t)) /\ UNCHANGED faults
  <2>1. TypeOK'
    BY <1>1, <1>2, <1>3, GotoCall DEF TypeOK
  <2>2. \A u \in Threads : CallOK(u)'
    BY <1>1, <1>2, <1>3, GotoCall DEF Inv, CallOK, Flushing
  <2> QED
    BY <1>1, <1>3, <2>1, <2>2 DEF Inv, AckedIsDurable, MemoryMatchesFile
<1>4. CASE /\ once = "new" /\ faults < MaxFaults /\ faults' = faults + 1 /\ once' = "failed"
           /\ Return(t) /\ UNCHANGED data
  <2>1. faults' \in 0..MaxFaults
    BY <1>1, <1>4, SecretAssumption DEF TypeOK
  <2>2. TypeOK'
    BY <1>1, <1>4, <2>1, ReturnCall DEF TypeOK
  <2>3. \A u \in Threads : CallOK(u)'
    BY <1>1, <1>2, <1>4, ReturnCall DEF Inv, CallOK, Flushing
  <2> QED
    BY <1>1, <1>4, <2>2, <2>3 DEF Inv, AckedIsDurable, MemoryMatchesFile
<1>5. CASE once = "ok" /\ Goto(t, Body(t)) /\ UNCHANGED <<once, data, faults>>
  <2>1. TypeOK'
    BY <1>1, <1>2, <1>5, GotoCall DEF TypeOK
  <2>2. \A u \in Threads : CallOK(u)'
    BY <1>1, <1>2, <1>5, GotoCall DEF Inv, CallOK, Flushing
  <2> QED
    BY <1>1, <1>5, <2>1, <2>2 DEF Inv, AckedIsDurable, MemoryMatchesFile
<1>6. CASE once = "failed" /\ Return(t) /\ UNCHANGED <<once, data, faults>>
  <2>1. TypeOK'
    BY <1>1, <1>6, ReturnCall DEF TypeOK
  <2>2. \A u \in Threads : CallOK(u)'
    BY <1>1, <1>2, <1>6, ReturnCall DEF Inv, CallOK, Flushing
  <2> QED
    BY <1>1, <1>6, <2>1, <2>2 DEF Inv, AckedIsDurable, MemoryMatchesFile
<1> QED
  BY <1>3, <1>4, <1>5, <1>6 DEF Unlock

\* Read preserves Inv.
LEMMA ReadInv == ASSUME Inv, NEW t \in Threads, Read(t) PROVE Inv'
<1>1. TypeOK /\ FileMap' = FileMap /\ mu # t
  BY SecretAssumption DEF Inv, Read, FileMap
<1>2. TypeOK'
  BY <1>1, ReturnCall DEF TypeOK, Read
<1>3. \A u \in Threads : CallOK(u)'
  BY <1>1, ReturnCall DEF Inv, Read, CallOK, Flushing
<1> QED
  BY <1>1, <1>2, <1>3 DEF Inv, Read, AckedIsDurable, MemoryMatchesFile

\* Mutate preserves Inv.
LEMMA MutateInv == ASSUME Inv, NEW t \in Threads, Mutate(t) PROVE Inv'
<1> DEFINE k == call[t].key
           v == call[t].val
<1>1. TypeOK /\ FileMap' = FileMap /\ mu = None /\ mu # t /\ call[t].pc = "lock"
      /\ UNCHANGED <<file, once, dirty, faults>>
  BY SecretAssumption DEF Inv, Mutate, FileMap
<1>2. k \in Keys /\ v \in Values \cup {None} /\ once = "ok" /\ data \in Map
  BY <1>1 DEF Inv, CallOK, TypeOK, Call
<1>3. \A u \in Threads : call[u].pc \notin Flushing
  BY <1>1, SecretAssumption DEF Inv, CallOK
<1>4. CASE call[t].op = "delete" /\ data[k] = None
  <2>1. Return(t) /\ UNCHANGED <<data, mu, recent>>
    BY <1>4 DEF Mutate
  <2>2. TypeOK'
    BY <1>1, <2>1, ReturnCall DEF TypeOK
  <2>3. \A u \in Threads : CallOK(u)'
    BY <1>1, <2>1, ReturnCall DEF Inv, CallOK, Flushing
  <2> QED
    BY <1>1, <2>1, <2>2, <2>3 DEF Inv, AckedIsDurable, MemoryMatchesFile
<1>5. CASE ~(call[t].op = "delete" /\ data[k] = None)
  <2>1. /\ mu' = t /\ data' = [data EXCEPT ![k] = v]
        /\ recent' = [recent EXCEPT ![k] = @ \cup {v}] /\ Goto(t, "write")
    BY <1>5 DEF Mutate
  <2>2. data' \in Map /\ data'[k] = v /\ \A j \in Keys \ {k} : data'[j] = data[j]
    BY <1>2, <2>1 DEF Map
  <2>3. /\ recent' \in [Keys -> SUBSET (Values \cup {None})]
        /\ recent'[k] = recent[k] \cup {v} /\ \A j \in Keys \ {k} : recent'[j] = recent[j]
    BY <1>1, <1>2, <2>1 DEF TypeOK
  <2>4. TypeOK'
    BY <1>1, <2>1, <2>2, <2>3, GotoCall DEF TypeOK
  <2>5. \A u \in Threads : CallOK(u)'
    <3>1. CallOK(t)'
      BY <1>1, <1>2, <2>1, <2>2, GotoCall DEF CallOK, Flushing
    <3>2. ASSUME NEW u \in Threads \ {t} PROVE CallOK(u)'
      BY <1>1, <1>2, <1>3, <2>1, GotoCall DEF Inv, CallOK, Flushing
    <3> QED
      BY <3>1, <3>2
  <2>6. AckedIsDurable'
    BY <1>1, <1>2, <2>2, <2>3 DEF Inv, AckedIsDurable
  <2>7. MemoryMatchesFile'
    BY <2>1, SecretAssumption DEF MemoryMatchesFile
  <2> QED
    BY <1>1, <1>2, <2>2, <2>4, <2>5, <2>6, <2>7 DEF Inv
<1> QED
  BY <1>4, <1>5

\* WriteTemp preserves Inv.
LEMMA WriteTempInv == ASSUME Inv, NEW t \in Threads, WriteTemp(t) PROVE Inv'
<1> DEFINE x == call[t]
           y == [x EXCEPT !.pc = "rename", !.tmp = data]
<1>1. TypeOK /\ FileMap' = FileMap /\ CallOK(t) /\ x.pc = "write" /\ x \in Call /\ mu = t
  BY DEF Inv, WriteTemp, FileMap, TypeOK, CallOK, Flushing
<1>2. x.key \in Keys /\ data[x.key] = x.val /\ once = "ok" /\ data \in Map
  BY <1>1 DEF Inv, CallOK, Flushing
<1>3. call' = [call EXCEPT ![t] = y] /\ UNCHANGED <<file, once, data, mu, dirty, recent, faults>>
  BY Zenon DEF WriteTemp
<1> HIDE DEF x
<1>4. y \in Call /\ y.pc = "rename" /\ y.tmp = data /\ y.key = x.key /\ y.val = x.val
  BY Zenon, <1>1, <1>2 DEF Call
<1> HIDE DEF y
<1>5. call'[t] = y /\ \A u \in Threads \ {t} : call'[u] = call[u]
  BY <1>1, <1>3 DEF TypeOK
<1>6. TypeOK'
  BY <1>1, <1>3, <1>4 DEF TypeOK
<1>7. \A u \in Threads : CallOK(u)'
  BY <1>1, <1>2, <1>3, <1>4, <1>5 DEF Inv, CallOK, Flushing
<1> QED
  BY <1>1, <1>3, <1>6, <1>7 DEF Inv, AckedIsDurable, MemoryMatchesFile

\* Rename preserves Inv.
LEMMA RenameInv == ASSUME Inv, NEW t \in Threads, Rename(t) PROVE Inv'
<1> DEFINE k == call[t].key
           v == call[t].val
<1>1. TypeOK /\ CallOK(t) /\ call[t].pc = "rename" /\ mu = t /\ UNCHANGED <<once, data, faults>>
  BY DEF Inv, Rename, CallOK, Flushing
<1>2. /\ k \in Keys /\ v \in Values \cup {None} /\ once = "ok" /\ data \in Map
      /\ data[k] = v /\ call[t].tmp = data
  BY <1>1 DEF Inv, CallOK, Flushing, TypeOK, Call
<1>3. file' = data /\ FileMap' = data /\ mu' = None /\ dirty' = FALSE /\ Return(t)
  BY <1>2, SecretAssumption DEF Rename, FileMap, Map
<1>4. /\ recent' \in [Keys -> SUBSET (Values \cup {None})]
      /\ recent'[k] = {v} /\ \A j \in Keys \ {k} : recent'[j] = recent[j]
  BY <1>1, <1>2 DEF TypeOK, Rename
<1>5. TypeOK'
  BY Zenon, <1>1, <1>2, <1>3, <1>4, ReturnCall DEF TypeOK
<1>6. \A u \in Threads : CallOK(u)'
  BY <1>1, <1>3, ReturnCall, SecretAssumption DEF Inv, CallOK, Flushing
<1>7. AckedIsDurable'
  BY <1>1, <1>2, <1>3, <1>4 DEF Inv, AckedIsDurable
<1> QED
  BY <1>1, <1>3, <1>5, <1>6, <1>7 DEF Inv, MemoryMatchesFile

\* FlushFails preserves Inv.
LEMMA FlushFailsInv == ASSUME Inv, NEW t \in Threads, FlushFails(t) PROVE Inv'
<1>1. TypeOK /\ CallOK(t) /\ mu = t /\ FileMap' = FileMap
  BY DEF Inv, FlushFails, CallOK, Flushing, FileMap
<1>2. faults' \in 0..MaxFaults
  BY <1>1, SecretAssumption DEF TypeOK, FlushFails
<1>3. TypeOK'
  BY <1>1, <1>2, ReturnCall DEF TypeOK, FlushFails
<1>4. \A u \in Threads : CallOK(u)'
  BY <1>1, ReturnCall, SecretAssumption DEF Inv, FlushFails, CallOK, Flushing
<1> QED
  BY <1>1, <1>3, <1>4 DEF Inv, FlushFails, AckedIsDurable, MemoryMatchesFile

\* Crash preserves Inv.
LEMMA CrashInv == ASSUME Inv, Crash PROVE Inv'
<1>1. TypeOK /\ FileMap' = FileMap
  BY DEF Inv, Crash, FileMap
<1>2. faults' \in 0..MaxFaults
  BY <1>1, SecretAssumption DEF TypeOK, Crash
<1>3. TypeOK'
  BY Zenon, <1>1, <1>2, IdleCall DEF TypeOK, Crash
<1>4. \A u \in Threads : CallOK(u)'
  BY IdleCall, SecretAssumption DEF Crash, CallOK, Flushing
<1> QED
  BY <1>1, <1>3, <1>4 DEF Inv, Crash, AckedIsDurable, MemoryMatchesFile

\* Every step of the store preserves Inv.
LEMMA NextInv == Inv /\ [Next]_vars => Inv'
<1> SUFFICES ASSUME Inv, [Next]_vars PROVE Inv'
  OBVIOUS
<1>1. CASE UNCHANGED vars
  BY <1>1 DEF Inv, vars, TypeOK, CallOK, AckedIsDurable, MemoryMatchesFile, FileMap
<1> QED
  BY <1>1, InvokeInv, UnlockInv, ReadInv, MutateInv, WriteTempInv, RenameInv, FlushFailsInv,
     CrashInv DEF Next, Step

\* Type correctness of the store, its calls and the file.
THEOREM SecretTypes == Spec => []TypeOK
<1>1. Inv => TypeOK
  BY DEF Inv
<1> QED
  BY <1>1, InitInv, NextInv, PTL DEF Spec

\* Durability of Set and Delete (flush under the write lock): no interleaving,
\* failed flush or crash brings back a value older than the last acknowledged one.
THEOREM SecretsDurable == Spec => []AckedIsDurable
<1>1. Inv => AckedIsDurable
  BY DEF Inv
<1> QED
  BY <1>1, InitInv, NextInv, PTL DEF Spec

\* Get and List show nothing that a restart would forget, unless a flush failed.
THEOREM SecretsCoherent == Spec => []MemoryMatchesFile
<1>1. Inv => MemoryMatchesFile
  BY DEF Inv
<1> QED
  BY <1>1, InitInv, NextInv, PTL DEF Spec

\* Each step of the store is a step of the write-back map, or is not seen there.
LEMMA WriteBackStep == Inv /\ Inv' /\ [Next]_vars => [WriteBack!Next]_<<Shown, FileMap>>
<1> SUFFICES ASSUME Inv, Inv', [Next]_vars PROVE [WriteBack!Next]_<<Shown, FileMap>>
  OBVIOUS
<1>1. ASSUME NEW t \in Threads, Invoke(t) \/ Read(t) \/ WriteTemp(t) \/ FlushFails(t)
      PROVE  UNCHANGED <<Shown, FileMap>>
  BY Zenon, <1>1 DEF Invoke, Read, WriteTemp, FlushFails, Shown, FileMap
<1>2. ASSUME NEW t \in Threads, Unlock(t) PROVE UNCHANGED <<Shown, FileMap>>
  BY <1>2 DEF Unlock, Shown, FileMap
<1>3. ASSUME NEW t \in Threads, Mutate(t) PROVE [WriteBack!Next]_<<Shown, FileMap>>
  <2> DEFINE k == call[t].key
             v == call[t].val
  <2>1. k \in Keys /\ v \in Values \cup {None} /\ once = "ok" /\ once' = "ok" /\ FileMap' = FileMap
    BY <1>3 DEF Inv, CallOK, TypeOK, Call, Mutate, FileMap
  <2>2. CASE UNCHANGED data
    BY <2>1, <2>2 DEF Shown
  <2>3. CASE data' = [data EXCEPT ![k] = v]
    <3>1. WriteBack!Edit(k, v)
      BY <2>1, <2>3 DEF WriteBack!Edit, Shown
    <3> QED
      BY <2>1, <3>1 DEF WriteBack!Next
  <2> QED
    BY Zenon, <1>3, <2>2, <2>3 DEF Mutate
<1>4. ASSUME NEW t \in Threads, Rename(t) PROVE WriteBack!Flush
  <2>1. once = "ok" /\ data \in Map /\ call[t].tmp = data
    BY <1>4 DEF Inv, CallOK, Rename, Flushing
  <2> QED
    BY <1>4, <2>1, SecretAssumption DEF Rename, WriteBack!Flush, Shown, FileMap, Map
<1>5. CASE Crash
  BY <1>5 DEF Crash, WriteBack!Next, WriteBack!Restart, Shown, FileMap
<1>6. CASE UNCHANGED vars
  BY <1>6 DEF vars, Shown, FileMap
<1> QED
  BY <1>1, <1>2, <1>3, <1>4, <1>5, <1>6 DEF Next, Step, WriteBack!Next

\* An opened store maps to an initial write-back map.
LEMMA WriteBackInit == Init => WriteBack!Init
<1> SUFFICES ASSUME Init PROVE WriteBack!Init
  OBVIOUS
<1>1. FileMap \in Map
  BY InitInv, FileMapType DEF Inv
<1> QED
  BY <1>1 DEF Init, WriteBack!Init, WriteBack!Maps, Map, Shown

\* LocalSecretStore implements the write-back map: the file only ever changes to
\* the whole of the map in memory (one rename), and that map changes by single
\* keys or back to the file.
THEOREM SecretsWriteBack == Spec => ImplementsWriteBack
<1> QED
  BY InitInv, NextInv, WriteBackInit, WriteBackStep, PTL
     DEF Spec, ImplementsWriteBack, WriteBack!Spec

=============================================================================
