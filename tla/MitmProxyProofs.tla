-------------------------- MODULE MitmProxyProofs --------------------------
(***************************************************************************)
(* Theorems about MitmProxy for any connections, hosts and numbers of      *)
(* requests: one certificate per host, the Observer sees every response    *)
(* before the client does, and sees it with its own request as long as     *)
(* upstream sends no interim response.                                     *)
(***************************************************************************)
EXTENDS MitmProxy, TLAPS

Final(n) == [to |-> n, final |-> TRUE]

Held(c) ==
  /\ pc[c] \in {"response", "observe"} => read[c] > 0
  /\ pc[c] \in {"observe", "deliver"} => resp[c] \in Responses

\* The mutex is held from the lookup to the end of the creation, so a host that had
\* no certificate at the lookup still has none.
Certs ==
  \A c \in Conns :
    /\ pc[c] \in {"lookup", "create"} => mutex = c
    /\ pc[c] = "create" => certCache[Host[c]] = None
    /\ cert[c] # None => cert[c] = certCache[Host[c]]

\* What the Observer has seen and the client has got.
Shown(c) ==
  /\ pc[c] = "deliver" =>
       /\ Len(observed[c]) = Len(delivered[c]) + 1
       /\ observed[c][Len(observed[c])][2] = resp[c]
  /\ pc[c] \notin {"deliver", "closed"} => Len(observed[c]) = Len(delivered[c])
  /\ Len(delivered[c]) = Len(observed[c]) \/ Len(delivered[c]) + 1 = Len(observed[c])
  /\ \A i \in 1 .. Len(delivered[c]) : observed[c][i][2] = delivered[c][i]

\* Without interim responses there is at most one request under way, or its answer.
Wire(c) ==
  c \notin interim =>
    /\ \A i \in 1 .. Len(observed[c]) : observed[c][i] = <<i, Final(i)>>
    /\ pc[c] \notin {"response", "observe", "closed"} => Len(observed[c]) = read[c]
    /\ pc[c] \in {"response", "observe"} => Len(observed[c]) + 1 = read[c]
    /\ pc[c] \notin {"response", "closed"} => inbox[c] = <<>> /\ outbox[c] = <<>>
    /\ pc[c] = "response" =>
         \/ inbox[c] = <<read[c]>> /\ outbox[c] = <<>>
         \/ inbox[c] = <<>> /\ outbox[c] \in {<<>>, <<Final(read[c])>>}
    /\ pc[c] = "observe" => resp[c] = Final(read[c])

Local(c) == Held(c) /\ Shown(c) /\ Wire(c)

Inv == TypeOK /\ Certs /\ \A c \in Conns : Local(c)

-----------------------------------------------------------------------------

\* A proxy without connections satisfies the invariant.
LEMMA InvInit == Init => Inv
<1> SUFFICES ASSUME Init PROVE Inv
  OBVIOUS
<1>1. TypeOK
  BY ProxyAssumption DEF Init, TypeOK, Hosts, PCs
<1>2. Certs
  BY Zenon DEF Init, Certs
<1>3. ASSUME NEW c \in Conns PROVE Local(c)
  BY DEF Init, Local, Held, Shown, Wire
<1> QED
  BY <1>1, <1>2, <1>3 DEF Inv

\* A connection for which nothing changes.
LEMMA SameConn ==
  ASSUME NEW d \in Conns, Local(d), pc'[d] = pc[d], read'[d] = read[d],
         inbox'[d] = inbox[d], outbox'[d] = outbox[d], resp'[d] = resp[d],
         observed'[d] = observed[d], delivered'[d] = delivered[d], d \in interim => d \in interim'
  PROVE  Local(d)'
  BY DEF Local, Held, Shown, Wire

\* A step of one connection, outside getOrCreateCert: what has to be shown of it.
LEMMA ConnStep ==
  ASSUME Inv, NEW c \in Conns, NEW l \in PCs, Goto(c, l),
         l \in {"lookup", "create"} => pc[c] = l,
         UNCHANGED <<clock, mutex, certCache, born, cert>>,
         sent' \in [Conns -> Nat], read' \in [Conns -> Nat],
         inbox' \in [Conns -> Seq(Requests)], outbox' \in [Conns -> Seq(Responses)],
         resp' \in [Conns -> Responses \cup {NoResponse}],
         observed' \in [Conns -> Seq(Requests \X Responses)],
         delivered' \in [Conns -> Seq(Responses)],
         gone' \subseteq Conns, down' \subseteq Conns, interim' \subseteq Conns,
         interim \subseteq interim',
         \A d \in Conns \ {c} :
           /\ read'[d] = read[d] /\ inbox'[d] = inbox[d] /\ outbox'[d] = outbox[d]
           /\ resp'[d] = resp[d] /\ observed'[d] = observed[d] /\ delivered'[d] = delivered[d],
         Local(c)'
  PROVE  Inv'
<1>1. pc' \in [Conns -> PCs] /\ pc'[c] = l /\ \A d \in Conns \ {c} : pc'[d] = pc[d]
  BY DEF Inv, TypeOK, Goto
<1>2. TypeOK'
  BY Zenon, <1>1 DEF Inv, TypeOK, Hosts
<1>3. Certs'
  <2>1. \A d \in Conns : pc'[d] \in {"lookup", "create"} => pc[d] = pc'[d]
    BY Zenon, <1>1
  <2> QED
    BY ZenonT(60), <2>1 DEF Inv, Certs
<1>4. ASSUME NEW d \in Conns \ {c} PROVE Local(d)'
  BY <1>1, SameConn DEF Inv
<1> QED
  BY <1>2, <1>3, <1>4 DEF Inv

\* A connection that stays where it is.
LEMMA Stays ==
  ASSUME TypeOK, NEW c \in Conns, UNCHANGED pc
  PROVE  pc[c] \in PCs /\ Goto(c, pc[c])
  BY DEF TypeOK, Goto

\* Before the first request, and at the end, nothing is under way.
LEMMA EarlyMove ==
  ASSUME Inv, NEW c \in Conns, pc[c] \in {"new", "handshake", "dial"},
         NEW l \in {"lock", "dial", "request", "closed"}, Goto(c, l),
         UNCHANGED <<clock, certVars, clientVars, read, inbox, outbox, resp, observed, delivered, upVars>>
  PROVE  Inv'
<1>1. l \in PCs /\ l \notin {"lookup", "create"}
  BY DEF PCs
<1>2. pc'[c] = l
  BY <1>1 DEF Goto, Inv, TypeOK
<1>3. Local(c)'
  BY <1>2 DEF Inv, Local, Held, Shown, Wire, upVars
<1> QED
  BY Zenon, <1>1, <1>3, ConnStep DEF Inv, TypeOK, certVars, clientVars, upVars

\* The steps before the loop: hijacking, the handshake and the connection to upstream.
LEMMA EarlyInv ==
  ASSUME Inv, NEW c \in Conns, HandleConnect(c) \/ Handshake(c) \/ Dial(c) PROVE Inv'
<1>1. /\ pc[c] \in {"new", "handshake", "dial"}
      /\ \E l \in {"lock", "dial", "request", "closed"} : Goto(c, l)
  BY DEF HandleConnect, Handshake, Dial
<1>2. UNCHANGED <<clock, certVars, clientVars, read, inbox, outbox, resp, observed, delivered, upVars>>
  BY DEF HandleConnect, Handshake, Dial
<1> QED
  BY <1>1, <1>2, EarlyMove

\* A step of getOrCreateCert: what has to be shown of it.
LEMMA CertStep ==
  ASSUME Inv, NEW c \in Conns, pc[c] \in {"lock", "lookup", "create"},
         NEW l \in {"lookup", "create", "handshake", "closed"}, Goto(c, l),
         UNCHANGED <<clock, clientVars, read, inbox, outbox, resp, observed, delivered, upVars>>,
         mutex' \in Conns \cup {None},
         certCache' \in [Hosts -> Conns \cup {None}], born' \in [Hosts -> 0 .. MaxTime],
         cert' \in [Conns -> Conns \cup {None}],
         l \in {"lookup", "create"} => mutex' = c,
         l = "create" => certCache'[Host[c]] = None,
         cert'[c] # None => cert'[c] = certCache'[Host[c]],
         \A d \in Conns \ {c} :
           /\ cert'[d] = cert[d]
           /\ certCache'[Host[d]] # certCache[Host[d]] => cert[d] = None,
         \A d \in Conns \ {c} :
           pc[d] \in {"lookup", "create"} => mutex' = d /\ certCache'[Host[d]] = certCache[Host[d]]
  PROVE  Inv'
<1>1. l \in PCs
  BY DEF PCs
<1>2. pc' \in [Conns -> PCs] /\ pc'[c] = l /\ \A d \in Conns \ {c} : pc'[d] = pc[d]
  BY <1>1 DEF Inv, TypeOK, Goto
<1>3. TypeOK'
  BY Zenon, <1>2 DEF Inv, TypeOK, Hosts, clientVars, upVars
<1>4. Certs'
  BY <1>2 DEF Inv, Certs
<1>5. Local(c)'
  BY ZenonT(60), <1>2 DEF Inv, Local, Held, Shown, Wire, upVars
<1>6. ASSUME NEW d \in Conns \ {c} PROVE Local(d)'
  BY <1>2, SameConn DEF Inv, upVars
<1> QED
  BY <1>3, <1>4, <1>5, <1>6 DEF Inv

\* While one connection holds the mutex, no other is between lookup and creation.
LEMMA OneHolder ==
  ASSUME Inv, NEW c \in Conns, mutex \in {c, None}, NEW d \in Conns \ {c}
  PROVE  pc[d] \notin {"lookup", "create"}
  BY ProxyAssumption DEF Inv, Certs

\* Taking the mutex of the certificate cache.
LEMMA LockInv == ASSUME Inv, NEW c \in Conns, Lock(c) PROVE Inv'
<1>1. \A d \in Conns \ {c} : pc[d] \notin {"lookup", "create"}
  BY OneHolder DEF Lock
<1>2. /\ cert[c] # None => cert[c] = certCache[Host[c]]
      /\ UNCHANGED <<certCache, born, cert>> /\ mutex' = c
      /\ pc[c] = "lock" /\ Goto(c, "lookup")
  BY DEF Lock, Inv, Certs
<1>3. UNCHANGED <<clock, clientVars, read, inbox, outbox, resp, observed, delivered, upVars>>
  BY DEF Lock
<1> QED
  BY Zenon, <1>1, <1>2, <1>3, CertStep DEF Inv, TypeOK

\* Reading the cache with the mutex held.
LEMMA LookupInv == ASSUME Inv, NEW c \in Conns, Lookup(c) PROVE Inv'
<1>1. pc[c] = "lookup" /\ mutex = c
  BY DEF Lookup, Inv, Certs
<1>2. \A d \in Conns \ {c} : pc[d] \notin {"lookup", "create"}
  BY <1>1, OneHolder
<1>3. UNCHANGED <<clock, certCache, born, clientVars, read, inbox, outbox, resp, observed, delivered, upVars>>
  BY DEF Lookup
<1>4. CASE certCache[Host[c]] = None /\ Goto(c, "create") /\ UNCHANGED <<mutex, cert>>
  <2>1. cert[c] # None => cert[c] = certCache[Host[c]]
    BY DEF Inv, Certs
  <2> QED
    BY Zenon, <1>1, <1>2, <1>3, <1>4, <2>1, CertStep DEF Inv, TypeOK
<1>5. CASE cert' = [cert EXCEPT ![c] = certCache[Host[c]]] /\ mutex' = None /\ Goto(c, "handshake")
  <2>1. certCache[Host[c]] \in Conns \cup {None}
    <3>1. Host[c] \in Hosts
      BY Zenon DEF Hosts
    <3>2. certCache \in [Hosts -> Conns \cup {None}]
      BY Zenon DEF Inv, TypeOK
    <3> QED
      BY Zenon, <3>1, <3>2
  <2>2. /\ cert' \in [Conns -> Conns \cup {None}] /\ cert'[c] = certCache[Host[c]]
        /\ \A d \in Conns \ {c} : cert'[d] = cert[d]
    BY <1>5, <2>1 DEF Inv, TypeOK
  <2> QED
    BY Zenon, <1>1, <1>2, <1>3, <1>5, <2>2, CertStep DEF Inv, TypeOK
<1> QED
  BY <1>4, <1>5 DEF Lookup

\* Creating and storing a certificate, then releasing the mutex.
LEMMA CreateInv == ASSUME Inv, NEW c \in Conns, Create(c) PROVE Inv'
<1>1. pc[c] = "create" /\ mutex = c /\ certCache[Host[c]] = None
  BY DEF Create, Inv, Certs
<1>2. \A d \in Conns \ {c} : pc[d] \notin {"lookup", "create"}
  BY <1>1, OneHolder
<1>3. mutex' = None /\ UNCHANGED <<clock, clientVars, read, inbox, outbox, resp, observed, delivered, upVars>>
  BY Zenon DEF Create
<1>4. CASE /\ certCache' = [certCache EXCEPT ![Host[c]] = c]
           /\ born' = [born EXCEPT ![Host[c]] = clock]
           /\ cert' = [cert EXCEPT ![c] = c]
           /\ Goto(c, "handshake")
  <2>1. Host[c] \in Hosts /\ \A d \in Conns : Host[d] \in Hosts
    BY DEF Hosts
  <2>2. /\ certCache' \in [Hosts -> Conns \cup {None}]
        /\ certCache'[Host[c]] = c
        /\ \A h \in Hosts \ {Host[c]} : certCache'[h] = certCache[h]
    BY <1>4, <2>1 DEF Inv, TypeOK
  <2>3. born' \in [Hosts -> 0 .. MaxTime]
    BY Zenon, <1>4 DEF Inv, TypeOK
  <2>4. /\ cert' \in [Conns -> Conns \cup {None}] /\ cert'[c] = c
        /\ \A d \in Conns \ {c} : cert'[d] = cert[d]
    BY <1>4 DEF Inv, TypeOK
  <2>5. ASSUME NEW d \in Conns \ {c}, certCache'[Host[d]] # certCache[Host[d]] PROVE cert[d] = None
    BY <1>1, <2>1, <2>2, <2>5 DEF Inv, Certs
  <2> QED
    BY <1>1, <1>2, <1>3, <1>4, <2>2, <2>3, <2>4, <2>5, CertStep
<1>5. CASE Goto(c, "closed") /\ UNCHANGED <<certCache, born, cert>>
  <2>1. cert[c] # None => cert[c] = certCache[Host[c]]
    BY DEF Inv, Certs
  <2> QED
    BY Zenon, <1>1, <1>2, <1>3, <1>5, <2>1, CertStep DEF Inv, TypeOK
<1> QED
  BY <1>4, <1>5 DEF Create

-----------------------------------------------------------------------------
\* The loop of handleConnect

\* What Append does to a sequence.
LEMMA Appended ==
  ASSUME NEW S, NEW s \in Seq(S), NEW e \in S
  PROVE  /\ Append(s, e) \in Seq(S) /\ Len(Append(s, e)) = Len(s) + 1
         /\ \A i \in 1 .. Len(s) : Append(s, e)[i] = s[i]
         /\ Append(s, e)[Len(s) + 1] = e
  OBVIOUS

\* The first element of a sequence and the rest of it.
LEMMA HeadAndTail ==
  ASSUME NEW S, NEW s \in Seq(S), s # <<>>
  PROVE  Head(s) \in S /\ Tail(s) \in Seq(S)
  OBVIOUS

\* A sequence of one element.
LEMMA OneElement ==
  ASSUME NEW e
  PROVE  Append(<<>>, e) = <<e>> /\ Head(<<e>>) = e /\ Tail(<<e>>) = <<>>
  OBVIOUS

\* Reading the next request, or the end of the client's connection.
LEMMA ReadRequestInv == ASSUME Inv, NEW c \in Conns, ReadRequest(c) PROVE Inv'
<1>1. pc[c] = "request" /\ UNCHANGED <<clock, certVars, clientVars, outbox, resp, observed, delivered, upVars>>
  BY DEF ReadRequest
<1>2. CASE /\ read' = [read EXCEPT ![c] = @ + 1]
           /\ inbox' = [inbox EXCEPT ![c] = IF c \in down THEN @ ELSE Append(@, read[c] + 1)]
           /\ \E l \in {"response", "closed"} : Goto(c, l)
  <2>1. PICK l \in {"response", "closed"} : Goto(c, l)
    BY <1>2
  <2>2. l \in PCs /\ l \notin {"lookup", "create"}
    BY DEF PCs
  <2>3. pc'[c] = l
    BY <2>1, <2>2 DEF Goto, Inv, TypeOK
  <2>4. /\ read' \in [Conns -> Nat] /\ read'[c] = read[c] + 1 /\ read[c] \in Nat
        /\ \A d \in Conns \ {c} : read'[d] = read[d]
    <3>1. read \in [Conns -> Nat]
      BY Zenon DEF Inv, TypeOK
    <3> QED
      BY <1>2, <3>1
  <2>5. read[c] + 1 \in Requests
    BY <2>4 DEF Requests
  <2>6. /\ inbox' \in [Conns -> Seq(Requests)]
        /\ inbox'[c] \in {inbox[c], Append(inbox[c], read[c] + 1)}
        /\ \A d \in Conns \ {c} : inbox'[d] = inbox[d]
    BY <1>2, <2>5 DEF Inv, TypeOK
  <2>7. Held(c)' /\ Shown(c)'
    BY <1>1, <2>3, <2>4 DEF Inv, Local, Held, Shown
  <2>8. Wire(c)'
    <3>1. c \notin interim => inbox'[c] \in {<<>>, <<read[c] + 1>>} /\ outbox[c] = <<>>
      BY Zenon, <1>1, <2>6, OneElement DEF Inv, Local, Wire
    <3> QED
      BY SMTT(30), <1>1, <2>3, <2>4, <3>1 DEF Inv, Local, Wire, upVars
  <2>9. Local(c)'
    BY <2>7, <2>8 DEF Local
  <2> QED
    BY Zenon, <1>1, <2>1, <2>2, <2>4, <2>6, <2>9, ConnStep DEF Inv, TypeOK, certVars, clientVars, upVars
<1>3. CASE Goto(c, "closed") /\ UNCHANGED <<read, inbox>>
  <2>1. "closed" \in PCs
    BY DEF PCs
  <2>2. pc'[c] = "closed"
    BY <1>3, <2>1 DEF Goto, Inv, TypeOK
  <2>3. Local(c)'
    BY SMTT(30), <1>1, <1>3, <2>2 DEF Inv, Local, Held, Shown, Wire, upVars
  <2> QED
    BY Zenon, <1>1, <1>3, <2>1, <2>3, ConnStep DEF Inv, TypeOK, certVars, clientVars, upVars
<1> QED
  BY <1>2, <1>3 DEF ReadRequest

\* Reading what upstream has sent, or the end of its connection.
LEMMA ReadResponseInv == ASSUME Inv, NEW c \in Conns, ReadResponse(c) PROVE Inv'
<1>1. pc[c] = "response" /\ UNCHANGED <<clock, certVars, clientVars, read, inbox, observed, delivered, upVars>>
  BY DEF ReadResponse
<1>2. CASE /\ outbox[c] # <<>>
           /\ resp' = [resp EXCEPT ![c] = Head(outbox[c])]
           /\ outbox' = [outbox EXCEPT ![c] = Tail(@)]
           /\ Goto(c, "observe")
  <2>1. "observe" \in PCs
    BY DEF PCs
  <2>2. pc'[c] = "observe"
    BY <1>2, <2>1 DEF Goto, Inv, TypeOK
  <2>3. outbox[c] \in Seq(Responses)
    BY DEF Inv, TypeOK
  <2>4. Head(outbox[c]) \in Responses /\ Tail(outbox[c]) \in Seq(Responses)
    BY <1>2, <2>3
  <2>5. /\ resp' \in [Conns -> Responses \cup {NoResponse}] /\ resp'[c] = Head(outbox[c])
        /\ \A d \in Conns \ {c} : resp'[d] = resp[d]
    BY <1>2, <2>4 DEF Inv, TypeOK
  <2>6. /\ outbox' \in [Conns -> Seq(Responses)] /\ outbox'[c] = Tail(outbox[c])
        /\ \A d \in Conns \ {c} : outbox'[d] = outbox[d]
    BY <1>2, <2>4 DEF Inv, TypeOK
  <2>7. Held(c)' /\ Shown(c)'
    BY <1>1, <2>2, <2>4, <2>5 DEF Inv, Local, Held, Shown
  <2>8. Wire(c)'
    <3>1. c \notin interim => inbox[c] = <<>> /\ outbox[c] = <<Final(read[c])>>
      BY <1>1, <1>2 DEF Inv, Local, Wire
    <3>2. c \notin interim => resp'[c] = Final(read[c]) /\ outbox'[c] = <<>>
      BY Zenon, <2>5, <2>6, <3>1, OneElement
    <3> QED
      BY <1>1, <2>2, <3>1, <3>2 DEF Inv, Local, Wire, upVars
  <2>9. Local(c)'
    BY <2>7, <2>8 DEF Local
  <2> QED
    BY ZenonT(60), <1>1, <1>2, <2>1, <2>5, <2>6, <2>9, ConnStep DEF Inv, TypeOK, certVars, clientVars, upVars
<1>3. CASE Goto(c, "closed") /\ UNCHANGED <<resp, outbox>>
  <2>1. "closed" \in PCs
    BY DEF PCs
  <2>2. pc'[c] = "closed"
    BY Zenon, <1>3, <2>1 DEF Goto, Inv, TypeOK
  <2>3. Local(c)'
    BY <1>1, <1>3, <2>2 DEF Inv, Local, Held, Shown, Wire, upVars
  <2> QED
    BY ZenonT(60), <1>1, <1>3, <2>1, <2>3, ConnStep DEF Inv, TypeOK, certVars, clientVars, upVars
<1> QED
  BY Zenon, <1>2, <1>3 DEF ReadResponse

\* Calling the Observer.
LEMMA ObserveInv == ASSUME Inv, NEW c \in Conns, Observe(c) PROVE Inv'
<1>1. /\ pc[c] = "observe" /\ Goto(c, "deliver")
      /\ observed' = [observed EXCEPT ![c] = Append(@, <<read[c], resp[c]>>)]
      /\ UNCHANGED <<clock, certVars, clientVars, read, inbox, outbox, resp, delivered, upVars>>
  BY DEF Observe
<1>2. "deliver" \in PCs
  BY DEF PCs
<1>3. pc'[c] = "deliver"
  BY <1>1, <1>2 DEF Goto, Inv, TypeOK
<1>4. read[c] \in Requests /\ resp[c] \in Responses
  BY <1>1 DEF Inv, Local, Held, TypeOK, Requests
<1>5. observed[c] \in Seq(Requests \X Responses) /\ delivered[c] \in Seq(Responses)
  BY DEF Inv, TypeOK
<1>6. observed'[c] = Append(observed[c], <<read[c], resp[c]>>)
  BY Zenon, <1>1 DEF Inv, TypeOK
<1>7. /\ observed'[c] \in Seq(Requests \X Responses)
      /\ Len(observed'[c]) = Len(observed[c]) + 1
      /\ \A i \in 1 .. Len(observed[c]) : observed'[c][i] = observed[c][i]
      /\ observed'[c][Len(observed[c]) + 1] = <<read[c], resp[c]>>
  BY <1>4, <1>5, <1>6, Appended
<1>8. /\ observed' \in [Conns -> Seq(Requests \X Responses)]
      /\ \A d \in Conns \ {c} : observed'[d] = observed[d]
  BY Zenon, <1>1, <1>6, <1>7 DEF Inv, TypeOK
<1>9. Held(c)'
  BY Zenon, <1>1, <1>3, <1>4 DEF Held
<1>10. Shown(c)'
  <2>1. /\ Len(observed[c]) = Len(delivered[c]) /\ Len(delivered[c]) \in Nat
        /\ \A i \in 1 .. Len(delivered[c]) : observed[c][i][2] = delivered[c][i]
    BY <1>1, <1>5 DEF Inv, Local, Shown
  <2> QED
    BY <1>1, <1>3, <1>7, <2>1 DEF Shown
<1>11. Wire(c)'
  <2> SUFFICES ASSUME c \notin interim PROVE Wire(c)'
    BY Zenon, <1>1 DEF Wire, upVars
  <2>1. /\ \A i \in 1 .. Len(observed[c]) : observed[c][i] = <<i, Final(i)>>
        /\ Len(observed[c]) + 1 = read[c] /\ resp[c] = Final(read[c])
        /\ inbox[c] = <<>> /\ outbox[c] = <<>> /\ Len(observed[c]) \in Nat
    <3>1. Wire(c)
      BY Zenon DEF Inv, Local
    <3>2. Len(observed[c]) \in Nat
      BY <1>5
    <3> QED
      BY <1>1, <3>1, <3>2 DEF Wire
  <2>2. ASSUME NEW i \in 1 .. Len(observed'[c]) PROVE observed'[c][i] = <<i, Final(i)>>
    <3>1. i \in 1 .. Len(observed[c]) \/ i = Len(observed[c]) + 1
      BY <1>7, <2>1
    <3>2. CASE i \in 1 .. Len(observed[c])
      BY Zenon, <1>7, <2>1, <3>2
    <3>3. CASE i = Len(observed[c]) + 1
      BY Zenon, <1>7, <2>1, <3>3
    <3> QED
      BY Zenon, <3>1, <3>2, <3>3
  <2> QED
    BY Zenon, <1>1, <1>3, <1>7, <2>1, <2>2 DEF Wire
<1>12. Local(c)'
  BY <1>9, <1>10, <1>11 DEF Local
<1> QED
  BY ZenonT(60), <1>1, <1>2, <1>8, <1>12, ConnStep DEF Inv, TypeOK, certVars, clientVars, upVars

\* Forwarding the response, or finding that the client has hung up.
LEMMA DeliverInv == ASSUME Inv, NEW c \in Conns, Deliver(c) PROVE Inv'
<1>1. pc[c] = "deliver" /\ UNCHANGED <<clock, certVars, clientVars, read, inbox, outbox, resp, observed, upVars>>
  BY DEF Deliver
<1>2. CASE delivered' = [delivered EXCEPT ![c] = Append(@, resp[c])] /\ Goto(c, "request")
  <2>1. "request" \in PCs
    BY DEF PCs
  <2>2. pc'[c] = "request"
    BY <1>2, <2>1 DEF Goto, Inv, TypeOK
  <2>3. delivered[c] \in Seq(Responses) /\ observed[c] \in Seq(Requests \X Responses) /\ resp[c] \in Responses
    BY <1>1 DEF Inv, TypeOK, Local, Held
  <2>4. delivered'[c] = Append(delivered[c], resp[c])
    BY <1>2 DEF Inv, TypeOK
  <2>5. /\ delivered'[c] \in Seq(Responses)
        /\ Len(delivered'[c]) = Len(delivered[c]) + 1
        /\ \A i \in 1 .. Len(delivered[c]) : delivered'[c][i] = delivered[c][i]
        /\ delivered'[c][Len(delivered[c]) + 1] = resp[c]
    BY <2>3, <2>4, Appended
  <2>6. /\ delivered' \in [Conns -> Seq(Responses)]
        /\ \A d \in Conns \ {c} : delivered'[d] = delivered[d]
    BY <1>2, <2>4, <2>5 DEF Inv, TypeOK
  <2>7. Held(c)' /\ Wire(c)'
    BY Zenon, <1>1, <2>2 DEF Inv, Local, Held, Wire, upVars
  <2>8. Shown(c)'
    <3>1. /\ Len(observed[c]) = Len(delivered[c]) + 1 /\ Len(delivered[c]) \in Nat
          /\ observed[c][Len(observed[c])][2] = resp[c]
          /\ \A i \in 1 .. Len(delivered[c]) : observed[c][i][2] = delivered[c][i]
      BY <1>1, <2>3 DEF Inv, Local, Shown
    <3>2. ASSUME NEW i \in 1 .. Len(delivered'[c]) PROVE observed[c][i][2] = delivered'[c][i]
      <4>1. i \in 1 .. Len(delivered[c]) \/ i = Len(delivered[c]) + 1
        BY <2>5, <3>1
      <4>2. CASE i \in 1 .. Len(delivered[c])
        BY Zenon, <2>5, <3>1, <4>2
      <4>3. CASE i = Len(delivered[c]) + 1
        BY Zenon, <2>5, <3>1, <4>3
      <4> QED
        BY Zenon, <4>1, <4>2, <4>3
    <3> QED
      BY SMTT(30), <1>1, <2>2, <2>5, <3>1, <3>2 DEF Shown
  <2>9. Local(c)'
    BY <2>7, <2>8 DEF Local
  <2> QED
    BY ZenonT(60), <1>1, <1>2, <2>1, <2>6, <2>9, ConnStep DEF Inv, TypeOK, certVars, clientVars, upVars
<1>3. CASE Goto(c, "closed") /\ UNCHANGED delivered
  <2>1. "closed" \in PCs
    BY DEF PCs
  <2>2. pc'[c] = "closed"
    BY <1>3, <2>1 DEF Goto, Inv, TypeOK
  <2>3. Local(c)'
    BY Zenon, <1>1, <1>3, <2>2 DEF Inv, Local, Held, Shown, Wire, upVars
  <2> QED
    BY Zenon, <1>1, <1>3, <2>1, <2>3, ConnStep DEF Inv, TypeOK, certVars, clientVars, upVars
<1> QED
  BY <1>2, <1>3 DEF Deliver

-----------------------------------------------------------------------------
\* Clients and upstream

\* What clients and upstream do while the proxy waits.
LEMMA ClientInv == ASSUME Inv, NEW c \in Conns, Send(c) \/ HangUp(c) \/ UpstreamHangsUp(c) PROVE Inv'
<1>1. UNCHANGED <<clock, certVars, pc, read, inbox, outbox, resp, observed, delivered, interim>>
  BY Zenon DEF Send, HangUp, UpstreamHangsUp, upVars
<1>2. sent' \in [Conns -> Nat] /\ gone' \subseteq Conns /\ down' \subseteq Conns
  <2>1. sent' = sent \/ sent' = [sent EXCEPT ![c] = @ + 1]
    BY DEF Send, HangUp, UpstreamHangsUp, clientVars
  <2>2. sent' \in [Conns -> Nat]
    <3>1. sent \in [Conns -> Nat]
      BY DEF Inv, TypeOK
    <3>2. [sent EXCEPT ![c] = @ + 1] \in [Conns -> Nat]
      BY <3>1
    <3> QED
      BY <2>1, <3>1, <3>2
  <2>3. gone' \subseteq gone \cup {c} /\ down' \subseteq down \cup {c}
    BY Zenon DEF Send, HangUp, UpstreamHangsUp, clientVars, upVars
  <2> QED
    BY Zenon, <2>2, <2>3 DEF Inv, TypeOK
<1>3. Local(c)'
  BY <1>1, SameConn DEF Inv
<1>4. pc[c] \in PCs /\ Goto(c, pc[c])
  BY <1>1, Stays DEF Inv
<1> QED
  BY Zenon, <1>1, <1>2, <1>3, <1>4, ConnStep DEF Inv, TypeOK, certVars

\* Upstream answering a request, for good or with an interim response.
LEMMA UpstreamInv == ASSUME Inv, NEW c \in Conns, Answer(c) \/ Interim(c) PROVE Inv'
<1>1. /\ UNCHANGED <<clock, certVars, pc, clientVars, read, resp, observed, delivered, down>>
      /\ inbox[c] # <<>>
  BY Zenon DEF Answer, Interim, upVars
<1>2. inbox[c] \in Seq(Requests) /\ outbox[c] \in Seq(Responses)
  BY DEF Inv, TypeOK
<1>3. Head(inbox[c]) \in Requests /\ Tail(inbox[c]) \in Seq(Requests)
  BY Zenon, <1>1, <1>2, HeadAndTail
<1>4. \A b \in BOOLEAN : [to |-> Head(inbox[c]), final |-> b] \in Responses
  BY <1>3 DEF Responses
<1>5. PICK b \in BOOLEAN : outbox' = [outbox EXCEPT ![c] = Append(@, [to |-> Head(inbox[c]), final |-> b])]
  BY Zenon DEF Answer, Interim
<1>6. Append(outbox[c], [to |-> Head(inbox[c]), final |-> b]) \in Seq(Responses)
  BY <1>2, <1>4, Appended
<1>7. outbox' \in [Conns -> Seq(Responses)] /\ \A d \in Conns \ {c} : outbox'[d] = outbox[d]
  BY <1>5, <1>6 DEF Inv, TypeOK
<1>8. inbox' = inbox \/ inbox' = [inbox EXCEPT ![c] = Tail(@)]
  BY DEF Answer, Interim
<1>9. inbox' \in [Conns -> Seq(Requests)] /\ \A d \in Conns \ {c} : inbox'[d] = inbox[d]
  BY ZenonT(60), <1>3, <1>8 DEF Inv, TypeOK
<1>10. interim' \subseteq Conns /\ interim \subseteq interim'
  BY Zenon DEF Answer, Interim, upVars, Inv, TypeOK
<1>11. Held(c)' /\ Shown(c)'
  BY <1>1 DEF Inv, Local, Held, Shown
<1>12. Wire(c)'
  <2>1. CASE Interim(c)
    BY Zenon, <2>1 DEF Interim, Wire
  <2>2. CASE Answer(c)
    <3>1. /\ inbox'[c] = Tail(inbox[c]) /\ interim' = interim
          /\ outbox'[c] = Append(outbox[c], Final(Head(inbox[c])))
      BY <2>2 DEF Answer, Inv, TypeOK, Final, upVars
    <3>2. c \notin interim /\ pc[c] # "closed" =>
            pc[c] = "response" /\ inbox[c] = <<read[c]>> /\ outbox[c] = <<>>
      BY <1>1 DEF Inv, Local, Wire
    <3>3. c \notin interim /\ pc[c] # "closed" => inbox'[c] = <<>> /\ outbox'[c] = <<Final(read[c])>>
      BY ZenonT(60), <3>1, <3>2, OneElement
    <3> QED
      BY Zenon, <1>1, <3>1, <3>2, <3>3 DEF Inv, Local, Wire
  <2> QED
    BY <2>1, <2>2
<1>13. Local(c)'
  BY Zenon, <1>11, <1>12 DEF Local
<1>14. pc[c] \in PCs /\ Goto(c, pc[c])
  BY <1>1, Stays DEF Inv
<1> QED
  BY Zenon, <1>1, <1>7, <1>9, <1>10, <1>13, <1>14, ConnStep DEF Inv, TypeOK, certVars, clientVars

\* Time passes.
LEMMA TickInv == ASSUME Inv, Tick PROVE Inv'
<1>1. /\ clock' \in 0 .. MaxTime
      /\ UNCHANGED <<certVars, pc, clientVars, read, inbox, outbox, resp, observed, delivered, upVars>>
  BY ProxyAssumption DEF Tick, Inv, TypeOK
<1>2. TypeOK' /\ Certs'
  BY SMTT(30), <1>1 DEF Inv, TypeOK, Hosts, Certs, certVars, clientVars, upVars
<1>3. ASSUME NEW d \in Conns PROVE Local(d)'
  BY <1>1, SameConn DEF Inv, upVars
<1> QED
  BY <1>2, <1>3 DEF Inv

-----------------------------------------------------------------------------

\* Every step of the proxy and of those around it preserves the invariant.
LEMMA InvNext == Inv /\ [Next]_vars => Inv'
<1> SUFFICES ASSUME Inv, [Next]_vars PROVE Inv'
  OBVIOUS
<1>1. ASSUME NEW c \in Conns, Proxy(c) PROVE Inv'
  BY <1>1, EarlyInv, LockInv, LookupInv, CreateInv, ReadRequestInv, ReadResponseInv,
     ObserveInv, DeliverInv DEF Proxy
<1>2. ASSUME NEW c \in Conns, Outside(c) PROVE Inv'
  BY <1>2, ClientInv, UpstreamInv DEF Outside
<1>3. CASE UNCHANGED vars
  <2>1. TypeOK' /\ Certs'
    BY SMTT(30), <1>3 DEF vars, Inv, TypeOK, Hosts, Certs, certVars, clientVars, upVars
  <2>2. ASSUME NEW d \in Conns PROVE Local(d)'
    BY SMTT(30), <1>3, SameConn DEF Inv, vars, upVars
  <2> QED
    BY Zenon, <2>1, <2>2 DEF Inv
<1> QED
  BY <1>1, <1>2, <1>3, TickInv DEF Next

\* The state of the connections and of the cache keeps its type.
THEOREM ProxyTypes == Spec => []TypeOK
<1>1. Inv => TypeOK
  BY DEF Inv
<1> QED
  BY <1>1, InvInit, InvNext, PTL DEF Spec

\* However many connections ask for a host at once, they get the certificate that is
\* in the cache (getOrCreateCert).
THEOREM CertificatesShared == Spec => []OneCertificatePerHost
<1>1. Inv => OneCertificatePerHost
  BY Zenon DEF Inv, Certs, OneCertificatePerHost
<1> QED
  BY <1>1, InvInit, InvNext, PTL DEF Spec

\* However long a connection lives, the Observer is ahead of the client by at most
\* one response, and never behind (the loop of handleConnect).
THEOREM ObserverFirst == Spec => []ObservedBeforeDelivered
<1>1. Inv => ObservedBeforeDelivered
  <2> SUFFICES ASSUME Inv, NEW c \in Conns
               PROVE  /\ Len(delivered[c]) \in {Len(observed[c]) - 1, Len(observed[c])}
                      /\ \A i \in 1 .. Len(delivered[c]) : observed[c][i][2] = delivered[c][i]
    BY Zenon DEF ObservedBeforeDelivered
  <2>1. Shown(c) /\ Len(delivered[c]) \in Nat /\ Len(observed[c]) \in Nat
    BY DEF Inv, Local, TypeOK
  <2> QED
    BY <2>1 DEF Shown
<1> QED
  BY <1>1, InvInit, InvNext, PTL DEF Spec

\* However clients pipeline their requests, the Observer sees each with its answer,
\* unless upstream has sent an interim response.
THEOREM ObserverSeesPairs == Spec => []PairsWithoutInterim
<1>1. Inv => PairsWithoutInterim
  BY Zenon DEF Inv, Local, Wire, PairsWithoutInterim, Final
<1> QED
  BY <1>1, InvInit, InvNext, PTL DEF Spec

=============================================================================
