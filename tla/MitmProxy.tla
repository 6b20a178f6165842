----------------------------- MODULE MitmProxy -----------------------------
(***************************************************************************)
(* transport/mitmproxy/mitmproxy.go: one goroutine per CONNECT request.    *)
(* handleConnect takes the host's certificate from the cache or makes one  *)
(* under the mutex, shakes hands with the client, dials upstream, and then *)
(* reads a request, forwards it, reads a response, shows the pair to the   *)
(* Observer and forwards the response, until something fails.              *)
(*                                                                         *)
(* Requests of a connection are numbered.  TLS and HTTP are external: what *)
(* counts is who has sent which request or response, and in which order.   *)
(***************************************************************************)
EXTENDS Naturals, Sequences

CONSTANTS
  Conns,        \* client connections
  Host,         \* the host each of them asks for
  None,         \* no certificate, no holder of the mutex
  Lifetime,     \* how long a certificate is valid
  MaxTime,      \* bound on the clock
  MaxRequests   \* bound on the requests of each connection

ASSUME ProxyAssumption ==
  /\ None \notin Conns
  /\ Conns \subseteq DOMAIN Host
  /\ Lifetime \in Nat /\ MaxTime \in Nat
  /\ MaxRequests \in [Conns -> Nat]

Hosts == {Host[c] : c \in Conns}

VARIABLES
  clock,
  mutex,       \* certCacheMu: the connection whose goroutine holds it
  certCache,   \* each host's certificate: the connection that had it made
  born,        \* when that was
  pc,          \* where each connection's goroutine is
  cert,        \* the certificate it has got
  sent,        \* how many requests the client has sent
  read,        \* how many the proxy has read
  inbox,       \* requests on the way upstream
  outbox,      \* responses on the way back
  resp,        \* the response the goroutine holds
  observed,    \* what the Observer has been called with
  delivered,   \* responses written to the client's connection
  gone,        \* connections whose client has hung up
  down,        \* connections whose upstream has hung up
  interim      \* connections on which upstream has sent a 1xx response

certVars == <<mutex, certCache, born, cert>>
clientVars == <<sent, gone>>
upVars == <<down, interim>>
vars == <<clock, certVars, pc, clientVars, read, inbox, outbox, resp, observed,
          delivered, upVars>>

PCs == {"new", "lock", "lookup", "create", "handshake", "dial", "request", "response",
        "observe", "deliver", "closed"}

Requests == Nat \ {0}

\* A response says which request it is for and whether it is the final one.
Responses == [to : Requests, final : BOOLEAN]

NoResponse == [to |-> 0, final |-> FALSE]

Goto(c, l) == pc' = [pc EXCEPT ![c] = l]

-----------------------------------------------------------------------------

Init ==
  /\ clock = 0
  /\ mutex = None
  /\ certCache = [h \in Hosts |-> None]
  /\ born = [h \in Hosts |-> 0]
  /\ pc = [c \in Conns |-> "new"]
  /\ cert = [c \in Conns |-> None]
  /\ sent = [c \in Conns |-> 0]
  /\ read = [c \in Conns |-> 0]
  /\ inbox = [c \in Conns |-> <<>>]
  /\ outbox = [c \in Conns |-> <<>>]
  /\ resp = [c \in Conns |-> NoResponse]
  /\ observed = [c \in Conns |-> <<>>]
  /\ delivered = [c \in Conns |-> <<>>]
  /\ gone = {}
  /\ down = {}
  /\ interim = {}

Tick ==
  /\ clock < MaxTime
  /\ clock' = clock + 1
  /\ UNCHANGED <<certVars, pc, clientVars, read, inbox, outbox, resp, observed, delivered, upVars>>

\* ServeHTTP for CONNECT: the connection is hijacked and 200 is written, before
\* anything is known about the certificate or upstream.
HandleConnect(c) ==
  /\ pc[c] = "new"
  /\ \/ Goto(c, "lock")
     \/ c \in gone /\ Goto(c, "closed")
  /\ UNCHANGED <<clock, certVars, clientVars, read, inbox, outbox, resp, observed, delivered, upVars>>

\* Mutant of Lock: no mutex.
LockNot(c) ==
  /\ pc[c] = "lock"
  /\ Goto(c, "lookup")
  /\ UNCHANGED <<clock, certVars, clientVars, read, inbox, outbox, resp, observed, delivered, upVars>>

\* getOrCreateCert.
Lock(c) ==
  /\ pc[c] = "lock"
  /\ mutex = None
  /\ mutex' = c
  /\ Goto(c, "lookup")
  /\ UNCHANGED <<clock, certCache, born, cert, clientVars, read, inbox, outbox, resp,
                 observed, delivered, upVars>>

Lookup(c) ==
  /\ pc[c] = "lookup"
  /\ \/ /\ certCache[Host[c]] = None
        /\ Goto(c, "create")
        /\ UNCHANGED <<mutex, cert>>
     \/ /\ certCache[Host[c]] # None
        /\ cert' = [cert EXCEPT ![c] = certCache[Host[c]]]
        /\ mutex' = None
        /\ Goto(c, "handshake")
  /\ UNCHANGED <<clock, certCache, born, clientVars, read, inbox, outbox, resp,
                 observed, delivered, upVars>>

\* The key, the serial number and the certificate are made, or one of them fails.
Create(c) ==
  /\ pc[c] = "create"
  /\ \/ /\ certCache' = [certCache EXCEPT ![Host[c]] = c]
        /\ born' = [born EXCEPT ![Host[c]] = clock]
        /\ cert' = [cert EXCEPT ![c] = c]
        /\ Goto(c, "handshake")
     \/ /\ Goto(c, "closed")
        /\ UNCHANGED <<certCache, born, cert>>
  /\ mutex' = None
  /\ UNCHANGED <<clock, clientVars, read, inbox, outbox, resp, observed, delivered, upVars>>

\* The client accepts the certificate while it is valid.
Valid(c) == clock <= born[Host[c]] + Lifetime

Handshake(c) ==
  /\ pc[c] = "handshake"
  /\ Goto(c, IF c \notin gone /\ Valid(c) THEN "dial" ELSE "closed")
  /\ UNCHANGED <<clock, certVars, clientVars, read, inbox, outbox, resp, observed, delivered, upVars>>

Dial(c) ==
  /\ pc[c] = "dial"
  /\ \E l \in {"request", "closed"} : Goto(c, l)
  /\ UNCHANGED <<clock, certVars, clientVars, read, inbox, outbox, resp, observed, delivered, upVars>>

\* Mutant of ReadRequest: all requests are forwarded before a response is read.
ReadRequestAhead(c) ==
  /\ pc[c] = "request"
  /\ \/ /\ read[c] < sent[c]
        /\ read' = [read EXCEPT ![c] = @ + 1]
        /\ inbox' = [inbox EXCEPT ![c] = IF c \in down THEN @ ELSE Append(@, read[c] + 1)]
        /\ Goto(c, IF read[c] + 1 < sent[c] THEN "request" ELSE "response")
     \/ /\ read[c] = sent[c]
        /\ c \in gone
        /\ Goto(c, "closed")
        /\ UNCHANGED <<read, inbox>>
  /\ UNCHANGED <<clock, certVars, clientVars, outbox, resp, observed, delivered, upVars>>

\* The loop: ReadRequest and req.Write.  The write to an upstream that has hung up
\* may still succeed.
ReadRequest(c) ==
  /\ pc[c] = "request"
  /\ \/ /\ read[c] < sent[c]
        /\ read' = [read EXCEPT ![c] = @ + 1]
        /\ inbox' = [inbox EXCEPT ![c] = IF c \in down THEN @ ELSE Append(@, read[c] + 1)]
        /\ \/ Goto(c, "response")
           \/ c \in down /\ Goto(c, "closed")
     \/ /\ read[c] = sent[c]
        /\ c \in gone
        /\ Goto(c, "closed")
        /\ UNCHANGED <<read, inbox>>
  /\ UNCHANGED <<clock, certVars, clientVars, outbox, resp, observed, delivered, upVars>>

\* Mutant of ReadResponse: the end of the upstream connection goes unnoticed.
ReadResponseWaits(c) ==
  /\ pc[c] = "response"
  /\ outbox[c] # <<>>
  /\ resp' = [resp EXCEPT ![c] = Head(outbox[c])]
  /\ outbox' = [outbox EXCEPT ![c] = Tail(@)]
  /\ Goto(c, "observe")
  /\ UNCHANGED <<clock, certVars, clientVars, read, inbox, observed, delivered, upVars>>

\* ReadResponse takes what comes first on the upstream connection.  A response that
\* breaks off, in its header or in the body that is read for the Observer, ends the
\* loop like one that does not come.
ReadResponse(c) ==
  /\ pc[c] = "response"
  /\ \/ /\ outbox[c] # <<>>
        /\ resp' = [resp EXCEPT ![c] = Head(outbox[c])]
        /\ outbox' = [outbox EXCEPT ![c] = Tail(@)]
        /\ Goto(c, "observe")
     \/ /\ outbox[c] = <<>>
        /\ c \in down
        /\ Goto(c, "closed")
        /\ UNCHANGED <<resp, outbox>>
  /\ UNCHANGED <<clock, certVars, clientVars, read, inbox, observed, delivered, upVars>>

Observe(c) ==
  /\ pc[c] = "observe"
  /\ observed' = [observed EXCEPT ![c] = Append(@, <<read[c], resp[c]>>)]
  /\ Goto(c, "deliver")
  /\ UNCHANGED <<clock, certVars, clientVars, read, inbox, outbox, resp, delivered, upVars>>

\* Mutant of Deliver: the response is written before the Observer has seen it.
DeliverEarly(c) ==
  /\ pc[c] \in {"observe", "deliver"}
  /\ \/ /\ delivered' = [delivered EXCEPT ![c] = Append(@, resp[c])]
        /\ Goto(c, "request")
     \/ /\ c \in gone
        /\ Goto(c, "closed")
        /\ UNCHANGED delivered
  /\ UNCHANGED <<clock, certVars, clientVars, read, inbox, outbox, resp, observed, upVars>>

\* resp.Write: it may still succeed when the client has hung up.
Deliver(c) ==
  /\ pc[c] = "deliver"
  /\ \/ /\ delivered' = [delivered EXCEPT ![c] = Append(@, resp[c])]
        /\ Goto(c, "request")
     \/ /\ c \in gone
        /\ Goto(c, "closed")
        /\ UNCHANGED delivered
  /\ UNCHANGED <<clock, certVars, clientVars, read, inbox, outbox, resp, observed, upVars>>

Proxy(c) ==
  \/ HandleConnect(c) \/ Lock(c) \/ Lookup(c) \/ Create(c) \/ Handshake(c) \/ Dial(c)
  \/ ReadRequest(c) \/ ReadResponse(c) \/ Observe(c) \/ Deliver(c)

-----------------------------------------------------------------------------
\* The client sends requests, also before the last one is answered, and hangs up;
\* upstream answers in order, may send an interim response first, and may hang up.

Send(c) ==
  /\ pc[c] \in {"dial", "request", "response", "observe", "deliver"}
  /\ c \notin gone
  /\ sent[c] < MaxRequests[c]
  /\ sent' = [sent EXCEPT ![c] = @ + 1]
  /\ UNCHANGED <<clock, certVars, pc, gone, read, inbox, outbox, resp, observed, delivered, upVars>>

HangUp(c) ==
  /\ pc[c] # "closed"
  /\ gone' = gone \cup {c}
  /\ UNCHANGED <<clock, certVars, pc, sent, read, inbox, outbox, resp, observed, delivered, upVars>>

Answer(c) ==
  /\ inbox[c] # <<>>
  /\ c \notin down
  /\ outbox' = [outbox EXCEPT ![c] = Append(@, [to |-> Head(inbox[c]), final |-> TRUE])]
  /\ inbox' = [inbox EXCEPT ![c] = Tail(@)]
  /\ UNCHANGED <<clock, certVars, pc, clientVars, read, resp, observed, delivered, upVars>>

Interim(c) ==
  /\ inbox[c] # <<>>
  /\ c \notin down \cup interim
  /\ outbox' = [outbox EXCEPT ![c] = Append(@, [to |-> Head(inbox[c]), final |-> FALSE])]
  /\ interim' = interim \cup {c}
  /\ UNCHANGED <<clock, certVars, pc, clientVars, read, inbox, resp, observed, delivered, down>>

UpstreamHangsUp(c) ==
  /\ pc[c] \in {"request", "response", "observe", "deliver"}
  /\ c \notin down
  /\ down' = down \cup {c}
  /\ UNCHANGED <<clock, certVars, pc, clientVars, read, inbox, outbox, resp, observed,
                 delivered, interim>>

Outside(c) == Send(c) \/ HangUp(c) \/ Answer(c) \/ Interim(c) \/ UpstreamHangsUp(c)

Next == Tick \/ \E c \in Conns : Proxy(c) \/ Outside(c)

Spec == Init /\ [][Next]_vars

\* The goroutines run on, and upstream answers what it has got.
Fairness == \A c \in Conns : WF_vars(Proxy(c)) /\ WF_vars(Answer(c))

FairSpec == Spec /\ Fairness

-----------------------------------------------------------------------------
\* Properties

TypeOK ==
  /\ clock \in 0 .. MaxTime
  /\ mutex \in Conns \cup {None}
  /\ certCache \in [Hosts -> Conns \cup {None}]
  /\ born \in [Hosts -> 0 .. MaxTime]
  /\ pc \in [Conns -> PCs]
  /\ cert \in [Conns -> Conns \cup {None}]
  /\ sent \in [Conns -> Nat]
  /\ read \in [Conns -> Nat]
  /\ inbox \in [Conns -> Seq(Requests)]
  /\ outbox \in [Conns -> Seq(Responses)]
  /\ resp \in [Conns -> Responses \cup {NoResponse}]
  /\ observed \in [Conns -> Seq(Requests \X Responses)]
  /\ delivered \in [Conns -> Seq(Responses)]
  /\ gone \subseteq Conns /\ down \subseteq Conns /\ interim \subseteq Conns

\* All connections to a host get one and the same certificate, however their first
\* requests interleave, and the cached one is never replaced (getOrCreateCert).
OneCertificatePerHost ==
  \A c \in Conns : cert[c] # None => cert[c] = certCache[Host[c]]

\* The Observer has seen every response that was written to a client, with its request,
\* and at most one that was not (the loop of handleConnect).
ObservedBeforeDelivered ==
  \A c \in Conns :
    /\ Len(delivered[c]) \in {Len(observed[c]) - 1, Len(observed[c])}
    /\ \A i \in 1 .. Len(delivered[c]) : observed[c][i][2] = delivered[c][i]

\* Proxy.Observer "is called with each intercepted request/response pair": the
\* response it is shown answers the request it is shown with, however the client
\* pipelines and whoever hangs up, unless upstream has sent an interim response.
PairsWithoutInterim ==
  \A c \in Conns \ interim : \A i \in 1 .. Len(observed[c]) :
    observed[c][i] = <<i, [to |-> i, final |-> TRUE]>>

\* A request that a client has sent is answered or its connection is closed: no
\* goroutine waits for ever, for the mutex or for a response, unless an interim
\* response has taken the place of an answer.
RequestEnds ==
  \A c \in Conns : \A n \in 1 .. MaxRequests[c] :
    sent[c] >= n ~> (Len(delivered[c]) >= n \/ pc[c] = "closed" \/ c \in interim)

=============================================================================
