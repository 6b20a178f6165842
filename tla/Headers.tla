------------------------------ MODULE Headers ------------------------------
(***************************************************************************)
(* The headers of a tool's fetch call on their way out and back: the       *)
(* Headers class of runtime/quickts/fetch.go, goFetch in invoke/invoke.go, *)
(* fetch/headers.go and fetch/fetch.go, net/http (external), and the same  *)
(* way in reverse.                                                         *)
(*                                                                         *)
(* A header value is a sequence of words: joining two values with ", "     *)
(* concatenates them.  A spelling of a name is <<name, how it is spelt>>.  *)
(***************************************************************************)
EXTENDS Integers, Sequences, SequencesExt, TLC

CONSTANTS
  Order,      \* the valid names in lower case, in the order of strings
  Spellings,  \* how a script may spell names
  Padded,     \* how a script may pad them: <<word, padding>>
  Wide,       \* the words with characters above U+00FF
  Invalid,    \* names and words that no header may have
  Replies,    \* the headers of responses: functions from names to sequences of words
  MaxCalls    \* bound on the calls a script makes on a Headers object

VARIABLES
  list,       \* _list of the script's Headers object
  meant,      \* ghost: the values each name should have
  calls,      \* calls made so far
  sent,       \* the request's header, of type http.Header
  reply,      \* the response's header, of type http.Header
  got,        \* _list of the Headers object of the response
  at          \* "script", "sent", "response", "rejected"

vars == <<list, meant, calls, sent, reply, got, at>>

Names == Range(Order)
None == [n \in Names |-> <<>>]
Pair(n, v) == [name |-> n, value |-> v]

\* A stable sort by name, of _sort and of Headers.sort.
Sort(l) ==
  FoldLeft(LAMBDA acc, n : acc \o SelectSeq(l, LAMBDA e : e.name = n), <<>>, Order)

Values(l, n) == LET mine == SelectSeq(l, LAMBDA e : e.name = n)
                IN [i \in 1 .. Len(mine) |-> mine[i].value]

validateName(s) == s[1] \notin Invalid
validateValue(w) == w \notin Invalid \cup Wide
toLowerCase(s) == s[1]
normalizeValue(v) == v[1]

\* Mutant of combined: cookies are joined like everything else.
combinedAll(l) ==
  FoldLeft(LAMBDA r, e :
             IF r # <<>> /\ Last(r).name = e.name
             THEN Front(r) \o <<Pair(e.name, Last(r).value \o e.value)>>
             ELSE Append(r, e),
           <<>>, l)

\* combined: neighbours with one name become one entry, cookies never do.
combined(l) ==
  FoldLeft(LAMBDA r, e :
             IF e.name # "set-cookie" /\ r # <<>> /\ Last(r).name = e.name
             THEN Front(r) \o <<Pair(e.name, Last(r).value \o e.value)>>
             ELSE Append(r, e),
           <<>>, l)

-----------------------------------------------------------------------------

Init ==
  /\ list = <<>>
  /\ meant = None
  /\ calls = 0
  /\ sent = None
  /\ reply = None
  /\ got = <<>>
  /\ at = "script"

Calling == at = "script" /\ calls < MaxCalls /\ calls' = calls + 1

\* A call with an invalid name or value throws and changes nothing.
Valid(s, v) == validateName(s) /\ validateValue(normalizeValue(v))

Others(s) == SelectSeq(list, LAMBDA e : e.name # toLowerCase(s))

AppendCall(s, v) ==
  /\ Calling
  /\ IF Valid(s, v)
     THEN /\ list' = Sort(Append(list, Pair(toLowerCase(s), <<normalizeValue(v)>>)))
          /\ meant' = [meant EXCEPT ![toLowerCase(s)] = Append(@, <<normalizeValue(v)>>)]
     ELSE UNCHANGED <<list, meant>>
  /\ UNCHANGED <<sent, reply, got, at>>

SetCall(s, v) ==
  /\ Calling
  /\ IF Valid(s, v)
     THEN /\ list' = Sort(Append(Others(s), Pair(toLowerCase(s), <<normalizeValue(v)>>)))
          /\ meant' = [meant EXCEPT ![toLowerCase(s)] = <<<<normalizeValue(v)>>>>]
     ELSE UNCHANGED <<list, meant>>
  /\ UNCHANGED <<sent, reply, got, at>>

DeleteCall(s) ==
  /\ Calling
  /\ IF validateName(s)
     THEN list' = Others(s) /\ meant' = [meant EXCEPT ![toLowerCase(s)] = <<>>]
     ELSE UNCHANGED <<list, meant>>
  /\ UNCHANGED <<sent, reply, got, at>>

\* Mutant of goFetch: each pair goes to the front of the list it is appended to.
goFetchReversed(l) == FoldLeft(LAMBDA acc, e : Sort(<<e>> \o acc), <<>>, l)

\* goFetch: the pairs of the script's list, appended to Go's one by one; one that
\* Headers.Append refuses is dropped.
goFetch(l) ==
  FoldLeft(LAMBDA acc, e :
             IF \A w \in Range(e.value) : validateValue(w) THEN Sort(Append(acc, e)) ELSE acc,
           <<>>, l)

\* Fetch copies the list, adds each pair to the request's header and sets the
\* default of Accept and Accept-Language where there is none.
Default(n) ==
  CASE n = "accept" -> <<<<"*/*">>>> [] n = "accept-language" -> <<<<"*">>>> [] OTHER -> <<>>

Fetch ==
  /\ at = "script"
  /\ sent' = [n \in Names |->
       IF Values(goFetch(list), n) = <<>> THEN Default(n) ELSE Values(goFetch(list), n)]
  /\ at' = "sent"
  /\ UNCHANGED <<list, meant, calls, reply, got>>

\* NewHeadersFromHTTP ranges over a map, in any order of its names, and sorts.
NewHeadersFromHTTP(h) ==
  Sort(FoldLeft(LAMBDA acc, n : acc \o [i \in 1 .. Len(h[n]) |-> Pair(n, h[n][i])], <<>>, Order))

\* The response's entries as JSON, from which the script's Headers object is made:
\* its constructor throws, and fetch rejects, when a value is not valid.
Respond(h) ==
  /\ at = "sent"
  /\ reply' = h
  /\ LET entries == combined(NewHeadersFromHTTP(h))
     IN IF \A i \in 1 .. Len(entries) : \A w \in Range(entries[i].value) : validateValue(w)
        THEN got' = Sort(entries) /\ at' = "response"
        ELSE got' = <<>> /\ at' = "rejected"
  /\ UNCHANGED <<list, meant, calls, sent>>

Next ==
  \/ \E s \in Spellings : DeleteCall(s) \/ \E v \in Padded : AppendCall(s, v) \/ SetCall(s, v)
  \/ Fetch
  \/ \E h \in Replies : Respond(h)

-----------------------------------------------------------------------------
\* Properties

\* The request carries exactly the values that the script's appends, sets and
\* deletes leave, each name's in the order they were added, however names are spelt,
\* and the two defaults only where the script has left nothing (Headers, goFetch
\* and Fetch: two sorted lists and a map on the way).
SentAsMeant ==
  at # "script" =>
    \A n \in Names : sent[n] = IF meant[n] = <<>> THEN Default(n) ELSE meant[n]

\* A response whose values have no character above U+00FF reaches the script, with
\* all words of every name in order; of all names only cookies keep several entries.
ResponseAsSent ==
  /\ at = "rejected" => \E n \in Names : \E i \in 1 .. Len(reply[n]) : Range(reply[n][i]) \cap Wide # {}
  /\ at = "response" =>
       \A n \in Names :
         /\ FlattenSeq(Values(got, n)) = FlattenSeq(reply[n])
         /\ n = "set-cookie" => Values(got, n) = reply[n]
         /\ n # "set-cookie" => Len(Values(got, n)) <= 1

=============================================================================
