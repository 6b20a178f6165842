------------------------------ MODULE LockPins ------------------------------
(***************************************************************************)
(* What the lockfiles promise their readers, with everything about how     *)
(* packages are fetched and cached left out: each toolset file has a table *)
(* of pins, package -> archive hash.  One step changes the table of one    *)
(* toolset file, all its entries at once, and a pin that is there stays as *)
(* it is.                                                                  *)
(***************************************************************************)
CONSTANTS Files, Keys, Hashes, NoPin

VARIABLE pins

Tables == [Keys -> Hashes \cup {NoPin}]

Init == pins \in [Files -> Tables]

Extends(new, old) == \A k \in Keys : old[k] # NoPin => new[k] = old[k]

Pin(t) ==
  \E new \in Tables :
    /\ Extends(new, pins[t])
    /\ pins' = [pins EXCEPT ![t] = new]

Next == \E t \in Files : Pin(t)

Spec == Init /\ [][Next]_pins

=============================================================================
