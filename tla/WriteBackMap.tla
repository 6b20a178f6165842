---------------------------- MODULE WriteBackMap ----------------------------
(***************************************************************************)
(* A key-value map held in memory in front of a copy on disk: an edit      *)
(* changes one key in memory, a flush makes the disk copy equal to memory, *)
(* all keys at once, and a restart goes back to the disk copy.             *)
(***************************************************************************)
CONSTANTS Keys, Values, Absent

VARIABLES mem, disk

Maps == [Keys -> Values \cup {Absent}]

Init == disk \in Maps /\ mem = disk

Edit(k, v) == mem' = [mem EXCEPT ![k] = v] /\ UNCHANGED disk

Flush == disk' = mem /\ UNCHANGED mem

Restart == mem' = disk /\ UNCHANGED disk

Next == \/ \E k \in Keys, v \in Values \cup {Absent} : Edit(k, v)
        \/ Flush
        \/ Restart

Spec == Init /\ [][Next]_<<mem, disk>>

=============================================================================
