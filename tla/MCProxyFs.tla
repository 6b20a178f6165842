----------------------------- MODULE MCProxyFs -----------------------------
(***************************************************************************)
(* ProxyFs for two guests, one of them with two threads.                   *)
(***************************************************************************)
EXTENDS ProxyFs

CONSTANTS c1, c2

ThreeThreads == {<<c1, 1>>, <<c1, 2>>, <<c2, 1>>}

\* Bound: the first guest's threads can open a file and use or drop it, or make two
\* calls at a time; the second can open a file.
FewCalls == [c \in Conns |-> IF c = c1 THEN 2 ELSE 1]
=============================================================================
