----------------------------- MODULE MC_Binder -----------------------------
(* A client with one thread calls a server with two, and the server calls  *)
(* back; two transactions at a time.                                       *)
EXTENDS Binder

CONSTANTS client, server, c1, s1, s2, t1, t2

MCProcOf == [T \in Thread |-> IF T = c1 THEN client ELSE server]

\* User space reads the confirmation of a transaction before it makes the next.
OneConfirmation ==
  \A T \in Thread : Len(SelectSeq(todo[T], LAMBDA w : w = Complete)) <= 1

Symmetry == Permutations(Tx) \cup Permutations({s1, s2})
=============================================================================
