------------------------------- MODULE Lists -------------------------------
(***************************************************************************)
(* What loops over linked lists do to them, for the modules that are about *)
(* lists.                                                                  *)
(***************************************************************************)
EXTENDS SequencesExt

\* The list s without the elements that are in X.
Without(s, X) == FlattenSeq([i \in 1 .. Len(s) |-> IF s[i] \in X THEN <<>> ELSE <<s[i]>>])
=============================================================================
