----------------------------- MODULE MC_Ashmem -----------------------------
(* An area of three pages, so that a hole can be punched in a range,         *)
(* and one of a single page.                                                 *)
EXTENDS Ashmem

CONSTANTS heap, bitmap

MCArea == {heap, bitmap}
MCSizes == [a \in MCArea |-> IF a = heap THEN {3} ELSE {1}]

\* Allocations fail for one of the areas only.
OneFails == Cardinality(failed) <= 1
=============================================================================
