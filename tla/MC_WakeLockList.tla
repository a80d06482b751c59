-------------------------- MODULE MC_WakeLockList --------------------------
(* Small instance of WakeLockList; the two driver locks are alike. *)
EXTENDS WakeLockList

MCTimeouts == {0, LongHalf - 1}
DriverSymmetry == Permutations(Lock \ {Main, Unknown})
=============================================================================
