---------------------------- MODULE MC_WakeLock ----------------------------
(***************************************************************************)
(* Small instance of WakeLock: main_wake_lock, unknown_wakeup, driver      *)
(* locks, timeouts that are in the past, zero, short and the longest a     *)
(* long can hold.                                                          *)
(***************************************************************************)
EXTENDS WakeLock

MCTimeouts == {-1, 0, 1, LongHalf - 1}
=============================================================================
