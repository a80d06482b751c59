-------------------------- MODULE MC_PowerManager --------------------------
(* One driver lock and one early suspend handler; the suspend work is the  *)
(* only caller of pm_suspend.                                              *)
EXTENDS PowerManager

CONSTANTS main, unknown, sync, modem, work, nobody, screen

MCLevel == [h \in {screen} |-> 100]

\* Users leave the governor alone: what enter_state does to the clock concerns
\* neither wake locks nor early suspend, and is checked with MC_Suspend.
\* The driver's lock is not followed once it has a timeout, which unknown_wakeup
\* has in any case.
Bounded == governor = "conservative" /\ "AUTO_EXPIRE" \notin flags[modem]
=============================================================================
