----------------------------- MODULE MC_Suspend -----------------------------
(* The two callers of pm_suspend: the suspend work and one task in apm_ioctl. *)
EXTENDS Suspend

CONSTANTS work, apm, nobody

MCCaller == {work, apm}
MCUserCaller == {apm}
MCSpeed == {200, 800}
=============================================================================
