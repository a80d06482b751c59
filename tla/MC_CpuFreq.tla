----------------------------- MODULE MC_CpuFreq -----------------------------
(* The real frequency table; one driver, the launcher and suspend hold locks. *)
EXTENDS CpuFreq

CONSTANTS touch, suspend, launcher

MCToken == {touch, suspend, launcher}
MCMaxima == {1400, 400}
MCMinima == {100}
MCStateTables == {{2} \cup 4 .. 8}

\* Once clock and voltage have lost each other, they say nothing more.
Together == ~missed /\ ~overlapped
=============================================================================
