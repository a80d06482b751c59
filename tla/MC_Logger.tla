----------------------------- MODULE MC_Logger -----------------------------
(* Two processes that write entries of two or three cells to a log of eight. *)
EXTENDS Logger, TLC

CONSTANTS system_server, app, logcat

MCWriter == {system_server, app}
MCReader == {logcat}
WriterSymmetry == Permutations(MCWriter)

\* The properties say nothing of a log that is torn.
NotTorn == ~torn
=============================================================================
