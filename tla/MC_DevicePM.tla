---------------------------- MODULE MC_DevicePM ----------------------------
(* Four devices in any tree; one of them moves between parents.              *)
EXTENDS DevicePM

CONSTANTS host, card, conn, tty, none

MCDevice == {host, card, conn, tty}
MCMovable == {tty}
=============================================================================
