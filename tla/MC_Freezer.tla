----------------------------- MODULE MC_Freezer -----------------------------
(* Two user tasks, one kernel thread and one freezable control group.        *)
EXTENDS Freezer

CONSTANTS shell, app, kthread, cgroup, root

MCTask == {shell, app, kthread}
MCKthread == {kthread}
MCGroup == {cgroup}
=============================================================================
