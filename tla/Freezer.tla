------------------------------- MODULE Freezer -------------------------------
(***************************************************************************)
(* The freezer: kernel/freezer.c, its use by suspend (kernel/power/        *)
(* process.c) and by control groups (kernel/cgroup_freezer.c).  A task is  *)
(* asked to freeze by its TIF_FREEZE flag, freezes itself in the           *)
(* refrigerator when it next passes try_to_freeze, and stays there until   *)
(* somebody clears its PF_FROZEN flag.                                     *)
(*                                                                         *)
(* With one CPU and no kernel preemption a walk over the tasks, under a    *)
(* spinlock, is one action; tasks run between two walks (yield).  The      *)
(* task that suspends and the PF_NOFREEZE threads, which freezeable()      *)
(* excludes, are left out.                                                 *)
(***************************************************************************)
EXTENDS Naturals, FiniteSets

CONSTANTS
  Task,    \* the tasks that may exist, other than the one that suspends
  Kthread, \* kernel threads: PF_FREEZER_NOSIG
  Group,   \* the freezable control groups
  Root     \* the root control group, which cannot be frozen

ASSUME FreezerAssumption == Kthread \subseteq Task /\ Root \notin Group

VARIABLES
  place,      \* what each task does
  frozen,     \* tasks with PF_FROZEN
  freezing,   \* tasks with TIF_FREEZE
  sigpending, \* tasks with TIF_SIGPENDING
  group,      \* the control group of each task
  state,      \* freezer->state of each control group
  pm,         \* how far freeze_processes and thaw_processes have come
  todo,       \* the last walk of try_to_freeze_tasks left something to do
  oom_killer_disabled,
  asked       \* history: tasks that a control group was told to freeze

task_vars == <<place, frozen, freezing, sigpending>>
group_vars == <<group, state, asked>>
pm_vars == <<pm, todo, oom_killer_disabled>>
freezer_vars == <<task_vars, group_vars, pm_vars>>

\* "stopped": TASK_STOPPED or TASK_TRACED; "cont": woken from there and about to
\* call try_to_freeze; "vfork": waiting for the child, with PF_FREEZER_SKIP.
Place == {"none", "run", "sleep", "stopped", "cont", "vfork", "refrigerator"}

FreezerTypeOK ==
  /\ place \in [Task -> Place]
  /\ \A t \in frozen : t \in Task /\ place[t] = "refrigerator" /\ t \notin freezing
  /\ freezing \subseteq Task /\ sigpending \subseteq Task /\ asked \subseteq Task
  /\ group \in [Task -> Group \cup {Root}]
  /\ state \in [Group \cup {Root} -> {"THAWED", "FREEZING", "FROZEN"}]
  /\ state[Root] = "THAWED"
  /\ pm \in {"idle", "user", "kernel", "frozen"}
  /\ todo \in BOOLEAN /\ oom_killer_disabled = (pm = "frozen")

Alive == {t \in Task : place[t] # "none"}
Members(g) == {t \in Alive : group[t] = g}

\* Somebody in user space can make a system call.
UserRuns == \E t \in Task \ Kthread : place[t] = "run"

-----------------------------------------------------------------------------
(* kernel/freezer.c                                                        *)

\* The tasks of T for which freeze_task(p, sig_only) returns true.
Requested(T, sig_only) == {t \in T \ frozen : ~sig_only \/ t \notin Kthread}

\* Mutant: user tasks get their flag and no fake signal.
FreezeWithoutSignal(R) ==
  /\ freezing' = freezing \cup R
  /\ place' = [t \in Task |-> IF t \in R /\ place[t] = "sleep" /\ t \in Kthread
                              THEN "run" ELSE place[t]]
  /\ UNCHANGED <<frozen, sigpending>>

\* freeze_task for each of them: set TIF_FREEZE, and send the task a fake signal
\* or wake it up so that it notices.
freeze_task(R) ==
  /\ freezing' = freezing \cup R
  /\ sigpending' = sigpending \cup (R \ Kthread)
  /\ place' = [t \in Task |-> IF t \in R /\ place[t] = "sleep"
                                   /\ (t \in Kthread \/ t \notin sigpending)
                              THEN "run" ELSE place[t]]
  /\ UNCHANGED frozen

\* Mutant: a task that has not frozen yet keeps its TIF_FREEZE.
ThawKeepsFlag(T) == frozen' = frozen \ T /\ UNCHANGED <<place, freezing, sigpending>>

\* thaw_process for each task in T: thaw it, or take the request back.
thaw_process(T) ==
  /\ frozen' = frozen \ T
  /\ freezing' = freezing \ (T \ frozen)
  /\ UNCHANGED <<place, sigpending>>

refrigerator(t) ==
  /\ frozen' = frozen \cup {t}
  /\ freezing' = freezing \ {t}
  /\ sigpending' = sigpending \ {t}
  /\ place' = [place EXCEPT ![t] = "refrigerator"]

\* try_to_freeze on the way to user mode, in the loop of a kernel thread or after
\* a stop.
TryToFreeze(t) ==
  /\ place[t] \in {"run", "cont"} /\ t \in freezing
  /\ refrigerator(t)
  /\ UNCHANGED <<group_vars, pm_vars>>

\* Somebody has cleared PF_FROZEN and woken the task.
LeaveRefrigerator(t) ==
  /\ place[t] = "refrigerator" /\ t \notin frozen
  /\ place' = [place EXCEPT ![t] = "run"]
  /\ UNCHANGED <<frozen, freezing, sigpending, group_vars, pm_vars>>

-----------------------------------------------------------------------------
(* What tasks do otherwise.                                                *)

Moves(t, from, to) ==
  /\ place[t] = from /\ place' = [place EXCEPT ![t] = to]
  /\ UNCHANGED <<frozen, freezing, sigpending, group_vars, pm_vars>>

\* schedule() does not put a task to sleep that has a signal pending, and a
\* kernel thread's loop checks freezing(current) first.
Sleep(t) ==
  /\ IF t \in Kthread THEN t \notin freezing ELSE t \notin sigpending
  /\ Moves(t, "run", "sleep")

Wake(t) == Moves(t, "sleep", "run")

\* A stop signal, or a tracer, even in the middle of a system call.
Stop(t) == t \notin Kthread /\ Moves(t, "run", "stopped")

Continue(t) == Moves(t, "stopped", "cont")

\* try_to_freeze returns 0.
Continued(t) == t \notin freezing /\ Moves(t, "cont", "run")

\* Like any fork it needs a task without a pending signal.
Vfork(t) == t \notin Kthread \cup sigpending /\ Moves(t, "run", "vfork")

\* freezer_count: no longer skipped, then try_to_freeze.
VforkDone(t) ==
  \/ t \notin freezing /\ Moves(t, "vfork", "run")
  \/ /\ place[t] = "vfork" /\ t \in freezing
     /\ refrigerator(t)
     /\ UNCHANGED <<group_vars, pm_vars>>

SignalArrives(t) ==
  /\ t \in Alive \ Kthread /\ sigpending' = sigpending \cup {t}
  /\ place' = [place EXCEPT ![t] = IF @ = "sleep" THEN "run" ELSE @]
  /\ UNCHANGED <<frozen, freezing, group_vars, pm_vars>>

\* Mutant: TIF_SIGPENDING is cleared although the task should freeze.
SignalClearsAlways(t) ==
  /\ place[t] = "run" /\ sigpending' = sigpending \ {t}
  /\ UNCHANGED <<place, frozen, freezing, group_vars, pm_vars>>

\* recalc_sigpending in the task itself, after its last signal is dealt with.
recalc_sigpending(t) ==
  /\ place[t] = "run" /\ t \notin freezing /\ sigpending' = sigpending \ {t}
  /\ UNCHANGED <<place, frozen, freezing, group_vars, pm_vars>>

\* A FREEZING group passes its request on to new members; a FROZEN one must not
\* have any (BUG_ON).
freezer_fork(c, g) ==
  \/ /\ state[g] = "FREEZING"
     /\ freezing' = freezing \cup {c} /\ sigpending' = sigpending \cup {c}
     /\ asked' = asked \cup {c}
  \/ state[g] = "THAWED" /\ UNCHANGED <<freezing, sigpending, asked>>

\* A fork is given up when a signal is pending.  The child starts without
\* TIF_FREEZE.
Fork(t, c) ==
  /\ place[t] = "run" /\ t \notin Kthread \cup sigpending
  /\ c \notin Kthread /\ place[c] = "none"
  /\ place' = [place EXCEPT ![c] = "run"]
  /\ group' = [group EXCEPT ![c] = group[t]]
  /\ freezer_fork(c, group[t])
  /\ UNCHANGED <<frozen, state, pm_vars>>

Exit(t) ==
  /\ place[t] = "run" /\ t \notin Kthread
  /\ place' = [place EXCEPT ![t] = "none"]
  /\ freezing' = freezing \ {t} /\ sigpending' = sigpending \ {t} /\ asked' = asked \ {t}
  /\ group' = [group EXCEPT ![t] = Root]
  /\ UNCHANGED <<frozen, state, pm_vars>>

-----------------------------------------------------------------------------
(* kernel/cgroup_freezer.c, called from user space.                        *)

is_task_frozen_enough(t) == t \in frozen \/ (place[t] = "stopped" /\ t \in freezing)

\* The state update_freezer_state gives a group.
update_freezer_state(g) ==
  CASE \A t \in Members(g) : is_task_frozen_enough(t) -> "FROZEN"
    [] (\E t \in Members(g) : is_task_frozen_enough(t))
         /\ (\E t \in Members(g) : ~is_task_frozen_enough(t)) -> "FREEZING"
    [] OTHER -> "THAWED"

SetState(g, s) == state' = [state EXCEPT ![g] = s]

freezer_can_attach(t, g) ==
  ~is_task_frozen_enough(t) /\ state[g] # "FROZEN"

Attach(t, g) ==
  /\ UserRuns /\ t \in Alive /\ group[t] # g /\ freezer_can_attach(t, g)
  /\ group' = [group EXCEPT ![t] = g]
  /\ asked' = IF state[g] = "FREEZING" THEN asked \cup {t} ELSE asked
  /\ UNCHANGED <<task_vars, state, pm_vars>>

\* Reading freezer.state.
freezer_read(g) ==
  /\ UserRuns /\ state[g] = "FREEZING"
  /\ SetState(g, update_freezer_state(g))
  /\ UNCHANGED <<task_vars, group, asked, pm_vars>>

\* A write that finds the group in the state it asks for.
WriteNoChange(g, goal) ==
  /\ UserRuns /\ update_freezer_state(g) = goal
  /\ SetState(g, goal)
  /\ asked' = IF goal = "FROZEN" THEN asked \cup Members(g) ELSE asked
  /\ UNCHANGED <<task_vars, group, pm_vars>>

try_to_freeze_cgroup(g) ==
  /\ UserRuns /\ update_freezer_state(g) # "FROZEN"
  /\ SetState(g, "FREEZING")
  /\ freeze_task(Requested(Members(g), TRUE))
  /\ asked' = asked \cup Members(g)
  /\ UNCHANGED <<group, pm_vars>>

unfreeze_cgroup(g) ==
  /\ UserRuns /\ update_freezer_state(g) # "THAWED"
  /\ thaw_process(Members(g))
  /\ SetState(g, "THAWED")
  /\ asked' = asked \ Members(g)
  /\ UNCHANGED <<group, pm_vars>>

cgroup_frozen(t) == state[group[t]] = "FROZEN"

-----------------------------------------------------------------------------
(* kernel/power/process.c                                                  *)

\* Mutant: stopped tasks are left alone altogether.
WalkSkipsStopped(sig_only) ==
  LET R == {t \in Requested(Alive, sig_only) : place[t] # "stopped"} IN
  /\ freeze_task(R)
  /\ todo' = (\E t \in R : place[t] # "vfork")

\* One walk of try_to_freeze_tasks.  Stopped tasks and vfork parents get the
\* request and are not waited for.
FreezeWalk(sig_only) ==
  LET R == Requested(Alive, sig_only) IN
  /\ freeze_task(R)
  /\ todo' = (\E t \in R : place[t] \notin {"stopped", "vfork"})

freeze_processes ==
  /\ pm = "idle" /\ pm' = "user"
  /\ FreezeWalk(TRUE)
  /\ UNCHANGED <<group_vars, oom_killer_disabled>>

WalkAgain ==
  /\ pm \in {"user", "kernel"} /\ todo
  /\ FreezeWalk(pm = "user")
  /\ UNCHANGED <<group_vars, pm, oom_killer_disabled>>

UserTasksFrozen ==
  /\ pm = "user" /\ ~todo /\ pm' = "kernel"
  /\ FreezeWalk(FALSE)
  /\ UNCHANGED <<group_vars, oom_killer_disabled>>

AllTasksFrozen ==
  /\ pm = "kernel" /\ ~todo /\ pm' = "frozen"
  /\ oom_killer_disabled' = TRUE
  /\ UNCHANGED <<task_vars, group_vars, todo>>

\* Mutant: tasks of frozen control groups are thawed too.
ThawsEverybody == Alive

\* The tasks thaw_tasks(true) and thaw_tasks(false) thaw between them.
thaw_tasks == {t \in Alive : ~cgroup_frozen(t)}

\* A wake lock is held or the time is up: cancel_freezing for every task, then
\* suspend_prepare calls thaw_processes, all without sleeping.
FreezeFails ==
  /\ pm \in {"user", "kernel"} /\ todo
  /\ freezing' = {} /\ frozen' = frozen \ thaw_tasks
  /\ pm' = "idle" /\ todo' = FALSE
  /\ UNCHANGED <<place, sigpending, group_vars, oom_killer_disabled>>

\* Mutant: only the kernel threads are thawed, thaw_tasks(false) is missing.
ThawKernelThreads ==
  /\ pm = "frozen" /\ pm' = "idle"
  /\ oom_killer_disabled' = FALSE
  /\ thaw_process(thaw_tasks \cap Kthread)
  /\ UNCHANGED <<group_vars, todo>>

\* After the system has slept, or failed to.
thaw_processes ==
  /\ pm = "frozen" /\ pm' = "idle"
  /\ oom_killer_disabled' = FALSE
  /\ thaw_process(thaw_tasks)
  /\ UNCHANGED <<group_vars, todo>>

-----------------------------------------------------------------------------
\* The system comes up with nothing frozen; user tasks may be forked later.
FreezerInit ==
  /\ place \in {p \in [Task -> {"none", "run"}] : \A t \in Kthread : p[t] = "run"}
  /\ frozen = {} /\ freezing = {} /\ sigpending = {} /\ asked = {}
  /\ group = [t \in Task |-> Root] /\ state = [g \in Group \cup {Root} |-> "THAWED"]
  /\ pm = "idle" /\ todo = FALSE /\ oom_killer_disabled = FALSE

FreezeStep(t) == TryToFreeze(t) \/ LeaveRefrigerator(t) \/ VforkDone(t) \/ Continued(t)

TaskStep(t) ==
  \/ Sleep(t) \/ Wake(t) \/ Stop(t) \/ Continue(t) \/ Vfork(t) \/ Exit(t)
  \/ SignalArrives(t) \/ recalc_sigpending(t) \/ \E c \in Task : Fork(t, c)

CgroupStep ==
  \/ \E t \in Task, g \in Group \cup {Root} : Attach(t, g)
  \/ \E g \in Group : \/ freezer_read(g) \/ try_to_freeze_cgroup(g) \/ unfreeze_cgroup(g)
                      \/ \E goal \in {"THAWED", "FROZEN"} : WriteNoChange(g, goal)

PmStep ==
  \/ freeze_processes \/ WalkAgain \/ UserTasksFrozen \/ AllTasksFrozen \/ FreezeFails
  \/ thaw_processes

FreezerNext == PmStep \/ CgroupStep \/ \E t \in Task : FreezeStep(t) \/ TaskStep(t)

FreezerSpec == FreezerInit /\ [][FreezerNext]_freezer_vars

\* try_to_freeze_tasks gives up when its time is over, the system wakes up after
\* every suspend, and a runnable task runs.
FreezerFairness ==
  /\ WF_freezer_vars(UserTasksFrozen) /\ WF_freezer_vars(AllTasksFrozen)
  /\ WF_freezer_vars(FreezeFails) /\ WF_freezer_vars(thaw_processes)
  /\ \A t \in Task : WF_freezer_vars(LeaveRefrigerator(t))

FreezerFairSpec == FreezerSpec /\ FreezerFairness

-----------------------------------------------------------------------------
(* Properties.                                                             *)

\* t is frozen, or freezes before it does anything else.
Quiet(t) ==
  \/ t \in frozen
  \/ t \in freezing /\ place[t] \in {"stopped", "cont", "vfork"}

\* After freeze_processes has succeeded, and until it is undone, no task runs,
\* whatever was stopped, traced, waiting in vfork or moved between control groups
\* while the walks went on.  Once user tasks are done this holds of them already.
AllQuiet ==
  /\ pm = "frozen" => \A t \in Alive : Quiet(t)
  /\ pm = "kernel" => \A t \in Alive \ Kthread : Quiet(t)

\* After a suspend, successful or not, a task that is frozen or about to freeze
\* is one that a control group was told to freeze: nobody is forgotten in the
\* refrigerator.
NobodyForgotten == pm = "idle" => frozen \cup freezing \subseteq asked

\* A task that has been asked to freeze never sleeps through it.
RequestNoticed == \A t \in freezing : place[t] # "sleep"

\* thaw_processes spares frozen control groups: their tasks are thawed only
\* together with their group.
FrozenGroupsSpared ==
  [][\A t \in frozen \ frozen' :
       state[group[t]] = "FROZEN" => state'[group[t]] = "THAWED"]_freezer_vars

\* A task that suspend froze comes out of the refrigerator in the end, unless a
\* control group wants it frozen.
EventuallyThawed ==
  \A t \in Task : place[t] = "refrigerator" /\ t \notin asked
                    ~> place[t] # "refrigerator" \/ t \in asked
==============================================================================
