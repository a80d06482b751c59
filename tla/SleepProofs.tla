---------------------------- MODULE SleepProofs ----------------------------
(***************************************************************************)
(* Proofs about the two phases of a suspend that come between the screen   *)
(* and the processor: Freezer, for any tasks and control groups, and       *)
(* DevicePM, for any devices and any tree of them.                         *)
(***************************************************************************)
EXTENDS Freezer, DevicePM, TLAPS

-----------------------------------------------------------------------------
(* Freezer.                                                                *)

\* A user task with a freeze request has a signal pending, and no task sleeps
\* with a signal pending or a request.  Kernel threads get no signals.
Awake ==
  /\ \A t \in freezing \ Kthread : t \in sigpending
  /\ \A t \in sigpending : t \notin Kthread
  /\ \A t \in sigpending \cup freezing : place[t] \notin {"none", "sleep"}

\* Every member of a group that is not THAWED was asked to freeze.
MembersAsked == \A t \in Alive : state[group[t]] # "THAWED" => t \in asked

\* What a walk that found nothing to do has established.
WalksDone ==
  /\ pm \in {"kernel", "frozen"} \/ (pm = "user" /\ ~todo)
       => \A t \in Alive \ Kthread : Quiet(t)
  /\ pm = "frozen" \/ (pm = "kernel" /\ ~todo) => \A t \in Alive : Quiet(t)

Types ==
  /\ place \in [Task -> Place]
  /\ frozen \subseteq Task /\ freezing \subseteq Task /\ sigpending \subseteq Task
  /\ asked \subseteq Task
  /\ \A t \in frozen : place[t] = "refrigerator" /\ t \notin freezing
  /\ group \in [Task -> Group \cup {Root}]
  /\ state \in [Group \cup {Root} -> {"THAWED", "FREEZING", "FROZEN"}]
  /\ state[Root] = "THAWED"
  /\ pm \in {"idle", "user", "kernel", "frozen"}

Flags == todo \in BOOLEAN /\ oom_killer_disabled = (pm = "frozen")

FInv == Types /\ Flags /\ Awake /\ MembersAsked /\ WalksDone /\ NobodyForgotten

-----------------------------------------------------------------------------
\* Types, Awake and MembersAsked depend on tasks and groups only: each kind of
\* step keeps them.
TaskInv == Types /\ Awake /\ MembersAsked

USE DEF Alive, Place

\* Initially nobody is asked, frozen or in a group other than the root.
LEMMA InitTaskInv == FreezerInit => TaskInv
  BY FreezerAssumption DEF FreezerInit, TaskInv, Types, Awake, MembersAsked

\* Entering and leaving the refrigerator, and coming back from vfork or a stop, keep it.
LEMMA FreezeStepTaskInv ==
  ASSUME TaskInv, NEW t \in Task, FreezeStep(t) PROVE TaskInv'
<1>1. CASE TryToFreeze(t)
  BY <1>1 DEF TaskInv, Types, Awake, MembersAsked, TryToFreeze, refrigerator, group_vars, pm_vars
<1>2. CASE LeaveRefrigerator(t)
  BY <1>2 DEF TaskInv, Types, Awake, MembersAsked, LeaveRefrigerator, group_vars, pm_vars
<1>3. CASE VforkDone(t)
  BY <1>3 DEF TaskInv, Types, Awake, MembersAsked, VforkDone, Moves, refrigerator, group_vars, pm_vars
<1>4. CASE Continued(t)
  BY <1>4 DEF TaskInv, Types, Awake, MembersAsked, Continued, Moves, group_vars, pm_vars
<1> QED BY <1>1, <1>2, <1>3, <1>4 DEF FreezeStep

\* What tasks do on their own (sleep, stop, fork, exit, handle signals) keeps it.
LEMMA TaskStepTaskInv ==
  ASSUME TaskInv, NEW t \in Task, TaskStep(t) PROVE TaskInv'
<1> USE FreezerAssumption DEF TaskInv, Types, Awake, MembersAsked, group_vars, pm_vars
<1>1. CASE Sleep(t)  BY <1>1 DEF Sleep, Moves
<1>2. CASE Wake(t)  BY <1>2 DEF Wake, Moves
<1>3. CASE Stop(t)  BY <1>3 DEF Stop, Moves
<1>4. CASE Continue(t)  BY <1>4 DEF Continue, Moves
<1>5. CASE Vfork(t)  BY <1>5 DEF Vfork, Moves
<1>6. CASE Exit(t)  BY <1>6 DEF Exit
<1>7. CASE SignalArrives(t)  BY <1>7 DEF SignalArrives
<1>8. CASE recalc_sigpending(t)  BY <1>8 DEF recalc_sigpending
<1>9. ASSUME NEW c \in Task, Fork(t, c) PROVE TaskInv'
  BY <1>9 DEF Fork, freezer_fork
<1> QED BY <1>1, <1>2, <1>3, <1>4, <1>5, <1>6, <1>7, <1>8, <1>9 DEF TaskStep

\* freeze_task for any set of live tasks that are not frozen.
LEMMA FreezeTaskKeeps ==
  ASSUME TaskInv, NEW R \in SUBSET (Alive \ frozen), freeze_task(R)
  PROVE  /\ place' \in [Task -> Place] /\ Alive' = Alive
         /\ frozen' = frozen /\ freezing' \subseteq Task /\ sigpending' \subseteq Task
         /\ \A t \in frozen' : place'[t] = "refrigerator" /\ t \notin freezing'
         /\ Awake'
BY FreezerAssumption DEF TaskInv, Types, Awake, freeze_task

\* Attaching tasks, and reading and writing freezer.state, keep it.
LEMMA CgroupStepTaskInv == ASSUME TaskInv, CgroupStep PROVE TaskInv'
<1>1. ASSUME NEW t \in Task, NEW g \in Group \cup {Root}, Attach(t, g) PROVE TaskInv'
  BY <1>1, FreezerAssumption
     DEF TaskInv, Types, Awake, MembersAsked, Attach, freezer_can_attach, task_vars, pm_vars
<1>2. ASSUME NEW g \in Group, freezer_read(g) PROVE TaskInv'
  <2>1. update_freezer_state(g) \in {"THAWED", "FREEZING", "FROZEN"}
    BY DEF update_freezer_state
  <2> QED BY <1>2, <2>1, FreezerAssumption
          DEF TaskInv, Types, Awake, MembersAsked, freezer_read, SetState, task_vars, pm_vars
<1>3. ASSUME NEW g \in Group, NEW goal \in {"THAWED", "FROZEN"}, WriteNoChange(g, goal)
      PROVE TaskInv'
  BY <1>3, FreezerAssumption
     DEF TaskInv, Types, Awake, MembersAsked, WriteNoChange, SetState, Members, task_vars, pm_vars
<1>4. ASSUME NEW g \in Group, try_to_freeze_cgroup(g) PROVE TaskInv'
  <2> DEFINE R == Requested(Members(g), TRUE)
  <2>1. R \in SUBSET (Alive \ frozen)  BY DEF Requested, Members
  <2>2. freeze_task(R)  BY <1>4 DEF try_to_freeze_cgroup
  <2> HIDE DEF R
  <2>3. /\ place' \in [Task -> Place] /\ Alive' = Alive
        /\ frozen' = frozen /\ freezing' \subseteq Task /\ sigpending' \subseteq Task
        /\ \A t \in frozen' : place'[t] = "refrigerator" /\ t \notin freezing'
        /\ Awake'
    BY <2>1, <2>2, FreezeTaskKeeps
  <2>4. /\ state' = [state EXCEPT ![g] = "FREEZING"] /\ asked' = asked \cup Members(g)
        /\ group' = group /\ pm' = pm
    BY <1>4 DEF try_to_freeze_cgroup, SetState, pm_vars
  <2>5. Types'  BY <2>3, <2>4, FreezerAssumption DEF TaskInv, Types, Members
  <2>6. MembersAsked'  BY <2>3, <2>4, FreezerAssumption DEF TaskInv, Types, MembersAsked, Members
  <2> QED BY <2>3, <2>5, <2>6 DEF TaskInv
<1>5. ASSUME NEW g \in Group, unfreeze_cgroup(g) PROVE TaskInv'
  BY <1>5, FreezerAssumption
     DEF TaskInv, Types, Awake, MembersAsked, unfreeze_cgroup, thaw_process, SetState, Members,
         pm_vars
<1> QED BY <1>1, <1>2, <1>3, <1>4, <1>5 DEF CgroupStep

\* A walk of try_to_freeze_tasks keeps it.
LEMMA WalkTaskInv ==
  ASSUME TaskInv, NEW sig_only \in BOOLEAN, FreezeWalk(sig_only), UNCHANGED group_vars,
         pm' \in {"idle", "user", "kernel", "frozen"}
  PROVE  TaskInv'
<1> DEFINE R == Requested(Alive, sig_only)
<1>1. R \in SUBSET (Alive \ frozen)  BY DEF Requested
<1>2. freeze_task(R)  BY DEF FreezeWalk
<1> HIDE DEF R
<1>3. /\ place' \in [Task -> Place] /\ Alive' = Alive
      /\ frozen' = frozen /\ freezing' \subseteq Task /\ sigpending' \subseteq Task
      /\ \A t \in frozen' : place'[t] = "refrigerator" /\ t \notin freezing'
      /\ Awake'
  BY <1>1, <1>2, FreezeTaskKeeps
<1> QED BY <1>3 DEF TaskInv, Types, MembersAsked, group_vars

\* So does every step of a suspend, thaw_processes included.
LEMMA PmStepTaskInv == ASSUME TaskInv, PmStep PROVE TaskInv'
<1>1. CASE freeze_processes  BY <1>1, WalkTaskInv DEF freeze_processes
<1>2. CASE WalkAgain
  <2>1. (pm = "user") \in BOOLEAN /\ pm' = pm /\ pm \in {"idle", "user", "kernel", "frozen"}
    BY <1>2 DEF WalkAgain, TaskInv, Types
  <2> QED BY <1>2, <2>1, WalkTaskInv DEF WalkAgain
<1>3. CASE UserTasksFrozen  BY <1>3, WalkTaskInv DEF UserTasksFrozen
<1>4. CASE AllTasksFrozen
  BY <1>4 DEF AllTasksFrozen, TaskInv, Types, Awake, MembersAsked, task_vars, group_vars
<1>5. CASE FreezeFails
  BY <1>5 DEF FreezeFails, TaskInv, Types, Awake, MembersAsked, group_vars
<1>6. CASE thaw_processes
  BY <1>6 DEF thaw_processes, thaw_process, TaskInv, Types, Awake, MembersAsked, group_vars
<1> QED BY <1>1, <1>2, <1>3, <1>4, <1>5, <1>6 DEF PmStep

-----------------------------------------------------------------------------
\* The steps of tasks: a quiet task goes no further than the refrigerator, and
\* while all user tasks are quiet none is born.
LEMMA TaskKeepsQuiet ==
  ASSUME TaskInv, NEW t \in Task, FreezeStep(t) \/ TaskStep(t),
         NEW T \in SUBSET Task, \A u \in T : u \in Alive => Quiet(u)
  PROVE  \A u \in T : u \in Alive' /\ u \in Alive => Quiet(u)'
<1> SUFFICES ASSUME NEW u \in T, u \in Alive, u \in Alive' PROVE Quiet(u)'
  OBVIOUS
<1>0. Quiet(u)  OBVIOUS
<1> USE DEF TaskInv, Types, Quiet, group_vars, pm_vars
<1>1. CASE TryToFreeze(t)  BY <1>0, <1>1 DEF TryToFreeze, refrigerator
<1>2. CASE LeaveRefrigerator(t)  BY <1>0, <1>2 DEF LeaveRefrigerator
<1>3. CASE VforkDone(t)  BY <1>0, <1>3 DEF VforkDone, Moves, refrigerator
<1>4. CASE Continued(t)  BY <1>0, <1>4 DEF Continued, Moves
<1>5. CASE Sleep(t)  BY <1>0, <1>5 DEF Sleep, Moves
<1>6. CASE Wake(t)  BY <1>0, <1>6 DEF Wake, Moves
<1>7. CASE Stop(t)  BY <1>0, <1>7 DEF Stop, Moves
<1>8. CASE Continue(t)  BY <1>0, <1>8 DEF Continue, Moves
<1>9. CASE Vfork(t)  BY <1>0, <1>9 DEF Vfork, Moves
<1>10. CASE Exit(t)  BY <1>0, <1>10 DEF Exit
<1>11. CASE SignalArrives(t)  BY <1>0, <1>11 DEF SignalArrives
<1>12. CASE recalc_sigpending(t)  BY <1>0, <1>12 DEF recalc_sigpending
<1>13. ASSUME NEW c \in Task, Fork(t, c) PROVE Quiet(u)'
  BY <1>0, <1>13 DEF Fork, freezer_fork
<1> QED BY <1>1, <1>2, <1>3, <1>4, <1>5, <1>6, <1>7, <1>8, <1>9, <1>10, <1>11, <1>12, <1>13
        DEF FreezeStep, TaskStep

\* While all user tasks are quiet nobody forks, so no task comes into being.
LEMMA NobodyBorn ==
  ASSUME TaskInv, NEW t \in Task, FreezeStep(t) \/ TaskStep(t),
         \A u \in Alive \ Kthread : Quiet(u)
  PROVE  Alive' \subseteq Alive
<1> USE DEF TaskInv, Types, Quiet, group_vars, pm_vars
<1>1. CASE FreezeStep(t)
  BY <1>1 DEF FreezeStep, TryToFreeze, LeaveRefrigerator, VforkDone, Continued, Moves, refrigerator
<1>2. ASSUME NEW c \in Task, Fork(t, c) PROVE FALSE
  BY <1>2 DEF Fork
<1>3. CASE TaskStep(t)
  BY <1>2, <1>3 DEF TaskStep, Sleep, Wake, Stop, Continue, Vfork, Moves, Exit, SignalArrives,
                    recalc_sigpending
<1> QED BY <1>1, <1>3

\* While all user tasks are quiet nobody calls into the control groups.
LEMMA NobodyCalls ==
  ASSUME Types, \A u \in Alive \ Kthread : Quiet(u) PROVE ~CgroupStep
<1>1. ~UserRuns  BY DEF UserRuns, Types, Quiet
<1> QED BY <1>1 DEF CgroupStep, Attach, freezer_read, WriteNoChange, try_to_freeze_cgroup,
                    unfreeze_cgroup

\* A walk leaves the tasks it asks quiet if it finds nothing to do, and never
\* disturbs a task that is quiet already.
LEMMA WalkQuiets ==
  ASSUME TaskInv, NEW sig_only \in BOOLEAN, FreezeWalk(sig_only)
  PROVE  /\ Alive' = Alive
         /\ \A t \in Alive : Quiet(t) => Quiet(t)'
         /\ ~todo' => \A t \in Alive : ~sig_only \/ t \notin Kthread => Quiet(t)'
<1> DEFINE R == Requested(Alive, sig_only)
<1>1. freeze_task(R) /\ todo' = (\E t \in R : place[t] \notin {"stopped", "vfork"})
  BY DEF FreezeWalk
<1>2. Alive' = Alive  BY <1>1 DEF freeze_task, TaskInv, Types
<1>3. ASSUME NEW t \in Alive, Quiet(t) PROVE Quiet(t)'
  BY <1>1, <1>3 DEF freeze_task, TaskInv, Types, Quiet
<1>4. ASSUME ~todo', NEW t \in Alive, ~sig_only \/ t \notin Kthread PROVE Quiet(t)'
  <2>1. CASE t \in frozen  BY <1>1, <2>1 DEF freeze_task, Quiet
  <2>2. CASE t \notin frozen
    <3>1. t \in R  BY <1>4, <2>2 DEF Requested
    <3>2. place[t] \in {"stopped", "vfork"}  BY <1>1, <1>4, <3>1
    <3> QED BY <1>1, <3>1, <3>2 DEF freeze_task, Quiet, TaskInv, Types
  <2> QED BY <2>1, <2>2
<1> QED BY <1>2, <1>3, <1>4

\* The initial state satisfies the whole invariant.
LEMMA InitFInv == FreezerInit => FInv
<1> SUFFICES ASSUME FreezerInit PROVE FInv  OBVIOUS
<1>1. TaskInv  BY InitTaskInv
<1>2. Flags /\ WalksDone /\ NobodyForgotten
  BY DEF FreezerInit, Flags, WalksDone, NobodyForgotten
<1> QED BY <1>1, <1>2 DEF FInv, TaskInv

\* A step of suspend keeps it: a stage begins only after a walk that found nothing to do.
LEMMA PmStepFInv == ASSUME FInv, PmStep PROVE FInv'
<1>1. TaskInv /\ TaskInv'  BY PmStepTaskInv DEF FInv, TaskInv
<1> USE DEF FInv, Flags, WalksDone, NobodyForgotten, group_vars
<1>2. CASE freeze_processes
  <2>1. FreezeWalk(TRUE) /\ pm' = "user" /\ pm = "idle" /\ UNCHANGED oom_killer_disabled
    BY <1>2 DEF freeze_processes
  <2>2. todo' \in BOOLEAN  BY <2>1 DEF FreezeWalk
  <2> QED BY <1>1, <2>1, <2>2, WalkQuiets DEF TaskInv
<1>3. CASE WalkAgain
  <2>1. /\ FreezeWalk(pm = "user") /\ (pm = "user") \in BOOLEAN
        /\ pm' = pm /\ pm \in {"user", "kernel"} /\ UNCHANGED oom_killer_disabled
    BY <1>3 DEF WalkAgain
  <2>2. todo' \in BOOLEAN  BY <2>1 DEF FreezeWalk
  <2>3. /\ Alive' = Alive /\ \A t \in Alive : Quiet(t) => Quiet(t)'
        /\ ~todo' => \A t \in Alive : pm # "user" \/ t \notin Kthread => Quiet(t)'
    BY <1>1, <2>1, WalkQuiets
  <2> QED BY <1>1, <2>1, <2>2, <2>3 DEF TaskInv
<1>4. CASE UserTasksFrozen
  <2>1. /\ FreezeWalk(FALSE) /\ pm = "user" /\ ~todo /\ pm' = "kernel"
        /\ UNCHANGED oom_killer_disabled
    BY <1>4 DEF UserTasksFrozen
  <2>2. todo' \in BOOLEAN  BY <2>1 DEF FreezeWalk
  <2>3. /\ Alive' = Alive /\ \A t \in Alive : Quiet(t) => Quiet(t)'
        /\ ~todo' => \A t \in Alive : Quiet(t)'
    BY <1>1, <2>1, WalkQuiets
  <2> QED BY <1>1, <2>1, <2>2, <2>3 DEF TaskInv
<1>5. CASE AllTasksFrozen
  BY <1>1, <1>5 DEF AllTasksFrozen, task_vars, Quiet, TaskInv
<1>6. CASE FreezeFails
  <2>1. /\ pm' = "idle" /\ todo' = FALSE /\ ~oom_killer_disabled'
        /\ freezing' = {} /\ frozen' = frozen \ thaw_tasks /\ UNCHANGED group_vars
    BY <1>6 DEF FreezeFails
  <2>2. frozen' \subseteq asked'
    BY <1>1, <2>1 DEF thaw_tasks, cgroup_frozen, TaskInv, Types, MembersAsked
  <2>3. oom_killer_disabled' = (pm' = "frozen")
    BY <1>6 DEF FreezeFails
  <2> QED BY <1>1, <2>1, <2>2, <2>3 DEF TaskInv
<1>7. CASE thaw_processes
  <2>1. /\ pm' = "idle" /\ ~oom_killer_disabled' /\ todo' = todo
        /\ frozen' = frozen \ thaw_tasks /\ freezing' = freezing \ (thaw_tasks \ frozen)
        /\ UNCHANGED group_vars
    BY <1>7 DEF thaw_processes, thaw_process
  <2>2. frozen' \subseteq asked' /\ freezing' \subseteq asked'
    BY <1>1, <2>1 DEF thaw_tasks, cgroup_frozen, TaskInv, Types, MembersAsked, Awake
  <2>3. oom_killer_disabled' = (pm' = "frozen")
    BY <1>7 DEF thaw_processes
  <2> QED BY <1>1, <2>1, <2>2, <2>3 DEF TaskInv
<1> QED BY <1>2, <1>3, <1>4, <1>5, <1>6, <1>7 DEF PmStep

\* User space running the control groups keeps it.
LEMMA CgroupStepFInv == ASSUME FInv, CgroupStep PROVE FInv'
<1>1. TaskInv /\ TaskInv'  BY CgroupStepTaskInv DEF FInv, TaskInv
<1>2. pm' = pm /\ todo' = todo /\ oom_killer_disabled' = oom_killer_disabled
  BY DEF CgroupStep, Attach, freezer_read, WriteNoChange, try_to_freeze_cgroup, unfreeze_cgroup,
         pm_vars
<1>3. WalksDone'
  BY <1>2, NobodyCalls DEF FInv, WalksDone
<1>4. NobodyForgotten'
  <2> SUFFICES ASSUME pm' = "idle" PROVE frozen' \cup freezing' \subseteq asked'
    BY DEF NobodyForgotten
  <2>0. frozen \cup freezing \subseteq asked  BY <1>2 DEF FInv, NobodyForgotten
  <2>1. ASSUME NEW t \in Task, NEW g \in Group \cup {Root}, Attach(t, g)
        PROVE frozen' \cup freezing' \subseteq asked'
    BY <2>0, <2>1 DEF Attach, task_vars
  <2>2. ASSUME NEW g \in Group, freezer_read(g)
        PROVE frozen' \cup freezing' \subseteq asked'
    BY <2>0, <2>2 DEF freezer_read, task_vars
  <2>3. ASSUME NEW g \in Group, NEW goal \in {"THAWED", "FROZEN"}, WriteNoChange(g, goal)
        PROVE frozen' \cup freezing' \subseteq asked'
    BY <2>0, <2>3 DEF WriteNoChange, task_vars
  <2>4. ASSUME NEW g \in Group, try_to_freeze_cgroup(g)
        PROVE frozen' \cup freezing' \subseteq asked'
    BY <2>0, <2>4 DEF try_to_freeze_cgroup, freeze_task, Requested
  <2>5. ASSUME NEW g \in Group, unfreeze_cgroup(g)
        PROVE frozen' \cup freezing' \subseteq asked'
    BY <1>1, <2>0, <2>5 DEF unfreeze_cgroup, thaw_process, TaskInv, Types
  <2> QED BY <2>1, <2>2, <2>3, <2>4, <2>5 DEF CgroupStep
<1> QED BY <1>1, <1>2, <1>3, <1>4 DEF FInv, TaskInv, Flags

\* A step of a task keeps it, since a quiet task stays quiet.
LEMMA TaskStepFInv ==
  ASSUME FInv, NEW t \in Task, FreezeStep(t) \/ TaskStep(t) PROVE FInv'
<1>1. TaskInv /\ TaskInv'
  BY FreezeStepTaskInv, TaskStepTaskInv DEF FInv, TaskInv
<1>2. pm' = pm /\ todo' = todo /\ oom_killer_disabled' = oom_killer_disabled
  BY DEF FreezeStep, TaskStep, TryToFreeze, LeaveRefrigerator, VforkDone, Continued, Moves,
         Sleep, Wake, Stop, Continue, Vfork, Exit, SignalArrives, recalc_sigpending, Fork, pm_vars
<1>3. WalksDone'
  <2>1. ASSUME \A u \in Alive \ Kthread : Quiet(u) PROVE \A u \in Alive' \ Kthread : Quiet(u)'
    <3>1. Alive' \subseteq Alive  BY <1>1, <2>1, NobodyBorn
    <3>2. \A u \in Task \ Kthread : u \in Alive' /\ u \in Alive => Quiet(u)'
      BY <1>1, <2>1, TaskKeepsQuiet
    <3> QED BY <3>1, <3>2
  <2>2. ASSUME \A u \in Alive : Quiet(u) PROVE \A u \in Alive' : Quiet(u)'
    <3>1. Alive' \subseteq Alive  BY <1>1, <2>2, NobodyBorn
    <3>2. \A u \in Task : u \in Alive' /\ u \in Alive => Quiet(u)'
      BY <1>1, <2>2, TaskKeepsQuiet
    <3> QED BY <3>1, <3>2
  <2> QED BY <1>2, <2>1, <2>2 DEF FInv, WalksDone
<1>4. NobodyForgotten'
  <2> SUFFICES ASSUME pm' = "idle" PROVE frozen' \cup freezing' \subseteq asked'
    BY DEF NobodyForgotten
  <2>0. frozen \cup freezing \subseteq asked  BY <1>2 DEF FInv, NobodyForgotten
  <2>1. CASE FreezeStep(t)
    BY <2>0, <2>1 DEF FreezeStep, TryToFreeze, LeaveRefrigerator, VforkDone, Continued, Moves,
                      refrigerator, group_vars
  <2>2. ASSUME NEW c \in Task, Fork(t, c) PROVE frozen' \cup freezing' \subseteq asked'
    BY <2>0, <2>2 DEF Fork, freezer_fork
  <2>3. CASE Exit(t)
    BY <1>1, <2>0, <2>3 DEF Exit, TaskInv, Types
  <2>4. CASE Sleep(t) \/ Wake(t) \/ Stop(t) \/ Continue(t) \/ Vfork(t) \/ SignalArrives(t)
             \/ recalc_sigpending(t)
    BY <2>0, <2>4 DEF Sleep, Wake, Stop, Continue, Vfork, Moves, SignalArrives, recalc_sigpending,
                      group_vars
  <2> QED BY <2>1, <2>2, <2>3, <2>4 DEF TaskStep
<1> QED BY <1>1, <1>2, <1>3, <1>4 DEF FInv, TaskInv, Flags

\* A step that changes nothing keeps it.
LEMMA StutterFInv == ASSUME FInv, UNCHANGED freezer_vars PROVE FInv'
  BY DEF FInv, Types, Flags, Awake, MembersAsked, WalksDone, NobodyForgotten, Quiet, freezer_vars,
         task_vars, group_vars, pm_vars

-----------------------------------------------------------------------------
\* The inductive invariant: types and flags agree, requested tasks are awake,
\* members of freezing groups were asked, and finished walks stay finished.
THEOREM FreezerInvariant == FreezerSpec => []FInv
<1>1. FInv /\ [FreezerNext]_freezer_vars => FInv'
  BY PmStepFInv, CgroupStepFInv, TaskStepFInv, StutterFInv DEF FreezerNext
<1> QED BY <1>1, InitFInv, PTL DEF FreezerSpec

\* Type correctness of the freezer: PF_FROZEN only in the refrigerator, never
\* together with TIF_FREEZE, and the OOM killer off exactly while frozen.
THEOREM FreezerTypeCorrect == FreezerSpec => []FreezerTypeOK
<1>1. FInv => FreezerTypeOK
  BY DEF FInv, Types, Flags, FreezerTypeOK
<1> QED BY <1>1, FreezerInvariant, PTL

\* freeze_processes succeeds only when nothing runs any more, for any number of
\* tasks and control groups.
THEOREM FreezeIsComplete == FreezerSpec => []AllQuiet
<1>1. FInv => AllQuiet
  BY DEF FInv, WalksDone, AllQuiet
<1> QED BY <1>1, FreezerInvariant, PTL

\* Nobody but the tasks of control groups is frozen after a suspend.
THEOREM ThawIsComplete == FreezerSpec => []NobodyForgotten
<1>1. FInv => NobodyForgotten
  BY DEF FInv
<1> QED BY <1>1, FreezerInvariant, PTL

\* No task sleeps through a freeze request.
THEOREM RequestsAreNoticed == FreezerSpec => []RequestNoticed
<1>1. FInv => RequestNoticed
  BY DEF FInv, Awake, RequestNoticed
<1> QED BY <1>1, FreezerInvariant, PTL

\* Suspend never thaws a task of a FROZEN control group.
THEOREM GroupsAreSpared == FreezerSpec => FrozenGroupsSpared
<1> DEFINE Spared == \A t \in frozen \ frozen' :
                       state[group[t]] = "FROZEN" => state'[group[t]] = "THAWED"
<1>1. FInv /\ [FreezerNext]_freezer_vars => [Spared]_freezer_vars
  <2> SUFFICES ASSUME FInv, FreezerNext PROVE Spared
    OBVIOUS
  <2>1. ASSUME NEW t \in Task, FreezeStep(t) \/ TaskStep(t) PROVE frozen \subseteq frozen'
    BY <2>1 DEF FreezeStep, TaskStep, TryToFreeze, LeaveRefrigerator, VforkDone, Continued, Moves,
         Sleep, Wake, Stop, Continue, Vfork, Exit, SignalArrives, recalc_sigpending, Fork,
         refrigerator
  <2>2. CASE PmStep
    BY <2>2 DEF PmStep, freeze_processes, WalkAgain, UserTasksFrozen, AllTasksFrozen, FreezeFails,
                thaw_processes, FreezeWalk, freeze_task, thaw_process, thaw_tasks, cgroup_frozen,
                task_vars
  <2>3. ASSUME NEW g \in Group, unfreeze_cgroup(g) PROVE Spared
    BY <2>3 DEF unfreeze_cgroup, thaw_process, SetState, Members, FInv, Types
  <2>4. CASE CgroupStep
    BY <2>3, <2>4 DEF CgroupStep, Attach, freezer_read, WriteNoChange, try_to_freeze_cgroup,
                      freeze_task, task_vars
  <2> QED BY <2>1, <2>2, <2>4 DEF FreezerNext
<1> QED BY <1>1, FreezerInvariant, PTL DEF FreezerSpec, FrozenGroupsSpared

-----------------------------------------------------------------------------
(* Devices.                                                                *)

\* In a list with the parents par, every device comes after its parent.
Ordered(s, par) == \A i, j \in DOMAIN s : par[s[i]] = s[j] => j < i

\* No device of list s has its parent in list t.
NoParentIn(s, t) == \A d \in ToSet(s) : parent[d] \notin ToSet(t)

\* The devices of list s are in one of the states S.
Shows(s, S) == \A d \in ToSet(s) : status[d] \in S

\* A device is on one list at most, and once.
Lists ==
  /\ dpm_list \in Seq(Device) /\ list \in Seq(Device)
  /\ IsInjective(dpm_list) /\ IsInjective(list) /\ ToSet(dpm_list) \cap ToSet(list) = {}

\* The local list is in use during a walk only, the device being called has not
\* left dpm_list for it, and transition_started is set from the first prepare on.
WalkInv ==
  /\ pc \in {"idle", "suspended", "noirq", "woken"} => list = <<>>
  /\ dev \notin ToSet(list)
  /\ pc \in {"prepare", "preparing", "suspend", "suspending", "suspended", "noirq"}
       => transition_started

\* The states of the devices on either list, walk by walk.  A device may be back on
\* dpm_list with the state of the local list: device_pm_move_last puts it there.
StatusInv ==
  /\ pc = "idle" => Shows(dpm_list, {"ON"})
  /\ pc \in {"prepare", "preparing"} =>
       /\ Shows(dpm_list, {"ON", "PREPARING", "SUSPENDING"})
       /\ Shows(list, {"SUSPENDING"})
  /\ pc \in {"suspend", "suspending"} =>
       Shows(dpm_list, {"SUSPENDING", "OFF"}) /\ Shows(list, {"OFF"})
  /\ pc = "suspended" => Shows(dpm_list, {"OFF"})
  /\ pc = "noirq" => Shows(dpm_list, {"OFF_IRQ"})
  /\ pc = "woken" => Shows(dpm_list, {"ON", "OFF"})
  /\ pc \in {"resume", "resuming"} =>
       /\ Shows(dpm_list, {"ON", "PREPARING", "RESUMING", "SUSPENDING", "OFF"})
       /\ Shows(list, {"ON", "PREPARING", "RESUMING"})
  /\ pc \in {"complete", "completing"} =>
       Shows(dpm_list, {"ON", "PREPARING", "RESUMING"}) /\ Shows(list, {"ON"})
  /\ pc = "resuming" /\ dev \in Listed => status[dev] = "RESUMING"
  /\ pc = "completing" /\ dev \in Listed => status[dev] = "ON"
  /\ asleep = {d \in Listed : status[d] \in {"OFF", "OFF_IRQ"}}

\* dpm_prepare and dpm_resume move devices from the front of dpm_list to the back of
\* the local list, dpm_suspend and dpm_complete from its back to the front of the
\* local list: the lists keep their order, and the order of one before the other.
OrderInv ==
  ~late =>
    /\ Ordered(dpm_list, parent) /\ Ordered(list, parent)
    /\ pc \in {"prepare", "preparing", "resume", "resuming"} => NoParentIn(list, dpm_list)
    /\ pc \in {"suspend", "suspending", "complete", "completing"} => NoParentIn(dpm_list, list)
    /\ pc \in {"preparing", "resuming"} /\ dev \in Listed => parent[dev] \notin ToSet(dpm_list)
    /\ pc \in {"suspending", "completing"} => \A d \in ToSet(dpm_list) : parent[d] # dev
    /\ \A d \in Listed : parent[d] \in asleep => d \in asleep

\* The inductive invariant.
StateInv == DeviceTypeOK /\ WalkInv /\ StatusInv
DeviceInv == StateInv /\ OrderInv

-----------------------------------------------------------------------------
(* Lists of devices.                                                       *)

\* The states in the order of enum dpm_state.
LEMMA RankFacts ==
  /\ Rank("INVALID") = 1 /\ Rank("ON") = 2 /\ Rank("PREPARING") = 3 /\ Rank("RESUMING") = 4
  /\ Rank("SUSPENDING") = 5 /\ Rank("OFF") = 6 /\ Rank("OFF_IRQ") = 7
<1>1. /\ Len(Status) = 7
      /\ Status[1] = "INVALID" /\ Status[2] = "ON" /\ Status[3] = "PREPARING"
      /\ Status[4] = "RESUMING" /\ Status[5] = "SUSPENDING" /\ Status[6] = "OFF"
      /\ Status[7] = "OFF_IRQ"
  BY DEF Status
<1>2. ASSUME NEW n \in 1 .. 7 PROVE Rank(Status[n]) = n
  <2>1. \A i \in 1 .. 7 : Status[i] = Status[n] => i = n
    BY <1>1
  <2> QED BY <1>1, <2>1 DEF Rank
<1> QED BY <1>1, <1>2

\* The states of enum dpm_state.
LEMMA StatusSet ==
  ToSet(Status) = {"INVALID", "ON", "PREPARING", "RESUMING", "SUSPENDING", "OFF", "OFF_IRQ"}
<1>1. /\ DOMAIN Status = 1 .. 7
      /\ Status[1] = "INVALID" /\ Status[2] = "ON" /\ Status[3] = "PREPARING"
      /\ Status[4] = "RESUMING" /\ Status[5] = "SUSPENDING" /\ Status[6] = "OFF"
      /\ Status[7] = "OFF_IRQ"
  BY DEF Status
<1>2. 1 .. 7 = {1, 2, 3, 4, 5, 6, 7}
  OBVIOUS
<1> QED BY <1>1, <1>2 DEF ToSet

\* list_del takes a device out of a list and leaves the others in their order.
LEMMA DelFacts ==
  ASSUME NEW s \in Seq(Device), IsInjective(s), NEW d
  PROVE  /\ RemoveFirst(s, d) \in Seq(Device) /\ IsInjective(RemoveFirst(s, d))
         /\ ToSet(RemoveFirst(s, d)) = ToSet(s) \ {d}
         /\ \A par, new : Ordered(s, par) /\ (\A x \in ToSet(s) \ {d} : new[x] = par[x])
                            => Ordered(RemoveFirst(s, d), new)
<1>1. CASE ~ \E i \in 1 .. Len(s) : s[i] = d
  BY <1>1 DEF RemoveFirst, ToSet, Ordered
<1>2. CASE \E i \in 1 .. Len(s) : s[i] = d
  <2>1. PICK p \in 1 .. Len(s) : s[p] = d
    BY <1>2
  <2>2. \A i \in 1 .. Len(s) : s[i] = d <=> i = p
    BY <2>1 DEF IsInjective
  <2>3. SelectInSeq(s, LAMBDA v : v = d) = p
    <3>1. {i \in 1 .. Len(s) : s[i] = d} = {p}
      BY <2>2
    <3>2. Min({p}) = p
      BY DEF Min
    <3> QED BY <3>1, <3>2 DEF SelectInSeq
  <2> DEFINE r == RemoveFirst(s, d)
  <2> DEFINE front == SubSeq(s, 1, p - 1)
             back == SubSeq(s, p + 1, Len(s))
  <2>4. /\ front \in Seq(Device) /\ Len(front) = p - 1
        /\ \A i \in 1 .. p - 1 : front[i] = s[i]
    OBVIOUS
  <2>5. /\ back \in Seq(Device) /\ Len(back) = Len(s) - p
        /\ \A i \in 1 .. Len(s) - p : back[i] = s[p + i]
    OBVIOUS
  <2>6. r = front \o back
    BY <1>2, <2>3 DEF RemoveFirst, RemoveAt
  <2> HIDE DEF front, back, r
  <2>7. r \in Seq(Device) /\ Len(r) = Len(s) - 1
    BY <2>4, <2>5, <2>6
  <2>8. ASSUME NEW i \in 1 .. Len(s) - 1
        PROVE  r[i] = IF i < p THEN s[i] ELSE s[i + 1]
    <3>1. CASE i < p
      BY <2>4, <2>5, <2>6, <3>1
    <3>2. CASE i >= p
      <4>1. r[i] = back[i - (p - 1)]
        BY <2>4, <2>5, <2>6, <3>2
      <4>2. back[i - (p - 1)] = s[p + (i - (p - 1))]
        BY <2>5, <3>2
      <4> QED BY <3>2, <4>1, <4>2
    <3> QED BY <3>1, <3>2
  <2>9. DOMAIN r = 1 .. Len(s) - 1 /\ DOMAIN s = 1 .. Len(s)
    BY <2>7
  <2>10. IsInjective(r)
    <3> SUFFICES ASSUME NEW i \in 1 .. Len(s) - 1, NEW j \in 1 .. Len(s) - 1, r[i] = r[j]
                 PROVE  i = j
      BY <2>9 DEF IsInjective
    <3>1. \A a, b \in 1 .. Len(s) : s[a] = s[b] => a = b
      BY <2>9 DEF IsInjective
    <3> QED BY <2>8, <3>1
  <2>11. ToSet(r) = ToSet(s) \ {d}
    <3>1. \A x \in ToSet(r) : x \in ToSet(s) \ {d}
      <4> SUFFICES ASSUME NEW i \in 1 .. Len(s) - 1 PROVE r[i] \in ToSet(s) \ {d}
        BY <2>9 DEF ToSet
      <4>1. CASE i < p
        BY <2>2, <2>8, <2>9, <4>1 DEF ToSet
      <4>2. CASE i >= p
        <5>1. i + 1 \in 1 .. Len(s) /\ i + 1 # p /\ r[i] = s[i + 1]
          BY <2>8, <4>2
        <5> QED BY <2>2, <2>9, <5>1 DEF ToSet
      <4> QED BY <4>1, <4>2
    <3>2. \A x \in ToSet(s) \ {d} : x \in ToSet(r)
      <4> SUFFICES ASSUME NEW i \in 1 .. Len(s), s[i] # d PROVE s[i] \in ToSet(r)
        BY <2>9 DEF ToSet
      <4>1. CASE i < p
        BY <2>8, <2>9, <4>1 DEF ToSet
      <4>2. CASE i > p
        <5>1. i - 1 \in 1 .. Len(s) - 1 /\ r[i - 1] = s[i]
          BY <2>8, <4>2
        <5> QED BY <2>9, <5>1 DEF ToSet
      <4> QED BY <2>1, <4>1, <4>2
    <3> QED BY <3>1, <3>2
  <2>12. ASSUME NEW par, NEW new, Ordered(s, par),
                \A x \in ToSet(s) \ {d} : new[x] = par[x]
         PROVE  Ordered(r, new)
    <3> SUFFICES ASSUME NEW i \in 1 .. Len(s) - 1, NEW j \in 1 .. Len(s) - 1,
                        new[r[i]] = r[j]
                 PROVE  j < i
      BY <2>9 DEF Ordered
    <3> DEFINE a == IF i < p THEN i ELSE i + 1
               b == IF j < p THEN j ELSE j + 1
    <3>1. a \in 1 .. Len(s) /\ b \in 1 .. Len(s) /\ r[i] = s[a] /\ r[j] = s[b]
      BY <2>8
    <3>2. r[i] \in ToSet(s) \ {d}
      BY <2>9, <2>11 DEF ToSet
    <3>3. b < a
      BY <2>9, <2>12, <3>1, <3>2 DEF Ordered
    <3> QED BY <3>3
  <2> QED BY <2>7, <2>10, <2>11, <2>12 DEF r
<1> QED BY <1>1, <1>2

\* Joining two lists.
LEMMA JoinFacts ==
  ASSUME NEW s \in Seq(Device), NEW t \in Seq(Device), IsInjective(s), IsInjective(t),
         ToSet(s) \cap ToSet(t) = {}
  PROVE  /\ s \o t \in Seq(Device) /\ IsInjective(s \o t)
         /\ ToSet(s \o t) = ToSet(s) \cup ToSet(t)
         /\ \A par : Ordered(s, par) /\ Ordered(t, par)
                       /\ (\A x \in ToSet(s) : par[x] \notin ToSet(t))
                         => Ordered(s \o t, par)
<1> DEFINE r == s \o t
<1>1. /\ r \in Seq(Device) /\ Len(r) = Len(s) + Len(t)
      /\ DOMAIN r = 1 .. Len(s) + Len(t)
      /\ DOMAIN s = 1 .. Len(s) /\ DOMAIN t = 1 .. Len(t)
      /\ Len(s) \in Nat /\ Len(t) \in Nat
  OBVIOUS
<1>2. \A i \in 1 .. Len(s) : r[i] = s[i] /\ s[i] \in ToSet(s)
  BY DEF ToSet
<1>3. ASSUME NEW i \in 1 .. Len(s) + Len(t), i > Len(s)
      PROVE  i - Len(s) \in 1 .. Len(t) /\ r[i] = t[i - Len(s)] /\ t[i - Len(s)] \in ToSet(t)
  BY <1>1, <1>3 DEF ToSet
<1> HIDE DEF r
<1>4. IsInjective(r)
  <2> SUFFICES ASSUME NEW i \in 1 .. Len(s) + Len(t), NEW j \in 1 .. Len(s) + Len(t), r[i] = r[j]
               PROVE  i = j
    BY <1>1 DEF IsInjective
  <2>1. CASE i <= Len(s) /\ j <= Len(s)
    BY <1>1, <1>2, <2>1 DEF IsInjective
  <2>2. CASE i > Len(s) /\ j > Len(s)
    <3>1. i - Len(s) = j - Len(s)
      BY <1>1, <1>3, <2>2 DEF IsInjective
    <3> QED BY <1>1, <3>1
  <2>3. CASE i <= Len(s) /\ j > Len(s)
    BY <1>1, <1>2, <1>3, <2>3
  <2>4. CASE i > Len(s) /\ j <= Len(s)
    BY <1>1, <1>2, <1>3, <2>4
  <2> QED BY <1>1, <2>1, <2>2, <2>3, <2>4
<1>5. ToSet(r) = ToSet(s) \cup ToSet(t)
  <2>1. \A x \in ToSet(r) : x \in ToSet(s) \cup ToSet(t)
    <3> SUFFICES ASSUME NEW i \in 1 .. Len(s) + Len(t) PROVE r[i] \in ToSet(s) \cup ToSet(t)
      BY <1>1 DEF ToSet
    <3>1. CASE i <= Len(s)
      BY <1>1, <1>2, <3>1
    <3>2. CASE i > Len(s)
      BY <1>3, <3>2
    <3> QED BY <1>1, <3>1, <3>2
  <2>2. \A x \in ToSet(s) : x \in ToSet(r)
    <3> SUFFICES ASSUME NEW i \in 1 .. Len(s) PROVE s[i] \in ToSet(r)
      BY <1>1 DEF ToSet
    <3>1. i \in DOMAIN r /\ r[i] = s[i]
      BY <1>1, <1>2
    <3> QED BY <3>1 DEF ToSet
  <2>3. \A x \in ToSet(t) : x \in ToSet(r)
    <3> SUFFICES ASSUME NEW i \in 1 .. Len(t) PROVE t[i] \in ToSet(r)
      BY <1>1 DEF ToSet
    <3>1. Len(s) + i \in 1 .. Len(s) + Len(t) /\ Len(s) + i > Len(s) /\ (Len(s) + i) - Len(s) = i
      BY <1>1
    <3>2. r[Len(s) + i] = t[i]
      BY <1>3, <3>1
    <3> QED BY <1>1, <3>1, <3>2 DEF ToSet
  <2> QED BY <2>1, <2>2, <2>3
<1>6. ASSUME NEW par, Ordered(s, par), Ordered(t, par),
             \A x \in ToSet(s) : par[x] \notin ToSet(t)
      PROVE  Ordered(r, par)
  <2> SUFFICES ASSUME NEW i \in 1 .. Len(s) + Len(t), NEW j \in 1 .. Len(s) + Len(t),
                      par[r[i]] = r[j]
               PROVE  j < i
    BY <1>1 DEF Ordered
  <2>1. CASE i <= Len(s) /\ j <= Len(s)
    BY <1>1, <1>2, <1>6, <2>1 DEF Ordered
  <2>2. CASE i > Len(s) /\ j > Len(s)
    <3>1. j - Len(s) < i - Len(s)
      BY <1>1, <1>3, <1>6, <2>2 DEF Ordered
    <3> QED BY <1>1, <3>1
  <2>3. CASE i <= Len(s) /\ j > Len(s)
    BY <1>1, <1>2, <1>3, <1>6, <2>3
  <2>4. CASE i > Len(s) /\ j <= Len(s)
    BY <1>1, <2>4
  <2> QED BY <1>1, <2>1, <2>2, <2>3, <2>4
<1> QED BY <1>1, <1>4, <1>5, <1>6 DEF r

\* A list of one device.
LEMMA OneFacts ==
  ASSUME NEW d \in Device
  PROVE  /\ <<d>> \in Seq(Device) /\ IsInjective(<<d>>) /\ ToSet(<<d>>) = {d}
         /\ \A par : par[d] # d => Ordered(<<d>>, par)
<1>1. <<d>> \in Seq(Device) /\ DOMAIN <<d>> = {1} /\ <<d>>[1] = d
  OBVIOUS
<1> QED BY <1>1 DEF IsInjective, ToSet, Ordered

\* The empty list.
LEMMA NoneFacts ==
  /\ <<>> \in Seq(Device) /\ IsInjective(<<>>) /\ ToSet(<<>>) = {}
  /\ \A par : Ordered(<<>>, par)
<1>1. <<>> \in Seq(Device) /\ DOMAIN <<>> = {}
  OBVIOUS
<1> QED BY <1>1 DEF IsInjective, ToSet, Ordered

\* list_add_tail of a device that is on no list and has no child on this one.
LEMMA AddTailFacts ==
  ASSUME NEW s \in Seq(Device), IsInjective(s), NEW d \in Device, d \notin ToSet(s)
  PROVE  /\ Append(s, d) \in Seq(Device) /\ IsInjective(Append(s, d))
         /\ ToSet(Append(s, d)) = ToSet(s) \cup {d}
         /\ \A par : Ordered(s, par) /\ par[d] # d /\ (\A x \in ToSet(s) : par[x] # d)
                       => Ordered(Append(s, d), par)
<1>1. Append(s, d) = s \o <<d>>
  OBVIOUS
<1>2. /\ <<d>> \in Seq(Device) /\ IsInjective(<<d>>) /\ ToSet(<<d>>) = {d}
      /\ \A par : par[d] # d => Ordered(<<d>>, par)
  BY OneFacts
<1> DEFINE one == <<d>>
<1> HIDE DEF one
<1>3. /\ one \in Seq(Device) /\ IsInjective(one) /\ ToSet(one) = {d}
      /\ \A par : par[d] # d => Ordered(one, par)
  BY <1>2 DEF one
<1>4. /\ s \o one \in Seq(Device) /\ IsInjective(s \o one)
      /\ ToSet(s \o one) = ToSet(s) \cup ToSet(one)
      /\ \A par : Ordered(s, par) /\ Ordered(one, par)
                    /\ (\A x \in ToSet(s) : par[x] \notin ToSet(one))
                      => Ordered(s \o one, par)
  BY <1>3, JoinFacts
<1>5. Append(s, d) = s \o one
  BY <1>1 DEF one
<1> QED BY <1>3, <1>4, <1>5

\* list_add of a device that is on no list and whose parent is not on this one.
LEMMA AddHeadFacts ==
  ASSUME NEW s \in Seq(Device), IsInjective(s), NEW d \in Device, d \notin ToSet(s)
  PROVE  /\ <<d>> \o s \in Seq(Device) /\ IsInjective(<<d>> \o s)
         /\ ToSet(<<d>> \o s) = ToSet(s) \cup {d}
         /\ \A par : Ordered(s, par) /\ par[d] # d /\ par[d] \notin ToSet(s)
                       => Ordered(<<d>> \o s, par)
<1> DEFINE one == <<d>>
<1>1. /\ one \in Seq(Device) /\ IsInjective(one) /\ ToSet(one) = {d}
      /\ \A par : par[d] # d => Ordered(one, par)
  BY OneFacts
<1> HIDE DEF one
<1>2. /\ one \o s \in Seq(Device) /\ IsInjective(one \o s)
      /\ ToSet(one \o s) = ToSet(one) \cup ToSet(s)
      /\ \A par : Ordered(one, par) /\ Ordered(s, par)
                    /\ (\A x \in ToSet(one) : par[x] \notin ToSet(s))
                      => Ordered(one \o s, par)
  BY <1>1, JoinFacts
<1> QED BY <1>1, <1>2 DEF one

\* list_move of a device without children to the place after its new parent.
LEMMA InsertFacts ==
  ASSUME NEW s \in Seq(Device), IsInjective(s), NEW d \in Device, d \notin ToSet(s),
         NEW p \in 1 .. Len(s)
  PROVE  /\ InsertAt(s, p + 1, d) \in Seq(Device) /\ IsInjective(InsertAt(s, p + 1, d))
         /\ ToSet(InsertAt(s, p + 1, d)) = ToSet(s) \cup {d}
         /\ \A par : Ordered(s, par) /\ par[d] = s[p] /\ (\A x \in ToSet(s) : par[x] # d)
                       => Ordered(InsertAt(s, p + 1, d), par)
<1> DEFINE r == InsertAt(s, p + 1, d)
<1> DEFINE front == SubSeq(s, 1, p)
           back == SubSeq(s, p + 1, Len(s))
<1>1. /\ front \in Seq(Device) /\ Len(front) = p
      /\ \A i \in 1 .. p : front[i] = s[i]
  OBVIOUS
<1>2. /\ back \in Seq(Device) /\ Len(back) = Len(s) - p
      /\ \A i \in 1 .. Len(s) - p : back[i] = s[p + i]
  OBVIOUS
<1>3. r = (front \o <<d>>) \o back
  <2>1. (p + 1) - 1 = p
    OBVIOUS
  <2>2. r = (SubSeq(s, 1, (p + 1) - 1) \o <<d>>) \o back
    BY ZenonT(20) DEF InsertAt
  <2> QED BY ONLY <2>1, <2>2
<1> HIDE DEF front, back, r
<1> DEFINE head == front \o <<d>>
<1>4. /\ head \in Seq(Device) /\ Len(head) = p + 1
      /\ \A i \in 1 .. p + 1 : head[i] = IF i <= p THEN s[i] ELSE d
  BY <1>1
<1>5. r = head \o back
  BY <1>3
<1> HIDE DEF head
<1>6. r \in Seq(Device) /\ Len(r) = Len(s) + 1
  BY <1>2, <1>4, <1>5
<1>7. ASSUME NEW i \in 1 .. Len(s) + 1
      PROVE  r[i] = IF i <= p THEN s[i] ELSE IF i = p + 1 THEN d ELSE s[i - 1]
  <2>1. CASE i <= p + 1
    <3>1. r[i] = head[i]
      BY <1>2, <1>4, <1>5, <2>1
    <3> QED BY <1>4, <2>1, <3>1
  <2>2. CASE i > p + 1
    <3>1. r[i] = back[i - (p + 1)]
      BY <1>2, <1>4, <1>5, <2>2
    <3>2. back[i - (p + 1)] = s[p + (i - (p + 1))]
      BY <1>2, <2>2
    <3> QED BY <2>2, <3>1, <3>2
  <2> QED BY <2>1, <2>2
<1>8. DOMAIN r = 1 .. Len(s) + 1 /\ DOMAIN s = 1 .. Len(s)
  BY <1>6
<1>9. \A i \in 1 .. Len(s) : s[i] \in ToSet(s) /\ s[i] # d
  BY DEF ToSet
<1>10. IsInjective(r)
  <2> SUFFICES ASSUME NEW i \in 1 .. Len(s) + 1, NEW j \in 1 .. Len(s) + 1, r[i] = r[j]
               PROVE  i = j
    BY <1>8 DEF IsInjective
  <2>1. \A a, b \in 1 .. Len(s) : s[a] = s[b] => a = b
    BY <1>8 DEF IsInjective
  <2> QED BY <1>7, <1>9, <2>1
<1>11. ToSet(r) = ToSet(s) \cup {d}
  <2>1. \A x \in ToSet(r) : x \in ToSet(s) \cup {d}
    <3> SUFFICES ASSUME NEW i \in 1 .. Len(s) + 1 PROVE r[i] \in ToSet(s) \cup {d}
      BY <1>8 DEF ToSet
    <3> QED BY <1>7, <1>9
  <2>2. \A x \in ToSet(s) : x \in ToSet(r)
    <3> SUFFICES ASSUME NEW i \in 1 .. Len(s) PROVE s[i] \in ToSet(r)
      BY <1>8 DEF ToSet
    <3> DEFINE k == IF i <= p THEN i ELSE i + 1
    <3>1. k \in 1 .. Len(s) + 1 /\ r[k] = s[i]
      BY <1>7
    <3> QED BY <1>8, <3>1 DEF ToSet
  <2>3. d \in ToSet(r)
    <3>1. p + 1 \in 1 .. Len(s) + 1 /\ r[p + 1] = d
      BY <1>7
    <3> QED BY <1>8, <3>1 DEF ToSet
  <2> QED BY <2>1, <2>2, <2>3
<1>12. ASSUME NEW par, Ordered(s, par), par[d] = s[p], \A x \in ToSet(s) : par[x] # d
       PROVE  Ordered(r, par)
  <2> SUFFICES ASSUME NEW i \in 1 .. Len(s) + 1, NEW j \in 1 .. Len(s) + 1,
                      par[r[i]] = r[j]
               PROVE  j < i
    BY <1>8 DEF Ordered
  <2>1. \A a, b \in 1 .. Len(s) : par[s[a]] = s[b] => b < a
    BY <1>8, <1>12 DEF Ordered
  <2>2. CASE i = p + 1
    <3>1. r[j] = s[p]
      BY <1>7, <1>12, <2>2
    <3>2. j = p
      <4>1. \A a, b \in 1 .. Len(s) : s[a] = s[b] => a = b
        BY <1>8 DEF IsInjective
      <4> QED BY <1>7, <1>9, <3>1, <4>1
    <3> QED BY <2>2, <3>2
  <2>3. CASE i # p + 1
    <3> DEFINE a == IF i <= p THEN i ELSE i - 1
               b == IF j <= p THEN j ELSE j - 1
    <3>1. a \in 1 .. Len(s) /\ r[i] = s[a]
      BY <1>7, <2>3
    <3>2. j # p + 1
      BY <1>7, <1>9, <1>12, <3>1
    <3>3. b \in 1 .. Len(s) /\ r[j] = s[b]
      BY <1>7, <3>2
    <3>4. b < a
      BY <2>1, <3>1, <3>3
    <3> QED BY <2>3, <3>2, <3>4
  <2> QED BY <2>2, <2>3
<1> QED BY <1>6, <1>10, <1>11, <1>12 DEF r

\* The ends of a list: nothing in it is the parent of the first device, or the child
\* of the last.
LEMMA EndFacts ==
  ASSUME NEW s \in Seq(Device), s # <<>>
  PROVE  /\ Head(s) \in Device /\ Head(s) \in ToSet(s)
         /\ Last(s) \in Device /\ Last(s) \in ToSet(s)
         /\ \A par : Ordered(s, par) =>
              par[Head(s)] \notin ToSet(s) /\ \A x \in ToSet(s) : par[x] # Last(s)
<1>1. Len(s) \in Nat /\ Len(s) > 0 /\ DOMAIN s = 1 .. Len(s)
  OBVIOUS
<1>2. Head(s) = s[1] /\ Last(s) = s[Len(s)]
  BY DEF Last
<1>3. 1 \in DOMAIN s /\ Len(s) \in DOMAIN s
  BY <1>1
<1>4. /\ Head(s) \in Device /\ Head(s) \in ToSet(s)
      /\ Last(s) \in Device /\ Last(s) \in ToSet(s)
  BY <1>2, <1>3 DEF ToSet
<1>5. ASSUME NEW par, Ordered(s, par)
      PROVE  par[s[1]] \notin ToSet(s) /\ \A x \in ToSet(s) : par[x] # s[Len(s)]
  <2>1. \A j \in 1 .. Len(s) : par[s[1]] # s[j]
    <3> SUFFICES ASSUME NEW j \in 1 .. Len(s), par[s[1]] = s[j] PROVE FALSE
      OBVIOUS
    <3>1. j < 1
      BY <1>1, <1>3, <1>5 DEF Ordered
    <3> QED BY <3>1
  <2>2. \A i \in 1 .. Len(s) : par[s[i]] # s[Len(s)]
    <3> SUFFICES ASSUME NEW i \in 1 .. Len(s), par[s[i]] = s[Len(s)] PROVE FALSE
      OBVIOUS
    <3>1. Len(s) < i
      BY <1>1, <1>3, <1>5 DEF Ordered
    <3> QED BY <1>1, <3>1
  <2> QED BY <1>1, <2>1, <2>2 DEF ToSet
<1> QED BY <1>2, <1>4, <1>5

\* A list keeps its order when the parents of devices outside it change.
LEMMA OrderedCongruence ==
  ASSUME NEW s \in Seq(Device), NEW par, NEW new, Ordered(s, par),
         \A x \in ToSet(s) : new[x] = par[x]
  PROVE  Ordered(s, new)
<1>1. \A i \in DOMAIN s : s[i] \in ToSet(s)
  BY DEF ToSet
<1> QED BY <1>1 DEF Ordered

-----------------------------------------------------------------------------
(* What the moves of a walk do to the two lists.                           *)

\* list_move_tail to the local list.
LEMMA MoveToTailFacts ==
  ASSUME Lists, NEW d \in Device, d \notin ToSet(list), MoveToTail(d)
  PROVE  /\ Lists' /\ Listed' = Listed
         /\ ToSet(dpm_list') = ToSet(dpm_list) \ {d}
         /\ ToSet(list') = ToSet(list) \cup ({d} \cap Listed)
         /\ \A par : Ordered(dpm_list, par) => Ordered(dpm_list', par)
         /\ \A par : Ordered(list, par)
                       /\ (d \in Listed => par[d] # d /\ \A x \in ToSet(list) : par[x] # d)
                       => Ordered(list', par)
<1>1. /\ dpm_list \in Seq(Device) /\ list \in Seq(Device)
      /\ IsInjective(dpm_list) /\ IsInjective(list) /\ ToSet(dpm_list) \cap ToSet(list) = {}
  BY DEF Lists
<1>2. /\ dpm_list' = RemoveFirst(dpm_list, d)
      /\ list' = IF d \in Listed THEN Append(list, d) ELSE list
  BY DEF MoveToTail, MoveTo
<1>3. /\ dpm_list' \in Seq(Device) /\ IsInjective(dpm_list')
      /\ ToSet(dpm_list') = ToSet(dpm_list) \ {d}
      /\ \A par : Ordered(dpm_list, par) => Ordered(dpm_list', par)
  BY <1>1, <1>2, DelFacts
<1>4. /\ list' \in Seq(Device) /\ IsInjective(list')
      /\ ToSet(list') = ToSet(list) \cup ({d} \cap Listed)
      /\ \A par : Ordered(list, par)
                       /\ (d \in Listed => par[d] # d /\ \A x \in ToSet(list) : par[x] # d)
                    => Ordered(list', par)
  <2>1. CASE d \in Listed
    <3>1. list' = Append(list, d)
      BY <1>2, <2>1
    <3> QED BY <1>1, <2>1, <3>1, AddTailFacts
  <2>2. CASE d \notin Listed
    BY <1>1, <1>2, <2>2
  <2> QED BY <2>1, <2>2
<1> QED BY <1>1, <1>3, <1>4 DEF Lists, Listed

\* list_move to the local list.
LEMMA MoveToHeadFacts ==
  ASSUME Lists, NEW d \in Device, d \notin ToSet(list), MoveToHead(d)
  PROVE  /\ Lists' /\ Listed' = Listed
         /\ ToSet(dpm_list') = ToSet(dpm_list) \ {d}
         /\ ToSet(list') = ToSet(list) \cup ({d} \cap Listed)
         /\ \A par : Ordered(dpm_list, par) => Ordered(dpm_list', par)
         /\ \A par : Ordered(list, par) /\ (d \in Listed => par[d] # d /\ par[d] \notin ToSet(list))
                       => Ordered(list', par)
<1>1. /\ dpm_list \in Seq(Device) /\ list \in Seq(Device)
      /\ IsInjective(dpm_list) /\ IsInjective(list) /\ ToSet(dpm_list) \cap ToSet(list) = {}
  BY DEF Lists
<1>2. /\ dpm_list' = RemoveFirst(dpm_list, d)
      /\ list' = IF d \in Listed THEN <<d>> \o list ELSE list
  BY DEF MoveToHead, MoveTo
<1>3. /\ dpm_list' \in Seq(Device) /\ IsInjective(dpm_list')
      /\ ToSet(dpm_list') = ToSet(dpm_list) \ {d}
      /\ \A par : Ordered(dpm_list, par) => Ordered(dpm_list', par)
  BY <1>1, <1>2, DelFacts
<1>4. /\ list' \in Seq(Device) /\ IsInjective(list')
      /\ ToSet(list') = ToSet(list) \cup ({d} \cap Listed)
      /\ \A par : Ordered(list, par) /\ (d \in Listed => par[d] # d /\ par[d] \notin ToSet(list))
                    => Ordered(list', par)
  <2>1. CASE d \in Listed
    <3>1. list' = <<d>> \o list
      BY <1>2, <2>1
    <3>2. /\ <<d>> \o list \in Seq(Device) /\ IsInjective(<<d>> \o list)
          /\ ToSet(<<d>> \o list) = ToSet(list) \cup {d}
          /\ \A par : Ordered(list, par) /\ par[d] # d /\ par[d] \notin ToSet(list)
                        => Ordered(<<d>> \o list, par)
      BY <1>1, AddHeadFacts
    <3> QED BY <2>1, <3>1, <3>2
  <2>2. CASE d \notin Listed
    BY <1>1, <1>2, <2>2
  <2> QED BY <2>1, <2>2
<1> QED BY <1>1, <1>3, <1>4 DEF Lists, Listed

\* list_splice of the local list in front of dpm_list.
LEMMA SpliceFrontFacts ==
  ASSUME Lists, SpliceFront
  PROVE  /\ Lists' /\ Listed' = Listed
         /\ ToSet(dpm_list') = Listed /\ list' = <<>> /\ ToSet(list') = {}
         /\ \A par : Ordered(list', par)
         /\ \A par : Ordered(list, par) /\ Ordered(dpm_list, par)
                       /\ (\A x \in ToSet(list) : par[x] \notin ToSet(dpm_list))
                         => Ordered(dpm_list', par)
<1>1. /\ dpm_list \in Seq(Device) /\ list \in Seq(Device)
      /\ IsInjective(dpm_list) /\ IsInjective(list) /\ ToSet(list) \cap ToSet(dpm_list) = {}
  BY DEF Lists
<1>2. dpm_list' = list \o dpm_list /\ list' = <<>>
  BY DEF SpliceFront
<1>3. /\ dpm_list' \in Seq(Device) /\ IsInjective(dpm_list')
      /\ ToSet(dpm_list') = ToSet(list) \cup ToSet(dpm_list)
      /\ \A par : Ordered(list, par) /\ Ordered(dpm_list, par)
                    /\ (\A x \in ToSet(list) : par[x] \notin ToSet(dpm_list))
                      => Ordered(dpm_list', par)
  BY <1>1, <1>2, JoinFacts
<1>4. /\ list' \in Seq(Device) /\ IsInjective(list') /\ ToSet(list') = {}
      /\ \A par : Ordered(list', par)
  BY <1>2, NoneFacts
<1> QED BY <1>2, <1>3, <1>4 DEF Lists, Listed

\* list_splice of the local list at the end of dpm_list.
LEMMA SpliceBackFacts ==
  ASSUME Lists, SpliceBack
  PROVE  /\ Lists' /\ Listed' = Listed
         /\ ToSet(dpm_list') = Listed /\ list' = <<>> /\ ToSet(list') = {}
         /\ \A par : Ordered(list', par)
         /\ \A par : Ordered(dpm_list, par) /\ Ordered(list, par)
                       /\ (\A x \in ToSet(dpm_list) : par[x] \notin ToSet(list))
                         => Ordered(dpm_list', par)
<1>1. /\ dpm_list \in Seq(Device) /\ list \in Seq(Device)
      /\ IsInjective(dpm_list) /\ IsInjective(list) /\ ToSet(dpm_list) \cap ToSet(list) = {}
  BY DEF Lists
<1>2. dpm_list' = dpm_list \o list /\ list' = <<>>
  BY DEF SpliceBack
<1>3. /\ dpm_list' \in Seq(Device) /\ IsInjective(dpm_list')
      /\ ToSet(dpm_list') = ToSet(dpm_list) \cup ToSet(list)
      /\ \A par : Ordered(dpm_list, par) /\ Ordered(list, par)
                    /\ (\A x \in ToSet(dpm_list) : par[x] \notin ToSet(list))
                      => Ordered(dpm_list', par)
  BY <1>1, <1>2, JoinFacts
<1>4. /\ list' \in Seq(Device) /\ IsInjective(list') /\ ToSet(list') = {}
      /\ \A par : Ordered(list', par)
  BY <1>2, NoneFacts
<1> QED BY <1>2, <1>3, <1>4 DEF Lists, Listed

\* The facts about the types that every step below starts from.
LEMMA InvFacts ==
  ASSUME DeviceInv
  PROVE  /\ dpm_list \in Seq(Device) /\ list \in Seq(Device)
         /\ IsInjective(dpm_list) /\ IsInjective(list) /\ ToSet(dpm_list) \cap ToSet(list) = {}
         /\ status \in [Device -> ToSet(Status)]
         /\ parent \in [Device -> Device \cup {NoDevice}]
         /\ \A x \in Listed : parent[x] \in Listed \cup {NoDevice}
         /\ Listed \subseteq Device /\ NoDevice \notin Listed
         /\ Lists /\ DeviceTypeOK /\ WalkInv /\ StatusInv /\ OrderInv
<1>1. /\ dpm_list \in Seq(Device) /\ list \in Seq(Device)
      /\ Lists /\ DeviceTypeOK /\ WalkInv /\ StatusInv /\ OrderInv
  BY DEF DeviceInv, StateInv, DeviceTypeOK, Lists
<1>2. Listed \subseteq Device /\ NoDevice \notin Listed
  BY <1>1, DeviceAssumption DEF Listed, ToSet
<1> QED BY <1>1, <1>2 DEF DeviceTypeOK

-----------------------------------------------------------------------------
(* Registering, unregistering and moving devices.                          *)

\* A device that registers has a parent that is awake, and goes to the end.
LEMMA AddInv ==
  ASSUME DeviceInv, NEW d \in Device, NEW p \in Device \cup {NoDevice}, device_pm_add(d, p)
  PROVE  DeviceInv'
<1>1. /\ dpm_list \in Seq(Device) /\ list \in Seq(Device)
      /\ IsInjective(dpm_list) /\ IsInjective(list) /\ ToSet(dpm_list) \cap ToSet(list) = {}
      /\ status \in [Device -> ToSet(Status)]
      /\ parent \in [Device -> Device \cup {NoDevice}]
      /\ \A x \in Listed : parent[x] \in Listed \cup {NoDevice}
  BY DEF DeviceInv, StateInv, DeviceTypeOK
<1>2. /\ Unlocked /\ d \notin Listed /\ d # dev
      /\ dpm_list' = Append(dpm_list, d) /\ list' = list
      /\ status' = [status EXCEPT ![d] = "ON"]
      /\ parent' = [parent EXCEPT ![d] = p]
      /\ asleep' = asleep /\ pc' = pc /\ dev' = dev /\ error' = error
      /\ transition_started' = transition_started
      /\ late' = (late \/ (pc = "completing" /\ p \in ToSet(list) \cup {dev}))
  BY DEF device_pm_add, walk_vars
<1>3. d # NoDevice /\ NoDevice \notin Listed
  BY <1>1, DeviceAssumption DEF Listed, ToSet
<1>4. \/ p = NoDevice /\ ~transition_started
      \/ p \in Listed /\ status[p] \in {"INVALID", "ON", "PREPARING", "RESUMING"}
  <2>1. CASE p = NoDevice
    BY <2>1 DEF device_pm_add
  <2>2. CASE p # NoDevice
    <3>1. p \in Listed /\ Rank(status[p]) < Rank("SUSPENDING") /\ p \in Device
      BY <2>2 DEF device_pm_add
    <3>2. status[p] \in ToSet(Status)
      BY <1>1, <3>1
    <3> QED BY <3>1, <3>2, StatusSet, RankFacts
  <2> QED BY <2>1, <2>2
<1>5. /\ dpm_list' \in Seq(Device) /\ IsInjective(dpm_list')
      /\ ToSet(dpm_list') = ToSet(dpm_list) \cup {d}
      /\ \A par : Ordered(dpm_list, par) /\ par[d] # d /\ (\A x \in ToSet(dpm_list) : par[x] # d)
                    => Ordered(dpm_list', par)
  BY <1>1, <1>2, AddTailFacts DEF Listed
<1>6. Listed' = Listed \cup {d} /\ p # d
  BY <1>2, <1>3, <1>4, <1>5 DEF Listed
<1>7. DeviceTypeOK'
  <2>1. "ON" \in ToSet(Status)
    BY StatusSet
  <2> QED BY <1>1, <1>2, <1>3, <1>4, <1>5, <1>6, <2>1
          DEF DeviceInv, StateInv, DeviceTypeOK, Listed
<1>8. WalkInv'
  BY <1>2 DEF DeviceInv, StateInv, WalkInv
<1>9. StatusInv'
  <2>1. \A x \in Listed : status'[x] = status[x]
    BY <1>1, <1>2 DEF Listed, ToSet
  <2>2. status'[d] = "ON"
    BY <1>1, <1>2
  <2>3. pc \in {"idle", "preparing", "woken", "resuming", "completing"}
    <3>1. pc \notin {"suspending", "suspended"}
      BY <1>4, NoneFacts DEF DeviceInv, StateInv, WalkInv, StatusInv, Shows, Listed
    <3> QED BY <1>2, <3>1 DEF Unlocked, Calls
  <2>4. asleep' = {x \in Listed' : status'[x] \in {"OFF", "OFF_IRQ"}}
    <3>1. asleep = {x \in Listed : status[x] \in {"OFF", "OFF_IRQ"}}
      BY DEF DeviceInv, StateInv, StatusInv
    <3> QED BY <1>2, <1>6, <2>1, <2>2, <3>1
  <2>6. ASSUME NEW S, "ON" \in S, Shows(dpm_list, S) PROVE Shows(dpm_list, S)'
    BY <1>5, <2>1, <2>2, <2>6 DEF Shows, Listed
  <2>7. ASSUME NEW S, Shows(list, S) PROVE Shows(list, S)'
    BY <1>2, <2>1, <2>7 DEF Shows, Listed
  <2>8. dev' \in Listed' => dev \in Listed /\ status'[dev'] = status[dev]
    BY <1>2, <1>6, <2>1
  <2>9. StatusInv
    BY DEF DeviceInv, StateInv
  <2> QED BY <1>2, <2>3, <2>4, <2>6, <2>7, <2>8, <2>9 DEF StatusInv
<1>10. OrderInv'
  <2> SUFFICES ASSUME ~late' PROVE OrderInv'
    BY DEF OrderInv
  <2>1. ~late /\ OrderInv /\ ~(pc = "completing" /\ p \in ToSet(list) \cup {dev})
    BY <1>2 DEF DeviceInv
  <2>2. \A x \in Listed : parent'[x] = parent[x] /\ parent'[x] # d
    BY <1>1, <1>2, <1>3 DEF Listed, ToSet
  <2>3. parent'[d] = p
    BY <1>1, <1>2
  <2>4. Ordered(dpm_list', parent')
    <3>1. Ordered(dpm_list, parent')
      BY <1>1, <2>1, <2>2, OrderedCongruence DEF OrderInv, Listed
    <3> QED BY <1>5, <1>6, <2>2, <2>3, <3>1 DEF Listed
  <2>5. Ordered(list', parent')
    BY <1>1, <1>2, <2>1, <2>2, OrderedCongruence DEF OrderInv, Listed
  <2>6. NoParentIn(list, dpm_list) => NoParentIn(list, dpm_list)'
    BY <1>2, <1>5, <2>2 DEF NoParentIn, Listed
  <2>7. NoParentIn(dpm_list, list) /\ p \notin ToSet(list) => NoParentIn(dpm_list, list)'
    BY <1>2, <1>5, <2>2, <2>3 DEF NoParentIn, Listed
  <2>8. dev' \in Listed' => dev \in Listed /\ parent'[dev'] = parent[dev] /\ parent[dev] # d
    BY <1>2, <1>6, <2>2
  <2>9. pc # "suspending"
    BY <1>4 DEF DeviceInv, StateInv, WalkInv, StatusInv, Shows, Listed
  <2>10. p \notin asleep
    BY <1>3, <1>4 DEF DeviceInv, StateInv, StatusInv
  <2>11. \A x \in Listed' : parent'[x] \in asleep' => x \in asleep'
    BY <1>2, <1>6, <2>1, <2>2, <2>3, <2>10 DEF OrderInv
  <2>12. pc = "completing" => \A x \in ToSet(dpm_list') : parent'[x] # dev'
    BY <1>2, <1>5, <2>1, <2>2, <2>3 DEF OrderInv, Listed
  <2>13. pc \notin {"prepare", "resume", "suspend", "complete"}
    BY <1>2 DEF Unlocked, Calls
  <2> QED BY <1>2, <1>5, <2>1, <2>4, <2>5, <2>6, <2>7, <2>8, <2>9, <2>11, <2>12, <2>13 DEF OrderInv
<1> QED BY <1>7, <1>8, <1>9, <1>10 DEF DeviceInv, StateInv

\* A device that is unregistered has no children left, and leaves its list.
LEMMA RemoveInv ==
  ASSUME DeviceInv, NEW d \in Device, device_pm_remove(d)
  PROVE  DeviceInv'
<1>1. /\ dpm_list \in Seq(Device) /\ list \in Seq(Device)
      /\ IsInjective(dpm_list) /\ IsInjective(list) /\ ToSet(dpm_list) \cap ToSet(list) = {}
      /\ status \in [Device -> ToSet(Status)]
      /\ parent \in [Device -> Device \cup {NoDevice}]
      /\ \A x \in Listed : parent[x] \in Listed \cup {NoDevice}
      /\ Listed \subseteq Device /\ NoDevice \notin Listed
  BY InvFacts
<1>2. DeviceTypeOK /\ WalkInv /\ StatusInv /\ OrderInv
  BY InvFacts
<1>3. /\ Unlocked /\ d \in Listed
      /\ \A x \in Listed : parent[x] # d
      /\ dpm_list' = RemoveFirst(dpm_list, d) /\ list' = RemoveFirst(list, d)
      /\ status' = [status EXCEPT ![d] = "INVALID"]
      /\ parent' = [parent EXCEPT ![d] = NoDevice]
      /\ asleep' = asleep \ {d} /\ pc' = pc /\ dev' = dev /\ error' = error
      /\ transition_started' = transition_started /\ late' = late
  BY DEF device_pm_remove, walk_vars, Children
<1>4. /\ dpm_list' \in Seq(Device) /\ IsInjective(dpm_list')
      /\ ToSet(dpm_list') = ToSet(dpm_list) \ {d}
      /\ \A par, new : Ordered(dpm_list, par) /\ (\A x \in ToSet(dpm_list) \ {d} : new[x] = par[x])
                         => Ordered(dpm_list', new)
  BY <1>1, <1>3, DelFacts
<1>5. /\ list' \in Seq(Device) /\ IsInjective(list')
      /\ ToSet(list') = ToSet(list) \ {d}
      /\ \A par, new : Ordered(list, par) /\ (\A x \in ToSet(list) \ {d} : new[x] = par[x])
                         => Ordered(list', new)
  BY <1>1, <1>3, DelFacts
<1>6. Listed' = Listed \ {d}
  BY <1>4, <1>5 DEF Listed
<1>7. \A x \in Listed' : status'[x] = status[x] /\ parent'[x] = parent[x]
  BY <1>1, <1>3, <1>6
<1>8. DeviceTypeOK'
  <2>1. "INVALID" \in ToSet(Status)
    BY StatusSet
  <2>2. \A x \in Listed' : parent'[x] \in Listed' \cup {NoDevice}
    BY <1>1, <1>3, <1>6, <1>7
  <2> QED BY <1>1, <1>2, <1>3, <1>4, <1>5, <2>1, <2>2 DEF DeviceTypeOK
<1>9. WalkInv'
  <2>1. list = <<>> => list' = <<>>
    BY <1>3 DEF RemoveFirst
  <2> QED BY <1>2, <1>3, <1>5, <2>1 DEF WalkInv
<1>10. StatusInv'
  <2>1. ASSUME NEW S, Shows(dpm_list, S) PROVE Shows(dpm_list, S)'
    BY <1>4, <1>6, <1>7, <2>1 DEF Shows, Listed
  <2>2. ASSUME NEW S, Shows(list, S) PROVE Shows(list, S)'
    BY <1>5, <1>6, <1>7, <2>2 DEF Shows, Listed
  <2>3. asleep' = {x \in Listed' : status'[x] \in {"OFF", "OFF_IRQ"}}
    BY <1>2, <1>3, <1>6, <1>7 DEF StatusInv
  <2>4. dev' \in Listed' => dev \in Listed /\ status'[dev'] = status[dev]
    BY <1>3, <1>6, <1>7
  <2> QED BY <1>2, <1>3, <2>1, <2>2, <2>3, <2>4 DEF StatusInv
<1>11. OrderInv'
  <2> SUFFICES ASSUME ~late' PROVE OrderInv'
    BY DEF OrderInv
  <2>1. Ordered(dpm_list', parent')
    BY <1>2, <1>3, <1>4, <1>6, <1>7 DEF OrderInv, Listed
  <2>2. Ordered(list', parent')
    BY <1>2, <1>3, <1>5, <1>6, <1>7 DEF OrderInv, Listed
  <2>3. NoParentIn(list, dpm_list) => NoParentIn(list, dpm_list)'
    BY <1>4, <1>5, <1>6, <1>7 DEF NoParentIn, Listed
  <2>4. NoParentIn(dpm_list, list) => NoParentIn(dpm_list, list)'
    BY <1>4, <1>5, <1>6, <1>7 DEF NoParentIn, Listed
  <2>5. dev' \in Listed' => dev \in Listed /\ parent'[dev'] = parent[dev]
    BY <1>3, <1>6, <1>7
  <2>6. \A x \in ToSet(dpm_list') : x \in ToSet(dpm_list) /\ parent'[x] = parent[x]
    BY <1>4, <1>6, <1>7 DEF Listed
  <2>7. \A x \in Listed' : parent'[x] \in asleep' => x \in asleep'
    BY <1>2, <1>3, <1>6, <1>7 DEF OrderInv
  <2> QED BY <1>2, <1>3, <1>4, <2>1, <2>2, <2>3, <2>4, <2>5, <2>6, <2>7 DEF OrderInv
<1> QED BY <1>8, <1>9, <1>10, <1>11 DEF DeviceInv, StateInv

\* device_pm_move_last puts a device without children, and now without a parent, at
\* the end of dpm_list, wherever it was.
LEMMA MoveLastInv ==
  ASSUME DeviceInv, NEW d \in Device, device_pm_move_last(d)
  PROVE  DeviceInv'
<1>1. /\ dpm_list \in Seq(Device) /\ list \in Seq(Device)
      /\ IsInjective(dpm_list) /\ IsInjective(list) /\ ToSet(dpm_list) \cap ToSet(list) = {}
      /\ status \in [Device -> ToSet(Status)]
      /\ parent \in [Device -> Device \cup {NoDevice}]
      /\ \A x \in Listed : parent[x] \in Listed \cup {NoDevice}
      /\ Listed \subseteq Device /\ NoDevice \notin Listed
  BY InvFacts
<1>2. DeviceTypeOK /\ WalkInv /\ StatusInv /\ OrderInv
  BY InvFacts
<1>3. /\ Unlocked /\ d \in Listed
      /\ \A x \in Listed : parent[x] # d
      /\ dpm_list' = Append(RemoveFirst(dpm_list, d), d) /\ list' = RemoveFirst(list, d)
      /\ parent' = [parent EXCEPT ![d] = NoDevice]
      /\ status' = status /\ asleep' = asleep /\ pc' = pc /\ dev' = dev /\ error' = error
      /\ transition_started' = transition_started /\ late' = late
  BY DEF device_pm_move_last, walk_vars, Children
<1>4. parent'[d] = NoDevice /\ \A x \in Listed \ {d} : parent'[x] = parent[x]
  BY <1>1, <1>3
<1> DEFINE others == RemoveFirst(dpm_list, d)
<1>5. /\ others \in Seq(Device) /\ IsInjective(others)
      /\ ToSet(others) = ToSet(dpm_list) \ {d}
      /\ \A par, new : Ordered(dpm_list, par) /\ (\A x \in ToSet(dpm_list) \ {d} : new[x] = par[x])
                         => Ordered(others, new)
  BY <1>1, DelFacts
<1>6. dpm_list' = Append(others, d)
  BY <1>3
<1> HIDE DEF others
<1>7. /\ dpm_list' \in Seq(Device) /\ IsInjective(dpm_list')
      /\ ToSet(dpm_list') = ToSet(dpm_list) \cup {d}
      /\ \A par : Ordered(others, par) /\ par[d] # d /\ (\A x \in ToSet(others) : par[x] # d)
                    => Ordered(dpm_list', par)
  BY <1>5, <1>6, AddTailFacts
<1>8. /\ list' \in Seq(Device) /\ IsInjective(list')
      /\ ToSet(list') = ToSet(list) \ {d}
      /\ \A par, new : Ordered(list, par) /\ (\A x \in ToSet(list) \ {d} : new[x] = par[x])
                         => Ordered(list', new)
  BY <1>1, <1>3, DelFacts
<1>9. Listed' = Listed
  BY <1>3, <1>7, <1>8 DEF Listed
<1>10. DeviceTypeOK'
  <2>1. \A x \in Listed' : parent'[x] \in Listed' \cup {NoDevice}
    BY <1>1, <1>4, <1>9
  <2> QED BY <1>1, <1>2, <1>3, <1>7, <1>8, <2>1 DEF DeviceTypeOK
<1>11. WalkInv'
  <2>1. list = <<>> => list' = <<>>
    BY <1>3 DEF RemoveFirst
  <2> QED BY <1>2, <1>3, <1>8, <2>1 DEF WalkInv
<1>12. StatusInv'
  <2>1. ASSUME NEW S, Shows(dpm_list, S), Shows(list, S) PROVE Shows(dpm_list, S)'
    BY <1>3, <1>7, <2>1 DEF Shows, Listed
  <2>2. ASSUME NEW S, Shows(list, S) PROVE Shows(list, S)'
    BY <1>3, <1>8, <2>2 DEF Shows
  <2>3. ASSUME NEW S, list = <<>>, Shows(dpm_list, S) PROVE Shows(dpm_list, S)'
    BY <1>3, <1>7, <2>3, NoneFacts DEF Shows, Listed
  <2>4. ASSUME NEW S, NEW T \in SUBSET S, Shows(list, T) PROVE Shows(list, S)
    BY <2>4 DEF Shows
  <2>5. pc \in {"idle", "suspended", "woken", "preparing", "suspending", "resuming", "completing"}
    BY <1>3 DEF Unlocked, Calls
  <2>6. pc = "idle" => Shows(dpm_list, {"ON"})'
    BY <1>2, <2>3 DEF StatusInv, WalkInv
  <2>7. pc = "suspended" => Shows(dpm_list, {"OFF"})'
    BY <1>2, <2>3 DEF StatusInv, WalkInv
  <2>8. pc = "woken" => Shows(dpm_list, {"ON", "OFF"})'
    BY <1>2, <2>3 DEF StatusInv, WalkInv
  <2>9. pc = "preparing" => Shows(dpm_list, {"ON", "PREPARING", "SUSPENDING"})'
                            /\ Shows(list, {"SUSPENDING"})'
    BY <1>2, <2>1, <2>2, <2>4 DEF StatusInv
  <2>10. pc = "suspending" => Shows(dpm_list, {"SUSPENDING", "OFF"})' /\ Shows(list, {"OFF"})'
    BY <1>2, <2>1, <2>2, <2>4 DEF StatusInv
  <2>11. pc = "resuming" =>
           /\ Shows(dpm_list, {"ON", "PREPARING", "RESUMING", "SUSPENDING", "OFF"})'
           /\ Shows(list, {"ON", "PREPARING", "RESUMING"})'
    BY <1>2, <2>1, <2>2, <2>4 DEF StatusInv
  <2>12. pc = "completing" => Shows(dpm_list, {"ON", "PREPARING", "RESUMING"})'
                              /\ Shows(list, {"ON"})'
    BY <1>2, <2>1, <2>2, <2>4 DEF StatusInv
  <2> QED BY <1>2, <1>3, <1>9, <2>5, <2>6, <2>7, <2>8, <2>9, <2>10, <2>11, <2>12
          DEF StatusInv
<1>13. OrderInv'
  <2> SUFFICES ASSUME ~late' PROVE OrderInv'
    BY DEF OrderInv
  <2>1. Ordered(dpm_list', parent')
    <3>1. Ordered(others, parent')
      BY <1>2, <1>3, <1>4, <1>5 DEF OrderInv, Listed
    <3>2. parent'[d] # d /\ \A x \in ToSet(others) : parent'[x] # d
      BY <1>1, <1>3, <1>4, <1>5 DEF Listed
    <3> QED BY <1>7, <3>1, <3>2
  <2>2. Ordered(list', parent')
    BY <1>2, <1>3, <1>4, <1>8 DEF OrderInv, Listed
  <2>3. NoParentIn(list, dpm_list) => NoParentIn(list, dpm_list)'
    BY <1>3, <1>4, <1>7, <1>8 DEF NoParentIn, Listed
  <2>4. NoParentIn(dpm_list, list) => NoParentIn(dpm_list, list)'
    BY <1>1, <1>3, <1>4, <1>7, <1>8 DEF NoParentIn, Listed
  <2>5. dev \in Listed /\ parent[dev] \notin ToSet(dpm_list) => parent'[dev] \notin ToSet(dpm_list')
    BY <1>1, <1>3, <1>4, <1>7 DEF Listed
  <2>6. dev # NoDevice /\ (\A x \in ToSet(dpm_list) : parent[x] # dev)
          => \A x \in ToSet(dpm_list') : parent'[x] # dev
    BY <1>1, <1>4, <1>7 DEF Listed
  <2>7. \A x \in Listed' : parent'[x] \in asleep' => x \in asleep'
    <3>1. NoDevice \notin asleep
      BY <1>1, <1>2 DEF StatusInv
    <3> QED BY <1>2, <1>3, <1>4, <1>9, <3>1 DEF OrderInv
  <2>8. pc \in {"suspending", "completing"} => dev # NoDevice
    BY <1>2 DEF DeviceTypeOK, Calls
  <2> QED BY <1>2, <1>3, <1>9, <2>1, <2>2, <2>3, <2>4, <2>5, <2>6, <2>7, <2>8 DEF OrderInv
<1> QED BY <1>10, <1>11, <1>12, <1>13 DEF DeviceInv, StateInv

\* device_pm_move_after puts a device without children after its new parent.
LEMMA MoveAfterInv ==
  ASSUME DeviceInv, NEW d \in Device, NEW p \in Device, device_pm_move_after(d, p)
  PROVE  DeviceInv'
<1>1. /\ dpm_list \in Seq(Device) /\ list \in Seq(Device)
      /\ IsInjective(dpm_list) /\ IsInjective(list) /\ ToSet(dpm_list) \cap ToSet(list) = {}
      /\ status \in [Device -> ToSet(Status)]
      /\ parent \in [Device -> Device \cup {NoDevice}]
      /\ \A x \in Listed : parent[x] \in Listed \cup {NoDevice}
      /\ Listed \subseteq Device /\ NoDevice \notin Listed
  BY InvFacts
<1>2. DeviceTypeOK /\ WalkInv /\ StatusInv /\ OrderInv
  BY InvFacts
<1> DEFINE others == RemoveFirst(dpm_list, d)
<1>3. /\ pc = "idle" /\ d \in Listed /\ p \in Listed /\ p # d
      /\ \A x \in Listed : parent[x] # d
      /\ \E i \in 1 .. Len(others) : others[i] = p /\ dpm_list' = InsertAt(others, i + 1, d)
      /\ parent' = [parent EXCEPT ![d] = p]
      /\ status' = status /\ asleep' = asleep /\ pc' = pc /\ dev' = dev /\ error' = error
      /\ transition_started' = transition_started /\ late' = late /\ list' = list
  BY DEF device_pm_move_after, walk_vars, Children
<1>4. parent'[d] = p /\ \A x \in Listed \ {d} : parent'[x] = parent[x]
  BY <1>1, <1>3
<1>5. /\ others \in Seq(Device) /\ IsInjective(others)
      /\ ToSet(others) = ToSet(dpm_list) \ {d}
      /\ \A par, new : Ordered(dpm_list, par) /\ (\A x \in ToSet(dpm_list) \ {d} : new[x] = par[x])
                         => Ordered(others, new)
  BY <1>1, DelFacts
<1> HIDE DEF others
<1>6. PICK i \in 1 .. Len(others) : others[i] = p /\ dpm_list' = InsertAt(others, i + 1, d)
  BY <1>3
<1>7. list = <<>> /\ ToSet(list) = {} /\ d \in ToSet(dpm_list)
  BY <1>2, <1>3, NoneFacts DEF WalkInv, Listed
<1>8. /\ dpm_list' \in Seq(Device) /\ IsInjective(dpm_list')
      /\ ToSet(dpm_list') = ToSet(dpm_list)
      /\ \A par : Ordered(others, par) /\ par[d] = p /\ (\A x \in ToSet(others) : par[x] # d)
                    => Ordered(dpm_list', par)
  <2>1. d \notin ToSet(others)
    BY <1>5
  <2>2. /\ InsertAt(others, i + 1, d) \in Seq(Device) /\ IsInjective(InsertAt(others, i + 1, d))
        /\ ToSet(InsertAt(others, i + 1, d)) = ToSet(others) \cup {d}
        /\ \A par : Ordered(others, par) /\ par[d] = others[i] /\ (\A x \in ToSet(others) : par[x] # d)
                      => Ordered(InsertAt(others, i + 1, d), par)
    BY <1>5, <2>1, InsertFacts
  <2> QED BY <1>5, <1>6, <1>7, <2>2
<1>9. Listed' = Listed
  BY <1>3, <1>8 DEF Listed
<1>10. DeviceTypeOK'
  <2>1. \A x \in Listed' : parent'[x] \in Listed' \cup {NoDevice}
    BY <1>1, <1>3, <1>4, <1>9
  <2> QED BY <1>1, <1>2, <1>3, <1>8, <2>1 DEF DeviceTypeOK
<1>11. WalkInv'
  BY <1>2, <1>3 DEF WalkInv
<1>12. StatusInv'
  BY <1>2, <1>3, <1>8, <1>9 DEF StatusInv, Shows
<1>13. OrderInv'
  <2> SUFFICES ASSUME ~late' PROVE OrderInv'
    BY DEF OrderInv
  <2>1. Ordered(dpm_list', parent')
    <3>1. Ordered(others, parent')
      BY <1>2, <1>3, <1>4, <1>5 DEF OrderInv, Listed
    <3>2. \A x \in ToSet(others) : parent'[x] # d
      BY <1>3, <1>4, <1>5 DEF Listed
    <3> QED BY <1>4, <1>8, <3>1, <3>2
  <2>2. Ordered(list', parent')
    BY <1>3, <1>7, NoneFacts
  <2>3. asleep = {}
    BY <1>2, <1>3, <1>7 DEF StatusInv, Shows, Listed
  <2> QED BY <1>3, <2>1, <2>2, <2>3 DEF OrderInv
<1> QED BY <1>10, <1>11, <1>12, <1>13 DEF DeviceInv, StateInv

-----------------------------------------------------------------------------
(* The order of the lists when a walk moves a device.                      *)

\* dpm_prepare and dpm_resume: the parent of the device has been moved before it.
LEMMA MoveToTailOrder ==
  ASSUME DeviceInv, ~late, pc \in {"prepare", "preparing", "resume", "resuming"},
         NEW d \in Device, d \notin ToSet(list), d \in Listed => parent[d] \notin ToSet(dpm_list),
         MoveToTail(d), parent' = parent
  PROVE  /\ Ordered(dpm_list', parent') /\ Ordered(list', parent')
         /\ NoParentIn(list, dpm_list)'
<1>1. Lists /\ OrderInv /\ list \in Seq(Device) /\ dpm_list \in Seq(Device)
  BY InvFacts
<1>2. /\ ToSet(dpm_list') = ToSet(dpm_list) \ {d}
      /\ ToSet(list') = ToSet(list) \cup ({d} \cap Listed)
      /\ \A par : Ordered(dpm_list, par) => Ordered(dpm_list', par)
      /\ \A par : Ordered(list, par)
                    /\ (d \in Listed => par[d] # d /\ \A x \in ToSet(list) : par[x] # d)
                      => Ordered(list', par)
  BY <1>1, MoveToTailFacts
<1>3. /\ Ordered(dpm_list, parent) /\ Ordered(list, parent)
      /\ \A x \in ToSet(list) : parent[x] \notin ToSet(dpm_list)
  BY <1>1 DEF OrderInv, NoParentIn
<1>4. d \in Listed => d \in ToSet(dpm_list)
  BY DEF Listed
<1> QED BY <1>2, <1>3, <1>4 DEF NoParentIn

\* dpm_suspend and dpm_complete: the children of the device have been moved before it.
LEMMA MoveToHeadOrder ==
  ASSUME DeviceInv, ~late, pc \in {"suspend", "suspending", "complete", "completing"},
         NEW d \in Device, d \notin ToSet(list), \A x \in ToSet(dpm_list) : parent[x] # d,
         MoveToHead(d), parent' = parent
  PROVE  /\ Ordered(dpm_list', parent') /\ Ordered(list', parent')
         /\ NoParentIn(dpm_list, list)'
<1>1. Lists /\ OrderInv /\ list \in Seq(Device) /\ dpm_list \in Seq(Device)
  BY InvFacts
<1>2. /\ ToSet(dpm_list') = ToSet(dpm_list) \ {d}
      /\ ToSet(list') = ToSet(list) \cup ({d} \cap Listed)
      /\ \A par : Ordered(dpm_list, par) => Ordered(dpm_list', par)
      /\ \A par : Ordered(list, par) /\ (d \in Listed => par[d] # d /\ par[d] \notin ToSet(list))
                    => Ordered(list', par)
  BY <1>1, MoveToHeadFacts
<1>3. /\ Ordered(dpm_list, parent) /\ Ordered(list, parent)
      /\ \A x \in ToSet(dpm_list) : parent[x] \notin ToSet(list)
  BY <1>1 DEF OrderInv, NoParentIn
<1>4. d \in Listed => d \in ToSet(dpm_list)
  BY DEF Listed
<1> QED BY <1>2, <1>3, <1>4 DEF NoParentIn

-----------------------------------------------------------------------------
(* Going to sleep.                                                         *)

\* dpm_suspend_start begins with every device on.
LEMMA StartInv ==
  ASSUME DeviceInv, dpm_suspend_start
  PROVE  DeviceInv'
<1>1. DeviceTypeOK /\ WalkInv /\ StatusInv /\ OrderInv
  BY InvFacts
<1>2. /\ pc = "idle" /\ pc' = "prepare" /\ error' = FALSE /\ transition_started' = TRUE
      /\ UNCHANGED <<dpm_list, list, status, parent, asleep, dev, late>>
  BY DEF dpm_suspend_start, tree_vars
<1>3. list = <<>> /\ ToSet(list) = {}
  BY <1>1, <1>2, NoneFacts DEF WalkInv
<1>4. DeviceTypeOK'
  BY <1>1, <1>2 DEF DeviceTypeOK, Listed, Calls, Walks
<1>5. WalkInv'
  BY <1>1, <1>2 DEF WalkInv
<1>6. StatusInv'
  BY <1>1, <1>2, <1>3 DEF StatusInv, Shows, Listed
<1>7. OrderInv'
  BY <1>1, <1>2, <1>3 DEF OrderInv, NoParentIn, Listed
<1> QED BY <1>4, <1>5, <1>6, <1>7 DEF DeviceInv, StateInv

\* dpm_prepare calls the first device of dpm_list, whose parent has been prepared.
LEMMA PrepareNextInv ==
  ASSUME DeviceInv, PrepareNext
  PROVE  DeviceInv'
<1>1. /\ DeviceTypeOK /\ WalkInv /\ StatusInv /\ OrderInv /\ dpm_list \in Seq(Device)
      /\ status \in [Device -> ToSet(Status)] /\ ToSet(dpm_list) \cap ToSet(list) = {}
      /\ Listed \subseteq Device
  BY InvFacts
<1> DEFINE d == Head(dpm_list)
<1>2. /\ pc = "prepare" /\ dpm_list # <<>> /\ pc' = "preparing" /\ dev' = d
      /\ SetStatus(d, "PREPARING")
      /\ UNCHANGED <<dpm_list, list, parent, asleep, error, transition_started, late>>
  BY DEF PrepareNext, Calling
<1>3. /\ d \in Device /\ d \in ToSet(dpm_list)
      /\ Ordered(dpm_list, parent) => parent[d] \notin ToSet(dpm_list)
  BY <1>1, <1>2, EndFacts
<1> HIDE DEF d
<1>4. status' = [status EXCEPT ![d] = "PREPARING"]
  BY <1>2, <1>3 DEF SetStatus, Listed
<1>5. status'[d] = "PREPARING" /\ \A x \in Device \ {d} : status'[x] = status[x]
  BY <1>1, <1>3, <1>4
<1>6. DeviceTypeOK'
  <2>1. "PREPARING" \in ToSet(Status)
    BY StatusSet
  <2>2. d # NoDevice
    BY <1>3, DeviceAssumption
  <2> QED BY <1>1, <1>2, <1>3, <1>4, <2>1, <2>2 DEF DeviceTypeOK, Listed, Calls, Walks
<1>7. WalkInv'
  BY <1>1, <1>2, <1>3 DEF WalkInv
<1>8. StatusInv'
  <2>1. Shows(dpm_list, {"ON", "PREPARING", "SUSPENDING"})'
    BY <1>1, <1>2, <1>5 DEF StatusInv, Shows, Listed
  <2>2. Shows(list, {"SUSPENDING"})'
    BY <1>1, <1>2, <1>3, <1>5 DEF StatusInv, Shows, Listed
  <2>3. asleep' = {x \in Listed' : status'[x] \in {"OFF", "OFF_IRQ"}}
    <3>1. Listed' = Listed
      BY <1>2 DEF Listed
    <3>2. status[d] \notin {"OFF", "OFF_IRQ"}
      BY <1>1, <1>2, <1>3 DEF StatusInv, Shows
    <3> QED BY <1>1, <1>2, <1>5, <3>1, <3>2 DEF StatusInv
  <2> QED BY <1>2, <2>1, <2>2, <2>3 DEF StatusInv
<1>9. OrderInv'
  BY <1>1, <1>2, <1>3 DEF OrderInv, NoParentIn, Listed
<1> QED BY <1>6, <1>7, <1>8, <1>9 DEF DeviceInv, StateInv

\* A device that is prepared goes to the end of the local list; one that fails stays.
LEMMA PrepareInv ==
  ASSUME DeviceInv, device_prepare
  PROVE  DeviceInv'
<1>1. /\ DeviceTypeOK /\ WalkInv /\ StatusInv /\ OrderInv /\ Lists /\ dpm_list \in Seq(Device)
      /\ status \in [Device -> ToSet(Status)] /\ ToSet(dpm_list) \cap ToSet(list) = {}
      /\ Listed \subseteq Device /\ NoDevice \notin Listed
  BY InvFacts
<1>2. /\ pc = "preparing" /\ pc' = "prepare" /\ dev' = NoDevice
      /\ UNCHANGED <<parent, asleep, transition_started, late>>
  BY DEF device_prepare, Called
<1>3. dev \in Device /\ dev \notin ToSet(list)
  BY <1>1, <1>2 DEF DeviceTypeOK, WalkInv, Calls
<1>4. CASE SetStatus(dev, "SUSPENDING") /\ MoveToTail(dev) /\ UNCHANGED error
  <2>1. /\ Lists' /\ Listed' = Listed
        /\ ToSet(dpm_list') = ToSet(dpm_list) \ {dev}
        /\ ToSet(list') = ToSet(list) \cup ({dev} \cap Listed)
    BY <1>1, <1>3, <1>4, MoveToTailFacts
  <2>2. /\ status' \in [Device -> ToSet(Status)]
        /\ dev \in Listed => status'[dev] = "SUSPENDING"
        /\ \A x \in Device \ {dev} : status'[x] = status[x]
    <3>1. "SUSPENDING" \in ToSet(Status)
      BY StatusSet
    <3> QED BY <1>1, <1>3, <1>4, <3>1 DEF SetStatus
  <2>3. DeviceTypeOK'
    BY <1>1, <1>2, <1>4, <2>1, <2>2 DEF DeviceTypeOK, Lists, Calls, Walks
  <2>4. WalkInv'
    BY <1>1, <1>2, <2>1 DEF WalkInv, Listed
  <2>5. StatusInv'
    <3>1. Shows(dpm_list, {"ON", "PREPARING", "SUSPENDING"})'
      BY <1>1, <1>2, <2>1, <2>2 DEF StatusInv, Shows, Listed
    <3>2. Shows(list, {"SUSPENDING"})'
      BY <1>1, <1>2, <2>1, <2>2 DEF StatusInv, Shows, Listed
    <3>3. asleep' = {x \in Listed' : status'[x] \in {"OFF", "OFF_IRQ"}}
      <4>1. dev \in Listed => status[dev] \notin {"OFF", "OFF_IRQ"}
        BY <1>1, <1>2 DEF StatusInv, Shows, Listed
      <4> QED BY <1>1, <1>2, <2>1, <2>2, <4>1 DEF StatusInv
    <3> QED BY <1>2, <3>1, <3>2, <3>3 DEF StatusInv
  <2>6. OrderInv'
    <3> SUFFICES ASSUME ~late' PROVE OrderInv'
      BY DEF OrderInv
    <3>1. dev \in Listed => parent[dev] \notin ToSet(dpm_list)
      BY <1>1, <1>2 DEF OrderInv
    <3>2. /\ Ordered(dpm_list', parent') /\ Ordered(list', parent')
          /\ NoParentIn(list, dpm_list)'
      BY <1>2, <1>3, <1>4, <3>1, MoveToTailOrder
    <3> QED BY <1>1, <1>2, <2>1, <3>2 DEF OrderInv
  <2> QED BY <2>3, <2>4, <2>5, <2>6 DEF DeviceInv, StateInv
<1>5. CASE SetStatus(dev, "ON") /\ UNCHANGED <<dpm_list, list>> /\ error' \in BOOLEAN
  <2>1. Listed' = Listed
    BY <1>5 DEF Listed
  <2>2. /\ status' \in [Device -> ToSet(Status)]
        /\ dev \in Listed => status'[dev] = "ON"
        /\ \A x \in Device \ {dev} : status'[x] = status[x]
    <3>1. "ON" \in ToSet(Status)
      BY StatusSet
    <3> QED BY <1>1, <1>3, <1>5, <3>1 DEF SetStatus
  <2>3. DeviceTypeOK'
    BY <1>1, <1>2, <1>5, <2>1, <2>2 DEF DeviceTypeOK, Calls, Walks
  <2>4. WalkInv'
    BY <1>1, <1>2, <1>5 DEF WalkInv, Listed
  <2>5. StatusInv'
    <3>1. Shows(dpm_list, {"ON", "PREPARING", "SUSPENDING"})'
      BY <1>1, <1>2, <1>5, <2>2 DEF StatusInv, Shows, Listed
    <3>2. Shows(list, {"SUSPENDING"})'
      BY <1>1, <1>2, <1>3, <1>5, <2>2 DEF StatusInv, Shows, Listed
    <3>3. asleep' = {x \in Listed' : status'[x] \in {"OFF", "OFF_IRQ"}}
      <4>1. dev \in Listed => status[dev] \notin {"OFF", "OFF_IRQ"}
        BY <1>1, <1>2 DEF StatusInv, Shows, Listed
      <4> QED BY <1>1, <1>2, <2>1, <2>2, <4>1 DEF StatusInv
    <3> QED BY <1>2, <3>1, <3>2, <3>3 DEF StatusInv
  <2>6. OrderInv'
    BY <1>1, <1>2, <1>5, <2>1 DEF OrderInv, NoParentIn
  <2> QED BY <2>3, <2>4, <2>5, <2>6 DEF DeviceInv, StateInv
<1> QED
  <2>1. error \in BOOLEAN
    BY <1>1 DEF DeviceTypeOK
  <2> QED BY <1>4, <1>5, <2>1 DEF device_prepare

\* At the end of dpm_prepare the devices it did not reach follow the others.
LEMMA PrepareEndsInv ==
  ASSUME DeviceInv, PrepareEnds
  PROVE  DeviceInv'
<1>1. DeviceTypeOK /\ WalkInv /\ StatusInv /\ OrderInv /\ Lists
  BY InvFacts
<1>2. /\ pc = "prepare" /\ (dpm_list = <<>> \/ error)
      /\ pc' = (IF error THEN "resume" ELSE "suspend")
      /\ UNCHANGED <<status, parent, asleep, dev, error, transition_started, late>>
  BY DEF PrepareEnds, tree_vars
<1>3. /\ Lists' /\ Listed' = Listed
      /\ ToSet(dpm_list') = Listed /\ list' = <<>> /\ ToSet(list') = {}
      /\ \A par : Ordered(list', par)
      /\ \A par : Ordered(list, par) /\ Ordered(dpm_list, par)
                    /\ (\A x \in ToSet(list) : par[x] \notin ToSet(dpm_list))
                      => Ordered(dpm_list', par)
  BY <1>1, SpliceFrontFacts DEF PrepareEnds
<1>4. DeviceTypeOK'
  BY <1>1, <1>2, <1>3 DEF DeviceTypeOK, Lists, Calls, Walks
<1>5. WalkInv'
  BY <1>1, <1>2, <1>3 DEF WalkInv
<1>6. StatusInv'
  <2>1. CASE error
    BY <1>1, <1>2, <1>3, <2>1 DEF StatusInv, Shows, Listed
  <2>2. CASE ~error
    <3>1. ToSet(dpm_list') = ToSet(list)
      BY <1>2, <1>3, <2>2, NoneFacts DEF Listed
    <3> QED BY <1>1, <1>2, <1>3, <2>2, <3>1 DEF StatusInv, Shows
  <2> QED BY <2>1, <2>2
<1>7. OrderInv'
  <2> SUFFICES ASSUME ~late' PROVE OrderInv'
    BY DEF OrderInv
  <2>1. Ordered(dpm_list', parent')
    BY <1>1, <1>2, <1>3 DEF OrderInv, NoParentIn
  <2> QED BY <1>1, <1>2, <1>3, <2>1 DEF OrderInv, NoParentIn
<1> QED BY <1>4, <1>5, <1>6, <1>7 DEF DeviceInv, StateInv

\* dpm_suspend calls the last device of dpm_list, whose children are asleep.
LEMMA SuspendNextInv ==
  ASSUME DeviceInv, SuspendNext
  PROVE  DeviceInv'
<1>1. /\ DeviceTypeOK /\ WalkInv /\ StatusInv /\ OrderInv /\ dpm_list \in Seq(Device)
      /\ ToSet(dpm_list) \cap ToSet(list) = {}
  BY InvFacts
<1> DEFINE d == Last(dpm_list)
<1>2. /\ pc = "suspend" /\ dpm_list # <<>> /\ pc' = "suspending" /\ dev' = d
      /\ UNCHANGED <<dpm_list, list, status, parent, asleep, error, transition_started, late>>
  BY DEF SuspendNext, Calling, tree_vars
<1>3. /\ d \in Device /\ d \in ToSet(dpm_list)
      /\ Ordered(dpm_list, parent) => \A x \in ToSet(dpm_list) : parent[x] # d
  BY <1>1, <1>2, EndFacts
<1> HIDE DEF d
<1>4. DeviceTypeOK'
  <2>1. d # NoDevice
    BY <1>3, DeviceAssumption
  <2> QED BY <1>1, <1>2, <1>3, <2>1 DEF DeviceTypeOK, Listed, Calls, Walks
<1>5. WalkInv'
  BY <1>1, <1>2, <1>3 DEF WalkInv
<1>6. StatusInv'
  BY <1>1, <1>2 DEF StatusInv, Shows, Listed
<1>7. OrderInv'
  BY <1>1, <1>2, <1>3 DEF OrderInv, NoParentIn, Listed
<1> QED BY <1>4, <1>5, <1>6, <1>7 DEF DeviceInv, StateInv

\* A device that sleeps goes to the front of the local list; one that fails stays.
LEMMA SuspendInv ==
  ASSUME DeviceInv, device_suspend
  PROVE  DeviceInv'
<1>1. /\ DeviceTypeOK /\ WalkInv /\ StatusInv /\ OrderInv /\ Lists /\ dpm_list \in Seq(Device)
      /\ status \in [Device -> ToSet(Status)] /\ ToSet(dpm_list) \cap ToSet(list) = {}
      /\ Listed \subseteq Device /\ NoDevice \notin Listed
      /\ \A x \in Listed : parent[x] \in Listed \cup {NoDevice}
  BY InvFacts
<1>2. /\ pc = "suspending" /\ pc' = "suspend" /\ dev' = NoDevice
      /\ UNCHANGED <<parent, transition_started, late>>
  BY DEF device_suspend, Called
<1>3. dev \in Device /\ dev \notin ToSet(list) /\ dev # NoDevice
  BY <1>1, <1>2 DEF DeviceTypeOK, WalkInv, Calls
<1>4. CASE /\ SetStatus(dev, "OFF") /\ MoveToHead(dev)
           /\ asleep' = asleep \cup ({dev} \cap Listed) /\ UNCHANGED error
  <2>1. /\ Lists' /\ Listed' = Listed
        /\ ToSet(dpm_list') = ToSet(dpm_list) \ {dev}
        /\ ToSet(list') = ToSet(list) \cup ({dev} \cap Listed)
    BY <1>1, <1>3, <1>4, MoveToHeadFacts
  <2>2. /\ status' \in [Device -> ToSet(Status)]
        /\ dev \in Listed => status'[dev] = "OFF"
        /\ \A x \in Device \ {dev} : status'[x] = status[x]
    <3>1. "OFF" \in ToSet(Status)
      BY StatusSet
    <3> QED BY <1>1, <1>3, <1>4, <3>1 DEF SetStatus
  <2>3. DeviceTypeOK'
    BY <1>1, <1>2, <1>3, <1>4, <2>1, <2>2 DEF DeviceTypeOK, Lists, Calls, Walks
  <2>4. WalkInv'
    BY <1>1, <1>2, <2>1 DEF WalkInv, Listed
  <2>5. StatusInv'
    <3>1. Shows(dpm_list, {"SUSPENDING", "OFF"})'
      BY <1>1, <1>2, <2>1, <2>2 DEF StatusInv, Shows, Listed
    <3>2. Shows(list, {"OFF"})'
      BY <1>1, <1>2, <2>1, <2>2 DEF StatusInv, Shows, Listed
    <3>3. asleep' = {x \in Listed' : status'[x] \in {"OFF", "OFF_IRQ"}}
      BY <1>1, <1>4, <2>1, <2>2 DEF StatusInv
    <3> QED BY <1>2, <3>1, <3>2, <3>3 DEF StatusInv
  <2>6. OrderInv'
    <3> SUFFICES ASSUME ~late' PROVE OrderInv'
      BY DEF OrderInv
    <3>1. \A x \in ToSet(dpm_list) : parent[x] # dev
      BY <1>1, <1>2 DEF OrderInv
    <3>2. /\ Ordered(dpm_list', parent') /\ Ordered(list', parent')
          /\ NoParentIn(dpm_list, list)'
      BY <1>2, <1>3, <1>4, <3>1, MoveToHeadOrder
    <3>3. \A x \in Listed' : parent'[x] \in asleep' => x \in asleep'
      <4>1. \A x \in ToSet(list) : x \in asleep
        BY <1>1, <1>2 DEF StatusInv, Shows, Listed
      <4> QED BY <1>1, <1>2, <1>4, <2>1, <3>1, <4>1 DEF OrderInv, Listed
    <3> QED BY <1>1, <1>2, <2>1, <3>2, <3>3 DEF OrderInv
  <2> QED BY <2>3, <2>4, <2>5, <2>6 DEF DeviceInv, StateInv
<1>5. CASE error' = TRUE /\ UNCHANGED <<dpm_list, list, status, asleep>>
  <2>1. Listed' = Listed
    BY <1>5 DEF Listed
  <2>2. DeviceTypeOK'
    BY <1>1, <1>2, <1>5, <2>1 DEF DeviceTypeOK, Calls, Walks
  <2>3. WalkInv'
    BY <1>1, <1>2, <1>5 DEF WalkInv, Listed
  <2>4. StatusInv'
    BY <1>1, <1>2, <1>5, <2>1 DEF StatusInv, Shows
  <2>5. OrderInv'
    BY <1>1, <1>2, <1>5, <2>1 DEF OrderInv, NoParentIn
  <2> QED BY <2>2, <2>3, <2>4, <2>5 DEF DeviceInv, StateInv
<1> QED BY <1>4, <1>5 DEF device_suspend

\* At the end of dpm_suspend the devices that are asleep follow the others.
LEMMA SuspendEndsInv ==
  ASSUME DeviceInv, SuspendEnds
  PROVE  DeviceInv'
<1>1. DeviceTypeOK /\ WalkInv /\ StatusInv /\ OrderInv /\ Lists
  BY InvFacts
<1>2. /\ pc = "suspend" /\ (dpm_list = <<>> \/ error)
      /\ pc' = (IF error THEN "resume" ELSE "suspended")
      /\ UNCHANGED <<status, parent, asleep, dev, error, transition_started, late>>
  BY DEF SuspendEnds, tree_vars
<1>3. /\ Lists' /\ Listed' = Listed
      /\ ToSet(dpm_list') = Listed /\ list' = <<>> /\ ToSet(list') = {}
      /\ \A par : Ordered(list', par)
      /\ \A par : Ordered(dpm_list, par) /\ Ordered(list, par)
                    /\ (\A x \in ToSet(dpm_list) : par[x] \notin ToSet(list))
                      => Ordered(dpm_list', par)
  BY <1>1, SpliceBackFacts DEF SuspendEnds
<1>4. DeviceTypeOK'
  BY <1>1, <1>2, <1>3 DEF DeviceTypeOK, Lists, Calls, Walks
<1>5. WalkInv'
  BY <1>1, <1>2, <1>3 DEF WalkInv
<1>6. StatusInv'
  <2>1. CASE error
    BY <1>1, <1>2, <1>3, <2>1 DEF StatusInv, Shows, Listed
  <2>2. CASE ~error
    <3>1. ToSet(dpm_list') = ToSet(list)
      BY <1>2, <1>3, <2>2, NoneFacts DEF Listed
    <3> QED BY <1>1, <1>2, <1>3, <2>2, <3>1 DEF StatusInv, Shows
  <2> QED BY <2>1, <2>2
<1>7. OrderInv'
  <2> SUFFICES ASSUME ~late' PROVE OrderInv'
    BY DEF OrderInv
  <2>1. Ordered(dpm_list', parent')
    BY <1>1, <1>2, <1>3 DEF OrderInv, NoParentIn
  <2> QED BY <1>1, <1>2, <1>3, <2>1 DEF OrderInv, NoParentIn
<1> QED BY <1>4, <1>5, <1>6, <1>7 DEF DeviceInv, StateInv

\* dpm_suspend_noirq takes every device, or none.
LEMMA SuspendNoirqInv ==
  ASSUME DeviceInv, dpm_suspend_noirq
  PROVE  DeviceInv'
<1>1. /\ DeviceTypeOK /\ WalkInv /\ StatusInv /\ OrderInv
      /\ status \in [Device -> ToSet(Status)] /\ Listed \subseteq Device
  BY InvFacts
<1>2. /\ pc = "suspended" /\ UNCHANGED <<dpm_list, list, parent, asleep, dev, error, late>>
      /\ \/ /\ status' = [d \in Device |-> IF d \in Listed THEN "OFF_IRQ" ELSE status[d]]
            /\ pc' = "noirq" /\ UNCHANGED transition_started
         \/ pc' = "woken" /\ transition_started' = FALSE /\ UNCHANGED status
  BY DEF dpm_suspend_noirq
<1>3. Listed' = Listed /\ ToSet(list) = {} /\ Listed = ToSet(dpm_list)
  BY <1>1, <1>2, NoneFacts DEF WalkInv, Listed
<1>4. DeviceTypeOK'
  <2>1. "OFF_IRQ" \in ToSet(Status)
    BY StatusSet
  <2>2. status' \in [Device -> ToSet(Status)]
    BY <1>1, <1>2, <2>1
  <2> QED BY <1>1, <1>2, <1>3, <2>2 DEF DeviceTypeOK, Calls, Walks
<1>5. WalkInv'
  BY <1>1, <1>2 DEF WalkInv
<1>6. StatusInv'
  <2>1. CASE /\ status' = [d \in Device |-> IF d \in Listed THEN "OFF_IRQ" ELSE status[d]]
             /\ pc' = "noirq"
    <3>1. \A d \in Listed : status'[d] = "OFF_IRQ" /\ status[d] = "OFF"
      BY <1>1, <1>2, <1>3, <2>1 DEF StatusInv, Shows
    <3> QED BY <1>1, <1>2, <1>3, <2>1, <3>1 DEF StatusInv, Shows
  <2>2. CASE pc' = "woken" /\ UNCHANGED status
    BY <1>1, <1>2, <1>3, <2>2 DEF StatusInv, Shows
  <2> QED BY <1>2, <2>1, <2>2
<1>7. OrderInv'
  BY <1>1, <1>2, <1>3 DEF OrderInv
<1> QED BY <1>4, <1>5, <1>6, <1>7 DEF DeviceInv, StateInv

-----------------------------------------------------------------------------
(* Waking up.                                                              *)

\* dpm_resume_noirq takes every device back from the noirq phase.
LEMMA ResumeNoirqInv ==
  ASSUME DeviceInv, dpm_resume_noirq
  PROVE  DeviceInv'
<1>1. /\ DeviceTypeOK /\ WalkInv /\ StatusInv /\ OrderInv
      /\ status \in [Device -> ToSet(Status)] /\ Listed \subseteq Device
  BY InvFacts
<1>2. /\ pc = "noirq" /\ pc' = "woken" /\ transition_started' = FALSE
      /\ status' = [d \in Device |-> IF Rank(status[d]) > Rank("OFF") THEN "OFF" ELSE status[d]]
      /\ UNCHANGED <<dpm_list, list, parent, asleep, dev, error, late>>
  BY DEF dpm_resume_noirq
<1>3. Listed' = Listed /\ ToSet(list) = {} /\ Listed = ToSet(dpm_list)
  BY <1>1, <1>2, NoneFacts DEF WalkInv, Listed
<1>4. DeviceTypeOK'
  <2>1. "OFF" \in ToSet(Status)
    BY StatusSet
  <2>2. status' \in [Device -> ToSet(Status)]
    BY <1>1, <1>2, <2>1
  <2> QED BY <1>1, <1>2, <1>3, <2>2 DEF DeviceTypeOK, Calls, Walks
<1>5. WalkInv'
  BY <1>1, <1>2 DEF WalkInv
<1>6. StatusInv'
  <2>1. \A d \in Listed : status'[d] = "OFF" /\ status[d] = "OFF_IRQ"
    BY <1>1, <1>2, <1>3, RankFacts DEF StatusInv, Shows
  <2> QED BY <1>1, <1>2, <1>3, <2>1 DEF StatusInv, Shows
<1>7. OrderInv'
  BY <1>1, <1>2, <1>3 DEF OrderInv
<1> QED BY <1>4, <1>5, <1>6, <1>7 DEF DeviceInv, StateInv

\* dpm_resume_end starts with an empty local list.
LEMMA ResumeEndInv ==
  ASSUME DeviceInv, dpm_resume_end
  PROVE  DeviceInv'
<1>1. DeviceTypeOK /\ WalkInv /\ StatusInv /\ OrderInv
  BY InvFacts
<1>2. /\ pc \in {"suspended", "woken"} /\ pc' = "resume"
      /\ UNCHANGED <<dpm_list, list, status, parent, asleep, dev, error, transition_started, late>>
  BY DEF dpm_resume_end, tree_vars
<1>3. Listed' = Listed /\ ToSet(list) = {}
  BY <1>1, <1>2, NoneFacts DEF WalkInv, Listed
<1>4. DeviceTypeOK'
  BY <1>1, <1>2, <1>3 DEF DeviceTypeOK, Calls, Walks
<1>5. WalkInv'
  BY <1>1, <1>2 DEF WalkInv
<1>6. StatusInv'
  BY <1>1, <1>2, <1>3 DEF StatusInv, Shows
<1>7. OrderInv'
  BY <1>1, <1>2, <1>3 DEF OrderInv, NoParentIn
<1> QED BY <1>4, <1>5, <1>6, <1>7 DEF DeviceInv, StateInv

\* dpm_resume wakes the first device of dpm_list, whose parent is awake.
LEMMA ResumeNextInv ==
  ASSUME DeviceInv, ResumeNext
  PROVE  DeviceInv'
<1>1. /\ DeviceTypeOK /\ WalkInv /\ StatusInv /\ OrderInv /\ dpm_list \in Seq(Device)
      /\ status \in [Device -> ToSet(Status)] /\ ToSet(dpm_list) \cap ToSet(list) = {}
      /\ Listed \subseteq Device /\ NoDevice \notin Listed
      /\ \A x \in Listed : parent[x] \in Listed \cup {NoDevice}
  BY InvFacts
<1> DEFINE d == Head(dpm_list)
<1>2. /\ pc = "resume" /\ dpm_list # <<>> /\ pc' = "resuming" /\ dev' = d
      /\ SetStatus(d, "RESUMING") /\ asleep' = asleep \ {d}
      /\ UNCHANGED <<dpm_list, list, parent, error, transition_started, late>>
  BY DEF ResumeNext, Calling
<1>3. /\ d \in Device /\ d \in ToSet(dpm_list)
      /\ Ordered(dpm_list, parent) => parent[d] \notin ToSet(dpm_list)
  BY <1>1, <1>2, EndFacts
<1> HIDE DEF d
<1>4. status' = [status EXCEPT ![d] = "RESUMING"]
  BY <1>2, <1>3 DEF SetStatus, Listed
<1>5. status'[d] = "RESUMING" /\ \A x \in Device \ {d} : status'[x] = status[x]
  BY <1>1, <1>3, <1>4
<1>6. Listed' = Listed
  BY <1>2 DEF Listed
<1>7. DeviceTypeOK'
  <2>1. "RESUMING" \in ToSet(Status)
    BY StatusSet
  <2>2. d # NoDevice
    BY <1>3, DeviceAssumption
  <2> QED BY <1>1, <1>2, <1>3, <1>4, <1>6, <2>1, <2>2 DEF DeviceTypeOK, Calls, Walks
<1>8. WalkInv'
  BY <1>1, <1>2, <1>3 DEF WalkInv
<1>9. StatusInv'
  <2>1. Shows(dpm_list, {"ON", "PREPARING", "RESUMING", "SUSPENDING", "OFF"})'
    BY <1>1, <1>2, <1>5 DEF StatusInv, Shows, Listed
  <2>2. Shows(list, {"ON", "PREPARING", "RESUMING"})'
    BY <1>1, <1>2, <1>3, <1>5 DEF StatusInv, Shows, Listed
  <2>3. asleep' = {x \in Listed' : status'[x] \in {"OFF", "OFF_IRQ"}}
    BY <1>1, <1>2, <1>5, <1>6 DEF StatusInv
  <2> QED BY <1>2, <1>5, <2>1, <2>2, <2>3 DEF StatusInv
<1>10. OrderInv'
  <2> SUFFICES ASSUME ~late' PROVE OrderInv'
    BY DEF OrderInv
  <2>1. parent[d] \notin ToSet(dpm_list)
    BY <1>1, <1>2, <1>3 DEF OrderInv
  <2>2. parent[d] \notin asleep
    BY <1>1, <1>2, <1>3, <2>1 DEF StatusInv, Shows, Listed
  <2>3. \A x \in Listed' : parent'[x] \in asleep' => x \in asleep'
    BY <1>1, <1>2, <1>6, <2>2 DEF OrderInv
  <2> QED BY <1>1, <1>2, <1>6, <2>1, <2>3 DEF OrderInv, NoParentIn
<1> QED BY <1>7, <1>8, <1>9, <1>10 DEF DeviceInv, StateInv

\* dpm_resume passes over a device that was not suspended.
LEMMA ResumeSkipsInv ==
  ASSUME DeviceInv, ResumeSkips
  PROVE  DeviceInv'
<1>1. /\ DeviceTypeOK /\ WalkInv /\ StatusInv /\ OrderInv /\ Lists /\ dpm_list \in Seq(Device)
      /\ status \in [Device -> ToSet(Status)] /\ ToSet(dpm_list) \cap ToSet(list) = {}
      /\ Listed \subseteq Device
  BY InvFacts
<1> DEFINE d == Head(dpm_list)
<1>2. /\ pc = "resume" /\ dpm_list # <<>> /\ Rank(status[d]) < Rank("OFF")
      /\ status' = [status EXCEPT ![d] = IF @ = "SUSPENDING" THEN "RESUMING" ELSE @]
      /\ MoveToTail(d)
      /\ UNCHANGED <<parent, asleep, pc, dev, error, transition_started, late>>
  BY DEF ResumeSkips, walk_vars
<1>3. /\ d \in Device /\ d \in ToSet(dpm_list)
      /\ Ordered(dpm_list, parent) => parent[d] \notin ToSet(dpm_list)
  BY <1>1, <1>2, EndFacts
<1> HIDE DEF d
<1>4. d \notin ToSet(list) /\ d \in Listed
  BY <1>1, <1>3 DEF Listed
<1>5. /\ Lists' /\ Listed' = Listed
      /\ ToSet(dpm_list') = ToSet(dpm_list) \ {d}
      /\ ToSet(list') = ToSet(list) \cup ({d} \cap Listed)
  BY <1>1, <1>2, <1>3, <1>4, MoveToTailFacts
<1>6. status[d] \in {"ON", "PREPARING", "RESUMING", "SUSPENDING"}
  <2>1. status[d] \in {"ON", "PREPARING", "RESUMING", "SUSPENDING", "OFF"}
    BY <1>1, <1>2, <1>3 DEF StatusInv, Shows
  <2> QED BY <1>2, <2>1, RankFacts
<1>7. /\ status'[d] \in {"ON", "PREPARING", "RESUMING"}
      /\ \A x \in Device \ {d} : status'[x] = status[x]
      /\ status' \in [Device -> ToSet(Status)]
  BY <1>1, <1>2, <1>3, <1>6, StatusSet
<1>8. DeviceTypeOK'
  BY <1>1, <1>2, <1>5, <1>7 DEF DeviceTypeOK, Lists
<1>9. WalkInv'
  <2>1. dev \notin ToSet(list')
    <3>1. dev = NoDevice
      BY <1>1, <1>2 DEF DeviceTypeOK, Calls
    <3> QED BY <1>1, <1>3, <1>5, <3>1, DeviceAssumption DEF WalkInv
  <2> QED BY <1>1, <1>2, <2>1 DEF WalkInv
<1>10. StatusInv'
  <2>1. Shows(dpm_list, {"ON", "PREPARING", "RESUMING", "SUSPENDING", "OFF"})'
    BY <1>1, <1>2, <1>5, <1>7 DEF StatusInv, Shows, Listed
  <2>2. Shows(list, {"ON", "PREPARING", "RESUMING"})'
    BY <1>1, <1>2, <1>5, <1>7 DEF StatusInv, Shows, Listed
  <2>3. asleep' = {x \in Listed' : status'[x] \in {"OFF", "OFF_IRQ"}}
    BY <1>1, <1>2, <1>5, <1>6, <1>7 DEF StatusInv
  <2> QED BY <1>2, <2>1, <2>2, <2>3 DEF StatusInv
<1>11. OrderInv'
  <2> SUFFICES ASSUME ~late' PROVE OrderInv'
    BY DEF OrderInv
  <2>1. parent[d] \notin ToSet(dpm_list)
    BY <1>1, <1>2, <1>3 DEF OrderInv
  <2>2. /\ Ordered(dpm_list', parent') /\ Ordered(list', parent')
        /\ NoParentIn(list, dpm_list)'
    BY <1>2, <1>3, <1>4, <2>1, MoveToTailOrder
  <2> QED BY <1>1, <1>2, <1>5, <2>2 DEF OrderInv
<1> QED BY <1>8, <1>9, <1>10, <1>11 DEF DeviceInv, StateInv

\* A device that is awake goes to the end of the local list.
LEMMA ResumeInv ==
  ASSUME DeviceInv, device_resume
  PROVE  DeviceInv'
<1>1. /\ DeviceTypeOK /\ WalkInv /\ StatusInv /\ OrderInv /\ Lists
      /\ Listed \subseteq Device /\ NoDevice \notin Listed
  BY InvFacts
<1>2. /\ pc = "resuming" /\ pc' = "resume" /\ dev' = NoDevice /\ MoveToTail(dev)
      /\ UNCHANGED <<status, parent, asleep, error, transition_started, late>>
  BY DEF device_resume, Called, tree_vars
<1>3. dev \in Device /\ dev \notin ToSet(list)
  BY <1>1, <1>2 DEF DeviceTypeOK, WalkInv, Calls
<1>4. /\ Lists' /\ Listed' = Listed
      /\ ToSet(dpm_list') = ToSet(dpm_list) \ {dev}
      /\ ToSet(list') = ToSet(list) \cup ({dev} \cap Listed)
  BY <1>1, <1>2, <1>3, MoveToTailFacts
<1>5. DeviceTypeOK'
  BY <1>1, <1>2, <1>4 DEF DeviceTypeOK, Lists, Calls, Walks
<1>6. WalkInv'
  BY <1>1, <1>2, <1>4 DEF WalkInv, Listed
<1>7. StatusInv'
  BY <1>1, <1>2, <1>4 DEF StatusInv, Shows, Listed
<1>8. OrderInv'
  <2> SUFFICES ASSUME ~late' PROVE OrderInv'
    BY DEF OrderInv
  <2>1. dev \in Listed => parent[dev] \notin ToSet(dpm_list)
    BY <1>1, <1>2 DEF OrderInv
  <2>2. /\ Ordered(dpm_list', parent') /\ Ordered(list', parent')
        /\ NoParentIn(list, dpm_list)'
    BY <1>2, <1>3, <2>1, MoveToTailOrder
  <2> QED BY <1>1, <1>2, <1>4, <2>2 DEF OrderInv
<1> QED BY <1>5, <1>6, <1>7, <1>8 DEF DeviceInv, StateInv

\* dpm_resume ends when it has passed every device.
LEMMA ResumeEndsInv ==
  ASSUME DeviceInv, ResumeEnds
  PROVE  DeviceInv'
<1>1. DeviceTypeOK /\ WalkInv /\ StatusInv /\ OrderInv /\ Lists
  BY InvFacts
<1>2. /\ pc = "resume" /\ dpm_list = <<>> /\ pc' = "complete" /\ transition_started' = FALSE
      /\ UNCHANGED <<status, parent, asleep, dev, error, late>>
  BY DEF ResumeEnds, tree_vars
<1>3. /\ Lists' /\ Listed' = Listed
      /\ ToSet(dpm_list') = Listed /\ list' = <<>> /\ ToSet(list') = {}
      /\ \A par : Ordered(list', par)
      /\ \A par : Ordered(list, par) /\ Ordered(dpm_list, par)
                    /\ (\A x \in ToSet(list) : par[x] \notin ToSet(dpm_list))
                      => Ordered(dpm_list', par)
  BY <1>1, SpliceFrontFacts DEF ResumeEnds
<1>4. ToSet(dpm_list') = ToSet(list)
  BY <1>2, <1>3, NoneFacts DEF Listed
<1>5. DeviceTypeOK'
  BY <1>1, <1>2, <1>3 DEF DeviceTypeOK, Lists, Calls, Walks
<1>6. WalkInv'
  BY <1>1, <1>2, <1>3 DEF WalkInv
<1>7. StatusInv'
  BY <1>1, <1>2, <1>3, <1>4 DEF StatusInv, Shows
<1>8. OrderInv'
  <2> SUFFICES ASSUME ~late' PROVE OrderInv'
    BY DEF OrderInv
  <2>1. Ordered(dpm_list', parent')
    BY <1>1, <1>2, <1>3 DEF OrderInv, NoParentIn
  <2> QED BY <1>1, <1>2, <1>3, <2>1 DEF OrderInv, NoParentIn
<1> QED BY <1>5, <1>6, <1>7, <1>8 DEF DeviceInv, StateInv

\* dpm_complete calls the last device of dpm_list, whose children are done.
LEMMA CompleteNextInv ==
  ASSUME DeviceInv, CompleteNext
  PROVE  DeviceInv'
<1>1. /\ DeviceTypeOK /\ WalkInv /\ StatusInv /\ OrderInv /\ dpm_list \in Seq(Device)
      /\ status \in [Device -> ToSet(Status)] /\ ToSet(dpm_list) \cap ToSet(list) = {}
      /\ Listed \subseteq Device
  BY InvFacts
<1> DEFINE d == Last(dpm_list)
<1>2. /\ pc = "complete" /\ dpm_list # <<>> /\ pc' = "completing" /\ dev' = d
      /\ SetStatus(d, "ON")
      /\ UNCHANGED <<dpm_list, list, parent, asleep, error, transition_started, late>>
  BY DEF CompleteNext, Calling
<1>3. /\ d \in Device /\ d \in ToSet(dpm_list)
      /\ Ordered(dpm_list, parent) => \A x \in ToSet(dpm_list) : parent[x] # d
  BY <1>1, <1>2, EndFacts
<1> HIDE DEF d
<1>4. status' = [status EXCEPT ![d] = "ON"]
  BY <1>2, <1>3 DEF SetStatus, Listed
<1>5. status'[d] = "ON" /\ \A x \in Device \ {d} : status'[x] = status[x]
  BY <1>1, <1>3, <1>4
<1>6. Listed' = Listed
  BY <1>2 DEF Listed
<1>7. DeviceTypeOK'
  <2>1. "ON" \in ToSet(Status)
    BY StatusSet
  <2>2. d # NoDevice
    BY <1>3, DeviceAssumption
  <2> QED BY <1>1, <1>2, <1>3, <1>4, <1>6, <2>1, <2>2 DEF DeviceTypeOK, Calls, Walks
<1>8. WalkInv'
  BY <1>1, <1>2, <1>3 DEF WalkInv
<1>9. StatusInv'
  <2>1. Shows(dpm_list, {"ON", "PREPARING", "RESUMING"})'
    BY <1>1, <1>2, <1>5 DEF StatusInv, Shows, Listed
  <2>2. Shows(list, {"ON"})'
    BY <1>1, <1>2, <1>3, <1>5 DEF StatusInv, Shows, Listed
  <2>3. asleep' = {x \in Listed' : status'[x] \in {"OFF", "OFF_IRQ"}}
    <3>1. status[d] \notin {"OFF", "OFF_IRQ"}
      BY <1>1, <1>2, <1>3 DEF StatusInv, Shows
    <3> QED BY <1>1, <1>2, <1>5, <1>6, <3>1 DEF StatusInv
  <2> QED BY <1>2, <1>5, <2>1, <2>2, <2>3 DEF StatusInv
<1>10. OrderInv'
  BY <1>1, <1>2, <1>3, <1>6 DEF OrderInv, NoParentIn
<1> QED BY <1>7, <1>8, <1>9, <1>10 DEF DeviceInv, StateInv

\* dpm_complete passes over a device that registered meanwhile.
LEMMA CompleteSkipsInv ==
  ASSUME DeviceInv, CompleteSkips
  PROVE  DeviceInv'
<1>1. /\ DeviceTypeOK /\ WalkInv /\ StatusInv /\ OrderInv /\ Lists /\ dpm_list \in Seq(Device)
      /\ ToSet(dpm_list) \cap ToSet(list) = {}
  BY InvFacts
<1> DEFINE d == Last(dpm_list)
<1>2. /\ pc = "complete" /\ dpm_list # <<>> /\ Rank(status[d]) <= Rank("ON")
      /\ MoveToHead(d)
      /\ UNCHANGED <<status, parent, asleep, pc, dev, error, transition_started, late>>
  BY DEF CompleteSkips, walk_vars, tree_vars
<1>3. /\ d \in Device /\ d \in ToSet(dpm_list)
      /\ Ordered(dpm_list, parent) => \A x \in ToSet(dpm_list) : parent[x] # d
  BY <1>1, <1>2, EndFacts
<1> HIDE DEF d
<1>4. d \notin ToSet(list) /\ d \in Listed
  BY <1>1, <1>3 DEF Listed
<1>5. /\ Lists' /\ Listed' = Listed
      /\ ToSet(dpm_list') = ToSet(dpm_list) \ {d}
      /\ ToSet(list') = ToSet(list) \cup ({d} \cap Listed)
  BY <1>1, <1>2, <1>3, <1>4, MoveToHeadFacts
<1>6. status[d] = "ON"
  <2>1. status[d] \in {"ON", "PREPARING", "RESUMING"}
    BY <1>1, <1>2, <1>3 DEF StatusInv, Shows
  <2> QED BY <1>2, <2>1, RankFacts
<1>7. DeviceTypeOK'
  BY <1>1, <1>2, <1>5 DEF DeviceTypeOK, Lists
<1>8. WalkInv'
  <2>1. dev = NoDevice
    BY <1>1, <1>2 DEF DeviceTypeOK, Calls
  <2> QED BY <1>1, <1>2, <1>3, <1>5, <2>1, DeviceAssumption DEF WalkInv
<1>9. StatusInv'
  BY <1>1, <1>2, <1>5, <1>6 DEF StatusInv, Shows
<1>10. OrderInv'
  <2> SUFFICES ASSUME ~late' PROVE OrderInv'
    BY DEF OrderInv
  <2>1. \A x \in ToSet(dpm_list) : parent[x] # d
    BY <1>1, <1>2, <1>3 DEF OrderInv
  <2>2. /\ Ordered(dpm_list', parent') /\ Ordered(list', parent')
        /\ NoParentIn(dpm_list, list)'
    BY <1>2, <1>3, <1>4, <2>1, MoveToHeadOrder
  <2> QED BY <1>1, <1>2, <1>5, <2>2 DEF OrderInv
<1> QED BY <1>7, <1>8, <1>9, <1>10 DEF DeviceInv, StateInv

\* A device that is done goes to the front of the local list.
LEMMA CompleteInv ==
  ASSUME DeviceInv, device_complete
  PROVE  DeviceInv'
<1>1. /\ DeviceTypeOK /\ WalkInv /\ StatusInv /\ OrderInv /\ Lists
      /\ Listed \subseteq Device /\ NoDevice \notin Listed
  BY InvFacts
<1>2. /\ pc = "completing" /\ pc' = "complete" /\ dev' = NoDevice /\ MoveToHead(dev)
      /\ UNCHANGED <<status, parent, asleep, error, transition_started, late>>
  BY DEF device_complete, Called, tree_vars
<1>3. dev \in Device /\ dev \notin ToSet(list)
  BY <1>1, <1>2 DEF DeviceTypeOK, WalkInv, Calls
<1>4. /\ Lists' /\ Listed' = Listed
      /\ ToSet(dpm_list') = ToSet(dpm_list) \ {dev}
      /\ ToSet(list') = ToSet(list) \cup ({dev} \cap Listed)
  BY <1>1, <1>2, <1>3, MoveToHeadFacts
<1>5. DeviceTypeOK'
  BY <1>1, <1>2, <1>4 DEF DeviceTypeOK, Lists, Calls, Walks
<1>6. WalkInv'
  BY <1>1, <1>2, <1>4 DEF WalkInv, Listed
<1>7. StatusInv'
  BY <1>1, <1>2, <1>4 DEF StatusInv, Shows, Listed
<1>8. OrderInv'
  <2> SUFFICES ASSUME ~late' PROVE OrderInv'
    BY DEF OrderInv
  <2>1. \A x \in ToSet(dpm_list) : parent[x] # dev
    BY <1>1, <1>2 DEF OrderInv
  <2>2. /\ Ordered(dpm_list', parent') /\ Ordered(list', parent')
        /\ NoParentIn(dpm_list, list)'
    BY <1>2, <1>3, <2>1, MoveToHeadOrder
  <2> QED BY <1>1, <1>2, <1>4, <2>2 DEF OrderInv
<1> QED BY <1>5, <1>6, <1>7, <1>8 DEF DeviceInv, StateInv

\* dpm_complete ends when it has passed every device, and all are on.
LEMMA CompleteEndsInv ==
  ASSUME DeviceInv, CompleteEnds
  PROVE  DeviceInv'
<1>1. DeviceTypeOK /\ WalkInv /\ StatusInv /\ OrderInv /\ Lists
  BY InvFacts
<1>2. /\ pc = "complete" /\ dpm_list = <<>> /\ pc' = "idle"
      /\ UNCHANGED <<status, parent, asleep, dev, error, transition_started, late>>
  BY DEF CompleteEnds, tree_vars
<1>3. /\ Lists' /\ Listed' = Listed
      /\ ToSet(dpm_list') = Listed /\ list' = <<>> /\ ToSet(list') = {}
      /\ \A par : Ordered(list', par)
      /\ \A par : Ordered(list, par) /\ Ordered(dpm_list, par)
                    /\ (\A x \in ToSet(list) : par[x] \notin ToSet(dpm_list))
                      => Ordered(dpm_list', par)
  BY <1>1, SpliceFrontFacts DEF CompleteEnds
<1>4. ToSet(dpm_list') = ToSet(list) /\ ToSet(dpm_list) = {}
  BY <1>2, <1>3, NoneFacts DEF Listed
<1>5. DeviceTypeOK'
  BY <1>1, <1>2, <1>3 DEF DeviceTypeOK, Lists, Calls, Walks
<1>6. WalkInv'
  BY <1>1, <1>2, <1>3 DEF WalkInv
<1>7. StatusInv'
  BY <1>1, <1>2, <1>3, <1>4 DEF StatusInv, Shows
<1>8. OrderInv'
  <2> SUFFICES ASSUME ~late' PROVE OrderInv'
    BY DEF OrderInv
  <2>1. Ordered(dpm_list', parent')
    BY <1>1, <1>2, <1>3, <1>4 DEF OrderInv
  <2> QED BY <1>1, <1>2, <1>3, <2>1 DEF OrderInv
<1> QED BY <1>5, <1>6, <1>7, <1>8 DEF DeviceInv, StateInv

-----------------------------------------------------------------------------
(* The theorems.                                                           *)

\* The lists, the states of the devices and their order stay as the walks need them,
\* whatever devices come, go and move while the drivers are called.
THEOREM DeviceInvariant == DeviceSpec => []DeviceInv
<1>1. DeviceInit => DeviceInv
  <2> SUFFICES ASSUME DeviceInit PROVE DeviceInv
    OBVIOUS
  <2>1. /\ dpm_list = <<>> /\ list = <<>> /\ pc = "idle" /\ dev = NoDevice
        /\ status = [d \in Device |-> "INVALID"] /\ parent = [d \in Device |-> NoDevice]
        /\ error = FALSE /\ transition_started = FALSE /\ asleep = {} /\ late = FALSE
    BY DEF DeviceInit
  <2>2. /\ ToSet(dpm_list) = {} /\ ToSet(list) = {} /\ Listed = {}
        /\ Ordered(dpm_list, parent) /\ Ordered(list, parent)
    BY <2>1, NoneFacts DEF Listed
  <2>3. DeviceTypeOK
    <3>1. "INVALID" \in ToSet(Status)
      BY StatusSet
    <3>2. status \in [Device -> ToSet(Status)] /\ parent \in [Device -> Device \cup {NoDevice}]
      BY <2>1, <3>1
    <3>3. /\ dpm_list \in Seq(Device) /\ list \in Seq(Device)
          /\ IsInjective(dpm_list) /\ IsInjective(list) /\ ToSet(dpm_list) \cap ToSet(list) = {}
      BY <2>1, <2>2, NoneFacts
    <3> QED BY <2>1, <2>2, <3>2, <3>3 DEF DeviceTypeOK, Calls, Walks
  <2>4. WalkInv /\ StatusInv /\ OrderInv
    BY <2>1, <2>2 DEF WalkInv, StatusInv, OrderInv, Shows
  <2> QED BY <2>3, <2>4 DEF DeviceInv, StateInv
<1>2. DeviceInv /\ [DeviceNext]_device_vars => DeviceInv'
  <2> SUFFICES ASSUME DeviceInv, [DeviceNext]_device_vars PROVE DeviceInv'
    OBVIOUS
  <2>1. CASE DriverStep
    BY <2>1, AddInv, RemoveInv, MoveLastInv, MoveAfterInv DEF DriverStep
  <2>2. CASE dpm_suspend_start
    BY <2>2, StartInv
  <2>3. CASE DownStep
    BY <2>3, PrepareNextInv, PrepareInv, PrepareEndsInv, SuspendNextInv, SuspendInv,
       SuspendEndsInv, SuspendNoirqInv DEF DownStep
  <2>4. CASE UpStep
    BY <2>4, ResumeNoirqInv, ResumeEndInv, ResumeNextInv, ResumeSkipsInv, ResumeInv,
       ResumeEndsInv, CompleteNextInv, CompleteSkipsInv, CompleteInv, CompleteEndsInv
       DEF UpStep
  <2>5. CASE UNCHANGED device_vars
    <3>1. UNCHANGED <<dpm_list, list, status, parent, asleep, pc, dev, error,
                      transition_started, late>>
      BY <2>5 DEF device_vars, tree_vars, walk_vars
    <3> QED BY <3>1 DEF DeviceInv, StateInv, DeviceTypeOK, WalkInv, StatusInv, OrderInv,
                        Shows, NoParentIn, Listed
  <2> QED BY <2>1, <2>2, <2>3, <2>4, <2>5 DEF DeviceNext
<1> QED BY <1>1, <1>2, PTL DEF DeviceSpec

\* Every device stays on one list at most, with its parent registered.
THEOREM DeviceTypeCorrect == DeviceSpec => []DeviceTypeOK
<1>1. DeviceInv => DeviceTypeOK
  BY DEF DeviceInv, StateInv
<1> QED BY <1>1, DeviceInvariant, PTL

\* Between suspends dpm_list has every device after its parent, unless one was
\* registered under a device that dpm_complete was done with.
THEOREM ListStaysOrdered == DeviceSpec => []OrderKept
<1>1. DeviceInv => OrderKept
  <2> SUFFICES ASSUME DeviceInv, ~late PROVE OrderKept
    BY DEF OrderKept
  <2>1. Ordered(dpm_list, parent) /\ dpm_list \in Seq(Device)
    BY InvFacts DEF OrderInv
  <2>2. DOMAIN dpm_list = 1 .. Len(dpm_list)
    BY <2>1
  <2> QED BY <2>1, <2>2 DEF OrderKept, Ordered
<1> QED BY <1>1, DeviceInvariant, PTL

\* No device is put to sleep before its children or woken up after them.
THEOREM ParentsLastToSleep == DeviceSpec => []ChildrenAsleep
<1>1. DeviceInv => ChildrenAsleep
  BY DEF DeviceInv, OrderInv, ChildrenAsleep
<1> QED BY <1>1, DeviceInvariant, PTL

\* The noirq phase finds every device asleep, and a suspend leaves none asleep and
\* every device on, wherever a driver failed and even if the order was lost.
THEOREM NoDeviceForgotten == DeviceSpec => []NoneForgotten
<1>1. DeviceInv => NoneForgotten
  <2> SUFFICES ASSUME DeviceInv PROVE NoneForgotten
    OBVIOUS
  <2>1. WalkInv /\ StatusInv
    BY InvFacts
  <2>2. pc \in {"noirq", "idle"} => Listed = ToSet(dpm_list)
    BY <2>1, NoneFacts DEF WalkInv, Listed
  <2> QED BY <2>1, <2>2 DEF StatusInv, Shows, NoneForgotten
<1> QED BY <1>1, DeviceInvariant, PTL
=============================================================================
