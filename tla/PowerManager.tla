---------------------------- MODULE PowerManager ----------------------------
(***************************************************************************)
(* Wake locks, early suspend and the suspend sequence put together.        *)
(*                                                                         *)
(* They meet in four places: early suspend takes and releases              *)
(* main_wake_lock, and sync_system holds sync_wake_lock; the three works   *)
(* early_suspend, late_resume and suspend share one thread; the suspend    *)
(* work calls pm_suspend; and pm_suspend looks for wake locks, in the      *)
(* freezer and in power_suspend_late.  With tasks frozen no user asks for  *)
(* anything, with interrupts off nothing runs but the suspend.             *)
(***************************************************************************)
EXTENDS WakeLock, Suspend

CONSTANTS
  Sync,    \* sync_wake_lock
  Work,    \* the caller of pm_suspend that is the suspend work
  Handler, Level, HasSuspend, HasResume    \* of EarlySuspend

ASSUME PowerAssumption ==
  /\ Sync \in Lock \ ({Main, Unknown} \cup IdleLock)
  /\ Work \in Caller \ UserCaller
  /\ Level \in [Handler -> Int] /\ HasSuspend \subseteq Handler /\ HasResume \subseteq Handler

VARIABLES
  state, handlers, registering, asleep, es_pending, lr_pending, worker, pos,
  sync_pending,              \* of EarlySuspend
  requested_suspend_state,   \* requested_suspend_state
  fresh                      \* history: locks taken after power_suspend_late let them go

\* early_suspend_lock, its works and its handlers; the two locks it uses are wake
\* locks like the others.
Early == INSTANCE EarlySuspend WITH
  main_held <- "ACTIVE" \in flags[Main], sync_held <- "ACTIVE" \in flags[Sync]

early_own_vars == <<state, handlers, registering, asleep, es_pending, lr_pending, worker, pos,
                    sync_pending>>
power_vars == <<wakelock_vars, suspend_vars, early_own_vars, requested_suspend_state, fresh>>

InterruptsOn == "irqs" \notin down
UsersRun == "tasks" \notin down

\* The thread of suspend_work_queue is between two works.
ThreadIdle == suspend_pc = "idle" /\ worker = "idle"

\* Locks that become active are fresh from power_suspend_late until the devices are
\* resumed; link' and down' are known.
NoteLocks ==
  fresh' = {l \in Lock : /\ "noirq" \in down' /\ link'[l] = "active"
                         /\ link[l] = "active" => l \in fresh}

WakeLocksOnly(A) ==
  A /\ UNCHANGED <<suspend_vars, early_own_vars, requested_suspend_state>> /\ NoteLocks

-----------------------------------------------------------------------------
(* Drivers, timers and users.                                              *)

\* wakelocks_init
Boot ==
  "INITIALIZED" \notin flags[Sync] /\ WakeLocksOnly(wake_lock_init(Sync))

DriverLocks(l) ==
  /\ InterruptsOn
  /\ WakeLocksOnly(\/ wake_lock_init(l) \/ wake_lock(l) \/ wake_unlock(l)
                   \/ wake_lock_destroy(l)
                   \/ \E t \in Timeouts : wake_lock_timeout(l, t))

TimePasses == InterruptsOn /\ WakeLocksOnly(Tick \/ TimerStep)

HandlersChange ==
  /\ InterruptsOn /\ UNCHANGED <<wakelock_vars, suspend_vars, requested_suspend_state, fresh>>
  /\ Early!HandlerStep

\* Mutant: a second request to suspend releases main_wake_lock at once.
RequestReleasesMain(new_state) ==
  /\ UsersRun /\ "INITIALIZED" \in flags[Sync]
  /\ requested_suspend_state' = new_state
  /\ \/ /\ Early!REQUESTED \notin state /\ new_state = "mem"
        /\ UNCHANGED wakelock_vars /\ Early!request_suspend_state
     \/ /\ Early!REQUESTED \in state /\ new_state = "mem"
        /\ wake_unlock(Main) /\ UNCHANGED early_own_vars
  /\ UNCHANGED suspend_vars /\ NoteLocks

request_suspend_state(new_state) ==
  /\ UsersRun /\ "INITIALIZED" \in flags[Sync]
  /\ requested_suspend_state' = new_state
  /\ \/ /\ Early!REQUESTED \notin state /\ new_state = "mem"
        /\ UNCHANGED wakelock_vars /\ Early!request_suspend_state
     \/ /\ Early!REQUESTED \in state /\ new_state = "on"
        /\ wake_lock(Main) /\ Early!request_suspend_state
     \/ /\ Early!REQUESTED \in state <=> new_state = "mem"
        /\ UNCHANGED <<wakelock_vars, early_own_vars>>
  /\ UNCHANGED suspend_vars /\ NoteLocks

UserClock ==
  /\ UserSetsClock
  /\ UNCHANGED <<wakelock_vars, early_own_vars, requested_suspend_state, fresh>>

-----------------------------------------------------------------------------
(* The works of early suspend.                                             *)

EarlyWork ==
  /\ InterruptsOn /\ suspend_pc = "idle"
  /\ \/ /\ worker = "es_end" /\ state = {Early!REQUESTED, Early!SUSPENDED}
        /\ wake_unlock(Main)
     \/ /\ worker = "es_end" => state # {Early!REQUESTED, Early!SUSPENDED}
        /\ UNCHANGED wakelock_vars
  /\ Early!WorkerStep
  /\ UNCHANGED <<suspend_vars, requested_suspend_state>> /\ NoteLocks

SyncWork ==
  /\ InterruptsOn
  /\ wake_lock(Sync) \/ wake_unlock(Sync)
  /\ Early!sync_system
  /\ UNCHANGED <<suspend_vars, requested_suspend_state>> /\ NoteLocks

-----------------------------------------------------------------------------
(* The suspend work and pm_suspend.                                        *)

SuspendWorkStep ==
  /\ InterruptsOn
  /\ WakeLocksOnly(\/ ThreadIdle /\ SuspendStart
                   \/ SuspendCheck \/ SuspendEntry \/ SuspendExit \/ SuspendNoEvent)

\* pm_suspend(PM_SUSPEND_ON): -EINVAL.
PmSuspendInvalid ==
  /\ pc[Work] = "idle" /\ requested_suspend_state = "on" /\ InterruptsOn
  /\ WakeLocksOnly(PmSuspendReturns)

\* A caller calls pm_suspend; it is busy with another one, or goes on.
PmSuspendCalled(c) ==
  /\ c = Work => suspend_pc = "pm_suspend" /\ requested_suspend_state = "mem"
  /\ \/ EnterBusy(c) /\ (IF c = Work THEN PmSuspendReturns ELSE UNCHANGED wakelock_vars)
     \/ EnterState(c) /\ UNCHANGED wakelock_vars
  /\ UNCHANGED <<early_own_vars, requested_suspend_state, fresh>>

\* The freezer looks for locks only as long as tasks are not frozen.
Freezing(c) ==
  /\ FreezeProcesses(c)
  /\ UNCHANGED wakelock_vars
     \/ (has_wake_lock /\ UNCHANGED <<timer_vars, suspend_pending, suspend_pc, event>>)
  /\ NoteLocks /\ UNCHANGED <<early_own_vars, requested_suspend_state>>

\* Mutant: the device of the wake locks does not refuse.
LateWithoutPoll(c) ==
  /\ DpmSuspendNoirq(c)
  /\ UNCHANGED <<wakelock_vars, early_own_vars, requested_suspend_state>>
  /\ fresh' = {}

\* power_suspend_late refuses while a lock is held.
SuspendLate(c) ==
  /\ DpmSuspendNoirq(c)
  /\ "noirq" \in down' => Remaining(flags, link, left) = {}
  /\ has_wake_lock /\ UNCHANGED <<timer_vars, suspend_pending, suspend_pc, event>>
  /\ fresh' = {}
  /\ UNCHANGED <<early_own_vars, requested_suspend_state>>

\* The steps that have nothing to do with wake locks.
SequenceStep(c) ==
  /\ \/ PrepareConsole(c) \/ NotifyPrepare(c) \/ HelpersDisable(c) \/ SuspendConsole(c)
     \/ DpmSuspendStart(c) \/ PlatformPrepare(c) \/ IrqsDisable(c) \/ SysdevSuspend(c)
     \/ PlatformEnter(c) \/ WakeUp(c) \/ UpStep(c)
  /\ UNCHANGED <<wakelock_vars, early_own_vars, requested_suspend_state>>
  /\ NoteLocks

PmSuspendLeaves(c) ==
  /\ LeaveStep(c)
  /\ IF c = Work /\ pc'[c] = "idle" THEN PmSuspendReturns ELSE UNCHANGED wakelock_vars
  /\ UNCHANGED <<early_own_vars, requested_suspend_state, fresh>>

-----------------------------------------------------------------------------

PowerInit ==
  /\ WakeLockInit /\ SuspendInit /\ Early!EarlySuspendInit
  /\ requested_suspend_state = "mem" /\ fresh = {}

SuspendCallStep(c) ==
  \/ PmSuspendCalled(c) \/ Freezing(c) \/ SuspendLate(c) \/ SequenceStep(c) \/ PmSuspendLeaves(c)

PowerNext ==
  \/ Boot \/ TimePasses \/ HandlersChange \/ UserClock
  \/ \E l \in DriverLock \ {Sync} : DriverLocks(l)
  \/ \E s \in {"on", "mem"} : request_suspend_state(s)
  \/ EarlyWork \/ SyncWork \/ SuspendWorkStep \/ PmSuspendInvalid
  \/ \E c \in Caller : SuspendCallStep(c)

PowerSpec == PowerInit /\ [][PowerNext]_power_vars

-----------------------------------------------------------------------------
(* Properties.                                                             *)

Sleeps == \E c \in Caller : pc[c] = "asleep"

\* The composition does to each of the three components only what the component's own
\* specification allows, so what is proved of the components holds here, too.
ImplementsComponents == WakeLockSpec /\ SuspendSpec /\ Early!EarlySuspendSpec

\* The device sleeps only with the screen off: whoever calls pm_suspend, and whatever
\* the user asks for until tasks are frozen, main_wake_lock is not held and every
\* early suspend handler has been called, but for one that is just being registered.
ScreenOffAsleep ==
  Sleeps => /\ "ACTIVE" \notin flags[Main]
            /\ state = {Early!REQUESTED, Early!SUSPENDED}
            /\ \A h \in (Early!Registered \cap HasSuspend) \ registering : h \in asleep

\* kernel/power/Kconfig: "the sleep request will be delayed until no wake locks are
\* held".  The only locks that can be held while the device sleeps are those taken
\* between power_suspend_late and arch_suspend_disable_irqs: no lock of an earlier
\* time is overlooked, whatever expires or is taken again on the way.
OnlyFreshLocksAsleep == Sleeps => Holding(link) \subseteq fresh
=============================================================================
