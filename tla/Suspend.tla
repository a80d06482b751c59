------------------------------- MODULE Suspend -------------------------------
(***************************************************************************)
(* kernel/power/suspend.c: pm_suspend and the functions it calls, from     *)
(* enter_state down to the platform's sleep instruction and back.          *)
(*                                                                         *)
(* pm_suspend has two callers: the suspend work of the wake locks, on a    *)
(* kernel thread, and the APM_IOC_SUSPEND ioctl of a user task             *)
(* (drivers/char/apm-emulation.c).  Both may be inside it at once, as      *)
(* enter_state releases pm_mutex before it restores the clock settings.    *)
(*                                                                         *)
(* The build has one CPU and no kernel preemption, so a caller is          *)
(* overtaken only where it may sleep.  suspend_ops is s3c_pm_ops           *)
(* (arch/arm/plat-samsung/victory/pm.c): valid, prepare, enter, finish.    *)
(* "down" is the set of services that have been taken away; each call that *)
(* takes one away or gives it back is an action, failures included.        *)
(***************************************************************************)
EXTENDS Naturals

CONSTANTS
  Caller,     \* the threads that call pm_suspend
  UserCaller, \* those of them that are user tasks (apm_ioctl)
  Speed,      \* the CPU speeds the userspace governor may be given
  NoCaller    \* pm_mutex is free

ASSUME SuspendAssumption ==
  /\ UserCaller \subseteq Caller /\ NoCaller \notin Caller
  /\ Speed \subseteq Nat \ {0} /\ Speed # {}

VARIABLES
  pc,                \* where each caller is
  error,             \* what its last pm_suspend returned, or will return
  owner,             \* the holder of pm_mutex
  down,              \* the services taken away from the system
  governor,          \* cpufreq_governor_name
  speed,             \* the ARM clock while the userspace governor rules
  userSpaceGovernor, \* userSpaceGovernor
  g_cpuspeed,        \* g_cpuspeed
  gbClockFix,        \* gbClockFix
  clock_fixed,       \* g_dvfs_fix_lock_limit is set and DVFS_LOCK_TOKEN_7 held
  arg                \* the argument of a caller's call of s5pc110_pm_target

clock_vars == <<governor, speed, userSpaceGovernor, g_cpuspeed, gbClockFix, clock_fixed, arg>>
suspend_vars == <<pc, error, owner, down, clock_vars>>

Governor == {"userspace", "conservative", "other"}

\* The services, in the order in which the code takes them away.
Service == <<"console", "notifiers", "helpers", "tasks", "printk", "devices",
             "platform", "noirq", "irqs", "sysdev">>

\* What is down when a caller is about to execute the step named by its pc.
Before(n) == {Service[i] : i \in 1 .. n}

\* The steps in which pm_mutex is held.
Section == {"sync", "notify", "helpers", "freeze", "printk", "dpm_start", "platform",
            "noirq", "irqs_off", "sysdev", "enter", "asleep", "sysdev_resume", "irqs_on",
            "noirq_resume", "platform_finish", "dpm_end", "printk_on", "thaw",
            "helpers_on", "post", "restore_console", "unlock"}

SuspendTypeOK ==
  /\ pc \in [Caller -> Section \cup {"idle", "restore"}]
  /\ error \in [Caller -> {"ok", "EBUSY", "failed"}]
  /\ owner \in Caller \cup {NoCaller}
  /\ down \subseteq {Service[i] : i \in DOMAIN Service}
  /\ governor \in Governor /\ speed \in Speed
  /\ userSpaceGovernor \in BOOLEAN /\ gbClockFix \in BOOLEAN /\ clock_fixed \in BOOLEAN
  /\ g_cpuspeed \in Speed \cup {0}
  /\ arg \in [Caller -> Speed \cup {0}]

\* A thread can run: not with interrupts off, and a user task not while frozen.
MayRun(c) ==
  owner # c => "irqs" \notin down /\ (c \in UserCaller => "tasks" \notin down)

Goto(c, from, to) == pc[c] = from /\ pc' = [pc EXCEPT ![c] = to]

Fails(c) == error' = [error EXCEPT ![c] = "failed"]

\* A step that may fail: the goto of the error path.
TakeDown(c, from, s, to) ==
  /\ Goto(c, from, to) /\ down' = down \cup {s} /\ UNCHANGED <<error, owner, clock_vars>>

GiveBack(c, from, s, to) ==
  /\ Goto(c, from, to) /\ down' = down \ {s} /\ UNCHANGED <<error, owner, clock_vars>>

-----------------------------------------------------------------------------
(* enter_state, up to suspend_prepare.                                     *)

\* mutex_trylock(&pm_mutex) failed.
EnterBusy(c) ==
  /\ pc[c] = "idle" /\ MayRun(c) /\ owner # NoCaller
  /\ error' = [error EXCEPT ![c] = "EBUSY"]
  /\ UNCHANGED <<pc, owner, down, clock_vars>>

\* The clock settings made right after pm_mutex is taken.
SaveSpeed ==
  /\ governor = "userspace"
  /\ g_cpuspeed' = speed /\ userSpaceGovernor' = TRUE
  /\ UNCHANGED <<gbClockFix, clock_fixed>>

FixClock ==
  /\ governor = "conservative"
  /\ clock_fixed' = TRUE /\ gbClockFix' = TRUE
  /\ UNCHANGED <<g_cpuspeed, userSpaceGovernor>>

LeaveClock ==
  /\ governor = "other"
  /\ UNCHANGED <<g_cpuspeed, userSpaceGovernor, gbClockFix, clock_fixed>>

\* cpufreq_get_policy may fail, on the path that fixes the clock only.
EnterState(c) ==
  /\ MayRun(c) /\ owner = NoCaller /\ owner' = c
  /\ SaveSpeed \/ FixClock \/ LeaveClock
  /\ \/ Goto(c, "idle", "sync") /\ error' = [error EXCEPT ![c] = "ok"]
     \/ governor = "conservative" /\ Goto(c, "idle", "unlock") /\ Fails(c)
  /\ UNCHANGED <<down, governor, speed, arg>>

-----------------------------------------------------------------------------
(* suspend_prepare.                                                        *)

\* sys_sync(), then pm_prepare_console().
PrepareConsole(c) == TakeDown(c, "sync", "console", "notify")

\* PM_SUSPEND_PREPARE; when a notifier refuses, all of them get PM_POST_SUSPEND.
NotifyPrepare(c) ==
  /\ down' = down \cup {"notifiers"}
  /\ \/ Goto(c, "notify", "helpers") /\ UNCHANGED error
     \/ Goto(c, "notify", "post") /\ Fails(c)
  /\ UNCHANGED <<owner, clock_vars>>

\* usermodehelper_disable() undoes its own work when helpers keep running.
HelpersDisable(c) ==
  \/ TakeDown(c, "helpers", "helpers", "freeze")
  \/ Goto(c, "helpers", "post") /\ Fails(c) /\ UNCHANGED <<owner, down, clock_vars>>

FreezeFailsToPost(c) ==
  /\ down' = down \cup {"tasks"}
  /\ \/ /\ \A u \in UserCaller \ {c} : pc[u] = "idle"
        /\ Goto(c, "freeze", "printk") /\ UNCHANGED error
     \/ Goto(c, "freeze", "post") /\ Fails(c)
  /\ UNCHANGED <<owner, clock_vars>>

\* suspend_freeze_processes() fails on a timeout or a wake lock, with some tasks
\* frozen.  It cannot succeed while a user task is inside enter_state.
FreezeProcesses(c) ==
  /\ down' = down \cup {"tasks"}
  /\ \/ /\ \A u \in UserCaller \ {c} : pc[u] = "idle"
        /\ Goto(c, "freeze", "printk") /\ UNCHANGED error
     \/ Goto(c, "freeze", "thaw") /\ Fails(c)
  /\ UNCHANGED <<owner, clock_vars>>

-----------------------------------------------------------------------------
(* suspend_devices_and_enter and suspend_enter.                            *)

SuspendConsole(c) == TakeDown(c, "printk", "printk", "dpm_start")

\* dpm_suspend_start() may fail with some devices suspended.
DpmSuspendStart(c) ==
  /\ down' = down \cup {"devices"}
  /\ \/ Goto(c, "dpm_start", "platform") /\ UNCHANGED error
     \/ Goto(c, "dpm_start", "dpm_end") /\ Fails(c)
  /\ UNCHANGED <<owner, clock_vars>>

\* The errors of suspend_enter, from here on, are dropped by its caller.
Drops(c, from, to) == Goto(c, from, to) /\ UNCHANGED <<error, owner, down, clock_vars>>

PlatformPrepare(c) ==
  \/ TakeDown(c, "platform", "platform", "noirq")
  \/ Drops(c, "platform", "dpm_end")

NoirqFallsThrough(c) ==
  \/ TakeDown(c, "noirq", "noirq", "irqs_off")
  \/ Drops(c, "noirq", "irqs_off")

\* dpm_suspend_noirq() resumes what it has suspended when a device refuses, as
\* the device of wakelock.c does in power_suspend_late.
DpmSuspendNoirq(c) ==
  \/ TakeDown(c, "noirq", "noirq", "irqs_off")
  \/ Drops(c, "noirq", "platform_finish")

IrqsDisable(c) == TakeDown(c, "irqs_off", "irqs", "sysdev")

SysdevSuspend(c) ==
  \/ TakeDown(c, "sysdev", "sysdev", "enter")
  \/ Drops(c, "sysdev", "irqs_on")

\* suspend_ops->enter sleeps, or fails at once.
PlatformEnter(c) == Drops(c, "enter", "asleep") \/ Drops(c, "enter", "sysdev_resume")

WakeUp(c) == Drops(c, "asleep", "sysdev_resume")

SysdevResume(c) == GiveBack(c, "sysdev_resume", "sysdev", "irqs_on")

IrqsEnableSkipsResume(c) == GiveBack(c, "irqs_on", "irqs", "platform_finish")

IrqsEnable(c) == GiveBack(c, "irqs_on", "irqs", "noirq_resume")

DpmResumeNoirq(c) == GiveBack(c, "noirq_resume", "noirq", "platform_finish")

PlatformFinish(c) == GiveBack(c, "platform_finish", "platform", "dpm_end")

DpmResumeEnd(c) == GiveBack(c, "dpm_end", "devices", "printk_on")

ResumeConsole(c) == GiveBack(c, "printk_on", "printk", "thaw")

-----------------------------------------------------------------------------
(* suspend_finish, and the same four calls at the end of suspend_prepare.  *)

ThawProcesses(c) == GiveBack(c, "thaw", "tasks", "helpers_on")

HelpersEnable(c) == GiveBack(c, "helpers_on", "helpers", "post")

NotifyPost(c) == GiveBack(c, "post", "notifiers", "restore_console")

RestoreConsole(c) == GiveBack(c, "restore_console", "console", "unlock")

-----------------------------------------------------------------------------
(* enter_state, from mutex_unlock(&pm_mutex) on.                           *)

\* if(gbClockFix) { ... }
UnfixClock ==
  /\ gbClockFix' = FALSE
  /\ clock_fixed' = IF gbClockFix THEN FALSE ELSE clock_fixed

\* What enter_state still does once s5pc110_pm_target is done with.
Leave(c) ==
  /\ g_cpuspeed' = 0 /\ userSpaceGovernor' = FALSE /\ UnfixClock
  /\ arg' = [arg EXCEPT ![c] = 0]

\* s5pc110_pm_target waits for the voltage regulator, unless the CPU has the
\* saved speed, and so its voltage, already: then nothing comes in between.
\* (Under another governor the CPU may have any speed.)
Unlock(c) ==
  /\ owner' = NoCaller
  /\ \/ /\ userSpaceGovernor /\ (g_cpuspeed = speed => governor # "userspace")
        /\ Goto(c, "unlock", "restore") /\ arg' = [arg EXCEPT ![c] = g_cpuspeed]
        /\ UNCHANGED <<userSpaceGovernor, g_cpuspeed, gbClockFix, clock_fixed>>
     \/ /\ userSpaceGovernor => g_cpuspeed = speed \/ governor # "userspace"
        /\ Goto(c, "unlock", "idle") /\ Leave(c)
  /\ UNCHANGED <<error, down, governor, speed>>

\* s5pc110_pm_target has returned.
RestoreSpeed(c) ==
  /\ Goto(c, "restore", "idle") /\ MayRun(c)
  /\ speed' = arg[c] /\ Leave(c)
  /\ UNCHANGED <<error, owner, down, governor>>

-----------------------------------------------------------------------------
\* A user task writes scaling_governor, or scaling_setspeed.
UserSetsClock ==
  /\ "tasks" \notin down
  /\ \/ governor' \in Governor /\ UNCHANGED speed
     \/ governor = "userspace" /\ speed' \in Speed /\ UNCHANGED governor
  /\ UNCHANGED <<pc, error, owner, down, userSpaceGovernor, g_cpuspeed, gbClockFix,
                 clock_fixed, arg>>

SuspendInit ==
  /\ pc = [c \in Caller |-> "idle"] /\ error = [c \in Caller |-> "ok"]
  /\ owner = NoCaller /\ down = {}
  /\ governor = "conservative" /\ speed \in Speed
  /\ userSpaceGovernor = FALSE /\ g_cpuspeed = 0
  /\ gbClockFix = FALSE /\ clock_fixed = FALSE
  /\ arg = [c \in Caller |-> 0]

EnterStep(c) == EnterBusy(c) \/ EnterState(c)

DownStep(c) ==
  \/ PrepareConsole(c) \/ NotifyPrepare(c) \/ HelpersDisable(c) \/ FreezeProcesses(c)
  \/ SuspendConsole(c) \/ DpmSuspendStart(c) \/ PlatformPrepare(c) \/ DpmSuspendNoirq(c)
  \/ IrqsDisable(c) \/ SysdevSuspend(c) \/ PlatformEnter(c) \/ WakeUp(c)

UpStep(c) ==
  \/ SysdevResume(c) \/ IrqsEnable(c) \/ DpmResumeNoirq(c) \/ PlatformFinish(c)
  \/ DpmResumeEnd(c) \/ ResumeConsole(c) \/ ThawProcesses(c) \/ HelpersEnable(c)
  \/ NotifyPost(c) \/ RestoreConsole(c)

LeaveStep(c) == Unlock(c) \/ RestoreSpeed(c)

SuspendNext ==
  UserSetsClock \/ \E c \in Caller : EnterStep(c) \/ DownStep(c) \/ UpStep(c) \/ LeaveStep(c)

SuspendSpec == SuspendInit /\ [][SuspendNext]_suspend_vars

-----------------------------------------------------------------------------
(* Properties.                                                             *)

\* The platform is put to sleep only when every service is down: tasks frozen,
\* devices suspended in both phases, interrupts off.  Whatever fails on the way,
\* no path reaches suspend_ops->enter with a step missing.
SleepsOnlyQuiesced ==
  \A c \in Caller : pc[c] = "asleep" => down = {Service[i] : i \in DOMAIN Service}

\* At every moment, on every error path, what is down is an initial part of the
\* order in which services are taken away: a service comes back only after all
\* those that were taken away later (thaw before the helpers, devices before the
\* console, ...).
NestedUnwinding == \E n \in 0 .. 10 : down = Before(n)

\* Once pm_mutex is free again, every service has been given back: no failing
\* step leaves tasks frozen, helpers disabled or devices suspended.  And once
\* nobody is in pm_suspend, the clock is no longer fixed and no saved speed is left
\* for a later suspend to restore, although two callers share these globals
\* outside pm_mutex and users change the governor in between.
AllGivenBack ==
  /\ owner = NoCaller => down = {}
  /\ (\A c \in Caller : pc[c] = "idle") =>
       ~clock_fixed /\ ~gbClockFix /\ ~userSpaceGovernor /\ g_cpuspeed = 0
=============================================================================
