------------------------------ MODULE DvfsLock ------------------------------
(***************************************************************************)
(* The DVFS lock of arch/arm/mach-s5pv210/victory/cpu-freq.c: drivers hold *)
(* tokens that keep the CPU at or above a performance level, and user      *)
(* space holds DVFS_LOCK_TOKEN_6 for a limited time through                *)
(* /sys/power/dvfslock_ctrl (kernel/power/main.c).                         *)
(*                                                                         *)
(* Levels are indices of s5pc110_freq_table: 0 is the fastest.  The mutex  *)
(* around the token operations is commented out, but they neither sleep    *)
(* nor are called from interrupt handlers: with one CPU and no kernel      *)
(* preemption each is one action.  set_dvfs_target_level is called from    *)
(* the interrupt handlers of the keys, at any time.                        *)
(***************************************************************************)
EXTENDS Integers

CONSTANTS
  Token,         \* the lock tokens
  Launcher,      \* DVFS_LOCK_TOKEN_6
  MaxLevel,      \* MAXFREQ_LEVEL_SUPPORTED - 1, the slowest level
  InitLimit,     \* the g_dvfs_high_lock_limit set by s5pc110_cpu_init
  InitIndex,     \* the initial s5pc11x_cpufreq_index
  LockLevel,     \* the levels drivers lock
  LauncherLevel, \* the levels of LEV_800MHZ and LEV_1000MHZ
  BoostLevel,    \* the levels key interrupts ask for
  MaxTime        \* bound on the duration of a launcher lock, in ticks

Level == 0 .. MaxLevel

ASSUME DvfsLockAssumption ==
  /\ MaxLevel \in Nat /\ InitLimit \in Nat /\ InitLimit >= MaxLevel /\ InitIndex \in Level
  /\ Launcher \in Token
  /\ LockLevel \subseteq Level /\ BoostLevel \subseteq Level
  /\ LauncherLevel \subseteq Level \ {0}
  /\ MaxTime \in Nat \ {0}

VARIABLES
  held,            \* g_dvfs_high_lock_token
  lockval,         \* g_dvfslockval
  limit,           \* g_dvfs_high_lock_limit
  relocked,        \* history: a held token was locked again since the last unlock
  cpufreq_index,   \* s5pc11x_cpufreq_index
  quick,           \* dvfs_change_quick
  started,         \* g_dbs_timer_started
  dvfsctrl_locked, \* dvfsctrl_locked
  unlock_left      \* ticks until dvfslock_crtl_unlock_work runs, -1: not pending

token_vars == <<held, lockval, limit, relocked>>
index_vars == <<cpufreq_index, quick>>
ctrl_vars == <<dvfsctrl_locked, unlock_left>>
lock_vars == <<token_vars, index_vars, ctrl_vars, started>>

DvfsLockTypeOK ==
  /\ held \subseteq Token /\ lockval \in [Token -> Level]
  /\ limit \in Level \cup {InitLimit} /\ relocked \in BOOLEAN
  /\ cpufreq_index \in Level /\ quick \in BOOLEAN
  /\ started \in BOOLEAN /\ dvfsctrl_locked \in BOOLEAN
  /\ unlock_left \in -1 .. MaxTime

-----------------------------------------------------------------------------

\* set_dvfs_perf_level: jump up, and have the governor notice at its next sample.
set_dvfs_perf_level(n) ==
  IF cpufreq_index > n THEN cpufreq_index' = n /\ quick' = TRUE ELSE UNCHANGED index_vars

\* The launcher token is allowed one level more than it asks for.
TokenLevel(t, l) == IF t = Launcher THEN l - 1 ELSE l

LockOverwrites(t, n) == limit' = n

LowerLimit(t, n) == limit' = IF n < limit THEN n ELSE limit

s5pc110_lock_dvfs_high_level(t, l) ==
  LET n == TokenLevel(t, l) IN
  /\ held' = held \cup {t}
  /\ lockval' = [lockval EXCEPT ![t] = n]
  /\ LowerLimit(t, n)
  /\ relocked' = (relocked \/ t \in held)
  /\ set_dvfs_perf_level(n)

\* The lowest of the remaining lock values.
IsLowest(n, H, V) ==
  IF H = {} THEN n = MaxLevel
  ELSE (\A t \in Token : n <= V[t]) /\ (\E t \in Token : n = V[t])

s5pc110_unlock_dvfs_high_level(t) ==
  /\ held' = held \ {t}
  /\ lockval' = [lockval EXCEPT ![t] = MaxLevel]
  /\ limit' \in Level /\ IsLowest(limit', held', lockval')
  /\ relocked' = FALSE
  /\ UNCHANGED index_vars

-----------------------------------------------------------------------------
(* The users of the locks.                                                 *)

DriverLocks(t, l) ==
  s5pc110_lock_dvfs_high_level(t, l) /\ UNCHANGED <<ctrl_vars, started>>

\* Drivers also release a token they may not hold (an error path, a second close).
DriverUnlocks(t) ==
  s5pc110_unlock_dvfs_high_level(t) /\ UNCHANGED <<ctrl_vars, started>>

\* set_dvfs_target_level, from the interrupt handler of a key.
KeyBoosts(l) ==
  set_dvfs_perf_level(l) /\ UNCHANGED <<token_vars, ctrl_vars, started>>

\* A write of 0 to dvfslock_ctrl.  The unlock work stays pending.
LauncherUnlocks ==
  /\ started /\ dvfsctrl_locked
  /\ s5pc110_unlock_dvfs_high_level(Launcher)
  /\ dvfsctrl_locked' = FALSE
  /\ UNCHANGED <<unlock_left, started>>

\* A write of another value.  schedule_delayed_work does nothing to a pending work.
LauncherLocks(l, d) ==
  /\ started /\ ~dvfsctrl_locked
  /\ s5pc110_lock_dvfs_high_level(Launcher, l)
  /\ dvfsctrl_locked' = TRUE
  /\ unlock_left' = IF unlock_left = -1 THEN d ELSE unlock_left
  /\ UNCHANGED started

TimerForgetsFlag ==
  /\ unlock_left = 0 /\ unlock_left' = -1
  /\ s5pc110_unlock_dvfs_high_level(Launcher)
  /\ UNCHANGED <<dvfsctrl_locked, started>>

do_dvfsunlock_timer ==
  /\ unlock_left = 0 /\ unlock_left' = -1
  /\ dvfsctrl_locked' = FALSE
  /\ s5pc110_unlock_dvfs_high_level(Launcher)
  /\ UNCHANGED started

Tick ==
  /\ unlock_left > 0 /\ unlock_left' = unlock_left - 1
  /\ UNCHANGED <<token_vars, index_vars, dvfsctrl_locked, started>>

\* A sample of the conservative governor, seen from here: it may move the index and
\* acknowledge a boost.  (CpuFreq has the details.)
GovernorSamples ==
  /\ cpufreq_index' \in Level /\ (quick' = quick \/ quick' = FALSE)
  /\ started' \in {started, TRUE}
  /\ UNCHANGED <<token_vars, ctrl_vars>>

DvfsLockInit ==
  /\ held = {} /\ lockval = [t \in Token |-> MaxLevel] /\ limit = InitLimit
  /\ relocked = FALSE /\ cpufreq_index = InitIndex /\ quick = FALSE
  /\ started = FALSE /\ dvfsctrl_locked = FALSE /\ unlock_left = -1

DriverStep ==
  \E t \in Token \ {Launcher} : DriverUnlocks(t) \/ \E l \in LockLevel : DriverLocks(t, l)

LauncherStep ==
  LauncherUnlocks \/ \E l \in LauncherLevel, d \in 1 .. MaxTime : LauncherLocks(l, d)

UserStep == DriverStep \/ LauncherStep \/ do_dvfsunlock_timer \/ Tick

DvfsLockNext ==
  UserStep \/ GovernorSamples \/ \E l \in BoostLevel : KeyBoosts(l)

DvfsLockSpec == DvfsLockInit /\ [][DvfsLockNext]_lock_vars

-----------------------------------------------------------------------------
(* Properties.                                                             *)

\* However drivers interleave, lock twice or release what they do not hold, the
\* limit the governor obeys is at least as fast as every held lock asks for.
LimitCoversLocks == \A t \in held : limit <= lockval[t]

\* The limit is not faster than needed either: it is the level of a held lock,
\* unless a held token was locked again, and it is gone with the last lock.
LimitIsNeeded ==
  /\ held = {} => limit >= MaxLevel
  /\ held # {} /\ ~relocked => \E t \in held : limit = lockval[t]

\* The launcher's token is held exactly while dvfsctrl_locked says so, and then
\* the work that releases it is pending: neither the timer racing a write of 0
\* nor a second write leaves the CPU locked for good.
LauncherLockTimed ==
  /\ dvfsctrl_locked <=> Launcher \in held
  /\ dvfsctrl_locked => unlock_left >= 0
=============================================================================
