------------------------------ MODULE CpuFreq ------------------------------
(***************************************************************************)
(* How the conservative governor (cpufreq_conservative.c) and the CPU      *)
(* driver (victory/cpu-freq.c, clock.c) choose a level of the frequency    *)
(* table and move clock and voltage to it, while drivers, keys and user    *)
(* space change the level, the limits and the table of enabled levels.     *)
(* DvfsLock has the locks; its GovernorSamples is refined here.            *)
(*                                                                         *)
(* Two threads change the clock: the governor's ("gov": do_dbs_timer, or a *)
(* writer of the policy in CPUFREQ_GOV_LIMITS, which exclude each other by *)
(* timer_mutex) and the one in enter_state ("susp"), which holds only the  *)
(* policy's rwsem.  The kernel is not preemptible and has one CPU: other   *)
(* threads run only while these sleep, between their calls, waiting for    *)
(* the rwsem, and in set_voltage, which waits twice for the I2C bus.       *)
(* Interrupt handlers (KeyBoosts) run at any time, and the spin lock of    *)
(* s5pc11x_target_frq does not mask them.                                  *)
(***************************************************************************)
EXTENDS DvfsLock, FiniteSetsExt

CONSTANTS
  SuspendToken,     \* DVFS_LOCK_TOKEN_7, held by enter_state
  SuspendLevel,     \* the level of LEV_800MHZ, which it asks for
  Minima, Maxima,   \* the values user space writes to scaling_min_freq, scaling_max_freq
  StateTables       \* the sets of levels user space enables in states_enabled_table

\* s5pc110_freq_table_1GHZ, in MHz.
Freq(i) == <<1400, 1300, 1200, 1120, 1000, 800, 600, 400, 200, 100>>[i + 1]

\* The apllout of clk_info, in MHz.
Apllout(i) == <<1400, 1300, 1200, 1120, 1000, 800, 800, 800, 800, 800>>[i + 1]

Frequency == {Freq(i) : i \in 0 .. 9}

ASSUME CpuFreqAssumption ==
  /\ MaxLevel = 9 /\ SuspendToken \in Token \ {Launcher} /\ SuspendLevel \in LockLevel
  /\ Minima \subseteq Frequency /\ Maxima \subseteq Frequency
  /\ StateTables \subseteq SUBSET Level

VARIABLES
  pc,             \* where each thread is
  who,            \* of "gov": "dbs": do_dbs_timer, "limits": CPUFREQ_GOV_LIMITS
  level,          \* each thread's index in s5pc11x_target_frq and s5pc110_target
  target_freq,    \* each thread's argument of s5pc110_target
  requested_freq, \* this_dbs_info->requested_freq
  min, max, cur,  \* of the policy
  limits_pending, \* __cpufreq_set_policy has not finished
  prevIndex,      \* prevIndex
  apll, div,      \* the levels the APLL and its divider are programmed for
  volt,           \* the level the voltage of the ARM core is set for
  step_curr,      \* step_curr, what set_voltage believes of it
  active,         \* active_states
  known,          \* the active_states that transition_state was computed from
  update_states,  \* exp_update_states
  fixed,          \* g_dvfs_fix_lock_limit
  missed,         \* history: a boost hit a transition down before the clock was set
  overlapped      \* history: a thread began a transition while the other was in one

policy_vars == <<min, max, cur, limits_pending>>
clock_vars == <<apll, div>>
volt_vars == <<volt, step_curr>>
history_vars == <<missed, overlapped>>
table_vars == <<active, known, update_states>>
governor_vars == <<pc, who, level, target_freq, requested_freq>>
cpu_vars == <<governor_vars, policy_vars, clock_vars, volt_vars, table_vars, prevIndex,
              fixed, history_vars>>
cpufreq_vars == <<lock_vars, cpu_vars>>

Thread == {"gov", "susp"}

\* Where a thread waits for the voltage, and where it sleeps.
VoltPc == {"arm_down", "int_down", "arm_up", "int_up"}
SleepPc == {"idle", "rwsem"} \cup VoltPc

Pc == SleepPc \cup {"read_up", "read_down", "write_up", "write_down", "target",
                    "clk_down", "post", "clk_up"}

CpuFreqTypeOK ==
  /\ DvfsLockTypeOK
  /\ pc \in [Thread -> Pc] /\ who \in {"dbs", "limits"} /\ level \in [Thread -> Level]
  /\ target_freq \in [Thread -> Frequency] /\ requested_freq \in Frequency
  /\ min \in Frequency /\ max \in Frequency /\ min <= max /\ cur \in Frequency
  /\ limits_pending \in BOOLEAN /\ missed \in BOOLEAN /\ overlapped \in BOOLEAN
  /\ update_states \in BOOLEAN /\ fixed \in BOOLEAN
  /\ prevIndex \in Level /\ apll \in Level /\ div \in Level
  /\ volt \in Level /\ step_curr \in Level
  /\ active \subseteq Level /\ known \subseteq Level

-----------------------------------------------------------------------------
(* Who may run.                                                            *)

Sleeping == \A th \in Thread : pc[th] \in SleepPc

CanRun(th) == \A o \in Thread \ {th} : pc[o] \in SleepPc

\* Nobody holds the policy's rwsem.
PolicyFree == ~limits_pending /\ pc["susp"] \in {"idle", "rwsem"}

\* The thread goes on at p.
GoTo(th, p) == CanRun(th) /\ pc' = [pc EXCEPT ![th] = p]

-----------------------------------------------------------------------------
(* The choice of a level.                                                  *)

\* transition_state[i][1] and [0]: the next enabled level up and down.
Up(A, i) ==
  IF \E j \in A : j < i THEN Max({j \in A : j < i})
  ELSE IF A \ {MaxLevel} = {} THEN 0 ELSE Min(A)

Down(A, i) ==
  IF \E j \in A : j > i THEN Min({j \in A : j > i}) ELSE i

\* s5pc11x_target_freq_find_index, clipped: the nearest enabled level.
s5pc11x_target_freq_find_index(A, i, up) ==
  IF up THEN Max({j \in A : j <= i} \cup {0}) ELSE Min({j \in A : j >= i} \cup {MaxLevel})

\* The level before it is moved to an enabled one: one step from the current
\* level, or a level that a lock or a boost has jumped to; not below the limit of the
\* locks, and exactly there while suspend fixes the clock.
NextLevel(A, up) ==
  LET i == IF Freq(cpufreq_index) # requested_freq THEN cpufreq_index
           ELSE IF up THEN Up(A, cpufreq_index) ELSE Down(A, cpufreq_index)
  IN  IF held # {} /\ (fixed \/ i > limit) THEN limit ELSE i

\* The search of s5pc11x_target_freq_index: the first enabled level that is not
\* faster than f, and the level before it unless it has the frequency f.
SearchIndex(f) ==
  LET first == {i \in active : Freq(i) <= f}
  IN  IF f >= Freq(0) THEN 0
      ELSE IF first = {} THEN MaxLevel
      ELSE IF Min(first) > 0 /\ Freq(Min(first)) # f THEN Min(first) - 1 ELSE Min(first)

\* The level is taken over if it was chosen before.
s5pc11x_target_freq_index(f) ==
  IF f < Freq(0) /\ Freq(cpufreq_index) = f THEN cpufreq_index ELSE SearchIndex(f)

-----------------------------------------------------------------------------
(* The governor's sample.                                                  *)

\* The caller of s5pc110_target is done, its locals are gone: do_dbs_timer or GOV_LIMITS,
\* which releases timer_mutex, or enter_state, which goes on to suspend_prepare.
Done(th) ==
  /\ GoTo(th, "idle")
  /\ level' = [level EXCEPT ![th] = 0] /\ target_freq' = [target_freq EXCEPT ![th] = Freq(0)]
  /\ started' = (started \/ (th = "gov" /\ who' = "dbs"))
  /\ limits_pending' = (limits_pending /\ (th = "susp" \/ who' = "dbs"))

\* What the samples leave alone.
SampleKeeps ==
  UNCHANGED <<token_vars, ctrl_vars, min, max, cur, clock_vars, volt_vars, prevIndex, fixed,
              history_vars>>

\* dbs_check_cpu with a load above the threshold, or after a boost.
DbsUp ==
  /\ pc["gov"] = "idle" /\ who' = "dbs" /\ quick' = FALSE
  /\ IF requested_freq = max THEN Done("gov")
     ELSE GoTo("gov", "read_up") /\ UNCHANGED <<started, limits_pending, level, target_freq>>
  /\ SampleKeeps /\ UNCHANGED <<cpufreq_index, requested_freq, table_vars>>

\* dbs_check_cpu with a load below the other threshold.
DbsDown ==
  /\ pc["gov"] = "idle" /\ ~quick /\ who' = "dbs"
  /\ IF requested_freq = min THEN Done("gov")
     ELSE GoTo("gov", "read_down") /\ UNCHANGED <<started, limits_pending, level, target_freq>>
  /\ SampleKeeps /\ UNCHANGED <<index_vars, requested_freq, table_vars>>

\* dbs_check_cpu with a load between the two.
DbsNothing ==
  /\ pc["gov"] = "idle" /\ ~quick /\ who' = "dbs" /\ Done("gov")
  /\ SampleKeeps /\ UNCHANGED <<index_vars, requested_freq, table_vars>>

\* s5pc11x_target_frq, up to the assignment of s5pc11x_cpufreq_index.
TargetFrqReads(up) ==
  LET A == IF update_states THEN active ELSE known IN
  /\ pc["gov"] = IF up THEN "read_up" ELSE "read_down"
  /\ GoTo("gov", IF up THEN "write_up" ELSE "write_down")
  /\ level' = [level EXCEPT !["gov"] = s5pc11x_target_freq_find_index(active, NextLevel(A, up), up)]
  /\ known' = A /\ update_states' = FALSE
  /\ SampleKeeps /\ UNCHANGED <<index_vars, started, who, target_freq, requested_freq,
                                limits_pending, active>>

\* Its end, and dbs_check_cpu up to the call of the driver.  Going up the policy's
\* maximum is applied, going down its minimum.
TargetFrqWrites(up) ==
  LET f == Freq(level["gov"])
      g == IF up /\ f > max THEN max ELSE IF ~up /\ f < min THEN min ELSE f
  IN
  /\ pc["gov"] = IF up THEN "write_up" ELSE "write_down"
  /\ cpufreq_index' = level["gov"] /\ requested_freq' = g /\ who' = who
  /\ IF ~up /\ cur = min THEN Done("gov")
     ELSE /\ GoTo("gov", "target") /\ target_freq' = [target_freq EXCEPT !["gov"] = g]
          /\ UNCHANGED <<started, limits_pending, level>>
  /\ SampleKeeps /\ UNCHANGED <<quick, table_vars>>

\* CPUFREQ_GOV_LIMITS, once timer_mutex is free.
GovLimits ==
  /\ pc["gov"] = "idle" /\ limits_pending /\ who' = "limits"
  /\ IF max < cur \/ min > cur
     THEN /\ GoTo("gov", "target")
          /\ target_freq' = [target_freq EXCEPT !["gov"] = IF max < cur THEN max ELSE min]
          /\ UNCHANGED <<started, limits_pending, level>>
     ELSE Done("gov")
  /\ SampleKeeps /\ UNCHANGED <<index_vars, requested_freq, table_vars>>

-----------------------------------------------------------------------------
(* The transition to a level, in either thread.                            *)

\* dbs_cpufreq_notifier, called before and after a transition to f.
dbs_cpufreq_notifier(f) ==
  requested_freq' = IF requested_freq > max \/ requested_freq < min THEN f ELSE requested_freq

\* set_voltage begins: it sleeps unless step_curr is the level already.
VoltageOr(i, sleeping, done) == IF step_curr = i THEN done ELSE sleeping

\* Mutant: the order of clock and voltage is swapped.
TargetSwapsOrder(th) ==
  LET i == s5pc11x_target_freq_index(target_freq[th]) IN
  /\ pc[th] = "target" /\ cpufreq_index' = i /\ who' = who
  /\ IF prevIndex = i THEN Done(th) /\ UNCHANGED <<requested_freq, overlapped>>
     ELSE /\ GoTo(th, IF prevIndex > i THEN "clk_down" ELSE VoltageOr(i, "arm_up", "clk_up"))
          /\ level' = [level EXCEPT ![th] = i] /\ dbs_cpufreq_notifier(Freq(i))
          /\ overlapped' = (overlapped \/ \E o \in Thread \ {th} : pc[o] \in VoltPc)
          /\ UNCHANGED <<started, limits_pending, target_freq>>
  /\ UNCHANGED <<token_vars, quick, ctrl_vars, min, max, cur, clock_vars, volt_vars,
                 table_vars, prevIndex, fixed, missed>>

\* s5pc110_target, up to the first change of clock or voltage.  prevIndex decides
\* whether this is a transition down or up, also if the other thread is in the middle
\* of a transition.
s5pc110_target(th) ==
  LET i == s5pc11x_target_freq_index(target_freq[th]) IN
  /\ pc[th] = "target" /\ cpufreq_index' = i /\ who' = who
  /\ IF prevIndex = i THEN Done(th) /\ UNCHANGED <<requested_freq, overlapped>>
     ELSE /\ GoTo(th, IF prevIndex < i THEN "clk_down" ELSE VoltageOr(i, "arm_up", "clk_up"))
          /\ level' = [level EXCEPT ![th] = i] /\ dbs_cpufreq_notifier(Freq(i))
          /\ overlapped' = (overlapped \/ \E o \in Thread \ {th} : pc[o] \in VoltPc)
          /\ UNCHANGED <<started, limits_pending, target_freq>>
  /\ UNCHANGED <<token_vars, quick, ctrl_vars, min, max, cur, clock_vars, volt_vars,
                 table_vars, prevIndex, fixed, missed>>

\* Mutant: the APLL is left alone when the clock goes up.
SetRateDownOnly(i) ==
  IF Freq(cpufreq_index) # Freq(i) THEN UNCHANGED clock_vars
  ELSE /\ div' = cpufreq_index
       /\ apll' = IF prevIndex < cpufreq_index THEN cpufreq_index ELSE apll

\* It reads s5pc11x_cpufreq_index again, and reports success without doing
\* anything if that is not the level i the caller has chosen.
s5pc11x_armclk_set_rate(i) ==
  IF Freq(cpufreq_index) # Freq(i) THEN UNCHANGED clock_vars
  ELSE /\ div' = cpufreq_index
       /\ apll' = IF Apllout(prevIndex) # Apllout(cpufreq_index) THEN cpufreq_index ELSE apll

\* cpufreq_notify_transition(CPUFREQ_POSTCHANGE) and the end of s5pc110_target.
Post(th) ==
  /\ dbs_cpufreq_notifier(Freq(level[th])) /\ cur' = Freq(level[th]) /\ prevIndex' = level[th]
  /\ who' = who /\ Done(th)
  /\ UNCHANGED <<token_vars, index_vars, ctrl_vars, min, max, volt_vars, table_vars, fixed,
                 history_vars>>

\* Clock down: first the clock, then the voltage.
ClkDown(th) ==
  /\ pc[th] = "clk_down" /\ GoTo(th, VoltageOr(level[th], "arm_down", "post"))
  /\ s5pc11x_armclk_set_rate(level[th])
  /\ missed' = (missed \/ cpufreq_index # level[th])
  /\ UNCHANGED <<lock_vars, who, level, target_freq, requested_freq, policy_vars, table_vars,
                 prevIndex, volt_vars, fixed, overlapped>>

PostDown(th) == pc[th] = "post" /\ Post(th) /\ UNCHANGED clock_vars

\* Clock up: after the voltage, the clock.
ClkUp(th) == pc[th] = "clk_up" /\ s5pc11x_armclk_set_rate(level[th]) /\ Post(th)

\* set_voltage, where it has slept: the voltage of the ARM core is set, ...
SetArm(th) ==
  /\ pc[th] \in {"arm_down", "arm_up"}
  /\ GoTo(th, IF pc[th] = "arm_down" THEN "int_down" ELSE "int_up")
  /\ volt' = level[th]
  /\ UNCHANGED <<lock_vars, who, level, target_freq, requested_freq, policy_vars, clock_vars,
                 step_curr, table_vars, prevIndex, fixed, history_vars>>

\* ... and, after that of the other circuits, step_curr.
SetInt(th) ==
  /\ pc[th] \in {"int_down", "int_up"}
  /\ GoTo(th, IF pc[th] = "int_down" THEN "post" ELSE "clk_up")
  /\ step_curr' = level[th]
  /\ UNCHANGED <<lock_vars, who, level, target_freq, requested_freq, policy_vars, clock_vars,
                 volt, table_vars, prevIndex, fixed, history_vars>>

-----------------------------------------------------------------------------
(* The other tasks.                                                        *)

\* Mutant: the limit is set without taking a token.
FixWithoutToken ==
  /\ Sleeping /\ pc["susp"] = "idle" /\ ~fixed /\ fixed' = TRUE
  /\ limit' = SuspendLevel
  /\ UNCHANGED <<held, lockval, relocked, index_vars, ctrl_vars, started>>
  /\ GoTo("susp", IF limits_pending THEN "rwsem" ELSE "target")
  /\ target_freq' = [target_freq EXCEPT !["susp"] = 800]
  /\ UNCHANGED <<who, level, requested_freq, policy_vars, clock_vars, volt_vars, table_vars,
                 prevIndex, history_vars>>

\* enter_state holds the clock at SuspendLevel while the system goes to sleep, and calls
\* cpufreq_driver_target, which waits for a writer of the policy.
FixClock ==
  /\ Sleeping /\ pc["susp"] = "idle" /\ ~fixed /\ fixed' = TRUE
  /\ DriverLocks(SuspendToken, SuspendLevel)
  /\ GoTo("susp", IF limits_pending THEN "rwsem" ELSE "target")
  /\ target_freq' = [target_freq EXCEPT !["susp"] = 800]
  /\ UNCHANGED <<who, level, requested_freq, policy_vars, clock_vars, volt_vars, table_vars,
                 prevIndex, history_vars>>

\* cpufreq_driver_target gets the rwsem.
DriverTarget ==
  /\ pc["susp"] = "rwsem" /\ PolicyFree /\ GoTo("susp", "target")
  /\ UNCHANGED <<lock_vars, who, level, target_freq, requested_freq, policy_vars, clock_vars,
                 volt_vars, table_vars, prevIndex, fixed, history_vars>>

ReleaseClock ==
  /\ Sleeping /\ pc["susp"] = "idle" /\ fixed /\ fixed' = FALSE
  /\ DriverUnlocks(SuspendToken)
  /\ UNCHANGED <<governor_vars, policy_vars, clock_vars, volt_vars, table_vars, prevIndex,
                 history_vars>>

\* A write of scaling_min_freq or scaling_max_freq; the policy is locked until
\* GOV_LIMITS returns.
SetPolicy(lo, hi) ==
  /\ Sleeping /\ PolicyFree /\ lo <= hi
  /\ min' = lo /\ max' = hi /\ limits_pending' = TRUE
  /\ UNCHANGED <<lock_vars, governor_vars, cur, clock_vars, volt_vars, table_vars, prevIndex,
                 fixed, history_vars>>

store_states_enabled_table(A) ==
  /\ Sleeping /\ PolicyFree /\ active' = A
  /\ UNCHANGED <<lock_vars, governor_vars, policy_vars, clock_vars, volt_vars, known,
                 update_states, prevIndex, fixed, history_vars>>

store_update_states ==
  /\ Sleeping /\ PolicyFree /\ update_states' = TRUE
  /\ UNCHANGED <<lock_vars, governor_vars, policy_vars, clock_vars, volt_vars, active, known,
                 prevIndex, fixed, history_vars>>

\* The users of DvfsLock, and the interrupt handlers of the keys.
LockUsers ==
  /\ Sleeping
  /\ \/ LauncherStep \/ do_dvfsunlock_timer
     \/ \E t \in Token \ {Launcher, SuspendToken} :
          DriverUnlocks(t) \/ \E l \in LockLevel : DriverLocks(t, l)
  /\ UNCHANGED cpu_vars

Interrupt == (Tick \/ \E l \in BoostLevel : KeyBoosts(l)) /\ UNCHANGED cpu_vars

\* s5pc110_cpu_init and max8998_init: the boot loader leaves the CPU at 800 MHz
\* and the voltage is set to that of level 2, whatever prevIndex says.
CpuFreqInit ==
  /\ DvfsLockInit
  /\ pc = [th \in Thread |-> "idle"] /\ who = "dbs" /\ level = [th \in Thread |-> 0]
  /\ target_freq = [th \in Thread |-> Freq(0)] /\ requested_freq = 800
  /\ min = Freq(MaxLevel) /\ max = Freq(0) /\ cur = 800 /\ limits_pending = FALSE
  /\ prevIndex = 1 /\ apll = 5 /\ div = 5 /\ volt = 2 /\ step_curr = 2
  /\ active = 4 .. 9 /\ known = 4 .. 9 /\ update_states = TRUE
  /\ fixed = FALSE /\ missed = FALSE /\ overlapped = FALSE

Sample ==
  \/ DbsUp \/ DbsDown \/ DbsNothing \/ GovLimits
  \/ \E up \in BOOLEAN : TargetFrqReads(up) \/ TargetFrqWrites(up)

Transition(th) ==
  s5pc110_target(th) \/ ClkDown(th) \/ PostDown(th) \/ ClkUp(th) \/ SetArm(th) \/ SetInt(th)

UserSpace ==
  \/ \E f \in Minima : SetPolicy(f, max)
  \/ \E f \in Maxima : SetPolicy(min, f)
  \/ \E A \in StateTables : store_states_enabled_table(A)
  \/ store_update_states

CpuFreqNext ==
  \/ Sample \/ \E th \in Thread : Transition(th)
  \/ FixClock \/ DriverTarget \/ ReleaseClock
  \/ UserSpace \/ LockUsers \/ Interrupt

CpuFreqSpec == CpuFreqInit /\ [][CpuFreqNext]_cpufreq_vars

-----------------------------------------------------------------------------
(* Properties.                                                             *)

\* Whatever drivers, keys, suspend and user space do while a transition is under
\* way, the voltage is that of a level at least as fast as the one the clock is
\* set for.  Two things break this: a boost between the choice of a level and the setting
\* of the clock, in a transition down, and a transition of enter_state or of the governor
\* that begins while the other one waits in set_voltage.
VoltageCovers == ~missed /\ ~overlapped => volt <= div

\* The APLL runs as the divider expects, although it is set only if prevIndex (not
\* the hardware) says that it changes, with the same two exceptions.
PllMatchesDivider == ~missed /\ ~overlapped => Apllout(apll) = Apllout(div)

\* The governor and the driver keep to what DvfsLock says of them.
ImplementsDvfsLock == DvfsLockSpec
=============================================================================
