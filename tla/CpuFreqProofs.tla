--------------------------- MODULE CpuFreqProofs ---------------------------
(***************************************************************************)
(* Proofs about the DVFS locks, for every set of tokens and every duration *)
(* of a launcher lock, and about CpuFreq, for the real frequency table and *)
(* every choice of levels, policies and enabled levels.  The locks come    *)
(* first: CpuFreq implements DvfsLock, so their theorems hold for it, too. *)
(***************************************************************************)
EXTENDS CpuFreq, TLAPS

-----------------------------------------------------------------------------
(* DvfsLock.                                                               *)

\* s5pc110_unlock_dvfs_high_level takes the minimum over the values of all tokens, not
\* of the held ones: the limits are right because a token that is not held has the
\* slowest level as its value.
FreeInv == \A t \in Token \ held : lockval[t] = MaxLevel

TokenInv ==
  /\ held \subseteq Token /\ lockval \in [Token -> Level]
  /\ limit \in Level \cup {InitLimit} /\ relocked \in BOOLEAN
  /\ FreeInv /\ LimitCoversLocks /\ LimitIsNeeded

IndexInv == cpufreq_index \in Level /\ quick \in BOOLEAN /\ started \in BOOLEAN

CtrlInv ==
  /\ dvfsctrl_locked \in BOOLEAN /\ unlock_left \in -1 .. MaxTime
  /\ LauncherLockTimed

DvfsInv == TokenInv /\ IndexInv /\ CtrlInv

-----------------------------------------------------------------------------
(* The two token operations.                                               *)

\* The limit that s5pc110_cpu_init sets is slower than every level.
LEMMA InitLimitIsHigh == InitLimit \in Nat /\ MaxLevel \in Nat /\ InitLimit >= MaxLevel
  BY DvfsLockAssumption

\* s5pc110_lock_dvfs_high_level, for a token that is held already too.
LEMMA LockKeepsTokens ==
  ASSUME TokenInv, NEW t \in Token, NEW l, TokenLevel(t, l) \in Level,
         s5pc110_lock_dvfs_high_level(t, l)
  PROVE  TokenInv' /\ held' = held \cup {t}
  <1> DEFINE n == TokenLevel(t, l)
  <1>1. held' = held \cup {t} /\ lockval' = [lockval EXCEPT ![t] = n]
        /\ limit' = (IF n < limit THEN n ELSE limit) /\ relocked' = (relocked \/ t \in held)
    BY DEF s5pc110_lock_dvfs_high_level, LowerLimit
  <1>2. n \in Level
    OBVIOUS
  <1> HIDE DEF n
  <1>3. held' \subseteq Token /\ lockval' \in [Token -> Level] /\ relocked' \in BOOLEAN
    BY <1>1, <1>2 DEF TokenInv
  <1>4. limit \in Int /\ n \in Int /\ n <= MaxLevel /\ limit' \in Level \cup {InitLimit}
    BY <1>1, <1>2, InitLimitIsHigh DEF TokenInv, Level
  <1>5. FreeInv'
    BY <1>1 DEF TokenInv, FreeInv
  <1>6. LimitCoversLocks'
    <2> SUFFICES ASSUME NEW u \in held' PROVE limit' <= lockval'[u]
      BY DEF LimitCoversLocks
    <2>1. lockval[u] \in Int /\ u \in Token
      BY <1>3, InitLimitIsHigh DEF TokenInv, Level
    <2>2. CASE u = t
      BY <2>2, <1>1, <1>4 DEF TokenInv
    <2>3. CASE u # t
      BY <2>1, <2>3, <1>1, <1>4 DEF TokenInv, LimitCoversLocks
    <2> QED BY <2>2, <2>3
  <1>7. LimitIsNeeded'
    <2>1. held' # {}
      BY <1>1
    <2>2. ASSUME ~relocked' PROVE \E u \in held' : limit' = lockval'[u]
      <3>1. ~relocked /\ t \notin held
        BY <2>2, <1>1
      <3>2. CASE n < limit
        BY <3>2, <1>1, <1>3 DEF TokenInv
      <3>3. CASE ~(n < limit) /\ held # {}
        <4>1. PICK u \in held : limit = lockval[u]
          BY <3>1, <3>3 DEF TokenInv, LimitIsNeeded
        <4>2. u # t /\ lockval'[u] = lockval[u] /\ u \in held' /\ limit' = limit
          BY <3>1, <3>3, <1>1 DEF TokenInv
        <4> QED BY <4>1, <4>2
      <3>4. CASE ~(n < limit) /\ held = {}
        <4>1. limit = n
          BY <3>4, <1>4, InitLimitIsHigh DEF TokenInv, LimitIsNeeded
        <4> QED BY <4>1, <3>4, <1>1 DEF TokenInv
      <3> QED BY <3>2, <3>3, <3>4
    <2> QED BY <2>1, <2>2 DEF LimitIsNeeded
  <1> QED BY <1>1, <1>3, <1>4, <1>5, <1>6, <1>7 DEF TokenInv

\* s5pc110_unlock_dvfs_high_level, for a token that is not held too.
LEMMA UnlockKeepsTokens ==
  ASSUME TokenInv, NEW t \in Token, s5pc110_unlock_dvfs_high_level(t)
  PROVE  TokenInv' /\ held' = held \ {t}
  <1>1. held' = held \ {t} /\ lockval' = [lockval EXCEPT ![t] = MaxLevel]
        /\ limit' \in Level /\ IsLowest(limit', held', lockval') /\ relocked' = FALSE
    BY DEF s5pc110_unlock_dvfs_high_level
  <1>2. MaxLevel \in Level
    BY InitLimitIsHigh DEF Level
  <1>3. held' \subseteq Token /\ lockval' \in [Token -> Level]
    BY <1>1, <1>2 DEF TokenInv
  <1>4. FreeInv'
    BY <1>1 DEF TokenInv, FreeInv
  <1>5. LimitCoversLocks'
    BY <1>1, <1>3 DEF IsLowest, LimitCoversLocks
  <1>6. LimitIsNeeded'
    <2>1. held' = {} => limit' >= MaxLevel
      BY <1>1, InitLimitIsHigh DEF IsLowest
    <2>2. ASSUME held' # {} PROVE \E u \in held' : limit' = lockval'[u]
      <3>1. PICK v \in Token : limit' = lockval'[v]
        BY <1>1, <2>2 DEF IsLowest
      <3>2. PICK u \in held' : TRUE
        BY <2>2
      <3>3. CASE v \in held'
        BY <3>1, <3>3
      <3>4. CASE v \notin held'
        <4>1. limit' = MaxLevel
          BY <3>1, <3>4, <1>4 DEF FreeInv
        <4>2. u \in Token /\ limit' <= lockval'[u]
          BY <1>1, <1>3, <2>2 DEF IsLowest
        <4>3. lockval'[u] \in Level
          BY <4>2, <1>3
        <4>4. lockval'[u] = MaxLevel
          BY <4>1, <4>2, <4>3, InitLimitIsHigh DEF Level
        <4> QED BY <4>1, <4>4
      <3> QED BY <3>3, <3>4
    <2> QED BY <2>1, <2>2 DEF LimitIsNeeded
  <1> QED BY <1>1, <1>3, <1>4, <1>5, <1>6 DEF TokenInv

-----------------------------------------------------------------------------
(* Their users.                                                            *)

\* A jump of set_dvfs_perf_level stays in the table.
LEMMA PerfLevelKeepsIndex ==
  ASSUME IndexInv, NEW n \in Level, set_dvfs_perf_level(n), started' = started
  PROVE  IndexInv'
  BY DEF set_dvfs_perf_level, IndexInv, index_vars

\* Locks and unlocks of drivers do not touch the launcher lock.
LEMMA DriverKeeps ==
  ASSUME DvfsInv, DriverStep
  PROVE  DvfsInv'
  <1>1. PICK t \in Token \ {Launcher} :
          DriverUnlocks(t) \/ \E l \in LockLevel : DriverLocks(t, l)
    BY DEF DriverStep
  <1>2. CASE DriverUnlocks(t)
    <2>1. TokenInv' /\ held' = held \ {t}
      BY <1>2, UnlockKeepsTokens DEF DriverUnlocks, DvfsInv
    <2>2. IndexInv'
      BY <1>2 DEF DriverUnlocks, s5pc110_unlock_dvfs_high_level, index_vars, DvfsInv, IndexInv
    <2>3. CtrlInv'
      BY <1>2, <2>1 DEF DriverUnlocks, ctrl_vars, DvfsInv, CtrlInv, LauncherLockTimed
    <2> QED BY <2>1, <2>2, <2>3 DEF DvfsInv
  <1>3. ASSUME NEW l \in LockLevel, DriverLocks(t, l) PROVE DvfsInv'
    <2>1. TokenLevel(t, l) \in Level
      BY DvfsLockAssumption DEF TokenLevel
    <2>2. TokenInv' /\ held' = held \cup {t}
      BY <1>3, <2>1, LockKeepsTokens DEF DriverLocks, DvfsInv
    <2>3. IndexInv'
      BY <1>3, <2>1, PerfLevelKeepsIndex
      DEF DriverLocks, s5pc110_lock_dvfs_high_level, DvfsInv
    <2>4. CtrlInv'
      BY <1>3, <2>2 DEF DriverLocks, ctrl_vars, DvfsInv, CtrlInv, LauncherLockTimed
    <2> QED BY <2>2, <2>3, <2>4 DEF DvfsInv
  <1> QED BY <1>1, <1>2, <1>3

\* The three steps that take and release the launcher lock.
LEMMA LauncherKeeps ==
  ASSUME DvfsInv, LauncherStep \/ do_dvfsunlock_timer
  PROVE  DvfsInv'
  <1>0. Launcher \in Token /\ MaxTime \in Nat \ {0} /\ 0 \in 0 .. MaxTime /\ -1 \in -1 .. MaxTime
    BY DvfsLockAssumption
  <1>1. CASE LauncherUnlocks
    <2>1. TokenInv' /\ held' = held \ {Launcher}
      BY <1>0, <1>1, UnlockKeepsTokens DEF LauncherUnlocks, DvfsInv
    <2>2. IndexInv'
      BY <1>1 DEF LauncherUnlocks, s5pc110_unlock_dvfs_high_level, index_vars, DvfsInv, IndexInv
    <2>3. CtrlInv'
      BY <1>0, <1>1, <2>1 DEF LauncherUnlocks, DvfsInv, CtrlInv, LauncherLockTimed
    <2> QED BY <2>1, <2>2, <2>3 DEF DvfsInv
  <1>2. ASSUME NEW l \in LauncherLevel, NEW d \in 1 .. MaxTime, LauncherLocks(l, d)
        PROVE  DvfsInv'
    <2>1. TokenLevel(Launcher, l) \in Level
      BY DvfsLockAssumption DEF TokenLevel, Level
    <2>2. TokenInv' /\ held' = held \cup {Launcher}
      BY <1>0, <1>2, <2>1, LockKeepsTokens DEF LauncherLocks, DvfsInv
    <2>3. IndexInv'
      BY <1>2, <2>1, PerfLevelKeepsIndex
      DEF LauncherLocks, s5pc110_lock_dvfs_high_level, DvfsInv
    <2>4. unlock_left' \in 0 .. MaxTime
      BY <1>0, <1>2 DEF LauncherLocks, DvfsInv, CtrlInv
    <2>5. dvfsctrl_locked' = TRUE
      BY <1>2 DEF LauncherLocks
    <2>6. unlock_left' \in -1 .. MaxTime /\ unlock_left' >= 0
      BY <1>0, <2>4
    <2>7. CtrlInv'
      BY <2>2, <2>5, <2>6 DEF CtrlInv, LauncherLockTimed
    <2> QED BY <2>2, <2>3, <2>7 DEF DvfsInv
  <1>3. CASE do_dvfsunlock_timer
    <2>1. TokenInv' /\ held' = held \ {Launcher}
      BY <1>0, <1>3, UnlockKeepsTokens DEF do_dvfsunlock_timer, DvfsInv
    <2>2. IndexInv'
      BY <1>3 DEF do_dvfsunlock_timer, s5pc110_unlock_dvfs_high_level, index_vars,
                  DvfsInv, IndexInv
    <2>3. CtrlInv'
      BY <1>0, <1>3, <2>1 DEF do_dvfsunlock_timer, CtrlInv, LauncherLockTimed
    <2> QED BY <2>1, <2>2, <2>3 DEF DvfsInv
  <1> QED BY <1>1, <1>2, <1>3 DEF LauncherStep

\* The clock, the governor and the keys leave the tokens alone.
LEMMA OthersKeep ==
  ASSUME DvfsInv, Tick \/ GovernorSamples \/ \E l \in BoostLevel : KeyBoosts(l)
  PROVE  DvfsInv'
  <1>0. MaxTime \in Nat \ {0} /\ BoostLevel \subseteq Level
    BY DvfsLockAssumption
  <1>1. CASE Tick
    <2>1. TokenInv' /\ IndexInv'
      BY <1>1 DEF Tick, token_vars, index_vars, DvfsInv, TokenInv, IndexInv, FreeInv,
                  LimitCoversLocks, LimitIsNeeded
    <2>2. unlock_left' \in -1 .. MaxTime /\ unlock_left' >= 0
      BY <1>0, <1>1 DEF Tick, DvfsInv, CtrlInv
    <2>3. CtrlInv'
      BY <1>1, <2>2 DEF Tick, token_vars, DvfsInv, CtrlInv, LauncherLockTimed
    <2> QED BY <2>1, <2>3 DEF DvfsInv
  <1>2. CASE GovernorSamples
    BY <1>2 DEF GovernorSamples, token_vars, ctrl_vars, DvfsInv, TokenInv, IndexInv, CtrlInv,
                FreeInv, LimitCoversLocks, LimitIsNeeded, LauncherLockTimed
  <1>3. ASSUME NEW l \in BoostLevel, KeyBoosts(l) PROVE DvfsInv'
    <2>1. IndexInv'
      BY <1>0, <1>3, PerfLevelKeepsIndex DEF KeyBoosts, DvfsInv
    <2>2. TokenInv' /\ CtrlInv'
      BY <1>3 DEF KeyBoosts, token_vars, ctrl_vars, DvfsInv, TokenInv, CtrlInv,
                  FreeInv, LimitCoversLocks, LimitIsNeeded, LauncherLockTimed
    <2> QED BY <2>1, <2>2 DEF DvfsInv
  <1> QED BY <1>1, <1>2, <1>3

-----------------------------------------------------------------------------

\* The inductive invariant holds after s5pc110_cpu_init.
LEMMA DvfsInitInv == DvfsLockInit => DvfsInv
  <1> SUFFICES ASSUME DvfsLockInit PROVE DvfsInv
    OBVIOUS
  <1>1. MaxLevel \in Level /\ 0 \in 0 .. MaxTime /\ -1 \in -1 .. MaxTime
    BY DvfsLockAssumption DEF Level
  <1>2. TokenInv
    BY <1>1, InitLimitIsHigh
    DEF DvfsLockInit, TokenInv, FreeInv, LimitCoversLocks, LimitIsNeeded
  <1>3. IndexInv
    BY DvfsLockAssumption DEF DvfsLockInit, IndexInv
  <1>4. CtrlInv
    BY <1>1 DEF DvfsLockInit, CtrlInv, LauncherLockTimed
  <1> QED BY <1>2, <1>3, <1>4 DEF DvfsInv

\* Every step keeps it.
LEMMA DvfsNextInv ==
  ASSUME DvfsInv, [DvfsLockNext]_lock_vars
  PROVE  DvfsInv'
  <1>1. CASE UNCHANGED lock_vars
    BY <1>1 DEF lock_vars, token_vars, index_vars, ctrl_vars, DvfsInv, TokenInv, IndexInv,
                CtrlInv, FreeInv, LimitCoversLocks, LimitIsNeeded, LauncherLockTimed
  <1> QED BY <1>1, DriverKeeps, LauncherKeeps, OthersKeep DEF DvfsLockNext, UserStep

\* The inductive invariant holds of every behaviour of the locks.
THEOREM DvfsInvariant == DvfsLockSpec => []DvfsInv
  BY DvfsInitInv, DvfsNextInv, PTL DEF DvfsLockSpec

\* Every variable of the lock, the launcher's timer included, keeps its type: in
\* particular nLevel-- never takes the launcher's level below 0.
THEOREM DvfsTypeCorrect == DvfsLockSpec => []DvfsLockTypeOK
  <1>1. DvfsInv => DvfsLockTypeOK
    BY DEF DvfsInv, TokenInv, IndexInv, CtrlInv, DvfsLockTypeOK
  <1> QED BY <1>1, DvfsInvariant, PTL

\* g_dvfs_high_lock_limit is at least as fast as every held token asks for.
THEOREM LocksAreCovered == DvfsLockSpec => []LimitCoversLocks
  <1>1. DvfsInv => LimitCoversLocks
    BY DEF DvfsInv, TokenInv
  <1> QED BY <1>1, DvfsInvariant, PTL

\* g_dvfs_high_lock_limit is not faster than the held tokens need.
THEOREM LimitIsReleased == DvfsLockSpec => []LimitIsNeeded
  <1>1. DvfsInv => LimitIsNeeded
    BY DEF DvfsInv, TokenInv
  <1> QED BY <1>1, DvfsInvariant, PTL

\* DVFS_LOCK_TOKEN_6 is never held without the work that releases it.
THEOREM LauncherIsTimed == DvfsLockSpec => []LauncherLockTimed
  <1>1. DvfsInv => LauncherLockTimed
    BY DEF DvfsInv, CtrlInv
  <1> QED BY <1>1, DvfsInvariant, PTL


-----------------------------------------------------------------------------
(* The frequency table.                                                    *)

\* The table has ten levels.
LEMMA TenLevels == Level = 0 .. 9 /\ MaxLevel = 9
  BY CpuFreqAssumption DEF Level

\* A level has a frequency of the table, and no two levels have the same.
LEMMA FreqFacts ==
  /\ \A i \in Level : Freq(i) \in Frequency
  /\ \A i, j \in Level : Freq(i) = Freq(j) => i = j
  /\ Freq(0) = 1400 /\ Freq(5) = 800 /\ Freq(9) = 100
<1>1. /\ Freq(0) = 1400 /\ Freq(1) = 1300 /\ Freq(2) = 1200 /\ Freq(3) = 1120 /\ Freq(4) = 1000
      /\ Freq(5) = 800 /\ Freq(6) = 600 /\ Freq(7) = 400 /\ Freq(8) = 200 /\ Freq(9) = 100
  BY DEF Freq
<1>2. \A i \in Level : Freq(i) \in Frequency
  BY TenLevels DEF Frequency
<1>3. \A i \in 0 .. 9 : i \in {0, 1, 2, 3, 4, 5, 6, 7, 8, 9}
  OBVIOUS
<1>4. \A i, j \in Level : Freq(i) = Freq(j) => i = j
  BY <1>1, <1>3, TenLevels
<1> QED BY <1>1, <1>2, <1>4

\* The APLL is the same for 800 MHz and below, and different for every other level.
LEMMA ApllFacts ==
  \A i, j \in Level : Apllout(i) = Apllout(j) <=> i = j \/ (i >= 5 /\ j >= 5)
<1>1. /\ Apllout(0) = 1400 /\ Apllout(1) = 1300 /\ Apllout(2) = 1200 /\ Apllout(3) = 1120
      /\ Apllout(4) = 1000 /\ Apllout(5) = 800 /\ Apllout(6) = 800 /\ Apllout(7) = 800
      /\ Apllout(8) = 800 /\ Apllout(9) = 800
  BY DEF Apllout
<1>2. \A i \in 0 .. 9 : i \in {0, 1, 2, 3, 4, 5, 6, 7, 8, 9}
  OBVIOUS
<1> QED BY <1>1, <1>2, TenLevels

\* Frequencies are integers.
LEMMA FrequencyInt == Frequency \subseteq Int
<1>1. \A i \in 0 .. 9 : Freq(i) \in Int
  BY DEF Freq
<1> QED BY <1>1 DEF Frequency

\* A set of levels that is not empty has a largest and a smallest element.
LEMMA MaxMinFacts ==
  ASSUME NEW S, S \subseteq Level, S # {}
  PROVE  Max(S) \in S /\ Min(S) \in S
<1>0. S \subseteq 0 .. 9 /\ \E y \in S : y \in 0 .. 9
  BY TenLevels
<1> DEFINE Below(n) == \A y \in S : y < n
           Above(n) == \A y \in S : n <= y
<1>1. Below(10) /\ ~Below(0) /\ Above(0) /\ ~Above(10)
  BY <1>0
<1>2. \A n \in 0 .. 9 : Below(n + 1) /\ ~Below(n) => n \in S /\ \A y \in S : n >= y
  BY <1>0
<1>3. \A n \in 0 .. 9 : Above(n) /\ ~Above(n + 1) => n \in S /\ \A y \in S : n =< y
  BY <1>0
<1> HIDE DEF Below, Above
<1>4. \E n \in 0 .. 9 : Below(n + 1) /\ ~Below(n)
  <2>1. \/ (Below(10) /\ ~Below(9)) \/ (Below(9) /\ ~Below(8)) \/ (Below(8) /\ ~Below(7))
        \/ (Below(7) /\ ~Below(6)) \/ (Below(6) /\ ~Below(5)) \/ (Below(5) /\ ~Below(4))
        \/ (Below(4) /\ ~Below(3)) \/ (Below(3) /\ ~Below(2)) \/ (Below(2) /\ ~Below(1))
        \/ (Below(1) /\ ~Below(0))
    BY <1>1
  <2> QED BY <2>1
<1>5. \E n \in 0 .. 9 : Above(n) /\ ~Above(n + 1)
  <2>1. \/ (Above(9) /\ ~Above(10)) \/ (Above(8) /\ ~Above(9)) \/ (Above(7) /\ ~Above(8))
        \/ (Above(6) /\ ~Above(7)) \/ (Above(5) /\ ~Above(6)) \/ (Above(4) /\ ~Above(5))
        \/ (Above(3) /\ ~Above(4)) \/ (Above(2) /\ ~Above(3)) \/ (Above(1) /\ ~Above(2))
        \/ (Above(0) /\ ~Above(1))
    BY <1>1
  <2> QED BY <2>1
<1> QED BY <1>2, <1>3, <1>4, <1>5 DEF Max, Min

\* Whatever levels are enabled, the level chosen is one of the table.
LEMMA FindIndexType ==
  ASSUME NEW A, A \subseteq Level, NEW i, NEW up \in BOOLEAN
  PROVE  s5pc11x_target_freq_find_index(A, i, up) \in Level
<1>1. 0 \in Level /\ MaxLevel \in Level
  BY TenLevels
<1>2. {j \in A : j <= i} \cup {0} \subseteq Level /\ {j \in A : j >= i} \cup {MaxLevel} \subseteq Level
  BY <1>1
<1>3. /\ Max({j \in A : j <= i} \cup {0}) \in Level
      /\ Min({j \in A : j >= i} \cup {MaxLevel}) \in Level
  BY <1>2, MaxMinFacts
<1> QED BY <1>3 DEF s5pc11x_target_freq_find_index

\* So is the level searched for a frequency.
LEMMA SearchType ==
  ASSUME active \subseteq Level, cpufreq_index \in Level, NEW f
  PROVE  s5pc11x_target_freq_index(f) \in Level
<1> DEFINE first == {i \in active : Freq(i) <= f}
<1>1. first # {} => Min(first) \in Level
  BY MaxMinFacts
<1>2. first # {} /\ Min(first) > 0 => Min(first) - 1 \in Level
  BY <1>1, TenLevels
<1>3. 0 \in Level /\ MaxLevel \in Level
  BY TenLevels
<1> HIDE DEF first
<1>4. SearchIndex(f) \in Level
  BY <1>1, <1>2, <1>3 DEF SearchIndex, first
<1> QED BY <1>4 DEF s5pc11x_target_freq_index

-----------------------------------------------------------------------------
(* Types, and the refinement of DvfsLock.                                  *)

\* The types of what CpuFreq adds to DvfsLock.
CpuTypeOK ==
  /\ pc \in [Thread -> Pc] /\ who \in {"dbs", "limits"} /\ level \in [Thread -> Level]
  /\ target_freq \in [Thread -> Frequency] /\ requested_freq \in Frequency
  /\ min \in Frequency /\ max \in Frequency /\ min <= max /\ cur \in Frequency
  /\ limits_pending \in BOOLEAN /\ missed \in BOOLEAN /\ overlapped \in BOOLEAN
  /\ update_states \in BOOLEAN /\ fixed \in BOOLEAN
  /\ prevIndex \in Level /\ apll \in Level /\ div \in Level
  /\ volt \in Level /\ step_curr \in Level
  /\ active \subseteq Level /\ known \subseteq Level

\* The types of the variables that the end of a call changes.
CallTypeOK ==
  /\ pc \in [Thread -> Pc] /\ level \in [Thread -> Level] /\ target_freq \in [Thread -> Frequency]
  /\ limits_pending \in BOOLEAN

\* What the governor may do to the variables of DvfsLock.
LEMMA Samples ==
  ASSUME IndexInv, cpufreq_index' \in Level, quick' \in {quick, FALSE},
         started' \in {started, TRUE}, UNCHANGED <<token_vars, ctrl_vars>>
  PROVE  DvfsLockNext
  BY DEF DvfsLockNext, GovernorSamples

\* A thread goes on; the others stay where they are.
LEMMA GoToFacts ==
  ASSUME CpuTypeOK, NEW th \in Thread, NEW p \in Pc, GoTo(th, p)
  PROVE  /\ pc' \in [Thread -> Pc] /\ pc'[th] = p
         /\ \A o \in Thread \ {th} : pc'[o] = pc[o] /\ pc[o] \in SleepPc
  BY DEF GoTo, CanRun, CpuTypeOK

\* The end of a sample, of GOV_LIMITS or of cpufreq_driver_target.
LEMMA DoneFacts ==
  ASSUME CpuTypeOK, IndexInv, NEW th \in Thread, Done(th), who' \in {"dbs", "limits"}
  PROVE  CallTypeOK' /\ started' \in {started, TRUE}
<1>1. 0 \in Level /\ "idle" \in Pc
  BY TenLevels DEF Pc, SleepPc
<1>2. pc' \in [Thread -> Pc]
  BY <1>1, GoToFacts DEF Done
<1>3. level' \in [Thread -> Level] /\ target_freq' \in [Thread -> Frequency]
  BY <1>1, FreqFacts DEF Done, CpuTypeOK
<1>4. limits_pending' \in BOOLEAN
  BY DEF Done, CpuTypeOK
<1>5. started' \in {started, TRUE}
  BY DEF Done, IndexInv
<1> QED BY <1>2, <1>3, <1>4, <1>5 DEF CallTypeOK

\* The samples of the governor, up to the call of the driver.
LEMMA SampleStep ==
  ASSUME CpuTypeOK, IndexInv, Sample
  PROVE  CpuTypeOK' /\ (DvfsLockNext \/ UNCHANGED lock_vars)
<1> USE DEF clock_vars, table_vars, token_vars, index_vars, ctrl_vars, lock_vars, policy_vars,
            volt_vars, history_vars
<1>0. "gov" \in Thread /\ {"read_up", "read_down", "write_up", "write_down", "target"} \subseteq Pc
  BY DEF Thread, Pc
<1>1. CASE DbsUp
  <2>1. CallTypeOK' /\ started' \in {started, TRUE}
    <3>1. CASE requested_freq = max
      BY <1>0, <1>1, <3>1, DoneFacts DEF DbsUp
    <3>2. CASE requested_freq # max
      BY <1>0, <1>1, <3>2, GoToFacts DEF DbsUp, CpuTypeOK, CallTypeOK
    <3> QED BY <3>1, <3>2
  <2>2. CpuTypeOK'
    BY <1>1, <2>1 DEF DbsUp, SampleKeeps, CpuTypeOK, CallTypeOK
  <2>3. DvfsLockNext
    BY <1>1, <2>1, Samples DEF DbsUp, SampleKeeps, IndexInv
  <2> QED BY <2>2, <2>3
<1>2. CASE DbsDown
  <2>1. CallTypeOK' /\ started' \in {started, TRUE}
    <3>1. CASE requested_freq = min
      BY <1>0, <1>2, <3>1, DoneFacts DEF DbsDown
    <3>2. CASE requested_freq # min
      BY <1>0, <1>2, <3>2, GoToFacts DEF DbsDown, CpuTypeOK, CallTypeOK
    <3> QED BY <3>1, <3>2
  <2>2. CpuTypeOK'
    BY <1>2, <2>1 DEF DbsDown, SampleKeeps, CpuTypeOK, CallTypeOK
  <2>3. DvfsLockNext
    BY <1>2, <2>1, Samples DEF DbsDown, SampleKeeps, IndexInv
  <2> QED BY <2>2, <2>3
<1>3. CASE DbsNothing
  <2>1. CallTypeOK' /\ started' \in {started, TRUE}
    BY <1>0, <1>3, DoneFacts DEF DbsNothing
  <2>2. CpuTypeOK'
    BY <1>3, <2>1 DEF DbsNothing, SampleKeeps, CpuTypeOK, CallTypeOK
  <2>3. DvfsLockNext
    BY <1>3, <2>1, Samples DEF DbsNothing, SampleKeeps, IndexInv
  <2> QED BY <2>2, <2>3
<1>4. CASE GovLimits
  <2>1. CallTypeOK' /\ started' \in {started, TRUE}
    <3>1. CASE max < cur \/ min > cur
      <4>1. /\ GoTo("gov", "target") /\ UNCHANGED <<started, limits_pending, level>>
            /\ \E f \in {min, max} : target_freq' = [target_freq EXCEPT !["gov"] = f]
        BY <1>4, <3>1 DEF GovLimits
      <4>2. pc' \in [Thread -> Pc] /\ target_freq' \in [Thread -> Frequency]
        BY <1>0, <4>1, GoToFacts DEF CpuTypeOK
      <4> QED BY <4>1, <4>2 DEF CpuTypeOK, CallTypeOK
    <3>2. CASE ~(max < cur \/ min > cur)
      BY <1>0, <1>4, <3>2, DoneFacts DEF GovLimits
    <3> QED BY <3>1, <3>2
  <2>2. CpuTypeOK'
    BY <1>4, <2>1 DEF GovLimits, SampleKeeps, CpuTypeOK, CallTypeOK
  <2>3. DvfsLockNext
    BY <1>4, <2>1, Samples DEF GovLimits, SampleKeeps, IndexInv
  <2> QED BY <2>2, <2>3
<1>5. ASSUME NEW up \in BOOLEAN, TargetFrqReads(up)
      PROVE  CpuTypeOK' /\ UNCHANGED lock_vars
  <2> DEFINE A == IF update_states THEN active ELSE known
             i == s5pc11x_target_freq_find_index(active, NextLevel(A, up), up)
  <2>1. known' = A /\ known' \subseteq Level
    BY <1>5 DEF TargetFrqReads, CpuTypeOK
  <2>2. i \in Level
    BY FindIndexType DEF CpuTypeOK
  <2>3. level' = [level EXCEPT !["gov"] = i]
    BY <1>5 DEF TargetFrqReads
  <2> HIDE DEF i
  <2>4. level' \in [Thread -> Level]
    BY <1>0, <2>2, <2>3 DEF CpuTypeOK
  <2>5. pc' \in [Thread -> Pc]
    BY <1>0, <1>5, GoToFacts DEF TargetFrqReads
  <2> QED BY <1>5, <2>1, <2>4, <2>5 DEF TargetFrqReads, SampleKeeps, CpuTypeOK
<1>6. ASSUME NEW up \in BOOLEAN, TargetFrqWrites(up)
      PROVE  CpuTypeOK' /\ DvfsLockNext
  <2>0. cpufreq_index' \in Level /\ requested_freq' \in Frequency /\ who' = who
    BY <1>0, <1>6, FreqFacts DEF TargetFrqWrites, CpuTypeOK
  <2>1. CallTypeOK' /\ started' \in {started, TRUE}
    <3>1. CASE ~up /\ cur = min
      BY <1>0, <1>6, <3>1, DoneFacts DEF TargetFrqWrites, CpuTypeOK
    <3>2. CASE ~(~up /\ cur = min)
      <4>1. GoTo("gov", "target") /\ UNCHANGED <<started, limits_pending, level>>
            /\ target_freq' = [target_freq EXCEPT !["gov"] = requested_freq']
        BY <1>6, <3>2 DEF TargetFrqWrites
      <4> QED BY <1>0, <2>0, <4>1, GoToFacts DEF CpuTypeOK, CallTypeOK
    <3> QED BY <3>1, <3>2
  <2>2. CpuTypeOK'
    BY <1>6, <2>0, <2>1 DEF TargetFrqWrites, SampleKeeps, CpuTypeOK, CallTypeOK
  <2>3. DvfsLockNext
    BY <1>6, <2>0, <2>1, Samples DEF TargetFrqWrites, SampleKeeps, IndexInv
  <2> QED BY <2>2, <2>3
<1> QED BY <1>1, <1>2, <1>3, <1>4, <1>5, <1>6 DEF Sample

\* A level that s5pc11x_armclk_set_rate sets is one of the table.
LEMMA SetRateType ==
  ASSUME CpuTypeOK, IndexInv, NEW i, s5pc11x_armclk_set_rate(i)
  PROVE  apll' \in Level /\ div' \in Level
  BY DEF s5pc11x_armclk_set_rate, clock_vars, CpuTypeOK, IndexInv

\* The notifiers of a transition.
LEMMA NotifierType ==
  ASSUME CpuTypeOK, NEW f \in Frequency, dbs_cpufreq_notifier(f)
  PROVE  requested_freq' \in Frequency
  BY DEF dbs_cpufreq_notifier, CpuTypeOK

\* The end of a transition.
LEMMA PostType ==
  ASSUME CpuTypeOK, IndexInv, NEW th \in Thread, Post(th), apll' \in Level, div' \in Level
  PROVE  CpuTypeOK' /\ DvfsLockNext
<1> USE DEF table_vars, token_vars, index_vars, ctrl_vars, volt_vars, history_vars
<1>1. CallTypeOK' /\ started' \in {started, TRUE}
  BY DoneFacts DEF Post, CpuTypeOK
<1>2. level[th] \in Level /\ Freq(level[th]) \in Frequency
  BY FreqFacts DEF CpuTypeOK
<1>3. requested_freq' \in Frequency /\ cur' \in Frequency /\ prevIndex' \in Level
  BY <1>2, NotifierType DEF Post
<1>4. CpuTypeOK'
  BY <1>1, <1>3 DEF Post, CpuTypeOK, CallTypeOK
<1>5. DvfsLockNext
  BY <1>1, Samples DEF Post, IndexInv
<1> QED BY <1>4, <1>5

\* The driver, in either thread.
LEMMA TransitionStep ==
  ASSUME CpuTypeOK, IndexInv, NEW th \in Thread, Transition(th)
  PROVE  CpuTypeOK' /\ (DvfsLockNext \/ UNCHANGED lock_vars)
<1> USE DEF clock_vars, table_vars, token_vars, index_vars, ctrl_vars, lock_vars, policy_vars,
            volt_vars, history_vars
<1>0. /\ level[th] \in Level /\ Pc \cap {"clk_down", "arm_up", "clk_up", "arm_down", "post",
                                         "int_down", "int_up"}
                                = {"clk_down", "arm_up", "clk_up", "arm_down", "post",
                                   "int_down", "int_up"}
      /\ \A i, p, q : VoltageOr(i, p, q) \in {p, q}
  BY DEF CpuTypeOK, Pc, SleepPc, VoltPc, VoltageOr
<1>1. CASE s5pc110_target(th)
  <2> DEFINE i == s5pc11x_target_freq_index(target_freq[th])
  <2>1. i \in Level /\ cpufreq_index' = i /\ who' = who
    BY <1>1, SearchType DEF s5pc110_target, CpuTypeOK, IndexInv
  <2>2. CallTypeOK' /\ started' \in {started, TRUE} /\ requested_freq' \in Frequency
        /\ overlapped' \in BOOLEAN
    <3>1. CASE prevIndex = i
      BY <1>1, <2>1, <3>1, DoneFacts DEF s5pc110_target, CpuTypeOK
    <3>2. CASE prevIndex # i
      <4> DEFINE p == IF prevIndex < i THEN "clk_down" ELSE VoltageOr(i, "arm_up", "clk_up")
      <4>1. /\ level' = [level EXCEPT ![th] = i] /\ dbs_cpufreq_notifier(Freq(i)) /\ GoTo(th, p)
            /\ overlapped' \in BOOLEAN /\ UNCHANGED <<started, limits_pending, target_freq>>
        BY <1>1, <3>2 DEF s5pc110_target, CpuTypeOK
      <4>2. Freq(i) \in Frequency
        BY <2>1, FreqFacts
      <4>3. p \in Pc
        BY <1>0
      <4> HIDE DEF i, p
      <4>4. pc' \in [Thread -> Pc] /\ requested_freq' \in Frequency
        BY <4>1, <4>2, <4>3, GoToFacts, NotifierType
      <4> QED BY <2>1, <4>1, <4>4 DEF CpuTypeOK, CallTypeOK
    <3> QED BY <3>1, <3>2
  <2> HIDE DEF i
  <2>3. CpuTypeOK'
    BY <1>1, <2>1, <2>2 DEF s5pc110_target, CpuTypeOK, CallTypeOK
  <2>4. DvfsLockNext
    BY <1>1, <2>1, <2>2, Samples DEF s5pc110_target
  <2> QED BY <2>3, <2>4
<1>2. CASE ClkDown(th)
  <2>1. apll' \in Level /\ div' \in Level
    BY <1>2, SetRateType DEF ClkDown
  <2>2. missed' \in BOOLEAN
    BY <1>2 DEF ClkDown, CpuTypeOK
  <2>3. pc' \in [Thread -> Pc]
    BY <1>0, <1>2, GoToFacts DEF ClkDown
  <2> QED BY <1>2, <2>1, <2>2, <2>3 DEF ClkDown, CpuTypeOK
<1>3. CASE SetArm(th)
  <2>1. pc' \in [Thread -> Pc]
    BY <1>0, <1>3, GoToFacts DEF SetArm
  <2> QED BY <1>0, <1>3, <2>1 DEF SetArm, CpuTypeOK
<1>4. CASE SetInt(th)
  <2>1. pc' \in [Thread -> Pc]
    BY <1>0, <1>4, GoToFacts DEF SetInt
  <2> QED BY <1>0, <1>4, <2>1 DEF SetInt, CpuTypeOK
<1>5. CASE PostDown(th)
  BY <1>5, PostType DEF PostDown, CpuTypeOK
<1>6. CASE ClkUp(th)
  BY <1>6, PostType, SetRateType DEF ClkUp
<1> QED BY <1>1, <1>2, <1>3, <1>4, <1>5, <1>6 DEF Transition

\* enter_state.
LEMMA SuspendStep ==
  ASSUME CpuTypeOK, FixClock \/ DriverTarget \/ ReleaseClock
  PROVE  CpuTypeOK' /\ (DvfsLockNext \/ UNCHANGED lock_vars)
<1> USE DEF governor_vars, policy_vars, clock_vars, table_vars, volt_vars, history_vars
<1>0. "susp" \in Thread /\ {"rwsem", "target"} \subseteq Pc /\ 800 \in Frequency
  BY FreqFacts, TenLevels DEF Thread, Pc, SleepPc
<1>1. CASE FixClock
  <2>1. DriverStep
    BY <1>1, CpuFreqAssumption DEF FixClock, DriverStep
  <2>2. pc' \in [Thread -> Pc] /\ target_freq' \in [Thread -> Frequency]
    BY <1>0, <1>1, GoToFacts DEF FixClock, CpuTypeOK
  <2> QED BY <1>1, <2>1, <2>2 DEF FixClock, CpuTypeOK, DvfsLockNext, UserStep
<1>2. CASE DriverTarget
  <2>1. pc' \in [Thread -> Pc]
    BY <1>0, <1>2, GoToFacts DEF DriverTarget
  <2> QED BY <1>2, <2>1 DEF DriverTarget, CpuTypeOK
<1>3. CASE ReleaseClock
  <2>1. DriverStep
    BY <1>3, CpuFreqAssumption DEF ReleaseClock, DriverStep
  <2> QED BY <1>3, <2>1 DEF ReleaseClock, CpuTypeOK, DvfsLockNext, UserStep
<1> QED BY <1>1, <1>2, <1>3

\* The other tasks and the interrupt handlers.
LEMMA OtherStep ==
  ASSUME CpuTypeOK, UserSpace \/ LockUsers \/ Interrupt
  PROVE  CpuTypeOK' /\ (DvfsLockNext \/ UNCHANGED lock_vars)
<1> USE DEF cpu_vars, governor_vars, policy_vars, clock_vars, table_vars, volt_vars, history_vars
<1>1. ASSUME NEW lo \in Frequency, NEW hi \in Frequency, SetPolicy(lo, hi)
      PROVE  CpuTypeOK' /\ UNCHANGED lock_vars
  BY <1>1 DEF SetPolicy, CpuTypeOK
<1>2. ASSUME NEW A, A \subseteq Level, store_states_enabled_table(A)
      PROVE  CpuTypeOK' /\ UNCHANGED lock_vars
  BY <1>2 DEF store_states_enabled_table, CpuTypeOK
<1>3. CASE store_update_states
  BY <1>3 DEF store_update_states, CpuTypeOK
<1>4. CASE UserSpace
  BY <1>1, <1>2, <1>3, <1>4, CpuFreqAssumption DEF UserSpace, CpuTypeOK
<1>5. CASE LockUsers \/ Interrupt
  <2>1. CpuTypeOK'
    BY <1>5 DEF LockUsers, Interrupt, CpuTypeOK
  <2> QED BY <1>5, <2>1 DEF LockUsers, Interrupt, DvfsLockNext, UserStep, DriverStep
<1> QED BY <1>4, <1>5

\* Every step of governor, driver, users and interrupts is a step of DvfsLock.
LEMMA CpuStep ==
  ASSUME CpuTypeOK, DvfsInv, [CpuFreqNext]_cpufreq_vars
  PROVE  CpuTypeOK' /\ DvfsInv' /\ [DvfsLockNext]_lock_vars
<1>1. IndexInv
  BY DEF DvfsInv
<1>2. CpuTypeOK' /\ [DvfsLockNext]_lock_vars
  <2>1. CASE UNCHANGED cpufreq_vars
    BY <2>1 DEF cpufreq_vars, cpu_vars, governor_vars, policy_vars, clock_vars, table_vars,
                volt_vars, history_vars, CpuTypeOK
  <2>2. CASE CpuFreqNext
    BY <1>1, <2>2, SampleStep, TransitionStep, SuspendStep, OtherStep DEF CpuFreqNext
  <2> QED BY <2>1, <2>2
<1> QED BY <1>2, DvfsNextInv

\* The policy, the clocks and the tables keep their types, and the locks their invariant.
THEOREM CpuInvariant == CpuFreqSpec => [](CpuTypeOK /\ DvfsInv)
<1>1. CpuFreqInit => CpuTypeOK
  <2>1. 800 \in Frequency /\ Freq(0) \in Frequency /\ Freq(9) \in Frequency /\ Freq(9) <= Freq(0)
    BY FreqFacts, TenLevels
  <2>2. Freq(MaxLevel) = Freq(9) /\ "idle" \in Pc
    BY TenLevels DEF Pc, SleepPc
  <2>3. {0, 1, 2, 5} \subseteq Level /\ 4 .. 9 \subseteq Level
    BY TenLevels
  <2> SUFFICES ASSUME CpuFreqInit PROVE CpuTypeOK
    OBVIOUS
  <2>4. /\ target_freq \in [Thread -> Frequency] /\ requested_freq \in Frequency
        /\ min \in Frequency /\ max \in Frequency /\ min <= max /\ cur \in Frequency
    BY <2>1, <2>2 DEF CpuFreqInit
  <2>5. /\ pc \in [Thread -> Pc] /\ level \in [Thread -> Level] /\ prevIndex \in Level
        /\ apll \in Level /\ div \in Level /\ volt \in Level /\ step_curr \in Level
        /\ active \subseteq Level /\ known \subseteq Level
    BY <2>2, <2>3 DEF CpuFreqInit
  <2> QED BY <2>4, <2>5 DEF CpuFreqInit, CpuTypeOK
<1>2. CpuFreqInit => DvfsInv
  BY DvfsInitInv DEF CpuFreqInit
<1> QED BY <1>1, <1>2, CpuStep, PTL DEF CpuFreqSpec

\* The governor, the CPU driver and the interrupt handlers do to the DVFS locks only
\* what DvfsLock allows, whatever levels are enabled and whatever comes in between.
THEOREM GovernorRefines == CpuFreqSpec => ImplementsDvfsLock
<1>1. CpuFreqInit => DvfsLockInit
  BY DEF CpuFreqInit
<1>2. CpuTypeOK /\ DvfsInv /\ [CpuFreqNext]_cpufreq_vars => [DvfsLockNext]_lock_vars
  BY CpuStep
<1> QED BY <1>1, <1>2, CpuInvariant, PTL DEF CpuFreqSpec, ImplementsDvfsLock, DvfsLockSpec

\* Every variable of the model keeps its type: no level outside the table is chosen.
THEOREM CpuTypeCorrect == CpuFreqSpec => []CpuFreqTypeOK
<1>1. CpuTypeOK /\ DvfsLockTypeOK => CpuFreqTypeOK
  BY DEF CpuTypeOK, CpuFreqTypeOK
<1> QED BY <1>1, CpuInvariant, GovernorRefines, DvfsTypeCorrect, PTL DEF ImplementsDvfsLock

\* With the real governor, too, the limit covers every held lock and the launcher's
\* token is held only while the work that releases it is pending.
THEOREM CpuLocksCovered == CpuFreqSpec => [](LimitCoversLocks /\ LauncherLockTimed)
  BY GovernorRefines, LocksAreCovered, LauncherIsTimed, PTL DEF ImplementsDvfsLock

-----------------------------------------------------------------------------
(* Clock and voltage.                                                      *)

TransPc == VoltPc \cup {"clk_down", "post", "clk_up"}

\* Only this thread may be in a transition.
Only(th) == \A o \in Thread \ {th} : pc[o] \notin TransPc

\* Where its transition is, relative to prevIndex and to the voltage.  At boot the
\* voltage is that of level 2 and prevIndex is 1: one level is the most it is off.
OrderInv(th) ==
  /\ pc[th] \in {"clk_down", "arm_down", "int_down", "post"} => prevIndex < level[th]
  /\ pc[th] \in {"arm_up", "int_up", "clk_up"} => level[th] < prevIndex
  /\ pc[th] \in {"int_down", "int_up", "post", "clk_up"} => volt = level[th]
  /\ pc[th] \notin {"int_down", "int_up"} => step_curr = volt
  /\ pc[th] \notin {"int_down", "post"} => volt <= prevIndex + 1

\* The two properties; the divider is at prevIndex or at a slower level (boot, or a
\* boost during a transition up, leave it there), except while a transition down has set
\* the clock and not yet prevIndex; and prevIndex may be wrong about the APLL only if
\* it is above 800 MHz, where any other level makes the driver set the APLL.
LevelInv(th) ==
  /\ volt <= div /\ Apllout(apll) = Apllout(div)
  /\ prevIndex >= 5 => apll >= 5
  /\ IF pc[th] \in {"arm_down", "int_down", "post"} THEN div = level[th] ELSE prevIndex <= div

ThreadInv(th) == Only(th) /\ OrderInv(th) /\ (~missed => LevelInv(th))

ClockInv == ~overlapped => \E th \in Thread : ThreadInv(th)

hw_vars == <<prevIndex, apll, div, volt, step_curr, missed, overlapped>>

\* The local state of a thread is the same, or it is in no transition.
Calm(th) ==
  \/ pc'[th] = pc[th] /\ level'[th] = level[th]
  \/ pc[th] \notin TransPc /\ pc'[th] \notin TransPc

\* Outside a transition nothing of this changes.
LEMMA CalmKeeps ==
  ASSUME ClockInv, \A th \in Thread : Calm(th), UNCHANGED hw_vars
  PROVE  ClockInv'
<1> SUFFICES ASSUME ~overlapped' PROVE \E th \in Thread : ThreadInv(th)'
  BY DEF ClockInv
<1>1. PICK th \in Thread : ThreadInv(th)
  BY DEF ClockInv, hw_vars
<1>2. Only(th)'
  BY <1>1 DEF ThreadInv, Only, Calm
<1>3. OrderInv(th)' /\ (~missed => LevelInv(th)')
  <2>1. CASE pc'[th] = pc[th] /\ level'[th] = level[th]
    BY <1>1, <2>1 DEF ThreadInv, OrderInv, LevelInv, hw_vars
  <2>2. CASE pc[th] \notin TransPc /\ pc'[th] \notin TransPc
    BY <1>1, <2>2 DEF ThreadInv, OrderInv, LevelInv, hw_vars, TransPc, VoltPc
  <2> QED BY <1>1, <2>1, <2>2 DEF Calm
<1> QED BY <1>2, <1>3 DEF ThreadInv, hw_vars

\* A thread that goes from one place outside a transition to another.
LEMMA GoToIsCalm ==
  ASSUME CpuTypeOK, NEW t \in Thread, NEW p \in Pc \ TransPc, GoTo(t, p), pc[t] \notin TransPc,
         \A o \in Thread \ {t} : level'[o] = level[o]
  PROVE  \A th \in Thread : Calm(th)
<1> SUFFICES ASSUME NEW th \in Thread PROVE Calm(th)
  OBVIOUS
<1>1. CASE th = t
  BY <1>1, GoToFacts DEF Calm
<1>2. CASE th # t
  BY <1>2, GoToFacts DEF Calm
<1> QED BY <1>1, <1>2

\* The samples, up to the call of the driver.
LEMMA SampleKeepsClock ==
  ASSUME CpuTypeOK, ClockInv, Sample
  PROVE  ClockInv'
<1> DEFINE P == {"idle", "read_up", "read_down", "write_up", "write_down", "target"}
<1>1. "gov" \in Thread /\ P \subseteq Pc \ TransPc
  BY DEF Thread, Pc, SleepPc, TransPc, VoltPc
<1>2. UNCHANGED hw_vars /\ pc["gov"] \in P
  BY DEF Sample, DbsUp, DbsDown, DbsNothing, GovLimits, TargetFrqReads, TargetFrqWrites,
         SampleKeeps, clock_vars, volt_vars, history_vars, hw_vars
<1>3. \E p \in P : GoTo("gov", p)
  BY DEF Sample, DbsUp, DbsDown, DbsNothing, GovLimits, TargetFrqReads, TargetFrqWrites, Done
<1>4. \A o \in Thread \ {"gov"} : level'[o] = level[o]
  <2>1. level' = level \/ \E i : level' = [level EXCEPT !["gov"] = i]
    BY DEF Sample, DbsUp, DbsDown, DbsNothing, GovLimits, TargetFrqReads, TargetFrqWrites, Done
  <2> QED BY <2>1 DEF CpuTypeOK
<1> HIDE DEF P
<1>5. PICK p \in P : GoTo("gov", p)
  BY <1>3
<1>6. \A th \in Thread : Calm(th)
  BY <1>1, <1>2, <1>4, <1>5, GoToIsCalm
<1> QED BY <1>2, <1>6, CalmKeeps

\* enter_state, up to the call of the driver and after it.
LEMMA SuspendKeepsClock ==
  ASSUME CpuTypeOK, ClockInv, FixClock \/ DriverTarget \/ ReleaseClock
  PROVE  ClockInv'
<1>1. "susp" \in Thread /\ {"rwsem", "target"} \subseteq Pc \ TransPc /\ "idle" \notin TransPc
  BY DEF Thread, Pc, SleepPc, TransPc, VoltPc
<1>2. UNCHANGED hw_vars /\ UNCHANGED level
  BY DEF FixClock, DriverTarget, ReleaseClock, governor_vars, clock_vars, volt_vars,
         history_vars, hw_vars
<1>3. CASE ReleaseClock
  BY <1>2, <1>3, CalmKeeps DEF ReleaseClock, governor_vars, Calm
<1>4. CASE FixClock \/ DriverTarget
  <2>1. PICK p \in {"rwsem", "target"} : GoTo("susp", p)
    BY <1>4 DEF FixClock, DriverTarget
  <2>2. pc["susp"] \notin TransPc
    BY <1>1, <1>4 DEF FixClock, DriverTarget
  <2>3. \A th \in Thread : Calm(th)
    BY <1>1, <1>2, <2>1, <2>2, GoToIsCalm
  <2> QED BY <1>2, <2>3, CalmKeeps
<1> QED BY <1>3, <1>4

\* A thread that begins a transition is the only one in a transition, unless the two
\* overlap.
LEMMA BeginsAlone ==
  ASSUME CpuTypeOK, ClockInv, ~overlapped, NEW th \in Thread, pc[th] \notin TransPc,
         \A o \in Thread \ {th} : pc[o] \in SleepPc \ VoltPc
  PROVE  ThreadInv(th)
<1>1. PICK t \in Thread : ThreadInv(t)
  BY DEF ClockInv
<1>2. pc[t] \notin TransPc /\ Only(th)
  BY DEF Only, SleepPc, TransPc, VoltPc
<1> QED BY <1>1, <1>2 DEF ThreadInv, OrderInv, LevelInv, TransPc, VoltPc

\* s5pc110_target decides by prevIndex which of clock and voltage comes first.
LEMMA TargetKeepsClock ==
  ASSUME CpuTypeOK, IndexInv, ClockInv, NEW th \in Thread, s5pc110_target(th)
  PROVE  ClockInv'
<1> DEFINE i == s5pc11x_target_freq_index(target_freq[th])
<1>1. i \in Level
  BY SearchType DEF CpuTypeOK, IndexInv
<1>2. /\ UNCHANGED <<prevIndex, apll, div, volt, step_curr, missed>> /\ pc[th] = "target"
      /\ pc[th] \notin TransPc
  BY DEF s5pc110_target, clock_vars, volt_vars, TransPc, VoltPc
<1>3. CASE prevIndex = i
  <2>1. GoTo(th, "idle") /\ level' = [level EXCEPT ![th] = 0] /\ UNCHANGED overlapped
    BY <1>3 DEF s5pc110_target, Done
  <2>2. "idle" \in Pc \ TransPc /\ \A o \in Thread \ {th} : level'[o] = level[o]
    BY <2>1 DEF Pc, SleepPc, TransPc, VoltPc, CpuTypeOK
  <2>3. \A t \in Thread : Calm(t)
    BY <1>2, <2>1, <2>2, GoToIsCalm
  <2> QED BY <1>2, <2>1, <2>3, CalmKeeps DEF hw_vars
<1>4. CASE prevIndex # i
  <2> SUFFICES ASSUME ~overlapped' PROVE ThreadInv(th)'
    BY DEF ClockInv
  <2> DEFINE p == IF prevIndex < i THEN "clk_down" ELSE VoltageOr(i, "arm_up", "clk_up")
  <2>1. /\ level' = [level EXCEPT ![th] = i] /\ GoTo(th, p)
        /\ overlapped' = (overlapped \/ \E o \in Thread \ {th} : pc[o] \in VoltPc)
    BY <1>4 DEF s5pc110_target
  <2>2. i \in Int /\ prevIndex \in Int /\ volt \in Int /\ step_curr \in Int
    BY <1>1, TenLevels DEF CpuTypeOK
  <2>3. level'[th] = i
    BY <2>1 DEF CpuTypeOK
  <2>4. p \in Pc /\ (prevIndex < i => p = "clk_down")
        /\ (~(prevIndex < i) => p = IF step_curr = i THEN "clk_up" ELSE "arm_up")
    BY DEF VoltageOr, Pc, SleepPc, VoltPc
  <2> HIDE DEF i, p
  <2>5. pc'[th] = p /\ \A o \in Thread \ {th} : pc'[o] = pc[o] /\ pc[o] \in SleepPc \ VoltPc
    BY <2>1, <2>4, GoToFacts
  <2>6. ThreadInv(th)
    BY <1>2, <2>1, <2>5, BeginsAlone
  <2>7. Only(th)'
    BY <2>5 DEF Only, SleepPc, TransPc
  <2>8. OrderInv(th)'
    BY <1>2, <1>4, <2>2, <2>3, <2>4, <2>5, <2>6 DEF ThreadInv, OrderInv
  <2>9. ~missed' => LevelInv(th)'
    BY <1>2, <2>4, <2>5, <2>6 DEF ThreadInv, LevelInv
  <2> QED BY <2>7, <2>8, <2>9 DEF ThreadInv
<1> QED BY <1>3, <1>4

\* Setting the clock to the level chosen: whether the APLL is set or left alone, it runs
\* for that level afterwards.
LEMMA SetRateFacts ==
  ASSUME CpuTypeOK, IndexInv, NEW i \in Level, s5pc11x_armclk_set_rate(i), prevIndex # i,
         cpufreq_index = i, prevIndex >= 5 => apll >= 5
  PROVE  div' = i /\ Apllout(apll') = Apllout(div') /\ (i >= 5 => apll' >= 5)
<1>1. prevIndex \in Level /\ apll \in Level
  BY DEF CpuTypeOK
<1>2. div' = i /\ apll' = IF Apllout(prevIndex) # Apllout(i) THEN i ELSE apll
  BY DEF s5pc11x_armclk_set_rate
<1>3. CASE Apllout(prevIndex) # Apllout(i)
  BY <1>2, <1>3
<1>4. CASE Apllout(prevIndex) = Apllout(i)
  <2>1. prevIndex >= 5 /\ i >= 5 /\ apll >= 5 /\ apll' = apll
    BY <1>1, <1>2, <1>4, ApllFacts
  <2>2. Apllout(apll) = Apllout(i)
    BY <1>1, <2>1, ApllFacts
  <2> QED BY <1>2, <2>1, <2>2
<1> QED BY <1>3, <1>4

\* If the index is not the level chosen the clock is left alone.
LEMMA SetRateSkips ==
  ASSUME IndexInv, NEW i \in Level, s5pc11x_armclk_set_rate(i), cpufreq_index # i
  PROVE  UNCHANGED clock_vars
  BY FreqFacts DEF IndexInv, s5pc11x_armclk_set_rate

\* The thread in a transition is the one of the invariant, and its locals have their types.
LEMMA InTransition ==
  ASSUME CpuTypeOK, ClockInv, ~overlapped, NEW th \in Thread, pc[th] \in TransPc
  PROVE  /\ ThreadInv(th) /\ level[th] \in Level
         /\ level[th] \in Int /\ prevIndex \in Int /\ apll \in Int /\ div \in Int
         /\ volt \in Int /\ step_curr \in Int
<1>1. ThreadInv(th)
  BY DEF ClockInv, ThreadInv, Only
<1>2. level[th] \in Level
  BY DEF CpuTypeOK
<1> QED BY <1>1, <1>2, TenLevels DEF CpuTypeOK

\* It stays the only one as long as it runs.
LEMMA StaysOnly ==
  ASSUME CpuTypeOK, NEW th \in Thread, NEW p \in Pc, Only(th), GoTo(th, p)
  PROVE  Only(th)' /\ pc'[th] = p
  BY GoToFacts DEF Only

\* The transition down, up to the voltage.
LEMMA ClkDownKeepsClock ==
  ASSUME CpuTypeOK, IndexInv, ClockInv, NEW th \in Thread, ClkDown(th)
  PROVE  ClockInv'
<1> SUFFICES ASSUME ~overlapped' PROVE ThreadInv(th)'
  BY DEF ClockInv
<1> DEFINE p == VoltageOr(level[th], "arm_down", "post")
<1>1. /\ pc[th] = "clk_down" /\ UNCHANGED <<level, prevIndex, volt, step_curr, overlapped>>
      /\ missed' = (missed \/ cpufreq_index # level[th]) /\ s5pc11x_armclk_set_rate(level[th])
      /\ GoTo(th, p)
  BY DEF ClkDown, volt_vars
<1>2. p \in Pc /\ p = IF step_curr = level[th] THEN "post" ELSE "arm_down"
  BY DEF VoltageOr, Pc, SleepPc, VoltPc
<1> HIDE DEF p
<1>3. /\ ThreadInv(th) /\ level[th] \in Level
      /\ level[th] \in Int /\ prevIndex \in Int /\ volt \in Int
  BY <1>1, InTransition DEF TransPc
<1>4. Only(th)' /\ pc'[th] = p
  BY <1>1, <1>2, <1>3, StaysOnly DEF ThreadInv
<1>5. prevIndex < level[th] /\ volt <= prevIndex + 1 /\ step_curr = volt
  BY <1>1, <1>3 DEF ThreadInv, OrderInv
<1>6. OrderInv(th)'
  BY <1>1, <1>2, <1>4, <1>5 DEF OrderInv
<1>7. ASSUME ~missed' PROVE LevelInv(th)'
  <2>1. ~missed /\ cpufreq_index = level[th]
    BY <1>1, <1>7
  <2>2. prevIndex >= 5 => apll >= 5
    BY <1>3, <2>1 DEF ThreadInv, LevelInv
  <2>3. /\ div' = level[th] /\ Apllout(apll') = Apllout(div')
        /\ level[th] >= 5 => apll' >= 5
    BY <1>1, <1>3, <1>5, <2>1, <2>2, SetRateFacts
  <2> QED BY <1>1, <1>2, <1>3, <1>4, <1>5, <2>3 DEF LevelInv
<1> QED BY <1>4, <1>6, <1>7 DEF ThreadInv

\* The voltage, down or up.
LEMMA VoltageKeepsClock ==
  ASSUME CpuTypeOK, ClockInv, NEW th \in Thread, SetArm(th) \/ SetInt(th)
  PROVE  ClockInv'
<1> SUFFICES ASSUME ~overlapped' PROVE ThreadInv(th)'
  BY DEF ClockInv
<1>1. UNCHANGED <<level, prevIndex, apll, div, missed, overlapped>> /\ pc[th] \in VoltPc
  BY DEF SetArm, SetInt, clock_vars, history_vars, VoltPc
<1>2. /\ ThreadInv(th) /\ level[th] \in Int /\ prevIndex \in Int /\ div \in Int /\ volt \in Int
  BY <1>1, InTransition DEF TransPc
<1>3. CASE SetArm(th)
  <2> DEFINE p == IF pc[th] = "arm_down" THEN "int_down" ELSE "int_up"
  <2>1. p \in Pc /\ GoTo(th, p) /\ pc[th] \in {"arm_down", "arm_up"}
        /\ volt' = level[th] /\ step_curr' = step_curr
    BY <1>3 DEF SetArm, Pc, SleepPc, VoltPc
  <2>2. Only(th)' /\ pc'[th] = p
    BY <1>2, <2>1, StaysOnly DEF ThreadInv
  <2>3. OrderInv(th)'
    BY <1>1, <1>2, <2>1, <2>2 DEF ThreadInv, OrderInv
  <2>4. ~missed => LevelInv(th)'
    BY <1>1, <1>2, <2>1, <2>2 DEF ThreadInv, OrderInv, LevelInv
  <2> QED BY <1>1, <2>2, <2>3, <2>4 DEF ThreadInv
<1>4. CASE SetInt(th)
  <2> DEFINE p == IF pc[th] = "int_down" THEN "post" ELSE "clk_up"
  <2>1. p \in Pc /\ GoTo(th, p) /\ pc[th] \in {"int_down", "int_up"}
        /\ volt' = volt /\ step_curr' = level[th]
    BY <1>4 DEF SetInt, Pc
  <2>2. Only(th)' /\ pc'[th] = p
    BY <1>2, <2>1, StaysOnly DEF ThreadInv
  <2>3. OrderInv(th)'
    BY <1>1, <1>2, <2>1, <2>2 DEF ThreadInv, OrderInv
  <2>4. ~missed => LevelInv(th)'
    BY <1>1, <1>2, <2>1, <2>2 DEF ThreadInv, LevelInv
  <2> QED BY <1>1, <2>2, <2>3, <2>4 DEF ThreadInv
<1> QED BY <1>3, <1>4

\* The end of a transition.
LEMMA PostFacts ==
  ASSUME CpuTypeOK, NEW th \in Thread, Only(th), Post(th)
  PROVE  /\ Only(th)' /\ pc'[th] = "idle" /\ prevIndex' = level[th]
         /\ UNCHANGED <<volt, step_curr, missed, overlapped>>
<1>1. GoTo(th, "idle") /\ prevIndex' = level[th] /\ UNCHANGED <<volt, step_curr, missed, overlapped>>
  BY DEF Post, Done, volt_vars, history_vars
<1>2. "idle" \in Pc
  BY DEF Pc, SleepPc
<1> QED BY <1>1, <1>2, StaysOnly

\* The end of a transition down.
LEMMA PostDownKeepsClock ==
  ASSUME CpuTypeOK, ClockInv, NEW th \in Thread, PostDown(th)
  PROVE  ClockInv'
<1> SUFFICES ASSUME ~overlapped' PROVE ThreadInv(th)'
  BY DEF ClockInv
<1>1. pc[th] = "post" /\ Post(th) /\ UNCHANGED <<apll, div>> /\ UNCHANGED overlapped
  BY DEF PostDown, Post, clock_vars, history_vars
<1>2. /\ ThreadInv(th) /\ level[th] \in Level
      /\ level[th] \in Int /\ prevIndex \in Int /\ volt \in Int /\ apll \in Level
  BY <1>1, InTransition DEF TransPc, CpuTypeOK
<1>3. /\ Only(th)' /\ pc'[th] = "idle" /\ prevIndex' = level[th]
      /\ UNCHANGED <<volt, step_curr, missed, overlapped>>
  BY <1>1, <1>2, PostFacts DEF ThreadInv
<1>4. OrderInv(th)'
  BY <1>1, <1>2, <1>3 DEF ThreadInv, OrderInv
<1>5. ASSUME ~missed' PROVE LevelInv(th)'
  <2>1. LevelInv(th) /\ div = level[th]
    BY <1>1, <1>2, <1>3, <1>5 DEF ThreadInv, LevelInv
  <2>2. level[th] >= 5 => apll >= 5
    BY <1>2, <2>1, ApllFacts, TenLevels DEF LevelInv
  <2> QED BY <1>1, <1>2, <1>3, <2>1, <2>2 DEF LevelInv
<1> QED BY <1>3, <1>4, <1>5 DEF ThreadInv

\* The end of a transition up.
LEMMA ClkUpKeepsClock ==
  ASSUME CpuTypeOK, IndexInv, ClockInv, NEW th \in Thread, ClkUp(th)
  PROVE  ClockInv'
<1> SUFFICES ASSUME ~overlapped' PROVE ThreadInv(th)'
  BY DEF ClockInv
<1>1. /\ pc[th] = "clk_up" /\ Post(th) /\ s5pc11x_armclk_set_rate(level[th])
      /\ UNCHANGED overlapped
  BY DEF ClkUp, Post, history_vars
<1>2. /\ ThreadInv(th) /\ level[th] \in Level
      /\ level[th] \in Int /\ prevIndex \in Int /\ volt \in Int /\ div \in Int /\ apll \in Int
  BY <1>1, InTransition DEF TransPc
<1>3. /\ Only(th)' /\ pc'[th] = "idle" /\ prevIndex' = level[th]
      /\ UNCHANGED <<volt, step_curr, missed, overlapped>>
  BY <1>1, <1>2, PostFacts DEF ThreadInv
<1>4. level[th] < prevIndex /\ volt = level[th] /\ step_curr = volt
  BY <1>1, <1>2 DEF ThreadInv, OrderInv
<1>5. OrderInv(th)'
  BY <1>2, <1>3, <1>4 DEF OrderInv
<1>6. ASSUME ~missed' PROVE LevelInv(th)'
  <2>1. LevelInv(th) /\ prevIndex <= div /\ (prevIndex >= 5 => apll >= 5)
    BY <1>1, <1>2, <1>3, <1>6 DEF ThreadInv, LevelInv
  <2>2. CASE cpufreq_index = level[th]
    <3>1. /\ div' = level[th] /\ Apllout(apll') = Apllout(div')
          /\ level[th] >= 5 => apll' >= 5
      BY <1>1, <1>2, <1>4, <2>1, <2>2, SetRateFacts
    <3> QED BY <1>2, <1>3, <1>4, <3>1 DEF LevelInv
  <2>3. CASE cpufreq_index # level[th]
    <3>1. UNCHANGED <<apll, div>>
      BY <1>1, <1>2, <2>3, SetRateSkips DEF clock_vars
    <3> QED BY <1>2, <1>3, <1>4, <2>1, <3>1 DEF LevelInv
  <2> QED BY <2>2, <2>3
<1> QED BY <1>3, <1>5, <1>6 DEF ThreadInv

\* Clock and voltage keep their order in every reachable state.
THEOREM ClockInvariant == CpuFreqSpec => []ClockInv
<1>1. CpuFreqInit => ClockInv
  <2> SUFFICES ASSUME CpuFreqInit PROVE ThreadInv("gov")
    BY DEF ClockInv, Thread
  <2>1. Only("gov") /\ OrderInv("gov") /\ LevelInv("gov")
    BY DEF CpuFreqInit, Only, OrderInv, LevelInv, Thread, TransPc, VoltPc
  <2> QED BY <2>1 DEF ThreadInv
<1>2. CpuTypeOK /\ DvfsInv /\ ClockInv /\ [CpuFreqNext]_cpufreq_vars => ClockInv'
  <2> SUFFICES ASSUME CpuTypeOK, IndexInv, ClockInv, [CpuFreqNext]_cpufreq_vars
               PROVE  ClockInv'
    BY DEF DvfsInv
  <2>1. CASE UNCHANGED cpufreq_vars \/ UserSpace \/ LockUsers \/ Interrupt
    <3>1. UNCHANGED <<pc, level, hw_vars>>
      BY <2>1 DEF UserSpace, SetPolicy, store_states_enabled_table, store_update_states,
        LockUsers, Interrupt, cpufreq_vars, cpu_vars, governor_vars, clock_vars, volt_vars,
        history_vars, hw_vars
    <3> QED BY <3>1, CalmKeeps DEF Calm
  <2>2. CASE Sample \/ FixClock \/ DriverTarget \/ ReleaseClock
    BY <2>2, SampleKeepsClock, SuspendKeepsClock
  <2>3. ASSUME NEW th \in Thread, Transition(th) PROVE ClockInv'
    BY <2>3, TargetKeepsClock, ClkDownKeepsClock, VoltageKeepsClock, PostDownKeepsClock,
       ClkUpKeepsClock DEF Transition
  <2> QED BY <2>1, <2>2, <2>3 DEF CpuFreqNext
<1> QED BY <1>1, <1>2, CpuInvariant, PTL DEF CpuFreqSpec

\* The voltage is never below what the clock needs, unless a boost hit a transition
\* down before its clock was set or the transitions of suspend and of the governor met.
THEOREM VoltageAlwaysCovers == CpuFreqSpec => []VoltageCovers
<1>1. ClockInv => VoltageCovers
  BY DEF ClockInv, ThreadInv, LevelInv, VoltageCovers
<1> QED BY <1>1, ClockInvariant, PTL

\* The APLL runs for the level of the divider, with the same exceptions, although the
\* driver decides by prevIndex whether to set it.
THEOREM PllAlwaysMatches == CpuFreqSpec => []PllMatchesDivider
<1>1. ClockInv => PllMatchesDivider
  BY DEF ClockInv, ThreadInv, LevelInv, PllMatchesDivider
<1> QED BY <1>1, ClockInvariant, PTL
=============================================================================
