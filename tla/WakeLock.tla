------------------------------ MODULE WakeLock ------------------------------
(***************************************************************************)
(* kernel/power/wakelock.c: wake locks, the expire timer and the           *)
(* opportunistic suspend work.                                             *)
(*                                                                         *)
(* Every section the code runs under list_lock is one action.  Time is     *)
(* kept relative: left[l] is the C expression (long)(l->expires - jiffies) *)
(* and expire_left the same difference for expire_timer, so a clock tick   *)
(* decrements them and wraps at the width of a long.                       *)
(*                                                                         *)
(* active_wake_locks[type] is a set.  The code puts a lock without timeout *)
(* at the head of its list and one with a timeout at the tail (lines 452   *)
(* and 458), so the walk of has_wake_lock_locked meets a lock without      *)
(* timeout, if there is one, before it can expire any other.               *)
(***************************************************************************)
EXTENDS Integers

CONSTANTS
  Lock,           \* the struct wake_lock objects
  Main,           \* main_wake_lock
  Unknown,        \* unknown_wakeup
  IdleLock,       \* the locks of type WAKE_LOCK_IDLE; the others block suspend
  Timeouts,       \* the timeouts, in jiffies, drivers pass to wake_lock_timeout
  UnknownTimeout, \* HZ / 2, the timeout of unknown_wakeup
  LongHalf,       \* a long ranges over -LongHalf .. LongHalf - 1
  TimerSlack      \* an expired timer runs at most this many jiffies late

Long == -LongHalf .. LongHalf - 1

ASSUME WakeLockAssumption ==
  /\ Main \in Lock /\ Unknown \in Lock /\ Main # Unknown
  /\ IdleLock \subseteq Lock \ {Main, Unknown}
  /\ LongHalf \in Nat \ {0, 1}
  /\ Timeouts \subseteq Long
  /\ UnknownTimeout \in 1 .. LongHalf - 1
  /\ TimerSlack \in 0 .. 2

VARIABLES
  flags,           \* lock->flags, without the type bits
  link,            \* the list each lock is on
  left,            \* (long)(lock->expires - jiffies); 0 unless AUTO_EXPIRE
  expire_pending,  \* expire_timer is on the timer wheel
  expire_left,     \* expire_timer.expires - jiffies; 0 unless pending
  expire_running,  \* expire_timer fired, its callback has not got list_lock yet
  suspend_pending, \* suspend_work is queued on suspend_work_queue
  suspend_pc,      \* where the suspend() work function is
  event            \* current_event_num differs from entry_event_num

wakelock_vars == <<flags, link, left, expire_pending, expire_left,
                   expire_running, suspend_pending, suspend_pc, event>>

Flag == {"INITIALIZED", "ACTIVE", "AUTO_EXPIRE", "PREVENTING_SUSPEND"}
SuspendPC == {"idle", "check", "entry", "pm_suspend", "exit", "no_event"}

WakeLockTypeOK ==
  /\ flags \in [Lock -> SUBSET Flag]
  /\ link \in [Lock -> {"none", "inactive", "active"}]
  /\ left \in [Lock -> Long]
  /\ expire_pending \in BOOLEAN
  /\ expire_left \in Long
  /\ expire_running \in BOOLEAN
  /\ suspend_pending \in BOOLEAN
  /\ suspend_pc \in SuspendPC
  /\ event \in BOOLEAN

-----------------------------------------------------------------------------
(* The walk over active_wake_locks[WAKE_LOCK_SUSPEND], as functions of the *)
(* flags f, links k and remaining times t it finds.                        *)

Holding(k) == {l \in Lock \ IdleLock : k[l] = "active"}

Untimed(f, k) == {l \in Holding(k) : "AUTO_EXPIRE" \notin f[l]}

\* The locks has_wake_lock_locked hands to expire_wake_lock.
Due(f, k, t) == {l \in Holding(k) : Untimed(f, k) = {} /\ t[l] <= 0}

\* The locks that outlive the walk; has_wake_lock_locked returns 0 iff there
\* is none, and -1 iff one of them has no timeout.
Remaining(f, k, t) == Holding(k) \ Due(f, k, t)

ClearOnUnlock == {"ACTIVE", "AUTO_EXPIRE"}

\* Mutant: the flag PREVENTING_SUSPEND survives the release.
UnlockStatKeeps(F) == F

\* wake_unlock_stat_locked: the statistics of a lock that stops being active.
UnlockStat(F) == IF "ACTIVE" \in F THEN F \ {"PREVENTING_SUSPEND"} ELSE F

WalkFlags(f, k, t) ==
  [l \in Lock |-> IF l \in Due(f, k, t) THEN UnlockStat(f[l]) \ ClearOnUnlock
                                        ELSE f[l]]

WalkLink(f, k, t) ==
  [l \in Lock |-> IF l \in Due(f, k, t) THEN "inactive" ELSE k[l]]

WalkLeft(f, k, t) == [l \in Lock |-> IF l \in Due(f, k, t) THEN 0 ELSE t[l]]

\* update_sleep_wait_stats_locked(0): from now on the locks that are active and
\* not expired are what keeps the system awake.
MarkPreventing(f, k, t) ==
  [l \in Lock |->
     IF l \notin Holding(k) THEN f[l]
     ELSE IF "AUTO_EXPIRE" \in f[l] /\ t[l] <= 0
          THEN f[l] \ {"PREVENTING_SUSPEND"}
          ELSE f[l] \cup {"PREVENTING_SUSPEND"}]

\* update_sleep_wait_stats_locked(1).
ClearPreventing(f, k) ==
  [l \in Lock |-> IF l \in Holding(k) THEN f[l] \ {"PREVENTING_SUSPEND"}
                                      ELSE f[l]]

\* Mutant: the timer is set for the first lock that expires.
SetTimerEarliest(f, k, t) ==
  \/ /\ Untimed(f, k) # {} \/ Remaining(f, k, t) = {}
     /\ expire_pending' = FALSE /\ expire_left' = 0
     /\ suspend_pending' = (suspend_pending \/ Remaining(f, k, t) = {})
  \/ /\ Untimed(f, k) = {}
     /\ \E m \in Remaining(f, k, t) :
          /\ \A l \in Remaining(f, k, t) : t[m] <= t[l]
          /\ expire_left' = t[m]
     /\ expire_pending' = TRUE
     /\ UNCHANGED suspend_pending

\* What wake_lock_internal and wake_unlock do with the result of the walk:
\* start, stop or move expire_timer, and queue suspend_work when nothing is left.
SetTimer(f, k, t) ==
  \/ /\ Untimed(f, k) # {}
     /\ expire_pending' = FALSE /\ expire_left' = 0
     /\ UNCHANGED suspend_pending
  \/ /\ Remaining(f, k, t) = {}
     /\ expire_pending' = FALSE /\ expire_left' = 0
     /\ suspend_pending' = TRUE
  \/ /\ Untimed(f, k) = {}
     /\ \E m \in Remaining(f, k, t) :
          /\ \A l \in Remaining(f, k, t) : t[l] <= t[m]
          /\ expire_left' = t[m]
     /\ expire_pending' = TRUE
     /\ UNCHANGED suspend_pending

-----------------------------------------------------------------------------
(* The operations drivers call.                                            *)

wake_lock_init(l) ==
  /\ "INITIALIZED" \notin flags[l]
  /\ flags' = [flags EXCEPT ![l] = {"INITIALIZED"}]
  /\ link' = [link EXCEPT ![l] = "inactive"]
  /\ left' = [left EXCEPT ![l] = 0]
  /\ UNCHANGED <<expire_pending, expire_left, expire_running, suspend_pending,
                 suspend_pc, event>>

\* The function checks nothing; its callers only destroy a lock that nobody
\* holds or that runs out by itself (evdev_release, drivers/input/evdev.c:243).
wake_lock_destroy(l) ==
  /\ "INITIALIZED" \in flags[l]
  /\ l \notin Untimed(flags, link)
  /\ flags' = [flags EXCEPT ![l] = @ \ {"INITIALIZED"}]
  /\ link' = [link EXCEPT ![l] = "none"]
  /\ UNCHANGED <<left, expire_pending, expire_left, expire_running,
                 suspend_pending, suspend_pc, event>>

\* The flags wake_lock_internal leaves on the lock itself.
LockFlags(l, has_timeout) ==
  LET F == IF "AUTO_EXPIRE" \in flags[l] /\ left[l] <= 0
           THEN UnlockStat(flags[l]) ELSE flags[l]
  IN  IF has_timeout THEN F \cup {"ACTIVE", "AUTO_EXPIRE"}
                     ELSE (F \cup {"ACTIVE"}) \ {"AUTO_EXPIRE"}

\* The flags of all locks when wake_lock_internal starts its walk.
StatFlags(l, f, k, t) ==
  IF l = Main THEN ClearPreventing(f, k)
  ELSE IF "ACTIVE" \notin f[Main] THEN MarkPreventing(f, k, t) ELSE f

\* wake_lock_internal without suspend_pc, for handlers that take a lock
\* themselves.
LockStep(l, has_timeout, timeout) ==
  LET f == [flags EXCEPT ![l] = LockFlags(l, has_timeout)]
      k == [link EXCEPT ![l] = "active"]
      t == [left EXCEPT ![l] = IF has_timeout THEN timeout ELSE 0]
      s == StatFlags(l, f, k, t)
  IN  /\ "INITIALIZED" \in flags[l]
      /\ UNCHANGED expire_running
      /\ \/ /\ l \in IdleLock
            /\ flags' = f /\ link' = k /\ left' = t
            /\ UNCHANGED <<expire_pending, expire_left, suspend_pending, event>>
         \/ /\ l \notin IdleLock
            /\ event' = TRUE
            /\ flags' = WalkFlags(s, k, t)
            /\ link' = WalkLink(s, k, t)
            /\ left' = WalkLeft(s, k, t)
            /\ SetTimer(s, k, t)

wake_lock(l) == LockStep(l, FALSE, 0) /\ UNCHANGED suspend_pc

wake_lock_timeout(l, timeout) ==
  LockStep(l, TRUE, timeout) /\ UNCHANGED suspend_pc

wake_unlock(l) ==
  LET f == [flags EXCEPT ![l] = UnlockStat(@) \ ClearOnUnlock]
      k == [link EXCEPT ![l] = "inactive"]
      t == [left EXCEPT ![l] = 0]
      fw == WalkFlags(f, k, t)
  IN  /\ "INITIALIZED" \in flags[l]
      /\ \/ /\ l \in IdleLock
            /\ flags' = f /\ link' = k /\ left' = t
            /\ UNCHANGED <<expire_pending, expire_left, suspend_pending>>
         \/ /\ l \notin IdleLock
            /\ flags' = IF l = Main
                        THEN MarkPreventing(fw, WalkLink(f, k, t), WalkLeft(f, k, t))
                        ELSE fw
            /\ link' = WalkLink(f, k, t)
            /\ left' = WalkLeft(f, k, t)
            /\ SetTimer(f, k, t)
      /\ UNCHANGED <<expire_running, suspend_pc, event>>

\* has_wake_lock(WAKE_LOCK_SUSPEND) without its result, which is
\* Remaining(flags, link, left) # {} in the state it is called in.
has_wake_lock ==
  /\ flags' = WalkFlags(flags, link, left)
  /\ link' = WalkLink(flags, link, left)
  /\ left' = WalkLeft(flags, link, left)

-----------------------------------------------------------------------------
(* Time and the expire timer.                                              *)

\* One jiffy passes.  A timer that is due is run within TimerSlack jiffies.
Tick ==
  /\ ~expire_running
  /\ expire_pending => expire_left > -TimerSlack
  /\ left' = [l \in Lock |-> IF "AUTO_EXPIRE" \notin flags[l] THEN left[l]
                             ELSE IF left[l] = -LongHalf THEN LongHalf - 1
                             ELSE left[l] - 1]
  /\ expire_left' = IF expire_pending THEN expire_left - 1 ELSE 0
  /\ UNCHANGED <<flags, link, expire_pending, expire_running, suspend_pending,
                 suspend_pc, event>>

\* The timer code takes expire_timer off the wheel and calls its function,
\* which then waits for list_lock.
ExpireTimerFires ==
  /\ expire_pending /\ expire_left <= 0 /\ ~expire_running
  /\ expire_pending' = FALSE /\ expire_left' = 0
  /\ expire_running' = TRUE
  /\ UNCHANGED <<flags, link, left, suspend_pending, suspend_pc, event>>

\* Mutant: the callback only expires locks.
ExpireOnly ==
  /\ expire_running
  /\ expire_running' = FALSE
  /\ has_wake_lock
  /\ UNCHANGED <<expire_pending, expire_left, suspend_pending, suspend_pc, event>>

expire_wake_locks ==
  /\ expire_running
  /\ expire_running' = FALSE
  /\ has_wake_lock
  /\ suspend_pending' = (suspend_pending \/ Remaining(flags, link, left) = {})
  /\ UNCHANGED <<expire_pending, expire_left, suspend_pc, event>>

-----------------------------------------------------------------------------
(* The suspend() work function, run by the thread of suspend_work_queue.   *)

timer_vars == <<expire_pending, expire_left, expire_running>>

SuspendStart ==
  /\ suspend_pc = "idle" /\ suspend_pending
  /\ suspend_pending' = FALSE
  /\ suspend_pc' = "check"
  /\ UNCHANGED <<flags, link, left, timer_vars, event>>

SuspendCheck ==
  /\ suspend_pc = "check"
  /\ has_wake_lock
  /\ suspend_pc' = IF Remaining(flags, link, left) = {} THEN "entry" ELSE "idle"
  /\ UNCHANGED <<timer_vars, suspend_pending, event>>

SuspendEntry ==
  /\ suspend_pc = "entry"
  /\ event' = FALSE
  /\ suspend_pc' = "pm_suspend"
  /\ UNCHANGED <<flags, link, left, timer_vars, suspend_pending>>

\* Inside pm_suspend the freezer (kernel/power/process.c:68) and
\* power_suspend_late ask for wake locks, which expires the due ones.  The
\* suspend work is not the only caller of pm_suspend: apm_suspend
\* (drivers/char/apm-emulation.c:328) is another, at any time.
PmSuspendPolls ==
  /\ has_wake_lock
  /\ UNCHANGED <<timer_vars, suspend_pending, suspend_pc, event>>

PmSuspendReturns ==
  /\ suspend_pc = "pm_suspend"
  /\ suspend_pc' = "exit"
  /\ UNCHANGED <<flags, link, left, timer_vars, suspend_pending, event>>

SuspendExit ==
  /\ suspend_pc = "exit"
  /\ suspend_pc' = IF event THEN "idle" ELSE "no_event"
  /\ UNCHANGED <<flags, link, left, timer_vars, suspend_pending, event>>

\* Mutant: unknown_wakeup is not taken.
SuspendForgetsEvent ==
  /\ suspend_pc = "no_event"
  /\ suspend_pc' = "idle"
  /\ UNCHANGED <<flags, link, left, timer_vars, suspend_pending, event>>

SuspendNoEvent ==
  /\ suspend_pc = "no_event"
  /\ LockStep(Unknown, TRUE, UnknownTimeout)
  /\ suspend_pc' = "idle"

-----------------------------------------------------------------------------
\* wakelocks_init, up to the creation of the work queue.
WakeLockInit ==
  /\ flags = [l \in Lock |-> IF l = Main THEN {"INITIALIZED", "ACTIVE"}
                             ELSE IF l = Unknown THEN {"INITIALIZED"} ELSE {}]
  /\ link = [l \in Lock |-> IF l = Main THEN "active"
                            ELSE IF l = Unknown THEN "inactive" ELSE "none"]
  /\ left = [l \in Lock |-> 0]
  /\ expire_pending = FALSE /\ expire_left = 0 /\ expire_running = FALSE
  /\ suspend_pending = FALSE /\ suspend_pc = "idle" /\ event = TRUE

DriverLock == Lock \ {Main, Unknown}

\* Main is locked and unlocked by kernel/power/earlysuspend.c.
MainStep == wake_lock(Main) \/ wake_unlock(Main)

DriverTimeout == \E l \in DriverLock, t \in Timeouts : wake_lock_timeout(l, t)

DriverStep ==
  \/ \E l \in DriverLock : \/ wake_lock_init(l) \/ wake_lock_destroy(l)
                           \/ wake_lock(l) \/ wake_unlock(l)
  \/ DriverTimeout

TimerStep == ExpireTimerFires \/ expire_wake_locks

SuspendWork ==
  \/ SuspendStart \/ SuspendCheck \/ SuspendEntry
  \/ PmSuspendReturns \/ SuspendExit \/ SuspendNoEvent

WakeLockNext ==
  MainStep \/ DriverStep \/ Tick \/ TimerStep \/ SuspendWork \/ PmSuspendPolls

WakeLockSpec == WakeLockInit /\ [][WakeLockNext]_wakelock_vars

\* The clock ticks, the timer softirq runs, and the work queue thread is
\* scheduled; pm_suspend returns because the device wakes up.
WakeLockFairness ==
  /\ WF_wakelock_vars(Tick)
  /\ WF_wakelock_vars(TimerStep)
  /\ WF_wakelock_vars(SuspendWork)

WakeLockFairSpec == WakeLockSpec /\ WakeLockFairness

-----------------------------------------------------------------------------
(* Properties.                                                             *)

\* The ACTIVE flag and the list a lock is on agree, for every lock that is
\* initialized: wake_lock_active (which reads the flag) and has_wake_lock
\* (which walks the list) cannot disagree, whoever expired the lock.
FlagMatchesList ==
  \A l \in Lock : "INITIALIZED" \in flags[l] =>
    ("ACTIVE" \in flags[l] <=> link[l] = "active")

\* While all held suspend locks have a timeout, expire_timer is set to run when
\* the last of them has expired (or its callback is about to run and finds all
\* of them expired): expire_wake_locks never needs to set the timer again, and
\* the code indeed does not.
TimerCoversTimeouts ==
  Untimed(flags, link) = {} =>
    \A l \in Holding(link) :
      \/ expire_pending /\ left[l] <= expire_left
      \/ expire_running /\ left[l] <= 0

\* The next suspend attempt is provided for: a lock without timeout is held (its
\* wake_unlock will look again), the timer is set or running, or the work is queued.
Armed ==
  Untimed(flags, link) # {} \/ expire_pending \/ expire_running \/ suspend_pending

\* No suspend attempt is ever lost: whenever suspend() is not running the next
\* attempt is provided for, although the lists are walked, and locks expired,
\* from five places that do not all queue the work or set the timer.
SuspendNotLost == suspend_pc = "idle" => Armed

\* A lock is charged with preventing suspend only while it is active and
\* main_wake_lock is not, so sleep_time in /proc/wakelocks is never charged to
\* a lock that is released or while the screen is on.
PreventingIsCharged ==
  \A l \in Lock : {"INITIALIZED", "PREVENTING_SUSPEND"} \subseteq flags[l] =>
    link[l] = "active" /\ "ACTIVE" \notin flags[Main]

\* When suspend() has finished with pm_suspend and no event was counted, it
\* takes unknown_wakeup; so pm_suspend is called over and over unless
\* locks without timeout or new timeouts keep the system awake.
SuspendRetried ==
  \/ []<>(suspend_pc = "pm_suspend")
  \/ []<>(Untimed(flags, link) # {})
  \/ []<><<DriverTimeout>>_wakelock_vars
=============================================================================
