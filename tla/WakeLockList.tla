---------------------------- MODULE WakeLockList ----------------------------
(***************************************************************************)
(* kernel/power/wakelock.c at the level of its linked lists: where each    *)
(* lock is inserted, the loop of has_wake_lock_locked with its early       *)
(* return, and the number it returns.  Implements WakeLock, which knows    *)
(* only which locks are held.  The statistics flag PREVENTING_SUSPEND is   *)
(* set by a loop over the same list that does not depend on its order, so  *)
(* it is taken over from WakeLock.                                         *)
(***************************************************************************)
EXTENDS Integers, Sequences, Lists

CONSTANTS Lock, Main, Unknown, IdleLock, Timeouts, UnknownTimeout, LongHalf,
          TimerSlack

ASSUME WakeLockListAssumption ==
  /\ Main \in Lock /\ Unknown \in Lock /\ Main # Unknown
  /\ IdleLock \subseteq Lock \ {Main, Unknown}
  /\ LongHalf \in Nat \ {0, 1}
  /\ Timeouts \subseteq -LongHalf .. LongHalf - 1
  /\ UnknownTimeout \in 1 .. LongHalf - 1
  /\ TimerSlack \in 0 .. 2

VARIABLES
  flags, left, expire_pending, expire_left, expire_running, suspend_pending,
  suspend_pc, event, \* as in WakeLock
  active,            \* active_wake_locks, by type
  inactive           \* the members of inactive_locks, whose order nobody reads

timer_vars == <<expire_pending, expire_left, expire_running>>
list_vars == <<flags, left, timer_vars, suspend_pending, suspend_pc, event,
               active, inactive>>

LockType == {"SUSPEND", "IDLE"}
TypeOf(l) == IF l \in IdleLock THEN "IDLE" ELSE "SUSPEND"

\* The refinement mapping: the list a lock is on.
LinkOf(act, inact) ==
  [l \in Lock |-> IF l \in ToSet(act[TypeOf(l)]) THEN "active"
                  ELSE IF l \in inact THEN "inactive" ELSE "none"]

WL == INSTANCE WakeLock WITH link <- LinkOf(active, inactive)

-----------------------------------------------------------------------------
\* list_del from whichever active list the lock is on; a no-op for the others.
list_del(act, l) == [act EXCEPT ![TypeOf(l)] = Without(@, {l})]

\* Mutant: a lock without timeout goes to the tail, behind those with one.
ListAddAtTail(act, l) == [act EXCEPT ![TypeOf(l)] = Append(@, l)]

list_add(act, l) == [act EXCEPT ![TypeOf(l)] = <<l>> \o @]
list_add_tail(act, l) == [act EXCEPT ![TypeOf(l)] = Append(@, l)]

Larger(x, y) == IF x > y THEN x ELSE y

\* One iteration of the loop; once a lock without timeout has been met nothing
\* more is visited.
VisitLock(w, l, f, t) ==
  IF w.ret = -1 \/ "AUTO_EXPIRE" \notin f[l]
  THEN [w EXCEPT !.ret = -1]
  ELSE IF t[l] <= 0 THEN [w EXCEPT !.expired = @ \cup {l}]
       ELSE [w EXCEPT !.ret = Larger(@, t[l])]

\* What it returns (-1, 0 or max_timeout) and which locks it expired.
has_wake_lock_locked(s, f, t) ==
  LET walk[i \in 0 .. Len(s)] == IF i = 0 THEN [ret |-> 0, expired |-> {}]
                                 ELSE VisitLock(walk[i - 1], s[i], f, t)
  IN  walk[Len(s)]

\* The state after a walk that expired the locks in X, from the flags f, the
\* remaining times t, the active lists act and the inactive list inact.
AfterWalk(X, f, t, act, inact) ==
  /\ flags' = [l \in Lock |-> IF l \in X THEN WL!UnlockStat(f[l]) \ WL!ClearOnUnlock
                                         ELSE f[l]]
  /\ left' = [l \in Lock |-> IF l \in X THEN 0 ELSE t[l]]
  /\ active' = [act EXCEPT !["SUSPEND"] = Without(@, X)]
  /\ inactive' = inact \cup X

\* The tail of wake_lock_internal and of wake_unlock.
SetExpireTimer(ret) ==
  /\ expire_pending' = (ret > 0)
  /\ expire_left' = IF ret > 0 THEN ret ELSE 0
  /\ suspend_pending' = (suspend_pending \/ ret = 0)

-----------------------------------------------------------------------------
wake_lock_init(l) ==
  /\ "INITIALIZED" \notin flags[l]
  /\ flags' = [flags EXCEPT ![l] = {"INITIALIZED"}]
  /\ left' = [left EXCEPT ![l] = 0]
  /\ inactive' = inactive \cup {l}
  /\ UNCHANGED <<active, timer_vars, suspend_pending, suspend_pc, event>>

\* Callers destroy no lock that is held without timeout (see WakeLock).
wake_lock_destroy(l) ==
  /\ "INITIALIZED" \in flags[l]
  /\ l \in ToSet(active["SUSPEND"]) => "AUTO_EXPIRE" \in flags[l]
  /\ flags' = [flags EXCEPT ![l] = @ \ {"INITIALIZED"}]
  /\ active' = list_del(active, l)
  /\ inactive' = inactive \ {l}
  /\ UNCHANGED <<left, timer_vars, suspend_pending, suspend_pc, event>>

\* wake_lock_internal with has_timeout set.
LockTimed(l, timeout) ==
  LET act == list_add_tail(list_del(active, l), l)
      inact == inactive \ {l}
      f == [flags EXCEPT ![l] = WL!LockFlags(l, TRUE)]
      t == [left EXCEPT ![l] = timeout]
      s == WL!StatFlags(l, f, LinkOf(act, inact), t)
      w == has_wake_lock_locked(act["SUSPEND"], s, t)
  IN  /\ "INITIALIZED" \in flags[l]
      /\ UNCHANGED expire_running
      /\ IF TypeOf(l) = "SUSPEND"
         THEN AfterWalk(w.expired, s, t, act, inact)
              /\ SetExpireTimer(w.ret) /\ event' = TRUE
         ELSE AfterWalk({}, f, t, act, inact)
              /\ UNCHANGED <<expire_pending, expire_left, suspend_pending, event>>

wake_lock_timeout(l, timeout) == LockTimed(l, timeout) /\ UNCHANGED suspend_pc

\* wake_lock_internal with has_timeout clear: no walk, and expire_in is -1.
wake_lock(l) ==
  LET act == list_add(list_del(active, l), l)
      inact == inactive \ {l}
      f == [flags EXCEPT ![l] = WL!LockFlags(l, FALSE)]
      t == [left EXCEPT ![l] = 0]
  IN  /\ "INITIALIZED" \in flags[l]
      /\ IF TypeOf(l) = "SUSPEND"
         THEN AfterWalk({}, WL!StatFlags(l, f, LinkOf(act, inact), t), t, act, inact)
              /\ SetExpireTimer(-1) /\ event' = TRUE
         ELSE AfterWalk({}, f, t, act, inact)
              /\ UNCHANGED <<expire_pending, expire_left, suspend_pending, event>>
      /\ UNCHANGED <<expire_running, suspend_pc>>

wake_unlock(l) ==
  LET act == list_del(active, l)
      inact == inactive \cup {l}
      f == [flags EXCEPT ![l] = WL!UnlockStat(@) \ WL!ClearOnUnlock]
      t == [left EXCEPT ![l] = 0]
      w == has_wake_lock_locked(act["SUSPEND"], f, t)
      \* Marking the locks that the walk is about to expire has no effect: they
      \* are expired for update_sleep_wait_stats_locked too.
      m == IF l = Main THEN WL!MarkPreventing(f, LinkOf(act, inact), t) ELSE f
  IN  /\ "INITIALIZED" \in flags[l]
      /\ IF TypeOf(l) = "SUSPEND"
         THEN AfterWalk(w.expired, m, t, act, inact) /\ SetExpireTimer(w.ret)
         ELSE AfterWalk({}, f, t, act, inact)
              /\ UNCHANGED <<expire_pending, expire_left, suspend_pending>>
      /\ UNCHANGED <<expire_running, suspend_pc, event>>

\* has_wake_lock(WAKE_LOCK_SUSPEND); it returns ret.
has_wake_lock(ret) ==
  LET w == has_wake_lock_locked(active["SUSPEND"], flags, left)
  IN  ret = w.ret /\ AfterWalk(w.expired, flags, left, active, inactive)

-----------------------------------------------------------------------------
Tick == UNCHANGED <<active, inactive>> /\ WL!Tick

ExpireTimerFires == UNCHANGED <<active, inactive>> /\ WL!ExpireTimerFires

expire_wake_locks ==
  /\ expire_running /\ expire_running' = FALSE
  /\ \E ret \in WL!Long :
       has_wake_lock(ret) /\ suspend_pending' = (suspend_pending \/ ret = 0)
  /\ UNCHANGED <<expire_pending, expire_left, suspend_pc, event>>

SuspendStart == UNCHANGED <<active, inactive>> /\ WL!SuspendStart

SuspendCheck ==
  /\ suspend_pc = "check"
  /\ \E ret \in WL!Long :
       has_wake_lock(ret) /\ suspend_pc' = IF ret = 0 THEN "entry" ELSE "idle"
  /\ UNCHANGED <<timer_vars, suspend_pending, event>>

SuspendEntry == UNCHANGED <<active, inactive>> /\ WL!SuspendEntry

PmSuspendPolls ==
  /\ \E ret \in WL!Long : has_wake_lock(ret)
  /\ UNCHANGED <<timer_vars, suspend_pending, suspend_pc, event>>

PmSuspendReturns == UNCHANGED <<active, inactive>> /\ WL!PmSuspendReturns

SuspendExit == UNCHANGED <<active, inactive>> /\ WL!SuspendExit

SuspendNoEvent ==
  /\ suspend_pc = "no_event"
  /\ LockTimed(Unknown, UnknownTimeout)
  /\ suspend_pc' = "idle"

-----------------------------------------------------------------------------
ListInit ==
  /\ active = [ty \in LockType |-> IF ty = "SUSPEND" THEN <<Main>> ELSE <<>>]
  /\ inactive = {Unknown}
  /\ flags = [l \in Lock |-> IF l = Main THEN {"INITIALIZED", "ACTIVE"}
                             ELSE IF l = Unknown THEN {"INITIALIZED"} ELSE {}]
  /\ left = [l \in Lock |-> 0]
  /\ expire_pending = FALSE /\ expire_left = 0 /\ expire_running = FALSE
  /\ suspend_pending = FALSE /\ suspend_pc = "idle" /\ event = TRUE

ListNext ==
  \/ wake_lock(Main) \/ wake_unlock(Main)
  \/ \E l \in Lock \ {Main, Unknown} :
       \/ wake_lock_init(l) \/ wake_lock_destroy(l)
       \/ wake_lock(l) \/ wake_unlock(l)
       \/ \E t \in Timeouts : wake_lock_timeout(l, t)
  \/ Tick \/ ExpireTimerFires \/ expire_wake_locks
  \/ SuspendStart \/ SuspendCheck \/ SuspendEntry
  \/ PmSuspendPolls \/ PmSuspendReturns \/ SuspendExit \/ SuspendNoEvent

ListSpec == ListInit /\ [][ListNext]_list_vars

-----------------------------------------------------------------------------
\* The list code implements WakeLock: inserting locks without timeout at the
\* head and the others at the tail, and leaving the loop at the first lock
\* without timeout, makes has_wake_lock_locked expire and return exactly what
\* the set of held locks determines.
ImplementsWakeLock == WL!WakeLockSpec
=============================================================================
