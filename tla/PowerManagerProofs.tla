------------------------ MODULE PowerManagerProofs ------------------------
(***************************************************************************)
(* Proofs about WakeLock, Suspend and PowerManager, which composes the two *)
(* with EarlySuspend: for any set of locks, callers and speeds, any        *)
(* timeouts and any width of a long.                                       *)
(***************************************************************************)
EXTENDS PowerManager, TLAPS

-----------------------------------------------------------------------------
(***************************************************************************)
(* Wake locks.                                                             *)
(***************************************************************************)

\* A lock is initialized exactly while it is on a list, and ACTIVE exactly
\* while the list is an active one.
ListInv ==
  \A l \in Lock :
    /\ "INITIALIZED" \in flags[l] <=> link[l] # "none"
    /\ link[l] = "active" => "ACTIVE" \in flags[l]
    /\ link[l] = "inactive" => "ACTIVE" \notin flags[l]

\* TimerCoversTimeouts, and the timer is never so far behind a lock that the
\* lock's remaining time could wrap around before the timer runs.
TimerInv ==
  Untimed(flags, link) = {} =>
    \A l \in Holding(link) :
      \/ /\ expire_pending
         /\ left[l] <= expire_left
         /\ expire_left <= left[l] + LongHalf - 2
      \/ expire_running /\ left[l] <= 0

\* SuspendNotLost, and the same once pm_suspend is called, if an event was
\* counted since: then suspend() will not take unknown_wakeup.
ArmedInv ==
  suspend_pc = "idle" \/ (suspend_pc \in {"pm_suspend", "exit"} /\ event) => Armed

\* PreventingIsCharged, and only locks that can block suspend are charged.
ChargeInv ==
  \A l \in Lock : {"INITIALIZED", "PREVENTING_SUSPEND"} \subseteq flags[l] =>
    l \in Holding(link) /\ "ACTIVE" \notin flags[Main]

\* The inductive invariant.
WakeLockInv == WakeLockTypeOK /\ ListInv /\ TimerInv /\ ArmedInv /\ ChargeInv

-----------------------------------------------------------------------------
(* The walk of has_wake_lock_locked.                                       *)

FlagMap == [Lock -> SUBSET Flag]
LinkMap == [Lock -> {"none", "inactive", "active"}]
TimeMap == [Lock -> Long]

\* The walk keeps the types, removes from the held locks exactly the due ones,
\* and those only when every held lock has a timeout.
LEMMA WalkFacts ==
  ASSUME NEW f \in FlagMap, NEW k \in LinkMap, NEW t \in TimeMap
  PROVE  /\ WalkFlags(f, k, t) \in FlagMap
         /\ WalkLink(f, k, t) \in LinkMap
         /\ WalkLeft(f, k, t) \in TimeMap
         /\ Holding(WalkLink(f, k, t)) = Remaining(f, k, t)
         /\ Untimed(WalkFlags(f, k, t), WalkLink(f, k, t)) = Untimed(f, k)
<1> USE DEF FlagMap, LinkMap, TimeMap
<1>1. WalkFlags(f, k, t) \in FlagMap
  BY DEF WalkFlags, UnlockStat, ClearOnUnlock
<1>2. WalkLink(f, k, t) \in LinkMap
  BY DEF WalkLink
<1>3. WalkLeft(f, k, t) \in TimeMap
  BY WakeLockAssumption DEF WalkLeft, Long
<1>4. Holding(WalkLink(f, k, t)) = Remaining(f, k, t)
  BY DEF WalkLink, Holding, Remaining, Due
<1>5. Untimed(WalkFlags(f, k, t), WalkLink(f, k, t)) = Untimed(f, k)
  <2>1. CASE Untimed(f, k) = {}
    BY <2>1 DEF Untimed, WalkFlags, WalkLink, Due, Holding
  <2>2. CASE Untimed(f, k) # {}
    <3>1. Due(f, k, t) = {}
      BY <2>2 DEF Due
    <3>2. WalkFlags(f, k, t) = f /\ WalkLink(f, k, t) = k
      BY <3>1 DEF WalkFlags, WalkLink
    <3> QED BY <3>2
  <2> QED BY <2>1, <2>2
<1> QED BY <1>1, <1>2, <1>3, <1>4, <1>5

\* After wake_lock_internal or wake_unlock the timer is right, and the next
\* suspend attempt is provided for.
LEMMA SetTimerFacts ==
  ASSUME NEW f \in FlagMap, NEW k \in LinkMap, NEW t \in TimeMap,
         \A l \in Lock : "AUTO_EXPIRE" \in flags'[l] <=>
                         "AUTO_EXPIRE" \in WalkFlags(f, k, t)[l],
         link' = WalkLink(f, k, t),
         left' = WalkLeft(f, k, t),
         expire_pending \in BOOLEAN, expire_left \in Long, suspend_pending \in BOOLEAN,
         SetTimer(f, k, t)
  PROVE  /\ TimerInv' /\ Armed'
         /\ expire_pending' \in BOOLEAN /\ expire_left' \in Long
         /\ suspend_pending' \in BOOLEAN
<1> USE DEF FlagMap, LinkMap, TimeMap
<1>0. 0 \in Long
  BY WakeLockAssumption DEF Long
<1>1. Holding(link') = Remaining(f, k, t)
  BY WalkFacts
<1>2. Untimed(flags', link') = Untimed(f, k)
  <2>1. Untimed(flags', link') = Untimed(WalkFlags(f, k, t), WalkLink(f, k, t))
    BY DEF Untimed, Holding
  <2> QED BY <2>1, WalkFacts
<1>3. CASE /\ Untimed(f, k) # {}
           /\ expire_pending' = FALSE /\ expire_left' = 0
           /\ UNCHANGED suspend_pending
  <2>1. TimerInv' /\ Armed'
    BY <1>2, <1>3 DEF TimerInv, Armed
  <2> QED BY <1>0, <1>3, <2>1
<1>4. CASE /\ Remaining(f, k, t) = {}
           /\ expire_pending' = FALSE /\ expire_left' = 0
           /\ suspend_pending' = TRUE
  <2>1. TimerInv' /\ Armed'
    BY <1>1, <1>4 DEF TimerInv, Armed
  <2> QED BY <1>0, <1>4, <2>1
<1>5. CASE /\ Untimed(f, k) = {}
           /\ \E m \in Remaining(f, k, t) :
                /\ \A l \in Remaining(f, k, t) : t[l] <= t[m]
                /\ expire_left' = t[m]
           /\ expire_pending' = TRUE
           /\ UNCHANGED suspend_pending
  <2>1. PICK m \in Remaining(f, k, t) :
               /\ \A l \in Remaining(f, k, t) : t[l] <= t[m]
               /\ expire_left' = t[m]
    BY <1>5
  <2>2. m \in Lock
    BY DEF Remaining, Holding
  <2>3. expire_left' \in Long
    BY <2>1, <2>2
  <2>4. ASSUME NEW l \in Holding(link')
        PROVE  left'[l] <= expire_left' /\ expire_left' <= left'[l] + LongHalf - 2
    <3>1. l \in Lock /\ l \in Remaining(f, k, t) /\ l \notin Due(f, k, t)
      BY <2>4, <1>1 DEF Remaining, Holding
    <3>2. left'[l] = t[l] /\ t[l] \in Long /\ t[l] > 0
      BY <3>1, <1>5 DEF WalkLeft, Due, Remaining, Long
    <3> QED BY <2>1, <2>2, <2>3, <3>1, <3>2, WakeLockAssumption DEF Long
  <2> QED BY <1>5, <2>3, <2>4 DEF TimerInv, Armed
<1> QED BY <1>3, <1>4, <1>5 DEF SetTimer

\* update_sleep_wait_stats_locked changes no flag but PREVENTING_SUSPEND.
LEMMA StatFacts ==
  ASSUME NEW f \in FlagMap, NEW k \in LinkMap, NEW t \in TimeMap, NEW l \in Lock,
         NEW s, s \in {MarkPreventing(f, k, t), ClearPreventing(f, k), StatFlags(l, f, k, t)}
  PROVE  /\ s \in FlagMap
         /\ \A x \in Lock, b \in Flag \ {"PREVENTING_SUSPEND"} : b \in s[x] <=> b \in f[x]
<1> USE DEF FlagMap, LinkMap, TimeMap, Flag
<1>1. ASSUME s = MarkPreventing(f, k, t)
      PROVE  /\ s \in FlagMap
             /\ \A x \in Lock, b \in Flag \ {"PREVENTING_SUSPEND"} : b \in s[x] <=> b \in f[x]
  BY <1>1 DEF MarkPreventing
<1>2. ASSUME s = ClearPreventing(f, k)
      PROVE  /\ s \in FlagMap
             /\ \A x \in Lock, b \in Flag \ {"PREVENTING_SUSPEND"} : b \in s[x] <=> b \in f[x]
  BY <1>2 DEF ClearPreventing
<1>3. CASE s = f
  BY <1>3
<1> QED BY <1>1, <1>2, <1>3 DEF StatFlags

\* Walking the lists keeps the correspondence of lists and flags.
LEMMA WalkList ==
  ASSUME NEW f \in FlagMap, NEW k \in LinkMap, NEW t \in TimeMap,
         \A l \in Lock :
           /\ "INITIALIZED" \in f[l] <=> k[l] # "none"
           /\ k[l] = "active" => "ACTIVE" \in f[l]
           /\ k[l] = "inactive" => "ACTIVE" \notin f[l],
         link' = WalkLink(f, k, t),
         \A l \in Lock, b \in Flag \ {"PREVENTING_SUSPEND"} :
           b \in flags'[l] <=> b \in WalkFlags(f, k, t)[l]
  PROVE  ListInv'
<1> USE DEF FlagMap, LinkMap, TimeMap, Flag
<1> SUFFICES ASSUME NEW l \in Lock
             PROVE  /\ "INITIALIZED" \in flags'[l] <=> link'[l] # "none"
                    /\ link'[l] = "active" => "ACTIVE" \in flags'[l]
                    /\ link'[l] = "inactive" => "ACTIVE" \notin flags'[l]
  BY DEF ListInv
<1>1. CASE l \in Due(f, k, t)
  <2>1. k[l] = "active"
    BY <1>1 DEF Due, Holding
  <2> QED BY <1>1, <2>1 DEF WalkLink, WalkFlags, UnlockStat, ClearOnUnlock
<1>2. CASE l \notin Due(f, k, t)
  BY <1>2 DEF WalkLink, WalkFlags
<1> QED BY <1>1, <1>2

\* wake_lock_internal keeps the invariant; for a lock that can block suspend it
\* also provides for the next suspend attempt.
LEMMA LockStepInv ==
  ASSUME WakeLockInv, NEW l \in Lock, NEW has_timeout \in BOOLEAN,
         NEW timeout \in Long, LockStep(l, has_timeout, timeout)
  PROVE  /\ flags' \in FlagMap /\ link' \in LinkMap /\ left' \in TimeMap
         /\ expire_pending' \in BOOLEAN /\ expire_left' \in Long
         /\ expire_running' \in BOOLEAN /\ suspend_pending' \in BOOLEAN
         /\ event' \in BOOLEAN
         /\ ListInv' /\ TimerInv' /\ ChargeInv'
         /\ Armed' \/ (l \in IdleLock /\ event' = event /\ (Armed => Armed'))
<1> DEFINE f == [flags EXCEPT ![l] = LockFlags(l, has_timeout)]
           k == [link EXCEPT ![l] = "active"]
           t == [left EXCEPT ![l] = IF has_timeout THEN timeout ELSE 0]
           s == StatFlags(l, f, k, t)
<1>0. 0 \in Long
  BY WakeLockAssumption DEF Long
<1>1. /\ flags \in FlagMap /\ link \in LinkMap /\ left \in TimeMap
      /\ expire_pending \in BOOLEAN /\ expire_left \in Long
      /\ expire_running \in BOOLEAN /\ suspend_pending \in BOOLEAN /\ event \in BOOLEAN
  BY DEF WakeLockInv, WakeLockTypeOK, FlagMap, LinkMap, TimeMap
<1>2. "INITIALIZED" \in flags[l] /\ expire_running' = expire_running
  BY DEF LockStep
<1>3. f \in FlagMap /\ k \in LinkMap /\ t \in TimeMap
  BY <1>0, <1>1 DEF FlagMap, LinkMap, TimeMap, LockFlags, UnlockStat, Flag
<1>4. /\ {"INITIALIZED", "ACTIVE"} \subseteq f[l]
      /\ k[l] = "active"
      /\ \A x \in Lock : x # l => f[x] = flags[x] /\ k[x] = link[x] /\ t[x] = left[x]
  BY <1>1, <1>2 DEF FlagMap, LinkMap, TimeMap, LockFlags, UnlockStat
<1>5. \A x \in Lock :
        /\ "INITIALIZED" \in f[x] <=> k[x] # "none"
        /\ k[x] = "active" => "ACTIVE" \in f[x]
        /\ k[x] = "inactive" => "ACTIVE" \notin f[x]
  BY <1>4 DEF WakeLockInv, ListInv
<1>6. CASE l \in IdleLock
  <2>1. /\ flags' = f /\ link' = k /\ left' = t
        /\ UNCHANGED <<expire_pending, expire_left, suspend_pending, event>>
    BY <1>6 DEF LockStep
  <2>2. Holding(link') = Holding(link) /\ Untimed(flags', link') = Untimed(flags, link)
    BY <1>4, <1>6, <2>1 DEF Holding, Untimed
  <2>3. ListInv'
    BY <1>5, <2>1 DEF ListInv
  <2>4. TimerInv'
    <3>1. \A x \in Holding(link) : left'[x] = left[x]
      BY <1>4, <1>6, <2>1 DEF Holding
    <3> QED BY <1>2, <2>1, <2>2, <3>1 DEF WakeLockInv, TimerInv
  <2>5. ChargeInv'
    <3>1. Main # l
      BY <1>6, WakeLockAssumption
    <3>2. "PREVENTING_SUSPEND" \notin f[l]
      BY <1>1, <1>2, <1>6 DEF WakeLockInv, ChargeInv, Holding, LockFlags, UnlockStat, FlagMap
    <3> QED BY <1>4, <2>1, <2>2, <3>1, <3>2, WakeLockAssumption DEF WakeLockInv, ChargeInv
  <2>6. Armed => Armed'
    BY <1>2, <2>1, <2>2 DEF Armed
  <2> QED BY <1>1, <1>2, <1>3, <1>6, <2>1, <2>3, <2>4, <2>5, <2>6
<1>7. CASE l \notin IdleLock
  <2>1. /\ flags' = WalkFlags(s, k, t) /\ link' = WalkLink(s, k, t)
        /\ left' = WalkLeft(s, k, t) /\ SetTimer(s, k, t) /\ event' = TRUE
    BY <1>7 DEF LockStep
  <2>2. /\ s \in FlagMap
        /\ \A x \in Lock, b \in Flag \ {"PREVENTING_SUSPEND"} : b \in s[x] <=> b \in f[x]
    BY <1>3, StatFacts
  <2>3. flags' \in FlagMap /\ link' \in LinkMap /\ left' \in TimeMap
    BY <1>3, <2>1, <2>2, WalkFacts
  <2>4. /\ TimerInv' /\ Armed'
        /\ expire_pending' \in BOOLEAN /\ expire_left' \in Long
        /\ suspend_pending' \in BOOLEAN
    BY <1>1, <1>3, <2>1, <2>2, SetTimerFacts
  <2>5. ListInv'
    <3>1. \A x \in Lock :
            /\ "INITIALIZED" \in s[x] <=> k[x] # "none"
            /\ k[x] = "active" => "ACTIVE" \in s[x]
            /\ k[x] = "inactive" => "ACTIVE" \notin s[x]
      BY <1>5, <2>2 DEF Flag
    <3> QED BY <1>3, <2>1, <2>2, <3>1, WalkList
  <2>6. ChargeInv'
    <3> SUFFICES ASSUME NEW x \in Lock,
                        "INITIALIZED" \in flags'[x], "PREVENTING_SUSPEND" \in flags'[x]
                 PROVE  x \in Holding(link') /\ "ACTIVE" \notin flags'[Main]
      BY DEF ChargeInv
    <3>1. x \notin Due(s, k, t)
      <4>1. x \in Due(s, k, t) => "ACTIVE" \in s[x]
        BY <1>5, <2>2 DEF Due, Holding, Flag
      <4> QED BY <2>1, <4>1 DEF WalkFlags, UnlockStat, ClearOnUnlock
    <3>2. "INITIALIZED" \in s[x] /\ "PREVENTING_SUSPEND" \in s[x] /\ link'[x] = k[x]
      BY <2>1, <3>1 DEF WalkFlags, WalkLink
    <3>3. l # Main
      <4>1. CASE l = Main
        <5>1. s = ClearPreventing(f, k)
          BY <4>1 DEF StatFlags
        <5>2. x \notin Holding(k) /\ "PREVENTING_SUSPEND" \in f[x]
          BY <3>2, <5>1 DEF ClearPreventing
        <5>3. x # l /\ flags[x] = f[x] /\ k[x] = link[x]
          BY <1>4, <1>7, <5>2 DEF Holding
        <5> QED BY <2>2, <3>2, <5>2, <5>3 DEF WakeLockInv, ChargeInv, Holding, Flag
      <4> QED BY <4>1
    <3>4. "ACTIVE" \notin flags[Main]
      <4>1. CASE "ACTIVE" \in flags[Main]
        <5>1. s = f
          BY <1>4, <3>3, <4>1, WakeLockAssumption DEF StatFlags
        <5>2. "PREVENTING_SUSPEND" \in f[x]
          BY <3>2, <5>1
        <5>3. "INITIALIZED" \in flags[x] /\ "PREVENTING_SUSPEND" \in flags[x]
          BY <1>1, <1>2, <1>4, <3>2, <5>1, <5>2 DEF LockFlags, UnlockStat, FlagMap
        <5> QED BY <4>1, <5>3 DEF WakeLockInv, ChargeInv
      <4> QED BY <4>1
    <3>5. "ACTIVE" \notin flags'[Main]
      <4>1. "ACTIVE" \notin s[Main]
        BY <1>4, <2>2, <3>3, <3>4, WakeLockAssumption DEF Flag
      <4> QED BY <2>1, <4>1, WakeLockAssumption DEF WalkFlags, UnlockStat
    <3>6. x \in Holding(k)
      <4>1. s = MarkPreventing(f, k, t)
        BY <1>4, <3>3, <3>4, WakeLockAssumption DEF StatFlags
      <4>2. CASE x \notin Holding(k)
        <5>1. x # l /\ f[x] = flags[x] /\ s[x] = f[x] /\ k[x] = link[x]
          BY <1>4, <1>7, <4>1, <4>2 DEF Holding, MarkPreventing
        <5> QED BY <3>2, <4>2, <5>1 DEF WakeLockInv, ChargeInv, Holding
      <4> QED BY <4>2
    <3> QED BY <3>2, <3>5, <3>6 DEF Holding
  <2> QED BY <1>1, <1>2, <2>1, <2>3, <2>4, <2>5, <2>6
<1> QED BY <1>6, <1>7

\* wake_unlock keeps the invariant.
LEMMA UnlockInv ==
  ASSUME WakeLockInv, NEW l \in Lock, wake_unlock(l)
  PROVE  WakeLockInv'
<1> DEFINE f == [flags EXCEPT ![l] = UnlockStat(@) \ ClearOnUnlock]
           k == [link EXCEPT ![l] = "inactive"]
           t == [left EXCEPT ![l] = 0]
           fw == WalkFlags(f, k, t)
           kw == WalkLink(f, k, t)
           tw == WalkLeft(f, k, t)
<1>0. 0 \in Long
  BY WakeLockAssumption DEF Long
<1>1. /\ flags \in FlagMap /\ link \in LinkMap /\ left \in TimeMap
      /\ expire_pending \in BOOLEAN /\ expire_left \in Long
      /\ expire_running \in BOOLEAN /\ suspend_pending \in BOOLEAN
      /\ event \in BOOLEAN /\ suspend_pc \in SuspendPC
  BY DEF WakeLockInv, WakeLockTypeOK, FlagMap, LinkMap, TimeMap
<1>2. /\ "INITIALIZED" \in flags[l] /\ expire_running' = expire_running
      /\ suspend_pc' = suspend_pc /\ event' = event
  BY DEF wake_unlock
<1>3. f \in FlagMap /\ k \in LinkMap /\ t \in TimeMap
  BY <1>0, <1>1 DEF FlagMap, LinkMap, TimeMap, UnlockStat, ClearOnUnlock, Flag
<1>4. /\ "INITIALIZED" \in f[l] /\ "ACTIVE" \notin f[l] /\ "PREVENTING_SUSPEND" \notin f[l]
      /\ k[l] = "inactive"
      /\ \A x \in Lock : x # l => f[x] = flags[x] /\ k[x] = link[x] /\ t[x] = left[x]
  BY <1>1, <1>2 DEF FlagMap, LinkMap, TimeMap, UnlockStat, ClearOnUnlock,
                    WakeLockInv, ListInv, ChargeInv, Holding
<1>5. \A x \in Lock :
        /\ "INITIALIZED" \in f[x] <=> k[x] # "none"
        /\ k[x] = "active" => "ACTIVE" \in f[x]
        /\ k[x] = "inactive" => "ACTIVE" \notin f[x]
  BY <1>4 DEF WakeLockInv, ListInv
<1>6. CASE l \in IdleLock
  <2>1. /\ flags' = f /\ link' = k /\ left' = t
        /\ UNCHANGED <<expire_pending, expire_left, suspend_pending>>
    BY <1>6 DEF wake_unlock
  <2>2. Holding(link') = Holding(link) /\ Untimed(flags', link') = Untimed(flags, link)
    BY <1>4, <1>6, <2>1 DEF Holding, Untimed
  <2>3. ListInv'
    BY <1>5, <2>1 DEF ListInv
  <2>4. TimerInv'
    <3>1. \A x \in Holding(link) : left'[x] = left[x]
      BY <1>4, <1>6, <2>1 DEF Holding
    <3> QED BY <1>2, <2>1, <2>2, <3>1 DEF WakeLockInv, TimerInv
  <2>5. ChargeInv'
    BY <1>4, <1>6, <2>1, <2>2, WakeLockAssumption DEF WakeLockInv, ChargeInv
  <2>6. ArmedInv'
    BY <1>2, <2>1, <2>2 DEF WakeLockInv, ArmedInv, Armed
  <2>7. WakeLockTypeOK'
    BY <1>1, <1>2, <1>3, <2>1 DEF WakeLockTypeOK, FlagMap, LinkMap, TimeMap
  <2> QED BY <2>3, <2>4, <2>5, <2>6, <2>7 DEF WakeLockInv
<1>7. CASE l \notin IdleLock
  <2>1. /\ flags' = IF l = Main THEN MarkPreventing(fw, kw, tw) ELSE fw
        /\ link' = kw /\ left' = tw /\ SetTimer(f, k, t)
    BY <1>7 DEF wake_unlock
  <2>2. fw \in FlagMap /\ kw \in LinkMap /\ tw \in TimeMap
    BY <1>3, WalkFacts
  <2>3. /\ flags' \in FlagMap
        /\ \A x \in Lock, b \in Flag \ {"PREVENTING_SUSPEND"} : b \in flags'[x] <=> b \in fw[x]
    <3>1. CASE l = Main
      <4>1. flags' \in {MarkPreventing(fw, kw, tw), ClearPreventing(fw, kw),
                        StatFlags(l, fw, kw, tw)}
        BY <2>1, <3>1
      <4> HIDE DEF fw, kw, tw
      <4> QED BY <2>2, <4>1, StatFacts
    <3>2. CASE l # Main
      BY <2>1, <2>2, <3>2
    <3> QED BY <3>1, <3>2
  <2>4. /\ TimerInv' /\ Armed'
        /\ expire_pending' \in BOOLEAN /\ expire_left' \in Long
        /\ suspend_pending' \in BOOLEAN
    <3>1. \A x \in Lock : "AUTO_EXPIRE" \in flags'[x] <=> "AUTO_EXPIRE" \in WalkFlags(f, k, t)[x]
      BY <2>3 DEF Flag
    <3> QED BY <1>1, <1>3, <2>1, <3>1, SetTimerFacts
  <2>5. ListInv'
    BY <1>3, <1>5, <2>1, <2>3, WalkList
  <2>6. ChargeInv'
    <3> SUFFICES ASSUME NEW x \in Lock,
                        "INITIALIZED" \in flags'[x], "PREVENTING_SUSPEND" \in flags'[x]
                 PROVE  x \in Holding(link') /\ "ACTIVE" \notin flags'[Main]
      BY DEF ChargeInv
    <3>1. "PREVENTING_SUSPEND" \in fw[x] =>
            x \in Holding(kw) /\ x \in Holding(link) /\ flags[x] = f[x]
      <4> HAVE "PREVENTING_SUSPEND" \in fw[x]
      <4>1. x \notin Due(f, k, t)
        <5>1. x \in Due(f, k, t) => "ACTIVE" \in f[x]
          BY <1>5 DEF Due, Holding
        <5> QED BY <5>1 DEF WalkFlags, UnlockStat, ClearOnUnlock
      <4>2. fw[x] = f[x] /\ kw[x] = k[x]
        BY <4>1 DEF WalkFlags, WalkLink
      <4>3. x # l
        BY <1>4, <4>2
      <4>4. "INITIALIZED" \in fw[x]
        BY <2>3 DEF Flag
      <4> QED BY <1>4, <4>2, <4>3, <4>4 DEF WakeLockInv, ChargeInv, Holding
    <3>2. CASE l = Main
      <4>1. flags' = MarkPreventing(fw, kw, tw)
        BY <2>1, <3>2
      <4>2. "ACTIVE" \notin fw[Main]
        BY <1>4, <3>2, WakeLockAssumption DEF WalkFlags, UnlockStat
      <4>3. "ACTIVE" \notin flags'[Main]
        BY <2>3, <4>2, WakeLockAssumption DEF Flag
      <4>4. x \in Holding(kw)
        BY <3>1, <4>1 DEF MarkPreventing
      <4> QED BY <2>1, <4>3, <4>4
    <3>3. CASE l # Main
      <4>1. flags' = fw
        BY <2>1, <3>3
      <4>2. "INITIALIZED" \in flags[x] /\ "PREVENTING_SUSPEND" \in flags[x]
        BY <1>3, <3>1, <4>1 DEF WalkFlags, UnlockStat, FlagMap, ClearOnUnlock
      <4>3. "ACTIVE" \notin f[Main]
        BY <1>4, <3>3, <4>2, WakeLockAssumption DEF WakeLockInv, ChargeInv
      <4>4. "ACTIVE" \notin flags'[Main]
        BY <4>1, <4>3, WakeLockAssumption DEF WalkFlags, UnlockStat
      <4> QED BY <2>1, <3>1, <4>1, <4>4
    <3> QED BY <3>2, <3>3
  <2>7. WakeLockTypeOK'
    BY <1>1, <1>2, <2>1, <2>2, <2>3, <2>4 DEF WakeLockTypeOK, FlagMap, LinkMap, TimeMap
  <2>8. ArmedInv'
    BY <2>4 DEF ArmedInv
  <2> QED BY <2>4, <2>5, <2>6, <2>7, <2>8 DEF WakeLockInv
<1> QED BY <1>6, <1>7

\* What has_wake_lock keeps, whoever calls it.
LEMMA PollInv ==
  ASSUME WakeLockInv, has_wake_lock
  PROVE  /\ flags' \in FlagMap /\ link' \in LinkMap /\ left' \in TimeMap
         /\ ListInv' /\ ChargeInv'
         /\ Holding(link') = Remaining(flags, link, left)
         /\ Untimed(flags', link') = Untimed(flags, link)
         /\ \A l \in Holding(link') :
              /\ l \in Holding(link) /\ left'[l] = left[l]
              /\ Untimed(flags, link) = {} => left[l] > 0
<1>1. flags \in FlagMap /\ link \in LinkMap /\ left \in TimeMap
  BY DEF WakeLockInv, WakeLockTypeOK, FlagMap, LinkMap, TimeMap
<1>2. /\ flags' = WalkFlags(flags, link, left) /\ link' = WalkLink(flags, link, left)
      /\ left' = WalkLeft(flags, link, left)
  BY DEF has_wake_lock
<1>3. /\ flags' \in FlagMap /\ link' \in LinkMap /\ left' \in TimeMap
      /\ Holding(link') = Remaining(flags, link, left)
      /\ Untimed(flags', link') = Untimed(flags, link)
  BY <1>1, <1>2, WalkFacts
<1>4. ListInv'
  BY <1>1, <1>2, WalkList DEF WakeLockInv, ListInv
<1>5. ASSUME NEW l \in Holding(link')
      PROVE  /\ l \in Holding(link) /\ left'[l] = left[l]
             /\ Untimed(flags, link) = {} => left[l] > 0
  <2>1. l \in Lock /\ l \in Holding(link) /\ l \notin Due(flags, link, left)
    BY <1>3, <1>5 DEF Remaining, Holding
  <2> QED BY <1>1, <1>2, <2>1 DEF WalkLeft, Due, Long, TimeMap
<1>6. ChargeInv'
  <2> SUFFICES ASSUME NEW x \in Lock,
                      "INITIALIZED" \in flags'[x], "PREVENTING_SUSPEND" \in flags'[x]
               PROVE  x \in Holding(link') /\ "ACTIVE" \notin flags'[Main]
    BY DEF ChargeInv
  <2>1. x \notin Due(flags, link, left)
    <3>1. x \in Due(flags, link, left) => "ACTIVE" \in flags[x]
      BY DEF Due, Holding, WakeLockInv, ListInv
    <3> QED BY <1>2, <3>1 DEF WalkFlags, UnlockStat, ClearOnUnlock
  <2>2. flags'[x] = flags[x] /\ link'[x] = link[x]
    BY <1>2, <2>1 DEF WalkFlags, WalkLink
  <2>3. x \in Holding(link) /\ "ACTIVE" \notin flags[Main]
    BY <2>2 DEF WakeLockInv, ChargeInv
  <2>4. "ACTIVE" \notin flags'[Main]
    BY <1>2, <2>3, WakeLockAssumption DEF WalkFlags, UnlockStat
  <2> QED BY <2>2, <2>3, <2>4 DEF Holding
<1> QED BY <1>3, <1>4, <1>5, <1>6

\* Arithmetic of one jiffy: with the timer ahead of the lock by at most
\* LongHalf - 2, the remaining time of the lock does not wrap.
LEMMA TickFacts ==
  ASSUME NEW e \in Long, NEW r \in Long, e > -TimerSlack,
         r <= e, e <= r + LongHalf - 2
  PROVE  /\ r # -LongHalf
         /\ r - 1 <= e - 1 /\ e - 1 <= (r - 1) + LongHalf - 2
BY WakeLockAssumption DEF Long

\* One jiffy keeps the types.
LEMMA TickTypes ==
  ASSUME NEW r \in Long
  PROVE  /\ (IF r = -LongHalf THEN LongHalf - 1 ELSE r - 1) \in Long
         /\ r > -TimerSlack => r - 1 \in Long
BY WakeLockAssumption DEF Long

\* The lengths of time the code itself uses are longs.
LEMMA LongFacts == 0 \in Long /\ UnknownTimeout \in Long
BY WakeLockAssumption DEF Long

\* Every step keeps the inductive invariant.
LEMMA NextInv ==
  ASSUME WakeLockInv, [WakeLockNext]_wakelock_vars
  PROVE  WakeLockInv'
<1>1. /\ flags \in FlagMap /\ link \in LinkMap /\ left \in TimeMap
      /\ expire_pending \in BOOLEAN /\ expire_left \in Long
      /\ expire_running \in BOOLEAN /\ suspend_pending \in BOOLEAN
      /\ event \in BOOLEAN /\ suspend_pc \in SuspendPC
  BY DEF WakeLockInv, WakeLockTypeOK, FlagMap, LinkMap, TimeMap
<1>2. ASSUME NEW l \in Lock, NEW h \in BOOLEAN, NEW d \in Long,
             LockStep(l, h, d), UNCHANGED suspend_pc
      PROVE  WakeLockInv'
  <2>1. /\ flags' \in FlagMap /\ link' \in LinkMap /\ left' \in TimeMap
        /\ expire_pending' \in BOOLEAN /\ expire_left' \in Long
        /\ expire_running' \in BOOLEAN /\ suspend_pending' \in BOOLEAN
        /\ event' \in BOOLEAN
        /\ ListInv' /\ TimerInv' /\ ChargeInv'
        /\ Armed' \/ (event' = event /\ (Armed => Armed'))
    BY <1>2, LockStepInv
  <2>2. ArmedInv'
    BY <1>2, <2>1 DEF ArmedInv, WakeLockInv
  <2>3. WakeLockTypeOK'
    BY <1>1, <1>2, <2>1 DEF WakeLockTypeOK, FlagMap, LinkMap, TimeMap
  <2> QED BY <2>1, <2>2, <2>3 DEF WakeLockInv
<1>3. ASSUME MainStep PROVE WakeLockInv'
  <2>1. CASE wake_lock(Main)
    BY <1>2, <2>1, LongFacts, WakeLockAssumption DEF wake_lock
  <2>2. CASE wake_unlock(Main)
    BY <2>2, UnlockInv, WakeLockAssumption
  <2> QED BY <1>3, <2>1, <2>2 DEF MainStep
<1>4. ASSUME NEW l \in DriverLock, wake_lock_init(l) PROVE WakeLockInv'
  <2>1. l \in Lock /\ link[l] = "none" /\ l # Main
    BY <1>4 DEF wake_lock_init, WakeLockInv, ListInv, DriverLock
  <2>2. /\ flags' = [flags EXCEPT ![l] = {"INITIALIZED"}]
        /\ link' = [link EXCEPT ![l] = "inactive"]
        /\ left' = [left EXCEPT ![l] = 0]
        /\ UNCHANGED <<expire_pending, expire_left, expire_running, suspend_pending,
                       suspend_pc, event>>
    BY <1>4 DEF wake_lock_init
  <2>3. /\ Holding(link') = Holding(link) /\ Untimed(flags', link') = Untimed(flags, link)
        /\ \A x \in Holding(link) : x \in Lock /\ x # l /\ left'[x] = left[x]
    BY <1>1, <2>1, <2>2 DEF Holding, Untimed, FlagMap, LinkMap, TimeMap
  <2>4. WakeLockTypeOK'
    BY <1>1, <2>1, <2>2, LongFacts DEF WakeLockTypeOK, FlagMap, LinkMap, TimeMap, Flag
  <2>5. ListInv'
    BY <1>1, <2>1, <2>2 DEF WakeLockInv, ListInv, FlagMap, LinkMap
  <2>6. TimerInv'
    BY <2>2, <2>3 DEF WakeLockInv, TimerInv
  <2>7. ArmedInv'
    BY <2>2, <2>3 DEF WakeLockInv, ArmedInv, Armed
  <2>8. ChargeInv'
    BY <1>1, <2>1, <2>2, <2>3, WakeLockAssumption DEF WakeLockInv, ChargeInv, FlagMap
  <2> QED BY <2>4, <2>5, <2>6, <2>7, <2>8 DEF WakeLockInv
<1>5. ASSUME NEW l \in DriverLock, wake_lock_destroy(l) PROVE WakeLockInv'
  <2>1. l \in Lock /\ l # Main /\ l \notin Untimed(flags, link)
    BY <1>5 DEF wake_lock_destroy, DriverLock
  <2>2. /\ flags' = [flags EXCEPT ![l] = @ \ {"INITIALIZED"}]
        /\ link' = [link EXCEPT ![l] = "none"]
        /\ UNCHANGED <<left, expire_pending, expire_left, expire_running,
                       suspend_pending, suspend_pc, event>>
    BY <1>5 DEF wake_lock_destroy
  <2>3. /\ Holding(link') = Holding(link) \ {l}
        /\ Untimed(flags', link') = Untimed(flags, link)
    BY <1>1, <2>1, <2>2 DEF Holding, Untimed, FlagMap, LinkMap
  <2>4. WakeLockTypeOK'
    BY <1>1, <2>1, <2>2 DEF WakeLockTypeOK, FlagMap, LinkMap, TimeMap
  <2>5. ListInv'
    BY <1>1, <2>1, <2>2 DEF WakeLockInv, ListInv, FlagMap, LinkMap
  <2>6. TimerInv'
    BY <2>2, <2>3 DEF WakeLockInv, TimerInv
  <2>7. ArmedInv'
    BY <2>2, <2>3 DEF WakeLockInv, ArmedInv, Armed
  <2>8. ChargeInv'
    BY <1>1, <2>1, <2>2, <2>3, WakeLockAssumption DEF WakeLockInv, ChargeInv, FlagMap
  <2> QED BY <2>4, <2>5, <2>6, <2>7, <2>8 DEF WakeLockInv
<1>6. ASSUME DriverStep PROVE WakeLockInv'
  <2>1. CASE DriverTimeout
    <3>1. PICK l \in DriverLock, d \in Timeouts : wake_lock_timeout(l, d)
      BY <2>1 DEF DriverTimeout
    <3>2. l \in Lock /\ d \in Long
      BY WakeLockAssumption DEF DriverLock
    <3> QED BY <1>2, <3>1, <3>2 DEF wake_lock_timeout
  <2>2. ASSUME NEW l \in DriverLock,
               wake_lock_init(l) \/ wake_lock_destroy(l) \/ wake_lock(l) \/ wake_unlock(l)
        PROVE  WakeLockInv'
    <3>1. l \in Lock
      BY DEF DriverLock
    <3>2. CASE wake_lock(l)
      BY <1>2, <3>1, <3>2, LongFacts, WakeLockAssumption DEF wake_lock
    <3> QED BY <1>4, <1>5, <2>2, <3>1, <3>2, UnlockInv
  <2> QED BY <1>6, <2>1, <2>2 DEF DriverStep
<1>7. ASSUME Tick PROVE WakeLockInv'
  <2>1. /\ ~expire_running /\ (expire_pending => expire_left > -TimerSlack)
        /\ left' = [l \in Lock |-> IF "AUTO_EXPIRE" \notin flags[l] THEN left[l]
                             ELSE IF left[l] = -LongHalf THEN LongHalf - 1
                             ELSE left[l] - 1]
        /\ expire_left' = IF expire_pending THEN expire_left - 1 ELSE 0
        /\ UNCHANGED <<flags, link, expire_pending, expire_running, suspend_pending,
                       suspend_pc, event>>
    BY <1>7 DEF Tick
  <2>2. left' \in TimeMap
    <3>1. ASSUME NEW l \in Lock PROVE left'[l] \in Long
      BY <1>1, <2>1, TickTypes DEF TimeMap
    <3> QED BY <2>1, <3>1 DEF TimeMap
  <2>3. expire_left' \in Long
    <3>1. CASE expire_pending
      BY <1>1, <2>1, <3>1, TickTypes
    <3>2. CASE ~expire_pending
      BY <2>1, <3>2, LongFacts
    <3> QED BY <3>1, <3>2
  <2>4. WakeLockTypeOK'
    BY <1>1, <2>1, <2>2, <2>3 DEF WakeLockTypeOK, FlagMap, LinkMap, TimeMap
  <2>5. ListInv' /\ ArmedInv' /\ ChargeInv'
    BY <2>1 DEF WakeLockInv, ListInv, ArmedInv, Armed, ChargeInv
  <2>6. TimerInv'
    <3> SUFFICES ASSUME Untimed(flags, link) = {}, NEW l \in Holding(link)
                 PROVE  /\ expire_pending
                        /\ left'[l] <= expire_left'
                        /\ expire_left' <= left'[l] + LongHalf - 2
      BY <2>1 DEF TimerInv
    <3>1. /\ expire_pending /\ left[l] <= expire_left
          /\ expire_left <= left[l] + LongHalf - 2
      BY <2>1 DEF WakeLockInv, TimerInv
    <3>2. l \in Lock /\ "AUTO_EXPIRE" \in flags[l]
      BY DEF Untimed, Holding
    <3>3. left[l] \in Long /\ expire_left > -TimerSlack
      BY <1>1, <2>1, <3>1, <3>2 DEF TimeMap
    <3>4. /\ left[l] # -LongHalf
          /\ left[l] - 1 <= expire_left - 1
          /\ expire_left - 1 <= (left[l] - 1) + LongHalf - 2
      BY <1>1, <3>1, <3>3, TickFacts
    <3>5. left'[l] = left[l] - 1 /\ expire_left' = expire_left - 1
      BY <2>1, <3>1, <3>2, <3>4
    <3> QED BY <3>1, <3>4, <3>5
  <2> QED BY <2>4, <2>5, <2>6 DEF WakeLockInv
<1>8. ASSUME ExpireTimerFires PROVE WakeLockInv'
  <2>1. /\ expire_pending /\ expire_left <= 0 /\ ~expire_running
        /\ expire_pending' = FALSE /\ expire_left' = 0 /\ expire_running' = TRUE
        /\ UNCHANGED <<flags, link, left, suspend_pending, suspend_pc, event>>
    BY <1>8 DEF ExpireTimerFires
  <2>2. WakeLockTypeOK'
    BY <1>1, <2>1, LongFacts DEF WakeLockTypeOK, FlagMap, LinkMap, TimeMap
  <2>3. ListInv' /\ ArmedInv' /\ ChargeInv'
    BY <2>1 DEF WakeLockInv, ListInv, ArmedInv, Armed, ChargeInv
  <2>4. TimerInv'
    <3> SUFFICES ASSUME Untimed(flags, link) = {}, NEW l \in Holding(link)
                 PROVE  left[l] <= 0
      BY <2>1 DEF TimerInv
    <3>1. left[l] <= expire_left /\ left[l] \in Long
      BY <1>1, <2>1 DEF WakeLockInv, TimerInv, TimeMap, Holding
    <3> QED BY <1>1, <2>1, <3>1 DEF Long
  <2> QED BY <2>2, <2>3, <2>4 DEF WakeLockInv
<1>9. ASSUME has_wake_lock PROVE
        /\ flags' \in FlagMap /\ link' \in LinkMap /\ left' \in TimeMap
        /\ ListInv' /\ ChargeInv'
        /\ Untimed(flags', link') = Untimed(flags, link)
        /\ UNCHANGED <<expire_pending, expire_left>> => TimerInv'
        /\ Remaining(flags, link, left) # {} =>
             Untimed(flags, link) # {} \/ expire_pending
  <2>1. /\ flags' \in FlagMap /\ link' \in LinkMap /\ left' \in TimeMap
        /\ ListInv' /\ ChargeInv'
        /\ Holding(link') = Remaining(flags, link, left)
        /\ Untimed(flags', link') = Untimed(flags, link)
        /\ \A l \in Holding(link') :
             /\ l \in Holding(link) /\ left'[l] = left[l]
             /\ Untimed(flags, link) = {} => left[l] > 0
    BY <1>9, PollInv
  <2>2. ASSUME NEW l \in Holding(link'), Untimed(flags, link) = {}
        PROVE  /\ expire_pending /\ left'[l] = left[l] /\ left[l] <= expire_left
               /\ expire_left <= left[l] + LongHalf - 2
    <3>1. l \in Lock /\ left[l] \in Long /\ left[l] > 0 /\ left'[l] = left[l] /\ l \in Holding(link)
      BY <1>1, <2>1, <2>2 DEF Holding, TimeMap
    <3>2. ~(left[l] <= 0)
      BY <3>1 DEF Long
    <3> QED BY <2>2, <3>1, <3>2 DEF WakeLockInv, TimerInv
  <2>3. UNCHANGED <<expire_pending, expire_left>> => TimerInv'
    BY <2>1, <2>2 DEF TimerInv
  <2>4. Remaining(flags, link, left) # {} => Untimed(flags, link) # {} \/ expire_pending
    BY <2>1, <2>2
  <2> QED BY <2>1, <2>3, <2>4
<1>10. ASSUME expire_wake_locks PROVE WakeLockInv'
  <2>1. /\ expire_running' = FALSE /\ has_wake_lock
        /\ suspend_pending' = (suspend_pending \/ Remaining(flags, link, left) = {})
        /\ UNCHANGED <<expire_pending, expire_left, suspend_pc, event>>
    BY <1>10 DEF expire_wake_locks
  <2>2. WakeLockTypeOK'
    BY <1>1, <1>9, <2>1 DEF WakeLockTypeOK, FlagMap, LinkMap, TimeMap
  <2>3. Armed'
    BY <1>9, <2>1 DEF Armed
  <2> QED BY <1>9, <2>1, <2>2, <2>3 DEF WakeLockInv, ArmedInv
<1>11. ASSUME has_wake_lock, suspend_pc' \in SuspendPC,
              UNCHANGED <<expire_pending, expire_left, expire_running, suspend_pending, event>>,
              suspend_pc' = "idle" => suspend_pc = "idle" \/ Remaining(flags, link, left) # {},
              suspend_pc' \in {"pm_suspend", "exit"} => suspend_pc' = suspend_pc
       PROVE  WakeLockInv'
  <2>1. WakeLockTypeOK'
    BY <1>1, <1>9, <1>11 DEF WakeLockTypeOK, FlagMap, LinkMap, TimeMap
  <2>2. ArmedInv'
    BY <1>9, <1>11 DEF WakeLockInv, ArmedInv, Armed
  <2> QED BY <1>9, <1>11, <2>1, <2>2 DEF WakeLockInv
<1>12. ASSUME SuspendCheck \/ PmSuspendPolls PROVE WakeLockInv'
  <2>1. CASE SuspendCheck
    BY <1>11, <2>1 DEF SuspendCheck, timer_vars, SuspendPC
  <2>2. CASE PmSuspendPolls
    BY <1>1, <1>11, <2>2 DEF PmSuspendPolls, timer_vars
  <2> QED BY <1>12, <2>1, <2>2
<1>13. ASSUME SuspendStart \/ SuspendEntry \/ PmSuspendReturns \/ SuspendExit
       PROVE  WakeLockInv'
  <2>1. UNCHANGED <<flags, link, left, expire_pending, expire_left, expire_running>>
    BY <1>13 DEF SuspendStart, SuspendEntry, PmSuspendReturns, SuspendExit, timer_vars
  <2>2. /\ suspend_pending' \in BOOLEAN /\ event' \in BOOLEAN /\ suspend_pc' \in SuspendPC
    BY <1>1, <1>13 DEF SuspendStart, SuspendEntry, PmSuspendReturns, SuspendExit, SuspendPC
  <2>3. WakeLockTypeOK'
    BY <1>1, <2>1, <2>2 DEF WakeLockTypeOK, FlagMap, LinkMap, TimeMap
  <2>4. ListInv' /\ TimerInv' /\ ChargeInv'
    BY <2>1 DEF WakeLockInv, ListInv, TimerInv, ChargeInv
  <2>5. ArmedInv'
    BY <1>13, <2>1 DEF WakeLockInv, ArmedInv, Armed, SuspendStart, SuspendEntry,
                       PmSuspendReturns, SuspendExit
  <2> QED BY <2>3, <2>4, <2>5 DEF WakeLockInv
<1>14. ASSUME SuspendNoEvent PROVE WakeLockInv'
  <2>1. /\ LockStep(Unknown, TRUE, UnknownTimeout) /\ suspend_pc' = "idle"
        /\ Unknown \in Lock /\ UnknownTimeout \in Long /\ Unknown \notin IdleLock
    BY <1>14, LongFacts, WakeLockAssumption DEF SuspendNoEvent
  <2>2. /\ flags' \in FlagMap /\ link' \in LinkMap /\ left' \in TimeMap
        /\ expire_pending' \in BOOLEAN /\ expire_left' \in Long
        /\ expire_running' \in BOOLEAN /\ suspend_pending' \in BOOLEAN
        /\ event' \in BOOLEAN
        /\ ListInv' /\ TimerInv' /\ ChargeInv'
    BY <2>1, LockStepInv
  <2>3. Armed'
    BY <2>1, LockStepInv
  <2>4. WakeLockTypeOK'
    BY <1>1, <2>1, <2>2 DEF WakeLockTypeOK, FlagMap, LinkMap, TimeMap, SuspendPC
  <2> QED BY <2>2, <2>3, <2>4 DEF WakeLockInv, ArmedInv
<1>15. CASE UNCHANGED wakelock_vars
  BY <1>15 DEF wakelock_vars, WakeLockInv, WakeLockTypeOK, ListInv, TimerInv, ArmedInv,
               Armed, ChargeInv
<1> QED
  BY <1>3, <1>6, <1>7, <1>8, <1>10, <1>12, <1>13, <1>14, <1>15
     DEF WakeLockNext, TimerStep, SuspendWork

\* The system starts in a state of the inductive invariant.
LEMMA InitInv == WakeLockInit => WakeLockInv
<1> SUFFICES ASSUME WakeLockInit PROVE WakeLockInv
  OBVIOUS
<1>1. WakeLockTypeOK
  BY LongFacts DEF WakeLockInit, WakeLockTypeOK, Flag, SuspendPC
<1>2. ListInv /\ ChargeInv
  BY WakeLockAssumption DEF WakeLockInit, ListInv, ChargeInv
<1>3. Main \in Untimed(flags, link)
  BY WakeLockAssumption DEF WakeLockInit, Untimed, Holding
<1>4. TimerInv /\ ArmedInv
  BY <1>3 DEF TimerInv, ArmedInv, Armed
<1> QED BY <1>1, <1>2, <1>4 DEF WakeLockInv

\* The inductive invariant holds in every state of wakelock.c.
THEOREM InductiveInvariant == WakeLockSpec => []WakeLockInv
BY InitInv, NextInv, PTL DEF WakeLockSpec

\* The variables of wakelock.c keep their types; in particular no remaining
\* time and no timer leaves the range of a long.
THEOREM TypeCorrect == WakeLockSpec => []WakeLockTypeOK
<1>1. WakeLockInv => WakeLockTypeOK
  BY DEF WakeLockInv
<1> QED BY <1>1, InductiveInvariant, PTL

\* wake_lock_active and the list walk of has_wake_lock never disagree.
THEOREM FlagsAgree == WakeLockSpec => []FlagMatchesList
<1>1. WakeLockInv => FlagMatchesList
  <2> SUFFICES ASSUME WakeLockInv, NEW l \in Lock, "INITIALIZED" \in flags[l]
               PROVE  "ACTIVE" \in flags[l] <=> link[l] = "active"
    BY DEF FlagMatchesList
  <2>1. link[l] \in {"inactive", "active"}
    BY DEF WakeLockInv, WakeLockTypeOK, ListInv
  <2> QED BY <2>1 DEF WakeLockInv, ListInv
<1> QED BY <1>1, InductiveInvariant, PTL

\* The expire timer set by wake_lock and wake_unlock covers every timeout.
THEOREM TimerCovers == WakeLockSpec => []TimerCoversTimeouts
<1>1. WakeLockInv => TimerCoversTimeouts
  BY DEF WakeLockInv, TimerInv, TimerCoversTimeouts
<1> QED BY <1>1, InductiveInvariant, PTL

\* When the suspend work is not running the next attempt is provided for.
THEOREM NoLostSuspend == WakeLockSpec => []SuspendNotLost
<1>1. WakeLockInv => SuspendNotLost
  BY DEF WakeLockInv, ArmedInv, SuspendNotLost
<1> QED BY <1>1, InductiveInvariant, PTL

\* Only held locks are charged with sleep time, and only while
\* main_wake_lock is not held.
THEOREM ChargedLocksHeld == WakeLockSpec => []PreventingIsCharged
<1>1. WakeLockInv => PreventingIsCharged
  BY DEF WakeLockInv, ChargeInv, Holding, PreventingIsCharged
<1> QED BY <1>1, InductiveInvariant, PTL

-----------------------------------------------------------------------------
(***************************************************************************)
(* The suspend sequence.                                                   *)
(*                                                                         *)
(* The invariant relates the two things the code keeps apart: where the    *)
(* holder of pm_mutex is, and how many services are down.  Depth gives the *)
(* number for each step; a step of the sequence, the error paths included, *)
(* changes both together.  The globals that hold the clock settings are    *)
(* shared outside pm_mutex; what survives all interleavings is that they   *)
(* are set only while some caller is inside pm_suspend.                    *)
(***************************************************************************)

\* How many services are down when a caller is about to do the step.
Depth == [sync |-> 0, notify |-> 1, helpers |-> 2, freeze |-> 3, printk |-> 4,
          dpm_start |-> 5, platform |-> 6, noirq |-> 7, irqs_off |-> 8, sysdev |-> 9,
          enter |-> 10, asleep |-> 10, sysdev_resume |-> 10, irqs_on |-> 9,
          noirq_resume |-> 8, platform_finish |-> 7, dpm_end |-> 6, printk_on |-> 5,
          thaw |-> 4, helpers_on |-> 3, post |-> 2, restore_console |-> 1, unlock |-> 0]

PC == Section \cup {"idle", "restore"}

\* The holder of pm_mutex is the one caller inside the sequence.
OwnerInv ==
  /\ pc \in [Caller -> PC] /\ owner \in Caller \cup {NoCaller}
  /\ \A c \in Caller : pc[c] \in Section <=> owner = c

\* What is down goes with where the holder is.
DepthInv ==
  /\ \A c \in Caller : owner = c => down = Before(Depth[pc[c]])
  /\ owner = NoCaller => down = {}

QuiesceInv == OwnerInv /\ DepthInv

SomeoneInside == \E c \in Caller : pc[c] # "idle"

\* The clock is fixed only as gbClockFix says, and nothing is set with nobody inside.
ClockInv ==
  /\ clock_fixed => gbClockFix
  /\ gbClockFix \/ userSpaceGovernor \/ g_cpuspeed # 0 => SomeoneInside

-----------------------------------------------------------------------------

\* There are ten services.
LEMMA DepthRange == \A p \in Section : Depth[p] \in 0 .. 10
  BY DEF Depth, Section

\* One more service down: the next of the order.
LEMMA BeforeGrows ==
  ASSUME NEW n \in 0 .. 9
  PROVE  Before(n + 1) = Before(n) \cup {Service[n + 1]}
  <1>1. 1 .. n + 1 = (1 .. n) \cup {n + 1}
    OBVIOUS
  <1> QED BY <1>1 DEF Before

\* One service back: the services are different from each other.
LEMMA BeforeShrinks ==
  ASSUME NEW n \in 0 .. 9
  PROVE  Before(n + 1) \ {Service[n + 1]} = Before(n)
  <1>1. \A i \in 1 .. n : Service[i] # Service[n + 1]
    BY DEF Service
  <1> QED BY <1>1, BeforeGrows DEF Before

\* At depth 0 nothing is down.
LEMMA BeforeNone == Before(0) = {}
  BY DEF Before

-----------------------------------------------------------------------------
(* What one step of the sequence does to the invariant.                    *)

\* The next service is taken away and the caller goes one level deeper.
LEMMA DownKeeps ==
  ASSUME QuiesceInv, NEW c \in Caller, NEW from \in Section, NEW to \in Section,
         Goto(c, from, to), owner' = owner,
         Depth[from] \in 0 .. 9, Depth[to] = Depth[from] + 1,
         down' = down \cup {Service[Depth[to]]}
  PROVE  QuiesceInv'
  <1>1. owner = c /\ down = Before(Depth[from])
    BY DEF QuiesceInv, OwnerInv, DepthInv, Goto
  <1>2. down' = Before(Depth[to])
    BY <1>1, BeforeGrows
  <1>3. OwnerInv'
    BY DEF QuiesceInv, OwnerInv, Goto, PC
  <1>4. DepthInv'
    BY <1>1, <1>2, SuspendAssumption DEF QuiesceInv, OwnerInv, DepthInv, Goto
  <1> QED BY <1>3, <1>4 DEF QuiesceInv

\* The last service taken away comes back.
LEMMA UpKeeps ==
  ASSUME QuiesceInv, NEW c \in Caller, NEW from \in Section, NEW to \in Section,
         Goto(c, from, to), owner' = owner,
         Depth[to] \in 0 .. 9, Depth[from] = Depth[to] + 1,
         down' = down \ {Service[Depth[from]]}
  PROVE  QuiesceInv'
  <1>1. owner = c /\ down = Before(Depth[from])
    BY DEF QuiesceInv, OwnerInv, DepthInv, Goto
  <1>2. down' = Before(Depth[to])
    BY <1>1, BeforeShrinks
  <1>3. OwnerInv'
    BY DEF QuiesceInv, OwnerInv, Goto, PC
  <1>4. DepthInv'
    BY <1>1, <1>2, SuspendAssumption DEF QuiesceInv, OwnerInv, DepthInv, Goto
  <1> QED BY <1>3, <1>4 DEF QuiesceInv

\* The caller jumps to a step of the same depth.
LEMMA StayKeeps ==
  ASSUME QuiesceInv, NEW c \in Caller, NEW from \in Section, NEW to \in Section,
         Goto(c, from, to), owner' = owner, Depth[to] = Depth[from], down' = down
  PROVE  QuiesceInv'
  <1>1. owner = c /\ down = Before(Depth[from])
    BY DEF QuiesceInv, OwnerInv, DepthInv, Goto
  <1>2. OwnerInv'
    BY DEF QuiesceInv, OwnerInv, Goto, PC
  <1>3. DepthInv'
    BY <1>1, SuspendAssumption DEF QuiesceInv, OwnerInv, DepthInv, Goto
  <1> QED BY <1>2, <1>3 DEF QuiesceInv

-----------------------------------------------------------------------------
(* The actions.                                                            *)

\* Each step down of the sequence, and each of its error exits.
LEMMA DownStepKeeps ==
  ASSUME QuiesceInv, NEW c \in Caller, DownStep(c)
  PROVE  QuiesceInv'
  <1>1. CASE PrepareConsole(c)
    BY <1>1, DownKeeps DEF PrepareConsole, TakeDown, Depth, Service, Section
  <1>2. CASE NotifyPrepare(c)
    BY <1>2, DownKeeps DEF NotifyPrepare, Depth, Service, Section
  <1>3. CASE HelpersDisable(c)
    <2>1. CASE TakeDown(c, "helpers", "helpers", "freeze")
      BY <2>1, DownKeeps DEF TakeDown, Depth, Service, Section
    <2>2. CASE Goto(c, "helpers", "post") /\ UNCHANGED <<owner, down>>
      BY <2>2, StayKeeps DEF Depth, Section
    <2> QED BY <1>3, <2>1, <2>2 DEF HelpersDisable
  <1>4. CASE FreezeProcesses(c)
    BY <1>4, DownKeeps DEF FreezeProcesses, Depth, Service, Section
  <1>5. CASE SuspendConsole(c)
    BY <1>5, DownKeeps DEF SuspendConsole, TakeDown, Depth, Service, Section
  <1>6. CASE DpmSuspendStart(c)
    BY <1>6, DownKeeps DEF DpmSuspendStart, Depth, Service, Section
  <1>7. CASE PlatformPrepare(c)
    <2>1. CASE TakeDown(c, "platform", "platform", "noirq")
      BY <2>1, DownKeeps DEF TakeDown, Depth, Service, Section
    <2>2. CASE Drops(c, "platform", "dpm_end")
      BY <2>2, StayKeeps DEF Drops, Depth, Section
    <2> QED BY <1>7, <2>1, <2>2 DEF PlatformPrepare
  <1>8. CASE DpmSuspendNoirq(c)
    <2>1. CASE TakeDown(c, "noirq", "noirq", "irqs_off")
      BY <2>1, DownKeeps DEF TakeDown, Depth, Service, Section
    <2>2. CASE Drops(c, "noirq", "platform_finish")
      BY <2>2, StayKeeps DEF Drops, Depth, Section
    <2> QED BY <1>8, <2>1, <2>2 DEF DpmSuspendNoirq
  <1>9. CASE IrqsDisable(c)
    BY <1>9, DownKeeps DEF IrqsDisable, TakeDown, Depth, Service, Section
  <1>10. CASE SysdevSuspend(c)
    <2>1. CASE TakeDown(c, "sysdev", "sysdev", "enter")
      BY <2>1, DownKeeps DEF TakeDown, Depth, Service, Section
    <2>2. CASE Drops(c, "sysdev", "irqs_on")
      BY <2>2, StayKeeps DEF Drops, Depth, Section
    <2> QED BY <1>10, <2>1, <2>2 DEF SysdevSuspend
  <1>11. CASE PlatformEnter(c)
    BY <1>11, StayKeeps DEF PlatformEnter, Drops, Depth, Section
  <1>12. CASE WakeUp(c)
    BY <1>12, StayKeeps DEF WakeUp, Drops, Depth, Section
  <1> QED BY <1>1, <1>2, <1>3, <1>4, <1>5, <1>6, <1>7, <1>8, <1>9, <1>10, <1>11, <1>12
          DEF DownStep

\* Each step up.
LEMMA UpStepKeeps ==
  ASSUME QuiesceInv, NEW c \in Caller, UpStep(c)
  PROVE  QuiesceInv'
  <1>1. CASE SysdevResume(c)
    BY <1>1, UpKeeps DEF SysdevResume, GiveBack, Depth, Service, Section
  <1>2. CASE IrqsEnable(c)
    BY <1>2, UpKeeps DEF IrqsEnable, GiveBack, Depth, Service, Section
  <1>3. CASE DpmResumeNoirq(c)
    BY <1>3, UpKeeps DEF DpmResumeNoirq, GiveBack, Depth, Service, Section
  <1>4. CASE PlatformFinish(c)
    BY <1>4, UpKeeps DEF PlatformFinish, GiveBack, Depth, Service, Section
  <1>5. CASE DpmResumeEnd(c)
    BY <1>5, UpKeeps DEF DpmResumeEnd, GiveBack, Depth, Service, Section
  <1>6. CASE ResumeConsole(c)
    BY <1>6, UpKeeps DEF ResumeConsole, GiveBack, Depth, Service, Section
  <1>7. CASE ThawProcesses(c)
    BY <1>7, UpKeeps DEF ThawProcesses, GiveBack, Depth, Service, Section
  <1>8. CASE HelpersEnable(c)
    BY <1>8, UpKeeps DEF HelpersEnable, GiveBack, Depth, Service, Section
  <1>9. CASE NotifyPost(c)
    BY <1>9, UpKeeps DEF NotifyPost, GiveBack, Depth, Service, Section
  <1>10. CASE RestoreConsole(c)
    BY <1>10, UpKeeps DEF RestoreConsole, GiveBack, Depth, Service, Section
  <1> QED BY <1>1, <1>2, <1>3, <1>4, <1>5, <1>6, <1>7, <1>8, <1>9, <1>10 DEF UpStep

\* Entering and leaving the sequence.
LEMMA EdgeStepKeeps ==
  ASSUME QuiesceInv, NEW c \in Caller, EnterStep(c) \/ LeaveStep(c)
  PROVE  QuiesceInv'
  <1>1. CASE EnterBusy(c)
    BY <1>1 DEF EnterBusy, QuiesceInv, OwnerInv, DepthInv
  <1>2. CASE EnterState(c)
    <2>1. owner = NoCaller /\ owner' = c /\ down = {} /\ down' = {}
      BY <1>2 DEF EnterState, QuiesceInv, DepthInv
    <2>2. PICK to \in {"sync", "unlock"} : Goto(c, "idle", to)
      BY <1>2 DEF EnterState
    <2>3. pc' \in [Caller -> PC] /\ pc'[c] = to
          /\ \A d \in Caller : d # c => pc'[d] = pc[d]
      BY <2>2 DEF QuiesceInv, OwnerInv, Goto, PC, Section
    <2>4. OwnerInv'
      BY <2>1, <2>3, SuspendAssumption DEF QuiesceInv, OwnerInv, Section
    <2>5. Depth[to] = 0
      BY DEF Depth
    <2>6. DepthInv'
      BY <2>1, <2>3, <2>5, BeforeNone, SuspendAssumption DEF DepthInv
    <2> QED BY <2>4, <2>6 DEF QuiesceInv
  <1>3. CASE Unlock(c)
    <2>1. pc[c] = "unlock" /\ owner' = NoCaller /\ down' = down
      BY <1>3 DEF Unlock, Goto
    <2>2. owner = c
      BY <2>1 DEF QuiesceInv, OwnerInv, Section
    <2>3. down = {}
      BY <2>1, <2>2, BeforeNone DEF QuiesceInv, DepthInv, Depth
    <2>4. PICK to \in {"idle", "restore"} : Goto(c, "unlock", to)
      BY <1>3 DEF Unlock
    <2>5. pc' \in [Caller -> PC] /\ pc'[c] = to
          /\ \A d \in Caller : d # c => pc'[d] = pc[d]
      BY <2>4 DEF QuiesceInv, OwnerInv, Goto, PC
    <2>6. OwnerInv'
      BY <2>1, <2>2, <2>5, SuspendAssumption DEF QuiesceInv, OwnerInv, Section
    <2>7. DepthInv'
      BY <2>1, <2>3, SuspendAssumption DEF DepthInv
    <2> QED BY <2>6, <2>7 DEF QuiesceInv
  <1>4. CASE RestoreSpeed(c)
    <2>1. Goto(c, "restore", "idle") /\ owner' = owner /\ down' = down
      BY <1>4 DEF RestoreSpeed
    <2>2. owner # c
      BY <2>1 DEF QuiesceInv, OwnerInv, Section, Goto
    <2>3. pc' \in [Caller -> PC] /\ pc'[c] = "idle"
          /\ \A d \in Caller : d # c => pc'[d] = pc[d]
      BY <2>1 DEF QuiesceInv, OwnerInv, Goto, PC
    <2>4. OwnerInv'
      BY <2>1, <2>2, <2>3 DEF QuiesceInv, OwnerInv, Section
    <2>5. DepthInv'
      BY <2>1, <2>2, <2>3 DEF QuiesceInv, DepthInv
    <2> QED BY <2>4, <2>5 DEF QuiesceInv
  <1> QED BY <1>1, <1>2, <1>3, <1>4 DEF EnterStep, LeaveStep

-----------------------------------------------------------------------------

\* The services that are down always go with the step of the one caller that
\* holds pm_mutex.
THEOREM QuiesceInvariant == SuspendSpec => []QuiesceInv
  <1>1. SuspendInit => QuiesceInv
    BY SuspendAssumption DEF SuspendInit, QuiesceInv, OwnerInv, DepthInv, PC, Section
  <1>2. QuiesceInv /\ [SuspendNext]_suspend_vars => QuiesceInv'
    <2> SUFFICES ASSUME QuiesceInv, [SuspendNext]_suspend_vars PROVE QuiesceInv'
      OBVIOUS
    <2>1. CASE UserSetsClock
      BY <2>1 DEF UserSetsClock, QuiesceInv, OwnerInv, DepthInv
    <2>2. ASSUME NEW c \in Caller, EnterStep(c) \/ DownStep(c) \/ UpStep(c) \/ LeaveStep(c)
          PROVE  QuiesceInv'
      BY <2>2, DownStepKeeps, UpStepKeeps, EdgeStepKeeps
    <2>3. CASE UNCHANGED suspend_vars
      BY <2>3 DEF suspend_vars, QuiesceInv, OwnerInv, DepthInv
    <2> QED BY <2>1, <2>2, <2>3 DEF SuspendNext
  <1> QED BY <1>1, <1>2, PTL DEF SuspendSpec

\* suspend_ops->enter puts the platform to sleep only when every service is down,
\* whatever step failed before.
THEOREM SleepIsQuiesced == SuspendSpec => []SleepsOnlyQuiesced
  <1>1. QuiesceInv => SleepsOnlyQuiesced
    <2> SUFFICES ASSUME QuiesceInv, NEW c \in Caller, pc[c] = "asleep"
                 PROVE  down = {Service[i] : i \in DOMAIN Service}
      BY DEF SleepsOnlyQuiesced
    <2>1. down = Before(10)
      BY DEF QuiesceInv, OwnerInv, DepthInv, Section, Depth
    <2>2. DOMAIN Service = 1 .. 10
      BY DEF Service
    <2> QED BY <2>1, <2>2 DEF Before
  <1> QED BY <1>1, QuiesceInvariant, PTL

\* Services come back in the opposite of the order in which they were taken away.
THEOREM UnwindingIsNested == SuspendSpec => []NestedUnwinding
  <1>1. QuiesceInv => NestedUnwinding
    <2> SUFFICES ASSUME QuiesceInv PROVE NestedUnwinding
      OBVIOUS
    <2>1. CASE owner = NoCaller
      BY <2>1, BeforeNone DEF QuiesceInv, DepthInv, NestedUnwinding
    <2>2. CASE owner \in Caller
      <3>1. pc[owner] \in Section /\ down = Before(Depth[pc[owner]])
        BY <2>2 DEF QuiesceInv, OwnerInv, DepthInv
      <3> QED BY <3>1, DepthRange DEF NestedUnwinding
    <2> QED BY <2>1, <2>2 DEF QuiesceInv, OwnerInv
  <1> QED BY <1>1, QuiesceInvariant, PTL

-----------------------------------------------------------------------------
(* The clock settings.                                                     *)

\* A step inside the sequence leaves the clock alone.
LEMMA MoveKeepsClock ==
  ASSUME OwnerInv, ClockInv, NEW c \in Caller, NEW from, NEW to, Goto(c, from, to),
         to # "idle", UNCHANGED <<clock_fixed, gbClockFix, userSpaceGovernor, g_cpuspeed>>
  PROVE  ClockInv'
  <1>1. pc'[c] = to
    BY DEF OwnerInv, Goto
  <1>2. SomeoneInside'
    BY <1>1 DEF SomeoneInside
  <1> QED BY <1>2 DEF ClockInv

\* So do all steps between the two ends of enter_state.
LEMMA SequenceKeepsClock ==
  ASSUME OwnerInv, ClockInv, NEW c \in Caller, DownStep(c) \/ UpStep(c)
  PROVE  ClockInv'
  <1>1. UNCHANGED <<clock_fixed, gbClockFix, userSpaceGovernor, g_cpuspeed>>
    BY DEF DownStep, UpStep, PrepareConsole, NotifyPrepare, HelpersDisable, FreezeProcesses,
           SuspendConsole, DpmSuspendStart, PlatformPrepare, DpmSuspendNoirq, IrqsDisable,
           SysdevSuspend, PlatformEnter, WakeUp, SysdevResume, IrqsEnable, DpmResumeNoirq,
           PlatformFinish, DpmResumeEnd, ResumeConsole, ThawProcesses, HelpersEnable,
           NotifyPost, RestoreConsole, TakeDown, GiveBack, Drops, clock_vars
  <1>2. \E from, to : Goto(c, from, to) /\ to # "idle"
    <2>1. CASE DownStep(c)
      BY <2>1 DEF DownStep, PrepareConsole, NotifyPrepare, HelpersDisable, FreezeProcesses,
           SuspendConsole, DpmSuspendStart, PlatformPrepare, DpmSuspendNoirq, IrqsDisable,
           SysdevSuspend, PlatformEnter, WakeUp, TakeDown, Drops
    <2>2. CASE UpStep(c)
      BY <2>2 DEF UpStep, SysdevResume, IrqsEnable, DpmResumeNoirq, PlatformFinish,
           DpmResumeEnd, ResumeConsole, ThawProcesses, HelpersEnable, NotifyPost,
           RestoreConsole, GiveBack
    <2> QED BY <2>1, <2>2
  <1> QED BY <1>1, <1>2, MoveKeepsClock

\* Who enters is inside; who leaves resets everything, what another caller has set
\* meanwhile included.
LEMMA EdgeKeepsClock ==
  ASSUME OwnerInv, ClockInv, NEW c \in Caller, EnterStep(c) \/ LeaveStep(c)
  PROVE  ClockInv'
  <1>1. ASSUME Leave(c) PROVE ClockInv'
    BY <1>1 DEF Leave, UnfixClock, ClockInv
  <1>2. CASE EnterBusy(c)
    BY <1>2 DEF EnterBusy, clock_vars, ClockInv, SomeoneInside
  <1>3. CASE EnterState(c)
    <2>1. SomeoneInside'
      BY <1>3 DEF EnterState, Goto, SomeoneInside, OwnerInv
    <2>2. clock_fixed' => gbClockFix'
      <3>1. gbClockFix' \/ ((clock_fixed' <=> clock_fixed) /\ (gbClockFix' <=> gbClockFix))
        BY <1>3 DEF EnterState, SaveSpeed, FixClock, LeaveClock
      <3>2. clock_fixed => gbClockFix
        BY DEF ClockInv
      <3> QED BY <3>1, <3>2
    <2> QED BY <2>1, <2>2 DEF ClockInv
  <1>4. CASE Unlock(c)
    <2>1. \/ Leave(c)
          \/ /\ Goto(c, "unlock", "restore")
             /\ UNCHANGED <<clock_fixed, gbClockFix, userSpaceGovernor, g_cpuspeed>>
      BY <1>4 DEF Unlock
    <2> QED BY <1>1, <2>1, MoveKeepsClock
  <1>5. CASE RestoreSpeed(c)
    BY <1>1, <1>5 DEF RestoreSpeed
  <1> QED BY <1>2, <1>3, <1>4, <1>5 DEF EnterStep, LeaveStep

\* The clock settings are there only while a caller is inside pm_suspend.
THEOREM ClockInvariant == SuspendSpec => []ClockInv
  <1>1. SuspendInit => ClockInv
    BY DEF SuspendInit, ClockInv
  <1>2. OwnerInv /\ ClockInv /\ [SuspendNext]_suspend_vars => ClockInv'
    <2> SUFFICES ASSUME OwnerInv, ClockInv, [SuspendNext]_suspend_vars PROVE ClockInv'
      OBVIOUS
    <2>1. CASE UserSetsClock
      BY <2>1 DEF UserSetsClock, ClockInv, SomeoneInside
    <2>2. ASSUME NEW c \in Caller, EnterStep(c) \/ DownStep(c) \/ UpStep(c) \/ LeaveStep(c)
          PROVE  ClockInv'
      BY <2>2, SequenceKeepsClock, EdgeKeepsClock
    <2>3. CASE UNCHANGED suspend_vars
      BY <2>3 DEF suspend_vars, clock_vars, ClockInv, SomeoneInside
    <2> QED BY <2>1, <2>2, <2>3 DEF SuspendNext
  <1>3. QuiesceInv => OwnerInv
    BY DEF QuiesceInv
  <1> QED BY <1>1, <1>2, <1>3, QuiesceInvariant, PTL DEF SuspendSpec

\* When pm_mutex is free nothing is left frozen, disabled or suspended, and when
\* nobody is inside pm_suspend the clock settings are gone.
THEOREM NothingLeftDown == SuspendSpec => []AllGivenBack
  <1>1. QuiesceInv /\ ClockInv => AllGivenBack
    BY DEF QuiesceInv, DepthInv, ClockInv, SomeoneInside, AllGivenBack
  <1> QED BY <1>1, QuiesceInvariant, ClockInvariant, PTL

-----------------------------------------------------------------------------
(***************************************************************************)
(* The composition implements wake locks, early suspend and the suspend    *)
(* sequence, so what is proved of them holds in it; and the device sleeps  *)
(* only with the screen off and no lock held that power_suspend_late could *)
(* have seen.                                                              *)
(***************************************************************************)

\* The instance Early once more, with its theorems.
EarlyP == INSTANCE EarlySuspendProofs WITH
  main_held <- "ACTIVE" \in flags[Main], sync_held <- "ACTIVE" \in flags[Sync]

-----------------------------------------------------------------------------
(* The two instances of EarlySuspend define the same specification.        *)

\* The same handlers are registered.
LEMMA SameRegistered == Early!Registered = EarlyP!Registered
  BY DEF Early!Registered, EarlyP!Registered

\* The same initial states.
LEMMA SameInit == Early!EarlySuspendInit <=> EarlyP!EarlySuspendInit
  BY DEF Early!EarlySuspendInit, EarlyP!EarlySuspendInit

\* The same steps.
LEMMA SameNext == Early!EarlySuspendNext <=> EarlyP!EarlySuspendNext
<1> USE DEF Early!Registered, EarlyP!Registered, Early!REQUESTED, EarlyP!REQUESTED,
    Early!SUSPENDED, EarlyP!SUSPENDED, Early!LockFree, EarlyP!LockFree,
    Early!NoWalk, EarlyP!NoWalk
<1>1. Early!HandlerStep <=> EarlyP!HandlerStep
  BY DEF Early!HandlerStep, EarlyP!HandlerStep, Early!register_early_suspend,
    EarlyP!register_early_suspend, Early!RegisterCalls, EarlyP!RegisterCalls,
    Early!unregister_early_suspend, EarlyP!unregister_early_suspend, Early!InsertPlace, EarlyP!InsertPlace,
    Early!InsertAt, EarlyP!InsertAt, Early!RemoveAt, EarlyP!RemoveAt
<1>2. Early!request_suspend_state <=> EarlyP!request_suspend_state
  BY DEF Early!request_suspend_state, EarlyP!request_suspend_state, Early!RequestSleep,
    EarlyP!RequestSleep, Early!RequestOn, EarlyP!RequestOn
<1>3. Early!sync_system <=> EarlyP!sync_system
  BY DEF Early!sync_system, EarlyP!sync_system
<1>4. /\ Early!EarlySuspendStart <=> EarlyP!EarlySuspendStart
      /\ Early!EarlySuspendCheck <=> EarlyP!EarlySuspendCheck
      /\ Early!EarlySuspendCall <=> EarlyP!EarlySuspendCall
      /\ Early!EarlySuspendSync <=> EarlyP!EarlySuspendSync
      /\ Early!EarlySuspendEnd <=> EarlyP!EarlySuspendEnd
  BY DEF Early!EarlySuspendStart, EarlyP!EarlySuspendStart, Early!EarlySuspendCheck,
    EarlyP!EarlySuspendCheck, Early!EarlySuspendCall, EarlyP!EarlySuspendCall,
    Early!EarlySuspendSync, EarlyP!EarlySuspendSync, Early!EarlySuspendEnd,
    EarlyP!EarlySuspendEnd
<1>5. /\ Early!LateResumeStart <=> EarlyP!LateResumeStart
      /\ Early!LateResumeCheck <=> EarlyP!LateResumeCheck
      /\ Early!LateResumeCall <=> EarlyP!LateResumeCall
      /\ Early!LateResumeEnd <=> EarlyP!LateResumeEnd
  BY DEF Early!LateResumeStart, EarlyP!LateResumeStart, Early!LateResumeCheck,
    EarlyP!LateResumeCheck, Early!LateResumeCall, EarlyP!LateResumeCall,
    Early!LateResumeEnd, EarlyP!LateResumeEnd
<1> QED BY <1>1, <1>2, <1>3, <1>4, <1>5 DEF Early!EarlySuspendNext, EarlyP!EarlySuspendNext,
  Early!WorkerStep, EarlyP!WorkerStep

\* The same behaviours.
LEMMA SameSpec == Early!EarlySuspendSpec => EarlyP!EarlySuspendSpec
<1>1. [Early!EarlySuspendNext]_Early!early_vars => [EarlyP!EarlySuspendNext]_EarlyP!early_vars
  BY SameNext DEF Early!early_vars, EarlyP!early_vars
<1> QED BY <1>1, SameInit, PTL DEF Early!EarlySuspendSpec, EarlyP!EarlySuspendSpec

-----------------------------------------------------------------------------
(* Wake locks and the suspend sequence.                                    *)

\* Every step is one of wakelock.c, or leaves the wake locks alone.
LEMMA WakeLockRefined == PowerNext => WakeLockNext \/ UNCHANGED wakelock_vars
<1> SUFFICES ASSUME PowerNext PROVE WakeLockNext \/ UNCHANGED wakelock_vars
  OBVIOUS
<1> USE DEF WakeLockNext
<1>1. CASE Boot
  BY <1>1, PowerAssumption DEF Boot, WakeLocksOnly, DriverStep, DriverLock
<1>2. CASE TimePasses
  BY <1>2 DEF TimePasses, WakeLocksOnly
<1>3. CASE HandlersChange \/ UserClock
  BY <1>3 DEF HandlersChange, UserClock
<1>4. ASSUME NEW l \in DriverLock \ {Sync}, DriverLocks(l)
      PROVE  WakeLockNext
  BY <1>4 DEF DriverLocks, WakeLocksOnly, DriverStep, DriverTimeout
<1>5. ASSUME NEW s \in {"on", "mem"}, request_suspend_state(s)
      PROVE  WakeLockNext \/ UNCHANGED wakelock_vars
  BY <1>5 DEF request_suspend_state, MainStep
<1>6. CASE EarlyWork
  BY <1>6 DEF EarlyWork, MainStep
<1>7. CASE SyncWork
  BY <1>7, PowerAssumption DEF SyncWork, DriverStep, DriverLock
<1>8. CASE SuspendWorkStep \/ PmSuspendInvalid
  BY <1>8 DEF SuspendWorkStep, PmSuspendInvalid, WakeLocksOnly, SuspendWork
<1>9. ASSUME NEW c \in Caller, SuspendCallStep(c)
      PROVE  WakeLockNext \/ UNCHANGED wakelock_vars
  BY <1>9 DEF SuspendCallStep, PmSuspendCalled, Freezing, SuspendLate, SequenceStep,
              PmSuspendLeaves, SuspendWork, PmSuspendPolls
<1> QED BY <1>1, <1>2, <1>3, <1>4, <1>5, <1>6, <1>7, <1>8, <1>9 DEF PowerNext

\* Every step is one of pm_suspend, or leaves it alone.
LEMMA SuspendRefined == PowerNext => SuspendNext \/ UNCHANGED suspend_vars
<1> SUFFICES ASSUME PowerNext PROVE SuspendNext \/ UNCHANGED suspend_vars
  OBVIOUS
<1>1. CASE Boot \/ TimePasses \/ HandlersChange
  BY <1>1 DEF Boot, TimePasses, HandlersChange, WakeLocksOnly
<1>2. CASE UserClock
  BY <1>2 DEF UserClock, SuspendNext
<1>3. ASSUME NEW l \in DriverLock \ {Sync}, DriverLocks(l)
      PROVE  UNCHANGED suspend_vars
  BY <1>3 DEF DriverLocks, WakeLocksOnly
<1>4. ASSUME NEW s \in {"on", "mem"}, request_suspend_state(s)
      PROVE  UNCHANGED suspend_vars
  BY <1>4 DEF request_suspend_state
<1>5. CASE EarlyWork \/ SyncWork \/ SuspendWorkStep \/ PmSuspendInvalid
  BY <1>5 DEF EarlyWork, SyncWork, SuspendWorkStep, PmSuspendInvalid, WakeLocksOnly
<1>6. ASSUME NEW c \in Caller, SuspendCallStep(c)
      PROVE  SuspendNext
  BY <1>6 DEF SuspendCallStep, PmSuspendCalled, Freezing, SuspendLate, SequenceStep,
              PmSuspendLeaves, SuspendNext, EnterStep, DownStep
<1> QED BY <1>1, <1>2, <1>3, <1>4, <1>5, <1>6 DEF PowerNext

-----------------------------------------------------------------------------
(* main_wake_lock and sync_wake_lock are never taken with a timeout.       *)

Permanent == {Main, Sync}

\* Neither of the two locks can expire, and neither is active before wakelocks_init.
PermanentInv ==
  \A m \in Permanent : /\ "AUTO_EXPIRE" \notin flags[m]
                       /\ "ACTIVE" \in flags[m] => "INITIALIZED" \in flags[m]

\* What a step leaves of the flags of a lock it does not name.
FlagsKept(m) == \A b \in Flag \ {"PREVENTING_SUSPEND"} : b \in flags'[m] <=> b \in flags[m]

\* The two locks block suspend and are different from each other and from unknown_wakeup.
LEMMA PermanentLocks == Permanent \subseteq Lock \ (IdleLock \cup {Unknown}) /\ Main # Sync
  BY WakeLockAssumption, PowerAssumption DEF Permanent

\* A walk does not touch a lock without timeout.
LEMMA WalkSpares ==
  ASSUME NEW f \in FlagMap, NEW k \in LinkMap, NEW t \in TimeMap,
         NEW m \in Lock \ IdleLock, "AUTO_EXPIRE" \notin f[m]
  PROVE  WalkFlags(f, k, t)[m] = f[m]
  BY DEF WalkFlags, Due, Untimed, Holding

\* Taking another lock, however long, keeps the flags of a lock without timeout.
LEMMA LockSpares ==
  ASSUME WakeLockInv, NEW l \in Lock, NEW h \in BOOLEAN, NEW d \in Long, LockStep(l, h, d),
         NEW m \in Lock \ IdleLock, m # l, "AUTO_EXPIRE" \notin flags[m]
  PROVE  FlagsKept(m)
<1> DEFINE f == [flags EXCEPT ![l] = LockFlags(l, h)]
           k == [link EXCEPT ![l] = "active"]
           t == [left EXCEPT ![l] = IF h THEN d ELSE 0]
           s == StatFlags(l, f, k, t)
<1>1. flags \in FlagMap /\ link \in LinkMap /\ left \in TimeMap
  BY DEF WakeLockInv, WakeLockTypeOK, FlagMap, LinkMap, TimeMap
<1>2. LockFlags(l, h) \in SUBSET Flag
  BY <1>1 DEF LockFlags, UnlockStat, FlagMap, Flag
<1>3. f \in FlagMap /\ k \in LinkMap /\ t \in TimeMap /\ f[m] = flags[m]
  BY <1>1, <1>2, LongFacts DEF FlagMap, LinkMap, TimeMap
<1>4. /\ s \in FlagMap
      /\ \A b \in Flag \ {"PREVENTING_SUSPEND"} : b \in s[m] <=> b \in f[m]
  <2> HIDE DEF f, k, t
  <2> QED BY <1>3, StatFacts
<1>5. WalkFlags(s, k, t)[m] = s[m]
  <2>1. "AUTO_EXPIRE" \notin s[m]
    BY <1>3, <1>4 DEF Flag
  <2> HIDE DEF f, k, t, s
  <2> QED BY <1>3, <1>4, <2>1, WalkSpares
<1>6. flags' \in {f, WalkFlags(s, k, t)}
  BY DEF LockStep
<1> QED BY <1>3, <1>4, <1>5, <1>6 DEF FlagsKept

\* So does releasing another lock.
LEMMA UnlockSpares ==
  ASSUME WakeLockInv, NEW l \in Lock, wake_unlock(l),
         NEW m \in Lock \ IdleLock, m # l, "AUTO_EXPIRE" \notin flags[m]
  PROVE  FlagsKept(m)
<1> DEFINE f == [flags EXCEPT ![l] = UnlockStat(@) \ ClearOnUnlock]
           k == [link EXCEPT ![l] = "inactive"]
           t == [left EXCEPT ![l] = 0]
           fw == WalkFlags(f, k, t)
           kw == WalkLink(f, k, t)
           tw == WalkLeft(f, k, t)
<1>1. flags \in FlagMap /\ link \in LinkMap /\ left \in TimeMap
  BY DEF WakeLockInv, WakeLockTypeOK, FlagMap, LinkMap, TimeMap
<1>2. f \in FlagMap /\ k \in LinkMap /\ t \in TimeMap /\ f[m] = flags[m]
  BY <1>1, LongFacts DEF FlagMap, LinkMap, TimeMap, UnlockStat
<1>3. fw \in FlagMap /\ kw \in LinkMap /\ tw \in TimeMap /\ fw[m] = f[m]
  <2> HIDE DEF f, k, t
  <2> QED BY <1>2, WalkFacts, WalkSpares
<1>4. \A b \in Flag \ {"PREVENTING_SUSPEND"} : b \in MarkPreventing(fw, kw, tw)[m] <=> b \in fw[m]
  BY <1>3, StatFacts
<1>5. flags' \in {f, fw, MarkPreventing(fw, kw, tw)}
  BY DEF wake_unlock
<1> QED BY <1>2, <1>3, <1>4, <1>5 DEF FlagsKept

\* So does a poll of the held locks.
LEMMA PollSpares ==
  ASSUME WakeLockInv, has_wake_lock,
         NEW m \in Lock \ IdleLock, "AUTO_EXPIRE" \notin flags[m]
  PROVE  FlagsKept(m)
<1>1. flags \in FlagMap /\ link \in LinkMap /\ left \in TimeMap
  BY DEF WakeLockInv, WakeLockTypeOK, FlagMap, LinkMap, TimeMap
<1> QED BY <1>1, WalkSpares DEF has_wake_lock, FlagsKept

\* wake_lock leaves the lock itself active and without timeout.
LEMMA LockSelf ==
  ASSUME WakeLockInv, NEW m \in Lock \ IdleLock, wake_lock(m)
  PROVE  "AUTO_EXPIRE" \notin flags'[m] /\ {"ACTIVE", "INITIALIZED"} \subseteq flags'[m]
<1> DEFINE f == [flags EXCEPT ![m] = LockFlags(m, FALSE)]
           k == [link EXCEPT ![m] = "active"]
           t == [left EXCEPT ![m] = 0]
           s == StatFlags(m, f, k, t)
<1>1. flags \in FlagMap /\ link \in LinkMap /\ left \in TimeMap /\ "INITIALIZED" \in flags[m]
  BY DEF WakeLockInv, WakeLockTypeOK, FlagMap, LinkMap, TimeMap, wake_lock, LockStep
<1>2. /\ LockFlags(m, FALSE) \in SUBSET Flag /\ "AUTO_EXPIRE" \notin LockFlags(m, FALSE)
      /\ {"ACTIVE", "INITIALIZED"} \subseteq LockFlags(m, FALSE)
  BY <1>1 DEF LockFlags, UnlockStat, FlagMap, Flag
<1>3. f \in FlagMap /\ k \in LinkMap /\ t \in TimeMap /\ f[m] = LockFlags(m, FALSE)
  BY <1>1, <1>2, LongFacts DEF FlagMap, LinkMap, TimeMap
<1>4. /\ s \in FlagMap
      /\ \A b \in Flag \ {"PREVENTING_SUSPEND"} : b \in s[m] <=> b \in f[m]
  <2> HIDE DEF f, k, t
  <2> QED BY <1>3, StatFacts
<1>5. WalkFlags(s, k, t)[m] = s[m]
  <2>1. "AUTO_EXPIRE" \notin s[m]
    BY <1>2, <1>3, <1>4 DEF Flag
  <2> HIDE DEF f, k, t, s
  <2> QED BY <1>3, <1>4, <2>1, WalkSpares
<1>6. flags' = WalkFlags(s, k, t)
  BY DEF wake_lock, LockStep
<1> QED BY <1>2, <1>3, <1>4, <1>5, <1>6 DEF Flag

\* wake_unlock clears both flags of the lock itself.
LEMMA UnlockSelf ==
  ASSUME WakeLockInv, NEW m \in Lock \ IdleLock, wake_unlock(m)
  PROVE  {"AUTO_EXPIRE", "ACTIVE"} \cap flags'[m] = {} /\ "INITIALIZED" \in flags'[m]
<1> DEFINE f == [flags EXCEPT ![m] = UnlockStat(@) \ ClearOnUnlock]
           k == [link EXCEPT ![m] = "inactive"]
           t == [left EXCEPT ![m] = 0]
           fw == WalkFlags(f, k, t)
           kw == WalkLink(f, k, t)
           tw == WalkLeft(f, k, t)
<1>1. flags \in FlagMap /\ link \in LinkMap /\ left \in TimeMap /\ "INITIALIZED" \in flags[m]
  BY DEF WakeLockInv, WakeLockTypeOK, FlagMap, LinkMap, TimeMap, wake_unlock
<1>2. /\ f \in FlagMap /\ k \in LinkMap /\ t \in TimeMap
      /\ {"AUTO_EXPIRE", "ACTIVE"} \cap f[m] = {} /\ "INITIALIZED" \in f[m]
  BY <1>1, LongFacts DEF FlagMap, LinkMap, TimeMap, UnlockStat, ClearOnUnlock
<1>3. fw \in FlagMap /\ kw \in LinkMap /\ tw \in TimeMap /\ fw[m] = f[m]
  <2> HIDE DEF f, k, t
  <2> QED BY <1>2, WalkFacts, WalkSpares
<1>4. \A b \in Flag \ {"PREVENTING_SUSPEND"} : b \in MarkPreventing(fw, kw, tw)[m] <=> b \in fw[m]
  BY <1>3, StatFacts
<1>5. flags' \in {fw, MarkPreventing(fw, kw, tw)}
  BY DEF wake_unlock
<1> QED BY <1>2, <1>3, <1>4, <1>5 DEF Flag

\* No operation on another lock, by a driver or by early suspend, changes them.
LEMMA OthersSpare ==
  ASSUME WakeLockInv, PermanentInv, NEW m \in Permanent, NEW l \in Lock, l # m,
         \/ wake_lock_init(l) \/ wake_lock_destroy(l) \/ wake_lock(l) \/ wake_unlock(l)
         \/ \E t \in Timeouts : wake_lock_timeout(l, t)
  PROVE  FlagsKept(m)
<1>1. m \in Lock \ IdleLock /\ "AUTO_EXPIRE" \notin flags[m]
  BY PermanentLocks DEF PermanentInv
<1>2. flags \in [Lock -> SUBSET Flag]
  BY DEF WakeLockInv, WakeLockTypeOK
<1>3. CASE wake_lock_init(l) \/ wake_lock_destroy(l)
  BY <1>1, <1>2, <1>3 DEF wake_lock_init, wake_lock_destroy, FlagsKept
<1>4. CASE wake_lock(l)
  BY <1>1, <1>4, LockSpares, LongFacts DEF wake_lock
<1>5. CASE wake_unlock(l)
  BY <1>1, <1>5, UnlockSpares
<1>6. CASE \E t \in Timeouts : wake_lock_timeout(l, t)
  <2>1. PICK t \in Timeouts : LockStep(l, TRUE, t)
    BY <1>6 DEF wake_lock_timeout
  <2>2. t \in Long
    BY WakeLockAssumption
  <2> QED BY <1>1, <2>1, <2>2, LockSpares
<1> QED BY <1>3, <1>4, <1>5, <1>6

\* Nor do time, the timer, the suspend work and the polls of pm_suspend.
LEMMA WorkSpares ==
  ASSUME WakeLockInv, PermanentInv, NEW m \in Permanent,
         Tick \/ TimerStep \/ SuspendWork \/ has_wake_lock \/ UNCHANGED flags
  PROVE  FlagsKept(m)
<1>1. m \in Lock \ IdleLock /\ m # Unknown /\ "AUTO_EXPIRE" \notin flags[m]
  BY PermanentLocks DEF PermanentInv
<1>2. CASE UNCHANGED flags
  BY <1>2 DEF FlagsKept
<1>3. CASE has_wake_lock
  BY <1>1, <1>3, PollSpares
<1>4. CASE SuspendNoEvent
  BY <1>1, <1>4, LockSpares, LongFacts, WakeLockAssumption DEF SuspendNoEvent
<1>5. CASE Tick \/ TimerStep
  BY <1>2, <1>3, <1>5 DEF Tick, TimerStep, ExpireTimerFires, expire_wake_locks
<1>6. CASE SuspendWork
  BY <1>2, <1>3, <1>4, <1>6 DEF SuspendWork, SuspendStart, SuspendCheck, SuspendEntry,
    PmSuspendReturns, SuspendExit
<1> QED BY <1>2, <1>3, <1>5, <1>6

\* What the steps that spare both locks leave of them, seen from early suspend.
LEMMA KeptMeans ==
  ASSUME PermanentInv, \A m \in Permanent : FlagsKept(m)
  PROVE  /\ PermanentInv'
         /\ "ACTIVE" \in flags'[Main] <=> "ACTIVE" \in flags[Main]
         /\ "ACTIVE" \in flags'[Sync] <=> "ACTIVE" \in flags[Sync]
  BY DEF FlagsKept, PermanentInv, Flag, Permanent

\* Every step is one of earlysuspend.c or leaves early suspend and its two locks alone.
LEMMA EarlyRefined ==
  ASSUME WakeLockInv, PermanentInv, PowerNext
  PROVE  PermanentInv' /\ (Early!EarlySuspendNext \/ UNCHANGED Early!early_vars)
<1>0. Main \in Permanent /\ Sync \in Permanent /\ Permanent \subseteq Lock \ IdleLock /\ Main # Sync
  BY PermanentLocks DEF Permanent
<1>1. ASSUME \A m \in Permanent : FlagsKept(m), UNCHANGED early_own_vars
      PROVE  PermanentInv' /\ UNCHANGED Early!early_vars
  BY <1>1, KeptMeans DEF early_own_vars, Early!early_vars
<1>2. CASE Boot
  <2>1. wake_lock_init(Sync) /\ UNCHANGED early_own_vars /\ flags \in [Lock -> SUBSET Flag]
    BY <1>2 DEF Boot, WakeLocksOnly, WakeLockInv, WakeLockTypeOK
  <2>2. FlagsKept(Main)
    BY <1>0, <2>1, OthersSpare
  <2>3. flags'[Sync] = {"INITIALIZED"} /\ "ACTIVE" \notin flags[Sync]
    BY <1>0, <2>1 DEF wake_lock_init, PermanentInv
  <2>4. PermanentInv'
    BY <2>2, <2>3 DEF FlagsKept, PermanentInv, Permanent, Flag
  <2>5. "ACTIVE" \in flags'[Main] <=> "ACTIVE" \in flags[Main]
    BY <2>2 DEF FlagsKept, Flag
  <2>6. "ACTIVE" \in flags'[Sync] <=> "ACTIVE" \in flags[Sync]
    BY <2>3
  <2> QED BY <2>1, <2>4, <2>5, <2>6 DEF early_own_vars, Early!early_vars
<1>3. CASE TimePasses
  BY <1>1, <1>3, WorkSpares DEF TimePasses, WakeLocksOnly
<1>4. CASE HandlersChange
  <2>1. \A m \in Permanent : FlagsKept(m)
    BY <1>4 DEF HandlersChange, wakelock_vars, FlagsKept
  <2> QED BY <1>4, <2>1, KeptMeans DEF HandlersChange, Early!EarlySuspendNext
<1>5. CASE UserClock
  BY <1>1, <1>5, WorkSpares DEF UserClock, wakelock_vars
<1>6. ASSUME NEW l \in DriverLock \ {Sync}, DriverLocks(l)
      PROVE  PermanentInv' /\ UNCHANGED Early!early_vars
  <2>1. l \in Lock /\ l \notin Permanent
    BY DEF DriverLock, Permanent
  <2> QED BY <1>1, <1>6, <2>1, OthersSpare DEF DriverLocks, WakeLocksOnly
<1>7. ASSUME NEW s \in {"on", "mem"}, request_suspend_state(s)
      PROVE  PermanentInv' /\ (Early!EarlySuspendNext \/ UNCHANGED Early!early_vars)
  <2>1. CASE UNCHANGED wakelock_vars
    <3>1. \A m \in Permanent : FlagsKept(m)
      BY <2>1 DEF wakelock_vars, FlagsKept
    <3>2. CASE UNCHANGED early_own_vars
      BY <1>1, <3>1, <3>2
    <3>3. CASE Early!request_suspend_state
      BY <3>1, <3>3, KeptMeans DEF Early!EarlySuspendNext
    <3> QED BY <1>7, <3>2, <3>3 DEF request_suspend_state
  <2>2. CASE wake_lock(Main) /\ Early!request_suspend_state
    <3>1. FlagsKept(Sync)
      BY <1>0, <2>2, OthersSpare
    <3>2. "AUTO_EXPIRE" \notin flags'[Main] /\ {"ACTIVE", "INITIALIZED"} \subseteq flags'[Main]
      BY <1>0, <2>2, LockSelf
    <3>3. PermanentInv'
      BY <3>1, <3>2 DEF FlagsKept, PermanentInv, Permanent, Flag
    <3> QED BY <2>2, <3>3 DEF Early!EarlySuspendNext
  <2> QED BY <1>7, <2>1, <2>2 DEF request_suspend_state
<1>8. CASE EarlyWork
  <2>1. Early!EarlySuspendNext
    BY <1>8 DEF EarlyWork, Early!EarlySuspendNext
  <2>2. CASE UNCHANGED wakelock_vars
    BY <2>1, <2>2, WorkSpares, KeptMeans DEF wakelock_vars
  <2>3. CASE wake_unlock(Main)
    <3>1. FlagsKept(Sync)
      BY <1>0, <2>3, OthersSpare
    <3>2. {"AUTO_EXPIRE", "ACTIVE"} \cap flags'[Main] = {} /\ "INITIALIZED" \in flags'[Main]
      BY <1>0, <2>3, UnlockSelf
    <3> QED BY <2>1, <3>1, <3>2 DEF FlagsKept, PermanentInv, Permanent, Flag
  <2> QED BY <1>8, <2>2, <2>3 DEF EarlyWork
<1>9. CASE SyncWork
  <2>1. Early!EarlySuspendNext
    BY <1>9 DEF SyncWork, Early!EarlySuspendNext
  <2>2. FlagsKept(Main)
    BY <1>0, <1>9, OthersSpare DEF SyncWork
  <2>3. "AUTO_EXPIRE" \notin flags'[Sync] /\ "INITIALIZED" \in flags'[Sync]
    BY <1>0, <1>9, LockSelf, UnlockSelf DEF SyncWork
  <2> QED BY <2>1, <2>2, <2>3 DEF FlagsKept, PermanentInv, Permanent, Flag
<1>10. CASE SuspendWorkStep \/ PmSuspendInvalid
  BY <1>1, <1>10, WorkSpares DEF SuspendWorkStep, PmSuspendInvalid, WakeLocksOnly, SuspendWork
<1>11. ASSUME NEW c \in Caller, SuspendCallStep(c)
       PROVE  PermanentInv' /\ UNCHANGED Early!early_vars
  <2>1. UNCHANGED early_own_vars
    BY <1>11 DEF SuspendCallStep, PmSuspendCalled, Freezing, SuspendLate, SequenceStep,
                 PmSuspendLeaves
  <2>2. SuspendWork \/ has_wake_lock \/ UNCHANGED flags
    BY <1>11 DEF SuspendCallStep, PmSuspendCalled, Freezing, SuspendLate, SequenceStep,
                 PmSuspendLeaves, SuspendWork, wakelock_vars
  <2> QED BY <1>1, <2>1, <2>2, WorkSpares
<1> QED BY <1>2, <1>3, <1>4, <1>5, <1>6, <1>7, <1>8, <1>9, <1>10, <1>11 DEF PowerNext

-----------------------------------------------------------------------------
(* The composition implements its components.                              *)

\* PermanentInv holds in every reachable state.
THEOREM PermanentInvariant == PowerSpec => [](WakeLockInv /\ PermanentInv)
<1>1. PowerInit => WakeLockInv /\ PermanentInv
  <2>1. PowerInit => WakeLockInv
    BY InitInv DEF PowerInit
  <2>2. PowerInit => PermanentInv
    BY WakeLockAssumption, PowerAssumption DEF PowerInit, WakeLockInit, PermanentInv, Permanent
  <2> QED BY <2>1, <2>2
<1>2. WakeLockInv /\ PermanentInv /\ [PowerNext]_power_vars => (WakeLockInv /\ PermanentInv)'
  <2> SUFFICES ASSUME WakeLockInv, PermanentInv, [PowerNext]_power_vars
               PROVE  WakeLockInv' /\ PermanentInv'
    OBVIOUS
  <2>1. [WakeLockNext]_wakelock_vars
    BY WakeLockRefined DEF power_vars
  <2>2. WakeLockInv'
    BY <2>1, NextInv
  <2>3. CASE PowerNext
    BY <2>2, <2>3, EarlyRefined
  <2>4. CASE UNCHANGED power_vars
    BY <2>2, <2>4 DEF power_vars, wakelock_vars, PermanentInv
  <2> QED BY <2>3, <2>4
<1> QED BY <1>1, <1>2, PTL DEF PowerSpec

\* The composition does to the wake locks, to early suspend and to the suspend sequence
\* only what their own specifications allow.
THEOREM Composition == PowerSpec => ImplementsComponents
<1>1. PowerInit => WakeLockInit /\ SuspendInit /\ Early!EarlySuspendInit
  BY DEF PowerInit
<1>2. [PowerNext]_power_vars => [WakeLockNext]_wakelock_vars
  BY WakeLockRefined DEF power_vars
<1>3. [PowerNext]_power_vars => [SuspendNext]_suspend_vars
  BY SuspendRefined DEF power_vars
<1>4. WakeLockInv /\ PermanentInv /\ [PowerNext]_power_vars
        => [Early!EarlySuspendNext]_Early!early_vars
  <2>1. UNCHANGED power_vars => UNCHANGED Early!early_vars
    BY DEF power_vars, wakelock_vars, early_own_vars, Early!early_vars
  <2> QED BY <2>1, EarlyRefined
<1> QED BY <1>1, <1>2, <1>3, <1>4, PermanentInvariant, PTL
  DEF PowerSpec, ImplementsComponents, WakeLockSpec, SuspendSpec, Early!EarlySuspendSpec

-----------------------------------------------------------------------------
(* What power_suspend_late has seen still holds while the device sleeps.   *)

\* From power_suspend_late until the devices are resumed main_wake_lock is not held,
\* and every lock that is held has been taken since.
LateInv ==
  "noirq" \in down => "ACTIVE" \notin flags[Main] /\ Holding(link) \subseteq fresh

\* A step that notes the locks it takes, and does not take main_wake_lock, keeps it.
LEMMA NotedKeeps ==
  ASSUME LateInv, NoteLocks, "noirq" \in down' => "noirq" \in down,
         "ACTIVE" \in flags'[Main] => "ACTIVE" \in flags[Main]
  PROVE  LateInv'
  BY DEF LateInv, NoteLocks, Holding

\* With devices suspended tasks are frozen.
LEMMA LateIsFrozen == QuiesceInv /\ "noirq" \in down => "tasks" \in down
<1> SUFFICES ASSUME QuiesceInv, "noirq" \in down PROVE "tasks" \in down
  OBVIOUS
<1>1. PICK c \in Caller : owner = c
  BY DEF QuiesceInv, OwnerInv, DepthInv
<1>2. pc[c] \in Section /\ down = Before(Depth[pc[c]])
  BY <1>1 DEF QuiesceInv, OwnerInv, DepthInv
<1>3. PICK n \in 0 .. 10 : down = Before(n)
  BY <1>2, DepthRange
<1>4. PICK i \in 1 .. n : Service[i] = "noirq"
  BY <1>3 DEF Before
<1>5. i = 8
  BY <1>4 DEF Service
<1>6. 4 \in 1 .. n /\ Service[4] = "tasks"
  BY <1>4, <1>5 DEF Service
<1> QED BY <1>3, <1>6 DEF Before

\* A call of pm_suspend: only power_suspend_late itself takes this service away, and
\* it has just found no lock to be held.
LEMMA CallKeepsLate ==
  ASSUME WakeLockInv, PermanentInv, PermanentInv', QuiesceInv, LateInv, NEW c \in Caller,
         SuspendCallStep(c)
  PROVE  LateInv'
<1>1. FlagsKept(Main)
  <2>1. SuspendWork \/ has_wake_lock \/ UNCHANGED flags
    BY DEF SuspendCallStep, PmSuspendCalled, Freezing, SuspendLate, SequenceStep,
           PmSuspendLeaves, SuspendWork, wakelock_vars
  <2> QED BY <2>1, WorkSpares DEF Permanent
<1>2. "ACTIVE" \in flags'[Main] => "ACTIVE" \in flags[Main]
  BY <1>1 DEF FlagsKept, Flag
<1>3. CASE PmSuspendCalled(c) \/ PmSuspendLeaves(c)
  BY <1>3 DEF PmSuspendCalled, PmSuspendLeaves, EnterBusy, EnterState, LeaveStep, Unlock,
              RestoreSpeed, PmSuspendReturns, wakelock_vars, LateInv
<1>4. CASE Freezing(c)
  BY <1>2, <1>4, NotedKeeps DEF Freezing, FreezeProcesses
<1>5. CASE SequenceStep(c)
  <2>1. "noirq" \in down' => "noirq" \in down
    BY <1>5 DEF SequenceStep, PrepareConsole, NotifyPrepare, HelpersDisable, SuspendConsole,
         DpmSuspendStart, PlatformPrepare, IrqsDisable, SysdevSuspend, PlatformEnter, WakeUp,
         UpStep, SysdevResume, IrqsEnable, DpmResumeNoirq, PlatformFinish, DpmResumeEnd,
         ResumeConsole, ThawProcesses, HelpersEnable, NotifyPost, RestoreConsole,
         TakeDown, GiveBack, Drops
  <2> QED BY <1>2, <1>5, <2>1, NotedKeeps DEF SequenceStep
<1>6. CASE SuspendLate(c)
  <2> SUFFICES ASSUME "noirq" \in down'
               PROVE  "ACTIVE" \notin flags'[Main] /\ Holding(link') \subseteq fresh'
    BY DEF LateInv
  <2>1. Holding(link') = {} /\ ListInv' /\ flags' \in FlagMap /\ link' \in LinkMap
    BY <1>6, PollInv DEF SuspendLate
  <2>2. Main \in Lock \ IdleLock
    BY WakeLockAssumption
  <2>3. link'[Main] \in {"none", "inactive"}
    BY <2>1, <2>2 DEF Holding, LinkMap
  <2>4. "ACTIVE" \notin flags'[Main]
    BY <2>1, <2>2, <2>3 DEF ListInv, PermanentInv, Permanent
  <2> QED BY <2>1, <2>4
<1> QED BY <1>3, <1>4, <1>5, <1>6 DEF SuspendCallStep

\* So does every other step: with tasks frozen nobody asks for the screen.
LEMMA LateKept ==
  ASSUME WakeLockInv, PermanentInv, PermanentInv', QuiesceInv, LateInv, PowerNext
  PROVE  LateInv'
<1>0. Main \in Permanent /\ Main \in Lock \ IdleLock /\ Sync \in Lock /\ Main # Sync
  BY PermanentLocks DEF Permanent
<1>1. ASSUME FlagsKept(Main) \/ wake_unlock(Main), NoteLocks, UNCHANGED down
      PROVE  LateInv'
  <2>1. "ACTIVE" \in flags'[Main] => "ACTIVE" \in flags[Main]
    BY <1>0, <1>1, UnlockSelf DEF FlagsKept, Flag
  <2> QED BY <1>1, <2>1, NotedKeeps
<1>2. CASE Boot
  BY <1>0, <1>1, <1>2, OthersSpare DEF Boot, WakeLocksOnly, suspend_vars
<1>3. CASE TimePasses
  BY <1>0, <1>1, <1>3, WorkSpares DEF TimePasses, WakeLocksOnly, suspend_vars
<1>4. CASE HandlersChange \/ UserClock
  BY <1>4 DEF HandlersChange, UserClock, UserSetsClock, wakelock_vars, suspend_vars, LateInv
<1>5. ASSUME NEW l \in DriverLock \ {Sync}, DriverLocks(l)
      PROVE  LateInv'
  <2>1. l \in Lock /\ l # Main
    BY DEF DriverLock
  <2> QED BY <1>0, <1>1, <1>5, <2>1, OthersSpare DEF DriverLocks, WakeLocksOnly, suspend_vars
<1>6. ASSUME NEW s \in {"on", "mem"}, request_suspend_state(s)
      PROVE  LateInv'
  <2>1. "tasks" \notin down /\ UNCHANGED down
    BY <1>6 DEF request_suspend_state, UsersRun, suspend_vars
  <2> QED BY <2>1, LateIsFrozen DEF LateInv
<1>7. CASE EarlyWork
  <2>1. FlagsKept(Main) \/ wake_unlock(Main)
    BY <1>7 DEF EarlyWork, wakelock_vars, FlagsKept
  <2> QED BY <1>1, <1>7, <2>1 DEF EarlyWork, suspend_vars
<1>8. CASE SyncWork
  BY <1>0, <1>1, <1>8, OthersSpare DEF SyncWork, suspend_vars
<1>9. CASE SuspendWorkStep \/ PmSuspendInvalid
  BY <1>0, <1>1, <1>9, WorkSpares DEF SuspendWorkStep, PmSuspendInvalid, WakeLocksOnly,
    SuspendWork, suspend_vars
<1> QED BY <1>2, <1>3, <1>4, <1>5, <1>6, <1>7, <1>8, <1>9, CallKeepsLate DEF PowerNext

\* LateInv holds in every reachable state.
THEOREM LateInvariant == PowerSpec => []LateInv
<1>1. PowerInit => LateInv
  BY DEF PowerInit, SuspendInit, LateInv
<1>2. /\ WakeLockInv /\ PermanentInv /\ PermanentInv' /\ QuiesceInv
      /\ LateInv /\ [PowerNext]_power_vars
      => LateInv'
  <2>1. LateInv /\ UNCHANGED power_vars => LateInv'
    BY DEF power_vars, wakelock_vars, suspend_vars, LateInv
  <2> QED BY <2>1, LateKept
<1>3. PowerSpec => []QuiesceInv
  BY Composition, QuiesceInvariant, PTL DEF ImplementsComponents
<1> QED BY <1>1, <1>2, <1>3, PermanentInvariant, PTL DEF PowerSpec

\* Whatever expires, is taken or is asked for on the way down, the device sleeps only
\* while every lock that is held was taken after power_suspend_late let the suspend go.
THEOREM NoStaleLockAsleep == PowerSpec => []OnlyFreshLocksAsleep
<1>1. SleepsOnlyQuiesced /\ LateInv => OnlyFreshLocksAsleep
  <2>1. "noirq" \in {Service[i] : i \in DOMAIN Service}
    BY DEF Service
  <2> QED BY <2>1 DEF SleepsOnlyQuiesced, LateInv, OnlyFreshLocksAsleep, Sleeps
<1> QED BY <1>1, LateInvariant, Composition, SleepIsQuiesced, PTL DEF ImplementsComponents

\* The device sleeps only with main_wake_lock released, sleep requested and every early
\* suspend handler called, but for one that is being registered, whoever calls pm_suspend.
THEOREM SleepsScreenOff == PowerSpec => []ScreenOffAsleep
<1>1. SleepsOnlyQuiesced /\ LateInv /\ EarlyP!MainReleasedOnlyAsleep => ScreenOffAsleep
  <2>1. "noirq" \in {Service[i] : i \in DOMAIN Service}
    BY DEF Service
  <2>2. SleepsOnlyQuiesced /\ LateInv /\ Sleeps => "ACTIVE" \notin flags[Main]
    BY <2>1 DEF SleepsOnlyQuiesced, LateInv, Sleeps
  <2> QED BY <2>2, SameRegistered
    DEF ScreenOffAsleep, EarlyP!MainReleasedOnlyAsleep, Early!REQUESTED, Early!SUSPENDED,
        EarlyP!REQUESTED, EarlyP!SUSPENDED
<1>2. Level \in [Handler -> Int] /\ HasSuspend \subseteq Handler /\ HasResume \subseteq Handler
  BY PowerAssumption
<1>3. PowerSpec => []EarlyP!MainReleasedOnlyAsleep
  BY <1>2, Composition, SameSpec, EarlyP!MainLockSafe, PTL DEF ImplementsComponents
<1> QED BY <1>1, <1>3, LateInvariant, Composition, SleepIsQuiesced, PTL DEF ImplementsComponents

=============================================================================
