------------------------- MODULE WakeLockListProofs -------------------------
(***************************************************************************)
(* The lists of wakelock.c implement WakeLock, for any set of locks, any   *)
(* timeouts and any width of a long.  The loop of has_wake_lock_locked     *)
(* looks at one lock after the other and stops at the first without        *)
(* timeout; it does what the set of held locks determines because locks    *)
(* without timeout come first in the list.                                 *)
(***************************************************************************)
EXTENDS WakeLockList, ListLemmas

FlagMap == [Lock -> SUBSET WL!Flag]
TimeMap == [Lock -> WL!Long]
ListMap == [LockType -> Seq(Lock)]

\* The type of the state, as far as the refinement needs it.
ListTypeOK ==
  /\ flags \in FlagMap /\ left \in TimeMap
  /\ active \in ListMap /\ inactive \subseteq Lock
  /\ suspend_pending \in BOOLEAN

\* Every list holds locks of its type only, which are initialized and ACTIVE.
ListsHoldActive ==
  \A ty \in LockType : \A l \in ToSet(active[ty]) :
    TypeOf(l) = ty /\ {"INITIALIZED", "ACTIVE"} \subseteq flags[l]

\* In s, the locks without timeout come before those with one.
UntimedFirst(s, f) ==
  \A i, j \in 1 .. Len(s) :
    i < j /\ "AUTO_EXPIRE" \notin f[s[j]] => "AUTO_EXPIRE" \notin f[s[i]]

\* The inductive invariant.
ListInv == ListTypeOK /\ ListsHoldActive /\ UntimedFirst(active["SUSPEND"], flags)

-----------------------------------------------------------------------------
(* The loop.                                                               *)

WalkState == [ret : Int, expired : SUBSET Lock]

\* One round keeps the type of the loop's state.
LEMMA VisitType ==
  ASSUME NEW f \in FlagMap, NEW t \in TimeMap, NEW w \in WalkState, NEW l \in Lock
  PROVE  VisitLock(w, l, f, t) \in WalkState
BY WakeLockListAssumption DEF FlagMap, TimeMap, WalkState, VisitLock, Larger, WL!Long

\* The loop has a state after every round, and returns the last one.
LEMMA WalkIsLoop ==
  ASSUME NEW s \in Seq(Lock), NEW f \in FlagMap, NEW t \in TimeMap
  PROVE  \E walk \in [0 .. Len(s) -> WalkState] :
           /\ walk[0] = [ret |-> 0, expired |-> {}]
           /\ \A i \in 1 .. Len(s) : walk[i] = VisitLock(walk[i - 1], s[i], f, t)
           /\ has_wake_lock_locked(s, f, t) = walk[Len(s)]
<1> DEFINE n == Len(s)
           start == [ret |-> 0, expired |-> {}]
           R(g) == [i \in 0 .. n |-> IF i = 0 THEN start ELSE VisitLock(g[i - 1], s[i], f, t)]
           step == [i \in 1 .. n |-> [w \in WalkState |-> VisitLock(w, s[i], f, t)]]
           walk == CHOOSE g : g = R(g)
<1>1. n \in Nat /\ start \in WalkState /\ \A i \in 1 .. n : s[i] \in Lock
  BY DEF WalkState
<1>2. has_wake_lock_locked(s, f, t) = walk[n]
  BY DEF has_wake_lock_locked
<1> HIDE DEF n, start
<1>3. step \in [1 .. n -> [WalkState -> WalkState]]
  BY <1>1, VisitType
<1>4. PICK g : IsLoop(g, WalkState, start, n, step)
  <2> HIDE DEF step
  <2> QED BY <1>1, <1>3, LoopExists
<1>5. g \in [0 .. n -> WalkState] /\ g[0] = start
  BY <1>4 DEF IsLoop
<1>6. ASSUME NEW i \in 1 .. n
      PROVE  g[i] = VisitLock(g[i - 1], s[i], f, t)
  <2>1. g[i] = step[i][g[i - 1]]
    <3> HIDE DEF step
    <3> QED BY <1>4 DEF IsLoop
  <2>2. g[i - 1] \in WalkState
    BY <1>1, <1>5
  <2> QED BY <2>1, <2>2
<1>7. g = R(g)
  BY <1>1, <1>5, <1>6
<1>8. walk = R(walk)
  <2> HIDE DEF R
  <2> QED BY <1>7
<1> HIDE DEF walk
<1>9. walk[0] = start /\ \A i \in 1 .. n : walk[i] = VisitLock(walk[i - 1], s[i], f, t)
  BY <1>1, <1>8
<1>10. \A i \in 0 .. n : walk[i] \in WalkState
  <2> DEFINE Good == {i \in 0 .. n : walk[i] \in WalkState}
  <2>1. 0 \in Good
    BY <1>1, <1>9
  <2>2. ASSUME NEW i \in 1 .. n, i - 1 \in Good PROVE i \in Good
    BY <1>1, <1>9, <2>2, VisitType
  <2> HIDE DEF Good
  <2>3. \A i \in 1 .. n : i - 1 \in Good => i \in Good
    BY <2>2
  <2>4. \A i \in 0 .. n : i \in Good
    BY <1>1, <2>1, <2>3, UpTo
  <2> QED BY <2>4 DEF Good
<1>11. walk \in [0 .. n -> WalkState]
  BY <1>8, <1>10
<1> QED BY <1>2, <1>9, <1>11 DEF n, start

UntimedIn(s, f) == {l \in ToSet(s) : "AUTO_EXPIRE" \notin f[l]}
DueIn(s, f, t) == {l \in ToSet(s) : UntimedIn(s, f) = {} /\ t[l] <= 0}
StayIn(s, f, t) == ToSet(s) \ DueIn(s, f, t)

\* What the walk over s returns, and which locks it expires, depends only on the set of
\* locks in s: -1 if one has no timeout, or else the longest time left, or 0.
LEMMA WalkResult ==
  ASSUME NEW s \in Seq(Lock), NEW f \in FlagMap, NEW t \in TimeMap, UntimedFirst(s, f)
  PROVE  /\ has_wake_lock_locked(s, f, t).expired = DueIn(s, f, t)
         /\ UntimedIn(s, f) # {} => has_wake_lock_locked(s, f, t).ret = -1
         /\ UntimedIn(s, f) = {} =>
              \/ has_wake_lock_locked(s, f, t).ret = 0 /\ StayIn(s, f, t) = {}
              \/ \E m \in StayIn(s, f, t) :
                   /\ t[m] > 0 /\ has_wake_lock_locked(s, f, t).ret = t[m]
                   /\ \A l \in StayIn(s, f, t) : t[l] <= t[m]
<1> DEFINE n == Len(s)
<1>1. n \in Nat /\ (\A i \in 1 .. n : s[i] \in Lock) /\ ToSet(s) = {s[i] : i \in 1 .. n}
  BY DEF ToSet
<1>2. PICK walk \in [0 .. n -> WalkState] :
        /\ walk[0] = [ret |-> 0, expired |-> {}]
        /\ \A i \in 1 .. n : walk[i] = VisitLock(walk[i - 1], s[i], f, t)
        /\ has_wake_lock_locked(s, f, t) = walk[n]
  BY WalkIsLoop
<1> HIDE DEF n
<1>3. \A l \in Lock : t[l] \in Int
  BY WakeLockListAssumption DEF TimeMap, WL!Long
<1>4. CASE UntimedIn(s, f) # {}
  <2>1. PICK j \in 1 .. n : "AUTO_EXPIRE" \notin f[s[j]]
    BY <1>1, <1>4 DEF UntimedIn
  <2>2. 1 \in 1 .. n /\ "AUTO_EXPIRE" \notin f[s[1]]
    BY <1>1, <2>1 DEF UntimedFirst, n
  <2> DEFINE Good == {i \in 0 .. n : i > 0 => walk[i].ret = -1 /\ walk[i].expired = {}}
  <2>3. 0 \in Good
    BY <1>1
  <2>4. ASSUME NEW i \in 1 .. n, i - 1 \in Good PROVE i \in Good
    <3>1. walk[i] = VisitLock(walk[i - 1], s[i], f, t) /\ walk[i - 1] \in WalkState
      BY <1>1, <1>2
    <3>2. CASE i = 1
      BY <1>2, <2>2, <3>1, <3>2 DEF VisitLock
    <3>3. CASE i # 1
      <4>1. walk[i - 1].ret = -1 /\ walk[i - 1].expired = {}
        BY <2>4, <3>3
      <4> QED BY <3>1, <4>1 DEF VisitLock, WalkState
    <3> QED BY <3>2, <3>3
  <2>5. n \in Good
    <3> HIDE DEF Good
    <3>1. \A i \in 1 .. n : i - 1 \in Good => i \in Good
      BY <2>4
    <3>2. \A i \in 0 .. n : i \in Good
      BY <1>1, <2>3, <3>1, UpTo
    <3> QED BY <1>1, <3>2
  <2>6. walk[n].ret = -1 /\ walk[n].expired = {}
    BY <1>1, <2>2, <2>5
  <2> QED BY <1>2, <1>4, <2>6 DEF DueIn
<1>5. CASE UntimedIn(s, f) = {}
  <2>1. \A i \in 1 .. n : "AUTO_EXPIRE" \in f[s[i]]
    BY <1>1, <1>5 DEF UntimedIn
  <2> DEFINE Done(w, i) ==
               /\ w.expired = {s[j] : j \in {k \in 1 .. i : t[s[k]] <= 0}}
               /\ \A j \in 1 .. i : t[s[j]] <= w.ret \/ t[s[j]] <= 0
               /\ w.ret = 0 \/ (w.ret > 0 /\ \E j \in 1 .. i : t[s[j]] = w.ret)
             Good == {i \in 0 .. n : Done(walk[i], i)}
  <2>2. 0 \in Good
    BY <1>1, <1>2
  <2>3. ASSUME NEW i \in 1 .. n, i - 1 \in Good PROVE i \in Good
    <3>1. walk[i] = VisitLock(walk[i - 1], s[i], f, t) /\ walk[i - 1] \in WalkState
      BY <1>1, <1>2
    <3>2. Done(walk[i - 1], i - 1)
      BY <2>3
    <3>3. walk[i - 1].ret \in Int /\ walk[i - 1].ret # -1 /\ "AUTO_EXPIRE" \in f[s[i]]
      BY <2>1, <3>1, <3>2 DEF WalkState
    <3>4. t[s[i]] \in Int
      BY <1>1, <1>3
    <3>5. CASE t[s[i]] <= 0
      <4>1. /\ walk[i].ret = walk[i - 1].ret
            /\ walk[i].expired = walk[i - 1].expired \cup {s[i]}
        BY <3>1, <3>3, <3>5 DEF VisitLock, WalkState
      <4>2. walk[i].expired = {s[j] : j \in {k \in 1 .. i : t[s[k]] <= 0}}
        BY <1>1, <3>2, <3>5, <4>1
      <4>3. /\ \A j \in 1 .. i : t[s[j]] <= walk[i].ret \/ t[s[j]] <= 0
            /\ walk[i].ret = 0 \/ (walk[i].ret > 0 /\ \E j \in 1 .. i : t[s[j]] = walk[i].ret)
        BY <1>1, <3>2, <3>5, <4>1
      <4> QED BY <1>1, <4>2, <4>3
    <3>6. CASE t[s[i]] > 0
      <4>1. /\ walk[i].ret = Larger(walk[i - 1].ret, t[s[i]])
            /\ walk[i].expired = walk[i - 1].expired
        BY <3>1, <3>3, <3>4, <3>6 DEF VisitLock, WalkState
      <4>2. walk[i].expired = {s[j] : j \in {k \in 1 .. i : t[s[k]] <= 0}}
        <5>1. {k \in 1 .. i : t[s[k]] <= 0} = {k \in 1 .. i - 1 : t[s[k]] <= 0}
          BY <1>1, <3>4, <3>6
        <5> QED BY <3>2, <4>1, <5>1
      <4>3. \A j \in 1 .. i : j # i => j \in 1 .. i - 1
        BY <1>1
      <4>4. \A j \in 1 .. i - 1 : t[s[j]] \in Int /\ j \in 1 .. i
        BY <1>1, <1>3
      <4>5. CASE walk[i - 1].ret > t[s[i]]
        <5>1. walk[i].ret = walk[i - 1].ret
          BY <4>1, <4>5 DEF Larger
        <5>2. \A j \in 1 .. i : t[s[j]] <= walk[i].ret \/ t[s[j]] <= 0
          BY <3>2, <3>3, <3>4, <4>3, <4>4, <4>5, <5>1
        <5>3. walk[i].ret > 0
          BY <3>3, <3>4, <3>6, <4>5, <5>1
        <5>4. \E j \in 1 .. i : t[s[j]] = walk[i].ret
          BY <3>2, <4>4, <5>1, <5>3
        <5> QED BY <1>1, <4>2, <5>2, <5>3, <5>4
      <4>6. CASE ~(walk[i - 1].ret > t[s[i]])
        <5>1. walk[i].ret = t[s[i]]
          BY <4>1, <4>6 DEF Larger
        <5>2. \A j \in 1 .. i : t[s[j]] <= walk[i].ret \/ t[s[j]] <= 0
          BY <3>2, <3>3, <3>4, <4>3, <4>4, <4>6, <5>1
        <5>3. walk[i].ret > 0 /\ \E j \in 1 .. i : t[s[j]] = walk[i].ret
          BY <3>6, <5>1
        <5> QED BY <1>1, <4>2, <5>2, <5>3
      <4> QED BY <4>5, <4>6
    <3> QED BY <3>4, <3>5, <3>6
  <2>4. n \in Good
    <3> HIDE DEF Good
    <3>1. \A i \in 1 .. n : i - 1 \in Good => i \in Good
      BY <2>3
    <3>2. \A i \in 0 .. n : i \in Good
      BY <1>1, <2>2, <3>1, UpTo
    <3> QED BY <1>1, <3>2
  <2>5. Done(walk[n], n)
    BY <2>4
  <2>6. walk[n].expired = DueIn(s, f, t)
    BY <1>1, <1>5, <2>5 DEF DueIn
  <2>7. CASE walk[n].ret = 0
    <3>1. StayIn(s, f, t) = {}
      BY <1>1, <1>3, <1>5, <2>5, <2>7 DEF StayIn, DueIn
    <3> QED BY <1>2, <1>5, <2>6, <2>7, <3>1
  <2>8. CASE walk[n].ret # 0
    <3>1. PICK j \in 1 .. n : t[s[j]] = walk[n].ret /\ walk[n].ret > 0
      BY <2>5, <2>8
    <3>2. s[j] \in StayIn(s, f, t)
      BY <1>1, <1>3, <3>1 DEF StayIn, DueIn
    <3>3. ASSUME NEW l \in StayIn(s, f, t) PROVE t[l] <= t[s[j]]
      <4>1. PICK i \in 1 .. n : l = s[i]
        BY <1>1 DEF StayIn
      <4>2. ~(t[s[i]] <= 0)
        BY <1>5, <4>1 DEF StayIn, DueIn
      <4> QED BY <2>5, <3>1, <4>1, <4>2
    <3> QED BY <1>2, <1>5, <2>6, <3>1, <3>2, <3>3
  <2> QED BY <2>7, <2>8
<1> QED BY <1>4, <1>5

-----------------------------------------------------------------------------
(* The refinement mapping, and the lists after each operation.             *)

\* Every list of act holds locks of its type only.
RightLists(act) == \A ty \in LockType : \A l \in ToSet(act[ty]) : TypeOf(l) = ty

\* LinkOf in terms of the lists' members.
LEMMA LinkFacts ==
  ASSUME NEW act \in ListMap, NEW inact \in SUBSET Lock, RightLists(act)
  PROVE  /\ LinkOf(act, inact) \in [Lock -> {"none", "inactive", "active"}]
         /\ \A l \in Lock : LinkOf(act, inact)[l] = "active" <=> l \in ToSet(act[TypeOf(l)])
         /\ WL!Holding(LinkOf(act, inact)) = ToSet(act["SUSPEND"])
<1>1. \A l \in Lock : LinkOf(act, inact)[l] = IF l \in ToSet(act[TypeOf(l)]) THEN "active"
                                              ELSE IF l \in inact THEN "inactive" ELSE "none"
  BY DEF LinkOf
<1>2. ToSet(act["SUSPEND"]) \subseteq Lock /\ "SUSPEND" \in LockType
  BY DEF ListMap, LockType, ToSet
<1>3. \A l \in Lock : l \notin IdleLock <=> TypeOf(l) = "SUSPEND"
  BY DEF TypeOf
<1>4. \A l \in ToSet(act["SUSPEND"]) : TypeOf(l) = "SUSPEND"
  BY <1>2 DEF RightLists
<1>5. WL!Holding(LinkOf(act, inact)) = {l \in Lock \ IdleLock : l \in ToSet(act["SUSPEND"])}
  BY <1>1, <1>3 DEF WL!Holding
<1>6. WL!Holding(LinkOf(act, inact)) = ToSet(act["SUSPEND"])
  BY <1>2, <1>3, <1>4, <1>5
<1>7. LinkOf(act, inact) \in [Lock -> {"none", "inactive", "active"}]
  BY DEF LinkOf
<1> QED BY <1>1, <1>6, <1>7

\* f and g give the locks in S a timeout alike.
SameTimed(f, g, S) == \A l \in S : "AUTO_EXPIRE" \in f[l] <=> "AUTO_EXPIRE" \in g[l]

\* The type of a lock names a list.
LEMMA TypeOfType == \A l : TypeOf(l) \in LockType
BY DEF TypeOf, LockType

\* Taking locks off a list does not disturb its order.
LEMMA WithoutOrder ==
  ASSUME NEW s \in Seq(Lock), NEW X, NEW f, NEW g,
         UntimedFirst(s, f), SameTimed(f, g, ToSet(s) \ X)
  PROVE  UntimedFirst(Without(s, X), g)
<1> DEFINE F == Without(s, X)
<1>1. PICK src : Filtered(F, s, X, src)
  BY WithoutFacts
<1>2. F \in Seq(Lock) /\ Len(F) \in Nat
  BY WithoutFacts
<1> HIDE DEF F
<1>3. ASSUME NEW i \in 1 .. Len(F)
      PROVE  src[i] \in 1 .. Len(s) /\ F[i] = s[src[i]] /\ F[i] \in ToSet(s) \ X
  <2>1. src[i] \in 1 .. Len(s) /\ F[i] = s[src[i]] /\ F[i] \notin X
    BY <1>1 DEF Filtered
  <2> QED BY <2>1 DEF ToSet
<1>4. ASSUME NEW i \in 1 .. Len(F), NEW j \in 1 .. Len(F), i < j, "AUTO_EXPIRE" \notin g[F[j]]
      PROVE  "AUTO_EXPIRE" \notin g[F[i]]
  <2>1. src[i] < src[j]
    BY <1>1, <1>4 DEF Filtered
  <2>2. "AUTO_EXPIRE" \notin f[s[src[j]]]
    BY <1>3, <1>4 DEF SameTimed
  <2>3. "AUTO_EXPIRE" \notin f[s[src[i]]]
    BY <1>3, <2>1, <2>2 DEF UntimedFirst
  <2> QED BY <1>3, <2>3 DEF SameTimed
<1>5. UntimedFirst(F, g)
  BY <1>4 DEF UntimedFirst
<1> QED BY <1>5 DEF F

\* list_del takes the lock off its list.
LEMMA DelFacts ==
  ASSUME NEW act \in ListMap, RightLists(act), NEW l \in Lock
  PROVE  /\ list_del(act, l) \in ListMap
         /\ RightLists(list_del(act, l))
         /\ \A ty \in LockType : ToSet(list_del(act, l)[ty]) = ToSet(act[ty]) \ {l}
<1>1. TypeOf(l) \in LockType
  BY TypeOfType
<1>2. \A ty \in LockType : act[ty] \in Seq(Lock)
  BY DEF ListMap
<1>3. Without(act[TypeOf(l)], {l}) \in Seq(Lock)
  BY <1>1, <1>2, WithoutFacts
<1>4. list_del(act, l) \in ListMap
  BY <1>3 DEF list_del, ListMap
<1>5. ToSet(Without(act[TypeOf(l)], {l})) = ToSet(act[TypeOf(l)]) \ {l}
  BY <1>1, <1>2, WithoutSet
<1>6. ASSUME NEW ty \in LockType
      PROVE  ToSet(list_del(act, l)[ty]) = ToSet(act[ty]) \ {l}
  <2>1. CASE ty = TypeOf(l)
    BY <1>5, <2>1 DEF list_del, ListMap
  <2>2. CASE ty # TypeOf(l)
    <3>1. list_del(act, l)[ty] = act[ty]
      BY <2>2 DEF list_del, ListMap
    <3>2. l \notin ToSet(act[ty])
      BY <2>2 DEF RightLists
    <3> QED BY <3>1, <3>2
  <2> QED BY <2>1, <2>2
<1>7. RightLists(list_del(act, l))
  BY <1>6 DEF RightLists
<1> QED BY <1>4, <1>6, <1>7

\* list_add and list_add_tail, after list_del, leave the lock on its list and the others
\* where they were.
LEMMA AddFacts ==
  ASSUME NEW act \in ListMap, RightLists(act), NEW l \in Lock,
         NEW new, new \in {list_add(list_del(act, l), l), list_add_tail(list_del(act, l), l)}
  PROVE  /\ new \in ListMap
         /\ RightLists(new)
         /\ \A ty \in LockType :
              ToSet(new[ty]) = IF ty = TypeOf(l) THEN ToSet(act[ty]) \cup {l} ELSE ToSet(act[ty])
<1> DEFINE del == list_del(act, l)
<1>1. del \in ListMap /\ RightLists(del)
      /\ \A ty \in LockType : ToSet(del[ty]) = ToSet(act[ty]) \ {l}
  BY DelFacts
<1>2. TypeOf(l) \in LockType
  BY TypeOfType
<1>3. new = list_add(del, l) \/ new = list_add_tail(del, l)
  OBVIOUS
<1> HIDE DEF del
<1>4. \A ty \in LockType : del[ty] \in Seq(Lock)
  BY <1>1 DEF ListMap
<1>5. /\ <<l>> \o del[TypeOf(l)] \in Seq(Lock) /\ Append(del[TypeOf(l)], l) \in Seq(Lock)
      /\ ToSet(<<l>> \o del[TypeOf(l)]) = ToSet(del[TypeOf(l)]) \cup {l}
      /\ ToSet(Append(del[TypeOf(l)], l)) = ToSet(del[TypeOf(l)]) \cup {l}
  <2> DEFINE d == del[TypeOf(l)]
  <2>1. d \in Seq(Lock)
    BY <1>2, <1>4
  <2> HIDE DEF d
  <2>2. Append(d, l) \in Seq(Lock) /\ ToSet(Append(d, l)) = ToSet(d) \cup {l}
    <3>1. /\ Len(Append(d, l)) = Len(d) + 1 /\ Len(d) \in Nat
          /\ \A i \in 1 .. Len(d) : Append(d, l)[i] = d[i]
          /\ Append(d, l)[Len(d) + 1] = l
          /\ DOMAIN d = 1 .. Len(d) /\ DOMAIN Append(d, l) = 1 .. Len(d) + 1
          /\ Append(d, l) \in Seq(Lock)
      BY <2>1
    <3> QED BY <3>1 DEF ToSet
  <2>3. <<l>> \o d \in Seq(Lock) /\ ToSet(<<l>> \o d) = ToSet(d) \cup {l}
    <3>1. /\ Len(<<l>> \o d) = Len(d) + 1 /\ Len(d) \in Nat
          /\ \A i \in 2 .. Len(d) + 1 : (<<l>> \o d)[i] = d[i - 1]
          /\ (<<l>> \o d)[1] = l
          /\ DOMAIN d = 1 .. Len(d) /\ DOMAIN (<<l>> \o d) = 1 .. Len(d) + 1
          /\ <<l>> \o d \in Seq(Lock)
      BY <2>1
    <3>2. \A i \in 1 .. Len(d) : d[i] = (<<l>> \o d)[i + 1] /\ i + 1 \in 1 .. Len(d) + 1
      BY <3>1
    <3>3. \A i \in 1 .. Len(d) + 1 : i = 1 \/ (i \in 2 .. Len(d) + 1 /\ i - 1 \in 1 .. Len(d))
      BY <3>1
    <3> DEFINE c == <<l>> \o d
    <3>4. /\ DOMAIN c = 1 .. Len(d) + 1 /\ c[1] = l /\ 1 \in 1 .. Len(d) + 1
          /\ \A i \in 2 .. Len(d) + 1 : c[i] = d[i - 1]
          /\ \A i \in 1 .. Len(d) : d[i] = c[i + 1] /\ i + 1 \in 1 .. Len(d) + 1
      BY <3>1, <3>2
    <3> HIDE DEF c
    <3>5. ToSet(c) = ToSet(d) \cup {l}
      <4>1. \A x \in ToSet(c) : x \in ToSet(d) \cup {l}
        BY <3>1, <3>3, <3>4 DEF ToSet
      <4>2. ASSUME NEW x \in ToSet(d) PROVE x \in ToSet(c)
        <5>1. PICK i \in 1 .. Len(d) : x = d[i]
          BY <3>1 DEF ToSet
        <5> QED BY <3>4, <5>1 DEF ToSet
      <4>3. l \in ToSet(c)
        BY <3>4 DEF ToSet
      <4> QED BY <4>1, <4>2, <4>3
    <3> QED BY <3>1, <3>5 DEF c
  <2> QED BY <2>2, <2>3 DEF d
<1>6. new \in ListMap
  BY <1>1, <1>3, <1>5 DEF list_add, list_add_tail, ListMap
<1>7. ASSUME NEW ty \in LockType
      PROVE  ToSet(new[ty]) = IF ty = TypeOf(l) THEN ToSet(act[ty]) \cup {l} ELSE ToSet(act[ty])
  <2>1. CASE ty = TypeOf(l)
    <3>1. ToSet(new[ty]) = ToSet(del[ty]) \cup {l}
      BY <1>1, <1>3, <1>5, <2>1 DEF list_add, list_add_tail, ListMap
    <3> QED BY <1>1, <2>1, <3>1
  <2>2. CASE ty # TypeOf(l)
    <3>1. new[ty] = del[ty]
      BY <1>1, <1>3, <2>2 DEF list_add, list_add_tail, ListMap
    <3>2. l \notin ToSet(act[ty])
      BY <2>2 DEF RightLists
    <3> QED BY <1>1, <2>2, <3>1, <3>2
  <2> QED BY <2>1, <2>2
<1>8. RightLists(new)
  BY <1>7 DEF RightLists
<1> QED BY <1>6, <1>7, <1>8

\* A lock that leaves its list, through the refinement mapping.
LEMMA LinkAfter ==
  ASSUME NEW act \in ListMap, RightLists(act), NEW inact \in SUBSET Lock, NEW l \in Lock
  PROVE  /\ LinkOf(list_del(act, l), inact \ {l}) = [LinkOf(act, inact) EXCEPT ![l] = "none"]
         /\ LinkOf(list_del(act, l), inact \cup {l}) =
              [LinkOf(act, inact) EXCEPT ![l] = "inactive"]
<1> DEFINE del == list_del(act, l)
<1>1. \A ty \in LockType : ToSet(del[ty]) = ToSet(act[ty]) \ {l}
  BY DelFacts
<1>2. \A x : TypeOf(x) \in LockType
  BY TypeOfType
<1> HIDE DEF del
<1>3. LinkOf(del, inact \ {l}) = [LinkOf(act, inact) EXCEPT ![l] = "none"]
  BY <1>1, <1>2 DEF LinkOf
<1>4. LinkOf(del, inact \cup {l}) = [LinkOf(act, inact) EXCEPT ![l] = "inactive"]
  BY <1>1, <1>2 DEF LinkOf
<1> QED BY <1>3, <1>4 DEF del

\* The same for a lock that is inserted.
LEMMA LinkAdded ==
  ASSUME NEW act \in ListMap, RightLists(act), NEW inact \in SUBSET Lock, NEW l \in Lock,
         NEW new, new \in {list_add(list_del(act, l), l), list_add_tail(list_del(act, l), l)}
  PROVE  LinkOf(new, inact \ {l}) = [LinkOf(act, inact) EXCEPT ![l] = "active"]
<1>1. \A x : TypeOf(x) \in LockType
  BY TypeOfType
<1>2. \A ty \in LockType :
        ToSet(new[ty]) = IF ty = TypeOf(l) THEN ToSet(act[ty]) \cup {l} ELSE ToSet(act[ty])
  BY AddFacts
<1>3. \A x \in Lock : x # l => (x \in ToSet(new[TypeOf(x)]) <=> x \in ToSet(act[TypeOf(x)]))
  BY <1>1, <1>2
<1>4. l \in ToSet(new[TypeOf(l)])
  BY <1>1, <1>2
<1> QED BY <1>3, <1>4 DEF LinkOf

\* Where wake_lock_internal inserts the lock keeps the list in order: at the head if it
\* has no timeout, at the tail if it has one.  f are the flags before, g those after.
LEMMA AddOrder ==
  ASSUME NEW act \in ListMap, RightLists(act), NEW l \in Lock, NEW f, NEW g,
         UntimedFirst(act["SUSPEND"], f), SameTimed(f, g, Lock \ {l})
  PROVE  /\ UntimedFirst(list_del(act, l)["SUSPEND"], g)
         /\ "AUTO_EXPIRE" \in g[l] =>
              UntimedFirst(list_add_tail(list_del(act, l), l)["SUSPEND"], g)
         /\ "AUTO_EXPIRE" \notin g[l] =>
              UntimedFirst(list_add(list_del(act, l), l)["SUSPEND"], g)
<1> DEFINE del == list_del(act, l)
           d == del["SUSPEND"]
<1>1. "SUSPEND" \in LockType /\ TypeOf(l) \in LockType
  BY TypeOfType DEF LockType
<1>2. del \in ListMap /\ d \in Seq(Lock) /\ act["SUSPEND"] \in Seq(Lock)
  BY <1>1, DelFacts DEF ListMap
<1>3. UntimedFirst(d, g)
  <2>1. CASE TypeOf(l) = "SUSPEND"
    <3>1. d = Without(act["SUSPEND"], {l})
      BY <1>1, <2>1 DEF list_del, ListMap
    <3>2. SameTimed(f, g, ToSet(act["SUSPEND"]) \ {l})
      BY <1>2 DEF SameTimed, ToSet
    <3> HIDE DEF d
    <3> QED BY <1>2, <3>1, <3>2, WithoutOrder
  <2>2. CASE TypeOf(l) # "SUSPEND"
    <3>1. d = act["SUSPEND"]
      BY <2>2 DEF list_del, ListMap
    <3>2. l \notin ToSet(act["SUSPEND"])
      BY <1>1, <2>2 DEF RightLists
    <3>3. SameTimed(f, g, ToSet(act["SUSPEND"]))
      BY <1>2, <3>2 DEF SameTimed, ToSet
    <3>4. \A i \in 1 .. Len(act["SUSPEND"]) : act["SUSPEND"][i] \in ToSet(act["SUSPEND"])
      BY <1>2 DEF ToSet
    <3> HIDE DEF d
    <3> QED BY <3>1, <3>3, <3>4 DEF UntimedFirst, SameTimed
  <2> QED BY <2>1, <2>2
<1> HIDE DEF del, d
<1>4. CASE TypeOf(l) # "SUSPEND"
  <2>1. list_add_tail(del, l)["SUSPEND"] = d /\ list_add(del, l)["SUSPEND"] = d
    BY <1>1, <1>2, <1>4 DEF d, list_add, list_add_tail, ListMap
  <2> QED BY <1>3, <2>1 DEF del, d
<1>5. CASE TypeOf(l) = "SUSPEND"
  <2>1. list_add_tail(del, l)["SUSPEND"] = Append(d, l) /\ list_add(del, l)["SUSPEND"] = <<l>> \o d
    BY <1>1, <1>2, <1>5 DEF d, list_add, list_add_tail, ListMap
  <2>2. ASSUME "AUTO_EXPIRE" \in g[l] PROVE UntimedFirst(Append(d, l), g)
    BY <1>2, <1>3, <2>2 DEF UntimedFirst
  <2>3. ASSUME "AUTO_EXPIRE" \notin g[l] PROVE UntimedFirst(<<l>> \o d, g)
    <3> DEFINE c == <<l>> \o d
    <3>1. /\ Len(c) = Len(d) + 1 /\ Len(d) \in Nat /\ c[1] = l
          /\ \A i \in 2 .. Len(d) + 1 : c[i] = d[i - 1]
      BY <1>2
    <3> HIDE DEF c
    <3>2. ASSUME NEW i \in 1 .. Len(c), NEW j \in 1 .. Len(c), i < j, "AUTO_EXPIRE" \notin g[c[j]]
          PROVE  "AUTO_EXPIRE" \notin g[c[i]]
      <4>1. CASE i = 1
        BY <2>3, <3>1, <4>1
      <4>2. CASE i # 1
        <5>1. /\ c[i] = d[i - 1] /\ c[j] = d[j - 1] /\ i - 1 < j - 1
              /\ i - 1 \in 1 .. Len(d) /\ j - 1 \in 1 .. Len(d)
          BY <3>1, <3>2, <4>2
        <5> QED BY <1>3, <3>2, <5>1 DEF UntimedFirst
      <4> QED BY <4>1, <4>2
    <3> QED BY <3>2 DEF UntimedFirst, c
  <2> QED BY <1>3, <2>1, <2>2, <2>3 DEF del, d
<1> QED BY <1>4, <1>5

-----------------------------------------------------------------------------
(* The end of every operation: some locks of the list expire, or none.     *)

\* What AfterWalk leaves, if m are the flags and act the lists it starts with.
LEMMA AfterWalkFacts ==
  ASSUME NEW m \in FlagMap, NEW t \in TimeMap, NEW act \in ListMap, NEW inact \in SUBSET Lock,
         RightLists(act), UntimedFirst(act["SUSPEND"], m),
         \A ty \in LockType : \A l \in ToSet(act[ty]) : {"INITIALIZED", "ACTIVE"} \subseteq m[l],
         NEW X, X \subseteq ToSet(act["SUSPEND"]), AfterWalk(X, m, t, act, inact),
         suspend_pending' \in BOOLEAN
  PROVE  /\ ListInv'
         /\ LinkOf(active', inactive') =
              [l \in Lock |-> IF l \in X THEN "inactive" ELSE LinkOf(act, inact)[l]]
<1>1. "SUSPEND" \in LockType /\ \A l : TypeOf(l) \in LockType
  BY TypeOfType DEF LockType
<1>2. act["SUSPEND"] \in Seq(Lock) /\ X \subseteq Lock
  BY <1>1 DEF ListMap, ToSet
<1>3. Without(act["SUSPEND"], X) \in Seq(Lock)
      /\ ToSet(Without(act["SUSPEND"], X)) = ToSet(act["SUSPEND"]) \ X
  BY <1>2, WithoutFacts, WithoutSet
<1>4. active' = [act EXCEPT !["SUSPEND"] = Without(act["SUSPEND"], X)]
      /\ inactive' = inact \cup X
  BY DEF AfterWalk
<1>5. active' \in ListMap /\ inactive' \subseteq Lock
  BY <1>2, <1>3, <1>4 DEF ListMap
<1>6. \A ty \in LockType : ToSet(active'[ty]) = ToSet(act[ty]) \ X
  <2>1. SUFFICES ASSUME NEW ty \in LockType PROVE ToSet(active'[ty]) = ToSet(act[ty]) \ X
    OBVIOUS
  <2>2. CASE ty = "SUSPEND"
    BY <1>3, <1>4, <2>2 DEF ListMap
  <2>3. CASE ty # "SUSPEND"
    <3>1. active'[ty] = act[ty]
      BY <1>4, <2>3 DEF ListMap
    <3>2. \A l \in X : TypeOf(l) = "SUSPEND"
      BY <1>1 DEF RightLists
    <3>3. \A l \in ToSet(act[ty]) : TypeOf(l) = ty
      BY DEF RightLists
    <3> QED BY <2>3, <3>1, <3>2, <3>3
  <2> QED BY <2>2, <2>3
<1>7. flags' = [l \in Lock |-> IF l \in X THEN WL!UnlockStat(m[l]) \ WL!ClearOnUnlock ELSE m[l]]
      /\ left' = [l \in Lock |-> IF l \in X THEN 0 ELSE t[l]]
  BY DEF AfterWalk
<1>8. flags' \in FlagMap /\ left' \in TimeMap
  BY <1>7, WakeLockListAssumption
     DEF FlagMap, TimeMap, WL!Long, WL!UnlockStat, WL!ClearOnUnlock
<1>9. ListsHoldActive'
  <2>1. ASSUME NEW ty \in LockType, NEW l \in ToSet(active'[ty])
        PROVE  TypeOf(l) = ty /\ {"INITIALIZED", "ACTIVE"} \subseteq flags'[l]
    <3>1. l \in ToSet(act[ty]) \ X
      BY <1>6
    <3>2. l \in Lock
      BY <3>1 DEF ListMap, ToSet
    <3> QED BY <1>7, <3>1, <3>2 DEF RightLists
  <2> QED BY <2>1 DEF ListsHoldActive
<1>10. UntimedFirst(active'["SUSPEND"], flags')
  <2>1. SameTimed(m, flags', ToSet(act["SUSPEND"]) \ X)
    BY <1>2, <1>7 DEF SameTimed, ToSet
  <2>2. active'["SUSPEND"] = Without(act["SUSPEND"], X)
    BY <1>1, <1>4 DEF ListMap
  <2> QED BY <1>2, <2>1, <2>2, WithoutOrder
<1>11. LinkOf(active', inactive') =
         [l \in Lock |-> IF l \in X THEN "inactive" ELSE LinkOf(act, inact)[l]]
  <2>1. ASSUME NEW l \in Lock
        PROVE  LinkOf(active', inactive')[l] = IF l \in X THEN "inactive" ELSE LinkOf(act, inact)[l]
    <3>1. l \in ToSet(active'[TypeOf(l)]) <=> l \in ToSet(act[TypeOf(l)]) /\ l \notin X
      BY <1>1, <1>6
    <3> QED BY <1>4, <3>1 DEF LinkOf
  <2> QED BY <2>1 DEF LinkOf
<1>12. ListInv'
  BY <1>5, <1>8, <1>9, <1>10 DEF ListInv, ListTypeOK
<1> QED BY <1>11, <1>12

\* The tail of wake_lock_internal and of wake_unlock, by the sign of expire_in.
LEMMA TimerCases ==
  ASSUME NEW ret \in Int, SetExpireTimer(ret), suspend_pending \in BOOLEAN
  PROVE  /\ ret > 0 => expire_pending' = TRUE /\ expire_left' = ret
         /\ ret <= 0 => expire_pending' = FALSE /\ expire_left' = 0
         /\ ret = 0 => suspend_pending' = TRUE
         /\ ret # 0 => suspend_pending' = suspend_pending
<1>1. /\ expire_pending' = (ret > 0) /\ expire_left' = IF ret > 0 THEN ret ELSE 0
      /\ suspend_pending' = (suspend_pending \/ ret = 0)
  BY DEF SetExpireTimer
<1>2. ASSUME ret > 0 PROVE expire_pending' = TRUE /\ expire_left' = ret
  <2>1. (ret > 0) = TRUE
    BY <1>2
  <2> QED BY <1>1, <1>2, <2>1
<1>3. ASSUME ret <= 0 PROVE expire_pending' = FALSE /\ expire_left' = 0
  <2>1. (ret > 0) = FALSE
    BY <1>3
  <2>2. expire_pending' = FALSE
    BY <1>1, <2>1
  <2>3. expire_left' = 0
    BY <1>1, <1>3
  <2> QED BY <2>2, <2>3
<1>4. ASSUME ret = 0 PROVE suspend_pending' = TRUE
  <2>1. (suspend_pending \/ ret = 0) = TRUE
    BY <1>4
  <2> QED BY <1>1, <2>1
<1>5. ASSUME ret # 0 PROVE suspend_pending' = suspend_pending
  <2>1. (suspend_pending \/ ret = 0) = suspend_pending
    BY <1>5
  <2> QED BY <1>1, <2>1
<1> QED BY <1>2, <1>3, <1>4, <1>5

\* The walk expires the locks that are due, and what the code does with its result is
\* what WakeLock does with the set of the remaining locks.
LEMMA WalkRefines ==
  ASSUME NEW f \in FlagMap, NEW t \in TimeMap, NEW act \in ListMap, NEW inact \in SUBSET Lock,
         RightLists(act), UntimedFirst(act["SUSPEND"], f), suspend_pending \in BOOLEAN,
         NEW k, k = LinkOf(act, inact),
         NEW w, w = has_wake_lock_locked(act["SUSPEND"], f, t)
  PROVE  /\ w.expired = WL!Due(f, k, t) /\ w.expired \subseteq ToSet(act["SUSPEND"])
         /\ w.ret = 0 <=> WL!Remaining(f, k, t) = {}
         /\ SetExpireTimer(w.ret) => WL!SetTimer(f, k, t) /\ suspend_pending' \in BOOLEAN
<1> DEFINE q == act["SUSPEND"]
<1>1. q \in Seq(Lock)
  BY DEF ListMap, LockType
<1>2. WL!Holding(k) = ToSet(q)
  BY LinkFacts
<1> HIDE DEF q
<1>3. WL!Untimed(f, k) = UntimedIn(q, f)
  BY <1>2 DEF WL!Untimed, UntimedIn
<1>4. WL!Due(f, k, t) = DueIn(q, f, t)
  BY <1>2, <1>3 DEF WL!Due, DueIn
<1>5. WL!Remaining(f, k, t) = StayIn(q, f, t)
  BY <1>2, <1>4 DEF WL!Remaining, StayIn
<1>6. /\ w.expired = DueIn(q, f, t)
      /\ UntimedIn(q, f) # {} => w.ret = -1
      /\ UntimedIn(q, f) = {} =>
           \/ w.ret = 0 /\ StayIn(q, f, t) = {}
           \/ \E m \in StayIn(q, f, t) :
                /\ t[m] > 0 /\ w.ret = t[m] /\ \A l \in StayIn(q, f, t) : t[l] <= t[m]
  BY <1>1, WalkResult DEF q
<1>7. DueIn(q, f, t) \subseteq ToSet(q)
  BY DEF DueIn
<1>8. UntimedIn(q, f) \subseteq StayIn(q, f, t)
  BY DEF UntimedIn, StayIn, DueIn
<1>9. CASE UntimedIn(q, f) # {}
  <2>0. -1 \in Int /\ -1 <= 0 /\ -1 # 0
    OBVIOUS
  <2>1. w.ret = -1 /\ WL!Remaining(f, k, t) # {} /\ WL!Untimed(f, k) # {}
    BY <1>3, <1>5, <1>6, <1>8, <1>9
  <2>2. SetExpireTimer(w.ret) => /\ expire_pending' = FALSE /\ expire_left' = 0
                                 /\ suspend_pending' = suspend_pending
    BY <2>0, <2>1, TimerCases
  <2>3. SetExpireTimer(w.ret) => WL!SetTimer(f, k, t) /\ suspend_pending' \in BOOLEAN
    BY <2>1, <2>2 DEF WL!SetTimer
  <2> QED BY <1>4, <1>6, <1>7, <2>1, <2>3 DEF q
<1>10. CASE UntimedIn(q, f) = {} /\ w.ret = 0 /\ StayIn(q, f, t) = {}
  <2>0. 0 \in Int /\ 0 <= 0
    OBVIOUS
  <2>1. SetExpireTimer(w.ret) => /\ expire_pending' = FALSE /\ expire_left' = 0
                                 /\ suspend_pending' = TRUE
    BY <1>10, <2>0, TimerCases
  <2>2. SetExpireTimer(w.ret) => WL!SetTimer(f, k, t) /\ suspend_pending' \in BOOLEAN
    BY <1>5, <1>10, <2>1 DEF WL!SetTimer
  <2> QED BY <1>4, <1>5, <1>6, <1>7, <1>10, <2>2 DEF q
<1>11. CASE /\ UntimedIn(q, f) = {}
            /\ \E m \in StayIn(q, f, t) :
                 /\ t[m] > 0 /\ w.ret = t[m] /\ \A l \in StayIn(q, f, t) : t[l] <= t[m]
  <2>1. PICK m \in StayIn(q, f, t) :
               /\ t[m] > 0 /\ w.ret = t[m] /\ \A l \in StayIn(q, f, t) : t[l] <= t[m]
    BY <1>11
  <2>2. m \in Lock /\ t[m] \in Int
    BY <1>1, WakeLockListAssumption DEF StayIn, ToSet, TimeMap, WL!Long
  <2>3. SetExpireTimer(w.ret) => /\ expire_pending' = TRUE /\ expire_left' = t[m]
                                 /\ suspend_pending' = suspend_pending
    BY <2>1, <2>2, TimerCases
  <2>4. SetExpireTimer(w.ret) => WL!SetTimer(f, k, t) /\ suspend_pending' \in BOOLEAN
    BY <1>3, <1>5, <1>11, <2>1, <2>3 DEF WL!SetTimer
  <2> QED BY <1>4, <1>5, <1>6, <1>7, <2>1, <2>2, <2>4 DEF q
<1> QED BY <1>6, <1>9, <1>10, <1>11

\* f and g differ at most in PREVENTING_SUSPEND.
SameFlags(f, g) ==
  \A l \in Lock, b \in {"INITIALIZED", "ACTIVE", "AUTO_EXPIRE"} : b \in g[l] <=> b \in f[l]

\* update_sleep_wait_stats_locked changes no flag but PREVENTING_SUSPEND.
LEMMA StatKeeps ==
  ASSUME NEW f \in FlagMap, NEW k, NEW t, NEW l,
         NEW s, s \in {WL!MarkPreventing(f, k, t), WL!StatFlags(l, f, k, t)}
  PROVE  s \in FlagMap /\ SameFlags(f, s)
<1> USE DEF FlagMap, WL!Flag, SameFlags
<1>1. WL!MarkPreventing(f, k, t) \in FlagMap /\ WL!ClearPreventing(f, k) \in FlagMap
  BY DEF WL!MarkPreventing, WL!ClearPreventing
<1>2. \A x \in Lock, b \in {"INITIALIZED", "ACTIVE", "AUTO_EXPIRE"} :
        /\ b \in WL!MarkPreventing(f, k, t)[x] <=> b \in f[x]
        /\ b \in WL!ClearPreventing(f, k)[x] <=> b \in f[x]
  BY DEF WL!MarkPreventing, WL!ClearPreventing
<1>3. s \in {WL!MarkPreventing(f, k, t), WL!ClearPreventing(f, k), f}
  BY DEF WL!StatFlags
<1> HIDE DEF FlagMap, WL!Flag
<1> QED BY <1>1, <1>2, <1>3

\* The flags that wake_lock_internal leaves on the lock.
LEMMA LockFlagsFacts ==
  ASSUME ListTypeOK, NEW l \in Lock, NEW b \in BOOLEAN
  PROVE  /\ WL!LockFlags(l, b) \subseteq WL!Flag
         /\ "ACTIVE" \in WL!LockFlags(l, b)
         /\ "AUTO_EXPIRE" \in WL!LockFlags(l, b) <=> b
         /\ "INITIALIZED" \in flags[l] => "INITIALIZED" \in WL!LockFlags(l, b)
BY DEF ListTypeOK, FlagMap, WL!Flag, WL!LockFlags, WL!UnlockStat

-----------------------------------------------------------------------------
(* The operations.                                                         *)

\* The parts of the invariant.
LEMMA InvParts ==
  ASSUME ListInv
  PROVE  /\ ListTypeOK /\ flags \in FlagMap /\ left \in TimeMap /\ active \in ListMap
         /\ inactive \in SUBSET Lock /\ suspend_pending \in BOOLEAN
         /\ RightLists(active) /\ UntimedFirst(active["SUSPEND"], flags)
         /\ \A ty \in LockType : \A x \in ToSet(active[ty]) :
              x \in Lock /\ {"INITIALIZED", "ACTIVE"} \subseteq flags[x]
BY DEF ListInv, ListTypeOK, ListsHoldActive, RightLists, ListMap, ToSet

\* wake_lock_internal with a timeout.
LEMMA LockTimedStep ==
  ASSUME ListInv, NEW l \in Lock, NEW timeout \in WL!Long, LockTimed(l, timeout)
  PROVE  ListInv' /\ WL!LockStep(l, TRUE, timeout)
<1> DEFINE act == list_add_tail(list_del(active, l), l)
           inact == inactive \ {l}
           f == [flags EXCEPT ![l] = WL!LockFlags(l, TRUE)]
           t == [left EXCEPT ![l] = timeout]
           k == LinkOf(act, inact)
           s == WL!StatFlags(l, f, k, t)
           w == has_wake_lock_locked(act["SUSPEND"], s, t)
<1>0. /\ ListTypeOK /\ flags \in FlagMap /\ left \in TimeMap /\ active \in ListMap
      /\ inactive \in SUBSET Lock /\ suspend_pending \in BOOLEAN
      /\ RightLists(active) /\ UntimedFirst(active["SUSPEND"], flags)
  BY DEF ListInv, ListTypeOK, ListsHoldActive, RightLists
<1>1. /\ act \in ListMap /\ RightLists(act)
      /\ \A ty \in LockType :
           ToSet(act[ty]) = IF ty = TypeOf(l) THEN ToSet(active[ty]) \cup {l} ELSE ToSet(active[ty])
  BY <1>0, AddFacts
<1>2. k = [LinkOf(active, inactive) EXCEPT ![l] = "active"]
  <2>1. act \in {list_add(list_del(active, l), l), list_add_tail(list_del(active, l), l)}
    OBVIOUS
  <2> HIDE DEF act
  <2> QED BY <1>0, <2>1, LinkAdded
<1>3. f \in FlagMap /\ t \in TimeMap /\ "AUTO_EXPIRE" \in f[l] /\ inact \in SUBSET Lock
  BY <1>0, LockFlagsFacts DEF FlagMap, TimeMap
<1>4. SameTimed(flags, f, Lock \ {l})
  BY <1>0 DEF SameTimed, FlagMap
<1>5. UntimedFirst(act["SUSPEND"], f)
  BY <1>0, <1>3, <1>4, AddOrder
<1>6. "INITIALIZED" \in flags[l] /\ UNCHANGED expire_running
  BY DEF LockTimed
<1>7. \A ty \in LockType : \A x \in ToSet(act[ty]) : x \in Lock /\ {"INITIALIZED", "ACTIVE"} \subseteq f[x]
  <2>1. SUFFICES ASSUME NEW ty \in LockType, NEW x \in ToSet(act[ty])
                 PROVE  x \in Lock /\ {"INITIALIZED", "ACTIVE"} \subseteq f[x]
    OBVIOUS
  <2>2. x \in Lock
    BY <1>1 DEF ListMap, ToSet
  <2>3. CASE x = l
    BY <1>0, <1>6, <2>3, LockFlagsFacts DEF FlagMap
  <2>4. CASE x # l
    <3>1. x \in ToSet(active[ty])
      BY <1>1, <2>4
    <3>2. {"INITIALIZED", "ACTIVE"} \subseteq flags[x]
      BY <3>1 DEF ListInv, ListsHoldActive
    <3> QED BY <1>0, <2>2, <2>4, <3>2 DEF FlagMap
  <2> QED BY <2>2, <2>3, <2>4
<1>8. CASE TypeOf(l) = "SUSPEND"
  <2>1. AfterWalk(w.expired, s, t, act, inact) /\ SetExpireTimer(w.ret) /\ event' = TRUE
    BY <1>8 DEF LockTimed
  <2>2. s \in FlagMap /\ SameFlags(f, s)
    <3>1. s \in {WL!MarkPreventing(f, k, t), WL!StatFlags(l, f, k, t)}
      OBVIOUS
    <3> HIDE DEF f, t, k, s
    <3> QED BY <1>3, <3>1, StatKeeps
  <2> HIDE DEF act, inact, f, t, k, s, w
  <2>3. act["SUSPEND"] \in Seq(Lock)
    BY <1>1 DEF ListMap, LockType
  <2>4. \A i \in 1 .. Len(act["SUSPEND"]) : act["SUSPEND"][i] \in Lock
    BY <2>3
  <2>5. UntimedFirst(act["SUSPEND"], s)
    BY <1>5, <2>2, <2>4 DEF UntimedFirst, SameFlags
  <2>6. \A ty \in LockType : \A x \in ToSet(act[ty]) : {"INITIALIZED", "ACTIVE"} \subseteq s[x]
    BY <1>7, <2>2 DEF SameFlags
  <2>7. /\ w.expired = WL!Due(s, k, t) /\ w.expired \subseteq ToSet(act["SUSPEND"])
        /\ WL!SetTimer(s, k, t) /\ suspend_pending' \in BOOLEAN
    <3>1. k = LinkOf(act, inact) /\ w = has_wake_lock_locked(act["SUSPEND"], s, t)
      BY DEF k, w
    <3> QED BY <1>0, <1>1, <1>3, <2>1, <2>2, <2>5, <3>1, WalkRefines
  <2>8. ListInv' /\ LinkOf(active', inactive') =
          [x \in Lock |-> IF x \in w.expired THEN "inactive" ELSE k[x]]
    BY <1>1, <1>3, <2>1, <2>2, <2>5, <2>6, <2>7, AfterWalkFacts DEF k
  <2>9. /\ flags' = WL!WalkFlags(s, k, t) /\ left' = WL!WalkLeft(s, k, t)
        /\ LinkOf(active', inactive') = WL!WalkLink(s, k, t)
    BY <2>1, <2>7, <2>8 DEF AfterWalk, WL!WalkFlags, WL!WalkLeft, WL!WalkLink
  <2>10. l \notin IdleLock
    BY <1>8 DEF TypeOf
  <2>11. WL!LockStep(l, TRUE, timeout)
    <3> USE DEF f, t, s
    <3> QED BY <1>2, <1>6, <2>1, <2>7, <2>9, <2>10 DEF WL!LockStep
  <2> QED BY <2>8, <2>11
<1>9. CASE TypeOf(l) # "SUSPEND"
  <2>1. /\ AfterWalk({}, f, t, act, inact)
        /\ UNCHANGED <<expire_pending, expire_left, suspend_pending, event>>
    BY <1>9 DEF LockTimed
  <2> HIDE DEF act, inact, f, t, s, w
  <2>2. ListInv' /\ LinkOf(active', inactive') = [x \in Lock |-> k[x]]
    <3>1. {} \subseteq ToSet(act["SUSPEND"]) /\ suspend_pending' \in BOOLEAN
      BY <1>0, <2>1
    <3>2. ListInv' /\ LinkOf(active', inactive') = [x \in Lock |-> IF x \in {} THEN "inactive" ELSE k[x]]
      BY <1>1, <1>3, <1>5, <1>7, <2>1, <3>1, AfterWalkFacts
    <3> QED BY <3>2
  <2>3. flags' = f /\ left' = t
    BY <1>3, <2>1 DEF AfterWalk, FlagMap, TimeMap
  <2>4. LinkOf(active', inactive') = [LinkOf(active, inactive) EXCEPT ![l] = "active"]
    BY <1>2, <2>2 DEF LinkOf
  <2>5. l \in IdleLock
    BY <1>9 DEF TypeOf
  <2> QED BY <1>6, <2>1, <2>2, <2>3, <2>4, <2>5 DEF WL!LockStep, f, t
<1> QED BY <1>8, <1>9

\* wake_lock_internal without a timeout does not walk: the lock itself is one that would
\* have kept the walk from expiring others.
LEMMA LockUntimedStep ==
  ASSUME ListInv, NEW l \in Lock, wake_lock(l)
  PROVE  ListInv' /\ WL!wake_lock(l)
<1> DEFINE act == list_add(list_del(active, l), l)
           inact == inactive \ {l}
           f == [flags EXCEPT ![l] = WL!LockFlags(l, FALSE)]
           t == [left EXCEPT ![l] = 0]
           k == LinkOf(act, inact)
           s == WL!StatFlags(l, f, k, t)
<1>0. /\ ListTypeOK /\ flags \in FlagMap /\ left \in TimeMap /\ active \in ListMap
      /\ inactive \in SUBSET Lock /\ suspend_pending \in BOOLEAN
      /\ RightLists(active) /\ UntimedFirst(active["SUSPEND"], flags)
  BY InvParts
<1>1. /\ act \in ListMap /\ RightLists(act)
      /\ \A ty \in LockType :
           ToSet(act[ty]) = IF ty = TypeOf(l) THEN ToSet(active[ty]) \cup {l} ELSE ToSet(active[ty])
  BY <1>0, AddFacts
<1>2. k = [LinkOf(active, inactive) EXCEPT ![l] = "active"]
  <2>1. act \in {list_add(list_del(active, l), l), list_add_tail(list_del(active, l), l)}
    OBVIOUS
  <2> HIDE DEF act
  <2> QED BY <1>0, <2>1, LinkAdded
<1>3. f \in FlagMap /\ t \in TimeMap /\ "AUTO_EXPIRE" \notin f[l] /\ inact \in SUBSET Lock
  <2>1. 0 \in WL!Long /\ FALSE \in BOOLEAN
    BY WakeLockListAssumption DEF WL!Long
  <2>2. WL!LockFlags(l, FALSE) \subseteq WL!Flag /\ "AUTO_EXPIRE" \notin WL!LockFlags(l, FALSE)
    BY <1>0, <2>1, LockFlagsFacts
  <2>3. f \in FlagMap /\ "AUTO_EXPIRE" \notin f[l]
    BY <1>0, <2>2 DEF FlagMap
  <2>4. t \in TimeMap
    BY <1>0, <2>1 DEF TimeMap
  <2> QED BY <1>0, <2>3, <2>4
<1>4. SameTimed(flags, f, Lock \ {l})
  BY <1>0 DEF SameTimed, FlagMap
<1>5. UntimedFirst(act["SUSPEND"], f)
  BY <1>0, <1>3, <1>4, AddOrder
<1>6. "INITIALIZED" \in flags[l] /\ UNCHANGED <<expire_running, suspend_pc>>
  BY DEF wake_lock
<1>7. \A ty \in LockType : \A x \in ToSet(act[ty]) : x \in Lock /\ {"INITIALIZED", "ACTIVE"} \subseteq f[x]
  <2>1. SUFFICES ASSUME NEW ty \in LockType, NEW x \in ToSet(act[ty])
                 PROVE  x \in Lock /\ {"INITIALIZED", "ACTIVE"} \subseteq f[x]
    OBVIOUS
  <2>2. x \in Lock
    BY <1>1 DEF ListMap, ToSet
  <2>3. CASE x = l
    BY <1>0, <1>6, <2>3, LockFlagsFacts DEF FlagMap
  <2>4. CASE x # l
    <3>1. x \in ToSet(active[ty])
      BY <1>1, <2>4
    <3>2. {"INITIALIZED", "ACTIVE"} \subseteq flags[x]
      BY <3>1 DEF ListInv, ListsHoldActive
    <3> QED BY <1>0, <2>2, <2>4, <3>2 DEF FlagMap
  <2> QED BY <2>2, <2>3, <2>4
<1>8. CASE TypeOf(l) = "SUSPEND"
  <2>1. AfterWalk({}, s, t, act, inact) /\ SetExpireTimer(-1) /\ event' = TRUE
    BY <1>8 DEF wake_lock
  <2>2. s \in FlagMap /\ SameFlags(f, s)
    <3>1. s \in {WL!MarkPreventing(f, k, t), WL!StatFlags(l, f, k, t)}
      OBVIOUS
    <3> HIDE DEF f, t, k, s
    <3> QED BY <1>3, <3>1, StatKeeps
  <2> HIDE DEF act, inact, f, t, k, s
  <2>3. act["SUSPEND"] \in Seq(Lock)
    BY <1>1 DEF ListMap, LockType
  <2>4. \A i \in 1 .. Len(act["SUSPEND"]) : act["SUSPEND"][i] \in Lock
    BY <2>3
  <2>5. UntimedFirst(act["SUSPEND"], s)
    BY <1>5, <2>2, <2>4 DEF UntimedFirst, SameFlags
  <2>6. \A ty \in LockType : \A x \in ToSet(act[ty]) : {"INITIALIZED", "ACTIVE"} \subseteq s[x]
    BY <1>7, <2>2 DEF SameFlags
  <2>7. WL!Due(s, k, t) = {} /\ WL!Untimed(s, k) # {}
    <3>1. l \in WL!Holding(k)
      BY <1>2, <1>8 DEF WL!Holding, TypeOf, LinkOf
    <3>2. l \in WL!Untimed(s, k)
      BY <1>3, <2>2, <3>1 DEF WL!Untimed, SameFlags
    <3> QED BY <3>2 DEF WL!Due
  <2>8. WL!SetTimer(s, k, t) /\ suspend_pending' \in BOOLEAN
    <3>1. -1 \in Int /\ -1 <= 0 /\ -1 # 0
      OBVIOUS
    <3>2. expire_pending' = FALSE /\ expire_left' = 0 /\ suspend_pending' = suspend_pending
      BY <1>0, <2>1, <3>1, TimerCases
    <3> QED BY <1>0, <2>7, <3>2 DEF WL!SetTimer
  <2>9. ListInv' /\ LinkOf(active', inactive') = [x \in Lock |-> IF x \in {} THEN "inactive" ELSE k[x]]
    <3>1. {} \subseteq ToSet(act["SUSPEND"])
      OBVIOUS
    <3> QED BY <1>1, <1>3, <2>1, <2>2, <2>5, <2>6, <2>8, <3>1, AfterWalkFacts DEF k
  <2>10. /\ flags' = WL!WalkFlags(s, k, t) /\ left' = WL!WalkLeft(s, k, t)
         /\ LinkOf(active', inactive') = WL!WalkLink(s, k, t)
    BY <2>1, <2>7, <2>9 DEF AfterWalk, WL!WalkFlags, WL!WalkLeft, WL!WalkLink
  <2>11. l \notin IdleLock
    BY <1>8 DEF TypeOf
  <2>12. WL!LockStep(l, FALSE, 0)
    <3> USE DEF f, t, s
    <3> QED BY <1>2, <1>6, <2>1, <2>8, <2>10, <2>11 DEF WL!LockStep
  <2> QED BY <1>6, <2>9, <2>12 DEF WL!wake_lock
<1>9. CASE TypeOf(l) # "SUSPEND"
  <2>1. /\ AfterWalk({}, f, t, act, inact)
        /\ UNCHANGED <<expire_pending, expire_left, suspend_pending, event>>
    BY <1>9 DEF wake_lock
  <2> HIDE DEF act, inact, f, t, s
  <2>2. ListInv' /\ LinkOf(active', inactive') = [x \in Lock |-> k[x]]
    <3>1. {} \subseteq ToSet(act["SUSPEND"]) /\ suspend_pending' \in BOOLEAN
      BY <1>0, <2>1
    <3>2. ListInv' /\ LinkOf(active', inactive') = [x \in Lock |-> IF x \in {} THEN "inactive" ELSE k[x]]
      <4>1. \A ty \in LockType : \A x \in ToSet(act[ty]) : {"INITIALIZED", "ACTIVE"} \subseteq f[x]
        BY <1>7
      <4>2. AfterWalk({}, f, t, act, inact)
        BY <2>1
      <4> DEFINE X == {}
      <4>3. AfterWalk(X, f, t, act, inact) /\ X \subseteq ToSet(act["SUSPEND"])
        BY <4>2
      <4> HIDE DEF k, X
      <4>4. ListInv' /\ LinkOf(active', inactive') =
              [x \in Lock |-> IF x \in X THEN "inactive" ELSE LinkOf(act, inact)[x]]
        BY <1>1, <1>3, <1>5, <3>1, <4>1, <4>3, AfterWalkFacts
      <4> QED BY <4>4 DEF k, X
    <3> QED BY <3>2
  <2>3. flags' = f /\ left' = t
    BY <1>3, <2>1 DEF AfterWalk, FlagMap, TimeMap
  <2>4. LinkOf(active', inactive') = [LinkOf(active, inactive) EXCEPT ![l] = "active"]
    BY <1>2, <2>2 DEF LinkOf
  <2>5. l \in IdleLock
    BY <1>9 DEF TypeOf
  <2>6. WL!LockStep(l, FALSE, 0)
    BY <1>6, <2>1, <2>3, <2>4, <2>5 DEF WL!LockStep, f, t
  <2> QED BY <1>6, <2>2, <2>6 DEF WL!wake_lock
<1> QED BY <1>8, <1>9

\* Marking the locks before the walk, as the code does, or after it, as WakeLock does,
\* leaves the same flags: the walk unmarks what it expires.
LEMMA MarkThenExpire ==
  ASSUME NEW f \in FlagMap, NEW k \in [Lock -> {"none", "inactive", "active"}], NEW t \in TimeMap,
         \A x \in WL!Holding(k) : "ACTIVE" \in f[x]
  PROVE  [x \in Lock |-> IF x \in WL!Due(f, k, t)
                         THEN WL!UnlockStat(WL!MarkPreventing(f, k, t)[x]) \ WL!ClearOnUnlock
                         ELSE WL!MarkPreventing(f, k, t)[x]]
           = WL!MarkPreventing(WL!WalkFlags(f, k, t), WL!WalkLink(f, k, t), WL!WalkLeft(f, k, t))
<1> DEFINE D == WL!Due(f, k, t)
           fw == WL!WalkFlags(f, k, t)
           kw == WL!WalkLink(f, k, t)
           tw == WL!WalkLeft(f, k, t)
           mf == WL!MarkPreventing(f, k, t)
           mw == WL!MarkPreventing(fw, kw, tw)
<1>1. \A x \in D : x \in WL!Holding(k) /\ "AUTO_EXPIRE" \in f[x] /\ t[x] <= 0 /\ "ACTIVE" \in f[x]
  BY DEF WL!Due, WL!Untimed
<1>2. \A x \in Lock : /\ x \in D => fw[x] = WL!UnlockStat(f[x]) \ WL!ClearOnUnlock /\ kw[x] = "inactive"
                      /\ x \notin D => fw[x] = f[x] /\ kw[x] = k[x] /\ tw[x] = t[x]
  BY DEF WL!WalkFlags, WL!WalkLink, WL!WalkLeft
<1>3. \A x \in Lock : x \in WL!Holding(kw) <=> x \in WL!Holding(k) /\ x \notin D
  <2> HIDE DEF kw, D
  <2> QED BY <1>2 DEF WL!Holding
<1>4. \A x \in Lock : mf[x] = IF x \notin WL!Holding(k) THEN f[x]
                              ELSE IF "AUTO_EXPIRE" \in f[x] /\ t[x] <= 0
                                   THEN f[x] \ {"PREVENTING_SUSPEND"}
                                   ELSE f[x] \cup {"PREVENTING_SUSPEND"}
  BY DEF WL!MarkPreventing
<1>5. \A x \in Lock : mw[x] = IF x \notin WL!Holding(kw) THEN fw[x]
                              ELSE IF "AUTO_EXPIRE" \in fw[x] /\ tw[x] <= 0
                                   THEN fw[x] \ {"PREVENTING_SUSPEND"}
                                   ELSE fw[x] \cup {"PREVENTING_SUSPEND"}
  BY DEF WL!MarkPreventing
<1>6. mw = [x \in Lock |-> mw[x]]
  BY DEF WL!MarkPreventing
<1> HIDE DEF D, fw, kw, tw, mf, mw
<1>7. ASSUME NEW x \in Lock
      PROVE  mw[x] = IF x \in D THEN WL!UnlockStat(mf[x]) \ WL!ClearOnUnlock ELSE mf[x]
  <2>1. CASE x \in D
    <3>1. mf[x] = f[x] \ {"PREVENTING_SUSPEND"} /\ "ACTIVE" \in f[x]
      BY <1>1, <1>4, <2>1
    <3>2. WL!UnlockStat(mf[x]) = WL!UnlockStat(f[x])
      BY <3>1 DEF WL!UnlockStat
    <3>3. mw[x] = WL!UnlockStat(f[x]) \ WL!ClearOnUnlock
      BY <1>2, <1>3, <1>5, <2>1
    <3> QED BY <2>1, <3>2, <3>3
  <2>2. CASE x \notin D
    <3>1. fw[x] = f[x] /\ tw[x] = t[x] /\ (x \in WL!Holding(kw) <=> x \in WL!Holding(k))
      BY <1>2, <1>3, <2>2
    <3>2. mw[x] = mf[x]
      BY <1>4, <1>5, <3>1
    <3> QED BY <2>2, <3>2
  <2> QED BY <2>1, <2>2
<1>8. mw = [x \in Lock |-> IF x \in D THEN WL!UnlockStat(mf[x]) \ WL!ClearOnUnlock ELSE mf[x]]
  BY <1>6, <1>7
<1> QED BY <1>8 DEF D, fw, kw, tw, mf, mw

\* wake_unlock.
LEMMA UnlockStep ==
  ASSUME ListInv, NEW l \in Lock, wake_unlock(l)
  PROVE  ListInv' /\ WL!wake_unlock(l)
<1> DEFINE act == list_del(active, l)
           inact == inactive \cup {l}
           f == [flags EXCEPT ![l] = WL!UnlockStat(flags[l]) \ WL!ClearOnUnlock]
           t == [left EXCEPT ![l] = 0]
           k == LinkOf(act, inact)
           w == has_wake_lock_locked(act["SUSPEND"], f, t)
           m == IF l = Main THEN WL!MarkPreventing(f, k, t) ELSE f
<1>0. /\ ListTypeOK /\ flags \in FlagMap /\ left \in TimeMap /\ active \in ListMap
      /\ inactive \in SUBSET Lock /\ suspend_pending \in BOOLEAN
      /\ RightLists(active) /\ UntimedFirst(active["SUSPEND"], flags)
      /\ \A ty \in LockType : \A x \in ToSet(active[ty]) :
           x \in Lock /\ {"INITIALIZED", "ACTIVE"} \subseteq flags[x]
  BY InvParts
<1>1. /\ act \in ListMap /\ RightLists(act)
      /\ \A ty \in LockType : ToSet(act[ty]) = ToSet(active[ty]) \ {l}
  BY <1>0, DelFacts
<1>2. k = [LinkOf(active, inactive) EXCEPT ![l] = "inactive"]
  BY <1>0, LinkAfter
<1>3. f \in FlagMap /\ t \in TimeMap /\ inact \in SUBSET Lock
  <2>1. 0 \in WL!Long
    BY WakeLockListAssumption DEF WL!Long
  <2>2. t \in TimeMap
    BY <1>0, <2>1 DEF TimeMap
  <2>3. f \in FlagMap
    BY <1>0 DEF FlagMap, WL!UnlockStat
  <2> QED BY <1>0, <2>2, <2>3
<1>4. SameTimed(flags, f, Lock \ {l})
  BY <1>0 DEF SameTimed, FlagMap
<1>5. UntimedFirst(act["SUSPEND"], f)
  BY <1>0, <1>4, AddOrder
<1>6. "INITIALIZED" \in flags[l] /\ UNCHANGED <<expire_running, suspend_pc, event>>
  BY DEF wake_unlock
<1>7. \A ty \in LockType : \A x \in ToSet(act[ty]) : {"INITIALIZED", "ACTIVE"} \subseteq f[x]
  BY <1>0, <1>1 DEF FlagMap
<1>8. CASE TypeOf(l) = "SUSPEND"
  <2>1. AfterWalk(w.expired, m, t, act, inact) /\ SetExpireTimer(w.ret)
    BY <1>8 DEF wake_unlock
  <2>2. m \in FlagMap /\ SameFlags(f, m)
    <3> HIDE DEF f, t, k
    <3>1. CASE l = Main
      <4>1. m = WL!MarkPreventing(f, k, t)
        BY <3>1
      <4> HIDE DEF m
      <4>2. m \in {WL!MarkPreventing(f, k, t), WL!StatFlags(l, f, k, t)}
        BY <4>1
      <4> QED BY <1>3, <4>2, StatKeeps
    <3>2. CASE l # Main
      BY <1>3, <3>2 DEF SameFlags
    <3> QED BY <3>1, <3>2
  <2>3. m = IF l = Main THEN WL!MarkPreventing(f, k, t) ELSE f
    OBVIOUS
  <2> HIDE DEF act, inact, f, t, k, m, w
  <2>4. act["SUSPEND"] \in Seq(Lock) /\ "SUSPEND" \in LockType
    BY <1>1 DEF ListMap, LockType
  <2>5. UntimedFirst(act["SUSPEND"], m)
    <3>1. \A i \in 1 .. Len(act["SUSPEND"]) : act["SUSPEND"][i] \in Lock
      BY <2>4
    <3> QED BY <1>5, <2>2, <3>1 DEF UntimedFirst, SameFlags
  <2>6. \A ty \in LockType : \A x \in ToSet(act[ty]) : {"INITIALIZED", "ACTIVE"} \subseteq m[x]
    BY <1>0, <1>1, <1>7, <2>2 DEF SameFlags
  <2>7. /\ w.expired = WL!Due(f, k, t) /\ w.expired \subseteq ToSet(act["SUSPEND"])
        /\ WL!SetTimer(f, k, t) /\ suspend_pending' \in BOOLEAN
    <3>1. k = LinkOf(act, inact) /\ w = has_wake_lock_locked(act["SUSPEND"], f, t)
      BY DEF k, w
    <3> QED BY <1>0, <1>1, <1>3, <1>5, <2>1, <3>1, WalkRefines
  <2>8. ListInv' /\ LinkOf(active', inactive') =
          [x \in Lock |-> IF x \in w.expired THEN "inactive" ELSE k[x]]
    BY <1>1, <1>3, <2>1, <2>2, <2>5, <2>6, <2>7, AfterWalkFacts DEF k
  <2>9. left' = WL!WalkLeft(f, k, t) /\ LinkOf(active', inactive') = WL!WalkLink(f, k, t)
    BY <2>1, <2>7, <2>8 DEF AfterWalk, WL!WalkLeft, WL!WalkLink
  <2>10. flags' = [x \in Lock |-> IF x \in WL!Due(f, k, t)
                                  THEN WL!UnlockStat(m[x]) \ WL!ClearOnUnlock ELSE m[x]]
    BY <2>1, <2>7 DEF AfterWalk
  <2>11. flags' = IF l = Main
                  THEN WL!MarkPreventing(WL!WalkFlags(f, k, t), WL!WalkLink(f, k, t), WL!WalkLeft(f, k, t))
                  ELSE WL!WalkFlags(f, k, t)
    <3>1. CASE l = Main
      <4>1. /\ k \in [Lock -> {"none", "inactive", "active"}]
            /\ WL!Holding(k) = ToSet(act["SUSPEND"])
        BY <1>1, <1>3, LinkFacts DEF k
      <4>2. \A x \in WL!Holding(k) : "ACTIVE" \in f[x]
        BY <1>7, <2>4, <4>1
      <4>3. m = WL!MarkPreventing(f, k, t)
        BY <2>3, <3>1
      <4> QED BY <1>3, <2>10, <3>1, <4>1, <4>2, <4>3, MarkThenExpire
    <3>2. CASE l # Main
      BY <2>3, <2>10, <3>2 DEF WL!WalkFlags
    <3> QED BY <3>1, <3>2
  <2>12. l \notin IdleLock
    BY <1>8 DEF TypeOf
  <2>13. WL!wake_unlock(l)
    <3> USE DEF f, t
    <3> QED BY <1>2, <1>6, <2>7, <2>9, <2>11, <2>12 DEF WL!wake_unlock
  <2> QED BY <2>8, <2>13
<1>9. CASE TypeOf(l) # "SUSPEND"
  <2> DEFINE X == {}
  <2>1. /\ AfterWalk(X, f, t, act, inact) /\ X \subseteq ToSet(act["SUSPEND"])
        /\ UNCHANGED <<expire_pending, expire_left, suspend_pending>>
    BY <1>9 DEF wake_unlock
  <2> HIDE DEF act, inact, f, t, w, m, X
  <2>2. suspend_pending' \in BOOLEAN
    BY <1>0, <2>1
  <2>3. ListInv' /\ LinkOf(active', inactive') =
          [x \in Lock |-> IF x \in X THEN "inactive" ELSE LinkOf(act, inact)[x]]
    <3>1. AfterWalk(X, f, t, act, inact) /\ X \subseteq ToSet(act["SUSPEND"])
      BY <2>1
    <3>2. act \in ListMap /\ RightLists(act)
      BY <1>1
    <3> HIDE DEF k
    <3>3. \A ty \in LockType : \A x \in ToSet(act[ty]) : {"INITIALIZED", "ACTIVE"} \subseteq f[x]
      BY <1>7
    <3> QED BY <1>3, <1>5, <2>2, <3>1, <3>2, <3>3, AfterWalkFacts
  <2>4. flags' = f /\ left' = t
    BY <1>3, <2>1 DEF AfterWalk, FlagMap, TimeMap, X
  <2>5. LinkOf(active', inactive') = [LinkOf(active, inactive) EXCEPT ![l] = "inactive"]
    BY <1>2, <2>3 DEF LinkOf, X
  <2>6. l \in IdleLock
    BY <1>9 DEF TypeOf
  <2>7. WL!wake_unlock(l)
    BY <1>6, <2>1, <2>4, <2>5, <2>6 DEF WL!wake_unlock, f, t
  <2> QED BY <2>3, <2>7
<1> QED BY <1>8, <1>9

\* has_wake_lock, for its five callers.
LEMMA PollStep ==
  ASSUME ListInv, NEW ret, has_wake_lock(ret), suspend_pending' \in BOOLEAN
  PROVE  /\ ListInv' /\ WL!has_wake_lock
         /\ ret = 0 <=> WL!Remaining(flags, LinkOf(active, inactive), left) = {}
<1> DEFINE w == has_wake_lock_locked(active["SUSPEND"], flags, left)
           k == LinkOf(active, inactive)
<1>1. ret = w.ret /\ AfterWalk(w.expired, flags, left, active, inactive)
  BY DEF has_wake_lock
<1>2. /\ flags \in FlagMap /\ left \in TimeMap /\ active \in ListMap
      /\ inactive \in SUBSET Lock /\ suspend_pending \in BOOLEAN
      /\ RightLists(active) /\ UntimedFirst(active["SUSPEND"], flags)
      /\ \A ty \in LockType : \A x \in ToSet(active[ty]) : {"INITIALIZED", "ACTIVE"} \subseteq flags[x]
  BY InvParts
<1>3. k = LinkOf(active, inactive) /\ w = has_wake_lock_locked(active["SUSPEND"], flags, left)
  OBVIOUS
<1> HIDE DEF w, k
<1>4. /\ w.expired = WL!Due(flags, k, left) /\ w.expired \subseteq ToSet(active["SUSPEND"])
      /\ w.ret = 0 <=> WL!Remaining(flags, k, left) = {}
  BY <1>2, <1>3, WalkRefines
<1>5. ListInv' /\ LinkOf(active', inactive') =
        [x \in Lock |-> IF x \in w.expired THEN "inactive" ELSE k[x]]
  BY <1>1, <1>2, <1>4, AfterWalkFacts DEF k
<1>6. /\ flags' = WL!WalkFlags(flags, k, left) /\ left' = WL!WalkLeft(flags, k, left)
      /\ LinkOf(active', inactive') = WL!WalkLink(flags, k, left)
  BY <1>1, <1>4, <1>5 DEF AfterWalk, WL!WalkFlags, WL!WalkLeft, WL!WalkLink
<1> QED BY <1>1, <1>4, <1>5, <1>6 DEF WL!has_wake_lock, k

\* wake_lock_init: the lock was on no list.
LEMMA InitLockStep ==
  ASSUME ListInv, NEW l \in Lock, wake_lock_init(l)
  PROVE  ListInv' /\ WL!wake_lock_init(l)
<1>0. /\ ListTypeOK /\ flags \in FlagMap /\ left \in TimeMap /\ active \in ListMap
      /\ inactive \in SUBSET Lock /\ suspend_pending \in BOOLEAN
      /\ RightLists(active) /\ UntimedFirst(active["SUSPEND"], flags)
      /\ \A ty \in LockType : \A x \in ToSet(active[ty]) :
           x \in Lock /\ {"INITIALIZED", "ACTIVE"} \subseteq flags[x]
  BY InvParts
<1>1. /\ "INITIALIZED" \notin flags[l] /\ flags' = [flags EXCEPT ![l] = {"INITIALIZED"}]
      /\ left' = [left EXCEPT ![l] = 0] /\ inactive' = inactive \cup {l} /\ active' = active
      /\ UNCHANGED <<timer_vars, suspend_pending, suspend_pc, event>>
  BY DEF wake_lock_init
<1>2. \A ty \in LockType : l \notin ToSet(active[ty])
  BY <1>0, <1>1
<1>3. \A ty \in LockType : \A x \in ToSet(active[ty]) : flags'[x] = flags[x]
  BY <1>0, <1>1, <1>2 DEF FlagMap
<1>4. ListTypeOK'
  <2>1. 0 \in WL!Long
    BY WakeLockListAssumption DEF WL!Long
  <2>2. flags' \in FlagMap
    BY <1>0, <1>1 DEF FlagMap, WL!Flag
  <2>3. left' \in TimeMap
    BY <1>0, <1>1, <2>1 DEF TimeMap
  <2> QED BY <1>0, <1>1, <2>2, <2>3 DEF ListTypeOK
<1>5. ListsHoldActive'
  BY <1>0, <1>1, <1>3 DEF ListsHoldActive, RightLists
<1>6. UntimedFirst(active'["SUSPEND"], flags')
  <2>1. active["SUSPEND"] \in Seq(Lock) /\ "SUSPEND" \in LockType
    BY <1>0 DEF ListMap, LockType
  <2>2. \A i \in 1 .. Len(active["SUSPEND"]) : active["SUSPEND"][i] \in ToSet(active["SUSPEND"])
    BY <2>1 DEF ToSet
  <2> QED BY <1>0, <1>1, <1>3, <2>1, <2>2 DEF UntimedFirst
<1>7. LinkOf(active', inactive') = [LinkOf(active, inactive) EXCEPT ![l] = "inactive"]
  BY <1>1, <1>2, TypeOfType DEF LinkOf
<1>8. WL!wake_lock_init(l)
  BY <1>1, <1>7 DEF WL!wake_lock_init, timer_vars
<1> QED BY <1>4, <1>5, <1>6, <1>8 DEF ListInv

\* wake_lock_destroy.
LEMMA DestroyStep ==
  ASSUME ListInv, NEW l \in Lock, wake_lock_destroy(l)
  PROVE  ListInv' /\ WL!wake_lock_destroy(l)
<1>0. /\ ListTypeOK /\ flags \in FlagMap /\ left \in TimeMap /\ active \in ListMap
      /\ inactive \in SUBSET Lock /\ suspend_pending \in BOOLEAN
      /\ RightLists(active) /\ UntimedFirst(active["SUSPEND"], flags)
      /\ \A ty \in LockType : \A x \in ToSet(active[ty]) :
           x \in Lock /\ {"INITIALIZED", "ACTIVE"} \subseteq flags[x]
  BY InvParts
<1>1. /\ "INITIALIZED" \in flags[l]
      /\ l \in ToSet(active["SUSPEND"]) => "AUTO_EXPIRE" \in flags[l]
      /\ flags' = [flags EXCEPT ![l] = flags[l] \ {"INITIALIZED"}]
      /\ active' = list_del(active, l) /\ inactive' = inactive \ {l}
      /\ UNCHANGED <<left, timer_vars, suspend_pending, suspend_pc, event>>
  BY DEF wake_lock_destroy
<1>2. /\ active' \in ListMap /\ RightLists(active')
      /\ \A ty \in LockType : ToSet(active'[ty]) = ToSet(active[ty]) \ {l}
  BY <1>0, <1>1, DelFacts
<1>3. ListTypeOK'
  <2>1. flags' \in FlagMap
    BY <1>0, <1>1 DEF FlagMap
  <2> QED BY <1>0, <1>1, <1>2, <2>1 DEF ListTypeOK
<1>4. ListsHoldActive'
  BY <1>0, <1>1, <1>2 DEF ListsHoldActive, RightLists, FlagMap
<1>5. UntimedFirst(active'["SUSPEND"], flags')
  <2>1. SameTimed(flags, flags', Lock \ {l})
    BY <1>0, <1>1 DEF SameTimed, FlagMap
  <2> QED BY <1>0, <1>1, <2>1, AddOrder
<1>6. LinkOf(active', inactive') = [LinkOf(active, inactive) EXCEPT ![l] = "none"]
  BY <1>0, <1>1, LinkAfter
<1>7. l \notin WL!Untimed(flags, LinkOf(active, inactive))
  BY <1>0, <1>1, LinkFacts DEF WL!Untimed
<1>8. WL!wake_lock_destroy(l)
  BY <1>1, <1>6, <1>7 DEF WL!wake_lock_destroy, timer_vars
<1> QED BY <1>3, <1>4, <1>5, <1>8 DEF ListInv

\* The steps that touch neither the lists nor the flags.
LEMMA SameLists ==
  ASSUME ListInv, UNCHANGED <<active, inactive, flags>>, left' \in TimeMap,
         suspend_pending' \in BOOLEAN
  PROVE  ListInv' /\ LinkOf(active', inactive') = LinkOf(active, inactive)
<1>1. active' = active /\ inactive' = inactive /\ flags' = flags
  OBVIOUS
<1>2. ListTypeOK'
  BY <1>1 DEF ListInv, ListTypeOK
<1>3. ListsHoldActive' /\ UntimedFirst(active'["SUSPEND"], flags')
  BY <1>1 DEF ListInv, ListsHoldActive
<1> QED BY <1>1, <1>2, <1>3 DEF ListInv

\* Time passes.
LEMMA TickStep ==
  ASSUME ListInv, Tick
  PROVE  ListInv' /\ WL!Tick
<1>1. WL!Tick /\ UNCHANGED <<active, inactive>>
  BY DEF Tick
<1>2. left \in TimeMap /\ suspend_pending \in BOOLEAN
  BY InvParts
<1>3. left' \in TimeMap
  BY <1>1, <1>2, WakeLockListAssumption DEF WL!Tick, TimeMap, WL!Long
<1>4. UNCHANGED <<flags, suspend_pending>>
  BY <1>1 DEF WL!Tick
<1> QED BY <1>1, <1>2, <1>3, <1>4, SameLists

\* A step of the timer or of suspend() that does not look at the lists.
LEMMA PassStep ==
  ASSUME ListInv, ExpireTimerFires \/ SuspendStart \/ SuspendEntry \/ PmSuspendReturns \/ SuspendExit
  PROVE  ListInv' /\ WL!WakeLockNext
<1>1. UNCHANGED <<active, inactive>>
  BY DEF ExpireTimerFires, SuspendStart, SuspendEntry, PmSuspendReturns, SuspendExit
<1>2. \/ WL!ExpireTimerFires \/ WL!SuspendStart \/ WL!SuspendEntry
      \/ WL!PmSuspendReturns \/ WL!SuspendExit
  BY DEF ExpireTimerFires, SuspendStart, SuspendEntry, PmSuspendReturns, SuspendExit
<1>3. left \in TimeMap /\ suspend_pending \in BOOLEAN
  BY InvParts
<1>4. UNCHANGED <<flags, left>> /\ suspend_pending' \in BOOLEAN
  BY <1>2, <1>3
     DEF WL!ExpireTimerFires, WL!SuspendStart, WL!SuspendEntry, WL!PmSuspendReturns, WL!SuspendExit
<1>5. ListInv'
  BY <1>1, <1>3, <1>4, SameLists
<1> QED BY <1>2, <1>5 DEF WL!WakeLockNext, WL!TimerStep, WL!SuspendWork

\* The callers of has_wake_lock.
LEMMA WalkStep ==
  ASSUME ListInv, expire_wake_locks \/ SuspendCheck \/ PmSuspendPolls
  PROVE  ListInv' /\ WL!WakeLockNext
<1>0. suspend_pending \in BOOLEAN
  BY InvParts
<1>1. CASE expire_wake_locks
  <2>1. PICK ret \in WL!Long : has_wake_lock(ret) /\ suspend_pending' = (suspend_pending \/ ret = 0)
    BY <1>1 DEF expire_wake_locks
  <2>2. suspend_pending' \in BOOLEAN
    BY <2>1
  <2>3. /\ ListInv' /\ WL!has_wake_lock
        /\ ret = 0 <=> WL!Remaining(flags, LinkOf(active, inactive), left) = {}
    BY <2>1, <2>2, PollStep
  <2>4. suspend_pending' = (suspend_pending \/ WL!Remaining(flags, LinkOf(active, inactive), left) = {})
    BY <2>1, <2>3
  <2>5. WL!expire_wake_locks
    BY <1>1, <2>3, <2>4 DEF expire_wake_locks, WL!expire_wake_locks
  <2> QED BY <2>3, <2>5 DEF WL!WakeLockNext, WL!TimerStep
<1>2. CASE SuspendCheck
  <2>1. PICK ret \in WL!Long : has_wake_lock(ret) /\ suspend_pc' = IF ret = 0 THEN "entry" ELSE "idle"
    BY <1>2 DEF SuspendCheck
  <2>2. suspend_pending' \in BOOLEAN
    BY <1>0, <1>2 DEF SuspendCheck
  <2>3. /\ ListInv' /\ WL!has_wake_lock
        /\ ret = 0 <=> WL!Remaining(flags, LinkOf(active, inactive), left) = {}
    BY <2>1, <2>2, PollStep
  <2>4. suspend_pc' = IF WL!Remaining(flags, LinkOf(active, inactive), left) = {} THEN "entry" ELSE "idle"
    BY <2>1, <2>3
  <2>5. WL!SuspendCheck
    BY <1>2, <2>3, <2>4 DEF SuspendCheck, WL!SuspendCheck, timer_vars, WL!timer_vars
  <2> QED BY <2>3, <2>5 DEF WL!WakeLockNext, WL!SuspendWork
<1>3. CASE PmSuspendPolls
  <2>1. PICK ret \in WL!Long : has_wake_lock(ret)
    BY <1>3 DEF PmSuspendPolls
  <2>2. suspend_pending' \in BOOLEAN
    BY <1>0, <1>3 DEF PmSuspendPolls
  <2>3. ListInv' /\ WL!has_wake_lock
    BY <2>1, <2>2, PollStep
  <2>4. WL!PmSuspendPolls
    BY <1>3, <2>3 DEF PmSuspendPolls, WL!PmSuspendPolls, timer_vars, WL!timer_vars
  <2> QED BY <2>3, <2>4 DEF WL!WakeLockNext
<1> QED BY <1>1, <1>2, <1>3

\* Initially the main lock is the only one on a list, and the mapping gives WakeLock's
\* initial state.
LEMMA ListStart ==
  ASSUME ListInit
  PROVE  ListInv /\ WL!WakeLockInit
<1> DEFINE s == active["SUSPEND"]
<1>1. /\ s = <<Main>> /\ active["IDLE"] = <<>> /\ inactive = {Unknown}
      /\ DOMAIN active = LockType /\ LockType = {"SUSPEND", "IDLE"}
  BY DEF ListInit, LockType
<1>2. Main \in Lock /\ Unknown \in Lock /\ Main # Unknown
      /\ TypeOf(Main) = "SUSPEND" /\ TypeOf(Unknown) = "SUSPEND"
  BY WakeLockListAssumption DEF TypeOf
<1>3. ToSet(s) = {Main} /\ ToSet(active["IDLE"]) = {} /\ Len(s) = 1
  BY <1>1 DEF ToSet
<1>4. flags \in FlagMap /\ left \in TimeMap /\ suspend_pending \in BOOLEAN
  <2>1. 0 \in WL!Long
    BY WakeLockListAssumption DEF WL!Long
  <2> QED BY <2>1 DEF ListInit, FlagMap, TimeMap, WL!Flag
<1>5. active \in ListMap
  BY <1>2 DEF ListInit, ListMap, LockType
<1>6. flags[Main] = {"INITIALIZED", "ACTIVE"}
  BY <1>2 DEF ListInit
<1>7. ListsHoldActive
  BY <1>1, <1>2, <1>3, <1>6 DEF ListsHoldActive
<1>8. UntimedFirst(s, flags)
  BY <1>3 DEF UntimedFirst
<1>9. \A l \in Lock : l \in ToSet(active[TypeOf(l)]) <=> l = Main
  BY <1>2, <1>3 DEF TypeOf
<1>10. LinkOf(active, inactive) = [l \in Lock |-> IF l = Main THEN "active"
                                   ELSE IF l = Unknown THEN "inactive" ELSE "none"]
  BY <1>1, <1>9 DEF LinkOf
<1>11. WL!WakeLockInit
  BY <1>10 DEF ListInit, WL!WakeLockInit
<1> QED BY <1>1, <1>2, <1>4, <1>5, <1>7, <1>8, <1>11 DEF ListInv, ListTypeOK

\* Every step of the lists keeps their invariant and is a step of WakeLock.
LEMMA ListStep ==
  ASSUME ListInv, ListNext
  PROVE  ListInv' /\ WL!WakeLockNext
<1>0. Main \in Lock /\ Unknown \in Lock /\ UnknownTimeout \in WL!Long /\ Timeouts \subseteq WL!Long
  BY WakeLockListAssumption DEF WL!Long
<1>1. CASE wake_lock(Main)
  BY <1>0, <1>1, LockUntimedStep DEF WL!WakeLockNext, WL!MainStep
<1>2. CASE wake_unlock(Main)
  BY <1>0, <1>2, UnlockStep DEF WL!WakeLockNext, WL!MainStep
<1>3. ASSUME NEW l \in Lock \ {Main, Unknown},
             \/ wake_lock_init(l) \/ wake_lock_destroy(l) \/ wake_lock(l) \/ wake_unlock(l)
      PROVE  ListInv' /\ WL!WakeLockNext
  <2>1. ListInv' /\ (\/ WL!wake_lock_init(l) \/ WL!wake_lock_destroy(l)
                     \/ WL!wake_lock(l) \/ WL!wake_unlock(l))
    BY <1>3, InitLockStep, DestroyStep, LockUntimedStep, UnlockStep
  <2> QED BY <2>1 DEF WL!WakeLockNext, WL!DriverStep, WL!DriverLock
<1>4. ASSUME NEW l \in Lock \ {Main, Unknown}, NEW t \in Timeouts, wake_lock_timeout(l, t)
      PROVE  ListInv' /\ WL!WakeLockNext
  <2>1. LockTimed(l, t) /\ UNCHANGED suspend_pc
    BY <1>4 DEF wake_lock_timeout
  <2>2. ListInv' /\ WL!LockStep(l, TRUE, t)
    BY <1>0, <2>1, LockTimedStep
  <2>3. WL!wake_lock_timeout(l, t)
    BY <2>1, <2>2 DEF WL!wake_lock_timeout
  <2> QED BY <2>2, <2>3 DEF WL!WakeLockNext, WL!DriverStep, WL!DriverTimeout, WL!DriverLock
<1>5. CASE Tick
  BY <1>5, TickStep DEF WL!WakeLockNext
<1>6. CASE ExpireTimerFires \/ SuspendStart \/ SuspendEntry \/ PmSuspendReturns \/ SuspendExit
  BY <1>6, PassStep
<1>7. CASE expire_wake_locks \/ SuspendCheck \/ PmSuspendPolls
  BY <1>7, WalkStep
<1>8. CASE SuspendNoEvent
  <2>1. suspend_pc = "no_event" /\ LockTimed(Unknown, UnknownTimeout) /\ suspend_pc' = "idle"
    BY <1>8 DEF SuspendNoEvent
  <2>2. ListInv' /\ WL!LockStep(Unknown, TRUE, UnknownTimeout)
    BY <1>0, <2>1, LockTimedStep
  <2>3. WL!SuspendNoEvent
    BY <2>1, <2>2 DEF WL!SuspendNoEvent
  <2> QED BY <2>2, <2>3 DEF WL!WakeLockNext, WL!SuspendWork
<1> QED BY <1>1, <1>2, <1>3, <1>4, <1>5, <1>6, <1>7, <1>8 DEF ListNext

\* In every reachable state the lists hold initialized, ACTIVE locks of their type, and
\* the locks without timeout come first in the list that has_wake_lock_locked walks.
THEOREM ListsOrdered == ListSpec => []ListInv
<1>1. ListInit => ListInv
  BY ListStart
<1>2. ListInv /\ [ListNext]_list_vars => ListInv'
  <2>1. ASSUME ListInv, UNCHANGED list_vars PROVE ListInv'
    <3>1. UNCHANGED <<active, inactive, flags>> /\ left' \in TimeMap /\ suspend_pending' \in BOOLEAN
      BY <2>1, InvParts DEF list_vars
    <3> QED BY <2>1, <3>1, SameLists
  <2> QED BY <2>1, ListStep
<1> QED BY <1>1, <1>2, PTL DEF ListSpec

\* The list code of wakelock.c implements WakeLock: inserting locks without timeout at the
\* head and the others at the tail, and leaving the loop at the first lock without
\* timeout, expires and returns exactly what the set of held locks determines.
THEOREM ListImplements == ListSpec => ImplementsWakeLock
<1>1. ListInit => WL!WakeLockInit
  BY ListStart
<1>2. ListInv /\ [ListNext]_list_vars => [WL!WakeLockNext]_(WL!wakelock_vars)
  <2>1. ASSUME UNCHANGED list_vars PROVE UNCHANGED WL!wakelock_vars
    <3>1. /\ active' = active /\ inactive' = inactive /\ flags' = flags /\ left' = left
          /\ UNCHANGED <<expire_pending, expire_left, expire_running>>
          /\ UNCHANGED <<suspend_pending, suspend_pc, event>>
      BY <2>1 DEF list_vars, timer_vars
    <3>2. LinkOf(active, inactive)' = LinkOf(active, inactive)
      BY <3>1
    <3> QED BY <3>1, <3>2 DEF WL!wakelock_vars
  <2> QED BY <2>1, ListStep
<1> QED BY <1>1, <1>2, ListsOrdered, PTL DEF ListSpec, ImplementsWakeLock, WL!WakeLockSpec
=============================================================================
