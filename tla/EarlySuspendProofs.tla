------------------------- MODULE EarlySuspendProofs -------------------------
(***************************************************************************)
(* Proofs about EarlySuspend, for any set of handlers and any levels.      *)
(***************************************************************************)
EXTENDS EarlySuspend, TLAPS

\* No handler is in the list twice, and the list is sorted by level.
ListInv ==
  \A i, j \in 1 .. Len(handlers) :
    i < j => /\ handlers[i] # handlers[j]
             /\ Level[handlers[i]] <= Level[handlers[j]]

\* Which handlers the two loops have called already, and which ones are as the
\* state says while no loop is running.
WalkInv ==
  \A i \in 1 .. Len(handlers) :
    /\ handlers[i] \in HasSuspend =>
         /\ NoWalk /\ SUSPENDED \in state => handlers[i] \in asleep \cup registering
         /\ worker = "es_walk" /\ i < pos => handlers[i] \in asleep
         /\ worker = "lr_walk" /\ i <= pos => handlers[i] \in asleep
    /\ handlers[i] \in HasResume =>
         /\ NoWalk /\ SUSPENDED \notin state => handlers[i] \notin asleep
         /\ worker = "es_walk" /\ i >= pos => handlers[i] \notin asleep
         /\ worker = "lr_walk" /\ i > pos => handlers[i] \notin asleep

\* What the bits of the state say while a loop runs, and when main_wake_lock
\* may be released; nobody registers while a loop runs.
StateInv ==
  /\ ~NoWalk => registering = {}
  /\ worker = "es_walk" => SUSPENDED \in state /\ main_held /\ pos >= 1
  /\ worker = "lr_walk" => SUSPENDED \notin state /\ pos <= Len(handlers)
  /\ NoWalk => pos = 0
  /\ ~main_held => state = {REQUESTED, SUSPENDED}
  /\ state = {REQUESTED} => es_pending \/ worker = "es_lock"

\* The inductive invariant.
EarlySuspendInv ==
  EarlySuspendTypeOK /\ ListInv /\ WalkInv /\ StateInv /\ RequestNotLost

-----------------------------------------------------------------------------
(* Inserting into and removing from the list of handlers.                  *)

\* list_add_tail in front of place p shifts the handlers from p on.
LEMMA InsertFacts ==
  ASSUME handlers \in Seq(Handler), NEW h \in Handler, NEW p \in 1 .. Len(handlers) + 1
  PROVE  /\ InsertAt(p, h) \in Seq(Handler)
         /\ Len(InsertAt(p, h)) = Len(handlers) + 1
         /\ \A i \in 1 .. Len(handlers) + 1 :
              InsertAt(p, h)[i] = IF i < p THEN handlers[i]
                                  ELSE IF i = p THEN h ELSE handlers[i - 1]
<1> DEFINE front == SubSeq(handlers, 1, p - 1)
           back == SubSeq(handlers, p, Len(handlers))
<1>1. /\ front \in Seq(Handler) /\ Len(front) = p - 1
      /\ \A i \in 1 .. p - 1 : front[i] = handlers[i]
  OBVIOUS
<1>2. /\ back \in Seq(Handler) /\ Len(back) = Len(handlers) - p + 1
      /\ \A i \in 1 .. Len(handlers) - p + 1 : back[i] = handlers[p + i - 1]
  OBVIOUS
<1>3. InsertAt(p, h) = (front \o <<h>>) \o back
  BY DEF InsertAt
<1> HIDE DEF front, back
<1>4. /\ front \o <<h>> \in Seq(Handler) /\ Len(front \o <<h>>) = p
      /\ \A i \in 1 .. p : (front \o <<h>>)[i] = IF i < p THEN handlers[i] ELSE h
  BY <1>1
<1> DEFINE head == front \o <<h>>
<1>5. head \in Seq(Handler) /\ Len(head) = p
  BY <1>4
<1>6. \A i \in 1 .. p : head[i] = IF i < p THEN handlers[i] ELSE h
  BY <1>4
<1>7. InsertAt(p, h) = head \o back
  BY <1>3
<1> HIDE DEF head
<1>8. InsertAt(p, h) \in Seq(Handler) /\ Len(InsertAt(p, h)) = Len(handlers) + 1
  BY <1>2, <1>5, <1>7
<1>9. ASSUME NEW i \in 1 .. Len(handlers) + 1
      PROVE  InsertAt(p, h)[i] = IF i < p THEN handlers[i]
                                 ELSE IF i = p THEN h ELSE handlers[i - 1]
  <2>1. CASE i <= p
    <3>1. InsertAt(p, h)[i] = head[i]
      BY <1>2, <1>5, <1>7, <2>1
    <3> QED BY <1>6, <2>1, <3>1
  <2>2. CASE i > p
    <3>1. InsertAt(p, h)[i] = back[i - p]
      BY <1>2, <1>5, <1>7, <2>2
    <3>2. back[i - p] = handlers[p + (i - p) - 1]
      BY <1>2, <2>2
    <3> QED BY <2>2, <3>1, <3>2
  <2> QED BY <2>1, <2>2
<1> QED BY <1>8, <1>9

\* list_del of the handler at place p shifts the handlers after it.
LEMMA RemoveFacts ==
  ASSUME handlers \in Seq(Handler), NEW p \in 1 .. Len(handlers)
  PROVE  /\ RemoveAt(p) \in Seq(Handler) /\ Len(RemoveAt(p)) = Len(handlers) - 1
         /\ \A i \in 1 .. Len(handlers) - 1 :
              RemoveAt(p)[i] = IF i < p THEN handlers[i] ELSE handlers[i + 1]
<1> DEFINE front == SubSeq(handlers, 1, p - 1)
           back == SubSeq(handlers, p + 1, Len(handlers))
<1>1. /\ front \in Seq(Handler) /\ Len(front) = p - 1
      /\ \A i \in 1 .. p - 1 : front[i] = handlers[i]
  OBVIOUS
<1>2. /\ back \in Seq(Handler) /\ Len(back) = Len(handlers) - p
      /\ \A i \in 1 .. Len(handlers) - p : back[i] = handlers[p + i]
  OBVIOUS
<1>3. RemoveAt(p) = front \o back
  BY DEF RemoveAt
<1> HIDE DEF front, back
<1>4. RemoveAt(p) \in Seq(Handler) /\ Len(RemoveAt(p)) = Len(handlers) - 1
  BY <1>1, <1>2, <1>3
<1>5. ASSUME NEW i \in 1 .. Len(handlers) - 1
      PROVE  RemoveAt(p)[i] = IF i < p THEN handlers[i] ELSE handlers[i + 1]
  <2>1. CASE i < p
    BY <1>1, <1>2, <1>3, <2>1
  <2>2. CASE i >= p
    <3>1. RemoveAt(p)[i] = back[i - (p - 1)]
      BY <1>1, <1>2, <1>3, <2>2
    <3>2. back[i - (p - 1)] = handlers[p + (i - (p - 1))]
      BY <1>2, <2>2
    <3> QED BY <2>2, <3>1, <3>2
  <2> QED BY <2>1, <2>2
<1> QED BY <1>4, <1>5

-----------------------------------------------------------------------------
\* A handler that registers takes its place by level.
LEMMA RegisterInv ==
  ASSUME EarlySuspendInv, NEW h \in Handler, register_early_suspend(h)
  PROVE  EarlySuspendInv'
<1>1. /\ handlers \in Seq(Handler) /\ asleep \subseteq Handler
      /\ Len(handlers) \in Nat
  BY DEF EarlySuspendInv, EarlySuspendTypeOK
<1>2. /\ NoWalk /\ registering = {} /\ h \notin Registered
      /\ registering' = {h} /\ asleep' = asleep \ {h}
      /\ UNCHANGED <<state, main_held, es_pending, lr_pending, worker, pos,
                     sync_pending, sync_held>>
  BY DEF register_early_suspend, LockFree
<1>3. PICK p \in 1 .. Len(handlers) + 1 : InsertPlace(p, h) /\ handlers' = InsertAt(p, h)
  BY DEF register_early_suspend
<1>4. /\ handlers' \in Seq(Handler) /\ Len(handlers') = Len(handlers) + 1
      /\ \A i \in 1 .. Len(handlers) + 1 :
           handlers'[i] = IF i < p THEN handlers[i] ELSE IF i = p THEN h ELSE handlers[i - 1]
  BY <1>1, <1>3, InsertFacts
<1>5. \A i \in 1 .. Len(handlers) : handlers[i] \in Handler /\ handlers[i] # h
  BY <1>1, <1>2 DEF Registered
<1>6. /\ NoWalk' /\ pos = 0
  BY <1>2 DEF NoWalk, EarlySuspendInv, StateInv
<1>7. EarlySuspendTypeOK'
  BY <1>1, <1>2, <1>4, <1>6 DEF EarlySuspendInv, EarlySuspendTypeOK
<1>8. ListInv'
  <2> SUFFICES ASSUME NEW i \in 1 .. Len(handlers) + 1, NEW j \in 1 .. Len(handlers) + 1, i < j
               PROVE  /\ handlers'[i] # handlers'[j]
                      /\ Level[handlers'[i]] <= Level[handlers'[j]]
    BY <1>4 DEF ListInv
  <2>1. \A m, n \in 1 .. Len(handlers) :
          m < n => handlers[m] # handlers[n] /\ Level[handlers[m]] <= Level[handlers[n]]
    BY DEF EarlySuspendInv, ListInv
  <2>2. /\ \A m \in 1 .. p - 1 : Level[handlers[m]] <= Level[h]
        /\ p <= Len(handlers) => Level[handlers[p]] > Level[h]
    BY <1>3 DEF InsertPlace
  <2>3. Level[h] \in Int /\ \A m \in 1 .. Len(handlers) : Level[handlers[m]] \in Int
    BY <1>5, EarlySuspendAssumption
  <2>4. CASE j < p
    BY <1>1, <1>4, <2>1, <2>4
  <2>5. CASE j = p
    BY <1>1, <1>4, <1>5, <2>2, <2>5
  <2>6. CASE j > p /\ i = p
    <3>1. /\ handlers'[i] = h /\ handlers'[j] = handlers[j - 1]
          /\ j - 1 \in 1 .. Len(handlers) /\ p \in 1 .. Len(handlers)
      BY <1>1, <1>4, <2>6
    <3>2. Level[handlers[p]] <= Level[handlers[j - 1]]
      BY <2>1, <2>3, <2>6, <3>1
    <3> QED BY <1>5, <2>2, <2>3, <3>1, <3>2
  <2>7. CASE j > p /\ i < p
    BY <1>1, <1>4, <2>1, <2>7
  <2>8. CASE j > p /\ i > p
    <3>1. i - 1 \in 1 .. Len(handlers) /\ j - 1 \in 1 .. Len(handlers) /\ i - 1 < j - 1
      BY <1>1, <2>8
    <3>2. handlers'[i] = handlers[i - 1] /\ handlers'[j] = handlers[j - 1]
      BY <1>4, <2>8
    <3> QED BY <2>1, <3>1, <3>2
  <2> QED BY <1>1, <2>4, <2>5, <2>6, <2>7, <2>8
<1>9. WalkInv'
  <2> SUFFICES ASSUME NEW i \in 1 .. Len(handlers) + 1
               PROVE  /\ handlers'[i] \in HasSuspend /\ SUSPENDED \in state =>
                           handlers'[i] \in asleep' \cup registering'
                      /\ handlers'[i] \in HasResume /\ SUSPENDED \notin state =>
                           handlers'[i] \notin asleep'
    BY <1>2, <1>4, <1>6 DEF WalkInv, NoWalk
  <2>1. CASE i = p
    BY <1>2, <1>4, <2>1
  <2>2. CASE i # p
    <3>1. PICK j \in 1 .. Len(handlers) : handlers'[i] = handlers[j]
      <4>1. CASE i < p
        BY <1>1, <1>4, <4>1
      <4>2. CASE i > p
        <5>1. i - 1 \in 1 .. Len(handlers) /\ handlers'[i] = handlers[i - 1]
          BY <1>1, <1>4, <4>2
        <5> QED BY <5>1
      <4> QED BY <1>1, <2>2, <4>1, <4>2
    <3>2. handlers[j] # h
      BY <1>5
    <3> QED BY <1>2, <3>1, <3>2 DEF EarlySuspendInv, WalkInv
  <2> QED BY <2>1, <2>2
<1>10. StateInv' /\ RequestNotLost'
  BY <1>2, <1>6 DEF EarlySuspendInv, StateInv, RequestNotLost, NoWalk
<1> QED BY <1>7, <1>8, <1>9, <1>10 DEF EarlySuspendInv

\* It leaves register_early_suspend in the right state.
LEMMA RegisterCallsInv ==
  ASSUME EarlySuspendInv, NEW h \in Handler, RegisterCalls(h)
  PROVE  EarlySuspendInv'
<1>1. /\ registering = {h} /\ registering' = {}
      /\ asleep' = IF SUSPENDED \in state /\ h \in HasSuspend THEN asleep \cup {h} ELSE asleep
      /\ UNCHANGED <<state, main_held, handlers, es_pending, lr_pending, worker, pos,
                     sync_pending, sync_held>>
  BY DEF RegisterCalls
<1>2. NoWalk
  BY <1>1 DEF EarlySuspendInv, StateInv
<1>3. EarlySuspendTypeOK'
  BY <1>1 DEF EarlySuspendInv, EarlySuspendTypeOK
<1>4. ListInv' /\ StateInv' /\ RequestNotLost'
  BY <1>1 DEF EarlySuspendInv, ListInv, StateInv, RequestNotLost, NoWalk
<1>5. WalkInv'
  BY <1>1, <1>2 DEF EarlySuspendInv, WalkInv, NoWalk
<1> QED BY <1>3, <1>4, <1>5 DEF EarlySuspendInv

\* Unregistering leaves the other handlers in order.
LEMMA UnregisterInv ==
  ASSUME EarlySuspendInv, NEW h \in Handler, unregister_early_suspend(h)
  PROVE  EarlySuspendInv'
<1>1. handlers \in Seq(Handler) /\ Len(handlers) \in Nat
  BY DEF EarlySuspendInv, EarlySuspendTypeOK
<1>2. /\ NoWalk
      /\ UNCHANGED <<state, main_held, registering, asleep, es_pending, lr_pending, worker, pos,
                     sync_pending, sync_held>>
  BY DEF unregister_early_suspend, LockFree
<1>3. PICK p \in 1 .. Len(handlers) : handlers' = RemoveAt(p)
  BY DEF unregister_early_suspend
<1>4. /\ handlers' \in Seq(Handler) /\ Len(handlers') = Len(handlers) - 1
      /\ \A i \in 1 .. Len(handlers) - 1 :
           handlers'[i] = IF i < p THEN handlers[i] ELSE handlers[i + 1]
  BY <1>1, <1>3, RemoveFacts
<1>5. NoWalk' /\ pos = 0
  BY <1>2 DEF NoWalk, EarlySuspendInv, StateInv
<1>6. EarlySuspendTypeOK'
  BY <1>1, <1>2, <1>4, <1>5 DEF EarlySuspendInv, EarlySuspendTypeOK
<1>7. ListInv'
  <2> SUFFICES ASSUME NEW i \in 1 .. Len(handlers) - 1, NEW j \in 1 .. Len(handlers) - 1, i < j
               PROVE  /\ handlers'[i] # handlers'[j]
                      /\ Level[handlers'[i]] <= Level[handlers'[j]]
    BY <1>4 DEF ListInv
  <2>1. PICK m \in 1 .. Len(handlers), n \in 1 .. Len(handlers) :
          handlers'[i] = handlers[m] /\ handlers'[j] = handlers[n] /\ m < n
    <3>1. CASE j < p
      <4>1. i \in 1 .. Len(handlers) /\ j \in 1 .. Len(handlers) /\ i < p
        BY <1>1, <3>1
      <4>2. handlers'[i] = handlers[i] /\ handlers'[j] = handlers[j]
        BY <1>4, <3>1, <4>1
      <4> QED BY <4>1, <4>2
    <3>2. CASE i < p /\ j >= p
      <4>1. j + 1 \in 1 .. Len(handlers) /\ i < j + 1 /\ i \in 1 .. Len(handlers)
        BY <1>1
      <4>2. handlers'[i] = handlers[i] /\ handlers'[j] = handlers[j + 1]
        BY <1>4, <3>2, <4>1
      <4> QED BY <4>1, <4>2
    <3>3. CASE i >= p
      <4>1. j + 1 \in 1 .. Len(handlers) /\ i + 1 < j + 1 /\ i + 1 \in 1 .. Len(handlers)
            /\ ~(i < p) /\ ~(j < p)
        BY <1>1, <3>3
      <4>2. handlers'[i] = handlers[i + 1] /\ handlers'[j] = handlers[j + 1]
        BY <1>4, <4>1
      <4> QED BY <4>1, <4>2
    <3> QED BY <1>1, <3>1, <3>2, <3>3
  <2> QED BY <2>1 DEF EarlySuspendInv, ListInv
<1>8. WalkInv'
  <2> SUFFICES ASSUME NEW i \in 1 .. Len(handlers) - 1
               PROVE  /\ handlers'[i] \in HasSuspend /\ SUSPENDED \in state =>
                           handlers'[i] \in asleep \cup registering
                      /\ handlers'[i] \in HasResume /\ SUSPENDED \notin state =>
                           handlers'[i] \notin asleep
    BY <1>2, <1>4, <1>5 DEF WalkInv, NoWalk
  <2>1. PICK m \in 1 .. Len(handlers) : handlers'[i] = handlers[m]
    <3>1. i \in 1 .. Len(handlers) /\ i + 1 \in 1 .. Len(handlers)
      BY <1>1
    <3> QED BY <1>4, <3>1
  <2> QED BY <1>2, <2>1 DEF EarlySuspendInv, WalkInv
<1>9. StateInv' /\ RequestNotLost'
  BY <1>2, <1>5 DEF EarlySuspendInv, StateInv, RequestNotLost, NoWalk
<1> QED BY <1>6, <1>7, <1>8, <1>9 DEF EarlySuspendInv

\* request_suspend_state, whatever the worker is doing.
LEMMA RequestInv ==
  ASSUME EarlySuspendInv, request_suspend_state
  PROVE  EarlySuspendInv'
<1>1. UNCHANGED <<registering, handlers, asleep, worker, pos, sync_pending, sync_held>>
  BY DEF request_suspend_state
<1>2. /\ state' \subseteq {REQUESTED, SUSPENDED}
      /\ SUSPENDED \in state' <=> SUSPENDED \in state
      /\ main_held' \in BOOLEAN /\ es_pending' \in BOOLEAN /\ lr_pending' \in BOOLEAN
      /\ main_held => main_held'
  BY DEF request_suspend_state, RequestSleep, RequestOn, EarlySuspendInv,
         EarlySuspendTypeOK, REQUESTED, SUSPENDED
<1>3. EarlySuspendTypeOK' /\ ListInv' /\ WalkInv'
  BY <1>1, <1>2 DEF EarlySuspendInv, EarlySuspendTypeOK, ListInv, WalkInv, NoWalk
<1>4. StateInv'
  BY <1>1, <1>2 DEF EarlySuspendInv, StateInv, NoWalk, request_suspend_state,
                    RequestSleep, RequestOn
<1>5. RequestNotLost'
  <2>1. CASE RequestSleep
    BY <1>1, <2>1 DEF EarlySuspendInv, RequestNotLost, RequestSleep, REQUESTED, SUSPENDED
  <2>2. CASE RequestOn
    BY <1>1, <2>2 DEF EarlySuspendInv, RequestNotLost, RequestOn
  <2> QED BY <2>1, <2>2 DEF request_suspend_state
<1> QED BY <1>3, <1>4, <1>5 DEF EarlySuspendInv

\* early_suspend calls the handlers from the front of the list.
LEMMA EarlySuspendCallInv ==
  ASSUME EarlySuspendInv, EarlySuspendCall
  PROVE  EarlySuspendInv'
<1>1. /\ worker = "es_walk" /\ pos <= Len(handlers)
      /\ asleep' = IF handlers[pos] \in HasSuspend THEN asleep \cup {handlers[pos]} ELSE asleep
      /\ pos' = pos + 1
      /\ UNCHANGED <<state, main_held, registering, handlers, es_pending, lr_pending, worker,
                     sync_pending, sync_held>>
  BY DEF EarlySuspendCall
<1>2. /\ handlers \in Seq(Handler) /\ Len(handlers) \in Nat /\ pos \in 1 .. Len(handlers)
      /\ handlers[pos] \in Handler
  BY <1>1 DEF EarlySuspendInv, EarlySuspendTypeOK, StateInv
<1>3. EarlySuspendTypeOK'
  BY <1>1, <1>2 DEF EarlySuspendInv, EarlySuspendTypeOK
<1>4. ListInv' /\ RequestNotLost'
  BY <1>1 DEF EarlySuspendInv, ListInv, RequestNotLost
<1>5. StateInv'
  BY <1>1, <1>2 DEF EarlySuspendInv, StateInv, NoWalk
<1>6. WalkInv'
  <2> SUFFICES ASSUME NEW i \in 1 .. Len(handlers)
               PROVE  /\ handlers[i] \in HasSuspend /\ i < pos + 1 => handlers[i] \in asleep'
                      /\ handlers[i] \in HasResume /\ i >= pos + 1 => handlers[i] \notin asleep'
    BY <1>1 DEF WalkInv, NoWalk
  <2>1. CASE i = pos
    BY <1>1, <1>2, <2>1
  <2>2. CASE i < pos
    BY <1>1, <1>2, <2>2 DEF EarlySuspendInv, WalkInv
  <2>3. CASE i > pos
    <3>1. handlers[i] # handlers[pos]
      BY <1>2, <2>3 DEF EarlySuspendInv, ListInv
    <3> QED BY <1>1, <1>2, <2>3, <3>1 DEF EarlySuspendInv, WalkInv
  <2> QED BY <1>2, <2>1, <2>2, <2>3
<1> QED BY <1>3, <1>4, <1>5, <1>6 DEF EarlySuspendInv

\* late_resume calls them from the back.
LEMMA LateResumeCallInv ==
  ASSUME EarlySuspendInv, LateResumeCall
  PROVE  EarlySuspendInv'
<1>1. /\ worker = "lr_walk" /\ pos > 0
      /\ asleep' = IF handlers[pos] \in HasResume THEN asleep \ {handlers[pos]} ELSE asleep
      /\ pos' = pos - 1
      /\ UNCHANGED <<state, main_held, registering, handlers, es_pending, lr_pending, worker,
                     sync_pending, sync_held>>
  BY DEF LateResumeCall
<1>2. /\ handlers \in Seq(Handler) /\ Len(handlers) \in Nat /\ pos \in 1 .. Len(handlers)
  BY <1>1 DEF EarlySuspendInv, EarlySuspendTypeOK, StateInv
<1>3. EarlySuspendTypeOK'
  BY <1>1, <1>2 DEF EarlySuspendInv, EarlySuspendTypeOK
<1>4. ListInv' /\ RequestNotLost'
  BY <1>1 DEF EarlySuspendInv, ListInv, RequestNotLost
<1>5. StateInv'
  BY <1>1, <1>2 DEF EarlySuspendInv, StateInv, NoWalk
<1>6. WalkInv'
  <2> SUFFICES ASSUME NEW i \in 1 .. Len(handlers)
               PROVE  /\ handlers[i] \in HasSuspend /\ i <= pos - 1 => handlers[i] \in asleep'
                      /\ handlers[i] \in HasResume /\ i > pos - 1 => handlers[i] \notin asleep'
    BY <1>1 DEF WalkInv, NoWalk
  <2>1. CASE i = pos
    BY <1>1, <1>2, <2>1
  <2>2. CASE i > pos
    BY <1>1, <1>2, <2>2 DEF EarlySuspendInv, WalkInv
  <2>3. CASE i < pos
    <3>1. handlers[i] # handlers[pos]
      BY <1>2, <2>3 DEF EarlySuspendInv, ListInv
    <3> QED BY <1>1, <1>2, <2>3, <3>1 DEF EarlySuspendInv, WalkInv
  <2> QED BY <1>2, <2>1, <2>2, <2>3
<1> QED BY <1>3, <1>4, <1>5, <1>6 DEF EarlySuspendInv

\* The steps of the worker that call no handler.
LEMMA WorkerInv ==
  ASSUME EarlySuspendInv,
         \/ EarlySuspendStart \/ EarlySuspendCheck \/ EarlySuspendSync \/ EarlySuspendEnd
         \/ LateResumeStart \/ LateResumeCheck \/ LateResumeEnd
  PROVE  EarlySuspendInv'
<1>1. EarlySuspendTypeOK /\ ListInv /\ WalkInv /\ StateInv /\ RequestNotLost
  BY DEF EarlySuspendInv
<1>2. Len(handlers) \in Nat /\ pos \in Nat
  BY <1>1 DEF EarlySuspendTypeOK
<1>3. UNCHANGED <<registering, handlers, asleep>>
  BY DEF EarlySuspendStart, EarlySuspendCheck, EarlySuspendSync, EarlySuspendEnd,
         LateResumeStart, LateResumeCheck, LateResumeEnd
<1>4. ListInv'
  BY <1>1, <1>3 DEF ListInv
<1>5. CASE EarlySuspendStart
  BY <1>1, <1>3, <1>4, <1>5 DEF EarlySuspendStart, EarlySuspendInv, EarlySuspendTypeOK,
     WorkerPC, WalkInv, StateInv, RequestNotLost, NoWalk
<1>6. CASE LateResumeStart
  BY <1>1, <1>3, <1>4, <1>6 DEF LateResumeStart, EarlySuspendInv, EarlySuspendTypeOK,
     WorkerPC, WalkInv, StateInv, RequestNotLost, NoWalk
<1>7. CASE EarlySuspendEnd
  <2>1. /\ worker = "es_end" /\ worker' = "idle"
        /\ main_held' = IF state = {REQUESTED, SUSPENDED} THEN FALSE ELSE main_held
        /\ UNCHANGED <<state, registering, handlers, asleep, es_pending, lr_pending, pos,
                       sync_pending, sync_held>>
    BY <1>7 DEF EarlySuspendEnd
  <2>2. EarlySuspendTypeOK'
    BY <1>1, <2>1 DEF EarlySuspendTypeOK, WorkerPC
  <2>3. WalkInv' /\ StateInv'
    BY <1>1, <2>1 DEF WalkInv, StateInv, NoWalk
  <2>4. RequestNotLost'
    <3>1. CASE state = {REQUESTED, SUSPENDED}
      BY <2>1, <3>1 DEF RequestNotLost, REQUESTED, SUSPENDED
    <3>2. CASE state # {REQUESTED, SUSPENDED} /\ REQUESTED \in state
      <4>1. state = {REQUESTED}
        BY <1>1, <3>2 DEF EarlySuspendTypeOK
      <4> QED BY <1>1, <2>1, <4>1 DEF RequestNotLost, StateInv, SUSPENDED, REQUESTED
    <3>3. CASE REQUESTED \notin state
      BY <1>1, <2>1, <3>3 DEF RequestNotLost
    <3> QED BY <3>1, <3>2, <3>3
  <2> QED BY <1>4, <2>2, <2>3, <2>4 DEF EarlySuspendInv
<1>8. CASE EarlySuspendCheck
  <2>1. CASE state = {REQUESTED}
    <3>1. /\ state' = {REQUESTED, SUSPENDED} /\ worker = "es_lock" /\ worker' = "es_walk"
          /\ pos' = 1 /\ SUSPENDED \notin state
          /\ registering = {} /\ registering' = {}
          /\ UNCHANGED <<main_held, handlers, asleep, es_pending, lr_pending,
                         sync_pending, sync_held>>
      BY <1>8, <2>1 DEF EarlySuspendCheck, REQUESTED, SUSPENDED
    <3>2. main_held /\ NoWalk
      BY <1>1, <3>1 DEF StateInv, NoWalk, EarlySuspendTypeOK
    <3>3. EarlySuspendTypeOK'
      BY <1>1, <1>2, <3>1 DEF EarlySuspendTypeOK, WorkerPC
    <3>4. WalkInv'
      <4>1. ~NoWalk' /\ worker' # "lr_walk"
        BY <3>1 DEF NoWalk
      <4>2. \A i \in 1 .. Len(handlers) : handlers[i] \in HasResume => handlers[i] \notin asleep
        BY <1>1, <3>1, <3>2 DEF WalkInv
      <4> QED BY <1>2, <3>1, <4>1, <4>2 DEF WalkInv
    <3>5. StateInv' /\ RequestNotLost'
      BY <3>1, <3>2 DEF StateInv, RequestNotLost, NoWalk, REQUESTED, SUSPENDED
    <3> QED BY <1>4, <3>3, <3>4, <3>5 DEF EarlySuspendInv
  <2>2. CASE state # {REQUESTED}
    BY <1>1, <1>3, <1>4, <1>8, <2>2 DEF EarlySuspendCheck, EarlySuspendInv,
       EarlySuspendTypeOK, WorkerPC, WalkInv, StateInv, RequestNotLost, NoWalk
  <2> QED BY <2>1, <2>2
<1>9. CASE EarlySuspendSync
  <2>1. /\ worker = "es_walk" /\ pos = Len(handlers) + 1 /\ worker' = "es_end" /\ pos' = 0
        /\ sync_pending' = TRUE
        /\ UNCHANGED <<state, main_held, registering, handlers, asleep, es_pending, lr_pending,
                       sync_held>>
    BY <1>9 DEF EarlySuspendSync
  <2>2. EarlySuspendTypeOK'
    BY <1>1, <1>2, <2>1 DEF EarlySuspendTypeOK, WorkerPC
  <2>3. SUSPENDED \in state /\ main_held
    BY <1>1, <2>1 DEF StateInv
  <2>4. WalkInv'
    <3>1. \A i \in 1 .. Len(handlers) : handlers[i] \in HasSuspend => handlers[i] \in asleep
      BY <1>1, <1>2, <2>1 DEF WalkInv
    <3> QED BY <2>1, <2>3, <3>1 DEF WalkInv
  <2>5. StateInv' /\ RequestNotLost'
    BY <1>1, <2>1, <2>3 DEF StateInv, RequestNotLost, NoWalk
  <2> QED BY <1>4, <2>2, <2>4, <2>5 DEF EarlySuspendInv
<1>10. CASE LateResumeCheck
  <2>1. CASE state = {SUSPENDED}
    <3>1. /\ state' = {} /\ worker = "lr_lock" /\ worker' = "lr_walk"
          /\ pos' = Len(handlers) /\ SUSPENDED \in state
          /\ registering = {} /\ registering' = {}
          /\ UNCHANGED <<main_held, handlers, asleep, es_pending, lr_pending,
                         sync_pending, sync_held>>
      BY <1>10, <2>1 DEF LateResumeCheck
    <3>2. main_held /\ NoWalk
      BY <1>1, <2>1, <3>1 DEF StateInv, NoWalk, REQUESTED, SUSPENDED, EarlySuspendTypeOK
    <3>3. EarlySuspendTypeOK'
      BY <1>1, <1>2, <3>1 DEF EarlySuspendTypeOK, WorkerPC
    <3>4. WalkInv'
      <4>1. ~NoWalk' /\ worker' # "es_walk"
        BY <3>1 DEF NoWalk
      <4>2. \A i \in 1 .. Len(handlers) : handlers[i] \in HasSuspend => handlers[i] \in asleep
        BY <1>1, <3>1, <3>2 DEF WalkInv
      <4> QED BY <1>2, <3>1, <4>1, <4>2 DEF WalkInv
    <3>5. StateInv' /\ RequestNotLost'
      BY <1>2, <3>1, <3>2 DEF StateInv, RequestNotLost, NoWalk
    <3> QED BY <1>4, <3>3, <3>4, <3>5 DEF EarlySuspendInv
  <2>2. CASE state # {SUSPENDED}
    BY <1>1, <1>3, <1>4, <1>10, <2>2 DEF LateResumeCheck, EarlySuspendInv,
       EarlySuspendTypeOK, WorkerPC, WalkInv, StateInv, RequestNotLost, NoWalk
  <2> QED BY <2>1, <2>2
<1>11. CASE LateResumeEnd
  <2>1. /\ worker = "lr_walk" /\ pos = 0 /\ worker' = "idle"
        /\ UNCHANGED <<state, main_held, registering, handlers, asleep, es_pending, lr_pending,
                       pos, sync_pending, sync_held>>
    BY <1>11 DEF LateResumeEnd
  <2>2. EarlySuspendTypeOK'
    BY <1>1, <2>1 DEF EarlySuspendTypeOK, WorkerPC
  <2>3. SUSPENDED \notin state
    BY <1>1, <2>1 DEF StateInv
  <2>4. WalkInv'
    <3>1. \A i \in 1 .. Len(handlers) : handlers[i] \in HasResume => handlers[i] \notin asleep
      BY <1>1, <1>2, <2>1 DEF WalkInv
    <3> QED BY <2>1, <2>3, <3>1 DEF WalkInv
  <2>5. StateInv' /\ RequestNotLost'
    BY <1>1, <2>1, <2>3 DEF StateInv, RequestNotLost, NoWalk
  <2> QED BY <1>4, <2>2, <2>4, <2>5 DEF EarlySuspendInv
<1> QED BY <1>5, <1>6, <1>7, <1>8, <1>9, <1>10, <1>11

\* Every step keeps the inductive invariant.
LEMMA NextInv ==
  ASSUME EarlySuspendInv, [EarlySuspendNext]_early_vars
  PROVE  EarlySuspendInv'
<1>1. CASE HandlerStep
  BY <1>1, RegisterInv, RegisterCallsInv, UnregisterInv DEF HandlerStep
<1>2. CASE request_suspend_state
  BY <1>2, RequestInv
<1>3. CASE WorkerStep
  BY <1>3, EarlySuspendCallInv, LateResumeCallInv, WorkerInv DEF WorkerStep
<1>4. CASE sync_system
  BY <1>4 DEF sync_system, EarlySuspendInv, EarlySuspendTypeOK, ListInv, WalkInv,
              StateInv, RequestNotLost, NoWalk
<1>5. CASE UNCHANGED early_vars
  BY <1>5 DEF early_vars, EarlySuspendInv, EarlySuspendTypeOK, ListInv, WalkInv,
              StateInv, RequestNotLost, NoWalk
<1> QED BY <1>1, <1>2, <1>3, <1>4, <1>5 DEF EarlySuspendNext

\* It holds at boot.
LEMMA EarlyInitInv == EarlySuspendInit => EarlySuspendInv
<1> SUFFICES ASSUME EarlySuspendInit PROVE EarlySuspendInv
  OBVIOUS
<1>1. handlers \in Seq(Handler) /\ Len(handlers) = 0
  BY DEF EarlySuspendInit
<1>2. EarlySuspendTypeOK
  <2>1. pos \in Nat /\ pos <= Len(handlers) + 1
    BY <1>1 DEF EarlySuspendInit
  <2>2. /\ state \subseteq {REQUESTED, SUSPENDED}
        /\ registering \subseteq Handler /\ asleep \subseteq Handler /\ worker \in WorkerPC
    BY DEF EarlySuspendInit, WorkerPC
  <2>3. /\ main_held \in BOOLEAN /\ es_pending \in BOOLEAN /\ lr_pending \in BOOLEAN
        /\ sync_pending \in BOOLEAN /\ sync_held \in BOOLEAN
    BY DEF EarlySuspendInit
  <2> QED BY <1>1, <2>1, <2>2, <2>3 DEF EarlySuspendTypeOK
<1>3. ListInv /\ WalkInv
  BY <1>1 DEF ListInv, WalkInv
<1>4. StateInv /\ RequestNotLost
  BY DEF EarlySuspendInit, StateInv, RequestNotLost, NoWalk
<1> QED BY <1>2, <1>3, <1>4 DEF EarlySuspendInv

\* The inductive invariant holds in every state of earlysuspend.c.
THEOREM EarlyInvariant == EarlySuspendSpec => []EarlySuspendInv
<1> QED BY EarlyInitInv, NextInv, PTL DEF EarlySuspendSpec

\* The variables keep their types; in particular the loops never run off the list.
THEOREM EarlyTypeCorrect == EarlySuspendSpec => []EarlySuspendTypeOK
<1>1. EarlySuspendInv => EarlySuspendTypeOK
  BY DEF EarlySuspendInv
<1> QED BY <1>1, EarlyInvariant, PTL

\* Outside the loops every registered handler is in the state of the system.
THEOREM HandlersInStep == EarlySuspendSpec => []HandlersFollowState
<1>1. EarlySuspendInv => HandlersFollowState
  BY DEF EarlySuspendInv, WalkInv, HandlersFollowState, Registered
<1> QED BY <1>1, EarlyInvariant, PTL

\* With main_wake_lock released no work is calling handlers, and all have been suspended.
LEMMA MainLockInv == EarlySuspendInv => MainReleasedOnlyAsleep
<1> SUFFICES ASSUME EarlySuspendInv, ~main_held
             PROVE  /\ state = {REQUESTED, SUSPENDED}
                    /\ \A h \in (Registered \cap HasSuspend) \ registering : h \in asleep
  BY DEF MainReleasedOnlyAsleep
<1>1. state = {REQUESTED, SUSPENDED} /\ NoWalk
  BY DEF EarlySuspendInv, StateInv, NoWalk
<1> QED BY <1>1 DEF EarlySuspendInv, WalkInv, Registered

\* main_wake_lock is released only with every handler suspended, but for one that is
\* being registered.
THEOREM MainLockSafe == EarlySuspendSpec => []MainReleasedOnlyAsleep
<1> QED BY MainLockInv, EarlyInvariant, PTL

\* Handlers are suspended from low to high levels and resumed from high to low, but for
\* the direct call from register_early_suspend.
THEOREM LevelsInOrder == EarlySuspendSpec => []LevelOrder
<1>1. EarlySuspendInv => LevelOrder
  <2> SUFFICES ASSUME EarlySuspendInv,
                      NEW g \in Registered \cap HasSuspend \cap HasResume,
                      NEW h \in Registered \cap HasSuspend \cap HasResume,
                      Level[h] < Level[g], g \in asleep
               PROVE  h \in asleep \cup registering
    BY DEF LevelOrder
  <2>1. PICK i \in 1 .. Len(handlers), j \in 1 .. Len(handlers) :
               h = handlers[i] /\ g = handlers[j]
    BY DEF Registered
  <2>2. Len(handlers) \in Nat /\ Level[h] \in Int /\ Level[g] \in Int
    BY <2>1, EarlySuspendAssumption DEF EarlySuspendInv, EarlySuspendTypeOK
  <2>3. i < j
    <3>1. CASE i = j
      BY <2>1, <2>2, <3>1
    <3>2. CASE j < i
      <4>1. Level[g] <= Level[h]
        BY <2>1, <3>2 DEF EarlySuspendInv, ListInv
      <4> QED BY <2>2, <4>1
    <3> QED BY <2>2, <3>1, <3>2
  <2>4. CASE NoWalk
    BY <2>1, <2>4 DEF EarlySuspendInv, WalkInv
  <2>5. CASE worker = "es_walk"
    <3>1. j < pos /\ pos \in Nat
      BY <2>1, <2>2, <2>5 DEF EarlySuspendInv, WalkInv, EarlySuspendTypeOK
    <3> QED BY <2>1, <2>2, <2>3, <2>5, <3>1 DEF EarlySuspendInv, WalkInv
  <2>6. CASE worker = "lr_walk"
    <3>1. j <= pos /\ pos \in Nat
      BY <2>1, <2>2, <2>6 DEF EarlySuspendInv, WalkInv, EarlySuspendTypeOK
    <3> QED BY <2>1, <2>2, <2>3, <2>6, <3>1 DEF EarlySuspendInv, WalkInv
  <2> QED BY <2>4, <2>5, <2>6 DEF NoWalk
<1> QED BY <1>1, EarlyInvariant, PTL

\* The work a request needs is queued or running until it has been done.
THEOREM NoLostRequest == EarlySuspendSpec => []RequestNotLost
<1>1. EarlySuspendInv => RequestNotLost
  BY DEF EarlySuspendInv
<1> QED BY <1>1, EarlyInvariant, PTL
=============================================================================
