---------------------------- MODULE EarlySuspend ----------------------------
(***************************************************************************)
(* kernel/power/earlysuspend.c: the user-visible sleep state.              *)
(*                                                                         *)
(* A write to /sys/power/state calls request_suspend_state, at any time.   *)
(* The works early_suspend and late_resume run one at a time, on the       *)
(* thread of suspend_work_queue; they hold early_suspend_lock while they   *)
(* call the handlers.  Drivers register handlers under the same lock, in   *)
(* two steps: a handler that is in the list may not have been called yet.  *)
(* Every section under state_lock is one action.                           *)
(*                                                                         *)
(* The queue is modelled by the pending bits of the two works: the thread  *)
(* may take them in either order, of which the FIFO order is one.          *)
(***************************************************************************)
EXTENDS Integers, Sequences

CONSTANTS
  Handler,    \* the struct early_suspend objects
  Level,      \* handler->level
  HasSuspend, \* the handlers whose suspend is not NULL
  HasResume   \* the handlers whose resume is not NULL

ASSUME EarlySuspendAssumption ==
  Level \in [Handler -> Int] /\ HasSuspend \subseteq Handler /\ HasResume \subseteq Handler

VARIABLES
  state,        \* the bits of state
  main_held,    \* main_wake_lock is active
  handlers,     \* early_suspend_handlers, in list order
  registering,  \* the handler register_early_suspend has put into the list and not left
  asleep,       \* the handlers whose suspend was called last
  es_pending,   \* early_suspend_work is queued
  lr_pending,   \* late_resume_work is queued
  worker,       \* where the thread of suspend_work_queue is
  pos,          \* the handler it calls next, 0 outside the loops
  sync_pending, \* sync_system_work is queued
  sync_held     \* sync_system is running, with sync_wake_lock held

early_vars == <<state, main_held, handlers, registering, asleep, es_pending, lr_pending,
                worker, pos, sync_pending, sync_held>>

REQUESTED == "SUSPEND_REQUESTED"
SUSPENDED == "SUSPENDED"

WorkerPC == {"idle", "es_lock", "es_walk", "es_end", "lr_lock", "lr_walk"}

Registered == {handlers[i] : i \in 1 .. Len(handlers)}

EarlySuspendTypeOK ==
  /\ state \subseteq {REQUESTED, SUSPENDED}
  /\ main_held \in BOOLEAN
  /\ handlers \in Seq(Handler)
  /\ registering \subseteq Handler /\ asleep \subseteq Handler
  /\ es_pending \in BOOLEAN /\ lr_pending \in BOOLEAN
  /\ worker \in WorkerPC
  /\ pos \in Nat /\ pos <= Len(handlers) + 1
  /\ sync_pending \in BOOLEAN /\ sync_held \in BOOLEAN

\* No work is calling handlers; early_suspend_lock is free.
NoWalk == worker \notin {"es_walk", "lr_walk"}
LockFree == NoWalk /\ registering = {}

-----------------------------------------------------------------------------
(* Drivers.                                                                *)

\* Mutant: new handlers go to the end of the list.
InsertLast(p, h) == p = Len(handlers) + 1

\* The place p the loop of register_early_suspend stops at: before the first
\* handler of a higher level.
InsertPlace(p, h) ==
  /\ \A i \in 1 .. p - 1 : Level[handlers[i]] <= Level[h]
  /\ p <= Len(handlers) => Level[handlers[p]] > Level[h]

InsertAt(p, h) ==
  SubSeq(handlers, 1, p - 1) \o <<h>> \o SubSeq(handlers, p, Len(handlers))

\* register_early_suspend, up to list_add_tail.  The device is on.
register_early_suspend(h) ==
  /\ LockFree
  /\ h \notin Registered
  /\ \E p \in 1 .. Len(handlers) + 1 :
       InsertPlace(p, h) /\ handlers' = InsertAt(p, h)
  /\ registering' = {h}
  /\ asleep' = asleep \ {h}
  /\ UNCHANGED <<state, main_held, es_pending, lr_pending, worker, pos,
                 sync_pending, sync_held>>

\* Mutant: the handler is not suspended when the others already are.
RegisterOnly(h) ==
  /\ registering = {h} /\ registering' = {}
  /\ UNCHANGED <<state, main_held, handlers, asleep, es_pending, lr_pending, worker, pos,
                 sync_pending, sync_held>>

\* Its end: the handler is suspended at once when the others already are.
RegisterCalls(h) ==
  /\ registering = {h} /\ registering' = {}
  /\ asleep' = IF SUSPENDED \in state /\ h \in HasSuspend THEN asleep \cup {h} ELSE asleep
  /\ UNCHANGED <<state, main_held, handlers, es_pending, lr_pending, worker, pos,
                 sync_pending, sync_held>>

RemoveAt(p) == SubSeq(handlers, 1, p - 1) \o SubSeq(handlers, p + 1, Len(handlers))

unregister_early_suspend(h) ==
  /\ LockFree
  /\ \E p \in 1 .. Len(handlers) :
       /\ handlers[p] = h
       /\ handlers' = RemoveAt(p)
  /\ UNCHANGED <<state, main_held, registering, asleep, es_pending, lr_pending, worker, pos,
                 sync_pending, sync_held>>

-----------------------------------------------------------------------------
(* User space.                                                             *)

RequestSleep ==
  /\ REQUESTED \notin state
  /\ state' = state \cup {REQUESTED}
  /\ es_pending' = TRUE
  /\ UNCHANGED <<main_held, lr_pending>>

\* Mutant: late_resume is not queued while early_suspend is.
RequestOnSkips ==
  /\ REQUESTED \in state
  /\ state' = state \ {REQUESTED}
  /\ main_held' = TRUE
  /\ lr_pending' = (lr_pending \/ ~es_pending)
  /\ UNCHANGED es_pending

RequestOn ==
  /\ REQUESTED \in state
  /\ state' = state \ {REQUESTED}
  /\ main_held' = TRUE
  /\ lr_pending' = TRUE
  /\ UNCHANGED es_pending

\* A request for the state that is already requested changes nothing here.
request_suspend_state ==
  /\ RequestSleep \/ RequestOn
  /\ UNCHANGED <<registering, handlers, asleep, worker, pos, sync_pending, sync_held>>

-----------------------------------------------------------------------------
(* The work early_suspend.                                                 *)

EarlySuspendStart ==
  /\ worker = "idle" /\ es_pending
  /\ es_pending' = FALSE
  /\ worker' = "es_lock"
  /\ UNCHANGED <<state, main_held, registering, handlers, asleep, lr_pending, pos,
                 sync_pending, sync_held>>

\* Mutant: an aborted early_suspend returns without looking at the state again.
EarlySuspendCheckReturns ==
  /\ worker = "es_lock" /\ registering = {}
  /\ IF state = {REQUESTED}
     THEN state' = state \cup {SUSPENDED} /\ worker' = "es_walk" /\ pos' = 1
     ELSE worker' = "idle" /\ UNCHANGED <<state, pos>>
  /\ UNCHANGED <<main_held, registering, handlers, asleep, es_pending, lr_pending,
                 sync_pending, sync_held>>

EarlySuspendCheck ==
  /\ worker = "es_lock" /\ registering = {}
  /\ IF state = {REQUESTED}
     THEN state' = state \cup {SUSPENDED} /\ worker' = "es_walk" /\ pos' = 1
     ELSE worker' = "es_end" /\ UNCHANGED <<state, pos>>
  /\ UNCHANGED <<main_held, registering, handlers, asleep, es_pending, lr_pending,
                 sync_pending, sync_held>>

EarlySuspendCall ==
  /\ worker = "es_walk" /\ pos <= Len(handlers)
  /\ asleep' = IF handlers[pos] \in HasSuspend THEN asleep \cup {handlers[pos]}
                                               ELSE asleep
  /\ pos' = pos + 1
  /\ UNCHANGED <<state, main_held, registering, handlers, es_pending, lr_pending, worker,
                 sync_pending, sync_held>>

EarlySuspendSync ==
  /\ worker = "es_walk" /\ pos = Len(handlers) + 1
  /\ sync_pending' = TRUE
  /\ worker' = "es_end" /\ pos' = 0
  /\ UNCHANGED <<state, main_held, registering, handlers, asleep, es_pending, lr_pending, sync_held>>

\* Mutant: main_wake_lock is released whatever was requested meanwhile.
EarlySuspendEndBlindly ==
  /\ worker = "es_end"
  /\ main_held' = FALSE
  /\ worker' = "idle"
  /\ UNCHANGED <<state, registering, handlers, asleep, es_pending, lr_pending, pos,
                 sync_pending, sync_held>>

\* The label abort: the state is looked at again.
EarlySuspendEnd ==
  /\ worker = "es_end"
  /\ main_held' = IF state = {REQUESTED, SUSPENDED} THEN FALSE ELSE main_held
  /\ worker' = "idle"
  /\ UNCHANGED <<state, registering, handlers, asleep, es_pending, lr_pending, pos,
                 sync_pending, sync_held>>

-----------------------------------------------------------------------------
(* The work late_resume.                                                   *)

LateResumeStart ==
  /\ worker = "idle" /\ lr_pending
  /\ lr_pending' = FALSE
  /\ worker' = "lr_lock"
  /\ UNCHANGED <<state, main_held, registering, handlers, asleep, es_pending, pos,
                 sync_pending, sync_held>>

LateResumeCheck ==
  /\ worker = "lr_lock" /\ registering = {}
  /\ IF state = {SUSPENDED}
     THEN state' = {} /\ worker' = "lr_walk" /\ pos' = Len(handlers)
     ELSE worker' = "idle" /\ UNCHANGED <<state, pos>>
  /\ UNCHANGED <<main_held, registering, handlers, asleep, es_pending, lr_pending,
                 sync_pending, sync_held>>

LateResumeCall ==
  /\ worker = "lr_walk" /\ pos > 0
  /\ asleep' = IF handlers[pos] \in HasResume THEN asleep \ {handlers[pos]} ELSE asleep
  /\ pos' = pos - 1
  /\ UNCHANGED <<state, main_held, registering, handlers, es_pending, lr_pending, worker,
                 sync_pending, sync_held>>

LateResumeEnd ==
  /\ worker = "lr_walk" /\ pos = 0
  /\ worker' = "idle"
  /\ UNCHANGED <<state, main_held, registering, handlers, asleep, es_pending, lr_pending, pos,
                 sync_pending, sync_held>>

-----------------------------------------------------------------------------
(* The work sync_system, on the thread of sync_work_queue.                 *)

sync_system ==
  /\ \/ sync_pending /\ ~sync_held /\ sync_pending' = FALSE /\ sync_held' = TRUE
     \/ sync_held /\ sync_held' = FALSE /\ UNCHANGED sync_pending
  /\ UNCHANGED <<state, main_held, registering, handlers, asleep, es_pending, lr_pending,
                 worker, pos>>

-----------------------------------------------------------------------------
EarlySuspendInit ==
  /\ state = {} /\ main_held = TRUE
  /\ handlers = <<>> /\ registering = {} /\ asleep = {}
  /\ es_pending = FALSE /\ lr_pending = FALSE
  /\ worker = "idle" /\ pos = 0
  /\ sync_pending = FALSE /\ sync_held = FALSE

HandlerStep ==
  \E h \in Handler :
    register_early_suspend(h) \/ RegisterCalls(h) \/ unregister_early_suspend(h)

WorkerStep ==
  \/ EarlySuspendStart \/ EarlySuspendCheck \/ EarlySuspendCall
  \/ EarlySuspendSync \/ EarlySuspendEnd
  \/ LateResumeStart \/ LateResumeCheck \/ LateResumeCall \/ LateResumeEnd

EarlySuspendNext ==
  HandlerStep \/ request_suspend_state \/ WorkerStep \/ sync_system

EarlySuspendSpec == EarlySuspendInit /\ [][EarlySuspendNext]_early_vars

\* The work queue thread is scheduled, and a queued work is eventually taken.  A driver
\* that registers goes on and releases early_suspend_lock, and a work that waits for
\* the lock gets it, however many drivers come.
EarlySuspendFairness ==
  /\ WF_early_vars(WorkerStep) /\ WF_early_vars(\E h \in Handler : RegisterCalls(h))
  /\ SF_early_vars(EarlySuspendStart) /\ SF_early_vars(LateResumeStart)
  /\ SF_early_vars(EarlySuspendCheck) /\ SF_early_vars(LateResumeCheck)

EarlySuspendFairSpec == EarlySuspendSpec /\ EarlySuspendFairness

-----------------------------------------------------------------------------
(* Properties.                                                             *)

\* While no work is calling handlers, every registered handler is suspended
\* when the bit SUSPENDED is set, and resumed when it is not: neither
\* registering in between, nor requests that come while the handlers are being
\* called, leave a handler in the wrong state once register_early_suspend is through.
HandlersFollowState ==
  NoWalk => \A h \in Registered \ registering :
    /\ SUSPENDED \in state /\ h \in HasSuspend => h \in asleep
    /\ SUSPENDED \notin state /\ h \in HasResume => h \notin asleep

\* main_wake_lock, which keeps the system out of suspend, is released only
\* while sleep is requested and every handler (the screen, the input devices) has been
\* suspended, but for one that is just being registered, and it is taken back before any
\* handler is resumed.
MainReleasedOnlyAsleep ==
  ~main_held => /\ state = {REQUESTED, SUSPENDED}
                /\ \A h \in (Registered \cap HasSuspend) \ registering : h \in asleep

\* include/linux/earlysuspend.h: suspend handlers are called in low to high
\* level order, resume handlers in the opposite order.  So a handler is never
\* suspended while one of a lower level is not, with the one exception the comment
\* makes: a handler that registers while the others are suspended is called directly
\* from register_early_suspend, which "can violate the normal level order".  That ends
\* with the call; the next walk finds the levels in order again.
LevelOrder ==
  \A g, h \in Registered \cap HasSuspend \cap HasResume :
    Level[h] < Level[g] /\ g \in asleep => h \in asleep \cup registering

\* No request is lost although queue_work does nothing for a work that is
\* pending and a work may find the state changed when it gets the lock: as long
\* as main_wake_lock has to be released, or the handlers have to be resumed, the
\* work that does it is queued or running.
RequestNotLost ==
  /\ REQUESTED \in state /\ main_held =>
       es_pending \/ worker \in {"es_lock", "es_walk", "es_end"}
  /\ state = {SUSPENDED} => lr_pending \/ worker = "lr_lock"

\* When user space leaves the state at "mem", main_wake_lock is eventually
\* released for good; when it leaves it at "on", the handlers are eventually all
\* resumed.
RequestTakesEffect ==
  /\ <>[](REQUESTED \in state) => <>[](~main_held)
  /\ <>[](REQUESTED \notin state) =>
       <>[](\A h \in Registered \cap HasResume : h \notin asleep)
=============================================================================
