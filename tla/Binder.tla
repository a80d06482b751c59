------------------------------- MODULE Binder -------------------------------
(***************************************************************************)
(* Transactions of the binder driver (drivers/staging/android/binder.c):   *)
(* calls, one-way calls and replies, the transaction stacks of threads,    *)
(* the work lists of threads and processes and the wake-ups that go with   *)
(* them, and what happens to all of this when a thread or a process ends.  *)
(*                                                                         *)
(* Everything but the waiting runs under binder_lock: a command is one     *)
(* action, and binder_thread_read is cut where it releases the lock.  Each *)
(* process owns one node, and every other process has a handle of it.      *)
(* What a transaction carries, reference counts, death notifications and   *)
(* the pool of threads are left out; an allocation may fail.               *)
(***************************************************************************)
EXTENDS Naturals, Sequences, FiniteSets, SequencesExt, FiniteSetsExt

CONSTANTS
  Proc, Thread,  \* the processes that have opened the device, and their threads
  ProcOf,        \* thread->proc
  Tx,            \* the objects of type struct binder_transaction
  Complete,      \* a work of type BINDER_WORK_TRANSACTION_COMPLETE
  NULL

ASSUME BinderAssumption ==
  /\ ProcOf \in [Thread -> Proc] /\ IsFiniteSet(Thread) /\ IsFiniteSet(Tx)
  /\ NULL \notin Thread \cup Tx /\ Complete \notin Tx

VARIABLES
  tx,            \* the transactions
  stack,         \* thread->transaction_stack
  todo,          \* thread->todo
  return_error, return_error2,  \* of a thread; BR_DEAD_REPLY counts as "FAILED"
  mode,          \* "user", or what binder_thread_read waits for: "proc" or "thread" work
  woken,         \* the thread waits no more, but has not got binder_lock yet
  proc_todo,     \* proc->todo
  has_async,     \* node->has_async_transaction
  async_todo,    \* node->async_todo
  held,          \* the number of buffers of one-way calls that user space has not freed
  released,      \* the processes that are gone
  dropped        \* history: the nodes a one-way call of which was dropped by a thread's exit

thread_vars == <<stack, todo, return_error, return_error2, mode, woken>>
node_vars == <<has_async, async_todo, held, dropped>>
binder_vars == <<tx, thread_vars, proc_todo, node_vars, released>>

Free == [kind |-> "free", from |-> NULL, from_parent |-> NULL, to_thread |-> NULL,
         to_parent |-> NULL, node |-> NULL]

BinderTypeOK ==
  /\ tx \in [Tx -> [kind : {"free", "call", "oneway", "reply"}, from : Thread \cup {NULL},
                    from_parent : Tx \cup {NULL}, to_thread : Thread \cup {NULL},
                    to_parent : Tx \cup {NULL}, node : Proc \cup {NULL}]]
  /\ stack \in [Thread -> Tx \cup {NULL}]
  /\ todo \in [Thread -> Seq(Tx \cup {Complete})]
  /\ {return_error, return_error2} \subseteq [Thread -> {"OK", "COMPLETE", "FAILED"}]
  /\ mode \in [Thread -> {"user", "proc", "thread"}] /\ woken \in [Thread -> BOOLEAN]
  /\ proc_todo \in [Proc -> Seq(Tx)]
  /\ has_async \in [Proc -> BOOLEAN] /\ async_todo \in [Proc -> Seq(Tx)]
  /\ held \in [Proc -> Nat] /\ released \subseteq Proc /\ dropped \subseteq Proc

\* Threads that can call the driver.
Running == {T \in Thread : mode[T] = "user" /\ ProcOf[T] \notin released}

-----------------------------------------------------------------------------
(* Stacks.  A transaction is on the stack of its sender, linked by         *)
(* from_parent, and on that of the thread that handles it, linked by       *)
(* to_parent.  X are the transactions; a heap is what the functions below  *)
(* change: [tx, stack, error, error2, woken].                              *)

\* The transactions that next leads to, from t on: what is in every set that has t
\* and is closed under next.
Chain(next, t) ==
  {u \in Tx : \A S \in SUBSET Tx :
     t \in S \cup {NULL} /\ (\A v \in S : next[v] \in S \cup {NULL}) => u \in S}

\* The transactions on T's stack, from t downwards.
OnStack(X, T, t) ==
  Chain([u \in Tx |-> IF X[u].to_thread = T THEN X[u].to_parent ELSE X[u].from_parent], t)

\* t, the call that t was made for, the call that this one was made for, and so on.
Causes(X, t) == Chain([u \in Tx |-> X[u].from_parent], t)

\* The senders that wait, directly or not, for the sender of t's successors: the
\* outermost one in process q.
Waiting(X, t, q) ==
  LET sent == {u \in Causes(X, t) : X[u].from # NULL /\ ProcOf[X[u].from] = q}
      outermost == {u \in sent : Causes(X, u) \cap sent = {u}}
  IN  IF outermost = {} THEN NULL ELSE X[CHOOSE u \in outermost : TRUE].from

\* t and the transactions it was made for, as far as their senders are gone, and the
\* first one that has a sender.
FailedPath(X, t) ==
  Chain([u \in Tx |-> IF X[u].from = NULL THEN X[u].from_parent ELSE NULL], t)

Orphaned(X, t) == {u \in FailedPath(X, t) : X[u].from = NULL}

Caller(X, t) ==
  LET c == FailedPath(X, t) \ Orphaned(X, t) IN IF c = {} THEN NULL ELSE CHOOSE u \in c : TRUE

FreeTx(X, S) == [t \in Tx |-> IF t \in S THEN Free ELSE X[t]]

binder_pop_transaction(h, T, t) ==
  [h EXCEPT !.tx[t] = Free, !.stack[T] = h.tx[t].from_parent]

WakeThread(h, T) == [h EXCEPT !.woken[T] = @ \/ mode[T] = "thread"]

\* Mutant: a call whose sender has gone is the end of it.
FailedReplyStops(h, t) ==
  LET T == h.tx[t].from IN
  IF T = NULL THEN [h EXCEPT !.tx[t] = Free]
  ELSE WakeThread([binder_pop_transaction(h, T, t) EXCEPT
                     !.error[T] = "FAILED",
                     !.error2[T] = IF h.error[T] # "OK" THEN h.error[T] ELSE @], T)

\* A caller that has two errors already gets no third one.
binder_send_failed_reply(h, t) ==
  LET g == [h EXCEPT !.tx = FreeTx(h.tx, Orphaned(h.tx, t))]
      c == Caller(h.tx, t)
      T == h.tx[c].from
  IN  IF c = NULL \/ (h.error[T] # "OK" /\ h.error2[T] # "OK") THEN g
      ELSE WakeThread([binder_pop_transaction(g, T, c) EXCEPT
                         !.error[T] = "FAILED",
                         !.error2[T] = IF h.error[T] # "OK" THEN h.error[T] ELSE @], T)

\* The works of a list that nobody will read.  A reply or a one-way call is lost.
binder_release_work(h, list) ==
  LET release[i \in 0 .. Len(list)] ==
        IF i = 0 THEN h
        ELSE LET g == release[i - 1]
                 w == list[i]
             IN  IF w = Complete THEN g
                 ELSE IF g.tx[w].kind = "call" THEN binder_send_failed_reply(g, w)
                 ELSE [g EXCEPT !.tx[w] = Free]
  IN  release[Len(list)]

\* Mutant: the calls the thread has made keep naming it.
FreeThreadStaysSender(h, T) ==
  LET top == h.stack[T]
      S == OnStack(h.tx, T, top)
      cut == [h EXCEPT !.stack[T] = NULL, !.error[T] = "OK", !.error2[T] = "OK",
                      !.tx = [t \in Tx |->
                  IF t \in S /\ h.tx[t].to_thread = T THEN [h.tx[t] EXCEPT !.to_thread = NULL]
                  ELSE h.tx[t]]]
      told == IF top # NULL /\ h.tx[top].to_thread = T
              THEN binder_send_failed_reply(cut, top) ELSE cut
  IN  binder_release_work(told, todo[T])

binder_free_thread(h, T) ==
  LET top == h.stack[T]
      S == OnStack(h.tx, T, top)
      cut == [h EXCEPT !.stack[T] = NULL, !.error[T] = "OK", !.error2[T] = "OK",
                      !.tx = [t \in Tx |->
                  IF t \notin S THEN h.tx[t]
                  ELSE IF h.tx[t].to_thread = T THEN [h.tx[t] EXCEPT !.to_thread = NULL]
                  ELSE [h.tx[t] EXCEPT !.from = NULL]]]
      told == IF top # NULL /\ h.tx[top].to_thread = T
              THEN binder_send_failed_reply(cut, top) ELSE cut
  IN  binder_release_work(told, todo[T])

\* The threads of a process, one after the other.
FreeThreads(h, own) ==
  LET free[i \in 0 .. Len(own)] ==
        IF i = 0 THEN h ELSE binder_free_thread(free[i - 1], own[i])
  IN  free[Len(own)]

Heap == [tx |-> tx, stack |-> stack, error |-> return_error, error2 |-> return_error2,
         woken |-> woken]

SetHeap(h) ==
  /\ tx' = h.tx /\ stack' = h.stack /\ woken' = h.woken
  /\ return_error' = h.error /\ return_error2' = h.error2

-----------------------------------------------------------------------------
(* BC_TRANSACTION, BC_REPLY, BC_FREE_BUFFER.  binder_thread_write reads no *)
(* command while return_error is set.                                      *)

MayWrite(T) == T \in Running /\ return_error[T] = "OK"

Sleepers(p, W) == {T \in Thread : ProcOf[T] = p /\ mode'[T] = "proc" /\ ~W[T]}

\* wake_up_interruptible(&proc->wait): the waiters are exclusive.
WakeProc(p, W) ==
  \/ Sleepers(p, W) = {} /\ woken' = W
  \/ \E T \in Sleepers(p, W) : woken' = [W EXCEPT ![T] = TRUE]

\* return_error of a transaction that is not a reply.
Refused(T) ==
  /\ MayWrite(T)
  /\ return_error' = [return_error EXCEPT ![T] = "FAILED"]
  /\ UNCHANGED <<tx, stack, todo, return_error2, mode, woken, proc_todo, node_vars, released>>

\* A thread that waits for a reply cannot make another call.
MayCall(T) == stack[T] # NULL => tx[stack[T]].to_thread = T

Call(T, q, t) ==
  LET target == Waiting(tx, stack[T], q)
      done == [todo EXCEPT ![T] = Append(@, Complete)]
  IN
  /\ MayWrite(T) /\ q \notin released \cup {ProcOf[T]} /\ MayCall(T) /\ tx[t] = Free
  /\ tx' = [tx EXCEPT ![t] = [kind |-> "call", from |-> T, from_parent |-> stack[T],
                              to_thread |-> target, to_parent |-> NULL, node |-> q]]
  /\ stack' = [stack EXCEPT ![T] = t]
  /\ UNCHANGED <<return_error, return_error2, mode, node_vars, released>>
  /\ \/ /\ target # NULL
        /\ todo' = [done EXCEPT ![target] = Append(@, t)]
        /\ woken' = [woken EXCEPT ![target] = @ \/ mode[target] = "thread"]
        /\ UNCHANGED proc_todo
     \/ /\ target = NULL
        /\ todo' = done /\ proc_todo' = [proc_todo EXCEPT ![q] = Append(@, t)]
        /\ WakeProc(q, woken)

\* A one-way call waits until user space has freed the buffer of the one before.
CallOneWay(T, q, t) ==
  /\ MayWrite(T) /\ q \notin released \cup {ProcOf[T]} /\ tx[t] = Free
  /\ tx' = [tx EXCEPT ![t] = [Free EXCEPT !.kind = "oneway", !.node = q]]
  /\ todo' = [todo EXCEPT ![T] = Append(@, Complete)]
  /\ UNCHANGED <<stack, return_error, return_error2, mode, held, dropped, released>>
  /\ \/ /\ has_async[q] /\ async_todo' = [async_todo EXCEPT ![q] = Append(@, t)]
        /\ UNCHANGED <<has_async, proc_todo, woken>>
     \/ /\ ~has_async[q] /\ has_async' = [has_async EXCEPT ![q] = TRUE]
        /\ proc_todo' = [proc_todo EXCEPT ![q] = Append(@, t)]
        /\ WakeProc(q, woken) /\ UNCHANGED async_todo

\* The target is dead, the stack does not allow a call, or there is no memory.
CallFails(T) == Refused(T)

ReplyExpected(T) == stack[T] # NULL /\ tx[stack[T]].to_thread = T

\* The reply, which takes the place of the call, goes to the sender.
Reply(T) ==
  LET t == stack[T]
      c == tx[t].from
  IN
  /\ MayWrite(T) /\ ReplyExpected(T) /\ c # NULL /\ stack[c] = t
  /\ tx' = [tx EXCEPT ![t] = [Free EXCEPT !.kind = "reply", !.to_thread = c]]
  /\ stack' = [stack EXCEPT ![T] = tx[t].to_parent, ![c] = tx[t].from_parent]
  /\ todo' = [todo EXCEPT ![c] = Append(@, t), ![T] = Append(@, Complete)]
  /\ woken' = [woken EXCEPT ![c] = @ \/ mode[c] = "thread"]
  /\ UNCHANGED <<return_error, return_error2, mode, proc_todo, node_vars, released>>

\* The sender is gone, or there is no memory for the reply: whoever waits for it
\* gets an error instead.  A call whose sender is not waiting for it is forgotten.
ReplyFails(T) ==
  LET t == stack[T]
      off == [Heap EXCEPT !.stack[T] = tx[t].to_parent]
      misplaced == tx[t].from # NULL /\ stack[tx[t].from] # t
  IN
  /\ MayWrite(T) /\ ReplyExpected(T)
  /\ SetHeap(IF misplaced THEN [off EXCEPT !.error[T] = "FAILED"]
             ELSE binder_send_failed_reply([off EXCEPT !.error[T] = "COMPLETE"], t))
  /\ UNCHANGED <<todo, mode, proc_todo, node_vars, released>>

\* A reply nobody expects.
ReplyRefused(T) == ~ReplyExpected(T) /\ Refused(T)

\* Mutant: the next one-way call stays in async_todo.
FreeBufferKeepsNext(T, p) ==
  /\ MayWrite(T) /\ ProcOf[T] = p /\ held[p] > 0
  /\ held' = [held EXCEPT ![p] = @ - 1]
  /\ has_async' = [has_async EXCEPT ![p] = async_todo[p] # <<>>]
  /\ UNCHANGED <<todo, async_todo, tx, stack, return_error, return_error2, mode, woken,
                 proc_todo, dropped, released>>

\* User space frees the buffer of a one-way call: the next one goes to this thread.
FreeBuffer(T, p) ==
  /\ MayWrite(T) /\ ProcOf[T] = p /\ held[p] > 0
  /\ held' = [held EXCEPT ![p] = @ - 1]
  /\ \/ /\ async_todo[p] = <<>> /\ has_async' = [has_async EXCEPT ![p] = FALSE]
        /\ UNCHANGED <<todo, async_todo>>
     \/ /\ async_todo[p] # <<>>
        /\ todo' = [todo EXCEPT ![T] = Append(@, Head(async_todo[p]))]
        /\ async_todo' = [async_todo EXCEPT ![p] = Tail(@)]
        /\ UNCHANGED has_async
  /\ UNCHANGED <<tx, stack, return_error, return_error2, mode, woken, proc_todo,
                 dropped, released>>

-----------------------------------------------------------------------------
(* binder_thread_read, and the end of binder_ioctl.                        *)

\* Mutant: binder_ioctl wakes nobody.
ReturnQuietly(T) ==
  mode' = [mode EXCEPT ![T] = "user"] /\ woken' = [woken EXCEPT ![T] = FALSE]

\* Back to user space.  Another thread is woken if there is work for it.
Return(T) ==
  /\ mode' = [mode EXCEPT ![T] = "user"]
  /\ LET W == [woken EXCEPT ![T] = FALSE] IN
     IF proc_todo'[ProcOf[T]] # <<>> THEN WakeProc(ProcOf[T], W) ELSE woken' = W

\* retry: errors are returned at once; what the thread waits for is decided here.
Wait(T) ==
  LET for_proc == stack[T] = NULL /\ todo[T] = <<>> IN
  /\ UNCHANGED <<tx, stack, todo, proc_todo, node_vars, released>>
  /\ \/ /\ return_error[T] # "OK"
        /\ return_error' = [return_error EXCEPT ![T] = "OK"]
        /\ return_error2' = [return_error2 EXCEPT ![T] = "OK"]
        /\ Return(T)
     \/ /\ return_error[T] = "OK"
        /\ mode' = [mode EXCEPT ![T] = IF for_proc THEN "proc" ELSE "thread"]
        /\ woken' = [woken EXCEPT ![T] = IF for_proc THEN proc_todo[ProcOf[T]] # <<>>
                                                     ELSE todo[T] # <<>>]
        /\ UNCHANGED <<return_error, return_error2>>

Read(T) == T \in Running /\ Wait(T)

\* Where there are transactions among the works of T.  The works before the first one are
\* returned with it.
Transactions(T) == {i \in DOMAIN todo[T] : todo[T][i] # Complete}

\* What becomes of a transaction that T reads.
Deliver(T, w) ==
  /\ tx' = IF tx[w].kind = "call"
           THEN [tx EXCEPT ![w].to_thread = T, ![w].to_parent = stack[T]]
           ELSE [tx EXCEPT ![w] = Free]
  /\ stack' = IF tx[w].kind = "call" THEN [stack EXCEPT ![T] = w] ELSE stack
  /\ held' = IF tx[w].kind = "oneway" THEN [held EXCEPT ![tx[w].node] = @ + 1] ELSE held
  /\ UNCHANGED <<return_error, return_error2, has_async, async_todo, dropped, released>>

ReadThreadWork(T) ==
  /\ mode[T] # "user" /\ woken[T] /\ Transactions(T) # {}
  /\ LET i == Min(Transactions(T)) IN
     todo' = [todo EXCEPT ![T] = SubSeq(@, i + 1, Len(@))] /\ Deliver(T, todo[T][i])
  /\ UNCHANGED proc_todo
  /\ Return(T)

ReadComplete(T) ==
  /\ mode[T] # "user" /\ woken[T] /\ Transactions(T) = {} /\ todo[T] # <<>>
  /\ todo' = [todo EXCEPT ![T] = <<>>]
  /\ UNCHANGED <<tx, stack, return_error, return_error2, proc_todo, node_vars, released>>
  /\ Return(T)

ReadProcWork(T) ==
  LET p == ProcOf[T] IN
  /\ mode[T] = "proc" /\ woken[T] /\ todo[T] = <<>> /\ proc_todo[p] # <<>>
  /\ Deliver(T, Head(proc_todo[p]))
  /\ proc_todo' = [proc_todo EXCEPT ![p] = Tail(@)]
  /\ UNCHANGED todo
  /\ Return(T)

ReadNothing(T) ==
  /\ mode[T] # "user" /\ woken[T] /\ todo[T] = <<>>
  /\ mode[T] = "proc" => proc_todo[ProcOf[T]] = <<>>
  /\ Wait(T)

\* A signal, or BINDER_LOOPER_STATE_NEED_RETURN: the thread returns with nothing.
Interrupted(T) ==
  /\ mode[T] # "user"
  /\ UNCHANGED <<tx, stack, todo, return_error, return_error2, proc_todo, node_vars, released>>
  /\ Return(T)

-----------------------------------------------------------------------------
(* The end of threads and processes.                                       *)

OneWayNodes(list) == {tx[list[i]].node : i \in {j \in DOMAIN list :
                        list[j] # Complete /\ tx[list[j]].kind = "oneway"}}

\* BINDER_THREAD_EXIT; the thread may use the driver again, as a new one.
ThreadExit(T) ==
  /\ T \in Running
  /\ SetHeap(binder_free_thread(Heap, T))
  /\ todo' = [todo EXCEPT ![T] = <<>>]
  /\ dropped' = dropped \cup OneWayNodes(todo[T])
  /\ UNCHANGED <<mode, proc_todo, has_async, async_todo, held, released>>

\* binder_deferred_release.  The device is closed when none of its threads is in the
\* driver.  The threads go in the order of their pids, which may be any; one-way
\* calls that wait at the node go with it.
ProcessExit(p) ==
  /\ p \notin released /\ \A T \in Thread : ProcOf[T] = p => mode[T] = "user"
  /\ \E own \in SetToSeqs({T \in Thread : ProcOf[T] = p}) :
       LET h == binder_release_work(FreeThreads(Heap, own), proc_todo[p])
       IN  SetHeap([h EXCEPT !.tx = FreeTx(h.tx, ToSet(async_todo[p]))])
  /\ released' = released \cup {p}
  /\ todo' = [T \in Thread |-> IF ProcOf[T] = p THEN <<>> ELSE todo[T]]
  /\ proc_todo' = [proc_todo EXCEPT ![p] = <<>>]
  /\ async_todo' = [async_todo EXCEPT ![p] = <<>>]
  /\ has_async' = [has_async EXCEPT ![p] = FALSE] /\ held' = [held EXCEPT ![p] = 0]
  /\ dropped' = dropped \ {p}
  /\ UNCHANGED mode

-----------------------------------------------------------------------------

BinderInit ==
  /\ tx = [t \in Tx |-> Free] /\ stack = [T \in Thread |-> NULL]
  /\ todo = [T \in Thread |-> <<>>]
  /\ return_error = [T \in Thread |-> "OK"] /\ return_error2 = [T \in Thread |-> "OK"]
  /\ mode = [T \in Thread |-> "user"] /\ woken = [T \in Thread |-> FALSE]
  /\ proc_todo = [p \in Proc |-> <<>>] /\ async_todo = [p \in Proc |-> <<>>]
  /\ has_async = [p \in Proc |-> FALSE] /\ held = [p \in Proc |-> 0]
  /\ released = {} /\ dropped = {}

WriteStep(T) ==
  \/ \E q \in Proc, t \in Tx : Call(T, q, t) \/ CallOneWay(T, q, t)
  \/ CallFails(T) \/ Reply(T) \/ ReplyFails(T) \/ ReplyRefused(T)
  \/ FreeBuffer(T, ProcOf[T])

ReadStep(T) ==
  ReadThreadWork(T) \/ ReadComplete(T) \/ ReadProcWork(T) \/ ReadNothing(T)

BinderNext ==
  \/ \E T \in Thread : WriteStep(T) \/ Read(T) \/ ReadStep(T) \/ Interrupted(T) \/ ThreadExit(T)
  \/ \E p \in Proc : ProcessExit(p)

BinderSpec == BinderInit /\ [][BinderNext]_binder_vars

-----------------------------------------------------------------------------
(* Properties.                                                             *)

Queued(t) == \/ \E T \in Thread : t \in ToSet(todo[T])
             \/ \E p \in Proc : t \in ToSet(proc_todo[p]) \cup ToSet(async_todo[p])

\* The pointers between threads and transactions are sound, in whatever order callers,
\* handlers and whole processes go away: a transaction names a thread only if it is on
\* the stack, or in the list, of that thread, a stack holds only calls that name its
\* thread, the call a thread may reply to is the one its sender waits for, and no link
\* leads to a transaction that is freed.  The BUG_ONs of binder_pop_transaction,
\* binder_free_thread and binder_thread_read follow, and the error path "bad target
\* transaction stack" of binder_transaction is never taken.
StacksSound ==
  /\ \A T \in Thread : \A t \in OnStack(tx, T, stack[T]) :
       tx[t].kind = "call" /\ T \in {tx[t].from, tx[t].to_thread}
  /\ \A T \in Thread : ReplyExpected(T) /\ tx[stack[T]].from # NULL =>
       stack[tx[stack[T]].from] = stack[T]
  /\ \A t \in Tx :
       /\ tx[t].kind = "call" /\ tx[t].from # NULL => t \in OnStack(tx, tx[t].from, stack[tx[t].from])
       /\ tx[t].to_thread # NULL =>
            t \in OnStack(tx, tx[t].to_thread, stack[tx[t].to_thread]) \cup ToSet(todo[tx[t].to_thread])
       /\ \A u \in {tx[t].from_parent, tx[t].to_parent} \ {NULL} : tx[u].kind = "call"
       /\ Queued(t) => tx[t].kind # "free"

\* Something will still end the call t: it, or a call that its handler made before it
\* went away, is queued, or on the stack of a thread that handles it.
Answerable(t) ==
  \E u \in Tx : Caller(tx, u) = t /\ (Queued(u) \/ tx[u].to_thread # NULL)

\* Nobody waits for a reply that cannot come: threads and processes on the way of a chain
\* of calls may end in any order, with or without a reply, and the error still finds
\* whoever waits at the other end.
CallersAnswered ==
  \A t \in Tx : tx[t].kind = "call" /\ tx[t].from # NULL => Answerable(t)

\* No wake-up is lost.  binder_thread_read decides what to wait for before it gives up
\* binder_lock, and waits for work of the process exclusively: a thread asleep has
\* nothing of its own to do, and there is nothing to do for the process either, unless
\* another thread has been woken for it.
WakeupsNotLost ==
  \A T \in Thread : mode[T] # "user" /\ ~woken[T] =>
    /\ todo[T] = <<>> /\ return_error[T] = "OK"
    /\ mode[T] = "proc" /\ proc_todo[ProcOf[T]] # <<>> =>
         \E S \in Thread : ProcOf[S] = ProcOf[T] /\ mode[S] = "proc" /\ woken[S]

\* The one-way calls of the node of p that are on their way.
OnTheWay(p) ==
  {t \in Tx : /\ tx[t].kind = "oneway"
              /\ \/ t \in ToSet(proc_todo[p])
                 \/ \E T \in Thread : ProcOf[T] = p /\ t \in ToSet(todo[T])}

\* One-way calls of a node are handled one at a time and none is left behind: as long as
\* has_async_transaction says so exactly one is on its way or being handled, and others
\* wait only then.
\* The exception is a call that a thread took over in BC_FREE_BUFFER and dropped when it
\* ended: the node never gets another one.
OneWayInTurn ==
  \A p \in Proc \ dropped :
    /\ held[p] + Cardinality(OnTheWay(p)) = IF has_async[p] THEN 1 ELSE 0
    /\ async_todo[p] # <<>> => has_async[p]
=============================================================================
