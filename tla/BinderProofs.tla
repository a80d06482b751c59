---------------------------- MODULE BinderProofs ----------------------------
(***************************************************************************)
(* Proofs about Binder, for any processes, threads and transactions.       *)
(*                                                                         *)
(* The invariant, BinderInv, has two parts.  Sound says how transactions   *)
(* and stacks hang together, in terms of the transactions that are queued  *)
(* and of those nobody takes care of while the driver works on them; each  *)
(* function of the driver takes a sound heap to a sound one, and so do the *)
(* loops of binder_release_work and binder_deferred_release.  The rest is  *)
(* about the lists: a transaction is in one at most, and in the right one. *)
(***************************************************************************)
EXTENDS Binder, ListLemmas

-----------------------------------------------------------------------------
(* Chains.                                                                 *)

\* Links from a transaction to another one, or to none.
NextMap == [Tx -> Tx \cup {NULL}]

\* Nothing in S leads out of it.
Closed(next, S) == \A v \in S : next[v] \in S \cup {NULL}

\* What is in a chain is in every set that has its start and is closed.
LEMMA ChainLeast ==
  ASSUME NEW next \in NextMap, NEW t \in Tx \cup {NULL}, NEW S \in SUBSET Tx,
         t \in S \cup {NULL}, Closed(next, S)
  PROVE  Chain(next, t) \subseteq S
BY DEF Chain, Closed

\* A chain is a set of transactions.
LEMMA ChainType ==
  ASSUME NEW next, NEW t
  PROVE  Chain(next, t) \subseteq Tx
BY DEF Chain

\* Nothing follows NULL.
LEMMA ChainNull ==
  ASSUME NEW next \in NextMap
  PROVE  Chain(next, NULL) = {}
<1>1. {} \in SUBSET Tx /\ NULL \in {} \cup {NULL} /\ Closed(next, {})
  BY DEF Closed
<1> QED BY <1>1, ChainLeast

\* A chain has its start and is closed.
LEMMA ChainClosed ==
  ASSUME NEW next \in NextMap, NEW t \in Tx
  PROVE  t \in Chain(next, t) /\ Closed(next, Chain(next, t))
<1>0. t # NULL
  BY BinderAssumption
<1>1. t \in Chain(next, t)
  BY <1>0 DEF Chain
<1>2. ASSUME NEW v \in Chain(next, t), next[v] # NULL PROVE next[v] \in Chain(next, t)
  <2>1. v \in Tx /\ next[v] \in Tx
    BY <1>2 DEF Chain, NextMap
  <2>2. ASSUME NEW S \in SUBSET Tx, t \in S \cup {NULL}, \A x \in S : next[x] \in S \cup {NULL}
        PROVE  next[v] \in S
    <3>1. v \in S
      BY <1>2, <2>2 DEF Chain
    <3> QED BY <1>2, <2>2, <3>1
  <2> QED BY <2>1, <2>2 DEF Chain
<1> QED BY <1>1, <1>2 DEF Closed

\* Everything in a chain but its start is the next of something in it.
LEMMA ChainPrevious ==
  ASSUME NEW next \in NextMap, NEW t \in Tx, NEW u \in Chain(next, t), u # t
  PROVE  \E v \in Chain(next, t) : next[v] = u
<1> SUFFICES ASSUME \A v \in Chain(next, t) : next[v] # u PROVE FALSE
  OBVIOUS
<1> DEFINE C == Chain(next, t)
           S == C \ {u}
<1>1. t \in C /\ Closed(next, C)
  BY ChainClosed
<1>2. S \in SUBSET Tx
  BY ChainType
<1>3. t \in S \cup {NULL}
  BY <1>1
<1>4. Closed(next, S)
  BY <1>1 DEF Closed
<1> HIDE DEF S
<1>5. Chain(next, t) \subseteq S
  BY <1>2, <1>3, <1>4, ChainLeast
<1> QED BY <1>5 DEF S

\* The rest of a chain is part of it.
LEMMA ChainPart ==
  ASSUME NEW next \in NextMap, NEW t \in Tx \cup {NULL}, NEW u \in Chain(next, t)
  PROVE  Chain(next, u) \subseteq Chain(next, t) /\ t \in Tx
<1>1. t # NULL
  BY ChainNull
<1>2. u \in Tx
  BY ChainType
<1> DEFINE C == Chain(next, t)
<1>3. C \in SUBSET Tx /\ Closed(next, C) /\ u \in C \cup {NULL}
  BY <1>1, ChainType, ChainClosed
<1> HIDE DEF C
<1>4. Chain(next, u) \subseteq C
  BY <1>2, <1>3, ChainLeast
<1> QED BY <1>1, <1>4 DEF C

\* A chain is its start and the chain of what comes next.
LEMMA ChainStep ==
  ASSUME NEW next \in NextMap, NEW t \in Tx
  PROVE  Chain(next, t) = {t} \cup Chain(next, next[t])
<1> DEFINE D == Chain(next, next[t])
           S == {t} \cup D
<1>1. next[t] \in Tx \cup {NULL}
  BY DEF NextMap
<1>2. t \in Chain(next, t) /\ Closed(next, Chain(next, t))
  BY ChainClosed
<1>3. D \subseteq Chain(next, t)
  <2>1. CASE next[t] = NULL
    BY <2>1, ChainNull
  <2>2. CASE next[t] # NULL
    <3>1. next[t] \in Chain(next, t)
      BY <1>2, <2>2 DEF Closed
    <3> QED BY <3>1, ChainPart
  <2> QED BY <2>1, <2>2
<1>4. Closed(next, D) /\ (next[t] # NULL => next[t] \in D)
  <2>1. CASE next[t] = NULL
    BY <2>1, ChainNull DEF Closed
  <2>2. CASE next[t] # NULL
    BY <1>1, <2>2, ChainClosed
  <2> QED BY <2>1, <2>2
<1>5. D \subseteq Tx
  BY ChainType
<1> HIDE DEF D
<1>6. S \in SUBSET Tx /\ t \in S \cup {NULL} /\ Closed(next, S)
  BY <1>4, <1>5 DEF Closed
<1> HIDE DEF S
<1>7. Chain(next, t) \subseteq S
  BY <1>6, ChainLeast
<1>8. S \subseteq Chain(next, t)
  BY <1>2, <1>3 DEF S
<1> QED BY <1>7, <1>8 DEF S, D

\* A chain depends only on what it goes through.
LEMMA ChainSame ==
  ASSUME NEW next \in NextMap, NEW next2 \in NextMap, NEW t \in Tx \cup {NULL},
         \A u \in Chain(next, t) : next2[u] = next[u]
  PROVE  Chain(next2, t) = Chain(next, t)
<1>1. CASE t = NULL
  BY <1>1, ChainNull
<1>2. CASE t # NULL
  <2> DEFINE C == Chain(next, t)
             E == Chain(next2, t)
  <2>1. C \in SUBSET Tx /\ t \in C /\ Closed(next, C)
    BY <1>2, ChainType, ChainClosed
  <2>2. E \in SUBSET Tx /\ t \in E /\ Closed(next2, E)
    BY <1>2, ChainType, ChainClosed
  <2>3. \A u \in C : next2[u] = next[u]
    OBVIOUS
  <2>4. E \subseteq C
    <3>1. Closed(next2, C)
      BY <2>1, <2>3 DEF Closed
    <3> HIDE DEF C
    <3> QED BY <2>1, <3>1, ChainLeast
  <2>5. C \subseteq E
    <3> DEFINE S == C \cap E
    <3>1. S \in SUBSET Tx /\ t \in S \cup {NULL} /\ Closed(next, S)
      BY <2>1, <2>2, <2>3 DEF Closed
    <3> HIDE DEF S
    <3>2. Chain(next, t) \subseteq S
      BY <3>1, ChainLeast
    <3> QED BY <3>2 DEF S
  <2> QED BY <2>4, <2>5
<1> QED BY <1>1, <1>2

\* A chain that ends has one end.
LEMMA ChainEnd ==
  ASSUME NEW next \in NextMap, NEW t \in Tx, NEW c \in Chain(next, t), next[c] = NULL,
         NEW u \in Chain(next, t)
  PROVE  c \in Chain(next, u)
<1> DEFINE C == Chain(next, t)
           S == {x \in C : c \in Chain(next, x)}
<1>1. C \in SUBSET Tx /\ t \in C /\ Closed(next, C)
  BY ChainType, ChainClosed
<1>2. S \in SUBSET Tx /\ t \in S \cup {NULL}
  BY <1>1
<1>3. Closed(next, S)
  <2> SUFFICES ASSUME NEW x \in S, next[x] # NULL PROVE next[x] \in S
    BY DEF Closed
  <2>1. x \in Tx /\ next[x] \in C
    BY <1>1 DEF Closed
  <2>2. Chain(next, x) = {x} \cup Chain(next, next[x])
    BY <2>1, ChainStep
  <2>3. c \in Chain(next, next[x])
    BY <2>2
  <2> QED BY <2>1, <2>3
<1> HIDE DEF S
<1>4. Chain(next, t) \subseteq S
  BY <1>2, <1>3, ChainLeast
<1> QED BY <1>4 DEF S

\* Ranks that decrease from one to the next decrease along a chain.
LEMMA ChainRank ==
  ASSUME NEW next \in NextMap, NEW t \in Tx, NEW r \in [Tx -> Nat],
         \A u \in Tx : next[u] # NULL => r[next[u]] < r[u],
         NEW u \in Chain(next, t)
  PROVE  u \in Tx /\ r[u] <= r[t]
<1> DEFINE S == {x \in Tx : r[x] <= r[t]}
<1>1. S \in SUBSET Tx /\ t \in S \cup {NULL}
  OBVIOUS
<1>2. Closed(next, S)
  BY DEF Closed, NextMap
<1> HIDE DEF S
<1>3. Chain(next, t) \subseteq S
  BY <1>1, <1>2, ChainLeast
<1> QED BY <1>3 DEF S

-----------------------------------------------------------------------------
(* What a call was made for.                                               *)

\* The type of a transaction, and of all of them.
TxRecord == [kind : {"free", "call", "oneway", "reply"}, from : Thread \cup {NULL},
             from_parent : Tx \cup {NULL}, to_thread : Thread \cup {NULL},
             to_parent : Tx \cup {NULL}, node : Proc \cup {NULL}]
TxMap == [Tx -> TxRecord]

\* The links that Causes, OnStack and FailedPath follow.
CauseMap(X) == [u \in Tx |-> X[u].from_parent]
StackMap(X, T) == [u \in Tx |-> IF X[u].to_thread = T THEN X[u].to_parent ELSE X[u].from_parent]
FailMap(X) == [u \in Tx |-> IF X[u].from = NULL THEN X[u].from_parent ELSE NULL]

\* Nobody has made a call for t.
End(X, t) == \A v \in Tx : X[v].from_parent # t

\* The fields of a transaction.
LEMMA TxFields ==
  ASSUME NEW X \in TxMap, NEW t \in Tx
  PROVE  /\ X[t] \in TxRecord
         /\ X[t].from \in Thread \cup {NULL} /\ X[t].to_thread \in Thread \cup {NULL}
         /\ X[t].from_parent \in Tx \cup {NULL} /\ X[t].to_parent \in Tx \cup {NULL}
         /\ X[t].node \in Proc \cup {NULL} /\ t # NULL
BY BinderAssumption DEF TxMap, TxRecord

\* The maps that the chains follow.
LEMMA MapTypes ==
  ASSUME NEW X \in TxMap, NEW T
  PROVE  CauseMap(X) \in NextMap /\ StackMap(X, T) \in NextMap /\ FailMap(X) \in NextMap
BY TxFields DEF CauseMap, StackMap, FailMap, NextMap

\* The chains follow them.
LEMMA ChainsOf ==
  ASSUME NEW X, NEW T, NEW t
  PROVE  /\ OnStack(X, T, t) = Chain(StackMap(X, T), t)
         /\ Causes(X, t) = Chain(CauseMap(X), t)
         /\ FailedPath(X, t) = Chain(FailMap(X), t)
BY DEF OnStack, Causes, FailedPath, StackMap, CauseMap, FailMap

\* What t was made for.
LEMMA CausesFacts ==
  ASSUME NEW X \in TxMap, NEW t \in Tx
  PROVE  /\ t \in Causes(X, t) /\ Causes(X, t) \subseteq Tx
         /\ Causes(X, t) = {t} \cup Causes(X, X[t].from_parent)
         /\ Causes(X, NULL) = {}
<1> DEFINE N == CauseMap(X)
<1>1. N \in NextMap /\ N[t] = X[t].from_parent
  BY MapTypes DEF CauseMap
<1>2. \A u : Causes(X, u) = Chain(N, u)
  BY ChainsOf
<1> HIDE DEF N
<1>3. t \in Chain(N, t) /\ Chain(N, t) \subseteq Tx
  BY <1>1, ChainClosed, ChainType
<1>4. Chain(N, t) = {t} \cup Chain(N, N[t])
  BY <1>1, ChainStep
<1>5. Chain(N, NULL) = {}
  BY <1>1, ChainNull
<1> QED BY <1>1, <1>2, <1>3, <1>4, <1>5

\* Everything but t itself was the reason for another of these calls.
LEMMA CauseOf ==
  ASSUME NEW X \in TxMap, NEW t \in Tx, NEW u \in Causes(X, t), u # t
  PROVE  \E v \in Causes(X, t) : X[v].from_parent = u
<1> DEFINE N == CauseMap(X)
<1>1. N \in NextMap /\ \A v \in Tx : N[v] = X[v].from_parent
  BY MapTypes DEF CauseMap
<1>2. Causes(X, t) = Chain(N, t)
  BY ChainsOf
<1> HIDE DEF N
<1>3. PICK v \in Chain(N, t) : N[v] = u
  BY <1>1, <1>2, ChainPrevious
<1>4. v \in Tx
  BY ChainType
<1> QED BY <1>1, <1>2, <1>3, <1>4

\* The causes of a cause are causes.
LEMMA CausesPart ==
  ASSUME NEW X \in TxMap, NEW t \in Tx \cup {NULL}, NEW u \in Causes(X, t)
  PROVE  Causes(X, u) \subseteq Causes(X, t) /\ t \in Tx /\ u \in Tx
<1> DEFINE N == CauseMap(X)
<1>1. N \in NextMap
  BY MapTypes
<1>2. \A x : Causes(X, x) = Chain(N, x)
  BY ChainsOf
<1> HIDE DEF N
<1>3. u \in Chain(N, t)
  BY <1>2
<1>4. Chain(N, u) \subseteq Chain(N, t) /\ t \in Tx
  BY <1>1, <1>3, ChainPart
<1>5. u \in Tx
  BY <1>3, ChainType
<1> QED BY <1>2, <1>4, <1>5

\* If with every call R has those that were made for it, and has a cause of t, then it has t.
LEMMA DownClosed ==
  ASSUME NEW X \in TxMap, NEW t \in Tx, NEW R, \A v \in Tx : X[v].from_parent \in R => v \in R,
         NEW u \in Causes(X, t), u \in R
  PROVE  t \in R
<1> DEFINE N == CauseMap(X)
           C == Causes(X, t)
           S == {x \in C : x \in R => t \in R}
<1>1. N \in NextMap /\ \A v \in Tx : N[v] = X[v].from_parent
  BY MapTypes DEF CauseMap
<1>2. C = Chain(N, t)
  BY ChainsOf
<1>3. t \in C /\ C \subseteq Tx /\ Closed(N, C)
  <2> HIDE DEF N, C
  <2> QED BY <1>1, <1>2, ChainClosed, ChainType
<1>4. S \in SUBSET Tx /\ t \in S \cup {NULL}
  BY <1>3
<1>5. Closed(N, S)
  <2> SUFFICES ASSUME NEW x \in S, N[x] # NULL PROVE N[x] \in S
    BY DEF Closed
  <2> HIDE DEF N
  <2>1. x \in Tx /\ N[x] \in C /\ X[x].from_parent = N[x]
    BY <1>1, <1>3 DEF Closed
  <2>2. N[x] \in R => t \in R
    BY <2>1
  <2> QED BY <2>1, <2>2
<1> HIDE DEF S, N, C
<1>6. Chain(N, t) \subseteq S
  BY <1>1, <1>4, <1>5, ChainLeast
<1> QED BY <1>2, <1>6 DEF S, C

\* At most one call was made for each.
OneChild(X) ==
  \A t, v \in Tx : X[t].from_parent # NULL /\ X[t].from_parent = X[v].from_parent => t = v

\* Nothing else was made for the causes of the last one.
LEMMA CausesLine ==
  ASSUME NEW X \in TxMap, OneChild(X), NEW t \in Tx, End(X, t), NEW x \in Tx,
         NEW u \in Causes(X, t), u \in Causes(X, x)
  PROVE  x \in Causes(X, t)
<1> DEFINE R == Causes(X, t)
<1>1. ASSUME NEW v \in Tx, X[v].from_parent \in R PROVE v \in R
  <2> DEFINE y == X[v].from_parent
  <2>1. y # t /\ y # NULL
    <3>1. y \in Tx
      BY <1>1, CausesFacts
    <3> QED BY <3>1, BinderAssumption DEF End
  <2>2. PICK w \in Causes(X, t) : X[w].from_parent = y
    <3> HIDE DEF y
    <3> QED BY <1>1, <2>1, CauseOf DEF y
  <2>3. w \in Tx
    BY CausesFacts
  <2> QED BY <2>1, <2>2, <2>3 DEF OneChild
<1>2. \A v \in Tx : X[v].from_parent \in R => v \in R
  BY <1>1
<1>3. u \in R
  OBVIOUS
<1> HIDE DEF R
<1>4. x \in R
  BY <1>2, <1>3, DownClosed
<1> QED BY <1>4 DEF R

\* A last call is the cause of nothing but itself.
LEMMA EndCause ==
  ASSUME NEW X \in TxMap, NEW t \in Tx, NEW u \in Causes(X, t), End(X, u)
  PROVE  u = t
<1> SUFFICES ASSUME u # t PROVE FALSE
  OBVIOUS
<1>1. PICK v \in Causes(X, t) : X[v].from_parent = u
  BY CauseOf
<1>2. v \in Tx
  BY CausesFacts
<1> QED BY <1>1, <1>2 DEF End

\* Last calls with a common cause are the same.
LEMMA OneEnd ==
  ASSUME NEW X \in TxMap, OneChild(X), NEW t \in Tx, End(X, t), NEW x \in Tx, End(X, x),
         NEW u \in Causes(X, t), u \in Causes(X, x)
  PROVE  x = t
<1>1. x \in Causes(X, t)
  BY CausesLine
<1> QED BY <1>1, EndCause

\* The causes depend on the links between them only.
LEMMA CausesSame ==
  ASSUME NEW X \in TxMap, NEW Y \in TxMap, NEW t \in Tx \cup {NULL},
         \A u \in Causes(X, t) : Y[u].from_parent = X[u].from_parent
  PROVE  Causes(Y, t) = Causes(X, t)
<1> DEFINE M == CauseMap(X)
           N == CauseMap(Y)
<1>1. M \in NextMap /\ N \in NextMap
  BY MapTypes
<1>2. Causes(X, t) = Chain(M, t) /\ Causes(Y, t) = Chain(N, t)
  BY ChainsOf
<1>3. \A u \in Chain(M, t) : N[u] = M[u]
  <2>1. Chain(M, t) \subseteq Tx
    BY ChainType
  <2> QED BY <1>2, <2>1 DEF CauseMap
<1> HIDE DEF M, N
<1>4. Chain(N, t) = Chain(M, t)
  BY <1>1, <1>3, ChainSame
<1> QED BY <1>2, <1>4

\* r numbers the transactions so that a call has a higher number than the one it was made for.
RankOf(r, X) ==
  r \in [Tx -> Nat] /\ \A u \in Tx : X[u].from_parent # NULL => r[X[u].from_parent] < r[u]

\* Causes come first.
LEMMA CauseRank ==
  ASSUME NEW X \in TxMap, NEW r, RankOf(r, X), NEW t \in Tx
  PROVE  /\ \A u \in Causes(X, t) : r[u] <= r[t]
         /\ \A u \in Causes(X, X[t].from_parent) : r[u] < r[t]
<1> DEFINE N == CauseMap(X)
<1>1. N \in NextMap /\ \A v \in Tx : N[v] = X[v].from_parent
  BY MapTypes DEF CauseMap
<1>2. \A x : Causes(X, x) = Chain(N, x)
  BY ChainsOf
<1>3. r \in [Tx -> Nat] /\ \A u \in Tx : N[u] # NULL => r[N[u]] < r[u]
  BY <1>1 DEF RankOf
<1> HIDE DEF N
<1>4. ASSUME NEW x \in Tx, NEW u \in Causes(X, x) PROVE u \in Tx /\ r[u] <= r[x]
  <2>1. u \in Chain(N, x)
    BY <1>2
  <2> QED BY <1>1, <1>3, <2>1, ChainRank
<1>5. ASSUME NEW u \in Causes(X, X[t].from_parent) PROVE r[u] < r[t]
  <2>1. X[t].from_parent \in Tx
    BY TxFields, CausesFacts
  <2>2. u \in Tx /\ r[u] <= r[X[t].from_parent]
    BY <1>4, <2>1
  <2>3. r[X[t].from_parent] < r[t]
    BY <2>1, BinderAssumption DEF RankOf
  <2>4. r[u] \in Nat /\ r[t] \in Nat /\ r[X[t].from_parent] \in Nat
    BY <1>3, <2>1, <2>2
  <2> QED BY <2>2, <2>3, <2>4
<1> QED BY <1>4, <1>5

-----------------------------------------------------------------------------
(* Sound transactions X and stacks st.  W are the transactions that are    *)
(* queued, D those nobody takes care of any more: driver functions that    *)
(* are under way will end them.                                            *)

IsCall(X, t) == X[t].kind = "call"

\* Only calls have links, and they go from one process to another.
Shaped(X) ==
  \A t \in Tx :
    /\ ~IsCall(X, t) => X[t].from = NULL /\ X[t].from_parent = NULL /\ X[t].to_parent = NULL
    /\ X[t].kind \in {"free", "oneway"} => X[t].to_thread = NULL
    /\ IsCall(X, t) => /\ X[t].from # NULL => ProcOf[X[t].from] # X[t].node
                       /\ X[t].to_thread # NULL => ProcOf[X[t].to_thread] = X[t].node

\* A call was made for a call that its sender handles.
MadeFor(X, t, u, Z) == IsCall(X, u) /\ u \notin Z /\ X[t].from = X[u].to_thread

Linked(X, Z) ==
  \A t \in Tx : X[t].from_parent # NULL => MadeFor(X, t, X[t].from_parent, Z)

\* A thread that waits handles only calls that were made, in the end, for the one it waits for.
HandledOn(X, t, u) ==
  IsCall(X, u) /\ X[u].from = X[t].to_thread /\ u \in Causes(X, X[t].from_parent)

Backed(X) == \A t \in Tx : X[t].to_parent # NULL => HandledOn(X, t, X[t].to_parent)

\* from_parent leads to no circle.
Ranked(X) == \E r : RankOf(r, X)

\* The transactions on the stack of T.
On(X, st, T) == OnStack(X, T, st[T])

\* The stack of T holds the calls that T has sent and those that it handles.
Stacked(X, st, Z) ==
  /\ \A T \in Thread : \A t \in On(X, st, T) : IsCall(X, t) /\ T \in {X[t].from, X[t].to_thread}
  /\ \A t \in Tx : IsCall(X, t) /\ X[t].from # NULL => t \in On(X, st, X[t].from)
  /\ \A t \in Tx : IsCall(X, t) /\ X[t].to_thread # NULL =>
       (t \in Z <=> t \notin On(X, st, X[t].to_thread))

\* A call that waits in the list of a thread was made for the one the thread waits for.
QueuedFor(X, st, t, T) ==
  st[T] # NULL /\ st[T] \in Causes(X, X[t].from_parent) /\ X[st[T]].from = T

Waits(X, st, W) ==
  \A t \in W : /\ X[t].kind # "free"
               /\ IsCall(X, t) => /\ X[t].to_parent = NULL
                                  /\ X[t].to_thread # NULL => QueuedFor(X, st, t, X[t].to_thread)

\* Somebody takes care of every transaction.
Cared(X, Z) ==
  \A t \in Tx : /\ X[t].kind \in {"oneway", "reply"} => t \in Z
                /\ IsCall(X, t) => t \in Z \/ X[t].to_thread # NULL \/ ~End(X, t)

StackType == [Thread -> Tx \cup {NULL}]

\* All of it.
Sound(X, st, W, D) ==
  /\ X \in TxMap /\ st \in StackType /\ W \subseteq Tx /\ D \subseteq Tx /\ W \cap D = {}
  /\ Shaped(X) /\ Linked(X, W \cup D) /\ OneChild(X) /\ Backed(X) /\ Ranked(X)
  /\ Stacked(X, st, W \cup D) /\ Waits(X, st, W) /\ Cared(X, W \cup D)

\* Nobody calls itself.
LEMMA Sender ==
  ASSUME NEW X \in TxMap, Shaped(X), NEW t \in Tx, IsCall(X, t), X[t].from # NULL
  PROVE  X[t].from # X[t].to_thread /\ X[t].from \in Thread
BY TxFields, BinderAssumption DEF Shaped

\* Ranks decrease from the top of a stack downwards.
LEMMA StackRank ==
  ASSUME NEW X \in TxMap, Backed(X), NEW r, RankOf(r, X), NEW T, NEW s \in Tx,
         NEW t \in OnStack(X, T, s)
  PROVE  t \in Tx /\ r[t] <= r[s] /\ r[t] \in Nat /\ r[s] \in Nat
<1> DEFINE N == StackMap(X, T)
<1>1. N \in NextMap
  BY MapTypes
<1>2. ASSUME NEW u \in Tx, N[u] # NULL PROVE r[N[u]] < r[u]
  <2>1. CASE X[u].to_thread = T
    <3>1. N[u] = X[u].to_parent
      BY <2>1 DEF StackMap
    <3>2. N[u] \in Causes(X, X[u].from_parent)
      BY <1>2, <3>1 DEF Backed, HandledOn
    <3> HIDE DEF N
    <3> QED BY <3>2, CauseRank
  <2>2. CASE X[u].to_thread # T
    BY <1>2, <2>2 DEF StackMap, RankOf
  <2> QED BY <2>1, <2>2
<1>3. t \in Chain(N, s)
  BY ChainsOf
<1> HIDE DEF N
<1>4. r \in [Tx -> Nat]
  BY DEF RankOf
<1>5. \A u \in Tx : N[u] # NULL => r[N[u]] < r[u]
  BY <1>2
<1>6. t \in Tx /\ r[t] <= r[s]
  BY <1>1, <1>3, <1>4, <1>5, ChainRank
<1> QED BY <1>4, <1>6

\* What is below the top of a stack.
LEMMA StackFacts ==
  ASSUME NEW X \in TxMap, Backed(X), Ranked(X), NEW T, NEW s \in Tx,
         NEW n, n = StackMap(X, T)[s]
  PROVE  /\ OnStack(X, T, s) = {s} \cup OnStack(X, T, n) /\ s \notin OnStack(X, T, n)
         /\ OnStack(X, T, s) \subseteq Tx /\ n \in Tx \cup {NULL}
<1> DEFINE N == StackMap(X, T)
<1>1. N \in NextMap /\ n \in Tx \cup {NULL} /\ n = N[s]
  BY MapTypes DEF NextMap
<1>2. \A x : OnStack(X, T, x) = Chain(N, x)
  BY ChainsOf
<1>3. PICK r : RankOf(r, X)
  BY DEF Ranked
<1> HIDE DEF N
<1>4. Chain(N, s) = {s} \cup Chain(N, n) /\ Chain(N, s) \subseteq Tx
  BY <1>1, ChainStep, ChainType
<1>5. s \notin OnStack(X, T, n)
  <2> SUFFICES ASSUME s \in OnStack(X, T, n) PROVE FALSE
    OBVIOUS
  <2>1. n \in Tx
    BY <1>1, <1>2, ChainNull
  <2>2. r[s] <= r[n] /\ r[n] \in Nat /\ r[s] \in Nat
    BY <1>3, <2>1, StackRank
  <2>3. n # NULL
    BY <2>1, BinderAssumption
  <2>4. r[n] < r[s]
    <3>1. CASE X[s].to_thread = T
      <4>1. n = X[s].to_parent
        BY <3>1 DEF StackMap
      <4>2. n \in Causes(X, X[s].from_parent)
        BY <2>3, <4>1 DEF Backed, HandledOn
      <4> QED BY <1>3, <4>2, CauseRank
    <3>2. CASE X[s].to_thread # T
      BY <1>3, <2>3, <3>2 DEF StackMap, RankOf
    <3> QED BY <3>1, <3>2
  <2> QED BY <2>2, <2>4
<1> QED BY <1>1, <1>2, <1>4, <1>5

\* An empty stack.
LEMMA StackEmpty ==
  ASSUME NEW X \in TxMap, NEW T
  PROVE  OnStack(X, T, NULL) = {}
<1>1. StackMap(X, T) \in NextMap
  BY MapTypes
<1> QED BY <1>1, ChainsOf, ChainNull

\* What is on a stack, but not at its top, has something on top of it.
LEMMA StackAbove ==
  ASSUME NEW X \in TxMap, NEW T, NEW s \in Tx, NEW t \in OnStack(X, T, s), t # s
  PROVE  \E x \in OnStack(X, T, s) : StackMap(X, T)[x] = t
<1> DEFINE N == StackMap(X, T)
<1>1. N \in NextMap
  BY MapTypes
<1>2. OnStack(X, T, s) = Chain(N, s)
  BY ChainsOf
<1> HIDE DEF N
<1>3. \E x \in Chain(N, s) : N[x] = t
  BY <1>1, <1>2, ChainPrevious
<1> QED BY <1>2, <1>3 DEF N

\* A stack depends on the links of its transactions only.
LEMMA StackSame ==
  ASSUME NEW X \in TxMap, NEW Y \in TxMap, NEW T, NEW s \in Tx \cup {NULL},
         \A u \in OnStack(X, T, s) : StackMap(Y, T)[u] = StackMap(X, T)[u]
  PROVE  OnStack(Y, T, s) = OnStack(X, T, s)
<1> DEFINE M == StackMap(X, T)
           N == StackMap(Y, T)
<1>1. M \in NextMap /\ N \in NextMap
  BY MapTypes
<1>2. OnStack(X, T, s) = Chain(M, s) /\ OnStack(Y, T, s) = Chain(N, s)
  BY ChainsOf
<1>3. \A u \in Chain(M, s) : N[u] = M[u]
  BY <1>2
<1> HIDE DEF M, N
<1>4. Chain(N, s) = Chain(M, s)
  BY <1>1, <1>3, ChainSame
<1> QED BY <1>2, <1>4

\* What is on a stack has a top above it, of higher rank.
LEMMA TopRank ==
  ASSUME NEW X, NEW st, NEW W, NEW D, Sound(X, st, W, D), NEW T \in Thread, NEW t \in On(X, st, T),
         NEW r, RankOf(r, X)
  PROVE  /\ st[T] \in Tx /\ st[T] \in On(X, st, T) /\ t \in Tx
         /\ r[t] <= r[st[T]] /\ r[t] \in Nat /\ r[st[T]] \in Nat
<1>1. X \in TxMap /\ Backed(X) /\ Ranked(X) /\ st[T] \in Tx \cup {NULL}
  BY DEF Sound, StackType
<1> DEFINE s == st[T]
<1>2. s \in Tx
  BY <1>1, StackEmpty DEF On
<1>3. t \in OnStack(X, T, s)
  BY DEF On
<1> HIDE DEF s
<1>4. t \in Tx /\ r[t] <= r[s] /\ r[t] \in Nat /\ r[s] \in Nat
  BY <1>1, <1>2, <1>3, StackRank
<1>5. s \in OnStack(X, T, s)
  BY <1>1, <1>2, StackFacts
<1> QED BY <1>2, <1>4, <1>5 DEF s, On

\* Nothing has been made for what is queued.
LEMMA QueuedLast ==
  ASSUME NEW X, NEW st, NEW W, NEW D, Sound(X, st, W, D), NEW t \in W \cup D
  PROVE  End(X, t) /\ t \in Tx
<1>1. t # NULL /\ t \in Tx
  BY BinderAssumption DEF Sound
<1> QED BY <1>1 DEF Sound, Linked, MadeFor, End

\* The call on top of the stack of the thread that handles it is the last of its chain.
LEMMA HandledTop ==
  ASSUME NEW X, NEW st, NEW W, NEW D, Sound(X, st, W, D), NEW T \in Thread, st[T] # NULL,
         NEW s, s = st[T], X[s].to_thread = T
  PROVE  End(X, s) /\ s \in Tx /\ s \notin W \cup D /\ IsCall(X, s) /\ s \in On(X, st, T)
<1>1. X \in TxMap /\ Backed(X) /\ Ranked(X) /\ s \in Tx /\ Linked(X, W \cup D) /\ Stacked(X, st, W \cup D)
  BY DEF Sound, StackType
<1>2. PICK r : RankOf(r, X)
  BY <1>1 DEF Ranked
<1>3. s \in On(X, st, T)
  BY <1>1, StackFacts DEF On
<1>4. IsCall(X, s)
  BY <1>1, <1>3 DEF Stacked
<1>5. T # NULL /\ s # NULL
  BY <1>1, BinderAssumption
<1>6. s \notin W \cup D
  BY <1>1, <1>3, <1>4, <1>5 DEF Stacked
<1>7. ASSUME NEW v \in Tx, X[v].from_parent = s PROVE FALSE
  <2>1. X[v].from = T
    BY <1>1, <1>5, <1>7 DEF Linked, MadeFor
  <2>2. IsCall(X, v)
    BY <1>5, <1>7 DEF Sound, Shaped
  <2>3. v \in On(X, st, T)
    BY <1>1, <1>5, <2>1, <2>2 DEF Stacked
  <2>4. r[v] <= r[s] /\ r[v] \in Nat /\ r[s] \in Nat
    BY <1>2, <2>3, TopRank
  <2>5. r[s] < r[v]
    BY <1>2, <1>5, <1>7 DEF RankOf
  <2> QED BY <2>4, <2>5
<1> QED BY <1>1, <1>3, <1>4, <1>6, <1>7 DEF End

-----------------------------------------------------------------------------
(* A call that nobody takes care of is ended: its path to the sender that  *)
(* still waits goes with it.                                               *)

\* d is such a call, and R its path.
Path(X, st, W, D, d, R) ==
  Sound(X, st, W, D) /\ d \in D /\ IsCall(X, d) /\ R = FailedPath(X, d)

\* The path leads towards the causes of d, and whatever was made for a call on it is on it.
LEMMA PathFacts ==
  ASSUME NEW X, NEW st, NEW W, NEW D, NEW d, NEW R, Path(X, st, W, D, d, R)
  PROVE  /\ d \in Tx /\ d \in R /\ R \subseteq Tx /\ R \subseteq Causes(X, d) /\ End(X, d)
         /\ \A v \in Tx : X[v].from_parent \in R => v \in R /\ X[v].from = NULL
         /\ \A u \in R : X[u].from = NULL /\ X[u].from_parent # NULL => X[u].from_parent \in R
         /\ \A u \in R : IsCall(X, u)
         /\ \A u \in R \ {d} : u \notin W \cup D /\ X[u].to_thread = NULL
<1> DEFINE N == FailMap(X)
<1>0. /\ X \in TxMap /\ d \in Tx /\ End(X, d) /\ d \in D /\ Linked(X, W \cup D) /\ OneChild(X)
      /\ IsCall(X, d) /\ R = FailedPath(X, d)
  BY QueuedLast DEF Path, Sound
<1>1. /\ N \in NextMap
      /\ \A v \in Tx : N[v] = IF X[v].from = NULL THEN X[v].from_parent ELSE NULL
  BY <1>0, MapTypes DEF FailMap
<1>2. R = Chain(N, d)
  BY <1>0, ChainsOf
<1> HIDE DEF N
<1>3. d \in R /\ Closed(N, R) /\ R \subseteq Tx
  BY <1>0, <1>1, <1>2, ChainClosed, ChainType
<1>4. R \subseteq Causes(X, d)
  <2> DEFINE S == Causes(X, d)
  <2>1. S \in SUBSET Tx /\ d \in S \cup {NULL}
    BY <1>0, CausesFacts
  <2>2. Closed(N, S)
    <3> SUFFICES ASSUME NEW v \in S, N[v] # NULL PROVE N[v] \in S
      BY DEF Closed
    <3>1. v \in Tx /\ N[v] = X[v].from_parent
      BY <1>1, <2>1
    <3>2. N[v] \in Tx
      BY <1>1, <3>1 DEF NextMap
    <3>3. N[v] \in Causes(X, v)
      BY <1>0, <3>1, <3>2, CausesFacts
    <3> QED BY <1>0, <3>3, CausesPart
  <2> HIDE DEF S
  <2>3. Chain(N, d) \subseteq S
    BY <1>0, <1>1, <2>1, <2>2, ChainLeast
  <2> QED BY <1>2, <2>3 DEF S
<1>5. \A u \in R : X[u].from = NULL /\ X[u].from_parent # NULL => X[u].from_parent \in R
  BY <1>1, <1>3 DEF Closed
<1>6. ASSUME NEW v \in R, v # d
      PROVE  \E u \in R : u \in Tx /\ X[u].from = NULL /\ X[u].from_parent = v
  <2>1. PICK u \in R : N[u] = v
    BY <1>0, <1>1, <1>2, <1>6, ChainPrevious
  <2>2. v # NULL
    BY <1>3, <1>6, BinderAssumption
  <2> QED BY <1>1, <1>3, <2>1, <2>2
<1>7. ASSUME NEW v \in Tx, X[v].from_parent \in R PROVE v \in R /\ X[v].from = NULL
  <2>1. X[v].from_parent # d /\ X[v].from_parent # NULL
    BY <1>0, <1>3, <1>7, BinderAssumption DEF End
  <2>2. PICK u \in R : u \in Tx /\ X[u].from = NULL /\ X[u].from_parent = X[v].from_parent
    BY <1>6, <1>7, <2>1
  <2>3. u = v
    BY <1>0, <2>1, <2>2 DEF OneChild
  <2> QED BY <2>2, <2>3
<1>8. ASSUME NEW v \in R, v # d
      PROVE  IsCall(X, v) /\ v \notin W \cup D /\ X[v].to_thread = NULL
  <2>1. PICK u \in R : u \in Tx /\ X[u].from = NULL /\ X[u].from_parent = v
    BY <1>6, <1>8
  <2>2. v # NULL
    BY <1>3, <1>8, BinderAssumption
  <2> QED BY <1>0, <2>1, <2>2 DEF Linked, MadeFor
<1> QED BY <1>0, <1>3, <1>4, <1>5, <1>7, <1>8

\* The sender at the end of the path is the only one, and waits for the call it has sent.
LEMMA PathCaller ==
  ASSUME NEW X, NEW st, NEW W, NEW D, NEW d, NEW R, Path(X, st, W, D, d, R),
         NEW c \in R, X[c].from # NULL
  PROVE  /\ X[c].from \in Thread /\ st[X[c].from] = c /\ X[c].to_thread # X[c].from
         /\ \A u \in R : X[u].from # NULL => u = c
<1> DEFINE N == FailMap(X)
           T == X[c].from
<1>0. /\ X \in TxMap /\ OneChild(X) /\ Stacked(X, st, W \cup D) /\ R = FailedPath(X, d) /\ Backed(X)
      /\ Shaped(X) /\ d \in D
  BY DEF Path, Sound
<1>f. /\ d \in Tx /\ d \in R /\ R \subseteq Tx /\ R \subseteq Causes(X, d) /\ End(X, d)
      /\ \A v \in Tx : X[v].from_parent \in R => v \in R /\ X[v].from = NULL
      /\ \A u \in R : IsCall(X, u)
      /\ \A u \in R \ {d} : X[u].to_thread = NULL
  BY PathFacts
<1>1. T \in Thread /\ T # X[c].to_thread /\ c \in Tx /\ IsCall(X, c) /\ T # NULL /\ T = X[c].from
  BY <1>0, <1>f, Sender
<1>2. ASSUME NEW u \in R, X[u].from # NULL PROVE u = c
  <2>1. N \in NextMap /\ N[c] = NULL /\ N[u] = NULL /\ u \in Tx
    BY <1>0, <1>1, <1>2, <1>f, MapTypes DEF FailMap
  <2>2. c \in Chain(N, d) /\ u \in Chain(N, d)
    BY <1>0, ChainsOf
  <2> HIDE DEF N
  <2>3. c \in Chain(N, u)
    BY <1>f, <2>1, <2>2, ChainEnd
  <2>4. Chain(N, u) = {u}
    BY <2>1, ChainStep, ChainNull
  <2> QED BY <2>3, <2>4
<1> HIDE DEF T
<1>3. st[T] = c
  <2> SUFFICES ASSUME st[T] # c PROVE FALSE
    OBVIOUS
  <2>1. c \in On(X, st, T)
    BY <1>0, <1>1 DEF Stacked
  <2> DEFINE s == st[T]
  <2>2. s \in Tx
    <3>1. s \in Tx \cup {NULL}
      BY <1>1 DEF Path, Sound, StackType
    <3> QED BY <1>0, <2>1, <3>1, StackEmpty DEF On
  <2>3. PICK x \in OnStack(X, T, s) : StackMap(X, T)[x] = c
    <3>1. c \in OnStack(X, T, s) /\ c # s
      BY <2>1 DEF On
    <3> HIDE DEF s
    <3> QED BY <1>0, <2>2, <3>1, StackAbove
  <2>4. x \in On(X, st, T)
    BY <2>3 DEF On
  <2>5. x \in Tx
    BY <1>0, <2>2, <2>3, ChainsOf, ChainType
  <2>6. IsCall(X, x) /\ T \in {X[x].from, X[x].to_thread}
    BY <1>0, <1>1, <2>4 DEF Stacked
  <2>7. CASE X[x].to_thread = T
    <3>1. c = X[x].to_parent /\ c # NULL
      BY <1>1, <2>3, <2>5, <2>7, BinderAssumption DEF StackMap
    <3>2. c \in Causes(X, X[x].from_parent)
      BY <1>0, <2>5, <3>1 DEF Backed, HandledOn
    <3>3. c \in Causes(X, x)
      BY <1>0, <2>5, <3>2, CausesFacts
    <3>4. x \in R
      BY <1>0, <1>f, <2>5, <3>3, DownClosed
    <3>5. x # d
      BY <1>0, <1>1, <2>4, <2>6, <2>7, <1>f DEF Stacked
    <3> QED BY <1>1, <1>f, <2>7, <3>4, <3>5
  <2>8. CASE X[x].to_thread # T
    <3>1. X[x].from_parent = c
      BY <2>3, <2>5, <2>8 DEF StackMap
    <3> QED BY <1>1, <1>f, <2>5, <2>6, <2>8, <3>1
  <2> QED BY <2>7, <2>8
<1> QED BY <1>1, <1>2, <1>3

\* What the transactions X2, the stacks st2 and the queued transactions W2 are after the path
\* has gone.  d may have become a reply.
Ended(X, st, W, D, R, X2, st2, W2) ==
  /\ X2 \in TxMap /\ st2 \in StackType /\ W \subseteq W2 /\ W2 \subseteq W \cup R
  /\ \A t \in Tx \ R : X2[t] = X[t]
  /\ \A t \in R : /\ ~IsCall(X2, t)
                  /\ X2[t].from = NULL /\ X2[t].from_parent = NULL /\ X2[t].to_parent = NULL
                  /\ X2[t].kind \in {"free", "oneway"} => X2[t].to_thread = NULL
                  /\ t \in W2 <=> X2[t].kind # "free"
  /\ \A T \in Thread : IF \E c \in R : X[c].from = T THEN st2[T] = X[st[T]].from_parent
                       ELSE st2[T] = st[T]

\* What is on the stacks then.
LEMMA PathStacks ==
  ASSUME NEW X, NEW st, NEW W, NEW D, NEW d, NEW R, Path(X, st, W, D, d, R),
         NEW X2, NEW st2, NEW W2, Ended(X, st, W, D, R, X2, st2, W2), NEW T \in Thread
  PROVE  On(X2, st2, T) = On(X, st, T) \ R
<1>0. /\ X \in TxMap /\ Stacked(X, st, W \cup D) /\ Backed(X) /\ Ranked(X) /\ X2 \in TxMap
      /\ st \in StackType /\ st2 \in StackType /\ T # NULL /\ d \in D
      /\ \A t \in Tx \ R : X2[t] = X[t]
  BY BinderAssumption DEF Path, Sound, Ended
<1>f. /\ d \in Tx /\ d \in R /\ R \subseteq Tx
      /\ \A u \in R : IsCall(X, u)
      /\ \A u \in R \ {d} : u \notin W \cup D /\ X[u].to_thread = NULL
  BY PathFacts
<1>1. ASSUME NEW u \in R, u \in On(X, st, T) PROVE X[u].from = T
  <2>1. T \in {X[u].from, X[u].to_thread}
    BY <1>0, <1>1 DEF Stacked
  <2>2. X[u].to_thread # T
    BY <1>0, <1>1, <1>f DEF Stacked
  <2> QED BY <2>1, <2>2
<1>2. ASSUME NEW s \in Tx \cup {NULL}, OnStack(X, T, s) \cap R = {}
      PROVE  OnStack(X2, T, s) = OnStack(X, T, s)
  <2>1. OnStack(X, T, s) \subseteq Tx
    BY ChainsOf, ChainType
  <2>2. \A u \in OnStack(X, T, s) : StackMap(X2, T)[u] = StackMap(X, T)[u]
    BY <1>0, <1>2, <2>1 DEF StackMap
  <2> QED BY <1>0, <2>2, StackSame
<1>3. CASE ~\E c \in R : X[c].from = T
  <2>1. st2[T] = st[T] /\ st[T] \in Tx \cup {NULL}
    BY <1>0, <1>3 DEF Ended, StackType
  <2>2. On(X, st, T) \cap R = {}
    BY <1>1, <1>3
  <2> QED BY <1>2, <2>1, <2>2 DEF On
<1>4. ASSUME NEW c \in R, X[c].from = T PROVE On(X2, st2, T) = On(X, st, T) \ R
  <2>1. st[T] = c /\ X[c].to_thread # T /\ \A u \in R : X[u].from # NULL => u = c
    BY <1>0, <1>4, PathCaller
  <2> DEFINE n == X[c].from_parent
  <2>2. st2[T] = n /\ c \in Tx
    BY <1>4, <1>f, <2>1 DEF Ended
  <2>3. n = StackMap(X, T)[c]
    BY <2>1, <2>2 DEF StackMap
  <2> HIDE DEF n
  <2>4. /\ OnStack(X, T, c) = {c} \cup OnStack(X, T, n) /\ c \notin OnStack(X, T, n)
        /\ n \in Tx \cup {NULL}
    BY <1>0, <2>2, <2>3, StackFacts
  <2>5. On(X, st, T) = {c} \cup OnStack(X, T, n)
    BY <2>1, <2>4 DEF On
  <2>6. OnStack(X, T, n) \cap R = {}
    BY <1>0, <1>1, <2>1, <2>4, <2>5
  <2>7. OnStack(X2, T, n) = OnStack(X, T, n)
    BY <1>2, <2>4, <2>6
  <2> QED BY <1>4, <2>2, <2>5, <2>6, <2>7 DEF On
<1> QED BY <1>3, <1>4

\* Nothing else was made for a call on the path.
LEMMA PathCauses ==
  ASSUME NEW X, NEW st, NEW W, NEW D, NEW d, NEW R, Path(X, st, W, D, d, R),
         NEW X2, NEW st2, NEW W2, Ended(X, st, W, D, R, X2, st2, W2), NEW t \in Tx \ R
  PROVE  /\ Causes(X, X[t].from_parent) \cap R = {}
         /\ Causes(X2, X[t].from_parent) = Causes(X, X[t].from_parent)
<1>0. X \in TxMap /\ X2 \in TxMap /\ \A x \in Tx \ R : X2[x] = X[x]
  BY DEF Path, Sound, Ended
<1>f. \A v \in Tx : X[v].from_parent \in R => v \in R
  BY PathFacts
<1>1. Causes(X, t) \cap R = {}
  BY <1>0, <1>f, DownClosed
<1>2. Causes(X, t) = {t} \cup Causes(X, X[t].from_parent) /\ Causes(X, t) \subseteq Tx
  BY <1>0, CausesFacts
<1>3. X[t].from_parent \in Tx \cup {NULL}
  BY <1>0, TxFields
<1>4. \A u \in Causes(X, X[t].from_parent) : X2[u].from_parent = X[u].from_parent
  BY <1>0, <1>1, <1>2
<1>5. Causes(X2, X[t].from_parent) = Causes(X, X[t].from_parent)
  BY <1>0, <1>3, <1>4, CausesSame
<1> QED BY <1>1, <1>2, <1>5

\* Everything stays sound.
LEMMA PathEnds ==
  ASSUME NEW X, NEW st, NEW W, NEW D, NEW d, NEW R, Path(X, st, W, D, d, R),
         NEW X2, NEW st2, NEW W2, Ended(X, st, W, D, R, X2, st2, W2)
  PROVE  Sound(X2, st2, W2, D \ {d})
<1> DEFINE E == D \ {d}
<1>0. /\ X \in TxMap /\ X2 \in TxMap /\ st2 \in StackType /\ W \subseteq W2 /\ W2 \subseteq W \cup R
      /\ \A t \in Tx \ R : X2[t] = X[t]
      /\ W \subseteq Tx /\ D \subseteq Tx /\ d \in D /\ W \cap D = {}
      /\ \A t \in R : /\ ~IsCall(X2, t) /\ X2[t].from = NULL /\ X2[t].from_parent = NULL
                      /\ X2[t].to_parent = NULL
                      /\ X2[t].kind \in {"free", "oneway"} => X2[t].to_thread = NULL
                      /\ t \in W2 <=> X2[t].kind # "free"
  BY DEF Path, Sound, Ended
<1>s. /\ Shaped(X) /\ Linked(X, W \cup D) /\ OneChild(X) /\ Backed(X) /\ Ranked(X)
      /\ Stacked(X, st, W \cup D) /\ Waits(X, st, W) /\ Cared(X, W \cup D)
  BY DEF Path, Sound
<1>f. /\ d \in Tx /\ d \in R /\ R \subseteq Tx
      /\ \A v \in Tx : X[v].from_parent \in R => v \in R /\ X[v].from = NULL
      /\ \A u \in R : X[u].from = NULL /\ X[u].from_parent # NULL => X[u].from_parent \in R
      /\ \A u \in R \ {d} : u \notin W \cup D
  BY PathFacts
<1>c. ASSUME NEW t \in Tx \ R
      PROVE  /\ Causes(X, X[t].from_parent) \cap R = {}
             /\ Causes(X2, X[t].from_parent) = Causes(X, X[t].from_parent)
  BY PathCauses
<1>o. \A T \in Thread : On(X2, st2, T) = On(X, st, T) \ R
  BY PathStacks
<1>z. /\ \A t \in Tx \ R : (t \in W2 \cup E) <=> (t \in W \cup D)
      /\ W2 \cap E = {} /\ W2 \subseteq Tx /\ E \subseteq Tx
  BY <1>0, <1>f
<1> HIDE DEF E
<1>1. Shaped(X2)
  <2> SUFFICES ASSUME NEW t \in Tx
               PROVE  /\ ~IsCall(X2, t) => X2[t].from = NULL /\ X2[t].from_parent = NULL /\ X2[t].to_parent = NULL
                      /\ X2[t].kind \in {"free", "oneway"} => X2[t].to_thread = NULL
                      /\ IsCall(X2, t) => /\ X2[t].from # NULL => ProcOf[X2[t].from] # X2[t].node
                                          /\ X2[t].to_thread # NULL => ProcOf[X2[t].to_thread] = X2[t].node
    BY DEF Shaped
  <2>1. CASE t \in R
    BY <1>0, <2>1
  <2>2. CASE t \notin R
    BY <1>0, <1>s, <2>2 DEF Shaped, IsCall
  <2> QED BY <2>1, <2>2
<1>2. Linked(X2, W2 \cup E)
  <2> SUFFICES ASSUME NEW t \in Tx, X2[t].from_parent # NULL
               PROVE  MadeFor(X2, t, X2[t].from_parent, W2 \cup E)
    BY DEF Linked
  <2> DEFINE u == X2[t].from_parent
  <2>1. t \notin R /\ X2[t] = X[t]
    BY <1>0
  <2>2. u \in Tx /\ u \notin R
    <3>1. u \in Tx \cup {NULL}
      BY <1>0, TxFields
    <3> QED BY <1>f, <2>1, <3>1
  <2>3. MadeFor(X, t, u, W \cup D)
    BY <1>s, <2>1 DEF Linked
  <2>4. X2[u] = X[u]
    BY <1>0, <2>2
  <2> HIDE DEF u
  <2>5. MadeFor(X2, t, u, W2 \cup E)
    BY <1>z, <2>1, <2>2, <2>3, <2>4 DEF MadeFor, IsCall
  <2> QED BY <2>5 DEF u
<1>3. OneChild(X2)
  BY <1>0, <1>s DEF OneChild
<1>4. Backed(X2)
  <2> SUFFICES ASSUME NEW t \in Tx, X2[t].to_parent # NULL
               PROVE  HandledOn(X2, t, X2[t].to_parent)
    BY DEF Backed
  <2> DEFINE u == X2[t].to_parent
  <2>1. t \notin R /\ X2[t] = X[t]
    BY <1>0
  <2>2. HandledOn(X, t, u)
    BY <1>s, <2>1 DEF Backed
  <2>3. u \in Tx
    BY <1>0, TxFields
  <2>4. u \notin R
    BY <1>c, <2>1, <2>2 DEF HandledOn
  <2>5. X2[u] = X[u]
    BY <1>0, <2>3, <2>4
  <2>6. Causes(X2, X[t].from_parent) = Causes(X, X[t].from_parent)
    BY <1>c, <2>1
  <2> HIDE DEF u
  <2>7. HandledOn(X2, t, u)
    BY <2>1, <2>2, <2>5, <2>6 DEF HandledOn, IsCall
  <2> QED BY <2>7 DEF u
<1>5. Ranked(X2)
  <2>1. PICK r : RankOf(r, X)
    BY <1>s DEF Ranked
  <2>2. RankOf(r, X2)
    BY <1>0, <2>1 DEF RankOf
  <2> QED BY <2>2 DEF Ranked
<1>6. Stacked(X2, st2, W2 \cup E)
  <2>0. \A t \in Tx : IsCall(X2, t) => t \notin R /\ X2[t] = X[t] /\ IsCall(X, t)
    BY <1>0 DEF IsCall
  <2>1. ASSUME NEW T \in Thread, NEW t \in On(X2, st2, T)
        PROVE  IsCall(X2, t) /\ T \in {X2[t].from, X2[t].to_thread}
    <3>1. t \in On(X, st, T) /\ t \notin R
      BY <1>o
    <3>2. t \in Tx
      BY <3>1, ChainsOf, ChainType DEF On
    <3> QED BY <1>0, <1>s, <3>1, <3>2 DEF Stacked, IsCall
  <2>2. ASSUME NEW t \in Tx, IsCall(X2, t), X2[t].from # NULL PROVE t \in On(X2, st2, X2[t].from)
    <3>1. X2[t].from \in Thread
      BY <1>0, <2>2, TxFields
    <3> QED BY <1>o, <1>s, <2>0, <2>2, <3>1 DEF Stacked
  <2>3. ASSUME NEW t \in Tx, IsCall(X2, t), X2[t].to_thread # NULL
        PROVE  (t \in W2 \cup E) <=> (t \notin On(X2, st2, X2[t].to_thread))
    <3>1. X2[t].to_thread \in Thread
      BY <1>0, <2>3, TxFields
    <3>2. (t \in W \cup D) <=> (t \notin On(X, st, X2[t].to_thread))
      BY <1>s, <2>0, <2>3 DEF Stacked
    <3>3. t \notin R
      BY <2>0, <2>3
    <3> QED BY <1>o, <1>z, <3>1, <3>2, <3>3
  <2> QED BY <2>1, <2>2, <2>3 DEF Stacked
<1>7. Waits(X2, st2, W2)
  <2> SUFFICES ASSUME NEW t \in W2
               PROVE  /\ X2[t].kind # "free"
                      /\ IsCall(X2, t) =>
                           /\ X2[t].to_parent = NULL
                           /\ X2[t].to_thread # NULL => QueuedFor(X2, st2, t, X2[t].to_thread)
    BY DEF Waits
  <2>1. CASE t \in R
    BY <1>0, <2>1
  <2>2. CASE t \notin R
    <3>1. t \in W /\ t \in Tx /\ X2[t] = X[t]
      BY <1>0, <2>2
    <3>2. /\ X[t].kind # "free"
          /\ IsCall(X, t) => /\ X[t].to_parent = NULL
                             /\ X[t].to_thread # NULL => QueuedFor(X, st, t, X[t].to_thread)
      BY <1>s, <3>1 DEF Waits
    <3>3. ASSUME IsCall(X, t), X[t].to_thread # NULL
          PROVE  QueuedFor(X2, st2, t, X[t].to_thread)
      <4> DEFINE T == X[t].to_thread
                 s == st[T]
      <4>1. T \in Thread
        BY <1>0, <3>1, <3>3, TxFields
      <4>2. QueuedFor(X, st, t, T)
        BY <3>2, <3>3
      <4>3. s \notin R
        BY <1>c, <2>2, <3>1, <4>2 DEF QueuedFor
      <4>4. st2[T] = s
        <5>1. ~\E c \in R : X[c].from = T
          <6> SUFFICES ASSUME NEW c \in R, X[c].from = T PROVE FALSE
            OBVIOUS
          <6>1. st[T] = c
            BY <3>3, PathCaller
          <6> QED BY <4>3, <6>1
        <5> HIDE DEF T
        <5> QED BY <4>1, <5>1 DEF Ended
      <4>5. s \in Tx
        BY <4>1, <4>2 DEF QueuedFor, Path, Sound, StackType
      <4>6. X2[s] = X[s]
        BY <1>0, <4>3, <4>5
      <4>7. Causes(X2, X[t].from_parent) = Causes(X, X[t].from_parent)
        BY <1>c, <2>2, <3>1
      <4> HIDE DEF T
      <4>8. QueuedFor(X2, st2, t, T)
        BY <3>1, <4>2, <4>4, <4>6, <4>7 DEF QueuedFor
      <4> QED BY <4>8 DEF T
    <3> QED BY <3>1, <3>2, <3>3 DEF IsCall
  <2> QED BY <2>1, <2>2
<1>8. Cared(X2, W2 \cup E)
  <2> SUFFICES ASSUME NEW t \in Tx
               PROVE  /\ X2[t].kind \in {"oneway", "reply"} => t \in W2 \cup E
                      /\ IsCall(X2, t) => t \in W2 \cup E \/ X2[t].to_thread # NULL \/ ~End(X2, t)
    BY DEF Cared
  <2>1. CASE t \in R
    BY <1>0, <2>1
  <2>2. CASE t \notin R
    <3>1. X2[t] = X[t]
      BY <1>0, <2>2
    <3>2. /\ X[t].kind \in {"oneway", "reply"} => t \in W2 \cup E
          /\ IsCall(X, t) => t \in W2 \cup E \/ X[t].to_thread # NULL \/ ~End(X, t)
      BY <1>s, <1>z, <2>2 DEF Cared
    <3>3. ASSUME ~End(X, t) PROVE X[t].to_thread # NULL \/ ~End(X2, t)
      <4>1. PICK v \in Tx : X[v].from_parent = t
        BY <3>3 DEF End
      <4>2. CASE v \in R
        <5>1. X[v].from # NULL
          BY <1>f, <2>2, <4>1, <4>2, BinderAssumption
        <5>2. X[v].from = X[t].to_thread
          BY <1>s, <4>1, BinderAssumption DEF Linked, MadeFor
        <5> QED BY <5>1, <5>2
      <4>3. CASE v \notin R
        BY <1>0, <4>1, <4>3 DEF End
      <4> QED BY <4>2, <4>3
    <3> QED BY <3>1, <3>2, <3>3 DEF IsCall
  <2> QED BY <2>1, <2>2
<1>9. Sound(X2, st2, W2, E)
  BY <1>0, <1>z, <1>1, <1>2, <1>3, <1>4, <1>5, <1>6, <1>7, <1>8 DEF Sound
<1> QED BY <1>9 DEF E

-----------------------------------------------------------------------------
(* The other steps.                                                        *)

\* Lists are taken away from the threads that would have read them.
LEMMA Condemned ==
  ASSUME NEW X, NEW st, NEW W, NEW D, Sound(X, st, W, D), NEW K \in SUBSET W
  PROVE  Sound(X, st, W \ K, D \cup K)
<1> DEFINE V == W \ K
           E == D \cup K
<1>1. V \cup E = W \cup D /\ V \cap E = {} /\ V \subseteq Tx /\ E \subseteq Tx /\ V \subseteq W
  BY DEF Sound
<1> HIDE DEF V, E
<1>2. Waits(X, st, V)
  BY <1>1 DEF Sound, Waits
<1>3. Sound(X, st, V, E)
  BY <1>1, <1>2 DEF Sound
<1> QED BY <1>3 DEF V, E

\* A thread gives up the call it handles.
LEMMA Popped ==
  ASSUME NEW X, NEW st, NEW W, Sound(X, st, W, {}), NEW T \in Thread, st[T] # NULL,
         NEW t, t = st[T], X[t].to_thread = T
  PROVE  Sound(X, [st EXCEPT ![T] = X[t].to_parent], W, {t})
<1> DEFINE n == X[t].to_parent
           st2 == [st EXCEPT ![T] = n]
<1>0. /\ X \in TxMap /\ st \in StackType /\ Shaped(X) /\ Linked(X, W) /\ OneChild(X) /\ Backed(X)
      /\ Ranked(X) /\ Stacked(X, st, W) /\ Waits(X, st, W) /\ Cared(X, W) /\ W \subseteq Tx
  BY DEF Sound
<1>1. End(X, t) /\ t \in Tx /\ t \notin W /\ IsCall(X, t)
  BY HandledTop
<1>2. n = StackMap(X, T)[t] /\ n \in Tx \cup {NULL}
  BY <1>0, <1>1, TxFields DEF StackMap
<1>3. st2 \in StackType /\ st2[T] = n /\ \A S \in Thread \ {T} : st2[S] = st[S]
  BY <1>0, <1>2 DEF StackType
<1>u. X[t].from # T
  BY <1>0, <1>1, Sender, BinderAssumption
<1> HIDE DEF n, st2
<1>4. OnStack(X, T, t) = {t} \cup OnStack(X, T, n) /\ t \notin OnStack(X, T, n)
  BY <1>0, <1>1, <1>2, StackFacts
<1>5. /\ On(X, st2, T) = On(X, st, T) \ {t}
      /\ \A S \in Thread \ {T} : On(X, st2, S) = On(X, st, S)
  BY <1>3, <1>4 DEF On
<1>6. Linked(X, W \cup {t})
  BY <1>0, <1>1 DEF Linked, MadeFor, End
<1>7. Stacked(X, st2, W \cup {t})
  <2>1. ASSUME NEW S \in Thread, NEW x \in On(X, st2, S)
        PROVE  IsCall(X, x) /\ S \in {X[x].from, X[x].to_thread}
    BY <1>0, <1>5 DEF Stacked
  <2>2. ASSUME NEW x \in Tx, IsCall(X, x), X[x].from # NULL PROVE x \in On(X, st2, X[x].from)
    <3>1. X[x].from \in Thread
      BY <1>0, <2>2, TxFields
    <3>2. x \in On(X, st, X[x].from)
      BY <1>0, <2>2 DEF Stacked
    <3> QED BY <1>5, <1>u, <3>1, <3>2
  <2>3. ASSUME NEW x \in Tx, IsCall(X, x), X[x].to_thread # NULL
        PROVE  (x \in W \cup {t}) <=> (x \notin On(X, st2, X[x].to_thread))
    <3>1. X[x].to_thread \in Thread
      BY <1>0, <2>3, TxFields
    <3>2. (x \in W) <=> (x \notin On(X, st, X[x].to_thread))
      BY <1>0, <2>3 DEF Stacked
    <3> QED BY <1>5, <3>1, <3>2
  <2> QED BY <2>1, <2>2, <2>3 DEF Stacked
<1>8. Waits(X, st2, W)
  <2> SUFFICES ASSUME NEW w \in W, IsCall(X, w), X[w].to_thread # NULL
               PROVE  QueuedFor(X, st2, w, X[w].to_thread)
    BY <1>0 DEF Waits
  <2>1. QueuedFor(X, st, w, X[w].to_thread)
    BY <1>0 DEF Waits
  <2>2. X[w].to_thread \in Thread
    BY <1>0, TxFields
  <2>3. X[w].to_thread # T
    BY <1>u, <2>1 DEF QueuedFor
  <2> QED BY <1>3, <2>1, <2>2, <2>3 DEF QueuedFor
<1>9. Cared(X, W \cup {t})
  BY <1>0 DEF Cared
<1>10. Sound(X, st2, W, {t})
  BY <1>0, <1>1, <1>3, <1>6, <1>7, <1>8, <1>9 DEF Sound
<1> QED BY <1>10 DEF n, st2

\* Transactions other than calls, and none of them, come and go.
Plain(X, W, D, X2, W2, D2) ==
  /\ X2 \in TxMap /\ W2 \subseteq Tx /\ D2 \subseteq Tx /\ W2 \cap D2 = {}
  /\ \A t \in Tx : IF IsCall(X, t)
                   THEN X2[t] = X[t] /\ (t \in W2 <=> t \in W) /\ (t \in D2 <=> t \in D)
                   ELSE /\ X2[t].kind # "call" /\ X2[t].from = NULL /\ X2[t].from_parent = NULL
                        /\ X2[t].to_parent = NULL
                        /\ X2[t].kind \in {"free", "oneway"} => X2[t].to_thread = NULL
                        /\ t \in W2 => X2[t].kind # "free"
                        /\ X2[t].kind # "free" => t \in W2 \cup D2

\* Soundness is about calls: what happens to the other transactions does not disturb it.
LEMMA PlainChange ==
  ASSUME NEW X, NEW st, NEW W, NEW D, Sound(X, st, W, D),
         NEW X2, NEW W2, NEW D2, Plain(X, W, D, X2, W2, D2)
  PROVE  Sound(X2, st, W2, D2)
<1>0. /\ X \in TxMap /\ st \in StackType /\ Shaped(X) /\ Linked(X, W \cup D) /\ OneChild(X) /\ Backed(X)
      /\ Ranked(X) /\ Stacked(X, st, W \cup D) /\ Waits(X, st, W) /\ Cared(X, W \cup D)
      /\ W \subseteq Tx /\ D \subseteq Tx
  BY DEF Sound
<1>1. /\ X2 \in TxMap /\ W2 \subseteq Tx /\ D2 \subseteq Tx /\ W2 \cap D2 = {}
  BY DEF Plain
<1>2. ASSUME NEW t \in Tx, IsCall(X, t)
      PROVE  X2[t] = X[t] /\ (t \in W2 <=> t \in W) /\ (t \in D2 <=> t \in D) /\ IsCall(X2, t)
  BY <1>2 DEF Plain, IsCall
<1>3. ASSUME NEW t \in Tx, ~IsCall(X, t)
      PROVE  /\ ~IsCall(X2, t) /\ X2[t].from = NULL /\ X2[t].from_parent = NULL
             /\ X2[t].to_parent = NULL
             /\ X2[t].kind \in {"free", "oneway"} => X2[t].to_thread = NULL
             /\ t \in W2 => X2[t].kind # "free"
             /\ X2[t].kind # "free" => t \in W2 \cup D2
             /\ X[t].from = NULL /\ X[t].from_parent = NULL /\ X[t].to_parent = NULL
  BY <1>0, <1>3 DEF Plain, IsCall, Shaped
<1>4. \A t \in Tx : X2[t].from_parent = X[t].from_parent /\ X2[t].to_parent = X[t].to_parent
                    /\ (IsCall(X2, t) <=> IsCall(X, t)) /\ X2[t].from = X[t].from
  BY <1>2, <1>3
<1>5. \A t \in Tx \cup {NULL} : Causes(X2, t) = Causes(X, t)
  <2>1. \A t : Causes(X, t) \subseteq Tx
    BY ChainsOf, ChainType
  <2> QED BY <1>0, <1>1, <1>4, <2>1, CausesSame
<1>6. \A T \in Thread : On(X2, st, T) = On(X, st, T)
  <2> SUFFICES ASSUME NEW T \in Thread PROVE On(X2, st, T) = On(X, st, T)
    OBVIOUS
  <2>1. \A u \in Tx : StackMap(X2, T)[u] = StackMap(X, T)[u]
    BY <1>2, <1>3 DEF StackMap
  <2>2. OnStack(X, T, st[T]) \subseteq Tx
    BY ChainsOf, ChainType
  <2>3. st[T] \in Tx \cup {NULL}
    BY <1>0 DEF StackType
  <2> QED BY <1>0, <1>1, <2>1, <2>2, <2>3, StackSame DEF On
<1>7. Shaped(X2)
  BY <1>0, <1>2, <1>3 DEF Shaped
<1>8. Linked(X2, W2 \cup D2)
  <2> SUFFICES ASSUME NEW t \in Tx, X2[t].from_parent # NULL
               PROVE  MadeFor(X2, t, X2[t].from_parent, W2 \cup D2)
    BY DEF Linked
  <2>1. X[t].from_parent = X2[t].from_parent /\ MadeFor(X, t, X[t].from_parent, W \cup D)
    BY <1>0, <1>4 DEF Linked
  <2>2. X[t].from_parent \in Tx
    BY <1>0, <2>1, TxFields
  <2> QED BY <1>2, <1>4, <2>1, <2>2 DEF MadeFor
<1>9. OneChild(X2)
  BY <1>0, <1>4 DEF OneChild
<1>10. Backed(X2)
  <2> SUFFICES ASSUME NEW t \in Tx, X2[t].to_parent # NULL
               PROVE  HandledOn(X2, t, X2[t].to_parent)
    BY DEF Backed
  <2>1. IsCall(X, t) /\ X2[t] = X[t]
    BY <1>2, <1>3
  <2>2. HandledOn(X, t, X[t].to_parent) /\ X[t].to_parent \in Tx
    BY <1>0, <2>1, TxFields DEF Backed
  <2>3. X[t].from_parent \in Tx \cup {NULL}
    BY <1>0, TxFields
  <2> QED BY <1>2, <1>5, <2>1, <2>2, <2>3 DEF HandledOn
<1>11. Ranked(X2)
  BY <1>0, <1>4 DEF Ranked, RankOf
<1>12. Stacked(X2, st, W2 \cup D2)
  <2>1. ASSUME NEW T \in Thread, NEW t \in On(X2, st, T)
        PROVE  IsCall(X2, t) /\ T \in {X2[t].from, X2[t].to_thread}
    <3>1. t \in Tx /\ t \in On(X, st, T)
      BY <1>6, ChainsOf, ChainType DEF On
    <3> QED BY <1>0, <1>2, <3>1 DEF Stacked
  <2>2. ASSUME NEW t \in Tx, IsCall(X2, t), X2[t].from # NULL PROVE t \in On(X2, st, X2[t].from)
    <3>1. X2[t].from \in Thread
      BY <1>1, <2>2, TxFields
    <3> QED BY <1>0, <1>2, <1>4, <1>6, <2>2, <3>1 DEF Stacked
  <2>3. ASSUME NEW t \in Tx, IsCall(X2, t), X2[t].to_thread # NULL
        PROVE  (t \in W2 \cup D2) <=> (t \notin On(X2, st, X2[t].to_thread))
    <3>1. X2[t].to_thread \in Thread
      BY <1>1, <2>3, TxFields
    <3>2. IsCall(X, t) /\ X2[t] = X[t] /\ (t \in W2 \cup D2 <=> t \in W \cup D)
      BY <1>2, <1>4, <2>3
    <3>3. (t \in W \cup D) <=> (t \notin On(X, st, X[t].to_thread))
      BY <1>0, <2>3, <3>2 DEF Stacked
    <3> QED BY <1>6, <3>1, <3>2, <3>3
  <2> QED BY <2>1, <2>2, <2>3 DEF Stacked
<1>13. Waits(X2, st, W2)
  <2> SUFFICES ASSUME NEW t \in W2
               PROVE  /\ X2[t].kind # "free"
                      /\ IsCall(X2, t) =>
                           /\ X2[t].to_parent = NULL
                           /\ X2[t].to_thread # NULL => QueuedFor(X2, st, t, X2[t].to_thread)
    BY DEF Waits
  <2>1. CASE ~IsCall(X, t)
    BY <1>1, <1>3, <2>1
  <2>2. CASE IsCall(X, t)
    <3>1. t \in W /\ t \in Tx /\ X2[t] = X[t]
      BY <1>1, <1>2, <2>2
    <3>2. X[t].from_parent \in Tx \cup {NULL}
      BY <1>0, <3>1, TxFields
    <3>3. ASSUME X[t].to_thread # NULL PROVE QueuedFor(X2, st, t, X[t].to_thread)
      <4>1. QueuedFor(X, st, t, X[t].to_thread)
        BY <1>0, <2>2, <3>1, <3>3 DEF Waits
      <4>2. st[X[t].to_thread] \in Tx
        BY <4>1, ChainsOf, ChainType DEF QueuedFor
      <4> QED BY <1>4, <1>5, <3>1, <3>2, <4>1, <4>2 DEF QueuedFor
    <3> QED BY <1>0, <2>2, <3>1, <3>3 DEF Waits, IsCall
  <2> QED BY <2>1, <2>2
<1>14. Cared(X2, W2 \cup D2)
  <2>1. \A t : End(X2, t) <=> End(X, t)
    BY <1>4 DEF End
  <2> SUFFICES ASSUME NEW t \in Tx
               PROVE  /\ X2[t].kind \in {"oneway", "reply"} => t \in W2 \cup D2
                      /\ IsCall(X2, t) => t \in W2 \cup D2 \/ X2[t].to_thread # NULL \/ ~End(X2, t)
    BY DEF Cared
  <2>2. CASE IsCall(X, t)
    BY <1>0, <1>2, <2>1, <2>2 DEF Cared, IsCall
  <2>3. CASE ~IsCall(X, t)
    BY <1>3, <2>3
  <2> QED BY <2>2, <2>3
<1> QED BY <1>0, <1>1, <1>7, <1>8, <1>9, <1>10, <1>11, <1>12, <1>13, <1>14 DEF Sound

\* The thread that a call goes to, if one of the target process waits for the caller.
LEMMA WaitingFacts ==
  ASSUME NEW X \in TxMap, NEW b \in Tx \cup {NULL}, NEW q, NEW g, g = Waiting(X, b, q), g # NULL
  PROVE  g \in Thread /\ ProcOf[g] = q /\ \E u \in Causes(X, b) : u \in Tx /\ X[u].from = g
<1> DEFINE sent == {u \in Causes(X, b) : X[u].from # NULL /\ ProcOf[X[u].from] = q}
           outermost == {u \in sent : Causes(X, u) \cap sent = {u}}
           u == CHOOSE u \in outermost : TRUE
<1>1. g = IF outermost = {} THEN NULL ELSE X[u].from
  BY DEF Waiting
<1>2. u \in outermost
  BY <1>1
<1>3. u \in Causes(X, b) /\ X[u].from # NULL /\ ProcOf[X[u].from] = q
  BY <1>2
<1> HIDE DEF u
<1>4. u \in Tx
  <2>1. Causes(X, b) \subseteq Tx
    BY DEF Causes, Chain
  <2> QED BY <1>3, <2>1
<1>5. X[u].from \in Thread \cup {NULL}
  BY <1>4, TxFields
<1> QED BY <1>1, <1>2, <1>3, <1>4, <1>5

\* It waits for a call that led to this one.
LEMMA WaitingTop ==
  ASSUME NEW X, NEW st, NEW W, NEW D, Sound(X, st, W, D), NEW b \in Tx, End(X, b),
         NEW g \in Thread, X[b].to_thread # g, NEW u \in Causes(X, b), X[u].from = g
  PROVE  st[g] \in Tx /\ st[g] \in Causes(X, b) /\ X[st[g]].from = g
<1> DEFINE s == st[g]
           N == StackMap(X, g)
<1>0. /\ X \in TxMap /\ st \in StackType /\ Shaped(X) /\ OneChild(X) /\ Backed(X) /\ Ranked(X)
      /\ Stacked(X, st, W \cup D) /\ g # NULL
  BY BinderAssumption DEF Sound
<1>1. u \in Tx /\ Causes(X, b) \subseteq Tx
  BY <1>0, CausesFacts
<1>2. u \in On(X, st, g)
  BY <1>0, <1>1 DEF Stacked, Shaped
<1>3. s \in Tx
  <2>1. s \in Tx \cup {NULL}
    BY <1>0 DEF StackType
  <2> QED BY <1>0, <1>2, <2>1, StackEmpty DEF On
<1>4. N \in NextMap /\ On(X, st, g) = Chain(N, s)
  BY <1>0, MapTypes, ChainsOf DEF On
<1>5. s \in Causes(X, b)
  <2> SUFFICES ASSUME s \notin Causes(X, b) PROVE FALSE
    OBVIOUS
  <2> DEFINE S == {x \in Tx : x \notin Causes(X, b)}
  <2>1. S \in SUBSET Tx /\ s \in S \cup {NULL}
    BY <1>3
  <2>2. Closed(N, S)
    <3> SUFFICES ASSUME NEW x \in S, N[x] # NULL, N[x] \notin S PROVE FALSE
      BY DEF Closed
    <3> DEFINE y == N[x]
    <3>1. x \in Tx /\ x \notin Causes(X, b) /\ y \in Causes(X, b) /\ y # NULL
      BY <1>4 DEF NextMap
    <3>2. y \in Causes(X, x)
      <4>1. CASE X[x].to_thread = g
        <5>1. y = X[x].to_parent
          BY <3>1, <4>1 DEF StackMap
        <5>2. y \in Causes(X, X[x].from_parent)
          BY <1>0, <3>1, <5>1 DEF Backed, HandledOn
        <5> HIDE DEF y, N
        <5> QED BY <1>0, <3>1, <5>2, CausesFacts
      <4>2. CASE X[x].to_thread # g
        <5>1. y = X[x].from_parent
          BY <3>1, <4>2 DEF StackMap
        <5>2. y \in Tx
          BY <1>1, <3>1
        <5> HIDE DEF y, N
        <5>3. y \in Causes(X, y)
          BY <1>0, <5>2, CausesFacts
        <5> QED BY <1>0, <3>1, <5>1, <5>3, CausesFacts
      <4> QED BY <4>1, <4>2
    <3> HIDE DEF y
    <3> QED BY <1>0, <3>1, <3>2, CausesLine
  <2> HIDE DEF S, N, s
  <2>3. Chain(N, s) \subseteq S
    BY <1>3, <1>4, <2>1, <2>2, ChainLeast
  <2> QED BY <1>2, <1>4, <2>3 DEF S
<1>6. X[s].from = g
  <2> SUFFICES ASSUME X[s].from # g PROVE FALSE
    OBVIOUS
  <2>1. s \in On(X, st, g)
    BY <1>3, <1>4, ChainClosed
  <2>2. X[s].to_thread = g
    BY <1>0, <2>1 DEF Stacked
  <2>3. End(X, s)
    BY <1>3, <2>2, HandledTop, BinderAssumption
  <2>4. s = b
    BY <1>0, <1>5, <2>3, EndCause
  <2> QED BY <2>2, <2>4
<1> QED BY <1>3, <1>5, <1>6

\* A thread makes a call.
LEMMA Pushed ==
  ASSUME NEW X, NEW st, NEW W, Sound(X, st, W, {}), NEW T \in Thread, NEW b, b = st[T],
         b # NULL => X[b].to_thread = T, NEW t \in Tx, X[t] = Free,
         NEW q \in Proc, q # ProcOf[T], NEW g, g = Waiting(X, b, q)
  PROVE  Sound([X EXCEPT ![t] = [kind |-> "call", from |-> T, from_parent |-> b, to_thread |-> g,
                                 to_parent |-> NULL, node |-> q]],
               [st EXCEPT ![T] = t], W \cup {t}, {})
<1> DEFINE new == [kind |-> "call", from |-> T, from_parent |-> b, to_thread |-> g,
                   to_parent |-> NULL, node |-> q]
           X2 == [X EXCEPT ![t] = new]
           st2 == [st EXCEPT ![T] = t]
           V == W \cup {t}
<1>0. /\ X \in TxMap /\ st \in StackType /\ Shaped(X) /\ Linked(X, W) /\ OneChild(X) /\ Backed(X)
      /\ Ranked(X) /\ Stacked(X, st, W) /\ Waits(X, st, W) /\ Cared(X, W) /\ W \subseteq Tx
      /\ T # NULL /\ t # NULL
  BY BinderAssumption DEF Sound
<1>1. b \in Tx \cup {NULL}
  BY <1>0 DEF StackType
<1>2. /\ g # NULL => g \in Thread /\ ProcOf[g] = q /\ \E u \in Causes(X, b) : u \in Tx /\ X[u].from = g
  BY <1>0, <1>1, WaitingFacts
<1>3. g \in Thread \cup {NULL} /\ g # T
  BY <1>0, <1>2
<1>4. new \in TxRecord
  BY <1>1, <1>3 DEF TxRecord
<1>5. X2 \in TxMap /\ st2 \in StackType /\ V \subseteq Tx
  BY <1>0, <1>4 DEF TxMap, StackType
<1>6. /\ X2[t].kind = "call" /\ X2[t].from = T /\ X2[t].from_parent = b /\ X2[t].to_thread = g
      /\ X2[t].to_parent = NULL /\ X2[t].node = q
      /\ \A x \in Tx \ {t} : X2[x] = X[x]
      /\ st2[T] = t /\ \A S \in Thread \ {T} : st2[S] = st[S]
  BY <1>0 DEF TxMap, StackType
<1>7. /\ X[t].kind = "free" /\ X[t].from = NULL /\ X[t].from_parent = NULL /\ X[t].to_parent = NULL
      /\ X[t].to_thread = NULL
  BY DEF Free
<1> HIDE DEF X2, st2, V
<1>8. ~IsCall(X, t) /\ t \notin W
  BY <1>0, <1>7 DEF IsCall, Waits
<1>9. \A x \in Tx : X[x].from_parent # t /\ X[x].to_parent # t
  BY <1>0, <1>8 DEF Linked, MadeFor, Backed, HandledOn
<1>10. b # NULL => b \in Tx /\ b # t /\ End(X, b) /\ IsCall(X, b) /\ b \notin W
  BY <1>8, HandledTop
<1>11. ASSUME NEW x \in (Tx \ {t}) \cup {NULL}
       PROVE  t \notin Causes(X, x) /\ Causes(X2, x) = Causes(X, x)
  <2>1. t \notin Causes(X, x)
    <3>1. CASE x = NULL
      BY <1>0, <3>1, CausesFacts
    <3>2. CASE x # NULL
      <4> SUFFICES ASSUME t \in Causes(X, x) PROVE FALSE
        OBVIOUS
      <4>1. PICK v \in Causes(X, x) : X[v].from_parent = t
        BY <1>0, <3>2, CauseOf
      <4>2. v \in Tx
        BY ChainsOf, ChainType
      <4> QED BY <1>9, <4>1, <4>2
    <3> QED BY <3>1, <3>2
  <2>2. Causes(X, x) \subseteq Tx
    BY ChainsOf, ChainType
  <2>3. \A u \in Causes(X, x) : X2[u].from_parent = X[u].from_parent
    BY <1>6, <2>1, <2>2
  <2> QED BY <1>0, <1>5, <2>1, <2>3, CausesSame
<1>12. ASSUME NEW S \in Thread, NEW s \in (Tx \ {t}) \cup {NULL}, OnStack(X, S, s) \subseteq On(X, st, S)
       PROVE  t \notin OnStack(X, S, s) /\ OnStack(X2, S, s) = OnStack(X, S, s)
  <2>1. t \notin OnStack(X, S, s)
    BY <1>0, <1>8, <1>12 DEF Stacked
  <2>2. OnStack(X, S, s) \subseteq Tx
    BY ChainsOf, ChainType
  <2>3. \A u \in OnStack(X, S, s) : StackMap(X2, S)[u] = StackMap(X, S)[u]
    BY <1>6, <2>1, <2>2 DEF StackMap
  <2> QED BY <1>0, <1>5, <2>1, <2>3, StackSame
<1>13. ASSUME NEW S \in Thread \ {T} PROVE On(X2, st2, S) = On(X, st, S)
  <2>1. st[S] \in Tx \cup {NULL} /\ st2[S] = st[S]
    BY <1>0, <1>6 DEF StackType
  <2>2. st[S] # t
    <3> SUFFICES ASSUME st[S] = t PROVE FALSE
      OBVIOUS
    <3>1. t \in On(X, st, S)
      BY <1>0, StackFacts DEF On
    <3> QED BY <1>0, <1>8, <3>1 DEF Stacked
  <2> QED BY <1>12, <2>1, <2>2 DEF On
<1>14. On(X2, st2, T) = {t} \cup On(X, st, T)
  <2>1. b \in (Tx \ {t}) \cup {NULL}
    BY <1>1, <1>10
  <2>2. OnStack(X2, T, b) = On(X, st, T)
    BY <1>12, <2>1 DEF On
  <2>3. StackMap(X2, T)[t] = b
    BY <1>3, <1>6 DEF StackMap
  <2>4. OnStack(X2, T, t) = {t} \cup OnStack(X2, T, b)
    <3>1. StackMap(X2, T) \in NextMap
      BY <1>5, MapTypes
    <3> QED BY <2>3, <3>1, ChainsOf, ChainStep
  <2> QED BY <1>6, <2>2, <2>4 DEF On
<1>15. Shaped(X2)
  <2> SUFFICES ASSUME NEW x \in Tx
               PROVE  /\ ~IsCall(X2, x) => X2[x].from = NULL /\ X2[x].from_parent = NULL /\ X2[x].to_parent = NULL
                      /\ X2[x].kind \in {"free", "oneway"} => X2[x].to_thread = NULL
                      /\ IsCall(X2, x) => /\ X2[x].from # NULL => ProcOf[X2[x].from] # X2[x].node
                                          /\ X2[x].to_thread # NULL => ProcOf[X2[x].to_thread] = X2[x].node
    BY DEF Shaped
  <2>1. CASE x = t
    BY <1>2, <1>6, <2>1 DEF IsCall
  <2>2. CASE x # t
    BY <1>0, <1>6, <2>2 DEF Shaped, IsCall
  <2> QED BY <2>1, <2>2
<1>16. Linked(X2, V)
  <2> SUFFICES ASSUME NEW x \in Tx, X2[x].from_parent # NULL
               PROVE  MadeFor(X2, x, X2[x].from_parent, V)
    BY DEF Linked
  <2>1. CASE x = t
    BY <1>6, <1>10, <2>1 DEF MadeFor, IsCall, V
  <2>2. CASE x # t
    <3>1. X2[x] = X[x] /\ MadeFor(X, x, X[x].from_parent, W) /\ X[x].from_parent # t
      BY <1>0, <1>6, <1>9, <2>2 DEF Linked
    <3>2. X[x].from_parent \in Tx
      BY <1>0, <3>1, TxFields
    <3> QED BY <1>6, <3>1, <3>2 DEF MadeFor, IsCall, V
  <2> QED BY <2>1, <2>2
<1>17. OneChild(X2)
  <2> SUFFICES ASSUME NEW x \in Tx, NEW v \in Tx, X2[x].from_parent # NULL,
                      X2[x].from_parent = X2[v].from_parent, x # v
               PROVE  FALSE
    BY DEF OneChild
  <2>1. CASE x = t
    BY <1>6, <1>10, <2>1 DEF End
  <2>2. CASE v = t
    BY <1>6, <1>10, <2>2 DEF End
  <2>3. CASE x # t /\ v # t
    BY <1>0, <1>6, <2>3 DEF OneChild
  <2> QED BY <2>1, <2>2, <2>3
<1>18. Backed(X2)
  <2> SUFFICES ASSUME NEW x \in Tx, X2[x].to_parent # NULL
               PROVE  HandledOn(X2, x, X2[x].to_parent)
    BY DEF Backed
  <2>1. x # t /\ X2[x] = X[x]
    BY <1>6
  <2>2. HandledOn(X, x, X[x].to_parent) /\ X[x].to_parent \in Tx \ {t}
    BY <1>0, <1>9, <2>1, TxFields DEF Backed
  <2>3. X[x].from_parent \in (Tx \ {t}) \cup {NULL}
    BY <1>0, <1>9, TxFields
  <2>4. Causes(X2, X[x].from_parent) = Causes(X, X[x].from_parent)
    BY <1>11, <2>3
  <2> QED BY <1>6, <2>1, <2>2, <2>4 DEF HandledOn, IsCall
<1>19. Ranked(X2)
  <2>1. PICK r : RankOf(r, X)
    BY <1>0 DEF Ranked
  <2> DEFINE k == IF b = NULL THEN 0 ELSE r[b] + 1
             r2 == [r EXCEPT ![t] = k]
  <2>2. r \in [Tx -> Nat] /\ \A u \in Tx : X[u].from_parent # NULL => r[X[u].from_parent] < r[u]
    BY <2>1 DEF RankOf
  <2>3. k \in Nat /\ (b # NULL => r[b] < k)
    BY <1>10, <2>2
  <2> HIDE DEF k
  <2>4. r2 \in [Tx -> Nat] /\ r2[t] = k /\ \A u \in Tx \ {t} : r2[u] = r[u]
    BY <2>2, <2>3
  <2> HIDE DEF r2
  <2>5. ASSUME NEW u \in Tx, X2[u].from_parent # NULL PROVE r2[X2[u].from_parent] < r2[u]
    <3>1. CASE u = t
      BY <1>6, <1>10, <2>3, <2>4, <2>5, <3>1
    <3>2. CASE u # t
      <4>1. X2[u].from_parent = X[u].from_parent /\ X[u].from_parent \in Tx \ {t}
        BY <1>0, <1>6, <1>9, <2>5, <3>2, TxFields
      <4> QED BY <2>2, <2>4, <2>5, <3>2, <4>1
    <3> QED BY <3>1, <3>2
  <2>6. RankOf(r2, X2)
    BY <2>4, <2>5 DEF RankOf
  <2> QED BY <2>6 DEF Ranked
<1>20. Stacked(X2, st2, V)
  <2>1. ASSUME NEW S \in Thread, NEW x \in On(X2, st2, S)
        PROVE  IsCall(X2, x) /\ S \in {X2[x].from, X2[x].to_thread}
    <3>1. CASE x = t
      <4>1. t \notin On(X, st, S)
        BY <1>0, <1>8 DEF Stacked
      <4>2. S = T
        BY <1>13, <2>1, <3>1, <4>1
      <4> QED BY <1>6, <3>1, <4>2 DEF IsCall
    <3>2. CASE x # t
      <4>1. x \in On(X, st, S)
        BY <1>13, <1>14, <2>1, <3>2
      <4>2. x \in Tx
        BY <4>1, ChainsOf, ChainType DEF On
      <4> QED BY <1>0, <1>6, <3>2, <4>1, <4>2 DEF Stacked, IsCall
    <3> QED BY <3>1, <3>2
  <2>2. ASSUME NEW x \in Tx, IsCall(X2, x), X2[x].from # NULL PROVE x \in On(X2, st2, X2[x].from)
    <3>1. CASE x = t
      BY <1>6, <1>14, <3>1
    <3>2. CASE x # t
      <4>1. X2[x].from \in Thread /\ IsCall(X, x) /\ X2[x] = X[x]
        BY <1>5, <1>6, <2>2, <3>2, TxFields DEF IsCall
      <4>2. x \in On(X, st, X[x].from)
        BY <1>0, <2>2, <4>1 DEF Stacked
      <4> QED BY <1>13, <1>14, <4>1, <4>2
    <3> QED BY <3>1, <3>2
  <2>3. ASSUME NEW x \in Tx, IsCall(X2, x), X2[x].to_thread # NULL
        PROVE  (x \in V) <=> (x \notin On(X2, st2, X2[x].to_thread))
    <3>1. X2[x].to_thread \in Thread
      BY <1>5, <2>3, TxFields
    <3>2. CASE x = t
      <4>1. t \notin On(X, st, g)
        BY <1>0, <1>6, <1>8, <3>1, <3>2 DEF Stacked
      <4> QED BY <1>3, <1>6, <1>13, <3>1, <3>2, <4>1 DEF V
    <3>3. CASE x # t
      <4>1. IsCall(X, x) /\ X2[x] = X[x]
        BY <1>6, <2>3, <3>3 DEF IsCall
      <4>2. (x \in W) <=> (x \notin On(X, st, X[x].to_thread))
        BY <1>0, <2>3, <4>1 DEF Stacked
      <4> QED BY <1>13, <1>14, <3>1, <3>3, <4>1, <4>2 DEF V
    <3> QED BY <3>2, <3>3
  <2> QED BY <2>1, <2>2, <2>3 DEF Stacked
<1>21. Waits(X2, st2, V)
  <2> SUFFICES ASSUME NEW w \in V
               PROVE  /\ X2[w].kind # "free"
                      /\ IsCall(X2, w) =>
                           /\ X2[w].to_parent = NULL
                           /\ X2[w].to_thread # NULL => QueuedFor(X2, st2, w, X2[w].to_thread)
    BY DEF Waits
  <2>1. CASE w = t
    <3>1. ASSUME g # NULL PROVE QueuedFor(X2, st2, t, g)
      <4>1. PICK u \in Causes(X, b) : u \in Tx /\ X[u].from = g
        BY <1>2, <3>1
      <4>2. b # NULL
        BY <1>0, <4>1, CausesFacts
      <4>3. st[g] \in Tx /\ st[g] \in Causes(X, b) /\ X[st[g]].from = g
        BY <1>3, <1>10, <3>1, <4>1, <4>2, WaitingTop
      <4>4. st2[g] = st[g] /\ st[g] # t /\ st[g] # NULL
        BY <1>3, <1>6, <1>7, <3>1, <4>3, BinderAssumption
      <4>5. Causes(X2, b) = Causes(X, b)
        BY <1>10, <1>11, <4>2
      <4> QED BY <1>6, <4>3, <4>4, <4>5 DEF QueuedFor
    <3> QED BY <1>6, <2>1, <3>1
  <2>2. CASE w # t
    <3>1. w \in W /\ w \in Tx /\ X2[w] = X[w]
      BY <1>0, <1>6, <2>2 DEF V
    <3>2. ASSUME IsCall(X, w), X[w].to_thread # NULL PROVE QueuedFor(X2, st2, w, X[w].to_thread)
      <4> DEFINE S == X[w].to_thread
      <4>1. QueuedFor(X, st, w, S) /\ S \in Thread
        BY <1>0, <3>1, <3>2, TxFields DEF Waits
      <4>2. S # T
        <5> SUFFICES ASSUME S = T PROVE FALSE
          OBVIOUS
        <5>1. b # NULL /\ X[b].from = T
          BY <4>1 DEF QueuedFor
        <5> QED BY <1>0, <1>10, <5>1, Sender
      <4>3. st2[S] = st[S] /\ st[S] \in Tx /\ st[S] # t
        <5>1. st[S] \in Tx
          BY <4>1, ChainsOf, ChainType DEF QueuedFor
        <5> QED BY <1>0, <1>6, <1>7, <3>2, <4>1, <4>2, <5>1 DEF QueuedFor
      <4>4. X[w].from_parent \in (Tx \ {t}) \cup {NULL}
        BY <1>0, <1>9, <3>1, TxFields
      <4>5. Causes(X2, X[w].from_parent) = Causes(X, X[w].from_parent)
        BY <1>11, <4>4
      <4>6. X2[st[S]] = X[st[S]]
        BY <1>6, <4>3
      <4> HIDE DEF S
      <4>7. QueuedFor(X2, st2, w, S)
        BY <3>1, <4>1, <4>3, <4>5, <4>6 DEF QueuedFor
      <4> QED BY <4>7 DEF S
    <3> QED BY <1>0, <3>1, <3>2 DEF Waits, IsCall
  <2> QED BY <2>1, <2>2
<1>22. Cared(X2, V)
  <2>1. ASSUME NEW x \in Tx, ~End(X, x) PROVE ~End(X2, x)
    <3>1. PICK v \in Tx : X[v].from_parent = x
      BY <2>1 DEF End
    <3>2. v # t
      BY <1>7, <3>1, BinderAssumption
    <3> QED BY <1>6, <3>1, <3>2 DEF End
  <2> SUFFICES ASSUME NEW x \in Tx
               PROVE  /\ X2[x].kind \in {"oneway", "reply"} => x \in V
                      /\ IsCall(X2, x) => x \in V \/ X2[x].to_thread # NULL \/ ~End(X2, x)
    BY DEF Cared
  <2>2. CASE x = t
    BY <2>2 DEF V
  <2>3. CASE x # t
    <3>1. X2[x] = X[x]
      BY <1>6, <2>3
    <3> QED BY <1>0, <2>1, <3>1 DEF Cared, IsCall, V
  <2> QED BY <2>2, <2>3
<1>23. Sound(X2, st2, V, {})
  BY <1>5, <1>15, <1>16, <1>17, <1>18, <1>19, <1>20, <1>21, <1>22 DEF Sound
<1> QED BY <1>23 DEF X2, st2, V

\* A thread reads a call.
LEMMA Delivered ==
  ASSUME NEW X, NEW st, NEW W, Sound(X, st, W, {}), NEW T \in Thread, NEW w \in W, IsCall(X, w),
         X[w].to_thread \in {NULL, T}, X[w].node = ProcOf[T],
         X[w].to_thread = NULL => st[T] = NULL
  PROVE  Sound([X EXCEPT ![w].to_thread = T, ![w].to_parent = st[T]], [st EXCEPT ![T] = w], W \ {w}, {})
<1> DEFINE X2 == [X EXCEPT ![w].to_thread = T, ![w].to_parent = st[T]]
           st2 == [st EXCEPT ![T] = w]
           V == W \ {w}
<1>0. /\ X \in TxMap /\ st \in StackType /\ Shaped(X) /\ Linked(X, W) /\ OneChild(X) /\ Backed(X)
      /\ Ranked(X) /\ Stacked(X, st, W) /\ Waits(X, st, W) /\ Cared(X, W) /\ W \subseteq Tx
      /\ T # NULL /\ w \in Tx /\ w # NULL
  BY BinderAssumption DEF Sound
<1>1. st[T] \in Tx \cup {NULL}
  BY <1>0 DEF StackType
<1>2. X[w] \in TxRecord
  BY <1>0, TxFields
<1>3. /\ X2 \in TxMap /\ st2 \in StackType /\ V \subseteq Tx
      /\ X2[w] \in TxRecord
  BY <1>0, <1>1, <1>2 DEF TxMap, StackType, TxRecord
<1>4. /\ X2[w].kind = X[w].kind /\ X2[w].from = X[w].from /\ X2[w].from_parent = X[w].from_parent
      /\ X2[w].to_thread = T /\ X2[w].to_parent = st[T] /\ X2[w].node = X[w].node
      /\ \A x \in Tx \ {w} : X2[x] = X[x]
      /\ st2[T] = w /\ \A S \in Thread \ {T} : st2[S] = st[S]
  BY <1>0, <1>1, <1>2 DEF TxMap, StackType, TxRecord
<1> HIDE DEF X2, st2, V
<1>5. /\ X[w].to_parent = NULL /\ End(X, w)
      /\ st[T] # NULL => st[T] \in Causes(X, X[w].from_parent) /\ X[st[T]].from = T
  BY <1>0, QueuedLast DEF Waits, QueuedFor
<1>6. \A x \in Tx : /\ X2[x].kind = X[x].kind /\ X2[x].from = X[x].from /\ X2[x].node = X[x].node
                    /\ X2[x].from_parent = X[x].from_parent /\ (IsCall(X2, x) <=> IsCall(X, x))
  BY <1>4 DEF IsCall
<1>7. \A x \in Tx \cup {NULL} : Causes(X2, x) = Causes(X, x)
  <2>1. \A t : Causes(X, t) \subseteq Tx
    BY ChainsOf, ChainType
  <2> QED BY <1>0, <1>3, <1>6, <2>1, CausesSame
<1>8. ASSUME NEW S \in Thread \ {T} PROVE On(X2, st2, S) = On(X, st, S)
  <2>1. st[S] \in Tx \cup {NULL} /\ st2[S] = st[S]
    BY <1>0, <1>4 DEF StackType
  <2>2. \A u \in Tx : StackMap(X2, S)[u] = StackMap(X, S)[u]
    BY <1>4, BinderAssumption DEF StackMap
  <2>3. OnStack(X, S, st[S]) \subseteq Tx
    BY ChainsOf, ChainType
  <2> QED BY <1>0, <1>3, <2>1, <2>2, <2>3, StackSame DEF On
<1>9. w \notin On(X, st, T)
  <2>1. CASE X[w].to_thread = T
    BY <1>0, <2>1 DEF Stacked
  <2>2. CASE X[w].to_thread = NULL
    BY <1>0, <2>2, StackEmpty DEF On
  <2> QED BY <2>1, <2>2
<1>10. On(X2, st2, T) = {w} \cup On(X, st, T)
  <2>1. OnStack(X2, T, st[T]) = OnStack(X, T, st[T])
    <3>1. OnStack(X, T, st[T]) \subseteq Tx
      BY ChainsOf, ChainType
    <3>2. \A u \in OnStack(X, T, st[T]) : StackMap(X2, T)[u] = StackMap(X, T)[u]
      BY <1>4, <1>9, <3>1 DEF StackMap, On
    <3> QED BY <1>0, <1>1, <1>3, <3>2, StackSame
  <2>2. StackMap(X2, T)[w] = st[T] /\ StackMap(X2, T) \in NextMap
    BY <1>0, <1>3, <1>4, MapTypes DEF StackMap
  <2>3. OnStack(X2, T, w) = {w} \cup OnStack(X2, T, st[T])
    BY <1>0, <2>2, ChainsOf, ChainStep
  <2> QED BY <1>4, <2>1, <2>3 DEF On
<1>11. Shaped(X2)
  <2> SUFFICES ASSUME NEW x \in Tx
               PROVE  /\ ~IsCall(X2, x) => X2[x].from = NULL /\ X2[x].from_parent = NULL /\ X2[x].to_parent = NULL
                      /\ X2[x].kind \in {"free", "oneway"} => X2[x].to_thread = NULL
                      /\ IsCall(X2, x) => /\ X2[x].from # NULL => ProcOf[X2[x].from] # X2[x].node
                                          /\ X2[x].to_thread # NULL => ProcOf[X2[x].to_thread] = X2[x].node
    BY DEF Shaped
  <2>1. CASE x = w
    BY <1>0, <1>4, <2>1 DEF IsCall, Shaped
  <2>2. CASE x # w
    BY <1>0, <1>4, <2>2 DEF Shaped, IsCall
  <2> QED BY <2>1, <2>2
<1>12. Linked(X2, V)
  <2> SUFFICES ASSUME NEW x \in Tx, X2[x].from_parent # NULL
               PROVE  MadeFor(X2, x, X2[x].from_parent, V)
    BY DEF Linked
  <2> DEFINE u == X[x].from_parent
  <2>1. u = X2[x].from_parent /\ u # w /\ MadeFor(X, x, u, W)
    BY <1>0, <1>5, <1>6 DEF Linked, End
  <2>2. u \in Tx
    BY <1>0, <2>1, TxFields
  <2> HIDE DEF u
  <2>3. MadeFor(X2, x, u, V)
    BY <1>4, <1>6, <2>1, <2>2 DEF MadeFor, V
  <2> QED BY <2>1, <2>3
<1>13. OneChild(X2)
  BY <1>0, <1>6 DEF OneChild
<1>14. Backed(X2)
  <2> SUFFICES ASSUME NEW x \in Tx, X2[x].to_parent # NULL
               PROVE  HandledOn(X2, x, X2[x].to_parent)
    BY DEF Backed
  <2> DEFINE u == X2[x].to_parent
  <2>0. X[x].from_parent \in Tx \cup {NULL}
    BY <1>0, TxFields
  <2>1. IsCall(X, u) /\ X[u].from = X2[x].to_thread /\ u \in Causes(X, X[x].from_parent)
    <3>1. CASE x = w
      <4>1. u = st[T] /\ u \in Tx
        BY <1>1, <1>4, <3>1
      <4>2. u \in On(X, st, T)
        BY <1>0, <4>1, StackFacts DEF On
      <4> QED BY <1>0, <1>4, <1>5, <3>1, <4>1, <4>2 DEF Stacked
    <3>2. CASE x # w
      BY <1>0, <1>4, <3>2 DEF Backed, HandledOn
    <3> QED BY <3>1, <3>2
  <2>2. u \in Tx
    BY <2>1, ChainsOf, ChainType
  <2> HIDE DEF u
  <2>3. HandledOn(X2, x, u)
    BY <1>6, <1>7, <2>0, <2>1, <2>2 DEF HandledOn
  <2> QED BY <2>3 DEF u
<1>15. Ranked(X2)
  BY <1>0, <1>6 DEF Ranked, RankOf
<1>16. Stacked(X2, st2, V)
  <2>1. ASSUME NEW S \in Thread, NEW x \in On(X2, st2, S)
        PROVE  IsCall(X2, x) /\ S \in {X2[x].from, X2[x].to_thread}
    <3>1. CASE x = w /\ S = T
      BY <1>0, <1>4, <1>6, <3>1
    <3>2. CASE ~(x = w /\ S = T)
      <4>1. x \in On(X, st, S)
        BY <1>8, <1>10, <2>1, <3>2
      <4>2. x \in Tx /\ IsCall(X, x) /\ S \in {X[x].from, X[x].to_thread}
        BY <1>0, <4>1, ChainsOf, ChainType DEF On, Stacked
      <4> QED BY <1>4, <1>6, <3>2, <4>2, BinderAssumption
    <3> QED BY <3>1, <3>2
  <2>2. ASSUME NEW x \in Tx, IsCall(X2, x), X2[x].from # NULL PROVE x \in On(X2, st2, X2[x].from)
    <3>1. X2[x].from \in Thread /\ IsCall(X, x) /\ X2[x].from = X[x].from
      BY <1>3, <1>6, <2>2, TxFields
    <3>2. x \in On(X, st, X[x].from)
      BY <1>0, <2>2, <3>1 DEF Stacked
    <3> QED BY <1>8, <1>10, <3>1, <3>2
  <2>3. ASSUME NEW x \in Tx, IsCall(X2, x), X2[x].to_thread # NULL
        PROVE  (x \in V) <=> (x \notin On(X2, st2, X2[x].to_thread))
    <3>1. X2[x].to_thread \in Thread
      BY <1>3, <2>3, TxFields
    <3>2. CASE x = w
      BY <1>4, <1>10, <3>2 DEF V
    <3>3. CASE x # w
      <4>1. IsCall(X, x) /\ X2[x] = X[x]
        BY <1>4, <1>6, <2>3, <3>3
      <4>2. (x \in W) <=> (x \notin On(X, st, X[x].to_thread))
        BY <1>0, <2>3, <4>1 DEF Stacked
      <4> QED BY <1>8, <1>10, <3>1, <3>3, <4>1, <4>2 DEF V
    <3> QED BY <3>2, <3>3
  <2> QED BY <2>1, <2>2, <2>3 DEF Stacked
<1>17. Waits(X2, st2, V)
  <2> SUFFICES ASSUME NEW x \in V
               PROVE  /\ X2[x].kind # "free"
                      /\ IsCall(X2, x) =>
                           /\ X2[x].to_parent = NULL
                           /\ X2[x].to_thread # NULL => QueuedFor(X2, st2, x, X2[x].to_thread)
    BY DEF Waits
  <2>1. x \in W /\ x \in Tx /\ X2[x] = X[x] /\ x # w
    BY <1>0, <1>4 DEF V
  <2>2. ASSUME IsCall(X, x), X[x].to_thread # NULL PROVE QueuedFor(X2, st2, x, X[x].to_thread)
    <3> DEFINE S == X[x].to_thread
    <3>0. X[x].from_parent \in Tx \cup {NULL} /\ X[w].from_parent \in Tx \cup {NULL}
      BY <1>0, <2>1, TxFields
    <3>1. QueuedFor(X, st, x, S) /\ S \in Thread
      BY <1>0, <2>1, <2>2, TxFields DEF Waits
    <3>2. st[S] \in Tx
      BY <3>1, ChainsOf, ChainType DEF QueuedFor
    <3>3. S # T
      <4> SUFFICES ASSUME S = T PROVE FALSE
        OBVIOUS
      <4>1. st[T] \in Causes(X, X[w].from_parent) /\ st[T] \in Causes(X, X[x].from_parent)
        BY <1>5, <3>1 DEF QueuedFor
      <4>2. st[T] \in Causes(X, w) /\ st[T] \in Causes(X, x)
        BY <1>0, <2>1, <4>1, CausesFacts
      <4>3. End(X, x)
        BY <2>1, QueuedLast
      <4> HIDE DEF S
      <4>4. x = w
        BY <1>0, <1>5, <2>1, <4>2, <4>3, OneEnd
      <4> QED BY <2>1, <4>4
    <3>4. st2[S] = st[S]
      BY <1>4, <3>1, <3>3
    <3> HIDE DEF S
    <3>5. QueuedFor(X2, st2, x, S)
      BY <1>6, <1>7, <2>1, <3>0, <3>1, <3>2, <3>4 DEF QueuedFor
    <3> QED BY <3>5 DEF S
  <2> QED BY <1>0, <2>1, <2>2 DEF Waits, IsCall
<1>18. Cared(X2, V)
  <2>1. \A x : End(X2, x) <=> End(X, x)
    BY <1>6 DEF End
  <2> SUFFICES ASSUME NEW x \in Tx
               PROVE  /\ X2[x].kind \in {"oneway", "reply"} => x \in V
                      /\ IsCall(X2, x) => x \in V \/ X2[x].to_thread # NULL \/ ~End(X2, x)
    BY DEF Cared
  <2>2. CASE x = w
    BY <1>0, <1>4, <2>2 DEF IsCall
  <2>3. CASE x # w
    <3>1. X2[x] = X[x]
      BY <1>4, <2>3
    <3> QED BY <1>0, <2>1, <2>3, <3>1 DEF Cared, IsCall, V
  <2> QED BY <2>2, <2>3
<1>19. Sound(X2, st2, V, {})
  BY <1>3, <1>11, <1>12, <1>13, <1>14, <1>15, <1>16, <1>17, <1>18 DEF Sound
<1> QED BY <1>19 DEF X2, st2, V

\* A thread is cut off from the transactions on its stack.
CutTx(X, st, T) ==
  [t \in Tx |-> IF t \notin On(X, st, T) THEN X[t]
                ELSE IF X[t].to_thread = T THEN [X[t] EXCEPT !.to_thread = NULL]
                ELSE [X[t] EXCEPT !.from = NULL]]

\* The call it may have been handling is left to nobody.
Left(X, st, T) ==
  IF st[T] # NULL /\ X[st[T]].to_thread = T THEN {st[T]} ELSE {}

\* What changes: those it has sent lose their sender, those it handles their handler.
LEMMA CutFacts ==
  ASSUME NEW X, NEW st, NEW W, NEW D, Sound(X, st, W, D), NEW T \in Thread,
         NEW X2, X2 = CutTx(X, st, T), NEW t \in Tx
  PROVE  /\ X2 \in TxMap
         /\ X2[t].kind = X[t].kind /\ X2[t].from_parent = X[t].from_parent
         /\ X2[t].to_parent = X[t].to_parent /\ X2[t].node = X[t].node
         /\ X2[t].from = IF X[t].from = T THEN NULL ELSE X[t].from
         /\ X2[t].to_thread = IF X[t].to_thread = T /\ IsCall(X, t) /\ t \notin W \cup D
                              THEN NULL ELSE X[t].to_thread
<1>0. X \in TxMap /\ Shaped(X) /\ Stacked(X, st, W \cup D) /\ T # NULL
  BY BinderAssumption DEF Sound
<1>1. \A u \in Tx : X[u] \in TxRecord
  BY <1>0, TxFields
<1>2. \A u \in Tx : X2[u] \in TxRecord
  BY <1>1 DEF CutTx, TxRecord
<1>3. X2 \in TxMap
  BY <1>2 DEF CutTx, TxMap
<1>4. X[t] \in TxRecord
  BY <1>1
<1>5. CASE t \notin On(X, st, T)
  <2>1. X2[t] = X[t]
    BY <1>5 DEF CutTx
  <2>2. X[t].from # T
    BY <1>0, <1>5 DEF Stacked, Shaped
  <2>3. X[t].to_thread = T /\ IsCall(X, t) => t \in W \cup D
    BY <1>0, <1>5 DEF Stacked
  <2> QED BY <1>3, <2>1, <2>2, <2>3
<1>6. CASE t \in On(X, st, T) /\ X[t].to_thread = T
  <2>1. X2[t] = [X[t] EXCEPT !.to_thread = NULL]
    BY <1>6 DEF CutTx
  <2>2. IsCall(X, t) /\ t \notin W \cup D
    BY <1>0, <1>6 DEF Stacked
  <2>3. X[t].from # T
    BY <1>0, <1>6, <2>2, Sender
  <2> QED BY <1>3, <1>4, <1>6, <2>1, <2>2, <2>3 DEF TxRecord
<1>7. CASE t \in On(X, st, T) /\ X[t].to_thread # T
  <2>1. X2[t] = [X[t] EXCEPT !.from = NULL]
    BY <1>7 DEF CutTx
  <2>2. X[t].from = T
    BY <1>0, <1>7 DEF Stacked
  <2> QED BY <1>3, <1>4, <1>7, <2>1, <2>2 DEF TxRecord
<1> QED BY <1>5, <1>6, <1>7

\* A thread is taken out of the transactions on its stack.  The call it handled, and those it had
\* sent that were not queued any more, are left to nobody.
LEMMA ThreadCut ==
  ASSUME NEW X, NEW st, NEW W, NEW D, Sound(X, st, W, D), NEW T \in Thread,
         \A w \in W : IsCall(X, w) => X[w].to_thread # T,
         \A w \in D : IsCall(X, w) => X[w].to_parent = NULL
  PROVE  Sound(CutTx(X, st, T), [st EXCEPT ![T] = NULL], W, D \cup Left(X, st, T))
<1> DEFINE X2 == CutTx(X, st, T)
           st2 == [st EXCEPT ![T] = NULL]
           E == D \cup Left(X, st, T)
           Z == W \cup D
<1>0. /\ X \in TxMap /\ st \in StackType /\ Shaped(X) /\ Linked(X, Z) /\ OneChild(X) /\ Backed(X)
      /\ Ranked(X) /\ Stacked(X, st, Z) /\ Waits(X, st, W) /\ Cared(X, Z) /\ W \subseteq Tx /\ D \subseteq Tx
      /\ T # NULL /\ W \cap D = {}
  BY BinderAssumption DEF Sound
<1>1. \A t \in Tx :
        /\ X2 \in TxMap
        /\ X2[t].kind = X[t].kind /\ X2[t].from_parent = X[t].from_parent
        /\ X2[t].to_parent = X[t].to_parent /\ X2[t].node = X[t].node
        /\ X2[t].from = IF X[t].from = T THEN NULL ELSE X[t].from
        /\ X2[t].to_thread = IF X[t].to_thread = T /\ IsCall(X, t) /\ t \notin Z
                             THEN NULL ELSE X[t].to_thread
  BY CutFacts
<1>2. X2 \in TxMap
  <2>1. X2 \in [Tx -> TxRecord]
    <3>1. \A t \in Tx : X2[t] \in TxRecord
      BY <1>1, TxFields
    <3> QED BY <3>1 DEF CutTx
  <2> QED BY <2>1 DEF TxMap
<1>3. st2 \in StackType /\ st2[T] = NULL /\ \A S \in Thread \ {T} : st2[S] = st[S]
  BY <1>0 DEF StackType
<1>4. ASSUME NEW t \in Left(X, st, T)
      PROVE  t = st[T] /\ End(X, t) /\ t \in Tx /\ t \notin Z /\ IsCall(X, t) /\ X[t].to_thread = T
  BY <1>4, HandledTop DEF Left
<1>5. E \subseteq Tx /\ W \cap E = {} /\ Z \subseteq W \cup E /\ W \cup E = Z \cup Left(X, st, T)
  BY <1>0, <1>4
<1> HIDE DEF X2, st2, E, Z
<1>6. \A x \in Tx \cup {NULL} : Causes(X2, x) = Causes(X, x)
  <2>1. \A t : Causes(X, t) \subseteq Tx
    BY ChainsOf, ChainType
  <2> QED BY <1>0, <1>1, <1>2, <2>1, CausesSame
<1>7. ASSUME NEW S \in Thread \ {T} PROVE On(X2, st2, S) = On(X, st, S)
  <2>1. st[S] \in Tx \cup {NULL} /\ st2[S] = st[S] /\ S # NULL
    BY <1>0, <1>3, BinderAssumption DEF StackType
  <2>2. \A u \in Tx : StackMap(X2, S)[u] = StackMap(X, S)[u]
    BY <1>1, <2>1 DEF StackMap
  <2>3. OnStack(X, S, st[S]) \subseteq Tx
    BY ChainsOf, ChainType
  <2> QED BY <1>0, <1>2, <2>1, <2>2, <2>3, StackSame DEF On
<1>8. On(X2, st2, T) = {}
  BY <1>2, <1>3, StackEmpty DEF On
<1>9. \A t \in Tx : IsCall(X2, t) <=> IsCall(X, t)
  BY <1>1 DEF IsCall
<1>10. Shaped(X2)
  <2> SUFFICES ASSUME NEW x \in Tx
               PROVE  /\ ~IsCall(X2, x) => X2[x].from = NULL /\ X2[x].from_parent = NULL /\ X2[x].to_parent = NULL
                      /\ X2[x].kind \in {"free", "oneway"} => X2[x].to_thread = NULL
                      /\ IsCall(X2, x) => /\ X2[x].from # NULL => ProcOf[X2[x].from] # X2[x].node
                                          /\ X2[x].to_thread # NULL => ProcOf[X2[x].to_thread] = X2[x].node
    BY DEF Shaped
  <2>1. /\ ~IsCall(X, x) => X[x].from = NULL /\ X[x].from_parent = NULL /\ X[x].to_parent = NULL
        /\ X[x].kind \in {"free", "oneway"} => X[x].to_thread = NULL
        /\ IsCall(X, x) => /\ X[x].from # NULL => ProcOf[X[x].from] # X[x].node
                           /\ X[x].to_thread # NULL => ProcOf[X[x].to_thread] = X[x].node
    BY <1>0 DEF Shaped
  <2> QED BY <1>1, <1>9, <2>1
<1>11. Linked(X2, W \cup E)
  <2> SUFFICES ASSUME NEW x \in Tx, X2[x].from_parent # NULL
               PROVE  MadeFor(X2, x, X2[x].from_parent, W \cup E)
    BY DEF Linked
  <2> DEFINE u == X[x].from_parent
  <2>1. u = X2[x].from_parent /\ u # NULL /\ MadeFor(X, x, u, Z)
    BY <1>0, <1>1 DEF Linked
  <2>2. u \in Tx
    BY <1>0, <2>1, TxFields
  <2>3. u \notin Left(X, st, T)
    BY <1>4 DEF End
  <2> HIDE DEF u
  <2>4. X2[x].from = X2[u].to_thread
    BY <1>1, <2>1, <2>2 DEF MadeFor
  <2>5. MadeFor(X2, x, u, W \cup E)
    BY <1>5, <1>9, <2>1, <2>2, <2>3, <2>4 DEF MadeFor
  <2> QED BY <2>1, <2>5
<1>12. OneChild(X2)
  BY <1>0, <1>1 DEF OneChild
<1>13. Backed(X2)
  <2> SUFFICES ASSUME NEW x \in Tx, X2[x].to_parent # NULL
               PROVE  HandledOn(X2, x, X2[x].to_parent)
    BY DEF Backed
  <2> DEFINE u == X[x].to_parent
  <2>0. X[x].from_parent \in Tx \cup {NULL}
    BY <1>0, TxFields
  <2>1. u = X2[x].to_parent /\ HandledOn(X, x, u)
    BY <1>0, <1>1 DEF Backed
  <2>2. u \in Tx
    BY <2>1, ChainsOf, ChainType DEF HandledOn
  <2>3. IsCall(X, x) /\ x \notin Z
    BY <1>0, <1>1, <2>1 DEF Shaped, Waits, Z
  <2> HIDE DEF u
  <2>4. X2[u].from = X2[x].to_thread
    BY <1>1, <2>1, <2>2, <2>3 DEF HandledOn
  <2>5. HandledOn(X2, x, u)
    BY <1>1, <1>6, <1>9, <2>0, <2>1, <2>2, <2>4 DEF HandledOn
  <2> QED BY <2>1, <2>5
<1>14. Ranked(X2)
  BY <1>0, <1>1 DEF Ranked, RankOf
<1>15. Stacked(X2, st2, W \cup E)
  <2>1. ASSUME NEW S \in Thread, NEW x \in On(X2, st2, S)
        PROVE  IsCall(X2, x) /\ S \in {X2[x].from, X2[x].to_thread}
    <3>1. S # T /\ x \in On(X, st, S)
      BY <1>7, <1>8, <2>1
    <3>2. x \in Tx /\ IsCall(X, x) /\ S \in {X[x].from, X[x].to_thread}
      BY <1>0, <3>1, ChainsOf, ChainType DEF On, Stacked
    <3> QED BY <1>1, <1>9, <3>1, <3>2
  <2>2. ASSUME NEW x \in Tx, IsCall(X2, x), X2[x].from # NULL PROVE x \in On(X2, st2, X2[x].from)
    <3>1. X2[x].from \in Thread /\ IsCall(X, x) /\ X2[x].from = X[x].from /\ X[x].from # T
      BY <1>1, <1>2, <1>9, <2>2, TxFields
    <3>2. x \in On(X, st, X[x].from)
      BY <1>0, <2>2, <3>1 DEF Stacked
    <3> QED BY <1>7, <3>1, <3>2
  <2>3. ASSUME NEW x \in Tx, IsCall(X2, x), X2[x].to_thread # NULL
        PROVE  (x \in W \cup E) <=> (x \notin On(X2, st2, X2[x].to_thread))
    <3>1. X2[x].to_thread \in Thread /\ X2[x].to_thread = X[x].to_thread /\ IsCall(X, x)
      BY <1>1, <1>2, <1>9, <2>3, TxFields
    <3>2. (x \in Z) <=> (x \notin On(X, st, X[x].to_thread))
      BY <1>0, <2>3, <3>1 DEF Stacked
    <3>3. CASE X[x].to_thread = T
      <4>1. x \in Z
        BY <1>1, <2>3, <3>1, <3>3
      <4> QED BY <1>5, <1>8, <3>1, <3>3, <4>1
    <3>4. CASE X[x].to_thread # T
      <4>1. x \notin Left(X, st, T)
        BY <1>4, <3>4
      <4> QED BY <1>5, <1>7, <3>1, <3>2, <3>4, <4>1
    <3> QED BY <3>3, <3>4
  <2> QED BY <2>1, <2>2, <2>3 DEF Stacked
<1>16. Waits(X2, st2, W)
  <2> SUFFICES ASSUME NEW x \in W
               PROVE  /\ X2[x].kind # "free"
                      /\ IsCall(X2, x) =>
                           /\ X2[x].to_parent = NULL
                           /\ X2[x].to_thread # NULL => QueuedFor(X2, st2, x, X2[x].to_thread)
    BY DEF Waits
  <2>1. x \in Tx /\ X2[x].to_thread = X[x].to_thread
    BY <1>0, <1>1 DEF Z
  <2>2. ASSUME IsCall(X, x), X[x].to_thread # NULL PROVE QueuedFor(X2, st2, x, X[x].to_thread)
    <3> DEFINE S == X[x].to_thread
    <3>0. X[x].from_parent \in Tx \cup {NULL}
      BY <1>0, <2>1, TxFields
    <3>1. QueuedFor(X, st, x, S) /\ S \in Thread /\ S # T
      BY <1>0, <2>1, <2>2, TxFields DEF Waits
    <3>2. st[S] \in Tx
      BY <3>1, ChainsOf, ChainType DEF QueuedFor
    <3>3. st2[S] = st[S]
      BY <1>3, <3>1
    <3> HIDE DEF S
    <3>4. QueuedFor(X2, st2, x, S)
      BY <1>1, <1>6, <2>1, <3>0, <3>1, <3>2, <3>3 DEF QueuedFor
    <3> QED BY <3>4 DEF S
  <2> QED BY <1>0, <1>1, <1>9, <2>1, <2>2 DEF Waits
<1>17. Cared(X2, W \cup E)
  <2> SUFFICES ASSUME NEW x \in Tx
               PROVE  /\ X2[x].kind \in {"oneway", "reply"} => x \in W \cup E
                      /\ IsCall(X2, x) => x \in W \cup E \/ X2[x].to_thread # NULL \/ ~End(X2, x)
    BY DEF Cared
  <2>1. /\ X[x].kind \in {"oneway", "reply"} => x \in Z
        /\ IsCall(X, x) => x \in Z \/ X[x].to_thread # NULL \/ ~End(X, x)
    BY <1>0 DEF Cared
  <2>2. ~End(X, x) => ~End(X2, x)
    BY <1>1 DEF End
  <2>3. ASSUME IsCall(X, x), x \notin Z, X[x].to_thread = T PROVE x \in E \/ ~End(X, x)
    <3>1. x \in On(X, st, T)
      BY <1>0, <2>3 DEF Stacked
    <3> DEFINE s == st[T]
    <3>2. s \in Tx
      <4>1. s \in Tx \cup {NULL}
        BY <1>0 DEF StackType
      <4> QED BY <1>0, <3>1, <4>1, StackEmpty DEF On
    <3>3. CASE x = s
      <4>1. x \in Left(X, st, T)
        BY <2>3, <3>2, <3>3, BinderAssumption DEF Left
      <4> QED BY <4>1 DEF E
    <3>4. CASE x # s
      <4>1. x \in OnStack(X, T, s)
        BY <3>1 DEF On
      <4> HIDE DEF s
      <4>2. PICK y \in OnStack(X, T, s) : StackMap(X, T)[y] = x
        BY <1>0, <3>2, <3>4, <4>1, StackAbove
      <4>3. y \in Tx
        BY ChainsOf, ChainType
      <4>4. x # NULL
        BY BinderAssumption
      <4>5. CASE X[y].to_thread = T
        <5>1. X[y].to_parent = x
          BY <4>2, <4>3, <4>5 DEF StackMap
        <5>2. X[x].from = T
          BY <1>0, <4>3, <4>4, <4>5, <5>1 DEF Backed, HandledOn
        <5> QED BY <1>0, <2>3, <5>2, Sender
      <4>6. CASE X[y].to_thread # T
        BY <4>2, <4>3, <4>6 DEF StackMap, End
      <4> QED BY <4>5, <4>6
    <3> QED BY <3>3, <3>4
  <2> QED BY <1>1, <1>5, <1>9, <2>1, <2>2, <2>3 DEF E, Z
<1>18. Sound(X2, st2, W, E)
  BY <1>0, <1>2, <1>3, <1>5, <1>10, <1>11, <1>12, <1>13, <1>14, <1>15, <1>16, <1>17 DEF Sound
<1> QED BY <1>18 DEF X2, st2, E

\* The sender of the call that a thread may reply to waits for it.
LEMMA SenderWaits ==
  ASSUME NEW X, NEW st, NEW W, Sound(X, st, W, {}), NEW T \in Thread, st[T] # NULL,
         NEW t, t = st[T], X[t].to_thread = T, X[t].from # NULL
  PROVE  X[t].from \in Thread /\ X[t].from # T /\ st[X[t].from] = t
<1> DEFINE st2 == [st EXCEPT ![T] = X[t].to_parent]
           R == FailedPath(X, t)
<1>1. Sound(X, st2, W, {t})
  BY Popped
<1>2. IsCall(X, t) /\ t \in Tx
  BY HandledTop
<1>3. st \in StackType /\ X \in TxMap /\ Shaped(X)
  BY DEF Sound
<1>4. \A S \in Thread \ {T} : st2[S] = st[S]
  BY <1>3 DEF StackType
<1>5. X[t].from # T
  BY <1>2, <1>3, Sender
<1> HIDE DEF st2, R
<1>6. Path(X, st2, W, {t}, t, R)
  BY <1>1, <1>2 DEF Path, R
<1>7. t \in R
  BY <1>6, PathFacts
<1>8. X[t].from \in Thread /\ st2[X[t].from] = t
  BY <1>6, <1>7, PathCaller
<1> QED BY <1>4, <1>5, <1>8

-----------------------------------------------------------------------------
(* The heap.                                                               *)

ErrorType == [Thread -> {"OK", "COMPLETE", "FAILED"}]

\* The heaps.
HeapSet ==
  [tx : TxMap, stack : StackType, error : ErrorType, error2 : ErrorType, woken : [Thread -> BOOLEAN]]

ModeType == mode \in [Thread -> {"user", "proc", "thread"}]

\* A thread that waits for a reply has room for an error.
Room(h, S) ==
  h.error2[S] # "OK" =>
    h.error[S] # "OK" /\ (h.stack[S] = NULL \/ h.tx[h.stack[S]].to_thread = S)

\* A thread that waits for work of its process has no calls, and a thread that sleeps no errors.
Awake(h, S) ==
  /\ mode[S] = "proc" => h.stack[S] = NULL
  /\ mode[S] # "user" /\ ~h.woken[S] => h.error[S] = "OK"

\* A heap with sound transactions, and errors that reach whoever waits for them.
HeapSound(h, W, D) ==
  /\ h \in HeapSet /\ Sound(h.tx, h.stack, W, D)
  /\ \A S \in Thread : Room(h, S) /\ Awake(h, S)

\* What the functions that work on the heap leave alone.
Kept(h, g, K) ==
  /\ \A t \in K : /\ g.tx[t].kind = h.tx[t].kind /\ g.tx[t].to_thread = h.tx[t].to_thread
                  /\ g.tx[t].to_parent = h.tx[t].to_parent /\ g.tx[t].node = h.tx[t].node
  /\ \A S \in Thread : h.woken[S] => g.woken[S]

\* What two functions leave alone, one after the other does.
LEMMA KeptTrans ==
  ASSUME NEW h, NEW g, NEW f, NEW K, NEW L, Kept(h, g, K), Kept(g, f, L), L \subseteq K
  PROVE  Kept(h, f, L)
BY DEF Kept

\* The fields of a heap.
LEMMA HeapFields ==
  ASSUME NEW h \in HeapSet
  PROVE  /\ h.tx \in TxMap /\ h.stack \in StackType /\ h.error \in ErrorType /\ h.error2 \in ErrorType
         /\ h.woken \in [Thread -> BOOLEAN]
BY DEF HeapSet

\* Free transactions.
LEMMA FreeTxFacts ==
  ASSUME NEW X \in TxMap, NEW R \in SUBSET Tx
  PROVE  /\ FreeTx(X, R) \in TxMap /\ \A t \in R : FreeTx(X, R)[t] = Free
         /\ \A t \in Tx \ R : FreeTx(X, R)[t] = X[t]
<1>1. Free \in TxRecord
  BY DEF Free, TxRecord
<1> QED BY <1>1 DEF FreeTx, TxMap

\* The fields of a free transaction.
LEMMA FreeFields ==
  /\ Free.kind = "free" /\ Free.from = NULL /\ Free.from_parent = NULL /\ Free.to_thread = NULL
  /\ Free.to_parent = NULL /\ Free.node = NULL
BY DEF Free

\* The path R is gone and T, the sender of c, is told.
Told(h, g, R, c, T) ==
  /\ g.tx = FreeTx(h.tx, R) /\ g.stack = [h.stack EXCEPT ![T] = h.tx[c].from_parent]
  /\ g.error = [h.error EXCEPT ![T] = "FAILED"]
  /\ \A S \in Thread \ {T} : g.error2[S] = h.error2[S]
  /\ \A S \in Thread : /\ h.woken[S] => g.woken[S]
                       /\ S # T => g.woken[S] = h.woken[S]
  /\ mode[T] = "thread" => g.woken[T]

\* A failed reply: nobody waits for it, or the caller is told.
LEMMA FailedReply ==
  ASSUME NEW h \in HeapSet, NEW t \in Tx, NEW g, g = binder_send_failed_reply(h, t),
         NEW R, R = FailedPath(h.tx, t)
  PROVE  /\ g \in HeapSet
         /\ (\A u \in R : h.tx[u].from = NULL) => g = [h EXCEPT !.tx = FreeTx(h.tx, R)]
         /\ \A c \in R, T \in Thread :
              /\ h.tx[c].from = T
              /\ \A u \in R : h.tx[u].from # NULL => u = c
              /\ h.error2[T] = "OK"
              => Told(h, g, R, c, T)
<1> DEFINE X == h.tx
           O == Orphaned(X, t)
           C == R \ O
           c == Caller(X, t)
           T == X[c].from
           f == [h EXCEPT !.tx = FreeTx(X, O)]
           e == IF h.error[T] # "OK" THEN h.error[T] ELSE h.error2[T]
<1>1. /\ h.tx \in TxMap /\ h.stack \in StackType /\ h.error \in ErrorType /\ h.error2 \in ErrorType
      /\ h.woken \in [Thread -> BOOLEAN]
  BY HeapFields
<1>2. R \subseteq Tx /\ O = {u \in R : X[u].from = NULL}
  BY ChainsOf, ChainType DEF Orphaned
<1>3. c = IF C = {} THEN NULL ELSE CHOOSE u \in C : TRUE
  BY DEF Caller
<1>4. C # {} => c \in C /\ c \in R /\ c \in Tx /\ c # NULL /\ T # NULL /\ c \notin O
  BY <1>2, <1>3, BinderAssumption
<1>5. C # {} => T \in Thread /\ X[c].from_parent \in Tx \cup {NULL}
  BY <1>1, <1>4, TxFields
<1>6. FreeTx(X, O) \in TxMap /\ \A u \in Tx \ O : FreeTx(X, O)[u] = X[u]
  BY <1>1, <1>2, FreeTxFacts
<1>7. C # {} => [FreeTx(X, O) EXCEPT ![c] = Free] = FreeTx(X, O \cup {c})
  BY <1>1, <1>4 DEF FreeTx
<1>8. C # {} => [FreeTx(X, O) EXCEPT ![c] = Free] \in TxMap
  BY <1>1, <1>2, <1>4, <1>7, FreeTxFacts
<1>9. f \in HeapSet
  BY <1>6 DEF HeapSet
<1>10. ASSUME C # {}
       PROVE  /\ [h.stack EXCEPT ![T] = X[c].from_parent] \in StackType
              /\ [h.error EXCEPT ![T] = "FAILED"] \in ErrorType /\ [h.error2 EXCEPT ![T] = e] \in ErrorType
              /\ [h.woken EXCEPT ![T] = h.woken[T] \/ mode[T] = "thread"] \in [Thread -> BOOLEAN]
  BY <1>1, <1>5, <1>10 DEF StackType, ErrorType
<1>11. CASE C = {}
  <2>1. c = NULL
    BY <1>3, <1>11
  <2>2. g = f
    BY <2>1 DEF binder_send_failed_reply
  <2>3. O = R
    BY <1>2, <1>11
  <2>4. \A u \in R : X[u].from = NULL
    BY <1>2, <2>3
  <2> QED BY <1>9, <2>2, <2>3, <2>4, BinderAssumption
<1>12. CASE C # {}
  <2>0. c # NULL /\ c \in R /\ T # NULL /\ c \in Tx
    BY <1>4, <1>12
  <2>1. CASE h.error[T] # "OK" /\ h.error2[T] # "OK"
    <3>1. g = f
      BY <2>1 DEF binder_send_failed_reply
    <3> QED BY <1>9, <2>0, <2>1, <3>1
  <2>2. CASE ~(h.error[T] # "OK" /\ h.error2[T] # "OK")
    <3>1. g = WakeThread([binder_pop_transaction(f, T, c) EXCEPT !.error[T] = "FAILED",
                            !.error2[T] = IF h.error[T] # "OK" THEN h.error[T] ELSE @], T)
      BY <2>0, <2>2 DEF binder_send_failed_reply
    <3>2. FreeTx(X, O)[c].from_parent = X[c].from_parent
      BY <1>4, <1>6, <1>12
    <3>3. /\ g \in HeapSet
          /\ g.tx = [FreeTx(X, O) EXCEPT ![c] = Free]
          /\ g.stack = [h.stack EXCEPT ![T] = X[c].from_parent]
          /\ g.error = [h.error EXCEPT ![T] = "FAILED"] /\ g.error2 = [h.error2 EXCEPT ![T] = e]
          /\ g.woken = [h.woken EXCEPT ![T] = h.woken[T] \/ mode[T] = "thread"]
      <4> DEFINE p == binder_pop_transaction(f, T, c)
                 r == [p EXCEPT !.error[T] = "FAILED",
                                !.error2[T] = IF h.error[T] # "OK" THEN h.error[T] ELSE @]
      <4>0. g = WakeThread(r, T)
        BY <3>1
      <4> HIDE DEF X, T, c, O, e
      <4>1. /\ f.tx = FreeTx(X, O) /\ f.stack = h.stack /\ f.error = h.error
            /\ f.error2 = h.error2 /\ f.woken = h.woken
        BY DEF HeapSet
      <4> HIDE DEF f
      <4>2. /\ p \in HeapSet
            /\ p.tx = [FreeTx(X, O) EXCEPT ![c] = Free]
            /\ p.stack = [h.stack EXCEPT ![T] = X[c].from_parent]
            /\ p.error = h.error /\ p.error2 = h.error2 /\ p.woken = h.woken
        BY <1>8, <1>9, <1>10, <1>12, <3>2, <4>1 DEF binder_pop_transaction, HeapSet
      <4> HIDE DEF p
      <4>3. /\ r.tx = p.tx /\ r.stack = p.stack /\ r.woken = p.woken
            /\ r.error = [h.error EXCEPT ![T] = "FAILED"] /\ r.error2 = [h.error2 EXCEPT ![T] = e]
        BY <4>2 DEF HeapSet, e
      <4>4. r \in HeapSet
        BY <1>10, <1>12, <4>2, <4>3 DEF HeapSet
      <4> HIDE DEF r
      <4>5. /\ g.tx = r.tx /\ g.stack = r.stack /\ g.error = r.error /\ g.error2 = r.error2
            /\ g.woken = [h.woken EXCEPT ![T] = h.woken[T] \/ mode[T] = "thread"]
        BY <4>0, <4>2, <4>3, <4>4 DEF WakeThread, HeapSet
      <4>6. g \in HeapSet
        BY <1>10, <1>12, <4>0, <4>4, <4>5 DEF WakeThread, HeapSet
      <4> QED BY <4>2, <4>3, <4>5, <4>6
    <3>5. ASSUME NEW a \in R, NEW S \in Thread, X[a].from = S,
                 \A u \in R : X[u].from # NULL => u = a, h.error2[S] = "OK"
          PROVE  Told(h, g, R, a, S)
      <4>1. c = a /\ T = S
        BY <2>0, <3>5
      <4>2. O \cup {c} = R
        BY <1>2, <2>0, <3>5, <4>1
      <4>3. g.tx = FreeTx(h.tx, R)
        BY <1>7, <1>12, <3>3, <4>2
      <4> HIDE DEF e, T, c, O
      <4>4. /\ g.stack = [h.stack EXCEPT ![S] = h.tx[a].from_parent]
            /\ g.error = [h.error EXCEPT ![S] = "FAILED"]
            /\ g.error2 = [h.error2 EXCEPT ![S] = e]
            /\ g.woken = [h.woken EXCEPT ![S] = h.woken[S] \/ mode[S] = "thread"]
        BY <3>3, <4>1
      <4> QED BY <1>1, <4>3, <4>4 DEF ErrorType, Told
    <3>6. ~\A u \in R : X[u].from = NULL
      BY <2>0
    <3>7. g \in HeapSet
      BY <3>3
    <3> HIDE DEF T, c, C, O, e, f
    <3> QED BY <3>5, <3>6, <3>7
  <2> QED BY <2>1, <2>2
<1> QED BY <1>11, <1>12

\* It ends the path of the call, and the caller has room for the error.
LEMMA FailsSound ==
  ASSUME ModeType, NEW h, NEW W, NEW D, HeapSound(h, W, D), NEW d \in D, IsCall(h.tx, d),
         NEW g, g = binder_send_failed_reply(h, d)
  PROVE  HeapSound(g, W, D \ {d}) /\ Kept(h, g, (W \cup D) \ {d})
<1> DEFINE X == h.tx
           st == h.stack
           R == FailedPath(X, d)
           X2 == FreeTx(X, R)
<1>0. /\ h \in HeapSet /\ Sound(X, st, W, D) /\ X \in TxMap /\ st \in StackType /\ W \cap D = {}
      /\ W \subseteq Tx /\ D \subseteq Tx /\ \A S \in Thread : Room(h, S) /\ Awake(h, S)
  BY DEF HeapSound, Sound
<1>e. h.error \in ErrorType /\ h.error2 \in ErrorType /\ h.woken \in [Thread -> BOOLEAN]
  BY <1>0, HeapFields
<1>1. Path(X, st, W, D, d, R)
  BY <1>0 DEF Path
<1> HIDE DEF R
<1>f. /\ d \in Tx /\ d \in R /\ R \subseteq Tx
      /\ \A v \in Tx : X[v].from_parent \in R => v \in R /\ X[v].from = NULL
      /\ \A u \in R \ {d} : u \notin W \cup D
  BY <1>1, PathFacts
<1>2. X2 \in TxMap /\ (\A t \in R : X2[t] = Free) /\ (\A t \in Tx \ R : X2[t] = X[t])
  BY <1>0, <1>f, FreeTxFacts
<1>3. ASSUME NEW st2 \in StackType,
             \A T \in Thread : IF \E c \in R : X[c].from = T THEN st2[T] = X[st[T]].from_parent
                               ELSE st2[T] = st[T]
      PROVE  Ended(X, st, W, D, R, X2, st2, W) /\ Sound(X2, st2, W, D \ {d})
  <2> HIDE DEF X2
  <2>1. Ended(X, st, W, D, R, X2, st2, W)
    BY <1>0, <1>2, <1>3, <1>f, FreeFields DEF Ended, IsCall
  <2> QED BY <1>1, <2>1, PathEnds
<1>4. g \in HeapSet
  BY <1>0, <1>f, FailedReply
<1>5. \A t \in (W \cup D) \ {d} : t \in Tx \ R
  BY <1>0, <1>f
<1>6. CASE \A u \in R : X[u].from = NULL
  <2>1. g = [h EXCEPT !.tx = X2]
    BY <1>0, <1>6, <1>f, FailedReply DEF R
  <2> HIDE DEF X2
  <2>2. /\ g.tx = X2 /\ g.stack = st /\ g.error = h.error /\ g.error2 = h.error2
        /\ g.woken = h.woken
    BY <1>0, <2>1 DEF HeapSet
  <2>3. Ended(X, st, W, D, R, X2, st, W) /\ Sound(X2, st, W, D \ {d})
    BY <1>0, <1>3, <1>6, BinderAssumption
  <2>4. ASSUME NEW S \in Thread PROVE Room(g, S) /\ Awake(g, S)
    <3>1. Room(h, S) /\ Awake(h, S)
      BY <1>0
    <3>2. Awake(g, S)
      BY <2>2, <3>1 DEF Awake
    <3>3. st[S] # NULL => X2[st[S]] = X[st[S]]
      <4> SUFFICES ASSUME st[S] # NULL PROVE X2[st[S]] = X[st[S]]
        OBVIOUS
      <4>1. st[S] \in Tx
        BY <1>0 DEF StackType
      <4>2. st[S] \in On(X2, st, S)
        BY <2>3, <4>1, StackFacts DEF On, Sound
      <4>3. st[S] \notin R
        BY <1>1, <2>3, <4>2, PathStacks
      <4> QED BY <1>2, <4>1, <4>3
    <3> QED BY <2>2, <3>1, <3>2, <3>3 DEF Room
  <2>5. Kept(h, g, (W \cup D) \ {d})
    BY <1>2, <1>5, <2>2 DEF Kept
  <2> QED BY <1>4, <2>2, <2>3, <2>4, <2>5 DEF HeapSound
<1>7. ASSUME NEW c \in R, X[c].from # NULL
      PROVE  HeapSound(g, W, D \ {d}) /\ Kept(h, g, (W \cup D) \ {d})
  <2> DEFINE T == X[c].from
             st2 == [st EXCEPT ![T] = X[c].from_parent]
  <2>1. /\ T \in Thread /\ st[T] = c /\ X[c].to_thread # T
        /\ \A u \in R : X[u].from # NULL => u = c
    BY <1>1, <1>7, PathCaller
  <2>2. c \in Tx /\ c # NULL /\ X[c].from_parent \in Tx \cup {NULL}
    BY <1>0, <1>f, TxFields
  <2>3. h.error2[T] = "OK" /\ mode[T] # "proc"
    BY <1>0, <2>1, <2>2 DEF Room, Awake
  <2>4. /\ g.tx = X2 /\ g.stack = st2
        /\ g.error = [h.error EXCEPT ![T] = "FAILED"]
        /\ \A S \in Thread \ {T} : g.error2[S] = h.error2[S]
        /\ \A S \in Thread : /\ h.woken[S] => g.woken[S]
                             /\ S # T => g.woken[S] = h.woken[S]
        /\ mode[T] = "thread" => g.woken[T]
    <3>1. Told(h, g, R, c, T)
      <4>1. R = FailedPath(h.tx, d) /\ X[c].from = T
        BY DEF R
      <4> HIDE DEF X2, st2, T
      <4> QED BY <1>0, <1>f, <2>1, <2>3, <4>1, FailedReply
    <3> QED BY <3>1 DEF Told
  <2> HIDE DEF X2
  <2>5. st2 \in StackType /\ st2[T] = X[c].from_parent /\ \A S \in Thread \ {T} : st2[S] = st[S]
    BY <1>0, <2>1, <2>2 DEF StackType
  <2>6. T = X[c].from
    OBVIOUS
  <2> HIDE DEF st2, T
  <2>7. Ended(X, st, W, D, R, X2, st2, W) /\ Sound(X2, st2, W, D \ {d})
    <3>1. \A S \in Thread : IF \E a \in R : X[a].from = S THEN st2[S] = X[st[S]].from_parent
                            ELSE st2[S] = st[S]
      BY <2>1, <2>5, <2>6, BinderAssumption
    <3> QED BY <1>3, <2>5, <3>1
  <2>8. ASSUME NEW S \in Thread, S # T PROVE Room(g, S) /\ Awake(g, S)
    <3>1. Room(h, S) /\ Awake(h, S)
      BY <1>0
    <3>0. /\ g.error[S] = h.error[S] /\ g.error2[S] = h.error2[S] /\ g.woken[S] = h.woken[S]
          /\ g.stack[S] = st[S]
      BY <1>e, <2>4, <2>5, <2>8 DEF ErrorType
    <3>2. Awake(g, S)
      BY <3>0, <3>1 DEF Awake
    <3>3. st[S] # NULL => X2[st[S]] = X[st[S]]
      <4> SUFFICES ASSUME st[S] # NULL PROVE X2[st[S]] = X[st[S]]
        OBVIOUS
      <4>1. st[S] \in Tx /\ st2[S] = st[S]
        BY <1>0, <2>5, <2>8 DEF StackType
      <4>2. st[S] \in On(X2, st2, S)
        BY <2>7, <4>1, StackFacts DEF On, Sound
      <4>3. st[S] \notin R
        BY <1>1, <2>7, <4>2, PathStacks
      <4> QED BY <1>2, <4>1, <4>3
    <3> QED BY <2>4, <3>0, <3>1, <3>2, <3>3 DEF Room
  <2>9. Room(g, T) /\ Awake(g, T)
    <3>1. g.error[T] = "FAILED"
      BY <1>e, <2>1, <2>4 DEF ErrorType
    <3>2. Awake(g, T)
      BY <2>1, <2>3, <2>4 DEF Awake, ModeType
    <3> DEFINE n == X[c].from_parent
    <3>3. ASSUME n # NULL PROVE X2[n].to_thread = T
      <4>1. MadeFor(X, c, n, W \cup D)
        BY <1>0, <2>2, <3>3 DEF Sound, Linked
      <4>2. n \in Tx \ R
        BY <1>7, <1>f, <2>2, <3>3
      <4> QED BY <1>2, <2>6, <4>1, <4>2 DEF MadeFor
    <3> QED BY <2>4, <2>5, <3>1, <3>2, <3>3 DEF Room
  <2>10. Kept(h, g, (W \cup D) \ {d})
    BY <1>2, <1>5, <2>4 DEF Kept
  <2> QED BY <1>4, <2>4, <2>7, <2>8, <2>9, <2>10 DEF HeapSound
<1> QED BY <1>6, <1>7

\* A reply or a one-way call is lost.
LEMMA LostSound ==
  ASSUME NEW h, NEW W, NEW D, HeapSound(h, W, D), NEW K \in SUBSET (W \cup D), \A d \in K : ~IsCall(h.tx, d),
         NEW g, g = [h EXCEPT !.tx = FreeTx(h.tx, K)]
  PROVE  HeapSound(g, W \ K, D \ K) /\ Kept(h, g, (W \cup D) \ K)
<1> DEFINE X == h.tx
           st == h.stack
           X2 == FreeTx(X, K)
<1>0. /\ h \in HeapSet /\ Sound(X, st, W, D) /\ X \in TxMap /\ st \in StackType /\ W \cap D = {}
      /\ W \subseteq Tx /\ D \subseteq Tx /\ \A S \in Thread : Room(h, S) /\ Awake(h, S)
      /\ Shaped(X) /\ Waits(X, st, W) /\ Cared(X, W \cup D) /\ Stacked(X, st, W \cup D)
      /\ Backed(X) /\ Ranked(X)
  BY DEF HeapSound, Sound
<1>1. X2 \in TxMap /\ (\A t \in K : X2[t] = Free) /\ (\A t \in Tx \ K : X2[t] = X[t])
  BY <1>0, FreeTxFacts
<1> HIDE DEF X2
<1>2. /\ g.tx = X2 /\ g.stack = st /\ g.error = h.error /\ g.error2 = h.error2
      /\ g.woken = h.woken /\ g \in HeapSet
  BY <1>0, <1>1 DEF HeapSet, X2
<1>3. Plain(X, W, D, X2, W \ K, D \ K)
  <2> SUFFICES ASSUME NEW t \in Tx
      PROVE  IF IsCall(X, t)
             THEN X2[t] = X[t] /\ (t \in W \ K <=> t \in W) /\ (t \in D \ K <=> t \in D)
             ELSE /\ X2[t].kind # "call" /\ X2[t].from = NULL /\ X2[t].from_parent = NULL
                  /\ X2[t].to_parent = NULL
                  /\ X2[t].kind \in {"free", "oneway"} => X2[t].to_thread = NULL
                  /\ t \in W \ K => X2[t].kind # "free"
                  /\ X2[t].kind # "free" => t \in (W \ K) \cup (D \ K)
    BY <1>0, <1>1 DEF Plain
  <2>1. CASE t \in K
    BY <1>1, <2>1, FreeFields
  <2>2. CASE t \notin K
    <3>1. X2[t] = X[t] /\ X[t].kind \in {"free", "call", "oneway", "reply"}
      BY <1>0, <1>1, <2>2, TxFields DEF TxRecord
    <3> QED BY <1>0, <2>2, <3>1 DEF Shaped, Waits, Cared, IsCall
  <2> QED BY <2>1, <2>2
<1>4. Sound(X2, st, W \ K, D \ K)
  BY <1>0, <1>3, PlainChange
<1>5. ASSUME NEW S \in Thread PROVE Room(g, S) /\ Awake(g, S)
  <2>1. Room(h, S) /\ Awake(h, S)
    BY <1>0
  <2>2. Awake(g, S)
    BY <1>2, <2>1 DEF Awake
  <2>3. st[S] # NULL => X2[st[S]] = X[st[S]]
    <3> SUFFICES ASSUME st[S] # NULL PROVE X2[st[S]] = X[st[S]]
      OBVIOUS
    <3>1. st[S] \in Tx
      BY <1>0 DEF StackType
    <3>2. st[S] \in On(X, st, S)
      BY <1>0, <3>1, StackFacts DEF On
    <3>3. IsCall(X, st[S])
      BY <1>0, <3>2 DEF Stacked
    <3> QED BY <1>1, <3>1, <3>3
  <2> QED BY <1>2, <2>1, <2>2, <2>3 DEF Room
<1>6. Kept(h, g, (W \cup D) \ K)
  BY <1>0, <1>1, <1>2 DEF Kept
<1> QED BY <1>2, <1>4, <1>5, <1>6 DEF HeapSound

-----------------------------------------------------------------------------
(* Lists that nobody will read.                                            *)

\* One round of binder_release_work.
ReleaseOne(g, w) ==
  IF w = Complete THEN g
  ELSE IF g.tx[w].kind = "call" THEN binder_send_failed_reply(g, w)
  ELSE [g EXCEPT !.tx[w] = Free]

Work == Tx \cup {Complete}

\* Releasing a work gives a heap.
LEMMA ReleaseOneType ==
  ASSUME NEW g \in HeapSet, NEW w \in Work
  PROVE  ReleaseOne(g, w) \in HeapSet
<1>1. CASE w = Complete
  BY <1>1 DEF ReleaseOne
<1>2. CASE w # Complete /\ g.tx[w].kind = "call"
  <2>1. w \in Tx
    BY <1>2 DEF Work
  <2>2. binder_send_failed_reply(g, w) \in HeapSet
    BY <2>1, FailedReply
  <2> QED BY <1>2, <2>2 DEF ReleaseOne
<1>3. CASE w # Complete /\ g.tx[w].kind # "call"
  <2>1. ReleaseOne(g, w) = [g EXCEPT !.tx[w] = Free]
    BY <1>3 DEF ReleaseOne
  <2>2. w \in Tx /\ g.tx \in TxMap
    BY <1>3, HeapFields DEF Work
  <2>3. [g.tx EXCEPT ![w] = Free] \in TxMap
    BY <2>2 DEF TxMap, TxRecord, Free
  <2> QED BY <2>1, <2>3 DEF HeapSet
<1> QED BY <1>1, <1>2, <1>3

\* binder_release_work is a loop.
LEMMA ReleaseIsLoop ==
  ASSUME NEW h \in HeapSet, NEW list \in Seq(Work)
  PROVE  \E g : /\ g \in [0 .. Len(list) -> HeapSet] /\ g[0] = h
                /\ \A i \in 1 .. Len(list) : g[i] = ReleaseOne(g[i - 1], list[i])
                /\ binder_release_work(h, list) = g[Len(list)]
<1> DEFINE n == Len(list)
           R(g) == [i \in 0 .. n |-> IF i = 0 THEN h ELSE ReleaseOne(g[i - 1], list[i])]
           step == [i \in 1 .. n |-> [a \in HeapSet |-> ReleaseOne(a, list[i])]]
           release == CHOOSE g : g = R(g)
<1>1. n \in Nat /\ \A i \in 1 .. n : list[i] \in Work
  OBVIOUS
<1>2. binder_release_work(h, list) = release[n]
  BY DEF binder_release_work, ReleaseOne
<1> HIDE DEF n
<1>3. step \in [1 .. n -> [HeapSet -> HeapSet]]
  BY <1>1, ReleaseOneType
<1>4. PICK g : IsLoop(g, HeapSet, h, n, step)
  <2> HIDE DEF step
  <2> QED BY <1>1, <1>3, LoopExists
<1>5. g \in [0 .. n -> HeapSet] /\ g[0] = h /\ \A i \in 1 .. n : g[i] = ReleaseOne(g[i - 1], list[i])
  <2>1. g \in [0 .. n -> HeapSet] /\ g[0] = h /\ \A i \in 1 .. n : g[i] = step[i][g[i - 1]]
    BY <1>4 DEF IsLoop
  <2>2. \A i \in 1 .. n : i - 1 \in 0 .. n
    BY <1>1
  <2> QED BY <2>1, <2>2
<1>6. g = R(g)
  BY <1>1, <1>5
<1>7. release = R(release)
  BY <1>6
<1>8. \A i \in 0 .. n : i \in {j \in 0 .. n : release[j] = g[j]}
  <2> DEFINE S == {j \in 0 .. n : release[j] = g[j]}
  <2> HIDE DEF release
  <2>1. 0 \in S
    BY <1>1, <1>5, <1>7
  <2>2. ASSUME NEW i \in 1 .. n, i - 1 \in S PROVE i \in S
    <3>1. i \in 0 .. n /\ i # 0
      BY <1>1
    <3>2. release[i] = ReleaseOne(release[i - 1], list[i])
      BY <1>7, <3>1
    <3> QED BY <1>5, <2>2, <3>1, <3>2
  <2> HIDE DEF S
  <2>3. \A i \in 0 .. n : i \in S
    BY <1>1, <2>1, <2>2, UpTo
  <2> QED BY <2>3 DEF S
<1>9. binder_release_work(h, list) = g[n]
  BY <1>1, <1>2, <1>8
<1> QED BY <1>5, <1>9 DEF n

\* No transaction is in a list twice.
Once(list) ==
  \A i, j \in 1 .. Len(list) : i # j /\ list[i] = list[j] => list[i] = Complete

\* The transactions of a list.
TxOf(list) == {list[i] : i \in 1 .. Len(list)} \ {Complete}

\* Whoever waits for one of them is told.
LEMMA ReleaseSound ==
  ASSUME ModeType, NEW h, NEW W, NEW D, HeapSound(h, W, D), NEW list \in Seq(Work), Once(list),
         TxOf(list) \subseteq D, NEW f, f = binder_release_work(h, list)
  PROVE  HeapSound(f, W, D \ TxOf(list)) /\ Kept(h, f, W \cup (D \ TxOf(list)))
<1> DEFINE n == Len(list)
           E(i) == D \ ({list[j] : j \in 1 .. i} \ {Complete})
<1>0. n \in Nat /\ (\A i \in 1 .. n : list[i] \in Work) /\ h \in HeapSet /\ D \subseteq Tx /\ W \subseteq Tx
      /\ W \cap D = {}
  BY DEF HeapSound, Sound
<1>1. PICK g : /\ g \in [0 .. n -> HeapSet] /\ g[0] = h
               /\ \A i \in 1 .. n : g[i] = ReleaseOne(g[i - 1], list[i])
               /\ f = g[n]
  BY <1>0, ReleaseIsLoop
<1> DEFINE S == {i \in 0 .. n : HeapSound(g[i], W, E(i)) /\ Kept(h, g[i], W \cup E(i))}
<1>2. 0 \in S
  <2>1. E(0) = D
    OBVIOUS
  <2>2. Kept(h, h, W \cup D)
    BY DEF Kept
  <2> HIDE DEF E, n
  <2>3. HeapSound(g[0], W, E(0)) /\ Kept(h, g[0], W \cup E(0))
    BY <1>1, <2>1, <2>2
  <2>4. 0 \in 0 .. n
    BY <1>0
  <2> QED BY <2>3, <2>4
<1>3. ASSUME NEW i \in 1 .. n, i - 1 \in S PROVE i \in S
  <2> DEFINE a == g[i - 1]
             w == list[i]
  <2>1. g[i] = ReleaseOne(a, w) /\ w \in Work /\ i \in 0 .. n
    BY <1>0, <1>1
  <2>2. HeapSound(a, W, E(i - 1)) /\ Kept(h, a, W \cup E(i - 1))
    BY <1>3
  <2>3. E(i) = E(i - 1) \ ({w} \ {Complete})
    <3>1. 1 .. i = (1 .. i - 1) \cup {i}
      BY <1>0
    <3> QED BY <3>1
  <2>4. HeapSound(g[i], W, E(i)) /\ Kept(a, g[i], W \cup E(i))
    <3>1. CASE w = Complete
      <4>1. g[i] = a /\ E(i) = E(i - 1)
        BY <2>1, <2>3, <3>1 DEF ReleaseOne
      <4> HIDE DEF E, a, w
      <4>2. Kept(a, a, W \cup E(i - 1))
        BY DEF Kept
      <4> QED BY <2>2, <4>1, <4>2
    <3>2. CASE w # Complete
      <4>1. w \in E(i - 1) /\ w \notin W /\ w \in Tx
        <5>1. w \in TxOf(list)
          BY <3>2 DEF TxOf
        <5>2. \A j \in 1 .. i - 1 : list[j] # w
          BY <1>0, <3>2 DEF Once
        <5> QED BY <1>0, <5>1, <5>2
      <4>2. E(i) = E(i - 1) \ {w} /\ W \cup E(i) = (W \cup E(i - 1)) \ {w}
        BY <2>3, <3>2, <4>1
      <4> DEFINE P == E(i - 1)
                 Q == E(i)
      <4>3. /\ HeapSound(a, W, P) /\ w \in P /\ Q = P \ {w} /\ W \cup Q = (W \cup P) \ {w} /\ W \ {w} = W
        BY <2>2, <4>1, <4>2
      <4> HIDE DEF E, a, w, P, Q
      <4>4. CASE IsCall(a.tx, w)
        <5>1. g[i] = binder_send_failed_reply(a, w)
          BY <2>1, <3>2, <4>4 DEF ReleaseOne, IsCall
        <5>2. HeapSound(g[i], W, P \ {w}) /\ Kept(a, g[i], (W \cup P) \ {w})
          BY <4>3, <4>4, <5>1, FailsSound
        <5> QED BY <4>3, <5>2 DEF Q
      <4>5. CASE ~IsCall(a.tx, w)
        <5>1. g[i] = [a EXCEPT !.tx[w] = Free]
          BY <2>1, <3>2, <4>5 DEF ReleaseOne, IsCall
        <5>2. a \in HeapSet
          BY <4>3 DEF HeapSound
        <5>3. [a.tx EXCEPT ![w] = Free] = FreeTx(a.tx, {w})
          BY <4>1, <5>2, HeapFields DEF FreeTx, TxMap
        <5>4. g[i] = [a EXCEPT !.tx = FreeTx(a.tx, {w})]
          BY <5>1, <5>3
        <5> DEFINE K == {w}
        <5>5. K \in SUBSET (W \cup P) /\ \A d \in K : ~IsCall(a.tx, d)
          BY <4>3, <4>5
        <5>6. HeapSound(g[i], W \ K, P \ K) /\ Kept(a, g[i], (W \cup P) \ K)
          <6> HIDE DEF K
          <6> QED BY <4>3, <5>4, <5>5, LostSound DEF K
        <5> QED BY <4>3, <5>6 DEF Q
      <4> QED BY <4>4, <4>5
    <3> QED BY <3>1, <3>2
  <2>5. W \cup E(i) \subseteq W \cup E(i - 1)
    BY <2>3
  <2> HIDE DEF E, a
  <2>6. Kept(h, g[i], W \cup E(i))
    BY <2>2, <2>4, <2>5, KeptTrans
  <2> QED BY <2>1, <2>4, <2>6
<1>4. n \in S
  <2> HIDE DEF S, n
  <2>1. \A i \in 0 .. n : i \in S
    BY <1>0, <1>2, <1>3, UpTo
  <2> QED BY <1>0, <2>1
<1>5. E(n) = D \ TxOf(list)
  BY DEF TxOf
<1> HIDE DEF E
<1> QED BY <1>1, <1>4, <1>5

-----------------------------------------------------------------------------
(* The end of a thread.                                                    *)

\* binder_free_thread up to the first failed reply.
CutHeap(h, T) ==
  [h EXCEPT !.stack[T] = NULL, !.error[T] = "OK", !.error2[T] = "OK",
            !.tx = CutTx(h.tx, h.stack, T)]

\* The heap after a thread has been taken out of it.
LEMMA CutHeapFacts ==
  ASSUME NEW h \in HeapSet, NEW T \in Thread, NEW g, g = CutHeap(h, T)
  PROVE  /\ g \in HeapSet
         /\ g.tx = CutTx(h.tx, h.stack, T) /\ g.stack = [h.stack EXCEPT ![T] = NULL]
         /\ g.error = [h.error EXCEPT ![T] = "OK"] /\ g.error2 = [h.error2 EXCEPT ![T] = "OK"]
         /\ g.woken = h.woken
<1>1. /\ h.tx \in TxMap /\ h.stack \in StackType /\ h.error \in ErrorType /\ h.error2 \in ErrorType
  BY HeapFields
<1> DEFINE Y == CutTx(h.tx, h.stack, T)
<1>2. Y \in TxMap
  <2>1. \A u \in Tx : h.tx[u] \in TxRecord
    BY <1>1, TxFields
  <2>2. \A u \in Tx : Y[u] \in TxRecord
    BY <2>1 DEF CutTx, TxRecord
  <2> QED BY <2>2 DEF CutTx, TxMap
<1>3. /\ [h.stack EXCEPT ![T] = NULL] \in StackType
      /\ [h.error EXCEPT ![T] = "OK"] \in ErrorType /\ [h.error2 EXCEPT ![T] = "OK"] \in ErrorType
  BY <1>1 DEF StackType, ErrorType
<1>4. g = [h EXCEPT !.stack[T] = NULL, !.error[T] = "OK", !.error2[T] = "OK", !.tx = Y]
  BY DEF CutHeap
<1> HIDE DEF Y
<1>5. /\ g.tx = Y /\ g.stack = [h.stack EXCEPT ![T] = NULL]
      /\ g.error = [h.error EXCEPT ![T] = "OK"] /\ g.error2 = [h.error2 EXCEPT ![T] = "OK"]
      /\ g.woken = h.woken
  BY <1>4 DEF HeapSet
<1>6. g \in HeapSet
  BY <1>2, <1>3, <1>4, <1>5 DEF HeapSet
<1> QED BY <1>5, <1>6 DEF Y

\* binder_free_thread, in terms of its steps.
LEMMA FreeThreadSteps ==
  ASSUME NEW h, NEW T
  PROVE  binder_free_thread(h, T) =
           binder_release_work(IF h.stack[T] # NULL /\ h.tx[h.stack[T]].to_thread = T
                               THEN binder_send_failed_reply(CutHeap(h, T), h.stack[T])
                               ELSE CutHeap(h, T), todo[T])
BY DEF binder_free_thread, CutHeap, CutTx, On

\* Freeing a thread gives a heap.
LEMMA FreeThreadType ==
  ASSUME NEW h \in HeapSet, NEW T \in Thread, todo[T] \in Seq(Work)
  PROVE  binder_free_thread(h, T) \in HeapSet
<1> DEFINE g == CutHeap(h, T)
           k == IF h.stack[T] # NULL /\ h.tx[h.stack[T]].to_thread = T
                THEN binder_send_failed_reply(g, h.stack[T]) ELSE g
           list == todo[T]
<1>1. g \in HeapSet
  BY CutHeapFacts
<1>2. h.stack[T] # NULL => h.stack[T] \in Tx
  BY HeapFields DEF StackType
<1> HIDE DEF g
<1>3. k \in HeapSet
  BY <1>1, <1>2, FailedReply
<1>4. binder_free_thread(h, T) = binder_release_work(k, list)
  BY FreeThreadSteps DEF g
<1>5. list \in Seq(Work) /\ Len(list) \in Nat
  OBVIOUS
<1> HIDE DEF k, list
<1>6. PICK a : a \in [0 .. Len(list) -> HeapSet] /\ binder_release_work(k, list) = a[Len(list)]
  BY <1>3, <1>5, ReleaseIsLoop
<1>7. Len(list) \in 0 .. Len(list)
  BY <1>5
<1> QED BY <1>4, <1>6, <1>7

\* The calls the thread has sent stay without a sender; whoever waits for it is told.
LEMMA FreeThreadSound ==
  ASSUME ModeType, NEW h, NEW W, NEW D, HeapSound(h, W, D), NEW T \in Thread,
         todo[T] \in Seq(Work), Once(todo[T]), TxOf(todo[T]) \subseteq D,
         \A w \in W : IsCall(h.tx, w) => h.tx[w].to_thread # T,
         \A w \in D : IsCall(h.tx, w) => h.tx[w].to_parent = NULL,
         NEW f, f = binder_free_thread(h, T)
  PROVE  HeapSound(f, W, D \ TxOf(todo[T])) /\ Kept(h, f, W \cup (D \ TxOf(todo[T])))
<1> DEFINE X == h.tx
           st == h.stack
           g == CutHeap(h, T)
           top == st[T]
           k == IF top # NULL /\ X[top].to_thread = T THEN binder_send_failed_reply(g, top) ELSE g
           list == todo[T]
<1>0. /\ h \in HeapSet /\ Sound(X, st, W, D) /\ X \in TxMap /\ st \in StackType /\ W \cap D = {}
      /\ W \subseteq Tx /\ D \subseteq Tx /\ \A S \in Thread : Room(h, S) /\ Awake(h, S)
  BY DEF HeapSound, Sound
<1>e. h.error \in ErrorType /\ h.error2 \in ErrorType
  BY <1>0, HeapFields
<1>1. /\ g \in HeapSet
      /\ g.tx = CutTx(X, st, T) /\ g.stack = [st EXCEPT ![T] = NULL]
      /\ g.error = [h.error EXCEPT ![T] = "OK"] /\ g.error2 = [h.error2 EXCEPT ![T] = "OK"]
      /\ g.woken = h.woken
  BY <1>0, CutHeapFacts
<1> HIDE DEF g
<1>2. Sound(g.tx, g.stack, W, D \cup Left(X, st, T))
  BY <1>0, <1>1, ThreadCut
<1>3. \A t \in Tx : /\ g.tx[t].kind = X[t].kind /\ g.tx[t].to_parent = X[t].to_parent
                    /\ g.tx[t].node = X[t].node
                    /\ g.tx[t].to_thread = IF X[t].to_thread = T /\ IsCall(X, t) /\ t \notin W \cup D
                                           THEN NULL ELSE X[t].to_thread
  BY <1>0, <1>1, CutFacts
<1>4. Kept(h, g, W \cup D)
  BY <1>0, <1>1, <1>3 DEF Kept
<1>5. ASSUME NEW S \in Thread PROVE Room(g, S) /\ Awake(g, S)
  <2>1. CASE S = T
    <3>1. g.stack[T] = NULL /\ g.error[T] = "OK" /\ g.error2[T] = "OK"
      BY <1>0, <1>1, <1>e DEF StackType, ErrorType
    <3> QED BY <2>1, <3>1 DEF Room, Awake
  <2>2. CASE S # T
    <3>1. /\ g.stack[S] = st[S] /\ g.error[S] = h.error[S] /\ g.error2[S] = h.error2[S]
          /\ g.woken[S] = h.woken[S]
      BY <1>0, <1>1, <1>e, <2>2 DEF StackType, ErrorType
    <3>2. Room(h, S) /\ Awake(h, S)
      BY <1>0
    <3>3. st[S] # NULL /\ X[st[S]].to_thread = S => g.tx[st[S]].to_thread = S
      <4>1. st[S] \in Tx \cup {NULL}
        BY <1>0 DEF StackType
      <4> QED BY <1>3, <2>2, <4>1
    <3> QED BY <3>1, <3>2, <3>3 DEF Room, Awake
  <2> QED BY <2>1, <2>2
<1>6. HeapSound(g, W, D \cup Left(X, st, T))
  BY <1>1, <1>2, <1>5 DEF HeapSound
<1>7. HeapSound(k, W, D) /\ Kept(h, k, W \cup D)
  <2>1. CASE top # NULL /\ X[top].to_thread = T
    <3>1. Left(X, st, T) = {top} /\ k = binder_send_failed_reply(g, top)
      BY <2>1 DEF Left
    <3>2. top \in Tx /\ top \notin W \cup D /\ IsCall(X, top)
      BY <1>0, <2>1, HandledTop
    <3>3. IsCall(g.tx, top)
      BY <1>3, <3>2 DEF IsCall
    <3> DEFINE E == D \cup {top}
    <3>4. HeapSound(g, W, E) /\ top \in E /\ E \ {top} = D /\ (W \cup E) \ {top} = W \cup D
      BY <1>6, <3>1, <3>2
    <3> HIDE DEF E, top, k
    <3>5. HeapSound(k, W, E \ {top}) /\ Kept(g, k, (W \cup E) \ {top})
      BY <3>1, <3>3, <3>4, FailsSound
    <3>6. Kept(g, k, W \cup D) /\ HeapSound(k, W, D)
      BY <3>4, <3>5
    <3> QED BY <1>4, <3>6, KeptTrans
  <2>2. CASE ~(top # NULL /\ X[top].to_thread = T)
    <3>1. Left(X, st, T) = {} /\ k = g
      BY <2>2 DEF Left
    <3>2. D \cup {} = D
      OBVIOUS
    <3> QED BY <1>4, <1>6, <3>1, <3>2
  <2> QED BY <2>1, <2>2
<1>8. f = binder_release_work(k, list)
  BY FreeThreadSteps DEF g
<1>9. list \in Seq(Work) /\ Once(list) /\ TxOf(list) \subseteq D
  OBVIOUS
<1> HIDE DEF k, list
<1>10. HeapSound(f, W, D \ TxOf(list)) /\ Kept(k, f, W \cup (D \ TxOf(list)))
  BY <1>7, <1>8, <1>9, ReleaseSound
<1>11. W \cup (D \ TxOf(list)) \subseteq W \cup D
  OBVIOUS
<1>12. Kept(h, f, W \cup (D \ TxOf(list)))
  BY <1>7, <1>10, <1>11, KeptTrans
<1> QED BY <1>10, <1>12 DEF list

-----------------------------------------------------------------------------
(* The end of a process.                                                   *)

\* FreeThreads is a loop.
LEMMA ThreadsIsLoop ==
  ASSUME NEW h \in HeapSet, NEW own \in Seq(Thread), \A T \in Thread : todo[T] \in Seq(Work)
  PROVE  \E g : /\ g \in [0 .. Len(own) -> HeapSet] /\ g[0] = h
                /\ \A i \in 1 .. Len(own) : g[i] = binder_free_thread(g[i - 1], own[i])
                /\ FreeThreads(h, own) = g[Len(own)]
<1> DEFINE n == Len(own)
           R(g) == [i \in 0 .. n |-> IF i = 0 THEN h ELSE binder_free_thread(g[i - 1], own[i])]
           step == [i \in 1 .. n |-> [a \in HeapSet |-> binder_free_thread(a, own[i])]]
           free == CHOOSE g : g = R(g)
<1>1. n \in Nat /\ \A i \in 1 .. n : own[i] \in Thread
  OBVIOUS
<1>2. FreeThreads(h, own) = free[n]
  BY DEF FreeThreads
<1> HIDE DEF n
<1>3. step \in [1 .. n -> [HeapSet -> HeapSet]]
  BY <1>1, FreeThreadType
<1>4. PICK g : IsLoop(g, HeapSet, h, n, step)
  <2> HIDE DEF step
  <2> QED BY <1>1, <1>3, LoopExists
<1>5. g \in [0 .. n -> HeapSet] /\ g[0] = h /\ \A i \in 1 .. n : g[i] = binder_free_thread(g[i - 1], own[i])
  <2>1. g \in [0 .. n -> HeapSet] /\ g[0] = h /\ \A i \in 1 .. n : g[i] = step[i][g[i - 1]]
    BY <1>4 DEF IsLoop
  <2>2. \A i \in 1 .. n : i - 1 \in 0 .. n
    BY <1>1
  <2> QED BY <2>1, <2>2
<1>6. g = R(g)
  BY <1>1, <1>5
<1>7. free = R(free)
  BY <1>6
<1>8. \A i \in 0 .. n : i \in {j \in 0 .. n : free[j] = g[j]}
  <2> DEFINE S == {j \in 0 .. n : free[j] = g[j]}
  <2> HIDE DEF free
  <2>1. 0 \in S
    BY <1>1, <1>5, <1>7
  <2>2. ASSUME NEW i \in 1 .. n, i - 1 \in S PROVE i \in S
    <3>1. i \in 0 .. n /\ i # 0
      BY <1>1
    <3>2. free[i] = binder_free_thread(free[i - 1], own[i])
      BY <1>7, <3>1
    <3> QED BY <1>5, <2>2, <3>1, <3>2
  <2> HIDE DEF S
  <2>3. \A i \in 0 .. n : i \in S
    BY <1>1, <2>1, <2>2, UpTo
  <2> QED BY <2>3 DEF S
<1>9. FreeThreads(h, own) = g[n]
  BY <1>1, <1>2, <1>8
<1> QED BY <1>5, <1>9 DEF n

\* The lists of the first n threads.
ListsOf(own, n) == UNION {TxOf(todo[own[j]]) : j \in 1 .. n}

\* The threads of a process are freed one after the other, in any order: every failed reply among
\* them finds a sound heap.
LEMMA ThreadsSound ==
  ASSUME ModeType, NEW h, NEW W, NEW D, HeapSound(h, W, D), NEW own \in Seq(Thread),
         \A i, j \in 1 .. Len(own) : own[i] = own[j] => i = j,
         \A T \in Thread : todo[T] \in Seq(Work) /\ Once(todo[T]),
         \A T, S \in Thread : T # S => TxOf(todo[T]) \cap TxOf(todo[S]) = {},
         ListsOf(own, Len(own)) \subseteq D,
         \A w \in W : IsCall(h.tx, w) => \A i \in 1 .. Len(own) : h.tx[w].to_thread # own[i],
         \A w \in D : IsCall(h.tx, w) => h.tx[w].to_parent = NULL,
         NEW f, f = FreeThreads(h, own)
  PROVE  HeapSound(f, W, D \ ListsOf(own, Len(own))) /\ Kept(h, f, W \cup (D \ ListsOf(own, Len(own))))
<1> DEFINE n == Len(own)
           E(i) == D \ ListsOf(own, i)
<1>0. n \in Nat /\ (\A i \in 1 .. n : own[i] \in Thread) /\ h \in HeapSet
  BY DEF HeapSound
<1>1. PICK g : /\ g \in [0 .. n -> HeapSet] /\ g[0] = h
               /\ \A i \in 1 .. n : g[i] = binder_free_thread(g[i - 1], own[i])
               /\ f = g[n]
  BY <1>0, ThreadsIsLoop
<1> DEFINE S == {i \in 0 .. n : HeapSound(g[i], W, E(i)) /\ Kept(h, g[i], W \cup E(i))}
<1>2. 0 \in S
  <2>1. E(0) = D
    BY DEF ListsOf
  <2>2. Kept(h, h, W \cup D)
    BY DEF Kept
  <2> HIDE DEF E, n
  <2>3. HeapSound(g[0], W, E(0)) /\ Kept(h, g[0], W \cup E(0))
    BY <1>1, <2>1, <2>2
  <2>4. 0 \in 0 .. n
    BY <1>0
  <2> QED BY <2>3, <2>4
<1>3. ASSUME NEW i \in 1 .. n, i - 1 \in S PROVE i \in S
  <2> DEFINE a == g[i - 1]
             T == own[i]
             P == E(i - 1)
             Q == E(i)
  <2>1. g[i] = binder_free_thread(a, T) /\ T \in Thread /\ i \in 0 .. n
    BY <1>0, <1>1
  <2>2. HeapSound(a, W, P) /\ Kept(h, a, W \cup P)
    BY <1>3
  <2>3. Q = P \ TxOf(todo[T]) /\ P \subseteq D
    <3>1. 1 .. i = (1 .. i - 1) \cup {i}
      BY <1>0
    <3> QED BY <3>1 DEF ListsOf
  <2>4. TxOf(todo[T]) \subseteq P
    <3>1. ASSUME NEW x \in TxOf(todo[T]) PROVE x \in D
      BY <1>0, <3>1 DEF ListsOf
    <3>2. ASSUME NEW x \in TxOf(todo[T]), x \in ListsOf(own, i - 1) PROVE FALSE
      <4>1. PICK j \in 1 .. i - 1 : x \in TxOf(todo[own[j]])
        BY <3>2 DEF ListsOf
      <4>2. j \in 1 .. n /\ j # i
        BY <1>0
      <4>3. own[j] # T /\ own[j] \in Thread
        BY <1>0, <4>2
      <4> QED BY <2>1, <3>2, <4>1, <4>3
    <3> QED BY <3>1, <3>2
  <2> HIDE DEF E, P, Q, a
  <2>5. \A w \in W : IsCall(a.tx, w) => a.tx[w].to_thread # T
    BY <2>2 DEF Kept, IsCall
  <2>6. \A w \in P : IsCall(a.tx, w) => a.tx[w].to_parent = NULL
    BY <2>2, <2>3 DEF Kept, IsCall
  <2>7. todo[T] \in Seq(Work) /\ Once(todo[T])
    BY <2>1
  <2> HIDE DEF T
  <2>8. HeapSound(g[i], W, P \ TxOf(todo[T])) /\ Kept(a, g[i], W \cup (P \ TxOf(todo[T])))
    BY <2>1, <2>2, <2>4, <2>5, <2>6, <2>7, FreeThreadSound
  <2>9. HeapSound(g[i], W, Q) /\ Kept(a, g[i], W \cup Q)
    BY <2>3, <2>8
  <2>10. W \cup Q \subseteq W \cup P
    BY <2>3
  <2>11. Kept(h, g[i], W \cup Q)
    BY <2>2, <2>9, <2>10, KeptTrans
  <2> QED BY <2>1, <2>9, <2>11 DEF Q
<1>4. n \in S
  <2> HIDE DEF S, n
  <2>1. \A i \in 0 .. n : i \in S
    BY <1>0, <1>2, <1>3, UpTo
  <2> QED BY <1>0, <2>1
<1> HIDE DEF E
<1>5. HeapSound(f, W, E(n)) /\ Kept(h, f, W \cup E(n))
  BY <1>1, <1>4
<1> QED BY <1>5 DEF E

-----------------------------------------------------------------------------
(* Lists of works.                                                         *)

\* A work is added.
LEMMA AppendList ==
  ASSUME NEW list \in Seq(Work), Once(list), NEW x \in Work, x \notin TxOf(list),
         NEW new, new = Append(list, x)
  PROVE  /\ new \in Seq(Work) /\ Once(new) /\ new # <<>>
         /\ TxOf(new) = TxOf(list) \cup ({x} \ {Complete})
<1> DEFINE n == Len(list)
<1>1. /\ n \in Nat /\ new \in Seq(Work) /\ Len(new) = n + 1 /\ new[n + 1] = x
      /\ \A i \in 1 .. n : new[i] = list[i]
  OBVIOUS
<1>2. 1 .. Len(new) = (1 .. n) \cup {n + 1}
  BY <1>1
<1>3. Once(new)
  <2> SUFFICES ASSUME NEW i \in 1 .. Len(new), NEW j \in 1 .. Len(new), i # j, new[i] = new[j],
                      new[i] # Complete
               PROVE  FALSE
    BY DEF Once
  <2> HIDE DEF n
  <2>1. ASSUME NEW k \in 1 .. n, new[k] # Complete PROVE new[k] \in TxOf(list)
    BY <1>1, <2>1 DEF TxOf, n
  <2>2. CASE i \in 1 .. n /\ j \in 1 .. n
    BY <1>1, <2>2 DEF Once, n
  <2>3. CASE i = n + 1
    BY <1>1, <1>2, <2>1, <2>3
  <2>4. CASE j = n + 1
    BY <1>1, <1>2, <2>1, <2>4
  <2> QED BY <1>2, <2>2, <2>3, <2>4
<1>4. TxOf(new) = TxOf(list) \cup ({x} \ {Complete})
  <2> HIDE DEF n
  <2>1. {new[i] : i \in 1 .. Len(new)} = {list[i] : i \in 1 .. n} \cup {x}
    BY <1>1, <1>2
  <2> QED BY <2>1 DEF TxOf, n
<1> QED BY <1>1, <1>3, <1>4

\* The works up to the first transaction are taken out.
LEMMA RestOfList ==
  ASSUME NEW list \in Seq(Work), Once(list), NEW i \in 1 .. Len(list), list[i] # Complete,
         \A j \in 1 .. i - 1 : list[j] = Complete,
         NEW new, new \in Seq(Work), Len(new) = Len(list) - i,
         \A j \in 1 .. Len(new) : new[j] = list[i + j]
  PROVE  /\ Once(new) /\ TxOf(new) = TxOf(list) \ {list[i]} /\ list[i] \in TxOf(list)
<1> DEFINE n == Len(list)
           m == Len(new)
<1>1. n \in Nat /\ m \in Nat /\ m = n - i /\ \A j \in 1 .. m : i + j \in 1 .. n /\ new[j] = list[i + j]
  OBVIOUS
<1>2. list[i] \in TxOf(list)
  BY DEF TxOf
<1>3. Once(new)
  <2> SUFFICES ASSUME NEW k \in 1 .. m, NEW j \in 1 .. m, k # j, new[k] = new[j] PROVE new[k] = Complete
    BY DEF Once
  <2>1. i + k \in 1 .. n /\ i + j \in 1 .. n /\ i + k # i + j
    BY <1>1
  <2> QED BY <1>1, <2>1 DEF Once
<1>4. ASSUME NEW x \in TxOf(new) PROVE x \in TxOf(list) /\ x # list[i]
  <2>1. PICK j \in 1 .. m : x = new[j] /\ x # Complete
    BY <1>4 DEF TxOf
  <2>2. i + j \in 1 .. n /\ x = list[i + j] /\ i + j # i
    BY <1>1, <2>1
  <2> QED BY <2>1, <2>2 DEF TxOf, Once
<1>5. ASSUME NEW x \in TxOf(list), x # list[i] PROVE x \in TxOf(new)
  <2>1. PICK k \in 1 .. n : x = list[k] /\ x # Complete
    BY <1>5 DEF TxOf
  <2>2. k > i
    BY <1>5, <2>1
  <2>3. k - i \in 1 .. m /\ i + (k - i) = k
    BY <1>1, <2>2
  <2>4. new[k - i] = x
    BY <1>1, <2>1, <2>3
  <2> QED BY <2>1, <2>3, <2>4 DEF TxOf
<1> QED BY <1>2, <1>3, <1>4, <1>5

\* The first one is taken out.
LEMMA TailList ==
  ASSUME NEW list \in Seq(Work), Once(list), list # <<>>, Head(list) # Complete
  PROVE  /\ Tail(list) \in Seq(Work) /\ Once(Tail(list)) /\ Head(list) \in TxOf(list)
         /\ TxOf(Tail(list)) = TxOf(list) \ {Head(list)}
<1> DEFINE new == Tail(list)
           one == 1
<1>1. /\ one \in 1 .. Len(list) /\ list[one] = Head(list) /\ new \in Seq(Work)
      /\ Len(new) = Len(list) - one /\ \A j \in 1 .. Len(new) : new[j] = list[one + j]
      /\ \A j \in 1 .. one - 1 : list[j] = Complete
  OBVIOUS
<1> HIDE DEF new, one
<1>2. Once(new) /\ TxOf(new) = TxOf(list) \ {list[one]} /\ list[one] \in TxOf(list)
  BY <1>1, RestOfList
<1> QED BY <1>1, <1>2 DEF new

\* A list without works.
LEMMA EmptyList ==
  Once(<<>>) /\ TxOf(<<>>) = {} /\ <<>> \in Seq(Work)
<1>1. Len(<<>>) = 0 /\ <<>> \in Seq(Work)
  OBVIOUS
<1>2. 1 .. 0 = {}
  OBVIOUS
<1> QED BY <1>1, <1>2 DEF Once, TxOf

\* What is in a list.
LEMMA InList ==
  ASSUME NEW list \in Seq(Work)
  PROVE  /\ TxOf(list) \subseteq Tx
         /\ \A t \in Tx : t \in ToSet(list) <=> t \in TxOf(list)
BY BinderAssumption DEF TxOf, ToSet, Work

-----------------------------------------------------------------------------
(* The invariant.                                                          *)

\* The transactions in each list.
InTodo(T) == TxOf(todo[T])
InProc(p) == TxOf(proc_todo[p])
InAsync(p) == TxOf(async_todo[p])

QueuedTx == {t \in Tx : Queued(t)}

\* No list has a transaction twice.
ListsOnce ==
  /\ \A T \in Thread : Once(todo[T])
  /\ \A p \in Proc : Once(proc_todo[p]) /\ Once(async_todo[p])

\* What is in the list of a thread is for that thread, or a one-way call of the node of its process;
\* in the list of a process are calls no thread waits for, and one-way calls of its node.
SuitsThread(t, T) ==
  IF tx[t].kind = "oneway" THEN tx[t].node = ProcOf[T]
  ELSE tx[t].kind \in {"call", "reply"} /\ tx[t].to_thread = T
SuitsProc(t, p) ==
  tx[t].kind \in {"call", "oneway"} /\ tx[t].node = p /\ tx[t].to_thread = NULL
SuitsNode(t, p) == tx[t].kind = "oneway" /\ tx[t].node = p

Suited ==
  /\ \A T \in Thread : \A t \in InTodo(T) : SuitsThread(t, T)
  /\ \A p \in Proc : \A t \in InProc(p) : SuitsProc(t, p)
  /\ \A p \in Proc : \A t \in InAsync(p) : SuitsNode(t, p)

\* No transaction is in two lists.
Apart ==
  /\ \A T, S \in Thread : T # S => InTodo(T) \cap InTodo(S) = {}
  /\ \A T \in Thread, p \in Proc : InTodo(T) \cap (InProc(p) \cup InAsync(p)) = {}
  /\ \A p \in Proc, q \in Proc : InProc(p) \cap InAsync(q) = {}

\* The inductive invariant.
BinderInv ==
  /\ BinderTypeOK /\ HeapSound(Heap, QueuedTx, {})
  /\ ListsOnce /\ Suited /\ Apart
  /\ WakeupsNotLost /\ OneWayInTurn

\* What is queued.
LEMMA QueuedFacts ==
  ASSUME NEW a \in [Thread -> Seq(Work)], NEW b \in [Proc -> Seq(Tx)], NEW c \in [Proc -> Seq(Tx)]
  PROVE  /\ \A T \in Thread : a[T] \in Seq(Work) /\ TxOf(a[T]) \subseteq Tx
         /\ \A p \in Proc : /\ b[p] \in Seq(Work) /\ c[p] \in Seq(Work)
                            /\ TxOf(b[p]) \subseteq Tx /\ TxOf(c[p]) \subseteq Tx
         /\ \A T \in Thread, t \in Tx : t \in ToSet(a[T]) <=> t \in TxOf(a[T])
         /\ \A p \in Proc, t \in Tx : /\ t \in ToSet(b[p]) <=> t \in TxOf(b[p])
                                      /\ t \in ToSet(c[p]) <=> t \in TxOf(c[p])
<1>1. \A s \in Seq(Tx) : s \in Seq(Work)
  BY DEF Work
<1>2. /\ \A T \in Thread : a[T] \in Seq(Work)
      /\ \A p \in Proc : b[p] \in Seq(Work) /\ c[p] \in Seq(Work)
  BY <1>1
<1>3. /\ \A T \in Thread : TxOf(a[T]) \subseteq Tx
      /\ \A p \in Proc : TxOf(b[p]) \subseteq Tx /\ TxOf(c[p]) \subseteq Tx
  BY <1>2, InList
<1>4. \A T \in Thread, t \in Tx : t \in ToSet(a[T]) <=> t \in TxOf(a[T])
  BY <1>2, InList
<1>5. \A p \in Proc, t \in Tx : /\ t \in ToSet(b[p]) <=> t \in TxOf(b[p])
                                /\ t \in ToSet(c[p]) <=> t \in TxOf(c[p])
  BY <1>2, InList
<1> QED BY <1>2, <1>3, <1>4, <1>5

\* The types.
LEMMA TypeFacts ==
  ASSUME BinderTypeOK
  PROVE  /\ tx \in TxMap /\ stack \in StackType /\ todo \in [Thread -> Seq(Work)]
         /\ return_error \in ErrorType /\ return_error2 \in ErrorType /\ ModeType
         /\ woken \in [Thread -> BOOLEAN] /\ proc_todo \in [Proc -> Seq(Tx)]
         /\ async_todo \in [Proc -> Seq(Tx)]
         /\ has_async \in [Proc -> BOOLEAN] /\ held \in [Proc -> Nat]
         /\ released \subseteq Proc /\ dropped \subseteq Proc
         /\ ProcOf \in [Thread -> Proc]
BY BinderAssumption DEF BinderTypeOK, TxMap, TxRecord, StackType, Work, ErrorType, ModeType

\* The types after a step, variable by variable.
LEMMA TypesAgain ==
  ASSUME tx' \in TxMap, stack' \in StackType, todo' \in [Thread -> Seq(Work)],
         return_error' \in ErrorType, return_error2' \in ErrorType,
         mode' \in [Thread -> {"user", "proc", "thread"}],
         woken' \in [Thread -> BOOLEAN], proc_todo' \in [Proc -> Seq(Tx)],
         async_todo' \in [Proc -> Seq(Tx)],
         has_async' \in [Proc -> BOOLEAN], held' \in [Proc -> Nat],
         released' \subseteq Proc, dropped' \subseteq Proc
  PROVE  BinderTypeOK'
BY DEF BinderTypeOK, TxMap, TxRecord, StackType, Work, ErrorType

\* What is queued is in the list of a thread, of a process or of a node.
LEMMA PlaceFacts ==
  ASSUME BinderTypeOK
  PROVE  /\ QueuedTx = {t \in Tx : \/ \E T \in Thread : t \in InTodo(T)
                                   \/ \E p \in Proc : t \in InProc(p) \cup InAsync(p)}
         /\ \A T \in Thread : todo[T] \in Seq(Work) /\ InTodo(T) \subseteq QueuedTx
         /\ \A p \in Proc : /\ proc_todo[p] \in Seq(Work) /\ async_todo[p] \in Seq(Work)
                            /\ InProc(p) \subseteq QueuedTx /\ InAsync(p) \subseteq QueuedTx
<1>1. todo \in [Thread -> Seq(Work)] /\ proc_todo \in [Proc -> Seq(Tx)] /\ async_todo \in [Proc -> Seq(Tx)]
  BY TypeFacts
<1>2. QueuedTx = {t \in Tx : \/ \E T \in Thread : t \in ToSet(todo[T])
                             \/ \E p \in Proc : t \in ToSet(proc_todo[p]) \cup ToSet(async_todo[p])}
  BY DEF QueuedTx, Queued
<1>3. QueuedTx = {t \in Tx : \/ \E T \in Thread : t \in InTodo(T)
                             \/ \E p \in Proc : t \in InProc(p) \cup InAsync(p)}
  <2>1. /\ \A T \in Thread, t \in Tx : t \in ToSet(todo[T]) <=> t \in TxOf(todo[T])
        /\ \A p \in Proc, t \in Tx : /\ t \in ToSet(proc_todo[p]) <=> t \in TxOf(proc_todo[p])
                                     /\ t \in ToSet(async_todo[p]) <=> t \in TxOf(async_todo[p])
    BY <1>1, QueuedFacts
  <2>2. ASSUME NEW t \in Tx
        PROVE  (\/ \E T \in Thread : t \in ToSet(todo[T])
                \/ \E p \in Proc : t \in ToSet(proc_todo[p]) \cup ToSet(async_todo[p]))
               <=> (\/ \E T \in Thread : t \in InTodo(T)
                    \/ \E p \in Proc : t \in InProc(p) \cup InAsync(p))
    BY <2>1 DEF InTodo, InProc, InAsync
  <2> QED BY <1>2, <2>2
<1>4. /\ \A T \in Thread : todo[T] \in Seq(Work) /\ InTodo(T) \subseteq Tx
      /\ \A p \in Proc : /\ proc_todo[p] \in Seq(Work) /\ async_todo[p] \in Seq(Work)
                         /\ InProc(p) \subseteq Tx /\ InAsync(p) \subseteq Tx
  BY <1>1, QueuedFacts DEF InTodo, InProc, InAsync
<1> QED BY <1>3, <1>4

\* The same after a step.
LEMMA PlaceFactsNext ==
  ASSUME BinderTypeOK'
  PROVE  /\ QueuedTx' = {t \in Tx : \/ \E T \in Thread : t \in InTodo(T)'
                                    \/ \E p \in Proc : t \in InProc(p)' \cup InAsync(p)'}
         /\ \A T \in Thread : InTodo(T)' \subseteq QueuedTx'
         /\ \A p \in Proc : InProc(p)' \subseteq QueuedTx' /\ InAsync(p)' \subseteq QueuedTx'
<1>1. /\ todo' \in [Thread -> Seq(Work)] /\ proc_todo' \in [Proc -> Seq(Tx)]
      /\ async_todo' \in [Proc -> Seq(Tx)]
  BY DEF BinderTypeOK, Work
<1>2. QueuedTx' = {t \in Tx : \/ \E T \in Thread : t \in ToSet(todo'[T])
                              \/ \E p \in Proc : t \in ToSet(proc_todo'[p]) \cup ToSet(async_todo'[p])}
  BY DEF QueuedTx, Queued
<1>3. QueuedTx' = {t \in Tx : \/ \E T \in Thread : t \in InTodo(T)'
                              \/ \E p \in Proc : t \in InProc(p)' \cup InAsync(p)'}
  <2>1. /\ \A T \in Thread, t \in Tx : t \in ToSet(todo'[T]) <=> t \in TxOf(todo'[T])
        /\ \A p \in Proc, t \in Tx : /\ t \in ToSet(proc_todo'[p]) <=> t \in TxOf(proc_todo'[p])
                                     /\ t \in ToSet(async_todo'[p]) <=> t \in TxOf(async_todo'[p])
    BY <1>1, QueuedFacts
  <2>2. ASSUME NEW t \in Tx
        PROVE  (\/ \E T \in Thread : t \in ToSet(todo'[T])
                \/ \E p \in Proc : t \in ToSet(proc_todo'[p]) \cup ToSet(async_todo'[p]))
               <=> (\/ \E T \in Thread : t \in InTodo(T)'
                    \/ \E p \in Proc : t \in InProc(p)' \cup InAsync(p)')
    BY <2>1 DEF InTodo, InProc, InAsync
  <2> QED BY <1>2, <2>2
<1>4. /\ \A T \in Thread : InTodo(T)' \subseteq Tx
      /\ \A p \in Proc : InProc(p)' \subseteq Tx /\ InAsync(p)' \subseteq Tx
  BY <1>1, QueuedFacts DEF InTodo, InProc, InAsync
<1> QED BY <1>3, <1>4

\* What the invariant says about the heap.
LEMMA HeapFacts ==
  ASSUME BinderTypeOK, HeapSound(Heap, QueuedTx, {})
  PROVE  /\ Sound(tx, stack, QueuedTx, {})
         /\ \A S \in Thread :
              /\ return_error2[S] # "OK" => /\ return_error[S] # "OK"
                                            /\ stack[S] = NULL \/ tx[stack[S]].to_thread = S
              /\ mode[S] = "proc" => stack[S] = NULL
              /\ mode[S] # "user" /\ ~woken[S] => return_error[S] = "OK"
BY DEF HeapSound, Heap, Room, Awake

\* What a step has to establish about the heap.
LEMMA HeapAgain ==
  ASSUME BinderTypeOK', Sound(tx', stack', QueuedTx', {}),
         \A S \in Thread :
           /\ return_error2'[S] # "OK" => /\ return_error'[S] # "OK"
                                          /\ stack'[S] = NULL \/ tx'[stack'[S]].to_thread = S
           /\ mode'[S] = "proc" => stack'[S] = NULL
           /\ mode'[S] # "user" /\ ~woken'[S] => return_error'[S] = "OK"
  PROVE  HeapSound(Heap, QueuedTx, {})'
<1>1. Heap' \in HeapSet
  BY DEF BinderTypeOK, Heap, HeapSet, TxMap, TxRecord, StackType, ErrorType
<1> QED BY <1>1 DEF HeapSound, Heap, Room, Awake

\* One transaction, m, may go from one list to another.
MovesOnly(m) ==
  /\ \A T \in Thread : InTodo(T)' \subseteq InTodo(T) \cup {m}
  /\ \A p \in Proc : InProc(p)' \subseteq InProc(p) \cup {m} /\ InAsync(p)' \subseteq InAsync(p) \cup {m}
  /\ \A t \in QueuedTx' \ {m} :
       tx'[t].kind = tx[t].kind /\ tx'[t].node = tx[t].node /\ tx'[t].to_thread = tx[t].to_thread

\* m is in one list at most, and in the right one.
Placed(m) ==
  /\ \A T \in Thread : m \in InTodo(T) => SuitsThread(m, T)
  /\ \A p \in Proc : m \in InProc(p) => SuitsProc(m, p)
  /\ \A p \in Proc : m \in InAsync(p) => SuitsNode(m, p)
  /\ \A T, S \in Thread : m \in InTodo(T) /\ m \in InTodo(S) => T = S
  /\ \A T \in Thread, p \in Proc : m \in InTodo(T) => m \notin InProc(p) \cup InAsync(p)
  /\ \A p \in Proc, q \in Proc : m \in InProc(p) => m \notin InAsync(q)

\* When only m has moved, and to a place of its own, every list is as it should be.
LEMMA PlacesStep ==
  ASSUME BinderTypeOK', Suited, Apart, NEW m, MovesOnly(m), Placed(m)'
  PROVE  Suited' /\ Apart'
<1>0. /\ \A T \in Thread : InTodo(T)' \subseteq QueuedTx'
      /\ \A p \in Proc : InProc(p)' \subseteq QueuedTx' /\ InAsync(p)' \subseteq QueuedTx'
  BY PlaceFactsNext
<1>1. ASSUME NEW T \in Thread, NEW t \in InTodo(T)' PROVE SuitsThread(t, T)'
  <2>1. CASE t = m
    BY <1>1, <2>1 DEF Placed
  <2>2. CASE t # m
    <3>1. t \in InTodo(T) /\ t \in QueuedTx' \ {m}
      BY <1>0, <1>1, <2>2 DEF MovesOnly
    <3>2. SuitsThread(t, T)
      BY <3>1 DEF Suited
    <3> QED BY <3>1, <3>2 DEF MovesOnly, SuitsThread
  <2> QED BY <2>1, <2>2
<1>2. ASSUME NEW p \in Proc, NEW t \in InProc(p)' PROVE SuitsProc(t, p)'
  <2>1. CASE t = m
    BY <1>2, <2>1 DEF Placed
  <2>2. CASE t # m
    <3>1. t \in InProc(p) /\ t \in QueuedTx' \ {m}
      BY <1>0, <1>2, <2>2 DEF MovesOnly
    <3> QED BY <3>1 DEF Suited, MovesOnly, SuitsProc
  <2> QED BY <2>1, <2>2
<1>3. ASSUME NEW p \in Proc, NEW t \in InAsync(p)' PROVE SuitsNode(t, p)'
  <2>1. CASE t = m
    BY <1>3, <2>1 DEF Placed
  <2>2. CASE t # m
    <3>1. t \in InAsync(p) /\ t \in QueuedTx' \ {m}
      BY <1>0, <1>3, <2>2 DEF MovesOnly
    <3> QED BY <3>1 DEF Suited, MovesOnly, SuitsNode
  <2> QED BY <2>1, <2>2
<1>4. Suited'
  BY <1>1, <1>2, <1>3 DEF Suited
<1>5. ASSUME NEW T \in Thread, NEW S \in Thread, T # S, NEW t, t \in InTodo(T)', t \in InTodo(S)'
      PROVE  FALSE
  BY <1>5 DEF Apart, MovesOnly, Placed
<1>6. ASSUME NEW T \in Thread, NEW p \in Proc, NEW t, t \in InTodo(T)', t \in InProc(p)' \cup InAsync(p)'
      PROVE  FALSE
  BY <1>6 DEF Apart, MovesOnly, Placed
<1>7. ASSUME NEW q \in Proc, NEW p \in Proc, NEW t, t \in InProc(p)', t \in InAsync(q)' PROVE FALSE
  BY <1>7 DEF Apart, MovesOnly, Placed
<1>8. Apart'
  BY <1>5, <1>6, <1>7 DEF Apart
<1> QED BY <1>4, <1>8

\* The same, for one transaction.
LEMMA InQueue ==
  ASSUME BinderTypeOK, NEW t
  PROVE  t \in QueuedTx <=> \/ \E T \in Thread : t \in InTodo(T)
                            \/ \E p \in Proc : t \in InProc(p) \/ t \in InAsync(p)
<1>1. QueuedTx = {u \in Tx : \/ \E T \in Thread : u \in InTodo(T)
                            \/ \E p \in Proc : u \in InProc(p) \cup InAsync(p)}
  BY PlaceFacts
<1>2. /\ \A T \in Thread : InTodo(T) \subseteq QueuedTx
      /\ \A p \in Proc : InProc(p) \subseteq QueuedTx /\ InAsync(p) \subseteq QueuedTx
  BY PlaceFacts
<1> QED BY <1>1, <1>2

\* The same after a step.
LEMMA InQueueNext ==
  ASSUME BinderTypeOK', NEW t
  PROVE  t \in QueuedTx' <=> \/ \E T \in Thread : t \in InTodo(T)'
                             \/ \E p \in Proc : t \in InProc(p)' \/ t \in InAsync(p)'
<1>1. QueuedTx' = {u \in Tx : \/ \E T \in Thread : u \in InTodo(T)'
                             \/ \E p \in Proc : u \in InProc(p)' \cup InAsync(p)'}
  BY PlaceFactsNext
<1>2. /\ \A T \in Thread : InTodo(T)' \subseteq QueuedTx'
      /\ \A p \in Proc : InProc(p)' \subseteq QueuedTx' /\ InAsync(p)' \subseteq QueuedTx'
  BY PlaceFactsNext
<1> QED BY <1>1, <1>2

-----------------------------------------------------------------------------
(* Wake-ups.                                                               *)

\* Work of the process q arrives, and a sleeper of q, if there is one, is woken.
LEMMA WakeOne ==
  ASSUME BinderTypeOK, WakeupsNotLost, NEW q \in Proc, NEW W \in [Thread -> BOOLEAN], WakeProc(q, W),
         \A S \in Thread : mode'[S] # "user" /\ ~W[S] =>
           /\ mode'[S] = mode[S] /\ ~woken[S] /\ todo'[S] = todo[S]
           /\ return_error'[S] = return_error[S],
         \A S \in Thread : ProcOf[S] # q /\ woken[S] /\ mode[S] = "proc" => W[S] /\ mode'[S] = "proc",
         \A p \in Proc \ {q} : proc_todo'[p] # <<>> => proc_todo[p] # <<>>
  PROVE  WakeupsNotLost'
<1>0. \A S \in Thread : ProcOf[S] \in Proc
  BY BinderAssumption
<1>1. \A S \in Thread : W[S] => woken'[S]
  BY DEF WakeProc, Sleepers
<1> SUFFICES ASSUME NEW T \in Thread, mode'[T] # "user", ~woken'[T]
             PROVE  /\ todo'[T] = <<>> /\ return_error'[T] = "OK"
                    /\ mode'[T] = "proc" /\ proc_todo'[ProcOf[T]] # <<>> =>
                         \E S \in Thread : ProcOf[S] = ProcOf[T] /\ mode'[S] = "proc" /\ woken'[S]
  BY DEF WakeupsNotLost
<1>2. ~W[T] /\ mode'[T] = mode[T] /\ ~woken[T] /\ todo'[T] = todo[T] /\ return_error'[T] = return_error[T]
  BY <1>1
<1>3. todo'[T] = <<>> /\ return_error'[T] = "OK"
  BY <1>2 DEF WakeupsNotLost
<1>4. ASSUME mode'[T] = "proc", proc_todo'[ProcOf[T]] # <<>>
      PROVE  \E S \in Thread : ProcOf[S] = ProcOf[T] /\ mode'[S] = "proc" /\ woken'[S]
  <2>1. CASE ProcOf[T] = q
    <3>1. T \in Sleepers(q, W)
      BY <1>2, <1>4, <2>1 DEF Sleepers
    <3>2. PICK S \in Sleepers(q, W) : woken' = [W EXCEPT ![S] = TRUE]
      BY <3>1 DEF WakeProc
    <3>3. S \in Thread /\ ProcOf[S] = q /\ mode'[S] = "proc" /\ woken'[S]
      BY <3>2 DEF Sleepers
    <3> QED BY <2>1, <3>3
  <2>2. CASE ProcOf[T] # q
    <3>1. proc_todo[ProcOf[T]] # <<>> /\ mode[T] = "proc" /\ mode[T] # "user"
      BY <1>0, <1>2, <1>4, <2>2
    <3>2. PICK S \in Thread : ProcOf[S] = ProcOf[T] /\ mode[S] = "proc" /\ woken[S]
      BY <1>2, <3>1 DEF WakeupsNotLost
    <3> QED BY <1>1, <2>2, <3>2
  <2> QED BY <2>1, <2>2
<1> QED BY <1>3, <1>4

\* Nobody is woken for work of a process, because none arrives.
LEMMA WakeNone ==
  ASSUME WakeupsNotLost,
         \A S \in Thread : mode'[S] # "user" /\ ~woken'[S] => todo'[S] = <<>> /\ return_error'[S] = "OK",
         \A S \in Thread : mode'[S] = "proc" /\ ~woken'[S] /\ proc_todo'[ProcOf[S]] # <<>> =>
           mode[S] = "proc" /\ ~woken[S] /\ proc_todo[ProcOf[S]] # <<>>,
         \A S \in Thread : mode[S] = "proc" /\ woken[S] /\ proc_todo'[ProcOf[S]] # <<>> =>
           mode'[S] = "proc" /\ woken'[S]
  PROVE  WakeupsNotLost'
<1> SUFFICES ASSUME NEW T \in Thread, mode'[T] # "user", ~woken'[T]
             PROVE  /\ todo'[T] = <<>> /\ return_error'[T] = "OK"
                    /\ mode'[T] = "proc" /\ proc_todo'[ProcOf[T]] # <<>> =>
                         \E S \in Thread : ProcOf[S] = ProcOf[T] /\ mode'[S] = "proc" /\ woken'[S]
  BY DEF WakeupsNotLost
<1>1. ASSUME mode'[T] = "proc", proc_todo'[ProcOf[T]] # <<>>
      PROVE  \E S \in Thread : ProcOf[S] = ProcOf[T] /\ mode'[S] = "proc" /\ woken'[S]
  <2>1. mode[T] = "proc" /\ mode[T] # "user" /\ ~woken[T] /\ proc_todo[ProcOf[T]] # <<>>
    BY <1>1
  <2>2. PICK S \in Thread : ProcOf[S] = ProcOf[T] /\ mode[S] = "proc" /\ woken[S]
    BY <2>1 DEF WakeupsNotLost
  <2> QED BY <1>1, <2>2
<1> QED BY <1>1

\* The threads after T has returned.
LEMMA ReturnFacts ==
  ASSUME BinderTypeOK, NEW T \in Thread, Return(T)
  PROVE  /\ mode' \in [Thread -> {"user", "proc", "thread"}] /\ woken' \in [Thread -> BOOLEAN]
         /\ mode'[T] = "user" /\ \A S \in Thread \ {T} : mode'[S] = mode[S] /\ (woken[S] => woken'[S])
<1> DEFINE W == [woken EXCEPT ![T] = FALSE]
<1>1. ModeType /\ woken \in [Thread -> BOOLEAN]
  BY TypeFacts
<1>2. /\ mode' \in [Thread -> {"user", "proc", "thread"}] /\ mode'[T] = "user"
      /\ \A S \in Thread \ {T} : mode'[S] = mode[S]
  BY <1>1 DEF Return, ModeType
<1>3. W \in [Thread -> BOOLEAN] /\ \A S \in Thread \ {T} : W[S] = woken[S]
  BY <1>1
<1>4. woken' = W \/ \E S \in Thread : woken' = [W EXCEPT ![S] = TRUE]
  BY DEF Return, WakeProc, Sleepers
<1> HIDE DEF W
<1>5. woken' \in [Thread -> BOOLEAN] /\ \A S \in Thread \ {T} : W[S] => woken'[S]
  BY <1>3, <1>4
<1> QED BY <1>2, <1>3, <1>5

\* A thread that returns to user space wakes another one if there is work left for it.
LEMMA ReturnWakes ==
  ASSUME BinderTypeOK, WakeupsNotLost, NEW T \in Thread, Return(T),
         \A S \in Thread \ {T} : todo'[S] = todo[S] /\ return_error'[S] = return_error[S],
         \A p \in Proc \ {ProcOf[T]} : proc_todo'[p] = proc_todo[p]
  PROVE  WakeupsNotLost'
<1> DEFINE W == [woken EXCEPT ![T] = FALSE]
           q == ProcOf[T]
<1>1. ModeType /\ woken \in [Thread -> BOOLEAN] /\ \A S \in Thread : ProcOf[S] \in Proc
  BY TypeFacts, BinderAssumption
<1>2. /\ mode'[T] = "user" /\ \A S \in Thread \ {T} : mode'[S] = mode[S]
  BY <1>1 DEF Return, ModeType
<1>3. W \in [Thread -> BOOLEAN] /\ q \in Proc /\ ~W[T] /\ \A S \in Thread \ {T} : W[S] = woken[S]
  BY <1>1
<1>4. CASE proc_todo'[q] # <<>>
  <2>1. WakeProc(q, W)
    BY <1>4 DEF Return
  <2> HIDE DEF W, q
  <2>2. \A S \in Thread : mode'[S] # "user" /\ ~W[S] =>
           /\ mode'[S] = mode[S] /\ ~woken[S] /\ todo'[S] = todo[S]
           /\ return_error'[S] = return_error[S]
    BY <1>2, <1>3
  <2>3. \A S \in Thread : ProcOf[S] # q /\ woken[S] /\ mode[S] = "proc" => W[S] /\ mode'[S] = "proc"
    BY <1>2, <1>3 DEF q
  <2>4. \A p \in Proc \ {q} : proc_todo'[p] # <<>> => proc_todo[p] # <<>>
    BY DEF q
  <2> QED BY <1>3, <2>1, <2>2, <2>3, <2>4, WakeOne
<1>5. CASE proc_todo'[q] = <<>>
  <2>1. woken' = W
    BY <1>5 DEF Return
  <2> HIDE DEF W
  <2>2. \A S \in Thread : mode'[S] # "user" /\ ~woken'[S] => todo'[S] = <<>> /\ return_error'[S] = "OK"
    BY <1>2, <1>3, <2>1 DEF WakeupsNotLost
  <2>3. \A S \in Thread : mode'[S] = "proc" /\ ~woken'[S] /\ proc_todo'[ProcOf[S]] # <<>> =>
           mode[S] = "proc" /\ ~woken[S] /\ proc_todo[ProcOf[S]] # <<>>
    BY <1>1, <1>2, <1>3, <1>5, <2>1
  <2>4. \A S \in Thread : mode[S] = "proc" /\ woken[S] /\ proc_todo'[ProcOf[S]] # <<>> =>
           mode'[S] = "proc" /\ woken'[S]
    BY <1>1, <1>2, <1>3, <1>5, <2>1
  <2> QED BY <2>2, <2>3, <2>4, WakeNone
<1> QED BY <1>4, <1>5

-----------------------------------------------------------------------------
(* One-way calls.                                                          *)

\* OnTheWay(p), in terms of the lists.
Way(p) ==
  {t \in Tx : tx[t].kind = "oneway" /\ (t \in InProc(p) \/ \E T \in Thread : ProcOf[T] = p /\ t \in InTodo(T))}

\* The one-way calls on their way, in terms of the lists; there are finitely many.
LEMMA WayFacts ==
  ASSUME BinderTypeOK, NEW p \in Proc
  PROVE  OnTheWay(p) = Way(p) /\ IsFiniteSet(Way(p)) /\ Cardinality(Way(p)) \in Nat
<1>1. todo \in [Thread -> Seq(Work)] /\ proc_todo \in [Proc -> Seq(Tx)] /\ async_todo \in [Proc -> Seq(Tx)]
  BY TypeFacts
<1>2. /\ \A T \in Thread, t \in Tx : t \in ToSet(todo[T]) <=> t \in TxOf(todo[T])
      /\ \A t \in Tx : t \in ToSet(proc_todo[p]) <=> t \in TxOf(proc_todo[p])
  BY <1>1, QueuedFacts
<1>3. \A t \in Tx : t \in OnTheWay(p) <=> t \in Way(p)
  BY <1>2 DEF OnTheWay, Way, InProc, InTodo
<1>4. OnTheWay(p) \subseteq Tx /\ Way(p) \subseteq Tx
  BY DEF OnTheWay, Way
<1>5. IsFiniteSet(Way(p))
  BY <1>4, FS_Subset, BinderAssumption
<1>6. Cardinality(Way(p)) \in Nat
  BY <1>5, FS_CardinalityType
<1> QED BY <1>3, <1>4, <1>5, <1>6

\* The same after a step.
LEMMA WayFactsNext ==
  ASSUME BinderTypeOK', NEW p \in Proc
  PROVE  OnTheWay(p)' = Way(p)' /\ IsFiniteSet(Way(p)') /\ Cardinality(Way(p)') \in Nat
<1>1. /\ todo' \in [Thread -> Seq(Work)] /\ proc_todo' \in [Proc -> Seq(Tx)]
      /\ async_todo' \in [Proc -> Seq(Tx)]
  BY DEF BinderTypeOK, Work
<1>2. /\ \A T \in Thread, t \in Tx : t \in ToSet(todo'[T]) <=> t \in TxOf(todo'[T])
      /\ \A t \in Tx : t \in ToSet(proc_todo'[p]) <=> t \in TxOf(proc_todo'[p])
  BY <1>1, QueuedFacts
<1>3. \A t \in Tx : t \in OnTheWay(p)' <=> t \in Way(p)'
  BY <1>2 DEF OnTheWay, Way, InProc, InTodo
<1>4. OnTheWay(p)' \subseteq Tx /\ Way(p)' \subseteq Tx
  BY DEF OnTheWay, Way
<1>5. IsFiniteSet(Way(p)')
  BY <1>4, FS_Subset, BinderAssumption
<1>6. Cardinality(Way(p)') \in Nat
  BY <1>5, FS_CardinalityType
<1> QED BY <1>3, <1>4, <1>5, <1>6

\* What a step may do to the one-way calls of a node: nothing, or one is put behind the
\* others; the first one sets off; one is read; the buffer of the last one is freed; the
\* next one sets off; they are all gone.
WaySame(p) ==
  Way(p)' = Way(p) /\ held'[p] = held[p] /\ has_async'[p] = has_async[p] /\ (async_todo'[p] # <<>> => has_async[p])
WayFirst(p) ==
  /\ ~has_async[p] /\ has_async'[p] = TRUE /\ held'[p] = held[p]
  /\ \E t : t \notin Way(p) /\ Way(p)' = Way(p) \cup {t}
WayRead(p) ==
  /\ has_async'[p] = has_async[p] /\ held'[p] = held[p] + 1 /\ async_todo'[p] = async_todo[p]
  /\ \E t \in Way(p) : Way(p)' = Way(p) \ {t}
WayFreed(p) ==
  /\ has_async'[p] = FALSE /\ held[p] > 0 /\ held'[p] = held[p] - 1 /\ async_todo'[p] = <<>>
  /\ Way(p)' = Way(p)
WayNext(p) ==
  /\ has_async'[p] = has_async[p] /\ held[p] > 0 /\ held'[p] = held[p] - 1
  /\ \E t : t \notin Way(p) /\ Way(p)' = Way(p) \cup {t}
WayGone(p) ==
  /\ has_async'[p] = FALSE /\ held'[p] = 0 /\ async_todo'[p] = <<>> /\ Way(p)' = {}

WayStep(p) == WaySame(p) \/ WayFirst(p) \/ WayRead(p) \/ WayFreed(p) \/ WayNext(p)

\* One-way calls stay in turn if each node that has dropped none takes one of the steps above.
LEMMA TurnStep ==
  ASSUME BinderTypeOK, BinderTypeOK', OneWayInTurn,
         \A p \in Proc \ dropped' : WayGone(p) \/ (p \notin dropped /\ WayStep(p))
  PROVE  OneWayInTurn'
<1> SUFFICES ASSUME NEW p \in Proc \ dropped'
             PROVE  /\ held'[p] + Cardinality(OnTheWay(p)') = IF has_async'[p] THEN 1 ELSE 0
                    /\ async_todo'[p] # <<>> => has_async'[p]
  BY DEF OneWayInTurn
<1> DEFINE A == Way(p)
           B == Way(p)'
           n == Cardinality(A)
           m == Cardinality(B)
<1>1. OnTheWay(p) = A /\ IsFiniteSet(A) /\ n \in Nat
  BY WayFacts
<1>2. OnTheWay(p)' = B /\ IsFiniteSet(B) /\ m \in Nat
  BY WayFactsNext
<1>3. held[p] \in Nat /\ held'[p] \in Nat /\ has_async[p] \in BOOLEAN /\ has_async'[p] \in BOOLEAN
  BY DEF BinderTypeOK
<1>4. CASE WayGone(p)
  <2>1. B = {}
    BY <1>4 DEF WayGone
  <2>2. m = 0
    BY <2>1, FS_EmptySet
  <2> HIDE DEF B, m
  <2> QED BY <1>2, <1>4, <2>2 DEF WayGone, m
<1>5. CASE p \notin dropped /\ WayStep(p)
  <2>0. held[p] + n = (IF has_async[p] THEN 1 ELSE 0) /\ (async_todo[p] # <<>> => has_async[p])
    BY <1>1, <1>5 DEF OneWayInTurn
  <2>a. ASSUME NEW t, t \notin A, B = A \cup {t} PROVE m = n + 1
    BY <1>1, <2>a, FS_AddElement
  <2>b. ASSUME NEW t \in A, B = A \ {t} PROVE m = n - 1
    BY <1>1, <2>b, FS_RemoveElement
  <2>1. CASE WaySame(p)
    <3>1. B = A
      BY <2>1 DEF WaySame
    <3>2. m = n
      BY <3>1
    <3> HIDE DEF A, B, n, m
    <3> QED BY <1>2, <2>0, <2>1, <3>2 DEF WaySame, m
  <2>2. CASE WayFirst(p)
    <3>1. m = n + 1
      BY <2>2, <2>a DEF WayFirst
    <3> HIDE DEF A, B, n, m
    <3> QED BY <1>1, <1>2, <1>3, <2>0, <2>2, <3>1 DEF WayFirst, m
  <2>3. CASE WayRead(p)
    <3>1. m = n - 1
      BY <2>3, <2>b DEF WayRead
    <3> HIDE DEF A, B, n, m
    <3> QED BY <1>1, <1>2, <1>3, <2>0, <2>3, <3>1 DEF WayRead, m
  <2>4. CASE WayFreed(p)
    <3>1. B = A
      BY <2>4 DEF WayFreed
    <3>2. m = n
      BY <3>1
    <3> HIDE DEF A, B, n, m
    <3> QED BY <1>1, <1>2, <1>3, <2>0, <2>4, <3>2 DEF WayFreed, m
  <2>5. CASE WayNext(p)
    <3>1. m = n + 1
      BY <2>5, <2>a DEF WayNext
    <3> HIDE DEF A, B, n, m
    <3> QED BY <1>1, <1>2, <1>3, <2>0, <2>5, <3>1 DEF WayNext, m
  <2> QED BY <1>5, <2>1, <2>2, <2>3, <2>4, <2>5 DEF WayStep
<1> QED BY <1>4, <1>5

-----------------------------------------------------------------------------
(* Steps.                                                                  *)

\* A step that leaves the transactions and where they are alone.
LEMMA SameLists ==
  ASSUME BinderInv, BinderTypeOK', UNCHANGED <<tx, stack, proc_todo, node_vars>>,
         \A T \in Thread : InTodo(T)' = InTodo(T) /\ Once(todo'[T])
  PROVE  Sound(tx', stack', QueuedTx', {}) /\ ListsOnce' /\ Suited' /\ Apart' /\ OneWayInTurn'
<1>0. tx' = tx /\ stack' = stack /\ proc_todo' = proc_todo /\ held' = held /\ has_async' = has_async
      /\ async_todo' = async_todo /\ dropped' = dropped
  BY DEF node_vars
<1>1. BinderTypeOK /\ HeapSound(Heap, QueuedTx, {}) /\ ListsOnce /\ Suited /\ Apart /\ OneWayInTurn
  BY DEF BinderInv
<1>2. \A p \in Proc : InProc(p)' = InProc(p) /\ InAsync(p)' = InAsync(p)
  BY <1>0 DEF InProc, InAsync
<1>3. QueuedTx' = QueuedTx
  <2>1. ASSUME NEW t PROVE t \in QueuedTx' <=> t \in QueuedTx
    BY <1>1, <1>2, InQueue, InQueueNext
  <2> QED BY <2>1
<1>4. Sound(tx', stack', QueuedTx', {})
  BY <1>0, <1>1, <1>3, HeapFacts
<1>5. ListsOnce'
  BY <1>0, <1>1 DEF ListsOnce
<1>6. Suited'
  BY <1>0, <1>1, <1>2 DEF Suited, SuitsThread, SuitsProc, SuitsNode
<1>7. Apart'
  BY <1>1, <1>2 DEF Apart
<1>8. \A p \in Proc : Way(p)' = Way(p)
  BY <1>0, <1>2 DEF Way
<1>9. \A p \in Proc \ dropped' : p \notin dropped /\ WayStep(p)
  BY <1>0, <1>1, <1>8 DEF WayStep, WaySame, OneWayInTurn
<1>10. OneWayInTurn'
  BY <1>1, <1>9, TurnStep
<1> QED BY <1>4, <1>5, <1>6, <1>7, <1>10

\* An error that user space has not read yet.
LEMMA RefusedStep ==
  ASSUME BinderInv, NEW T \in Thread, Refused(T)
  PROVE  BinderInv'
<1>0. BinderTypeOK /\ HeapSound(Heap, QueuedTx, {}) /\ ListsOnce /\ WakeupsNotLost
  BY DEF BinderInv
<1>1. /\ tx \in TxMap /\ stack \in StackType /\ todo \in [Thread -> Seq(Work)]
      /\ return_error \in ErrorType /\ return_error2 \in ErrorType /\ ModeType
      /\ woken \in [Thread -> BOOLEAN] /\ proc_todo \in [Proc -> Seq(Tx)]
      /\ async_todo \in [Proc -> Seq(Tx)]
      /\ has_async \in [Proc -> BOOLEAN] /\ held \in [Proc -> Nat]
      /\ released \subseteq Proc /\ dropped \subseteq Proc
  BY <1>0, TypeFacts
<1>2. /\ mode[T] = "user" /\ return_error' = [return_error EXCEPT ![T] = "FAILED"]
      /\ tx' = tx /\ stack' = stack /\ todo' = todo /\ return_error2' = return_error2 /\ mode' = mode
      /\ woken' = woken /\ proc_todo' = proc_todo /\ UNCHANGED node_vars /\ released' = released
  BY DEF Refused, MayWrite, Running
<1>3. /\ return_error' \in ErrorType /\ return_error'[T] = "FAILED"
      /\ \A S \in Thread \ {T} : return_error'[S] = return_error[S]
  BY <1>1, <1>2 DEF ErrorType
<1>4. BinderTypeOK'
  BY <1>1, <1>2, <1>3, TypesAgain DEF node_vars, ModeType
<1>5. Sound(tx', stack', QueuedTx', {}) /\ ListsOnce' /\ Suited' /\ Apart' /\ OneWayInTurn'
  BY <1>0, <1>2, <1>4, SameLists DEF InTodo, ListsOnce
<1>6. HeapSound(Heap, QueuedTx, {})'
  BY <1>0, <1>2, <1>3, <1>4, <1>5, HeapFacts, HeapAgain
<1>7. WakeupsNotLost'
  BY <1>0, <1>2, <1>3 DEF WakeupsNotLost
<1> QED BY <1>4, <1>5, <1>6, <1>7 DEF BinderInv

\* A thread decides what to wait for, or returns its errors.
LEMMA WaitStep ==
  ASSUME BinderInv, NEW T \in Thread, Wait(T), mode[T] = "proc" => proc_todo[ProcOf[T]] = <<>>
  PROVE  BinderInv'
<1>0. BinderTypeOK /\ HeapSound(Heap, QueuedTx, {}) /\ ListsOnce /\ WakeupsNotLost
  BY DEF BinderInv
<1>1. /\ tx \in TxMap /\ stack \in StackType /\ todo \in [Thread -> Seq(Work)]
      /\ return_error \in ErrorType /\ return_error2 \in ErrorType /\ ModeType
      /\ woken \in [Thread -> BOOLEAN] /\ proc_todo \in [Proc -> Seq(Tx)]
      /\ async_todo \in [Proc -> Seq(Tx)]
      /\ has_async \in [Proc -> BOOLEAN] /\ held \in [Proc -> Nat]
      /\ released \subseteq Proc /\ dropped \subseteq Proc
  BY <1>0, TypeFacts
<1>2. /\ tx' = tx /\ stack' = stack /\ todo' = todo /\ proc_todo' = proc_todo /\ UNCHANGED node_vars
      /\ released' = released
  BY DEF Wait
<1>3. CASE /\ return_error[T] # "OK" /\ return_error' = [return_error EXCEPT ![T] = "OK"]
           /\ return_error2' = [return_error2 EXCEPT ![T] = "OK"] /\ Return(T)
  <2>1. /\ mode' \in [Thread -> {"user", "proc", "thread"}] /\ woken' \in [Thread -> BOOLEAN]
        /\ mode'[T] = "user" /\ \A S \in Thread \ {T} : mode'[S] = mode[S] /\ (woken[S] => woken'[S])
    BY <1>0, <1>3, ReturnFacts
  <2>2. /\ return_error' \in ErrorType /\ return_error2' \in ErrorType
        /\ return_error2'[T] = "OK"
        /\ \A S \in Thread \ {T} : return_error'[S] = return_error[S] /\ return_error2'[S] = return_error2[S]
    BY <1>1, <1>3 DEF ErrorType
  <2>3. BinderTypeOK'
    BY <1>1, <1>2, <2>1, <2>2, TypesAgain DEF node_vars
  <2>4. Sound(tx', stack', QueuedTx', {}) /\ ListsOnce' /\ Suited' /\ Apart' /\ OneWayInTurn'
    BY <1>0, <1>2, <2>3, SameLists DEF InTodo, ListsOnce
  <2>5. \A S \in Thread :
          /\ return_error2[S] # "OK" => /\ return_error[S] # "OK"
                                        /\ stack[S] = NULL \/ tx[stack[S]].to_thread = S
          /\ mode[S] = "proc" => stack[S] = NULL
          /\ mode[S] # "user" /\ ~woken[S] => return_error[S] = "OK"
    BY <1>0, HeapFacts
  <2>6. HeapSound(Heap, QueuedTx, {})'
    BY <1>2, <2>1, <2>2, <2>3, <2>4, <2>5, HeapAgain
  <2>7. WakeupsNotLost'
    BY <1>0, <1>2, <1>3, <2>2, ReturnWakes
  <2> QED BY <2>3, <2>4, <2>6, <2>7 DEF BinderInv
<1>4. CASE /\ return_error[T] = "OK" /\ return_error' = return_error /\ return_error2' = return_error2
           /\ mode' = [mode EXCEPT ![T] = IF stack[T] = NULL /\ todo[T] = <<>> THEN "proc" ELSE "thread"]
           /\ woken' = [woken EXCEPT ![T] = IF stack[T] = NULL /\ todo[T] = <<>>
                                            THEN proc_todo[ProcOf[T]] # <<>> ELSE todo[T] # <<>>]
  <2>1. /\ mode' \in [Thread -> {"user", "proc", "thread"}] /\ woken' \in [Thread -> BOOLEAN]
        /\ mode'[T] = "proc" => stack[T] = NULL
        /\ \A S \in Thread \ {T} : mode'[S] = mode[S] /\ woken'[S] = woken[S]
    BY <1>1, <1>4 DEF ModeType
  <2>2. /\ ~woken'[T] => todo[T] = <<>>
        /\ ~woken'[T] /\ mode'[T] = "proc" => proc_todo[ProcOf[T]] = <<>>
    BY <1>1, <1>4 DEF ModeType
  <2>3. BinderTypeOK'
    BY <1>1, <1>2, <1>4, <2>1, TypesAgain DEF node_vars
  <2>4. Sound(tx', stack', QueuedTx', {}) /\ ListsOnce' /\ Suited' /\ Apart' /\ OneWayInTurn'
    BY <1>0, <1>2, <2>3, SameLists DEF InTodo, ListsOnce
  <2>5. \A S \in Thread :
          /\ return_error2[S] # "OK" => /\ return_error[S] # "OK"
                                        /\ stack[S] = NULL \/ tx[stack[S]].to_thread = S
          /\ mode[S] = "proc" => stack[S] = NULL
          /\ mode[S] # "user" /\ ~woken[S] => return_error[S] = "OK"
    BY <1>0, HeapFacts
  <2>6. HeapSound(Heap, QueuedTx, {})'
    BY <1>2, <1>4, <2>1, <2>3, <2>4, <2>5, HeapAgain
  <2>7. \A S \in Thread : mode'[S] # "user" /\ ~woken'[S] => todo'[S] = <<>> /\ return_error'[S] = "OK"
    BY <1>0, <1>2, <1>4, <2>1, <2>2 DEF WakeupsNotLost
  <2>8. \A S \in Thread : mode'[S] = "proc" /\ ~woken'[S] /\ proc_todo'[ProcOf[S]] # <<>> =>
          mode[S] = "proc" /\ ~woken[S] /\ proc_todo[ProcOf[S]] # <<>>
    BY <1>2, <2>1, <2>2
  <2>9. \A S \in Thread : mode[S] = "proc" /\ woken[S] /\ proc_todo'[ProcOf[S]] # <<>> =>
          mode'[S] = "proc" /\ woken'[S]
    BY <1>2, <2>1
  <2>10. WakeupsNotLost'
    BY <1>0, <2>7, <2>8, <2>9, WakeNone
  <2> QED BY <2>3, <2>4, <2>6, <2>10 DEF BinderInv
<1> QED BY <1>3, <1>4 DEF Wait

\* Nothing but confirmations is read, or nothing at all.
LEMMA ReadCompleteStep ==
  ASSUME BinderInv, NEW T \in Thread, ReadComplete(T) \/ Interrupted(T)
  PROVE  BinderInv'
<1>0. BinderTypeOK /\ HeapSound(Heap, QueuedTx, {}) /\ ListsOnce /\ WakeupsNotLost
  BY DEF BinderInv
<1>1. /\ tx \in TxMap /\ stack \in StackType /\ todo \in [Thread -> Seq(Work)]
      /\ return_error \in ErrorType /\ return_error2 \in ErrorType /\ ModeType
      /\ woken \in [Thread -> BOOLEAN] /\ proc_todo \in [Proc -> Seq(Tx)]
      /\ async_todo \in [Proc -> Seq(Tx)]
      /\ has_async \in [Proc -> BOOLEAN] /\ held \in [Proc -> Nat]
      /\ released \subseteq Proc /\ dropped \subseteq Proc
  BY <1>0, TypeFacts
<1>2. /\ tx' = tx /\ stack' = stack /\ proc_todo' = proc_todo /\ UNCHANGED node_vars /\ released' = released
      /\ return_error' = return_error /\ return_error2' = return_error2 /\ Return(T)
  BY DEF ReadComplete, Interrupted
<1>3. todo' \in [Thread -> Seq(Work)] /\ \A S \in Thread : InTodo(S)' = InTodo(S) /\ Once(todo'[S])
  <2>1. CASE Interrupted(T)
    BY <1>0, <1>1, <2>1 DEF Interrupted, InTodo, ListsOnce
  <2>2. CASE ReadComplete(T)
    <3>1. todo' = [todo EXCEPT ![T] = <<>>] /\ Transactions(T) = {}
      BY <2>2 DEF ReadComplete
    <3>2. todo' \in [Thread -> Seq(Work)] /\ todo'[T] = <<>> /\ \A S \in Thread \ {T} : todo'[S] = todo[S]
      BY <1>1, <3>1
    <3>3. todo[T] \in Seq(Work) /\ DOMAIN todo[T] = 1 .. Len(todo[T])
      BY <1>1
    <3>4. InTodo(T) = {}
      BY <3>1, <3>3 DEF Transactions, InTodo, TxOf
    <3>5. InTodo(T)' = {} /\ Once(todo'[T])
      BY <3>2, EmptyList DEF InTodo
    <3> QED BY <1>0, <3>2, <3>4, <3>5 DEF InTodo, ListsOnce
  <2> QED BY <2>1, <2>2
<1>4. /\ mode' \in [Thread -> {"user", "proc", "thread"}] /\ woken' \in [Thread -> BOOLEAN]
      /\ mode'[T] = "user" /\ \A S \in Thread \ {T} : mode'[S] = mode[S] /\ (woken[S] => woken'[S])
  BY <1>0, <1>2, ReturnFacts
<1>5. BinderTypeOK'
  BY <1>1, <1>2, <1>3, <1>4, TypesAgain DEF node_vars
<1>6. Sound(tx', stack', QueuedTx', {}) /\ ListsOnce' /\ Suited' /\ Apart' /\ OneWayInTurn'
  BY <1>2, <1>3, <1>5, SameLists
<1>7. \A S \in Thread :
        /\ return_error2[S] # "OK" => /\ return_error[S] # "OK"
                                      /\ stack[S] = NULL \/ tx[stack[S]].to_thread = S
        /\ mode[S] = "proc" => stack[S] = NULL
        /\ mode[S] # "user" /\ ~woken[S] => return_error[S] = "OK"
  BY <1>0, HeapFacts
<1>8. HeapSound(Heap, QueuedTx, {})'
  BY <1>2, <1>4, <1>5, <1>6, <1>7, HeapAgain
<1>9. \A S \in Thread \ {T} : todo'[S] = todo[S]
  BY <1>1 DEF ReadComplete, Interrupted
<1>10. WakeupsNotLost'
  BY <1>0, <1>2, <1>9, ReturnWakes
<1> QED BY <1>5, <1>6, <1>8, <1>10 DEF BinderInv

\* A step that touches one transaction, m.
OneMoves(m) ==
  /\ \A u \in Tx \ {m} : tx'[u] = tx[u]
  /\ \A T \in Thread : InTodo(T)' \ {m} = InTodo(T) \ {m}
  /\ \A p \in Proc : InProc(p)' \ {m} = InProc(p) \ {m} /\ InAsync(p)' \ {m} = InAsync(p) \ {m}

\* Nothing but m has moved.
LEMMA OneMovesFacts ==
  ASSUME BinderTypeOK, BinderTypeOK', NEW m, OneMoves(m)
  PROVE  /\ MovesOnly(m) /\ QueuedTx' \ {m} = QueuedTx \ {m}
         /\ \A p \in Proc : Way(p)' \ {m} = Way(p) \ {m}
<1>1. ASSUME NEW u, u # m
      PROVE  /\ \A T \in Thread : u \in InTodo(T)' <=> u \in InTodo(T)
             /\ \A p \in Proc : u \in InProc(p)' <=> u \in InProc(p)
             /\ \A p \in Proc : u \in InAsync(p)' <=> u \in InAsync(p)
  BY <1>1 DEF OneMoves
<1>2. ASSUME NEW u, u # m PROVE u \in QueuedTx' <=> u \in QueuedTx
  BY <1>1, <1>2, InQueue, InQueueNext
<1>3. QueuedTx' \ {m} = QueuedTx \ {m}
  BY <1>2
<1>4. ASSUME NEW p \in Proc, NEW u, u # m PROVE u \in Way(p)' <=> u \in Way(p)
  <2>1. CASE u \in Tx
    <3>1. tx'[u] = tx[u]
      BY <1>4, <2>1 DEF OneMoves
    <3> QED BY <1>1, <1>4, <2>1, <3>1 DEF Way
  <2>2. CASE u \notin Tx
    BY <2>2 DEF Way
  <2> QED BY <2>1, <2>2
<1>5. \A p \in Proc : Way(p)' \ {m} = Way(p) \ {m}
  BY <1>4
<1>6. MovesOnly(m)
  <2>1. /\ \A T \in Thread : InTodo(T)' \subseteq InTodo(T) \cup {m}
        /\ \A p \in Proc : /\ InProc(p)' \subseteq InProc(p) \cup {m}
                           /\ InAsync(p)' \subseteq InAsync(p) \cup {m}
    BY <1>1
  <2>2. QueuedTx' \subseteq Tx
    BY DEF QueuedTx
  <2>3. \A u \in QueuedTx' \ {m} : tx'[u] = tx[u]
    BY <2>2 DEF OneMoves
  <2> QED BY <2>1, <2>3 DEF MovesOnly
<1> QED BY <1>3, <1>5, <1>6

\* A transaction that is free is in no list.
LEMMA NotQueued ==
  ASSUME BinderInv, NEW t \in Tx, tx[t] = Free
  PROVE  /\ t \notin QueuedTx /\ ~IsCall(tx, t)
         /\ \A T \in Thread : t \notin InTodo(T)
         /\ \A p \in Proc : t \notin InProc(p) /\ t \notin InAsync(p) /\ t \notin Way(p)
<1>1. BinderTypeOK /\ Sound(tx, stack, QueuedTx, {})
  BY HeapFacts DEF BinderInv
<1>2. tx[t].kind = "free"
  BY FreeFields
<1>3. t \notin QueuedTx
  BY <1>1, <1>2 DEF Sound, Waits
<1>4. /\ \A T \in Thread : t \notin InTodo(T)
      /\ \A p \in Proc : t \notin InProc(p) /\ t \notin InAsync(p)
  BY <1>1, <1>3, InQueue
<1> QED BY <1>2, <1>3, <1>4 DEF IsCall, Way

\* A confirmation is added to the list of a thread.
LEMMA Confirmed ==
  ASSUME BinderInv, NEW T \in Thread, NEW list, list = Append(todo[T], Complete)
  PROVE  list \in Seq(Work) /\ Once(list) /\ TxOf(list) = InTodo(T)
<1>1. todo[T] \in Seq(Work) /\ Once(todo[T]) /\ Complete \in Work /\ Complete \notin TxOf(todo[T])
  BY TypeFacts DEF BinderInv, ListsOnce, Work, TxOf
<1> QED BY <1>1, AppendList DEF InTodo

\* One transaction that is not a call is made or freed.
Changed(X, X2, t) ==
  /\ X2 \in TxMap /\ \A u \in Tx \ {t} : X2[u] = X[u]
  /\ X2[t].kind # "call" /\ X2[t].from = NULL /\ X2[t].from_parent = NULL /\ X2[t].to_parent = NULL
  /\ X2[t].kind \in {"free", "oneway"} => X2[t].to_thread = NULL

\* One transaction that is not a call changes.
LEMMA PlainOne ==
  ASSUME NEW X, NEW st, NEW W, Sound(X, st, W, {}), NEW t \in Tx, ~IsCall(X, t),
         NEW X2, Changed(X, X2, t), NEW W2 \in SUBSET Tx, W2 \ {t} = W \ {t},
         t \in W2 <=> X2[t].kind # "free"
  PROVE  Sound(X2, st, W2, {})
<1>0. Shaped(X) /\ Waits(X, st, W) /\ Cared(X, W)
  BY DEF Sound
<1>1. ASSUME NEW u \in Tx, u # t PROVE X2[u] = X[u] /\ (u \in W2 <=> u \in W)
  BY <1>1 DEF Changed
<1>2. ASSUME NEW u \in Tx, IsCall(X, u)
      PROVE  X2[u] = X[u] /\ (u \in W2 <=> u \in W)
  BY <1>1, <1>2
<1>3. ASSUME NEW u \in Tx, ~IsCall(X, u)
      PROVE  /\ X2[u].kind # "call" /\ X2[u].from = NULL /\ X2[u].from_parent = NULL
             /\ X2[u].to_parent = NULL
             /\ X2[u].kind \in {"free", "oneway"} => X2[u].to_thread = NULL
             /\ u \in W2 => X2[u].kind # "free"
             /\ X2[u].kind # "free" => u \in W2
  <2>1. CASE u = t
    BY <2>1 DEF Changed
  <2>2. CASE u # t
    <3>1. X2[u] = X[u] /\ (u \in W2 <=> u \in W)
      BY <1>1, <2>2
    <3>2. X[u].kind # "call" /\ X[u].from = NULL /\ X[u].from_parent = NULL /\ X[u].to_parent = NULL
          /\ (X[u].kind \in {"free", "oneway"} => X[u].to_thread = NULL)
      BY <1>0, <1>3 DEF Shaped, IsCall
    <3>3. X \in TxMap /\ X[u].kind \in {"free", "call", "oneway", "reply"}
      BY DEF Sound, TxMap, TxRecord
    <3>4. (u \in W => X[u].kind # "free") /\ (X[u].kind # "free" => u \in W)
      BY <1>0, <3>2, <3>3 DEF Waits, Cared
    <3> QED BY <3>1, <3>2, <3>4
  <2> QED BY <2>1, <2>2
<1>4. X2 \in TxMap
  BY DEF Changed
<1>5. Plain(X, W, {}, X2, W2, {})
  BY <1>2, <1>3, <1>4 DEF Plain
<1> QED BY <1>5, PlainChange

\* A one-way call.
LEMMA CallOneWayStep ==
  ASSUME BinderInv, NEW T \in Thread, NEW q \in Proc, NEW t \in Tx, CallOneWay(T, q, t)
  PROVE  BinderInv'
<1>0. BinderTypeOK /\ HeapSound(Heap, QueuedTx, {}) /\ ListsOnce /\ Suited /\ Apart /\ WakeupsNotLost /\ OneWayInTurn
  BY DEF BinderInv
<1>1. /\ tx \in TxMap /\ stack \in StackType /\ todo \in [Thread -> Seq(Work)]
      /\ return_error \in ErrorType /\ return_error2 \in ErrorType /\ ModeType
      /\ woken \in [Thread -> BOOLEAN] /\ proc_todo \in [Proc -> Seq(Tx)]
      /\ async_todo \in [Proc -> Seq(Tx)]
      /\ has_async \in [Proc -> BOOLEAN] /\ held \in [Proc -> Nat]
      /\ released \subseteq Proc /\ dropped \subseteq Proc
  BY <1>0, TypeFacts
<1> DEFINE new == [Free EXCEPT !.kind = "oneway", !.node = q]
<1>2. /\ mode[T] = "user" /\ tx[t] = Free /\ tx' = [tx EXCEPT ![t] = new]
      /\ todo' = [todo EXCEPT ![T] = Append(todo[T], Complete)]
      /\ stack' = stack /\ return_error' = return_error /\ return_error2' = return_error2 /\ mode' = mode
      /\ held' = held /\ dropped' = dropped /\ released' = released
  BY DEF CallOneWay, MayWrite, Running
<1>3. /\ t \notin QueuedTx /\ ~IsCall(tx, t)
      /\ \A S \in Thread : t \notin InTodo(S)
      /\ \A p \in Proc : t \notin InProc(p) /\ t \notin InAsync(p) /\ t \notin Way(p)
  BY <1>2, NotQueued
<1>4. /\ new \in TxRecord /\ new.kind = "oneway" /\ new.node = q /\ new.from = NULL
      /\ new.from_parent = NULL /\ new.to_parent = NULL /\ new.to_thread = NULL
  BY DEF Free, TxRecord
<1> HIDE DEF new
<1>5. tx' \in TxMap /\ tx'[t] = new /\ \A u \in Tx \ {t} : tx'[u] = tx[u]
  BY <1>1, <1>2, <1>4 DEF TxMap
<1>6. /\ todo' \in [Thread -> Seq(Work)] /\ \A S \in Thread \ {T} : todo'[S] = todo[S]
      /\ \A S \in Thread : InTodo(S)' = InTodo(S) /\ Once(todo'[S])
  <2>1. Append(todo[T], Complete) \in Seq(Work) /\ Once(Append(todo[T], Complete))
        /\ TxOf(Append(todo[T], Complete)) = InTodo(T)
    BY Confirmed
  <2> QED BY <1>0, <1>1, <1>2, <2>1 DEF InTodo, ListsOnce
<1>a. CASE /\ has_async[q] /\ async_todo' = [async_todo EXCEPT ![q] = Append(@, t)]
           /\ UNCHANGED <<has_async, proc_todo, woken>>
  <2>1. /\ async_todo' \in [Proc -> Seq(Tx)] /\ \A p \in Proc \ {q} : async_todo'[p] = async_todo[p]
        /\ async_todo'[q] = Append(async_todo[q], t)
    BY <1>1, <1>a
  <2>2. BinderTypeOK'
    BY <1>1, <1>2, <1>5, <1>6, <1>a, <2>1, TypesAgain DEF ModeType
  <2>3. async_todo[q] \in Seq(Work) /\ Once(async_todo[q]) /\ t \in Work /\ t \notin TxOf(async_todo[q])
    BY <1>0, <1>3, PlaceFacts DEF ListsOnce, Work, InAsync
  <2>4. Once(async_todo'[q]) /\ TxOf(async_todo'[q]) = TxOf(async_todo[q]) \cup {t}
    <3>1. t # Complete
      BY BinderAssumption
    <3>2. /\ Once(Append(async_todo[q], t))
          /\ TxOf(Append(async_todo[q], t)) = TxOf(async_todo[q]) \cup ({t} \ {Complete})
      BY <2>3, AppendList
    <3> QED BY <2>1, <3>1, <3>2
  <2>5. ListsOnce'
    BY <1>0, <1>6, <1>a, <2>1, <2>4 DEF ListsOnce
  <2>6. /\ \A p \in Proc : InProc(p)' = InProc(p)
        /\ \A p \in Proc : InAsync(p)' = IF p = q THEN InAsync(p) \cup {t} ELSE InAsync(p)
    BY <1>a, <2>1, <2>4 DEF InProc, InAsync
  <2>7. OneMoves(t)
    BY <1>5, <1>6, <2>6 DEF OneMoves
  <2>8. /\ MovesOnly(t) /\ QueuedTx' \ {t} = QueuedTx \ {t} /\ \A p \in Proc : Way(p)' \ {t} = Way(p) \ {t}
    BY <1>0, <2>2, <2>7, OneMovesFacts
  <2>9. t \in QueuedTx' /\ QueuedTx' \subseteq Tx
    BY <2>2, <2>6, InQueueNext DEF QueuedTx
  <2>10. Placed(t)'
    BY <1>3, <1>4, <1>5, <1>6, <2>6 DEF Placed, SuitsNode
  <2>11. Suited' /\ Apart'
    BY <1>0, <2>2, <2>8, <2>10, PlacesStep
  <2>12. \A p \in Proc : t \notin Way(p)'
    BY <1>3, <1>6, <2>6 DEF Way
  <2>13. \A p \in Proc \ dropped' : p \notin dropped /\ WayStep(p)
    <3>1. ASSUME NEW p \in Proc PROVE Way(p)' = Way(p)
      <4>1. t \notin Way(p)' /\ t \notin Way(p) /\ Way(p)' \ {t} = Way(p) \ {t}
        BY <1>3, <2>8, <2>12
      <4> QED BY <4>1
    <3> QED BY <1>0, <1>2, <1>a, <2>1, <3>1 DEF WayStep, WaySame, OneWayInTurn
  <2>14. OneWayInTurn'
    BY <1>0, <2>2, <2>13, TurnStep
  <2>15. WakeupsNotLost'
    BY <1>0, <1>2, <1>6, <1>a DEF WakeupsNotLost
  <2>16. Sound(tx, stack, QueuedTx, {})
    BY <1>0, HeapFacts
  <2>17. Sound(tx', stack', QueuedTx', {})
    <3>1. Changed(tx, tx', t)
      BY <1>4, <1>5 DEF Changed
    <3>2. ~IsCall(tx, t) /\ tx'[t].kind # "free" /\ t \in QueuedTx'
      BY <1>3, <1>4, <1>5, <2>9
    <3>3. QueuedTx' \in SUBSET Tx /\ QueuedTx' \ {t} = QueuedTx \ {t}
      BY <2>8, <2>9
    <3>4. Sound(tx', stack, QueuedTx', {})
      BY <2>16, <3>1, <3>2, <3>3, PlainOne
    <3> QED BY <1>2, <3>4
  <2>18. HeapSound(Heap, QueuedTx, {})'
    <3>1. \A S \in Thread :
          /\ return_error2[S] # "OK" => /\ return_error[S] # "OK"
                                        /\ stack[S] = NULL \/ tx[stack[S]].to_thread = S
          /\ mode[S] = "proc" => stack[S] = NULL
          /\ mode[S] # "user" /\ ~woken[S] => return_error[S] = "OK"
      BY <1>0, HeapFacts
    <3>2. \A S \in Thread : stack[S] \in Tx \cup {NULL} /\ S # NULL
      BY <1>1, BinderAssumption DEF StackType
    <3>3. ASSUME NEW S \in Thread, tx[stack[S]].to_thread = S, stack[S] # NULL PROVE tx'[stack'[S]].to_thread = S
      BY <1>2, <1>5, <3>2, <3>3, FreeFields
    <3> QED BY <1>2, <1>a, <2>2, <2>17, <3>1, <3>3, HeapAgain
  <2> QED BY <2>2, <2>5, <2>11, <2>14, <2>15, <2>18 DEF BinderInv
<1>b. CASE /\ ~has_async[q] /\ has_async' = [has_async EXCEPT ![q] = TRUE]
           /\ proc_todo' = [proc_todo EXCEPT ![q] = Append(@, t)]
           /\ WakeProc(q, woken) /\ UNCHANGED async_todo
  <2>1. /\ proc_todo' \in [Proc -> Seq(Tx)] /\ \A p \in Proc \ {q} : proc_todo'[p] = proc_todo[p]
        /\ proc_todo'[q] = Append(proc_todo[q], t)
        /\ has_async' \in [Proc -> BOOLEAN] /\ has_async'[q] = TRUE
        /\ \A p \in Proc \ {q} : has_async'[p] = has_async[p]
        /\ async_todo' = async_todo
    BY <1>1, <1>b
  <2>w. woken' \in [Thread -> BOOLEAN] /\ \A S \in Thread : woken[S] => woken'[S]
    <3>1. woken' = woken \/ \E S \in Thread : woken' = [woken EXCEPT ![S] = TRUE]
      BY <1>b DEF WakeProc, Sleepers
    <3> QED BY <1>1, <3>1
  <2>2. BinderTypeOK'
    BY <1>1, <1>2, <1>5, <1>6, <2>1, <2>w, TypesAgain DEF ModeType
  <2>3. proc_todo[q] \in Seq(Work) /\ Once(proc_todo[q]) /\ t \in Work /\ t \notin TxOf(proc_todo[q])
    BY <1>0, <1>3, PlaceFacts DEF ListsOnce, Work, InProc
  <2>4. Once(proc_todo'[q]) /\ TxOf(proc_todo'[q]) = TxOf(proc_todo[q]) \cup {t}
    <3>1. t # Complete
      BY BinderAssumption
    <3>2. /\ Once(Append(proc_todo[q], t))
          /\ TxOf(Append(proc_todo[q], t)) = TxOf(proc_todo[q]) \cup ({t} \ {Complete})
      BY <2>3, AppendList
    <3> QED BY <2>1, <3>1, <3>2
  <2>5. ListsOnce'
    BY <1>0, <1>6, <2>1, <2>4 DEF ListsOnce
  <2>6. /\ \A p \in Proc : InAsync(p)' = InAsync(p)
        /\ \A p \in Proc : InProc(p)' = IF p = q THEN InProc(p) \cup {t} ELSE InProc(p)
    BY <2>1, <2>4 DEF InProc, InAsync
  <2>7. OneMoves(t)
    BY <1>5, <1>6, <2>6 DEF OneMoves
  <2>8. /\ MovesOnly(t) /\ QueuedTx' \ {t} = QueuedTx \ {t} /\ \A p \in Proc : Way(p)' \ {t} = Way(p) \ {t}
    BY <1>0, <2>2, <2>7, OneMovesFacts
  <2>9. t \in QueuedTx' /\ QueuedTx' \subseteq Tx
    BY <2>2, <2>6, InQueueNext DEF QueuedTx
  <2>10. Placed(t)'
    BY <1>3, <1>4, <1>5, <1>6, <2>6 DEF Placed, SuitsProc
  <2>11. Suited' /\ Apart'
    BY <1>0, <2>2, <2>8, <2>10, PlacesStep
  <2>12. t \in Way(q)' /\ \A p \in Proc \ {q} : t \notin Way(p)'
    BY <1>3, <1>4, <1>5, <1>6, <2>6 DEF Way
  <2>13. \A p \in Proc \ dropped' : p \notin dropped /\ WayStep(p)
    <3>1. \A p \in Proc \ {q} : Way(p)' = Way(p)
      BY <1>3, <2>8, <2>12
    <3>2. Way(q)' = Way(q) \cup {t} /\ t \notin Way(q)
      BY <1>3, <2>8, <2>12
    <3>3. WayFirst(q)
      BY <1>2, <1>b, <2>1, <3>2 DEF WayFirst
    <3>4. \A p \in Proc \ {q} : p \notin dropped => WaySame(p)
      BY <1>0, <1>2, <2>1, <3>1 DEF WaySame, OneWayInTurn
    <3> QED BY <1>2, <3>3, <3>4 DEF WayStep
  <2>14. OneWayInTurn'
    BY <1>0, <2>2, <2>13, TurnStep
  <2>15. WakeupsNotLost'
    <3>1. \A S \in Thread : mode'[S] # "user" /\ ~woken[S] =>
           /\ mode'[S] = mode[S] /\ ~woken[S] /\ todo'[S] = todo[S]
           /\ return_error'[S] = return_error[S]
      BY <1>2, <1>6
    <3>2. \A S \in Thread : ProcOf[S] # q /\ woken[S] /\ mode[S] = "proc" => woken[S] /\ mode'[S] = "proc"
      BY <1>2
    <3>3. \A p \in Proc \ {q} : proc_todo'[p] # <<>> => proc_todo[p] # <<>>
      BY <2>1
    <3> QED BY <1>0, <1>1, <1>b, <3>1, <3>2, <3>3, WakeOne
  <2>16. Sound(tx, stack, QueuedTx, {})
    BY <1>0, HeapFacts
  <2>17. Sound(tx', stack', QueuedTx', {})
    <3>1. Changed(tx, tx', t)
      BY <1>4, <1>5 DEF Changed
    <3>2. ~IsCall(tx, t) /\ tx'[t].kind # "free" /\ t \in QueuedTx'
      BY <1>3, <1>4, <1>5, <2>9
    <3>3. QueuedTx' \in SUBSET Tx /\ QueuedTx' \ {t} = QueuedTx \ {t}
      BY <2>8, <2>9
    <3>4. Sound(tx', stack, QueuedTx', {})
      BY <2>16, <3>1, <3>2, <3>3, PlainOne
    <3> QED BY <1>2, <3>4
  <2>18. HeapSound(Heap, QueuedTx, {})'
    <3>1. \A S \in Thread :
          /\ return_error2[S] # "OK" => /\ return_error[S] # "OK"
                                        /\ stack[S] = NULL \/ tx[stack[S]].to_thread = S
          /\ mode[S] = "proc" => stack[S] = NULL
          /\ mode[S] # "user" /\ ~woken[S] => return_error[S] = "OK"
      BY <1>0, HeapFacts
    <3>2. \A S \in Thread : stack[S] \in Tx \cup {NULL} /\ S # NULL
      BY <1>1, BinderAssumption DEF StackType
    <3>3. ASSUME NEW S \in Thread, tx[stack[S]].to_thread = S, stack[S] # NULL PROVE tx'[stack'[S]].to_thread = S
      BY <1>2, <1>5, <3>2, <3>3, FreeFields
    <3> QED BY <1>2, <2>2, <2>w, <2>17, <3>1, <3>3, HeapAgain
  <2> QED BY <2>2, <2>5, <2>11, <2>14, <2>15, <2>18 DEF BinderInv
<1> QED BY <1>a, <1>b DEF CallOneWay

\* A call: to the thread that waits for this one, if there is one, or to its process.
LEMMA CallStep ==
  ASSUME BinderInv, NEW T \in Thread, NEW q \in Proc, NEW t \in Tx, Call(T, q, t)
  PROVE  BinderInv'
<1>0. BinderTypeOK /\ HeapSound(Heap, QueuedTx, {}) /\ ListsOnce /\ Suited /\ Apart /\ WakeupsNotLost /\ OneWayInTurn
  BY DEF BinderInv
<1>1. /\ tx \in TxMap /\ stack \in StackType /\ todo \in [Thread -> Seq(Work)]
      /\ return_error \in ErrorType /\ return_error2 \in ErrorType /\ ModeType
      /\ woken \in [Thread -> BOOLEAN] /\ proc_todo \in [Proc -> Seq(Tx)]
      /\ async_todo \in [Proc -> Seq(Tx)]
      /\ has_async \in [Proc -> BOOLEAN] /\ held \in [Proc -> Nat]
      /\ released \subseteq Proc /\ dropped \subseteq Proc
  BY <1>0, TypeFacts
<1> DEFINE g == Waiting(tx, stack[T], q)
           new == [kind |-> "call", from |-> T, from_parent |-> stack[T], to_thread |-> g,
                   to_parent |-> NULL, node |-> q]
           done == [todo EXCEPT ![T] = Append(todo[T], Complete)]
<1>2. /\ mode[T] = "user" /\ return_error[T] = "OK" /\ tx[t] = Free /\ tx' = [tx EXCEPT ![t] = new]
      /\ q # ProcOf[T] /\ (stack[T] # NULL => tx[stack[T]].to_thread = T)
      /\ stack' = [stack EXCEPT ![T] = t]
      /\ return_error' = return_error /\ return_error2' = return_error2 /\ mode' = mode
      /\ UNCHANGED node_vars /\ released' = released
  BY DEF Call, MayWrite, Running, MayCall
<1>n. held' = held /\ has_async' = has_async /\ async_todo' = async_todo /\ dropped' = dropped
  BY <1>2 DEF node_vars
<1>3. /\ t \notin QueuedTx /\ ~IsCall(tx, t)
      /\ \A S \in Thread : t \notin InTodo(S)
      /\ \A p \in Proc : t \notin InProc(p) /\ t \notin InAsync(p) /\ t \notin Way(p)
  BY <1>2, NotQueued
<1>4. Sound(tx, stack, QueuedTx, {}) /\ stack[T] \in Tx \cup {NULL}
  BY <1>0, <1>1, HeapFacts DEF StackType
<1>5. Sound(tx', stack', QueuedTx \cup {t}, {})
  BY <1>2, <1>4, Pushed
<1>6. g # NULL => g \in Thread /\ ProcOf[g] = q /\ g # T
  <2>1. g = Waiting(tx, stack[T], q)
    OBVIOUS
  <2> HIDE DEF g
  <2>2. g # NULL => g \in Thread /\ ProcOf[g] = q
    BY <1>1, <1>4, <2>1, WaitingFacts
  <2> QED BY <1>2, <2>2
<1>7. /\ new.kind = "call" /\ new.node = q /\ new.to_thread = g
  OBVIOUS
<1>8. /\ tx' \in TxMap /\ stack' \in StackType
  BY <1>5 DEF Sound
<1> HIDE DEF g, new
<1>9. /\ tx'[t] = new /\ \A u \in Tx \ {t} : tx'[u] = tx[u]
      /\ stack'[T] = t /\ \A S \in Thread \ {T} : stack'[S] = stack[S]
  BY <1>1, <1>2 DEF TxMap, StackType
<1>10. /\ done \in [Thread -> Seq(Work)] /\ \A S \in Thread \ {T} : done[S] = todo[S]
       /\ \A S \in Thread : TxOf(done[S]) = InTodo(S) /\ Once(done[S])
  <2>1. Append(todo[T], Complete) \in Seq(Work) /\ Once(Append(todo[T], Complete))
        /\ TxOf(Append(todo[T], Complete)) = InTodo(T)
    BY Confirmed
  <2> QED BY <1>0, <1>1, <2>1 DEF InTodo, ListsOnce
<1>11. \A p \in Proc : InAsync(p)' = InAsync(p)
  BY <1>n DEF InAsync
<1>12. \A S \in Thread :
          /\ return_error2[S] # "OK" => /\ return_error[S] # "OK"
                                        /\ stack[S] = NULL \/ tx[stack[S]].to_thread = S
          /\ mode[S] = "proc" => stack[S] = NULL
          /\ mode[S] # "user" /\ ~woken[S] => return_error[S] = "OK"
  BY <1>0, HeapFacts
<1>13. ASSUME NEW S \in Thread, return_error2[S] # "OK"
       PROVE  return_error[S] # "OK" /\ (stack'[S] = NULL \/ tx'[stack'[S]].to_thread = S)
  <2>1. S # T /\ return_error[S] # "OK" /\ (stack[S] = NULL \/ tx[stack[S]].to_thread = S)
    BY <1>2, <1>12, <1>13
  <2>2. stack[S] \in Tx \cup {NULL} /\ S # NULL
    BY <1>1, BinderAssumption DEF StackType
  <2> QED BY <1>2, <1>9, <2>1, <2>2, FreeFields
<1>14. ASSUME BinderTypeOK', QueuedTx' = QueuedTx \cup {t}, \A S \in Thread : woken[S] => woken'[S]
       PROVE  HeapSound(Heap, QueuedTx, {})'
  <2>1. Sound(tx', stack', QueuedTx', {})
    BY <1>5, <1>14
  <2>2. \A S \in Thread : /\ mode'[S] = "proc" => stack'[S] = NULL
                          /\ mode'[S] # "user" /\ ~woken'[S] => return_error'[S] = "OK"
    BY <1>2, <1>9, <1>12, <1>14
  <2> QED BY <1>2, <1>13, <1>14, <2>1, <2>2, HeapAgain
<1>15. ASSUME BinderTypeOK', OneMoves(t) PROVE OneWayInTurn' /\ MovesOnly(t) /\ QueuedTx' \ {t} = QueuedTx \ {t}
  <2>1. MovesOnly(t) /\ QueuedTx' \ {t} = QueuedTx \ {t} /\ \A p \in Proc : Way(p)' \ {t} = Way(p) \ {t}
    BY <1>0, <1>15, OneMovesFacts
  <2>2. \A p \in Proc : t \notin Way(p)'
    BY <1>7, <1>9 DEF Way
  <2>3. ASSUME NEW p \in Proc PROVE Way(p)' = Way(p)
    <3>1. Way(p)' \ {t} = Way(p) \ {t} /\ t \notin Way(p) /\ t \notin Way(p)'
      BY <1>3, <2>1, <2>2
    <3> QED BY <3>1
  <2>4. \A p \in Proc \ dropped' : p \notin dropped /\ WayStep(p)
    BY <1>0, <1>n, <2>3 DEF WayStep, WaySame, OneWayInTurn
  <2> QED BY <1>0, <1>15, <2>1, <2>4, TurnStep
<1>a. CASE /\ g # NULL /\ todo' = [done EXCEPT ![g] = Append(done[g], t)]
           /\ woken' = [woken EXCEPT ![g] = woken[g] \/ mode[g] = "thread"]
           /\ proc_todo' = proc_todo
  <2>0. g \in Thread /\ g # T /\ done[g] = todo[g]
    BY <1>6, <1>10, <1>a
  <2>1. todo[g] \in Seq(Work) /\ Once(todo[g]) /\ t \in Work /\ t \notin TxOf(todo[g])
    BY <1>0, <1>1, <1>3, <2>0 DEF ListsOnce, Work, InTodo
  <2>2. Append(todo[g], t) \in Seq(Work) /\ Once(Append(todo[g], t)) /\ TxOf(Append(todo[g], t)) = TxOf(todo[g]) \cup {t}
    <3>1. t # Complete
      BY BinderAssumption
    <3>2. /\ Append(todo[g], t) \in Seq(Work) /\ Once(Append(todo[g], t))
          /\ TxOf(Append(todo[g], t)) = TxOf(todo[g]) \cup ({t} \ {Complete})
      BY <2>1, AppendList
    <3> QED BY <3>1, <3>2
  <2>3. /\ todo' \in [Thread -> Seq(Work)] /\ todo'[g] = Append(todo[g], t)
        /\ \A S \in Thread \ {g} : todo'[S] = done[S]
    <3> HIDE DEF done
    <3> QED BY <1>10, <1>a, <2>0, <2>2
  <2>4. woken' \in [Thread -> BOOLEAN] /\ (\A S \in Thread : woken[S] => woken'[S])
        /\ (mode[g] = "thread" => woken'[g]) /\ \A S \in Thread \ {g} : woken'[S] = woken[S]
    BY <1>1, <1>a, <2>0
  <2>5. BinderTypeOK'
    BY <1>1, <1>2, <1>n, <1>8, <1>a, <2>3, <2>4, TypesAgain DEF ModeType
  <2> HIDE DEF done
  <2>6. /\ \A S \in Thread : InTodo(S)' = IF S = g THEN InTodo(S) \cup {t} ELSE InTodo(S)
        /\ \A p \in Proc : InProc(p)' = InProc(p)
    BY <1>10, <1>a, <2>2, <2>3 DEF InTodo, InProc
  <2>7. ListsOnce'
    BY <1>0, <1>10, <1>n, <1>a, <2>2, <2>3 DEF ListsOnce
  <2>8. OneMoves(t)
    BY <1>9, <1>11, <2>6 DEF OneMoves
  <2>9. OneWayInTurn' /\ MovesOnly(t) /\ QueuedTx' \ {t} = QueuedTx \ {t}
    BY <1>15, <2>5, <2>8
  <2>10. t \in QueuedTx'
    BY <2>0, <2>5, <2>6, InQueueNext
  <2>11. QueuedTx' = QueuedTx \cup {t}
    BY <2>9, <2>10
  <2>12. HeapSound(Heap, QueuedTx, {})'
    BY <1>14, <2>4, <2>5, <2>11
  <2>13. Placed(t)'
    BY <1>3, <1>7, <1>9, <1>11, <2>6 DEF Placed, SuitsThread
  <2>14. Suited' /\ Apart'
    BY <1>0, <2>5, <2>9, <2>13, PlacesStep
  <2>15. mode[g] # "proc"
    <3>1. QueuedFor(tx', stack', t, g)
      BY <1>5, <1>7, <1>9, <1>a DEF Sound, Waits, IsCall
    <3>2. stack[g] # NULL
      BY <1>9, <2>0, <3>1 DEF QueuedFor
    <3> QED BY <1>12, <2>0, <3>2
  <2>16. WakeupsNotLost'
    <3>1. mode[g] \in {"user", "proc", "thread"}
      BY <1>1, <2>0 DEF ModeType
    <3>2. \A S \in Thread : mode'[S] # "user" /\ ~woken'[S] => S # g /\ S # T /\ ~woken[S] /\ todo'[S] = todo[S]
      BY <1>2, <1>10, <2>3, <2>4, <2>15, <3>1
    <3>3. \A S \in Thread : mode'[S] # "user" /\ ~woken'[S] => todo'[S] = <<>> /\ return_error'[S] = "OK"
      BY <1>0, <1>2, <3>2 DEF WakeupsNotLost
    <3>4. \A S \in Thread : mode'[S] = "proc" /\ ~woken'[S] /\ proc_todo'[ProcOf[S]] # <<>> =>
            mode[S] = "proc" /\ ~woken[S] /\ proc_todo[ProcOf[S]] # <<>>
      BY <1>2, <1>a, <2>4
    <3>5. \A S \in Thread : mode[S] = "proc" /\ woken[S] /\ proc_todo'[ProcOf[S]] # <<>> =>
            mode'[S] = "proc" /\ woken'[S]
      BY <1>2, <2>4
    <3> QED BY <1>0, <3>3, <3>4, <3>5, WakeNone
  <2> QED BY <2>5, <2>7, <2>9, <2>12, <2>14, <2>16 DEF BinderInv
<1>b. CASE /\ g = NULL /\ todo' = done /\ proc_todo' = [proc_todo EXCEPT ![q] = Append(@, t)]
           /\ WakeProc(q, woken)
  <2>1. /\ proc_todo' \in [Proc -> Seq(Tx)] /\ \A p \in Proc \ {q} : proc_todo'[p] = proc_todo[p]
        /\ proc_todo'[q] = Append(proc_todo[q], t)
    BY <1>1, <1>b
  <2>w. woken' \in [Thread -> BOOLEAN] /\ \A S \in Thread : woken[S] => woken'[S]
    <3>1. woken' = woken \/ \E S \in Thread : woken' = [woken EXCEPT ![S] = TRUE]
      BY <1>b DEF WakeProc, Sleepers
    <3> QED BY <1>1, <3>1
  <2> HIDE DEF done
  <2>2. BinderTypeOK'
    BY <1>1, <1>2, <1>n, <1>8, <1>10, <1>b, <2>1, <2>w, TypesAgain DEF ModeType
  <2>3. proc_todo[q] \in Seq(Work) /\ Once(proc_todo[q]) /\ t \in Work /\ t \notin TxOf(proc_todo[q])
    BY <1>0, <1>3, PlaceFacts DEF ListsOnce, Work, InProc
  <2>4. Once(proc_todo'[q]) /\ TxOf(proc_todo'[q]) = TxOf(proc_todo[q]) \cup {t}
    <3>1. t # Complete
      BY BinderAssumption
    <3>2. /\ Once(Append(proc_todo[q], t))
          /\ TxOf(Append(proc_todo[q], t)) = TxOf(proc_todo[q]) \cup ({t} \ {Complete})
      BY <2>3, AppendList
    <3> QED BY <2>1, <3>1, <3>2
  <2>5. ListsOnce'
    BY <1>0, <1>10, <1>n, <1>b, <2>1, <2>4 DEF ListsOnce
  <2>6. /\ \A S \in Thread : InTodo(S)' = InTodo(S)
        /\ \A p \in Proc : InProc(p)' = IF p = q THEN InProc(p) \cup {t} ELSE InProc(p)
    BY <1>10, <1>b, <2>1, <2>4 DEF InProc, InTodo
  <2>7. OneMoves(t)
    BY <1>9, <1>11, <2>6 DEF OneMoves
  <2>8. OneWayInTurn' /\ MovesOnly(t) /\ QueuedTx' \ {t} = QueuedTx \ {t}
    BY <1>15, <2>2, <2>7
  <2>9. t \in QueuedTx'
    BY <2>2, <2>6, InQueueNext
  <2>10. QueuedTx' = QueuedTx \cup {t}
    BY <2>8, <2>9
  <2>11. HeapSound(Heap, QueuedTx, {})'
    BY <1>14, <2>w, <2>2, <2>10
  <2>12. Placed(t)'
    BY <1>3, <1>7, <1>9, <1>11, <1>b, <2>6 DEF Placed, SuitsProc
  <2>13. Suited' /\ Apart'
    BY <1>0, <2>2, <2>8, <2>12, PlacesStep
  <2>14. WakeupsNotLost'
    <3>1. \A S \in Thread : mode'[S] # "user" /\ ~woken[S] =>
           /\ mode'[S] = mode[S] /\ ~woken[S] /\ todo'[S] = todo[S]
           /\ return_error'[S] = return_error[S]
      BY <1>2, <1>10, <1>b
    <3>2. \A S \in Thread : ProcOf[S] # q /\ woken[S] /\ mode[S] = "proc" => woken[S] /\ mode'[S] = "proc"
      BY <1>2
    <3>3. \A p \in Proc \ {q} : proc_todo'[p] # <<>> => proc_todo[p] # <<>>
      BY <2>1
    <3> QED BY <1>0, <1>1, <1>b, <3>1, <3>2, <3>3, WakeOne
  <2> QED BY <2>2, <2>5, <2>8, <2>11, <2>13, <2>14 DEF BinderInv
<1> QED BY <1>a, <1>b DEF Call, g, done

\* A reply, which takes the place of the call in the list of the sender.
LEMMA ReplyStep ==
  ASSUME BinderInv, NEW T \in Thread, Reply(T)
  PROVE  BinderInv'
<1>0. BinderTypeOK /\ HeapSound(Heap, QueuedTx, {}) /\ ListsOnce /\ Suited /\ Apart /\ WakeupsNotLost /\ OneWayInTurn
  BY DEF BinderInv
<1>1. /\ tx \in TxMap /\ stack \in StackType /\ todo \in [Thread -> Seq(Work)]
      /\ return_error \in ErrorType /\ return_error2 \in ErrorType /\ ModeType
      /\ woken \in [Thread -> BOOLEAN] /\ proc_todo \in [Proc -> Seq(Tx)]
      /\ async_todo \in [Proc -> Seq(Tx)]
      /\ has_async \in [Proc -> BOOLEAN] /\ held \in [Proc -> Nat]
      /\ released \subseteq Proc /\ dropped \subseteq Proc
  BY <1>0, TypeFacts
<1>t. PICK t, c : t = stack[T] /\ c = tx[t].from
  OBVIOUS
<1> DEFINE new == [Free EXCEPT !.kind = "reply", !.to_thread = c]
           st == [stack EXCEPT ![T] = tx[t].to_parent]
           R == FailedPath(tx, t)
<1>2. /\ mode[T] = "user" /\ return_error[T] = "OK" /\ t # NULL /\ tx[t].to_thread = T /\ c # NULL
      /\ stack[c] = t /\ tx' = [tx EXCEPT ![t] = new]
      /\ stack' = [stack EXCEPT ![T] = tx[t].to_parent, ![c] = tx[t].from_parent]
      /\ todo' = [todo EXCEPT ![c] = Append(@, t), ![T] = Append(@, Complete)]
      /\ woken' = [woken EXCEPT ![c] = woken[c] \/ mode[c] = "thread"]
      /\ return_error' = return_error /\ return_error2' = return_error2 /\ mode' = mode
      /\ proc_todo' = proc_todo /\ UNCHANGED node_vars /\ released' = released
  BY <1>t DEF Reply, MayWrite, Running, ReplyExpected
<1>n. held' = held /\ has_async' = has_async /\ async_todo' = async_todo /\ dropped' = dropped
  BY <1>2 DEF node_vars
<1>3. Sound(tx, stack, QueuedTx, {}) /\ QueuedTx \subseteq Tx
  BY <1>0, HeapFacts DEF QueuedTx
<1>4. End(tx, t) /\ t \in Tx /\ t \notin QueuedTx /\ IsCall(tx, t)
  BY <1>t, <1>2, <1>3, HandledTop
<1>5. c \in Thread /\ c # T
  BY <1>t, <1>2, <1>3, SenderWaits
<1>6. Sound(tx, st, QueuedTx, {t})
  BY <1>t, <1>2, <1>3, Popped
<1>7. /\ tx[t].from_parent \in Tx \cup {NULL} /\ tx[t].to_parent \in Tx \cup {NULL} /\ t # NULL /\ t # Complete
  BY <1>1, <1>4, TxFields, BinderAssumption
<1>8. R = {t}
  <2>1. FailMap(tx) \in NextMap /\ FailMap(tx)[t] = NULL /\ R = Chain(FailMap(tx), t)
    <3>1. FailMap(tx) \in NextMap
      BY <1>1, MapTypes
    <3>2. FailMap(tx)[t] = NULL
      BY <1>t, <1>2, <1>4 DEF FailMap
    <3>3. FailedPath(tx, t) = Chain(FailMap(tx), t)
      BY ChainsOf
    <3> QED BY <3>1, <3>2, <3>3
  <2>2. Chain(FailMap(tx), t) = {t} \cup Chain(FailMap(tx), NULL)
    BY <1>4, <2>1, ChainStep
  <2> QED BY <2>1, <2>2, ChainNull
<1>9. /\ new \in TxRecord /\ new.kind = "reply" /\ new.from = NULL
      /\ new.from_parent = NULL /\ new.to_parent = NULL /\ new.to_thread = c
  BY <1>5 DEF Free, TxRecord
<1>s. /\ \A S \in Thread \ {T} : st[S] = stack[S]
      /\ st[T] = tx[t].to_parent
  BY <1>1 DEF StackType
<1>p. Path(tx, st, QueuedTx, {t}, t, R)
  BY <1>4, <1>6 DEF Path
<1> HIDE DEF new, st, R
<1>10. /\ tx' \in TxMap /\ tx'[t] = new /\ \A u \in Tx \ {t} : tx'[u] = tx[u]
  BY <1>1, <1>2, <1>4, <1>9 DEF TxMap
<1>11. /\ stack' \in StackType /\ stack'[T] = tx[t].to_parent /\ stack'[c] = tx[t].from_parent
       /\ \A S \in Thread \ {T, c} : stack'[S] = stack[S]
  BY <1>1, <1>2, <1>5, <1>7 DEF StackType
<1>12. Sound(tx', stack', QueuedTx \cup {t}, {})
  <2>1. \A S \in Thread : IF \E x \in R : tx[x].from = S THEN stack'[S] = tx[st[S]].from_parent
                          ELSE stack'[S] = st[S]
    <3>1. \A S \in Thread : (\E x \in R : tx[x].from = S) <=> S = c
      BY <1>t, <1>8
    <3>2. stack'[c] = tx[st[c]].from_parent
      BY <1>2, <1>5, <1>11, <1>s
    <3>3. \A S \in Thread \ {c} : stack'[S] = st[S]
      BY <1>11, <1>s
    <3> QED BY <3>1, <3>2, <3>3
  <2>2. \A x \in R : /\ ~IsCall(tx', x)
                     /\ tx'[x].from = NULL /\ tx'[x].from_parent = NULL /\ tx'[x].to_parent = NULL
                     /\ tx'[x].kind \in {"free", "oneway"} => tx'[x].to_thread = NULL
                     /\ x \in QueuedTx \cup {t} <=> tx'[x].kind # "free"
    BY <1>8, <1>9, <1>10 DEF IsCall
  <2>3. Ended(tx, st, QueuedTx, {t}, R, tx', stack', QueuedTx \cup {t})
    BY <1>8, <1>10, <1>11, <2>1, <2>2 DEF Ended
  <2>4. Sound(tx', stack', QueuedTx \cup {t}, {t} \ {t})
    BY <1>p, <2>3, PathEnds
  <2>5. {t} \ {t} = {}
    OBVIOUS
  <2> QED BY <2>4, <2>5
<1>13. /\ \A S \in Thread : t \notin InTodo(S)
       /\ \A p \in Proc : t \notin InProc(p) /\ t \notin InAsync(p)
  BY <1>0, <1>4, InQueue
<1>14. todo[c] \in Seq(Work) /\ Once(todo[c]) /\ t \in Work /\ t \notin TxOf(todo[c])
  BY <1>0, <1>1, <1>4, <1>5, <1>13 DEF ListsOnce, Work, InTodo
<1>15. Append(todo[c], t) \in Seq(Work) /\ Once(Append(todo[c], t)) /\ TxOf(Append(todo[c], t)) = TxOf(todo[c]) \cup {t}
  <2>1. /\ Append(todo[c], t) \in Seq(Work) /\ Once(Append(todo[c], t))
        /\ TxOf(Append(todo[c], t)) = TxOf(todo[c]) \cup ({t} \ {Complete})
    BY <1>14, AppendList
  <2> QED BY <1>7, <2>1
<1>16. Append(todo[T], Complete) \in Seq(Work) /\ Once(Append(todo[T], Complete))
       /\ TxOf(Append(todo[T], Complete)) = InTodo(T)
  BY Confirmed
<1>17. /\ todo' \in [Thread -> Seq(Work)] /\ todo'[c] = Append(todo[c], t) /\ todo'[T] = Append(todo[T], Complete)
       /\ \A S \in Thread \ {c, T} : todo'[S] = todo[S]
  BY <1>1, <1>2, <1>5, <1>15, <1>16
<1>18. /\ \A S \in Thread : InTodo(S)' = IF S = c THEN InTodo(S) \cup {t} ELSE InTodo(S)
       /\ \A p \in Proc : InProc(p)' = InProc(p) /\ InAsync(p)' = InAsync(p)
  BY <1>2, <1>n, <1>15, <1>16, <1>17 DEF InTodo, InProc, InAsync
<1>19. woken' \in [Thread -> BOOLEAN] /\ (\A S \in Thread : woken[S] => woken'[S])
       /\ (mode[c] = "thread" => woken'[c]) /\ \A S \in Thread \ {c} : woken'[S] = woken[S]
  BY <1>1, <1>2, <1>5
<1>20. BinderTypeOK'
  BY <1>1, <1>2, <1>n, <1>10, <1>11, <1>17, <1>19, TypesAgain DEF ModeType
<1>21. ListsOnce'
  BY <1>0, <1>2, <1>n, <1>15, <1>16, <1>17 DEF ListsOnce
<1>22. OneMoves(t)
  BY <1>10, <1>18 DEF OneMoves
<1>23. MovesOnly(t) /\ QueuedTx' \ {t} = QueuedTx \ {t} /\ \A p \in Proc : Way(p)' \ {t} = Way(p) \ {t}
  BY <1>0, <1>20, <1>22, OneMovesFacts
<1>24. t \in QueuedTx'
  BY <1>5, <1>18, <1>20, InQueueNext
<1>25. Sound(tx', stack', QueuedTx', {})
  <2>1. QueuedTx' = QueuedTx \cup {t}
    BY <1>23, <1>24
  <2> QED BY <1>12, <2>1
<1>26. Placed(t)'
  BY <1>9, <1>10, <1>13, <1>18 DEF Placed, SuitsThread
<1>27. Suited' /\ Apart'
  BY <1>0, <1>20, <1>23, <1>26, PlacesStep
<1>28. OneWayInTurn'
  <2>1. \A p \in Proc : t \notin Way(p)' /\ t \notin Way(p)
    BY <1>4, <1>9, <1>10 DEF Way, IsCall
  <2>2. ASSUME NEW p \in Proc PROVE Way(p)' = Way(p)
    <3>1. Way(p)' \ {t} = Way(p) \ {t} /\ t \notin Way(p) /\ t \notin Way(p)'
      BY <1>23, <2>1
    <3> QED BY <3>1
  <2>3. \A p \in Proc \ dropped' : p \notin dropped /\ WayStep(p)
    BY <1>0, <1>n, <2>2 DEF WayStep, WaySame, OneWayInTurn
  <2> QED BY <1>0, <1>20, <2>3, TurnStep
<1>29. \A S \in Thread :
          /\ return_error2[S] # "OK" => /\ return_error[S] # "OK"
                                        /\ stack[S] = NULL \/ tx[stack[S]].to_thread = S
          /\ mode[S] = "proc" => stack[S] = NULL
          /\ mode[S] # "user" /\ ~woken[S] => return_error[S] = "OK"
  BY <1>0, HeapFacts
<1>30. ASSUME NEW S \in Thread, return_error2[S] # "OK"
       PROVE  return_error[S] # "OK" /\ (stack'[S] = NULL \/ tx'[stack'[S]].to_thread = S)
  <2>1. S # T /\ S # c /\ return_error[S] # "OK" /\ (stack[S] = NULL \/ tx[stack[S]].to_thread = S)
    BY <1>2, <1>5, <1>7, <1>29, <1>30
  <2>2. stack[S] \in Tx \cup {NULL} /\ stack'[S] = stack[S]
    BY <1>1, <1>11, <2>1 DEF StackType
  <2>3. stack[S] # NULL => stack[S] # t
    BY <1>2, <2>1
  <2> QED BY <1>10, <2>1, <2>2, <2>3
<1>31. \A S \in Thread : mode'[S] = "proc" => stack'[S] = NULL
  <2>1. mode[c] # "proc"
    BY <1>2, <1>5, <1>7, <1>29
  <2> QED BY <1>2, <1>11, <1>29, <2>1
<1>32. HeapSound(Heap, QueuedTx, {})'
  BY <1>2, <1>19, <1>20, <1>25, <1>29, <1>30, <1>31, HeapAgain
<1>33. WakeupsNotLost'
  <2>1. mode[c] \in {"user", "proc", "thread"} /\ mode[c] # "proc"
    BY <1>1, <1>2, <1>5, <1>7, <1>29 DEF ModeType
  <2>2. \A S \in Thread : mode'[S] # "user" /\ ~woken'[S] => S # c /\ S # T /\ ~woken[S] /\ todo'[S] = todo[S]
    BY <1>2, <1>17, <1>19, <2>1
  <2>3. \A S \in Thread : mode'[S] # "user" /\ ~woken'[S] => todo'[S] = <<>> /\ return_error'[S] = "OK"
    BY <1>0, <1>2, <2>2 DEF WakeupsNotLost
  <2>4. \A S \in Thread : mode'[S] = "proc" /\ ~woken'[S] /\ proc_todo'[ProcOf[S]] # <<>> =>
          mode[S] = "proc" /\ ~woken[S] /\ proc_todo[ProcOf[S]] # <<>>
    BY <1>2, <1>19
  <2>5. \A S \in Thread : mode[S] = "proc" /\ woken[S] /\ proc_todo'[ProcOf[S]] # <<>> =>
          mode'[S] = "proc" /\ woken'[S]
    BY <1>2, <1>19
  <2> QED BY <1>0, <2>3, <2>4, <2>5, WakeNone
<1> QED BY <1>20, <1>21, <1>27, <1>28, <1>32, <1>33 DEF BinderInv

\* A step that leaves the transactions and where they are alone, but not the nodes.
LEMMA SamePlaces ==
  ASSUME BinderInv, BinderTypeOK', UNCHANGED <<tx, stack, todo, proc_todo, async_todo>>
  PROVE  /\ Sound(tx', stack', QueuedTx', {}) /\ ListsOnce' /\ Suited' /\ Apart'
         /\ \A p \in Proc : Way(p)' = Way(p)
<1>1. BinderTypeOK /\ HeapSound(Heap, QueuedTx, {}) /\ ListsOnce /\ Suited /\ Apart
  BY DEF BinderInv
<1>2. /\ \A T \in Thread : InTodo(T)' = InTodo(T)
      /\ \A p \in Proc : InProc(p)' = InProc(p) /\ InAsync(p)' = InAsync(p)
  BY DEF InTodo, InProc, InAsync
<1>3. QueuedTx' = QueuedTx
  <2>1. ASSUME NEW t PROVE t \in QueuedTx' <=> t \in QueuedTx
    BY <1>1, <1>2, InQueue, InQueueNext
  <2> QED BY <2>1
<1>4. Sound(tx', stack', QueuedTx', {})
  BY <1>1, <1>3, HeapFacts
<1>5. ListsOnce'
  BY <1>1 DEF ListsOnce
<1>6. Suited'
  BY <1>1, <1>2 DEF Suited, SuitsThread, SuitsProc, SuitsNode
<1>7. Apart'
  BY <1>1, <1>2 DEF Apart
<1>8. \A p \in Proc : Way(p)' = Way(p)
  BY <1>2 DEF Way
<1> QED BY <1>4, <1>5, <1>6, <1>7, <1>8

\* User space frees the buffer of a one-way call.
LEMMA FreeBufferStep ==
  ASSUME BinderInv, NEW T \in Thread, NEW p \in Proc, FreeBuffer(T, p)
  PROVE  BinderInv'
<1>0. BinderTypeOK /\ HeapSound(Heap, QueuedTx, {}) /\ ListsOnce /\ Suited /\ Apart /\ WakeupsNotLost /\ OneWayInTurn
  BY DEF BinderInv
<1>1. /\ tx \in TxMap /\ stack \in StackType /\ todo \in [Thread -> Seq(Work)]
      /\ return_error \in ErrorType /\ return_error2 \in ErrorType /\ ModeType
      /\ woken \in [Thread -> BOOLEAN] /\ proc_todo \in [Proc -> Seq(Tx)]
      /\ async_todo \in [Proc -> Seq(Tx)]
      /\ has_async \in [Proc -> BOOLEAN] /\ held \in [Proc -> Nat]
      /\ released \subseteq Proc /\ dropped \subseteq Proc
  BY <1>0, TypeFacts
<1>2. /\ mode[T] = "user" /\ ProcOf[T] = p /\ held[p] > 0 /\ held' = [held EXCEPT ![p] = @ - 1]
      /\ tx' = tx /\ stack' = stack /\ return_error' = return_error /\ return_error2' = return_error2
      /\ mode' = mode /\ woken' = woken /\ proc_todo' = proc_todo /\ dropped' = dropped
      /\ released' = released
  BY DEF FreeBuffer, MayWrite, Running
<1>3. /\ held' \in [Proc -> Nat] /\ held'[p] = held[p] - 1 /\ \A q \in Proc \ {p} : held'[q] = held[q]
  BY <1>1, <1>2
<1>4. \A S \in Thread :
        /\ return_error2[S] # "OK" => /\ return_error[S] # "OK"
                                      /\ stack[S] = NULL \/ tx[stack[S]].to_thread = S
        /\ mode[S] = "proc" => stack[S] = NULL
        /\ mode[S] # "user" /\ ~woken[S] => return_error[S] = "OK"
  BY <1>0, HeapFacts
<1>a. CASE /\ async_todo[p] = <<>> /\ has_async' = [has_async EXCEPT ![p] = FALSE]
           /\ todo' = todo /\ async_todo' = async_todo
  <2>1. has_async' \in [Proc -> BOOLEAN] /\ has_async'[p] = FALSE /\ \A q \in Proc \ {p} : has_async'[q] = has_async[q]
    BY <1>1, <1>a
  <2>2. BinderTypeOK'
    BY <1>1, <1>2, <1>3, <1>a, <2>1, TypesAgain DEF ModeType
  <2>3. /\ Sound(tx', stack', QueuedTx', {}) /\ ListsOnce' /\ Suited' /\ Apart'
        /\ \A q \in Proc : Way(q)' = Way(q)
    BY <1>2, <1>a, <2>2, SamePlaces
  <2>4. HeapSound(Heap, QueuedTx, {})'
    BY <1>2, <1>4, <2>2, <2>3, HeapAgain
  <2>5. WakeupsNotLost'
    BY <1>0, <1>2, <1>a DEF WakeupsNotLost
  <2>6. WayFreed(p)
    BY <1>2, <1>3, <1>a, <2>1, <2>3 DEF WayFreed
  <2>7. \A q \in Proc \ {p} : q \notin dropped => WaySame(q)
    BY <1>0, <1>3, <1>a, <2>1, <2>3 DEF WaySame, OneWayInTurn
  <2>8. \A q \in Proc \ dropped' : q \notin dropped /\ WayStep(q)
    BY <1>2, <2>6, <2>7 DEF WayStep
  <2>9. OneWayInTurn'
    BY <1>0, <2>2, <2>8, TurnStep
  <2> QED BY <2>2, <2>3, <2>4, <2>5, <2>9 DEF BinderInv
<1>b. CASE /\ async_todo[p] # <<>> /\ todo' = [todo EXCEPT ![T] = Append(@, Head(async_todo[p]))]
           /\ async_todo' = [async_todo EXCEPT ![p] = Tail(@)] /\ has_async' = has_async
  <2>0. PICK m : m = Head(async_todo[p])
    OBVIOUS
  <2>1. async_todo[p] \in Seq(Tx) /\ async_todo[p] \in Seq(Work) /\ m \in Tx /\ Tail(async_todo[p]) \in Seq(Tx)
        /\ Once(async_todo[p]) /\ todo[T] \in Seq(Work) /\ Once(todo[T])
    BY <1>0, <1>1, <1>b, <2>0, PlaceFacts DEF ListsOnce
  <2>2. m # Complete /\ m \in Work
    BY <2>1, BinderAssumption DEF Work
  <2>3. /\ Once(Tail(async_todo[p])) /\ m \in TxOf(async_todo[p])
        /\ TxOf(Tail(async_todo[p])) = TxOf(async_todo[p]) \ {m}
    BY <1>b, <2>0, <2>1, <2>2, TailList
  <2>4. m \in InAsync(p) /\ \A S \in Thread : m \notin InTodo(S)
    BY <1>0, <2>3 DEF InAsync, Apart
  <2>5. \A q \in Proc : m \notin InProc(q)
    BY <1>0, <2>4 DEF Apart
  <2>6. SuitsNode(m, p)
    BY <1>0, <2>4 DEF Suited
  <2>7. Append(todo[T], m) \in Seq(Work) /\ Once(Append(todo[T], m)) /\ TxOf(Append(todo[T], m)) = TxOf(todo[T]) \cup {m}
    <3>1. m \notin TxOf(todo[T])
      BY <2>4 DEF InTodo
    <3>2. /\ Append(todo[T], m) \in Seq(Work) /\ Once(Append(todo[T], m))
          /\ TxOf(Append(todo[T], m)) = TxOf(todo[T]) \cup ({m} \ {Complete})
      BY <2>1, <2>2, <3>1, AppendList
    <3> QED BY <2>2, <3>2
  <2>8. /\ todo' \in [Thread -> Seq(Work)] /\ todo'[T] = Append(todo[T], m)
        /\ \A S \in Thread \ {T} : todo'[S] = todo[S]
        /\ async_todo' \in [Proc -> Seq(Tx)] /\ async_todo'[p] = Tail(async_todo[p])
        /\ \A q \in Proc \ {p} : async_todo'[q] = async_todo[q]
    BY <1>1, <1>b, <2>0, <2>1, <2>7
  <2>9. BinderTypeOK'
    BY <1>1, <1>2, <1>3, <1>b, <2>8, TypesAgain DEF ModeType
  <2>10. ListsOnce'
    BY <1>0, <1>2, <2>3, <2>7, <2>8 DEF ListsOnce
  <2>11. /\ \A S \in Thread : InTodo(S)' = IF S = T THEN InTodo(S) \cup {m} ELSE InTodo(S)
         /\ \A q \in Proc : InProc(q)' = InProc(q)
         /\ \A q \in Proc : InAsync(q)' = IF q = p THEN InAsync(q) \ {m} ELSE InAsync(q)
    BY <1>2, <2>3, <2>7, <2>8 DEF InTodo, InProc, InAsync
  <2>12. OneMoves(m)
    BY <1>2, <2>11 DEF OneMoves
  <2>13. MovesOnly(m) /\ QueuedTx' \ {m} = QueuedTx \ {m} /\ \A q \in Proc : Way(q)' \ {m} = Way(q) \ {m}
    BY <1>0, <2>9, <2>12, OneMovesFacts
  <2>14. m \in QueuedTx' /\ m \in QueuedTx
    BY <1>0, <2>4, <2>9, <2>11, InQueue, InQueueNext
  <2>15. QueuedTx' = QueuedTx
    BY <2>13, <2>14
  <2>16. Sound(tx', stack', QueuedTx', {})
    BY <1>0, <1>2, <2>15, HeapFacts
  <2>17. HeapSound(Heap, QueuedTx, {})'
    BY <1>2, <1>4, <2>9, <2>16, HeapAgain
  <2>18. \A q \in Proc : m \notin InAsync(q)'
    <3>1. \A q \in Proc : m \in InAsync(q) => q = p
      BY <1>0, <2>6 DEF Suited, SuitsNode
    <3> QED BY <2>11, <3>1
  <2>19. Placed(m)'
    BY <1>2, <2>4, <2>5, <2>6, <2>11, <2>18 DEF Placed, SuitsThread, SuitsNode
  <2>20. Suited' /\ Apart'
    BY <1>0, <2>9, <2>13, <2>19, PlacesStep
  <2>21. WakeupsNotLost'
    BY <1>0, <1>2, <2>8 DEF WakeupsNotLost
  <2>22. /\ \A q \in Proc : m \notin Way(q)
         /\ \A q \in Proc \ {p} : m \notin Way(q)'
         /\ m \in Way(p)'
    BY <1>2, <2>1, <2>4, <2>5, <2>6, <2>11 DEF Way, SuitsNode
  <2>23. ASSUME NEW q \in Proc \ {p} PROVE Way(q)' = Way(q)
    <3>1. Way(q)' \ {m} = Way(q) \ {m} /\ m \notin Way(q) /\ m \notin Way(q)'
      BY <2>13, <2>22
    <3> QED BY <3>1
  <2>24. Way(p)' = Way(p) \cup {m} /\ m \notin Way(p)
    <3>1. Way(p)' \ {m} = Way(p) \ {m} /\ m \notin Way(p) /\ m \in Way(p)'
      BY <2>13, <2>22
    <3> QED BY <3>1
  <2>25. WayNext(p)
    BY <1>2, <1>3, <1>b, <2>24 DEF WayNext
  <2>26. \A q \in Proc \ {p} : q \notin dropped => WaySame(q)
    BY <1>0, <1>3, <1>b, <2>8, <2>23 DEF WaySame, OneWayInTurn
  <2>27. \A q \in Proc \ dropped' : q \notin dropped /\ WayStep(q)
    BY <1>2, <2>25, <2>26 DEF WayStep
  <2>28. OneWayInTurn'
    BY <1>0, <2>9, <2>27, TurnStep
  <2> QED BY <2>9, <2>10, <2>17, <2>20, <2>21, <2>28 DEF BinderInv
<1> QED BY <1>a, <1>b DEF FreeBuffer

-----------------------------------------------------------------------------
(* A transaction is read.                                                *)

\* Where w was before it is read, and what becomes of the lists.
Taken(T, w) ==
  /\ \/ w \in InTodo(T)
     \/ w \in InProc(ProcOf[T]) /\ stack[T] = NULL
  /\ todo' \in [Thread -> Seq(Work)] /\ proc_todo' \in [Proc -> Seq(Tx)]
  /\ \A S \in Thread \ {T} : todo'[S] = todo[S]
  /\ \A p \in Proc \ {ProcOf[T]} : proc_todo'[p] = proc_todo[p]
  /\ \A S \in Thread : Once(todo'[S]) /\ InTodo(S)' = InTodo(S) \ {w}
  /\ \A p \in Proc : Once(proc_todo'[p]) /\ InProc(p)' = InProc(p) \ {w}

\* What becomes of the transactions.
LEMMA DeliverSound ==
  ASSUME BinderInv, NEW T \in Thread, NEW w, Deliver(T, w),
         w \in InTodo(T) \/ (w \in InProc(ProcOf[T]) /\ stack[T] = NULL)
  PROVE  /\ Sound(tx', stack', QueuedTx \ {w}, {}) /\ w \in QueuedTx /\ w \in Tx
         /\ \A u \in Tx \ {w} : tx'[u] = tx[u]
         /\ \A S \in Thread \ {T} : stack'[S] = stack[S]
         /\ tx[w].kind = "oneway" => tx[w].node = ProcOf[T]
         /\ tx'[w].kind # "oneway"
         /\ \A S \in Thread : stack[S] = NULL \/ tx[stack[S]].to_thread = S =>
              stack'[S] = NULL \/ tx'[stack'[S]].to_thread = S
<1>0. BinderTypeOK /\ HeapSound(Heap, QueuedTx, {}) /\ Suited /\ Apart /\ ProcOf[T] \in Proc /\ T # NULL
  BY BinderAssumption DEF BinderInv
<1>1. /\ tx \in TxMap /\ stack \in StackType
  BY <1>0, TypeFacts
<1>2. Sound(tx, stack, QueuedTx, {}) /\ Shaped(tx) /\ QueuedTx \subseteq Tx
  BY <1>0, HeapFacts DEF Sound
<1>3. w \in QueuedTx /\ w \in Tx
  BY <1>0, <1>2, InQueue
<1>4. /\ tx[w].kind = "oneway" => tx[w].node = ProcOf[T]
      /\ IsCall(tx, w) => /\ tx[w].to_thread \in {NULL, T} /\ tx[w].node = ProcOf[T]
                          /\ tx[w].to_thread = NULL => stack[T] = NULL
  BY <1>0, <1>2, <1>3 DEF Suited, SuitsThread, SuitsProc, IsCall, Shaped
<1>5. \A S \in Thread : stack[S] \in Tx \cup {NULL} /\ S # NULL
  BY <1>1, BinderAssumption DEF StackType
<1>a. CASE IsCall(tx, w)
  <2>1. /\ tx' = [tx EXCEPT ![w].to_thread = T, ![w].to_parent = stack[T]]
        /\ stack' = [stack EXCEPT ![T] = w]
    BY <1>a DEF Deliver, IsCall
  <2>2. Sound(tx', stack', QueuedTx \ {w}, {})
    <3>1. /\ tx[w].to_thread \in {NULL, T} /\ tx[w].node = ProcOf[T]
          /\ tx[w].to_thread = NULL => stack[T] = NULL
      BY <1>4, <1>a
    <3>2. Sound([tx EXCEPT ![w].to_thread = T, ![w].to_parent = stack[T]], [stack EXCEPT ![T] = w],
                QueuedTx \ {w}, {})
      BY <1>2, <1>3, <1>a, <3>1, Delivered
    <3> QED BY <2>1, <3>2
  <2>3. /\ tx'[w].to_thread = T /\ tx'[w].kind = "call" /\ \A u \in Tx \ {w} : tx'[u] = tx[u]
        /\ stack'[T] = w /\ \A S \in Thread \ {T} : stack'[S] = stack[S]
    BY <1>1, <1>3, <1>a, <2>1 DEF TxMap, TxRecord, StackType, IsCall
  <2>4. ASSUME NEW S \in Thread, stack[S] = NULL \/ tx[stack[S]].to_thread = S
        PROVE  stack'[S] = NULL \/ tx'[stack'[S]].to_thread = S
    <3>1. CASE S = T
      BY <2>3, <3>1
    <3>2. CASE S # T /\ stack[S] # w
      BY <1>5, <2>3, <2>4, <3>2
    <3>3. CASE S # T /\ stack[S] = w
      BY <1>3, <1>4, <1>5, <1>a, <2>4, <3>3, BinderAssumption
    <3> QED BY <3>1, <3>2, <3>3
  <2> QED BY <1>3, <1>4, <2>2, <2>3, <2>4
<1>b. CASE ~IsCall(tx, w)
  <2>1. tx' = [tx EXCEPT ![w] = Free] /\ stack' = stack
    BY <1>b DEF Deliver, IsCall
  <2>2. Free \in TxRecord
    BY DEF Free, TxRecord
  <2>3. tx' \in TxMap /\ tx'[w] = Free /\ \A u \in Tx \ {w} : tx'[u] = tx[u]
    BY <1>1, <1>3, <2>1, <2>2 DEF TxMap
  <2>4. Changed(tx, tx', w)
    BY <2>3, FreeFields DEF Changed
  <2>5. /\ QueuedTx \ {w} \in SUBSET Tx /\ (QueuedTx \ {w}) \ {w} = QueuedTx \ {w}
        /\ (w \in QueuedTx \ {w} <=> tx'[w].kind # "free")
    BY <1>2, <2>3, FreeFields
  <2>6. Sound(tx', stack, QueuedTx \ {w}, {})
    <3> DEFINE W == QueuedTx \ {w}
    <3>1. W \in SUBSET Tx /\ W \ {w} = QueuedTx \ {w} /\ (w \in W <=> tx'[w].kind # "free")
      BY <2>5
    <3> HIDE DEF W
    <3>2. Sound(tx', stack, W, {})
      BY <1>2, <1>3, <1>b, <2>4, <3>1, PlainOne
    <3> QED BY <3>2 DEF W
  <2>7. ASSUME NEW S \in Thread, stack[S] = NULL \/ tx[stack[S]].to_thread = S
        PROVE  stack'[S] = NULL \/ tx'[stack'[S]].to_thread = S
    <3>1. CASE stack[S] = NULL
      BY <2>1, <3>1
    <3>2. CASE stack[S] # NULL
      <4>1. IsCall(tx, stack[S])
        BY <1>2, <2>7, <3>2, HandledTop
      <4>2. stack[S] # w
        BY <1>b, <4>1
      <4> QED BY <1>5, <2>1, <2>3, <2>7, <3>2, <4>2
    <3> QED BY <3>1, <3>2
  <2> QED BY <1>3, <1>4, <2>1, <2>3, <2>6, <2>7, FreeFields
<1> QED BY <1>a, <1>b

\* A thread reads a transaction and returns.
LEMMA DeliverStep ==
  ASSUME BinderInv, NEW T \in Thread, NEW w, Deliver(T, w), Return(T), Taken(T, w)
  PROVE  BinderInv'
<1>0. /\ BinderTypeOK /\ HeapSound(Heap, QueuedTx, {}) /\ ListsOnce /\ Suited /\ Apart /\ WakeupsNotLost
      /\ OneWayInTurn /\ ProcOf[T] \in Proc
  BY BinderAssumption DEF BinderInv
<1>1. /\ return_error \in ErrorType /\ return_error2 \in ErrorType /\ ModeType
      /\ async_todo \in [Proc -> Seq(Tx)]
      /\ has_async \in [Proc -> BOOLEAN] /\ held \in [Proc -> Nat]
      /\ released \subseteq Proc /\ dropped \subseteq Proc
  BY <1>0, TypeFacts
<1>2. /\ w \in InTodo(T) \/ (w \in InProc(ProcOf[T]) /\ stack[T] = NULL)
      /\ todo' \in [Thread -> Seq(Work)] /\ proc_todo' \in [Proc -> Seq(Tx)]
      /\ \A S \in Thread \ {T} : todo'[S] = todo[S]
      /\ \A p \in Proc \ {ProcOf[T]} : proc_todo'[p] = proc_todo[p]
      /\ \A S \in Thread : Once(todo'[S]) /\ InTodo(S)' = InTodo(S) \ {w}
      /\ \A p \in Proc : Once(proc_todo'[p]) /\ InProc(p)' = InProc(p) \ {w}
  BY DEF Taken
<1>3. /\ Sound(tx', stack', QueuedTx \ {w}, {}) /\ w \in QueuedTx /\ w \in Tx
      /\ \A u \in Tx \ {w} : tx'[u] = tx[u]
      /\ \A S \in Thread \ {T} : stack'[S] = stack[S]
      /\ tx[w].kind = "oneway" => tx[w].node = ProcOf[T]
      /\ tx'[w].kind # "oneway"
      /\ \A S \in Thread : stack[S] = NULL \/ tx[stack[S]].to_thread = S =>
           stack'[S] = NULL \/ tx'[stack'[S]].to_thread = S
  BY <1>2, DeliverSound
<1>4. /\ held' = IF tx[w].kind = "oneway" THEN [held EXCEPT ![tx[w].node] = @ + 1] ELSE held
      /\ return_error' = return_error /\ return_error2' = return_error2 /\ has_async' = has_async
      /\ async_todo' = async_todo /\ dropped' = dropped /\ released' = released
  BY DEF Deliver
<1>5. /\ held' \in [Proc -> Nat] /\ \A p \in Proc \ {ProcOf[T]} : held'[p] = held[p]
      /\ held'[ProcOf[T]] = IF tx[w].kind = "oneway" THEN held[ProcOf[T]] + 1 ELSE held[ProcOf[T]]
  BY <1>0, <1>1, <1>3, <1>4
<1>6. /\ mode' \in [Thread -> {"user", "proc", "thread"}] /\ woken' \in [Thread -> BOOLEAN]
      /\ mode'[T] = "user" /\ \A S \in Thread \ {T} : mode'[S] = mode[S] /\ (woken[S] => woken'[S])
  BY <1>0, ReturnFacts
<1>7. tx' \in TxMap /\ stack' \in StackType
  BY <1>3 DEF Sound
<1>8. BinderTypeOK'
  BY <1>1, <1>2, <1>4, <1>5, <1>6, <1>7, TypesAgain
<1>9. ListsOnce'
  BY <1>0, <1>2, <1>4 DEF ListsOnce
<1>10. \A p \in Proc : InAsync(p)' = InAsync(p) /\ w \notin InAsync(p)
  BY <1>0, <1>2, <1>4 DEF InAsync, Apart
<1>11. OneMoves(w)
  <2>1. \A S \in Thread : InTodo(S)' \ {w} = InTodo(S) \ {w}
    BY <1>2
  <2>2. \A p \in Proc : InProc(p)' \ {w} = InProc(p) \ {w}
    BY <1>2
  <2> QED BY <1>3, <1>10, <2>1, <2>2 DEF OneMoves
<1>12. MovesOnly(w) /\ QueuedTx' \ {w} = QueuedTx \ {w} /\ \A p \in Proc : Way(p)' \ {w} = Way(p) \ {w}
  BY <1>0, <1>8, <1>11, OneMovesFacts
<1>13. w \notin QueuedTx'
  BY <1>2, <1>8, <1>10, InQueueNext
<1>14. Sound(tx', stack', QueuedTx', {})
  <2>1. QueuedTx' = QueuedTx \ {w}
    BY <1>12, <1>13
  <2> QED BY <1>3, <2>1
<1>15. Placed(w)'
  BY <1>2, <1>10 DEF Placed
<1>16. Suited' /\ Apart'
  BY <1>0, <1>8, <1>12, <1>15, PlacesStep
<1>17. \A S \in Thread :
        /\ return_error2[S] # "OK" => /\ return_error[S] # "OK"
                                      /\ stack[S] = NULL \/ tx[stack[S]].to_thread = S
        /\ mode[S] = "proc" => stack[S] = NULL
        /\ mode[S] # "user" /\ ~woken[S] => return_error[S] = "OK"
  BY <1>0, HeapFacts
<1>18. HeapSound(Heap, QueuedTx, {})'
  BY <1>3, <1>4, <1>6, <1>8, <1>14, <1>17, HeapAgain
<1>19. WakeupsNotLost'
  BY <1>0, <1>2, <1>4, ReturnWakes
<1>20. OneWayInTurn'
  <2>1. \A p \in Proc : w \notin Way(p)'
    BY <1>3 DEF Way
  <2>2. \A p \in Proc : w \in Way(p) => tx[w].kind = "oneway" /\ p = tx[w].node
    BY <1>0 DEF Way, Suited, SuitsThread, SuitsProc
  <2>3. tx[w].kind = "oneway" => w \in Way(ProcOf[T])
    BY <1>2, <1>3 DEF Way
  <2>4. ASSUME NEW p \in Proc, w \notin Way(p) PROVE Way(p)' = Way(p)
    <3>1. Way(p)' \ {w} = Way(p) \ {w} /\ w \notin Way(p) /\ w \notin Way(p)'
      BY <1>12, <2>1, <2>4
    <3> QED BY <3>1
  <2>5. ASSUME NEW p \in Proc PROVE Way(p)' = Way(p) \ {w}
    <3>1. Way(p)' \ {w} = Way(p) \ {w} /\ w \notin Way(p)'
      BY <1>12, <2>1
    <3> QED BY <3>1
  <2>6. ASSUME NEW p \in Proc, p \notin dropped PROVE WayStep(p)
    <3>1. async_todo[p] # <<>> => has_async[p]
      BY <1>0, <2>6 DEF OneWayInTurn
    <3>2. CASE tx[w].kind = "oneway" /\ p = ProcOf[T]
      <4>1. WayRead(p)
        BY <1>4, <1>5, <2>3, <2>5, <3>2 DEF WayRead
      <4> QED BY <4>1 DEF WayStep
    <3>3. CASE ~(tx[w].kind = "oneway" /\ p = ProcOf[T])
      <4>1. w \notin Way(p) /\ held'[p] = held[p]
        BY <1>3, <1>5, <2>2, <3>3
      <4>2. WaySame(p)
        BY <1>4, <2>4, <3>1, <4>1 DEF WaySame
      <4> QED BY <4>2 DEF WayStep
    <3> QED BY <3>2, <3>3
  <2> QED BY <1>0, <1>4, <1>8, <2>6, TurnStep
<1> QED BY <1>8, <1>9, <1>16, <1>18, <1>19, <1>20 DEF BinderInv

\* The works of the thread itself: the first transaction among them.
LEMMA ReadThreadStep ==
  ASSUME BinderInv, NEW T \in Thread, ReadThreadWork(T)
  PROVE  BinderInv'
<1>0. BinderTypeOK /\ ListsOnce /\ Suited /\ Apart
  BY DEF BinderInv
<1>1. todo \in [Thread -> Seq(Work)] /\ proc_todo \in [Proc -> Seq(Tx)]
  BY <1>0, TypeFacts
<1>2. PICK list : list = todo[T]
  OBVIOUS
<1>3. list \in Seq(Work) /\ Once(list) /\ Len(list) \in Nat /\ DOMAIN list = 1 .. Len(list)
  BY <1>0, <1>1, <1>2 DEF ListsOnce
<1>4. Transactions(T) = {i \in 1 .. Len(list) : list[i] # Complete} /\ Transactions(T) # {}
  BY <1>2, <1>3 DEF ReadThreadWork, Transactions
<1>5. PICK i : i = Min(Transactions(T))
  OBVIOUS
<1>6. i \in Transactions(T) /\ \A j \in Transactions(T) : i <= j
  <2>1. Transactions(T) \in SUBSET Nat
    BY <1>3, <1>4
  <2> QED BY <1>4, <1>5, <2>1, MinFacts
<1>7. i \in 1 .. Len(list) /\ list[i] # Complete /\ \A j \in 1 .. i - 1 : list[j] = Complete
  <2>1. i \in 1 .. Len(list) /\ list[i] # Complete
    BY <1>4, <1>6
  <2>2. ASSUME NEW j \in 1 .. i - 1 PROVE list[j] = Complete
    <3>1. j \in 1 .. Len(list) /\ ~(i <= j)
      BY <1>3, <2>1
    <3> QED BY <1>4, <1>6, <3>1
  <2> QED BY <2>1, <2>2
<1>8. PICK new : new = SubSeq(list, i + 1, Len(list))
  OBVIOUS
<1>9. new \in Seq(Work) /\ Len(new) = Len(list) - i /\ \A j \in 1 .. Len(new) : new[j] = list[i + j]
  <2>1. i \in Nat /\ i <= Len(list) /\ \A k \in i + 1 .. Len(list) : list[k] \in Work
    BY <1>3, <1>7
  <2>2. PICK n : n = Len(list)
    OBVIOUS
  <2>3. new = [k \in 1 .. n - i |-> list[i + k]]
    BY <1>3, <1>8, <2>1, <2>2
  <2>4. \A k \in 1 .. n - i : i + k \in i + 1 .. n
    BY <1>3, <2>1, <2>2
  <2>5. n - i \in Nat /\ \A k \in 1 .. n - i : list[i + k] \in Work
    BY <1>3, <2>1, <2>2, <2>4
  <2> QED BY <2>2, <2>3, <2>5
<1>10. Once(new) /\ TxOf(new) = TxOf(list) \ {list[i]} /\ list[i] \in TxOf(list)
  BY <1>3, <1>7, <1>9, RestOfList
<1>11. /\ todo' = [todo EXCEPT ![T] = new] /\ Deliver(T, list[i]) /\ proc_todo' = proc_todo /\ Return(T)
  BY <1>2, <1>5, <1>8 DEF ReadThreadWork
<1>12. /\ todo' \in [Thread -> Seq(Work)] /\ todo'[T] = new /\ \A S \in Thread \ {T} : todo'[S] = todo[S]
  BY <1>1, <1>9, <1>11
<1>13. PICK w : w = list[i]
  OBVIOUS
<1>14. w \in InTodo(T) /\ (\A S \in Thread \ {T} : w \notin InTodo(S)) /\ \A p \in Proc : w \notin InProc(p)
  BY <1>0, <1>2, <1>10, <1>13 DEF Apart, InTodo
<1>15. \A S \in Thread : Once(todo'[S]) /\ InTodo(S)' = InTodo(S) \ {w}
  <2>1. InTodo(T)' = InTodo(T) \ {w}
    BY <1>2, <1>10, <1>12, <1>13 DEF InTodo
  <2>2. \A S \in Thread \ {T} : InTodo(S)' = InTodo(S)
    BY <1>12 DEF InTodo
  <2> QED BY <1>0, <1>10, <1>12, <1>14, <2>1, <2>2 DEF ListsOnce
<1>16. \A p \in Proc : Once(proc_todo'[p]) /\ InProc(p)' = InProc(p) \ {w}
  <2>1. \A p \in Proc : Once(proc_todo'[p]) /\ InProc(p)' = InProc(p)
    BY <1>0, <1>11 DEF ListsOnce, InProc
  <2> QED BY <1>14, <2>1
<1>17. Taken(T, w)
  BY <1>1, <1>11, <1>12, <1>14, <1>15, <1>16 DEF Taken
<1> QED BY <1>11, <1>13, <1>17, DeliverStep

\* The works of its process.
LEMMA ReadProcStep ==
  ASSUME BinderInv, NEW T \in Thread, ReadProcWork(T)
  PROVE  BinderInv'
<1>0. BinderTypeOK /\ ListsOnce /\ Suited /\ Apart /\ HeapSound(Heap, QueuedTx, {})
  BY DEF BinderInv
<1>1. todo \in [Thread -> Seq(Work)] /\ proc_todo \in [Proc -> Seq(Tx)] /\ ProcOf[T] \in Proc
  BY <1>0, TypeFacts, BinderAssumption
<1>2. PICK p, list, w : p = ProcOf[T] /\ list = proc_todo[p] /\ w = Head(list)
  OBVIOUS
<1>3. /\ mode[T] = "proc" /\ list # <<>> /\ Deliver(T, w) /\ todo' = todo
      /\ proc_todo' = [proc_todo EXCEPT ![p] = Tail(list)] /\ Return(T)
  BY <1>2 DEF ReadProcWork
<1>4. list \in Seq(Tx) /\ list \in Seq(Work) /\ Once(list) /\ w \in Tx /\ Tail(list) \in Seq(Tx)
  BY <1>0, <1>1, <1>2, <1>3, PlaceFacts DEF ListsOnce
<1>5. w # Complete
  BY <1>4, BinderAssumption
<1>6. Once(Tail(list)) /\ w \in TxOf(list) /\ TxOf(Tail(list)) = TxOf(list) \ {w}
  BY <1>2, <1>3, <1>4, <1>5, TailList
<1>7. stack[T] = NULL
  BY <1>0, <1>3, HeapFacts
<1>8. w \in InProc(p) /\ (\A S \in Thread : w \notin InTodo(S)) /\ \A q \in Proc \ {p} : w \notin InProc(q)
  <2>1. p \in Proc /\ w \in InProc(p)
    BY <1>1, <1>2, <1>6 DEF InProc
  <2>2. \A S \in Thread : w \notin InTodo(S)
    BY <1>0, <2>1 DEF Apart
  <2>3. \A q \in Proc : w \in InProc(q) => tx[w].node = q
    BY <1>0 DEF Suited, SuitsProc
  <2> QED BY <2>1, <2>2, <2>3
<1>9. /\ proc_todo' \in [Proc -> Seq(Tx)] /\ proc_todo'[p] = Tail(list)
      /\ \A q \in Proc \ {p} : proc_todo'[q] = proc_todo[q]
  BY <1>1, <1>2, <1>3, <1>4
<1>10. \A q \in Proc : Once(proc_todo'[q]) /\ InProc(q)' = InProc(q) \ {w}
  <2>1. InProc(p)' = InProc(p) \ {w}
    BY <1>2, <1>6, <1>9 DEF InProc
  <2>2. \A q \in Proc \ {p} : InProc(q)' = InProc(q)
    BY <1>9 DEF InProc
  <2> QED BY <1>0, <1>6, <1>8, <1>9, <2>1, <2>2 DEF ListsOnce
<1>11. \A S \in Thread : Once(todo'[S]) /\ InTodo(S)' = InTodo(S) \ {w}
  <2>1. \A S \in Thread : Once(todo'[S]) /\ InTodo(S)' = InTodo(S)
    BY <1>0, <1>3 DEF ListsOnce, InTodo
  <2> QED BY <1>8, <2>1
<1>12. Taken(T, w)
  BY <1>1, <1>2, <1>3, <1>7, <1>8, <1>9, <1>10, <1>11 DEF Taken
<1> QED BY <1>3, <1>12, DeliverStep

-----------------------------------------------------------------------------
(* Replies that fail, threads and processes that end.                      *)

\* A step that works on the heap: some lists may be gone, and the rest stays as it was.
Remains(p) ==
  /\ p \notin dropped /\ held'[p] = held[p] /\ has_async'[p] = has_async[p]
  /\ async_todo'[p] = async_todo[p] /\ proc_todo'[p] = proc_todo[p]
  /\ \A S \in Thread : ProcOf[S] = p =>
       \/ todo'[S] = todo[S]
       \/ \A t \in InTodo(S) : tx[t].kind # "oneway"

\* The process has gone.
Vanished(p) ==
  /\ held'[p] = 0 /\ has_async'[p] = FALSE /\ async_todo'[p] = <<>> /\ proc_todo'[p] = <<>>
  /\ \A S \in Thread : ProcOf[S] = p => todo'[S] = <<>>

\* Such a step keeps the invariant when the functions leave the heap sound.
LEMMA HeapStep ==
  ASSUME BinderInv, NEW g, SetHeap(g), mode' = mode,
         todo' \in [Thread -> Seq(Work)], \A S \in Thread : todo'[S] \in {todo[S], <<>>},
         proc_todo' \in [Proc -> Seq(Tx)], \A p \in Proc : proc_todo'[p] \in {proc_todo[p], <<>>},
         async_todo' \in [Proc -> Seq(Tx)], \A p \in Proc : async_todo'[p] \in {async_todo[p], <<>>},
         has_async' \in [Proc -> BOOLEAN], held' \in [Proc -> Nat],
         released' \subseteq Proc, dropped' \subseteq Proc,
         HeapSound(g, QueuedTx', {}), Kept(Heap, g, QueuedTx'),
         \A p \in Proc \ dropped' : Vanished(p) \/ Remains(p)
  PROVE  BinderInv'
<1>0. /\ BinderTypeOK /\ HeapSound(Heap, QueuedTx, {}) /\ ListsOnce /\ Suited /\ Apart /\ WakeupsNotLost
      /\ OneWayInTurn
  BY DEF BinderInv
<1>1. /\ tx' = g.tx /\ stack' = g.stack /\ woken' = g.woken
      /\ return_error' = g.error /\ return_error2' = g.error2
  BY DEF SetHeap
<1>2. /\ g \in HeapSet /\ Sound(g.tx, g.stack, QueuedTx', {}) /\ \A S \in Thread : Room(g, S) /\ Awake(g, S)
  BY DEF HeapSound
<1>3. /\ g.tx \in TxMap /\ g.stack \in StackType /\ g.error \in ErrorType /\ g.error2 \in ErrorType
      /\ g.woken \in [Thread -> BOOLEAN]
  BY <1>2, HeapFields
<1>4. BinderTypeOK'
  BY <1>0, <1>1, <1>3, TypeFacts, TypesAgain DEF ModeType
<1>5. HeapSound(Heap, QueuedTx, {})'
  BY <1>1, <1>2, <1>4, HeapAgain DEF Room, Awake
<1>6. ListsOnce'
  BY <1>0, EmptyList DEF ListsOnce
<1>7. /\ \A S \in Thread : InTodo(S)' \subseteq InTodo(S)
      /\ \A p \in Proc : InProc(p)' \subseteq InProc(p) /\ InAsync(p)' \subseteq InAsync(p)
  BY EmptyList DEF InTodo, InProc, InAsync
<1>8. Apart'
  BY <1>0, <1>7 DEF Apart
<1>9. /\ \A S \in Thread : InTodo(S)' \subseteq QueuedTx'
      /\ \A p \in Proc : InProc(p)' \subseteq QueuedTx' /\ InAsync(p)' \subseteq QueuedTx'
  BY <1>4, PlaceFactsNext
<1>10. \A t \in QueuedTx' : /\ tx'[t].kind = tx[t].kind /\ tx'[t].to_thread = tx[t].to_thread
                            /\ tx'[t].node = tx[t].node
  BY <1>1 DEF Kept, Heap
<1>11. Suited'
  <2>1. ASSUME NEW S \in Thread, NEW t \in InTodo(S)' PROVE SuitsThread(t, S)'
    <3>1. t \in QueuedTx' /\ SuitsThread(t, S)
      BY <1>0, <1>7, <1>9, <2>1 DEF Suited
    <3> QED BY <1>10, <3>1 DEF SuitsThread
  <2>2. ASSUME NEW p \in Proc, NEW t \in InProc(p)' PROVE SuitsProc(t, p)'
    <3>1. t \in QueuedTx' /\ SuitsProc(t, p)
      BY <1>0, <1>7, <1>9, <2>2 DEF Suited
    <3> QED BY <1>10, <3>1 DEF SuitsProc
  <2>3. ASSUME NEW p \in Proc, NEW t \in InAsync(p)' PROVE SuitsNode(t, p)'
    <3>1. t \in QueuedTx' /\ SuitsNode(t, p)
      BY <1>0, <1>7, <1>9, <2>3 DEF Suited
    <3> QED BY <1>10, <3>1 DEF SuitsNode
  <2> QED BY <2>1, <2>2, <2>3 DEF Suited
<1>12. WakeupsNotLost'
  <2>1. \A S \in Thread : woken[S] => woken'[S]
    BY <1>1 DEF Kept, Heap
  <2>2. \A S \in Thread : mode'[S] # "user" /\ ~woken'[S] => return_error'[S] = "OK"
    BY <1>1, <1>2 DEF Awake
  <2>3. \A S \in Thread : mode'[S] # "user" /\ ~woken'[S] => todo'[S] = <<>>
    BY <1>0, <2>1 DEF WakeupsNotLost
  <2>4. \A S \in Thread : ProcOf[S] \in Proc
    BY BinderAssumption
  <2>5. \A S \in Thread : mode'[S] = "proc" /\ ~woken'[S] /\ proc_todo'[ProcOf[S]] # <<>> =>
          mode[S] = "proc" /\ ~woken[S] /\ proc_todo[ProcOf[S]] # <<>>
    BY <2>1, <2>4
  <2>6. \A S \in Thread : mode[S] = "proc" /\ woken[S] /\ proc_todo'[ProcOf[S]] # <<>> =>
          mode'[S] = "proc" /\ woken'[S]
    BY <2>1
  <2> QED BY <1>0, <2>2, <2>3, <2>5, <2>6, WakeNone
<1>13. OneWayInTurn'
  <2>1. ASSUME NEW p \in Proc, Vanished(p) PROVE WayGone(p)
    <3>1. Way(p)' = {}
      BY <2>1, EmptyList DEF Vanished, Way, InProc, InTodo
    <3> QED BY <2>1, <3>1 DEF Vanished, WayGone
  <2>2. ASSUME NEW p \in Proc, Remains(p) PROVE p \notin dropped /\ WayStep(p)
    <3>1. InProc(p)' = InProc(p)
      BY <2>2 DEF Remains, InProc
    <3>2. ASSUME NEW t \in Way(p)' PROVE t \in Way(p)
      <4>1. t \in Tx /\ tx'[t].kind = "oneway"
            /\ (t \in InProc(p)' \/ \E T \in Thread : ProcOf[T] = p /\ t \in InTodo(T)')
        BY <3>2 DEF Way
      <4>2. t \in QueuedTx'
        BY <1>9, <4>1
      <4> QED BY <1>7, <1>10, <4>1, <4>2 DEF Way
    <3>3. ASSUME NEW t \in Way(p) PROVE t \in Way(p)'
      <4>1. t \in Tx /\ tx[t].kind = "oneway"
            /\ (t \in InProc(p) \/ \E T \in Thread : ProcOf[T] = p /\ t \in InTodo(T))
        BY <3>3 DEF Way
      <4>2. t \in InProc(p)' \/ \E T \in Thread : ProcOf[T] = p /\ t \in InTodo(T)'
        BY <2>2, <3>1, <4>1 DEF Remains, InTodo
      <4>3. t \in QueuedTx'
        BY <1>9, <4>2
      <4> QED BY <1>10, <4>1, <4>2, <4>3 DEF Way
    <3>4. Way(p)' = Way(p)
      BY <3>2, <3>3
    <3>5. WaySame(p)
      BY <1>0, <2>2, <3>4 DEF Remains, WaySame, OneWayInTurn
    <3> QED BY <2>2, <3>5 DEF Remains, WayStep
  <2> QED BY <1>0, <1>4, <2>1, <2>2, TurnStep
<1> QED BY <1>4, <1>5, <1>6, <1>8, <1>11, <1>12, <1>13 DEF BinderInv

\* A reply that fails.
LEMMA ReplyFailsStep ==
  ASSUME BinderInv, NEW T \in Thread, ReplyFails(T)
  PROVE  BinderInv'
<1>0. BinderTypeOK /\ HeapSound(Heap, QueuedTx, {})
  BY DEF BinderInv
<1>1. /\ tx \in TxMap /\ stack \in StackType /\ todo \in [Thread -> Seq(Work)]
      /\ return_error \in ErrorType /\ return_error2 \in ErrorType /\ ModeType
      /\ woken \in [Thread -> BOOLEAN] /\ proc_todo \in [Proc -> Seq(Tx)]
      /\ async_todo \in [Proc -> Seq(Tx)]
      /\ has_async \in [Proc -> BOOLEAN] /\ held \in [Proc -> Nat]
      /\ released \subseteq Proc /\ dropped \subseteq Proc
  BY <1>0, TypeFacts
<1>t. PICK t : t = stack[T]
  OBVIOUS
<1> DEFINE off == [Heap EXCEPT !.stack[T] = tx[t].to_parent]
           h == [off EXCEPT !.error[T] = "COMPLETE"]
           g == binder_send_failed_reply(h, t)
<1>2. /\ mode[T] = "user" /\ return_error[T] = "OK" /\ t # NULL /\ tx[t].to_thread = T
      /\ UNCHANGED <<todo, mode, proc_todo, node_vars, released>>
  BY <1>t DEF ReplyFails, MayWrite, Running, ReplyExpected
<1>3. Sound(tx, stack, QueuedTx, {})
  BY <1>0, HeapFacts
<1>4. tx[t].from # NULL => stack[tx[t].from] = t
  BY <1>t, <1>2, <1>3, SenderWaits
<1>5. SetHeap(g)
  BY <1>t, <1>4 DEF ReplyFails
<1>6. IsCall(tx, t) /\ t \in Tx
  BY <1>t, <1>2, <1>3, HandledTop
<1>7. Sound(tx, [stack EXCEPT ![T] = tx[t].to_parent], QueuedTx, {t})
  BY <1>t, <1>2, <1>3, Popped
<1>8. /\ h.tx = tx /\ h.stack = [stack EXCEPT ![T] = tx[t].to_parent] /\ h.woken = woken
      /\ h.error = [return_error EXCEPT ![T] = "COMPLETE"] /\ h.error2 = return_error2
  BY DEF Heap
<1>9. h \in HeapSet
  <2>1. [stack EXCEPT ![T] = tx[t].to_parent] \in StackType
    BY <1>7 DEF Sound
  <2>2. [return_error EXCEPT ![T] = "COMPLETE"] \in ErrorType
    BY <1>1 DEF ErrorType
  <2> QED BY <1>1, <2>1, <2>2 DEF Heap, HeapSet
<1>g. g = binder_send_failed_reply(h, t)
  OBVIOUS
<1> HIDE DEF off, h, g
<1>10. /\ \A S \in Thread \ {T} : h.stack[S] = stack[S] /\ h.error[S] = return_error[S]
  BY <1>1, <1>8 DEF StackType, ErrorType
<1>11. \A S \in Thread :
        /\ return_error2[S] # "OK" => /\ return_error[S] # "OK"
                                      /\ stack[S] = NULL \/ tx[stack[S]].to_thread = S
        /\ mode[S] = "proc" => stack[S] = NULL
        /\ mode[S] # "user" /\ ~woken[S] => return_error[S] = "OK"
  BY <1>0, HeapFacts
<1>12. HeapSound(h, QueuedTx, {t})
  <2>1. \A S \in Thread : Room(h, S)
    BY <1>2, <1>8, <1>10, <1>11 DEF Room
  <2>2. \A S \in Thread : Awake(h, S)
    BY <1>2, <1>8, <1>10, <1>11 DEF Awake
  <2>3. Sound(h.tx, h.stack, QueuedTx, {t})
    BY <1>7, <1>8
  <2> QED BY <1>9, <2>1, <2>2, <2>3 DEF HeapSound
<1>13. HeapSound(g, QueuedTx, {t} \ {t}) /\ Kept(h, g, (QueuedTx \cup {t}) \ {t})
  BY <1>1, <1>6, <1>8, <1>12, <1>g, FailsSound
<1>14. t \notin QueuedTx
  BY <1>7 DEF Sound
<1>15. {t} \ {t} = {} /\ (QueuedTx \cup {t}) \ {t} = QueuedTx
  BY <1>14
<1>16. HeapSound(g, QueuedTx, {}) /\ Kept(h, g, QueuedTx)
  BY <1>13, <1>15
<1>17. Kept(Heap, g, QueuedTx)
  BY <1>8, <1>16 DEF Kept, Heap
<1>18. /\ todo' = todo /\ proc_todo' = proc_todo /\ mode' = mode /\ released' = released
       /\ async_todo' = async_todo /\ has_async' = has_async /\ held' = held /\ dropped' = dropped
  BY <1>2 DEF node_vars
<1>19. QueuedTx' = QueuedTx
  BY <1>18 DEF QueuedTx, Queued
<1>20. \A p \in Proc \ dropped' : Remains(p)
  BY <1>18 DEF Remains
<1>21. HeapSound(g, QueuedTx', {}) /\ Kept(Heap, g, QueuedTx')
  BY <1>16, <1>17, <1>19
<1> QED BY <1>1, <1>5, <1>18, <1>20, <1>21, HeapStep

\* The end of a thread.
LEMMA ThreadExitStep ==
  ASSUME BinderInv, NEW T \in Thread, ThreadExit(T)
  PROVE  BinderInv'
<1>0. BinderTypeOK /\ HeapSound(Heap, QueuedTx, {}) /\ ListsOnce /\ Suited /\ Apart
  BY DEF BinderInv
<1>1. /\ tx \in TxMap /\ stack \in StackType /\ todo \in [Thread -> Seq(Work)]
      /\ return_error \in ErrorType /\ return_error2 \in ErrorType /\ ModeType
      /\ woken \in [Thread -> BOOLEAN] /\ proc_todo \in [Proc -> Seq(Tx)]
      /\ async_todo \in [Proc -> Seq(Tx)]
      /\ has_async \in [Proc -> BOOLEAN] /\ held \in [Proc -> Nat]
      /\ released \subseteq Proc /\ dropped \subseteq Proc /\ ProcOf[T] \in Proc
  BY <1>0, TypeFacts, BinderAssumption
<1>2. PICK g : g = binder_free_thread(Heap, T)
  OBVIOUS
<1>3. /\ SetHeap(g) /\ todo' = [todo EXCEPT ![T] = <<>>] /\ dropped' = dropped \cup OneWayNodes(todo[T])
      /\ mode' = mode /\ proc_todo' = proc_todo /\ has_async' = has_async /\ async_todo' = async_todo
      /\ held' = held /\ released' = released
  BY <1>2 DEF ThreadExit
<1>4. /\ todo' \in [Thread -> Seq(Work)] /\ todo'[T] = <<>> /\ \A S \in Thread \ {T} : todo'[S] = todo[S]
  BY <1>1, <1>3
<1>5. \A t \in InTodo(T) : tx[t].kind = "oneway" => tx[t].node = ProcOf[T]
  BY <1>0 DEF Suited, SuitsThread
<1>6. /\ OneWayNodes(todo[T]) \subseteq {ProcOf[T]}
      /\ \A t \in InTodo(T) : tx[t].kind = "oneway" => ProcOf[T] \in OneWayNodes(todo[T])
  <2>1. todo[T] \in Seq(Work) /\ DOMAIN todo[T] = 1 .. Len(todo[T])
    BY <1>1
  <2>2. OneWayNodes(todo[T]) = {tx[t].node : t \in {u \in InTodo(T) : tx[u].kind = "oneway"}}
    BY <2>1 DEF OneWayNodes, InTodo, TxOf
  <2> QED BY <1>5, <2>2
<1>7. dropped' \subseteq Proc
  BY <1>1, <1>3, <1>6
<1> DEFINE K == InTodo(T)
           W == QueuedTx \ K
<1>8. K \subseteq QueuedTx
  BY <1>0, PlaceFacts
<1>9. Sound(tx, stack, QueuedTx, {})
  BY <1>0, HeapFacts
<1>10. HeapSound(Heap, W, K)
  <2>1. Sound(tx, stack, W, {} \cup K)
    BY <1>8, <1>9, Condemned
  <2>2. {} \cup K = K
    OBVIOUS
  <2>3. Sound(tx, stack, W, K)
    BY <2>1, <2>2
  <2> HIDE DEF W, K
  <2> QED BY <1>0, <2>3 DEF HeapSound, Heap
<1>11. \A w \in W : IsCall(tx, w) => tx[w].to_thread # T
  <2> SUFFICES ASSUME NEW w \in QueuedTx, w \notin InTodo(T), IsCall(tx, w), tx[w].to_thread = T
               PROVE  FALSE
    OBVIOUS
  <2>1. CASE \E S \in Thread : w \in InTodo(S)
    BY <1>0, <2>1 DEF Suited, SuitsThread, IsCall
  <2>2. CASE \E p \in Proc : w \in InProc(p) \/ w \in InAsync(p)
    BY <1>0, <2>2, BinderAssumption DEF Suited, SuitsProc, SuitsNode, IsCall
  <2> QED BY <1>0, <2>1, <2>2, InQueue
<1>12. \A w \in K : IsCall(tx, w) => tx[w].to_parent = NULL
  BY <1>8, <1>9 DEF Sound, Waits
<1>13. K = TxOf(todo[T]) /\ todo[T] \in Seq(Work) /\ Once(todo[T]) /\ Heap.tx = tx
  BY <1>0, <1>1 DEF InTodo, ListsOnce, Heap
<1> HIDE DEF K, W
<1>14. HeapSound(g, W, K \ TxOf(todo[T])) /\ Kept(Heap, g, W \cup (K \ TxOf(todo[T])))
  BY <1>1, <1>2, <1>10, <1>11, <1>12, <1>13, FreeThreadSound
<1>15. HeapSound(g, W, {}) /\ Kept(Heap, g, W)
  <2>1. K \ TxOf(todo[T]) = {}
    BY <1>13
  <2>2. W \cup {} = W
    OBVIOUS
  <2> QED BY <1>14, <2>1, <2>2
<1>16. QueuedTx' = W
  <2>1. todo' \in [Thread -> Seq(Work)] /\ proc_todo' \in [Proc -> Seq(Tx)] /\ async_todo' \in [Proc -> Seq(Tx)]
    BY <1>1, <1>3, <1>4
  <2>2. BinderTypeOK'
    <3>1. g \in HeapSet
      BY <1>15 DEF HeapSound
    <3>2. /\ g.tx \in TxMap /\ g.stack \in StackType /\ g.error \in ErrorType /\ g.error2 \in ErrorType
          /\ g.woken \in [Thread -> BOOLEAN]
      BY <3>1, HeapFields
    <3> QED BY <1>1, <1>3, <1>7, <2>1, <3>2, TypesAgain DEF SetHeap, ModeType
  <2>3. /\ \A S \in Thread : InTodo(S)' = IF S = T THEN {} ELSE InTodo(S)
        /\ \A p \in Proc : InProc(p)' = InProc(p) /\ InAsync(p)' = InAsync(p)
    BY <1>3, <1>4, EmptyList DEF InTodo, InProc, InAsync
  <2>4. \A t : t \in InTodo(T) => /\ \A S \in Thread \ {T} : t \notin InTodo(S)
                                  /\ \A p \in Proc : t \notin InProc(p) /\ t \notin InAsync(p)
    BY <1>0 DEF Apart
  <2>5. ASSUME NEW t PROVE t \in QueuedTx' <=> t \in QueuedTx /\ t \notin InTodo(T)
    <3>1. t \in QueuedTx <=> \/ \E S \in Thread : t \in InTodo(S)
                             \/ \E p \in Proc : t \in InProc(p) \/ t \in InAsync(p)
      BY <1>0, InQueue
    <3>2. t \in QueuedTx' <=> \/ \E S \in Thread \ {T} : t \in InTodo(S)
                              \/ \E p \in Proc : t \in InProc(p) \/ t \in InAsync(p)
      BY <2>2, <2>3, InQueueNext
    <3> QED BY <2>4, <3>1, <3>2
  <2> QED BY <2>5 DEF W, K
<1>17. \A p \in Proc \ dropped' : Remains(p)
  BY <1>3, <1>4, <1>6 DEF Remains
<1>18. HeapSound(g, QueuedTx', {}) /\ Kept(Heap, g, QueuedTx')
  BY <1>15, <1>16
<1> QED BY <1>1, <1>3, <1>4, <1>7, <1>17, <1>18, HeapStep

\* A sequence of the elements of a finite set has each of them.
LEMMA SeqsOfSet ==
  ASSUME NEW S, IsFiniteSet(S), NEW s \in SetToSeqs(S)
  PROVE  /\ s \in Seq(S) /\ \A i, j \in 1 .. Len(s) : s[i] = s[j] => i = j
         /\ \A x \in S : \E i \in 1 .. Len(s) : s[i] = x
<1> DEFINE n == Cardinality(S)
<1>1. n \in Nat
  BY FS_CardinalityType
<1>2. s \in [1 .. n -> S] /\ \A i, j \in 1 .. n : i # j => s[i] # s[j]
  BY DEF SetToSeqs
<1> HIDE DEF n
<1>3. s \in Seq(S) /\ Len(s) = n
  BY <1>1, <1>2
<1>4. s \in Injection(1 .. n, S)
  BY <1>2 DEF Injection, IsInjective
<1>5. IsFiniteSet(1 .. n) /\ Cardinality(1 .. n) = n
  BY <1>1, FS_Interval
<1>6. s \in Surjection(1 .. n, S)
  BY <1>4, <1>5, FS_Injection DEF n
<1>7. \A x \in S : \E i \in 1 .. n : s[i] = x
  BY <1>6 DEF Surjection
<1> QED BY <1>2, <1>3, <1>7

\* The end of a process.
LEMMA ProcessExitStep ==
  ASSUME BinderInv, NEW p \in Proc, ProcessExit(p)
  PROVE  BinderInv'
<1>0. BinderTypeOK /\ HeapSound(Heap, QueuedTx, {}) /\ ListsOnce /\ Suited /\ Apart
  BY DEF BinderInv
<1>1. /\ tx \in TxMap /\ stack \in StackType /\ todo \in [Thread -> Seq(Work)]
      /\ return_error \in ErrorType /\ return_error2 \in ErrorType /\ ModeType
      /\ woken \in [Thread -> BOOLEAN] /\ proc_todo \in [Proc -> Seq(Tx)]
      /\ async_todo \in [Proc -> Seq(Tx)]
      /\ has_async \in [Proc -> BOOLEAN] /\ held \in [Proc -> Nat]
      /\ released \subseteq Proc /\ dropped \subseteq Proc
  BY <1>0, TypeFacts
<1> DEFINE P == {T \in Thread : ProcOf[T] = p}
<1>2. PICK own \in SetToSeqs(P) :
        LET h == binder_release_work(FreeThreads(Heap, own), proc_todo[p])
        IN  SetHeap([h EXCEPT !.tx = FreeTx(h.tx, ToSet(async_todo[p]))])
  BY DEF ProcessExit
<1>3. PICK f, h, g : /\ f = FreeThreads(Heap, own) /\ h = binder_release_work(f, proc_todo[p])
                     /\ g = [h EXCEPT !.tx = FreeTx(h.tx, ToSet(async_todo[p]))]
  OBVIOUS
<1>4. /\ SetHeap(g) /\ mode' = mode /\ released' = released \cup {p}
      /\ todo' = [T \in Thread |-> IF ProcOf[T] = p THEN <<>> ELSE todo[T]]
      /\ proc_todo' = [proc_todo EXCEPT ![p] = <<>>]
      /\ async_todo' = [async_todo EXCEPT ![p] = <<>>]
      /\ has_async' = [has_async EXCEPT ![p] = FALSE] /\ held' = [held EXCEPT ![p] = 0]
      /\ dropped' = dropped \ {p}
  BY <1>2, <1>3 DEF ProcessExit
<1>5. /\ own \in Seq(Thread) /\ \A i, j \in 1 .. Len(own) : own[i] = own[j] => i = j
      /\ \A i \in 1 .. Len(own) : own[i] \in Thread /\ ProcOf[own[i]] = p
      /\ \A T \in Thread : ProcOf[T] = p => \E i \in 1 .. Len(own) : own[i] = T
  <2>1. IsFiniteSet(P) /\ P \subseteq Thread
    BY BinderAssumption, FS_Subset
  <2>2. /\ own \in Seq(P) /\ \A i, j \in 1 .. Len(own) : own[i] = own[j] => i = j
        /\ \A x \in P : \E i \in 1 .. Len(own) : own[i] = x
    <3> HIDE DEF P
    <3>1. own \in SetToSeqs(P)
      BY <1>2
    <3> QED BY <2>1, <3>1, SeqsOfSet
  <2>3. own \in Seq(Thread)
    BY <2>1, <2>2
  <2>4. \A i \in 1 .. Len(own) : own[i] \in P
    BY <2>2
  <2> QED BY <2>2, <2>3, <2>4
<1> HIDE DEF P
<1> DEFINE L == ListsOf(own, Len(own))
           A == InProc(p)
           B == InAsync(p)
           K == L \cup A \cup B
           W == QueuedTx \ K
<1>6. \A t : t \in L <=> \E T \in Thread : ProcOf[T] = p /\ t \in InTodo(T)
  BY <1>5 DEF ListsOf, InTodo
<1>7. L \cap A = {} /\ L \cap B = {} /\ A \cap B = {}
  BY <1>0, <1>6 DEF Apart
<1>8. K \subseteq QueuedTx
  BY <1>0, <1>6, PlaceFacts
<1>9. Sound(tx, stack, QueuedTx, {})
  BY <1>0, HeapFacts
<1>10. HeapSound(Heap, W, K)
  <2>1. Sound(tx, stack, W, {} \cup K)
    BY <1>8, <1>9, Condemned
  <2>2. {} \cup K = K
    OBVIOUS
  <2>3. Sound(tx, stack, W, K)
    BY <2>1, <2>2
  <2> HIDE DEF W, K
  <2> QED BY <1>0, <2>3 DEF HeapSound, Heap
<1>11. \A w \in W : IsCall(tx, w) => \A i \in 1 .. Len(own) : tx[w].to_thread # own[i]
  <2> SUFFICES ASSUME NEW w \in QueuedTx, w \notin L, IsCall(tx, w), NEW i \in 1 .. Len(own),
                      tx[w].to_thread = own[i]
               PROVE  FALSE
    OBVIOUS
  <2>0. own[i] \in Thread /\ ProcOf[own[i]] = p
    BY <1>5
  <2> HIDE DEF L
  <2>1. CASE \E S \in Thread : w \in InTodo(S)
    <3>1. PICK S \in Thread : w \in InTodo(S)
      BY <2>1
    <3>2. tx[w].to_thread = S
      BY <1>0, <3>1 DEF Suited, SuitsThread, IsCall
    <3> QED BY <1>6, <2>0, <3>1, <3>2
  <2>2. CASE \E q \in Proc : w \in InProc(q) \/ w \in InAsync(q)
    BY <1>0, <2>0, <2>2, BinderAssumption DEF Suited, SuitsProc, SuitsNode, IsCall
  <2> QED BY <1>0, <2>1, <2>2, InQueue
<1>12. \A w \in K : IsCall(tx, w) => tx[w].to_parent = NULL
  BY <1>8, <1>9 DEF Sound, Waits
<1>13. \A T \in Thread : todo[T] \in Seq(Work) /\ Once(todo[T])
  BY <1>0, <1>1 DEF ListsOnce
<1>14. \A T, S \in Thread : T # S => TxOf(todo[T]) \cap TxOf(todo[S]) = {}
  BY <1>0 DEF Apart, InTodo
<1>15. Heap.tx = tx /\ L \subseteq K
  BY DEF Heap
<1>w. \A t : t \in W <=> t \in QueuedTx /\ t \notin L /\ t \notin A /\ t \notin B
  OBVIOUS
<1>k. K \ L = A \cup B /\ W \cup A \cup B = W \cup (K \ L) /\ W \cap B = {} /\ W \cap A = {}
  BY <1>7
<1>l. L = ListsOf(own, Len(own))
  OBVIOUS
<1>a. A = TxOf(proc_todo[p]) /\ B = TxOf(async_todo[p])
  BY DEF InProc, InAsync
<1> HIDE DEF L, K, W, A, B
<1>16. HeapSound(f, W, A \cup B) /\ Kept(Heap, f, W \cup A \cup B)
  <2>1. HeapSound(f, W, K \ ListsOf(own, Len(own))) /\ Kept(Heap, f, W \cup (K \ ListsOf(own, Len(own))))
    <3>1. /\ \A w \in W : IsCall(Heap.tx, w) => \A i \in 1 .. Len(own) : Heap.tx[w].to_thread # own[i]
          /\ \A w \in K : IsCall(Heap.tx, w) => Heap.tx[w].to_parent = NULL
      BY <1>11, <1>12, <1>15
    <3>2. ListsOf(own, Len(own)) \subseteq K /\ own \in Seq(Thread)
          /\ \A i, j \in 1 .. Len(own) : own[i] = own[j] => i = j
      BY <1>5, <1>15, <1>l
    <3> QED BY <1>1, <1>3, <1>10, <1>13, <1>14, <3>1, <3>2, ThreadsSound
  <2> QED BY <1>k, <1>l, <2>1
<1>17. HeapSound(h, W, B) /\ Kept(f, h, W \cup B)
  <2>1. proc_todo[p] \in Seq(Work) /\ Once(proc_todo[p]) /\ TxOf(proc_todo[p]) \subseteq A \cup B
    BY <1>0, <1>a, PlaceFacts DEF ListsOnce
  <2>2. HeapSound(h, W, (A \cup B) \ TxOf(proc_todo[p])) /\ Kept(f, h, W \cup ((A \cup B) \ TxOf(proc_todo[p])))
    BY <1>1, <1>3, <1>16, <2>1, ReleaseSound
  <2>3. (A \cup B) \ TxOf(proc_todo[p]) = B
    BY <1>7, <1>a
  <2> QED BY <2>2, <2>3
<1>18. ToSet(async_todo[p]) = B
  <2>1. async_todo[p] \in Seq(Tx) /\ DOMAIN async_todo[p] = 1 .. Len(async_todo[p])
    BY <1>1
  <2>2. \A i \in 1 .. Len(async_todo[p]) : async_todo[p][i] # Complete
    BY <2>1, BinderAssumption
  <2> QED BY <1>a, <2>1, <2>2 DEF ToSet, TxOf
<1>19. \A d \in B : ~IsCall(h.tx, d)
  <2>1. \A d \in B : tx[d].kind = "oneway"
    BY <1>0 DEF Suited, SuitsNode, B
  <2>2. \A d \in B : f.tx[d].kind = tx[d].kind
    BY <1>15, <1>16 DEF Kept
  <2>3. \A d \in B : h.tx[d].kind = f.tx[d].kind
    BY <1>17 DEF Kept
  <2> QED BY <2>1, <2>2, <2>3 DEF IsCall
<1>20. HeapSound(g, W, {}) /\ Kept(h, g, W)
  <2>1. HeapSound(g, W \ B, B \ B) /\ Kept(h, g, (W \cup B) \ B)
    BY <1>3, <1>17, <1>18, <1>19, LostSound
  <2>2. W \ B = W /\ B \ B = {} /\ (W \cup B) \ B = W
    BY <1>k
  <2> QED BY <2>1, <2>2
<1>21. Kept(Heap, g, W)
  <2>1. Kept(Heap, h, W \cup B)
    BY <1>16, <1>17, KeptTrans
  <2> QED BY <1>20, <2>1, KeptTrans
<1>22. /\ todo' \in [Thread -> Seq(Work)]
       /\ \A T \in Thread : todo'[T] = IF ProcOf[T] = p THEN <<>> ELSE todo[T]
       /\ proc_todo' \in [Proc -> Seq(Tx)] /\ proc_todo'[p] = <<>>
       /\ \A q \in Proc \ {p} : proc_todo'[q] = proc_todo[q]
       /\ async_todo' \in [Proc -> Seq(Tx)] /\ async_todo'[p] = <<>>
       /\ \A q \in Proc \ {p} : async_todo'[q] = async_todo[q]
  BY <1>1, <1>4
<1>23. /\ has_async' \in [Proc -> BOOLEAN] /\ has_async'[p] = FALSE
       /\ \A q \in Proc \ {p} : has_async'[q] = has_async[q]
       /\ held' \in [Proc -> Nat] /\ held'[p] = 0 /\ \A q \in Proc \ {p} : held'[q] = held[q]
       /\ released' \subseteq Proc /\ dropped' \subseteq Proc
  BY <1>1, <1>4
<1>24. QueuedTx' = W
  <2>1. BinderTypeOK'
    <3>1. g \in HeapSet
      BY <1>20 DEF HeapSound
    <3>2. /\ g.tx \in TxMap /\ g.stack \in StackType /\ g.error \in ErrorType /\ g.error2 \in ErrorType
          /\ g.woken \in [Thread -> BOOLEAN]
      BY <3>1, HeapFields
    <3> QED BY <1>1, <1>4, <1>22, <1>23, <3>2, TypesAgain DEF SetHeap, ModeType
  <2>2. /\ \A S \in Thread : InTodo(S)' = IF ProcOf[S] = p THEN {} ELSE InTodo(S)
        /\ \A q \in Proc : InProc(q)' = IF q = p THEN {} ELSE InProc(q)
        /\ \A q \in Proc : InAsync(q)' = IF q = p THEN {} ELSE InAsync(q)
    BY <1>22, EmptyList DEF InTodo, InProc, InAsync
  <2>3. ASSUME NEW t, t \in QueuedTx' PROVE t \in W
    <3>1. CASE \E S \in Thread : t \in InTodo(S)'
      <4>1. PICK S \in Thread : t \in InTodo(S) /\ ProcOf[S] # p
        BY <2>2, <3>1
      <4>2. t \in QueuedTx
        BY <1>0, <4>1, InQueue
      <4>3. t \notin L /\ t \notin A /\ t \notin B
        BY <1>0, <1>6, <4>1 DEF Apart, A, B
      <4> QED BY <1>w, <4>2, <4>3
    <3>2. CASE \E q \in Proc : t \in InProc(q)'
      <4>1. PICK q \in Proc : t \in InProc(q) /\ q # p
        BY <2>2, <3>2
      <4>2. t \in QueuedTx
        BY <1>0, <4>1, InQueue
      <4>3. t \notin A
        BY <1>0, <4>1 DEF Suited, SuitsProc, A
      <4>4. t \notin L /\ t \notin B
        BY <1>0, <1>6, <4>1 DEF Apart, B
      <4> QED BY <1>w, <4>2, <4>3, <4>4
    <3>3. CASE \E q \in Proc : t \in InAsync(q)'
      <4>1. PICK q \in Proc : t \in InAsync(q) /\ q # p
        BY <2>2, <3>3
      <4>2. t \in QueuedTx
        BY <1>0, <4>1, InQueue
      <4>3. t \notin B
        BY <1>0, <4>1 DEF Suited, SuitsNode, B
      <4>4. t \notin L /\ t \notin A
        BY <1>0, <1>6, <4>1 DEF Apart, A
      <4> QED BY <1>w, <4>2, <4>3, <4>4
    <3> QED BY <2>1, <2>3, <3>1, <3>2, <3>3, InQueueNext
  <2>4. ASSUME NEW t, t \in W PROVE t \in QueuedTx'
    <3>1. t \in QueuedTx /\ t \notin L /\ t \notin A /\ t \notin B
      BY <1>w, <2>4
    <3>2. \/ \E S \in Thread : t \in InTodo(S)
          \/ \E q \in Proc : t \in InProc(q) \/ t \in InAsync(q)
      BY <1>0, <3>1, InQueue
    <3>3. \/ \E S \in Thread : t \in InTodo(S)'
          \/ \E q \in Proc : t \in InProc(q)' \/ t \in InAsync(q)'
      BY <1>6, <2>2, <3>1, <3>2 DEF A, B
    <3> QED BY <2>1, <3>3, InQueueNext
  <2> QED BY <2>3, <2>4
<1>25. Vanished(p)
  BY <1>22, <1>23 DEF Vanished
<1>26. \A q \in Proc \ dropped' : Vanished(q) \/ Remains(q)
  <2>1. ASSUME NEW q \in Proc \ dropped', q # p PROVE Remains(q)
    BY <1>4, <1>22, <1>23, <2>1 DEF Remains
  <2> QED BY <1>25, <2>1
<1>27. HeapSound(g, QueuedTx', {}) /\ Kept(Heap, g, QueuedTx')
  BY <1>20, <1>21, <1>24
<1>28. /\ \A S \in Thread : todo'[S] \in {todo[S], <<>>}
       /\ \A q \in Proc : proc_todo'[q] \in {proc_todo[q], <<>>}
       /\ \A q \in Proc : async_todo'[q] \in {async_todo[q], <<>>}
  BY <1>22
<1> QED BY <1>4, <1>22, <1>23, <1>26, <1>27, <1>28, HeapStep

-----------------------------------------------------------------------------
(* All behaviours.                                                         *)

\* No transaction, nothing queued.
LEMMA SoundAtFirst ==
  ASSUME BinderInit
  PROVE  BinderTypeOK /\ QueuedTx = {} /\ Sound(tx, stack, {}, {})
<1>1. /\ \A t \in Tx : tx[t] = Free
      /\ \A T \in Thread : stack[T] = NULL
      /\ \A T \in Thread : todo[T] = <<>>
      /\ \A p \in Proc : proc_todo[p] = <<>> /\ async_todo[p] = <<>>
  BY DEF BinderInit
<1>2. Free \in TxRecord
  BY DEF Free, TxRecord
<1>3. tx \in TxMap /\ stack \in StackType
  BY <1>2 DEF BinderInit, TxMap, StackType
<1>4. BinderTypeOK
  <2>1. todo \in [Thread -> Seq(Work)] /\ proc_todo \in [Proc -> Seq(Tx)] /\ async_todo \in [Proc -> Seq(Tx)]
    BY DEF BinderInit
  <2>2. /\ return_error \in ErrorType /\ return_error2 \in ErrorType
        /\ mode \in [Thread -> {"user", "proc", "thread"}] /\ woken \in [Thread -> BOOLEAN]
        /\ has_async \in [Proc -> BOOLEAN] /\ held \in [Proc -> Nat]
        /\ released \subseteq Proc /\ dropped \subseteq Proc
    BY DEF BinderInit, ErrorType
  <2> QED BY <1>3, <2>1, <2>2 DEF BinderTypeOK, TxMap, TxRecord, StackType, Work, ErrorType
<1>5. QueuedTx = {}
  <2>1. /\ \A T \in Thread : InTodo(T) = {}
        /\ \A p \in Proc : InProc(p) = {} /\ InAsync(p) = {}
    BY <1>1, EmptyList DEF InTodo, InProc, InAsync
  <2>2. \A t : t \notin QueuedTx
    BY <1>4, <2>1, InQueue
  <2> QED BY <2>2
<1>6. \A t \in Tx : /\ tx[t].kind = "free" /\ tx[t].from = NULL /\ tx[t].from_parent = NULL
                    /\ tx[t].to_thread = NULL /\ tx[t].to_parent = NULL
  BY <1>1 DEF Free
<1>7. Shaped(tx) /\ Linked(tx, {}) /\ OneChild(tx) /\ Backed(tx)
  BY <1>6 DEF Shaped, Linked, OneChild, Backed, IsCall
<1>8. Ranked(tx)
  <2>1. RankOf([t \in Tx |-> 0], tx)
    BY <1>6 DEF RankOf
  <2> QED BY <2>1 DEF Ranked
<1>9. \A T \in Thread : On(tx, stack, T) = {}
  BY <1>1, <1>3, StackEmpty DEF On
<1>10. Stacked(tx, stack, {}) /\ Waits(tx, stack, {}) /\ Cared(tx, {})
  BY <1>6, <1>9 DEF Stacked, Waits, Cared, IsCall
<1>11. Sound(tx, stack, {}, {})
  BY <1>3, <1>7, <1>8, <1>10 DEF Sound
<1> QED BY <1>4, <1>5, <1>11

\* The invariant holds at first.
LEMMA BinderStarts ==
  ASSUME BinderInit
  PROVE  BinderInv
<1>1. BinderTypeOK /\ QueuedTx = {} /\ Sound(tx, stack, {}, {})
  BY SoundAtFirst
<1>2. /\ \A T \in Thread : /\ stack[T] = NULL /\ todo[T] = <<>> /\ return_error2[T] = "OK"
                           /\ mode[T] = "user"
      /\ \A p \in Proc : proc_todo[p] = <<>> /\ async_todo[p] = <<>> /\ held[p] = 0 /\ ~has_async[p]
  BY DEF BinderInit
<1>3. HeapSound(Heap, QueuedTx, {})
  <2>1. Heap \in HeapSet
    BY <1>1, TypeFacts DEF Heap, HeapSet
  <2> QED BY <1>1, <1>2, <2>1 DEF HeapSound, Heap, Room, Awake
<1>4. /\ \A T \in Thread : InTodo(T) = {} /\ Once(todo[T])
      /\ \A p \in Proc : InProc(p) = {} /\ InAsync(p) = {} /\ Once(proc_todo[p]) /\ Once(async_todo[p])
  BY <1>2, EmptyList DEF InTodo, InProc, InAsync
<1>5. ListsOnce /\ Suited /\ Apart
  BY <1>4 DEF ListsOnce, Suited, Apart
<1>6. WakeupsNotLost
  BY <1>2 DEF WakeupsNotLost
<1>7. OneWayInTurn
  <2>1. ASSUME NEW p \in Proc PROVE Cardinality(OnTheWay(p)) = 0
    <3>1. OnTheWay(p) = Way(p)
      BY <1>1, WayFacts
    <3>2. Way(p) = {}
      BY <1>4 DEF Way
    <3> QED BY <3>1, <3>2, FS_EmptySet
  <2> QED BY <1>2, <2>1 DEF OneWayInTurn
<1> QED BY <1>1, <1>3, <1>5, <1>6, <1>7 DEF BinderInv

\* A step that changes nothing.
LEMMA BinderStutters ==
  ASSUME BinderInv, UNCHANGED binder_vars
  PROVE  BinderInv'
<1>0. BinderTypeOK /\ HeapSound(Heap, QueuedTx, {}) /\ ListsOnce /\ WakeupsNotLost
  BY DEF BinderInv
<1>1. /\ tx' = tx /\ stack' = stack /\ todo' = todo /\ return_error' = return_error
      /\ return_error2' = return_error2 /\ mode' = mode /\ woken' = woken /\ proc_todo' = proc_todo
      /\ UNCHANGED node_vars /\ released' = released
  BY DEF binder_vars, thread_vars
<1>2. BinderTypeOK'
  BY <1>0, <1>1 DEF BinderTypeOK, node_vars
<1>3. Sound(tx', stack', QueuedTx', {}) /\ ListsOnce' /\ Suited' /\ Apart' /\ OneWayInTurn'
  BY <1>0, <1>1, <1>2, SameLists DEF InTodo, ListsOnce
<1>4. HeapSound(Heap, QueuedTx, {})'
  BY <1>0, <1>1, <1>2, <1>3, HeapFacts, HeapAgain
<1>5. WakeupsNotLost'
  BY <1>0, <1>1 DEF WakeupsNotLost
<1> QED BY <1>2, <1>3, <1>4, <1>5 DEF BinderInv

\* Every step keeps the invariant.
LEMMA BinderKeeps ==
  ASSUME BinderInv, [BinderNext]_binder_vars
  PROVE  BinderInv'
<1>1. ASSUME NEW T \in Thread, WriteStep(T) PROVE BinderInv'
  <2>1. ProcOf[T] \in Proc
    BY BinderAssumption
  <2>2. CASE \E q \in Proc, t \in Tx : Call(T, q, t) \/ CallOneWay(T, q, t)
    BY <2>2, CallStep, CallOneWayStep
  <2>3. CASE CallFails(T) \/ ReplyRefused(T)
    BY <2>3, RefusedStep DEF CallFails, ReplyRefused
  <2>4. CASE Reply(T) \/ ReplyFails(T)
    BY <2>4, ReplyStep, ReplyFailsStep
  <2>5. CASE FreeBuffer(T, ProcOf[T])
    BY <2>1, <2>5, FreeBufferStep
  <2> QED BY <1>1, <2>2, <2>3, <2>4, <2>5 DEF WriteStep
<1>2. ASSUME NEW T \in Thread, Read(T) PROVE BinderInv'
  BY <1>2, WaitStep DEF Read, Running
<1>3. ASSUME NEW T \in Thread, ReadStep(T) PROVE BinderInv'
  <2>1. CASE ReadThreadWork(T) \/ ReadProcWork(T)
    BY <2>1, ReadThreadStep, ReadProcStep
  <2>2. CASE ReadComplete(T)
    BY <2>2, ReadCompleteStep
  <2>3. CASE ReadNothing(T)
    BY <2>3, WaitStep DEF ReadNothing
  <2> QED BY <1>3, <2>1, <2>2, <2>3 DEF ReadStep
<1>4. ASSUME NEW T \in Thread, Interrupted(T) \/ ThreadExit(T) PROVE BinderInv'
  BY <1>4, ReadCompleteStep, ThreadExitStep
<1>5. ASSUME NEW p \in Proc, ProcessExit(p) PROVE BinderInv'
  BY <1>5, ProcessExitStep
<1>6. CASE UNCHANGED binder_vars
  BY <1>6, BinderStutters
<1> QED BY <1>1, <1>2, <1>3, <1>4, <1>5, <1>6 DEF BinderNext

\* The pointers of the transactions are sound whenever the invariant holds.
LEMMA InvStacksSound ==
  ASSUME BinderInv
  PROVE  StacksSound
<1> DEFINE W == QueuedTx
<1>1. BinderTypeOK /\ Suited /\ Sound(tx, stack, W, {})
  BY HeapFacts DEF BinderInv
<1> HIDE DEF W
<1>2. /\ tx \in TxMap /\ stack \in StackType /\ Shaped(tx) /\ Linked(tx, W) /\ Backed(tx)
      /\ Stacked(tx, stack, W) /\ Waits(tx, stack, W) /\ Cared(tx, W)
  <2>1. W \cup {} = W
    OBVIOUS
  <2> QED BY <1>1, <2>1 DEF Sound
<1>3. \A T \in Thread : \A t \in OnStack(tx, T, stack[T]) :
        tx[t].kind = "call" /\ T \in {tx[t].from, tx[t].to_thread}
  BY <1>2 DEF Stacked, On, IsCall
<1>4. ASSUME NEW T \in Thread, ReplyExpected(T), tx[stack[T]].from # NULL
      PROVE  stack[tx[stack[T]].from] = stack[T]
  BY <1>1, <1>4, SenderWaits DEF ReplyExpected
<1>5. ASSUME NEW t \in Tx, tx[t].kind = "call", tx[t].from # NULL
      PROVE  t \in OnStack(tx, tx[t].from, stack[tx[t].from])
  BY <1>2, <1>5 DEF Stacked, On, IsCall
<1>6. ASSUME NEW t \in Tx, tx[t].to_thread # NULL
      PROVE  t \in OnStack(tx, tx[t].to_thread, stack[tx[t].to_thread]) \cup ToSet(todo[tx[t].to_thread])
  <2> DEFINE T == tx[t].to_thread
  <2>1. T \in Thread /\ tx[t].kind \in {"call", "reply"}
    BY <1>2, <1>6, TxFields DEF Shaped, TxMap, TxRecord
  <2>2. CASE t \in W
    <3>1. \/ \E S \in Thread : t \in InTodo(S)
          \/ \E p \in Proc : t \in InProc(p) \/ t \in InAsync(p)
      BY <1>1, <2>2, InQueue DEF W
    <3>2. \A p \in Proc : t \notin InProc(p) /\ t \notin InAsync(p)
      BY <1>1, <1>6, <2>1 DEF Suited, SuitsProc, SuitsNode
    <3>3. PICK S \in Thread : t \in InTodo(S)
      BY <3>1, <3>2
    <3>4. S = T
      BY <1>1, <2>1, <3>3 DEF Suited, SuitsThread
    <3>5. todo[T] \in Seq(Work)
      BY <1>1, <2>1, TypeFacts
    <3>6. t \in ToSet(todo[T])
      BY <3>3, <3>4, <3>5, InList DEF InTodo
    <3> QED BY <3>6
  <2>3. CASE t \notin W
    BY <1>2, <1>6, <2>1, <2>3 DEF Cared, Stacked, On, IsCall
  <2> QED BY <2>2, <2>3
<1>7. ASSUME NEW t \in Tx, NEW u \in {tx[t].from_parent, tx[t].to_parent} \ {NULL}
      PROVE  tx[u].kind = "call"
  BY <1>2, <1>7 DEF Linked, MadeFor, Backed, HandledOn, IsCall
<1>8. ASSUME NEW t \in Tx, Queued(t) PROVE tx[t].kind # "free"
  BY <1>2, <1>8 DEF Waits, W, QueuedTx
<1> QED BY <1>3, <1>4, <1>5, <1>6, <1>7, <1>8 DEF StacksSound

\* The path of a failed call ends at the first one that has a sender.
LEMMA CallerIs ==
  ASSUME NEW X \in TxMap, NEW u \in Tx, NEW t \in FailedPath(X, u), t \in Tx, X[t].from # NULL
  PROVE  Caller(X, u) = t
<1> DEFINE N == FailMap(X)
           c == FailedPath(X, u) \ Orphaned(X, u)
<1>1. N \in NextMap /\ \A x \in Tx : N[x] = IF X[x].from = NULL THEN X[x].from_parent ELSE NULL
  BY MapTypes DEF FailMap
<1>2. FailedPath(X, u) = Chain(N, u)
  BY ChainsOf
<1> HIDE DEF N
<1>3. ASSUME NEW x \in c PROVE x = t
  <2>1. x \in Chain(N, u) /\ X[x].from # NULL
    BY <1>2 DEF Orphaned
  <2>2. x \in Tx
    BY <2>1, ChainType
  <2>3. N[x] = NULL /\ N[t] = NULL
    BY <1>1, <2>1, <2>2
  <2>4. t \in Chain(N, x)
    BY <1>1, <1>2, <2>1, <2>2, <2>3, ChainEnd
  <2>5. Chain(N, x) = {x}
    BY <1>1, <2>2, <2>3, ChainStep, ChainNull
  <2> QED BY <2>4, <2>5
<1>4. t \in c
  BY DEF Orphaned
<1>5. c = {t}
  BY <1>3, <1>4
<1> HIDE DEF c
<1>6. Caller(X, u) = IF c = {} THEN NULL ELSE CHOOSE x \in c : TRUE
  BY DEF Caller, c
<1> QED BY <1>5, <1>6

\* Whoever waits is answered whenever the invariant holds.  The calls that would tell the sender
\* of t, were they ended, cannot all have been handed on to another one: these are as many, and t
\* is not one of them.
LEMMA InvCallersAnswered ==
  ASSUME BinderInv
  PROVE  CallersAnswered
<1> SUFFICES ASSUME NEW t \in Tx, tx[t].kind = "call", tx[t].from # NULL, ~Answerable(t)
             PROVE  FALSE
  BY DEF CallersAnswered
<1> DEFINE P == {u \in Tx : t \in FailedPath(tx, u)}
           N == FailMap(tx)
<1>1. /\ tx \in TxMap /\ Shaped(tx) /\ Linked(tx, QueuedTx \cup {}) /\ OneChild(tx)
      /\ Cared(tx, QueuedTx \cup {})
  BY HeapFacts DEF BinderInv, Sound
<1>2. N \in NextMap /\ \A x \in Tx : N[x] = IF tx[x].from = NULL THEN tx[x].from_parent ELSE NULL
  BY <1>1, MapTypes DEF FailMap
<1>3. \A u : FailedPath(tx, u) = Chain(N, u)
  BY ChainsOf
<1> HIDE DEF N
<1>4. t \in P
  BY <1>2, <1>3, ChainClosed
<1>5. ASSUME NEW u \in P PROVE u \notin QueuedTx /\ tx[u].to_thread = NULL
  <2>1. Caller(tx, u) = t
    BY <1>1, CallerIs
  <2> QED BY <2>1 DEF Answerable, QueuedTx
<1>6. ASSUME NEW u \in P PROVE IsCall(tx, u)
  <2>1. CASE u = t
    BY <2>1 DEF IsCall
  <2>2. CASE u # t
    <3>1. t \in Chain(N, u) /\ Chain(N, u) = {u} \cup Chain(N, N[u])
      BY <1>2, <1>3, ChainStep
    <3>2. N[u] # NULL
      BY <1>2, <2>2, <3>1, ChainNull
    <3>3. tx[u].from_parent # NULL
      BY <1>2, <3>2
    <3> QED BY <1>1, <3>3 DEF Shaped
  <2> QED BY <2>1, <2>2
<1>7. ASSUME NEW u \in P PROVE \E v \in P \ {t} : tx[v].from_parent = u
  <2>1. ~End(tx, u)
    BY <1>1, <1>5, <1>6 DEF Cared
  <2>2. PICK v \in Tx : tx[v].from_parent = u
    BY <2>1 DEF End
  <2>3. u # NULL
    BY BinderAssumption
  <2>4. tx[v].from = NULL
    BY <1>1, <1>5, <2>2, <2>3 DEF Linked, MadeFor
  <2>5. N[v] = u
    BY <1>2, <2>2, <2>4
  <2>6. t \in Chain(N, v)
    BY <1>2, <1>3, <2>5, ChainStep
  <2> QED BY <1>3, <2>2, <2>4, <2>6
<1> DEFINE f == [u \in P |-> CHOOSE v \in P \ {t} : tx[v].from_parent = u]
<1>8. \A u \in P : f[u] \in P \ {t} /\ tx[f[u]].from_parent = u
  BY <1>7
<1>9. f \in Injection(P, P \ {t})
  <2>1. f \in [P -> P \ {t}]
    BY <1>8
  <2>2. \A a, b \in P : f[a] = f[b] => a = b
    BY <1>8
  <2> HIDE DEF f
  <2> QED BY <2>1, <2>2 DEF Injection, IsInjective
<1>10. IsFiniteSet(P)
  BY FS_Subset, BinderAssumption
<1> HIDE DEF P, f
<1>11. IsFiniteSet(P \ {t}) /\ Cardinality(P \ {t}) = Cardinality(P) - 1
  BY <1>4, <1>10, FS_RemoveElement
<1>12. Cardinality(P) <= Cardinality(P \ {t})
  BY <1>9, <1>11, FS_Injection
<1>13. Cardinality(P) \in Nat
  BY <1>10, FS_CardinalityType
<1> QED BY <1>11, <1>12, <1>13

\* The invariant holds in every state.
THEOREM BinderInvariant == BinderSpec => []BinderInv
<1>1. BinderInit => BinderInv
  BY BinderStarts
<1>2. BinderInv /\ [BinderNext]_binder_vars => BinderInv'
  BY BinderKeeps
<1> QED BY <1>1, <1>2, PTL DEF BinderSpec

\* Every variable keeps its type: in particular the stacks and the lists hold transactions, and
\* the number of buffers user space has not freed is never negative (BinderTypeOK).
THEOREM BinderTyped == BinderSpec => []BinderTypeOK
<1>1. BinderInv => BinderTypeOK
  BY DEF BinderInv
<1> QED BY <1>1, BinderInvariant, PTL

\* The pointers between threads and transactions stay sound whatever calls, replies, exits of
\* threads and exits of processes follow each other (StacksSound): no BUG_ON of
\* binder_pop_transaction, binder_free_thread or binder_thread_read can fire.
THEOREM StacksStaySound == BinderSpec => []StacksSound
<1>1. BinderInv => StacksSound
  BY InvStacksSound
<1> QED BY <1>1, BinderInvariant, PTL

\* Whoever waits for a reply will get one or an error (CallersAnswered): binder_send_failed_reply
\* and binder_free_thread leave no caller without a call that somebody will still end.
THEOREM CallersStayAnswerable == BinderSpec => []CallersAnswered
<1>1. BinderInv => CallersAnswered
  BY InvCallersAnswered
<1> QED BY <1>1, BinderInvariant, PTL

\* binder_thread_read never sleeps with something to do (WakeupsNotLost), for any number of threads
\* that wait exclusively for the work of their process.
THEOREM NoWakeupIsLost == BinderSpec => []WakeupsNotLost
<1>1. BinderInv => WakeupsNotLost
  BY DEF BinderInv
<1> QED BY <1>1, BinderInvariant, PTL

\* One-way calls of a node are handled one at a time and none is left behind (OneWayInTurn), unless
\* a thread dropped one at its end.
THEOREM OneWayCallsInTurn == BinderSpec => []OneWayInTurn
<1>1. BinderInv => OneWayInTurn
  BY DEF BinderInv
<1> QED BY <1>1, BinderInvariant, PTL

\* A thread that waits for a reply has no second error: the branch of binder_send_failed_reply
\* that finds "has error code already", and leaves the caller without an answer, is dead code.
THEOREM ErrorsFindRoom ==
  BinderSpec => [](\A T \in Thread : stack[T] # NULL /\ return_error2[T] # "OK" => ReplyExpected(T))
<1>1. BinderInv => \A T \in Thread : stack[T] # NULL /\ return_error2[T] # "OK" => ReplyExpected(T)
  BY HeapFacts DEF BinderInv, ReplyExpected
<1> QED BY <1>1, BinderInvariant, PTL
=============================================================================
