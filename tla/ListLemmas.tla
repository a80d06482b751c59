----------------------------- MODULE ListLemmas -----------------------------
(***************************************************************************)
(* Facts about loops and lists that the proofs of several components use.  *)
(* Induction over the natural numbers is taken from the library in the     *)
(* form of WFMin, which speaks of sets: what is to be proved of every      *)
(* round of a loop is written as the set of the rounds it holds for.       *)
(***************************************************************************)
EXTENDS Naturals, Lists, TLAPS, WellFoundedInduction, FiniteSetTheorems

\* The order of the natural numbers, as a relation.
Below == {ss \in Nat \X Nat : ss[1] < ss[2]}

\* Every set of natural numbers that is not empty has a least element.
LEMMA LeastNat ==
  ASSUME NEW S \in SUBSET Nat, S # {}
  PROVE  \E n \in S : \A m \in S : n <= m
<1>1. IsWellFoundedOn(Below, Nat)
  BY NatLessThanWellFounded DEF OpToRel, Below
<1>2. PICK n \in S : \A m \in S : ~(<<m, n>> \in Below)
  BY <1>1, WFMin
<1>3. \A m \in S : ~(m < n)
  BY <1>2 DEF Below
<1> QED BY <1>3

\* Induction over the rounds of a loop.
LEMMA UpTo ==
  ASSUME NEW n \in Nat, NEW S, 0 \in S, \A i \in 1 .. n : i - 1 \in S => i \in S
  PROVE  \A i \in 0 .. n : i \in S
<1> DEFINE Bad == {i \in 0 .. n : i \notin S}
<1>1. SUFFICES ASSUME Bad # {} PROVE FALSE
  OBVIOUS
<1>2. PICK m \in Bad : \A k \in Bad : m <= k
  <2>1. Bad \in SUBSET Nat
    OBVIOUS
  <2> HIDE DEF Bad
  <2> QED BY <1>1, <2>1, LeastNat
<1>3. m \in 1 .. n /\ m - 1 \in 0 .. n
  OBVIOUS
<1>4. m - 1 \in S
  BY <1>2, <1>3
<1> QED BY <1>3, <1>4

\* g gives the states, all in S, of a loop that starts with c and applies step[i] in its
\* i-th round.
IsLoop(g, S, c, n, step) ==
  /\ g \in [0 .. n -> S] /\ g[0] = c
  /\ \A i \in 1 .. n : g[i] = step[i][g[i - 1]]

\* Every loop has such a function.
LEMMA LoopExists ==
  ASSUME NEW S, NEW c \in S, NEW n \in Nat, NEW step \in [1 .. n -> [S -> S]]
  PROVE  \E g : IsLoop(g, S, c, n, step)
<1> DEFINE Good == {m \in 0 .. n : \E g : IsLoop(g, S, c, m, step)}
<1>1. 0 \in Good
  <2>1. IsLoop([i \in 0 .. 0 |-> c], S, c, 0, step)
    BY DEF IsLoop
  <2> QED BY <2>1
<1>2. ASSUME NEW m \in 1 .. n, m - 1 \in Good
      PROVE  m \in Good
  <2>1. PICK g : IsLoop(g, S, c, m - 1, step)
    BY <1>2
  <2>2. IsLoop([i \in 0 .. m |-> IF i = m THEN step[m][g[m - 1]] ELSE g[i]], S, c, m, step)
    BY <2>1 DEF IsLoop
  <2> QED BY <2>2
<1>3. n \in Good
  <2> HIDE DEF Good
  <2>1. \A m \in 1 .. n : m - 1 \in Good => m \in Good
    BY <1>2
  <2>2. \A m \in 0 .. n : m \in Good
    BY <1>1, <2>1, UpTo
  <2> QED BY <2>2
<1> QED BY <1>3

\* to leads from every argument that is not in K to a larger one.
Forward(n, K, to) == \A k \in 0 .. n : k \notin K => to[k] \in k + 1 .. n

\* f has the values base on K, and elsewhere what op makes of its value for a larger
\* argument.
IsJump(f, S, n, K, base, to, op) ==
  /\ f \in [0 .. n -> S]
  /\ \A k \in 0 .. n : f[k] = IF k \in K THEN base[k] ELSE op[k][f[to[k]]]

\* There is always such a function.
LEMMA JumpsExist ==
  ASSUME NEW n \in Nat, NEW S, NEW K, NEW base \in [0 .. n -> S],
         NEW to, NEW op \in [0 .. n -> [S -> S]], Forward(n, K, to)
  PROVE  \E f : IsJump(f, S, n, K, base, to, op)
<1> DEFINE Right(f, m) ==
             /\ f \in [0 .. n -> S]
             /\ \A k \in 0 .. n : k + m >= n =>
                  f[k] = IF k \in K THEN base[k] ELSE op[k][f[to[k]]]
           Good == {m \in 0 .. n : \E f : Right(f, m)}
<1>0. \A k \in 0 .. n : k \notin K => to[k] \in k + 1 .. n
  BY DEF Forward
<1>1. n \in K
  BY <1>0
<1>2. 0 \in Good
  <2>1. Right(base, 0)
    BY <1>1
  <2> QED BY <2>1
<1>3. ASSUME NEW m \in 1 .. n, m - 1 \in Good
      PROVE  m \in Good
  <2>1. PICK f : Right(f, m - 1)
    BY <1>3
  <2> DEFINE i == n - m
             v == IF i \in K THEN base[i] ELSE op[i][f[to[i]]]
             g == [f EXCEPT ![i] = v]
  <2>2. i \in 0 .. n
    OBVIOUS
  <2>3. v \in S
    <3>1. CASE i \in K
      BY <2>2, <3>1
    <3>2. CASE i \notin K
      <4>1. to[i] \in 0 .. n
        BY <1>0, <2>2, <3>2
      <4>2. f[to[i]] \in S
        BY <2>1, <4>1
      <4> QED BY <2>2, <3>2, <4>2
    <3> QED BY <3>1, <3>2
  <2> HIDE DEF v
  <2>4. g \in [0 .. n -> S]
    BY <2>1, <2>2, <2>3
  <2>5. ASSUME NEW k \in 0 .. n, k + m >= n
        PROVE  g[k] = IF k \in K THEN base[k] ELSE op[k][g[to[k]]]
    <3>1. k \notin K => to[k] \in 0 .. n /\ to[k] # i /\ g[to[k]] = f[to[k]]
      BY <1>0, <2>1, <2>5
    <3>2. CASE k = i
      <4>1. g[k] = v
        BY <2>1, <3>2
      <4> QED BY <3>1, <3>2, <4>1 DEF v
    <3>3. CASE k # i
      <4>1. g[k] = f[k] /\ k + (m - 1) >= n
        BY <2>1, <2>5, <3>3
      <4> QED BY <2>1, <3>1, <4>1
    <3> QED BY <3>2, <3>3
  <2>6. Right(g, m)
    BY <2>4, <2>5
  <2> HIDE DEF g, Right
  <2> QED BY <2>6
<1>4. n \in Good
  <2> HIDE DEF Good
  <2>1. \A m \in 1 .. n : m - 1 \in Good => m \in Good
    BY <1>3
  <2>2. \A m \in 0 .. n : m \in Good
    BY <1>2, <2>1, UpTo
  <2> QED BY <2>2
<1>5. PICK f : Right(f, n)
  BY <1>4
<1>6. \A k \in 0 .. n : f[k] = IF k \in K THEN base[k] ELSE op[k][f[to[k]]]
  BY <1>5
<1> QED BY <1>5, <1>6 DEF IsJump

\* F is the first m sequences of ss put one after the other: the k-th element of F is
\* the off[k]-th of the src[k]-th sequence.
Flattened(F, ss, m, src, off) ==
  /\ src \in [1 .. Len(F) -> 1 .. m] /\ off \in [1 .. Len(F) -> Nat]
  /\ \A k \in 1 .. Len(F) : off[k] \in 1 .. Len(ss[src[k]]) /\ F[k] = ss[src[k]][off[k]]
  /\ \A k, l \in 1 .. Len(F) :
       k < l => src[k] < src[l] \/ (src[k] = src[l] /\ off[k] < off[l])
  /\ \A i \in 1 .. m : \A j \in 1 .. Len(ss[i]) :
       \E k \in 1 .. Len(F) : src[k] = i /\ off[k] = j

\* FlattenSeq puts the sequences of a sequence one after the other.
LEMMA FlattenFacts ==
  ASSUME NEW A, NEW ss \in Seq(Seq(A))
  PROVE  /\ FlattenSeq(ss) \in Seq(A)
         /\ \E src, off : Flattened(FlattenSeq(ss), ss, Len(ss), src, off)
<1> DEFINE n == Len(ss)
           Ok(F, m) == F \in Seq(A) /\ \E src, off : Flattened(F, ss, m, src, off)
<1>0. n \in Nat /\ \A i \in 1 .. n : ss[i] \in Seq(A)
  OBVIOUS
<1> HIDE DEF n
<1>1. ASSUME NEW F, NEW m \in 1 .. n, Ok(F, m - 1)
      PROVE  Ok(F \o ss[m], m)
  <2> DEFINE G == F \o ss[m]
  <2>1. F \in Seq(A) /\ ss[m] \in Seq(A)
    BY <1>0, <1>1
  <2>2. PICK src, off : Flattened(F, ss, m - 1, src, off)
    BY <1>1
  <2>3. /\ G \in Seq(A) /\ Len(G) = Len(F) + Len(ss[m])
        /\ \A k \in 1 .. Len(G) : G[k] = IF k <= Len(F) THEN F[k] ELSE ss[m][k - Len(F)]
        /\ Len(F) \in Nat /\ Len(ss[m]) \in Nat
    BY <2>1
  <2> DEFINE src2 == [k \in 1 .. Len(G) |-> IF k <= Len(F) THEN src[k] ELSE m]
             off2 == [k \in 1 .. Len(G) |-> IF k <= Len(F) THEN off[k] ELSE k - Len(F)]
  <2> HIDE DEF G
  <2>4. src2 \in [1 .. Len(G) -> 1 .. m] /\ off2 \in [1 .. Len(G) -> Nat]
    BY <2>2, <2>3 DEF Flattened
  <2>5. ASSUME NEW k \in 1 .. Len(G)
        PROVE  off2[k] \in 1 .. Len(ss[src2[k]]) /\ G[k] = ss[src2[k]][off2[k]]
    <3>1. CASE k <= Len(F)
      <4>1. k \in 1 .. Len(F) /\ src2[k] = src[k] /\ off2[k] = off[k] /\ G[k] = F[k]
        BY <2>3, <3>1
      <4> QED BY <2>2, <4>1 DEF Flattened
    <3>2. CASE ~(k <= Len(F))
      <4>1. src2[k] = m /\ off2[k] = k - Len(F) /\ G[k] = ss[m][k - Len(F)]
        BY <2>3, <3>2
      <4>2. k - Len(F) \in 1 .. Len(ss[m])
        BY <2>3, <3>2
      <4> QED BY <4>1, <4>2
    <3> QED BY <3>1, <3>2
  <2>6. \A k, l \in 1 .. Len(G) :
          k < l => src2[k] < src2[l] \/ (src2[k] = src2[l] /\ off2[k] < off2[l])
    <3> SUFFICES ASSUME NEW k \in 1 .. Len(G), NEW l \in 1 .. Len(G), k < l
                 PROVE  src2[k] < src2[l] \/ (src2[k] = src2[l] /\ off2[k] < off2[l])
      OBVIOUS
    <3>1. CASE l <= Len(F)
      BY <2>2, <2>3, <3>1 DEF Flattened
    <3>2. CASE k <= Len(F) /\ l > Len(F)
      <4>0. src \in [1 .. Len(F) -> 1 .. m - 1] /\ k \in 1 .. Len(F)
        BY <2>2, <2>3, <3>2 DEF Flattened
      <4>1. src[k] \in 1 .. m - 1
        BY <4>0
      <4> QED BY <2>3, <3>2, <4>1
    <3>3. CASE k > Len(F)
      BY <2>3, <3>3
    <3> QED BY <2>3, <3>1, <3>2, <3>3
  <2>7. ASSUME NEW i \in 1 .. m, NEW j \in 1 .. Len(ss[i])
        PROVE  \E k \in 1 .. Len(G) : src2[k] = i /\ off2[k] = j
    <3>1. CASE i = m
      <4>1. Len(F) + j \in 1 .. Len(G)
        BY <2>3, <3>1
      <4> QED BY <2>3, <3>1, <4>1
    <3>2. CASE i # m
      <4>1. PICK k \in 1 .. Len(F) : src[k] = i /\ off[k] = j
        BY <2>2, <3>2 DEF Flattened
      <4>2. k \in 1 .. Len(G)
        BY <2>3
      <4> QED BY <4>1, <4>2
    <3> QED BY <3>1, <3>2
  <2>8. Flattened(G, ss, m, src2, off2)
    BY <2>4, <2>5, <2>6, <2>7 DEF Flattened
  <2> HIDE DEF src2, off2
  <2>9. Ok(G, m)
    BY <2>3, <2>8
  <2> QED BY <2>9 DEF G
<1>2. Ok(<<>>, 0)
  <2>1. Flattened(<<>>, ss, 0, <<>>, <<>>)
    BY DEF Flattened
  <2> QED BY <2>1
<1>3. Ok(FlattenSeq(ss), n)
  <2>1. CASE n = 0
    <3>1. FlattenSeq(ss) = <<>>
      BY <2>1 DEF FlattenSeq, n
    <3> HIDE DEF Ok
    <3> QED BY <1>2, <2>1, <3>1
  <2>2. CASE n # 0
    <3> DEFINE R(g) == [i \in 1 .. n |-> IF i = 1 THEN ss[i] ELSE g[i - 1] \o ss[i]]
               flat == CHOOSE g : g = R(g)
    <3>1. FlattenSeq(ss) = flat[n]
      BY <2>2 DEF FlattenSeq, n
    <3>2. flat = R(flat)
      <4>1. \E g : g = R(g)
        <5> DEFINE step == [i \in 1 .. n |-> [F \in Seq(A) |-> F \o ss[i]]]
        <5> DEFINE none == <<>>
                   S == Seq(A)
        <5>1. step \in [1 .. n -> [S -> S]] /\ none \in S /\ n \in Nat
          BY <1>0
        <5>2. PICK g : IsLoop(g, S, none, n, step)
          <6> HIDE DEF step, none, S
          <6> QED BY <5>1, LoopExists
        <5> DEFINE h == [i \in 1 .. n |-> g[i]]
        <5>3. ASSUME NEW i \in 1 .. n
              PROVE  g[i] = IF i = 1 THEN ss[i] ELSE h[i - 1] \o ss[i]
          <6>1. g[i] = step[i][g[i - 1]] /\ g[i - 1] \in Seq(A)
            <7> HIDE DEF step
            <7> QED BY <1>0, <5>2 DEF IsLoop
          <6>2. g[i] = g[i - 1] \o ss[i]
            BY <6>1
          <6>3. CASE i = 1
            <7>1. g[i - 1] = none
              <8> HIDE DEF none
              <8> QED BY <5>2, <6>3 DEF IsLoop
            <7> QED BY <1>0, <6>2, <6>3, <7>1
          <6>4. CASE i # 1
            <7>1. i - 1 \in 1 .. n
              BY <1>0, <6>4
            <7>2. h[i - 1] = g[i - 1]
              BY <7>1
            <7> QED BY <6>2, <6>4, <7>2
          <6> QED BY <6>3, <6>4
        <5>4. h = R(h)
          BY <5>3
        <5> HIDE DEF h
        <5> QED BY <5>4
      <4> HIDE DEF R
      <4> QED BY <4>1
    <3> DEFINE Good == {i \in 0 .. n : i = 0 \/ Ok(flat[i], i)}
    <3>3. 0 \in Good
      BY <1>0
    <3>4. ASSUME NEW i \in 1 .. n, i - 1 \in Good
          PROVE  i \in Good
      <4>1. flat[i] = IF i = 1 THEN ss[i] ELSE flat[i - 1] \o ss[i]
        <5> HIDE DEF flat
        <5> QED BY <3>2
      <4> HIDE DEF flat, Ok
      <4>2. CASE i = 1
        <5>0. Ok(<<>>, i - 1)
          BY <1>2, <4>2
        <5>1. Ok(<<>> \o ss[i], i)
          BY <1>1, <5>0
        <5>2. <<>> \o ss[i] = ss[i]
          BY <1>0
        <5> QED BY <4>1, <4>2, <5>1, <5>2
      <4>3. CASE i # 1
        <5>1. Ok(flat[i - 1], i - 1)
          BY <3>4, <4>3
        <5>2. Ok(flat[i - 1] \o ss[i], i)
          BY <1>1, <5>1
        <5>3. Ok(flat[i], i)
          BY <4>1, <4>3, <5>2
        <5> QED BY <5>3
      <4> QED BY <4>2, <4>3
    <3>5. n \in Good
      <4> HIDE DEF Good
      <4>1. \A i \in 1 .. n : i - 1 \in Good => i \in Good
        BY <3>4
      <4>2. \A i \in 0 .. n : i \in Good
        BY <1>0, <3>3, <4>1, UpTo
      <4> QED BY <1>0, <4>2
    <3> HIDE DEF flat, Ok
    <3> QED BY <2>2, <3>1, <3>5
  <2> QED BY <2>1, <2>2
<1> QED BY <1>3 DEF n

-----------------------------------------------------------------------------
\* F is s without the elements in X: the k-th element of F is the src[k]-th of s.
Filtered(F, s, X, src) ==
  /\ src \in [1 .. Len(F) -> 1 .. Len(s)]
  /\ \A k \in 1 .. Len(F) : F[k] = s[src[k]] /\ F[k] \notin X
  /\ \A k, l \in 1 .. Len(F) : k < l => src[k] < src[l]
  /\ \A i \in 1 .. Len(s) : s[i] \notin X => \E k \in 1 .. Len(F) : src[k] = i

\* Without keeps the elements that are not in X, in their order.
LEMMA WithoutFacts ==
  ASSUME NEW A, NEW s \in Seq(A), NEW X
  PROVE  /\ Without(s, X) \in Seq(A)
         /\ \E src : Filtered(Without(s, X), s, X, src)
<1> DEFINE ss == [i \in 1 .. Len(s) |-> IF s[i] \in X THEN <<>> ELSE <<s[i]>>]
           F == Without(s, X)
<1>1. /\ ss \in Seq(Seq(A)) /\ Len(ss) = Len(s)
      /\ \A i \in 1 .. Len(s) : /\ s[i] \in X => Len(ss[i]) = 0
                                /\ s[i] \notin X => Len(ss[i]) = 1 /\ ss[i][1] = s[i]
  OBVIOUS
<1>2. F = FlattenSeq(ss)
  BY DEF Without
<1> HIDE DEF ss, F
<1>3. PICK src, off : Flattened(F, ss, Len(ss), src, off)
  BY <1>1, <1>2, FlattenFacts
<1>4. F \in Seq(A) /\ Len(F) \in Nat
  BY <1>1, <1>2, FlattenFacts
<1>5. src \in [1 .. Len(F) -> 1 .. Len(s)] /\ Len(s) \in Nat
  BY <1>1, <1>3 DEF Flattened
<1>6. ASSUME NEW k \in 1 .. Len(F)
      PROVE  off[k] = 1 /\ F[k] = s[src[k]] /\ F[k] \notin X
  <2>1. off[k] \in 1 .. Len(ss[src[k]]) /\ F[k] = ss[src[k]][off[k]] /\ src[k] \in 1 .. Len(s)
    BY <1>3, <1>5 DEF Flattened
  <2> QED BY <1>1, <2>1
<1>7. ASSUME NEW k \in 1 .. Len(F), NEW l \in 1 .. Len(F), k < l
      PROVE  src[k] < src[l]
  <2>1. src[k] < src[l] \/ off[k] < off[l]
    BY <1>3, <1>7 DEF Flattened
  <2> QED BY <1>6, <2>1
<1>8. ASSUME NEW i \in 1 .. Len(s), s[i] \notin X
      PROVE  \E k \in 1 .. Len(F) : src[k] = i
  <2>1. Len(ss[i]) = 1 /\ i \in 1 .. Len(ss)
    BY <1>1, <1>8
  <2>2. 1 \in 1 .. Len(ss[i])
    BY <2>1
  <2> QED BY <1>3, <2>1, <2>2 DEF Flattened
<1>9. Filtered(F, s, X, src)
  BY <1>5, <1>6, <1>7, <1>8 DEF Filtered
<1> QED BY <1>4, <1>9 DEF F

\* In terms of sets.
LEMMA WithoutSet ==
  ASSUME NEW A, NEW s \in Seq(A), NEW X
  PROVE  ToSet(Without(s, X)) = ToSet(s) \ X
<1> DEFINE F == Without(s, X)
<1>1. PICK src : Filtered(F, s, X, src)
  BY WithoutFacts
<1>2. F \in Seq(A)
  BY WithoutFacts
<1> HIDE DEF F
<1>3. ASSUME NEW x \in ToSet(F) PROVE x \in ToSet(s) \ X
  <2>1. PICK k \in 1 .. Len(F) : x = F[k]
    BY <1>2 DEF ToSet
  <2> QED BY <1>1, <2>1 DEF Filtered, ToSet
<1>4. ASSUME NEW x \in ToSet(s) \ X PROVE x \in ToSet(F)
  <2>1. PICK i \in 1 .. Len(s) : x = s[i]
    BY DEF ToSet
  <2>2. PICK k \in 1 .. Len(F) : src[k] = i
    BY <1>1, <2>1 DEF Filtered
  <2> QED BY <1>1, <1>2, <2>1, <2>2 DEF Filtered, ToSet
<1> QED BY <1>3, <1>4 DEF F

\* The least element.
LEMMA MinFacts ==
  ASSUME NEW S \in SUBSET Nat, S # {}
  PROVE  Min(S) \in S /\ \A y \in S : Min(S) <= y
<1>1. \E x \in S : \A y \in S : x <= y
  BY LeastNat
<1> QED BY <1>1 DEF Min

\* The greatest element of a bounded set.
LEMMA MaxFacts ==
  ASSUME NEW b \in Nat, NEW S \in SUBSET (0 .. b), S # {}
  PROVE  Max(S) \in S /\ \A y \in S : y <= Max(S)
<1> DEFINE T == {m \in 0 .. b : \A y \in S : y <= m}
<1>1. PICK m \in T : \A k \in T : m <= k
  <2>1. b \in T /\ T \in SUBSET Nat
    OBVIOUS
  <2> HIDE DEF T
  <2> QED BY <2>1, LeastNat
<1>2. m \in S
  <2>1. SUFFICES ASSUME m \notin S PROVE FALSE
    OBVIOUS
  <2>2. \A y \in S : y <= m - 1
    BY <2>1
  <2>3. m # 0
    <3>1. PICK y \in S : TRUE
      OBVIOUS
    <3> QED BY <2>2, <3>1
  <2>4. m - 1 \in T
    BY <2>2, <2>3
  <2> QED BY <1>1, <2>4
<1>3. \E x \in S : \A y \in S : x >= y
  BY <1>1, <1>2
<1> QED BY <1>3 DEF Max

\* What is in a concatenation.
LEMMA ConcatSet ==
  ASSUME NEW A, NEW s \in Seq(A), NEW t \in Seq(A)
  PROVE  s \o t \in Seq(A) /\ ToSet(s \o t) = ToSet(s) \cup ToSet(t)
<1> DEFINE c == s \o t
<1>1. /\ c \in Seq(A) /\ Len(c) = Len(s) + Len(t) /\ Len(s) \in Nat /\ Len(t) \in Nat
      /\ \A i \in 1 .. Len(s) : c[i] = s[i]
      /\ \A i \in 1 .. Len(t) : c[Len(s) + i] = t[i]
  OBVIOUS
<1> HIDE DEF c
<1>2. /\ ToSet(c) = {c[i] : i \in 1 .. Len(c)} /\ ToSet(s) = {s[i] : i \in 1 .. Len(s)}
      /\ ToSet(t) = {t[i] : i \in 1 .. Len(t)}
  BY <1>1 DEF ToSet
<1>3. ASSUME NEW i \in 1 .. Len(c) PROVE c[i] \in ToSet(s) \cup ToSet(t)
  <2>1. CASE i <= Len(s)
    BY <1>1, <1>2, <2>1
  <2>2. CASE i > Len(s)
    <3>1. i - Len(s) \in 1 .. Len(t) /\ c[i] = t[i - Len(s)]
      BY <1>1, <2>2
    <3> QED BY <1>2, <3>1
  <2> QED BY <1>1, <2>1, <2>2
<1>4. \A i \in 1 .. Len(s) : i \in 1 .. Len(c) /\ c[i] = s[i]
  BY <1>1
<1>5. \A i \in 1 .. Len(t) : Len(s) + i \in 1 .. Len(c) /\ c[Len(s) + i] = t[i]
  BY <1>1
<1>6. ToSet(s) \subseteq ToSet(c)
  BY <1>2, <1>4
<1>7. ToSet(t) \subseteq ToSet(c)
  BY <1>2, <1>5
<1>8. ToSet(c) = ToSet(s) \cup ToSet(t)
  <2>1. ToSet(c) \subseteq ToSet(s) \cup ToSet(t)
    BY <1>2, <1>3
  <2> QED BY <2>1, <1>6, <1>7
<1> QED BY <1>1, <1>8 DEF c

\* What is in a sequence of sequences.
LEMMA FlattenElements ==
  ASSUME NEW A, NEW ss \in Seq(Seq(A))
  PROVE  ToSet(FlattenSeq(ss)) = UNION {ToSet(ss[i]) : i \in 1 .. Len(ss)}
<1> DEFINE F == FlattenSeq(ss)
<1>1. F \in Seq(A) /\ \A i \in 1 .. Len(ss) : ss[i] \in Seq(A)
  BY FlattenFacts
<1>2. PICK src, off : Flattened(F, ss, Len(ss), src, off)
  BY FlattenFacts
<1> HIDE DEF F
<1>3. ASSUME NEW x \in ToSet(F) PROVE \E i \in 1 .. Len(ss) : x \in ToSet(ss[i])
  <2>1. PICK k \in 1 .. Len(F) : x = F[k]
    BY <1>1 DEF ToSet
  <2>2. src[k] \in 1 .. Len(ss) /\ off[k] \in 1 .. Len(ss[src[k]]) /\ x = ss[src[k]][off[k]]
    BY <1>2, <2>1 DEF Flattened
  <2>3. x \in ToSet(ss[src[k]])
    BY <1>1, <2>2 DEF ToSet
  <2> QED BY <2>2, <2>3
<1>4. ASSUME NEW i \in 1 .. Len(ss), NEW x \in ToSet(ss[i]) PROVE x \in ToSet(F)
  <2>1. PICK j \in 1 .. Len(ss[i]) : x = ss[i][j]
    BY <1>1 DEF ToSet
  <2>2. PICK k \in 1 .. Len(F) : src[k] = i /\ off[k] = j
    BY <1>2 DEF Flattened
  <2>3. F[k] = x
    BY <1>2, <2>1, <2>2 DEF Flattened
  <2> QED BY <1>1, <2>3 DEF ToSet
<1> DEFINE U == UNION {ToSet(ss[i]) : i \in 1 .. Len(ss)}
<1>5. \A x \in ToSet(F) : x \in U
  BY <1>3
<1>6. \A x \in U : x \in ToSet(F)
  BY <1>4
<1>7. ToSet(F) = U
  <2> HIDE DEF U
  <2> QED BY <1>5, <1>6
<1> QED BY <1>7 DEF F

\* The elements of a list are what stands at its places.
LEMMA ElementsOf ==
  ASSUME NEW A, NEW s \in Seq(A)
  PROVE  \A x : x \in ToSet(s) <=> \E i \in 1 .. Len(s) : x = s[i]
BY DEF ToSet

\* Concatenation of short sequences.
LEMMA ConcatShort ==
  ASSUME NEW x, NEW y
  PROVE  <<>> \o <<x>> = <<x>> /\ <<x>> \o <<>> = <<x>> /\ <<x>> \o <<y>> = <<x, y>>
<1>1. <<>> \o <<x>> = <<x>>
  OBVIOUS
<1>2. <<x>> \o <<>> = <<x>>
  OBVIOUS
<1> DEFINE c == <<x>> \o <<y>>
           d == <<x, y>>
           A == {x, y}
<1>3. c \in Seq(A) /\ Len(c) = 2 /\ c[1] = x /\ c[2] = y
  OBVIOUS
<1>4. d \in Seq(A) /\ Len(d) = 2 /\ d[1] = x /\ d[2] = y
  OBVIOUS
<1> HIDE DEF c, d
<1>5. \A i \in 1 .. 2 : i = 1 \/ i = 2
  OBVIOUS
<1>6. \A i \in 1 .. 2 : c[i] = d[i]
  BY <1>3, <1>4, <1>5
<1>7. c = d
  BY <1>3, <1>4, <1>6
<1> QED BY <1>1, <1>2, <1>7 DEF c, d
=============================================================================
