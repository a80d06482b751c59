---------------------------- MODULE AndroidProofs ----------------------------
(***************************************************************************)
(* Proofs about the log (Logger), for any number of readers and writers,   *)
(* any size of the log and any length of an entry; and about shared memory *)
(* (Ashmem), for any set of areas of any sizes.                            *)
(***************************************************************************)
EXTENDS Logger, Ashmem, ListLemmas

-----------------------------------------------------------------------------
(***************************************************************************)
(* The log.                                                                *)
(***************************************************************************)

\* log->mutex has one holder.
OneWriter == \A v, w \in Writer : wpc[v] = "writing" /\ wpc[w] = "writing" => v = w

\* logger_offset gives offsets.
LEMMA OffsetType == 0 \in Offset /\ \A n \in Nat : logger_offset(n) \in Offset
  BY LoggerAssumption DEF Offset, logger_offset

-----------------------------------------------------------------------------
(* Offsets of the ring.                                                    *)

\* The offset that is k ahead of o; how far e is ahead of o.
Add(o, k) == logger_offset(o + k)
Dist(o, e) == (e + Size - o) % Size

\* Both without a remainder.
LEMMA RingFacts ==
  /\ \A o \in Offset : \A k \in 0 .. Size :
       Add(o, k) \in Offset /\ Add(o, k) = IF o + k < Size THEN o + k ELSE o + k - Size
  /\ \A o, e \in Offset :
       Dist(o, e) \in Offset /\ Dist(o, e) = IF o <= e THEN e - o ELSE e + Size - o
<1>0. Size \in Nat /\ Size > 0
  BY LoggerAssumption
<1>1. ASSUME NEW a \in Nat PROVE (a % Size) \in Offset
  BY <1>0 DEF Offset
<1>2. ASSUME NEW a \in Nat, a < Size PROVE a % Size = a
  BY <1>0, <1>2
<1>3. ASSUME NEW a \in Nat, a >= Size, a < Size + Size PROVE a % Size = a - Size
  BY <1>0, <1>3
<1>4. ASSUME NEW o \in Offset, NEW k \in 0 .. Size
      PROVE  Add(o, k) \in Offset /\ Add(o, k) = IF o + k < Size THEN o + k ELSE o + k - Size
  <2>1. PICK a \in Nat : a = o + k
    BY <1>0 DEF Offset
  <2>2. Add(o, k) = a % Size /\ a < Size + Size
    BY <1>0, <2>1 DEF Add, logger_offset, Offset
  <2>3. Add(o, k) \in Offset
    BY <1>1, <2>2
  <2>4. CASE a < Size
    BY <1>2, <2>1, <2>2, <2>3, <2>4
  <2>5. CASE ~(a < Size)
    <3>1. a >= Size
      BY <1>0, <2>5
    <3>2. Add(o, k) = a - Size
      BY <1>3, <2>2, <3>1
    <3>3. o + k = a /\ ~(o + k < Size)
      BY <2>1, <2>5
    <3>4. (IF o + k < Size THEN o + k ELSE o + k - Size) = o + k - Size
      BY <3>3
    <3>5. o + k - Size = a - Size
      BY <1>0, <3>3 DEF Offset
    <3> QED BY <2>3, <3>2, <3>4, <3>5
  <2> QED BY <2>4, <2>5
<1>5. ASSUME NEW o \in Offset, NEW e \in Offset
      PROVE  Dist(o, e) \in Offset /\ Dist(o, e) = IF o <= e THEN e - o ELSE e + Size - o
  <2>1. PICK a \in Nat : a = e + Size - o
    BY <1>0 DEF Offset
  <2>2. a < Size + Size /\ (a >= Size <=> o <= e) /\ a - Size = e - o
    BY <1>0, <2>1 DEF Offset
  <2>3. Dist(o, e) = a % Size
    BY <2>1 DEF Dist
  <2>4. Dist(o, e) \in Offset
    BY <1>1, <2>3
  <2>5. CASE a >= Size
    BY <1>3, <2>2, <2>3, <2>4, <2>5
  <2>6. CASE ~(a >= Size)
    <3>1. a < Size
      BY <1>0, <2>6
    <3> QED BY <1>2, <2>1, <2>2, <2>3, <2>4, <2>6, <3>1
  <2> QED BY <2>5, <2>6
<1> QED BY <1>4, <1>5

\* Steps around the ring add up.
LEMMA AddAdd ==
  ASSUME NEW o \in Offset, NEW j \in 0 .. Size, NEW k \in 0 .. Size, j + k <= Size
  PROVE  Add(Add(o, j), k) = Add(o, j + k)
<1>0. Size \in Nat /\ Size > 0
  BY LoggerAssumption
<1>1. j + k \in 0 .. Size
  BY <1>0
<1>2. PICK a \in Offset : a = Add(o, j)
  BY RingFacts
<1>3. a = IF o + j < Size THEN o + j ELSE o + j - Size
  BY <1>2, RingFacts
<1>4. Add(a, k) = IF a + k < Size THEN a + k ELSE a + k - Size
  BY RingFacts
<1>5. Add(o, j + k) = IF o + (j + k) < Size THEN o + (j + k) ELSE o + (j + k) - Size
  BY <1>1, RingFacts
<1>6. Add(a, k) = Add(o, j + k)
  BY <1>0, <1>3, <1>4, <1>5 DEF Offset
<1> QED BY <1>2, <1>6

\* Different distances lead to different offsets.
LEMMA AddApart ==
  ASSUME NEW o \in Offset, NEW j \in Offset, NEW k \in Offset, Add(o, j) = Add(o, k)
  PROVE  j = k
<1>0. Size \in Nat /\ Size > 0 /\ j \in 0 .. Size /\ k \in 0 .. Size
  BY LoggerAssumption DEF Offset
<1>1. PICK a \in Offset : a = Add(o, j)
  BY <1>0, RingFacts
<1>2. a = IF o + j < Size THEN o + j ELSE o + j - Size
  BY <1>0, <1>1, RingFacts
<1>3. a = IF o + k < Size THEN o + k ELSE o + k - Size
  BY <1>0, <1>1, RingFacts
<1> QED BY <1>0, <1>2, <1>3 DEF Offset

\* Add and Dist undo each other.
LEMMA AddDist ==
  ASSUME NEW o \in Offset
  PROVE  /\ \A e \in Offset : Add(o, Dist(o, e)) = e
         /\ \A k \in Offset : Dist(o, Add(o, k)) = k
<1>0. Size \in Nat /\ Size > 0 /\ \A k \in Offset : k \in 0 .. Size
  BY LoggerAssumption DEF Offset
<1>1. ASSUME NEW e \in Offset PROVE Add(o, Dist(o, e)) = e
  <2>1. PICK d \in Offset : d = Dist(o, e) /\ d = IF o <= e THEN e - o ELSE e + Size - o
    BY RingFacts
  <2>2. Add(o, d) = IF o + d < Size THEN o + d ELSE o + d - Size
    BY <1>0, RingFacts
  <2>3. Add(o, d) = e
    BY <1>0, <2>1, <2>2 DEF Offset
  <2> QED BY <2>1, <2>3
<1>2. ASSUME NEW k \in Offset PROVE Dist(o, Add(o, k)) = k
  <2>1. PICK a \in Offset : a = Add(o, k) /\ a = IF o + k < Size THEN o + k ELSE o + k - Size
    BY <1>0, RingFacts
  <2>2. Dist(o, a) = IF o <= a THEN a - o ELSE a + Size - o
    BY RingFacts
  <2>3. Dist(o, a) = k
    BY <1>0, <2>1, <2>2 DEF Offset
  <2> QED BY <2>1, <2>3
<1> QED BY <1>1, <1>2

-----------------------------------------------------------------------------
(* Entries one after the other.                                            *)

\* In b, the n cells from o on are the entries s, the i-th of them up to where it is p[i]
\* ahead of o.
Path(b, o, n, s, p) ==
  /\ n \in Offset /\ s \in Seq(1 .. MaxPayload)
  /\ p \in [0 .. Len(s) -> 0 .. n] /\ p[0] = 0 /\ p[Len(s)] = n
  /\ \A i \in 1 .. Len(s) : p[i] = p[i - 1] + s[i] + 1
  /\ \A i \in 1 .. Len(s) : \A k \in 0 .. s[i] :
       b[Add(o, p[i - 1] + k)] = [len |-> s[i], at |-> k]

\* What lies in the buffer.
BufferOK == buffer \in [Offset -> Cell \cup {Zero}]

\* An entry takes a cell at least.
LEMMA EntryLen ==
  ASSUME BufferOK, NEW o \in Offset
  PROVE  buffer[o].len \in 0 .. MaxPayload /\ get_entry_len(o) \in Nat /\ get_entry_len(o) >= 1
<1>1. buffer[o] \in Cell \cup {Zero} /\ MaxPayload \in Nat
  BY LoggerAssumption DEF BufferOK
<1>2. buffer[o].len \in 0 .. MaxPayload
  <2>1. CASE buffer[o] \in Cell
    BY <1>1, <2>1 DEF Cell
  <2>2. CASE buffer[o] = Zero
    BY <1>1, <2>2 DEF Zero
  <2> QED BY <1>1, <2>1, <2>2
<1> QED BY <1>1, <1>2 DEF get_entry_len

\* What a path says of its i-th entry.
LEMMA PathEntry ==
  ASSUME NEW b, NEW o \in Offset, NEW n, NEW s, NEW p, Path(b, o, n, s, p), NEW i \in 1 .. Len(s)
  PROVE  /\ Len(s) \in Nat /\ i - 1 \in 0 .. Len(s) /\ i \in 0 .. Len(s)
         /\ s[i] \in 1 .. MaxPayload /\ p[i - 1] \in Offset /\ p[i] \in Offset
         /\ p[i] = p[i - 1] + s[i] + 1 /\ p[i] <= n /\ p[i - 1] < n
         /\ Add(o, p[i - 1]) \in Offset
         /\ \A k \in 0 .. s[i] : /\ p[i - 1] + k \in 0 .. n - 1
                                 /\ b[Add(o, p[i - 1] + k)] = [len |-> s[i], at |-> k]
                                 /\ b[Add(Add(o, p[i - 1]), k)] = [len |-> s[i], at |-> k]
<1>0. Size \in Nat /\ Size > 0 /\ MaxPayload \in Nat /\ n \in Offset /\ n \in Nat
  BY LoggerAssumption DEF Path, Offset
<1>1. Len(s) \in Nat /\ i - 1 \in 0 .. Len(s) /\ i \in 0 .. Len(s) /\ s[i] \in 1 .. MaxPayload
  <2> DEFINE T == 1 .. MaxPayload
  <2>1. s \in Seq(T)
    BY DEF Path
  <2> HIDE DEF T
  <2>2. Len(s) \in Nat
    BY <2>1
  <2>3. s[i] \in T
    BY <2>1
  <2> QED BY <2>2, <2>3 DEF T
<1>2. p[i - 1] \in 0 .. n /\ p[i] \in 0 .. n /\ p[i] = p[i - 1] + s[i] + 1
  BY <1>1 DEF Path
<1>3. p[i - 1] \in Offset /\ p[i] \in Offset /\ p[i] <= n /\ p[i - 1] < n
  BY <1>0, <1>1, <1>2 DEF Offset
<1>4. Add(o, p[i - 1]) \in Offset
  <2>1. p[i - 1] \in 0 .. Size
    BY <1>0, <1>3 DEF Offset
  <2> QED BY <2>1, RingFacts
<1>5. ASSUME NEW k \in 0 .. s[i]
      PROVE  /\ p[i - 1] + k \in 0 .. n - 1
             /\ b[Add(o, p[i - 1] + k)] = [len |-> s[i], at |-> k]
             /\ b[Add(Add(o, p[i - 1]), k)] = [len |-> s[i], at |-> k]
  <2>1. p[i - 1] + k \in 0 .. n - 1
    <3>1. PICK c \in Nat : c = p[i - 1]
      BY <1>0, <1>2
    <3>2. PICK m \in Nat : m = s[i]
      BY <1>0, <1>1
    <3>3. c + m + 1 <= n /\ k \in 0 .. m
      BY <1>0, <1>2, <3>1, <3>2
    <3>4. c + k \in 0 .. n - 1
      BY <1>0, <3>3
    <3> QED BY <3>1, <3>4
  <2>2. b[Add(o, p[i - 1] + k)] = [len |-> s[i], at |-> k]
    BY DEF Path
  <2>3. p[i - 1] \in 0 .. Size /\ k \in 0 .. Size /\ p[i - 1] + k <= Size
    <3>1. PICK c \in Nat : c = p[i - 1]
      BY <1>0, <1>2
    <3>2. c + k \in 0 .. n - 1 /\ n <= Size /\ k \in Nat
      BY <1>0, <1>1, <2>1, <3>1 DEF Offset
    <3> QED BY <1>0, <3>1, <3>2
  <2>4. Add(Add(o, p[i - 1]), k) = Add(o, p[i - 1] + k)
    BY <2>3, AddAdd
  <2> QED BY <2>1, <2>2, <2>4
<1> QED BY <1>1, <1>2, <1>3, <1>4, <1>5

\* What the model reads where an entry of a path starts.
LEMMA PathReads ==
  ASSUME NEW o \in Offset, NEW n, NEW s, NEW p, Path(buffer, o, n, s, p), NEW i \in 1 .. Len(s)
  PROVE  /\ get_entry_len(Add(o, p[i - 1])) = s[i] + 1
         /\ p[i - 1] + get_entry_len(Add(o, p[i - 1])) = p[i]
         /\ EntryAt(Add(o, p[i - 1])) = s[i]
<1>1. /\ s[i] \in 1 .. MaxPayload /\ p[i - 1] \in Offset /\ p[i] \in Offset
      /\ p[i] = p[i - 1] + s[i] + 1 /\ Add(o, p[i - 1]) \in Offset
      /\ \A k \in 0 .. s[i] : buffer[Add(Add(o, p[i - 1]), k)] = [len |-> s[i], at |-> k]
  BY PathEntry
<1>2. PICK a \in Offset : a = Add(o, p[i - 1])
  BY <1>1
<1>3. Size \in Nat /\ Size > 0 /\ MaxPayload \in Nat
  BY LoggerAssumption
<1>4. Add(a, 0) = a
  BY <1>3, RingFacts DEF Offset
<1>5. buffer[a] = [len |-> s[i], at |-> 0]
  BY <1>1, <1>2, <1>3, <1>4
<1>6. get_entry_len(a) = s[i] + 1
  BY <1>5 DEF get_entry_len
<1>7. Whole(a)
  <2>1. buffer[a] # Zero /\ buffer[a].len = s[i]
    BY <1>1, <1>3, <1>5 DEF Zero
  <2>2. ASSUME NEW k \in 0 .. s[i]
        PROVE  buffer[logger_offset(a + k)] = [buffer[a] EXCEPT !.at = k]
    <3>1. buffer[logger_offset(a + k)] = [len |-> s[i], at |-> k]
      BY <1>1, <1>2 DEF Add
    <3> QED BY <1>5, <3>1
  <2> QED BY <2>1, <2>2 DEF Whole
<1>8. EntryAt(a) = s[i]
  BY <1>5, <1>7 DEF EntryAt
<1>9. p[i - 1] + (s[i] + 1) = p[i]
  <2>1. p[i - 1] \in Nat /\ s[i] \in Nat
    BY <1>1, <1>3 DEF Offset
  <2>2. p[i] = p[i - 1] + s[i] + 1
    BY <1>1
  <2> QED BY <2>1, <2>2
<1> QED BY <1>2, <1>6, <1>8, <1>9

\* EntriesFrom is computed from the end of the log backwards.
LEMMA EntriesWalk ==
  ASSUME BufferOK, NEW o \in Offset, End \in Offset
  PROVE  \E e : /\ EntriesFrom(o) = e[0]
                /\ \A c \in 0 .. Dist(o, End) :
                     e[c] = IF c = Dist(o, End) THEN <<>>
                            ELSE IF c + get_entry_len(Add(o, c)) > Dist(o, End) THEN <<0>>
                            ELSE <<EntryAt(Add(o, c))>> \o e[c + get_entry_len(Add(o, c))]
<1> DEFINE n == Dist(o, End)
           R(e) == [c \in 0 .. n |->
                      IF c = n THEN <<>>
                      ELSE IF c + get_entry_len(Add(o, c)) > n THEN <<0>>
                      ELSE <<EntryAt(Add(o, c))>> \o e[c + get_entry_len(Add(o, c))]]
           entries == CHOOSE e : e = R(e)
           S == Seq(Nat)
           K == {c \in 0 .. n : c = n \/ c + get_entry_len(Add(o, c)) > n}
           base == [c \in 0 .. n |-> IF c = n THEN <<>> ELSE <<0>>]
           to == [c \in 0 .. n |-> c + get_entry_len(Add(o, c))]
           op == [c \in 0 .. n |-> [q \in S |-> <<EntryAt(Add(o, c))>> \o q]]
<1>1. EntriesFrom(o) = entries[0]
  BY DEF EntriesFrom, Add, Dist
<1>2. n \in Nat /\ n <= Size
  BY LoggerAssumption, RingFacts DEF Offset
<1> HIDE DEF n
<1>3. ASSUME NEW c \in 0 .. n
      PROVE  /\ Add(o, c) \in Offset
             /\ get_entry_len(Add(o, c)) \in Nat /\ get_entry_len(Add(o, c)) >= 1
             /\ EntryAt(Add(o, c)) \in Nat
  <2>1. c \in 0 .. Size
    BY <1>2, LoggerAssumption
  <2>2. Add(o, c) \in Offset
    BY <2>1, RingFacts
  <2>3. MaxPayload \in Nat
    BY LoggerAssumption
  <2> QED BY <2>2, <2>3, EntryLen DEF EntryAt
<1>4. base \in [0 .. n -> S]
  OBVIOUS
<1>5. op \in [0 .. n -> [S -> S]]
  <2>1. ASSUME NEW c \in 0 .. n, NEW q \in S PROVE (<<EntryAt(Add(o, c))>> \o q) \in S
    BY <1>3
  <2> QED BY <2>1
<1>6. ASSUME NEW c \in 0 .. n, c \notin K PROVE to[c] \in c + 1 .. n
  <2>1. PICK l \in Nat : l = get_entry_len(Add(o, c)) /\ l >= 1
    BY <1>3
  <2>2. to[c] = c + l /\ ~(c + l > n)
    BY <1>6, <2>1
  <2> QED BY <1>2, <2>1, <2>2
<1>7. PICK e : IsJump(e, S, n, K, base, to, op)
  <2>1. Forward(n, K, to)
    <3> HIDE DEF K, to
    <3> QED BY <1>6 DEF Forward
  <2> HIDE DEF S, K, base, to, op
  <2> QED BY <1>2, <1>4, <1>5, <2>1, JumpsExist
<1>8. e = R(e)
  <2>1. ASSUME NEW c \in 0 .. n PROVE e[c] = R(e)[c]
    <3>1. CASE c \in K
      <4>1. e[c] = base[c]
        <5> HIDE DEF K, base, op, to
        <5> QED BY <1>7, <3>1 DEF IsJump
      <4> QED BY <3>1, <4>1
    <3>2. CASE c \notin K
      <4>1. e[c] = op[c][e[to[c]]]
        <5> HIDE DEF K, base, op, to
        <5> QED BY <1>7, <3>2 DEF IsJump
      <4>2. to[c] \in 0 .. n
        <5>1. to[c] \in c + 1 .. n
          <6> HIDE DEF K, to
          <6> QED BY <1>6, <3>2
        <5> HIDE DEF to
        <5> QED BY <1>2, <5>1
      <4>3. e[to[c]] \in S
        <5> HIDE DEF to, S
        <5> QED BY <1>7, <4>2 DEF IsJump
      <4>4. op[c][e[to[c]]] = <<EntryAt(Add(o, c))>> \o e[to[c]]
        <5> HIDE DEF to, S
        <5> QED BY <4>3
      <4> QED BY <3>2, <4>1, <4>4
    <3> QED BY <3>1, <3>2
  <2>2. e \in [0 .. n -> S]
    BY <1>7 DEF IsJump
  <2> QED BY <2>1, <2>2
<1>9. entries = R(entries)
  <2> HIDE DEF R
  <2> QED BY <1>8
<1> HIDE DEF entries
<1>10. \A c \in 0 .. n : entries[c] =
         IF c = n THEN <<>>
         ELSE IF c + get_entry_len(Add(o, c)) > n THEN <<0>>
         ELSE <<EntryAt(Add(o, c))>> \o entries[c + get_entry_len(Add(o, c))]
  BY <1>9
<1> QED BY <1>1, <1>10 DEF n

\* s without its first i elements.
DropFirst(s, i) == [k \in 1 .. Len(s) - i |-> s[i + k]]

\* EntriesFrom gives the entries of a path that leads to the end.
LEMMA ReadPath ==
  ASSUME BufferOK, NEW o \in Offset, End \in Offset, NEW s, NEW p,
         Path(buffer, o, Dist(o, End), s, p)
  PROVE  EntriesFrom(o) = s
<1> DEFINE n == Dist(o, End)
           m == Len(s)
<1>1. PICK e : /\ EntriesFrom(o) = e[0]
               /\ \A c \in 0 .. n :
                     e[c] = IF c = n THEN <<>>
                            ELSE IF c + get_entry_len(Add(o, c)) > n THEN <<0>>
                            ELSE <<EntryAt(Add(o, c))>> \o e[c + get_entry_len(Add(o, c))]
  BY EntriesWalk
<1>2. n \in Nat /\ m \in Nat /\ p \in [0 .. m -> 0 .. n] /\ p[0] = 0 /\ p[m] = n
  BY LoggerAssumption DEF Path, Offset
<1>3. s \in Seq(Nat)
  <2>1. s \in Seq(1 .. MaxPayload)
    BY DEF Path
  <2> QED BY <2>1, LoggerAssumption
<1>4. ASSUME NEW i \in 1 .. m
      PROVE  p[i - 1] \in 0 .. n /\ e[p[i - 1]] = <<s[i]>> \o e[p[i]]
  <2>1. /\ p[i - 1] + get_entry_len(Add(o, p[i - 1])) = p[i]
        /\ EntryAt(Add(o, p[i - 1])) = s[i]
    BY PathReads
  <2>2. p[i - 1] < n /\ p[i] <= n
    BY PathEntry
  <2>3. p[i - 1] \in 0 .. n /\ p[i] \in 0 .. n
    BY <1>2
  <2> HIDE DEF n
  <2>4. PICK c \in 0 .. n : c = p[i - 1]
    BY <2>3
  <2>5. e[c] = IF c = n THEN <<>>
               ELSE IF c + get_entry_len(Add(o, c)) > n THEN <<0>>
               ELSE <<EntryAt(Add(o, c))>> \o e[c + get_entry_len(Add(o, c))]
    BY <1>1
  <2>6. c # n /\ c + get_entry_len(Add(o, c)) = p[i] /\ ~(p[i] > n) /\ EntryAt(Add(o, c)) = s[i]
    BY <1>2, <2>1, <2>2, <2>3, <2>4
  <2> QED BY <2>3, <2>4, <2>5, <2>6
<1> DEFINE G == {d \in 0 .. m : e[p[m - d]] = DropFirst(s, m - d)}
<1>5. 0 \in G
  <2>1. e[n] = <<>>
    <3> HIDE DEF n
    <3>1. n \in 0 .. n
      BY <1>2
    <3> QED BY <1>1, <3>1
  <2>2. DropFirst(s, m) = <<>>
    BY <1>2, <1>3 DEF DropFirst
  <2> HIDE DEF n, m
  <2>3. m - 0 = m /\ 0 \in 0 .. m
    BY <1>2
  <2> QED BY <1>2, <2>1, <2>2, <2>3
<1>6. ASSUME NEW d \in 1 .. m, d - 1 \in G PROVE d \in G
  <2>1. PICK i \in 1 .. m : i = m - d + 1
    BY <1>2
  <2>2. m - d = i - 1 /\ m - (d - 1) = i /\ d \in 0 .. m
    BY <1>2, <2>1
  <2>3. e[p[i]] = DropFirst(s, i)
    BY <1>6, <2>2
  <2>4. e[p[i - 1]] = <<s[i]>> \o DropFirst(s, i)
    BY <1>4, <2>3
  <2>5. <<s[i]>> \o DropFirst(s, i) = DropFirst(s, i - 1)
    BY <1>3, <2>1 DEF DropFirst
  <2> QED BY <2>2, <2>4, <2>5
<1>7. m \in G
  <2> HIDE DEF G
  <2>1. \A d \in 1 .. m : d - 1 \in G => d \in G
    BY <1>6
  <2>2. \A d \in 0 .. m : d \in G
    BY <1>2, <1>5, <2>1, UpTo
  <2> QED BY <1>2, <2>2
<1>8. m - m = 0
  BY <1>2
<1>9. e[0] = DropFirst(s, 0)
  BY <1>2, <1>7, <1>8
<1>10. DropFirst(s, 0) = s
  BY <1>3 DEF DropFirst
<1> QED BY <1>1, <1>9, <1>10

\* get_next_entry is computed from the n-th cell backwards.
LEMMA NextWalk ==
  ASSUME BufferOK, NEW o \in Offset, NEW k \in 1 .. Size
  PROVE  \E f : /\ get_next_entry(o, k) = Add(o, f[0])
                /\ \A c \in 0 .. k - 1 :
                     f[c] = IF c + get_entry_len(Add(o, c)) < k
                            THEN f[c + get_entry_len(Add(o, c))]
                            ELSE c + get_entry_len(Add(o, c))
<1> DEFINE n == k - 1
           R(f) == [c \in 0 .. k - 1 |->
                      IF c + get_entry_len(Add(o, c)) < k
                      THEN f[c + get_entry_len(Add(o, c))] ELSE c + get_entry_len(Add(o, c))]
           ahead == CHOOSE f : f = R(f)
           to == [c \in 0 .. n |-> c + get_entry_len(Add(o, c))]
           K == {c \in 0 .. n : ~(to[c] < k)}
           op == [c \in 0 .. n |-> [v \in Nat |-> v]]
<1>1. get_next_entry(o, k) = Add(o, ahead[0])
  BY DEF get_next_entry, Add
<1>2. n \in Nat /\ n <= Size /\ k = n + 1
  BY LoggerAssumption
<1> HIDE DEF n
<1>3. ASSUME NEW c \in 0 .. n
      PROVE  to[c] \in Nat /\ to[c] > c /\ to[c] = c + get_entry_len(Add(o, c))
  <2>1. c \in 0 .. Size
    BY <1>2, LoggerAssumption
  <2>2. Add(o, c) \in Offset
    BY <2>1, RingFacts
  <2>3. PICK l \in Nat : l = get_entry_len(Add(o, c)) /\ l >= 1
    BY <2>2, EntryLen
  <2> QED BY <1>2, <2>3
<1>4. to \in [0 .. n -> Nat]
  BY <1>3
<1>5. op \in [0 .. n -> [Nat -> Nat]]
  OBVIOUS
<1> HIDE DEF to
<1>6. Forward(n, K, to)
  <2> SUFFICES ASSUME NEW c \in 0 .. n, c \notin K PROVE to[c] \in c + 1 .. n
    BY DEF Forward
  <2>1. to[c] < k /\ to[c] \in Nat /\ to[c] > c
    BY <1>3
  <2> QED BY <1>2, <2>1
<1>7. PICK f : IsJump(f, Nat, n, K, to, to, op)
  <2> HIDE DEF K, op
  <2> QED BY <1>2, <1>4, <1>5, <1>6, JumpsExist
<1>8. f \in [0 .. n -> Nat]
  BY <1>7 DEF IsJump
<1>9. ASSUME NEW c \in 0 .. n
      PROVE  f[c] = IF to[c] < k THEN f[to[c]] ELSE to[c]
  <2>1. f[c] = IF c \in K THEN to[c] ELSE op[c][f[to[c]]]
    <3> HIDE DEF K, op
    <3> QED BY <1>7 DEF IsJump
  <2>2. c \in K <=> ~(to[c] < k)
    OBVIOUS
  <2>3. CASE c \in K
    <3> HIDE DEF K, op
    <3> QED BY <2>1, <2>2, <2>3
  <2>4. CASE c \notin K
    <3>1. to[c] \in 0 .. n
      BY <1>2, <1>3, <2>2, <2>4
    <3>2. f[to[c]] \in Nat
      BY <1>8, <3>1
    <3>3. op[c][f[to[c]]] = f[to[c]]
      BY <3>2
    <3> HIDE DEF K, op
    <3> QED BY <2>1, <2>2, <2>4, <3>3
  <2> QED BY <2>3, <2>4
<1>10. f = R(f)
  BY <1>2, <1>3, <1>8, <1>9 DEF n
<1>11. ahead = R(ahead)
  <2> HIDE DEF R
  <2> QED BY <1>10
<1> HIDE DEF ahead
<1>12. \A c \in 0 .. k - 1 :
         ahead[c] = IF c + get_entry_len(Add(o, c)) < k
                    THEN ahead[c + get_entry_len(Add(o, c))] ELSE c + get_entry_len(Add(o, c))
  BY <1>11
<1> QED BY <1>1, <1>12

\* get_next_entry gives an offset, whatever the buffer holds.
LEMMA NextType ==
  ASSUME BufferOK, NEW o \in Offset, NEW k \in 1 .. Size
  PROVE  get_next_entry(o, k) \in Offset
<1>1. PICK f : /\ get_next_entry(o, k) = Add(o, f[0])
               /\ \A c \in 0 .. k - 1 :
                     f[c] = IF c + get_entry_len(Add(o, c)) < k
                            THEN f[c + get_entry_len(Add(o, c))]
                            ELSE c + get_entry_len(Add(o, c))
  BY NextWalk
<1>2. PICK n \in Nat : n = k - 1 /\ n < Size
  BY LoggerAssumption
<1>3. ASSUME NEW c \in 0 .. n
      PROVE  \/ f[c] \in Nat
             \/ \E d \in c + 1 .. n : f[c] = f[d]
  <2>1. c \in 0 .. Size
    BY <1>2, LoggerAssumption
  <2>2. Add(o, c) \in Offset
    BY <2>1, RingFacts
  <2>3. PICK l \in Nat : l = get_entry_len(Add(o, c)) /\ l >= 1
    BY <2>2, EntryLen
  <2>4. f[c] = IF c + l < k THEN f[c + l] ELSE c + l
    BY <1>1, <1>2, <2>3
  <2> QED BY <1>2, <2>3, <2>4
<1> DEFINE G == {m \in 0 .. n : \A c \in 0 .. n : c + m >= n => f[c] \in Nat}
<1>4. 0 \in G
  BY <1>3
<1>5. ASSUME NEW m \in 1 .. n, m - 1 \in G PROVE m \in G
  BY <1>3, <1>5
<1>6. n \in G
  <2> HIDE DEF G
  <2>1. \A m \in 1 .. n : m - 1 \in G => m \in G
    BY <1>5
  <2>2. \A m \in 0 .. n : m \in G
    BY <1>4, <2>1, UpTo
  <2> QED BY <2>2
<1>7. f[0] \in Nat
  BY <1>6
<1>8. o + f[0] \in Nat
  BY <1>7, LoggerAssumption DEF Offset
<1> QED BY <1>1, <1>8, OffsetType DEF Add

\* On a path that is long enough, get_next_entry gives the first place that is k ahead or
\* more.
LEMMA NextPath ==
  ASSUME BufferOK, NEW o \in Offset, NEW n, NEW s, NEW p, Path(buffer, o, n, s, p),
         NEW k \in 1 .. n
  PROVE  \E j \in 1 .. Len(s) : p[j] >= k /\ get_next_entry(o, k) = Add(o, p[j])
<1> DEFINE m == Len(s)
<1>1. /\ n \in Nat /\ n < Size /\ m \in Nat /\ p \in [0 .. m -> 0 .. n] /\ p[0] = 0 /\ p[m] = n
      /\ k \in 1 .. Size /\ k \in Nat
  BY LoggerAssumption DEF Path, Offset
<1>2. PICK f : /\ get_next_entry(o, k) = Add(o, f[0])
               /\ \A c \in 0 .. k - 1 :
                     f[c] = IF c + get_entry_len(Add(o, c)) < k
                            THEN f[c + get_entry_len(Add(o, c))]
                            ELSE c + get_entry_len(Add(o, c))
  BY <1>1, NextWalk
<1> DEFINE J == {j \in 0 .. m : p[j] >= k}
<1>3. PICK j \in J : \A i \in J : j <= i
  <2>1. J \in SUBSET Nat /\ J # {}
    BY <1>1
  <2> HIDE DEF J
  <2> QED BY <2>1, LeastNat
<1>4. j \in 1 .. m /\ p[j] >= k /\ \A i \in 0 .. j - 1 : p[i] < k /\ i \in 0 .. m
  <2>1. j # 0
    BY <1>1
  <2>2. ASSUME NEW i \in 0 .. j - 1 PROVE p[i] < k /\ i \in 0 .. m
    <3>1. i \in 0 .. m /\ ~(j <= i)
      BY <1>1
    <3>2. ~(p[i] >= k) /\ p[i] \in Nat
      BY <1>1, <1>3, <3>1
    <3> QED BY <1>1, <3>1, <3>2
  <2> QED BY <2>1, <2>2
<1>5. ASSUME NEW i \in 1 .. j
      PROVE  f[p[i - 1]] = IF p[i] < k THEN f[p[i]] ELSE p[i]
  <2>1. i \in 1 .. m /\ i - 1 \in 0 .. j - 1
    BY <1>1, <1>4
  <2>2. p[i - 1] + get_entry_len(Add(o, p[i - 1])) = p[i]
    BY <2>1, PathReads
  <2>3. p[i - 1] \in Nat /\ p[i - 1] < k
    BY <1>1, <1>4, <2>1
  <2>4. p[i - 1] \in 0 .. k - 1
    BY <1>1, <2>3
  <2> QED BY <1>2, <2>2, <2>4
<1> DEFINE G == {d \in 0 .. j - 1 : f[p[j - 1 - d]] = p[j]}
<1>6. 0 \in G
  <2>1. f[p[j - 1]] = p[j]
    BY <1>1, <1>4, <1>5
  <2>2. j - 1 - 0 = j - 1 /\ 0 \in 0 .. j - 1
    BY <1>4
  <2> QED BY <2>1, <2>2
<1>7. ASSUME NEW d \in 1 .. j - 1, d - 1 \in G PROVE d \in G
  <2>1. PICK i \in 1 .. j - 1 : i = j - d
    BY <1>4
  <2>2. j - 1 - d = i - 1 /\ j - 1 - (d - 1) = i /\ d \in 0 .. j - 1
    BY <1>4, <2>1
  <2>3. f[p[i]] = p[j]
    BY <1>7, <2>2
  <2>4. p[i] < k /\ i \in 1 .. j
    BY <1>4
  <2>5. f[p[i - 1]] = p[j]
    BY <1>5, <2>3, <2>4
  <2> QED BY <2>2, <2>5
<1>8. j - 1 \in G
  <2> HIDE DEF G
  <2>1. \A d \in 1 .. j - 1 : d - 1 \in G => d \in G
    BY <1>7
  <2>2. PICK h \in Nat : h = j - 1
    BY <1>4
  <2>3. \A d \in 0 .. h : d \in G
    BY <1>6, <2>1, <2>2, UpTo
  <2> QED BY <2>2, <2>3
<1>9. j - 1 - (j - 1) = 0
  BY <1>4
<1>10. f[0] = p[j]
  BY <1>1, <1>8, <1>9
<1> QED BY <1>2, <1>4, <1>10

\* A path without its first j entries.
LEMMA DropPath ==
  ASSUME NEW b, NEW o \in Offset, NEW n, NEW s, NEW p, Path(b, o, n, s, p), NEW j \in 0 .. Len(s)
  PROVE  /\ p[j] \in 0 .. n /\ Add(o, p[j]) \in Offset
         /\ \E q : Path(b, Add(o, p[j]), n - p[j], DropFirst(s, j), q)
<1> DEFINE m == Len(s)
           t == DropFirst(s, j)
           q == [i \in 0 .. m - j |-> p[j + i] - p[j]]
           a == Add(o, p[j])
<1>1. /\ n \in Nat /\ n < Size /\ m \in Nat /\ p \in [0 .. m -> 0 .. n] /\ p[0] = 0 /\ p[m] = n
      /\ Size \in Nat
  BY LoggerAssumption DEF Path, Offset
<1>2. p[j] \in 0 .. n /\ p[j] \in 0 .. Size
  BY <1>1
<1>3. a \in Offset
  BY <1>2, RingFacts
<1>4. n - p[j] \in Offset
  BY <1>1, <1>2 DEF Offset
<1>5. t \in Seq(1 .. MaxPayload) /\ Len(t) = m - j /\ \A i \in 1 .. m - j : t[i] = s[j + i]
  <2>1. m - j \in Nat
    BY <1>1
  <2>2. \A i \in 1 .. m - j : s[j + i] \in 1 .. MaxPayload
    <3>1. \A i \in 1 .. m : s[i] \in 1 .. MaxPayload
      BY PathEntry
    <3> QED BY <1>1, <3>1
  <2> QED BY <2>1, <2>2 DEF DropFirst
<1>6. ASSUME NEW i \in 1 .. m - j
      PROVE  /\ j + i \in 1 .. m /\ i - 1 \in 0 .. m - j /\ i \in 0 .. m - j
             /\ (j + i) - 1 = j + (i - 1)
             /\ s[j + i] \in Nat
             /\ p[j + i] = p[j + (i - 1)] + s[j + i] + 1
             /\ p[j + i] \in 0 .. n /\ p[j + (i - 1)] \in 0 .. n
  <2>1. j + i \in 1 .. m /\ i - 1 \in 0 .. m - j /\ i \in 0 .. m - j /\ (j + i) - 1 = j + (i - 1)
    BY <1>1
  <2>2. s[j + i] \in 1 .. MaxPayload /\ p[j + i] = p[(j + i) - 1] + s[j + i] + 1
    BY <2>1, PathEntry
  <2>3. j + (i - 1) \in 0 .. m /\ j + i \in 0 .. m
    BY <1>1
  <2>4. p[j + i] \in 0 .. n /\ p[j + (i - 1)] \in 0 .. n
    BY <1>1, <2>3
  <2> QED BY <2>1, <2>2, <2>4, LoggerAssumption
<1> DEFINE AtLeast == {i \in 0 .. m - j : p[j + i] >= p[j]}
<1>7. \A i \in 0 .. m - j : i \in AtLeast
  <2>1. 0 \in AtLeast
    <3>1. j + 0 = j /\ 0 \in 0 .. m - j
      BY <1>1
    <3> QED BY <1>1, <1>2, <3>1
  <2>2. ASSUME NEW i \in 1 .. m - j, i - 1 \in AtLeast PROVE i \in AtLeast
    <3>1. p[j + (i - 1)] >= p[j]
      BY <2>2
    <3> QED BY <1>1, <1>2, <1>6, <3>1
  <2>3. PICK h \in Nat : h = m - j
    BY <1>1
  <2> HIDE DEF AtLeast
  <2>4. \A i \in 0 .. h : i \in AtLeast
    BY <2>1, <2>2, <2>3, UpTo
  <2> QED BY <2>3, <2>4
<1>8. q \in [0 .. m - j -> 0 .. n - p[j]]
  <2>1. ASSUME NEW i \in 0 .. m - j PROVE p[j + i] - p[j] \in 0 .. n - p[j]
    <3>1. p[j + i] >= p[j]
      BY <1>7
    <3>2. j + i \in 0 .. m
      BY <1>1
    <3>3. p[j + i] \in 0 .. n
      BY <1>1, <3>2
    <3> QED BY <1>1, <1>2, <3>1, <3>3
  <2> QED BY <2>1
<1>9. q[0] = 0 /\ q[m - j] = n - p[j]
  <2>1. 0 \in 0 .. m - j /\ m - j \in 0 .. m - j /\ j + 0 = j /\ j + (m - j) = m
    BY <1>1
  <2>2. q[0] = p[j] - p[j] /\ q[m - j] = p[m] - p[j]
    BY <2>1
  <2> QED BY <1>1, <1>2, <2>2
<1>10. ASSUME NEW i \in 1 .. m - j
       PROVE  q[i] = q[i - 1] + t[i] + 1
  <2>1. q[i] = p[j + i] - p[j] /\ q[i - 1] = p[j + (i - 1)] - p[j]
    BY <1>6
  <2>2. t[i] = s[j + i]
    BY <1>5
  <2>3. PICK x \in Nat, u \in Nat, v \in Nat, l \in Nat :
          x = p[j] /\ u = p[j + (i - 1)] /\ v = p[j + i] /\ l = s[j + i]
    <3>1. p[j] \in Nat /\ p[j + (i - 1)] \in Nat
      BY <1>1, <1>2, <1>6
    <3>2. s[j + i] \in Nat
      BY <1>6, Zenon
    <3>3. p[j + i] \in 0 .. n
      BY <1>6, Zenon
    <3>4. p[j + i] \in Nat
      BY <3>3
    <3> QED BY <3>1, <3>2, <3>4, Zenon
  <2>4. v = u + l + 1
    BY <1>6, <2>3
  <2>5. v - x = (u - x) + l + 1
    BY <2>4
  <2> HIDE DEF q, t
  <2> QED BY <2>1, <2>2, <2>3, <2>5
<1>11. ASSUME NEW i \in 1 .. m - j, NEW k \in 0 .. t[i]
       PROVE  b[Add(a, q[i - 1] + k)] = [len |-> t[i], at |-> k]
  <2>1. q[i - 1] = p[j + (i - 1)] - p[j]
    BY <1>6
  <2>2. t[i] = s[j + i]
    BY <1>5
  <2>3. /\ p[j + (i - 1)] + k \in 0 .. n - 1
        /\ b[Add(o, p[j + (i - 1)] + k)] = [len |-> s[j + i], at |-> k]
    <3>1. j + i \in 1 .. m /\ (j + i) - 1 = j + (i - 1)
      BY <1>6
    <3>2. \A g \in 1 .. m : \A l \in 0 .. s[g] : /\ p[g - 1] + l \in 0 .. n - 1
                                                 /\ b[Add(o, p[g - 1] + l)] = [len |-> s[g], at |-> l]
      BY PathEntry
    <3>3. k \in 0 .. s[j + i]
      BY <2>2
    <3> QED BY <3>1, <3>2, <3>3
  <2>4. PICK x \in Nat : x = p[j] /\ x \in 0 .. Size
    BY <1>2
  <2>5. PICK y \in Nat : y = q[i - 1] + k /\ y \in 0 .. Size /\ x + y <= Size
                         /\ x + y = p[j + (i - 1)] + k
    <3>1. PICK u \in Nat : u = p[j + (i - 1)]
      BY <1>1, <1>6
    <3>2. u >= x
      BY <1>6, <1>7, <2>4, <3>1
    <3>3. k \in Nat
      BY <1>6, <2>2
    <3>4. u + k <= Size
      BY <1>1, <2>3, <3>1, <3>3
    <3>5. q[i - 1] = u - x
      BY <2>1, <2>4, <3>1
    <3>6. (u - x) + k \in Nat /\ (u - x) + k \in 0 .. Size /\ x + ((u - x) + k) = u + k
      BY <1>1, <2>4, <3>2, <3>3, <3>4
    <3> HIDE DEF q, t
    <3> QED BY <3>1, <3>4, <3>5, <3>6
  <2>6. Add(Add(o, x), y) = Add(o, x + y)
    BY <2>4, <2>5, AddAdd
  <2> QED BY <2>2, <2>3, <2>4, <2>5, <2>6
<1>12. Path(b, a, n - p[j], t, q)
  <2> HIDE DEF a, t, q
  <2> QED BY <1>4, <1>5, <1>8, <1>9, <1>10, <1>11 DEF Path
<1> HIDE DEF q
<1> QED BY <1>2, <1>3, <1>12

\* A path depends on its own cells only.
LEMMA SameCells ==
  ASSUME NEW b, NEW c, NEW o \in Offset, NEW n, NEW s, NEW p, Path(b, o, n, s, p),
         \A k \in 0 .. n - 1 : c[Add(o, k)] = b[Add(o, k)]
  PROVE  Path(c, o, n, s, p)
<1>1. ASSUME NEW i \in 1 .. Len(s), NEW k \in 0 .. s[i]
      PROVE  c[Add(o, p[i - 1] + k)] = [len |-> s[i], at |-> k]
  <2>1. /\ p[i - 1] + k \in 0 .. n - 1
        /\ b[Add(o, p[i - 1] + k)] = [len |-> s[i], at |-> k]
    BY PathEntry
  <2> QED BY <2>1
<1> QED BY <1>1 DEF Path

\* A path with an entry more.
LEMMA AppendPath ==
  ASSUME NEW b, NEW o \in Offset, NEW n, NEW s, NEW p, Path(b, o, n, s, p),
         NEW e \in 1 .. MaxPayload, n + e + 1 < Size,
         \A k \in 0 .. e : b[Add(o, n + k)] = [len |-> e, at |-> k]
  PROVE  \E q : Path(b, o, n + e + 1, Append(s, e), q)
<1> DEFINE m == Len(s)
           t == Append(s, e)
           z == n + e + 1
           q == [i \in 0 .. m + 1 |-> IF i = m + 1 THEN z ELSE p[i]]
<1>1. /\ n \in Nat /\ n < Size /\ m \in Nat /\ p \in [0 .. m -> 0 .. n] /\ p[0] = 0 /\ p[m] = n
      /\ Size \in Nat /\ e \in Nat /\ MaxPayload \in Nat
  BY LoggerAssumption DEF Path, Offset
<1>2. z \in Offset /\ z \in Nat /\ n < z
  BY <1>1 DEF Offset
<1>3. /\ t \in Seq(1 .. MaxPayload) /\ Len(t) = m + 1 /\ t[m + 1] = e
      /\ \A i \in 1 .. m : t[i] = s[i]
  <2> DEFINE T == 1 .. MaxPayload
  <2>1. s \in Seq(T) /\ e \in T
    BY DEF Path
  <2> HIDE DEF T
  <2>2. t \in Seq(T) /\ Len(t) = m + 1 /\ t[m + 1] = e
    BY <2>1
  <2>3. \A i \in 1 .. m : t[i] = s[i]
    BY <2>1
  <2> QED BY <2>2, <2>3 DEF T
<1> HIDE DEF z
<1>4. q \in [0 .. m + 1 -> 0 .. z] /\ q[0] = 0 /\ q[m + 1] = z /\ q[m] = n
      /\ \A i \in 0 .. m : q[i] = p[i]
  BY <1>1, <1>2
<1> HIDE DEF q, t
<1>5. ASSUME NEW i \in 1 .. m + 1
      PROVE  /\ q[i] = q[i - 1] + t[i] + 1
             /\ \A k \in 0 .. t[i] : b[Add(o, q[i - 1] + k)] = [len |-> t[i], at |-> k]
  <2>1. CASE i = m + 1
    <3>1. q[i - 1] = n /\ t[i] = e /\ q[i] = z
      BY <1>1, <1>3, <1>4, <2>1
    <3> QED BY <3>1 DEF z
  <2>2. CASE i # m + 1
    <3>1. i \in 1 .. m /\ i - 1 \in 0 .. m /\ i \in 0 .. m
      BY <1>1, <2>2
    <3>2. q[i] = p[i] /\ q[i - 1] = p[i - 1] /\ t[i] = s[i]
      BY <1>3, <1>4, <3>1
    <3>3. /\ p[i] = p[i - 1] + s[i] + 1
          /\ \A k \in 0 .. s[i] : b[Add(o, p[i - 1] + k)] = [len |-> s[i], at |-> k]
      BY <3>1 DEF Path
    <3> QED BY <3>2, <3>3
  <2> QED BY <2>1, <2>2
<1>6. Path(b, o, z, t, q)
  BY <1>2, <1>3, <1>4, <1>5 DEF Path
<1> QED BY <1>6 DEF z, t

\* The empty path.
LEMMA EmptyPath ==
  ASSUME NEW b, NEW o \in Offset
  PROVE  \E p : Path(b, o, 0, <<>>, p)
<1>1. Path(b, o, 0, <<>>, [i \in 0 .. 0 |-> 0])
  BY OffsetType DEF Path
<1> QED BY <1>1

-----------------------------------------------------------------------------
(* What a log holds.                                                       *)

\* The log holds the entries s from o to its end.
Holds(o, s) == \E p : Path(buffer, o, Dist(o, End), s, p)

\* What can be read is what the log holds.
Readable ==
  BufferOK /\ End \in Offset => \A o \in Offset : \A s : Holds(o, s) => EntriesFrom(o) = s

\* EntriesFrom gives what the log holds.
LEMMA ReadHolds == Readable
  BY ReadPath DEF Readable, Holds

\* The same after a step.
LEMMA ReadHoldsNext == Readable'
  BY ReadHolds, PTL

-----------------------------------------------------------------------------
(* Types, and where a writer is.                                           *)

\* What a writer has under way: its entry starts at start[w], and w_off is behind the
\* header and the ret[w] units that it has copied.
WriterOK(w) ==
  /\ wpc[w] \in {"begun", "writing"} => len[w] \in 1 .. MaxPayload
  /\ wpc[w] # "writing" => ret[w] = 0
  /\ wpc[w] = "writing" => ret[w] <= len[w] /\ w_off = Add(start[w], ret[w] + 1)

RingType == LoggerTypeOK /\ OneWriter /\ \A w \in Writer : WriterOK(w)

\* What the proofs need of the sizes.
LEMMA RingSizes ==
  /\ MaxPayload \in Nat /\ Size \in Nat /\ MaxPayload + 1 < Size /\ MaxPayload >= 1
  /\ 2 * (MaxPayload + 1) <= Size
  BY LoggerAssumption

\* The cells that a segment of k units goes to, seen from where the entry starts.
LEMMA SegmentFacts ==
  ASSUME RingType, NEW w \in Writer, wpc[w] = "writing", NEW k \in 1 .. MaxPayload,
         ret[w] + k <= len[w]
  PROVE  /\ len[w] \in 1 .. MaxPayload /\ ret[w] \in 0 .. len[w] /\ start[w] \in Offset
         /\ \A o \in Offset :
              /\ o \in Segment(k) <=> Dist(start[w], o) \in ret[w] + 1 .. ret[w] + k
              /\ Place(w, o) = Dist(start[w], o)
         /\ logger_offset(w_off + k) = Add(start[w], ret[w] + k + 1)
<1>1. /\ len[w] \in 1 .. MaxPayload /\ ret[w] \in 0 .. len[w] /\ start[w] \in Offset
      /\ w_off = Add(start[w], ret[w] + 1)
  <2>1. ret[w] \in 0 .. MaxPayload /\ start[w] \in Offset
    BY DEF RingType, LoggerTypeOK
  <2>2. len[w] \in 1 .. MaxPayload /\ ret[w] <= len[w] /\ w_off = Add(start[w], ret[w] + 1)
    BY DEF RingType, WriterOK
  <2> QED BY <2>1, <2>2, RingSizes
<1>2. PICK a \in Offset, r \in Nat, l \in Nat :
        a = start[w] /\ r = ret[w] /\ l = len[w] /\ l <= MaxPayload /\ r + k <= l
  BY <1>1, RingSizes
<1>3. ASSUME NEW i \in 0 .. k
      PROVE  /\ Add(w_off, i) = Add(a, r + 1 + i) /\ r + 1 + i \in Offset
             /\ Dist(a, Add(w_off, i)) = r + 1 + i /\ Add(w_off, i) \in Offset
  <2>1. r + 1 \in 0 .. Size /\ i \in 0 .. Size /\ (r + 1) + i <= Size /\ (r + 1) + i \in Offset
        /\ (r + 1) + i \in 0 .. Size
    BY <1>2, RingSizes DEF Offset
  <2>2. w_off = Add(a, r + 1)
    BY <1>1, <1>2
  <2>3. Add(Add(a, r + 1), i) = Add(a, (r + 1) + i)
    BY <2>1, AddAdd
  <2>4. Dist(a, Add(a, (r + 1) + i)) = (r + 1) + i
    BY <2>1, AddDist
  <2>5. Add(a, (r + 1) + i) \in Offset
    BY <2>1, RingFacts
  <2> QED BY <2>1, <2>2, <2>3, <2>4, <2>5
<1>4. ASSUME NEW o \in Offset
      PROVE  o \in Segment(k) <=> Dist(a, o) \in r + 1 .. r + k
  <2>1. ASSUME o \in Segment(k) PROVE Dist(a, o) \in r + 1 .. r + k
    <3>1. PICK i \in 0 .. k - 1 : o = Add(w_off, i)
      BY <2>1 DEF Segment, Add
    <3>2. Dist(a, o) = r + 1 + i
      BY <1>3, <3>1
    <3> QED BY <1>2, <3>2
  <2>2. ASSUME Dist(a, o) \in r + 1 .. r + k PROVE o \in Segment(k)
    <3>1. PICK i \in 0 .. k - 1 : Dist(a, o) = r + 1 + i
      <4>1. PICK d \in Nat : d = Dist(a, o) /\ d >= r + 1 /\ d <= r + k
        BY <1>2, <2>2
      <4>2. d - (r + 1) \in 0 .. k - 1 /\ d = r + 1 + (d - (r + 1))
        BY <1>2, <4>1
      <4> QED BY <4>1, <4>2
    <3>2. Add(a, Dist(a, o)) = o
      BY AddDist
    <3>3. o = Add(w_off, i)
      BY <1>3, <3>1, <3>2
    <3> QED BY <3>3 DEF Segment, Add
  <2> QED BY <2>1, <2>2
<1>5. \A o \in Offset : Place(w, o) = Dist(start[w], o)
  BY DEF Place, Dist
<1>6. logger_offset(w_off + k) = Add(start[w], ret[w] + k + 1)
  <2>1. Add(w_off, k) = Add(a, r + 1 + k)
    BY <1>3
  <2>2. r + 1 + k = r + k + 1
    BY <1>2
  <2> QED BY <1>2, <2>1, <2>2 DEF Add
<1> QED BY <1>1, <1>2, <1>4, <1>5, <1>6

\* The steps of readers keep the types.
LEMMA ReaderType ==
  ASSUME RingType, NEW r \in Reader, ReaderStep(r)
  PROVE  RingType'
<1>1. UNCHANGED <<log_vars, writer_vars, torn>>
  BY DEF ReaderStep, logger_open, logger_release, logger_read, CheckEmpty, Interrupted,
         ReadRaced, do_read_log_to_user
<1>2. LoggerTypeOK
  BY DEF RingType
<1>3. rpc' \in [Reader -> {"closed", "open", "prepared", "sleeping", "found"}]
  BY <1>2 DEF ReaderStep, logger_open, logger_release, logger_read, CheckEmpty, Interrupted,
              ReadRaced, do_read_log_to_user, LoggerTypeOK
<1>4. r_off' \in [Reader -> Offset]
  <2>1. r_off \in [Reader -> Offset] /\ head \in Offset
    BY <1>2 DEF LoggerTypeOK
  <2>2. logger_offset(r_off[r] + get_entry_len(r_off[r])) \in Offset
    <3>1. PICK a \in Offset : a = r_off[r]
      BY <2>1
    <3>2. get_entry_len(a) \in Nat
      BY <1>2, EntryLen DEF LoggerTypeOK, BufferOK
    <3>3. a + get_entry_len(a) \in Nat
      BY <3>2, RingSizes DEF Offset
    <3> QED BY <3>1, <3>3, OffsetType
  <2>3. CASE do_read_log_to_user(r)
    BY <2>1, <2>2, <2>3 DEF do_read_log_to_user
  <2>4. CASE ~do_read_log_to_user(r)
    BY <2>1, <2>4, OffsetType DEF ReaderStep, logger_open, logger_release, logger_read, CheckEmpty,
       Interrupted, ReadRaced
  <2> QED BY <2>3, <2>4
<1>5. LoggerTypeOK'
  BY <1>1, <1>2, <1>3, <1>4 DEF LoggerTypeOK, log_vars, writer_vars
<1>6. OneWriter' /\ \A w \in Writer : WriterOK(w)'
  BY <1>1 DEF RingType, OneWriter, WriterOK, log_vars, writer_vars
<1> QED BY <1>5, <1>6 DEF RingType

\* The holder of the mutex copies a segment.
LEMMA CopyType ==
  ASSUME RingType, NEW w \in Writer, NEW k \in 1 .. MaxPayload, do_write_log_from_user(w, k)
  PROVE  RingType'
<1>0. /\ wpc[w] = "writing" /\ ret[w] + k <= len[w]
      /\ buffer' = [o \in Offset |->
                      IF o \in Segment(k)
                      THEN [len |-> len[w], at |-> Place(w, o)] ELSE buffer[o]]
      /\ w_off' = logger_offset(w_off + k) /\ ret' = [ret EXCEPT ![w] = @ + k]
      /\ UNCHANGED <<head, r_off, rpc, wpc, orig, len, start, torn>>
  BY DEF do_write_log_from_user, reader_vars
<1>1. /\ len[w] \in 1 .. MaxPayload /\ ret[w] \in 0 .. len[w] /\ start[w] \in Offset
      /\ \A o \in Offset :
           /\ o \in Segment(k) <=> Dist(start[w], o) \in ret[w] + 1 .. ret[w] + k
           /\ Place(w, o) = Dist(start[w], o)
      /\ logger_offset(w_off + k) = Add(start[w], ret[w] + k + 1)
  BY <1>0, SegmentFacts
<1>2. LoggerTypeOK
  BY DEF RingType
<1>3. ASSUME NEW o \in Offset PROVE buffer'[o] \in Cell \cup {Zero}
  <2>1. CASE o \in Segment(k)
    <3>1. Place(w, o) \in ret[w] + 1 .. ret[w] + k
      BY <1>1, <2>1
    <3>2. Place(w, o) \in 0 .. MaxPayload
      BY <1>0, <1>1, <3>1, RingSizes
    <3>3. buffer'[o] = [len |-> len[w], at |-> Place(w, o)]
      BY <1>0, <2>1
    <3> QED BY <1>1, <3>2, <3>3 DEF Cell
  <2>2. CASE o \notin Segment(k)
    BY <1>0, <1>2, <2>2 DEF LoggerTypeOK
  <2> QED BY <2>1, <2>2
<1>4. w_off' \in Offset
  <2>1. ret[w] + k + 1 \in 0 .. Size
    BY <1>0, <1>1, RingSizes
  <2> QED BY <1>0, <1>1, <2>1, RingFacts
<1>5. ret' \in [Writer -> 0 .. MaxPayload]
  <2>1. ret[w] + k \in 0 .. MaxPayload
    BY <1>0, <1>1, RingSizes
  <2> QED BY <1>0, <1>2, <2>1 DEF LoggerTypeOK
<1>6. LoggerTypeOK'
  <2>1. buffer' \in [Offset -> Cell \cup {Zero}]
    BY <1>0, <1>3
  <2> QED BY <1>0, <1>2, <1>4, <1>5, <2>1 DEF LoggerTypeOK
<1>7. OneWriter'
  BY <1>0 DEF RingType, OneWriter
<1>8. ASSUME NEW v \in Writer PROVE WriterOK(v)'
  <2>1. WriterOK(v) /\ ret \in [Writer -> 0 .. MaxPayload]
    BY <1>2 DEF RingType, LoggerTypeOK
  <2>2. CASE v = w
    <3>1. ret'[w] = ret[w] + k
      BY <1>0, <2>1
    <3> QED BY <1>0, <1>1, <2>1, <2>2, <3>1 DEF WriterOK
  <2>3. CASE v # w
    <3>1. wpc[v] # "writing" /\ ret'[v] = ret[v]
      BY <1>0, <2>1, <2>3 DEF RingType, OneWriter
    <3> QED BY <1>0, <2>1, <3>1 DEF WriterOK
  <2> QED BY <2>2, <2>3
<1> QED BY <1>6, <1>7, <1>8 DEF RingType

\* The mutex is taken and the header written.
LEMMA TakeType ==
  ASSUME RingType, NEW w \in Writer, do_write_log(w)
  PROVE  RingType'
<1>0. /\ wpc[w] = "begun" /\ Unlocked /\ wpc' = [wpc EXCEPT ![w] = "writing"]
      /\ buffer' = [buffer EXCEPT ![w_off] = [len |-> len[w], at |-> 0]]
      /\ w_off' = logger_offset(w_off + 1) /\ start' = [start EXCEPT ![w] = w_off]
      /\ UNCHANGED <<rpc, orig, len, ret, torn>>
  BY DEF do_write_log
<1>1. LoggerTypeOK
  BY DEF RingType
<1>2. len[w] \in 1 .. MaxPayload /\ ret[w] = 0
  BY <1>0 DEF RingType, WriterOK
<1>3. ASSUME NEW a \in Offset PROVE get_next_entry(a, len[w] + 1) \in Offset
  <2>1. len[w] + 1 \in 1 .. Size
    BY <1>2, RingSizes
  <2> QED BY <1>1, <2>1, NextType DEF LoggerTypeOK, BufferOK
<1>4. head' \in Offset /\ r_off' \in [Reader -> Offset]
  <2>1. head \in Offset /\ r_off \in [Reader -> Offset]
    BY <1>1 DEF LoggerTypeOK
  <2>2. head' \in Offset
    BY <1>3, <2>1 DEF do_write_log, fix_up_readers
  <2>3. /\ r_off' = [r \in Reader |-> r_off'[r]]
        /\ \A r \in Reader : r_off'[r] = r_off[r] \/ r_off'[r] = get_next_entry(r_off[r], len[w] + 1)
    BY DEF do_write_log, fix_up_readers
  <2>4. \A r \in Reader : r_off'[r] \in Offset
    BY <1>3, <2>1, <2>3
  <2> QED BY <2>2, <2>3, <2>4
<1>5. buffer' \in [Offset -> Cell \cup {Zero}] /\ w_off' \in Offset
  <2>1. [len |-> len[w], at |-> 0] \in Cell
    BY <1>2, RingSizes DEF Cell
  <2>2. w_off + 1 \in Nat
    BY <1>1, RingSizes DEF LoggerTypeOK, Offset
  <2> QED BY <1>0, <1>1, <2>1, <2>2, OffsetType DEF LoggerTypeOK
<1>6. LoggerTypeOK'
  BY <1>0, <1>1, <1>4, <1>5 DEF LoggerTypeOK
<1>7. OneWriter'
  BY <1>0, <1>1 DEF RingType, OneWriter, Unlocked, LoggerTypeOK
<1>8. ASSUME NEW v \in Writer PROVE WriterOK(v)'
  <2>1. WriterOK(v)
    BY DEF RingType
  <2>2. CASE v = w
    <3>1. wpc'[w] = "writing" /\ start'[w] = w_off /\ w_off' = Add(w_off, 0 + 1)
      BY <1>0, <1>1 DEF LoggerTypeOK, Add
    <3>2. ret[w] <= len[w]
      BY <1>2, RingSizes
    <3> QED BY <1>0, <1>2, <2>2, <3>1, <3>2 DEF WriterOK
  <2>3. CASE v # w
    <3>1. wpc'[v] = wpc[v] /\ wpc[v] # "writing"
      BY <1>0, <1>1, <2>3 DEF LoggerTypeOK, Unlocked
    <3> QED BY <1>0, <2>1, <3>1 DEF WriterOK
  <2> QED BY <2>2, <2>3
<1> QED BY <1>6, <1>7, <1>8 DEF RingType

\* The holder of the mutex gives it back.
LEMMA LeaveType ==
  ASSUME RingType, NEW w \in Writer,
         (\E k \in 1 .. MaxPayload : WriteFails(w, k)) \/ WriteDone(w)
  PROVE  RingType'
<1>0. /\ wpc[w] = "writing" /\ UNCHANGED <<head, r_off, rpc>>
      /\ wpc' = [wpc EXCEPT ![w] = "idle"] \/ wpc' = [wpc EXCEPT ![w] = "waking"]
      /\ orig' = [orig EXCEPT ![w] = 0] /\ start' = [start EXCEPT ![w] = 0]
      /\ len' = [len EXCEPT ![w] = 0] /\ ret' = [ret EXCEPT ![w] = 0]
  BY DEF WriteFails, WriteDone, Returned, reader_vars, log_vars
<1>1. LoggerTypeOK
  BY DEF RingType
<1>2. buffer' \in [Offset -> Cell \cup {Zero}] /\ w_off' \in Offset /\ torn' \in BOOLEAN
  <2>1. CASE WriteDone(w)
    BY <1>1, <2>1 DEF WriteDone, LoggerTypeOK, log_vars
  <2>2. CASE \E k \in 1 .. MaxPayload : WriteFails(w, k)
    BY <1>1, <2>2 DEF WriteFails, LoggerTypeOK
  <2> QED BY <2>1, <2>2
<1>3. LoggerTypeOK'
  <2>1. orig' \in [Writer -> Offset] /\ start' \in [Writer -> Offset]
    BY <1>0, <1>1, OffsetType DEF LoggerTypeOK
  <2>2. len' \in [Writer -> 0 .. MaxPayload] /\ ret' \in [Writer -> 0 .. MaxPayload]
    BY <1>0, <1>1, RingSizes DEF LoggerTypeOK
  <2>3. wpc' \in [Writer -> {"idle", "begun", "writing", "waking"}]
    BY <1>0, <1>1 DEF LoggerTypeOK
  <2> QED BY <1>0, <1>1, <1>2, <2>1, <2>2, <2>3 DEF LoggerTypeOK
<1>4. \A v \in Writer : wpc'[v] # "writing"
  BY <1>0, <1>1 DEF RingType, OneWriter, LoggerTypeOK
<1>5. ASSUME NEW v \in Writer PROVE WriterOK(v)'
  <2>1. WriterOK(v)
    BY DEF RingType
  <2>2. CASE v = w
    <3>1. wpc'[w] \in {"idle", "waking"} /\ ret'[w] = 0
      BY <1>0, <1>1 DEF LoggerTypeOK
    <3> QED BY <2>2, <3>1 DEF WriterOK
  <2>3. CASE v # w
    <3>1. wpc'[v] = wpc[v] /\ wpc[v] # "writing" /\ len'[v] = len[v] /\ ret'[v] = ret[v]
      BY <1>0, <1>1, <1>4, <2>3 DEF LoggerTypeOK
    <3> QED BY <2>1, <3>1 DEF WriterOK
  <2> QED BY <2>2, <2>3
<1> QED BY <1>3, <1>4, <1>5 DEF RingType, OneWriter

\* Every other step.
LEMMA OtherType ==
  ASSUME RingType,
         \/ \E w \in Writer : \E n \in 1 .. MaxPayload : logger_aio_write(w, n)
         \/ \E w \in Writer : wake_up_interruptible(w)
         \/ Flush
         \/ UNCHANGED logger_vars
  PROVE  RingType'
<1>1. LoggerTypeOK /\ OneWriter /\ \A w \in Writer : WriterOK(w)
  BY DEF RingType
<1>2. ASSUME NEW w \in Writer, NEW n \in 1 .. MaxPayload, logger_aio_write(w, n) PROVE RingType'
  <2>0. /\ wpc[w] = "idle" /\ wpc' = [wpc EXCEPT ![w] = "begun"]
        /\ orig' = [orig EXCEPT ![w] = w_off] /\ len' = [len EXCEPT ![w] = n]
        /\ UNCHANGED <<buffer, w_off, head, r_off, rpc, ret, start, torn>>
    BY <1>2 DEF logger_aio_write, log_vars, reader_vars
  <2>1. LoggerTypeOK'
    BY <1>1, <2>0, RingSizes DEF LoggerTypeOK
  <2>2. OneWriter'
    BY <1>1, <2>0 DEF LoggerTypeOK, OneWriter
  <2>3. ASSUME NEW v \in Writer PROVE WriterOK(v)'
    <3>1. CASE v = w
      <4>1. wpc'[w] = "begun" /\ len'[w] = n /\ ret[w] = 0
        BY <1>1, <2>0 DEF LoggerTypeOK, WriterOK
      <4> QED BY <2>0, <3>1, <4>1 DEF WriterOK
    <3>2. CASE v # w
      <4>1. wpc'[v] = wpc[v] /\ len'[v] = len[v]
        BY <1>1, <2>0, <3>2 DEF LoggerTypeOK
      <4> QED BY <1>1, <2>0, <4>1 DEF WriterOK
    <3> QED BY <3>1, <3>2
  <2> QED BY <2>1, <2>2, <2>3 DEF RingType
<1>3. ASSUME NEW w \in Writer, wake_up_interruptible(w) PROVE RingType'
  <2>0. /\ wpc[w] = "waking" /\ wpc' = [wpc EXCEPT ![w] = "idle"]
        /\ rpc' = [r \in Reader |-> IF rpc[r] = "sleeping" THEN "prepared" ELSE rpc[r]]
        /\ UNCHANGED <<buffer, w_off, head, r_off, orig, len, ret, start, torn>>
    BY <1>3 DEF wake_up_interruptible, log_vars
  <2>1. LoggerTypeOK'
    BY <1>1, <2>0 DEF LoggerTypeOK
  <2>2. OneWriter'
    BY <1>1, <2>0 DEF LoggerTypeOK, OneWriter
  <2>3. ASSUME NEW v \in Writer PROVE WriterOK(v)'
    <3>1. wpc'[v] = wpc[v] \/ (wpc[v] = "waking" /\ wpc'[v] = "idle")
      BY <1>1, <2>0 DEF LoggerTypeOK
    <3> QED BY <1>1, <2>0, <3>1 DEF WriterOK
  <2> QED BY <2>1, <2>2, <2>3 DEF RingType
<1>4. ASSUME Flush PROVE RingType'
  <2>0. /\ head' = w_off /\ UNCHANGED <<buffer, w_off, rpc, wpc, orig, len, ret, start, torn>>
        /\ r_off' = [r \in Reader |-> IF rpc[r] = "closed" THEN r_off[r] ELSE w_off]
    BY <1>4 DEF Flush, writer_vars
  <2>1. LoggerTypeOK'
    BY <1>1, <2>0 DEF LoggerTypeOK
  <2> QED BY <1>1, <2>0, <2>1 DEF RingType, OneWriter, WriterOK
<1>5. ASSUME UNCHANGED logger_vars PROVE RingType'
  <2>0. UNCHANGED <<buffer, w_off, head, r_off, rpc, wpc, orig, len, ret, start, torn>>
    BY <1>5 DEF logger_vars, log_vars, reader_vars, writer_vars
  <2>1. LoggerTypeOK'
    BY <1>1, <2>0 DEF LoggerTypeOK
  <2> QED BY <1>1, <2>0, <2>1 DEF RingType, OneWriter, WriterOK
<1> QED BY <1>2, <1>3, <1>4, <1>5

\* Every step keeps the types.
LEMMA NextRingType ==
  ASSUME RingType, [LoggerNext]_logger_vars
  PROVE  RingType'
<1>1. ASSUME NEW w \in Writer, WriterStep(w) PROVE RingType'
  <2>1. CASE do_write_log(w)
    BY <2>1, TakeType
  <2>2. ASSUME NEW k \in 1 .. MaxPayload, do_write_log_from_user(w, k) PROVE RingType'
    BY <2>2, CopyType
  <2>3. CASE (\E k \in 1 .. MaxPayload : WriteFails(w, k)) \/ WriteDone(w)
    BY <2>3, LeaveType
  <2>4. CASE (\E n \in 1 .. MaxPayload : logger_aio_write(w, n)) \/ wake_up_interruptible(w)
    BY <2>4, OtherType
  <2> QED BY <1>1, <2>1, <2>2, <2>3, <2>4 DEF WriterStep
<1>2. CASE Flush \/ UNCHANGED logger_vars
  BY <1>2, OtherType
<1>3. ASSUME NEW r \in Reader, ReaderStep(r) PROVE RingType'
  BY <1>3, ReaderType
<1> QED BY <1>1, <1>2, <1>3 DEF LoggerNext

\* The types hold at first.
LEMMA InitRingType == LoggerInit => RingType
<1> SUFFICES ASSUME LoggerInit PROVE RingType
  OBVIOUS
<1>1. buffer \in [Offset -> Cell \cup {Zero}]
  BY DEF LoggerInit
<1>2. LoggerTypeOK
  <2>1. w_off \in Offset /\ head \in Offset /\ r_off \in [Reader -> Offset] /\ torn \in BOOLEAN
    BY OffsetType DEF LoggerInit
  <2>2. orig \in [Writer -> Offset] /\ start \in [Writer -> Offset]
    BY OffsetType DEF LoggerInit
  <2>3. len \in [Writer -> 0 .. MaxPayload] /\ ret \in [Writer -> 0 .. MaxPayload]
    BY RingSizes DEF LoggerInit
  <2>4. /\ rpc \in [Reader -> {"closed", "open", "prepared", "sleeping", "found"}]
        /\ wpc \in [Writer -> {"idle", "begun", "writing", "waking"}]
    BY DEF LoggerInit
  <2> QED BY <1>1, <2>1, <2>2, <2>3, <2>4 DEF LoggerTypeOK
<1>3. OneWriter /\ \A w \in Writer : WriterOK(w)
  BY DEF LoggerInit, OneWriter, WriterOK
<1> QED BY <1>2, <1>3 DEF RingType

\* The variables of the log keep their types, torn or not.
THEOREM LoggerTyped == LoggerSpec => []LoggerTypeOK
<1>1. RingType => LoggerTypeOK
  BY DEF RingType
<1> QED BY <1>1, InitRingType, NextRingType, PTL DEF LoggerSpec

-----------------------------------------------------------------------------
(* Readers that sleep.                                                     *)

Waking == \E w \in Writer : wpc[w] = "waking"

\* Where the entry begins that is being written, or would be next.
AtEnd(o) ==
  /\ Unlocked => o = w_off
  /\ \A w \in Writer : wpc[w] = "writing" => o = start[w]

\* A reader that sleeps has read everything but the entry that is being written, unless
\* a wake-up is on its way.
SleeperInv ==
  ~torn => \A r \in Reader : rpc[r] = "sleeping" => Waking \/ AtEnd(r_off[r])

\* fix_up_readers leaves a reader alone that has read everything.
LEMMA NotLapped ==
  ASSUME NEW a \in Nat, NEW b \in Nat
  PROVE  ~clock_interval(a, b, a)
  BY DEF clock_interval

\* The steps of readers: one goes to sleep only when it is at the end.
LEMMA ReaderKeeps ==
  ASSUME RingType, SleeperInv, NEW r \in Reader, ReaderStep(r)
  PROVE  SleeperInv'
<1> USE DEF log_vars, writer_vars, ReaderStep
<1>1. UNCHANGED <<w_off, wpc, start, orig, torn>>
  BY DEF logger_open, logger_release, logger_read, CheckEmpty, Interrupted, ReadRaced,
         do_read_log_to_user
<1>2. rpc \in [Reader -> {"closed", "open", "prepared", "sleeping", "found"}]
      /\ r_off \in [Reader -> Offset]
  BY DEF RingType, LoggerTypeOK
<1>3. ASSUME NEW q \in Reader, rpc'[q] = "sleeping"
      PROVE  r_off'[q] = r_off[q] /\ (rpc[q] = "sleeping" \/ (Unlocked /\ w_off = r_off[q]))
  BY <1>2, <1>3 DEF logger_open, logger_release, logger_read, CheckEmpty, Interrupted, ReadRaced,
                    do_read_log_to_user
<1> QED BY <1>1, <1>3 DEF SleeperInv, Waking, AtEnd, Unlocked

\* A writer that has not yet the mutex, or not any more.
LEMMA OutsideKeeps ==
  ASSUME RingType, SleeperInv, NEW w \in Writer,
         (\E n \in 1 .. MaxPayload : logger_aio_write(w, n)) \/ wake_up_interruptible(w)
  PROVE  SleeperInv'
<1> USE DEF log_vars, reader_vars
<1>0. wpc \in [Writer -> {"idle", "begun", "writing", "waking"}]
  BY DEF RingType, LoggerTypeOK
<1>1. CASE \E n \in 1 .. MaxPayload : logger_aio_write(w, n)
  BY <1>0, <1>1 DEF logger_aio_write, SleeperInv, Waking, AtEnd, Unlocked
<1>2. CASE wake_up_interruptible(w)
  <2>1. \A r \in Reader : rpc'[r] # "sleeping"
    BY <1>2 DEF wake_up_interruptible
  <2> QED BY <2>1 DEF SleeperInv
<1> QED BY <1>1, <1>2

\* The mutex is taken: where the log ended is where the new entry starts, and the readers
\* that were there still are.
LEMMA TakeKeeps ==
  ASSUME RingType, SleeperInv, NEW w \in Writer, do_write_log(w)
  PROVE  SleeperInv'
<1>1. /\ Unlocked /\ wpc[w] = "begun" /\ wpc' = [wpc EXCEPT ![w] = "writing"]
      /\ start' = [start EXCEPT ![w] = w_off] /\ UNCHANGED <<rpc, torn>>
  BY DEF do_write_log
<1>2. /\ w_off \in Nat /\ len[w] \in Nat /\ start \in [Writer -> Offset]
      /\ wpc \in [Writer -> {"idle", "begun", "writing", "waking"}]
  BY RingSizes DEF RingType, LoggerTypeOK, Offset
<1>3. ASSUME NEW r \in Reader, r_off[r] = w_off PROVE r_off'[r] = w_off
  <2>1. logger_offset(w_off + (len[w] + 1)) \in Nat
    BY <1>2, OffsetType DEF Offset
  <2>2. ~clock_interval(w_off, logger_offset(w_off + (len[w] + 1)), w_off)
    BY <1>2, <2>1, NotLapped
  <2> QED BY <1>3, <2>2 DEF do_write_log, fix_up_readers
<1>4. ~Unlocked'
  BY <1>1, <1>2 DEF Unlocked
<1>5. \A v \in Writer : wpc'[v] = "writing" => start'[v] = w_off
  BY <1>1, <1>2 DEF Unlocked
<1> SUFFICES ASSUME ~torn, NEW r \in Reader, rpc[r] = "sleeping"
             PROVE  Waking' \/ AtEnd(r_off[r])'
  BY <1>1 DEF SleeperInv
<1>6. CASE Waking
  BY <1>1, <1>2, <1>6 DEF Waking
<1>7. CASE AtEnd(r_off[r])
  BY <1>1, <1>3, <1>4, <1>5, <1>7 DEF AtEnd
<1> QED BY <1>6, <1>7 DEF SleeperInv

\* The holder of the mutex copies, fails or is done.
LEMMA HolderKeeps ==
  ASSUME RingType, SleeperInv, NEW w \in Writer,
         (\E k \in 1 .. MaxPayload : do_write_log_from_user(w, k) \/ WriteFails(w, k)) \/ WriteDone(w)
  PROVE  SleeperInv'
<1> USE DEF log_vars, reader_vars
<1>0. /\ wpc[w] = "writing" /\ OneWriter /\ torn \in BOOLEAN
      /\ wpc \in [Writer -> {"idle", "begun", "writing", "waking"}]
  BY DEF do_write_log_from_user, WriteFails, WriteDone, RingType, LoggerTypeOK
<1>1. ASSUME NEW k \in 1 .. MaxPayload, do_write_log_from_user(w, k) PROVE SleeperInv'
  BY <1>0, <1>1 DEF do_write_log_from_user, SleeperInv, Waking, AtEnd, Unlocked
<1>2. ASSUME NEW k \in 1 .. MaxPayload, WriteFails(w, k) PROVE SleeperInv'
  <2>1. /\ w_off' = orig[w] /\ torn' = (torn \/ orig[w] # start[w])
        /\ wpc' = [wpc EXCEPT ![w] = "idle"] /\ UNCHANGED <<r_off, rpc>>
    BY <1>2 DEF WriteFails
  <2>2. Unlocked'
    BY <1>0, <2>1 DEF OneWriter, Unlocked
  <2> SUFFICES ASSUME ~torn', NEW r \in Reader, rpc[r] = "sleeping"
               PROVE  Waking' \/ AtEnd(r_off[r])'
    BY <2>1 DEF SleeperInv
  <2>3. ~torn /\ orig[w] = start[w]
    BY <1>0, <2>1
  <2>4. CASE Waking
    BY <1>0, <2>1, <2>4 DEF Waking
  <2>5. CASE AtEnd(r_off[r])
    BY <1>0, <2>1, <2>2, <2>3, <2>5 DEF AtEnd, Unlocked
  <2> QED BY <2>3, <2>4, <2>5 DEF SleeperInv
<1>3. CASE WriteDone(w)
  <2>1. Waking'
    BY <1>0, <1>3 DEF WriteDone, Waking
  <2> QED BY <2>1 DEF SleeperInv
<1> QED BY <1>1, <1>2, <1>3

\* Every step keeps what is said of the readers that sleep.
LEMMA SleeperNext ==
  ASSUME RingType, SleeperInv, [LoggerNext]_logger_vars
  PROVE  SleeperInv'
<1>1. ASSUME NEW w \in Writer, WriterStep(w) PROVE SleeperInv'
  BY <1>1, TakeKeeps, OutsideKeeps, HolderKeeps DEF WriterStep
<1>2. ASSUME NEW r \in Reader, ReaderStep(r) PROVE SleeperInv'
  BY <1>2, ReaderKeeps
<1>3. CASE Flush
  BY <1>3 DEF Flush, writer_vars, SleeperInv, AtEnd, Unlocked, Waking
<1>4. CASE UNCHANGED logger_vars
  BY <1>4 DEF logger_vars, log_vars, reader_vars, writer_vars, SleeperInv, AtEnd, Unlocked, Waking
<1> QED BY <1>1, <1>2, <1>3, <1>4 DEF LoggerNext

\* No reader sleeps on a log with something to read, unless a writer is about to wake it
\* up, as long as no failed write has taken w_off back to where it was not its own.
THEOREM NoLostWakeup == LoggerSpec => []SleepersWoken
<1>1. LoggerInit => RingType /\ SleeperInv
  BY InitRingType DEF LoggerInit, SleeperInv
<1>2. SleeperInv => SleepersWoken
  BY DEF SleeperInv, SleepersWoken, Waking, AtEnd, Unlocked
<1> QED BY <1>1, <1>2, NextRingType, SleeperNext, PTL DEF LoggerSpec

-----------------------------------------------------------------------------
(* The entries in the ring.                                                *)

\* What the writers have under way is no longer than the rest of the ring.
RoomBehind(o) == \A w \in Writer : wpc[w] = "writing" => Dist(o, start[w]) + len[w] + 1 < Size

\* From o on there are whole entries up to the end of the log, and what is being written
\* does not reach o.
MarkOK(o) == o \in Offset /\ (\E s : Holds(o, s)) /\ RoomBehind(o)

\* The units that a writer has copied.
Written ==
  \A w \in Writer : wpc[w] = "writing" =>
    \A k \in 0 .. ret[w] : buffer[Add(start[w], k)] = [len |-> len[w], at |-> k]

\* The log before it is torn: from where a new reader starts and from where each reader is,
\* there are whole entries to the end.
RingInv ==
  ~torn => /\ Written /\ MarkOK(head)
           /\ \A r \in Reader : rpc[r] # "closed" => MarkOK(r_off[r])

\* Where the log ends.
EndRight ==
  /\ Unlocked => End = w_off
  /\ OneWriter => \A w \in Writer : wpc[w] = "writing" => End = start[w]

\* It ends at w_off, or where the entry starts that is being written.
LEMMA EndFacts == EndRight
<1>1. Unlocked => End = w_off
  BY DEF End
<1>2. ASSUME OneWriter, NEW w \in Writer, wpc[w] = "writing" PROVE End = start[w]
  <2>1. ~Unlocked
    BY <1>2 DEF Unlocked
  <2>2. (CHOOSE v \in Writer : wpc[v] = "writing") = w
    BY <1>2 DEF OneWriter
  <2> QED BY <2>1, <2>2 DEF End
<1> QED BY <1>1, <1>2 DEF EndRight

\* The same after a step.
LEMMA EndNext == EndRight'
  BY EndFacts, PTL

\* The log always ends somewhere.
EndTyped == RingType => End \in Offset /\ BufferOK

\* It ends at an offset.
LEMMA EndType == EndTyped
<1> SUFFICES ASSUME RingType PROVE End \in Offset /\ BufferOK
  BY DEF EndTyped
<1>1. CASE Unlocked
  BY <1>1, EndFacts DEF EndRight, RingType, LoggerTypeOK, BufferOK
<1>2. CASE ~Unlocked
  BY <1>2, EndFacts DEF EndRight, Unlocked, RingType, LoggerTypeOK, BufferOK
<1> QED BY <1>1, <1>2

\* The same after a step.
LEMMA EndTypeNext == EndTyped'
  BY EndType, PTL

\* Where the cells are that lie between o and e, seen from e.
LEMMA Behind ==
  ASSUME NEW o \in Offset, NEW e \in Offset, NEW j \in 0 .. Dist(o, e) - 1
  PROVE  /\ Add(o, j) \in Offset
         /\ Dist(e, Add(o, j)) = Size - (Dist(o, e) - j)
<1>0. PICK d \in Nat : d = Dist(o, e) /\ d = (IF o <= e THEN e - o ELSE e + Size - o) /\ d < Size
  <2>1. PICK d \in Offset : d = Dist(o, e)
    BY RingFacts
  <2>2. d = (IF o <= e THEN e - o ELSE e + Size - o)
    BY <2>1, RingFacts
  <2>3. d \in Nat /\ d < Size
    BY RingSizes DEF Offset
  <2> QED BY <2>1, <2>2, <2>3
<1>1. j \in 0 .. Size /\ j \in 0 .. d - 1
  BY <1>0, RingSizes
<1>2. PICK a \in Offset : a = Add(o, j) /\ a = IF o + j < Size THEN o + j ELSE o + j - Size
  BY <1>1, RingFacts
<1>3. Dist(e, a) = IF e <= a THEN a - e ELSE a + Size - e
  BY RingFacts
<1>4. Dist(e, a) = Size - (d - j)
  BY <1>0, <1>1, <1>2, <1>3, RingSizes DEF Offset
<1> QED BY <1>0, <1>2, <1>4

\* What a writer does to its own entry leaves a path alone that ends where the entry
\* starts.
LEMMA OutOfReach ==
  ASSUME NEW b, NEW c, NEW o \in Offset, NEW e \in Offset, NEW l \in Nat, NEW s, NEW p,
         Dist(o, e) + l + 1 < Size, Path(b, o, Dist(o, e), s, p),
         \A x \in Offset : Dist(e, x) > l => c[x] = b[x]
  PROVE  Path(c, o, Dist(o, e), s, p)
<1>1. ASSUME NEW k \in 0 .. Dist(o, e) - 1 PROVE c[Add(o, k)] = b[Add(o, k)]
  <2>1. Add(o, k) \in Offset /\ Dist(e, Add(o, k)) = Size - (Dist(o, e) - k)
    BY Behind
  <2>2. PICK d \in Nat : d = Dist(o, e)
    BY RingFacts, RingSizes DEF Offset
  <2>3. Size - (d - k) > l
    BY <2>2, RingSizes
  <2> QED BY <2>1, <2>2, <2>3
<1> QED BY <1>1, SameCells

\* What is read from a place that entries are held from.
LEMMA ReadBefore ==
  ASSUME RingType, NEW o \in Offset, NEW s, Holds(o, s)
  PROVE  EntriesFrom(o) = s
  BY EndType, ReadHolds DEF EndTyped, Readable

\* The same after a step.
LEMMA ReadAfter ==
  ASSUME RingType', NEW o \in Offset, NEW s, Holds(o, s)'
  PROVE  EntriesFrom(o)' = s
  BY EndTypeNext, ReadHoldsNext DEF EndTyped, Readable

\* A mark at which a step changes nothing.
LEMMA KeptMark ==
  ASSUME RingType, RingType', NEW o, MarkOK(o), \A s : Holds(o, s) => Holds(o, s)', RoomBehind(o)'
  PROVE  MarkOK(o)' /\ EntriesFrom(o)' = EntriesFrom(o)
<1>1. o \in Offset
  BY DEF MarkOK
<1>2. PICK s : Holds(o, s)
  BY DEF MarkOK
<1>3. Holds(o, s)'
  BY <1>2
<1>4. EntriesFrom(o) = s
  BY <1>1, <1>2, ReadBefore
<1>5. EntriesFrom(o)' = s
  BY <1>1, <1>3, ReadAfter
<1>6. MarkOK(o)'
  BY <1>1, <1>3 DEF MarkOK
<1> QED BY <1>4, <1>5, <1>6

\* The distance that is left.
LEMMA DistAdd ==
  ASSUME NEW o \in Offset, NEW e \in Offset, NEW k \in 0 .. Dist(o, e)
  PROVE  Add(o, k) \in Offset /\ Dist(Add(o, k), e) = Dist(o, e) - k
<1>1. PICK d \in Offset : d = Dist(o, e)
  BY RingFacts
<1>2. d = (IF o <= e THEN e - o ELSE e + Size - o)
  BY <1>1, RingFacts
<1>3. k \in 0 .. Size /\ k \in 0 .. d
  BY <1>1, RingSizes DEF Offset
<1>4. PICK a \in Offset : a = Add(o, k) /\ a = IF o + k < Size THEN o + k ELSE o + k - Size
  BY <1>3, RingFacts
<1>5. Dist(a, e) = IF a <= e THEN e - a ELSE e + Size - a
  BY RingFacts
<1>6. Dist(a, e) = d - k
  BY <1>2, <1>3, <1>4, <1>5, RingSizes DEF Offset
<1> QED BY <1>1, <1>4, <1>6

\* Nothing is ahead of itself.
LEMMA DistSelf == \A o \in Offset : Dist(o, o) = 0
<1>1. ASSUME NEW o \in Offset PROVE Dist(o, o) = 0
  <2>1. Dist(o, o) = IF o <= o THEN o - o ELSE o + Size - o
    BY RingFacts
  <2> QED BY <2>1, RingSizes DEF Offset
<1> QED BY <1>1

\* clock_interval tells whether the next n cells reach o; when they do, there are n cells
\* at least from o to the end.
LEMMA LapFacts ==
  ASSUME NEW o \in Offset, NEW e \in Offset, NEW n \in 1 .. MaxPayload + 1
  PROVE  IF clock_interval(e, Add(e, n), o) THEN n \in 1 .. Dist(o, e) ELSE Dist(o, e) + n < Size
<1>1. PICK d \in Offset : d = Dist(o, e)
  BY RingFacts
<1>2. d = (IF o <= e THEN e - o ELSE e + Size - o)
  BY <1>1, RingFacts
<1>3. n \in 0 .. Size
  BY RingSizes
<1>4. PICK b \in Offset : b = Add(e, n) /\ b = IF e + n < Size THEN e + n ELSE e + n - Size
  BY <1>3, RingFacts
<1>5. clock_interval(e, b, o) <=> IF b < e THEN e < o \/ b >= o ELSE e < o /\ b >= o
  BY DEF clock_interval
<1>6. clock_interval(e, b, o) => n \in 1 .. d
  BY <1>2, <1>4, <1>5, RingSizes DEF Offset
<1>7. ~clock_interval(e, b, o) => d + n < Size
  BY <1>2, <1>4, <1>5, RingSizes DEF Offset
<1> QED BY <1>1, <1>4, <1>6, <1>7

\* What is left of a sequence is one of its suffixes.
LEMMA DropFirstSuffix ==
  ASSUME NEW s \in Seq(Nat), NEW j \in 0 .. Len(s)
  PROVE  DropFirst(s, j) \in Queue!Suffixes(s)
<1>1. DropFirst(s, j) = SubSeq(s, j + 1, Len(s))
  BY DEF DropFirst
<1>2. j + 1 \in 1 .. Len(s) + 1
  OBVIOUS
<1> QED BY <1>1, <1>2 DEF Queue!Suffixes

-----------------------------------------------------------------------------
(* The steps of the log are steps of the queue.                            *)


\* The queue that the log stands for.
Opened == {r \in Reader : rpc[r] # "closed"}
Kept == EntriesFrom(head)
Unread == [r \in Reader |-> IF rpc[r] = "closed" THEN <<>> ELSE EntriesFrom(r_off[r])]

\* The steps of the queue in these terms.
LEMMA QueueSteps ==
  /\ \A r \in Reader :
       /\ r \notin Opened /\ Opened' = Opened \cup {r} /\ Kept' = Kept
       /\ Unread' = [Unread EXCEPT ![r] = Kept]
       => Queue!QueueNext
  /\ \A r \in Reader :
       /\ r \in Opened /\ Opened' = Opened \ {r} /\ Kept' = Kept
       /\ Unread' = [Unread EXCEPT ![r] = <<>>]
       => Queue!QueueNext
  /\ \A r \in Reader :
       /\ r \in Opened /\ Unread[r] # <<>> /\ Opened' = Opened /\ Kept' = Kept
       /\ Unread' = [Unread EXCEPT ![r] = Tail(Unread[r])]
       => Queue!QueueNext
  /\ \A e \in 1 .. MaxPayload :
       /\ Opened' = Opened /\ Kept' = Append(Kept, e)
       /\ Unread' = [r \in Reader |-> IF r \in Opened THEN Append(Unread[r], e) ELSE <<>>]
       => Queue!QueueNext
  /\ /\ Opened' = Opened /\ Kept' \in Queue!Suffixes(Kept)
     /\ \A r \in Reader : Unread'[r] \in Queue!Suffixes(Unread[r])
     => Queue!QueueNext
  /\ /\ Opened' = Opened /\ Kept' = <<>> /\ Unread' = [r \in Reader |-> <<>>]
     => Queue!QueueNext
  /\ /\ Opened' = Opened /\ Kept' = Kept /\ Unread' = Unread
     => UNCHANGED Queue!queue_vars
<1> USE DEF Opened, Kept, Unread
<1>1. ASSUME NEW r \in Reader, r \notin Opened, Opened' = Opened \cup {r}, Kept' = Kept,
             Unread' = [Unread EXCEPT ![r] = Kept]
      PROVE  Queue!QueueNext
  BY <1>1 DEF Queue!QueueNext, Queue!Open
<1>2. ASSUME NEW r \in Reader, r \in Opened, Opened' = Opened \ {r}, Kept' = Kept,
             Unread' = [Unread EXCEPT ![r] = <<>>]
      PROVE  Queue!QueueNext
  BY <1>2 DEF Queue!QueueNext, Queue!Close
<1>3. ASSUME NEW r \in Reader, r \in Opened, Unread[r] # <<>>, Opened' = Opened, Kept' = Kept,
             Unread' = [Unread EXCEPT ![r] = Tail(Unread[r])]
      PROVE  Queue!QueueNext
  BY <1>3 DEF Queue!QueueNext, Queue!Read
<1>4. ASSUME NEW e \in 1 .. MaxPayload, Opened' = Opened, Kept' = Append(Kept, e),
             Unread' = [r \in Reader |-> IF r \in Opened THEN Append(Unread[r], e) ELSE <<>>]
      PROVE  Queue!QueueNext
  BY <1>4 DEF Queue!QueueNext, Queue!Write
<1>5. ASSUME Opened' = Opened, Kept' \in Queue!Suffixes(Kept),
             \A r \in Reader : Unread'[r] \in Queue!Suffixes(Unread[r])
      PROVE  Queue!QueueNext
  BY <1>5 DEF Queue!QueueNext, Queue!Lose
<1>6. ASSUME Opened' = Opened, Kept' = <<>>, Unread' = [r \in Reader |-> <<>>]
      PROVE  Queue!QueueNext
  BY <1>6 DEF Queue!QueueNext, Queue!Flush
<1>7. ASSUME Opened' = Opened, Kept' = Kept, Unread' = Unread
      PROVE  UNCHANGED Queue!queue_vars
  BY <1>7 DEF Queue!queue_vars
<1> HIDE DEF Opened, Kept, Unread
<1> QED BY <1>1, <1>2, <1>3, <1>4, <1>5, <1>6, <1>7

\* What a step keeps and what it is to the queue.
QueueStep == RingInv' /\ (Queue!QueueNext \/ UNCHANGED Queue!queue_vars)

\* The marks after a step, one by one.
LEMMA MarksNext ==
  /\ \A x : x = head' => Kept' = EntriesFrom(x)'
  /\ DOMAIN Unread' = Reader
  /\ \A r \in Reader : rpc'[r] = "closed" => Unread'[r] = <<>>
  /\ \A r \in Reader : \A x :
       rpc'[r] # "closed" /\ x = r_off'[r] => Unread'[r] = EntriesFrom(x)'
  /\ /\ ~torn' => Written'
     /\ \A x : ~torn' /\ x = head' => MarkOK(x)'
     /\ \A r \in Reader : \A x :
          ~torn' /\ rpc'[r] # "closed" /\ x = r_off'[r] => MarkOK(x)'
     => RingInv'
<1>1. ASSUME NEW x, x = head' PROVE Kept' = EntriesFrom(x)' /\ (MarkOK(head)' <=> MarkOK(x)')
  BY <1>1 DEF Kept, EntriesFrom, MarkOK, Holds, RoomBehind
<1>2. DOMAIN Unread' = Reader /\ \A r \in Reader : rpc'[r] = "closed" => Unread'[r] = <<>>
  BY DEF Unread
<1>3. ASSUME NEW r \in Reader, NEW x, rpc'[r] # "closed", x = r_off'[r]
      PROVE  Unread'[r] = EntriesFrom(x)' /\ (MarkOK(r_off[r])' <=> MarkOK(x)')
  BY <1>3 DEF Unread, EntriesFrom, MarkOK, Holds, RoomBehind
<1>4. ASSUME ~torn' => Written',
             \A x : ~torn' /\ x = head' => MarkOK(x)',
             \A r \in Reader : \A x : ~torn' /\ rpc'[r] # "closed" /\ x = r_off'[r] => MarkOK(x)'
      PROVE  RingInv'
  <2> SUFFICES ASSUME ~torn'
               PROVE  /\ Written' /\ MarkOK(head)'
                      /\ \A r \in Reader : rpc'[r] # "closed" => MarkOK(r_off[r])'
    BY DEF RingInv
  <2>1. MarkOK(head)'
    BY <1>1, <1>4
  <2>2. ASSUME NEW r \in Reader, rpc'[r] # "closed" PROVE MarkOK(r_off[r])'
    BY <1>3, <1>4, <2>2
  <2> QED BY <1>4, <2>1, <2>2
<1> QED BY <1>1, <1>2, <1>3, <1>4

\* A step that changes nothing for the queue.
LEMMA QuietStep ==
  ASSUME RingType, RingType', RingInv, ~torn, Written',
         \A o : MarkOK(o) => (\A s : Holds(o, s) => Holds(o, s)') /\ RoomBehind(o)',
         head' = head,
         \A r \in Reader : rpc'[r] = "closed" <=> rpc[r] = "closed",
         \A r \in Reader : rpc[r] # "closed" => r_off'[r] = r_off[r]
  PROVE  QueueStep
<1>1. ASSUME NEW o, MarkOK(o)
      PROVE  MarkOK(o)' /\ EntriesFrom(o)' = EntriesFrom(o)
  <2>1. (\A s : Holds(o, s) => Holds(o, s)') /\ RoomBehind(o)'
    BY <1>1
  <2> QED BY <1>1, <2>1, KeptMark
<1>2. PICK h : h = head
  OBVIOUS
<1>3. MarkOK(h) /\ h = head' /\ Kept = EntriesFrom(h)
  BY <1>2 DEF RingInv, Kept
<1>4. ASSUME NEW r \in Reader, rpc[r] # "closed", NEW x, x = r_off[r]
      PROVE  MarkOK(x) /\ x = r_off'[r] /\ rpc'[r] # "closed" /\ Unread[r] = EntriesFrom(x)
  BY <1>4 DEF RingInv, Unread
<1>5. RingInv'
  <2>1. \A x : ~torn' /\ x = head' => MarkOK(x)'
    BY <1>1, <1>3
  <2>2. ASSUME NEW r \in Reader, NEW x, ~torn', rpc'[r] # "closed", x = r_off'[r]
        PROVE  MarkOK(x)'
    <3>1. rpc[r] # "closed" /\ x = r_off[r]
      BY <2>2
    <3>2. MarkOK(x)
      BY <1>4, <3>1
    <3> QED BY <1>1, <3>2
  <2> QED BY <2>1, <2>2, MarksNext
<1>6. Opened' = Opened
  BY DEF Opened
<1>7. Kept' = Kept
  <2>1. Kept' = EntriesFrom(h)'
    BY <1>3, MarksNext
  <2> QED BY <1>1, <1>3, <2>1
<1>8. ASSUME NEW r \in Reader PROVE Unread'[r] = Unread[r]
  <2>1. CASE rpc[r] = "closed"
    <3>1. Unread[r] = <<>>
      BY <2>1 DEF Unread
    <3>2. Unread'[r] = <<>>
      BY <2>1, MarksNext
    <3> QED BY <3>1, <3>2
  <2>2. CASE rpc[r] # "closed"
    <3>1. PICK x : x = r_off[r]
      OBVIOUS
    <3>2. MarkOK(x) /\ x = r_off'[r] /\ rpc'[r] # "closed" /\ Unread[r] = EntriesFrom(x)
      BY <1>4, <2>2, <3>1
    <3>3. Unread'[r] = EntriesFrom(x)'
      BY <3>2, MarksNext
    <3> QED BY <1>1, <3>2, <3>3
  <2> QED BY <2>1, <2>2
<1>9. Unread' = Unread
  BY <1>8 DEF Unread
<1> QED BY <1>5, <1>6, <1>7, <1>9, QueueSteps DEF QueueStep

\* Nothing is written and nobody takes or gives back the mutex.
LEMMA SameLog ==
  ASSUME RingType, RingInv, ~torn, UNCHANGED <<buffer, w_off, start, ret>>,
         \A w \in Writer : wpc'[w] = "writing" <=> wpc[w] = "writing",
         \A w \in Writer : wpc[w] = "writing" => len'[w] = len[w]
  PROVE  /\ Written' /\ End' = End
         /\ \A o : MarkOK(o) => (\A s : Holds(o, s) => Holds(o, s)') /\ RoomBehind(o)'
<1>1. Written'
  BY DEF RingInv, Written
<1>2. End' = End
  <2>1. CASE Unlocked
    <3>1. Unlocked'
      BY <2>1 DEF Unlocked
    <3> QED BY <2>1, <3>1, EndFacts, EndNext DEF EndRight
  <2>2. CASE ~Unlocked
    <3>1. PICK w \in Writer : wpc[w] = "writing" /\ wpc'[w] = "writing"
      BY <2>2 DEF Unlocked
    <3>2. OneWriter /\ OneWriter'
      BY DEF RingType, OneWriter
    <3> QED BY <3>1, <3>2, EndFacts, EndNext DEF EndRight
  <2> QED BY <2>1, <2>2
<1>3. ASSUME NEW o, NEW s, Holds(o, s) PROVE Holds(o, s)'
  BY <1>2, <1>3 DEF Holds
<1>4. ASSUME NEW o, RoomBehind(o) PROVE RoomBehind(o)'
  BY <1>4 DEF RoomBehind
<1> QED BY <1>1, <1>2, <1>3, <1>4 DEF MarkOK

\* The steps at which the queue does not change.
LEMMA IdleSteps ==
  ASSUME RingType, RingType', RingInv, ~torn,
         \/ \E r \in Reader : logger_read(r) \/ CheckEmpty(r) \/ Interrupted(r) \/ ReadRaced(r)
         \/ \E w \in Writer : \E n \in 1 .. MaxPayload : logger_aio_write(w, n)
         \/ \E w \in Writer : wake_up_interruptible(w)
         \/ UNCHANGED logger_vars
  PROVE  QueueStep
<1> DEFINE Quiet ==
  /\ UNCHANGED <<buffer, w_off, start, ret, head, r_off>>
  /\ \A w \in Writer : wpc'[w] = "writing" <=> wpc[w] = "writing"
  /\ \A w \in Writer : wpc[w] = "writing" => len'[w] = len[w]
  /\ \A q \in Reader : rpc'[q] = "closed" <=> rpc[q] = "closed"
<1>0. /\ rpc \in [Reader -> {"closed", "open", "prepared", "sleeping", "found"}]
      /\ wpc \in [Writer -> {"idle", "begun", "writing", "waking"}]
      /\ len \in [Writer -> 0 .. MaxPayload]
  BY DEF RingType, LoggerTypeOK
<1>1. ASSUME NEW r \in Reader, logger_read(r) \/ CheckEmpty(r) \/ Interrupted(r) \/ ReadRaced(r)
      PROVE  Quiet
  <2>1. UNCHANGED <<log_vars, r_off, writer_vars>>
    BY <1>1 DEF logger_read, CheckEmpty, Interrupted, ReadRaced
  <2>2. rpc[r] # "closed" /\ \E x \in {"open", "prepared", "sleeping", "found"} : rpc' = [rpc EXCEPT ![r] = x]
    BY <1>1 DEF logger_read, CheckEmpty, Interrupted, ReadRaced
  <2>3. \A q \in Reader : rpc'[q] = "closed" <=> rpc[q] = "closed"
    BY <1>0, <2>2
  <2> QED BY <2>1, <2>3 DEF log_vars, writer_vars
<1>2. ASSUME NEW w \in Writer, NEW n \in 1 .. MaxPayload, logger_aio_write(w, n)
      PROVE  Quiet
  BY <1>0, <1>2 DEF logger_aio_write, log_vars, reader_vars
<1>3. ASSUME NEW w \in Writer, wake_up_interruptible(w)
      PROVE  Quiet
  BY <1>0, <1>3 DEF wake_up_interruptible, log_vars
<1>4. ASSUME UNCHANGED logger_vars
      PROVE  Quiet
  BY <1>4 DEF logger_vars, log_vars, reader_vars, writer_vars
<1>5. Quiet
  <2> HIDE DEF Quiet
  <2> QED BY <1>1, <1>2, <1>3, <1>4
<1>6. /\ Written'
      /\ \A o : MarkOK(o) => (\A s : Holds(o, s) => Holds(o, s)') /\ RoomBehind(o)'
  BY <1>5, SameLog
<1> QED BY <1>5, <1>6, QuietStep

\* One reader opens, closes or reads the log: the rest is as before.
LEMMA OneReader ==
  ASSUME RingType, RingType', RingInv, ~torn, NEW r \in Reader,
         UNCHANGED <<log_vars, writer_vars, torn>>,
         \A q \in Reader : q # r => rpc'[q] = rpc[q] /\ r_off'[q] = r_off[q],
         \A x : rpc'[r] # "closed" /\ x = r_off'[r] => MarkOK(x)
  PROVE  /\ RingInv' /\ Kept' = Kept
         /\ \A q \in Reader : q # r => Unread'[q] = Unread[q]
         /\ rpc'[r] = "closed" => Unread'[r] = <<>>
         /\ \A x : rpc'[r] # "closed" /\ x = r_off'[r] => Unread'[r] = EntriesFrom(x)
<1>1. UNCHANGED <<buffer, w_off, head, wpc, orig, len, ret, start>>
  BY DEF log_vars, writer_vars
<1>2. /\ Written'
      /\ \A o : MarkOK(o) => (\A s : Holds(o, s) => Holds(o, s)') /\ RoomBehind(o)'
  BY <1>1, SameLog
<1>3. ASSUME NEW o, MarkOK(o)
      PROVE  MarkOK(o)' /\ EntriesFrom(o)' = EntriesFrom(o)
  <2>1. (\A s : Holds(o, s) => Holds(o, s)') /\ RoomBehind(o)'
    BY <1>2, <1>3
  <2> QED BY <1>3, <2>1, KeptMark
<1>4. PICK h : h = head
  OBVIOUS
<1>5. MarkOK(h) /\ h = head' /\ Kept = EntriesFrom(h)
  BY <1>1, <1>4 DEF RingInv, Kept
<1>6. ASSUME NEW q \in Reader, q # r, rpc[q] # "closed", NEW x, x = r_off[q]
      PROVE  MarkOK(x) /\ x = r_off'[q] /\ rpc'[q] # "closed" /\ Unread[q] = EntriesFrom(x)
  BY <1>6 DEF RingInv, Unread
<1>7. RingInv'
  <2>1. \A x : ~torn' /\ x = head' => MarkOK(x)'
    BY <1>3, <1>5
  <2>2. ASSUME NEW q \in Reader, NEW x, ~torn', rpc'[q] # "closed", x = r_off'[q]
        PROVE  MarkOK(x)'
    <3>1. CASE q = r
      BY <1>3, <2>2, <3>1
    <3>2. CASE q # r
      <4>1. rpc[q] # "closed" /\ x = r_off[q]
        BY <2>2, <3>2
      <4>2. MarkOK(x)
        BY <1>6, <3>2, <4>1
      <4> QED BY <1>3, <4>2
    <3> QED BY <3>1, <3>2
  <2> QED BY <1>2, <2>1, <2>2, MarksNext
<1>8. Kept' = Kept
  <2>1. Kept' = EntriesFrom(h)'
    BY <1>5, MarksNext
  <2> QED BY <1>3, <1>5, <2>1
<1>9. ASSUME NEW q \in Reader, q # r PROVE Unread'[q] = Unread[q]
  <2>1. CASE rpc[q] = "closed"
    <3>1. Unread[q] = <<>>
      BY <2>1 DEF Unread
    <3>2. Unread'[q] = <<>>
      BY <1>9, <2>1, MarksNext
    <3> QED BY <3>1, <3>2
  <2>2. CASE rpc[q] # "closed"
    <3>1. PICK x : x = r_off[q]
      OBVIOUS
    <3>2. MarkOK(x) /\ x = r_off'[q] /\ rpc'[q] # "closed" /\ Unread[q] = EntriesFrom(x)
      BY <1>6, <1>9, <2>2, <3>1
    <3>3. Unread'[q] = EntriesFrom(x)'
      BY <3>2, MarksNext
    <3> QED BY <1>3, <3>2, <3>3
  <2> QED BY <2>1, <2>2
<1>10. rpc'[r] = "closed" => Unread'[r] = <<>>
  BY MarksNext
<1>11. ASSUME NEW x, rpc'[r] # "closed", x = r_off'[r] PROVE Unread'[r] = EntriesFrom(x)
  <2>1. Unread'[r] = EntriesFrom(x)' /\ MarkOK(x)
    BY <1>11, MarksNext
  <2> QED BY <1>3, <2>1
<1> QED BY <1>7, <1>8, <1>9, <1>10, <1>11

\* Unread changes in one place.
LEMMA UnreadExcept ==
  ASSUME NEW r \in Reader, NEW v, Unread'[r] = v,
         \A q \in Reader : q # r => Unread'[q] = Unread[q]
  PROVE  Unread' = [Unread EXCEPT ![r] = v]
<1>1. DOMAIN Unread = Reader /\ Unread = [q \in Reader |-> Unread[q]]
  BY DEF Unread
<1>2. Unread' = [q \in Reader |-> Unread'[q]]
  BY DEF Unread
<1> QED BY <1>1, <1>2

\* logger_open gives the reader what is kept.
LEMMA OpenStep ==
  ASSUME RingType, RingType', RingInv, ~torn, NEW r \in Reader, logger_open(r)
  PROVE  QueueStep
<1>0. rpc \in [Reader -> {"closed", "open", "prepared", "sleeping", "found"}]
      /\ r_off \in [Reader -> Offset]
  BY DEF RingType, LoggerTypeOK
<1>1. /\ rpc[r] = "closed" /\ rpc'[r] = "open" /\ r_off'[r] = head
      /\ UNCHANGED <<log_vars, writer_vars, torn>>
      /\ \A q \in Reader : q # r => rpc'[q] = rpc[q] /\ r_off'[q] = r_off[q]
  BY <1>0 DEF logger_open
<1>2. \A x : rpc'[r] # "closed" /\ x = r_off'[r] => MarkOK(x)
  BY <1>1 DEF RingInv
<1>3. /\ RingInv' /\ Kept' = Kept
      /\ \A q \in Reader : q # r => Unread'[q] = Unread[q]
      /\ \A x : rpc'[r] # "closed" /\ x = r_off'[r] => Unread'[r] = EntriesFrom(x)
  BY <1>1, <1>2, OneReader
<1>4. Unread'[r] = Kept
  BY <1>1, <1>3 DEF Kept
<1>5. Unread' = [Unread EXCEPT ![r] = Kept]
  BY <1>3, <1>4, UnreadExcept
<1>6. r \notin Opened /\ Opened' = Opened \cup {r}
  BY <1>1 DEF Opened
<1> QED BY <1>3, <1>5, <1>6, QueueSteps DEF QueueStep

\* logger_release.
LEMMA CloseStep ==
  ASSUME RingType, RingType', RingInv, ~torn, NEW r \in Reader, logger_release(r)
  PROVE  QueueStep
<1>0. rpc \in [Reader -> {"closed", "open", "prepared", "sleeping", "found"}]
      /\ r_off \in [Reader -> Offset]
  BY DEF RingType, LoggerTypeOK
<1>1. /\ rpc[r] = "open" /\ rpc'[r] = "closed"
      /\ UNCHANGED <<log_vars, writer_vars, torn>>
      /\ \A q \in Reader : q # r => rpc'[q] = rpc[q] /\ r_off'[q] = r_off[q]
  BY <1>0 DEF logger_release
<1>2. \A x : rpc'[r] # "closed" /\ x = r_off'[r] => MarkOK(x)
  BY <1>1
<1>3. /\ RingInv' /\ Kept' = Kept
      /\ \A q \in Reader : q # r => Unread'[q] = Unread[q]
      /\ rpc'[r] = "closed" => Unread'[r] = <<>>
  BY <1>1, <1>2, OneReader
<1>4. Unread' = [Unread EXCEPT ![r] = <<>>]
  BY <1>1, <1>3, UnreadExcept
<1>5. r \in Opened /\ Opened' = Opened \ {r}
  BY <1>1 DEF Opened
<1> QED BY <1>3, <1>4, <1>5, QueueSteps DEF QueueStep

\* The first entry that is held from o, and what is left without it.
LEMMA FirstEntry ==
  ASSUME RingType, Unlocked, NEW o, MarkOK(o), o # w_off
  PROVE  /\ EntriesFrom(o) # <<>>
         /\ MarkOK(logger_offset(o + get_entry_len(o)))
         /\ EntriesFrom(logger_offset(o + get_entry_len(o))) = Tail(EntriesFrom(o))
<1>1. o \in Offset /\ End = w_off /\ w_off \in Offset
  BY EndFacts DEF EndRight, MarkOK, RingType, LoggerTypeOK
<1>2. PICK s, p : Path(buffer, o, Dist(o, End), s, p)
  BY DEF MarkOK, Holds
<1>3. EntriesFrom(o) = s
  BY <1>1, <1>2, ReadBefore DEF Holds
<1>4. PICK n \in Nat : n = Dist(o, w_off) /\ n # 0
  <2>1. PICK d \in Offset : d = Dist(o, w_off)
    BY <1>1, RingFacts
  <2>2. d = (IF o <= w_off THEN w_off - o ELSE w_off + Size - o)
    BY <1>1, <2>1, RingFacts
  <2>3. d \in Nat /\ d # 0
    BY <1>1, <2>2, RingSizes DEF Offset
  <2> QED BY <2>1, <2>3
<1>5. Path(buffer, o, n, s, p)
  BY <1>1, <1>2, <1>4
<1>6. s \in Seq(Nat) /\ p[0] = 0 /\ p[Len(s)] = n /\ Len(s) \in Nat
  <2>1. s \in Seq(1 .. MaxPayload) /\ p[0] = 0 /\ p[Len(s)] = n
    BY <1>5 DEF Path
  <2> QED BY <2>1, RingSizes
<1>7. Len(s) # 0 /\ 1 \in 1 .. Len(s) /\ 1 \in 0 .. Len(s) /\ 1 - 1 = 0
  BY <1>4, <1>6
<1>8. get_entry_len(Add(o, p[1 - 1])) = s[1] + 1 /\ p[1 - 1] + get_entry_len(Add(o, p[1 - 1])) = p[1]
  BY <1>1, <1>5, <1>7, PathReads
<1>9. Add(o, 0) = o
  <2>1. 0 \in 0 .. Size
    BY RingSizes
  <2>2. Add(o, 0) = IF o + 0 < Size THEN o + 0 ELSE o + 0 - Size
    BY <1>1, <2>1, RingFacts
  <2> QED BY <1>1, <2>2, RingSizes DEF Offset
<1>10. p[1] = get_entry_len(o)
  <2>1. 0 + get_entry_len(o) = p[1]
    BY <1>6, <1>7, <1>8, <1>9
  <2>2. get_entry_len(o) \in Nat
    BY <1>1, EndType, EntryLen DEF EndTyped
  <2> QED BY <2>1, <2>2
<1>11. /\ p[1] \in 0 .. n
       /\ \E q : Path(buffer, Add(o, p[1]), n - p[1], DropFirst(s, 1), q)
  BY <1>1, <1>5, <1>7, DropPath
<1>12. PICK a : a = Add(o, p[1])
  OBVIOUS
<1>13. a \in Offset /\ Dist(a, w_off) = n - p[1]
  <2>1. p[1] \in 0 .. Dist(o, w_off)
    BY <1>4, <1>11
  <2> QED BY <1>1, <1>4, <1>12, <2>1, DistAdd
<1>14. Holds(a, DropFirst(s, 1))
  BY <1>1, <1>11, <1>12, <1>13 DEF Holds
<1>15. EntriesFrom(a) = DropFirst(s, 1)
  BY <1>13, <1>14, ReadBefore
<1>16. MarkOK(a)
  BY <1>13, <1>14 DEF MarkOK, RoomBehind, Unlocked
<1>17. DropFirst(s, 1) = Tail(s) /\ s # <<>>
  <2>1. s # <<>>
    BY <1>6, <1>7
  <2>2. Tail(s) \in Seq(Nat) /\ Len(Tail(s)) = Len(s) - 1
    BY <1>6, <2>1
  <2>3. \A k \in 1 .. Len(s) - 1 : Tail(s)[k] = s[k + 1] /\ k + 1 = 1 + k
    BY <1>6, <2>1
  <2>4. PICK t \in Seq(Nat) : t = Tail(s)
    BY <2>2
  <2>5. t = [k \in 1 .. Len(t) |-> t[k]]
    OBVIOUS
  <2> QED BY <2>1, <2>2, <2>3, <2>4, <2>5 DEF DropFirst
<1>18. a = logger_offset(o + get_entry_len(o))
  BY <1>10, <1>12 DEF Add
<1> QED BY <1>3, <1>15, <1>16, <1>17, <1>18

\* do_read_log_to_user reads one entry, or none.
LEMMA ReadStep ==
  ASSUME RingType, RingType', RingInv, ~torn, NEW r \in Reader, do_read_log_to_user(r)
  PROVE  QueueStep
<1>0. rpc \in [Reader -> {"closed", "open", "prepared", "sleeping", "found"}]
      /\ r_off \in [Reader -> Offset]
  BY DEF RingType, LoggerTypeOK
<1>1. PICK o : o = r_off[r]
  OBVIOUS
<1>2. /\ rpc[r] = "found" /\ rpc'[r] = "open" /\ Unlocked /\ o # w_off
      /\ UNCHANGED <<log_vars, writer_vars, torn>>
      /\ \A q \in Reader : q # r => rpc'[q] = rpc[q] /\ r_off'[q] = r_off[q]
      /\ r_off'[r] = o \/ r_off'[r] = logger_offset(o + get_entry_len(o))
  BY <1>0, <1>1 DEF do_read_log_to_user
<1>3. MarkOK(o) /\ Unread[r] = EntriesFrom(o)
  BY <1>1, <1>2 DEF RingInv, Unread
<1>4. PICK a : a = logger_offset(o + get_entry_len(o))
  OBVIOUS
<1>5. EntriesFrom(o) # <<>> /\ MarkOK(a) /\ EntriesFrom(a) = Tail(EntriesFrom(o))
  BY <1>2, <1>3, <1>4, FirstEntry
<1>6. \A x : rpc'[r] # "closed" /\ x = r_off'[r] => MarkOK(x)
  BY <1>2, <1>3, <1>4, <1>5
<1>7. /\ RingInv' /\ Kept' = Kept
      /\ \A q \in Reader : q # r => Unread'[q] = Unread[q]
      /\ \A x : rpc'[r] # "closed" /\ x = r_off'[r] => Unread'[r] = EntriesFrom(x)
  BY <1>2, <1>6, OneReader
<1>8. r \in Opened /\ Opened' = Opened
  <2>1. \A q \in Reader : rpc'[q] = "closed" <=> rpc[q] = "closed"
    BY <1>2
  <2> QED BY <1>2, <2>1 DEF Opened
<1>9. CASE r_off'[r] = a
  <2>1. Unread'[r] = Tail(Unread[r]) /\ Unread[r] # <<>>
    BY <1>2, <1>3, <1>5, <1>7, <1>9
  <2>2. Unread' = [Unread EXCEPT ![r] = Tail(Unread[r])]
    BY <1>7, <2>1, UnreadExcept
  <2> QED BY <1>7, <1>8, <2>1, <2>2, QueueSteps DEF QueueStep
<1>10. CASE r_off'[r] = o
  <2>1. Unread'[r] = Unread[r]
    BY <1>2, <1>3, <1>7, <1>10
  <2>2. Unread' = Unread
    BY <1>7, <2>1 DEF Unread
  <2> QED BY <1>7, <1>8, <2>2, QueueSteps DEF QueueStep
<1> QED BY <1>2, <1>4, <1>9, <1>10

\* LOGGER_FLUSH_LOG.
LEMMA FlushStep ==
  ASSUME RingType, RingType', RingInv, ~torn, Flush
  PROVE  QueueStep
<1>1. /\ Unlocked /\ UNCHANGED <<buffer, w_off, rpc, wpc, orig, len, ret, start, torn>>
      /\ head' = w_off
      /\ \A r \in Reader : rpc[r] # "closed" => r_off'[r] = w_off
  BY DEF Flush, writer_vars
<1>2. PICK e : e = w_off
  OBVIOUS
<1>3. e \in Offset
  BY <1>2 DEF RingType, LoggerTypeOK
<1>4. Unlocked' /\ End' = e
  <2>1. Unlocked'
    BY <1>1 DEF Unlocked
  <2> QED BY <1>1, <1>2, <2>1, EndNext DEF EndRight
<1>5. Holds(e, <<>>)'
  <2>1. Dist(e, e) = 0
    BY <1>3, DistSelf
  <2>2. PICK p : Path(buffer', e, 0, <<>>, p)
    BY <1>3, EmptyPath
  <2>3. Path(buffer', e, Dist(e, End'), <<>>, p)
    BY <1>4, <2>1, <2>2
  <2> QED BY <2>3 DEF Holds
<1>6. MarkOK(e)' /\ EntriesFrom(e)' = <<>>
  <2>1. RoomBehind(e)'
    BY <1>4 DEF RoomBehind, Unlocked
  <2>2. EntriesFrom(e)' = <<>>
    BY <1>3, <1>5, ReadAfter
  <2> QED BY <1>3, <1>5, <2>1, <2>2 DEF MarkOK
<1>7. RingInv'
  <2>1. Written'
    BY <1>4 DEF Written, Unlocked
  <2>2. \A x : ~torn' /\ x = head' => MarkOK(x)'
    BY <1>1, <1>2, <1>6
  <2>3. \A r \in Reader : \A x : ~torn' /\ rpc'[r] # "closed" /\ x = r_off'[r] => MarkOK(x)'
    BY <1>1, <1>2, <1>6
  <2> QED BY <2>1, <2>2, <2>3, MarksNext
<1>8. Opened' = Opened
  BY <1>1 DEF Opened
<1>9. Kept' = <<>>
  BY <1>1, <1>2, <1>6, MarksNext
<1>10. Unread' = [r \in Reader |-> <<>>]
  <2>1. ASSUME NEW r \in Reader PROVE Unread'[r] = <<>>
    <3>1. rpc'[r] = "closed" \/ (rpc'[r] # "closed" /\ e = r_off'[r])
      BY <1>1, <1>2
    <3> QED BY <1>6, <3>1, MarksNext
  <2>2. Unread' = [r \in Reader |-> Unread'[r]]
    BY DEF Unread
  <2> QED BY <2>1, <2>2
<1> QED BY <1>7, <1>8, <1>9, <1>10, QueueSteps DEF QueueStep

\* The entry that is being written is out of reach of what can be read.
LEMMA WriterMark ==
  ASSUME RingType, NEW w \in Writer, wpc[w] = "writing", NEW o, MarkOK(o)
  PROVE  /\ End = start[w] /\ o \in Offset /\ start[w] \in Offset /\ len[w] \in 1 .. MaxPayload
         /\ len[w] \in Nat /\ Dist(o, start[w]) + len[w] + 1 < Size
<1>1. End = start[w]
  BY EndFacts DEF EndRight, RingType
<1>2. start[w] \in Offset /\ len[w] \in 1 .. MaxPayload /\ len[w] \in Nat
  BY RingSizes DEF RingType, LoggerTypeOK, WriterOK
<1>3. o \in Offset /\ Dist(o, start[w]) + len[w] + 1 < Size
  BY DEF MarkOK, RoomBehind
<1> QED BY <1>1, <1>2, <1>3

\* What is held is still held when the writer of an entry has changed cells of its own.
LEMMA StillHeld ==
  ASSUME RingType, NEW w \in Writer, wpc[w] = "writing", End' = End,
         \A x \in Offset : Dist(start[w], x) > len[w] => buffer'[x] = buffer[x],
         NEW o, MarkOK(o), NEW s, Holds(o, s)
  PROVE  Holds(o, s)'
<1>1. /\ End = start[w] /\ o \in Offset /\ start[w] \in Offset
      /\ len[w] \in Nat /\ Dist(o, start[w]) + len[w] + 1 < Size
  BY WriterMark
<1>2. PICK e \in Offset, l \in Nat : e = start[w] /\ l = len[w] /\ Dist(o, e) + l + 1 < Size
  BY <1>1
<1>3. PICK p : Path(buffer, o, Dist(o, e), s, p)
  BY <1>1, <1>2 DEF Holds
<1>4. PICK b, c : b = buffer /\ c = buffer'
  OBVIOUS
<1>5. Path(b, o, Dist(o, e), s, p) /\ \A x \in Offset : Dist(e, x) > l => c[x] = b[x]
  BY <1>2, <1>3, <1>4
<1>6. Path(c, o, Dist(o, e), s, p)
  BY <1>1, <1>2, <1>5, OutOfReach
<1> QED BY <1>1, <1>2, <1>4, <1>6 DEF Holds

\* A segment is copied.
LEMMA CopyStep ==
  ASSUME RingType, RingType', RingInv, ~torn, NEW w \in Writer, NEW k \in 1 .. MaxPayload,
         do_write_log_from_user(w, k)
  PROVE  QueueStep
<1>0. /\ wpc[w] = "writing" /\ ret[w] + k <= len[w]
      /\ buffer' = [o \in Offset |->
                      IF o \in Segment(k)
                      THEN [len |-> len[w], at |-> Place(w, o)] ELSE buffer[o]]
      /\ ret' = [ret EXCEPT ![w] = @ + k]
      /\ UNCHANGED <<head, r_off, rpc, wpc, orig, len, start, torn>>
  BY DEF do_write_log_from_user, reader_vars
<1>1. /\ len[w] \in 1 .. MaxPayload /\ ret[w] \in 0 .. len[w] /\ start[w] \in Offset
      /\ \A o \in Offset :
           /\ o \in Segment(k) <=> Dist(start[w], o) \in ret[w] + 1 .. ret[w] + k
           /\ Place(w, o) = Dist(start[w], o)
  BY <1>0, SegmentFacts
<1>2. PICK e \in Offset, l \in Nat, m \in Nat :
        e = start[w] /\ l = len[w] /\ m = ret[w] /\ m + k <= l /\ l + 1 < Size
  BY <1>0, <1>1, RingSizes
<1>3. ASSUME NEW x \in Offset
      PROVE  buffer'[x] = IF Dist(e, x) \in m + 1 .. m + k
                          THEN [len |-> l, at |-> Dist(e, x)] ELSE buffer[x]
  BY <1>0, <1>1, <1>2
<1>4. OneWriter /\ OneWriter' /\ End' = End
  <2>1. OneWriter /\ OneWriter'
    BY DEF RingType
  <2> QED BY <1>0, <2>1, EndFacts, EndNext DEF EndRight
<1>5. Written'
  <2> SUFFICES ASSUME NEW v \in Writer, wpc'[v] = "writing", NEW i \in 0 .. ret'[v]
               PROVE  buffer'[Add(start'[v], i)] = [len |-> len'[v], at |-> i]
    BY DEF Written
  <2>1. v = w
    BY <1>0, <1>4 DEF OneWriter
  <2>2. ret'[w] = m + k
    BY <1>0, <1>2 DEF RingType, LoggerTypeOK
  <2>3. i \in 0 .. m + k /\ i \in Offset
    BY <1>2, <2>1, <2>2, RingSizes DEF Offset
  <2>4. Add(e, i) \in Offset /\ Dist(e, Add(e, i)) = i
    <3>1. i \in 0 .. Size
      BY <2>3, RingSizes DEF Offset
    <3> QED BY <2>3, <3>1, RingFacts, AddDist
  <2>5. CASE i \in m + 1 .. m + k
    BY <1>0, <1>2, <1>3, <2>1, <2>4, <2>5
  <2>6. CASE i \notin m + 1 .. m + k
    <3>1. i \in 0 .. m
      BY <2>3, <2>6
    <3>2. buffer[Add(e, i)] = [len |-> l, at |-> i]
      BY <1>0, <1>2, <3>1 DEF RingInv, Written
    <3>3. buffer'[Add(e, i)] = buffer[Add(e, i)]
      BY <1>3, <2>4, <2>6
    <3> QED BY <1>0, <1>2, <2>1, <3>2, <3>3
  <2> QED BY <2>5, <2>6
<1>6. \A x \in Offset : Dist(start[w], x) > len[w] => buffer'[x] = buffer[x]
  <2>1. ASSUME NEW x \in Offset, Dist(e, x) > l PROVE buffer'[x] = buffer[x]
    <3>1. Dist(e, x) \notin m + 1 .. m + k
      BY <1>2, <2>1
    <3> QED BY <1>3, <3>1
  <2> QED BY <1>2, <2>1
<1>7. ASSUME NEW o, MarkOK(o)
      PROVE  (\A s : Holds(o, s) => Holds(o, s)') /\ RoomBehind(o)'
  <2>1. ASSUME NEW s, Holds(o, s) PROVE Holds(o, s)'
    BY <1>0, <1>4, <1>6, <1>7, <2>1, StillHeld
  <2>2. RoomBehind(o)'
    BY <1>0, <1>7 DEF MarkOK, RoomBehind
  <2> QED BY <2>1, <2>2
<1> QED BY <1>0, <1>5, <1>7, QuietStep

\* A segment cannot be copied, and w_off goes back to where the entry started.
LEMMA FailStep ==
  ASSUME RingType, RingType', RingInv, ~torn, ~torn', NEW w \in Writer, NEW k \in 1 .. MaxPayload,
         WriteFails(w, k)
  PROVE  QueueStep
<1>0. /\ wpc[w] = "writing" /\ ret[w] + k <= len[w]
      /\ buffer' = [o \in Offset |-> IF o \in Segment(k) THEN Zero ELSE buffer[o]]
      /\ w_off' = orig[w] /\ orig[w] = start[w]
      /\ wpc' = [wpc EXCEPT ![w] = "idle"]
      /\ UNCHANGED <<head, r_off, rpc>>
  BY DEF WriteFails, reader_vars
<1>1. /\ len[w] \in 1 .. MaxPayload /\ ret[w] \in 0 .. len[w] /\ start[w] \in Offset
      /\ \A o \in Offset : o \in Segment(k) <=> Dist(start[w], o) \in ret[w] + 1 .. ret[w] + k
  BY <1>0, SegmentFacts
<1>2. OneWriter /\ Unlocked'
  BY <1>0 DEF RingType, LoggerTypeOK, OneWriter, Unlocked
<1>3. End' = End
  BY <1>0, <1>2, EndFacts, EndNext DEF EndRight
<1>4. Written'
  BY <1>2 DEF Written, Unlocked
<1>5. \A x \in Offset : Dist(start[w], x) > len[w] => buffer'[x] = buffer[x]
  <2>1. ASSUME NEW x \in Offset, Dist(start[w], x) > len[w] PROVE buffer'[x] = buffer[x]
    <3>1. Dist(start[w], x) \notin ret[w] + 1 .. ret[w] + k
      BY <1>0, <1>1, <2>1, RingSizes
    <3> QED BY <1>0, <1>1, <3>1
  <2> QED BY <2>1
<1>6. ASSUME NEW o, MarkOK(o)
      PROVE  (\A s : Holds(o, s) => Holds(o, s)') /\ RoomBehind(o)'
  <2>1. ASSUME NEW s, Holds(o, s) PROVE Holds(o, s)'
    BY <1>0, <1>3, <1>5, <1>6, <2>1, StillHeld
  <2>2. RoomBehind(o)'
    BY <1>2 DEF RoomBehind, Unlocked
  <2> QED BY <2>1, <2>2
<1> QED BY <1>0, <1>4, <1>6, QuietStep

\* The distance to a place further on.
LEMMA DistFurther ==
  ASSUME NEW o \in Offset, NEW e \in Offset, NEW k \in Nat, Dist(o, e) + k < Size
  PROVE  Add(e, k) \in Offset /\ Dist(o, Add(e, k)) = Dist(o, e) + k
<1>1. PICK d \in Offset : d = Dist(o, e)
  BY RingFacts
<1>2. d = (IF o <= e THEN e - o ELSE e + Size - o)
  BY <1>1, RingFacts
<1>3. k \in 0 .. Size /\ d + k < Size
  BY <1>1, RingSizes DEF Offset
<1>4. PICK a \in Offset : a = Add(e, k) /\ a = IF e + k < Size THEN e + k ELSE e + k - Size
  BY <1>3, RingFacts
<1>5. Dist(o, a) = IF o <= a THEN a - o ELSE a + Size - o
  BY RingFacts
<1>6. Dist(o, a) = d + k
  BY <1>2, <1>3, <1>4, <1>5, RingSizes DEF Offset
<1> QED BY <1>1, <1>4, <1>6

\* An entry is complete: it comes after what is held already.
LEMMA DoneMark ==
  ASSUME RingType, RingType', Written, NEW w \in Writer, WriteDone(w), NEW o, MarkOK(o)
  PROVE  MarkOK(o)' /\ EntriesFrom(o)' = Append(EntriesFrom(o), len[w])
<1>0. /\ wpc[w] = "writing" /\ ret[w] = len[w] /\ wpc' = [wpc EXCEPT ![w] = "waking"]
      /\ UNCHANGED <<buffer, w_off, head>>
  BY DEF WriteDone, log_vars
<1>1. /\ End = start[w] /\ o \in Offset /\ start[w] \in Offset
      /\ len[w] \in 1 .. MaxPayload /\ Dist(o, start[w]) + len[w] + 1 < Size
  BY <1>0, WriterMark
<1>2. PICK e \in Offset, l \in 1 .. MaxPayload : e = start[w] /\ l = len[w]
  BY <1>1
<1>3. PICK n \in Nat : n = Dist(o, e) /\ n + l + 1 < Size
  <2>1. PICK n \in Offset : n = Dist(o, e)
    BY <1>1, RingFacts
  <2>2. n + l + 1 < Size
    BY <1>1, <1>2, <2>1
  <2> QED BY <2>1, <2>2, RingSizes DEF Offset
<1>4. l \in Nat /\ l + 1 \in Nat
  BY RingSizes
<1>5. w_off = Add(e, l + 1)
  BY <1>0, <1>2 DEF RingType, WriterOK
<1>6. OneWriter /\ Unlocked'
  BY <1>0 DEF RingType, LoggerTypeOK, OneWriter, Unlocked
<1>7. End' = Add(e, l + 1)
  BY <1>0, <1>5, <1>6, EndNext DEF EndRight
<1>8. Dist(o, Add(e, l + 1)) = n + l + 1
  <2>1. Dist(o, e) + (l + 1) < Size
    BY <1>3, <1>4
  <2>2. Dist(o, Add(e, l + 1)) = Dist(o, e) + (l + 1)
    BY <1>1, <1>4, <2>1, DistFurther
  <2> QED BY <1>3, <1>4, <2>2
<1>9. PICK s, p : Path(buffer, o, n, s, p)
  BY <1>1, <1>2, <1>3 DEF MarkOK, Holds
<1>10. EntriesFrom(o) = s
  BY <1>1, <1>2, <1>3, <1>9, ReadBefore DEF Holds
<1>11. ASSUME NEW k \in 0 .. l PROVE buffer[Add(o, n + k)] = [len |-> l, at |-> k]
  <2>1. buffer[Add(e, k)] = [len |-> l, at |-> k]
    BY <1>0, <1>2 DEF Written
  <2>2. Add(o, n) = e
    BY <1>1, <1>3, AddDist
  <2>3. n \in 0 .. Size /\ k \in 0 .. Size /\ n + k <= Size
    BY <1>3, <1>4, RingSizes
  <2>4. Add(Add(o, n), k) = Add(o, n + k)
    BY <1>1, <2>3, AddAdd
  <2> QED BY <2>1, <2>2, <2>4
<1>12. PICK q : Path(buffer, o, n + l + 1, Append(s, l), q)
  BY <1>1, <1>3, <1>9, <1>11, AppendPath
<1>13. Path(buffer', o, Dist(o, End'), Append(s, l), q)
  BY <1>0, <1>7, <1>8, <1>12
<1>14. Holds(o, Append(s, l))'
  BY <1>13 DEF Holds
<1>15. EntriesFrom(o)' = Append(s, l)
  BY <1>1, <1>14, ReadAfter
<1>16. MarkOK(o)'
  BY <1>1, <1>6, <1>14 DEF MarkOK, RoomBehind, Unlocked
<1> QED BY <1>2, <1>10, <1>15, <1>16

\* The entry becomes readable when its writer gives the mutex back.
LEMMA DoneStep ==
  ASSUME RingType, RingType', RingInv, ~torn, NEW w \in Writer, WriteDone(w)
  PROVE  QueueStep
<1>0. wpc[w] = "writing" /\ UNCHANGED <<head, r_off, rpc, torn>>
  BY DEF WriteDone, log_vars, reader_vars
<1>1. len[w] \in 1 .. MaxPayload
  BY <1>0 DEF RingType, WriterOK
<1>2. Written
  BY DEF RingInv
<1>3. ASSUME NEW o, MarkOK(o)
      PROVE  MarkOK(o)' /\ EntriesFrom(o)' = Append(EntriesFrom(o), len[w])
  BY <1>2, <1>3, DoneMark
<1>4. PICK h : h = head
  OBVIOUS
<1>5. MarkOK(h) /\ h = head' /\ Kept = EntriesFrom(h)
  BY <1>0, <1>4 DEF RingInv, Kept
<1>6. ASSUME NEW r \in Reader, rpc[r] # "closed", NEW x, x = r_off[r]
      PROVE  MarkOK(x) /\ x = r_off'[r] /\ rpc'[r] # "closed" /\ Unread[r] = EntriesFrom(x)
  BY <1>0, <1>6 DEF RingInv, Unread
<1>7. RingInv'
  <2>1. Written'
    BY DEF WriteDone, RingType, LoggerTypeOK, OneWriter, Written
  <2>2. \A x : ~torn' /\ x = head' => MarkOK(x)'
    BY <1>3, <1>5
  <2>3. ASSUME NEW r \in Reader, NEW x, ~torn', rpc'[r] # "closed", x = r_off'[r]
        PROVE  MarkOK(x)'
    <3>1. MarkOK(x)
      BY <1>0, <1>6, <2>3
    <3> QED BY <1>3, <3>1
  <2> QED BY <2>1, <2>2, <2>3, MarksNext
<1>8. Opened' = Opened
  BY <1>0 DEF Opened
<1>9. Kept' = Append(Kept, len[w])
  <2>1. Kept' = EntriesFrom(h)'
    BY <1>5, MarksNext
  <2> QED BY <1>3, <1>5, <2>1
<1>10. Unread' = [r \in Reader |-> IF r \in Opened THEN Append(Unread[r], len[w]) ELSE <<>>]
  <2>1. ASSUME NEW r \in Reader
        PROVE  Unread'[r] = IF r \in Opened THEN Append(Unread[r], len[w]) ELSE <<>>
    <3>1. CASE rpc[r] = "closed"
      <4>1. Unread'[r] = <<>>
        BY <1>0, <3>1, MarksNext
      <4> QED BY <3>1, <4>1 DEF Opened
    <3>2. CASE rpc[r] # "closed"
      <4>1. PICK x : x = r_off[r]
        OBVIOUS
      <4>2. MarkOK(x) /\ x = r_off'[r] /\ rpc'[r] # "closed" /\ Unread[r] = EntriesFrom(x)
        BY <1>6, <3>2, <4>1
      <4>3. Unread'[r] = EntriesFrom(x)'
        BY <4>2, MarksNext
      <4>4. r \in Opened
        BY <3>2 DEF Opened
      <4> QED BY <1>3, <4>2, <4>3, <4>4
    <3> QED BY <3>1, <3>2
  <2>2. Unread' = [r \in Reader |-> Unread'[r]]
    BY DEF Unread
  <2> QED BY <2>1, <2>2
<1> QED BY <1>1, <1>7, <1>8, <1>9, <1>10, QueueSteps DEF QueueStep

\* fix_up_readers puts a mark where what is held ends behind the new entry's last cell.
LEMMA FixedMark ==
  ASSUME RingType, RingType', NEW w \in Writer, do_write_log(w), NEW o, MarkOK(o), NEW x,
         x = IF clock_interval(w_off, logger_offset(w_off + (len[w] + 1)), o)
             THEN get_next_entry(o, len[w] + 1) ELSE o
  PROVE  MarkOK(x)' /\ EntriesFrom(x)' \in Queue!Suffixes(EntriesFrom(o))
<1>0. /\ wpc[w] = "begun" /\ Unlocked /\ wpc' = [wpc EXCEPT ![w] = "writing"]
      /\ buffer' = [buffer EXCEPT ![w_off] = [len |-> len[w], at |-> 0]]
      /\ start' = [start EXCEPT ![w] = w_off]
      /\ UNCHANGED <<rpc, orig, len, ret, torn>>
  BY DEF do_write_log
<1>1. o \in Offset /\ w_off \in Offset /\ End = w_off /\ BufferOK
  BY <1>0, EndFacts, EndType DEF EndRight, EndTyped, MarkOK, RingType, LoggerTypeOK
<1>2. PICK e \in Offset : e = w_off
  BY <1>1
<1>3. PICK l \in 1 .. MaxPayload : l = len[w]
  BY <1>0 DEF RingType, WriterOK
<1>4. PICK n \in 1 .. MaxPayload + 1 : n = l + 1 /\ n = len[w] + 1 /\ l \in Nat
  BY <1>3, RingSizes
<1>5. PICK d \in Nat : d = Dist(o, e) /\ d < Size
  BY <1>1, RingFacts, RingSizes DEF Offset
<1>6. PICK s, p : Path(buffer, o, d, s, p)
  BY <1>1, <1>2, <1>5 DEF MarkOK, Holds
<1>7. EntriesFrom(o) = s /\ s \in Seq(Nat) /\ Len(s) \in Nat /\ p[0] = 0
  <2>1. EntriesFrom(o) = s
    BY <1>1, <1>2, <1>5, <1>6, ReadBefore DEF Holds
  <2>2. s \in Seq(1 .. MaxPayload) /\ p[0] = 0
    BY <1>6 DEF Path
  <2> QED BY <2>1, <2>2, RingSizes
<1>8. \E j \in 0 .. Len(s) : x = Add(o, p[j]) /\ (d - p[j]) + n < Size
  <2>1. IF clock_interval(e, Add(e, n), o) THEN n \in 1 .. d ELSE d + n < Size
    BY <1>1, <1>5, LapFacts
  <2>2. x = IF clock_interval(e, Add(e, n), o) THEN get_next_entry(o, n) ELSE o
    BY <1>2, <1>4 DEF Add
  <2>3. CASE clock_interval(e, Add(e, n), o)
    <3>1. n \in 1 .. d
      BY <2>1, <2>3
    <3>2. PICK j \in 1 .. Len(s) : p[j] >= n /\ get_next_entry(o, n) = Add(o, p[j])
      BY <1>1, <1>6, <3>1, NextPath
    <3>3. j \in 0 .. Len(s)
      BY <1>7
    <3>4. p[j] \in 0 .. d
      BY <1>1, <1>6, <3>3, DropPath
    <3>5. (d - p[j]) + n < Size
      BY <1>4, <1>5, <3>2, <3>4, RingSizes
    <3> QED BY <2>2, <2>3, <3>2, <3>3, <3>5
  <2>4. CASE ~clock_interval(e, Add(e, n), o)
    <3>1. x = o /\ d + n < Size
      BY <2>1, <2>2, <2>4
    <3>2. Add(o, 0) = o
      <4>1. 0 \in 0 .. Size
        BY RingSizes
      <4>2. Add(o, 0) = IF o + 0 < Size THEN o + 0 ELSE o + 0 - Size
        BY <1>1, <4>1, RingFacts
      <4> QED BY <1>1, <4>2, RingSizes DEF Offset
    <3>3. 0 \in 0 .. Len(s) /\ d - 0 = d
      BY <1>5, <1>7
    <3> QED BY <1>7, <3>1, <3>2, <3>3
  <2> QED BY <2>3, <2>4
<1>9. PICK j \in 0 .. Len(s) : x = Add(o, p[j]) /\ (d - p[j]) + n < Size
  BY <1>8
<1>10. p[j] \in 0 .. d /\ \E q : Path(buffer, x, d - p[j], DropFirst(s, j), q)
  <2>1. p[j] \in 0 .. d /\ \E q : Path(buffer, Add(o, p[j]), d - p[j], DropFirst(s, j), q)
    BY <1>1, <1>6, DropPath
  <2> QED BY <1>9, <2>1
<1>11. x \in Offset /\ Dist(x, e) = d - p[j]
  BY <1>1, <1>5, <1>9, <1>10, DistAdd
<1>12. Dist(x, e) + l + 1 < Size
  <2>1. PICK c \in Nat : c = d - p[j]
    BY <1>5, <1>10
  <2>2. c + n < Size /\ Dist(x, e) = c
    BY <1>9, <1>11, <2>1
  <2> QED BY <1>4, <2>1, <2>2, RingSizes
<1>13. PICK q : Path(buffer, x, Dist(x, e), DropFirst(s, j), q)
  BY <1>10, <1>11
<1>14. \A y \in Offset : Dist(e, y) > l => buffer'[y] = buffer[y]
  <2>1. ASSUME NEW y \in Offset, Dist(e, y) > l PROVE buffer'[y] = buffer[y]
    <3>1. Dist(e, e) = 0
      BY DistSelf
    <3>2. y # w_off
      BY <1>2, <1>4, <2>1, <3>1
    <3> QED BY <1>0, <1>1, <3>2 DEF BufferOK
  <2> QED BY <2>1
<1>15. PICK b, c : b = buffer /\ c = buffer'
  OBVIOUS
<1>16. Path(c, x, Dist(x, e), DropFirst(s, j), q)
  <2>1. Path(b, x, Dist(x, e), DropFirst(s, j), q) /\ \A y \in Offset : Dist(e, y) > l => c[y] = b[y]
    BY <1>13, <1>14, <1>15
  <2> QED BY <1>4, <1>11, <1>12, <2>1, OutOfReach
<1>17. OneWriter' /\ wpc'[w] = "writing" /\ start'[w] = e /\ End' = e
  <2>1. OneWriter' /\ wpc'[w] = "writing" /\ start'[w] = e
    BY <1>0, <1>2 DEF RingType, LoggerTypeOK
  <2> QED BY <2>1, EndNext DEF EndRight
<1>18. Holds(x, DropFirst(s, j))'
  BY <1>15, <1>16, <1>17 DEF Holds
<1>19. RoomBehind(x)'
  <2> SUFFICES ASSUME NEW v \in Writer, wpc'[v] = "writing"
               PROVE  Dist(x, start'[v]) + len'[v] + 1 < Size
    BY DEF RoomBehind
  <2>1. v = w
    BY <1>17 DEF OneWriter
  <2> QED BY <1>0, <1>3, <1>12, <1>17, <2>1
<1>20. MarkOK(x)'
  BY <1>11, <1>18, <1>19 DEF MarkOK
<1>21. EntriesFrom(x)' = DropFirst(s, j)
  BY <1>11, <1>18, ReadAfter
<1> QED BY <1>7, <1>20, <1>21, DropFirstSuffix

\* A writer takes the mutex: the marks that its entry reaches lose their oldest entries.
LEMMA TakeStep ==
  ASSUME RingType, RingType', RingInv, ~torn, NEW w \in Writer, do_write_log(w)
  PROVE  QueueStep
<1> DEFINE Fixed(o) == IF clock_interval(w_off, logger_offset(w_off + (len[w] + 1)), o)
                       THEN get_next_entry(o, len[w] + 1) ELSE o
<1>0. /\ wpc[w] = "begun" /\ Unlocked /\ wpc' = [wpc EXCEPT ![w] = "writing"]
      /\ buffer' = [buffer EXCEPT ![w_off] = [len |-> len[w], at |-> 0]]
      /\ start' = [start EXCEPT ![w] = w_off]
      /\ UNCHANGED <<rpc, orig, len, ret, torn>>
  BY DEF do_write_log
<1>1. /\ head' = Fixed(head)
      /\ \A r \in Reader : rpc[r] # "closed" => r_off'[r] = Fixed(r_off[r])
  BY DEF do_write_log, fix_up_readers
<1>2. ASSUME NEW o, MarkOK(o), NEW x, x = Fixed(o)
      PROVE  MarkOK(x)' /\ EntriesFrom(x)' \in Queue!Suffixes(EntriesFrom(o))
  BY <1>2, FixedMark
<1> HIDE DEF Fixed
<1>3. PICK h, x : h = head /\ x = head' /\ x = Fixed(h)
  BY <1>1
<1>4. MarkOK(h) /\ Kept = EntriesFrom(h)
  BY <1>3 DEF RingInv, Kept
<1>5. MarkOK(x)' /\ EntriesFrom(x)' \in Queue!Suffixes(EntriesFrom(h))
  BY <1>2, <1>3, <1>4
<1>6. ASSUME NEW r \in Reader, rpc[r] # "closed", NEW y, y = r_off'[r]
      PROVE  MarkOK(y)' /\ EntriesFrom(y)' \in Queue!Suffixes(Unread[r])
  <2>1. PICK o : o = r_off[r]
    OBVIOUS
  <2>2. MarkOK(o) /\ Unread[r] = EntriesFrom(o) /\ y = Fixed(o)
    BY <1>1, <1>6, <2>1 DEF RingInv, Unread
  <2> QED BY <1>2, <2>2
<1>7. Written'
  <2> SUFFICES ASSUME NEW v \in Writer, wpc'[v] = "writing", NEW i \in 0 .. ret'[v]
               PROVE  buffer'[Add(start'[v], i)] = [len |-> len'[v], at |-> i]
    BY DEF Written
  <2>1. wpc'[w] = "writing" /\ start'[w] = w_off /\ w_off \in Offset
    BY <1>0 DEF RingType, LoggerTypeOK
  <2>2. v = w
    BY <2>1 DEF RingType, OneWriter
  <2>3. ret[w] = 0
    BY <1>0 DEF RingType, WriterOK
  <2>4. i = 0
    BY <1>0, <2>2, <2>3
  <2>5. Add(w_off, 0) = w_off
    <3>1. PICK e \in Offset : e = w_off
      BY <2>1
    <3>2. 0 \in 0 .. Size
      BY RingSizes
    <3>3. Add(e, 0) = IF e + 0 < Size THEN e + 0 ELSE e + 0 - Size
      BY <3>2, RingFacts
    <3>4. Add(e, 0) = e
      BY <3>3, RingSizes DEF Offset
    <3> QED BY <3>1, <3>4
  <2>6. buffer'[w_off] = [len |-> len[w], at |-> 0]
    BY <1>0, <2>1 DEF RingType, LoggerTypeOK
  <2> QED BY <1>0, <2>1, <2>2, <2>4, <2>5, <2>6
<1>8. RingInv'
  <2>1. \A y : ~torn' /\ y = head' => MarkOK(y)'
    BY <1>3, <1>5
  <2>2. ASSUME NEW r \in Reader, NEW y, ~torn', rpc'[r] # "closed", y = r_off'[r]
        PROVE  MarkOK(y)'
    BY <1>0, <1>6, <2>2
  <2> QED BY <1>7, <2>1, <2>2, MarksNext
<1>9. Opened' = Opened
  BY <1>0 DEF Opened
<1>10. Kept' \in Queue!Suffixes(Kept)
  <2>1. Kept' = EntriesFrom(x)'
    BY <1>3, MarksNext
  <2> QED BY <1>4, <1>5, <2>1
<1>11. ASSUME NEW r \in Reader PROVE Unread'[r] \in Queue!Suffixes(Unread[r])
  <2>1. CASE rpc[r] = "closed"
    <3>1. Unread[r] = <<>>
      BY <2>1 DEF Unread
    <3>2. Unread'[r] = <<>>
      BY <1>0, <2>1, MarksNext
    <3>3. DropFirst(<<>>, 0) \in Queue!Suffixes(<<>>) /\ DropFirst(<<>>, 0) = <<>>
      <4>1. <<>> \in Seq(Nat) /\ 0 \in 0 .. Len(<<>>)
        OBVIOUS
      <4>2. DropFirst(<<>>, 0) = <<>>
        BY DEF DropFirst
      <4> QED BY <4>1, <4>2, DropFirstSuffix
    <3> QED BY <3>1, <3>2, <3>3
  <2>2. CASE rpc[r] # "closed"
    <3>1. PICK y : y = r_off'[r]
      OBVIOUS
    <3>2. Unread'[r] = EntriesFrom(y)'
      BY <1>0, <2>2, <3>1, MarksNext
    <3> QED BY <1>6, <2>2, <3>1, <3>2
  <2> QED BY <2>1, <2>2
<1> QED BY <1>8, <1>9, <1>10, <1>11, QueueSteps DEF QueueStep

\* Every step of the log that leaves it whole is a step of the queue.
LEMMA LogStep ==
  ASSUME RingType, RingType', RingInv, [LoggerNext]_logger_vars
  PROVE  RingInv' /\ (torn' \/ Queue!QueueNext \/ UNCHANGED Queue!queue_vars)
<1>1. CASE torn'
  BY <1>1 DEF RingInv
<1>2. CASE ~torn'
  <2>1. ~torn
    <3>1. torn \in BOOLEAN
      BY DEF RingType, LoggerTypeOK
    <3>2. ASSUME NEW w \in Writer, NEW k \in 1 .. MaxPayload, WriteFails(w, k) PROVE ~torn
      BY <1>2, <3>1, <3>2 DEF WriteFails
    <3>3. CASE \A w \in Writer : \A k \in 1 .. MaxPayload : ~WriteFails(w, k)
      <4>1. torn' = torn
        BY <3>3 DEF LoggerNext, ReaderStep, WriterStep, Flush, logger_open, logger_release,
           logger_read, CheckEmpty, Interrupted, ReadRaced, do_read_log_to_user, logger_aio_write,
           do_write_log, do_write_log_from_user, WriteDone, wake_up_interruptible, logger_vars
      <4> QED BY <1>2, <4>1
    <3> QED BY <3>2, <3>3
  <2>2. ASSUME NEW w \in Writer, WriterStep(w) PROVE QueueStep
    <3>1. CASE do_write_log(w)
      BY <2>1, <3>1, TakeStep
    <3>2. ASSUME NEW k \in 1 .. MaxPayload, do_write_log_from_user(w, k) PROVE QueueStep
      BY <2>1, <3>2, CopyStep
    <3>3. ASSUME NEW k \in 1 .. MaxPayload, WriteFails(w, k) PROVE QueueStep
      BY <1>2, <2>1, <3>3, FailStep
    <3>4. CASE WriteDone(w)
      BY <2>1, <3>4, DoneStep
    <3>5. CASE (\E n \in 1 .. MaxPayload : logger_aio_write(w, n)) \/ wake_up_interruptible(w)
      BY <2>1, <3>5, IdleSteps
    <3> QED BY <2>2, <3>1, <3>2, <3>3, <3>4, <3>5 DEF WriterStep
  <2>3. ASSUME NEW r \in Reader, ReaderStep(r) PROVE QueueStep
    <3>1. CASE logger_open(r)
      BY <2>1, <3>1, OpenStep
    <3>2. CASE logger_release(r)
      BY <2>1, <3>2, CloseStep
    <3>3. CASE do_read_log_to_user(r)
      BY <2>1, <3>3, ReadStep
    <3>4. CASE logger_read(r) \/ CheckEmpty(r) \/ Interrupted(r) \/ ReadRaced(r)
      BY <2>1, <3>4, IdleSteps
    <3> QED BY <2>3, <3>1, <3>2, <3>3, <3>4 DEF ReaderStep
  <2>4. ASSUME Flush PROVE QueueStep
    BY <2>1, <2>4, FlushStep
  <2>5. ASSUME UNCHANGED logger_vars PROVE QueueStep
    BY <2>1, <2>5, IdleSteps
  <2>6. QueueStep
    BY <2>2, <2>3, <2>4, <2>5 DEF LoggerNext
  <2> QED BY <2>6 DEF QueueStep
<1>3. torn' \in BOOLEAN
  BY DEF RingType, LoggerTypeOK
<1> QED BY <1>1, <1>2, <1>3

\* A new log is an empty queue.
LEMMA LogStart == LoggerInit => RingType /\ RingInv /\ Queue!QueueInit
<1> SUFFICES ASSUME LoggerInit PROVE RingType /\ RingInv /\ Queue!QueueInit
  OBVIOUS
<1>1. RingType
  BY InitRingType
<1>2. Unlocked /\ w_off = 0 /\ head = 0 /\ \A r \in Reader : rpc[r] = "closed"
  BY DEF LoggerInit, Unlocked
<1>3. End = 0 /\ 0 \in Offset /\ Dist(0, 0) = 0
  BY <1>2, EndFacts, OffsetType, DistSelf DEF EndRight
<1>4. Holds(0, <<>>)
  <2>1. PICK p : Path(buffer, 0, 0, <<>>, p)
    BY <1>3, EmptyPath
  <2> QED BY <1>3, <2>1 DEF Holds
<1>5. MarkOK(0) /\ Written
  BY <1>2, <1>3, <1>4 DEF MarkOK, RoomBehind, Written, Unlocked
<1>6. RingInv
  BY <1>2, <1>5 DEF RingInv
<1>7. EntriesFrom(0) = <<>>
  BY <1>1, <1>3, <1>4, ReadBefore
<1>8. EntriesFrom(head) = <<>>
  BY <1>2, <1>7
<1>9. Queue!QueueInit
  BY <1>2, <1>8 DEF Queue!QueueInit
<1> QED BY <1>1, <1>6, <1>9

\* RingInv holds in every reachable state.
THEOREM RingInvariant == LoggerSpec => [](RingType /\ RingInv)
<1>1. RingType /\ RingInv /\ [LoggerNext]_logger_vars => RingType' /\ RingInv'
  BY NextRingType, LogStep
<1> QED BY <1>1, LogStart, PTL DEF LoggerSpec

\* However writers, readers and failed writes interleave, the log is a queue of whole
\* entries that only loses its oldest ones, until a failed write takes w_off to where it
\* was before the writer had the mutex.
THEOREM LogIsQueue == LoggerSpec => QueueUntilTorn
<1>1. LoggerInit => Queue!QueueInit
  BY LogStart
<1>2. RingType /\ RingInv /\ RingType' /\ [LoggerNext]_logger_vars
      => [torn' \/ Queue!QueueNext]_(Queue!queue_vars)
  BY LogStep
<1> QED BY <1>1, <1>2, RingInvariant, PTL DEF LoggerSpec, QueueUntilTorn

-----------------------------------------------------------------------------
(***************************************************************************)
(* Shared memory.                                                          *)
(***************************************************************************)

\* The ranges of area a that can exist; an empty one ends just before it starts.
RangesOf(a) == {r \in AshmemRange : r.asma = a /\ r.pgstart <= r.pgend + 1}

NonEmpty(r) == r.pgstart <= r.pgend

\* The ranges of q do not overlap and are sorted from the last page to the first.
Descending(q) == \A i, j \in 1 .. Len(q) : i < j => q[i].pgstart > q[j].pgend

-----------------------------------------------------------------------------
(* Which ranges a request touches.                                         *)

\* The fields of a range.
LEMMA RangeType ==
  ASSUME NEW a \in Area, NEW r \in RangesOf(a)
  PROVE  /\ r.pgstart \in Nat /\ r.pgend \in Nat /\ r.purged \in BOOLEAN /\ r.asma = a
         /\ r.pgstart <= r.pgend + 1 /\ r \in AshmemRange
BY DEF RangesOf, AshmemRange, Page

\* The walk stops where all ranges that follow end before page s.
LEMMA ApplicableFacts ==
  ASSUME NEW a \in Area, NEW q \in Seq(RangesOf(a)), Descending(q), NEW s \in Nat
  PROVE  \A i : i \in 1 .. Applicable(q, s) <=> i \in 1 .. Len(q) /\ q[i].pgend >= s
<1> DEFINE B == {i \in 1 .. Len(q) : range_before_page(q[i], s)}
<1>0. Len(q) \in Nat /\ \A i \in 1 .. Len(q) : q[i] \in RangesOf(a)
  OBVIOUS
<1>1. \A i \in 1 .. Len(q) : /\ q[i].pgstart \in Nat /\ q[i].pgend \in Nat
                             /\ q[i].pgstart <= q[i].pgend + 1
  BY <1>0, RangeType
<1>2. Applicable(q, s) = IF B = {} THEN Len(q) ELSE Min(B) - 1
  BY DEF Applicable
<1>3. CASE B = {}
  <2>1. \A i \in 1 .. Len(q) : q[i].pgend >= s
    BY <1>1, <1>3 DEF range_before_page
  <2> QED BY <1>2, <1>3, <2>1
<1>4. CASE B # {}
  <2>1. B \in SUBSET Nat
    BY <1>0
  <2>2. Min(B) \in B /\ \A y \in B : Min(B) <= y
    <3> HIDE DEF B
    <3> QED BY <1>4, <2>1, MinFacts
  <2> DEFINE m == Min(B)
  <2>3. m \in 1 .. Len(q) /\ q[m].pgend < s /\ Applicable(q, s) = m - 1
    BY <1>2, <1>4, <2>2 DEF range_before_page
  <2>4. \A i \in 1 .. Len(q) : q[i].pgend < s => m <= i
    BY <2>2 DEF range_before_page
  <2> HIDE DEF m, B
  <2>5. ASSUME NEW i \in 1 .. Len(q), m <= i PROVE q[i].pgend < s
    <3>1. CASE m = i
      BY <2>3, <3>1
    <3>2. CASE m < i
      <4>1. q[m].pgstart > q[i].pgend
        BY <2>3, <3>2 DEF Descending
      <4> QED BY <1>1, <2>3, <4>1
    <3> QED BY <1>0, <2>3, <2>5, <3>1, <3>2
  <2> QED BY <1>0, <1>1, <2>3, <2>4, <2>5
<1> QED BY <1>3, <1>4

Hits(a, s, e) == {unpinned_list[a][i] : i \in Touched(a, s, e)}

\* The ranges touched, as a set.
LEMMA HitsFacts ==
  ASSUME NEW a \in Area, NEW s \in Nat, NEW e \in Nat,
         unpinned_list[a] \in Seq(RangesOf(a)), Descending(unpinned_list[a])
  PROVE  Hits(a, s, e) = {r \in ToSet(unpinned_list[a]) :
                            r.pgend >= s /\ page_range_in_range(r, s, e)}
<1> DEFINE q == unpinned_list[a]
           H == {r \in ToSet(q) : r.pgend >= s /\ page_range_in_range(r, s, e)}
<1>1. \A i : i \in 1 .. Applicable(q, s) <=> i \in 1 .. Len(q) /\ q[i].pgend >= s
  BY ApplicableFacts
<1>2. Touched(a, s, e) = {i \in 1 .. Applicable(q, s) : page_range_in_range(q[i], s, e)}
  BY DEF Touched
<1>3. ToSet(q) = {q[i] : i \in 1 .. Len(q)}
  BY DEF ToSet
<1> HIDE DEF q
<1>4. \A i : i \in Touched(a, s, e) <=> /\ i \in 1 .. Len(q)
                                        /\ q[i].pgend >= s /\ page_range_in_range(q[i], s, e)
  BY <1>1, <1>2
<1>5. Hits(a, s, e) = {q[i] : i \in Touched(a, s, e)}
  BY DEF Hits, q
<1>6. ASSUME NEW r \in Hits(a, s, e) PROVE r \in H
  BY <1>3, <1>4, <1>5
<1>7. ASSUME NEW r \in H PROVE r \in Hits(a, s, e)
  <2>1. PICK i \in 1 .. Len(q) : r = q[i]
    BY <1>3
  <2> QED BY <1>4, <1>5, <2>1
<1> QED BY <1>6, <1>7 DEF q

\* Two different ranges of a list do not overlap.
LEMMA Disjoint ==
  ASSUME NEW a \in Area, NEW q \in Seq(RangesOf(a)), Descending(q),
         NEW r \in ToSet(q), NEW x \in ToSet(q), r # x
  PROVE  r.pgstart > x.pgend \/ x.pgstart > r.pgend
<1>1. PICK i \in 1 .. Len(q) : r = q[i]
  BY DEF ToSet
<1>2. PICK j \in 1 .. Len(q) : x = q[j]
  BY DEF ToSet
<1>3. Len(q) \in Nat
  OBVIOUS
<1>4. i < j \/ j < i
  BY <1>1, <1>2, <1>3
<1> QED BY <1>1, <1>2, <1>4 DEF Descending

\* Where the ranges are that a request does not touch.
LEMMA MissedFacts ==
  ASSUME NEW a \in Area, NEW s \in Nat, NEW e \in Nat, s <= e + 1,
         unpinned_list[a] \in Seq(RangesOf(a)), Descending(unpinned_list[a]),
         s = e + 1 => \A r \in ToSet(unpinned_list[a]) : r.pgend < s,
         NEW r \in ToSet(unpinned_list[a]), r \notin Hits(a, s, e)
  PROVE  \/ r.pgend < s /\ \A h \in Hits(a, s, e) : r.pgend < h.pgstart
         \/ r.pgstart > e /\ \A h \in Hits(a, s, e) : r.pgstart > h.pgend
<1> DEFINE q == unpinned_list[a]
<1>0. \A x \in ToSet(q) : x \in RangesOf(a)
  BY DEF ToSet
<1>1. \A x \in ToSet(q) : x.pgstart \in Nat /\ x.pgend \in Nat /\ x.pgstart <= x.pgend + 1
  BY <1>0, RangeType
<1>2. \A x \in ToSet(q) : x \in Hits(a, s, e) <=> x.pgend >= s /\ page_range_in_range(x, s, e)
  BY HitsFacts
<1>3. Hits(a, s, e) \subseteq ToSet(q)
  BY HitsFacts
<1>4. \A h \in Hits(a, s, e) : r.pgstart > h.pgend \/ h.pgstart > r.pgend
  BY <1>3, Disjoint
<1> HIDE DEF q
<1>5. r \in ToSet(q)
  BY DEF q
<1>6. CASE r.pgend < s
  <2>1. ASSUME NEW h \in Hits(a, s, e) PROVE r.pgend < h.pgstart
    <3>1. h.pgend >= s
      BY <1>2, <1>3
    <3> QED BY <1>1, <1>3, <1>4, <1>5, <1>6, <3>1
  <2> QED BY <1>6, <2>1
<1>7. CASE r.pgend >= s
  <2>1. s <= e
    BY <1>1, <1>5, <1>7 DEF q
  <2>2. ~page_range_in_range(r, s, e)
    BY <1>2, <1>5, <1>7
  <2>3. r.pgstart > e
    BY <1>1, <1>5, <1>7, <2>1, <2>2
       DEF page_range_in_range, page_in_range, page_range_subsumes_range
  <2>4. ASSUME NEW h \in Hits(a, s, e) PROVE r.pgstart > h.pgend
    <3>1. page_range_in_range(h, s, e) /\ h \in ToSet(q)
      BY <1>2, <1>3
    <3>2. r.pgend > e
      BY <1>1, <1>5, <1>7, <2>1, <2>2, <2>3
         DEF page_range_in_range, page_in_range, page_range_subsumes_range
    <3> QED BY <1>1, <1>4, <1>5, <2>1, <2>3, <3>1, <3>2
        DEF page_range_in_range, page_in_range, page_range_subsumes_range
  <2> QED BY <2>3, <2>4
<1> QED BY <1>1, <1>5, <1>6, <1>7

-----------------------------------------------------------------------------
(* Lists that stay sorted.                                                 *)

\* Taking ranges off a list.
LEMMA DescendingWithout ==
  ASSUME NEW A, NEW q \in Seq(A), Descending(q), NEW X
  PROVE  Descending(Without(q, X))
<1> DEFINE F == Without(q, X)
<1>1. PICK src : Filtered(F, q, X, src)
  BY WithoutFacts
<1> HIDE DEF F
<1>2. ASSUME NEW i \in 1 .. Len(F), NEW j \in 1 .. Len(F), i < j
      PROVE  F[i].pgstart > F[j].pgend
  <2>1. /\ src[i] \in 1 .. Len(q) /\ src[j] \in 1 .. Len(q) /\ src[i] < src[j]
        /\ F[i] = q[src[i]] /\ F[j] = q[src[j]]
    BY <1>1, <1>2 DEF Filtered
  <2> QED BY <2>1 DEF Descending
<1> QED BY <1>2 DEF Descending, F

\* Putting one list before another whose ranges are all below.
LEMMA DescendingConcat ==
  ASSUME NEW A, NEW q \in Seq(A), NEW t \in Seq(A), Descending(q), Descending(t),
         \A x \in ToSet(q), y \in ToSet(t) : x.pgstart > y.pgend
  PROVE  Descending(q \o t)
<1> DEFINE c == q \o t
<1>1. /\ Len(c) = Len(q) + Len(t) /\ Len(q) \in Nat /\ Len(t) \in Nat
      /\ \A i \in 1 .. Len(q) : c[i] = q[i]
      /\ \A i \in 1 .. Len(t) : c[Len(q) + i] = t[i]
  OBVIOUS
<1>2. /\ \A i \in 1 .. Len(q) : q[i] \in ToSet(q)
      /\ \A i \in 1 .. Len(t) : t[i] \in ToSet(t)
  BY DEF ToSet
<1> HIDE DEF c
<1>3. ASSUME NEW i \in 1 .. Len(c), NEW j \in 1 .. Len(c), i < j
      PROVE  c[i].pgstart > c[j].pgend
  <2>1. CASE j <= Len(q)
    <3>1. i \in 1 .. Len(q) /\ j \in 1 .. Len(q) /\ c[i] = q[i] /\ c[j] = q[j]
      BY <1>1, <1>3, <2>1
    <3> QED BY <1>3, <3>1 DEF Descending
  <2>2. CASE i <= Len(q) /\ j > Len(q)
    <3>1. /\ i \in 1 .. Len(q) /\ j - Len(q) \in 1 .. Len(t)
          /\ c[i] = q[i] /\ c[j] = t[j - Len(q)]
      <4>1. j - Len(q) \in 1 .. Len(t) /\ Len(q) + (j - Len(q)) = j
        BY <1>1, <2>2
      <4>2. i \in 1 .. Len(q)
        BY <1>1, <2>2
      <4> QED BY <1>1, <4>1, <4>2
    <3> QED BY <1>2, <3>1
  <2>3. CASE i > Len(q)
    <3>1. /\ i - Len(q) \in 1 .. Len(t) /\ j - Len(q) \in 1 .. Len(t) /\ i - Len(q) < j - Len(q)
          /\ c[i] = t[i - Len(q)] /\ c[j] = t[j - Len(q)]
      BY <1>1, <1>3, <2>3
    <3> QED BY <3>1 DEF Descending
  <2> QED BY <1>1, <2>1, <2>2, <2>3
<1> QED BY <1>3 DEF Descending, c

\* Replacing every range by a sorted list of parts of it.
LEMMA DescendingPieces ==
  ASSUME NEW a \in Area, NEW q \in Seq(RangesOf(a)), Descending(q),
         NEW ss \in Seq(Seq(RangesOf(a))), Len(ss) = Len(q),
         \A i \in 1 .. Len(q) :
           /\ Descending(ss[i])
           /\ \A j \in 1 .. Len(ss[i]) :
                q[i].pgstart <= ss[i][j].pgstart /\ ss[i][j].pgend <= q[i].pgend
  PROVE  FlattenSeq(ss) \in Seq(RangesOf(a)) /\ Descending(FlattenSeq(ss))
<1> DEFINE F == FlattenSeq(ss)
<1>1. F \in Seq(RangesOf(a))
  BY FlattenFacts
<1>2. PICK src, off : Flattened(F, ss, Len(ss), src, off)
  BY FlattenFacts
<1>3. Len(q) \in Nat /\ \A i \in 1 .. Len(q) : q[i] \in RangesOf(a) /\ ss[i] \in Seq(RangesOf(a))
  OBVIOUS
<1>4. \A i \in 1 .. Len(q) :
        /\ q[i].pgstart \in Nat /\ q[i].pgend \in Nat
        /\ \A j \in 1 .. Len(ss[i]) : ss[i][j].pgstart \in Nat /\ ss[i][j].pgend \in Nat
  <2>1. SUFFICES ASSUME NEW i \in 1 .. Len(q)
                 PROVE  /\ q[i].pgstart \in Nat /\ q[i].pgend \in Nat
                        /\ \A j \in 1 .. Len(ss[i]) : ss[i][j].pgstart \in Nat /\ ss[i][j].pgend \in Nat
    OBVIOUS
  <2>2. \A j \in 1 .. Len(ss[i]) : ss[i][j] \in RangesOf(a)
    BY <1>3
  <2> QED BY <1>3, <2>2, RangeType
<1> HIDE DEF F
<1>5. ASSUME NEW k \in 1 .. Len(F), NEW l \in 1 .. Len(F), k < l
      PROVE  F[k].pgstart > F[l].pgend
  <2>1. /\ src[k] \in 1 .. Len(q) /\ off[k] \in 1 .. Len(ss[src[k]]) /\ F[k] = ss[src[k]][off[k]]
        /\ src[l] \in 1 .. Len(q) /\ off[l] \in 1 .. Len(ss[src[l]]) /\ F[l] = ss[src[l]][off[l]]
        /\ src[k] < src[l] \/ (src[k] = src[l] /\ off[k] < off[l])
    BY <1>2, <1>5 DEF Flattened
  <2>2. CASE src[k] < src[l]
    <3>1. q[src[k]].pgstart > q[src[l]].pgend
      BY <2>1, <2>2 DEF Descending
    <3>2. q[src[k]].pgstart <= F[k].pgstart /\ F[l].pgend <= q[src[l]].pgend
      BY <2>1
    <3>3. /\ q[src[k]].pgstart \in Nat /\ q[src[l]].pgend \in Nat
          /\ F[k].pgstart \in Nat /\ F[l].pgend \in Nat
      BY <1>4, <2>1
    <3>4. \A u, v, x, y \in Nat : u > v /\ u <= x /\ y <= v => x > y
      OBVIOUS
    <3> QED BY <3>1, <3>2, <3>3, <3>4
  <2>3. CASE src[k] = src[l] /\ off[k] < off[l]
    <3>1. Descending(ss[src[k]])
      BY <2>1
    <3>2. off[k] \in 1 .. Len(ss[src[k]]) /\ off[l] \in 1 .. Len(ss[src[k]]) /\ off[k] < off[l]
          /\ F[k] = ss[src[k]][off[k]] /\ F[l] = ss[src[k]][off[l]]
      BY <2>1, <2>3
    <3> QED BY <3>1, <3>2 DEF Descending
  <2> QED BY <2>1, <2>2, <2>3
<1> QED BY <1>1, <1>5 DEF Descending, F

-----------------------------------------------------------------------------
(* What ashmem_pin leaves.                                                 *)

\* Of a range r, if H are the ranges touched.
PinUpper(H, r, s, e, alloc) ==
  IF alloc /\ r \in {x \in H : Hole(x, s, e)} THEN <<Upper(r, e)>> ELSE <<>>
PinRest(H, r, s, e) == IF r \in H THEN Remainder(r, s, e) ELSE <<r>>
PinPiece(H, r, s, e, alloc) == PinUpper(H, r, s, e, alloc) \o PinRest(H, r, s, e)

\* Of the list q.
PinPieces(q, H, s, e, alloc) == [i \in 1 .. Len(q) |-> PinPiece(H, q[i], s, e, alloc)]
PinList(q, H, s, e, alloc) == FlattenSeq(PinPieces(q, H, s, e, alloc))

\* A range that is touched: the request is not empty and meets it.
Meets(r, s, e) == s <= e /\ r.pgend >= s /\ page_range_in_range(r, s, e)

\* The parts that ashmem_pin makes of a range.
LEMMA PartsType ==
  ASSUME NEW a \in Area, NEW r \in RangesOf(a), NEW s \in Nat, NEW e \in Nat, Meets(r, s, e)
  PROVE  /\ r.pgend > e => /\ Upper(r, e) \in RangesOf(a) /\ NonEmpty(Upper(r, e))
                           /\ Upper(r, e).pgstart = e + 1 /\ Upper(r, e).pgend = r.pgend
                           /\ Upper(r, e).purged = r.purged /\ r.pgstart <= e + 1
         /\ r.pgstart < s => /\ Lower(r, s) \in RangesOf(a) /\ NonEmpty(Lower(r, s))
                             /\ Lower(r, s).pgstart = r.pgstart /\ Lower(r, s).pgend = s - 1
                             /\ Lower(r, s).purged = r.purged
<1>1. r.pgstart \in Nat /\ r.pgend \in Nat /\ r.pgstart <= r.pgend + 1 /\ r \in AshmemRange
  BY RangeType
<1>2. r.asma = a
  BY RangeType
<1>3. ASSUME r.pgend > e
      PROVE  /\ Upper(r, e) \in RangesOf(a) /\ NonEmpty(Upper(r, e))
             /\ Upper(r, e).pgstart = e + 1 /\ Upper(r, e).pgend = r.pgend
             /\ Upper(r, e).purged = r.purged /\ r.pgstart <= e + 1
  <2>1. /\ Upper(r, e) \in AshmemRange /\ Upper(r, e).pgstart = e + 1
        /\ Upper(r, e).pgend = r.pgend /\ Upper(r, e).asma = a /\ Upper(r, e).purged = r.purged
    BY <1>1, <1>2 DEF Upper, AshmemRange, Page
  <2>2. r.pgstart <= e + 1
    BY <1>1, <1>3 DEF Meets, page_range_in_range, page_in_range, page_range_subsumes_range
  <2> QED BY <1>1, <1>3, <2>1, <2>2 DEF RangesOf, NonEmpty
<1>4. ASSUME r.pgstart < s
      PROVE  /\ Lower(r, s) \in RangesOf(a) /\ NonEmpty(Lower(r, s))
             /\ Lower(r, s).pgstart = r.pgstart /\ Lower(r, s).pgend = s - 1
             /\ Lower(r, s).purged = r.purged
  <2>1. s - 1 \in Nat
    BY <1>1, <1>4
  <2>2. /\ Lower(r, s) \in AshmemRange /\ Lower(r, s).pgstart = r.pgstart
        /\ Lower(r, s).pgend = s - 1 /\ Lower(r, s).asma = a /\ Lower(r, s).purged = r.purged
    BY <1>1, <1>2, <2>1 DEF Lower, AshmemRange, Page
  <2> QED BY <1>1, <1>4, <2>2 DEF RangesOf, NonEmpty
<1> QED BY <1>3, <1>4

\* Which parts: nothing of a range inside the pages, or what is above, or below, or both.
LEMMA PinCases ==
  ASSUME NEW a \in Area, NEW r \in RangesOf(a), NEW s \in Nat, NEW e \in Nat,
         NEW H, r \in H => Meets(r, s, e), NEW alloc \in BOOLEAN
  PROVE  LET P == PinPiece(H, r, s, e, alloc) IN
         \/ r \notin H /\ P = <<r>>
         \/ r \in H /\ r.pgstart >= s /\ r.pgend <= e /\ P = <<>>
         \/ r \in H /\ r.pgstart >= s /\ r.pgend > e /\ P = <<Upper(r, e)>>
         \/ r \in H /\ r.pgstart < s /\ r.pgend <= e /\ P = <<Lower(r, s)>>
         \/ r \in H /\ r.pgstart < s /\ r.pgend > e /\ alloc /\ P = <<Upper(r, e), Lower(r, s)>>
         \/ r \in H /\ r.pgstart < s /\ r.pgend > e /\ ~alloc /\ P = <<Lower(r, s)>>
<1> DEFINE U == PinUpper(H, r, s, e, alloc)
           R == PinRest(H, r, s, e)
<1>1. r.pgstart \in Nat /\ r.pgend \in Nat
  BY RangeType
<1>2. r \notin H => U = <<>> /\ R = <<r>>
  BY DEF PinUpper, PinRest
<1>3. r \in H => R = Remainder(r, s, e) /\ U = IF alloc /\ Hole(r, s, e) THEN <<Upper(r, e)>> ELSE <<>>
  BY DEF PinUpper, PinRest
<1>4. PinPiece(H, r, s, e, alloc) = U \o R
  BY DEF PinPiece
<1>5. \A x, y : <<>> \o <<x>> = <<x>> /\ <<x>> \o <<>> = <<x>> /\ <<x>> \o <<y>> = <<x, y>>
  BY ConcatShort
<1>6. <<>> \o <<>> = <<>>
  OBVIOUS
<1> HIDE DEF U, R
<1>7. CASE r \notin H
  BY <1>2, <1>4, <1>5, <1>7
<1>8. CASE r \in H /\ r.pgstart >= s
  <2>1. ~Hole(r, s, e)
    BY <1>1, <1>8 DEF Hole
  <2>2. CASE r.pgend <= e
    <3>1. R = <<>> /\ U = <<>>
      BY <1>3, <1>8, <2>1, <2>2 DEF Remainder, page_range_subsumes_range
    <3> QED BY <1>4, <1>6, <1>8, <2>2, <3>1
  <2>3. CASE r.pgend > e
    <3>1. R = <<Upper(r, e)>> /\ U = <<>>
      BY <1>1, <1>3, <1>8, <2>1, <2>3 DEF Remainder, page_range_subsumes_range
    <3> QED BY <1>4, <1>5, <1>8, <2>3, <3>1
  <2> QED BY <1>1, <2>2, <2>3
<1>9. CASE r \in H /\ r.pgstart < s
  <2>1. R = <<Lower(r, s)>>
    BY <1>1, <1>3, <1>9 DEF Remainder, page_range_subsumes_range
  <2>2. CASE r.pgend <= e
    <3>1. U = <<>>
      BY <1>1, <1>3, <1>9, <2>2 DEF Hole
    <3> QED BY <1>4, <1>5, <1>9, <2>1, <2>2, <3>1
  <2>3. CASE r.pgend > e /\ alloc
    <3>1. U = <<Upper(r, e)>>
      BY <1>1, <1>3, <1>9, <2>3 DEF Hole
    <3> QED BY <1>4, <1>5, <1>9, <2>1, <2>3, <3>1
  <2>4. CASE r.pgend > e /\ ~alloc
    <3>1. U = <<>>
      BY <1>3, <1>9, <2>4
    <3> QED BY <1>4, <1>5, <1>9, <2>1, <2>4, <3>1
  <2> QED BY <1>1, <2>2, <2>3, <2>4
<1> QED BY <1>1, <1>7, <1>8, <1>9

\* x is what is left of r, or a part of it.
PartOf(x, r, a, H, s, e) ==
  /\ x \in RangesOf(a) /\ x.purged = r.purged
  /\ r.pgstart <= x.pgstart /\ x.pgend <= r.pgend
  /\ x = r \/ NonEmpty(x)
  /\ r \in H => x.pgend < s \/ x.pgstart > e
  /\ r \notin H => x = r

\* The parts P of r keep its pages, but those that are pinned.
KeepsPages(P, r, H, s, e, alloc) ==
  \A p \in Nat : page_in_range(r, p) /\ (r \in H => p < s \/ p > e) /\ (alloc \/ ~Hole(r, s, e))
                   => \E x \in ToSet(P) : page_in_range(x, p)

\* The parts of a range: where they are, and which pages they keep.
LEMMA PieceFacts ==
  ASSUME NEW a \in Area, NEW r \in RangesOf(a), NEW s \in Nat, NEW e \in Nat,
         NEW H, r \in H => Meets(r, s, e), NEW alloc \in BOOLEAN,
         NEW P, P = PinPiece(H, r, s, e, alloc)
  PROVE  /\ P \in Seq(RangesOf(a)) /\ Descending(P)
         /\ \A x \in ToSet(P) : PartOf(x, r, a, H, s, e)
         /\ KeepsPages(P, r, H, s, e, alloc)
<1> USE DEF PartOf, KeepsPages
<1> DEFINE up == Upper(r, e)
           lo == Lower(r, s)
<1>1. r.pgstart \in Nat /\ r.pgend \in Nat /\ r.pgstart <= r.pgend + 1
  BY RangeType
<1>2. /\ r \in H /\ r.pgend > e => /\ up \in RangesOf(a) /\ NonEmpty(up)
                                   /\ up.pgstart = e + 1 /\ up.pgend = r.pgend
                                   /\ up.purged = r.purged /\ r.pgstart <= e + 1
      /\ r \in H /\ r.pgstart < s => /\ lo \in RangesOf(a) /\ NonEmpty(lo)
                                     /\ lo.pgstart = r.pgstart /\ lo.pgend = s - 1
                                     /\ lo.purged = r.purged
  BY PartsType
<1>3. \/ r \notin H /\ P = <<r>>
      \/ r \in H /\ r.pgstart >= s /\ r.pgend <= e /\ P = <<>>
      \/ r \in H /\ r.pgstart >= s /\ r.pgend > e /\ P = <<up>>
      \/ r \in H /\ r.pgstart < s /\ r.pgend <= e /\ P = <<lo>>
      \/ r \in H /\ r.pgstart < s /\ r.pgend > e /\ alloc /\ P = <<up, lo>>
      \/ r \in H /\ r.pgstart < s /\ r.pgend > e /\ ~alloc /\ P = <<lo>>
  BY PinCases
<1>4. r \in H => s <= e /\ r.pgend >= s
  BY DEF Meets
<1>5. \A x, y : ToSet(<<x>>) = {x} /\ ToSet(<<x, y>>) = {x, y}
  BY DEF ToSet
<1>6. ToSet(<<>>) = {}
  BY DEF ToSet
<1>7. \A x : Descending(<<x>>)
  BY DEF Descending
<1>8. Descending(<<>>)
  BY DEF Descending
<1> HIDE DEF up, lo
<1>9. CASE r \notin H /\ P = <<r>>
  BY <1>1, <1>5, <1>7, <1>9
<1>10. CASE r \in H /\ r.pgstart >= s /\ r.pgend <= e /\ P = <<>>
  <2>1. \A p \in Nat : ~(page_in_range(r, p) /\ (p < s \/ p > e))
    BY <1>1, <1>10 DEF page_in_range
  <2> QED BY <1>6, <1>8, <1>10, <2>1
<1>11. CASE r \in H /\ r.pgstart >= s /\ r.pgend > e /\ P = <<up>>
  <2>1. \A p \in Nat : page_in_range(r, p) /\ (p < s \/ p > e) => page_in_range(up, p)
    BY <1>1, <1>2, <1>11 DEF page_in_range
  <2> QED BY <1>1, <1>2, <1>5, <1>7, <1>11, <2>1
<1>12. CASE r \in H /\ r.pgstart < s /\ r.pgend <= e /\ P = <<lo>>
  <2>1. \A p \in Nat : page_in_range(r, p) /\ (p < s \/ p > e) => page_in_range(lo, p)
    BY <1>1, <1>2, <1>12 DEF page_in_range
  <2> QED BY <1>1, <1>2, <1>4, <1>5, <1>7, <1>12, <2>1
<1>13. CASE r \in H /\ r.pgstart < s /\ r.pgend > e /\ alloc /\ P = <<up, lo>>
  <2>1. \A p \in Nat : page_in_range(r, p) /\ (p < s \/ p > e) => page_in_range(lo, p) \/ page_in_range(up, p)
    BY <1>1, <1>2, <1>13 DEF page_in_range
  <2>2. up.pgstart > lo.pgend
    BY <1>2, <1>4, <1>13
  <2>3. P \in Seq(RangesOf(a)) /\ Len(P) = 2 /\ P[1] = up /\ P[2] = lo
    <3>1. up \in RangesOf(a) /\ lo \in RangesOf(a)
      BY <1>2, <1>13
    <3>2. <<up, lo>> \in Seq(RangesOf(a)) /\ Len(<<up, lo>>) = 2 /\ <<up, lo>>[1] = up /\ <<up, lo>>[2] = lo
      BY <3>1
    <3> QED BY <1>13, <3>2
  <2>4. \A i, j \in 1 .. 2 : i < j => i = 1 /\ j = 2
    OBVIOUS
  <2>5. Descending(P)
    BY <2>2, <2>3, <2>4 DEF Descending
  <2>6. ToSet(P) = {up, lo}
    BY <1>5, <1>13
  <2>7. \A x \in {up, lo} : /\ x \in RangesOf(a) /\ x.purged = r.purged
                            /\ r.pgstart <= x.pgstart /\ x.pgend <= r.pgend
                            /\ NonEmpty(x)
                            /\ x.pgend < s \/ x.pgstart > e
    BY <1>1, <1>2, <1>4, <1>13
  <2> QED BY <1>13, <2>1, <2>3, <2>5, <2>6, <2>7
<1>14. CASE r \in H /\ r.pgstart < s /\ r.pgend > e /\ ~alloc /\ P = <<lo>>
  <2>1. Hole(r, s, e)
    BY <1>14 DEF Hole
  <2> QED BY <1>1, <1>2, <1>4, <1>5, <1>7, <1>14, <2>1
<1> QED BY <1>3, <1>9, <1>10, <1>11, <1>12, <1>13, <1>14

\* The list after ashmem_pin.
LEMMA PinListFacts ==
  ASSUME NEW a \in Area, NEW q \in Seq(RangesOf(a)), Descending(q), NEW s \in Nat, NEW e \in Nat,
         NEW H, \A r \in ToSet(q) : r \in H => Meets(r, s, e), NEW alloc \in BOOLEAN,
         NEW new, new = PinList(q, H, s, e, alloc)
  PROVE  /\ new \in Seq(RangesOf(a)) /\ Descending(new)
         /\ ToSet(new) = UNION {ToSet(PinPiece(H, r, s, e, alloc)) : r \in ToSet(q)}
<1> DEFINE ss == PinPieces(q, H, s, e, alloc)
           n == Len(q)
<1>1. n \in Nat /\ \A i \in 1 .. n : q[i] \in RangesOf(a) /\ q[i] \in ToSet(q)
  BY DEF ToSet
<1>2. ss = [i \in 1 .. n |-> PinPiece(H, q[i], s, e, alloc)]
  BY DEF PinPieces
<1>3. new = FlattenSeq(ss)
  BY DEF PinList
<1>4. \A i \in 1 .. n : ss[i] = PinPiece(H, q[i], s, e, alloc)
  BY <1>2
<1>5. ASSUME NEW i \in 1 .. n
      PROVE  /\ ss[i] \in Seq(RangesOf(a)) /\ Descending(ss[i])
             /\ \A x \in ToSet(ss[i]) : q[i].pgstart <= x.pgstart /\ x.pgend <= q[i].pgend
  <2>1. q[i] \in RangesOf(a) /\ q[i] \in ToSet(q) /\ ss[i] = PinPiece(H, q[i], s, e, alloc)
    BY <1>1, <1>4
  <2>2. q[i] \in H => Meets(q[i], s, e)
    BY <2>1
  <2> DEFINE r == q[i]
             P == ss[i]
  <2>3. r \in RangesOf(a) /\ (r \in H => Meets(r, s, e)) /\ P = PinPiece(H, r, s, e, alloc)
    BY <2>1, <2>2
  <2> HIDE DEF ss, n, r, P
  <2>4. P \in Seq(RangesOf(a)) /\ Descending(P) /\ \A x \in ToSet(P) : PartOf(x, r, a, H, s, e)
    BY <2>3, PieceFacts
  <2> QED BY <2>4 DEF r, P, PartOf
<1>6. ss \in Seq(Seq(RangesOf(a))) /\ Len(ss) = n
  <2>1. \A i \in 1 .. n : ss[i] \in Seq(RangesOf(a))
    BY <1>5
  <2> QED BY <1>1, <1>2, <2>1
<1>7. ToSet(q) = {q[i] : i \in 1 .. n}
  BY DEF ToSet
<1> HIDE DEF ss, n
<1>8. ASSUME NEW i \in 1 .. n, NEW j \in 1 .. Len(ss[i])
      PROVE  q[i].pgstart <= ss[i][j].pgstart /\ ss[i][j].pgend <= q[i].pgend
  <2>1. ss[i][j] \in ToSet(ss[i])
    BY <1>5 DEF ToSet
  <2> QED BY <1>5, <2>1
<1>9. new \in Seq(RangesOf(a)) /\ Descending(new)
  BY <1>3, <1>5, <1>6, <1>8, DescendingPieces DEF n
<1>10. ToSet(new) = UNION {ToSet(ss[i]) : i \in 1 .. Len(ss)}
  BY <1>3, <1>6, FlattenElements
<1>11. \A x : x \in UNION {ToSet(ss[i]) : i \in 1 .. n}
               <=> x \in UNION {ToSet(PinPiece(H, r, s, e, alloc)) : r \in ToSet(q)}
  BY <1>4, <1>7
<1> QED BY <1>6, <1>9, <1>10, <1>11

-----------------------------------------------------------------------------
(* What ashmem_unpin leaves.                                               *)

\* The pages from s to e, grown by the ranges G that they touch, and the ranges that
\* the grown pages touch.
UnpinStart(G, s) == Min({s} \cup {r.pgstart : r \in G})

UnpinEnd(G, e) == Max({e} \cup {r.pgend : r \in G})

UnpinHits(a, s, e) == Hits(a, UnpinStart(Hits(a, s, e), s), UnpinEnd(Hits(a, s, e), e))

\* The range it allocates, and the list.
UnpinRange(a, s, e) ==
  [asma |-> a,
   pgstart |-> UnpinStart(Hits(a, s, e), s),
   pgend |-> UnpinEnd(Hits(a, s, e), e),
   purged |-> \E r \in UnpinHits(a, s, e) : r.purged]

BelowRange(q, N) == {r \in ToSet(q) : range_before_page(r, N.pgstart)}

UnpinList(q, H, N, alloc) ==
  Without(q, H \cup BelowRange(q, N)) \o (IF alloc THEN <<N>> ELSE <<>>)
    \o Without(q, H \cup (ToSet(q) \ BelowRange(q, N)))

\* N is the union of the pages and of the ranges touched.
Merges(N, a, H, s, e) ==
  /\ N \in RangesOf(a) /\ N.pgstart <= s /\ e <= N.pgend
  /\ \A r \in H : N.pgstart <= r.pgstart /\ r.pgend <= N.pgend /\ (r.purged => N.purged)
  /\ N.purged => \E r \in H : r.purged
  /\ \A p \in Nat : page_in_range(N, p) => (s <= p /\ p <= e) \/ \E r \in H : page_in_range(r, p)
  /\ N.pgstart = s \/ \E r \in H : N.pgstart = r.pgstart
  /\ N.pgend = e \/ \E r \in H : N.pgend = r.pgend

\* The pages from S to E are those from s to e and those of the ranges G.
Grown(S, E, G, s, e) ==
  /\ S \in Nat /\ E \in Nat /\ S <= s /\ e <= E
  /\ \A r \in G : S <= r.pgstart /\ r.pgend <= E
  /\ \A p \in Nat : S <= p /\ p <= E => (s <= p /\ p <= e) \/ \E r \in G : page_in_range(r, p)
  /\ S = s \/ \E r \in G : S = r.pgstart
  /\ E = e \/ \E r \in G : E = r.pgend

\* The pages that ashmem_unpin grows to.
LEMMA GrownFacts ==
  ASSUME NEW a \in Area, NEW n \in Nat, NEW G \in SUBSET RangesOf(a), \A r \in G : r.pgend < n,
         NEW s \in Nat, NEW e \in Nat, s <= e + 1, e < n, \A r \in G : Meets(r, s, e),
         NEW S, S = UnpinStart(G, s), NEW E, E = UnpinEnd(G, e)
  PROVE  Grown(S, E, G, s, e)
<1> DEFINE A == {s} \cup {r.pgstart : r \in G}
           B == {e} \cup {r.pgend : r \in G}
<1>1. \A r \in G : r.pgstart \in Nat /\ r.pgend \in Nat /\ r.pgstart <= r.pgend + 1
  BY RangeType
<1>2. A \in SUBSET Nat /\ A # {} /\ B \in SUBSET (0 .. n) /\ B # {} /\ B \in SUBSET Nat
  BY <1>1
<1>3. S = Min(A) /\ E = Max(B)
  BY DEF UnpinStart, UnpinEnd
<1>4. s \in A /\ e \in B /\ \A r \in G : r.pgstart \in A /\ r.pgend \in B
  OBVIOUS
<1>5. /\ \A x \in A : x = s \/ \E r \in G : x = r.pgstart
      /\ \A x \in B : x = e \/ \E r \in G : x = r.pgend
  OBVIOUS
<1> HIDE DEF A, B
<1>6. S \in A /\ \A y \in A : S <= y
  BY <1>2, <1>3, MinFacts
<1>7. E \in B /\ \A y \in B : y <= E
  BY <1>2, <1>3, MaxFacts
<1>8. S \in Nat /\ E \in Nat
  BY <1>2, <1>6, <1>7
<1>9. S <= s /\ e <= E /\ \A r \in G : S <= r.pgstart /\ r.pgend <= E
  BY <1>4, <1>6, <1>7
<1>10. /\ S = s \/ \E r \in G : S = r.pgstart
       /\ E = e \/ \E r \in G : E = r.pgend
  BY <1>5, <1>6, <1>7
<1>11. ASSUME NEW p \in Nat, S <= p, p <= E, ~(s <= p /\ p <= e)
       PROVE  \E r \in G : page_in_range(r, p)
  <2>1. CASE p < s
    <3>1. PICK r \in G : S = r.pgstart
      BY <1>8, <1>10, <1>11, <2>1
    <3>2. r.pgend >= s /\ r.pgstart <= p
      BY <1>11, <3>1 DEF Meets
    <3>3. page_in_range(r, p)
      BY <1>1, <2>1, <3>2 DEF page_in_range
    <3> QED BY <3>3
  <2>2. CASE p > e
    <3>1. PICK r \in G : E = r.pgend
      BY <1>8, <1>10, <1>11, <2>2
    <3>2. r.pgend >= p /\ Meets(r, s, e)
      BY <1>8, <1>11, <3>1
    <3>3. page_in_range(r, p)
      BY <1>1, <2>2, <3>2
         DEF Meets, page_range_in_range, page_in_range, page_range_subsumes_range
    <3> QED BY <3>3
  <2> QED BY <1>11, <2>1, <2>2
<1> QED BY <1>8, <1>9, <1>10, <1>11 DEF Grown

\* The list after ashmem_unpin, with the new range in its place.
LEMMA UnpinListFacts ==
  ASSUME NEW a \in Area, NEW q \in Seq(RangesOf(a)), Descending(q), NEW H,
         NEW N \in RangesOf(a), NEW alloc \in BOOLEAN,
         \A r \in ToSet(q) : r \notin H => r.pgend < N.pgstart \/ r.pgstart > N.pgend,
         NEW new, new = UnpinList(q, H, N, alloc)
  PROVE  /\ new \in Seq(RangesOf(a)) /\ Descending(new)
         /\ ToSet(new) = (ToSet(q) \ H) \cup (IF alloc THEN {N} ELSE {})
<1> DEFINE D == BelowRange(q, N)
           b == Without(q, H \cup D)
           c == Without(q, H \cup (ToSet(q) \ D))
           m == IF alloc THEN <<N>> ELSE <<>>
<1>0. \A r \in ToSet(q) : r \in RangesOf(a)
  BY DEF ToSet
<1>1. \A r \in ToSet(q) : r.pgstart \in Nat /\ r.pgend \in Nat
  BY <1>0, RangeType
<1>2. N.pgstart \in Nat /\ N.pgend \in Nat /\ N.pgstart <= N.pgend + 1
  BY RangeType
<1>3. new = (b \o m) \o c
  BY DEF UnpinList
<1>4. \A r \in ToSet(q) : r \in D <=> r.pgend < N.pgstart
  BY DEF BelowRange, range_before_page
<1>5. /\ m \in Seq(RangesOf(a)) /\ Descending(m)
      /\ ToSet(m) = IF alloc THEN {N} ELSE {}
  <2>1. CASE alloc
    BY <2>1 DEF Descending, ToSet
  <2>2. CASE ~alloc
    BY <2>2 DEF Descending, ToSet
  <2> QED BY <2>1, <2>2
<1> HIDE DEF D, m
<1>6. b \in Seq(RangesOf(a)) /\ Descending(b) /\ ToSet(b) = ToSet(q) \ (H \cup D)
  BY WithoutFacts, WithoutSet, DescendingWithout
<1>7. /\ c \in Seq(RangesOf(a)) /\ Descending(c)
      /\ ToSet(c) = ToSet(q) \ (H \cup (ToSet(q) \ D))
  BY WithoutFacts, WithoutSet, DescendingWithout
<1> HIDE DEF b, c
<1>8. \A x \in ToSet(b) : x \in ToSet(q) /\ x.pgstart > N.pgend
  BY <1>4, <1>6
<1>9. \A x \in ToSet(c) : x \in ToSet(q) /\ x.pgend < N.pgstart
  BY <1>4, <1>7
<1> DEFINE bm == b \o m
<1>10. bm \in Seq(RangesOf(a)) /\ ToSet(bm) = ToSet(b) \cup ToSet(m)
  BY <1>5, <1>6, ConcatSet
<1>11. Descending(bm)
  <2>1. \A x \in ToSet(b), y \in ToSet(m) : x.pgstart > y.pgend
    BY <1>5, <1>8
  <2> QED BY <1>5, <1>6, <2>1, DescendingConcat
<1> HIDE DEF bm
<1>12. \A x \in ToSet(bm), y \in ToSet(c) : x.pgstart > y.pgend
  <2>1. SUFFICES ASSUME NEW x \in ToSet(bm), NEW y \in ToSet(c) PROVE x.pgstart > y.pgend
    OBVIOUS
  <2>2. y.pgend \in Nat /\ y.pgend < N.pgstart
    BY <1>1, <1>9
  <2>3. CASE x \in ToSet(b)
    <3>1. x.pgstart \in Nat /\ x.pgstart > N.pgend
      BY <1>1, <1>8, <2>3
    <3> QED BY <1>2, <2>2, <3>1
  <2>4. CASE x = N
    BY <1>2, <2>2, <2>4
  <2> QED BY <1>5, <1>10, <2>3, <2>4
<1>13. new = bm \o c
  BY <1>3 DEF bm
<1>14. Descending(new)
  BY <1>7, <1>10, <1>11, <1>12, <1>13, DescendingConcat
<1>15. new \in Seq(RangesOf(a)) /\ ToSet(new) = ToSet(bm) \cup ToSet(c)
  BY <1>7, <1>10, <1>13, ConcatSet
<1>16. ToSet(b) \cup ToSet(c) = ToSet(q) \ H
  BY <1>6, <1>7
<1> QED BY <1>5, <1>10, <1>14, <1>15, <1>16

-----------------------------------------------------------------------------
(* What users have unpinned, and what they have lost.                      *)

\* The list q of the area a records the pages U that users have unpinned and the lost
\* ones, L, unless the area is among the failed, B.
Recorded(q, L, U, a, B) ==
  /\ \A r \in ToSet(q) : \A p \in Nat : page_in_range(r, p) => p \in U
  /\ a \notin B => \A p \in U : \E r \in ToSet(q) : page_in_range(r, p)
  /\ a \notin B => \A p \in L : \E r \in ToSet(q) : r.purged /\ page_in_range(r, p)

\* A range that meets no page of the request is not touched.
LEMMA MeetsPage ==
  ASSUME NEW a \in Area, NEW r \in RangesOf(a), NEW s \in Nat, NEW e \in Nat, NEW p \in Nat,
         page_in_range(r, p), s <= p, p <= e
  PROVE  Meets(r, s, e)
<1>1. r.pgstart \in Nat /\ r.pgend \in Nat
  BY RangeType
<1> QED BY <1>1 DEF Meets, page_range_in_range, page_in_range, page_range_subsumes_range

\* ashmem_pin.
LEMMA PinRecorded ==
  ASSUME NEW a \in Area, NEW q \in Seq(RangesOf(a)), Descending(q), NEW s \in Nat, NEW e \in Nat,
         NEW H, H \subseteq ToSet(q), \A r \in ToSet(q) : r \in H <=> Meets(r, s, e),
         NEW alloc \in BOOLEAN, NEW new, new = PinList(q, H, s, e, alloc),
         NEW L \in SUBSET Nat, NEW U \in SUBSET Nat, NEW B, Recorded(q, L, U, a, B),
         NEW C, C = IF alloc THEN B ELSE B \cup {a},
         NEW K, K = IF \E r \in H : r.purged THEN L \ (s .. e) ELSE L
  PROVE  Recorded(new, K, U \ (s .. e), a, C)
<1>0. \A r \in ToSet(q) : r \in RangesOf(a)
  BY DEF ToSet
<1>1. ToSet(new) = UNION {ToSet(PinPiece(H, r, s, e, alloc)) : r \in ToSet(q)}
  BY PinListFacts
<1>2. ASSUME NEW r \in ToSet(q)
      PROVE  /\ \A x \in ToSet(PinPiece(H, r, s, e, alloc)) : PartOf(x, r, a, H, s, e)
             /\ KeepsPages(PinPiece(H, r, s, e, alloc), r, H, s, e, alloc)
  BY <1>0, <1>2, PieceFacts
<1>3. \A r \in ToSet(q) : \A x \in ToSet(PinPiece(H, r, s, e, alloc)) : x \in ToSet(new)
  BY <1>1
<1>4. ASSUME NEW x \in ToSet(new), NEW p \in Nat, page_in_range(x, p)
      PROVE  p \in U \ (s .. e)
  <2>1. PICK r \in ToSet(q) : x \in ToSet(PinPiece(H, r, s, e, alloc))
    BY <1>1
  <2>2. PartOf(x, r, a, H, s, e)
    BY <1>2, <2>1
  <2>3. /\ r.pgstart \in Nat /\ r.pgend \in Nat /\ x.pgstart \in Nat /\ x.pgend \in Nat
    BY <1>0, <2>2, RangeType DEF PartOf
  <2>4. page_in_range(r, p)
    BY <1>4, <2>2, <2>3 DEF PartOf, page_in_range
  <2>5. p \in U
    BY <2>4 DEF Recorded
  <2>6. p \notin s .. e
    <3>1. SUFFICES ASSUME s <= p, p <= e PROVE FALSE
      OBVIOUS
    <3>2. r \in H
      BY <1>0, <2>4, <3>1, MeetsPage
    <3> QED BY <1>4, <2>2, <2>3, <3>1, <3>2 DEF PartOf, page_in_range
  <2> QED BY <2>5, <2>6
<1>5. ASSUME alloc, NEW r \in ToSet(q), NEW p \in Nat, page_in_range(r, p),
             r \in H => p < s \/ p > e
      PROVE  \E x \in ToSet(new) : page_in_range(x, p) /\ x.purged = r.purged
  <2>1. PICK x \in ToSet(PinPiece(H, r, s, e, alloc)) : page_in_range(x, p)
    BY <1>2, <1>5 DEF KeepsPages
  <2>2. x.purged = r.purged /\ x \in ToSet(new)
    BY <1>2, <1>3, <2>1 DEF PartOf
  <2> QED BY <2>1, <2>2
<1>6. ASSUME a \notin B, alloc, NEW p \in U \ (s .. e) PROVE \E x \in ToSet(new) : page_in_range(x, p)
  <2>1. PICK r \in ToSet(q) : page_in_range(r, p)
    BY <1>6 DEF Recorded
  <2>2. p \in Nat /\ (p < s \/ p > e)
    OBVIOUS
  <2> QED BY <1>5, <1>6, <2>1, <2>2
<1>7. ASSUME a \notin B, alloc, NEW p \in K PROVE \E x \in ToSet(new) : x.purged /\ page_in_range(x, p)
  <2>1. p \in L /\ p \in Nat
    OBVIOUS
  <2>2. PICK r \in ToSet(q) : r.purged /\ page_in_range(r, p)
    BY <1>7, <2>1 DEF Recorded
  <2>3. r \in H => p < s \/ p > e
    BY <2>1, <2>2
  <2>4. PICK x \in ToSet(new) : page_in_range(x, p) /\ x.purged = r.purged
    BY <1>5, <1>7, <2>1, <2>2, <2>3
  <2> QED BY <2>2, <2>4
<1> QED BY <1>4, <1>6, <1>7 DEF Recorded

\* ashmem_unpin.
LEMMA UnpinRecorded ==
  ASSUME NEW a \in Area, NEW q \in Seq(RangesOf(a)), NEW H, H \subseteq ToSet(q),
         NEW s \in Nat, NEW e \in Nat, NEW N, Merges(N, a, H, s, e),
         NEW alloc \in BOOLEAN, NEW new,
         ToSet(new) = (ToSet(q) \ H) \cup (IF alloc THEN {N} ELSE {}),
         NEW L \in SUBSET Nat, NEW U \in SUBSET Nat, NEW B, Recorded(q, L, U, a, B),
         NEW C, C = IF alloc THEN B ELSE B \cup {a}
  PROVE  Recorded(new, L, U \cup (s .. e), a, C)
<1>0. \A r \in ToSet(q) : r \in RangesOf(a)
  BY DEF ToSet
<1>1. \A r \in ToSet(q) : r.pgstart \in Nat /\ r.pgend \in Nat
  BY <1>0, RangeType
<1>2. N.pgstart \in Nat /\ N.pgend \in Nat
  BY RangeType DEF Merges
<1>3. ASSUME NEW x \in ToSet(new), NEW p \in Nat, page_in_range(x, p)
      PROVE  p \in U \cup (s .. e)
  <2>1. CASE x \in ToSet(q)
    BY <1>3, <2>1 DEF Recorded
  <2>2. CASE x = N
    <3>1. (s <= p /\ p <= e) \/ \E r \in H : page_in_range(r, p)
      BY <1>3, <2>2 DEF Merges
    <3> QED BY <3>1 DEF Recorded
  <2> QED BY <2>1, <2>2
<1>4. ASSUME alloc, NEW r \in ToSet(q), NEW p \in Nat, page_in_range(r, p)
      PROVE  \E x \in ToSet(new) : page_in_range(x, p) /\ (r.purged => x.purged)
  <2>1. CASE r \in H
    <3>1. N.pgstart <= r.pgstart /\ r.pgend <= N.pgend /\ (r.purged => N.purged)
      BY <2>1 DEF Merges
    <3>2. page_in_range(N, p)
      BY <1>1, <1>2, <1>4, <3>1 DEF page_in_range
    <3> QED BY <1>4, <3>1, <3>2
  <2>2. CASE r \notin H
    BY <1>4, <2>2
  <2> QED BY <2>1, <2>2
<1>5. ASSUME a \notin B, alloc, NEW p \in U \cup (s .. e) PROVE \E x \in ToSet(new) : page_in_range(x, p)
  <2>0. p \in Nat
    OBVIOUS
  <2>1. CASE p \in U
    <3>1. PICK r \in ToSet(q) : page_in_range(r, p)
      BY <1>5, <2>1 DEF Recorded
    <3> QED BY <1>4, <1>5, <2>0, <3>1
  <2>2. CASE p \in s .. e
    <3>1. page_in_range(N, p)
      BY <1>2, <2>0, <2>2 DEF page_in_range, Merges
    <3> QED BY <1>5, <3>1
  <2> QED BY <2>1, <2>2
<1>6. ASSUME a \notin B, alloc, NEW p \in L PROVE \E x \in ToSet(new) : x.purged /\ page_in_range(x, p)
  <2>1. PICK r \in ToSet(q) : r.purged /\ page_in_range(r, p)
    BY <1>6 DEF Recorded
  <2> QED BY <1>4, <1>6, <2>1
<1> QED BY <1>3, <1>5, <1>6 DEF Recorded

-----------------------------------------------------------------------------
(* The LRU list.                                                           *)

Overlap(x, y) == x.asma = y.asma /\ \E p \in Nat : page_in_range(x, p) /\ page_in_range(y, p)

\* No two entries of q have a page in common.
Separate(q) == \A i, j \in 1 .. Len(q) : i < j => ~Overlap(q[i], q[j])

\* A possible entry of the LRU list.
LruEntry(r) == r \in AshmemRange /\ r.pgstart <= r.pgend + 1 /\ ~r.purged

ListsOK(lists) == \A b \in Area : lists[b] \in Seq(RangesOf(b)) /\ Descending(lists[b])

\* The list l holds the ranges with pages that are not purged, each once.
LruMatches(lists, l) ==
  /\ l \in Seq(AshmemRange) /\ (\A r \in ToSet(l) : LruEntry(r)) /\ Separate(l)
  /\ \A r \in AshmemRange : NonEmpty(r) /\ ~r.purged => (r \in ToSet(l) <=> r \in ToSet(lists[r.asma]))

\* Overlapping is symmetric, and parts of ranges overlap only if the ranges do.
LEMMA OverlapFacts ==
  ASSUME NEW x \in AshmemRange, NEW y \in AshmemRange, NEW u \in AshmemRange, NEW v \in AshmemRange,
         x.asma = u.asma, u.pgstart <= x.pgstart, x.pgend <= u.pgend,
         y.asma = v.asma, v.pgstart <= y.pgstart, y.pgend <= v.pgend,
         Overlap(x, y)
  PROVE  Overlap(u, v) /\ Overlap(v, u)
<1>1. PICK p \in Nat : page_in_range(x, p) /\ page_in_range(y, p)
  BY DEF Overlap
<1>2. /\ x.pgstart \in Nat /\ x.pgend \in Nat /\ y.pgstart \in Nat /\ y.pgend \in Nat
      /\ u.pgstart \in Nat /\ u.pgend \in Nat /\ v.pgstart \in Nat /\ v.pgend \in Nat
  BY DEF AshmemRange, Page
<1>3. page_in_range(u, p) /\ page_in_range(v, p)
  BY <1>1, <1>2 DEF page_in_range
<1> QED BY <1>3 DEF Overlap

\* Ranges of a sorted list do not overlap.
LEMMA DescendingSeparate ==
  ASSUME NEW a \in Area, NEW q \in Seq(RangesOf(a)), Descending(q)
  PROVE  /\ Separate(q)
         /\ \A x, y \in ToSet(q) : x # y => ~Overlap(x, y)
<1>0. Len(q) \in Nat /\ (\A i \in 1 .. Len(q) : q[i] \in RangesOf(a)) /\ \A x \in ToSet(q) : x \in RangesOf(a)
  BY DEF ToSet
<1>1. ASSUME NEW x \in RangesOf(a), NEW y \in RangesOf(a), x.pgstart > y.pgend
      PROVE  ~Overlap(x, y) /\ ~Overlap(y, x)
  <2>1. x.pgstart \in Nat /\ x.pgend \in Nat /\ y.pgstart \in Nat /\ y.pgend \in Nat
    BY RangeType
  <2> QED BY <1>1, <2>1 DEF Overlap, page_in_range
<1>2. Separate(q)
  BY <1>0, <1>1 DEF Separate, Descending
<1>3. ASSUME NEW x \in ToSet(q), NEW y \in ToSet(q), x # y PROVE ~Overlap(x, y)
  BY <1>0, <1>1, <1>3, Disjoint
<1> QED BY <1>2, <1>3

\* Ranges stay without overlap when some are taken away.
LEMMA SeparateWithout ==
  ASSUME NEW A, NEW q \in Seq(A), Separate(q), NEW X
  PROVE  Separate(Without(q, X))
<1> DEFINE F == Without(q, X)
<1>1. PICK src : Filtered(F, q, X, src)
  BY WithoutFacts
<1> HIDE DEF F
<1>2. ASSUME NEW i \in 1 .. Len(F), NEW j \in 1 .. Len(F), i < j
      PROVE  ~Overlap(F[i], F[j])
  <2>1. /\ src[i] \in 1 .. Len(q) /\ src[j] \in 1 .. Len(q) /\ src[i] < src[j]
        /\ F[i] = q[src[i]] /\ F[j] = q[src[j]]
    BY <1>1, <1>2 DEF Filtered
  <2> QED BY <2>1 DEF Separate
<1> QED BY <1>2 DEF Separate, F

\* Two lists without overlap, neither of which overlaps the other, put together.
LEMMA SeparateConcat ==
  ASSUME NEW A, NEW q \in Seq(A), NEW t \in Seq(A), Separate(q), Separate(t),
         \A x \in ToSet(q), y \in ToSet(t) : ~Overlap(x, y)
  PROVE  Separate(q \o t)
<1> DEFINE c == q \o t
<1>1. /\ Len(c) = Len(q) + Len(t) /\ Len(q) \in Nat /\ Len(t) \in Nat
      /\ \A i \in 1 .. Len(q) : c[i] = q[i]
      /\ \A i \in 1 .. Len(t) : c[Len(q) + i] = t[i]
  OBVIOUS
<1>2. /\ \A i \in 1 .. Len(q) : q[i] \in ToSet(q)
      /\ \A i \in 1 .. Len(t) : t[i] \in ToSet(t)
  BY DEF ToSet
<1> HIDE DEF c
<1>3. ASSUME NEW i \in 1 .. Len(c), NEW j \in 1 .. Len(c), i < j
      PROVE  ~Overlap(c[i], c[j])
  <2>1. CASE j <= Len(q)
    <3>1. i \in 1 .. Len(q) /\ j \in 1 .. Len(q) /\ c[i] = q[i] /\ c[j] = q[j]
      BY <1>1, <1>3, <2>1
    <3> QED BY <1>3, <3>1 DEF Separate
  <2>2. CASE i <= Len(q) /\ j > Len(q)
    <3>1. j - Len(q) \in 1 .. Len(t) /\ Len(q) + (j - Len(q)) = j
      BY <1>1, <2>2
    <3>2. i \in 1 .. Len(q)
      BY <1>1, <2>2
    <3>3. c[i] = q[i] /\ c[j] = t[j - Len(q)]
      BY <1>1, <3>1, <3>2
    <3> QED BY <1>2, <3>1, <3>2, <3>3
  <2>3. CASE i > Len(q)
    <3>1. /\ i - Len(q) \in 1 .. Len(t) /\ j - Len(q) \in 1 .. Len(t) /\ i - Len(q) < j - Len(q)
          /\ Len(q) + (i - Len(q)) = i /\ Len(q) + (j - Len(q)) = j
      BY <1>1, <1>3, <2>3
    <3>2. c[i] = t[i - Len(q)]
      BY <1>1, <3>1
    <3>3. c[j] = t[j - Len(q)]
      BY <1>1, <3>1
    <3> QED BY <3>1, <3>2, <3>3 DEF Separate
  <2> QED BY <1>1, <2>1, <2>2, <2>3
<1> QED BY <1>3 DEF Separate, c

\* Replacing every entry by at most one part of it.
LEMMA SeparatePieces ==
  ASSUME NEW q \in Seq(AshmemRange), Separate(q), NEW ss \in Seq(Seq(AshmemRange)), Len(ss) = Len(q),
         \A i \in 1 .. Len(q) :
           /\ Len(ss[i]) <= 1
           /\ \A x \in ToSet(ss[i]) : /\ x.asma = q[i].asma
                                      /\ q[i].pgstart <= x.pgstart /\ x.pgend <= q[i].pgend
  PROVE  Separate(FlattenSeq(ss))
<1> DEFINE F == FlattenSeq(ss)
<1>1. F \in Seq(AshmemRange)
  BY FlattenFacts
<1>2. PICK src, off : Flattened(F, ss, Len(ss), src, off)
  BY FlattenFacts
<1>3. Len(q) \in Nat /\ \A i \in 1 .. Len(q) : q[i] \in AshmemRange /\ ss[i] \in Seq(AshmemRange)
  OBVIOUS
<1> HIDE DEF F
<1>4. ASSUME NEW k \in 1 .. Len(F)
      PROVE  /\ src[k] \in 1 .. Len(q) /\ off[k] = 1 /\ F[k] \in AshmemRange
             /\ F[k].asma = q[src[k]].asma
             /\ q[src[k]].pgstart <= F[k].pgstart /\ F[k].pgend <= q[src[k]].pgend
  <2>1. src[k] \in 1 .. Len(q) /\ off[k] \in 1 .. Len(ss[src[k]]) /\ F[k] = ss[src[k]][off[k]]
    BY <1>2 DEF Flattened
  <2>2. F[k] \in ToSet(ss[src[k]]) /\ Len(ss[src[k]]) \in Nat
    BY <1>3, <2>1 DEF ToSet
  <2>3. off[k] = 1
    BY <2>1, <2>2
  <2> QED BY <1>1, <2>1, <2>2, <2>3
<1>5. ASSUME NEW k \in 1 .. Len(F), NEW l \in 1 .. Len(F), k < l
      PROVE  ~Overlap(F[k], F[l])
  <2>1. src[k] < src[l] \/ off[k] < off[l]
    BY <1>2, <1>5 DEF Flattened
  <2>2. src[k] < src[l]
    <3>1. off[k] = 1 /\ off[l] = 1 /\ ~(1 < 1)
      BY <1>4
    <3> QED BY <2>1, <3>1
  <2>3. ~Overlap(q[src[k]], q[src[l]])
    BY <1>4, <2>2 DEF Separate
  <2> DEFINE x == F[k]
             y == F[l]
             u == q[src[k]]
             v == q[src[l]]
  <2>4. /\ x \in AshmemRange /\ y \in AshmemRange /\ u \in AshmemRange /\ v \in AshmemRange
        /\ x.asma = u.asma /\ u.pgstart <= x.pgstart /\ x.pgend <= u.pgend
        /\ y.asma = v.asma /\ v.pgstart <= y.pgstart /\ y.pgend <= v.pgend
    BY <1>3, <1>4
  <2> HIDE DEF x, y, u, v
  <2>5. Overlap(x, y) => Overlap(u, v)
    BY <2>4, OverlapFacts
  <2> QED BY <2>3, <2>5 DEF x, y, u, v
<1> QED BY <1>5 DEF Separate, F

\* What ashmem_pin puts in the place of an entry, and what it adds.
LEMMA RestFacts ==
  ASSUME NEW b \in Area, NEW r \in RangesOf(b), NEW s \in Nat, NEW e \in Nat,
         NEW H, r \in H => Meets(r, s, e), NEW R, R = PinRest(H, r, s, e)
  PROVE  R \in Seq(RangesOf(b)) /\ Len(R) <= 1 /\ \A x \in ToSet(R) : PartOf(x, r, b, H, s, e)
<1>1. FALSE \in BOOLEAN
  OBVIOUS
<1> DEFINE P == PinPiece(H, r, s, e, FALSE)
<1>2. P \in Seq(RangesOf(b)) /\ \A x \in ToSet(P) : PartOf(x, r, b, H, s, e)
  BY <1>1, PieceFacts
<1>3. P = <<>> \o R
  BY DEF PinPiece, PinUpper
<1>4. R = <<r>> \/ R = <<>> \/ R = <<Upper(r, e)>> \/ R = <<Lower(r, s)>>
  BY DEF PinRest, Remainder
<1>5. P = R /\ Len(R) <= 1
  <2> HIDE DEF P
  <2>1. CASE R = <<>>
    BY <1>3, <2>1
  <2>2. ASSUME NEW x, R = <<x>> PROVE P = R /\ Len(R) <= 1
    BY <1>3, <2>2, ConcatShort
  <2> QED BY <1>4, <2>1, <2>2
<1> QED BY <1>2, <1>5

\* The upper part of a range with a hole is allocated only if ashmem_pin can, and is part
\* of the range.
LEMMA UpperFacts ==
  ASSUME NEW a \in Area, NEW r \in RangesOf(a), NEW s \in Nat, NEW e \in Nat,
         NEW H, r \in H => Meets(r, s, e), NEW alloc \in BOOLEAN,
         NEW P, P = PinUpper(H, r, s, e, alloc)
  PROVE  /\ P \in Seq(RangesOf(a)) /\ Len(P) <= 1
         /\ \A x \in ToSet(P) : /\ PartOf(x, r, a, H, s, e) /\ NonEmpty(x)
                                /\ r \in H /\ Hole(r, s, e) /\ x = Upper(r, e)
         /\ ToSet(PinPiece(H, r, s, e, alloc)) = ToSet(P) \cup ToSet(PinRest(H, r, s, e))
<1>1. CASE alloc /\ r \in H /\ Hole(r, s, e)
  <2>1. P = <<Upper(r, e)>>
    BY <1>1 DEF PinUpper
  <2>2. r.pgend > e /\ r.pgstart < s /\ Meets(r, s, e) /\ r.pgstart \in Nat /\ r.pgend \in Nat
    BY <1>1, RangeType DEF Hole
  <2>3. /\ Upper(r, e) \in RangesOf(a) /\ NonEmpty(Upper(r, e))
        /\ Upper(r, e).pgstart = e + 1 /\ Upper(r, e).pgend = r.pgend
        /\ Upper(r, e).purged = r.purged /\ r.pgstart <= e + 1
    BY <2>2, PartsType
  <2>4. PartOf(Upper(r, e), r, a, H, s, e)
    BY <1>1, <2>2, <2>3 DEF PartOf
  <2>5. ToSet(P) = {Upper(r, e)} /\ P \in Seq(RangesOf(a)) /\ Len(P) = 1
    BY <2>1, <2>3 DEF ToSet
  <2>6. PinRest(H, r, s, e) \in Seq(RangesOf(a))
    BY RestFacts
  <2>7. ToSet(PinPiece(H, r, s, e, alloc)) = ToSet(P) \cup ToSet(PinRest(H, r, s, e))
    <3>1. P \in Seq(RangesOf(a))
      BY <2>5
    <3> DEFINE R == PinRest(H, r, s, e)
    <3>2. R \in Seq(RangesOf(a)) /\ PinPiece(H, r, s, e, alloc) = P \o R
      BY <2>6 DEF PinPiece
    <3> HIDE DEF R
    <3>3. ToSet(P \o R) = ToSet(P) \cup ToSet(R)
      BY <3>1, <3>2, ConcatSet
    <3> QED BY <3>2, <3>3 DEF R
  <2>8. ASSUME NEW x \in ToSet(P)
        PROVE  PartOf(x, r, a, H, s, e) /\ NonEmpty(x) /\ x = Upper(r, e)
    <3>1. x = Upper(r, e)
      BY <2>5
    <3> QED BY <2>3, <2>4, <3>1
  <2>9. Len(P) <= 1
    BY <2>5
  <2> QED BY <1>1, <2>5, <2>7, <2>8, <2>9
<1>2. CASE ~(alloc /\ r \in H /\ Hole(r, s, e))
  <2>1. P = <<>>
    BY <1>2 DEF PinUpper
  <2>2. ToSet(P) = {} /\ P \in Seq(RangesOf(a)) /\ Len(P) <= 1
    BY <2>1 DEF ToSet
  <2>3. PinRest(H, r, s, e) \in Seq(RangesOf(a))
    BY RestFacts
  <2>4. ToSet(PinPiece(H, r, s, e, alloc)) = ToSet(P) \cup ToSet(PinRest(H, r, s, e))
    <3> DEFINE R == PinRest(H, r, s, e)
    <3>1. P \in Seq(RangesOf(a)) /\ R \in Seq(RangesOf(a)) /\ PinPiece(H, r, s, e, alloc) = P \o R
      BY <2>2, <2>3 DEF PinPiece
    <3> HIDE DEF R
    <3>2. ToSet(P \o R) = ToSet(P) \cup ToSet(R)
      BY <3>1, ConcatSet
    <3> QED BY <3>1, <3>2 DEF R
  <2> QED BY <2>2, <2>4
<1> QED BY <1>1, <1>2

\* What a hole leaves in the place of the entry lies below the pages.
LEMMA HoleFacts ==
  ASSUME NEW a \in Area, NEW r \in RangesOf(a), NEW s \in Nat, NEW e \in Nat, NEW H,
         r \in H, Meets(r, s, e), Hole(r, s, e)
  PROVE  PinRest(H, r, s, e) = <<Lower(r, s)>> /\ Lower(r, s).pgend < s
<1>1. r.pgstart \in Nat /\ r.pgend \in Nat /\ r.pgstart < s
  BY RangeType DEF Hole
<1>2. ~page_range_subsumes_range(r, s, e) /\ ~(r.pgstart >= s)
  BY <1>1 DEF page_range_subsumes_range
<1>3. Lower(r, s).pgend = s - 1
  BY <1>1, PartsType
<1> QED BY <1>1, <1>2, <1>3 DEF PinRest, Remainder

\* The entries that stay on the LRU list, with what is left of them, and those added.
KeptOnLru(l, H, s, e) == FlattenSeq([i \in 1 .. Len(l) |-> PinRest(H, l[i], s, e)])
AddedToLru(q, H, s, e, alloc) ==
  OnLru(FlattenSeq([i \in 1 .. Len(q) |-> PinUpper(H, q[i], s, e, alloc)]))

\* x is what ashmem_pin adds for a range of q.
AddedFor(x, q, H, s, e, alloc) ==
  ~x.purged /\ \E r \in ToSet(q) : x \in ToSet(PinUpper(H, r, s, e, alloc))

\* The entries that stay.
LEMMA PinKept ==
  ASSUME NEW a \in Area, NEW l \in Seq(AshmemRange), \A r \in ToSet(l) : LruEntry(r), Separate(l),
         NEW s \in Nat, NEW e \in Nat, NEW H, \A r \in H : Meets(r, s, e),
         NEW F, F = KeptOnLru(l, H, s, e)
  PROVE  /\ F \in Seq(AshmemRange) /\ Separate(F)
         /\ ToSet(F) = UNION {ToSet(PinRest(H, r, s, e)) : r \in ToSet(l)}
         /\ \A r \in ToSet(l) : \A x \in ToSet(PinRest(H, r, s, e)) : PartOf(x, r, r.asma, H, s, e)
<1> DEFINE n == Len(l)
           ss == [i \in 1 .. n |-> PinRest(H, l[i], s, e)]
<1>1. n \in Nat /\ \A i \in 1 .. n : l[i] \in ToSet(l)
  BY DEF ToSet
<1>2. ToSet(l) = {l[i] : i \in 1 .. n}
  BY DEF ToSet
<1>3. ASSUME NEW r \in ToSet(l)
      PROVE  /\ r.asma \in Area /\ r \in RangesOf(r.asma)
             /\ PinRest(H, r, s, e) \in Seq(RangesOf(r.asma)) /\ Len(PinRest(H, r, s, e)) <= 1
             /\ \A x \in ToSet(PinRest(H, r, s, e)) : PartOf(x, r, r.asma, H, s, e)
  <2>1. r.asma \in Area /\ r \in RangesOf(r.asma)
    BY DEF LruEntry, RangesOf, AshmemRange
  <2>2. r \in H => Meets(r, s, e)
    OBVIOUS
  <2> QED BY <2>1, <2>2, RestFacts
<1>4. ASSUME NEW r \in ToSet(l) PROVE PinRest(H, r, s, e) \in Seq(AshmemRange)
  <2>1. RangesOf(r.asma) \subseteq AshmemRange
    BY DEF RangesOf
  <2> DEFINE R == PinRest(H, r, s, e)
             D == RangesOf(r.asma)
  <2>2. R \in Seq(D) /\ D \subseteq AshmemRange
    BY <1>3, <2>1
  <2> HIDE DEF R, D
  <2>3. R \in Seq(AshmemRange)
    BY <2>2
  <2> QED BY <2>3 DEF R
<1>5. ss \in Seq(Seq(AshmemRange)) /\ Len(ss) = n /\ F = FlattenSeq(ss)
      /\ \A i \in 1 .. n : ss[i] = PinRest(H, l[i], s, e)
  BY <1>1, <1>4 DEF KeptOnLru
<1> HIDE DEF ss
<1>6. F \in Seq(AshmemRange) /\ ToSet(F) = UNION {ToSet(ss[i]) : i \in 1 .. n}
  BY <1>5, FlattenFacts, FlattenElements
<1>7. Separate(F)
  <2>1. ASSUME NEW i \in 1 .. n
        PROVE  /\ Len(ss[i]) <= 1
               /\ \A x \in ToSet(ss[i]) : /\ x.asma = l[i].asma
                                          /\ l[i].pgstart <= x.pgstart /\ x.pgend <= l[i].pgend
    <3> DEFINE r == l[i]
    <3>1. r \in ToSet(l) /\ ss[i] = PinRest(H, r, s, e)
      BY <1>1, <1>5
    <3> HIDE DEF r
    <3>2. \A x \in ToSet(ss[i]) : PartOf(x, r, r.asma, H, s, e)
      BY <1>3, <3>1
    <3>3. Len(ss[i]) <= 1
      BY <1>3, <3>1
    <3>4. \A x \in ToSet(ss[i]) : x.asma = r.asma /\ r.pgstart <= x.pgstart /\ x.pgend <= r.pgend
      BY <3>2 DEF PartOf, RangesOf
    <3> QED BY <3>3, <3>4 DEF r
  <2> QED BY <1>5, <2>1, SeparatePieces
<1>8. UNION {ToSet(ss[i]) : i \in 1 .. n} = UNION {ToSet(PinRest(H, r, s, e)) : r \in ToSet(l)}
  <2>1. UNION {ToSet(ss[i]) : i \in 1 .. n} \subseteq UNION {ToSet(PinRest(H, r, s, e)) : r \in ToSet(l)}
    BY <1>1, <1>5
  <2>2. UNION {ToSet(PinRest(H, r, s, e)) : r \in ToSet(l)} \subseteq UNION {ToSet(ss[i]) : i \in 1 .. n}
    BY <1>2, <1>5
  <2> QED BY <2>1, <2>2
<1> QED BY <1>3, <1>6, <1>7, <1>8

\* The ranges that are added.
LEMMA PinAdded ==
  ASSUME NEW a \in Area, NEW q \in Seq(RangesOf(a)), Descending(q),
         NEW s \in Nat, NEW e \in Nat, NEW H, \A r \in H : Meets(r, s, e), NEW alloc \in BOOLEAN,
         NEW G, G = AddedToLru(q, H, s, e, alloc)
  PROVE  /\ G \in Seq(RangesOf(a)) /\ Separate(G)
         /\ \A x : x \in ToSet(G) <=> AddedFor(x, q, H, s, e, alloc)
<1> DEFINE n == Len(q)
           ss == [i \in 1 .. n |-> PinUpper(H, q[i], s, e, alloc)]
           D == FlattenSeq(ss)
<1>1. n \in Nat /\ \A i \in 1 .. n : q[i] \in ToSet(q) /\ q[i] \in RangesOf(a)
  BY DEF ToSet
<1>2. ToSet(q) = {q[i] : i \in 1 .. n}
  BY DEF ToSet
<1>3. ASSUME NEW r \in RangesOf(a)
      PROVE  /\ PinUpper(H, r, s, e, alloc) \in Seq(RangesOf(a)) /\ Len(PinUpper(H, r, s, e, alloc)) <= 1
             /\ \A x \in ToSet(PinUpper(H, r, s, e, alloc)) : PartOf(x, r, a, H, s, e)
  <2>1. r \in H => Meets(r, s, e)
    OBVIOUS
  <2> QED BY <2>1, UpperFacts
<1>4. ss \in Seq(Seq(RangesOf(a))) /\ Len(ss) = n
      /\ \A i \in 1 .. n : ss[i] = PinUpper(H, q[i], s, e, alloc)
  BY <1>1, <1>3
<1>5. G = OnLru(D)
  BY DEF AddedToLru
<1> HIDE DEF ss
<1>6. D \in Seq(RangesOf(a)) /\ ToSet(D) = UNION {ToSet(ss[i]) : i \in 1 .. n}
  BY <1>4, FlattenFacts, FlattenElements
<1>7. RangesOf(a) \subseteq AshmemRange
  BY DEF RangesOf
<1>8. Separate(D)
  <2>1. ASSUME NEW i \in 1 .. n
        PROVE  /\ Len(ss[i]) <= 1
               /\ \A x \in ToSet(ss[i]) : /\ x.asma = q[i].asma
                                          /\ q[i].pgstart <= x.pgstart /\ x.pgend <= q[i].pgend
    <3> DEFINE r == q[i]
    <3>1. r \in RangesOf(a) /\ ss[i] = PinUpper(H, r, s, e, alloc)
      BY <1>1, <1>4
    <3> HIDE DEF r
    <3>2. Len(ss[i]) <= 1 /\ \A x \in ToSet(ss[i]) : PartOf(x, r, a, H, s, e)
      BY <1>3, <3>1
    <3>3. \A x \in ToSet(ss[i]) : x.asma = r.asma /\ r.pgstart <= x.pgstart /\ x.pgend <= r.pgend
      BY <3>1, <3>2 DEF PartOf, RangesOf
    <3> QED BY <3>2, <3>3 DEF r
  <2> DEFINE Z == RangesOf(a)
  <2>2. Z \subseteq AshmemRange /\ q \in Seq(Z) /\ ss \in Seq(Seq(Z))
    BY <1>4, <1>7
  <2> HIDE DEF Z
  <2>3. q \in Seq(AshmemRange) /\ ss \in Seq(Seq(AshmemRange))
    BY <2>2
  <2>4. Separate(q)
    BY DescendingSeparate
  <2> QED BY <1>4, <2>1, <2>3, <2>4, SeparatePieces
<1> HIDE DEF D
<1> DEFINE X == {r \in ToSet(D) : r.purged}
<1>9. G = Without(D, X)
  BY <1>5 DEF OnLru
<1> HIDE DEF X
<1>10. G \in Seq(RangesOf(a)) /\ Separate(G) /\ ToSet(G) = ToSet(D) \ X
  <2>1. Without(D, X) \in Seq(RangesOf(a))
    BY <1>6, WithoutFacts
  <2>2. ToSet(Without(D, X)) = ToSet(D) \ X
    BY <1>6, WithoutSet
  <2>3. Separate(Without(D, X))
    BY <1>6, <1>8, SeparateWithout
  <2> QED BY <1>9, <2>1, <2>2, <2>3
<1>11. \A x : x \in ToSet(D) <=> \E r \in ToSet(q) : x \in ToSet(PinUpper(H, r, s, e, alloc))
  BY <1>1, <1>2, <1>4, <1>6
<1>12. \A x : x \in ToSet(G) <=> x \in ToSet(D) /\ ~x.purged
  BY <1>10 DEF X
<1> QED BY <1>10, <1>11, <1>12 DEF AddedFor

\* ashmem_pin keeps the LRU list right.
LEMMA PinLru ==
  ASSUME NEW a \in Area, NEW lists, ListsOK(lists), NEW l, LruMatches(lists, l),
         NEW s \in Nat, NEW e \in Nat, NEW H, H \subseteq ToSet(lists[a]), \A r \in H : Meets(r, s, e),
         NEW alloc \in BOOLEAN,
         NEW lists2, \A b \in Area : b # a => lists2[b] = lists[b],
         ToSet(lists2[a]) = UNION {ToSet(PinPiece(H, r, s, e, alloc)) : r \in ToSet(lists[a])},
         NEW F, F = KeptOnLru(l, H, s, e), NEW G, G = AddedToLru(lists[a], H, s, e, alloc)
  PROVE  LruMatches(lists2, F \o G)
<1> DEFINE q == lists[a]
<1>1. q \in Seq(RangesOf(a)) /\ Descending(q)
  BY DEF ListsOK
<1>2. l \in Seq(AshmemRange) /\ (\A r \in ToSet(l) : LruEntry(r)) /\ Separate(l)
  BY DEF LruMatches
<1>3. \A r \in AshmemRange : NonEmpty(r) /\ ~r.purged => (r \in ToSet(l) <=> r \in ToSet(lists[r.asma]))
  BY DEF LruMatches
<1>4. /\ F \in Seq(AshmemRange) /\ Separate(F)
      /\ ToSet(F) = UNION {ToSet(PinRest(H, r, s, e)) : r \in ToSet(l)}
      /\ \A r \in ToSet(l) : \A x \in ToSet(PinRest(H, r, s, e)) : PartOf(x, r, r.asma, H, s, e)
  BY <1>2, PinKept
<1>5. G = AddedToLru(q, H, s, e, alloc)
  OBVIOUS
<1> HIDE DEF q
<1>6. /\ G \in Seq(RangesOf(a)) /\ Separate(G)
      /\ \A x : x \in ToSet(G) <=> AddedFor(x, q, H, s, e, alloc)
  BY <1>1, <1>5, PinAdded
<1>7. /\ \A r \in ToSet(q) : r \in RangesOf(a) /\ r \in AshmemRange /\ r.asma = a
      /\ \A r \in ToSet(l) : r \in AshmemRange /\ r.asma \in Area /\ r \in RangesOf(r.asma) /\ ~r.purged
      /\ H \subseteq ToSet(q)
  <2>1. \A r \in ToSet(q) : r \in RangesOf(a)
    BY <1>1 DEF ToSet
  <2>2. \A r \in ToSet(q) : r \in AshmemRange /\ r.asma = a
    BY <2>1 DEF RangesOf
  <2>3. \A r \in ToSet(l) : r \in AshmemRange /\ r.asma \in Area /\ r \in RangesOf(r.asma) /\ ~r.purged
    BY <1>2 DEF LruEntry, RangesOf, AshmemRange
  <2>4. H \subseteq ToSet(q)
    BY DEF q
  <2> QED BY <2>1, <2>2, <2>3, <2>4
\* A part with pages is of a range with pages, and the range is in both lists or in none.
<1>8. ASSUME NEW b \in Area, NEW r \in RangesOf(b), NEW x, PartOf(x, r, b, H, s, e), NonEmpty(x), ~x.purged
      PROVE  /\ NonEmpty(r) /\ ~r.purged /\ x \in AshmemRange /\ x.asma = b
             /\ r \in ToSet(l) <=> r \in ToSet(lists[b])
  <2>1. x \in RangesOf(b) /\ x.purged = r.purged /\ r.pgstart <= x.pgstart /\ x.pgend <= r.pgend
    BY <1>8 DEF PartOf
  <2>2. /\ x.pgstart \in Nat /\ x.pgend \in Nat /\ r.pgstart \in Nat /\ r.pgend \in Nat
        /\ r.asma = b /\ x.asma = b /\ r \in AshmemRange /\ x \in AshmemRange
    BY <2>1, RangeType
  <2>3. NonEmpty(r)
    BY <1>8, <2>1, <2>2 DEF NonEmpty
  <2> QED BY <1>3, <1>8, <2>1, <2>2, <2>3
<1>9. ASSUME NEW r \in ToSet(q)
      PROVE  /\ \A x \in ToSet(PinPiece(H, r, s, e, alloc)) : PartOf(x, r, a, H, s, e)
             /\ ToSet(PinPiece(H, r, s, e, alloc))
                  = ToSet(PinUpper(H, r, s, e, alloc)) \cup ToSet(PinRest(H, r, s, e))
             /\ \A x \in ToSet(PinUpper(H, r, s, e, alloc)) :
                   NonEmpty(x) /\ r \in H /\ Hole(r, s, e) /\ x = Upper(r, e)
  <2>1. r \in RangesOf(a) /\ (r \in H => Meets(r, s, e))
    BY <1>7
  <2>2. \A x \in ToSet(PinPiece(H, r, s, e, alloc)) : PartOf(x, r, a, H, s, e)
    BY <2>1, PieceFacts
  <2>3. /\ ToSet(PinPiece(H, r, s, e, alloc))
              = ToSet(PinUpper(H, r, s, e, alloc)) \cup ToSet(PinRest(H, r, s, e))
        /\ \A x \in ToSet(PinUpper(H, r, s, e, alloc)) :
               NonEmpty(x) /\ r \in H /\ Hole(r, s, e) /\ x = Upper(r, e)
    BY <2>1, UpperFacts
  <2> QED BY <2>2, <2>3
<1>10. ASSUME NEW x \in ToSet(F), NEW y \in ToSet(G) PROVE ~Overlap(x, y)
  <2>1. PICK r \in ToSet(l) : x \in ToSet(PinRest(H, r, s, e))
    BY <1>4
  <2>2. PICK h \in ToSet(q) : y \in ToSet(PinUpper(H, h, s, e, alloc)) /\ ~y.purged
    BY <1>6 DEF AddedFor
  <2>3. /\ h \in H /\ Hole(h, s, e) /\ y = Upper(h, e) /\ NonEmpty(y) /\ PartOf(y, h, a, H, s, e)
        /\ h \in RangesOf(a) /\ Meets(h, s, e)
    BY <1>7, <1>9, <2>2
  <2>4. PartOf(x, r, r.asma, H, s, e) /\ r.asma \in Area /\ r \in RangesOf(r.asma) /\ ~r.purged
    BY <1>4, <1>7, <2>1
  <2>5. /\ x \in AshmemRange /\ y \in AshmemRange /\ r \in AshmemRange /\ h \in AshmemRange
        /\ x.asma = r.asma /\ r.pgstart <= x.pgstart /\ x.pgend <= r.pgend
        /\ y.asma = h.asma /\ h.pgstart <= y.pgstart /\ y.pgend <= h.pgend /\ h.asma = a
    BY <2>3, <2>4 DEF PartOf, RangesOf
  <2>6. SUFFICES ASSUME Overlap(x, y) PROVE FALSE
    OBVIOUS
  <2>7. Overlap(r, h)
    BY <2>5, <2>6, OverlapFacts
  <2>8. PICK p \in Nat : page_in_range(r, p) /\ r.asma = h.asma
    BY <2>7 DEF Overlap
  <2>9. NonEmpty(r)
    BY <2>5, <2>8 DEF NonEmpty, page_in_range, AshmemRange, Page
  <2>10. r \in ToSet(q)
    BY <1>3, <2>1, <2>4, <2>5, <2>8, <2>9 DEF q
  <2>11. r = h
    BY <1>1, <2>7, <2>10, DescendingSeparate
  <2>12. PinRest(H, h, s, e) = <<Lower(h, s)>> /\ Lower(h, s).pgend < s
    BY <2>3, HoleFacts
  <2>13. x.pgend < s
    BY <2>1, <2>11, <2>12 DEF ToSet
  <2>14. y.pgstart = e + 1 /\ s <= e
    BY <2>3, PartsType DEF Hole, Meets
  <2>15. PICK z \in Nat : page_in_range(x, z) /\ page_in_range(y, z)
    BY <2>6 DEF Overlap
  <2> QED BY <2>5, <2>13, <2>14, <2>15 DEF page_in_range, AshmemRange, Page
<1>11. G \in Seq(AshmemRange)
  <2> DEFINE Z == RangesOf(a)
  <2>1. Z \subseteq AshmemRange /\ G \in Seq(Z)
    BY <1>6 DEF RangesOf
  <2> HIDE DEF Z
  <2> QED BY <2>1
<1>12. F \o G \in Seq(AshmemRange) /\ ToSet(F \o G) = ToSet(F) \cup ToSet(G) /\ Separate(F \o G)
  <2>1. F \o G \in Seq(AshmemRange) /\ ToSet(F \o G) = ToSet(F) \cup ToSet(G)
    BY <1>4, <1>11, ConcatSet
  <2> QED BY <1>4, <1>6, <1>10, <1>11, <2>1, SeparateConcat
<1>13. ASSUME NEW x \in ToSet(F \o G) PROVE LruEntry(x)
  <2>1. CASE x \in ToSet(F)
    <3>1. PICK r \in ToSet(l) : x \in ToSet(PinRest(H, r, s, e))
      BY <1>4, <2>1
    <3>2. PartOf(x, r, r.asma, H, s, e) /\ ~r.purged
      BY <1>4, <1>7, <3>1
    <3> QED BY <3>2 DEF PartOf, LruEntry, RangesOf
  <2>2. CASE x \in ToSet(G)
    <3>1. ~x.purged
      BY <1>6, <2>2 DEF AddedFor
    <3>2. x \in RangesOf(a)
      BY <1>6, <2>2 DEF ToSet
    <3> QED BY <3>1, <3>2 DEF LruEntry, RangesOf
  <2> QED BY <1>12, <2>1, <2>2
<1>14. ASSUME NEW x \in AshmemRange, NonEmpty(x), ~x.purged
       PROVE  x \in ToSet(F \o G) <=> x \in ToSet(lists2[x.asma])
  <2>1. x.asma \in Area
    BY DEF AshmemRange
  <2>2. CASE x.asma # a
    <3>1. x \in ToSet(F) <=> x \in ToSet(l)
      <4>1. ASSUME NEW r \in ToSet(l), x \in ToSet(PinRest(H, r, s, e)) PROVE x = r
        <5>1. PartOf(x, r, r.asma, H, s, e)
          BY <1>4, <4>1
        <5>2. r.asma = x.asma
          BY <5>1 DEF PartOf, RangesOf
        <5>3. r \notin H
          BY <1>7, <2>2, <5>2
        <5> QED BY <5>1, <5>3 DEF PartOf
      <4>2. ASSUME x \in ToSet(l) PROVE x \in ToSet(PinRest(H, x, s, e))
        <5>1. x \notin H
          BY <1>7, <2>2
        <5>2. PinRest(H, x, s, e) = <<x>>
          BY <5>1 DEF PinRest
        <5> QED BY <5>2 DEF ToSet
      <4> QED BY <1>4, <4>1, <4>2
    <3>2. x \notin ToSet(G)
      <4>1. \A y \in ToSet(G) : y \in RangesOf(a)
        BY <1>6 DEF ToSet
      <4> QED BY <2>2, <4>1 DEF RangesOf
    <3>3. lists2[x.asma] = lists[x.asma]
      BY <2>1, <2>2
    <3> QED BY <1>3, <1>12, <1>14, <3>1, <3>2, <3>3
  <2>3. CASE x.asma = a
    <3>1. ASSUME x \in ToSet(F) PROVE x \in ToSet(lists2[a])
      <4>1. PICK r \in ToSet(l) : x \in ToSet(PinRest(H, r, s, e))
        BY <1>4, <3>1
      <4>2. PartOf(x, r, r.asma, H, s, e) /\ r.asma \in Area /\ r \in RangesOf(r.asma)
        BY <1>4, <1>7, <4>1
      <4>3. r.asma = a /\ r \in ToSet(lists[r.asma])
        BY <1>8, <1>14, <2>3, <4>1, <4>2
      <4>4. r \in ToSet(q)
        BY <4>3 DEF q
      <4> QED BY <1>9, <4>1, <4>4 DEF q
    <3>2. ASSUME x \in ToSet(G) PROVE x \in ToSet(lists2[a])
      BY <1>6, <1>9, <3>2 DEF q, AddedFor
    <3>3. ASSUME x \in ToSet(lists2[a]) PROVE x \in ToSet(F) \cup ToSet(G)
      <4>1. PICK r \in ToSet(q) : x \in ToSet(PinPiece(H, r, s, e, alloc))
        BY <3>3 DEF q
      <4>2. PartOf(x, r, a, H, s, e) /\ r \in RangesOf(a)
        BY <1>7, <1>9, <4>1
      <4>3. r \in ToSet(l)
        BY <1>8, <1>14, <4>1, <4>2 DEF q
      <4>4. x \in ToSet(PinUpper(H, r, s, e, alloc)) \/ x \in ToSet(PinRest(H, r, s, e))
        BY <1>9, <4>1
      <4> QED BY <1>4, <1>6, <1>14, <4>1, <4>3, <4>4 DEF AddedFor
    <3> QED BY <1>12, <2>3, <3>1, <3>2, <3>3
  <2> QED BY <2>2, <2>3
<1> QED BY <1>12, <1>13, <1>14 DEF LruMatches

\* A new range goes to the LRU list if it is not purged.
LEMMA OnLruOne ==
  ASSUME NEW a \in Area, NEW N \in RangesOf(a), NEW alloc \in BOOLEAN,
         NEW M, M = OnLru(IF alloc THEN <<N>> ELSE <<>>)
  PROVE  M \in Seq(RangesOf(a)) /\ Separate(M) /\ \A x : x \in ToSet(M) <=> alloc /\ x = N /\ ~N.purged
<1> DEFINE t == IF alloc THEN <<N>> ELSE <<>>
           X == {r \in ToSet(t) : r.purged}
<1>1. t \in Seq(RangesOf(a)) /\ Len(t) <= 1 /\ Len(t) \in Nat
  OBVIOUS
<1>2. \A x : x \in ToSet(t) <=> alloc /\ x = N
  BY DEF ToSet
<1>3. Separate(t)
  BY <1>1 DEF Separate
<1>4. M = Without(t, X)
  BY DEF OnLru
<1> HIDE DEF t
<1>5. \A x : x \in X <=> x \in ToSet(t) /\ x.purged
  OBVIOUS
<1> HIDE DEF X
<1>6. Without(t, X) \in Seq(RangesOf(a)) /\ ToSet(Without(t, X)) = ToSet(t) \ X
  BY <1>1, WithoutFacts, WithoutSet
<1>7. Separate(Without(t, X))
  BY <1>1, <1>3, SeparateWithout
<1> QED BY <1>2, <1>4, <1>5, <1>6, <1>7

\* ashmem_unpin keeps the LRU list right.
LEMMA UnpinLru ==
  ASSUME NEW a \in Area, NEW lists, ListsOK(lists), NEW l, LruMatches(lists, l),
         NEW H, H \subseteq ToSet(lists[a]), NEW N \in RangesOf(a), NEW alloc \in BOOLEAN,
         alloc => \A r \in ToSet(lists[a]) : r \notin H => r.pgend < N.pgstart \/ r.pgstart > N.pgend,
         NEW lists2, \A b \in Area : b # a => lists2[b] = lists[b],
         ToSet(lists2[a]) = (ToSet(lists[a]) \ H) \cup (IF alloc THEN {N} ELSE {}),
         NEW M, M = OnLru(IF alloc THEN <<N>> ELSE <<>>)
  PROVE  LruMatches(lists2, Without(l, H) \o M)
<1> DEFINE W == Without(l, H)
<1>1. l \in Seq(AshmemRange) /\ (\A r \in ToSet(l) : LruEntry(r)) /\ Separate(l)
  BY DEF LruMatches
<1>2. \A r \in AshmemRange : NonEmpty(r) /\ ~r.purged => (r \in ToSet(l) <=> r \in ToSet(lists[r.asma]))
  BY DEF LruMatches
<1>3. M \in Seq(RangesOf(a)) /\ Separate(M) /\ \A x : x \in ToSet(M) <=> alloc /\ x = N /\ ~N.purged
  BY OnLruOne
<1>4. W \in Seq(AshmemRange) /\ Separate(W) /\ ToSet(W) = ToSet(l) \ H
  BY <1>1, WithoutFacts, WithoutSet, SeparateWithout
<1> HIDE DEF W
<1>5. N \in AshmemRange /\ N.asma = a /\ N.pgstart \in Nat /\ N.pgend \in Nat /\ N.pgstart <= N.pgend + 1
  BY RangeType
<1>6. M \in Seq(AshmemRange)
  <2> DEFINE Z == RangesOf(a)
  <2>1. Z \subseteq AshmemRange /\ M \in Seq(Z)
    BY <1>3 DEF RangesOf
  <2> HIDE DEF Z
  <2> QED BY <2>1
<1>7. \A r \in H : r.asma = a
  <2>1. lists[a] \in Seq(RangesOf(a))
    BY DEF ListsOK
  <2>2. \A r \in ToSet(lists[a]) : r \in RangesOf(a)
    BY <2>1 DEF ToSet
  <2> QED BY <2>2 DEF RangesOf
<1>8. ASSUME NEW x \in ToSet(W), NEW y \in ToSet(M) PROVE ~Overlap(x, y)
  <2>1. alloc /\ y = N /\ x \in ToSet(l) /\ x \notin H
    BY <1>3, <1>4
  <2>2. x \in AshmemRange /\ ~x.purged
    BY <1>1, <2>1 DEF LruEntry
  <2>3. SUFFICES ASSUME Overlap(x, N) PROVE FALSE
    BY <2>1
  <2>4. PICK p \in Nat : page_in_range(x, p) /\ page_in_range(N, p) /\ x.asma = a
    BY <1>5, <2>3 DEF Overlap
  <2>5. x.pgstart \in Nat /\ x.pgend \in Nat
    BY <2>2 DEF AshmemRange, Page
  <2>6. NonEmpty(x)
    BY <2>4, <2>5 DEF NonEmpty, page_in_range
  <2>7. x \in ToSet(lists[a])
    BY <1>2, <2>1, <2>2, <2>4, <2>6
  <2> QED BY <1>5, <2>1, <2>4, <2>5, <2>7 DEF page_in_range
<1>9. W \o M \in Seq(AshmemRange) /\ ToSet(W \o M) = ToSet(W) \cup ToSet(M)
  BY <1>4, <1>6, ConcatSet
<1>10. Separate(W \o M)
  BY <1>3, <1>4, <1>6, <1>8, SeparateConcat
<1>11. ASSUME NEW x \in ToSet(W \o M) PROVE LruEntry(x)
  <2>1. CASE x \in ToSet(W)
    BY <1>1, <1>4, <2>1
  <2>2. CASE x \in ToSet(M)
    BY <1>3, <1>5, <2>2 DEF LruEntry
  <2> QED BY <1>9, <2>1, <2>2
<1>12. ASSUME NEW x \in AshmemRange, NonEmpty(x), ~x.purged
       PROVE  x \in ToSet(W \o M) <=> x \in ToSet(lists2[x.asma])
  <2>1. x \in ToSet(W \o M) <=> (x \in ToSet(lists[x.asma]) /\ x \notin H) \/ (alloc /\ x = N)
    BY <1>2, <1>3, <1>4, <1>9, <1>12
  <2>2. CASE x.asma = a
    BY <2>1, <2>2
  <2>3. CASE x.asma # a
    <3>1. x.asma \in Area
      BY DEF AshmemRange
    <3>2. lists2[x.asma] = lists[x.asma] /\ x # N /\ x \notin H
      BY <1>5, <1>7, <2>3, <3>1
    <3> QED BY <2>1, <3>2
  <2> QED BY <2>2, <2>3
<1>13. LruMatches(lists2, W \o M)
  BY <1>9, <1>10, <1>11, <1>12 DEF LruMatches
<1> QED BY <1>13 DEF W

\* ashmem_release keeps the LRU list right.
LEMMA ReleaseLru ==
  ASSUME NEW a \in Area, NEW lists, ListsOK(lists), NEW l, LruMatches(lists, l),
         NEW lists2, \A b \in Area : b # a => lists2[b] = lists[b], lists2[a] = <<>>
  PROVE  LruMatches(lists2, Without(l, {r \in ToSet(l) : r.asma = a}))
<1> DEFINE X == {r \in ToSet(l) : r.asma = a}
           W == Without(l, X)
<1>1. l \in Seq(AshmemRange) /\ (\A r \in ToSet(l) : LruEntry(r)) /\ Separate(l)
  BY DEF LruMatches
<1>2. \A r \in AshmemRange : NonEmpty(r) /\ ~r.purged => (r \in ToSet(l) <=> r \in ToSet(lists[r.asma]))
  BY DEF LruMatches
<1>3. \A x : x \in X <=> x \in ToSet(l) /\ x.asma = a
  OBVIOUS
<1> HIDE DEF X
<1>4. W \in Seq(AshmemRange) /\ Separate(W) /\ ToSet(W) = ToSet(l) \ X
  BY <1>1, WithoutFacts, WithoutSet, SeparateWithout
<1> HIDE DEF W
<1>5. \A x \in ToSet(W) : LruEntry(x)
  BY <1>1, <1>4
<1>6. ASSUME NEW x \in AshmemRange, NonEmpty(x), ~x.purged
      PROVE  x \in ToSet(W) <=> x \in ToSet(lists2[x.asma])
  <2>1. CASE x.asma = a
    <3>1. ToSet(lists2[a]) = {}
      BY DEF ToSet
    <3> QED BY <1>3, <1>4, <2>1, <3>1
  <2>2. CASE x.asma # a
    <3>1. x.asma \in Area
      BY DEF AshmemRange
    <3> QED BY <1>2, <1>3, <1>4, <1>6, <2>2, <3>1
  <2> QED BY <2>1, <2>2
<1>7. LruMatches(lists2, W)
  BY <1>4, <1>5, <1>6 DEF LruMatches
<1> QED BY <1>7 DEF W, X

-----------------------------------------------------------------------------
(* The shrinker.                                                           *)

\* How often r is in f.
Times(f, r) == Cardinality({i \in 1 .. Len(f) : f[i] = r})

\* What ashmem_shrink makes of the list q when it purges the entries f.
PruneList(q, f) ==
  [i \in 1 .. Len(q) |->
     IF Nth(q, i) <= Times(f, q[i]) THEN [q[i] EXCEPT !.purged = TRUE] ELSE q[i]]

\* x is what r has become.
PrunedEntry(x, r, f) ==
  /\ x.asma = r.asma /\ x.pgstart = r.pgstart /\ x.pgend = r.pgend
  /\ x = r \/ x.purged
  /\ NonEmpty(r) => (x.purged <=> r.purged \/ r \in ToSet(f))

\* new is the list q after the entries f were purged.
Marked(new, q, f) == Len(new) = Len(q) /\ \A i \in 1 .. Len(q) : PrunedEntry(new[i], q[i], f)

\* The list is cut in two.
FirstOf(l, k) == SubSeq(l, 1, k)
RestOf(l, k) == SubSeq(l, k + 1, Len(l))
IsCut(f, t, l, k) ==
  /\ Len(f) = k /\ Len(t) = Len(l) - k
  /\ (\A i \in 1 .. k : f[i] = l[i]) /\ (\A i \in 1 .. Len(l) - k : t[i] = l[k + i])

\* A range with pages is in a list at most once.
LEMMA SeparateUnique ==
  ASSUME NEW A \in SUBSET AshmemRange, NEW q \in Seq(A), Separate(q),
         NEW i \in 1 .. Len(q), NEW j \in 1 .. Len(q), q[i] = q[j], NonEmpty(q[i])
  PROVE  i = j
<1> DEFINE r == q[i]
<1>1. r \in AshmemRange /\ q[j] = r
  OBVIOUS
<1>2. r.pgstart \in Nat /\ page_in_range(r, r.pgstart)
  BY <1>1 DEF AshmemRange, Page, NonEmpty, page_in_range
<1>3. Overlap(r, r)
  BY <1>2 DEF Overlap
<1>4. ~(i < j) /\ ~(j < i)
  <2> HIDE DEF r
  <2>1. q[i] = r
    BY DEF r
  <2> QED BY <1>1, <1>3, <2>1 DEF Separate
<1> QED BY <1>4

\* ashmem_shrink marks the entries of the list that it purges.
LEMMA PruneFacts ==
  ASSUME NEW a \in Area, NEW q \in Seq(RangesOf(a)), Descending(q),
         NEW f \in Seq(AshmemRange), Separate(f), NEW new, new = PruneList(q, f)
  PROVE  new \in Seq(RangesOf(a)) /\ Descending(new) /\ Marked(new, q, f)
<1>1. Len(q) \in Nat /\ \A i \in 1 .. Len(q) : q[i] \in RangesOf(a)
  OBVIOUS
<1>2. RangesOf(a) \subseteq AshmemRange
  BY DEF RangesOf
<1>3. ASSUME NEW r \in RangesOf(a)
      PROVE  /\ [r EXCEPT !.purged = TRUE] \in RangesOf(a)
             /\ [r EXCEPT !.purged = TRUE].purged
             /\ [r EXCEPT !.purged = TRUE].asma = r.asma
             /\ [r EXCEPT !.purged = TRUE].pgstart = r.pgstart
             /\ [r EXCEPT !.purged = TRUE].pgend = r.pgend
  BY DEF RangesOf, AshmemRange
<1>4. ASSUME NEW i \in 1 .. Len(q), NonEmpty(q[i])
      PROVE  Nth(q, i) <= Times(f, q[i]) <=> q[i] \in ToSet(f)
  <2> DEFINE r == q[i]
             S == {j \in 1 .. i : q[j] = q[i]}
             T == {j \in 1 .. Len(f) : f[j] = r}
  <2>1. Separate(q)
    BY DescendingSeparate
  <2>2. S = {i}
    <3>1. \A j \in S : j \in 1 .. Len(q) /\ q[i] = q[j]
      BY <1>1
    <3>2. \A j \in S : j = i
      BY <1>2, <1>4, <2>1, <3>1, SeparateUnique
    <3> QED BY <3>2
  <2>3. Nth(q, i) = 1
    BY <2>2, FS_Singleton DEF Nth
  <2>4. Times(f, r) = Cardinality(T)
    BY DEF Times
  <2>5. CASE r \in ToSet(f)
    <3>1. PICK j \in 1 .. Len(f) : f[j] = r
      BY <2>5 DEF ToSet
    <3>2. \A m \in T : m \in 1 .. Len(f) /\ f[j] = f[m]
      BY <3>1
    <3>3. NonEmpty(f[j])
      BY <1>4, <3>1
    <3>4. \A m \in T : m = j
      BY <3>2, <3>3, SeparateUnique
    <3>5. T = {j}
      BY <3>1, <3>4
    <3>6. Cardinality(T) = 1
      BY <3>5, FS_Singleton
    <3> QED BY <2>3, <2>4, <2>5, <3>6
  <2>6. CASE r \notin ToSet(f)
    <3>1. T = {}
      BY <2>6 DEF ToSet
    <3>2. Cardinality(T) = 0
      BY <3>1, FS_EmptySet
    <3> QED BY <2>3, <2>4, <2>6, <3>2
  <2> QED BY <2>5, <2>6
<1>5. /\ DOMAIN new = 1 .. Len(q)
      /\ \A i \in 1 .. Len(q) :
            new[i] = IF Nth(q, i) <= Times(f, q[i]) THEN [q[i] EXCEPT !.purged = TRUE] ELSE q[i]
      /\ new = [i \in 1 .. Len(q) |-> new[i]]
  BY DEF PruneList
<1>6. ASSUME NEW i \in 1 .. Len(q)
      PROVE  new[i] \in RangesOf(a) /\ PrunedEntry(new[i], q[i], f)
  <2> DEFINE r == q[i]
             x == new[i]
             c == Nth(q, i) <= Times(f, q[i])
  <2>1. r \in RangesOf(a) /\ x = IF c THEN [r EXCEPT !.purged = TRUE] ELSE r
    BY <1>1, <1>5
  <2>2. NonEmpty(r) => (c <=> r \in ToSet(f))
    BY <1>4
  <2> HIDE DEF r, x, c
  <2>3. x \in RangesOf(a) /\ PrunedEntry(x, r, f)
    <3>1. CASE c
      BY <1>3, <2>1, <2>2, <3>1 DEF PrunedEntry
    <3>2. CASE ~c
      BY <2>1, <2>2, <3>2 DEF PrunedEntry
    <3> QED BY <3>1, <3>2
  <2> QED BY <2>3 DEF r, x
<1>7. new \in Seq(RangesOf(a)) /\ Len(new) = Len(q)
  BY <1>1, <1>5, <1>6
<1>8. Descending(new)
  BY <1>6, <1>7 DEF Descending, PrunedEntry
<1> QED BY <1>6, <1>7, <1>8 DEF Marked

\* What the two parts are.
LEMMA CutFacts ==
  ASSUME NEW A, NEW l \in Seq(A), NEW k \in 0 .. Len(l),
         NEW f, f = FirstOf(l, k), NEW t, t = RestOf(l, k)
  PROVE  f \in Seq(A) /\ t \in Seq(A) /\ IsCut(f, t, l, k)
<1>1. Len(l) \in Nat
  OBVIOUS
<1>2. f \in Seq(A) /\ Len(f) = k /\ \A i \in 1 .. k : f[i] = l[i]
  BY <1>1 DEF FirstOf
<1>3. t \in Seq(A) /\ Len(t) = Len(l) - k /\ \A i \in 1 .. Len(l) - k : t[i] = l[k + i]
  BY <1>1 DEF RestOf
<1> QED BY <1>2, <1>3 DEF IsCut

\* The halves of a list without overlaps.
LEMMA SeparateCut ==
  ASSUME NEW l \in Seq(AshmemRange), Separate(l), NEW k \in 0 .. Len(l),
         NEW f \in Seq(AshmemRange), NEW t \in Seq(AshmemRange), IsCut(f, t, l, k)
  PROVE  /\ Separate(f) /\ Separate(t)
         /\ ToSet(l) = ToSet(f) \cup ToSet(t)
         /\ \A x \in ToSet(f) : NonEmpty(x) => x \notin ToSet(t)
<1>1. /\ Len(f) = k /\ Len(t) = Len(l) - k
      /\ (\A i \in 1 .. k : f[i] = l[i]) /\ (\A i \in 1 .. Len(l) - k : t[i] = l[k + i])
  BY DEF IsCut
<1>2. Len(l) \in Nat /\ ToSet(l) = {l[i] : i \in 1 .. Len(l)}
  BY DEF ToSet
<1>3. \A x : x \in ToSet(f) <=> \E i \in 1 .. k : x = l[i]
  <2>1. \A x : x \in ToSet(f) <=> \E i \in 1 .. Len(f) : x = f[i]
    BY <1>1, ElementsOf
  <2> QED BY <1>1, <2>1
<1>4. \A x : x \in ToSet(t) <=> \E i \in 1 .. Len(l) - k : x = l[k + i]
  <2>1. \A x : x \in ToSet(t) <=> \E i \in 1 .. Len(t) : x = t[i]
    BY <1>1, ElementsOf
  <2> DEFINE m == Len(l) - k
  <2>2. Len(t) = m /\ \A i \in 1 .. m : t[i] = l[k + i]
    BY <1>1
  <2> HIDE DEF m
  <2>3. \A x : x \in ToSet(t) <=> \E i \in 1 .. m : x = l[k + i]
    BY <2>1, <2>2
  <2> QED BY <2>3 DEF m
<1>5. Separate(f)
  <2>1. ASSUME NEW i \in 1 .. Len(f), NEW j \in 1 .. Len(f), i < j PROVE ~Overlap(f[i], f[j])
    <3>1. i \in 1 .. Len(l) /\ j \in 1 .. Len(l) /\ f[i] = l[i] /\ f[j] = l[j]
      BY <1>1, <1>2
    <3> QED BY <2>1, <3>1 DEF Separate
  <2> QED BY <2>1 DEF Separate
<1>6. Separate(t)
  <2>1. ASSUME NEW i \in 1 .. Len(t), NEW j \in 1 .. Len(t), i < j PROVE ~Overlap(t[i], t[j])
    <3>1. k + i \in 1 .. Len(l) /\ k + j \in 1 .. Len(l) /\ k + i < k + j /\ t[i] = l[k + i] /\ t[j] = l[k + j]
      BY <1>1, <1>2, <2>1
    <3> QED BY <3>1 DEF Separate
  <2> QED BY <2>1 DEF Separate
<1>7. ToSet(l) = ToSet(f) \cup ToSet(t)
  <2>1. ASSUME NEW i \in 1 .. Len(l) PROVE l[i] \in ToSet(f) \cup ToSet(t)
    <3>1. CASE i <= k
      BY <1>3, <3>1
    <3>2. CASE i > k
      <4>1. i - k \in 1 .. Len(l) - k /\ k + (i - k) = i
        BY <1>2, <3>2
      <4> QED BY <1>4, <4>1
    <3> QED BY <1>2, <3>1, <3>2
  <2>2. ToSet(f) \subseteq ToSet(l)
    BY <1>2, <1>3
  <2>3. ToSet(t) \subseteq ToSet(l)
    BY <1>2, <1>4
  <2> QED BY <1>2, <2>1, <2>2, <2>3
<1>8. ASSUME NEW x \in ToSet(f), NonEmpty(x), x \in ToSet(t) PROVE FALSE
  <2>1. PICK i \in 1 .. k : x = l[i]
    BY <1>3
  <2>2. PICK j \in 1 .. Len(l) - k : x = l[k + j]
    BY <1>4, <1>8
  <2>3. i \in 1 .. Len(l) /\ k + j \in 1 .. Len(l) /\ i # k + j /\ l[i] = l[k + j] /\ NonEmpty(l[i])
    BY <1>2, <1>8, <2>1, <2>2
  <2> QED BY <2>3, SeparateUnique
<1> QED BY <1>1, <1>5, <1>6, <1>7, <1>8

\* ashmem_shrink keeps the LRU list right.
LEMMA ShrinkLru ==
  ASSUME NEW lists, ListsOK(lists), NEW l, LruMatches(lists, l), NEW k \in 0 .. Len(l),
         NEW f, f = FirstOf(l, k), NEW t, t = RestOf(l, k),
         NEW lists2, \A b \in Area : lists2[b] = PruneList(lists[b], f)
  PROVE  ListsOK(lists2) /\ LruMatches(lists2, t)
<1>1. l \in Seq(AshmemRange) /\ (\A r \in ToSet(l) : LruEntry(r)) /\ Separate(l)
  BY DEF LruMatches
<1>2. \A r \in AshmemRange : NonEmpty(r) /\ ~r.purged => (r \in ToSet(l) <=> r \in ToSet(lists[r.asma]))
  BY DEF LruMatches
<1>3. /\ f \in Seq(AshmemRange) /\ t \in Seq(AshmemRange) /\ Separate(f) /\ Separate(t)
      /\ ToSet(l) = ToSet(f) \cup ToSet(t)
      /\ \A x \in ToSet(f) : NonEmpty(x) => x \notin ToSet(t)
  <2>1. f \in Seq(AshmemRange) /\ t \in Seq(AshmemRange) /\ IsCut(f, t, l, k)
    BY <1>1, CutFacts
  <2> QED BY <1>1, <2>1, SeparateCut
<1>4. ASSUME NEW b \in Area
      PROVE  /\ lists[b] \in Seq(RangesOf(b))
             /\ lists2[b] \in Seq(RangesOf(b)) /\ Descending(lists2[b]) /\ Marked(lists2[b], lists[b], f)
  <2>1. lists[b] \in Seq(RangesOf(b)) /\ Descending(lists[b])
    BY DEF ListsOK
  <2> QED BY <1>3, <2>1, PruneFacts
<1>5. ListsOK(lists2)
  BY <1>4 DEF ListsOK
<1>6. \A x \in ToSet(t) : LruEntry(x)
  BY <1>1, <1>3
<1>7. ASSUME NEW x \in AshmemRange, NonEmpty(x), ~x.purged
      PROVE  x \in ToSet(t) <=> x \in ToSet(lists2[x.asma])
  <2> DEFINE q == lists[x.asma]
             n == lists2[x.asma]
  <2>1. x.asma \in Area
    BY DEF AshmemRange
  <2>2. q \in Seq(RangesOf(x.asma)) /\ n \in Seq(RangesOf(x.asma)) /\ Marked(n, q, f)
    BY <1>4, <2>1
  <2> HIDE DEF q, n
  <2>3. /\ Len(n) = Len(q) /\ \A i \in 1 .. Len(q) : PrunedEntry(n[i], q[i], f)
        /\ \A y : y \in ToSet(q) <=> \E i \in 1 .. Len(q) : y = q[i]
        /\ \A y : y \in ToSet(n) <=> \E i \in 1 .. Len(n) : y = n[i]
    BY <2>2, ElementsOf DEF Marked
  <2>4. x \in ToSet(t) <=> x \in ToSet(q) /\ x \notin ToSet(f)
    BY <1>2, <1>3, <1>7 DEF q
  <2>5. ASSUME NEW i \in 1 .. Len(q), x = n[i] PROVE x = q[i] /\ x \notin ToSet(f)
    BY <1>7, <2>3, <2>5 DEF PrunedEntry
  <2>6. ASSUME NEW i \in 1 .. Len(q), x = q[i], x \notin ToSet(f) PROVE x = n[i]
    BY <1>7, <2>3, <2>6 DEF PrunedEntry
  <2>7. x \in ToSet(n) <=> x \in ToSet(q) /\ x \notin ToSet(f)
    BY <2>3, <2>5, <2>6
  <2> QED BY <2>4, <2>7 DEF n
<1> QED BY <1>3, <1>5, <1>6, <1>7 DEF LruMatches

\* The pages of the area a that are dropped when the entries f are purged.
Dropped(f, a) == UNION {r.pgstart .. r.pgend : r \in {q \in ToSet(f) : q.asma = a}}

\* The pages dropped are of ranges that are then purged.
LEMMA ShrinkRecorded ==
  ASSUME NEW a \in Area, NEW lists, ListsOK(lists), NEW l, LruMatches(lists, l), NEW k \in 0 .. Len(l),
         NEW f, f = FirstOf(l, k), NEW new, new = PruneList(lists[a], f),
         NEW L \in SUBSET Nat, NEW U \in SUBSET Nat, NEW B, Recorded(lists[a], L, U, a, B),
         NEW D \in SUBSET Nat, D \subseteq Dropped(f, a)
  PROVE  Recorded(new, L \cup D, U, a, B)
<1> DEFINE q == lists[a]
<1>1. l \in Seq(AshmemRange) /\ (\A r \in ToSet(l) : LruEntry(r)) /\ Separate(l)
  BY DEF LruMatches
<1>2. \A r \in AshmemRange : NonEmpty(r) /\ ~r.purged => (r \in ToSet(l) <=> r \in ToSet(lists[r.asma]))
  BY DEF LruMatches
<1>3. f \in Seq(AshmemRange) /\ Separate(f) /\ ToSet(f) \subseteq ToSet(l)
  <2> DEFINE t == RestOf(l, k)
  <2>1. f \in Seq(AshmemRange) /\ t \in Seq(AshmemRange) /\ IsCut(f, t, l, k)
    BY <1>1, CutFacts
  <2> HIDE DEF t
  <2> QED BY <1>1, <2>1, SeparateCut
<1>4. q \in Seq(RangesOf(a)) /\ Descending(q) /\ new = PruneList(q, f) /\ Recorded(q, L, U, a, B)
  BY DEF ListsOK
<1> HIDE DEF q
<1>a. new \in Seq(RangesOf(a)) /\ Marked(new, q, f)
  BY <1>3, <1>4, PruneFacts
<1>5. new \in Seq(RangesOf(a)) /\ Len(new) = Len(q) /\ \A i \in 1 .. Len(q) : PrunedEntry(new[i], q[i], f)
  BY <1>a DEF Marked
<1>6. /\ \A y : y \in ToSet(q) <=> \E i \in 1 .. Len(q) : y = q[i]
      /\ \A y : y \in ToSet(new) <=> \E i \in 1 .. Len(q) : y = new[i]
  <2>1. \A y : y \in ToSet(q) <=> \E i \in 1 .. Len(q) : y = q[i]
    BY <1>4, ElementsOf
  <2>2. \A y : y \in ToSet(new) <=> \E i \in 1 .. Len(new) : y = new[i]
    BY <1>5, ElementsOf
  <2> QED BY <1>5, <2>1, <2>2
<1>7. \A i \in 1 .. Len(q) : \A p \in Nat : page_in_range(new[i], p) <=> page_in_range(q[i], p)
  BY <1>5 DEF PrunedEntry, page_in_range
<1>8. \A i \in 1 .. Len(q) : q[i].purged => new[i].purged
  BY <1>5 DEF PrunedEntry
<1>9. ASSUME NEW r \in ToSet(new), NEW p \in Nat, page_in_range(r, p) PROVE p \in U
  <2>1. PICK i \in 1 .. Len(q) : r = new[i]
    BY <1>6
  <2>2. page_in_range(q[i], p) /\ q[i] \in ToSet(q)
    BY <1>6, <1>7, <1>9, <2>1
  <2> QED BY <1>4, <2>2 DEF Recorded
<1>10. ASSUME a \notin B, NEW p \in U PROVE \E r \in ToSet(new) : page_in_range(r, p)
  <2>1. PICK r \in ToSet(q) : page_in_range(r, p)
    BY <1>4, <1>10 DEF Recorded
  <2> QED BY <1>6, <1>7, <2>1
<1>11. ASSUME a \notin B, NEW p \in L \cup D PROVE \E r \in ToSet(new) : r.purged /\ page_in_range(r, p)
  <2>1. CASE p \in L
    <3>1. PICK r \in ToSet(q) : r.purged /\ page_in_range(r, p)
      BY <1>4, <1>11, <2>1 DEF Recorded
    <3> QED BY <1>6, <1>7, <1>8, <2>1, <3>1
  <2>2. CASE p \in D
    <3>1. PICK r \in ToSet(f) : r.asma = a /\ p \in r.pgstart .. r.pgend
      BY <2>2 DEF Dropped
    <3>2. r \in AshmemRange /\ ~r.purged /\ r \in ToSet(l)
      BY <1>1, <1>3 DEF LruEntry
    <3>3. r.pgstart \in Nat /\ r.pgend \in Nat /\ p \in Nat
      BY <2>2, <3>2 DEF AshmemRange, Page
    <3>4. NonEmpty(r) /\ page_in_range(r, p)
      BY <3>1, <3>3 DEF NonEmpty, page_in_range
    <3>5. r \in ToSet(q)
      BY <1>2, <3>1, <3>2, <3>4 DEF q
    <3>6. PICK i \in 1 .. Len(q) : r = q[i]
      BY <1>6, <3>5
    <3>7. new[i].purged
      BY <1>5, <3>4, <3>6 DEF PrunedEntry
    <3> QED BY <1>6, <1>7, <3>3, <3>4, <3>6, <3>7
  <2> QED BY <2>1, <2>2
<1> QED BY <1>9, <1>10, <1>11 DEF Recorded

-----------------------------------------------------------------------------
(* The inductive invariant.                                                *)

AshmemShape ==
  /\ size \in [Area -> Nat] /\ file \in [Area -> Nat] /\ setup \in [Area -> Nat]
  /\ unpinned_list \in [Area -> Seq(AshmemRange)]
  /\ lost \in [Area -> SUBSET Nat] /\ unpinned \in [Area -> SUBSET Nat] /\ failed \subseteq Area

\* The ranges of an area are within the size it had when its file was set up, which
\* does not change after that.
WithinFile ==
  \A b \in Area : /\ file[b] = 0 => unpinned_list[b] = <<>>
                  /\ \A r \in ToSet(unpinned_list[b]) : r.pgend < size[b]

AllRecorded == \A b \in Area : Recorded(unpinned_list[b], lost[b], unpinned[b], b, failed)

AshmemInv ==
  AshmemShape /\ ListsOK(unpinned_list) /\ WithinFile /\ LruMatches(unpinned_list, lru) /\ AllRecorded

\* The ranges that a request touches are those it has a page in common with, or that are
\* empty and within it.
LEMMA RequestFacts ==
  ASSUME AshmemInv, NEW a \in Area, NEW s \in Nat, NEW e \in Nat, Request(a, s, e),
         NEW q, q = unpinned_list[a], NEW H, H = Hits(a, s, e)
  PROVE  /\ q \in Seq(RangesOf(a)) /\ Descending(q) /\ H \subseteq ToSet(q)
         /\ \A r \in ToSet(q) : r \in RangesOf(a) /\ r.pgend < size[a]
         /\ \A r \in ToSet(q) : r \in H <=> Meets(r, s, e)
         /\ \A r \in H : Meets(r, s, e)
         /\ s <= e + 1 /\ e < size[a] /\ size[a] \in Nat
         /\ s = e + 1 => \A r \in ToSet(q) : r.pgend < s
<1>1. q \in Seq(RangesOf(a)) /\ Descending(q)
  BY DEF AshmemInv, ListsOK
<1>2. H = {r \in ToSet(q) : r.pgend >= s /\ page_range_in_range(r, s, e)}
  BY <1>1, HitsFacts
<1>3. size[a] \in Nat /\ \A r \in ToSet(q) : r.pgend < size[a]
  BY DEF AshmemInv, WithinFile, AshmemShape
<1>4. \A r \in ToSet(q) : r \in RangesOf(a)
  BY <1>1 DEF ToSet
<1>5. \A r \in ToSet(q) : r.pgend \in Nat
  BY <1>4, RangeType
<1>6. e < size[a] /\ s <= e + 1 /\ (s = e + 1 => s = size[a])
  BY <1>3 DEF Request
<1>7. s = e + 1 => \A r \in ToSet(q) : r.pgend < s
  BY <1>3, <1>6
<1>8. \A r \in ToSet(q) : r \in H <=> r.pgend >= s /\ page_range_in_range(r, s, e)
  BY <1>2
<1>9. \A r \in ToSet(q) : r.pgend >= s => s <= e
  BY <1>5, <1>6, <1>7
<1>10. \A r \in ToSet(q) : r \in H <=> Meets(r, s, e)
  BY <1>8, <1>9 DEF Meets
<1>11. H \subseteq ToSet(q)
  BY <1>2
<1> QED BY <1>1, <1>3, <1>4, <1>6, <1>7, <1>10, <1>11

\* The range that ashmem_unpin adds merges those that the grown pages touch; the others
\* lie below it or above.
LEMMA UnpinRangeFacts ==
  ASSUME AshmemInv, NEW a \in Area, NEW s \in Nat, NEW e \in Nat, Request(a, s, e),
         NEW q, q = unpinned_list[a], NEW H, H = UnpinHits(a, s, e), NEW N, N = UnpinRange(a, s, e)
  PROVE  /\ H \subseteq ToSet(q) /\ Merges(N, a, H, s, e) /\ N.pgend < size[a]
         /\ \A r \in ToSet(q) : r \notin H => r.pgend < N.pgstart \/ r.pgstart > N.pgend
<1> DEFINE G == Hits(a, s, e)
           S == UnpinStart(G, s)
           E == UnpinEnd(G, e)
           n == size[a]
<1>1. /\ q \in Seq(RangesOf(a)) /\ Descending(q) /\ G \subseteq ToSet(q)
      /\ \A r \in ToSet(q) : r \in RangesOf(a) /\ r.pgend < n
      /\ \A r \in G : Meets(r, s, e)
      /\ s <= e + 1 /\ e < n /\ n \in Nat
      /\ s = e + 1 => \A r \in ToSet(q) : r.pgend < s
  BY RequestFacts
<1>2. ASSUME NEW r \in ToSet(q), r \notin G
      PROVE  \/ r.pgend < s /\ \A h \in G : r.pgend < h.pgstart
             \/ r.pgstart > e /\ \A h \in G : r.pgstart > h.pgend
  BY <1>1, <1>2, MissedFacts
<1>3. H = Hits(a, S, E)
  BY DEF UnpinHits
<1>4. /\ N.asma = a /\ N.pgstart = S /\ N.pgend = E /\ N.purged = (\E r \in H : r.purged)
      /\ N = [asma |-> a, pgstart |-> N.pgstart, pgend |-> N.pgend, purged |-> N.purged]
  BY DEF UnpinRange
<1> HIDE DEF G, n
<1>5. /\ S \in Nat /\ E \in Nat /\ S <= s /\ e <= E
      /\ \A r \in G : S <= r.pgstart /\ r.pgend <= E
      /\ \A p \in Nat : S <= p /\ p <= E => (s <= p /\ p <= e) \/ \E r \in G : page_in_range(r, p)
      /\ S = s \/ \E r \in G : S = r.pgstart
      /\ E = e \/ \E r \in G : E = r.pgend
  <2>1. /\ G \in SUBSET RangesOf(a) /\ (\A r \in G : r.pgend < n) /\ n \in Nat
        /\ s <= e + 1 /\ e < n /\ \A r \in G : Meets(r, s, e)
    BY <1>1
  <2>2. S = UnpinStart(G, s) /\ E = UnpinEnd(G, e)
    OBVIOUS
  <2> HIDE DEF S, E
  <2>3. Grown(S, E, G, s, e)
    BY <2>1, <2>2, GrownFacts
  <2> QED BY <2>3 DEF Grown
<1> HIDE DEF S, E
<1>6. H = {r \in ToSet(q) : r.pgend >= S /\ page_range_in_range(r, S, E)}
  BY <1>1, <1>3, <1>5, HitsFacts
<1>7. \A r \in ToSet(q) : r.pgstart \in Nat /\ r.pgend \in Nat /\ r.purged \in BOOLEAN
  BY <1>1, RangeType
<1>8. ASSUME NEW r \in G PROVE r \in H
  <2>1. r \in ToSet(q) /\ r.pgend >= s /\ S <= r.pgstart /\ r.pgend <= E
    BY <1>1, <1>5 DEF Meets
  <2>2. r.pgend >= S
    BY <1>5, <1>7, <2>1
  <2>3. page_range_in_range(r, S, E)
    BY <2>1 DEF page_range_in_range, page_range_subsumes_range
  <2> QED BY <1>6, <2>1, <2>2, <2>3
<1>9. ASSUME NEW r \in ToSet(q), r \notin G PROVE r.pgend < S \/ r.pgstart > E
  BY <1>2, <1>5, <1>9
<1>10. ASSUME NEW r \in H PROVE S <= r.pgstart /\ r.pgend <= E
  <2>1. CASE r \in G
    BY <1>5, <2>1
  <2>2. CASE r \notin G
    <3>1. r \in ToSet(q) /\ r.pgend >= S /\ page_range_in_range(r, S, E)
      BY <1>6
    <3>2. r.pgstart > E
      BY <1>5, <1>7, <1>9, <2>2, <3>1
    <3>3. s <= e
      <4>1. SUFFICES ASSUME ~(s <= e) PROVE FALSE
        OBVIOUS
      <4>2. s = e + 1 /\ r.pgend < s
        BY <1>1, <3>1, <4>1
      <4>3. S = s
        BY <1>1, <1>5, <4>1 DEF Meets
      <4> QED BY <1>7, <3>1, <4>2, <4>3
    <3>4. S <= E
      BY <1>5, <3>3
    <3> QED BY <1>5, <1>7, <3>1, <3>2, <3>4
        DEF page_range_in_range, page_in_range, page_range_subsumes_range
  <2> QED BY <2>1, <2>2
<1>11. N \in RangesOf(a)
  <2>1. S <= E + 1
    BY <1>1, <1>5
  <2>2. N.purged \in BOOLEAN
    BY <1>4
  <2> QED BY <1>4, <1>5, <2>1, <2>2 DEF RangesOf, AshmemRange, Page
<1>12. Merges(N, a, H, s, e)
  <2>1. /\ \A r \in H : N.pgstart <= r.pgstart /\ r.pgend <= N.pgend /\ (r.purged => N.purged)
        /\ N.purged => \E r \in H : r.purged
    BY <1>4, <1>10
  <2>2. \A p \in Nat : page_in_range(N, p) => (s <= p /\ p <= e) \/ \E r \in H : page_in_range(r, p)
    BY <1>4, <1>5, <1>8 DEF page_in_range
  <2>3. /\ N.pgstart = s \/ \E r \in H : N.pgstart = r.pgstart
        /\ N.pgend = e \/ \E r \in H : N.pgend = r.pgend
    BY <1>4, <1>5, <1>8
  <2> QED BY <1>4, <1>5, <1>11, <2>1, <2>2, <2>3 DEF Merges
<1>13. N.pgend < size[a]
  BY <1>1, <1>4, <1>5 DEF n
<1> QED BY <1>4, <1>6, <1>8, <1>9, <1>12, <1>13

\* Of all lists, that of the area a changes.
LEMMA OneListOK ==
  ASSUME NEW lists \in [Area -> Seq(AshmemRange)], ListsOK(lists), NEW a \in Area,
         NEW new \in Seq(RangesOf(a)), Descending(new), NEW lists2, lists2 = [lists EXCEPT ![a] = new]
  PROVE  /\ ListsOK(lists2) /\ lists2 \in [Area -> Seq(AshmemRange)] /\ lists2[a] = new
         /\ \A b \in Area : b # a => lists2[b] = lists[b]
<1>1. new \in Seq(AshmemRange)
  <2> DEFINE Z == RangesOf(a)
  <2>1. Z \subseteq AshmemRange /\ new \in Seq(Z)
    BY DEF RangesOf
  <2> HIDE DEF Z
  <2> QED BY <2>1
<1>2. lists2[a] = new /\ \A b \in Area : b # a => lists2[b] = lists[b]
  OBVIOUS
<1> QED BY <1>1, <1>2 DEF ListsOK

\* ashmem_pin.
LEMMA PinInv ==
  ASSUME AshmemInv, NEW a \in Area, NEW s \in Nat, NEW e \in Nat, NEW alloc \in BOOLEAN,
         ashmem_pin(a, s, e, alloc)
  PROVE  AshmemInv'
<1> DEFINE q == unpinned_list[a]
           H == Hits(a, s, e)
           new == PinList(q, H, s, e, alloc)
           F == KeptOnLru(lru, H, s, e)
           G == AddedToLru(q, H, s, e, alloc)
           K == IF \E r \in H : r.purged THEN lost[a] \ (s .. e) ELSE lost[a]
<1>1. /\ Request(a, s, e)
      /\ unpinned_list' = [unpinned_list EXCEPT ![a] = new]
      /\ lru' = F \o G
      /\ UNCHANGED area_vars
  BY DEF ashmem_pin, PinList, PinPieces, PinPiece, PinUpper, PinRest, Hits, Replace, KeptOnLru, AddedToLru
<1>2. /\ lost' = IF \E r \in H : r.purged THEN [lost EXCEPT ![a] = @ \ (s .. e)] ELSE lost
      /\ unpinned' = [unpinned EXCEPT ![a] = @ \ (s .. e)]
      /\ failed' = IF alloc THEN failed ELSE failed \cup {a}
  BY DEF ashmem_pin, Hits
<1>3. /\ AshmemShape /\ ListsOK(unpinned_list) /\ WithinFile /\ LruMatches(unpinned_list, lru)
      /\ Recorded(unpinned_list[a], lost[a], unpinned[a], a, failed)
      /\ unpinned_list \in [Area -> Seq(AshmemRange)]
  BY DEF AshmemInv, AllRecorded, AshmemShape
<1>4. /\ q \in Seq(RangesOf(a)) /\ Descending(q) /\ H \subseteq ToSet(q)
      /\ \A r \in ToSet(q) : r \in RangesOf(a) /\ r.pgend < size[a]
      /\ \A r \in ToSet(q) : r \in H <=> Meets(r, s, e)
      /\ \A r \in H : Meets(r, s, e)
  BY <1>1, RequestFacts
<1>5. /\ new \in Seq(RangesOf(a)) /\ Descending(new)
      /\ ToSet(new) = UNION {ToSet(PinPiece(H, r, s, e, alloc)) : r \in ToSet(q)}
  <2> HIDE DEF q, H
  <2> QED BY <1>4, PinListFacts
<1>6. /\ lost[a] \in SUBSET Nat /\ unpinned[a] \in SUBSET Nat /\ (a \in failed) \in BOOLEAN
      /\ size[a] \in Nat
  BY <1>3 DEF AshmemShape
<1>7. /\ lost' \in [Area -> SUBSET Nat] /\ lost'[a] = K
      /\ \A b \in Area : b # a => lost'[b] = lost[b]
  BY <1>2, <1>3 DEF AshmemShape
<1>8. /\ unpinned' \in [Area -> SUBSET Nat] /\ unpinned'[a] = unpinned[a] \ (s .. e)
      /\ \A b \in Area : b # a => unpinned'[b] = unpinned[b]
      /\ failed' \subseteq Area /\ \A b \in Area : b # a => (b \in failed' <=> b \in failed)
  BY <1>2, <1>3 DEF AshmemShape
<1>9. size' = size /\ file' = file /\ setup' = setup
  BY <1>1 DEF area_vars
<1> HIDE DEF new
<1>10. /\ ListsOK(unpinned_list') /\ unpinned_list' \in [Area -> Seq(AshmemRange)] /\ unpinned_list'[a] = new
       /\ \A b \in Area : b # a => unpinned_list'[b] = unpinned_list[b]
  BY <1>1, <1>3, <1>5, OneListOK
<1>11. AshmemShape'
  BY <1>3, <1>7, <1>8, <1>9, <1>10 DEF AshmemShape
<1>12. WithinFile'
  <2>1. file[a] # 0
    BY <1>1 DEF Request
  <2>2. ASSUME NEW x \in ToSet(new) PROVE x.pgend < size[a]
    <3>1. PICK r \in ToSet(q) : x \in ToSet(PinPiece(H, r, s, e, alloc))
      BY <1>5
    <3>2. r \in RangesOf(a) /\ (r \in H => Meets(r, s, e)) /\ r.pgend < size[a]
      BY <1>4
    <3> HIDE DEF H, q
    <3>3. PartOf(x, r, a, H, s, e)
      BY <3>1, <3>2, PieceFacts
    <3>4. x.pgend <= r.pgend /\ x \in RangesOf(a)
      BY <3>3 DEF PartOf
    <3>5. x.pgend \in Nat /\ r.pgend \in Nat
      BY <3>2, <3>4, RangeType
    <3> QED BY <1>6, <3>2, <3>4, <3>5
  <2>3. ASSUME NEW b \in Area, b # a
        PROVE  /\ file'[b] = 0 => unpinned_list'[b] = <<>>
               /\ \A r \in ToSet(unpinned_list'[b]) : r.pgend < size'[b]
    BY <1>3, <1>9, <1>10, <2>3 DEF WithinFile
  <2> QED BY <1>9, <1>10, <2>1, <2>2, <2>3 DEF WithinFile
<1>13. LruMatches(unpinned_list', lru')
  <2>1. ToSet(unpinned_list'[a]) = UNION {ToSet(PinPiece(H, r, s, e, alloc)) : r \in ToSet(unpinned_list[a])}
    BY <1>5, <1>10
  <2> HIDE DEF H, F, G
  <2>2. F = KeptOnLru(lru, H, s, e) /\ G = AddedToLru(unpinned_list[a], H, s, e, alloc)
    BY DEF F, G
  <2>3. LruMatches(unpinned_list', F \o G)
    BY <1>3, <1>4, <1>10, <2>1, <2>2, PinLru
  <2> QED BY <1>1, <2>3
<1>14. AllRecorded'
  <2> DEFINE U == unpinned[a] \ (s .. e)
  <2>1. Recorded(new, K, U, a, failed')
    <3> DEFINE L == lost[a]
               V == unpinned[a]
    <3> HIDE DEF q, H, K, L, V
    <3>1. new = PinList(q, H, s, e, alloc) /\ K = IF \E r \in H : r.purged THEN L \ (s .. e) ELSE L
      BY DEF new, K, L
    <3>2. Recorded(q, L, V, a, failed) /\ L \in SUBSET Nat /\ V \in SUBSET Nat
      BY <1>3, <1>6 DEF q, L, V
    <3>3. Recorded(new, K, V \ (s .. e), a, failed')
      BY <1>2, <1>4, <3>1, <3>2, PinRecorded
    <3> QED BY <3>3 DEF V
  <2>2. Recorded(unpinned_list'[a], lost'[a], unpinned'[a], a, failed')
    BY <1>7, <1>8, <1>10, <2>1
  <2>3. ASSUME NEW b \in Area, b # a
        PROVE  Recorded(unpinned_list'[b], lost'[b], unpinned'[b], b, failed')
    BY <1>7, <1>8, <1>10, <2>3 DEF AshmemInv, AllRecorded, Recorded
  <2> QED BY <2>2, <2>3 DEF AllRecorded
<1> QED BY <1>10, <1>11, <1>12, <1>13, <1>14 DEF AshmemInv

\* ashmem_unpin.
LEMMA UnpinInv ==
  ASSUME AshmemInv, NEW a \in Area, NEW s \in Nat, NEW e \in Nat, NEW alloc \in BOOLEAN,
         ashmem_unpin(a, s, e, alloc)
  PROVE  AshmemInv'
<1> DEFINE q == unpinned_list[a]
           H == UnpinHits(a, s, e)
           N == UnpinRange(a, s, e)
           new == UnpinList(q, H, N, alloc)
           M == OnLru(IF alloc THEN <<N>> ELSE <<>>)
<1>1. /\ Request(a, s, e)
      /\ unpinned_list' = [unpinned_list EXCEPT ![a] = new]
      /\ lru' = Without(lru, H) \o M
      /\ UNCHANGED area_vars
  BY DEF ashmem_unpin, UnpinList, UnpinRange, UnpinHits, UnpinStart, UnpinEnd, BelowRange, Hits
<1>2. /\ lost' = lost /\ unpinned' = [unpinned EXCEPT ![a] = @ \cup (s .. e)]
      /\ failed' = IF alloc THEN failed ELSE failed \cup {a}
  BY DEF ashmem_unpin
<1>3. /\ AshmemShape /\ ListsOK(unpinned_list) /\ WithinFile /\ LruMatches(unpinned_list, lru)
      /\ Recorded(unpinned_list[a], lost[a], unpinned[a], a, failed)
      /\ unpinned_list \in [Area -> Seq(AshmemRange)]
  BY DEF AshmemInv, AllRecorded, AshmemShape
<1>4. /\ q \in Seq(RangesOf(a)) /\ Descending(q)
      /\ \A r \in ToSet(q) : r.pgend < size[a]
  BY <1>1, RequestFacts
<1>5. /\ H \subseteq ToSet(q) /\ Merges(N, a, H, s, e) /\ N.pgend < size[a]
      /\ \A r \in ToSet(q) : r \notin H => r.pgend < N.pgstart \/ r.pgstart > N.pgend
  BY <1>1, UnpinRangeFacts
<1> HIDE DEF N
<1>6. N \in RangesOf(a)
  BY <1>5 DEF Merges
<1>7. /\ new \in Seq(RangesOf(a)) /\ Descending(new)
      /\ ToSet(new) = (ToSet(q) \ H) \cup (IF alloc THEN {N} ELSE {})
  <2> HIDE DEF q, H
  <2> QED BY <1>4, <1>5, <1>6, UnpinListFacts
<1>8. /\ unpinned' \in [Area -> SUBSET Nat] /\ unpinned'[a] = unpinned[a] \cup (s .. e)
      /\ \A b \in Area : b # a => unpinned'[b] = unpinned[b]
      /\ failed' \subseteq Area /\ \A b \in Area : b # a => (b \in failed' <=> b \in failed)
  BY <1>2, <1>3 DEF AshmemShape
<1>9. size' = size /\ file' = file /\ setup' = setup
  BY <1>1 DEF area_vars
<1> HIDE DEF new
<1>10. /\ ListsOK(unpinned_list') /\ unpinned_list' \in [Area -> Seq(AshmemRange)] /\ unpinned_list'[a] = new
       /\ \A b \in Area : b # a => unpinned_list'[b] = unpinned_list[b]
  BY <1>1, <1>3, <1>7, OneListOK
<1>11. AshmemShape'
  BY <1>2, <1>3, <1>8, <1>9, <1>10 DEF AshmemShape
<1>12. WithinFile'
  <2>1. file[a] # 0
    BY <1>1 DEF Request
  <2>2. \A x \in ToSet(new) : x.pgend < size[a]
    BY <1>4, <1>5, <1>7
  <2>3. ASSUME NEW b \in Area, b # a
        PROVE  /\ file'[b] = 0 => unpinned_list'[b] = <<>>
               /\ \A r \in ToSet(unpinned_list'[b]) : r.pgend < size'[b]
    BY <1>3, <1>9, <1>10, <2>3 DEF WithinFile
  <2> QED BY <1>9, <1>10, <2>1, <2>2, <2>3 DEF WithinFile
<1>13. LruMatches(unpinned_list', lru')
  <2>1. ToSet(unpinned_list'[a]) = (ToSet(unpinned_list[a]) \ H) \cup (IF alloc THEN {N} ELSE {})
    BY <1>7, <1>10
  <2> HIDE DEF H, M
  <2>2. M = OnLru(IF alloc THEN <<N>> ELSE <<>>)
    BY DEF M
  <2>3. LruMatches(unpinned_list', Without(lru, H) \o M)
    BY <1>3, <1>5, <1>6, <1>10, <2>1, <2>2, UnpinLru
  <2> QED BY <1>1, <2>3
<1>14. AllRecorded'
  <2> DEFINE L == lost[a]
             V == unpinned[a]
  <2>1. Recorded(new, L, V \cup (s .. e), a, failed')
    <3> HIDE DEF q, H, L, V
    <3>1. Recorded(q, L, V, a, failed) /\ L \in SUBSET Nat /\ V \in SUBSET Nat
      BY <1>3 DEF q, L, V, AshmemShape
    <3> QED BY <1>2, <1>4, <1>5, <1>7, <3>1, UnpinRecorded
  <2>2. Recorded(unpinned_list'[a], lost'[a], unpinned'[a], a, failed')
    BY <1>2, <1>8, <1>10, <2>1
  <2>3. ASSUME NEW b \in Area, b # a
        PROVE  Recorded(unpinned_list'[b], lost'[b], unpinned'[b], b, failed')
    BY <1>2, <1>8, <1>10, <2>3 DEF AshmemInv, AllRecorded, Recorded
  <2> QED BY <2>2, <2>3 DEF AllRecorded
<1> QED BY <1>10, <1>11, <1>12, <1>13, <1>14 DEF AshmemInv

\* Pages that one range has already touch, besides, only empty ranges.
LEMMA CoveredFacts ==
  ASSUME NEW a \in Area, NEW q \in Seq(RangesOf(a)), Descending(q), NEW s \in Nat, NEW e \in Nat,
         NEW G, G \subseteq ToSet(q), \A r \in G : Meets(r, s, e),
         NEW c \in G, page_range_subsumed_by_range(c, s, e),
         NEW r \in G, ~page_range_subsumed_by_range(r, s, e)
  PROVE  r.pgend < r.pgstart
<1>1. \A x \in ToSet(q) : x \in RangesOf(a)
  BY DEF ToSet
<1>2. /\ c.pgstart \in Nat /\ c.pgend \in Nat /\ c \in ToSet(q)
      /\ r.pgstart \in Nat /\ r.pgend \in Nat /\ r \in ToSet(q) /\ r # c
  BY <1>1, RangeType
<1>3. c.pgstart > r.pgend \/ r.pgstart > c.pgend
  BY <1>2, Disjoint
<1>4. c.pgstart <= s /\ c.pgend >= e
  BY DEF page_range_subsumed_by_range
<1>5. s <= e /\ r.pgend >= s /\ page_range_in_range(r, s, e)
  BY DEF Meets
<1>6. r.pgstart > e
  BY <1>2, <1>3, <1>4, <1>5
<1>7. r.pgend <= e
  BY <1>2, <1>5, <1>6 DEF page_range_in_range, page_in_range, page_range_subsumes_range
<1> QED BY <1>2, <1>6, <1>7

\* What UnpinCovered takes off, and what it leaves.
CoveredOff(a, s, e) ==
  Hits(a, s, e) \ {r \in Hits(a, s, e) : page_range_subsumed_by_range(r, s, e)}

\* UnpinCovered.
LEMMA CoveredInv ==
  ASSUME AshmemInv, NEW a \in Area, NEW s \in Nat, NEW e \in Nat, UnpinCovered(a, s, e)
  PROVE  AshmemInv'
<1> DEFINE q == unpinned_list[a]
           G == Hits(a, s, e)
           X == CoveredOff(a, s, e)
           new == Without(q, X)
<1>1. /\ Request(a, s, e)
      /\ unpinned_list' = [unpinned_list EXCEPT ![a] = new]
      /\ lru' = Without(lru, X)
      /\ UNCHANGED <<area_vars, user_vars>>
      /\ {r \in G : page_range_subsumed_by_range(r, s, e)} # {}
  BY DEF UnpinCovered, CoveredOff, Hits
<1>2. /\ size' = size /\ file' = file /\ setup' = setup
      /\ lost' = lost /\ unpinned' = unpinned /\ failed' = failed
  BY <1>1 DEF area_vars, user_vars
<1>3. /\ AshmemShape /\ ListsOK(unpinned_list) /\ WithinFile /\ LruMatches(unpinned_list, lru)
      /\ Recorded(unpinned_list[a], lost[a], unpinned[a], a, failed)
      /\ unpinned_list \in [Area -> Seq(AshmemRange)]
  BY DEF AshmemInv, AllRecorded, AshmemShape
<1>4. /\ q \in Seq(RangesOf(a)) /\ Descending(q) /\ G \subseteq ToSet(q)
      /\ \A r \in ToSet(q) : r \in RangesOf(a) /\ r.pgend < size[a]
      /\ \A r \in G : Meets(r, s, e)
  BY <1>1, RequestFacts
<1>5. PICK c \in G : page_range_subsumed_by_range(c, s, e)
  BY <1>1
<1>6. X \subseteq ToSet(q) /\ \A r \in X : r.pgend < r.pgstart
  <2>1. \A r \in X : r \in G /\ ~page_range_subsumed_by_range(r, s, e)
    BY DEF CoveredOff
  <2> HIDE DEF q, G, X
  <2> QED BY <1>4, <1>5, <2>1, CoveredFacts
<1>7. new \in Seq(RangesOf(a)) /\ Descending(new) /\ ToSet(new) = ToSet(q) \ X
  <2> HIDE DEF q, X
  <2> QED BY <1>4, WithoutFacts, WithoutSet, DescendingWithout
<1> HIDE DEF new, G, X
<1>8. /\ ListsOK(unpinned_list') /\ unpinned_list' \in [Area -> Seq(AshmemRange)] /\ unpinned_list'[a] = new
      /\ \A b \in Area : b # a => unpinned_list'[b] = unpinned_list[b]
  BY <1>1, <1>3, <1>7, OneListOK
<1>9. AshmemShape'
  BY <1>2, <1>3, <1>8 DEF AshmemShape
<1>10. WithinFile'
  <2>1. file[a] # 0
    BY <1>1 DEF Request
  <2>2. \A x \in ToSet(new) : x.pgend < size[a]
    BY <1>4, <1>7
  <2>3. ASSUME NEW b \in Area, b # a
        PROVE  /\ file'[b] = 0 => unpinned_list'[b] = <<>>
               /\ \A r \in ToSet(unpinned_list'[b]) : r.pgend < size'[b]
    BY <1>2, <1>3, <1>8, <2>3 DEF WithinFile
  <2> QED BY <1>2, <1>8, <2>1, <2>2, <2>3 DEF WithinFile
<1>11. LruMatches(unpinned_list', lru')
  <2> DEFINE M == OnLru(IF FALSE THEN <<c>> ELSE <<>>)
             W == Without(lru, X)
  <2>1. c \in RangesOf(a)
    BY <1>4, <1>5
  <2>2. M \in Seq(RangesOf(a)) /\ ToSet(M) = {}
    BY <2>1, OnLruOne
  <2>3. M = <<>>
    <3> HIDE DEF M
    <3>1. Len(M) \in Nat /\ DOMAIN M = 1 .. Len(M)
      BY <2>2
    <3>2. SUFFICES ASSUME Len(M) # 0 PROVE FALSE
      BY <2>2, <3>1
    <3>3. M[1] \in ToSet(M)
      BY <3>1, <3>2 DEF ToSet
    <3> QED BY <2>2, <3>3
  <2>4. ToSet(unpinned_list'[a]) = (ToSet(unpinned_list[a]) \ X) \cup (IF FALSE THEN {c} ELSE {})
    BY <1>7, <1>8
  <2>5. X \subseteq ToSet(unpinned_list[a])
    BY <1>6
  <2> HIDE DEF M
  <2>6. M = OnLru(IF FALSE THEN <<c>> ELSE <<>>)
    BY DEF M
  <2>7. LruMatches(unpinned_list', W \o M)
    BY <1>3, <1>8, <2>1, <2>4, <2>5, <2>6, UnpinLru
  <2>8. W \in Seq(AshmemRange)
    BY <1>3, WithoutFacts DEF LruMatches
  <2> HIDE DEF W
  <2>9. W \o M = W
    BY <2>3, <2>8
  <2> QED BY <1>1, <2>7, <2>9 DEF W
<1>12. AllRecorded'
  <2>1. ASSUME NEW r \in ToSet(q), NEW p \in Nat, page_in_range(r, p) PROVE r \in ToSet(new)
    <3>1. r.pgstart \in Nat /\ r.pgend \in Nat
      BY <1>4, RangeType
    <3>2. r.pgstart <= r.pgend
      BY <2>1, <3>1 DEF page_in_range
    <3>3. r \notin X
      BY <1>6, <3>1, <3>2
    <3> QED BY <1>7, <3>3
  <2>2. lost[a] \in SUBSET Nat /\ unpinned[a] \in SUBSET Nat
    BY <1>3 DEF AshmemShape
  <2>3. Recorded(new, lost[a], unpinned[a], a, failed)
    BY <1>3, <1>7, <2>1, <2>2 DEF Recorded
  <2>4. ASSUME NEW b \in Area, b # a
        PROVE  Recorded(unpinned_list'[b], lost'[b], unpinned'[b], b, failed')
    BY <1>2, <1>8, <2>4 DEF AshmemInv, AllRecorded
  <2> QED BY <1>2, <1>8, <2>3, <2>4 DEF AllRecorded
<1> QED BY <1>8, <1>9, <1>10, <1>11, <1>12 DEF AshmemInv

\* ashmem_release.
LEMMA ReleaseInv ==
  ASSUME AshmemInv, NEW a \in Area, ashmem_release(a)
  PROVE  AshmemInv'
<1>1. /\ AshmemShape /\ ListsOK(unpinned_list) /\ WithinFile /\ LruMatches(unpinned_list, lru)
      /\ unpinned_list \in [Area -> Seq(AshmemRange)]
  BY DEF AshmemInv, AshmemShape
<1>2. /\ unpinned_list' = [unpinned_list EXCEPT ![a] = <<>>]
      /\ lru' = Without(lru, {r \in ToSet(lru) : r.asma = a})
      /\ size' = [size EXCEPT ![a] = 0] /\ file' = [file EXCEPT ![a] = 0] /\ setup' = setup
      /\ lost' = [lost EXCEPT ![a] = {}] /\ unpinned' = [unpinned EXCEPT ![a] = {}]
      /\ failed' = failed \ {a}
  BY DEF ashmem_release
<1> DEFINE new == <<>>
<1>3. new \in Seq(RangesOf(a)) /\ Len(new) = 0 /\ ToSet(new) = {}
  BY DEF ToSet
<1>4. Descending(new)
  BY <1>3 DEF Descending
<1>5. unpinned_list' = [unpinned_list EXCEPT ![a] = new]
  BY <1>2
<1>6. unpinned_list'[a] = <<>>
  BY <1>1, <1>2
<1> HIDE DEF new
<1>7. /\ ListsOK(unpinned_list') /\ unpinned_list' \in [Area -> Seq(AshmemRange)] /\ unpinned_list'[a] = new
      /\ \A b \in Area : b # a => unpinned_list'[b] = unpinned_list[b]
  BY <1>1, <1>3, <1>4, <1>5, OneListOK
<1>8. AshmemShape'
  BY <1>1, <1>2, <1>7 DEF AshmemShape
<1>9. WithinFile'
  BY <1>1, <1>2, <1>3, <1>6, <1>7 DEF WithinFile, AshmemShape
<1>10. LruMatches(unpinned_list', lru')
  BY <1>1, <1>2, <1>6, <1>7, ReleaseLru
<1>11. AllRecorded'
  <2>1. lost'[a] = {} /\ unpinned'[a] = {}
    BY <1>1, <1>2 DEF AshmemShape
  <2>2. Recorded(unpinned_list'[a], lost'[a], unpinned'[a], a, failed')
    BY <1>3, <1>7, <2>1 DEF Recorded
  <2>3. ASSUME NEW b \in Area, b # a
        PROVE  Recorded(unpinned_list'[b], lost'[b], unpinned'[b], b, failed')
    <3>1. lost'[b] = lost[b] /\ unpinned'[b] = unpinned[b] /\ (b \in failed' <=> b \in failed)
      BY <1>1, <1>2, <2>3 DEF AshmemShape
    <3> QED BY <1>7, <2>3, <3>1 DEF AshmemInv, AllRecorded, Recorded
  <2> QED BY <2>2, <2>3 DEF AllRecorded
<1> QED BY <1>7, <1>8, <1>9, <1>10, <1>11 DEF AshmemInv

\* How many entries the shrinker purges.
LEMMA PrunedFacts ==
  ASSUME NEW n, Len(lru) \in Nat
  PROVE  Pruned(n) \in 0 .. Len(lru)
<1> DEFINE enough == {k \in 1 .. Len(lru) : TotalSize(SubSeq(lru, 1, k)) >= n}
<1>1. Pruned(n) = IF enough = {} THEN Len(lru) ELSE Min(enough)
  BY DEF Pruned
<1>2. enough \subseteq 1 .. Len(lru)
  OBVIOUS
<1> HIDE DEF enough
<1>3. ASSUME enough # {} PROVE Min(enough) \in enough
  <2>1. enough \in SUBSET Nat
    BY <1>2
  <2> QED BY <1>3, <2>1, MinFacts
<1>4. CASE enough = {}
  BY <1>1, <1>4
<1>5. CASE enough # {}
  <2>1. Pruned(n) \in 1 .. Len(lru)
    BY <1>1, <1>2, <1>3, <1>5
  <2> QED BY <2>1
<1> QED BY <1>4, <1>5

\* ashmem_shrink.
LEMMA ShrinkInv ==
  ASSUME AshmemInv, NEW n, ashmem_shrink(n)
  PROVE  AshmemInv'
<1> DEFINE k == Pruned(n)
           f == FirstOf(lru, k)
           t == RestOf(lru, k)
           D(b) == Dropped(f, b) \cap 0 .. file[b] - 1
<1>1. /\ AshmemShape /\ ListsOK(unpinned_list) /\ WithinFile /\ LruMatches(unpinned_list, lru)
      /\ unpinned_list \in [Area -> Seq(AshmemRange)]
  BY DEF AshmemInv, AshmemShape
<1>2. /\ unpinned_list' = [b \in Area |-> PruneList(unpinned_list[b], f)]
      /\ lru' = t
      /\ lost' = [b \in Area |-> lost[b] \cup D(b)]
      /\ UNCHANGED <<area_vars, unpinned, failed>>
  BY DEF ashmem_shrink, PruneList, Times, FirstOf, RestOf, Dropped
<1>3. size' = size /\ file' = file /\ setup' = setup /\ unpinned' = unpinned /\ failed' = failed
  BY <1>2 DEF area_vars
<1>4. k \in 0 .. Len(lru)
  BY <1>1, PrunedFacts DEF LruMatches
<1>5. \A b \in Area : unpinned_list'[b] = PruneList(unpinned_list[b], f)
  BY <1>2
<1>6. \A b \in Area : lost'[b] = lost[b] \cup D(b) /\ D(b) \subseteq Dropped(f, b) /\ D(b) \in SUBSET Nat
  BY <1>1, <1>2 DEF AshmemShape
<1>7. f = FirstOf(lru, k) /\ t = RestOf(lru, k)
  OBVIOUS
<1> HIDE DEF k, f, t, D
<1>8. ListsOK(unpinned_list') /\ LruMatches(unpinned_list', lru')
  BY <1>1, <1>2, <1>4, <1>5, <1>7, ShrinkLru
<1>9. ASSUME NEW b \in Area
      PROVE  /\ unpinned_list'[b] \in Seq(RangesOf(b)) /\ unpinned_list[b] \in Seq(RangesOf(b))
             /\ Marked(unpinned_list'[b], unpinned_list[b], f)
  <2> DEFINE q == unpinned_list[b]
             new == unpinned_list'[b]
  <2>1. q \in Seq(RangesOf(b)) /\ Descending(q) /\ new = PruneList(q, f)
    BY <1>1, <1>5 DEF ListsOK
  <2>2. lru \in Seq(AshmemRange) /\ Separate(lru)
    BY <1>1 DEF LruMatches
  <2>3. f \in Seq(AshmemRange) /\ t \in Seq(AshmemRange) /\ IsCut(f, t, lru, k)
    BY <1>4, <1>7, <2>2, CutFacts
  <2>4. Separate(f)
    BY <1>4, <2>2, <2>3, SeparateCut
  <2> HIDE DEF q, new
  <2>5. new \in Seq(RangesOf(b)) /\ Marked(new, q, f)
    BY <2>1, <2>3, <2>4, PruneFacts
  <2> QED BY <2>1, <2>5 DEF q, new
<1>10. unpinned_list' \in [Area -> Seq(AshmemRange)]
  <2>1. ASSUME NEW b \in Area PROVE unpinned_list'[b] \in Seq(AshmemRange)
    <3> DEFINE Z == RangesOf(b)
               new == unpinned_list'[b]
    <3>1. Z \subseteq AshmemRange /\ new \in Seq(Z)
      BY <1>9 DEF RangesOf
    <3> HIDE DEF Z, new
    <3>2. new \in Seq(AshmemRange)
      BY <3>1
    <3> QED BY <3>2 DEF new
  <2> QED BY <1>2, <2>1
<1>11. lost' \in [Area -> SUBSET Nat]
  BY <1>1, <1>2, <1>6 DEF AshmemShape
<1>12. AshmemShape'
  BY <1>1, <1>3, <1>10, <1>11 DEF AshmemShape
<1>13. WithinFile'
  <2>1. ASSUME NEW b \in Area
        PROVE  /\ file'[b] = 0 => unpinned_list'[b] = <<>>
               /\ \A r \in ToSet(unpinned_list'[b]) : r.pgend < size'[b]
    <3> DEFINE q == unpinned_list[b]
               new == unpinned_list'[b]
               Z == RangesOf(b)
    <3>1. new \in Seq(Z) /\ q \in Seq(Z) /\ Marked(new, q, f)
      BY <1>9
    <3>2. /\ file[b] = 0 => q = <<>>
          /\ \A r \in ToSet(q) : r.pgend < size[b]
      BY <1>1 DEF WithinFile
    <3> HIDE DEF q, new, Z
    <3>3. Len(new) = Len(q) /\ \A i \in 1 .. Len(q) : new[i].pgend = q[i].pgend /\ q[i] \in ToSet(q)
      BY <3>1 DEF Marked, PrunedEntry, ToSet
    <3>4. q = <<>> => new = <<>>
      BY <3>1, <3>3
    <3>5. \A r \in ToSet(new) : r.pgend < size[b]
      BY <3>1, <3>2, <3>3, ElementsOf
    <3> QED BY <1>3, <3>2, <3>4, <3>5 DEF new
  <2> QED BY <2>1 DEF WithinFile
<1>14. AllRecorded'
  <2>1. ASSUME NEW b \in Area
        PROVE  Recorded(unpinned_list'[b], lost'[b], unpinned'[b], b, failed')
    <3> DEFINE E == D(b)
               L == lost[b]
               U == unpinned[b]
               new == unpinned_list'[b]
    <3>1. /\ L \in SUBSET Nat /\ U \in SUBSET Nat /\ E \in SUBSET Nat
          /\ E \subseteq Dropped(f, b) /\ Recorded(unpinned_list[b], L, U, b, failed)
          /\ new = PruneList(unpinned_list[b], f)
      BY <1>1, <1>5, <1>6 DEF AshmemShape, AshmemInv, AllRecorded
    <3>2. lost'[b] = L \cup E /\ unpinned'[b] = U /\ failed' = failed
      BY <1>3, <1>6
    <3> HIDE DEF E, L, U, new
    <3>3. Recorded(new, L \cup E, U, b, failed)
      BY <1>1, <1>4, <1>7, <3>1, ShrinkRecorded
    <3> QED BY <3>2, <3>3 DEF new
  <2> QED BY <2>1 DEF AllRecorded
<1> QED BY <1>8, <1>12, <1>13, <1>14 DEF AshmemInv

\* The steps that change no range.
LEMMA OtherInv ==
  ASSUME AshmemInv, NEW a \in Area,
         \/ ashmem_open(a) \/ ashmem_mmap(a) \/ MmapDone(a)
         \/ \E n \in Sizes[a] : SetSize(a, n)
         \/ AllocationShrinks \/ UNCHANGED ashmem_vars
  PROVE  AshmemInv'
<1>1. unpinned_list' = unpinned_list /\ lru' = lru /\ lost' = lost /\ unpinned' = unpinned /\ failed' = failed
  BY DEF ashmem_open, ashmem_mmap, MmapDone, SetSize, AllocationShrinks, ashmem_vars, range_vars, user_vars
<1>2. AshmemShape /\ WithinFile
  BY DEF AshmemInv
<1>3. \/ file' = file /\ size' = size
      \/ size' = size /\ setup[a] # 0 /\ file' = [file EXCEPT ![a] = setup[a]]
      \/ file' = file /\ file[a] = 0 /\ \E n \in Sizes[a] : size' = [size EXCEPT ![a] = n]
  BY DEF ashmem_open, ashmem_mmap, MmapDone, SetSize, AllocationShrinks, ashmem_vars, area_vars
<1>4. \/ setup' = setup \/ setup' = [setup EXCEPT ![a] = size[a]] \/ setup' = [setup EXCEPT ![a] = 0]
  BY DEF ashmem_open, ashmem_mmap, MmapDone, SetSize, AllocationShrinks, ashmem_vars, area_vars
<1>5. \A n \in Sizes[a] : n \in Nat
  BY AshmemAssumption
<1>6. AshmemShape'
  <2>1. setup' \in [Area -> Nat]
    <3>1. setup \in [Area -> Nat] /\ size[a] \in Nat
      BY <1>2 DEF AshmemShape
    <3>2. CASE setup' = setup
      BY <3>1, <3>2
    <3>3. CASE setup' = [setup EXCEPT ![a] = size[a]]
      BY <3>1, <3>3
    <3>4. CASE setup' = [setup EXCEPT ![a] = 0]
      BY <3>1, <3>4
    <3> QED BY <1>4, <3>2, <3>3, <3>4
  <2>2. file' \in [Area -> Nat]
    BY <1>2, <1>3 DEF AshmemShape
  <2>3. size' \in [Area -> Nat]
    BY <1>2, <1>3, <1>5 DEF AshmemShape
  <2> QED BY <1>1, <1>2, <2>1, <2>2, <2>3 DEF AshmemShape
<1>7. WithinFile'
  <2>1. CASE file' = file /\ size' = size
    BY <1>1, <1>2, <2>1 DEF WithinFile
  <2>2. CASE size' = size /\ setup[a] # 0 /\ file' = [file EXCEPT ![a] = setup[a]]
    BY <1>1, <1>2, <2>2 DEF WithinFile, AshmemShape
  <2>3. CASE file' = file /\ file[a] = 0 /\ \E n \in Sizes[a] : size' = [size EXCEPT ![a] = n]
    <3>1. ToSet(unpinned_list[a]) = {}
      BY <1>2, <2>3 DEF WithinFile, ToSet
    <3> QED BY <1>1, <1>2, <2>3, <3>1 DEF WithinFile, AshmemShape
  <2> QED BY <1>3, <2>1, <2>2, <2>3
<1>8. ListsOK(unpinned_list') /\ LruMatches(unpinned_list', lru') /\ AllRecorded'
  BY <1>1 DEF AshmemInv, AllRecorded
<1> QED BY <1>6, <1>7, <1>8 DEF AshmemInv

\* Every step keeps the invariant.
LEMMA AshmemStep ==
  ASSUME AshmemInv, [AshmemNext]_ashmem_vars
  PROVE  AshmemInv'
<1>1. CASE UNCHANGED ashmem_vars
  <2>1. /\ size' = size /\ file' = file /\ setup' = setup /\ unpinned_list' = unpinned_list /\ lru' = lru
        /\ lost' = lost /\ unpinned' = unpinned /\ failed' = failed
    BY <1>1 DEF ashmem_vars, area_vars, range_vars, user_vars
  <2> QED BY <2>1 DEF AshmemInv, AshmemShape, WithinFile, AllRecorded
<1>2. ASSUME NEW a \in Area, AreaStep(a) PROVE AshmemInv'
  <2>1. CASE ashmem_release(a)
    BY <2>1, ReleaseInv
  <2>2. CASE \/ ashmem_open(a) \/ ashmem_mmap(a) \/ MmapDone(a)
             \/ \E n \in Sizes[a] : SetSize(a, n)
    BY <2>2, OtherInv
  <2> QED BY <1>2, <2>1, <2>2 DEF AreaStep
<1>3. ASSUME NEW a \in Area, PinStep(a) PROVE AshmemInv'
  <2>1. size[a] \in Nat
    BY DEF AshmemInv, AshmemShape
  <2>2. PICK s \in 0 .. size[a], e \in 0 .. size[a], alloc \in BOOLEAN :
          ashmem_pin(a, s, e, alloc) \/ ashmem_unpin(a, s, e, alloc) \/ UnpinCovered(a, s, e)
    BY <1>3 DEF PinStep
  <2>3. s \in Nat /\ e \in Nat
    BY <2>1
  <2>4. CASE ashmem_pin(a, s, e, alloc)
    BY <2>3, <2>4, PinInv
  <2>5. CASE ashmem_unpin(a, s, e, alloc)
    BY <2>3, <2>5, UnpinInv
  <2>6. CASE UnpinCovered(a, s, e)
    BY <2>3, <2>6, CoveredInv
  <2> QED BY <2>2, <2>4, <2>5, <2>6
<1>4. ASSUME NEW n, ashmem_shrink(n) PROVE AshmemInv'
  BY <1>4, ShrinkInv
<1>5. CASE AllocationShrinks
  <2>1. /\ size' = size /\ file' = file /\ setup' = setup /\ unpinned_list' = unpinned_list /\ lru' = lru
        /\ lost' = lost /\ unpinned' = unpinned /\ failed' = failed
    BY <1>5 DEF AllocationShrinks, area_vars, range_vars, user_vars
  <2> QED BY <2>1 DEF AshmemInv, AshmemShape, WithinFile, AllRecorded
<1> QED BY <1>1, <1>2, <1>3, <1>4, <1>5 DEF AshmemNext

\* The empty lists of the start.
LEMMA AshmemStart == AshmemInit => AshmemInv
<1> SUFFICES ASSUME AshmemInit PROVE AshmemInv
  OBVIOUS
<1> DEFINE none == <<>>
<1>1. /\ \A A : none \in Seq(A)
      /\ Len(none) = 0 /\ ToSet(none) = {}
  BY DEF ToSet
<1>2. /\ size = [a \in Area |-> 0] /\ file = [a \in Area |-> 0] /\ setup = [a \in Area |-> 0]
      /\ unpinned_list = [a \in Area |-> none] /\ lru = none /\ failed = {}
      /\ lost = [a \in Area |-> {}] /\ unpinned = [a \in Area |-> {}]
  BY DEF AshmemInit
<1>3. WithinFile
  BY <1>1, <1>2 DEF WithinFile
<1> HIDE DEF none
<1>4. AshmemShape
  BY <1>1, <1>2 DEF AshmemShape
<1>5. ListsOK(unpinned_list)
  BY <1>1, <1>2 DEF ListsOK, Descending
<1>6. LruMatches(unpinned_list, lru)
  <2>1. \A r \in AshmemRange : r.asma \in Area
    BY DEF AshmemRange
  <2>2. lru \in Seq(AshmemRange) /\ ToSet(lru) = {} /\ Separate(lru)
    BY <1>1, <1>2 DEF Separate
  <2>3. \A r \in AshmemRange : unpinned_list[r.asma] = none
    BY <1>2, <2>1
  <2> QED BY <1>1, <2>2, <2>3 DEF LruMatches
<1>7. AllRecorded
  BY <1>1, <1>2 DEF AllRecorded, Recorded
<1> QED BY <1>3, <1>4, <1>5, <1>6, <1>7 DEF AshmemInv

\* The invariant holds always.
THEOREM AshmemInvariant == AshmemSpec => []AshmemInv
<1>1. AshmemInit => AshmemInv
  BY AshmemStart
<1>2. AshmemInv /\ [AshmemNext]_ashmem_vars => AshmemInv'
  BY AshmemStep
<1> QED BY <1>1, <1>2, PTL DEF AshmemSpec

\* However pages are pinned and unpinned, the ranges of every area stay sorted, without
\* overlap.
THEOREM RangesStaySorted == AshmemSpec => []RangesSorted
<1>1. AshmemInv => RangesSorted
  BY DEF AshmemInv, ListsOK, Descending, RangesSorted
<1> QED BY <1>1, AshmemInvariant, PTL

\* Every dropped page is in a purged range until a user pins it and is told.
THEOREM PurgesAreReported == AshmemSpec => []PurgeIsReported
<1>1. AshmemInv => PurgeIsReported
  BY DEF AshmemInv, AllRecorded, Recorded, PurgeIsReported
<1> QED BY <1>1, AshmemInvariant, PTL

\* The pages of the ranges are those that users have unpinned: no page that is pinned can
\* be dropped.
THEOREM PinnedPagesAreKept == AshmemSpec => []OnlyUnpinnedDropped
<1>1. AshmemInv => OnlyUnpinnedDropped
  <2> SUFFICES ASSUME AshmemInv, NEW a \in Area
               PROVE  /\ Covered(a) \subseteq unpinned[a]
                      /\ a \notin failed => Covered(a) = unpinned[a] /\ lost[a] \subseteq unpinned[a]
    BY DEF OnlyUnpinnedDropped
  <2> DEFINE q == unpinned_list[a]
  <2>1. Recorded(q, lost[a], unpinned[a], a, failed)
    BY DEF AshmemInv, AllRecorded
  <2>2. q \in Seq(RangesOf(a)) /\ lost[a] \subseteq Nat /\ unpinned[a] \subseteq Nat
    BY DEF AshmemInv, ListsOK, AshmemShape
  <2> HIDE DEF q
  <2>3. \A r \in ToSet(q) : r \in RangesOf(a)
    BY <2>2 DEF ToSet
  <2>4. \A r \in ToSet(q) : r.pgstart \in Nat /\ r.pgend \in Nat
    BY <2>3, RangeType
  <2>5. \A p : p \in Covered(a) <=> p \in Nat /\ \E r \in ToSet(q) : page_in_range(r, p)
    <3>1. Covered(a) = UNION {r.pgstart .. r.pgend : r \in ToSet(q)}
      BY DEF Covered, q
    <3>2. ASSUME NEW r \in ToSet(q), NEW p PROVE p \in r.pgstart .. r.pgend <=> p \in Nat /\ page_in_range(r, p)
      BY <2>4 DEF page_in_range
    <3> QED BY <3>1, <3>2
  <2> QED BY <2>1, <2>2, <2>5 DEF Recorded
<1> QED BY <1>1, AshmemInvariant, PTL

-----------------------------------------------------------------------------
(* How often a range is on a list: empty ranges may be there several times. *)

\* Where r is in q.
Places(q, r) == {i \in 1 .. Len(q) : q[i] = r}

\* The number of places.
LEMMA TimesType ==
  ASSUME NEW A, NEW q \in Seq(A), NEW r
  PROVE  /\ IsFiniteSet(Places(q, r)) /\ Times(q, r) = Cardinality(Places(q, r))
         /\ Times(q, r) \in Nat /\ (Times(q, r) = 0 <=> r \notin ToSet(q))
<1>1. Len(q) \in Nat /\ Places(q, r) \subseteq 1 .. Len(q)
  BY DEF Places
<1>2. IsFiniteSet(1 .. Len(q))
  BY <1>1, FS_Interval
<1>3. IsFiniteSet(Places(q, r))
  BY <1>1, <1>2, FS_Subset
<1>4. Times(q, r) = Cardinality(Places(q, r))
  BY DEF Times, Places
<1>5. Times(q, r) \in Nat /\ (Times(q, r) = 0 <=> Places(q, r) = {})
  BY <1>3, <1>4, FS_CardinalityType, FS_EmptySet
<1>6. Places(q, r) = {} <=> r \notin ToSet(q)
  BY ElementsOf DEF Places
<1> QED BY <1>3, <1>4, <1>5, <1>6

\* Sets with a one-to-one map between them have the same size.
LEMMA SameSize ==
  ASSUME NEW S, IsFiniteSet(S), NEW T, NEW f \in [S -> T],
         \A x, y \in S : f[x] = f[y] => x = y, \A t \in T : \E x \in S : f[x] = t
  PROVE  IsFiniteSet(T) /\ Cardinality(T) = Cardinality(S)
<1>1. f \in Bijection(S, T)
  BY DEF Bijection, Injection, Surjection, IsInjective
<1>2. ExistsBijection(S, T)
  BY <1>1 DEF ExistsBijection
<1> QED BY <1>2, FS_Bijection

\* Replacing the elements of a list, but not r.
LEMMA TimesPieces ==
  ASSUME NEW A, NEW q \in Seq(A), NEW ss \in Seq(Seq(A)), Len(ss) = Len(q), NEW r,
         \A i \in 1 .. Len(q) : /\ q[i] = r => ss[i] = <<r>>
                                /\ q[i] # r => r \notin ToSet(ss[i])
  PROVE  Times(FlattenSeq(ss), r) = Times(q, r)
<1> DEFINE F == FlattenSeq(ss)
<1>1. F \in Seq(A)
  BY FlattenFacts
<1>2. PICK src, off : Flattened(F, ss, Len(ss), src, off)
  BY FlattenFacts
<1> HIDE DEF F
<1> DEFINE S == Places(F, r)
           T == Places(q, r)
           f == [k \in S |-> src[k]]
<1>3. ASSUME NEW k \in S PROVE k \in 1 .. Len(F) /\ src[k] \in T /\ off[k] = 1
  <2>1. k \in 1 .. Len(F) /\ F[k] = r
    BY DEF Places
  <2>2. src[k] \in 1 .. Len(q) /\ off[k] \in 1 .. Len(ss[src[k]]) /\ r = ss[src[k]][off[k]]
    BY <1>2, <2>1 DEF Flattened
  <2>3. ss[src[k]] \in Seq(A)
    BY <2>2
  <2>4. r \in ToSet(ss[src[k]])
    BY <2>2, <2>3, ElementsOf
  <2>5. q[src[k]] = r /\ ss[src[k]] = <<r>>
    BY <2>2, <2>4
  <2>6. Len(ss[src[k]]) = 1
    BY <2>5
  <2> QED BY <2>1, <2>2, <2>5, <2>6 DEF Places
<1>4. f \in [S -> T]
  BY <1>3
<1>5. ASSUME NEW k \in S, NEW l \in S, f[k] = f[l] PROVE k = l
  <2>1. src[k] = src[l] /\ off[k] = 1 /\ off[l] = 1 /\ k \in 1 .. Len(F) /\ l \in 1 .. Len(F)
    BY <1>3, <1>5
  <2>2. src[k] \in Int /\ src[l] \in Int
    BY <1>3 DEF Places
  <2>3. ~(k < l)
    <3>1. k < l => src[k] < src[l] \/ off[k] < off[l]
      BY <1>2, <2>1 DEF Flattened
    <3> QED BY <2>1, <2>2, <3>1
  <2>4. ~(l < k)
    <3>1. l < k => src[l] < src[k] \/ off[l] < off[k]
      BY <1>2, <2>1 DEF Flattened
    <3> QED BY <2>1, <2>2, <3>1
  <2> QED BY <1>1, <2>1, <2>3, <2>4
<1>6. ASSUME NEW i \in T PROVE \E k \in S : f[k] = i
  <2>1. i \in 1 .. Len(q) /\ ss[i] = <<r>>
    BY DEF Places
  <2>2. Len(ss[i]) = 1 /\ ss[i][1] = r
    BY <2>1
  <2>3. PICK k \in 1 .. Len(F) : src[k] = i /\ off[k] = 1
    <3>1. i \in 1 .. Len(ss) /\ 1 \in 1 .. Len(ss[i])
      BY <2>1, <2>2
    <3> QED BY <1>2, <3>1 DEF Flattened
  <2>4. F[k] = r
    BY <1>2, <2>2, <2>3 DEF Flattened
  <2>5. k \in S
    BY <2>4 DEF Places
  <2> QED BY <2>3, <2>5
<1>7. IsFiniteSet(S)
  BY <1>1, TimesType
<1> HIDE DEF S, T, f
<1>8. Cardinality(T) = Cardinality(S)
  BY <1>4, <1>5, <1>6, <1>7, SameSize
<1>9. Times(F, r) = Cardinality(S)
  BY <1>1, TimesType DEF S
<1>10. Times(q, r) = Cardinality(T)
  BY TimesType DEF T
<1> QED BY <1>8, <1>9, <1>10 DEF F

\* Elements are taken out.
LEMMA TimesWithout ==
  ASSUME NEW A, NEW q \in Seq(A), NEW X, NEW r
  PROVE  Times(Without(q, X), r) = IF r \in X THEN 0 ELSE Times(q, r)
<1>1. CASE r \in X
  <2>1. Without(q, X) \in Seq(A)
    BY WithoutFacts
  <2>2. r \notin ToSet(Without(q, X))
    BY <1>1, WithoutSet
  <2> QED BY <1>1, <2>1, <2>2, TimesType
<1>2. CASE r \notin X
  <2> DEFINE ss == [i \in 1 .. Len(q) |-> IF q[i] \in X THEN <<>> ELSE <<q[i]>>]
  <2>1. ss \in Seq(Seq(A)) /\ Len(ss) = Len(q)
    OBVIOUS
  <2>2. ASSUME NEW i \in 1 .. Len(q)
        PROVE  /\ q[i] = r => ss[i] = <<r>>
               /\ q[i] # r => r \notin ToSet(ss[i])
    <3>1. q[i] = r => ss[i] = <<r>>
      BY <1>2
    <3>2. ss[i] = <<>> \/ ss[i] = <<q[i]>>
      OBVIOUS
    <3>3. ToSet(<<>>) = {} /\ ToSet(<<q[i]>>) = {q[i]}
      BY DEF ToSet
    <3> QED BY <3>1, <3>2, <3>3
  <2>3. Without(q, X) = FlattenSeq(ss)
    BY DEF Without
  <2> HIDE DEF ss
  <2>4. Times(FlattenSeq(ss), r) = Times(q, r)
    BY <2>1, <2>2, TimesPieces
  <2> QED BY <1>2, <2>3, <2>4
<1> QED BY <1>1, <1>2

\* Lists are put together.
LEMMA TimesConcat ==
  ASSUME NEW A, NEW q \in Seq(A), NEW t \in Seq(A), NEW r
  PROVE  Times(q \o t, r) = Times(q, r) + Times(t, r)
<1> DEFINE c == q \o t
           n == Len(q)
           S == Places(q, r)
           T == Places(t, r)
           f == [i \in T |-> n + i]
           R == {n + i : i \in T}
<1>1. /\ c \in Seq(A) /\ Len(c) = n + Len(t) /\ n \in Nat /\ Len(t) \in Nat
      /\ \A i \in 1 .. n : c[i] = q[i]
      /\ \A i \in 1 .. Len(t) : c[n + i] = t[i]
  OBVIOUS
<1>2. /\ IsFiniteSet(S) /\ Times(q, r) = Cardinality(S) /\ Times(q, r) \in Nat
      /\ IsFiniteSet(T) /\ Times(t, r) = Cardinality(T) /\ Times(t, r) \in Nat
  BY TimesType
<1>3. \A i \in T : i \in 1 .. Len(t) /\ t[i] = r
  BY DEF Places
<1>4. \A i \in S : i \in 1 .. n /\ q[i] = r
  BY DEF Places
<1>5. \A i \in 1 .. Len(c) : i <= n \/ (i - n \in 1 .. Len(t) /\ n + (i - n) = i)
  BY <1>1
<1>6. /\ \A i \in 1 .. n : i \in 1 .. Len(c)
      /\ \A i \in 1 .. Len(t) : n + i \in 1 .. Len(c) /\ n + i > n
  BY <1>1
<1> HIDE DEF c, n
<1>7. Places(c, r) = S \cup R
  <2>1. ASSUME NEW i \in Places(c, r) PROVE i \in S \cup R
    <3>1. i \in 1 .. Len(c) /\ c[i] = r
      BY DEF Places
    <3>2. CASE i <= n
      <4>1. i \in 1 .. n
        BY <1>1, <3>1, <3>2
      <4>2. i \in S
        BY <1>1, <3>1, <4>1 DEF Places, n
      <4> QED BY <4>2
    <3>3. CASE i - n \in 1 .. Len(t) /\ n + (i - n) = i
      <4>1. t[i - n] = r
        BY <1>1, <3>1, <3>3
      <4>2. i - n \in T
        BY <3>3, <4>1 DEF Places
      <4> QED BY <3>3, <4>2
    <3> QED BY <1>5, <3>1, <3>2, <3>3
  <2>2. S \subseteq Places(c, r)
    BY <1>1, <1>4, <1>6 DEF Places
  <2>3. R \subseteq Places(c, r)
    BY <1>1, <1>3, <1>6 DEF Places
  <2> QED BY <2>1, <2>2, <2>3
<1>8. S \cap R = {}
  <2>1. \A i \in S : \A j \in T : i # n + j
    BY <1>1, <1>3, <1>4, <1>6
  <2> QED BY <2>1
<1>9. f \in [T -> R] /\ \A x \in R : \E i \in T : f[i] = x
  OBVIOUS
<1>10. \A i, j \in T : f[i] = f[j] => i = j
  BY <1>1, <1>3
<1> HIDE DEF S, T, R, f
<1>11. IsFiniteSet(R) /\ Cardinality(R) = Cardinality(T)
  BY <1>2, <1>9, <1>10, SameSize
<1>12. Cardinality(S \cup R) = Cardinality(S) + Cardinality(R) - Cardinality(S \cap R)
  BY <1>2, <1>11, FS_Union
<1>13. Cardinality(S \cap R) = 0
  BY <1>8, FS_EmptySet
<1>14. Times(c, r) = Cardinality(S \cup R)
  BY <1>1, <1>7, TimesType
<1> QED BY <1>2, <1>11, <1>12, <1>13, <1>14 DEF c

\* Of the places of r, t have one of the first t numbers.
LEMMA FirstPlaces ==
  ASSUME NEW A, NEW q \in Seq(A), NEW r, NEW t \in Nat, t <= Times(q, r)
  PROVE  Cardinality({i \in Places(q, r) : Nth(q, i) <= t}) = t
<1> DEFINE n == Len(q)
           S == Places(q, r)
           Up(j) == {i \in S : i <= j}
           Lo(j) == {i \in S : i <= j /\ Nth(q, i) <= t}
           up(j) == Cardinality(Up(j))
           lo(j) == Cardinality(Lo(j))
           Ok(j) == (up(j) <= t => lo(j) = up(j)) /\ (up(j) > t => lo(j) = t)
           Good == {j \in 0 .. n : Ok(j)}
<1>1. n \in Nat /\ S \subseteq 1 .. n /\ IsFiniteSet(S) /\ Times(q, r) = Cardinality(S)
  BY TimesType DEF Places
<1>2. \A i \in S : i \in Int /\ i >= 1 /\ i <= n
  BY <1>1
<1>3. \A j : IsFiniteSet(Up(j)) /\ up(j) \in Nat /\ IsFiniteSet(Lo(j)) /\ lo(j) \in Nat
  <2> TAKE j
  <2>1. Up(j) \in SUBSET S /\ Lo(j) \in SUBSET S
    OBVIOUS
  <2> HIDE DEF Up, Lo
  <2>2. IsFiniteSet(Up(j)) /\ IsFiniteSet(Lo(j))
    BY <1>1, <2>1, FS_Subset
  <2> QED BY <2>2, FS_CardinalityType
<1>4. ASSUME NEW i \in S PROVE Nth(q, i) = up(i)
  <2>1. {j \in 1 .. i : q[j] = q[i]} = Up(i)
    BY <1>1 DEF Places
  <2> QED BY <2>1 DEF Nth
<1>5. 0 \in Good
  <2>1. Up(0) = {} /\ Lo(0) = {}
    BY <1>2
  <2>2. up(0) = 0 /\ lo(0) = 0
    BY <2>1, FS_EmptySet
  <2> QED BY <1>1, <2>2
<1>6. ASSUME NEW j \in 1 .. n, j - 1 \in Good PROVE j \in Good
  <2> DEFINE h == j - 1
  <2>1. Ok(h) /\ h \in Nat /\ j \in 0 .. n /\ \A i \in S : i <= j <=> i <= h \/ i = j
    BY <1>1, <1>2, <1>6
  <2>2. ~(j <= h)
    BY <1>1
  <2> HIDE DEF S, h
  <2>3. CASE j \notin S
    <3>1. Up(j) = Up(h) /\ Lo(j) = Lo(h)
      BY <2>1, <2>3
    <3>2. up(j) = up(h) /\ lo(j) = lo(h)
      BY <3>1
    <3> HIDE DEF up, lo
    <3>3. Ok(j)
      BY <2>1, <3>2
    <3> QED BY <2>1, <3>3
  <2>4. CASE j \in S
    <3>1. Up(j) = Up(h) \cup {j} /\ j \notin Up(h)
      BY <2>1, <2>2, <2>4
    <3>2. up(j) = up(h) + 1
      <4> DEFINE U == Up(h)
      <4>1. Up(j) = U \cup {j} /\ j \notin U /\ IsFiniteSet(U)
        BY <1>3, <3>1
      <4> HIDE DEF U
      <4>2. Cardinality(U \cup {j}) = Cardinality(U) + 1
        BY <4>1, FS_AddElement
      <4> QED BY <4>1, <4>2 DEF U
    <3>3. Nth(q, j) = up(j)
      BY <1>4, <2>4
    <3>4. CASE up(j) <= t
      <4>1. Lo(j) = Lo(h) \cup {j} /\ j \notin Lo(h)
        BY <2>1, <2>2, <2>4, <3>3, <3>4
      <4>2. lo(j) = lo(h) + 1
        <5> DEFINE U == Lo(h)
        <5>1. Lo(j) = U \cup {j} /\ j \notin U /\ IsFiniteSet(U)
          BY <1>3, <4>1
        <5> HIDE DEF U
        <5>2. Cardinality(U \cup {j}) = Cardinality(U) + 1
          BY <5>1, FS_AddElement
        <5> QED BY <5>1, <5>2 DEF U
      <4>3. up(j) \in Nat /\ up(h) \in Nat /\ lo(j) \in Nat /\ lo(h) \in Nat
        BY <1>3
      <4> HIDE DEF up, lo
      <4>4. Ok(j)
        BY <2>1, <3>2, <3>4, <4>2, <4>3
      <4> QED BY <2>1, <4>4
    <3>5. CASE ~(up(j) <= t)
      <4>1. Lo(j) = Lo(h)
        BY <2>1, <2>4, <3>3, <3>5
      <4>2. lo(j) = lo(h)
        BY <4>1
      <4>3. up(j) \in Nat /\ up(h) \in Nat /\ lo(j) \in Nat /\ lo(h) \in Nat
        BY <1>3
      <4> HIDE DEF up, lo
      <4>4. Ok(j)
        BY <2>1, <3>2, <3>5, <4>2, <4>3
      <4> QED BY <2>1, <4>4
    <3> QED BY <3>4, <3>5
  <2> QED BY <2>3, <2>4
<1>7. Ok(n)
  <2> HIDE DEF Good
  <2>1. \A j \in 0 .. n : j \in Good
    BY <1>1, <1>5, <1>6, UpTo
  <2>2. n \in Good
    BY <1>1, <2>1
  <2> QED BY <2>2 DEF Good
<1>8. Up(n) = S /\ Lo(n) = {i \in S : Nth(q, i) <= t}
  BY <1>2
<1>9. up(n) >= t /\ up(n) \in Nat
  BY <1>1, <1>3, <1>8
<1>10. lo(n) = t
  BY <1>7, <1>9
<1> QED BY <1>8, <1>10

\* Every entry that the shrinker purges was on the list, and is no longer.
LEMMA PruneTimes ==
  ASSUME NEW a \in Area, NEW q \in Seq(RangesOf(a)), NEW f \in Seq(AshmemRange),
         NEW new \in Seq(RangesOf(a)), new = PruneList(q, f),
         NEW r \in AshmemRange, ~r.purged, Times(f, r) <= Times(q, r)
  PROVE  Times(new, r) = Times(q, r) - Times(f, r)
<1> DEFINE S == Places(q, r)
           t == Times(f, r)
           L == {i \in S : Nth(q, i) <= t}
<1>1. Len(q) \in Nat /\ \A i \in 1 .. Len(q) : q[i] \in RangesOf(a) /\ q[i] \in AshmemRange
  BY DEF RangesOf
<1>2. IsFiniteSet(S) /\ Times(q, r) = Cardinality(S) /\ Times(q, r) \in Nat /\ t \in Nat
  BY TimesType
<1>3. Len(new) = Len(q)
      /\ \A i \in 1 .. Len(q) :
            new[i] = IF Nth(q, i) <= Times(f, q[i]) THEN [q[i] EXCEPT !.purged = TRUE] ELSE q[i]
  BY <1>1 DEF PruneList
<1>4. \A x \in AshmemRange : [x EXCEPT !.purged = TRUE].purged
  BY DEF AshmemRange
<1>5. ASSUME NEW i \in 1 .. Len(q) PROVE new[i] = r <=> q[i] = r /\ ~(Nth(q, i) <= t)
  <2> DEFINE x == q[i]
             c == Nth(q, i) <= Times(f, x)
  <2>1. new[i] = (IF c THEN [x EXCEPT !.purged = TRUE] ELSE x) /\ x \in AshmemRange
    BY <1>1, <1>3
  <2>2. [x EXCEPT !.purged = TRUE] # r
    BY <1>4, <2>1
  <2> HIDE DEF x, c
  <2>3. new[i] = r <=> ~c /\ x = r
    BY <2>1, <2>2
  <2> QED BY <2>3 DEF x, c
<1>6. Places(new, r) = S \ L
  BY <1>3, <1>5 DEF Places
<1>7. Cardinality(L) = t
  BY <1>2, FirstPlaces
<1>8. S \cap L = L
  OBVIOUS
<1> HIDE DEF S, L, t
<1>9. Cardinality(S \ L) = Cardinality(S) - Cardinality(S \cap L)
  BY <1>2, FS_Difference
<1>10. Times(new, r) = Cardinality(S \ L)
  BY <1>6, TimesType
<1> QED BY <1>2, <1>7, <1>8, <1>9, <1>10 DEF t

\* The LRU list holds every range that is not purged as often as its area does.
LruCounts(lists, l) == \A r \in AshmemRange : ~r.purged => Times(l, r) = Times(lists[r.asma], r)

\* What is said of empty ranges is left to be shown.
EmptyCounts(lists, l) ==
  \A r \in AshmemRange : ~r.purged /\ ~NonEmpty(r) => Times(l, r) = Times(lists[r.asma], r)

\* A range with pages is on a list at most once.
LEMMA TimesOnce ==
  ASSUME NEW A \in SUBSET AshmemRange, NEW q \in Seq(A), Separate(q), NEW r, NonEmpty(r)
  PROVE  Times(q, r) = IF r \in ToSet(q) THEN 1 ELSE 0
<1>1. CASE r \notin ToSet(q)
  BY <1>1, TimesType
<1>2. CASE r \in ToSet(q)
  <2>1. PICK i \in 1 .. Len(q) : q[i] = r
    BY <1>2, ElementsOf
  <2>2. \A j \in Places(q, r) : j \in 1 .. Len(q) /\ q[i] = q[j]
    BY <2>1 DEF Places
  <2>3. NonEmpty(q[i])
    BY <2>1
  <2>4. \A j \in Places(q, r) : j = i
    BY <2>2, <2>3, SeparateUnique
  <2>5. i \in Places(q, r)
    BY <2>1 DEF Places
  <2>6. Places(q, r) = {i}
    BY <2>4, <2>5
  <2>7. Cardinality(Places(q, r)) = 1
    BY <2>6, FS_Singleton
  <2> QED BY <1>2, <2>7, TimesType
<1> QED BY <1>1, <1>2

\* Only empty ranges can be on the lists a different number of times.
LEMMA CountsFacts ==
  ASSUME NEW lists, ListsOK(lists), NEW l, LruMatches(lists, l), EmptyCounts(lists, l)
  PROVE  LruCounts(lists, l)
<1> SUFFICES ASSUME NEW r \in AshmemRange, ~r.purged, NonEmpty(r)
             PROVE  Times(l, r) = Times(lists[r.asma], r)
  BY DEF LruCounts, EmptyCounts
<1> DEFINE a == r.asma
           q == lists[a]
<1>1. a \in Area
  BY DEF AshmemRange
<1>2. q \in Seq(RangesOf(a)) /\ Descending(q)
  BY <1>1 DEF ListsOK
<1>3. l \in Seq(AshmemRange) /\ Separate(l) /\ (r \in ToSet(l) <=> r \in ToSet(q))
  BY DEF LruMatches
<1> HIDE DEF a, q
<1>4. Separate(q)
  BY <1>1, <1>2, DescendingSeparate
<1>5. RangesOf(a) \in SUBSET AshmemRange /\ AshmemRange \in SUBSET AshmemRange
  BY DEF RangesOf
<1>6. Times(l, r) = IF r \in ToSet(l) THEN 1 ELSE 0
  BY <1>3, <1>5, TimesOnce
<1>7. Times(q, r) = IF r \in ToSet(q) THEN 1 ELSE 0
  BY <1>2, <1>4, <1>5, TimesOnce
<1>8. Times(l, r) = Times(q, r)
  BY <1>3, <1>6, <1>7
<1> QED BY <1>8 DEF a, q

\* P is what ashmem_pin puts in the place of the range x, in one of the two lists.
PieceOf(P, x, H, s, e, alloc) == P = PinPiece(H, x, s, e, alloc) \/ P = PinRest(H, x, s, e)
PiecesOf(ss, q, H, s, e, alloc) ==
  Len(ss) = Len(q) /\ \A i \in 1 .. Len(q) : PieceOf(ss[i], q[i], H, s, e, alloc)

\* P holds the empty range r if x is r, which is not touched.
KeepsEmpty(P, x, r, H) ==
  /\ x # r => r \notin ToSet(P)
  /\ x = r /\ r \in H => P = <<>>
  /\ x = r /\ r \notin H => P = <<r>>

\* Of an empty range ashmem_pin leaves all or nothing, and it makes no empty range.
LEMMA EmptyPiece ==
  ASSUME NEW a \in Area, NEW x \in RangesOf(a), NEW s \in Nat, NEW e \in Nat,
         NEW H, x \in H => Meets(x, s, e), NEW alloc \in BOOLEAN, NEW r, ~NonEmpty(r),
         NEW P, PieceOf(P, x, H, s, e, alloc)
  PROVE  P \in Seq(AshmemRange) /\ KeepsEmpty(P, x, r, H)
<1>0. P = PinPiece(H, x, s, e, alloc) \/ P = PinRest(H, x, s, e)
  BY DEF PieceOf
<1>1. P \in Seq(RangesOf(a)) /\ \A y \in ToSet(P) : PartOf(y, x, a, H, s, e)
  <2>1. CASE P = PinPiece(H, x, s, e, alloc)
    BY <2>1, PieceFacts
  <2>2. CASE P = PinRest(H, x, s, e)
    BY <2>2, RestFacts
  <2> QED BY <1>0, <2>1, <2>2
<1>2. \A y \in ToSet(P) : y = x \/ NonEmpty(y)
  BY <1>1 DEF PartOf
<1>3. P \in Seq(AshmemRange)
  <2> DEFINE Z == RangesOf(a)
  <2>1. Z \subseteq AshmemRange /\ P \in Seq(Z)
    BY <1>1 DEF RangesOf
  <2> HIDE DEF Z
  <2> QED BY <2>1
<1>4. ASSUME x = r, r \notin H PROVE P = <<r>>
  <2>1. PinUpper(H, x, s, e, alloc) = <<>> /\ PinRest(H, x, s, e) = <<x>>
    BY <1>4 DEF PinUpper, PinRest
  <2> QED BY <1>0, <1>4, <2>1, ConcatShort DEF PinPiece
<1>5. ASSUME x = r, r \in H PROVE P = <<>>
  <2>1. /\ x.pgstart \in Nat /\ x.pgend \in Nat /\ ~(x.pgstart <= x.pgend)
        /\ s <= e /\ x.pgend >= s /\ page_range_in_range(x, s, e)
    BY <1>5, RangeType DEF NonEmpty, Meets
  <2>2. page_range_subsumes_range(x, s, e) /\ ~(x.pgstart < s)
    BY <2>1 DEF page_range_in_range, page_in_range, page_range_subsumes_range
  <2>3. PinUpper(H, x, s, e, alloc) = <<>> /\ PinRest(H, x, s, e) = <<>>
    BY <1>5, <2>2 DEF PinUpper, PinRest, Hole, Remainder
  <2> QED BY <1>0, <2>3 DEF PinPiece
<1> QED BY <1>2, <1>3, <1>4, <1>5 DEF KeepsEmpty

\* How often an empty range is on a list after ashmem_pin.
LEMMA PinTimes ==
  ASSUME NEW q \in Seq(AshmemRange), \A x \in ToSet(q) : x \in RangesOf(x.asma),
         NEW s \in Nat, NEW e \in Nat, NEW H, \A x \in H : Meets(x, s, e), NEW alloc \in BOOLEAN,
         NEW r, ~NonEmpty(r), NEW ss \in Seq(Seq(AshmemRange)), PiecesOf(ss, q, H, s, e, alloc)
  PROVE  Times(FlattenSeq(ss), r) = IF r \in H THEN 0 ELSE Times(q, r)
<1>0. Len(ss) = Len(q)
  BY DEF PiecesOf
<1>a. ASSUME NEW i \in 1 .. Len(q) PROVE KeepsEmpty(ss[i], q[i], r, H)
  <2> DEFINE x == q[i]
             P == ss[i]
  <2>1. x \in ToSet(q) /\ x \in AshmemRange /\ PieceOf(P, x, H, s, e, alloc)
    BY ElementsOf DEF PiecesOf
  <2> HIDE DEF x, P
  <2> DEFINE b == x.asma
  <2>2. b \in Area /\ x \in RangesOf(b) /\ (x \in H => Meets(x, s, e))
    BY <2>1 DEF AshmemRange
  <2> HIDE DEF b
  <2>3. KeepsEmpty(P, x, r, H)
    BY <2>1, <2>2, EmptyPiece
  <2> QED BY <2>3 DEF x, P
<1>1. \A i \in 1 .. Len(q) : /\ q[i] # r => r \notin ToSet(ss[i])
                             /\ q[i] = r /\ r \in H => ss[i] = <<>>
                             /\ q[i] = r /\ r \notin H => ss[i] = <<r>>
  BY <1>a DEF KeepsEmpty
<1>2. CASE r \in H
  <2>1. ToSet(<<>>) = {}
    BY DEF ToSet
  <2>2. \A i \in 1 .. Len(q) : r \notin ToSet(ss[i])
    BY <1>1, <1>2, <2>1
  <2>3. FlattenSeq(ss) \in Seq(AshmemRange) /\ r \notin ToSet(FlattenSeq(ss))
    BY <1>0, <2>2, FlattenFacts, FlattenElements
  <2> QED BY <1>2, <2>3, TimesType
<1>3. CASE r \notin H
  <2>1. Times(FlattenSeq(ss), r) = Times(q, r)
    BY <1>0, <1>1, <1>3, TimesPieces
  <2> QED BY <1>3, <2>1
<1> QED BY <1>2, <1>3

\* ashmem_pin.
LEMMA PinCounts ==
  ASSUME NEW a \in Area, NEW lists, ListsOK(lists), NEW l, LruMatches(lists, l), LruCounts(lists, l),
         NEW s \in Nat, NEW e \in Nat, NEW H, H \subseteq ToSet(lists[a]), \A r \in H : Meets(r, s, e),
         NEW alloc \in BOOLEAN,
         NEW lists2, \A b \in Area : b # a => lists2[b] = lists[b],
         lists2[a] = PinList(lists[a], H, s, e, alloc),
         NEW F, F = KeptOnLru(l, H, s, e), NEW G, G = AddedToLru(lists[a], H, s, e, alloc)
  PROVE  EmptyCounts(lists2, F \o G)
<1> DEFINE q == lists[a]
<1>0. lists2[a] = PinList(q, H, s, e, alloc)
  OBVIOUS
<1>1. q \in Seq(RangesOf(a)) /\ Descending(q)
  BY DEF ListsOK
<1>2. l \in Seq(AshmemRange) /\ (\A r \in ToSet(l) : LruEntry(r)) /\ Separate(l)
  BY DEF LruMatches
<1>3. G = AddedToLru(q, H, s, e, alloc) /\ H \subseteq ToSet(q)
  OBVIOUS
<1>4. \A r \in AshmemRange : ~r.purged => Times(l, r) = Times(lists[r.asma], r)
  BY DEF LruCounts
<1> HIDE DEF q
<1>5. \A x \in ToSet(q) : x \in RangesOf(a) /\ x.asma = a
  BY <1>1, ElementsOf DEF RangesOf
<1>6. \A x \in ToSet(l) : x \in RangesOf(x.asma)
  BY <1>2 DEF LruEntry, RangesOf
<1>7. q \in Seq(AshmemRange)
  <2> DEFINE Z == RangesOf(a)
  <2>1. Z \subseteq AshmemRange /\ q \in Seq(Z)
    BY <1>1 DEF RangesOf
  <2> HIDE DEF Z
  <2> QED BY <2>1
<1>8. F \in Seq(AshmemRange)
  BY <1>2, PinKept
<1>9. /\ G \in Seq(RangesOf(a))
      /\ \A x : x \in ToSet(G) <=> AddedFor(x, q, H, s, e, alloc)
  <2>1. \A r \in H : Meets(r, s, e)
    OBVIOUS
  <2> QED BY ONLY a \in Area, s \in Nat, e \in Nat, alloc \in BOOLEAN, <1>1, <1>3, <2>1, PinAdded
<1>10. G \in Seq(AshmemRange)
  <2> DEFINE Z == RangesOf(a)
  <2>1. Z \subseteq AshmemRange /\ G \in Seq(Z)
    BY <1>9 DEF RangesOf
  <2> HIDE DEF Z
  <2> QED BY <2>1
<1> SUFFICES ASSUME NEW r \in AshmemRange, ~r.purged, ~NonEmpty(r)
             PROVE  Times(F \o G, r) = Times(lists2[r.asma], r)
  BY DEF EmptyCounts
<1>11. Times(G, r) = 0
  <2>1. ASSUME NEW x \in ToSet(q), r \in ToSet(PinUpper(H, x, s, e, alloc)) PROVE FALSE
    <3>1. x \in RangesOf(a) /\ (x \in H => Meets(x, s, e))
      BY <1>5
    <3>2. NonEmpty(r)
      BY <2>1, <3>1, UpperFacts
    <3> QED BY <3>2
  <2>2. r \notin ToSet(G)
    BY <1>9, <2>1 DEF AddedFor
  <2> QED BY <1>10, <2>2, TimesType
<1>12. Times(F, r) = IF r \in H THEN 0 ELSE Times(l, r)
  <2> DEFINE ss == [i \in 1 .. Len(l) |-> PinRest(H, l[i], s, e)]
  <2>1. ASSUME NEW x \in ToSet(l) PROVE PinRest(H, x, s, e) \in Seq(AshmemRange)
    <3> DEFINE b == x.asma
               R == PinRest(H, x, s, e)
    <3>1. b \in Area /\ x \in RangesOf(b) /\ (x \in H => Meets(x, s, e))
      BY <1>2, <1>6 DEF LruEntry, AshmemRange
    <3>2. PieceOf(R, x, H, s, e, alloc)
      BY DEF PieceOf
    <3> HIDE DEF b, R
    <3>3. R \in Seq(AshmemRange)
      BY <3>1, <3>2, EmptyPiece
    <3> QED BY <3>3 DEF R
  <2>2. ss \in Seq(Seq(AshmemRange)) /\ PiecesOf(ss, l, H, s, e, alloc)
    BY <1>2, <2>1, ElementsOf DEF PiecesOf, PieceOf
  <2>3. F = FlattenSeq(ss)
    BY DEF KeptOnLru
  <2> HIDE DEF ss
  <2>4. Times(FlattenSeq(ss), r) = IF r \in H THEN 0 ELSE Times(l, r)
    BY <1>2, <1>6, <2>2, PinTimes
  <2> QED BY <2>3, <2>4
<1>13. Times(lists2[a], r) = IF r \in H THEN 0 ELSE Times(q, r)
  <2> DEFINE ss == PinPieces(q, H, s, e, alloc)
  <2>1. ASSUME NEW x \in ToSet(q) PROVE PinPiece(H, x, s, e, alloc) \in Seq(AshmemRange)
    <3> DEFINE P == PinPiece(H, x, s, e, alloc)
    <3>1. PieceOf(P, x, H, s, e, alloc) /\ x \in RangesOf(a) /\ (x \in H => Meets(x, s, e))
      BY <1>5 DEF PieceOf
    <3> HIDE DEF P
    <3>2. P \in Seq(AshmemRange)
      BY <3>1, EmptyPiece
    <3> QED BY <3>2 DEF P
  <2>2. ss \in Seq(Seq(AshmemRange)) /\ PiecesOf(ss, q, H, s, e, alloc)
    BY <1>7, <2>1, ElementsOf DEF PinPieces, PiecesOf, PieceOf
  <2>3. lists2[a] = FlattenSeq(ss)
    BY <1>0 DEF PinList
  <2> HIDE DEF ss
  <2>4. \A x \in ToSet(q) : x \in RangesOf(x.asma)
    BY <1>5
  <2>5. Times(FlattenSeq(ss), r) = IF r \in H THEN 0 ELSE Times(q, r)
    BY <1>7, <2>2, <2>4, PinTimes
  <2> QED BY <2>3, <2>5
<1>14. Times(F \o G, r) = Times(F, r)
  <2>1. Times(F \o G, r) = Times(F, r) + Times(G, r) /\ Times(F, r) \in Nat
    BY <1>8, <1>10, TimesConcat, TimesType
  <2> QED BY <1>11, <2>1
<1>15. CASE r.asma = a
  BY <1>4, <1>12, <1>13, <1>14, <1>15 DEF q
<1>16. CASE r.asma # a
  <2>1. r \notin H
    BY <1>3, <1>5, <1>16
  <2>2. lists2[r.asma] = lists[r.asma]
    BY <1>16 DEF AshmemRange
  <2> QED BY <1>4, <1>12, <1>14, <2>1, <2>2
<1> QED BY <1>15, <1>16

\* ashmem_unpin.
LEMMA UnpinCounts ==
  ASSUME NEW a \in Area, NEW lists, ListsOK(lists), NEW l, LruMatches(lists, l), LruCounts(lists, l),
         NEW H, H \subseteq ToSet(lists[a]), NEW N \in RangesOf(a), NEW alloc \in BOOLEAN,
         NEW lists2, \A b \in Area : b # a => lists2[b] = lists[b],
         lists2[a] = UnpinList(lists[a], H, N, alloc),
         NEW M, M = OnLru(IF alloc THEN <<N>> ELSE <<>>)
  PROVE  EmptyCounts(lists2, Without(l, H) \o M)
<1> DEFINE q == lists[a]
           D == BelowRange(q, N)
           m == IF alloc THEN <<N>> ELSE <<>>
           b == Without(q, H \cup D)
           c == Without(q, H \cup (ToSet(q) \ D))
           W == Without(l, H)
<1>1. q \in Seq(RangesOf(a)) /\ lists2[a] = b \o m \o c
  BY DEF ListsOK, UnpinList
<1>2. l \in Seq(AshmemRange)
  BY DEF LruMatches
<1>3. \A r \in AshmemRange : ~r.purged => Times(l, r) = Times(lists[r.asma], r)
  BY DEF LruCounts
<1>4. m \in Seq(RangesOf(a)) /\ ToSet(m) \subseteq {N}
  BY DEF ToSet
<1>5. H \subseteq ToSet(q) /\ \A x \in ToSet(q) : x.asma = a
  <2>1. ASSUME NEW x \in ToSet(q) PROVE x.asma = a
    <3>1. PICK i \in 1 .. Len(q) : x = q[i]
      BY <1>1, ElementsOf
    <3>2. x \in RangesOf(a)
      BY <1>1, <3>1
    <3> QED BY <3>2 DEF RangesOf
  <2> QED BY <2>1
<1>6. M = OnLru(m)
  OBVIOUS
<1> HIDE DEF q, D, m
<1>7. b \in Seq(RangesOf(a)) /\ c \in Seq(RangesOf(a)) /\ W \in Seq(AshmemRange)
  BY <1>1, <1>2, WithoutFacts
<1> SUFFICES ASSUME NEW r \in AshmemRange, ~r.purged, ~NonEmpty(r)
             PROVE  Times(Without(l, H) \o M, r) = Times(lists2[r.asma], r)
  BY DEF EmptyCounts
<1>8. Times(M, r) = Times(m, r) /\ M \in Seq(RangesOf(a)) /\ Times(m, r) \in Nat
  <2> DEFINE X == {x \in ToSet(m) : x.purged}
  <2>1. M = Without(m, X) /\ r \notin X
    BY <1>6 DEF OnLru
  <2> HIDE DEF X
  <2> QED BY <1>4, <2>1, TimesWithout, WithoutFacts, TimesType
<1>9. M \in Seq(AshmemRange)
  <2> DEFINE Z == RangesOf(a)
  <2>1. Z \subseteq AshmemRange /\ M \in Seq(Z)
    BY <1>8 DEF RangesOf
  <2> HIDE DEF Z
  <2> QED BY <2>1
<1>10. Times(W, r) = IF r \in H THEN 0 ELSE Times(l, r)
  BY <1>2, TimesWithout
<1>11. /\ Times(b, r) = IF r \in H \cup D THEN 0 ELSE Times(q, r)
       /\ Times(c, r) = IF r \in H \cup (ToSet(q) \ D) THEN 0 ELSE Times(q, r)
       /\ Times(q, r) \in Nat /\ Times(l, r) \in Nat /\ (r \notin ToSet(q) => Times(q, r) = 0)
  BY <1>1, <1>2, TimesWithout, TimesType
<1> HIDE DEF b, c, W
<1>12. Times(b \o m \o c, r) = Times(b, r) + Times(m, r) + Times(c, r)
  <2> DEFINE d == b \o m
  <2>1. d \in Seq(RangesOf(a))
    BY <1>4, <1>7
  <2>2. Times(d, r) = Times(b, r) + Times(m, r)
    BY <1>4, <1>7, TimesConcat
  <2> HIDE DEF d
  <2>3. Times(d \o c, r) = Times(d, r) + Times(c, r)
    BY <1>7, <2>1, TimesConcat
  <2> QED BY <2>2, <2>3 DEF d
<1>13. Times(b, r) + Times(m, r) + Times(c, r) = Times(m, r) + (IF r \in H THEN 0 ELSE Times(q, r))
  <2>1. \A x, y \in Nat : x + y + 0 = y + x /\ 0 + y + x = y + x /\ 0 + y + 0 = y + 0
    OBVIOUS
  <2>2. CASE r \in H
    BY <1>8, <1>11, <2>1, <2>2
  <2>3. CASE r \notin H /\ r \in D
    <3>1. Times(b, r) = 0 /\ Times(c, r) = Times(q, r)
      BY <1>11, <2>3
    <3> QED BY <1>8, <1>11, <2>1, <2>3, <3>1
  <2>4. CASE r \notin H /\ r \notin D
    <3>1. Times(b, r) = Times(q, r)
      BY <1>11, <2>4
    <3>2. Times(c, r) = 0
      BY <1>11, <2>4
    <3> QED BY <1>8, <1>11, <2>1, <2>4, <3>1, <3>2
  <2> QED BY <2>2, <2>3, <2>4
<1>14. Times(W \o M, r) = Times(W, r) + Times(M, r)
  BY <1>7, <1>9, TimesConcat
<1>15. CASE r.asma = a
  <2>1. Times(l, r) = Times(q, r)
    BY <1>3, <1>15 DEF q
  <2>2. Times(lists2[a], r) = Times(m, r) + (IF r \in H THEN 0 ELSE Times(q, r))
    BY <1>1, <1>12, <1>13
  <2>3. Times(W \o M, r) = (IF r \in H THEN 0 ELSE Times(q, r)) + Times(m, r)
    BY <1>8, <1>10, <1>14, <2>1
  <2>4. (IF r \in H THEN 0 ELSE Times(q, r)) \in Nat
    BY <1>11
  <2>5. \A x, y \in Nat : x + y = y + x
    OBVIOUS
  <2>6. Times(W \o M, r) = Times(lists2[a], r)
    BY <1>8, <2>2, <2>3, <2>4, <2>5
  <2> QED BY <1>15, <2>6 DEF W
<1>16. CASE r.asma # a
  <2>1. r \notin H
    BY <1>5, <1>16
  <2>2. lists2[r.asma] = lists[r.asma]
    BY <1>16 DEF AshmemRange
  <2>3. r \notin ToSet(m)
    BY <1>4, <1>16 DEF RangesOf
  <2>4. Times(m, r) = 0
    BY <1>4, <2>3, TimesType
  <2> QED BY <1>3, <1>8, <1>10, <1>11, <1>14, <2>1, <2>2, <2>4 DEF W
<1> QED BY <1>15, <1>16

\* ashmem_release.
LEMMA ReleaseCounts ==
  ASSUME NEW a \in Area, NEW lists, NEW l \in Seq(AshmemRange), LruCounts(lists, l),
         NEW lists2, \A b \in Area : b # a => lists2[b] = lists[b], lists2[a] = <<>>
  PROVE  EmptyCounts(lists2, Without(l, {r \in ToSet(l) : r.asma = a}))
<1> DEFINE X == {r \in ToSet(l) : r.asma = a}
<1> SUFFICES ASSUME NEW r \in AshmemRange, ~r.purged, ~NonEmpty(r)
             PROVE  Times(Without(l, X), r) = Times(lists2[r.asma], r)
  BY DEF EmptyCounts
<1>1. r \in X <=> r \in ToSet(l) /\ r.asma = a
  OBVIOUS
<1>2. r.asma \in Area /\ Times(l, r) = Times(lists[r.asma], r)
  BY DEF LruCounts, AshmemRange
<1> HIDE DEF X
<1>3. Times(Without(l, X), r) = IF r \in X THEN 0 ELSE Times(l, r)
  BY TimesWithout
<1>4. r \notin ToSet(l) => Times(l, r) = 0
  BY TimesType
<1>5. CASE r.asma = a
  <2> DEFINE none == <<>>
  <2>1. none \in Seq(AshmemRange) /\ ToSet(none) = {}
    BY DEF ToSet
  <2> HIDE DEF none
  <2>2. Times(none, r) = 0
    BY <2>1, TimesType
  <2>3. Times(lists2[r.asma], r) = 0
    BY <1>5, <2>2 DEF none
  <2> QED BY <1>1, <1>3, <1>4, <1>5, <2>3
<1>6. CASE r.asma # a
  BY <1>1, <1>2, <1>3, <1>6
<1> QED BY <1>5, <1>6

\* ashmem_shrink.
LEMMA ShrinkCounts ==
  ASSUME NEW lists, ListsOK(lists), NEW l, LruMatches(lists, l), LruCounts(lists, l),
         NEW k \in 0 .. Len(l), NEW f, f = FirstOf(l, k), NEW t, t = RestOf(l, k),
         NEW lists2, ListsOK(lists2), \A b \in Area : lists2[b] = PruneList(lists[b], f)
  PROVE  EmptyCounts(lists2, t)
<1>1. l \in Seq(AshmemRange)
  BY DEF LruMatches
<1>2. f \in Seq(AshmemRange) /\ t \in Seq(AshmemRange) /\ IsCut(f, t, l, k)
  BY <1>1, CutFacts
<1> SUFFICES ASSUME NEW r \in AshmemRange, ~r.purged, ~NonEmpty(r)
             PROVE  Times(t, r) = Times(lists2[r.asma], r)
  BY DEF EmptyCounts
<1>3. Times(l, r) = Times(f, r) + Times(t, r)
  <2> DEFINE c == f \o t
  <2>1. Len(f) = k /\ Len(t) = Len(l) - k /\ Len(l) \in Nat
    BY <1>1, <1>2 DEF IsCut
  <2>2. c \in Seq(AshmemRange) /\ Len(c) = Len(f) + Len(t)
    BY <1>2
  <2>3. \A i \in 1 .. Len(f) : c[i] = f[i]
    BY <1>2
  <2>4. \A i \in 1 .. Len(t) : c[Len(f) + i] = t[i]
    BY <1>2
  <2>5. Len(c) = Len(l)
    BY <2>1, <2>2
  <2> HIDE DEF c
  <2>6. ASSUME NEW i \in 1 .. Len(l) PROVE c[i] = l[i]
    <3>1. CASE i <= k
      <4>1. i \in 1 .. k
        BY <2>1, <3>1
      <4> QED BY <1>2, <2>1, <2>3, <4>1 DEF IsCut
    <3>2. CASE i > k
      <4> DEFINE j == i - k
      <4>1. j \in 1 .. Len(l) - k /\ k + j = i /\ j \in 1 .. Len(t) /\ Len(f) + j = i
        BY <2>1, <3>2
      <4> HIDE DEF j
      <4>2. c[Len(f) + j] = t[j] /\ t[j] = l[k + j]
        BY <1>2, <2>4, <4>1 DEF IsCut
      <4> QED BY <4>1, <4>2
    <3> QED BY <2>1, <3>1, <3>2
  <2>7. c = l
    BY <1>1, <2>2, <2>5, <2>6
  <2>8. Times(c, r) = Times(f, r) + Times(t, r)
    BY <1>2, TimesConcat DEF c
  <2> QED BY <2>7, <2>8
<1>4. Times(f, r) \in Nat /\ Times(t, r) \in Nat /\ Times(l, r) = Times(lists[r.asma], r)
  BY <1>2, TimesType DEF LruCounts
<1>5. Times(lists2[r.asma], r) = Times(lists[r.asma], r) - Times(f, r)
  <2> DEFINE a == r.asma
             q == lists[a]
             new == lists2[a]
  <2>1. a \in Area /\ Times(f, r) <= Times(q, r)
    BY <1>3, <1>4 DEF AshmemRange
  <2>2. q \in Seq(RangesOf(a)) /\ new \in Seq(RangesOf(a)) /\ new = PruneList(q, f)
    BY <2>1 DEF ListsOK
  <2> HIDE DEF a, q, new
  <2>3. Times(new, r) = Times(q, r) - Times(f, r)
    BY <1>2, <2>1, <2>2, PruneTimes
  <2> QED BY <2>3 DEF a, q, new
<1> QED BY <1>3, <1>4, <1>5

-----------------------------------------------------------------------------
(* How many pages the ranges of a list have.                               *)

\* A list of ranges that can exist, without overlaps.
PlainList(q) == q \in Seq(AshmemRange) /\ (\A r \in ToSet(q) : r.pgstart <= r.pgend + 1) /\ Separate(q)

\* TotalSize is computed by a loop.
LEMMA TotalIsLoop ==
  ASSUME NEW q \in Seq(AshmemRange), \A i \in 1 .. Len(q) : range_size(q[i]) \in Nat
  PROVE  \E g : /\ g[0] = 0 /\ TotalSize(q) = g[Len(q)]
                /\ \A i \in 1 .. Len(q) : g[i] = g[i - 1] + range_size(q[i])
<1> DEFINE n == Len(q)
           R(g) == [i \in 0 .. n |-> IF i = 0 THEN 0 ELSE g[i - 1] + range_size(q[i])]
           step == [i \in 1 .. n |-> [w \in Nat |-> w + range_size(q[i])]]
           total == CHOOSE g : g = R(g)
<1>1. n \in Nat /\ \A i \in 1 .. n : range_size(q[i]) \in Nat
  OBVIOUS
<1>2. TotalSize(q) = total[n]
  BY DEF TotalSize
<1> HIDE DEF n
<1>3. step \in [1 .. n -> [Nat -> Nat]]
  BY <1>1
<1> DEFINE zero == 0
<1>4. PICK g : IsLoop(g, Nat, zero, n, step)
  <2>1. zero \in Nat
    OBVIOUS
  <2> HIDE DEF step, zero
  <2> QED BY <1>1, <1>3, <2>1, LoopExists
<1>5. g \in [0 .. n -> Nat] /\ g[0] = 0
  BY <1>4 DEF IsLoop
<1>6. ASSUME NEW i \in 1 .. n
      PROVE  g[i] = g[i - 1] + range_size(q[i])
  <2>1. g[i] = step[i][g[i - 1]]
    <3> HIDE DEF step
    <3> QED BY <1>4 DEF IsLoop
  <2>2. g[i - 1] \in Nat
    BY <1>1, <1>5
  <2> QED BY <2>1, <2>2
<1>7. g = R(g)
  BY <1>1, <1>5, <1>6
<1>8. total = R(total)
  <2> HIDE DEF R
  <2> QED BY <1>7
<1> HIDE DEF total
<1>9. total[0] = 0 /\ \A i \in 1 .. n : total[i] = total[i - 1] + range_size(q[i])
  BY <1>1, <1>8
<1> QED BY <1>2, <1>9 DEF n

\* The pages of a range, of a list.
PagesIn(r) == {r.asma} \X (r.pgstart .. r.pgend)
PagesOf(q) == UNION {PagesIn(q[i]) : i \in 1 .. Len(q)}

\* range_size is the number of pages.
LEMMA PagesInFacts ==
  ASSUME NEW r \in AshmemRange, r.pgstart <= r.pgend + 1
  PROVE  IsFiniteSet(PagesIn(r)) /\ Cardinality(PagesIn(r)) = range_size(r) /\ range_size(r) \in Nat
<1> DEFINE S == {r.asma}
           T == r.pgstart .. r.pgend
<1>1. r.pgstart \in Nat /\ r.pgend \in Nat
  BY DEF AshmemRange, Page
<1>2. IsFiniteSet(S) /\ Cardinality(S) = 1
  BY FS_Singleton
<1>3. IsFiniteSet(T) /\ Cardinality(T) = IF r.pgstart > r.pgend THEN 0 ELSE r.pgend - r.pgstart + 1
  <2> DEFINE u == r.pgstart
             v == r.pgend
  <2>1. u \in Int /\ v \in Int
    BY <1>1
  <2> HIDE DEF u, v
  <2>2. IsFiniteSet(u .. v) /\ Cardinality(u .. v) = IF u > v THEN 0 ELSE v - u + 1
    BY <2>1, FS_Interval
  <2> QED BY <2>2 DEF u, v
<1>4. Cardinality(T) = range_size(r) /\ range_size(r) \in Nat
  BY <1>1, <1>3 DEF range_size
<1>5. PagesIn(r) = S \X T
  BY DEF PagesIn
<1> HIDE DEF S, T
<1>6. IsFiniteSet(S \X T) /\ Cardinality(S \X T) = Cardinality(S) * Cardinality(T)
  BY <1>2, <1>3, FS_Product
<1>7. Cardinality(S \X T) = Cardinality(T)
  BY <1>2, <1>4, <1>6
<1> QED BY <1>4, <1>5, <1>6, <1>7

\* Ranges that do not overlap have no page in common.
LEMMA PagesApart ==
  ASSUME NEW x \in AshmemRange, NEW y \in AshmemRange, ~Overlap(x, y)
  PROVE  PagesIn(x) \cap PagesIn(y) = {}
<1> SUFFICES ASSUME NEW z \in PagesIn(x), z \in PagesIn(y) PROVE FALSE
  OBVIOUS
<1>1. x.pgstart \in Nat /\ x.pgend \in Nat /\ y.pgstart \in Nat /\ y.pgend \in Nat
  BY DEF AshmemRange, Page
<1>2. /\ z[1] = x.asma /\ z[2] \in x.pgstart .. x.pgend
      /\ z[1] = y.asma /\ z[2] \in y.pgstart .. y.pgend
  BY DEF PagesIn
<1>3. z[2] \in Nat /\ page_in_range(x, z[2]) /\ page_in_range(y, z[2])
  BY <1>1, <1>2 DEF page_in_range
<1> QED BY <1>2, <1>3 DEF Overlap

\* The size of a list is the number of its pages.
LEMMA TotalPages ==
  ASSUME NEW q, PlainList(q)
  PROVE  IsFiniteSet(PagesOf(q)) /\ TotalSize(q) = Cardinality(PagesOf(q)) /\ TotalSize(q) \in Nat
<1> DEFINE n == Len(q)
           U(j) == UNION {PagesIn(q[i]) : i \in 1 .. j}
<1>1. q \in Seq(AshmemRange) /\ n \in Nat
  BY DEF PlainList
<1>2. ASSUME NEW i \in 1 .. n
      PROVE  /\ q[i] \in AshmemRange /\ IsFiniteSet(PagesIn(q[i]))
             /\ Cardinality(PagesIn(q[i])) = range_size(q[i]) /\ range_size(q[i]) \in Nat
  <2>1. q[i] \in AshmemRange /\ q[i] \in ToSet(q)
    BY <1>1, ElementsOf
  <2>2. q[i].pgstart <= q[i].pgend + 1
    BY <2>1 DEF PlainList
  <2> QED BY <2>1, <2>2, PagesInFacts
<1>3. PICK g : /\ g[0] = 0 /\ TotalSize(q) = g[n]
               /\ \A i \in 1 .. n : g[i] = g[i - 1] + range_size(q[i])
  BY <1>1, <1>2, TotalIsLoop
<1> DEFINE Ok(j) == IsFiniteSet(U(j)) /\ Cardinality(U(j)) = g[j] /\ g[j] \in Nat
           Good == {j \in 0 .. n : Ok(j)}
<1> HIDE DEF n
<1>4. 0 \in Good
  <2>1. U(0) = {}
    OBVIOUS
  <2>2. IsFiniteSet(U(0)) /\ Cardinality(U(0)) = 0
    BY <2>1, FS_EmptySet
  <2> HIDE DEF U
  <2>3. Ok(0) /\ 0 \in 0 .. n
    BY <1>1, <1>3, <2>2
  <2> QED BY <2>3
<1>5. ASSUME NEW j \in 1 .. n, j - 1 \in Good PROVE j \in Good
  <2> DEFINE h == j - 1
             S == U(h)
             T == PagesIn(q[j])
  <2>1. Ok(h) /\ j \in 0 .. n /\ h \in Nat /\ h < j /\ \A i \in Int : i \in 1 .. j <=> i \in 1 .. h \/ i = j
    BY <1>1, <1>5
  <2>2. U(j) = S \cup T
    <3>1. U(j) \subseteq S \cup T
      BY <2>1
    <3>2. S \cup T \subseteq U(j)
      BY <2>1
    <3> QED BY <3>1, <3>2
  <2>3. S \cap T = {}
    <3>1. ASSUME NEW i \in 1 .. h PROVE PagesIn(q[i]) \cap T = {}
      <4>1. i \in 1 .. n /\ i < j
        BY <1>1, <2>1
      <4>2. ~Overlap(q[i], q[j])
        BY <4>1 DEF PlainList, Separate, n
      <4> QED BY <1>2, <4>1, <4>2, PagesApart
    <3> QED BY <3>1
  <2>4. IsFiniteSet(T) /\ Cardinality(T) = range_size(q[j]) /\ range_size(q[j]) \in Nat
    BY <1>2
  <2>5. IsFiniteSet(S) /\ Cardinality(S) = g[h] /\ g[h] \in Nat
    BY <2>1
  <2>6. g[j] = g[h] + range_size(q[j])
    BY <1>3
  <2> HIDE DEF S, T, h, U
  <2>7. IsFiniteSet(S \cup T) /\ Cardinality(S \cup T) = Cardinality(S) + Cardinality(T) - Cardinality(S \cap T)
    BY <2>4, <2>5, FS_Union
  <2>8. Cardinality(S \cap T) = 0
    BY <2>3, FS_EmptySet
  <2>9. Cardinality(S \cup T) = g[j] /\ g[j] \in Nat
    BY <2>4, <2>5, <2>6, <2>7, <2>8
  <2> QED BY <2>1, <2>2, <2>7, <2>9
<1>6. Ok(n)
  <2> HIDE DEF Good
  <2>1. \A j \in 0 .. n : j \in Good
    BY <1>1, <1>4, <1>5, UpTo
  <2>2. n \in Good
    BY <1>1, <2>1
  <2> QED BY <2>2 DEF Good
<1>7. PagesOf(q) = U(n)
  BY DEF PagesOf, n
<1> QED BY <1>3, <1>6, <1>7

\* A page is in a list if it is in a range of it.
LEMMA PagesMember ==
  ASSUME NEW q \in Seq(AshmemRange), NEW z
  PROVE  z \in PagesOf(q) <=> \E x \in ToSet(q) : z \in PagesIn(x)
<1>1. z \in PagesOf(q) <=> \E i \in 1 .. Len(q) : z \in PagesIn(q[i])
  BY DEF PagesOf
<1> QED BY <1>1, ElementsOf

\* A range with a page is not empty.
LEMMA PagesNonEmpty ==
  ASSUME NEW x \in AshmemRange, NEW z \in PagesIn(x)
  PROVE  NonEmpty(x) /\ z[1] = x.asma
<1>1. x.pgstart \in Nat /\ x.pgend \in Nat
  BY DEF AshmemRange, Page
<1>2. z[1] = x.asma /\ z[2] \in x.pgstart .. x.pgend
  BY DEF PagesIn
<1> QED BY <1>1, <1>2 DEF NonEmpty

\* The ranges of an area that are not purged.
LEMMA OnLruFacts ==
  ASSUME NEW a \in Area, NEW q \in Seq(RangesOf(a)), Descending(q), NEW o, o = OnLru(q)
  PROVE  PlainList(o) /\ \A x : x \in ToSet(o) <=> x \in ToSet(q) /\ ~x.purged
<1> DEFINE X == {r \in ToSet(q) : r.purged}
<1>1. o = Without(q, X) /\ \A x : x \in X <=> x \in ToSet(q) /\ x.purged
  BY DEF OnLru
<1> HIDE DEF X
<1>2. Separate(q)
  BY DescendingSeparate
<1>3. Without(q, X) \in Seq(RangesOf(a)) /\ ToSet(Without(q, X)) = ToSet(q) \ X
  BY WithoutFacts, WithoutSet
<1>4. Separate(Without(q, X))
  BY <1>2, SeparateWithout
<1>5. \A x \in ToSet(q) : x \in RangesOf(a)
  BY ElementsOf
<1>6. o \in Seq(AshmemRange)
  <2> DEFINE Z == RangesOf(a)
  <2>1. Z \subseteq AshmemRange /\ o \in Seq(Z)
    BY <1>1, <1>3 DEF RangesOf
  <2> HIDE DEF Z
  <2> QED BY <2>1
<1>7. \A x : x \in ToSet(o) <=> x \in ToSet(q) /\ ~x.purged
  BY <1>1, <1>3
<1>8. \A x \in ToSet(o) : x.pgstart <= x.pgend + 1
  BY <1>5, <1>7 DEF RangesOf
<1> QED BY <1>1, <1>4, <1>6, <1>7, <1>8 DEF PlainList

\* The pages of an area on the LRU list are those of its ranges that are not purged.
LEMMA AreaPages ==
  ASSUME NEW lists, ListsOK(lists), NEW l, LruMatches(lists, l), NEW a \in Area
  PROVE  /\ PlainList(l) /\ PlainList(OnLru(lists[a]))
         /\ \A z : z \in PagesOf(OnLru(lists[a])) <=> z \in PagesOf(l) /\ z[1] = a
<1> DEFINE q == lists[a]
           o == OnLru(q)
<1>1. l \in Seq(AshmemRange) /\ (\A r \in ToSet(l) : LruEntry(r)) /\ Separate(l)
  BY DEF LruMatches
<1>2. \A r \in AshmemRange : NonEmpty(r) /\ ~r.purged => (r \in ToSet(l) <=> r \in ToSet(lists[r.asma]))
  BY DEF LruMatches
<1>3. PlainList(l)
  BY <1>1 DEF PlainList, LruEntry
<1>4. q \in Seq(RangesOf(a)) /\ Descending(q)
  BY DEF ListsOK
<1>5. \A r \in ToSet(q) : r \in AshmemRange /\ r.asma = a
  BY <1>4, ElementsOf DEF RangesOf
<1>6. o = OnLru(q)
  OBVIOUS
<1> HIDE DEF q, o
<1>7. PlainList(o) /\ \A x : x \in ToSet(o) <=> x \in ToSet(q) /\ ~x.purged
  BY <1>4, <1>6, OnLruFacts
<1>8. o \in Seq(AshmemRange)
  BY <1>7 DEF PlainList
<1>9. ASSUME NEW z PROVE z \in PagesOf(o) <=> z \in PagesOf(l) /\ z[1] = a
  <2>1. ASSUME z \in PagesOf(o) PROVE z \in PagesOf(l) /\ z[1] = a
    <3>1. PICK x \in ToSet(o) : z \in PagesIn(x)
      BY <1>8, <2>1, PagesMember
    <3>2. x \in ToSet(q) /\ ~x.purged /\ x \in AshmemRange /\ x.asma = a
      BY <1>5, <1>7, <3>1
    <3>3. NonEmpty(x) /\ z[1] = a
      BY <3>1, <3>2, PagesNonEmpty
    <3>4. x \in ToSet(l)
      BY <1>2, <3>2, <3>3 DEF q
    <3> QED BY <1>1, <3>1, <3>3, <3>4, PagesMember
  <2>2. ASSUME z \in PagesOf(l), z[1] = a PROVE z \in PagesOf(o)
    <3>1. PICK x \in ToSet(l) : z \in PagesIn(x)
      BY <1>1, <2>2, PagesMember
    <3>2. x \in AshmemRange /\ ~x.purged
      BY <1>1, <3>1 DEF LruEntry
    <3>3. NonEmpty(x) /\ x.asma = a
      BY <2>2, <3>1, <3>2, PagesNonEmpty
    <3>4. x \in ToSet(q)
      BY <1>2, <3>1, <3>2, <3>3 DEF q
    <3>5. x \in ToSet(o)
      BY <1>7, <3>2, <3>4
    <3> QED BY <1>8, <3>1, <3>5, PagesMember
  <2> QED BY <2>1, <2>2
<1> QED BY <1>3, <1>7, <1>9 DEF o, q

\* lru_count follows a change of the list of one area.
LEMMA OneListTotal ==
  ASSUME NEW lists, ListsOK(lists), NEW l, LruMatches(lists, l),
         NEW lists2, ListsOK(lists2), NEW l2, LruMatches(lists2, l2),
         NEW a \in Area, \A b \in Area : b # a => lists2[b] = lists[b]
  PROVE  /\ TotalSize(l2) = TotalSize(l) + TotalSize(OnLru(lists2[a])) - TotalSize(OnLru(lists[a]))
         /\ TotalSize(l2) \in Nat /\ TotalSize(OnLru(lists2[a])) \in Nat
<1> DEFINE P == PagesOf(l)
           P2 == PagesOf(l2)
           o == OnLru(lists[a])
           o2 == OnLru(lists2[a])
           Q == PagesOf(o)
           Q2 == PagesOf(o2)
           R == {z \in P : z[1] # a}
<1>1. PlainList(l) /\ PlainList(o) /\ \A z : z \in Q <=> z \in P /\ z[1] = a
  BY AreaPages
<1>2. PlainList(l2) /\ PlainList(o2) /\ \A z : z \in Q2 <=> z \in P2 /\ z[1] = a
  BY AreaPages
<1>3. /\ IsFiniteSet(P) /\ TotalSize(l) = Cardinality(P) /\ IsFiniteSet(Q) /\ TotalSize(o) = Cardinality(Q)
      /\ TotalSize(l) \in Nat /\ TotalSize(o) \in Nat
  <2> HIDE DEF o
  <2> QED BY <1>1, TotalPages
<1>4. /\ IsFiniteSet(P2) /\ TotalSize(l2) = Cardinality(P2) /\ IsFiniteSet(Q2) /\ TotalSize(o2) = Cardinality(Q2)
      /\ TotalSize(l2) \in Nat /\ TotalSize(o2) \in Nat
  <2> HIDE DEF o2
  <2> QED BY <1>2, TotalPages
<1>5. ASSUME NEW z, z[1] # a PROVE z \in P <=> z \in P2
  <2>1. ASSUME z \in P PROVE z \in P2
    <3>1. PICK x \in ToSet(l) : z \in PagesIn(x)
      BY <2>1, PagesMember DEF LruMatches
    <3>2. x \in AshmemRange
      BY <3>1 DEF LruMatches, LruEntry
    <3> DEFINE b == x.asma
    <3>3. b \in Area /\ z[1] = b
      BY <3>1, <3>2, PagesNonEmpty DEF AshmemRange
    <3> HIDE DEF b
    <3>4. lists2[b] = lists[b]
      BY <1>5, <3>3
    <3>5. z \in PagesOf(OnLru(lists[b]))
      BY <2>1, <3>3, AreaPages
    <3> QED BY <3>3, <3>4, <3>5, AreaPages
  <2>2. ASSUME z \in P2 PROVE z \in P
    <3>1. PICK x \in ToSet(l2) : z \in PagesIn(x)
      BY <2>2, PagesMember DEF LruMatches
    <3>2. x \in AshmemRange
      BY <3>1 DEF LruMatches, LruEntry
    <3> DEFINE b == x.asma
    <3>3. b \in Area /\ z[1] = b
      BY <3>1, <3>2, PagesNonEmpty DEF AshmemRange
    <3> HIDE DEF b
    <3>4. lists2[b] = lists[b]
      BY <1>5, <3>3
    <3>5. z \in PagesOf(OnLru(lists2[b]))
      BY <2>2, <3>3, AreaPages
    <3> QED BY <3>3, <3>4, <3>5, AreaPages
  <2> QED BY <2>1, <2>2
<1> HIDE DEF P, P2, Q, Q2, o, o2
<1>6. P = R \cup Q /\ R \cap Q = {}
  BY <1>1
<1>7. P2 = R \cup Q2 /\ R \cap Q2 = {}
  BY <1>2, <1>5
<1>8. IsFiniteSet(R) /\ Cardinality(R) \in Nat
  <2>1. R \in SUBSET P
    OBVIOUS
  <2> HIDE DEF R
  <2> QED BY <1>3, <2>1, FS_Subset, FS_CardinalityType
<1> HIDE DEF R
<1>9. Cardinality(R \cup Q) = Cardinality(R) + Cardinality(Q) - Cardinality(R \cap Q)
  BY <1>3, <1>8, FS_Union
<1>10. Cardinality(R \cup Q2) = Cardinality(R) + Cardinality(Q2) - Cardinality(R \cap Q2)
  BY <1>4, <1>8, FS_Union
<1>11. Cardinality(R \cap Q) = 0 /\ Cardinality(R \cap Q2) = 0
  BY <1>6, <1>7, FS_EmptySet
<1>12. TotalSize(l) = Cardinality(R) + TotalSize(o) /\ TotalSize(l2) = Cardinality(R) + TotalSize(o2)
  BY <1>3, <1>4, <1>6, <1>7, <1>8, <1>9, <1>10, <1>11
<1>13. \A u, v, w \in Nat : u + w = u + v + w - v
  OBVIOUS
<1>14. TotalSize(l2) = TotalSize(l) + TotalSize(o2) - TotalSize(o)
  BY <1>3, <1>4, <1>8, <1>12, <1>13
<1> QED BY <1>4, <1>14 DEF o, o2

\* lru_count follows when the list is cut.
LEMMA CutTotal ==
  ASSUME NEW l, PlainList(l), NEW k \in 0 .. Len(l), NEW f \in Seq(AshmemRange), NEW t \in Seq(AshmemRange),
         IsCut(f, t, l, k)
  PROVE  TotalSize(t) = TotalSize(l) - TotalSize(f) /\ TotalSize(t) \in Nat
<1> DEFINE P == PagesOf(l)
           Q == PagesOf(f)
           R == PagesOf(t)
<1>1. l \in Seq(AshmemRange) /\ (\A r \in ToSet(l) : r.pgstart <= r.pgend + 1) /\ Separate(l)
  BY DEF PlainList
<1>2. /\ Separate(f) /\ Separate(t)
      /\ ToSet(l) = ToSet(f) \cup ToSet(t)
  BY <1>1, SeparateCut
<1>3. PlainList(f) /\ PlainList(t)
  BY <1>1, <1>2 DEF PlainList
<1>4. IsFiniteSet(P) /\ TotalSize(l) = Cardinality(P) /\ TotalSize(l) \in Nat
  BY TotalPages
<1>5. IsFiniteSet(Q) /\ TotalSize(f) = Cardinality(Q) /\ TotalSize(f) \in Nat
  BY <1>3, TotalPages
<1>6. IsFiniteSet(R) /\ TotalSize(t) = Cardinality(R) /\ TotalSize(t) \in Nat
  BY <1>3, TotalPages
<1>7. P = Q \cup R
  <2>1. \A z : z \in P <=> \E x \in ToSet(l) : z \in PagesIn(x)
    BY <1>1, PagesMember
  <2>2. \A z : z \in Q <=> \E x \in ToSet(f) : z \in PagesIn(x)
    BY PagesMember
  <2>3. \A z : z \in R <=> \E x \in ToSet(t) : z \in PagesIn(x)
    BY PagesMember
  <2> HIDE DEF P, Q, R
  <2>4. \A z : z \in P <=> z \in Q \cup R
    BY <1>2, <2>1, <2>2, <2>3
  <2> QED BY <2>4
<1>8. Q \cap R = {}
  <2>1. ASSUME NEW i \in 1 .. Len(f), NEW j \in 1 .. Len(t) PROVE PagesIn(f[i]) \cap PagesIn(t[j]) = {}
    <3>1. /\ i \in 1 .. Len(l) /\ k + j \in 1 .. Len(l) /\ i < k + j
          /\ f[i] = l[i] /\ t[j] = l[k + j]
      BY <1>1 DEF IsCut
    <3>2. ~Overlap(f[i], t[j])
      BY <1>1, <3>1 DEF Separate
    <3> QED BY <3>2, PagesApart
  <2>2. \A z : z \in Q <=> \E i \in 1 .. Len(f) : z \in PagesIn(f[i])
    BY DEF PagesOf
  <2>3. \A z : z \in R <=> \E i \in 1 .. Len(t) : z \in PagesIn(t[i])
    BY DEF PagesOf
  <2> HIDE DEF Q, R
  <2> QED BY <2>1, <2>2, <2>3
<1> HIDE DEF P, Q, R
<1>9. Cardinality(Q \cup R) = Cardinality(Q) + Cardinality(R) - Cardinality(Q \cap R)
  BY <1>5, <1>6, FS_Union
<1>10. Cardinality(Q \cap R) = 0
  BY <1>8, FS_EmptySet
<1> QED BY <1>4, <1>5, <1>6, <1>7, <1>9, <1>10

-----------------------------------------------------------------------------
(* The LRU list is exact.                                                  *)

LruInv == LruCounts(unpinned_list, lru) /\ lru_count = TotalSize(lru)

\* A step that changes the list of one area.
LEMMA OneListLru ==
  ASSUME AshmemInv, AshmemInv', LruInv, NEW a \in Area,
         \A b \in Area : b # a => unpinned_list'[b] = unpinned_list[b],
         EmptyCounts(unpinned_list', lru'),
         lru_count' = lru_count + TotalSize(OnLru(unpinned_list'[a])) - TotalSize(OnLru(unpinned_list[a]))
  PROVE  LruInv'
<1>1. ListsOK(unpinned_list) /\ LruMatches(unpinned_list, lru)
  BY DEF AshmemInv
<1>2. ListsOK(unpinned_list') /\ LruMatches(unpinned_list', lru')
  BY DEF AshmemInv
<1>3. LruCounts(unpinned_list', lru')
  BY <1>2, CountsFacts
<1>4. TotalSize(lru') = TotalSize(lru) + TotalSize(OnLru(unpinned_list'[a])) - TotalSize(OnLru(unpinned_list[a]))
  BY <1>1, <1>2, OneListTotal
<1> QED BY <1>3, <1>4 DEF LruInv

\* ashmem_pin.
LEMMA PinLruInv ==
  ASSUME AshmemInv, AshmemInv', LruInv, NEW a \in Area, NEW s \in Nat, NEW e \in Nat,
         NEW alloc \in BOOLEAN, ashmem_pin(a, s, e, alloc)
  PROVE  LruInv'
<1> DEFINE q == unpinned_list[a]
           H == Hits(a, s, e)
           new == PinList(q, H, s, e, alloc)
           F == KeptOnLru(lru, H, s, e)
           G == AddedToLru(q, H, s, e, alloc)
<1>1. /\ Request(a, s, e)
      /\ unpinned_list' = [unpinned_list EXCEPT ![a] = new]
      /\ lru' = F \o G
      /\ lru_count' = lru_count + TotalSize(OnLru(new)) - TotalSize(OnLru(q))
  BY DEF ashmem_pin, PinList, PinPieces, PinPiece, PinUpper, PinRest, Hits, Replace, KeptOnLru, AddedToLru
<1>2. /\ ListsOK(unpinned_list) /\ LruMatches(unpinned_list, lru) /\ LruCounts(unpinned_list, lru)
      /\ unpinned_list \in [Area -> Seq(AshmemRange)]
  BY DEF AshmemInv, AshmemShape, LruInv
<1>3. H \subseteq ToSet(unpinned_list[a]) /\ \A r \in H : Meets(r, s, e)
  BY <1>1, RequestFacts
<1> HIDE DEF new
<1>4. unpinned_list'[a] = new /\ \A b \in Area : b # a => unpinned_list'[b] = unpinned_list[b]
  BY <1>1, <1>2
<1>5. EmptyCounts(unpinned_list', lru')
  <2>1. unpinned_list'[a] = PinList(unpinned_list[a], H, s, e, alloc)
    BY <1>4 DEF new
  <2> HIDE DEF H, F, G
  <2>2. F = KeptOnLru(lru, H, s, e) /\ G = AddedToLru(unpinned_list[a], H, s, e, alloc)
    BY DEF F, G
  <2>3. EmptyCounts(unpinned_list', F \o G)
    BY <1>2, <1>3, <1>4, <2>1, <2>2, PinCounts
  <2> QED BY <1>1, <2>3
<1> QED BY <1>1, <1>4, <1>5, OneListLru

\* ashmem_unpin.
LEMMA UnpinLruInv ==
  ASSUME AshmemInv, AshmemInv', LruInv, NEW a \in Area, NEW s \in Nat, NEW e \in Nat,
         NEW alloc \in BOOLEAN, ashmem_unpin(a, s, e, alloc)
  PROVE  LruInv'
<1> DEFINE q == unpinned_list[a]
           H == UnpinHits(a, s, e)
           N == UnpinRange(a, s, e)
           new == UnpinList(q, H, N, alloc)
           M == OnLru(IF alloc THEN <<N>> ELSE <<>>)
<1>1. /\ Request(a, s, e)
      /\ unpinned_list' = [unpinned_list EXCEPT ![a] = new]
      /\ lru' = Without(lru, H) \o M
      /\ lru_count' = lru_count + TotalSize(OnLru(new)) - TotalSize(OnLru(q))
  BY DEF ashmem_unpin, UnpinList, UnpinRange, UnpinHits, UnpinStart, UnpinEnd, BelowRange, Hits
<1>2. /\ ListsOK(unpinned_list) /\ LruMatches(unpinned_list, lru) /\ LruCounts(unpinned_list, lru)
      /\ unpinned_list \in [Area -> Seq(AshmemRange)]
  BY DEF AshmemInv, AshmemShape, LruInv
<1>3. H \subseteq ToSet(unpinned_list[a]) /\ Merges(N, a, H, s, e)
  BY <1>1, UnpinRangeFacts
<1> HIDE DEF N
<1>4. N \in RangesOf(a)
  BY <1>3 DEF Merges
<1> HIDE DEF new
<1>5. unpinned_list'[a] = new /\ \A b \in Area : b # a => unpinned_list'[b] = unpinned_list[b]
  BY <1>1, <1>2
<1>6. EmptyCounts(unpinned_list', lru')
  <2>1. unpinned_list'[a] = UnpinList(unpinned_list[a], H, N, alloc)
    BY <1>5 DEF new
  <2> HIDE DEF H, M
  <2>2. M = OnLru(IF alloc THEN <<N>> ELSE <<>>)
    BY DEF M
  <2>3. EmptyCounts(unpinned_list', Without(lru, H) \o M)
    BY <1>2, <1>3, <1>4, <1>5, <2>1, <2>2, UnpinCounts
  <2> QED BY <1>1, <2>3
<1> QED BY <1>1, <1>5, <1>6, OneListLru

\* UnpinCovered.
LEMMA CoveredLruInv ==
  ASSUME AshmemInv, AshmemInv', LruInv, NEW a \in Area, NEW s \in Nat, NEW e \in Nat,
         UnpinCovered(a, s, e)
  PROVE  LruInv'
<1> DEFINE q == unpinned_list[a]
           X == CoveredOff(a, s, e)
           new == Without(q, X)
<1>1. /\ Request(a, s, e)
      /\ unpinned_list' = [unpinned_list EXCEPT ![a] = new]
      /\ lru' = Without(lru, X)
      /\ lru_count' = lru_count + TotalSize(OnLru(new)) - TotalSize(OnLru(q))
  BY DEF UnpinCovered, CoveredOff, Hits
<1>2. /\ LruCounts(unpinned_list, lru) /\ lru \in Seq(AshmemRange) /\ q \in Seq(AshmemRange)
      /\ unpinned_list \in [Area -> Seq(AshmemRange)]
  BY DEF AshmemInv, AshmemShape, LruInv, LruMatches
<1>3. unpinned_list'[a] = new /\ \A b \in Area : b # a => unpinned_list'[b] = unpinned_list[b]
  BY <1>1, <1>2
<1>4. \A r \in X : r.asma = a
  <2>1. X \subseteq ToSet(q) /\ \A r \in ToSet(q) : r \in RangesOf(a)
    BY <1>1, RequestFacts DEF CoveredOff
  <2> QED BY <2>1 DEF RangesOf
<1>5. EmptyCounts(unpinned_list', lru')
  <2> HIDE DEF X
  <2> SUFFICES ASSUME NEW r \in AshmemRange, ~r.purged
               PROVE  Times(lru', r) = Times(unpinned_list'[r.asma], r)
    BY DEF EmptyCounts
  <2>1. /\ Times(lru', r) = IF r \in X THEN 0 ELSE Times(lru, r)
        /\ Times(new, r) = IF r \in X THEN 0 ELSE Times(q, r)
    BY <1>1, <1>2, TimesWithout
  <2>2. Times(lru, r) = Times(unpinned_list[r.asma], r)
    BY <1>2 DEF LruCounts
  <2>3. CASE r.asma = a
    BY <1>3, <2>1, <2>2, <2>3
  <2>4. CASE r.asma # a
    <3>1. unpinned_list'[r.asma] = unpinned_list[r.asma] /\ r \notin X
      BY <1>3, <1>4, <2>4 DEF AshmemRange
    <3> QED BY <2>1, <2>2, <3>1
  <2> QED BY <2>3, <2>4
<1> QED BY <1>1, <1>3, <1>5, OneListLru

\* ashmem_release.
LEMMA ReleaseLruInv ==
  ASSUME AshmemInv, AshmemInv', LruInv, NEW a \in Area, ashmem_release(a)
  PROVE  LruInv'
<1>1. /\ unpinned_list' = [unpinned_list EXCEPT ![a] = <<>>]
      /\ lru' = Without(lru, {r \in ToSet(lru) : r.asma = a})
      /\ lru_count' = lru_count - TotalSize(OnLru(unpinned_list[a]))
  BY DEF ashmem_release
<1>2. /\ ListsOK(unpinned_list) /\ LruMatches(unpinned_list, lru) /\ LruCounts(unpinned_list, lru)
      /\ unpinned_list \in [Area -> Seq(AshmemRange)] /\ lru \in Seq(AshmemRange)
  BY DEF AshmemInv, AshmemShape, LruInv, LruMatches
<1>3. unpinned_list'[a] = <<>> /\ \A b \in Area : b # a => unpinned_list'[b] = unpinned_list[b]
  BY <1>1, <1>2
<1>4. EmptyCounts(unpinned_list', lru')
  BY <1>1, <1>2, <1>3, ReleaseCounts
<1> DEFINE o == OnLru(unpinned_list'[a])
<1>5. TotalSize(o) = 0
  <2> DEFINE q == unpinned_list'[a]
  <2>1. q \in Seq(RangesOf(a)) /\ Descending(q)
    BY DEF AshmemInv, ListsOK
  <2>2. ToSet(q) = {}
    BY <1>3 DEF ToSet
  <2>3. o = OnLru(q)
    OBVIOUS
  <2> HIDE DEF q, o
  <2>4. PlainList(o) /\ \A x : x \in ToSet(o) <=> x \in ToSet(q) /\ ~x.purged
    BY <2>1, <2>3, OnLruFacts
  <2>5. o \in Seq(AshmemRange)
    BY <2>4 DEF PlainList
  <2>6. PagesOf(o) = {}
    BY <2>2, <2>4, <2>5, PagesMember
  <2>7. TotalSize(o) = Cardinality(PagesOf(o))
    BY <2>4, TotalPages
  <2> QED BY <2>6, <2>7, FS_EmptySet
<1>6. lru_count \in Nat /\ TotalSize(OnLru(unpinned_list[a])) \in Nat
  <2> DEFINE u == OnLru(unpinned_list[a])
  <2>1. PlainList(lru) /\ PlainList(u)
    BY <1>2, AreaPages
  <2> HIDE DEF u
  <2>2. TotalSize(lru) \in Nat /\ TotalSize(u) \in Nat
    BY <2>1, TotalPages
  <2> QED BY <2>2 DEF LruInv, u
<1>7. lru_count' = lru_count + TotalSize(o) - TotalSize(OnLru(unpinned_list[a]))
  <2> HIDE DEF o
  <2> QED BY <1>1, <1>5, <1>6
<1> QED BY <1>3, <1>4, <1>7, OneListLru

\* ashmem_shrink.
LEMMA ShrinkLruInv ==
  ASSUME AshmemInv, AshmemInv', LruInv, NEW n, ashmem_shrink(n)
  PROVE  LruInv'
<1> DEFINE k == Pruned(n)
           f == FirstOf(lru, k)
           t == RestOf(lru, k)
<1>1. /\ unpinned_list' = [b \in Area |-> PruneList(unpinned_list[b], f)]
      /\ lru' = t /\ lru_count' = lru_count - TotalSize(f)
  BY DEF ashmem_shrink, PruneList, Times, FirstOf, RestOf
<1>2. /\ ListsOK(unpinned_list) /\ LruMatches(unpinned_list, lru) /\ LruCounts(unpinned_list, lru)
      /\ lru \in Seq(AshmemRange) /\ (\A r \in ToSet(lru) : LruEntry(r)) /\ Separate(lru)
  BY DEF AshmemInv, LruInv, LruMatches
<1>3. k \in 0 .. Len(lru)
  BY <1>2, PrunedFacts
<1>4. ListsOK(unpinned_list') /\ LruMatches(unpinned_list', lru')
  BY DEF AshmemInv
<1>5. \A b \in Area : unpinned_list'[b] = PruneList(unpinned_list[b], f)
  BY <1>1
<1>6. f = FirstOf(lru, k) /\ t = RestOf(lru, k)
  OBVIOUS
<1> HIDE DEF k, f, t
<1>7. EmptyCounts(unpinned_list', lru')
  BY <1>1, <1>2, <1>3, <1>4, <1>5, <1>6, ShrinkCounts
<1>8. LruCounts(unpinned_list', lru')
  BY <1>4, <1>7, CountsFacts
<1>9. f \in Seq(AshmemRange) /\ t \in Seq(AshmemRange) /\ IsCut(f, t, lru, k)
  BY <1>2, <1>3, <1>6, CutFacts
<1>10. PlainList(lru)
  BY <1>2 DEF PlainList, LruEntry
<1>11. TotalSize(t) = TotalSize(lru) - TotalSize(f)
  BY <1>3, <1>9, <1>10, CutTotal
<1> QED BY <1>1, <1>8, <1>11 DEF LruInv

\* Every step keeps the list exact.
LEMMA LruStep ==
  ASSUME AshmemInv, AshmemInv', LruInv, [AshmemNext]_ashmem_vars
  PROVE  LruInv'
<1>1. CASE UNCHANGED range_vars
  <2>1. unpinned_list' = unpinned_list /\ lru' = lru /\ lru_count' = lru_count
    BY <1>1 DEF range_vars
  <2> QED BY <2>1 DEF LruInv
<1>2. ASSUME NEW a \in Area, AreaStep(a) PROVE LruInv'
  <2>1. CASE ashmem_release(a)
    BY <2>1, ReleaseLruInv
  <2>2. CASE \/ ashmem_open(a) \/ ashmem_mmap(a) \/ MmapDone(a)
             \/ \E n \in Sizes[a] : SetSize(a, n)
    BY <1>1, <2>2 DEF ashmem_open, ashmem_mmap, MmapDone, SetSize
  <2> QED BY <1>2, <2>1, <2>2 DEF AreaStep
<1>3. ASSUME NEW a \in Area, PinStep(a) PROVE LruInv'
  <2>1. size[a] \in Nat
    BY DEF AshmemInv, AshmemShape
  <2>2. PICK s \in 0 .. size[a], e \in 0 .. size[a], alloc \in BOOLEAN :
          ashmem_pin(a, s, e, alloc) \/ ashmem_unpin(a, s, e, alloc) \/ UnpinCovered(a, s, e)
    BY <1>3 DEF PinStep
  <2>3. s \in Nat /\ e \in Nat
    BY <2>1
  <2>4. CASE ashmem_pin(a, s, e, alloc)
    BY <2>3, <2>4, PinLruInv
  <2>5. CASE ashmem_unpin(a, s, e, alloc)
    BY <2>3, <2>5, UnpinLruInv
  <2>6. CASE UnpinCovered(a, s, e)
    BY <2>3, <2>6, CoveredLruInv
  <2> QED BY <2>2, <2>4, <2>5, <2>6
<1>4. ASSUME NEW n, ashmem_shrink(n) PROVE LruInv'
  BY <1>4, ShrinkLruInv
<1>5. CASE AllocationShrinks \/ UNCHANGED ashmem_vars
  BY <1>1, <1>5 DEF AllocationShrinks, ashmem_vars
<1> QED BY <1>2, <1>3, <1>4, <1>5 DEF AshmemNext

\* No ranges, no pages.
LEMMA LruStart == AshmemInit => LruInv
<1> SUFFICES ASSUME AshmemInit PROVE LruInv
  OBVIOUS
<1> DEFINE none == <<>>
<1>1. unpinned_list = [a \in Area |-> none] /\ lru = none /\ lru_count = 0
  BY DEF AshmemInit
<1>2. none \in Seq(AshmemRange) /\ Len(none) = 0 /\ ToSet(none) = {}
  BY DEF ToSet
<1> HIDE DEF none
<1>3. LruCounts(unpinned_list, lru)
  <2>1. \A r \in AshmemRange : unpinned_list[r.asma] = none
    BY <1>1 DEF AshmemRange
  <2> QED BY <1>1, <2>1 DEF LruCounts
<1>4. PlainList(none)
  BY <1>2 DEF PlainList, Separate
<1>5. PagesOf(none) = {}
  BY <1>2, PagesMember
<1>6. TotalSize(none) = Cardinality(PagesOf(none))
  BY <1>4, TotalPages
<1>7. TotalSize(none) = 0
  BY <1>5, <1>6, FS_EmptySet
<1> QED BY <1>1, <1>3, <1>7 DEF LruInv

\* The places of a range on the lists of all areas are those on the list of its own.
LEMMA AllPlaces ==
  ASSUME AshmemInv, NEW r \in AshmemRange, NEW all,
         all = UNION {{<<a, i>> : i \in DOMAIN unpinned_list[a]} : a \in Area}
  PROVE  Cardinality({x \in all : unpinned_list[x[1]][x[2]] = r}) = Times(unpinned_list[r.asma], r)
<1> DEFINE b == r.asma
           q == unpinned_list[b]
           S == Places(q, r)
           T == {x \in all : unpinned_list[x[1]][x[2]] = r}
           f == [i \in S |-> <<b, i>>]
<1>1. b \in Area
  BY DEF AshmemRange
<1>2. \A a \in Area : unpinned_list[a] \in Seq(RangesOf(a))
  BY DEF AshmemInv, ListsOK
<1>3. ASSUME NEW a \in Area, NEW i \in 1 .. Len(unpinned_list[a])
      PROVE  unpinned_list[a][i].asma = a
  <2>1. unpinned_list[a][i] \in RangesOf(a)
    BY <1>2
  <2> QED BY <2>1 DEF RangesOf
<1>4. \A a \in Area : DOMAIN unpinned_list[a] = 1 .. Len(unpinned_list[a])
  BY <1>2
<1>5. \A x : x \in all <=> \E a \in Area : \E i \in 1 .. Len(unpinned_list[a]) : x = <<a, i>>
  BY <1>4
<1>6. q \in Seq(RangesOf(b))
  BY <1>1, <1>2
<1>7. f \in [S -> T]
  <2>1. ASSUME NEW i \in S PROVE <<b, i>> \in T
    <3>1. i \in 1 .. Len(q) /\ q[i] = r
      BY DEF Places
    <3>2. <<b, i>> \in all
      BY <1>1, <1>5, <3>1
    <3> QED BY <3>1, <3>2
  <2> QED BY <2>1
<1>8. \A i, j \in S : f[i] = f[j] => i = j
  OBVIOUS
<1>9. ASSUME NEW x \in T PROVE \E i \in S : f[i] = x
  <2>0. PICK a \in Area : \E i \in 1 .. Len(unpinned_list[a]) : x = <<a, i>>
    BY <1>5
  <2>1. PICK i \in 1 .. Len(unpinned_list[a]) : x = <<a, i>>
    BY <2>0
  <2>2. unpinned_list[a][i] = r
    BY <2>1
  <2>3. a = b
    BY <1>3, <2>2
  <2>4. i \in S
    BY <2>2, <2>3 DEF Places
  <2> QED BY <2>1, <2>3, <2>4
<1>10. IsFiniteSet(S) /\ Times(q, r) = Cardinality(S)
  BY <1>6, TimesType
<1> HIDE DEF S, T, f
<1>11. Cardinality(T) = Cardinality(S)
  BY <1>7, <1>8, <1>9, <1>10, SameSize
<1> QED BY <1>10, <1>11 DEF T

\* Both invariants together.
THEOREM LruInvariant == AshmemSpec => [](AshmemInv /\ LruInv)
<1>1. AshmemInit => AshmemInv /\ LruInv
  BY AshmemStart, LruStart
<1>2. AshmemInv /\ LruInv /\ [AshmemNext]_ashmem_vars => AshmemInv' /\ LruInv'
  BY AshmemStep, LruStep
<1> QED BY <1>1, <1>2, PTL DEF AshmemSpec

\* The shrinker finds every range that is not purged, as often as it exists, and nothing
\* else; lru_count, which it is asked by, is the number of their pages.
THEOREM LruStaysExact == AshmemSpec => []LruExact
<1>1. AshmemInv /\ LruInv => LruExact
  <2> SUFFICES ASSUME AshmemInv, LruInv PROVE LruExact
    OBVIOUS
  <2> DEFINE all == UNION {{<<a, i>> : i \in DOMAIN unpinned_list[a]} : a \in Area}
             times(r) == Cardinality({x \in all : unpinned_list[x[1]][x[2]] = r})
  <2>1. lru \in Seq(AshmemRange) /\ \A r \in ToSet(lru) : LruEntry(r)
    BY DEF AshmemInv, LruMatches
  <2>2. \A r \in ToSet(lru) : ~r.purged /\ r \in AshmemRange
    BY <2>1 DEF LruEntry
  <2>3. ASSUME NEW a \in Area, NEW r \in ToSet(unpinned_list[a]) PROVE r \in AshmemRange
    <3>1. unpinned_list[a] \in Seq(AshmemRange)
      BY DEF AshmemInv, AshmemShape
    <3> QED BY <3>1, ElementsOf
  <2>4. ASSUME NEW r \in AshmemRange, ~r.purged
        PROVE  Cardinality({i \in DOMAIN lru : lru[i] = r}) = times(r)
    <3>1. DOMAIN lru = 1 .. Len(lru)
      BY <2>1
    <3>2. Cardinality({i \in DOMAIN lru : lru[i] = r}) = Times(lru, r)
      BY <3>1 DEF Times
    <3>3. Times(lru, r) = Times(unpinned_list[r.asma], r)
      BY <2>4 DEF LruInv, LruCounts
    <3>4. times(r) = Times(unpinned_list[r.asma], r)
      BY AllPlaces
    <3> QED BY <3>2, <3>3, <3>4
  <2> HIDE DEF times
  <2>5. \A r \in ToSet(lru) \cup UNION {ToSet(unpinned_list[a]) : a \in Area} :
          ~r.purged => Cardinality({i \in DOMAIN lru : lru[i] = r}) = times(r)
    BY <2>2, <2>3, <2>4
  <2>6. lru_count = TotalSize(lru)
    BY DEF LruInv
  <2> QED BY <2>2, <2>5, <2>6 DEF LruExact, times
<1> QED BY <1>1, LruInvariant, PTL

\* The state keeps its types; lru_count, in particular, never becomes negative.
THEOREM AshmemTyped == AshmemSpec => []AshmemTypeOK
<1> DEFINE Rest == opened \subseteq Area /\ holder \in {"nobody", "file", "itself"}
<1>1. AshmemInit => Rest
  BY DEF AshmemInit
<1>2. Rest /\ [AshmemNext]_ashmem_vars => Rest'
  <2> SUFFICES ASSUME Rest, [AshmemNext]_ashmem_vars PROVE Rest'
    OBVIOUS
  <2>1. ASSUME NEW a \in Area, AreaStep(a) PROVE Rest'
    BY <2>1 DEF AreaStep, ashmem_open, ashmem_release, ashmem_mmap, MmapDone, SetSize
  <2>2. ASSUME NEW a \in Area, PinStep(a) PROVE Rest'
    <3>1. PICK s \in 0 .. size[a], e \in 0 .. size[a], alloc \in BOOLEAN :
            ashmem_pin(a, s, e, alloc) \/ ashmem_unpin(a, s, e, alloc) \/ UnpinCovered(a, s, e)
      BY <2>2 DEF PinStep
    <3>2. UNCHANGED <<area_vars, holder>>
      BY <3>1, Zenon DEF ashmem_pin, ashmem_unpin, UnpinCovered
    <3> QED BY <3>2 DEF area_vars
  <2>3. ASSUME NEW n, ashmem_shrink(n) PROVE Rest'
    <3>1. UNCHANGED <<opened, holder>>
      BY <2>3 DEF ashmem_shrink, area_vars
    <3> QED BY <3>1
  <2>4. CASE AllocationShrinks
    BY <2>4 DEF AllocationShrinks, area_vars
  <2>5. CASE UNCHANGED ashmem_vars
    BY <2>5 DEF ashmem_vars, area_vars
  <2> QED BY <2>1, <2>2, <2>3, <2>4, <2>5 DEF AshmemNext
<1>3. AshmemInv /\ LruInv /\ Rest => AshmemTypeOK
  <2> SUFFICES ASSUME AshmemInv, LruInv, Rest PROVE AshmemTypeOK
    OBVIOUS
  <2>1. lru \in Seq(AshmemRange) /\ PlainList(lru)
    BY DEF AshmemInv, LruMatches, PlainList, LruEntry
  <2>2. lru_count \in Nat
    BY <2>1, TotalPages DEF LruInv
  <2> QED BY <2>1, <2>2 DEF AshmemInv, AshmemShape, AshmemTypeOK, Page
<1> QED BY <1>1, <1>2, <1>3, LruInvariant, PTL DEF AshmemSpec

=============================================================================
