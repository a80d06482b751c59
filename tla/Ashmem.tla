------------------------------- MODULE Ashmem -------------------------------
(***************************************************************************)
(* Android shared memory (mm/ashmem.c): areas whose pages users unpin, so  *)
(* that the kernel may drop them when memory is short, and pin again, to   *)
(* be told whether it has.                                                 *)
(*                                                                         *)
(* ashmem_mutex makes every operation one step, except where its holder    *)
(* sleeps: while mmap sets up the backing file, and while a new range is   *)
(* allocated.  Names and protection bits are left out.                     *)
(***************************************************************************)
EXTENDS Lists, Naturals

CONSTANTS
  Area,
  Sizes,       \* bound: the sizes users give each area, in pages
  MaxRanges    \* bound: unpinned ranges of an area

ASSUME AshmemAssumption == Sizes \in [Area -> SUBSET Nat] /\ MaxRanges \in Nat \ {0}

VARIABLES
  opened,          \* the areas whose file is open
  size,            \* asma->size, in pages
  file,            \* pages of asma->file, 0 if there is none
  unpinned_list,   \* asma->unpinned_list
  lru,             \* ashmem_lru_list
  lru_count,
  holder,          \* what the holder of ashmem_mutex waits for
  setup,           \* pages of the file that mmap is setting up
  lost,            \* pages dropped, of which no user has been told
  unpinned,        \* pages that users have unpinned and not pinned again
  failed           \* history: areas with a range that could not be allocated

range_vars == <<unpinned_list, lru, lru_count>>
user_vars == <<lost, unpinned, failed>>
area_vars == <<opened, size, file, setup>>
ashmem_vars == <<area_vars, range_vars, holder, user_vars>>

Page == Nat
AshmemRange == [asma : Area, pgstart : Page, pgend : Page, purged : BOOLEAN]

AshmemTypeOK ==
  /\ opened \subseteq Area
  /\ size \in [Area -> Nat] /\ file \in [Area -> Nat] /\ setup \in [Area -> Nat]
  /\ \A a \in Area : unpinned_list[a] \in Seq(AshmemRange)
  /\ lru \in Seq(AshmemRange) /\ lru_count \in Nat
  /\ holder \in {"nobody", "file", "itself"}
  /\ lost \in [Area -> SUBSET Page] /\ unpinned \in [Area -> SUBSET Page]
  /\ failed \subseteq Area

-----------------------------------------------------------------------------
(* Ranges.                                                                 *)

range_size(r) == r.pgend + 1 - r.pgstart
range_before_page(r, page) == r.pgend < page
page_in_range(r, page) == r.pgstart <= page /\ r.pgend >= page
page_range_subsumes_range(r, s, e) == r.pgstart >= s /\ r.pgend <= e
page_range_subsumed_by_range(r, s, e) == r.pgstart <= s /\ r.pgend >= e

\* Mutant: a range inside the pages is overlooked.
EndsInRange(r, s, e) == page_in_range(r, s) \/ page_in_range(r, e)

page_range_in_range(r, s, e) ==
  page_in_range(r, s) \/ page_in_range(r, e) \/ page_range_subsumes_range(r, s, e)

TotalSize(seq) ==
  LET total[i \in 0 .. Len(seq)] == IF i = 0 THEN 0 ELSE total[i - 1] + range_size(seq[i])
  IN total[Len(seq)]

\* How many ranges a walk visits before it can stop.
Applicable(seq, s) ==
  LET before == {i \in 1 .. Len(seq) : range_before_page(seq[i], s)} IN
    IF before = {} THEN Len(seq) ELSE Min(before) - 1

\* The ranges of the walk that the pages s to e touch.
Touched(a, s, e) ==
  {i \in 1 .. Applicable(unpinned_list[a], s) :
     page_range_in_range(unpinned_list[a][i], s, e)}

\* Every range of seq replaced by the ranges that piece gives for it.
Replace(seq, piece(_)) == FlattenSeq([i \in 1 .. Len(seq) |-> piece(seq[i])])

\* Mutant: purged ranges are put on the list, too.
AllOnLru(seq) == seq

\* range_on_lru
OnLru(seq) == Without(seq, {r \in ToSet(seq) : r.purged})

-----------------------------------------------------------------------------
(* Areas.                                                                  *)

ashmem_open(a) ==
  /\ a \notin opened /\ opened' = opened \cup {a}
  /\ UNCHANGED <<size, file, setup, range_vars, holder, user_vars>>

ashmem_release(a) ==
  /\ a \in opened /\ holder = "nobody" /\ opened' = opened \ {a}
  /\ size' = [size EXCEPT ![a] = 0] /\ file' = [file EXCEPT ![a] = 0]
  /\ unpinned_list' = [unpinned_list EXCEPT ![a] = <<>>]
  /\ lru' = Without(lru, {r \in ToSet(lru) : r.asma = a})
  /\ lru_count' = lru_count - TotalSize(OnLru(unpinned_list[a]))
  /\ lost' = [lost EXCEPT ![a] = {}] /\ unpinned' = [unpinned EXCEPT ![a] = {}]
  /\ failed' = failed \ {a}
  /\ UNCHANGED <<setup, holder>>

\* ASHMEM_SET_SIZE, without the mutex.
SetSize(a, n) ==
  /\ a \in opened /\ file[a] = 0 /\ size' = [size EXCEPT ![a] = n]
  /\ UNCHANGED <<opened, file, setup, range_vars, holder, user_vars>>

\* The first mmap of an area sets up its file, of the size it has now; this may
\* sleep.  Later ones change nothing here.
ashmem_mmap(a) ==
  /\ a \in opened /\ holder = "nobody" /\ size[a] # 0 /\ file[a] = 0
  /\ holder' = "file" /\ setup' = [setup EXCEPT ![a] = size[a]]
  /\ UNCHANGED <<opened, size, file, range_vars, user_vars>>

MmapDone(a) ==
  /\ holder = "file" /\ setup[a] # 0 /\ holder' = "nobody"
  /\ \/ file' = [file EXCEPT ![a] = setup[a]]
     \/ UNCHANGED file
  /\ setup' = [setup EXCEPT ![a] = 0]
  /\ UNCHANGED <<opened, size, range_vars, user_vars>>

-----------------------------------------------------------------------------
(* Pinning.                                                                *)

\* The pages ashmem_pin_unpin accepts.  A length of zero means "everything onward",
\* which at the end of the area is an empty range.
Request(a, s, e) ==
  /\ a \in opened /\ file[a] # 0
  /\ e < size[a] /\ (s <= e \/ (s = size[a] /\ e + 1 = s))

\* Mutant: what is left counts as not purged.
UpperForgets(r, e) == [r EXCEPT !.pgstart = e + 1, !.purged = FALSE]

\* What ashmem_pin leaves of a range: what lies above the pages, or below, or both if
\* they punch a hole; the upper part is then allocated.
Upper(r, e) == [r EXCEPT !.pgstart = e + 1]

\* Mutant: the first pinned page stays in the range.
LowerTooLong(r, s) == [r EXCEPT !.pgend = s]

Lower(r, s) == [r EXCEPT !.pgend = s - 1]

Hole(r, s, e) == r.pgstart < s /\ r.pgend > e

Remainder(r, s, e) ==
  IF page_range_subsumes_range(r, s, e) THEN <<>>
  ELSE IF r.pgstart >= s THEN <<Upper(r, e)>> ELSE <<Lower(r, s)>>

ashmem_pin(a, s, e, alloc) ==
  LET seq == unpinned_list[a]
      hit == {seq[i] : i \in Touched(a, s, e)}
      holes == {r \in hit : Hole(r, s, e)}
      upper(r) == IF alloc /\ r \in holes THEN <<Upper(r, e)>> ELSE <<>>
      rest(r) == IF r \in hit THEN Remainder(r, s, e) ELSE <<r>>
      new == Replace(seq, LAMBDA r : upper(r) \o rest(r))
  IN /\ Request(a, s, e) /\ holder = "nobody"
     /\ holes = {} => alloc
     /\ Len(new) <= MaxRanges
     /\ unpinned_list' = [unpinned_list EXCEPT ![a] = new]
     /\ lru' = Replace(lru, rest) \o OnLru(Replace(seq, upper))
     /\ lru_count' = lru_count + TotalSize(OnLru(new)) - TotalSize(OnLru(seq))
     /\ lost' = IF \E r \in hit : r.purged THEN [lost EXCEPT ![a] = @ \ (s .. e)] ELSE lost
     /\ unpinned' = [unpinned EXCEPT ![a] = @ \ (s .. e)]
     /\ failed' = IF alloc THEN failed ELSE failed \cup {a}
     /\ UNCHANGED <<area_vars, holder>>

\* Ranges that overlap are merged into the new one.  The walk starts again with the
\* pages grown by each; no range with pages is touched by these that was not before,
\* but the empty one at the end of the area may be.
ashmem_unpin(a, s, e, alloc) ==
  LET seq == unpinned_list[a]
      first == {seq[i] : i \in Touched(a, s, e)}
      pgstart == Min({s} \cup {r.pgstart : r \in first})
      pgend == Max({e} \cup {r.pgend : r \in first})
      hit == {seq[i] : i \in Touched(a, pgstart, pgend)}
      range == [asma |-> a, pgstart |-> pgstart, pgend |-> pgend,
                purged |-> \E r \in hit : r.purged]
      new == IF alloc THEN <<range>> ELSE <<>>
      below == {r \in ToSet(seq) : range_before_page(r, pgstart)}
      before == Without(seq, hit \cup below)
      after == Without(seq, hit \cup (ToSet(seq) \ below))
  IN /\ Request(a, s, e) /\ holder = "nobody"
     /\ \A r \in first : ~page_range_subsumed_by_range(r, s, e)
     /\ Len(before \o after) < MaxRanges
     /\ unpinned_list' = [unpinned_list EXCEPT ![a] = before \o new \o after]
     /\ lru' = Without(lru, hit) \o OnLru(new)
     /\ lru_count' = lru_count + TotalSize(OnLru(before \o new \o after)) - TotalSize(OnLru(seq))
     /\ unpinned' = [unpinned EXCEPT ![a] = @ \cup (s .. e)]
     /\ failed' = IF alloc THEN failed ELSE failed \cup {a}
     /\ UNCHANGED <<area_vars, holder, lost>>

\* The pages are unpinned already, all in one range: ashmem_unpin returns when it gets
\* there, and has taken off what they touch in front of it.
UnpinCovered(a, s, e) ==
  LET seq == unpinned_list[a]
      first == {seq[i] : i \in Touched(a, s, e)}
      covering == {r \in first : page_range_subsumed_by_range(r, s, e)}
      left == Without(seq, first \ covering)
  IN /\ Request(a, s, e) /\ holder = "nobody" /\ covering # {}
     /\ unpinned_list' = [unpinned_list EXCEPT ![a] = left]
     /\ lru' = Without(lru, first \ covering)
     /\ lru_count' = lru_count + TotalSize(OnLru(left)) - TotalSize(OnLru(seq))
     /\ UNCHANGED <<area_vars, holder, user_vars>>

-----------------------------------------------------------------------------
(* Memory gets short.                                                      *)

\* The ranges that ashmem_shrink purges to free n pages: the first k of the LRU list.
Pruned(n) ==
  LET enough == {k \in 1 .. Len(lru) : TotalSize(SubSeq(lru, 1, k)) >= n} IN
    IF enough = {} THEN Len(lru) ELSE Min(enough)

\* Ranges that are equal are empty; any of them will do.
Nth(seq, i) == Cardinality({j \in 1 .. i : seq[j] = seq[i]})

\* For an allocation by somebody who does not hold the mutex, and may use the file
\* systems; also ASHMEM_PURGE_ALL_CACHES.
ashmem_shrink(n) ==
  LET first == SubSeq(lru, 1, Pruned(n))
      times(r) == Cardinality({i \in 1 .. Len(first) : first[i] = r})
      prune(seq) == [i \in 1 .. Len(seq) |->
                       IF Nth(seq, i) <= times(seq[i]) THEN [seq[i] EXCEPT !.purged = TRUE]
                       ELSE seq[i]]
      dropped(a) == UNION {r.pgstart .. r.pgend : r \in {q \in ToSet(first) : q.asma = a}}
  IN /\ holder = "nobody" /\ lru # <<>>
     /\ unpinned_list' = [a \in Area |-> prune(unpinned_list[a])]
     /\ lru' = SubSeq(lru, Pruned(n) + 1, Len(lru))
     /\ lru_count' = lru_count - TotalSize(first)
     /\ lost' = [a \in Area |-> lost[a] \cup (dropped(a) \cap 0 .. file[a] - 1)]
     /\ UNCHANGED <<area_vars, holder, unpinned, failed>>

\* A user of the area may ask for something for which a range is allocated.
Allocating(a) ==
  \E s, e \in 0 .. size[a] :
    LET hit == {unpinned_list[a][i] : i \in Touched(a, s, e)} IN
      /\ Request(a, s, e)
      /\ \/ \A r \in hit : ~page_range_subsumed_by_range(r, s, e)
         \/ \E r \in hit : Hole(r, s, e)

\* The holder allocates a range, or the file, with GFP_KERNEL.  The allocator calls
\* ashmem_shrink, which this mask does not keep from locking the mutex.
AllocationShrinks ==
  /\ lru # <<>>
  /\ \/ holder = "file"
     \/ holder = "nobody" /\ {a \in Area : Allocating(a)} # {}
  /\ holder' = "itself"
  /\ UNCHANGED <<area_vars, range_vars, user_vars>>

-----------------------------------------------------------------------------

AshmemInit ==
  /\ opened = {} /\ size = [a \in Area |-> 0] /\ file = [a \in Area |-> 0]
  /\ unpinned_list = [a \in Area |-> <<>>] /\ lru = <<>> /\ lru_count = 0
  /\ holder = "nobody" /\ setup = [a \in Area |-> 0]
  /\ lost = [a \in Area |-> {}] /\ unpinned = [a \in Area |-> {}] /\ failed = {}

PinStep(a) ==
  \E s \in 0 .. size[a], e \in 0 .. size[a] :
    \/ UnpinCovered(a, s, e)
    \/ \E alloc \in BOOLEAN : ashmem_pin(a, s, e, alloc) \/ ashmem_unpin(a, s, e, alloc)

AreaStep(a) ==
  \/ ashmem_open(a) \/ ashmem_release(a) \/ ashmem_mmap(a) \/ MmapDone(a)
  \/ \E n \in Sizes[a] : SetSize(a, n)

AshmemNext ==
  \/ \E a \in Area : AreaStep(a) \/ PinStep(a)
  \/ \E n \in 1 .. lru_count + 1 : ashmem_shrink(n)
  \/ AllocationShrinks

AshmemSpec == AshmemInit /\ [][AshmemNext]_ashmem_vars

-----------------------------------------------------------------------------
(* Properties.                                                             *)

Covered(a) == UNION {r.pgstart .. r.pgend : r \in ToSet(unpinned_list[a])}

\* However pages are pinned and unpinned, the ranges of an area do not overlap and are
\* sorted from the last page to the first, on which every early exit relies.
RangesSorted ==
  \A a \in Area : \A i, j \in 1 .. Len(unpinned_list[a]) :
    i < j => unpinned_list[a][i].pgstart > unpinned_list[a][j].pgend

\* The shrinker finds exactly the ranges that are not purged, each once, and
\* lru_count, by which it is asked to shrink, is their number of pages.
LruExact ==
  LET all == UNION {{<<a, i>> : i \in DOMAIN unpinned_list[a]} : a \in Area}
      times(r) == Cardinality({x \in all : unpinned_list[x[1]][x[2]] = r})
  IN /\ lru_count = TotalSize(lru)
     /\ \A r \in ToSet(lru) : ~r.purged
     /\ \A r \in ToSet(lru) \cup UNION {ToSet(unpinned_list[a]) : a \in Area} :
          ~r.purged => Cardinality({i \in DOMAIN lru : lru[i] = r}) = times(r)

\* A page that was dropped is in a range marked as purged until a user pins it, who
\* is then told; unless a range could not be allocated, and what it was to remember
\* is forgotten.
PurgeIsReported ==
  \A a \in Area \ failed : \A p \in lost[a] :
    \E r \in ToSet(unpinned_list[a]) : r.purged /\ page_in_range(r, p)

\* Pages that a user has pinned are never dropped, and those unpinned can be, unless
\* a range could not be allocated.
OnlyUnpinnedDropped ==
  \A a \in Area :
    /\ Covered(a) \subseteq unpinned[a]
    /\ a \notin failed => Covered(a) = unpinned[a] /\ lost[a] \subseteq unpinned[a]
=============================================================================
