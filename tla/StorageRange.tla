----------------------------- MODULE StorageRange -----------------------------
(***************************************************************************)
(* StorageTransaction::range of src/transactions.rs: the sorted deltas of   *)
(* the transaction (left) are merged over the records of the storage below  *)
(* (right), which is itself such a merge when transactions are nested.      *)
(***************************************************************************)
EXTENDS StorageTransaction

ASSUME KeysAreOrdered == Keys \subseteq Nat \ {0} /\ IsFiniteSet(Keys)

Orders == {"Ascending", "Descending"}
Unbounded == 0          \* `None` as a bound of range
Bounds == Keys \cup {Unbounded}

\* range_bounds: start is included, end excluded.  A start after the end is an
\* empty range, as is a start equal to it.
InBounds(k, start, end) ==
    /\ start # Unbounded => start <= k
    /\ end # Unbounded => k < end

Before(order, k1, k2) == IF order = "Ascending" THEN k1 < k2 ELSE k2 < k1

\* The keys in S as a BTreeMap or its reverse yields them.
Sorted(S, order) ==
    CHOOSE s \in [1 .. Cardinality(S) -> S] :
      /\ \A k \in S : \E i \in 1 .. Cardinality(S) : s[i] = k
      /\ \A i, j \in 1 .. Cardinality(S) : i < j => Before(order, s[i], s[j])

\* These keys with what content has for them.
Listed(content, S, order) ==
    LET keys == Sorted(S, order)
    IN  [i \in 1 .. Cardinality(S) |-> <<keys[i], content[keys[i]]>>]

-----------------------------------------------------------------------------
(* The iterator: it took l items from left, <<key, delta>> pairs, and r from right, *)
(* <<key, value>> records, and yielded out.                                         *)

\* take_left yields a Set, after a Delete it goes on.
TakeLeft(it, left) ==
    [l   |-> it.l + 1, r |-> it.r,
     out |-> IF left[it.l + 1][2] = Delete THEN it.out ELSE Append(it.out, left[it.l + 1])]
TakeRight(it, right) == [l |-> it.l, r |-> it.r + 1, out |-> Append(it.out, right[it.r + 1])]
DropRight(it) == [l |-> it.l, r |-> it.r + 1, out |-> it.out]

\* Mutant of PickMatch: the record from below survives an equal key.
PickMatchKeepsBoth(it, left, right, order) ==
    IF Before(order, right[it.r + 1][1], left[it.l + 1][1])
    THEN TakeRight(it, right) ELSE TakeLeft(it, left)

\* On equal keys pick_match drops the record from below.
PickMatch(it, left, right, order) ==
    IF Before(order, left[it.l + 1][1], right[it.r + 1][1]) THEN TakeLeft(it, left)
    ELSE IF left[it.l + 1][1] = right[it.r + 1][1] THEN TakeLeft(DropRight(it), left)
    ELSE TakeRight(it, right)

\* next, or the part of it that looks at one item.
NextItem(it, left, right, order) ==
    IF it.l < Len(left) /\ it.r < Len(right) THEN PickMatch(it, left, right, order)
    ELSE IF it.l < Len(left) THEN TakeLeft(it, left)
    ELSE IF it.r < Len(right) THEN TakeRight(it, right)
    ELSE it

\* All that MergeOverlay yields, until both sides are exhausted.
MergeOverlay(left, right, order) ==
    LET iterator[n \in 0 .. Len(left) + Len(right)] ==
          IF n = 0 THEN [l |-> 0, r |-> 0, out |-> <<>>]
          ELSE NextItem(iterator[n - 1], left, right, order)
    IN  iterator[Len(left) + Len(right)].out

\* local_state.range(bounds) of the nth transaction.
LocalRange(n, start, end, order) ==
    LET local == caches[n].local_state
    IN  Listed(local, {k \in Keys : local[k] # NoDelta /\ InBounds(k, start, end)}, order)

\* The records a storage content shows in a range: MockStorage::range, and what
\* every other storage has to answer.
RecordsOf(content, start, end, order) ==
    Listed(content, {k \in Keys : content[k] # None /\ InBounds(k, start, end)}, order)

\* range of the nth transaction: merged over the range of the storage below it.
Range_(n, start, end, order) ==
    LET range[m \in 0 .. n] ==
          IF m = 0 THEN RecordsOf(base, start, end, order)
          ELSE MergeOverlay(LocalRange(m, start, end, order), range[m - 1], order)
    IN  range[n]

-----------------------------------------------------------------------------
\* The doc of range: iteration over a set of keys, forwards or backwards.  At
\* every level of nesting, for every pair of bounds, the merge yields exactly
\* the records get answers, in order: no key twice, no deleted key, none missed.
RangeAgreesWithGet ==
    \A n \in 0 .. Depth, start \in Bounds, end \in Bounds, order \in Orders :
        Range_(n, start, end, order) = RecordsOf(View(n), start, end, order)
=============================================================================
