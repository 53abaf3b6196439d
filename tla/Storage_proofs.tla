--------------------------- MODULE Storage_proofs ---------------------------
(***************************************************************************)
(* Proofs about StorageTransaction, for all keys, values and depths: the   *)
(* types of its state, that a replay log reproduces the deltas of its      *)
(* transaction, and that nested transactions implement SnapshotStore;      *)
(* about StorageRange: that ranges list what get answers; about            *)
(* LengthPrefixed and PrefixedStorage, for bytes of any size, all names    *)
(* and keys and any nesting: that namespaces are apart, and that the       *)
(* ranges of their views are exact.                                        *)
(***************************************************************************)
EXTENDS StorageRange, PrefixedStorage, Sums_proofs, WellFoundedInduction, SequenceTheorems, TLAPS

-----------------------------------------------------------------------------
(* The last operation on a key *)

LEMMA MaxOfProperties ==
    ASSUME NEW n \in Nat, NEW S \in SUBSET (1 .. n), S # {}
    PROVE  MaxOf(S) \in S /\ \A i \in S : i <= MaxOf(S)
<1> DEFINE T == {n - i : i \in S}
<1>1. T \subseteq Nat /\ T # {}
  <2>1. \A i \in S : n - i \in Nat
    OBVIOUS
  <2> QED
    BY <2>1
<1> DEFINE Lower == {p \in Nat \X Nat : p[1] < p[2]}
<1>2. PICK t \in T : \A u \in T : <<u, t>> \notin Lower
  <2>1. Lower = OpToRel(<, Nat)
    BY Zenon DEF OpToRel
  <2>2. IsWellFoundedOn(Lower, Nat)
    BY <2>1, NatLessThanWellFounded, Zenon
  <2> HIDE DEF T, Lower
  <2> QED
    BY <1>1, <2>2, WFMin
<1>5. \A u \in T : t <= u
  <2> TAKE u \in T
  <2>1. t \in Nat /\ u \in Nat /\ <<u, t>> \notin Lower
    BY <1>1, <1>2
  <2>2. ~(u < t)
    BY <2>1
  <2> HIDE DEF T, Lower
  <2> QED
    BY <2>1, <2>2
<1>3. PICK m \in S : t = n - m
  BY <1>2
<1>4. \A i \in S : i <= m
  <2> TAKE i \in S
  <2>1. n - i \in T
    OBVIOUS
  <2>2. n - m <= n - i
    BY <2>1, <1>5, <1>3
  <2>3. n \in Int /\ m \in Int /\ i \in Int
    OBVIOUS
  <2> HIDE DEF T, Lower
  <2> QED
    BY <2>2, <2>3
<1> QED
  BY <1>4 DEF MaxOf

LEMMA MaxOfUnique ==
    ASSUME NEW S \in SUBSET Nat, NEW m \in S, \A i \in S : i <= m
    PROVE  MaxOf(S) = m
<1>1. MaxOf(S) \in S /\ \A i \in S : i <= MaxOf(S)
  BY Zenon DEF MaxOf
<1>2. m <= MaxOf(S) /\ MaxOf(S) <= m
  BY <1>1
<1>3. m \in Nat /\ MaxOf(S) \in Nat
  BY <1>1
<1> QED
  BY <1>2, <1>3

LEMMA DeltasAreNotNoDelta == NoDelta \notin Deltas
BY MarkersAssumption DEF Deltas

LEMMA TouchingProperties ==
    ASSUME NEW log \in Seq(Ops), NEW k
    PROVE  /\ Touching(log, k) \in SUBSET (1 .. Len(log))
           /\ Len(log) \in Nat
           /\ Touching(log, k) # {} =>
                /\ MaxOf(Touching(log, k)) \in Touching(log, k)
                /\ \A i \in Touching(log, k) : i <= MaxOf(Touching(log, k))
<1>1. Touching(log, k) \in SUBSET (1 .. Len(log)) /\ Len(log) \in Nat
  BY LenProperties DEF Touching
<1> QED
  BY <1>1, MaxOfProperties

\* A log shows no delta for a key exactly when no operation touches the key.
LEMMA LastDeltaType ==
    ASSUME NEW log \in Seq(Ops), NEW k
    PROVE  /\ LastDelta(log, k) \in Deltas \cup {NoDelta}
           /\ LastDelta(log, k) = NoDelta <=> Touching(log, k) = {}
<1>1. CASE Touching(log, k) = {}
  BY <1>1 DEF LastDelta
<1>2. CASE Touching(log, k) # {}
  <2>1. MaxOf(Touching(log, k)) \in 1 .. Len(log)
    BY <1>2, TouchingProperties
  <2>2. log[MaxOf(Touching(log, k))] \in Ops
    BY <2>1, ElementOfSeq
  <2>3. LastDelta(log, k) \in Deltas
    BY <1>2, <2>2 DEF LastDelta, Ops
  <2> QED
    BY <1>2, <2>3, DeltasAreNotNoDelta
<1> QED
  BY <1>1, <1>2

LEMMA LastDeltaEmpty ==
    ASSUME NEW k
    PROVE  LastDelta(<<>>, k) = NoDelta
BY DEF LastDelta, Touching

\* RepLog::append makes its operation the last one on its key.
LEMMA LastDeltaAppend ==
    ASSUME NEW log \in Seq(Ops), NEW op \in Ops, NEW k
    PROVE  LastDelta(Append(log, op), k) = IF op.key = k THEN op.delta ELSE LastDelta(log, k)
<1> DEFINE longer == Append(log, op)
           n      == Len(log)
<1>1. /\ longer \in Seq(Ops) /\ Len(longer) = n + 1 /\ n \in Nat
      /\ \A i \in 1 .. n : longer[i] = log[i]
      /\ longer[n + 1] = op
  BY AppendProperties, LenProperties
<1>2. DOMAIN longer = 1 .. n + 1 /\ DOMAIN log = 1 .. n
  BY <1>1, LenProperties
<1> HIDE DEF longer, n
<1>3. CASE op.key = k
  <2>1. n + 1 \in Touching(longer, k)
    BY <1>1, <1>2, <1>3 DEF Touching
  <2>2. Touching(longer, k) \in SUBSET Nat /\ \A i \in Touching(longer, k) : i <= n + 1
    BY <1>1, <1>2 DEF Touching
  <2>3. MaxOf(Touching(longer, k)) = n + 1
    BY <2>1, <2>2, MaxOfUnique
  <2> QED
    BY <1>1, <1>3, <2>1, <2>3 DEF LastDelta, longer
<1>4. CASE op.key # k
  <2>1. Touching(longer, k) = Touching(log, k)
    BY <1>1, <1>2, <1>4 DEF Touching
  <2>2. Touching(log, k) # {} => longer[MaxOf(Touching(log, k))] = log[MaxOf(Touching(log, k))]
    BY <1>1, TouchingProperties DEF n
  <2> QED
    BY <1>4, <2>1, <2>2 DEF LastDelta, longer
<1> QED
  BY <1>3, <1>4

\* The first operation of a log matters only for a key that no later one touches.
LEMMA LastDeltaHeadTail ==
    ASSUME NEW log \in Seq(Ops), log # <<>>, NEW k
    PROVE  LastDelta(log, k) =
             IF LastDelta(Tail(log), k) # NoDelta THEN LastDelta(Tail(log), k)
             ELSE IF Head(log).key = k THEN Head(log).delta ELSE NoDelta
<1> DEFINE rest == Tail(log)
           n    == Len(rest)
<1>1. /\ rest \in Seq(Ops) /\ n \in Nat /\ Len(log) = n + 1
      /\ \A i \in 1 .. n : rest[i] = log[i + 1]
      /\ Head(log) = log[1]
  BY HeadTailProperties, LenProperties
<1>2. DOMAIN log = 1 .. n + 1 /\ DOMAIN rest = 1 .. n
  BY <1>1, LenProperties
<1>3. LastDelta(rest, k) # NoDelta <=> Touching(rest, k) # {}
  BY <1>1, LastDeltaType
<1> HIDE DEF rest, n
<1>4. CASE Touching(rest, k) = {}
  <2>1. Touching(log, k) = IF log[1].key = k THEN {1} ELSE {}
    <3>1. \A i \in 1 .. n + 1 : log[i].key = k => i = 1
      <4> TAKE i \in 1 .. n + 1
      <4>1. CASE i # 1
        <5>1. i - 1 \in 1 .. n /\ rest[i - 1] = log[i]
          BY <1>1, <4>1
        <5> QED
          BY <1>2, <1>4, <5>1 DEF Touching
      <4> QED
        BY <4>1
    <3> QED
      BY <1>1, <1>2, <3>1 DEF Touching
  <2>2. MaxOf({1}) = 1
    BY MaxOfUnique
  <2> QED
    BY <1>1, <1>3, <1>4, <2>1, <2>2 DEF LastDelta, rest
<1>5. CASE Touching(rest, k) # {}
  <2> DEFINE m == MaxOf(Touching(rest, k))
  <2>1. m \in Touching(rest, k) /\ m \in 1 .. n /\ \A i \in Touching(rest, k) : i <= m
    BY <1>1, <1>2, <1>5, TouchingProperties DEF n
  <2> HIDE DEF m
  <2>2. m + 1 \in Touching(log, k) /\ log[m + 1] = rest[m]
    BY <1>1, <1>2, <2>1 DEF Touching
  <2>3. \A i \in Touching(log, k) : i <= m + 1
    <3> TAKE i \in Touching(log, k)
    <3>1. i \in 1 .. n + 1 /\ log[i].key = k
      BY <1>2 DEF Touching
    <3>2. CASE i # 1
      <4>1. i - 1 \in Touching(rest, k)
        BY <1>1, <1>2, <3>1, <3>2 DEF Touching
      <4>2. i - 1 <= m
        BY <4>1, <2>1
      <4> QED
        BY <1>1, <2>1, <3>1, <4>2
    <3> QED
      BY <1>1, <2>1, <3>1, <3>2
  <2>4. Touching(log, k) \in SUBSET Nat
    BY <1>1, <1>2 DEF Touching
  <2>5. MaxOf(Touching(log, k)) = m + 1
    BY <2>2, <2>3, <2>4, MaxOfUnique
  <2> QED
    BY <1>3, <1>5, <2>2, <2>5 DEF LastDelta, m, rest
<1> QED
  BY <1>4, <1>5

-----------------------------------------------------------------------------
(* Types, and logs that reproduce the deltas *)

Matches(layer) == \A k \in Keys : layer.local_state[k] = LastDelta(layer.rep_log, k)

LEMMA NewLayerMatches == NewLayer \in Layer /\ Matches(NewLayer)
<1>1. <<>> \in Seq(Ops)
  OBVIOUS
<1> QED
  BY <1>1, LastDeltaEmpty DEF NewLayer, Layer, Matches

\* set and remove keep local_state and rep_log of a transaction in step.
LEMMA RecordMatches ==
    ASSUME NEW layer \in Layer, NEW op \in Ops, Matches(layer)
    PROVE  Record(layer, op) \in Layer /\ Matches(Record(layer, op))
<1>1. layer.rep_log \in Seq(Ops) /\ layer.local_state \in [Keys -> Deltas \cup {NoDelta}]
  BY DEF Layer
<1>2. op.key \in Keys /\ op.delta \in Deltas
  BY DEF Ops
<1>3. Append(layer.rep_log, op) \in Seq(Ops)
  BY <1>1
<1>4. Record(layer, op) \in Layer
  BY <1>1, <1>2, <1>3 DEF Record, Layer
<1>5. ASSUME NEW k \in Keys
      PROVE  Record(layer, op).local_state[k] = LastDelta(Record(layer, op).rep_log, k)
  <2>1. LastDelta(Append(layer.rep_log, op), k)
          = IF op.key = k THEN op.delta ELSE LastDelta(layer.rep_log, k)
    BY <1>1, LastDeltaAppend
  <2> QED
    BY <1>1, <1>2, <2>1 DEF Record, Matches
<1> QED
  BY <1>4, <1>5 DEF Matches

LEMMA ContentType ==
    ASSUME NEW delta \in Deltas
    PROVE  Content(delta) \in Values \cup {None}
BY DEF Content, Deltas

IInv == TypeOK /\ LogMatchesState

LEMMA IInvLayers == IInv => \A i \in 1 .. Len(caches) : caches[i] \in Layer /\ Matches(caches[i])
BY ElementOfSeq DEF IInv, TypeOK, LogMatchesState, Depth, Matches

\* Op::apply on any innermost storage keeps the invariant.
LEMMA ApplyInvariant ==
    ASSUME IInv, NEW op \in Ops, Apply(op, caches)
    PROVE  /\ base' \in [Keys -> Values \cup {None}]
           /\ caches' \in Seq(Layer)
           /\ LogMatchesState'
<1> USE DEF IInv, TypeOK
<1>1. op.key \in Keys /\ Content(op.delta) \in Values \cup {None}
  BY ContentType DEF Ops
<1>2. CASE caches = <<>>
  BY <1>1, <1>2 DEF Apply, LogMatchesState, Depth
<1>3. CASE caches # <<>>
  <2> DEFINE n   == Len(caches)
             top == Record(caches[n], op)
  <2>1. n \in 1 .. Len(caches)
    BY <1>3, EmptySeq, LenProperties
  <2>2. top \in Layer /\ Matches(top)
    BY <2>1, IInvLayers, RecordMatches
  <2>3. caches' = [caches EXCEPT ![n] = top] /\ base' = base
    BY <1>3 DEF Apply
  <2> HIDE DEF top
  <2>4. /\ caches' \in Seq(Layer) /\ Len(caches') = Len(caches)
        /\ \A i \in 1 .. Len(caches) : caches'[i] = IF i = n THEN top ELSE caches[i]
    BY <2>1, <2>2, <2>3, ExceptSeq
  <2>5. \A i \in 1 .. Len(caches') : Matches(caches'[i])
    BY <2>2, <2>4, IInvLayers
  <2> QED
    BY <2>3, <2>4, <2>5 DEF LogMatchesState, Matches, Depth
<1> QED
  BY <1>2, <1>3

\* Prepare and Rollback leave the transactions below the innermost one.
LEMMA PopProperties ==
    ASSUME NEW S, NEW s \in Seq(S), s # <<>>
    PROVE  LET t == SubSeq(s, 1, Len(s) - 1)
           IN  /\ t \in Seq(S) /\ Len(s) \in Nat \ {0} /\ Len(t) = Len(s) - 1
               /\ \A i \in 1 .. Len(s) - 1 : t[i] = s[i]
<1>1. Len(s) \in Nat \ {0}
  BY EmptySeq
<1>2. \A i \in 1 .. Len(s) - 1 : s[i] \in S
  BY <1>1, ElementOfSeq
<1> DEFINE n == Len(s) - 1
           t == SubSeq(s, 1, n)
<1>3. n \in Nat /\ 1 \in Int /\ n \in Int
  BY <1>1
<1> HIDE DEF n
<1>4. /\ t \in Seq(S)
      /\ Len(t) = IF 1 <= n THEN n - 1 + 1 ELSE 0
      /\ \A i \in 1 .. n - 1 + 1 : t[i] = s[1 + i - 1]
  BY <1>2, <1>3, SubSeqProperties DEF n
<1>5. n - 1 + 1 = n /\ \A i \in 1 .. n : 1 + i - 1 = i
  BY <1>3
<1>6. Len(t) = n /\ \A i \in 1 .. n : t[i] = s[i]
  BY <1>3, <1>4, <1>5
<1> QED
  BY <1>1, <1>4, <1>6 DEF n

LEMMA InitIInv == Init => IInv
BY DEF Init, IInv, TypeOK, LogMatchesState, Depth

LEMMA NextIInv == IInv /\ [Next]_vars => IInv'
<1> SUFFICES ASSUME IInv, [Next]_vars PROVE IInv'
  OBVIOUS
<1> USE DEF IInv, TypeOK
<1>1. CASE Begin
  <2>1. caches' = Append(caches, NewLayer) /\ base' = base /\ pending' = pending
    BY <1>1 DEF Begin
  <2>2. /\ caches' \in Seq(Layer) /\ Len(caches') = Len(caches) + 1
        /\ \A i \in 1 .. Len(caches) : caches'[i] = caches[i]
        /\ caches'[Len(caches) + 1] = NewLayer
    BY <2>1, NewLayerMatches, AppendProperties
  <2>3. \A i \in 1 .. Len(caches') : Matches(caches'[i])
    <3> TAKE i \in 1 .. Len(caches')
    <3>1. i \in 1 .. Len(caches) \/ i = Len(caches) + 1
      BY <2>2, LenProperties
    <3> QED
      BY <2>2, <3>1, IInvLayers, NewLayerMatches
  <2> QED
    BY <2>1, <2>2, <2>3 DEF LogMatchesState, Matches, Depth
<1>2. ASSUME NEW op \in Ops, Write(op) PROVE IInv'
  BY <1>2, ApplyInvariant DEF Write
<1>3. CASE Prepare
  <2>1. caches # <<>> /\ caches' = SubSeq(caches, 1, Len(caches) - 1) /\ base' = base
        /\ pending' = caches[Len(caches)].rep_log
    BY <1>3 DEF Prepare, Depth
  <2>2. caches' \in Seq(Layer) /\ \A i \in 1 .. Len(caches') : Matches(caches'[i])
    BY <2>1, PopProperties, IInvLayers
  <2>3. caches[Len(caches)] \in Layer
    BY <2>1, PopProperties, ElementOfSeq
  <2> QED
    BY <2>1, <2>2, <2>3 DEF LogMatchesState, Matches, Depth, Layer
<1>4. CASE CommitStep
  <2>1. Head(pending) \in Ops /\ Tail(pending) \in Seq(Ops)
    BY <1>4, HeadTailProperties DEF CommitStep
  <2> QED
    BY <1>4, <2>1, ApplyInvariant DEF CommitStep
<1>5. CASE Rollback
  <2>1. caches # <<>> /\ caches' = SubSeq(caches, 1, Len(caches) - 1)
        /\ base' = base /\ pending' = pending
    BY <1>5 DEF Rollback, Depth
  <2>2. caches' \in Seq(Layer) /\ \A i \in 1 .. Len(caches') : Matches(caches'[i])
    BY <2>1, PopProperties, IInvLayers
  <2> QED
    BY <2>1, <2>2 DEF LogMatchesState, Matches, Depth
<1>6. CASE UNCHANGED vars
  BY <1>6 DEF vars, LogMatchesState, Depth
<1> QED
  BY <1>1, <1>2, <1>3, <1>4, <1>5, <1>6 DEF Next

\* The state of a stack of StorageTransactions keeps its types.
THEOREM TypeCorrect == Spec => []TypeOK
<1>1. Spec => []IInv
  BY InitIInv, NextIInv, PTL DEF Spec
<1>2. IInv => TypeOK
  BY DEF IInv
<1> QED
  BY <1>1, <1>2, PTL

\* For every key, value and depth of nesting, replaying the log of an open
\* transaction leaves the deltas it shows (set, remove, RepLog::commit).
THEOREM LogsMatchStates == Spec => []LogMatchesState
<1>1. Spec => []IInv
  BY InitIInv, NextIInv, PTL DEF Spec
<1>2. IInv => LogMatchesState
  BY DEF IInv
<1> QED
  BY <1>1, <1>2, PTL

-----------------------------------------------------------------------------
(* What get answers, as a function of the storage *)

HoldingIn(cs, n, k) == {i \in 1 .. n : cs[i].local_state[k] # NoDelta}
GetIn(b, cs, n, k) ==
    IF HoldingIn(cs, n, k) = {} THEN b[k]
    ELSE Content(cs[MaxOf(HoldingIn(cs, n, k))].local_state[k])
ViewIn(b, cs, n) == [k \in Keys |-> GetIn(b, cs, n, k)]
ReplayedIn(log, view) ==
    [k \in Keys |-> IF LastDelta(log, k) = NoDelta THEN view[k] ELSE Content(LastDelta(log, k))]
SnapshotsIn(b, cs, log) ==
    [i \in 1 .. Len(cs) + 1 |->
        IF i = Len(cs) + 1 THEN ReplayedIn(log, ViewIn(b, cs, Len(cs))) ELSE ViewIn(b, cs, i - 1)]

LEMMA SnapshotsAreSnapshotsIn ==
    /\ Snapshots = SnapshotsIn(base, caches, pending)
    /\ Snapshots' = SnapshotsIn(base', caches', pending')
BY DEF Snapshots, SnapshotsIn, Replayed, ReplayedIn, View, ViewIn, Get, GetIn, Holding, HoldingIn,
       Depth

\* get looks at the transaction itself, then at the storage below it.
LEMMA GetBelow ==
    ASSUME NEW b, NEW cs, NEW n \in Nat \ {0}, NEW k
    PROVE  GetIn(b, cs, n, k) = IF cs[n].local_state[k] # NoDelta
                                THEN Content(cs[n].local_state[k]) ELSE GetIn(b, cs, n - 1, k)
<1>1. CASE cs[n].local_state[k] # NoDelta
  <2>1. n \in HoldingIn(cs, n, k) /\ HoldingIn(cs, n, k) \in SUBSET Nat
        /\ \A i \in HoldingIn(cs, n, k) : i <= n
    BY <1>1 DEF HoldingIn
  <2>2. MaxOf(HoldingIn(cs, n, k)) = n
    BY <2>1, MaxOfUnique
  <2> QED
    BY <1>1, <2>1, <2>2 DEF GetIn
<1>2. CASE cs[n].local_state[k] = NoDelta
  <2>1. HoldingIn(cs, n, k) = HoldingIn(cs, n - 1, k)
    BY <1>2 DEF HoldingIn
  <2> QED
    BY <1>2, <2>1 DEF GetIn
<1> QED
  BY <1>1, <1>2

LEMMA GetNothingBelow ==
    ASSUME NEW b, NEW cs, NEW k
    PROVE  GetIn(b, cs, 0, k) = b[k]
BY DEF GetIn, HoldingIn

LEMMA HoldingProperties ==
    ASSUME NEW cs, NEW n \in Nat, NEW k, HoldingIn(cs, n, k) # {}
    PROVE  MaxOf(HoldingIn(cs, n, k)) \in 1 .. n
<1>1. HoldingIn(cs, n, k) \in SUBSET (1 .. n)
  BY DEF HoldingIn
<1> QED
  BY <1>1, MaxOfProperties

\* Only the transactions up to the nth matter to what the nth answers.
LEMMA ViewUnchanged ==
    ASSUME NEW b, NEW cs, NEW ds, NEW n \in Nat, \A i \in 1 .. n : ds[i] = cs[i]
    PROVE  ViewIn(b, ds, n) = ViewIn(b, cs, n)
<1> SUFFICES ASSUME NEW k \in Keys PROVE GetIn(b, ds, n, k) = GetIn(b, cs, n, k)
  BY DEF ViewIn
<1>1. HoldingIn(ds, n, k) = HoldingIn(cs, n, k)
  BY DEF HoldingIn
<1>2. HoldingIn(cs, n, k) # {} => ds[MaxOf(HoldingIn(cs, n, k))] = cs[MaxOf(HoldingIn(cs, n, k))]
  BY HoldingProperties
<1> QED
  BY <1>1, <1>2 DEF GetIn

LEMMA GetType ==
    ASSUME NEW b \in [Keys -> Values \cup {None}], NEW cs \in Seq(Layer),
           NEW n \in 0 .. Len(cs), NEW k \in Keys
    PROVE  GetIn(b, cs, n, k) \in Values \cup {None}
<1>1. CASE HoldingIn(cs, n, k) = {}
  BY <1>1 DEF GetIn
<1>2. CASE HoldingIn(cs, n, k) # {}
  <2> DEFINE m == MaxOf(HoldingIn(cs, n, k))
  <2>1. n \in Nat /\ Len(cs) \in Nat
    BY LenProperties
  <2>2. m \in 1 .. n /\ m \in HoldingIn(cs, n, k)
    <3>1. HoldingIn(cs, n, k) \in SUBSET (1 .. n)
      BY DEF HoldingIn
    <3> QED
      BY <1>2, <2>1, <3>1, MaxOfProperties
  <2>3. cs[m] \in Layer
    BY <2>1, <2>2, ElementOfSeq
  <2>4. cs[m].local_state[k] \in Deltas
    BY <2>2, <2>3 DEF Layer, HoldingIn
  <2> QED
    BY <1>2, <2>4, ContentType DEF GetIn
<1> QED
  BY <1>1, <1>2

LEMMA ReplayedType ==
    ASSUME NEW log \in Seq(Ops), NEW view \in [Keys -> Values \cup {None}]
    PROVE  ReplayedIn(log, view) \in [Keys -> Values \cup {None}]
<1>1. ASSUME NEW k \in Keys, LastDelta(log, k) # NoDelta
      PROVE  Content(LastDelta(log, k)) \in Values \cup {None}
  BY <1>1, LastDeltaType, ContentType
<1> QED
  BY <1>1 DEF ReplayedIn

LEMMA ReplayedNothing ==
    ASSUME NEW b, NEW cs, NEW n
    PROVE  ReplayedIn(<<>>, ViewIn(b, cs, n)) = ViewIn(b, cs, n)
BY LastDeltaEmpty DEF ReplayedIn, ViewIn

LEMMA SnapshotsType ==
    ASSUME NEW b \in [Keys -> Values \cup {None}], NEW cs \in Seq(Layer), NEW log \in Seq(Ops)
    PROVE  /\ SnapshotsIn(b, cs, log) \in Seq([Keys -> Values \cup {None}])
           /\ Len(SnapshotsIn(b, cs, log)) = Len(cs) + 1
<1>1. Len(cs) \in Nat
  BY LenProperties
<1>2. ASSUME NEW n \in 0 .. Len(cs)
      PROVE  ViewIn(b, cs, n) \in [Keys -> Values \cup {None}]
  BY GetType DEF ViewIn
<1>3. ReplayedIn(log, ViewIn(b, cs, Len(cs))) \in [Keys -> Values \cup {None}]
  BY <1>1, <1>2, ReplayedType
<1>4. \A i \in 1 .. Len(cs) + 1 :
          SnapshotsIn(b, cs, log)[i] \in [Keys -> Values \cup {None}]
  <2> TAKE i \in 1 .. Len(cs) + 1
  <2>1. CASE i = Len(cs) + 1
    BY <1>1, <1>3, <2>1 DEF SnapshotsIn
  <2>2. CASE i # Len(cs) + 1
    <3>1. i - 1 \in 0 .. Len(cs)
      BY <1>1, <2>2
    <3> QED
      BY <1>1, <1>2, <2>2, <3>1 DEF SnapshotsIn
  <2> QED
    BY <2>1, <2>2
<1> DEFINE snaps == SnapshotsIn(b, cs, log)
<1>5. DOMAIN snaps = 1 .. Len(cs) + 1 /\ snaps = [i \in 1 .. Len(cs) + 1 |-> snaps[i]]
  BY DEF SnapshotsIn
<1> HIDE DEF snaps
<1> QED
  BY <1>1, <1>4, <1>5 DEF snaps

-----------------------------------------------------------------------------
(* Every step is a step of SnapshotStore *)

\* An operation changes what the innermost storage answers for its key, and
\* nothing that the storages below it answer.
LEMMA ApplyView ==
    ASSUME IInv, NEW op \in Ops, Apply(op, caches)
    PROVE  /\ Len(caches') = Len(caches)
           /\ ViewIn(base', caches', Len(caches))
                 = [ViewIn(base, caches, Len(caches)) EXCEPT ![op.key] = Content(op.delta)]
           /\ \A n \in 0 .. Len(caches) - 1 : ViewIn(base', caches', n) = ViewIn(base, caches, n)
<1> DEFINE m == Len(caches)
<1> USE DEF IInv, TypeOK
<1>0. m \in Nat /\ op.key \in Keys /\ op.delta \in Deltas /\ op.delta # NoDelta
  BY LenProperties, DeltasAreNotNoDelta DEF Ops
<1>1. CASE caches = <<>>
  <2>1. m = 0 /\ caches' = caches /\ base' = [base EXCEPT ![op.key] = Content(op.delta)]
    BY <1>1 DEF Apply
  <2>2. \A k \in Keys : GetIn(base', caches', 0, k) = base'[k] /\ GetIn(base, caches, 0, k) = base[k]
    BY GetNothingBelow
  <2>3. ViewIn(base', caches', 0) = [k \in Keys |-> base'[k]]
        /\ ViewIn(base, caches, 0) = [k \in Keys |-> base[k]]
    BY <2>2 DEF ViewIn
  <2>4. ViewIn(base', caches', 0) = [ViewIn(base, caches, 0) EXCEPT ![op.key] = Content(op.delta)]
    BY <1>0, <2>1, <2>3
  <2>5. Len(caches') = m /\ \A n \in 0 .. m - 1 : FALSE
    BY <2>1
  <2> HIDE DEF m
  <2>6. ViewIn(base', caches', m) = [ViewIn(base, caches, m) EXCEPT ![op.key] = Content(op.delta)]
    BY <2>1, <2>4
  <2> QED
    BY <2>5, <2>6 DEF m
<1>2. CASE caches # <<>>
  <2> DEFINE top == Record(caches[m], op)
  <2>1. m \in Nat \ {0} /\ m \in 1 .. Len(caches)
    BY <1>2, EmptySeq
  <2>2. top \in Layer
    BY <2>1, IInvLayers, RecordMatches
  <2>3. caches' = [caches EXCEPT ![m] = top] /\ base' = base
    BY <1>2 DEF Apply
  <2>4. /\ Len(caches') = m
        /\ \A i \in 1 .. m : caches'[i] = IF i = m THEN Record(caches[m], op) ELSE caches[i]
    <3> HIDE DEF top
    <3>1. /\ Len(caches') = m
          /\ \A i \in 1 .. m : caches'[i] = IF i = m THEN top ELSE caches[i]
      BY <2>1, <2>2, <2>3, ExceptSeq
    <3> QED
      BY <3>1 DEF top
  <2> HIDE DEF m
  <2>5. ASSUME NEW n \in 0 .. m - 1
        PROVE  ViewIn(base', caches', n) = ViewIn(base, caches, n)
    <3>1. n \in Nat /\ \A i \in 1 .. n : caches'[i] = caches[i]
      BY <2>1, <2>4
    <3>2. base' = base
      BY <2>3
    <3> HIDE DEF top, IInv, TypeOK
    <3>3. ViewIn(base, caches', n) = ViewIn(base, caches, n)
      BY <3>1, ViewUnchanged
    <3> QED
      BY <3>2, <3>3
  <2>6. ASSUME NEW k \in Keys
        PROVE  GetIn(base', caches', m, k)
                 = IF k = op.key THEN Content(op.delta) ELSE GetIn(base, caches, m, k)
    <3>1. caches[m].local_state \in [Keys -> Deltas \cup {NoDelta}]
      BY <2>1, IInvLayers DEF Layer, m
    <3>2. caches'[m].local_state = [caches[m].local_state EXCEPT ![op.key] = op.delta]
      BY <2>1, <2>4 DEF Record
    <3>3. ViewIn(base', caches', m - 1) = ViewIn(base, caches, m - 1)
      BY <2>1, <2>5
    <3>4. GetIn(base', caches', m - 1, k) = GetIn(base, caches, m - 1, k)
      BY <3>3 DEF ViewIn
    <3>5. /\ GetIn(base', caches', m, k) = IF caches'[m].local_state[k] # NoDelta
                THEN Content(caches'[m].local_state[k]) ELSE GetIn(base', caches', m - 1, k)
          /\ GetIn(base, caches, m, k) = IF caches[m].local_state[k] # NoDelta
                THEN Content(caches[m].local_state[k]) ELSE GetIn(base, caches, m - 1, k)
      BY <2>1, GetBelow
    <3> QED
      BY <1>0, <3>1, <3>2, <3>4, <3>5
  <2>7. ViewIn(base', caches', m) = [ViewIn(base, caches, m) EXCEPT ![op.key] = Content(op.delta)]
    BY <1>0, <2>6 DEF ViewIn
  <2> QED
    BY <2>4, <2>5, <2>7 DEF m
<1> QED
  BY <1>1, <1>2

\* What a transaction shows is its log replayed over the storage below it.
LEMMA ReplayGivesView ==
    ASSUME IInv, caches # <<>>
    PROVE  ViewIn(base, caches, Len(caches))
             = ReplayedIn(caches[Len(caches)].rep_log, ViewIn(base, caches, Len(caches) - 1))
<1> DEFINE m == Len(caches)
<1>1. m \in Nat \ {0} /\ m \in 1 .. Len(caches)
  BY EmptySeq DEF IInv, TypeOK
<1>2. Matches(caches[m])
  BY <1>1, IInvLayers
<1> HIDE DEF m
<1>3. ASSUME NEW k \in Keys
      PROVE  GetIn(base, caches, m, k) =
               IF LastDelta(caches[m].rep_log, k) = NoDelta THEN GetIn(base, caches, m - 1, k)
               ELSE Content(LastDelta(caches[m].rep_log, k))
  <2>1. caches[m].local_state[k] = LastDelta(caches[m].rep_log, k)
    BY <1>2 DEF Matches
  <2>2. GetIn(base, caches, m, k) = IF caches[m].local_state[k] # NoDelta
           THEN Content(caches[m].local_state[k]) ELSE GetIn(base, caches, m - 1, k)
    BY <1>1, GetBelow
  <2> QED
    BY <2>1, <2>2
<1>4. ViewIn(base, caches, m) = ReplayedIn(caches[m].rep_log, ViewIn(base, caches, m - 1))
  BY <1>3 DEF ViewIn, ReplayedIn
<1> QED
  BY <1>4 DEF m

\* One round of RepLog::commit takes an operation from the log to the storage.
LEMMA ReplayStep ==
    ASSUME NEW log \in Seq(Ops), log # <<>>, NEW view \in [Keys -> Values \cup {None}]
    PROVE  ReplayedIn(Tail(log), [view EXCEPT ![Head(log).key] = Content(Head(log).delta)])
             = ReplayedIn(log, view)
<1>1. Head(log) \in Ops /\ Tail(log) \in Seq(Ops)
  BY HeadTailProperties
<1>2. Head(log).key \in Keys /\ Head(log).delta # NoDelta
  BY <1>1, DeltasAreNotNoDelta DEF Ops
<1> DEFINE changed == [view EXCEPT ![Head(log).key] = Content(Head(log).delta)]
<1>3. ASSUME NEW k \in Keys
      PROVE  (IF LastDelta(Tail(log), k) = NoDelta THEN changed[k] ELSE Content(LastDelta(Tail(log), k)))
               = IF LastDelta(log, k) = NoDelta THEN view[k] ELSE Content(LastDelta(log, k))
  <2>1. LastDelta(log, k) =
           IF LastDelta(Tail(log), k) # NoDelta THEN LastDelta(Tail(log), k)
           ELSE IF Head(log).key = k THEN Head(log).delta ELSE NoDelta
    BY LastDeltaHeadTail
  <2>2. changed[k] = IF k = Head(log).key THEN Content(Head(log).delta) ELSE view[k]
    BY <1>2
  <2> HIDE DEF changed
  <2> QED
    BY <1>2, <2>1, <2>2
<1> HIDE DEF changed
<1>4. ReplayedIn(Tail(log), changed) = ReplayedIn(log, view)
  BY <1>3 DEF ReplayedIn
<1> QED
  BY <1>4 DEF changed

\* Between steps of a commit the snapshots are what get answers at each level.
LEMMA QuietSnapshots ==
    ASSUME NEW b, NEW cs, NEW m \in Nat, Len(cs) = m
    PROVE  /\ SnapshotsIn(b, cs, <<>>) = [i \in 1 .. m + 1 |-> ViewIn(b, cs, i - 1)]
           /\ \A n \in 0 .. m : SnapshotsIn(b, cs, <<>>)[n + 1] = ViewIn(b, cs, n)
<1>1. SnapshotsIn(b, cs, <<>>) = [i \in 1 .. m + 1 |->
          IF i = m + 1 THEN ReplayedIn(<<>>, ViewIn(b, cs, m)) ELSE ViewIn(b, cs, i - 1)]
  BY DEF SnapshotsIn
<1>2. ReplayedIn(<<>>, ViewIn(b, cs, m)) = ViewIn(b, cs, m)
  BY ReplayedNothing
<1>3. \A i \in 1 .. m + 1 : i = m + 1 => i - 1 = m
  OBVIOUS
<1>4. SnapshotsIn(b, cs, <<>>) = [i \in 1 .. m + 1 |-> ViewIn(b, cs, i - 1)]
  BY <1>1, <1>2, <1>3
<1>5. ASSUME NEW n \in 0 .. m
      PROVE  SnapshotsIn(b, cs, <<>>)[n + 1] = ViewIn(b, cs, n)
  <2>1. n + 1 \in 1 .. m + 1 /\ (n + 1) - 1 = n
    OBVIOUS
  <2> QED
    BY <1>4, <2>1
<1> QED
  BY <1>4, <1>5

\* A transaction that has written nothing shows what is below it.
LEMMA NewLayerView ==
    ASSUME NEW b, NEW cs, NEW m \in Nat, cs[m + 1] = NewLayer
    PROVE  ViewIn(b, cs, m + 1) = ViewIn(b, cs, m)
<1> SUFFICES ASSUME NEW k \in Keys PROVE GetIn(b, cs, m + 1, k) = GetIn(b, cs, m, k)
  BY DEF ViewIn
<1>1. cs[m + 1].local_state[k] = NoDelta
  BY DEF NewLayer
<1>2. m + 1 \in Nat \ {0} /\ (m + 1) - 1 = m
  OBVIOUS
<1>3. GetIn(b, cs, m + 1, k) = IF cs[m + 1].local_state[k] # NoDelta
          THEN Content(cs[m + 1].local_state[k]) ELSE GetIn(b, cs, (m + 1) - 1, k)
  BY <1>2, GetBelow
<1> QED
  BY <1>1, <1>2, <1>3

\* Opening a transaction appends a copy of the innermost snapshot.
LEMMA BeginSnapshots ==
    ASSUME NEW b \in [Keys -> Values \cup {None}], NEW cs \in Seq(Layer), NEW ds \in Seq(Layer),
           NEW m \in Nat, Len(cs) = m, Len(ds) = m + 1,
           \A i \in 1 .. m : ds[i] = cs[i], ds[m + 1] = NewLayer
    PROVE  LET S == SnapshotsIn(b, cs, <<>>)
           IN  Len(S) = m + 1 /\ SnapshotsIn(b, ds, <<>>) = Append(S, S[m + 1])
<1> DEFINE S == SnapshotsIn(b, cs, <<>>)
           T == SnapshotsIn(b, ds, <<>>)
           C == [Keys -> Values \cup {None}]
<1>1. S \in Seq(C) /\ Len(S) = m + 1
  BY EmptySeq, SnapshotsType
<1>2. T \in Seq(C) /\ Len(T) = (m + 1) + 1
  BY EmptySeq, SnapshotsType
<1>3. m + 1 \in Nat /\ (m + 1) + 1 = m + 2 /\ m + 1 \in 1 .. m + 1
  OBVIOUS
<1>4. /\ \A n \in 0 .. m : S[n + 1] = ViewIn(b, cs, n)
      /\ \A n \in 0 .. m + 1 : T[n + 1] = ViewIn(b, ds, n)
  BY <1>3, QuietSnapshots
<1>5. \A n \in 0 .. m : ViewIn(b, ds, n) = ViewIn(b, cs, n)
  BY ViewUnchanged
<1>6. ViewIn(b, ds, m + 1) = ViewIn(b, ds, m)
  BY NewLayerView
<1> HIDE DEF S, T, C
<1>7. \A i \in 1 .. m + 1 : T[i] = S[i]
  <2> TAKE i \in 1 .. m + 1
  <2>1. i - 1 \in 0 .. m /\ i - 1 \in 0 .. m + 1 /\ (i - 1) + 1 = i
    OBVIOUS
  <2> QED
    BY <1>4, <1>5, <2>1
<1>8. T[m + 2] = S[m + 1]
  <2>1. m \in 0 .. m /\ m + 1 \in 0 .. m + 1
    OBVIOUS
  <2>2. T[(m + 1) + 1] = ViewIn(b, ds, m + 1) /\ S[m + 1] = ViewIn(b, cs, m)
    BY <1>4, <2>1
  <2> QED
    BY <1>3, <1>5, <1>6, <2>1, <2>2
<1>9. S[m + 1] \in C
  BY <1>1, <1>3, ElementOfSeq
<1> DEFINE U == Append(S, S[m + 1])
<1>10. /\ U \in Seq(C) /\ Len(U) = (m + 1) + 1
       /\ \A i \in 1 .. m + 1 : U[i] = S[i]
       /\ U[(m + 1) + 1] = S[m + 1]
  BY <1>1, <1>9, AppendProperties
<1> HIDE DEF U
<1>11. \A i \in 1 .. m + 2 : T[i] = U[i]
  <2> TAKE i \in 1 .. m + 2
  <2>1. i \in 1 .. m + 1 \/ i = m + 2
    OBVIOUS
  <2> QED
    BY <1>3, <1>7, <1>8, <1>10, <2>1
<1>12. T = U
  BY <1>2, <1>3, <1>10, <1>11, SeqEqual
<1> QED
  BY <1>1, <1>12 DEF S, T, U

LEMMA BeginStep ==
    ASSUME IInv, IInv', Begin
    PROVE  Abstract!Begin
<1> DEFINE m == Len(caches)
<1>1. /\ m \in Nat /\ caches \in Seq(Layer) /\ caches' \in Seq(Layer)
      /\ base \in [Keys -> Values \cup {None}]
  BY LenProperties DEF IInv, TypeOK
<1>2. caches' = Append(caches, NewLayer) /\ base' = base /\ pending = <<>> /\ pending' = <<>>
  BY DEF Begin
<1>3. /\ Len(caches') = m + 1
      /\ \A i \in 1 .. m : caches'[i] = caches[i]
      /\ caches'[m + 1] = NewLayer
  BY <1>1, <1>2, NewLayerMatches, AppendProperties
<1> HIDE DEF m
<1>4. /\ Len(SnapshotsIn(base, caches, <<>>)) = m + 1
      /\ SnapshotsIn(base, caches', <<>>)
           = Append(SnapshotsIn(base, caches, <<>>), SnapshotsIn(base, caches, <<>>)[m + 1])
  BY <1>1, <1>3, BeginSnapshots DEF m
<1> QED
  BY <1>2, <1>4, SnapshotsAreSnapshotsIn DEF Abstract!Begin, Abstract!Depth

\* An operation changes the innermost snapshot only.
LEMMA WriteStep ==
    ASSUME IInv, NEW op \in Ops, Write(op)
    PROVE  Abstract!Put(op.key, Content(op.delta))
<1> DEFINE m == Len(caches)
           S == SnapshotsIn(base, caches, <<>>)
           T == SnapshotsIn(base', caches', <<>>)
<1>1. /\ m \in Nat /\ caches \in Seq(Layer) /\ base \in [Keys -> Values \cup {None}]
  BY LenProperties DEF IInv, TypeOK
<1>2. Apply(op, caches) /\ pending = <<>> /\ pending' = <<>>
  BY DEF Write
<1>3. /\ Len(caches') = m
      /\ ViewIn(base', caches', m) = [ViewIn(base, caches, m) EXCEPT ![op.key] = Content(op.delta)]
      /\ \A n \in 0 .. m - 1 : ViewIn(base', caches', n) = ViewIn(base, caches, n)
  BY <1>2, ApplyView
<1>4. Len(S) = m + 1
  BY <1>1, SnapshotsType, EmptySeq
<1> HIDE DEF m
<1>5. /\ S = [i \in 1 .. m + 1 |-> ViewIn(base, caches, i - 1)]
      /\ T = [i \in 1 .. m + 1 |-> ViewIn(base', caches', i - 1)]
  BY <1>1, <1>3, QuietSnapshots DEF m
<1> HIDE DEF S, T
<1>6. m + 1 \in 1 .. m + 1 /\ (m + 1) - 1 = m
  BY <1>1
<1>7. \A i \in 1 .. m + 1 : i # m + 1 => i - 1 \in 0 .. m - 1
  BY <1>1
<1>8. T[m + 1] = [S[m + 1] EXCEPT ![op.key] = Content(op.delta)]
  BY <1>3, <1>5, <1>6
<1>9. \A i \in 1 .. m + 1 : i # m + 1 => T[i] = S[i]
  BY <1>3, <1>5, <1>7
<1>10. T = [S EXCEPT ![m + 1] = [S[m + 1] EXCEPT ![op.key] = Content(op.delta)]]
  BY <1>5, <1>8, <1>9
<1>11. Snapshots = S /\ Snapshots' = T
  BY <1>2, SnapshotsAreSnapshotsIn DEF S, T
<1> QED
  BY <1>4, <1>10, <1>11 DEF Abstract!Put, Abstract!Depth

\* Closing the innermost transaction, with or without replaying its log.
LEMMA CloseSnapshots ==
    ASSUME NEW b \in [Keys -> Values \cup {None}], NEW cs \in Seq(Layer), cs # <<>>,
           NEW log \in Seq(Ops)
    PROVE  LET S == SnapshotsIn(b, cs, <<>>)
               n == Len(cs)
               T == SnapshotsIn(b, SubSeq(cs, 1, n - 1), log)
           IN  /\ n \in Nat \ {0} /\ Len(S) = n + 1
               /\ S[n + 1] = ViewIn(b, cs, n)
               /\ S[n] = ViewIn(b, cs, n - 1)
               /\ T = [i \in 1 .. n |-> IF i = n THEN ReplayedIn(log, S[n]) ELSE S[i]]
<1> DEFINE S  == SnapshotsIn(b, cs, <<>>)
           ds == SubSeq(cs, 1, Len(cs) - 1)
           n  == Len(cs)
<1>1. n \in Nat \ {0} /\ Len(ds) = n - 1 /\ \A i \in 1 .. n - 1 : ds[i] = cs[i]
  BY PopProperties
<1>2. Len(S) = n + 1
  BY SnapshotsType, EmptySeq
<1> HIDE DEF ds, n
<1>3. \A i \in 0 .. n : S[i + 1] = ViewIn(b, cs, i)
  BY <1>1, QuietSnapshots DEF n
<1>4. ASSUME NEW i \in 0 .. n - 1
      PROVE  ViewIn(b, ds, i) = ViewIn(b, cs, i)
  <2>1. i \in Nat /\ \A j \in 1 .. i : ds[j] = cs[j]
    BY <1>1
  <2> QED
    BY <2>1, ViewUnchanged
<1> HIDE DEF S
<1>5. S[n + 1] = ViewIn(b, cs, n) /\ S[n] = ViewIn(b, cs, n - 1)
  <2>1. n \in 0 .. n /\ n - 1 \in 0 .. n /\ (n - 1) + 1 = n
    BY <1>1
  <2> QED
    BY <1>3, <2>1
<1>6. SnapshotsIn(b, ds, log)
        = [i \in 1 .. n |-> IF i = n THEN ReplayedIn(log, ViewIn(b, ds, n - 1))
                            ELSE ViewIn(b, ds, i - 1)]
  <2>1. (n - 1) + 1 = n
    BY <1>1
  <2> QED
    BY <1>1, <2>1 DEF SnapshotsIn
<1>7. n - 1 \in 0 .. n - 1
  BY <1>1
<1>8. \A i \in 1 .. n : ViewIn(b, ds, i - 1) = S[i]
  <2> TAKE i \in 1 .. n
  <2>1. i - 1 \in 0 .. n - 1 /\ i - 1 \in 0 .. n /\ (i - 1) + 1 = i
    BY <1>1
  <2> QED
    BY <1>3, <1>4, <2>1
<1>9. SnapshotsIn(b, ds, log) = [i \in 1 .. n |-> IF i = n THEN ReplayedIn(log, S[n]) ELSE S[i]]
  BY <1>4, <1>5, <1>6, <1>7, <1>8
<1> QED
  BY <1>1, <1>2, <1>5, <1>9 DEF S, ds, n

\* prepare() fixes what the commit will leave: everything the transaction showed.
LEMMA PrepareStep ==
    ASSUME IInv, Prepare
    PROVE  Abstract!Commit
<1> DEFINE n   == Len(caches)
           log == caches[n].rep_log
           S   == SnapshotsIn(base, caches, <<>>)
           T   == SnapshotsIn(base, SubSeq(caches, 1, n - 1), log)
<1>1. /\ caches # <<>> /\ pending = <<>> /\ pending' = log /\ base' = base
      /\ caches' = SubSeq(caches, 1, n - 1)
  BY DEF Prepare, Depth
<1>2. /\ caches \in Seq(Layer) /\ base \in [Keys -> Values \cup {None}]
      /\ n \in 1 .. Len(caches)
  BY <1>1, EmptySeq, LenProperties DEF IInv, TypeOK
<1>3. log \in Seq(Ops)
  <2>1. caches[n] \in Layer
    BY <1>2, ElementOfSeq
  <2> QED
    BY <2>1 DEF Layer
<1>4. ViewIn(base, caches, n) = ReplayedIn(log, ViewIn(base, caches, n - 1))
  BY <1>1, ReplayGivesView
<1> HIDE DEF log
<1>5. /\ n \in Nat \ {0} /\ Len(S) = n + 1
      /\ S[n + 1] = ViewIn(base, caches, n)
      /\ S[n] = ViewIn(base, caches, n - 1)
      /\ T = [i \in 1 .. n |-> IF i = n THEN ReplayedIn(log, S[n]) ELSE S[i]]
  BY <1>1, <1>2, <1>3, CloseSnapshots
<1>6. Snapshots = S /\ Snapshots' = T
  BY <1>1, SnapshotsAreSnapshotsIn
<1> HIDE DEF S, T, n
<1>7. T = [i \in 1 .. n |-> IF i = n THEN S[n + 1] ELSE S[i]]
  BY <1>4, <1>5
<1>8. (n + 1) - 1 = n /\ n + 1 > 1
  BY <1>5
<1> QED
  BY <1>5, <1>6, <1>7, <1>8 DEF Abstract!Commit, Abstract!Depth

\* Dropping a transaction leaves the snapshots below it.
LEMMA RollbackStep ==
    ASSUME IInv, Rollback
    PROVE  Abstract!Rollback
<1> DEFINE n == Len(caches)
           S == SnapshotsIn(base, caches, <<>>)
           T == SnapshotsIn(base, SubSeq(caches, 1, n - 1), <<>>)
<1>1. /\ caches # <<>> /\ pending = <<>> /\ pending' = <<>> /\ base' = base
      /\ caches' = SubSeq(caches, 1, n - 1)
  BY DEF Rollback, Depth
<1>2. /\ caches \in Seq(Layer) /\ base \in [Keys -> Values \cup {None}] /\ <<>> \in Seq(Ops)
  BY EmptySeq DEF IInv, TypeOK
<1>3. /\ n \in Nat \ {0} /\ Len(S) = n + 1
      /\ S[n] = ViewIn(base, caches, n - 1)
      /\ T = [i \in 1 .. n |-> IF i = n THEN ReplayedIn(<<>>, S[n]) ELSE S[i]]
  BY <1>1, <1>2, CloseSnapshots
<1>4. ReplayedIn(<<>>, S[n]) = S[n]
  BY <1>3, ReplayedNothing
<1>5. Snapshots = S /\ Snapshots' = T
  BY <1>1, SnapshotsAreSnapshotsIn
<1> HIDE DEF S, T, n
<1>6. T = [i \in 1 .. n |-> S[i]]
  BY <1>3, <1>4
<1>7. (n + 1) - 1 = n /\ n + 1 > 1
  BY <1>3
<1> QED
  BY <1>3, <1>5, <1>6, <1>7 DEF Abstract!Rollback, Abstract!Depth

\* The rounds of RepLog::commit are invisible to the abstract store.
LEMMA CommitStepStutters ==
    ASSUME IInv, CommitStep
    PROVE  Snapshots' = Snapshots
<1> DEFINE m  == Len(caches)
           op == Head(pending)
<1>1. /\ m \in Nat /\ m \in 0 .. Len(caches) /\ caches \in Seq(Layer)
      /\ base \in [Keys -> Values \cup {None}]
      /\ pending \in Seq(Ops) /\ pending # <<>> /\ pending' = Tail(pending)
      /\ op \in Ops /\ Apply(op, caches)
  BY LenProperties, HeadTailProperties DEF IInv, TypeOK, CommitStep
<1> HIDE DEF op
<1>2. /\ Len(caches') = m
      /\ ViewIn(base', caches', m) = [ViewIn(base, caches, m) EXCEPT ![op.key] = Content(op.delta)]
      /\ \A n \in 0 .. m - 1 : ViewIn(base', caches', n) = ViewIn(base, caches, n)
  BY <1>1, ApplyView
<1>3. ViewIn(base, caches, m) \in [Keys -> Values \cup {None}]
  BY <1>1, GetType DEF ViewIn
<1> HIDE DEF m
<1>4. ReplayedIn(pending', ViewIn(base', caches', m)) = ReplayedIn(pending, ViewIn(base, caches, m))
  <2>1. PICK view \in [Keys -> Values \cup {None}] : view = ViewIn(base, caches, m)
    BY <1>3
  <2>2. ReplayedIn(Tail(pending), [view EXCEPT ![Head(pending).key] = Content(Head(pending).delta)])
          = ReplayedIn(pending, view)
    BY <1>1, ReplayStep
  <2>3. ViewIn(base', caches', m) = [view EXCEPT ![Head(pending).key] = Content(Head(pending).delta)]
    BY <1>2, <2>1 DEF op
  <2> QED BY <1>1, <2>1, <2>2, <2>3
<1>5. \A i \in 1 .. m + 1 : i # m + 1 => i - 1 \in 0 .. m - 1
  BY <1>1
<1>6. /\ SnapshotsIn(base, caches, pending) = [i \in 1 .. m + 1 |->
             IF i = m + 1 THEN ReplayedIn(pending, ViewIn(base, caches, m))
             ELSE ViewIn(base, caches, i - 1)]
      /\ SnapshotsIn(base', caches', pending') = [i \in 1 .. m + 1 |->
             IF i = m + 1 THEN ReplayedIn(pending', ViewIn(base', caches', m))
             ELSE ViewIn(base', caches', i - 1)]
  BY <1>2 DEF SnapshotsIn, m
<1>7. SnapshotsIn(base', caches', pending') = SnapshotsIn(base, caches, pending)
  BY <1>2, <1>4, <1>5, <1>6
<1> QED
  BY <1>7, SnapshotsAreSnapshotsIn

LEMMA InitStep == Init => Abstract!Init
<1> SUFFICES ASSUME Init PROVE Abstract!Init
  OBVIOUS
<1>1. base \in [Keys -> Values \cup {None}] /\ caches = <<>> /\ pending = <<>>
  BY DEF Init
<1>2. Len(caches) = 0 /\ 0 \in Nat
  BY <1>1
<1> DEFINE S == SnapshotsIn(base, caches, <<>>)
<1>3. \A m \in Nat : Len(caches) = m => \A n \in 0 .. m : S[n + 1] = ViewIn(base, caches, n)
  BY QuietSnapshots, Zenon
<1>4. ViewIn(base, caches, 0) = base
  BY <1>1, GetNothingBelow DEF ViewIn
<1>5. S = <<base>>
  <2>1. S \in Seq([Keys -> Values \cup {None}]) /\ Len(S) = Len(caches) + 1
    <3>1. caches \in Seq(Layer) /\ <<>> \in Seq(Ops)
      BY <1>1, EmptySeq
    <3> QED
      BY <1>1, <3>1, SnapshotsType, Zenon
  <2> HIDE DEF S
  <2>2. S[1] = base
    BY <1>2, <1>3, <1>4
  <2>3. <<base>> \in Seq([Keys -> Values \cup {None}]) /\ Len(<<base>>) = 1 /\ <<base>>[1] = base
    BY <1>1
  <2>4. Len(S) = Len(<<base>>) /\ \A i \in 1 .. Len(S) : S[i] = <<base>>[i]
    BY <1>2, <2>1, <2>2, <2>3
  <2> QED
    BY <2>1, <2>3, <2>4, SeqEqual, Zenon
<1>6. Snapshots = <<base>>
  BY <1>1, <1>5, SnapshotsAreSnapshotsIn
<1> QED
  BY <1>1, <1>6 DEF Abstract!Init, Abstract!Content

\* Nested transactions, with set, remove and the replay of logs on commit,
\* behave as a stack of snapshots: a commit flushes exactly what the transaction
\* showed, a rollback forgets it, and the levels below are never disturbed.
THEOREM Refinement == Spec => ImplementsSnapshots
<1>1. Spec => []IInv
  BY InitIInv, NextIInv, PTL DEF Spec
<1>2. ASSUME IInv, IInv', [Next]_vars
      PROVE  [Abstract!Next]_Snapshots
  <2>1. CASE Begin
    BY <1>2, <2>1, BeginStep DEF Abstract!Next
  <2>2. ASSUME NEW op \in Ops, Write(op) PROVE Abstract!Next
    <3>1. op.key \in Keys /\ Content(op.delta) \in Values \cup {None}
      BY ContentType DEF Ops
    <3> QED
      BY <1>2, <2>2, <3>1, WriteStep DEF Abstract!Next
  <2>3. CASE Prepare
    BY <1>2, <2>3, PrepareStep DEF Abstract!Next
  <2>4. CASE CommitStep
    BY <1>2, <2>4, CommitStepStutters
  <2>5. CASE Rollback
    BY <1>2, <2>5, RollbackStep DEF Abstract!Next
  <2>6. CASE UNCHANGED vars
    BY <2>6, SnapshotsAreSnapshotsIn DEF vars
  <2> QED
    BY <1>2, <2>1, <2>2, <2>3, <2>4, <2>5, <2>6 DEF Next
<1>3. IInv /\ IInv' /\ [Next]_vars => [Abstract!Next]_Snapshots
  BY <1>2
<1> QED
  BY <1>1, <1>3, InitStep, PTL DEF Spec, ImplementsSnapshots, Abstract!Spec

-----------------------------------------------------------------------------
(* The raw keys of namespaces *)

\* The names a length can be written for: ToLengthPrefixed panics with others.
Names == {name \in Seq(Byte) : Len(name) < Base * Base}

LEMMA LengthIsEncoded ==
    ASSUME NEW m \in Nat, NEW n \in Nat, m \div Base = n \div Base, m % Base = n % Base
    PROVE  m = n
<1>1. Base \in Nat /\ Base > 0
  BY BaseAssumption
<1>2. m = Base * (m \div Base) + (m % Base) /\ n = Base * (n \div Base) + (n % Base)
  BY <1>1, Z3
<1> QED
  BY <1>2

LEMMA LengthIsBytes ==
    ASSUME NEW n \in Nat
    PROVE  n \div Base \in Nat /\ n % Base \in Nat
<1> DEFINE q == n \div Base
           r == n % Base
<1>1. Base \in Nat /\ Base > 0
  BY BaseAssumption
<1>2. q \in Int /\ r \in 0 .. Base - 1
  BY <1>1
<1>3. n = Base * q + r
  BY <1>1, Z3
<1> HIDE DEF q, r
<1>4. ASSUME q < 0 PROVE FALSE
  <2>1. q + 1 <= 0
    BY <1>2, <1>4
  <2>2. Base * (q + 1) <= 0
    BY <1>1, <1>2, <2>1, Z3
  <2>3. Base * (q + 1) = Base * q + Base
    BY <1>1, <1>2, Z3
  <2>4. Base * q \in Int
    BY <1>1, <1>2, Z3
  <2> DEFINE product == Base * q
             next == Base * (q + 1)
  <2>5. product + Base <= 0 /\ product \in Int /\ n = product + r
    BY <1>3, <2>2, <2>3, <2>4
  <2> HIDE DEF product, next
  <2> QED
    BY <1>1, <1>2, <2>5
<1> QED
  BY <1>2, <1>4 DEF q, r

\* u is t after s.
IsConcat(s, t, u) ==
    /\ u \in Seq(Nat)
    /\ Len(u) = Len(s) + Len(t)
    /\ \A i \in 1 .. Len(s) + Len(t) : u[i] = IF i <= Len(s) THEN s[i] ELSE t[i - Len(s)]

LEMMA Concatenated ==
    ASSUME NEW s \in Seq(Nat), NEW t \in Seq(Nat)
    PROVE  IsConcat(s, t, s \o t)
<1>1. /\ s \o t \in Seq(Nat)
      /\ Len(s \o t) = Len(s) + Len(t)
      /\ \A i \in 1 .. Len(s) + Len(t) :
            (s \o t)[i] = IF i <= Len(s) THEN s[i] ELSE t[i - Len(s)]
  BY ConcatProperties
<1> DEFINE u == s \o t
<1>2. IsConcat(s, t, u)
  <2>1. /\ u \in Seq(Nat)
        /\ Len(u) = Len(s) + Len(t)
        /\ \A i \in 1 .. Len(s) + Len(t) : u[i] = IF i <= Len(s) THEN s[i] ELSE t[i - Len(s)]
    BY <1>1
  <2> HIDE DEF u
  <2> QED
    BY <2>1 DEF IsConcat
<1> QED
  BY <1>2

\* bytes is the raw key of a key in the namespace of a name.
IsRawKey(name, key, bytes) ==
    /\ Len(bytes) = 2 + Len(name) + Len(key)
    /\ bytes[1] = Len(name) \div Base
    /\ bytes[2] = Len(name) % Base
    /\ \A i \in 1 .. Len(name) : bytes[i + 2] = name[i]
    /\ \A i \in 1 .. Len(key) : bytes[i + 2 + Len(name)] = key[i]

LEMMA RawKey ==
    ASSUME NEW name \in Names, NEW key \in Seq(Byte)
    PROVE  IsRawKey(name, key, ToLengthPrefixed(name) \o key)
<1> DEFINE length == EncodeLength(name)
<1>1. Byte \subseteq Nat
  BY BaseAssumption DEF Byte
<1>2. name \in Seq(Nat) /\ key \in Seq(Nat) /\ Len(name) \in Nat /\ Len(key) \in Nat
  BY <1>1, SeqMonotonic, LenProperties DEF Names
<1>3. Len(name) \div Base \in Nat /\ Len(name) % Base \in Nat
  BY <1>2, LengthIsBytes
<1>4. /\ length \in Seq(Nat) /\ Len(length) = 2
      /\ length[1] = Len(name) \div Base /\ length[2] = Len(name) % Base
  BY <1>3 DEF EncodeLength
<1> DEFINE prefix == ToLengthPrefixed(name)
           bytes == prefix \o key
<1>5. prefix = length \o name
  BY DEF ToLengthPrefixed
<1> HIDE DEF length, prefix
<1>6. IsConcat(length, name, prefix)
  BY <1>2, <1>4, <1>5, Concatenated
<1>7. prefix \in Seq(Nat) /\ Len(prefix) = 2 + Len(name)
  BY <1>4, <1>6 DEF IsConcat
<1>8. IsConcat(prefix, key, bytes)
  BY <1>2, <1>7, Concatenated
<1> HIDE DEF bytes
<1>9. \A i \in 1 .. 2 + Len(name) : prefix[i] = IF i <= 2 THEN length[i] ELSE name[i - 2]
  BY <1>4, <1>6 DEF IsConcat
<1>10. /\ Len(bytes) = 2 + Len(name) + Len(key)
       /\ \A i \in 1 .. 2 + Len(name) + Len(key) :
             bytes[i] = IF i <= 2 + Len(name) THEN prefix[i] ELSE key[i - (2 + Len(name))]
  BY <1>7, <1>8 DEF IsConcat
<1>11. bytes[1] = length[1] /\ bytes[2] = length[2]
  <2> SUFFICES ASSUME NEW i \in {1, 2}
               PROVE  bytes[i] = length[i]
    OBVIOUS
  <2>1. i \in 1 .. 2 + Len(name) /\ i \in 1 .. 2 + Len(name) + Len(key) /\ i <= 2
    BY <1>2
  <2>2. i <= 2 + Len(name)
    BY <1>2
  <2> QED
    BY <1>9, <1>10, <2>1, <2>2
<1>12. \A i \in 1 .. Len(name) : bytes[i + 2] = name[i]
  <2> TAKE i \in 1 .. Len(name)
  <2> DEFINE j == i + 2
  <2>1. j \in 1 .. 2 + Len(name) /\ j \in 1 .. 2 + Len(name) + Len(key) /\ j > 2 /\ j - 2 = i
    BY <1>2
  <2> HIDE DEF j
  <2>2. prefix[j] = name[i]
    BY <1>9, <2>1
  <2>3. bytes[j] = prefix[j]
    BY <1>2, <1>10, <2>1
  <2> QED
    BY <2>2, <2>3 DEF j
<1>13. \A i \in 1 .. Len(key) : bytes[i + 2 + Len(name)] = key[i]
  <2> TAKE i \in 1 .. Len(key)
  <2> DEFINE j == i + 2 + Len(name)
  <2>1. j \in 1 .. 2 + Len(name) + Len(key) /\ ~(j <= 2 + Len(name)) /\ j - (2 + Len(name)) = i
    BY <1>2
  <2> HIDE DEF j
  <2>2. bytes[j] = key[i]
    BY <1>2, <1>10, <2>1
  <2> QED
    BY <2>2 DEF j
<1>14. IsRawKey(name, key, bytes)
  BY <1>4, <1>10, <1>11, <1>12, <1>13 DEF IsRawKey
<1> QED
  BY <1>14 DEF bytes, prefix

LEMMA RawKeyIsUnique ==
    ASSUME NEW a \in Names, NEW b \in Names, NEW k \in Seq(Byte), NEW l \in Seq(Byte), NEW bytes,
           IsRawKey(a, k, bytes), IsRawKey(b, l, bytes)
    PROVE  a = b /\ k = l
<1>1. /\ Len(a) \in Nat /\ Len(b) \in Nat /\ Len(k) \in Nat /\ Len(l) \in Nat
      /\ a \in Seq(Byte) /\ b \in Seq(Byte)
  BY LenProperties DEF Names
<1>2. Len(a) = Len(b)
  BY <1>1, LengthIsEncoded DEF IsRawKey
<1>3. Len(k) = Len(l)
  BY <1>1, <1>2 DEF IsRawKey
<1>4. a = b
  BY <1>1, <1>2, SeqEqual DEF IsRawKey
<1>5. k = l
  BY <1>2, <1>3, SeqEqual DEF IsRawKey
<1> QED
  BY <1>4, <1>5

\* to_length_prefixed: names and keys are free to hold any bytes, also those of the
\* lengths and names of others, and yet no key of one namespace is a key of another.
THEOREM NamespacesDoNotOverlap ==
    ASSUME NEW a \in Names, NEW b \in Names, NEW k \in Seq(Byte), NEW l \in Seq(Byte),
           ToLengthPrefixed(a) \o k = ToLengthPrefixed(b) \o l
    PROVE  a = b /\ k = l
<1> DEFINE bytes == ToLengthPrefixed(a) \o k
<1>1. bytes = ToLengthPrefixed(b) \o l
  OBVIOUS
<1>2. IsRawKey(a, k, bytes)
  BY RawKey
<1> HIDE DEF bytes
<1>3. IsRawKey(b, l, bytes)
  BY <1>1, RawKey
<1> QED
  BY <1>2, <1>3, RawKeyIsUnique

-----------------------------------------------------------------------------
(* Ranges: the order of keys *)

LEMMA BeforeIsOrder ==
    ASSUME NEW order \in Orders, NEW a \in Keys, NEW b \in Keys
    PROVE  /\ ~Before(order, a, a)
           /\ Before(order, a, b) => ~Before(order, b, a)
           /\ ~Before(order, a, b) /\ a # b => Before(order, b, a)
<1>1. a \in Nat /\ b \in Nat
  BY KeysAreOrdered
<1> QED BY <1>1 DEF Before

LEMMA BeforeIsTransitive ==
    ASSUME NEW order \in Orders, NEW a \in Keys, NEW b \in Keys, NEW c \in Keys,
           Before(order, a, b), Before(order, b, c)
    PROVE  Before(order, a, c)
<1>1. a \in Nat /\ b \in Nat /\ c \in Nat
  BY KeysAreOrdered
<1> QED BY <1>1 DEF Before

\* s, of length n, has the keys in S, each once, in order.
SortedAs(s, n, S, order) ==
    /\ s \in [1 .. n -> S]
    /\ \A k \in S : \E i \in 1 .. n : s[i] = k
    /\ \A i, j \in 1 .. n : i < j => Before(order, s[i], s[j])

StrictlyOrders(R, S) ==
    /\ \A a, b \in S : a # b => <<a, b>> \in R \/ <<b, a>> \in R
    /\ \A a, b, c \in S : <<a, b>> \in R /\ <<b, c>> \in R => <<a, c>> \in R

\* s, of length n, has the elements of S in the order R.
Enumerates(s, n, S, R) ==
    /\ s \in [1 .. n -> S]
    /\ \A k \in S : \E i \in 1 .. n : s[i] = k
    /\ \A i, j \in 1 .. n : i < j => <<s[i], s[j]>> \in R

\* Of finitely many elements one is the last.
LEMMA LastExists ==
    ASSUME NEW R, NEW S, IsFiniteSet(S), StrictlyOrders(R, S), S # {}
    PROVE  \E k \in S : \A j \in S : j # k => <<j, k>> \in R
<1> DEFINE HasLast(T) == \E k \in T : \A j \in T : j # k => <<j, k>> \in R
           P == {T \in SUBSET S : T # {} => HasLast(T)}
<1>2. {} \in P
  OBVIOUS
<1>3. ASSUME NEW T \in SUBSET S, NEW x \in T, T \ {x} \in P
      PROVE  T \in P
  <2>1. CASE T \ {x} = {}
    <3>1. \A j \in T : j = x
      BY <2>1
    <3> QED BY <3>1
  <2>2. CASE T \ {x} # {}
    <3>1. PICK y \in T \ {x} : \A j \in T \ {x} : j # y => <<j, y>> \in R
      BY <1>3, <2>2
    <3>2. CASE <<x, y>> \in R
      <4>1. \A j \in T : j # y => <<j, y>> \in R
        BY <3>1, <3>2
      <4> QED BY <3>1, <4>1
    <3>3. CASE <<x, y>> \notin R
      <4>1. <<y, x>> \in R
        BY <3>1, <3>3 DEF StrictlyOrders
      <4>2. \A j \in T : j # x => <<j, x>> \in R
        BY <3>1, <4>1 DEF StrictlyOrders
      <4> QED BY <4>2
    <3> QED BY <3>2, <3>3
  <2> QED BY <2>1, <2>2
<1>4. S \in P
  <2> HIDE DEF P
  <2> QED BY <1>2, <1>3, ElementInduction
<1> QED BY <1>4

\* Finitely many elements can be sorted...
LEMMA EnumerationExists ==
    ASSUME NEW R, NEW S, IsFiniteSet(S), StrictlyOrders(R, S)
    PROVE  \E s : Enumerates(s, Cardinality(S), S, R)
<1> DEFINE P == {T \in SUBSET S : \E s : Enumerates(s, Cardinality(T), T, R)}
<1>2. ASSUME NEW T \in SUBSET S, \A U \in SUBSET T : U # T => U \in P
      PROVE  T \in P
  <2>1. IsFiniteSet(T) /\ StrictlyOrders(R, T)
    BY FS_Subset DEF StrictlyOrders
  <2>2. CASE T = {}
    <3>1. Cardinality(T) = 0
      BY <2>2, FS_EmptySet
    <3>2. 1 .. 0 = {}
      OBVIOUS
    <3>3. Enumerates([i \in {} |-> 0], 0, T, R)
      BY <2>2, <3>2 DEF Enumerates
    <3> QED BY <3>1, <3>3
  <2>3. CASE T # {}
    <3>1. PICK k \in T : \A j \in T : j # k => <<j, k>> \in R
      BY <2>1, <2>3, LastExists
    <3> DEFINE U == T \ {k}
    <3>2. U \in SUBSET T /\ U # T /\ IsFiniteSet(U)
      BY <2>1, FS_Subset
    <3>3. PICK n \in Nat : n = Cardinality(U) /\ Cardinality(T) = n + 1
      <4>1. Cardinality(U) = Cardinality(T) - 1
        BY <2>1, FS_RemoveElement
      <4>2. Cardinality(U) \in Nat /\ Cardinality(T) \in Nat
        BY <2>1, <3>2, FS_CardinalityType
      <4> HIDE DEF U
      <4> QED BY <4>1, <4>2
    <3>4. PICK s : Enumerates(s, n, U, R)
      BY <1>2, <3>2, <3>3
    <3> DEFINE t == [i \in 1 .. n + 1 |-> IF i = n + 1 THEN k ELSE s[i]]
    <3>5. \A i \in 1 .. n : s[i] \in U /\ t[i] = s[i] /\ i \in 1 .. n + 1
      BY <3>4 DEF Enumerates
    <3>6. t[n + 1] = k /\ n + 1 \in 1 .. n + 1
      OBVIOUS
    <3>7. \A i \in 1 .. n + 1 : i = n + 1 \/ i \in 1 .. n
      OBVIOUS
    <3>8. t \in [1 .. n + 1 -> T]
      <4>1. \A i \in 1 .. n + 1 : t[i] \in T
        BY <3>5, <3>6, <3>7
      <4> QED BY <4>1
    <3>9. ASSUME NEW j \in T PROVE \E i \in 1 .. n + 1 : t[i] = j
      <4>1. CASE j = k
        BY <3>6, <4>1
      <4>2. CASE j # k
        <5>1. PICK i \in 1 .. n : s[i] = j
          BY <3>4, <4>2 DEF Enumerates
        <5> QED BY <3>5, <5>1
      <4> QED BY <4>1, <4>2
    <3>10. ASSUME NEW i \in 1 .. n + 1, NEW j \in 1 .. n + 1, i < j
           PROVE  <<t[i], t[j]>> \in R
      <4>1. i \in 1 .. n
        BY <3>10
      <4>2. CASE j = n + 1
        BY <3>1, <3>5, <3>6, <4>1, <4>2
      <4>3. CASE j # n + 1
        BY <3>4, <3>5, <3>7, <3>10, <4>1, <4>3 DEF Enumerates
      <4> QED BY <4>2, <4>3
    <3>11. Enumerates(t, n + 1, T, R)
      <4> HIDE DEF t
      <4> QED BY <3>8, <3>9, <3>10 DEF Enumerates
    <3> QED BY <3>3, <3>11
  <2> QED BY <2>2, <2>3
<1>3. \A T \in SUBSET S : T \in P
  <2> HIDE DEF P
  <2> QED BY <1>2, SubsetInduction
<1> QED BY <1>3

\* ...among them the keys of a storage.
LEMMA SortedExists ==
    ASSUME NEW order \in Orders, NEW S \in SUBSET Keys
    PROVE  \E s : SortedAs(s, Cardinality(S), S, order)
<1> DEFINE R == {x \in S \X S : Before(order, x[1], x[2])}
<1>1. IsFiniteSet(S)
  BY KeysAreOrdered, FS_Subset
<1>2. \A a, b \in S : <<a, b>> \in R <=> Before(order, a, b)
  OBVIOUS
<1> HIDE DEF R
<1>3. StrictlyOrders(R, S)
  BY <1>2, BeforeIsOrder, BeforeIsTransitive DEF StrictlyOrders
<1>4. PICK s : Enumerates(s, Cardinality(S), S, R)
  BY <1>1, <1>3, EnumerationExists
<1>5. SortedAs(s, Cardinality(S), S, order)
  BY <1>2, <1>4 DEF SortedAs, Enumerates
<1> QED BY <1>5

LEMMA SortedIsSorted ==
    ASSUME NEW order \in Orders, NEW S \in SUBSET Keys
    PROVE  SortedAs(Sorted(S, order), Cardinality(S), S, order)
<1>1. PICK s : SortedAs(s, Cardinality(S), S, order)
  BY SortedExists
<1> QED BY <1>1 DEF SortedAs, Sorted

\* What an iterator yields: the keys in S in order, each with what content has for it.
Items == Keys \X Deltas
InOrder(s, order) ==
    \A i, j \in 1 .. Len(s) : i < j => Before(order, s[i][1], s[j][1])
Lists(s, content, S, order) ==
    /\ s \in Seq(Items)
    /\ \A i \in 1 .. Len(s) : s[i][1] \in S /\ s[i][2] = content[s[i][1]]
    /\ \A k \in S : \E i \in 1 .. Len(s) : s[i][1] = k
    /\ InOrder(s, order)

LEMMA ListedLists ==
    ASSUME NEW order \in Orders, NEW S \in SUBSET Keys, NEW content,
           \A k \in S : content[k] \in Deltas
    PROVE  Lists(Listed(content, S, order), content, S, order)
<1>1. PICK n \in Nat : n = Cardinality(S)
  BY KeysAreOrdered, FS_Subset, FS_CardinalityType
<1>2. PICK keys : keys = Sorted(S, order)
  OBVIOUS
<1>3. SortedAs(keys, n, S, order)
  BY <1>1, <1>2, SortedIsSorted
<1> DEFINE s == [i \in 1 .. n |-> <<keys[i], content[keys[i]]>>]
<1>4. Listed(content, S, order) = s
  BY <1>1, <1>2 DEF Listed
<1>5. ASSUME NEW i \in 1 .. n
      PROVE  keys[i] \in S /\ s[i] = <<keys[i], content[keys[i]]>> /\ s[i] \in Items
  BY <1>3 DEF SortedAs, Items
<1>6. s \in Seq(Items) /\ Len(s) = n
  <2>1. s \in [1 .. n -> Items]
    BY <1>5
  <2> HIDE DEF s
  <2> QED BY <2>1
<1> HIDE DEF s
<1>7. \A i \in 1 .. n : s[i][1] = keys[i] /\ s[i][2] = content[keys[i]]
  BY <1>5
<1>8. \A k \in S : \E i \in 1 .. n : s[i][1] = k
  BY <1>3, <1>7 DEF SortedAs
<1>9. InOrder(s, order)
  <2>1. \A i, j \in 1 .. n : i < j => Before(order, keys[i], keys[j])
    BY <1>3 DEF SortedAs
  <2> QED BY <1>6, <1>7, <2>1 DEF InOrder
<1> QED BY <1>4, <1>5, <1>6, <1>7, <1>8, <1>9 DEF Lists

LEMMA LeastNumber ==
    ASSUME NEW S \in SUBSET Nat, S # {}
    PROVE  \E m \in S : \A i \in S : m <= i
<1> DEFINE Lower == {p \in Nat \X Nat : p[1] < p[2]}
<1>1. PICK m \in S : \A i \in S : <<i, m>> \notin Lower
  <2>1. Lower = OpToRel(<, Nat)
    BY Zenon DEF OpToRel
  <2>2. IsWellFoundedOn(Lower, Nat)
    BY <2>1, NatLessThanWellFounded, Zenon
  <2> HIDE DEF Lower
  <2> QED
    BY <2>2, WFMin
<1>2. ASSUME NEW i \in S PROVE m <= i
  <2>1. m \in Nat /\ i \in Nat /\ <<i, m>> \notin Lower
    BY <1>1
  <2>2. ~(i < m)
    BY <2>1
  <2> HIDE DEF Lower
  <2> QED BY <2>1, <2>2
<1> QED BY <1>2

LEMMA ListsBegin ==
    ASSUME NEW order \in Orders, NEW S \in SUBSET Keys, NEW content,
           NEW s, Lists(s, content, S, order), NEW t, Lists(t, content, S, order),
           NEW n \in Nat, n = Len(s), NEW m \in Nat, m = Len(t)
    PROVE  n <= m /\ \A i \in 1 .. n : t[i] = s[i]
<1> DEFINE Bad == {i \in 1 .. n : ~(i <= m /\ t[i] = s[i])}
<1>1. /\ \A i \in 1 .. n : s[i] \in Items /\ s[i][1] \in S /\ s[i][2] = content[s[i][1]]
      /\ \A i \in 1 .. m : t[i] \in Items /\ t[i][1] \in S /\ t[i][2] = content[t[i][1]]
      /\ \A k \in S : \E i \in 1 .. n : s[i][1] = k
      /\ \A k \in S : \E i \in 1 .. m : t[i][1] = k
      /\ \A i, j \in 1 .. n : i < j => Before(order, s[i][1], s[j][1])
      /\ \A i, j \in 1 .. m : i < j => Before(order, t[i][1], t[j][1])
  BY DEF Lists, InOrder
<1>2. ASSUME Bad # {} PROVE FALSE
  <2>1. PICK i \in Bad : \A j \in Bad : i <= j
    <3>1. Bad \in SUBSET Nat
      OBVIOUS
    <3> HIDE DEF Bad
    <3> QED BY <1>2, <3>1, LeastNumber
  <2>2. i \in 1 .. n /\ ~(i <= m /\ t[i] = s[i])
    OBVIOUS
  <2>3. ASSUME NEW j \in 1 .. n, j < i PROVE j <= m /\ t[j] = s[j]
    <3>1. j \notin Bad
      <4>1. i \in Nat /\ j \in Nat /\ ~(i <= j)
        BY <2>2, <2>3
      <4> HIDE DEF Bad
      <4> QED BY <2>1, <4>1
    <3> QED BY <3>1
  <2> HIDE DEF Bad
  <2>4. PICK q \in 1 .. m : t[q][1] = s[i][1]
    BY <1>1, <2>2
  <2>5. ~(q < i)
    <3>1. ASSUME q < i PROVE FALSE
      <4>1. q \in 1 .. n /\ t[q] = s[q]
        BY <2>2, <2>3, <3>1
      <4>2. Before(order, s[q][1], s[i][1])
        BY <1>1, <2>2, <3>1, <4>1
      <4>3. s[i][1] \in Keys /\ s[q][1] = s[i][1]
        BY <1>1, <2>2, <2>4, <4>1
      <4> QED BY <4>2, <4>3, BeforeIsOrder
    <3> QED BY <3>1
  <2>6. i \in 1 .. m
    BY <2>2, <2>5
  <2>7. PICK w \in 1 .. n : s[w][1] = t[i][1]
    BY <1>1, <2>6
  <2>8. ~(w < i)
    <3>1. ASSUME w < i PROVE FALSE
      <4>1. w \in 1 .. m /\ t[w] = s[w]
        BY <2>3, <2>6, <3>1
      <4>2. Before(order, t[w][1], t[i][1])
        BY <1>1, <2>6, <3>1, <4>1
      <4>3. t[i][1] \in Keys /\ t[w][1] = t[i][1]
        BY <1>1, <2>6, <2>7, <4>1
      <4> QED BY <4>2, <4>3, BeforeIsOrder
    <3> QED BY <3>1
  <2>9. t[i][1] \in Keys /\ s[i][1] \in Keys
    BY <1>1, <2>2, <2>6
  <2>10. w = i \/ Before(order, s[i][1], t[i][1])
    BY <1>1, <2>2, <2>7, <2>8
  <2>11. q = i \/ Before(order, t[i][1], s[i][1])
    BY <1>1, <2>4, <2>5, <2>6
  <2>12. t[i][1] = s[i][1]
    BY <2>4, <2>7, <2>9, <2>10, <2>11, BeforeIsOrder
  <2>13. t[i] = s[i]
    <3>1. PICK x \in Items, y \in Items : x = s[i] /\ y = t[i]
      BY <1>1, <2>2, <2>6
    <3>2. x[1] = y[1] /\ x[2] = y[2]
      BY <1>1, <2>2, <2>6, <2>12, <3>1
    <3>3. x = y
      BY <3>2 DEF Items
    <3> QED BY <3>1, <3>3
  <2> QED BY <2>2, <2>6, <2>13
<1>3. \A i \in 1 .. n : i <= m /\ t[i] = s[i]
  BY <1>2
<1>4. n <= m
  <2>1. n = 0 \/ n \in 1 .. n
    OBVIOUS
  <2> QED BY <1>3, <2>1
<1> QED BY <1>3, <1>4

\* ... in one way.
LEMMA ListsAreEqual ==
    ASSUME NEW order \in Orders, NEW S \in SUBSET Keys, NEW content,
           NEW s, Lists(s, content, S, order), NEW t, Lists(t, content, S, order)
    PROVE  s = t
<1>1. PICK n \in Nat, m \in Nat : n = Len(s) /\ m = Len(t)
  BY LenProperties DEF Lists
<1>2. n <= m /\ \A i \in 1 .. n : t[i] = s[i]
  BY <1>1, ListsBegin
<1>3. m <= n
  BY <1>1, ListsBegin
<1>4. s \in Seq(Items) /\ t \in Seq(Items)
  BY DEF Lists
<1> QED BY <1>1, <1>2, <1>3, <1>4, SeqEqual

-----------------------------------------------------------------------------
(* Ranges: one item of MergeOverlay *)

\* left has n items, for the keys in L, and right has m, both in order.
Sides(left, n, right, m, L, order) ==
    /\ order \in Orders /\ L \in SUBSET Keys /\ n \in Nat /\ m \in Nat
    /\ \A i \in 1 .. n : left[i] \in Items /\ left[i][1] \in L
    /\ \A k \in L : \E i \in 1 .. n : left[i][1] = k
    /\ \A i, j \in 1 .. n : i < j => Before(order, left[i][1], left[j][1])
    /\ \A i \in 1 .. m : right[i] \in Items
    /\ \A i, j \in 1 .. m : i < j => Before(order, right[i][1], right[j][1])

\* What was taken comes before what is left.
Apart(l, r, left, n, right, m, order) ==
    \A i \in 1 .. n, j \in 1 .. m :
      /\ i <= l /\ j > r => Before(order, left[i][1], right[j][1])
      /\ i > l /\ j <= r => Before(order, right[j][1], left[i][1])

\* out has what was taken, in order, but the deletes and what left has a delta for.
Yielded(out, l, r, left, right, L, order) ==
    /\ out \in Seq(Items) /\ InOrder(out, order)
    /\ \A x \in 1 .. Len(out) :
         \/ \E i \in 1 .. l : out[x] = left[i] /\ left[i][2] # Delete
         \/ \E j \in 1 .. r : out[x] = right[j] /\ right[j][1] \notin L
    /\ \A i \in 1 .. l : left[i][2] # Delete => \E x \in 1 .. Len(out) : out[x] = left[i]
    /\ \A j \in 1 .. r : right[j][1] \notin L => \E x \in 1 .. Len(out) : out[x] = right[j]

MergeInv(out, l, r, left, n, right, m, L, order) ==
    /\ l \in 0 .. n /\ r \in 0 .. m
    /\ Apart(l, r, left, n, right, m, order)
    /\ Yielded(out, l, r, left, right, L, order)

\* What is yielded next comes after what was.
LEMMA OutIsBefore ==
    ASSUME NEW left, NEW n, NEW right, NEW m, NEW L, NEW order,
           Sides(left, n, right, m, L, order),
           NEW out, NEW l, NEW r, MergeInv(out, l, r, left, n, right, m, L, order),
           NEW x \in 1 .. Len(out)
    PROVE  /\ l < n => Before(order, out[x][1], left[l + 1][1])
           /\ r < m => Before(order, out[x][1], right[r + 1][1])
<1>1. /\ l \in Nat /\ r \in Nat /\ n \in Nat /\ m \in Nat
      /\ \A i \in 1 .. l : i \in 1 .. n
      /\ \A j \in 1 .. r : j \in 1 .. m
  BY DEF MergeInv, Sides
<1>2. CASE \E i \in 1 .. l : out[x] = left[i]
  <2>1. PICK i \in 1 .. l : out[x] = left[i]
    BY <1>2
  <2>2. i \in 1 .. n /\ i <= l /\ i < l + 1
    BY <1>1
  <2>3. ASSUME l < n PROVE Before(order, left[i][1], left[l + 1][1])
    <3>1. l + 1 \in 1 .. n
      BY <1>1, <2>3
    <3> QED BY <2>2, <3>1 DEF Sides
  <2>4. ASSUME r < m PROVE Before(order, left[i][1], right[r + 1][1])
    <3>1. r + 1 \in 1 .. m /\ r + 1 > r
      BY <1>1, <2>4
    <3> QED BY <2>2, <3>1 DEF MergeInv, Apart
  <2> QED BY <2>1, <2>3, <2>4
<1>3. CASE \E j \in 1 .. r : out[x] = right[j]
  <2>1. PICK j \in 1 .. r : out[x] = right[j]
    BY <1>3
  <2>2. j \in 1 .. m /\ j <= r /\ j < r + 1
    BY <1>1
  <2>3. ASSUME l < n PROVE Before(order, right[j][1], left[l + 1][1])
    <3>1. l + 1 \in 1 .. n /\ l + 1 > l
      BY <1>1, <2>3
    <3> QED BY <2>2, <3>1 DEF MergeInv, Apart
  <2>4. ASSUME r < m PROVE Before(order, right[j][1], right[r + 1][1])
    <3>1. r + 1 \in 1 .. m
      BY <1>1, <2>4
    <3> QED BY <2>2, <3>1 DEF Sides
  <2> QED BY <2>1, <2>3, <2>4
<1> QED BY <1>2, <1>3 DEF MergeInv, Yielded

LEMMA Appended ==
    ASSUME NEW out \in Seq(Items), NEW order, InOrder(out, order), NEW item \in Items,
           \A x \in 1 .. Len(out) : Before(order, out[x][1], item[1])
    PROVE  /\ Append(out, item) \in Seq(Items) /\ InOrder(Append(out, item), order)
           /\ \A x \in 1 .. Len(Append(out, item)) :
                 (x \in 1 .. Len(out) /\ Append(out, item)[x] = out[x])
                   \/ Append(out, item)[x] = item
           /\ \A x \in 1 .. Len(out) : /\ x \in 1 .. Len(Append(out, item))
                                       /\ Append(out, item)[x] = out[x]
           /\ \E x \in 1 .. Len(Append(out, item)) : Append(out, item)[x] = item
<1>1. PICK n \in Nat : n = Len(out)
  BY LenProperties
<1>2. PICK s : s = Append(out, item)
  OBVIOUS
<1>3. /\ s \in Seq(Items) /\ Len(s) = n + 1 /\ s[n + 1] = item
      /\ \A x \in 1 .. n : s[x] = out[x]
  BY <1>1, <1>2, AppendProperties
<1>4. /\ n + 1 \in 1 .. n + 1 /\ \A x \in 1 .. n : x \in 1 .. n + 1
      /\ \A x \in 1 .. n + 1 : x \in 1 .. n \/ x = n + 1
  BY <1>1
<1>5. InOrder(s, order)
  <2>1. ASSUME NEW i \in 1 .. n + 1, NEW j \in 1 .. n + 1, i < j
        PROVE  Before(order, s[i][1], s[j][1])
    <3>1. i \in 1 .. n
      BY <1>1, <2>1
    <3>2. CASE j = n + 1
      BY <1>1, <1>3, <3>1, <3>2
    <3>3. CASE j # n + 1
      <4>1. j \in 1 .. n
        BY <1>4, <3>3
      <4> QED BY <1>1, <1>3, <2>1, <3>1, <4>1 DEF InOrder
    <3> QED BY <3>2, <3>3
  <2> QED BY <1>3, <2>1 DEF InOrder
<1> QED BY <1>1, <1>2, <1>3, <1>4, <1>5

\* An item of left, whatever is below it.
LEMMA LeftYields ==
    ASSUME NEW left, NEW n, NEW right, NEW m, NEW L, NEW order,
           Sides(left, n, right, m, L, order),
           NEW out, NEW l, NEW r, MergeInv(out, l, r, left, n, right, m, L, order), l < n
    PROVE  Yielded(IF left[l + 1][2] = Delete THEN out ELSE Append(out, left[l + 1]),
                   l + 1, r, left, right, L, order)
<1>1. /\ l \in Nat /\ r \in Nat /\ n \in Nat /\ l + 1 \in 1 .. n
      /\ \A i \in 1 .. l : i \in 1 .. l + 1
      /\ \A i \in 1 .. l + 1 : i \in 1 .. l \/ i = l + 1
      /\ l + 1 \in 1 .. l + 1
  BY DEF MergeInv, Sides
<1>2. Yielded(out, l, r, left, right, L, order)
  BY DEF MergeInv
<1>y. /\ \A x \in 1 .. Len(out) :
           \/ \E i \in 1 .. l : out[x] = left[i] /\ left[i][2] # Delete
           \/ \E j \in 1 .. r : out[x] = right[j] /\ right[j][1] \notin L
      /\ \A i \in 1 .. l : left[i][2] # Delete => \E x \in 1 .. Len(out) : out[x] = left[i]
      /\ \A j \in 1 .. r : right[j][1] \notin L => \E x \in 1 .. Len(out) : out[x] = right[j]
  BY <1>2 DEF Yielded
<1>3. CASE left[l + 1][2] = Delete
  <2>1. \A x \in 1 .. Len(out) :
           \/ \E i \in 1 .. l + 1 : out[x] = left[i] /\ left[i][2] # Delete
           \/ \E j \in 1 .. r : out[x] = right[j] /\ right[j][1] \notin L
    BY <1>1, <1>y
  <2>2. \A i \in 1 .. l + 1 : left[i][2] # Delete => \E x \in 1 .. Len(out) : out[x] = left[i]
    BY <1>1, <1>y, <1>3
  <2>3. Yielded(out, l + 1, r, left, right, L, order)
    BY <1>2, <1>y, <2>1, <2>2 DEF Yielded
  <2> QED BY <1>3, <2>3
<1>4. CASE left[l + 1][2] # Delete
  <2>1. PICK item \in Items : item = left[l + 1]
    BY <1>1 DEF Sides
  <2>2. PICK s : s = Append(out, item)
    OBVIOUS
  <2>3. \A x \in 1 .. Len(out) : Before(order, out[x][1], item[1])
    BY <2>1, OutIsBefore
  <2>4. /\ s \in Seq(Items) /\ InOrder(s, order)
        /\ \A x \in 1 .. Len(s) : (x \in 1 .. Len(out) /\ s[x] = out[x]) \/ s[x] = item
        /\ \A x \in 1 .. Len(out) : x \in 1 .. Len(s) /\ s[x] = out[x]
        /\ \E x \in 1 .. Len(s) : s[x] = item
    BY <1>2, <2>2, <2>3, Appended DEF Yielded
  <2>5. \A x \in 1 .. Len(s) :
           \/ \E i \in 1 .. l + 1 : s[x] = left[i] /\ left[i][2] # Delete
           \/ \E j \in 1 .. r : s[x] = right[j] /\ right[j][1] \notin L
    <3>1. ASSUME NEW x \in 1 .. Len(out)
          PROVE  \/ \E i \in 1 .. l + 1 : out[x] = left[i] /\ left[i][2] # Delete
                 \/ \E j \in 1 .. r : out[x] = right[j] /\ right[j][1] \notin L
      BY <1>1, <1>y
    <3>2. \E i \in 1 .. l + 1 : item = left[i] /\ left[i][2] # Delete
      BY <1>1, <1>4, <2>1
    <3> QED BY <2>4, <3>1, <3>2
  <2>6. \A i \in 1 .. l + 1 : left[i][2] # Delete => \E x \in 1 .. Len(s) : s[x] = left[i]
    BY <1>1, <1>2, <2>1, <2>4 DEF Yielded
  <2>7. \A j \in 1 .. r : right[j][1] \notin L => \E x \in 1 .. Len(s) : s[x] = right[j]
    BY <1>2, <2>4 DEF Yielded
  <2>8. Yielded(s, l + 1, r, left, right, L, order)
    BY <2>4, <2>5, <2>6, <2>7 DEF Yielded
  <2> QED BY <1>4, <2>1, <2>2, <2>8
<1> QED BY <1>3, <1>4

\* An item of right that left has nothing for.
LEMMA RightYields ==
    ASSUME NEW left, NEW n, NEW right, NEW m, NEW L, NEW order,
           Sides(left, n, right, m, L, order),
           NEW out, NEW l, NEW r, MergeInv(out, l, r, left, n, right, m, L, order), r < m,
           right[r + 1][1] \notin L
    PROVE  Yielded(Append(out, right[r + 1]), l, r + 1, left, right, L, order)
<1>1. /\ l \in Nat /\ r \in Nat /\ m \in Nat /\ r + 1 \in 1 .. m
      /\ \A j \in 1 .. r : j \in 1 .. r + 1
      /\ \A j \in 1 .. r + 1 : j \in 1 .. r \/ j = r + 1
      /\ r + 1 \in 1 .. r + 1
  BY DEF MergeInv, Sides
<1>2. Yielded(out, l, r, left, right, L, order)
  BY DEF MergeInv
<1>3. PICK item \in Items : item = right[r + 1]
  BY <1>1 DEF Sides
<1>4. PICK s : s = Append(out, item)
  OBVIOUS
<1>5. \A x \in 1 .. Len(out) : Before(order, out[x][1], item[1])
  BY <1>3, OutIsBefore
<1>6. /\ s \in Seq(Items) /\ InOrder(s, order)
      /\ \A x \in 1 .. Len(s) : (x \in 1 .. Len(out) /\ s[x] = out[x]) \/ s[x] = item
      /\ \A x \in 1 .. Len(out) : x \in 1 .. Len(s) /\ s[x] = out[x]
      /\ \E x \in 1 .. Len(s) : s[x] = item
  BY <1>2, <1>4, <1>5, Appended DEF Yielded
<1>7. \A x \in 1 .. Len(s) :
         \/ \E i \in 1 .. l : s[x] = left[i] /\ left[i][2] # Delete
         \/ \E j \in 1 .. r + 1 : s[x] = right[j] /\ right[j][1] \notin L
  BY <1>1, <1>2, <1>3, <1>6, SMTT(30) DEF Yielded
<1>8. \A i \in 1 .. l : left[i][2] # Delete => \E x \in 1 .. Len(s) : s[x] = left[i]
  BY <1>2, <1>6 DEF Yielded
<1>9. \A j \in 1 .. r + 1 : right[j][1] \notin L => \E x \in 1 .. Len(s) : s[x] = right[j]
  BY <1>1, <1>2, <1>3, <1>6 DEF Yielded
<1>10. Yielded(s, l, r + 1, left, right, L, order)
  BY <1>6, <1>7, <1>8, <1>9 DEF Yielded
<1> QED BY <1>3, <1>4, <1>10

\* Taking the earlier key leaves both sides apart.
LEMMA LeftApart ==
    ASSUME NEW left, NEW n, NEW right, NEW m, NEW L, NEW order,
           Sides(left, n, right, m, L, order),
           NEW l \in 0 .. n, NEW r \in 0 .. m, Apart(l, r, left, n, right, m, order), l < n,
           r < m => Before(order, left[l + 1][1], right[r + 1][1])
    PROVE  Apart(l + 1, r, left, n, right, m, order)
<1>1. /\ n \in Nat /\ m \in Nat /\ l \in Nat /\ r \in Nat /\ order \in Orders
      /\ l + 1 \in 1 .. n
      /\ \A i \in 1 .. n : left[i][1] \in Keys
      /\ \A j \in 1 .. m : right[j][1] \in Keys
  BY DEF Sides, Items
<1>2. ASSUME NEW i \in 1 .. n, NEW j \in 1 .. m, i <= l + 1, j > r
      PROVE  Before(order, left[i][1], right[j][1])
  <2>1. CASE i <= l
    BY <1>2, <2>1 DEF Apart
  <2>2. CASE ~(i <= l)
    <3>1. i = l + 1 /\ r + 1 \in 1 .. m /\ r < m
      BY <1>1, <1>2, <2>2
    <3>2. CASE j = r + 1
      BY <3>1, <3>2
    <3>3. CASE j # r + 1
      <4>1. Before(order, right[r + 1][1], right[j][1])
        <5>1. r + 1 < j
          BY <1>1, <1>2, <3>3
        <5> QED BY <3>1, <5>1 DEF Sides
      <4> QED BY <1>1, <3>1, <4>1, BeforeIsTransitive
    <3> QED BY <3>2, <3>3
  <2> QED BY <2>1, <2>2
<1>3. ASSUME NEW i \in 1 .. n, NEW j \in 1 .. m, i > l + 1, j <= r
      PROVE  Before(order, right[j][1], left[i][1])
  <2>1. i > l
    BY <1>1, <1>3
  <2> QED BY <1>3, <2>1 DEF Apart
<1> QED BY <1>2, <1>3 DEF Apart

LEMMA RightApart ==
    ASSUME NEW left, NEW n, NEW right, NEW m, NEW L, NEW order,
           Sides(left, n, right, m, L, order),
           NEW l \in 0 .. n, NEW r \in 0 .. m, Apart(l, r, left, n, right, m, order), r < m,
           l < n => Before(order, right[r + 1][1], left[l + 1][1])
    PROVE  Apart(l, r + 1, left, n, right, m, order) /\ right[r + 1][1] \notin L
<1>1. /\ n \in Nat /\ m \in Nat /\ l \in Nat /\ r \in Nat /\ order \in Orders
      /\ r + 1 \in 1 .. m
      /\ \A i \in 1 .. n : left[i][1] \in Keys
      /\ \A j \in 1 .. m : right[j][1] \in Keys
  BY DEF Sides, Items
<1>2. ASSUME NEW i \in 1 .. n, i > l
      PROVE  Before(order, right[r + 1][1], left[i][1])
  <2>1. l + 1 \in 1 .. n /\ l < n
    BY <1>1, <1>2
  <2>2. CASE i = l + 1
    BY <2>1, <2>2
  <2>3. CASE i # l + 1
    <3>1. Before(order, left[l + 1][1], left[i][1])
      <4>1. l + 1 < i
        BY <1>1, <1>2, <2>3
      <4> QED BY <2>1, <4>1 DEF Sides
    <3> QED BY <1>1, <2>1, <3>1, BeforeIsTransitive
  <2> QED BY <2>2, <2>3
<1>3. ASSUME NEW i \in 1 .. n, NEW j \in 1 .. m, i > l, j <= r + 1
      PROVE  Before(order, right[j][1], left[i][1])
  <2>1. CASE j <= r
    BY <1>3, <2>1 DEF Apart
  <2>2. CASE ~(j <= r)
    <3>1. j = r + 1
      BY <1>1, <1>3, <2>2
    <3> QED BY <1>2, <1>3, <3>1
  <2> QED BY <2>1, <2>2
<1>4. ASSUME NEW i \in 1 .. n, NEW j \in 1 .. m, i <= l, j > r + 1
      PROVE  Before(order, left[i][1], right[j][1])
  <2>1. j > r
    BY <1>1, <1>4
  <2> QED BY <1>4, <2>1 DEF Apart
<1>5. ASSUME right[r + 1][1] \in L PROVE FALSE
  <2>1. PICK i \in 1 .. n : left[i][1] = right[r + 1][1]
    BY <1>5 DEF Sides
  <2>2. CASE i <= l
    <3>1. Before(order, left[i][1], right[r + 1][1])
      <4>1. r + 1 > r
        BY <1>1
      <4> QED BY <1>1, <2>2, <4>1 DEF Apart
    <3> QED BY <1>1, <2>1, <3>1, BeforeIsOrder
  <2>3. CASE ~(i <= l)
    <3>1. i > l
      BY <1>1, <2>3
    <3>2. Before(order, right[r + 1][1], left[i][1])
      BY <1>2, <3>1
    <3> QED BY <1>1, <2>1, <3>2, BeforeIsOrder
  <2> QED BY <2>2, <2>3
<1> QED BY <1>3, <1>4, <1>5 DEF Apart

LEMMA BothApart ==
    ASSUME NEW left, NEW n, NEW right, NEW m, NEW L, NEW order,
           Sides(left, n, right, m, L, order),
           NEW l \in 0 .. n, NEW r \in 0 .. m, Apart(l, r, left, n, right, m, order),
           l < n, r < m, left[l + 1][1] = right[r + 1][1]
    PROVE  Apart(l + 1, r + 1, left, n, right, m, order)
<1>1. /\ n \in Nat /\ m \in Nat /\ l \in Nat /\ r \in Nat
      /\ l + 1 \in 1 .. n /\ r + 1 \in 1 .. m
  BY DEF Sides
<1>2. ASSUME NEW i \in 1 .. n, NEW j \in 1 .. m, i <= l + 1, j > r + 1
      PROVE  Before(order, left[i][1], right[j][1])
  <2>1. CASE i <= l
    <3>1. j > r
      BY <1>1, <1>2
    <3> QED BY <2>1, <3>1 DEF Apart
  <2>2. CASE ~(i <= l)
    <3>1. i = l + 1 /\ r + 1 < j
      BY <1>1, <1>2, <2>2
    <3>2. Before(order, right[r + 1][1], right[j][1])
      BY <1>1, <3>1 DEF Sides
    <3> QED BY <3>1, <3>2
  <2> QED BY <2>1, <2>2
<1>3. ASSUME NEW i \in 1 .. n, NEW j \in 1 .. m, i > l + 1, j <= r + 1
      PROVE  Before(order, right[j][1], left[i][1])
  <2>1. CASE j <= r
    <3>1. i > l
      BY <1>1, <1>3
    <3> QED BY <2>1, <3>1 DEF Apart
  <2>2. CASE ~(j <= r)
    <3>1. j = r + 1 /\ l + 1 < i
      BY <1>1, <1>3, <2>2
    <3>2. Before(order, left[l + 1][1], left[i][1])
      BY <1>1, <3>1 DEF Sides
    <3> QED BY <3>1, <3>2
  <2> QED BY <2>1, <2>2
<1> QED BY <1>2, <1>3 DEF Apart

\* The three things MergeOverlay does with an item.
LEMMA TakeLeftKeeps ==
    ASSUME NEW left, NEW n, NEW right, NEW m, NEW L, NEW order,
           Sides(left, n, right, m, L, order),
           NEW it, MergeInv(it.out, it.l, it.r, left, n, right, m, L, order), it.l < n,
           it.r < m => Before(order, left[it.l + 1][1], right[it.r + 1][1]),
           NEW next, next = TakeLeft(it, left)
    PROVE  /\ MergeInv(next.out, next.l, next.r, left, n, right, m, L, order)
           /\ next.l = it.l + 1 /\ next.r = it.r
<1>1. it.l \in 0 .. n /\ it.r \in 0 .. m /\ n \in Nat /\ it.l + 1 \in 0 .. n
  BY DEF MergeInv, Sides
<1>2. /\ next.l = it.l + 1 /\ next.r = it.r
      /\ next.out = IF left[it.l + 1][2] = Delete THEN it.out
                    ELSE Append(it.out, left[it.l + 1])
  BY DEF TakeLeft
<1>3. Yielded(next.out, it.l + 1, it.r, left, right, L, order)
  BY <1>2, LeftYields
<1>4. Apart(it.l + 1, it.r, left, n, right, m, order)
  BY <1>1, LeftApart DEF MergeInv
<1> QED BY <1>1, <1>2, <1>3, <1>4 DEF MergeInv

LEMMA TakeRightKeeps ==
    ASSUME NEW left, NEW n, NEW right, NEW m, NEW L, NEW order,
           Sides(left, n, right, m, L, order),
           NEW it, MergeInv(it.out, it.l, it.r, left, n, right, m, L, order), it.r < m,
           it.l < n => Before(order, right[it.r + 1][1], left[it.l + 1][1]),
           NEW next, next = TakeRight(it, right)
    PROVE  /\ MergeInv(next.out, next.l, next.r, left, n, right, m, L, order)
           /\ next.l = it.l /\ next.r = it.r + 1
<1>1. it.l \in 0 .. n /\ it.r \in 0 .. m /\ m \in Nat /\ it.r + 1 \in 0 .. m
  BY DEF MergeInv, Sides
<1>2. /\ next.l = it.l /\ next.r = it.r + 1
      /\ next.out = Append(it.out, right[it.r + 1])
  BY DEF TakeRight
<1>3. Apart(it.l, it.r + 1, left, n, right, m, order) /\ right[it.r + 1][1] \notin L
  BY <1>1, RightApart DEF MergeInv
<1>4. Yielded(next.out, it.l, it.r + 1, left, right, L, order)
  BY <1>2, <1>3, RightYields
<1> QED BY <1>1, <1>2, <1>3, <1>4 DEF MergeInv

LEMMA TakeBothKeeps ==
    ASSUME NEW left, NEW n, NEW right, NEW m, NEW L, NEW order,
           Sides(left, n, right, m, L, order),
           NEW it, MergeInv(it.out, it.l, it.r, left, n, right, m, L, order),
           it.l < n, it.r < m, left[it.l + 1][1] = right[it.r + 1][1],
           NEW next, next = TakeLeft(DropRight(it), left)
    PROVE  /\ MergeInv(next.out, next.l, next.r, left, n, right, m, L, order)
           /\ next.l = it.l + 1 /\ next.r = it.r + 1
<1>1. /\ it.l \in 0 .. n /\ it.r \in 0 .. m /\ n \in Nat /\ m \in Nat
      /\ it.l + 1 \in 1 .. n /\ it.r + 1 \in 1 .. m
      /\ it.l + 1 \in 0 .. n /\ it.r + 1 \in 0 .. m
  BY DEF MergeInv, Sides
<1>2. /\ next.l = it.l + 1 /\ next.r = it.r + 1
      /\ next.out = IF left[it.l + 1][2] = Delete THEN it.out
                    ELSE Append(it.out, left[it.l + 1])
  BY DEF TakeLeft, DropRight
<1>3. Yielded(next.out, it.l + 1, it.r, left, right, L, order)
  BY <1>2, LeftYields
<1>4. right[it.r + 1][1] \in L
  <2>1. left[it.l + 1][1] \in L
    BY <1>1 DEF Sides
  <2> QED BY <2>1
<1>5. Yielded(next.out, it.l + 1, it.r + 1, left, right, L, order)
  <2>1. /\ \A j \in 1 .. it.r : j \in 1 .. it.r + 1
        /\ \A j \in 1 .. it.r + 1 : j \in 1 .. it.r \/ j = it.r + 1
    BY <1>1
  <2> QED BY <1>3, <1>4, <2>1 DEF Yielded
<1>6. Apart(it.l + 1, it.r + 1, left, n, right, m, order)
  BY <1>1, BothApart DEF MergeInv
<1> QED BY <1>1, <1>2, <1>5, <1>6 DEF MergeInv

\* The iterator is a merge so far, and took at least t items.
Progressed(it, t, left, right, L, order) ==
    /\ MergeInv(it.out, it.l, it.r, left, Len(left), right, Len(right), L, order)
    /\ it.l + it.r >= t

LEMMA NextItemKeeps ==
    ASSUME NEW left, NEW right, NEW L, NEW order,
           Sides(left, Len(left), right, Len(right), L, order),
           NEW it, NEW t \in Nat, Progressed(it, t, left, right, L, order),
           t + 1 <= Len(left) + Len(right)
    PROVE  Progressed(NextItem(it, left, right, order), t + 1, left, right, L, order)
<1> DEFINE n == Len(left)
           m == Len(right)
<1>1. /\ n \in Nat /\ m \in Nat /\ it.l \in 0 .. n /\ it.r \in 0 .. m /\ order \in Orders
      /\ MergeInv(it.out, it.l, it.r, left, n, right, m, L, order) /\ it.l + it.r >= t
  BY DEF Progressed, MergeInv, Sides
<1>2. /\ it.l < n => left[it.l + 1][1] \in Keys
      /\ it.r < m => right[it.r + 1][1] \in Keys
  <2>1. /\ it.l < n => it.l + 1 \in 1 .. n
        /\ it.r < m => it.r + 1 \in 1 .. m
    BY <1>1
  <2> QED BY <1>1, <2>1 DEF Sides, Items
<1>3. Sides(left, n, right, m, L, order)
  OBVIOUS
<1>4. PICK next : next = NextItem(it, left, right, order)
  OBVIOUS
<1>5. next = IF it.l < n /\ it.r < m THEN PickMatch(it, left, right, order)
             ELSE IF it.l < n THEN TakeLeft(it, left)
             ELSE IF it.r < m THEN TakeRight(it, right)
             ELSE it
  BY <1>4 DEF NextItem
<1>6. t + 1 <= n + m
  OBVIOUS
<1> HIDE DEF n, m
<1>7. CASE it.l < n /\ (it.r < m => Before(order, left[it.l + 1][1], right[it.r + 1][1]))
  <2>1. next = TakeLeft(it, left)
    BY <1>5, <1>7 DEF PickMatch
  <2>2. /\ MergeInv(next.out, next.l, next.r, left, n, right, m, L, order)
        /\ next.l = it.l + 1 /\ next.r = it.r
    BY <1>1, <1>3, <1>7, <2>1, TakeLeftKeeps
  <2>3. next.l + next.r >= t + 1
    BY <1>1, <2>2
  <2> QED BY <1>4, <2>2, <2>3 DEF Progressed, n, m
<1>8. CASE it.l < n /\ it.r < m /\ left[it.l + 1][1] = right[it.r + 1][1]
  <2>1. ~Before(order, left[it.l + 1][1], right[it.r + 1][1])
    BY <1>1, <1>2, <1>8, BeforeIsOrder
  <2>2. next = TakeLeft(DropRight(it), left)
    BY <1>5, <1>8, <2>1 DEF PickMatch
  <2>3. /\ MergeInv(next.out, next.l, next.r, left, n, right, m, L, order)
        /\ next.l = it.l + 1 /\ next.r = it.r + 1
    BY <1>1, <1>3, <1>8, <2>2, TakeBothKeeps
  <2>4. next.l + next.r >= t + 1
    BY <1>1, <2>3
  <2> QED BY <1>4, <2>3, <2>4 DEF Progressed, n, m
<1>9. CASE it.r < m /\ (it.l < n => Before(order, right[it.r + 1][1], left[it.l + 1][1]))
  <2>1. it.l < n => ~Before(order, left[it.l + 1][1], right[it.r + 1][1])
                      /\ left[it.l + 1][1] # right[it.r + 1][1]
    BY <1>1, <1>2, <1>9, BeforeIsOrder
  <2>2. next = TakeRight(it, right)
    BY <1>5, <1>9, <2>1 DEF PickMatch
  <2>3. /\ MergeInv(next.out, next.l, next.r, left, n, right, m, L, order)
        /\ next.l = it.l /\ next.r = it.r + 1
    BY <1>1, <1>3, <1>9, <2>2, TakeRightKeeps
  <2>4. next.l + next.r >= t + 1
    BY <1>1, <2>3
  <2> QED BY <1>4, <2>3, <2>4 DEF Progressed, n, m
<1>10. CASE ~(it.l < n) /\ ~(it.r < m)
  <2>1. next = it
    BY <1>5, <1>10
  <2>2. it.l + it.r >= t + 1
    BY <1>1, <1>6, <1>10
  <2> QED BY <1>1, <1>4, <2>1, <2>2 DEF Progressed, n, m
<1> QED BY <1>1, <1>2, <1>7, <1>8, <1>9, <1>10, BeforeIsOrder

-----------------------------------------------------------------------------
(* Ranges: all that MergeOverlay yields *)

LEMMA NumberInduction ==
    ASSUME NEW P, 0 \in P, \A n \in Nat : n \in P => n + 1 \in P
    PROVE  \A n \in Nat : n \in P
<1> DEFINE Missed == {n \in Nat : n \notin P}
<1>1. ASSUME Missed # {} PROVE FALSE
  <2>1. PICK m \in Missed : \A i \in Missed : m <= i
    <3>1. Missed \in SUBSET Nat
      OBVIOUS
    <3> HIDE DEF Missed
    <3> QED BY <1>1, <3>1, LeastNumber
  <2>2. m \in Nat /\ m # 0
    OBVIOUS
  <2>3. m - 1 \in Nat /\ ~(m <= m - 1) /\ (m - 1) + 1 = m
    BY <2>2
  <2>4. m - 1 \in P
    BY <2>1, <2>3
  <2>5. m \in P
    BY <2>3, <2>4
  <2> QED BY <2>5
<1> QED BY <1>1

\* g are the first n steps of an iterator.
Runs(g, n, left, right, order) ==
    g = [i \in 0 .. n |-> IF i = 0 THEN [l |-> 0, r |-> 0, out |-> <<>>]
                          ELSE NextItem(g[i - 1], left, right, order)]
Run(left, right, order) == CHOOSE g : Runs(g, Len(left) + Len(right), left, right, order)

LEMMA MergeIsRun ==
    ASSUME NEW left, NEW right, NEW order
    PROVE  MergeOverlay(left, right, order)
             = Run(left, right, order)[Len(left) + Len(right)].out
BY DEF MergeOverlay, Run, Runs

LEMMA RunExists ==
    ASSUME NEW left, NEW right, NEW order, NEW n \in Nat
    PROVE  \E g : Runs(g, n, left, right, order)
<1> DEFINE P == {i \in Nat : \E g : Runs(g, i, left, right, order)}
           first == [l |-> 0, r |-> 0, out |-> <<>>]
<1>1. 0 \in P
  <2>1. Runs([i \in 0 .. 0 |-> first], 0, left, right, order)
    <3>1. \A i \in 0 .. 0 : i = 0
      OBVIOUS
    <3> QED BY <3>1 DEF Runs
  <2> QED BY <2>1
<1>2. ASSUME NEW i \in Nat, i \in P PROVE i + 1 \in P
  <2>1. PICK g : Runs(g, i, left, right, order)
    BY <1>2
  <2> DEFINE h == [j \in 0 .. i + 1 |-> IF j = i + 1 THEN NextItem(g[i], left, right, order)
                                        ELSE g[j]]
             H(j) == IF j = 0 THEN first ELSE NextItem(h[j - 1], left, right, order)
  <2>2. \A j \in 0 .. i : g[j] = IF j = 0 THEN first ELSE NextItem(g[j - 1], left, right, order)
    <3> HIDE DEF first
    <3> QED BY <2>1 DEF Runs, first
  <2>3. \A j \in 0 .. i : h[j] = g[j]
    <3>1. \A j \in 0 .. i : j \in 0 .. i + 1 /\ j # i + 1
      BY <1>2
    <3> QED BY <3>1
  <2>4. ASSUME NEW j \in 0 .. i + 1 PROVE h[j] = H(j)
    <3>1. CASE j = i + 1
      <4>1. h[j] = NextItem(g[i], left, right, order)
        BY <3>1
      <4>2. j # 0 /\ j - 1 = i /\ i \in 0 .. i
        BY <1>2, <3>1
      <4>3. h[j - 1] = g[i]
        BY <2>3, <4>2
      <4> HIDE DEF h
      <4> QED BY <4>1, <4>2, <4>3
    <3>2. CASE j = 0
      <4>1. 0 \in 0 .. i
        BY <1>2
      <4> HIDE DEF h, first
      <4> QED BY <2>2, <2>3, <3>2, <4>1
    <3>3. CASE j # 0 /\ j # i + 1
      <4>1. j \in 0 .. i /\ j - 1 \in 0 .. i
        BY <1>2, <3>3
      <4> HIDE DEF h, first
      <4> QED BY <2>2, <2>3, <3>3, <4>1
    <3> QED BY <3>1, <3>2, <3>3
  <2>5. h = [j \in 0 .. i + 1 |-> h[j]]
    OBVIOUS
  <2>6. h = [j \in 0 .. i + 1 |-> H(j)]
    <3> HIDE DEF h, H
    <3> QED BY <2>4, <2>5
  <2>7. Runs(h, i + 1, left, right, order)
    <3> HIDE DEF h
    <3> QED BY <2>6 DEF Runs
  <2> HIDE DEF h
  <2> QED BY <1>2, <2>7
<1>3. n \in P
  <2> HIDE DEF P
  <2> QED BY <1>1, <1>2, NumberInduction
<1> QED BY <1>3

\* content shows, for the keys in T, the values local has for those in L, over what
\* below has for those in R.
Overlaid(content, T, local, L, below, R) ==
    \A k \in Keys :
      /\ k \in T <=> (k \in L /\ local[k] # Delete) \/ (k \in R /\ k \notin L)
      /\ k \in T => content[k] = IF k \in L THEN local[k] ELSE below[k]

LEMMA ListsAreSides ==
    ASSUME NEW order \in Orders, NEW L \in SUBSET Keys, NEW R, NEW local, NEW below,
           NEW left, Lists(left, local, L, order), NEW right, Lists(right, below, R, order)
    PROVE  Sides(left, Len(left), right, Len(right), L, order)
<1>1. Len(left) \in Nat /\ Len(right) \in Nat
  BY LenProperties DEF Lists
<1>2. /\ \A i \in 1 .. Len(left) : left[i] \in Items
      /\ \A i \in 1 .. Len(right) : right[i] \in Items
  BY ElementOfSeq DEF Lists
<1> QED BY <1>1, <1>2 DEF Lists, Sides, InOrder

\* When both sides are exhausted, all of them was merged.
LEMMA MergeEnds ==
    ASSUME NEW left, NEW right, NEW L, NEW order,
           Sides(left, Len(left), right, Len(right), L, order)
    PROVE  Yielded(MergeOverlay(left, right, order), Len(left), Len(right), left, right, L, order)
<1> DEFINE n == Len(left)
           m == Len(right)
<1>1. n \in Nat /\ m \in Nat /\ n + m \in Nat
  BY DEF Sides
<1>2. PICK g : g = Run(left, right, order)
  OBVIOUS
<1>3. Runs(g, n + m, left, right, order)
  <2>1. \E h : Runs(h, n + m, left, right, order)
    BY <1>1, RunExists
  <2> QED BY <1>2, <2>1 DEF Run
<1> DEFINE first == [l |-> 0, r |-> 0, out |-> <<>>]
<1>4. \A i \in 0 .. n + m :
         g[i] = IF i = 0 THEN first ELSE NextItem(g[i - 1], left, right, order)
  <2> HIDE DEF n, m, first
  <2> QED BY <1>3 DEF Runs, first
<1> DEFINE P == {i \in Nat : i <= n + m => Progressed(g[i], i, left, right, L, order)}
<1>5. Progressed(first, 0, left, right, L, order)
  <2>1. first.l = 0 /\ first.r = 0 /\ first.out = <<>> /\ first.l + first.r >= 0
    OBVIOUS
  <2>2. Apart(0, 0, left, n, right, m, order)
    BY DEF Apart
  <2>3. Yielded(<<>>, 0, 0, left, right, L, order)
    <3>1. <<>> \in Seq(Items) /\ Len(<<>>) = 0 /\ 1 .. 0 = {}
      OBVIOUS
    <3> QED BY <3>1 DEF Yielded, InOrder
  <2>4. 0 \in 0 .. n /\ 0 \in 0 .. m
    BY <1>1
  <2> HIDE DEF first
  <2> QED BY <2>1, <2>2, <2>3, <2>4 DEF Progressed, MergeInv
<1>6. 0 \in P
  <2>1. g[0] = first
    <3>1. 0 \in 0 .. n + m
      BY <1>1
    <3> HIDE DEF first
    <3> QED BY <1>4, <3>1
  <2> HIDE DEF first
  <2> QED BY <1>5, <2>1
<1>7. ASSUME NEW i \in Nat, i \in P PROVE i + 1 \in P
  <2>1. ASSUME i + 1 <= n + m
        PROVE  Progressed(g[i + 1], i + 1, left, right, L, order)
    <3>1. i <= n + m /\ i + 1 \in 0 .. n + m /\ i + 1 # 0 /\ (i + 1) - 1 = i
      BY <1>1, <2>1
    <3>2. Progressed(g[i], i, left, right, L, order)
      BY <1>7, <3>1
    <3>3. g[i + 1] = NextItem(g[i], left, right, order)
      <4> HIDE DEF first
      <4> QED BY <1>4, <3>1
    <3> QED BY <2>1, <3>2, <3>3, NextItemKeeps
  <2> QED BY <2>1
<1>8. n + m \in P
  <2> HIDE DEF P, n, m
  <2> QED BY <1>1, <1>6, <1>7, NumberInduction
<1> DEFINE it == g[n + m]
<1>9. Progressed(it, n + m, left, right, L, order)
  <2> HIDE DEF n, m
  <2> QED BY <1>1, <1>8
<1>10. MergeInv(it.out, it.l, it.r, left, n, right, m, L, order) /\ it.l + it.r >= n + m
  BY <1>9 DEF Progressed
<1>11. MergeOverlay(left, right, order) = it.out
  BY <1>2, MergeIsRun
<1> HIDE DEF n, m, it
<1>12. it.l \in 0 .. n /\ it.r \in 0 .. m
  BY <1>10 DEF MergeInv
<1>13. it.l = n /\ it.r = m
  BY <1>1, <1>10, <1>12
<1> QED BY <1>10, <1>11, <1>13 DEF MergeInv, n, m

\* What is merged lists what the sides list, one over the other.
LEMMA MergeLists ==
    ASSUME NEW order \in Orders, NEW L \in SUBSET Keys, NEW R \in SUBSET Keys,
           NEW T \in SUBSET Keys, NEW local, NEW below, NEW content,
           NEW left, Lists(left, local, L, order), NEW right, Lists(right, below, R, order),
           Overlaid(content, T, local, L, below, R)
    PROVE  Lists(MergeOverlay(left, right, order), content, T, order)
<1>1. Sides(left, Len(left), right, Len(right), L, order)
  BY ListsAreSides
<1>2. PICK s : s = MergeOverlay(left, right, order)
  OBVIOUS
<1>3. Yielded(s, Len(left), Len(right), left, right, L, order)
  BY <1>1, <1>2, MergeEnds
<1>4. /\ \A i \in 1 .. Len(left) : left[i][1] \in L /\ left[i][2] = local[left[i][1]]
      /\ \A i \in 1 .. Len(right) : right[i][1] \in R /\ right[i][2] = below[right[i][1]]
      /\ \A k \in L : \E i \in 1 .. Len(left) : left[i][1] = k
      /\ \A k \in R : \E i \in 1 .. Len(right) : right[i][1] = k
  BY DEF Lists
<1>5. ASSUME NEW x \in 1 .. Len(s)
      PROVE  s[x][1] \in T /\ s[x][2] = content[s[x][1]]
  <2>1. CASE \E i \in 1 .. Len(left) : s[x] = left[i] /\ left[i][2] # Delete
    <3>1. PICK i \in 1 .. Len(left) : s[x] = left[i] /\ left[i][2] # Delete
      BY <2>1
    <3>2. left[i][1] \in L /\ left[i][1] \in Keys /\ left[i][2] = local[left[i][1]]
      BY <1>4
    <3>3. left[i][1] \in T /\ content[left[i][1]] = local[left[i][1]]
      BY <3>1, <3>2 DEF Overlaid
    <3> QED BY <3>1, <3>2, <3>3
  <2>2. CASE \E i \in 1 .. Len(right) : s[x] = right[i] /\ right[i][1] \notin L
    <3>1. PICK i \in 1 .. Len(right) : s[x] = right[i] /\ right[i][1] \notin L
      BY <2>2
    <3>2. right[i][1] \in R /\ right[i][1] \in Keys /\ right[i][2] = below[right[i][1]]
      BY <1>4
    <3>3. right[i][1] \in T /\ content[right[i][1]] = below[right[i][1]]
      BY <3>1, <3>2 DEF Overlaid
    <3> QED BY <3>1, <3>2, <3>3
  <2> QED BY <1>3, <2>1, <2>2 DEF Yielded
<1>6. ASSUME NEW k \in T PROVE \E x \in 1 .. Len(s) : s[x][1] = k
  <2>1. CASE k \in L
    <3>1. PICK i \in 1 .. Len(left) : left[i][1] = k
      BY <1>4, <2>1
    <3>2. left[i][2] # Delete
      BY <1>4, <2>1, <3>1 DEF Overlaid
    <3>3. PICK x \in 1 .. Len(s) : s[x] = left[i]
      BY <1>3, <3>2 DEF Yielded
    <3> QED BY <3>1, <3>3
  <2>2. CASE k \notin L
    <3>1. k \in R
      BY <2>2 DEF Overlaid
    <3>2. PICK i \in 1 .. Len(right) : right[i][1] = k
      BY <1>4, <3>1
    <3>3. PICK x \in 1 .. Len(s) : s[x] = right[i]
      BY <1>3, <2>2, <3>2 DEF Yielded
    <3> QED BY <3>2, <3>3
  <2> QED BY <2>1, <2>2
<1>7. s \in Seq(Items) /\ InOrder(s, order)
  BY <1>3 DEF Yielded
<1>8. Lists(s, content, T, order)
  BY <1>5, <1>6, <1>7 DEF Lists
<1> QED BY <1>2, <1>8

-----------------------------------------------------------------------------
(* Ranges of nested transactions *)

\* g are the ranges of the storages up to the nth.
Ranges(g, n, start, end, order) ==
    g = [i \in 0 .. n |-> IF i = 0 THEN RecordsOf(base, start, end, order)
                          ELSE MergeOverlay(LocalRange(i, start, end, order), g[i - 1], order)]
RangesTo(n, start, end, order) == CHOOSE g : Ranges(g, n, start, end, order)

LEMMA RangeIsLast ==
    ASSUME NEW n, NEW start, NEW end, NEW order
    PROVE  Range_(n, start, end, order) = RangesTo(n, start, end, order)[n]
BY DEF Range_, RangesTo, Ranges

LEMMA RangesExist ==
    ASSUME NEW n \in Nat, NEW start, NEW end, NEW order
    PROVE  \E g : Ranges(g, n, start, end, order)
<1> DEFINE P == {i \in Nat : \E g : Ranges(g, i, start, end, order)}
           first == RecordsOf(base, start, end, order)
           over(i, below) == MergeOverlay(LocalRange(i, start, end, order), below, order)
<1>1. 0 \in P
  <2>1. Ranges([i \in 0 .. 0 |-> first], 0, start, end, order)
    <3>1. \A i \in 0 .. 0 : i = 0
      OBVIOUS
    <3> HIDE DEF first
    <3> QED BY <3>1 DEF Ranges, first
  <2> HIDE DEF first
  <2> QED BY <2>1
<1>2. ASSUME NEW i \in Nat, i \in P PROVE i + 1 \in P
  <2>1. PICK g : Ranges(g, i, start, end, order)
    BY <1>2
  <2> DEFINE h == [j \in 0 .. i + 1 |-> IF j = i + 1 THEN over(i + 1, g[i]) ELSE g[j]]
             H(j) == IF j = 0 THEN first ELSE over(j, h[j - 1])
  <2>2. \A j \in 0 .. i : g[j] = IF j = 0 THEN first ELSE over(j, g[j - 1])
    <3> HIDE DEF first, over
    <3> QED BY <2>1 DEF Ranges, first, over
  <2>3. \A j \in 0 .. i : h[j] = g[j]
    <3>1. \A j \in 0 .. i : j \in 0 .. i + 1 /\ j # i + 1
      BY <1>2
    <3> HIDE DEF over
    <3> QED BY <3>1
  <2>4. ASSUME NEW j \in 0 .. i + 1 PROVE h[j] = H(j)
    <3>1. CASE j = i + 1
      <4>1. h[j] = over(i + 1, g[i])
        <5> HIDE DEF over
        <5> QED BY <3>1
      <4>2. j # 0 /\ j - 1 = i /\ i \in 0 .. i
        BY <1>2, <3>1
      <4>3. h[j - 1] = g[i]
        BY <2>3, <4>2
      <4> HIDE DEF h, over, first
      <4> QED BY <3>1, <4>1, <4>2, <4>3
    <3>2. CASE j = 0
      <4>1. 0 \in 0 .. i
        BY <1>2
      <4> HIDE DEF h, first, over
      <4> QED BY <2>2, <2>3, <3>2, <4>1
    <3>3. CASE j # 0 /\ j # i + 1
      <4>1. j \in 0 .. i /\ j - 1 \in 0 .. i
        BY <1>2, <3>3
      <4> HIDE DEF h, first, over
      <4> QED BY <2>2, <2>3, <3>3, <4>1
    <3> QED BY <3>1, <3>2, <3>3
  <2>5. h = [j \in 0 .. i + 1 |-> h[j]]
    <3> HIDE DEF over
    <3> QED OBVIOUS
  <2>6. h = [j \in 0 .. i + 1 |-> H(j)]
    <3> HIDE DEF h, H
    <3> QED BY <2>4, <2>5
  <2>7. Ranges(h, i + 1, start, end, order)
    <3> HIDE DEF h
    <3> QED BY <2>6 DEF Ranges
  <2> HIDE DEF h
  <2> QED BY <1>2, <2>7
<1>3. n \in P
  <2> HIDE DEF P
  <2> QED BY <1>1, <1>2, NumberInduction
<1> QED BY <1>3

\* The keys that content shows within the bounds.
Shown(content, start, end) == {k \in Keys : content[k] # None /\ InBounds(k, start, end)}

LEMMA RecordsLists ==
    ASSUME NEW order \in Orders, NEW start, NEW end, NEW content \in [Keys -> Values \cup {None}]
    PROVE  Lists(RecordsOf(content, start, end, order), content, Shown(content, start, end), order)
<1>1. /\ Shown(content, start, end) \in SUBSET Keys
      /\ \A k \in Shown(content, start, end) : content[k] \in Deltas
  BY DEF Shown, Deltas
<1>2. RecordsOf(content, start, end, order) = Listed(content, Shown(content, start, end), order)
  BY DEF RecordsOf, Shown
<1> QED BY <1>1, <1>2, ListedLists

LEMMA ViewBelow ==
    ASSUME NEW n \in Nat \ {0}, NEW k \in Keys
    PROVE  View(n)[k] = IF caches[n].local_state[k] # NoDelta
                        THEN Content(caches[n].local_state[k]) ELSE View(n - 1)[k]
<1>1. \A m \in Nat : View(m)[k] = GetIn(base, caches, m, k)
  BY DEF View, Get, Holding, GetIn, HoldingIn
<1>2. n - 1 \in Nat
  OBVIOUS
<1>3. GetIn(base, caches, n, k) = IF caches[n].local_state[k] # NoDelta
                                 THEN Content(caches[n].local_state[k]) ELSE GetIn(base, caches, n - 1, k)
  BY GetBelow
<1> QED BY <1>1, <1>2, <1>3

LEMMA ViewType ==
    ASSUME TypeOK, NEW n \in 0 .. Depth
    PROVE  View(n) \in [Keys -> Values \cup {None}]
<1>1. \A k \in Keys : GetIn(base, caches, n, k) \in Values \cup {None}
  BY GetType DEF TypeOK, Depth
<1>2. View(n) = [k \in Keys |-> GetIn(base, caches, n, k)]
  BY DEF View, Get, Holding, GetIn, HoldingIn
<1> QED BY <1>1, <1>2

\* A transaction shows its own deltas over what the storage below it shows.
LEMMA TransactionOverlays ==
    ASSUME TypeOK, NEW n \in 1 .. Depth, NEW start, NEW end
    PROVE  Overlaid(View(n), Shown(View(n), start, end), caches[n].local_state,
                    {k \in Keys : caches[n].local_state[k] # NoDelta /\ InBounds(k, start, end)},
                    View(n - 1), Shown(View(n - 1), start, end))
<1> DEFINE local == caches[n].local_state
           L == {k \in Keys : local[k] # NoDelta /\ InBounds(k, start, end)}
<1>1. n \in Nat \ {0}
  OBVIOUS
<1>2. local \in [Keys -> Deltas \cup {NoDelta}]
  <2>1. caches[n] \in Layer
    BY ElementOfSeq DEF TypeOK, Depth
  <2> QED BY <2>1 DEF Layer
<1>3. ASSUME NEW k \in Keys
      PROVE  /\ k \in Shown(View(n), start, end)
                  <=> \/ k \in L /\ local[k] # Delete
                      \/ k \in Shown(View(n - 1), start, end) /\ k \notin L
             /\ k \in Shown(View(n), start, end)
                  => View(n)[k] = IF k \in L THEN local[k] ELSE View(n - 1)[k]
  <2>1. View(n)[k] = IF local[k] # NoDelta THEN Content(local[k]) ELSE View(n - 1)[k]
    BY <1>1, ViewBelow
  <2>2. local[k] # NoDelta =>
           Content(local[k]) = (IF local[k] = Delete THEN None ELSE local[k])
           /\ (local[k] # Delete => local[k] # None)
    BY <1>2, MarkersAssumption DEF Content, Deltas
  <2> HIDE DEF local
  <2> QED BY <2>1, <2>2 DEF Shown
<1> QED BY <1>3 DEF Overlaid

LEMMA RangeLists ==
    ASSUME TypeOK, NEW order \in Orders, NEW start, NEW end, NEW n \in 0 .. Depth
    PROVE  Lists(Range_(n, start, end, order), View(n), Shown(View(n), start, end), order)
<1>0. n \in Nat /\ Depth \in Nat
  BY LenProperties DEF TypeOK, Depth
<1>1. PICK g : g = RangesTo(n, start, end, order)
  OBVIOUS
<1>2. Ranges(g, n, start, end, order)
  <2>1. \E h : Ranges(h, n, start, end, order)
    BY <1>0, RangesExist
  <2> QED BY <1>1, <2>1 DEF RangesTo
<1>3. /\ \A i \in 0 .. n : i = 0 => g[i] = RecordsOf(base, start, end, order)
      /\ \A i \in 0 .. n : i # 0 =>
            g[i] = MergeOverlay(LocalRange(i, start, end, order), g[i - 1], order)
  BY <1>2 DEF Ranges
<1> DEFINE Good(i) == Lists(g[i], View(i), Shown(View(i), start, end), order)
           P == {i \in Nat : i <= n => Good(i)}
<1>4. 0 \in P
  <2>1. base \in [Keys -> Values \cup {None}]
    BY DEF TypeOK
  <2>2. View(0) = base
    <3>1. View(0) = [k \in Keys |-> base[k]]
      BY DEF View, Get, Holding
    <3> QED BY <2>1, <3>1
  <2>3. g[0] = RecordsOf(base, start, end, order)
    BY <1>0, <1>3
  <2> QED BY <2>1, <2>2, <2>3, RecordsLists
<1>5. ASSUME NEW i \in Nat, i \in P PROVE i + 1 \in P
  <2>1. ASSUME i + 1 <= n PROVE Good(i + 1)
    <3> DEFINE local == caches[i + 1].local_state
               L == {k \in Keys : local[k] # NoDelta /\ InBounds(k, start, end)}
               R == Shown(View(i), start, end)
               T == Shown(View(i + 1), start, end)
               left == LocalRange(i + 1, start, end, order)
    <3>1. /\ i + 1 \in 1 .. Depth /\ i \in 0 .. Depth /\ i + 1 \in 0 .. n /\ i + 1 # 0
          /\ (i + 1) - 1 = i /\ i <= n
      BY <1>0, <2>1
    <3>2. Lists(g[i], View(i), R, order)
      BY <1>5, <3>1
    <3>3. Lists(left, local, L, order)
      <4>1. local \in [Keys -> Deltas \cup {NoDelta}]
        <5>1. caches[i + 1] \in Layer
          BY <3>1, ElementOfSeq DEF TypeOK, Depth
        <5> QED BY <5>1 DEF Layer
      <4>2. L \in SUBSET Keys /\ \A k \in L : local[k] \in Deltas
        BY <4>1
      <4>3. left = Listed(local, L, order)
        BY DEF LocalRange
      <4> HIDE DEF local, L, left
      <4> QED BY <4>2, <4>3, ListedLists
    <3>4. Overlaid(View(i + 1), T, local, L, View(i), R)
      <4>1. Overlaid(View(i + 1), T, local, L, View((i + 1) - 1),
                     Shown(View((i + 1) - 1), start, end))
        BY <3>1, TransactionOverlays
      <4> QED BY <3>1, <4>1
    <3>5. g[i + 1] = MergeOverlay(left, g[i], order)
      BY <1>3, <3>1
    <3>6. L \in SUBSET Keys /\ R \in SUBSET Keys /\ T \in SUBSET Keys
      BY DEF Shown
    <3> HIDE DEF local, L, R, left
    <3>7. Lists(MergeOverlay(left, g[i], order), View(i + 1), T, order)
      <4> HIDE DEF T
      <4> QED BY <3>2, <3>3, <3>4, <3>6, MergeLists
    <3> QED BY <3>5, <3>7
  <2> QED BY <2>1
<1>6. n \in P
  <2> HIDE DEF P
  <2> QED BY <1>0, <1>4, <1>5, NumberInduction
<1>7. Good(n)
  BY <1>0, <1>6
<1> QED BY <1>1, <1>7, RangeIsLast

\* range of a transaction, nested to any depth, over any number of keys: whatever
\* was set, removed, committed and rolled back, the merge of its deltas over the range
\* below yields each record that get answers within the bounds, once and in order.
THEOREM RangesAgree == Spec => []RangeAgreesWithGet
<1>1. TypeOK => RangeAgreesWithGet
  <2> SUFFICES ASSUME TypeOK, NEW n \in 0 .. Depth, NEW start \in Bounds, NEW end \in Bounds,
                      NEW order \in Orders
               PROVE  Range_(n, start, end, order) = RecordsOf(View(n), start, end, order)
    BY DEF RangeAgreesWithGet
  <2>1. Lists(Range_(n, start, end, order), View(n), Shown(View(n), start, end), order)
    BY RangeLists
  <2>2. Lists(RecordsOf(View(n), start, end, order), View(n), Shown(View(n), start, end), order)
    BY ViewType, RecordsLists
  <2>3. Shown(View(n), start, end) \in SUBSET Keys
    BY DEF Shown
  <2> QED BY <2>1, <2>2, <2>3, ListsAreEqual
<1> QED BY <1>1, TypeCorrect, PTL

-----------------------------------------------------------------------------
(* The raw keys of namespaces within namespaces *)

LEMMA PrefixIsBytes ==
    ASSUME NEW name \in Names
    PROVE  ToLengthPrefixed(name) \in Seq(Byte)
<1> DEFINE n == Len(name)
           q == n \div Base
           r == n % Base
<1>1. Base \in Nat /\ Base > 0 /\ n \in Nat /\ n < Base * Base /\ name \in Seq(Byte)
  BY BaseAssumption, LenProperties DEF Names
<1>2. q \in Nat /\ r \in Nat /\ r < Base
  BY <1>1, LengthIsBytes
<1>3. n = Base * q + r
  BY <1>1, Z3
<1> HIDE DEF n, q, r
<1>4. ASSUME q >= Base PROVE FALSE
  <2>1. Base * q >= Base * Base
    BY <1>1, <1>2, <1>4, Z3
  <2> DEFINE product == Base * q
             square == Base * Base
  <2>2. product >= square /\ product \in Int /\ square \in Int /\ n = product + r /\ n < square
    <3>1. Base * q \in Int /\ Base * Base \in Int
      BY <1>1, <1>2, Z3
    <3> QED BY <1>1, <1>3, <2>1, <3>1
  <2> HIDE DEF product, square
  <2> QED BY <1>1, <1>2, <2>2
<1>5. q \in Byte /\ r \in Byte
  BY <1>1, <1>2, <1>4 DEF Byte
<1>6. <<q, r>> \in Seq(Byte)
  BY <1>5
<1>7. ToLengthPrefixed(name) = <<q, r>> \o name
  BY DEF ToLengthPrefixed, EncodeLength, n, q, r
<1> QED BY <1>1, <1>6, <1>7, ConcatProperties

\* g are the first n steps of flattening seqs.
Flattens(g, n, seqs) ==
    g = [i \in 1 .. n |-> IF i = 1 THEN seqs[i] ELSE g[i - 1] \o seqs[i]]

LEMMA FlattenIsLast ==
    ASSUME NEW seqs, Len(seqs) # 0
    PROVE  FlattenSeq(seqs) = (CHOOSE g : Flattens(g, Len(seqs), seqs))[Len(seqs)]
BY DEF FlattenSeq, Flattens

LEMMA FlattensExist ==
    ASSUME NEW seqs, NEW n \in Nat
    PROVE  \E g : Flattens(g, n, seqs)
<1> DEFINE P == {i \in Nat : \E g : Flattens(g, i, seqs)}
<1>1. 0 \in P
  <2>1. 1 .. 0 = {}
    OBVIOUS
  <2>2. Flattens([i \in {} |-> 0], 0, seqs)
    BY <2>1 DEF Flattens
  <2> QED BY <2>2
<1>2. ASSUME NEW i \in Nat, i \in P PROVE i + 1 \in P
  <2>1. PICK g : Flattens(g, i, seqs)
    BY <1>2
  <2> DEFINE next == IF i = 0 THEN seqs[1] ELSE g[i] \o seqs[i + 1]
             h == [j \in 1 .. i + 1 |-> IF j = i + 1 THEN next ELSE g[j]]
             H(j) == IF j = 1 THEN seqs[j] ELSE h[j - 1] \o seqs[j]
  <2>2. \A j \in 1 .. i : g[j] = IF j = 1 THEN seqs[j] ELSE g[j - 1] \o seqs[j]
    BY <2>1 DEF Flattens
  <2>3. \A j \in 1 .. i : h[j] = g[j]
    <3>1. \A j \in 1 .. i : j \in 1 .. i + 1 /\ j # i + 1
      BY <1>2
    <3> QED BY <3>1
  <2>4. ASSUME NEW j \in 1 .. i + 1 PROVE h[j] = H(j)
    <3>1. CASE j = i + 1 /\ i = 0
      BY <3>1
    <3>2. CASE j = i + 1 /\ i # 0
      <4>0. h[j] = next
        <5> HIDE DEF next
        <5> QED BY <3>2
      <4>3. next = g[i] \o seqs[j]
        BY <3>2
      <4>1. h[j] = g[i] \o seqs[j] /\ j # 1 /\ j - 1 = i /\ i \in 1 .. i
        <5> HIDE DEF h, next
        <5> QED BY <1>2, <3>2, <4>0, <4>3
      <4>2. h[j - 1] = g[i]
        BY <2>3, <4>1
      <4> HIDE DEF h
      <4> QED BY <4>1, <4>2
    <3>3. CASE j # i + 1
      <4>1. j \in 1 .. i /\ (j # 1 => j - 1 \in 1 .. i)
        BY <1>2, <3>3
      <4> HIDE DEF h
      <4> QED BY <2>2, <2>3, <4>1
    <3> QED BY <3>1, <3>2, <3>3
  <2>5. h = [j \in 1 .. i + 1 |-> h[j]]
    OBVIOUS
  <2>6. h = [j \in 1 .. i + 1 |-> H(j)]
    <3> HIDE DEF h, H
    <3> QED BY <2>4, <2>5
  <2>7. Flattens(h, i + 1, seqs)
    <3> HIDE DEF h
    <3> QED BY <2>6 DEF Flattens
  <2> HIDE DEF h
  <2> QED BY <1>2, <2>7
<1>3. n \in P
  <2> HIDE DEF P
  <2> QED BY <1>1, <1>2, NumberInduction
<1> QED BY <1>3

\* Sequences that begin alike are flattened alike.
LEMMA FlattensAgree ==
    ASSUME NEW m \in Nat, NEW n \in Nat, m <= n, NEW s, NEW t, NEW g, NEW h,
           Flattens(g, m, s), Flattens(h, n, t), \A i \in 1 .. m : s[i] = t[i]
    PROVE  \A i \in 1 .. m : g[i] = h[i]
<1> DEFINE P == {i \in Nat : i \in 1 .. m => g[i] = h[i]}
<1>1. 0 \in P
  OBVIOUS
<1>2. ASSUME NEW i \in Nat, i \in P PROVE i + 1 \in P
  <2> SUFFICES ASSUME i + 1 \in 1 .. m PROVE g[i + 1] = h[i + 1]
    OBVIOUS
  <2> DEFINE j == i + 1
  <2>1. j \in 1 .. m /\ j \in 1 .. n /\ (j # 1 => i \in 1 .. m) /\ j - 1 = i
    BY <1>2
  <2> HIDE DEF j
  <2>2. g[j] = IF j = 1 THEN s[j] ELSE g[j - 1] \o s[j]
    BY <2>1 DEF Flattens
  <2>3. h[j] = IF j = 1 THEN t[j] ELSE h[j - 1] \o t[j]
    BY <2>1 DEF Flattens
  <2>4. g[j] = h[j]
    BY <1>2, <2>1, <2>2, <2>3
  <2> QED BY <2>4 DEF j
<1>3. \A i \in Nat : i \in P
  <2> HIDE DEF P
  <2> QED BY <1>1, <1>2, NumberInduction
<1> QED BY <1>3

LEMMA NestedOfNothing == ToLengthPrefixedNested(<<>>) = <<>>
<1>1. DOMAIN <<>> = {} /\ [i \in {} |-> ToLengthPrefixed(<<>>[i])] = <<>>
  OBVIOUS
<1>2. [i \in DOMAIN <<>> |-> ToLengthPrefixed(<<>>[i])] = <<>>
  BY <1>1
<1>3. Len(<<>>) = 0
  OBVIOUS
<1>4. FlattenSeq(<<>>) = <<>>
  BY <1>3 DEF FlattenSeq
<1> QED BY <1>2, <1>4 DEF ToLengthPrefixedNested

LEMMA NestedAppend ==
    ASSUME NEW path \in Seq(Names), NEW name \in Names
    PROVE  ToLengthPrefixedNested(Append(path, name))
             = ToLengthPrefixedNested(path) \o ToLengthPrefixed(name)
<1> DEFINE n == Len(path)
           longer == Append(path, name)
           s == [i \in DOMAIN path |-> ToLengthPrefixed(path[i])]
           t == [i \in DOMAIN longer |-> ToLengthPrefixed(longer[i])]
<1>1. /\ n \in Nat /\ DOMAIN path = 1 .. n /\ DOMAIN longer = 1 .. n + 1
      /\ \A i \in 1 .. n : longer[i] = path[i]
      /\ longer[n + 1] = name
  BY LenProperties, AppendProperties
<1>2. Len(s) = n /\ Len(t) = n + 1
  <2>1. s \in Seq({ToLengthPrefixed(x) : x \in Names}) /\ Len(s) = n
    BY <1>1, ElementOfSeq, IsASeq
  <2>2. longer \in Seq(Names)
    BY AppendProperties
  <2>3. t \in Seq({ToLengthPrefixed(x) : x \in Names}) /\ Len(t) = n + 1
    BY <1>1, <2>2, ElementOfSeq, IsASeq
  <2> QED BY <2>1, <2>3
<1>3. (\A i \in 1 .. n : s[i] = t[i]) /\ t[n + 1] = ToLengthPrefixed(name)
  <2>1. ASSUME NEW i \in 1 .. n PROVE s[i] = t[i]
    <3>1. i \in 1 .. n + 1
      BY <1>1
    <3> QED BY <1>1, <3>1
  <2>2. n + 1 \in 1 .. n + 1
    BY <1>1
  <2> QED BY <1>1, <2>1, <2>2
<1> DEFINE h == CHOOSE h : Flattens(h, n + 1, t)
           g == CHOOSE g : Flattens(g, n, s)
<1>4. ToLengthPrefixedNested(longer) = FlattenSeq(t) /\ ToLengthPrefixedNested(path) = FlattenSeq(s)
  BY DEF ToLengthPrefixedNested
<1> HIDE DEF n, longer, s, t
<1>5. Flattens(h, n + 1, t) /\ Flattens(g, n, s)
  <2>1. (\E x : Flattens(x, n + 1, t)) /\ (\E x : Flattens(x, n, s))
    <3>1. n \in Nat /\ n + 1 \in Nat
      BY <1>1
    <3> HIDE DEF g, h
    <3> QED BY <3>1, FlattensExist
  <2> QED BY <2>1
<1>6. FlattenSeq(t) = h[n + 1]
  BY <1>1, <1>2, FlattenIsLast
<1>7. h[n + 1] = IF n = 0 THEN t[n + 1] ELSE h[n] \o t[n + 1]
  <2> HIDE DEF h
  <2>1. n + 1 \in 1 .. n + 1 /\ (n + 1) - 1 = n /\ (n + 1 = 1 <=> n = 0)
    BY <1>1
  <2> DEFINE F(i) == IF i = 1 THEN t[i] ELSE h[i - 1] \o t[i]
  <2>2. h = [i \in 1 .. n + 1 |-> F(i)]
    BY <1>5 DEF Flattens
  <2>3. h[n + 1] = F(n + 1)
    <3> HIDE DEF F
    <3> QED BY <2>1, <2>2
  <2> QED BY <2>1, <2>3
<1>8. CASE n = 0
  <2>1. path = <<>>
    BY <1>8, EmptySeq DEF n
  <2>2. ToLengthPrefixedNested(path) = <<>>
    BY <2>1, NestedOfNothing
  <2>3. <<>> \o ToLengthPrefixed(name) = ToLengthPrefixed(name)
    BY PrefixIsBytes, ConcatEmptySeq
  <2> QED BY <1>3, <1>4, <1>6, <1>7, <1>8, <2>2, <2>3 DEF longer
<1>9. CASE n # 0
  <2>1. FlattenSeq(s) = g[n]
    BY <1>2, <1>9, FlattenIsLast
  <2> HIDE DEF g, h
  <2>2. \A i \in 1 .. n : g[i] = h[i]
    BY <1>1, <1>3, <1>5, FlattensAgree
  <2>3. g[n] = h[n]
    BY <1>1, <1>9, <2>2
  <2> QED BY <1>3, <1>4, <1>6, <1>7, <1>9, <2>1, <2>3 DEF longer
<1> QED BY <1>8, <1>9

Regroups(s, t, u) == (s \o t) \o u = s \o (t \o u)

LEMMA BytesRegroup == \A s, t, u \in Seq(Byte) : Regroups(s, t, u)
<1> TAKE s, t, u \in Seq(Byte)
<1> QED BY ConcatAssociative DEF Regroups

LEMMA NamesRegroup == \A s, t, u \in Seq(Names) : Regroups(s, t, u)
<1> TAKE s, t, u \in Seq(Names)
<1> QED BY ConcatAssociative DEF Regroups

LEMMA NestedIsBytes ==
    ASSUME NEW path \in Seq(Names)
    PROVE  ToLengthPrefixedNested(path) \in Seq(Byte)
<1> DEFINE P == {n \in Nat : \A p \in Seq(Names) : Len(p) = n => ToLengthPrefixedNested(p) \in Seq(Byte)}
<1>1. 0 \in P
  <2>1. ASSUME NEW p \in Seq(Names), Len(p) = 0 PROVE ToLengthPrefixedNested(p) \in Seq(Byte)
    <3>1. p = <<>>
      BY <2>1, EmptySeq
    <3> QED BY <3>1, NestedOfNothing, EmptySeq
  <2> QED BY <2>1
<1>2. ASSUME NEW n \in Nat, n \in P PROVE n + 1 \in P
  <2>1. ASSUME NEW p \in Seq(Names), Len(p) = n + 1 PROVE ToLengthPrefixedNested(p) \in Seq(Byte)
    <3>1. p # <<>>
      BY <2>1, EmptySeq
    <3>2. PICK q \in Seq(Names), name \in Names : p = Append(q, name)
      BY <3>1, SequenceEmptyOrAppend
    <3>3. Len(q) = n
      <4>1. Len(p) = Len(q) + 1 /\ Len(q) \in Nat
        BY <3>2, AppendProperties, LenProperties
      <4> QED BY <2>1, <4>1
    <3>4. ToLengthPrefixedNested(q) \in Seq(Byte)
      BY <1>2, <3>3
    <3>5. ToLengthPrefixedNested(p) = ToLengthPrefixedNested(q) \o ToLengthPrefixed(name)
      BY <3>2, NestedAppend
    <3> QED BY <3>4, <3>5, PrefixIsBytes, ConcatProperties
  <2> QED BY <2>1
<1>3. \A n \in Nat : n \in P
  <2> HIDE DEF P
  <2> QED BY <1>1, <1>2, NumberInduction
<1>4. Len(path) \in Nat
  BY LenProperties
<1> QED BY <1>3, <1>4

LEMMA NestedConcat ==
    ASSUME NEW outer \in Seq(Names), NEW within \in Seq(Names)
    PROVE  ToLengthPrefixedNested(outer \o within)
             = ToLengthPrefixedNested(outer) \o ToLengthPrefixedNested(within)
<1> DEFINE Holds(q) == ToLengthPrefixedNested(outer \o q)
                         = ToLengthPrefixedNested(outer) \o ToLengthPrefixedNested(q)
           P == {n \in Nat : \A q \in Seq(Names) : Len(q) = n => Holds(q)}
<1>1. 0 \in P
  <2>1. ASSUME NEW q \in Seq(Names), Len(q) = 0 PROVE Holds(q)
    <3>1. q = <<>>
      BY <2>1, EmptySeq
    <3>2. outer \o q = outer
      BY <3>1, ConcatEmptySeq
    <3>3. ToLengthPrefixedNested(outer) \o <<>> = ToLengthPrefixedNested(outer)
      BY NestedIsBytes, ConcatEmptySeq
    <3> QED BY <3>1, <3>2, <3>3, NestedOfNothing
  <2> QED BY <2>1
<1>2. ASSUME NEW n \in Nat, n \in P PROVE n + 1 \in P
  <2>1. ASSUME NEW q \in Seq(Names), Len(q) = n + 1 PROVE Holds(q)
    <3>1. q # <<>>
      BY <2>1, EmptySeq
    <3>2. PICK p \in Seq(Names), name \in Names : q = Append(p, name)
      BY <3>1, SequenceEmptyOrAppend
    <3>3. Len(p) = n
      <4>1. Len(q) = Len(p) + 1 /\ Len(p) \in Nat
        BY <3>2, AppendProperties, LenProperties
      <4> QED BY <2>1, <4>1
    <3>4. Holds(p)
      BY <1>2, <3>3
    <3>5. outer \o q = Append(outer \o p, name) /\ outer \o p \in Seq(Names)
      <4>1. <<name>> \in Seq(Names)
        OBVIOUS
      <4>2. q = p \o <<name>>
        BY <3>2, AppendIsConcat
      <4>3. outer \o p \in Seq(Names)
        BY ConcatProperties
      <4>4. Append(outer \o p, name) = (outer \o p) \o <<name>>
        BY <4>3, AppendIsConcat
      <4>5. Regroups(outer, p, <<name>>)
        BY <4>1, NamesRegroup
      <4> QED BY <4>2, <4>3, <4>4, <4>5 DEF Regroups
    <3> DEFINE a == ToLengthPrefixedNested(outer)
               b == ToLengthPrefixedNested(p)
               c == ToLengthPrefixed(name)
    <3>6. ToLengthPrefixedNested(outer \o q) = ToLengthPrefixedNested(outer \o p) \o c
      BY <3>5, NestedAppend
    <3>7. ToLengthPrefixedNested(q) = b \o c
      BY <3>2, NestedAppend
    <3>8. (a \o b) \o c = a \o (b \o c)
      <4>1. a \in Seq(Byte) /\ b \in Seq(Byte) /\ c \in Seq(Byte)
        BY NestedIsBytes, PrefixIsBytes
      <4> HIDE DEF a, b, c
      <4>2. Regroups(a, b, c)
        BY <4>1, BytesRegroup
      <4> QED BY <4>2 DEF Regroups
    <3> QED BY <3>4, <3>6, <3>7, <3>8
  <2> HIDE DEF Holds
  <2> QED BY <2>1
<1>3. \A n \in Nat : n \in P
  <2> HIDE DEF P
  <2> QED BY <1>1, <1>2, NumberInduction
<1>4. Len(within) \in Nat
  BY LenProperties
<1> QED BY <1>3, <1>4

LEMMA NestedOfOne ==
    ASSUME NEW name \in Names
    PROVE  ToLengthPrefixedNested(<<name>>) = ToLengthPrefixed(name)
<1>1. <<>> \in Seq(Names) /\ <<name>> = Append(<<>>, name)
  BY EmptySeq
<1>2. ToLengthPrefixedNested(<<name>>) = <<>> \o ToLengthPrefixed(name)
  BY <1>1, NestedAppend, NestedOfNothing
<1> QED BY <1>2, PrefixIsBytes, ConcatEmptySeq

LEMMA FirstAndRest ==
    ASSUME NEW S, NEW s \in Seq(S), s # <<>>
    PROVE  Head(s) \in S /\ Tail(s) \in Seq(S) /\ s = <<Head(s)>> \o Tail(s)
<1>1. Head(s) \in S /\ Tail(s) \in Seq(S) /\ Len(s) \in Nat \ {0}
  BY HeadTailProperties, EmptySeq
<1>2. SubSeq(s, 1, Len(s)) = <<s[1]>> \o SubSeq(s, 2, Len(s))
  <2>1. 1 \in 1 .. Len(s) /\ Len(s) \in 1 .. Len(s)
    BY <1>1
  <2>2. SubSeq(s, 1, Len(s)) = <<s[1]>> \o SubSeq(s, 1 + 1, Len(s))
    BY <2>1, SubSeqRecursiveFirst
  <2> QED BY <2>2
<1>3. s[1] = Head(s)
  OBVIOUS
<1> QED BY <1>1, <1>2, <1>3, SubSeqFull, TailIsSubSeq

\* l, behind the names of within, is what k is.
Behind(path, k, outer, l) ==
    \E within \in Seq(Names) : path = outer \o within /\ l = ToLengthPrefixedNested(within) \o k

\* Two keys in two namespaces are only the same if one of these is within the other.
LEMMA RawKeysMeet ==
    ASSUME NEW p \in Seq(Names), NEW q \in Seq(Names), NEW k \in Seq(Byte), NEW l \in Seq(Byte),
           ToLengthPrefixedNested(p) \o k = ToLengthPrefixedNested(q) \o l
    PROVE  Behind(p, k, q, l) \/ Behind(q, l, p, k)
<1> DEFINE Same(x, y, a, b) == ToLengthPrefixedNested(x) \o a = ToLengthPrefixedNested(y) \o b
           Meet(x, y, a, b) == Behind(x, a, y, b) \/ Behind(y, b, x, a)
           P == {n \in Nat : \A x, y \in Seq(Names), a, b \in Seq(Byte) :
                   Len(x) = n /\ Same(x, y, a, b) => Meet(x, y, a, b)}
<1>1. ASSUME NEW x \in Seq(Names), NEW a \in Seq(Byte), NEW b \in Seq(Byte), Same(<<>>, x, a, b)
      PROVE  Behind(x, b, <<>>, a)
  <2>1. ToLengthPrefixedNested(<<>>) \o a = a
    BY NestedOfNothing, ConcatEmptySeq
  <2>2. x = <<>> \o x
    BY ConcatEmptySeq
  <2> QED BY <1>1, <2>1, <2>2 DEF Behind
<1>2. 0 \in P
  <2>1. ASSUME NEW x \in Seq(Names), NEW y \in Seq(Names), NEW a \in Seq(Byte), NEW b \in Seq(Byte),
               Len(x) = 0, Same(x, y, a, b)
        PROVE  Meet(x, y, a, b)
    <3>1. x = <<>>
      BY <2>1, EmptySeq
    <3> QED BY <1>1, <2>1, <3>1
  <2> HIDE DEF Same, Meet
  <2> QED BY <2>1
<1>3. ASSUME NEW n \in Nat, n \in P PROVE n + 1 \in P
  <2>1. ASSUME NEW x \in Seq(Names), NEW y \in Seq(Names), NEW a \in Seq(Byte), NEW b \in Seq(Byte),
               Len(x) = n + 1, Same(x, y, a, b)
        PROVE  Meet(x, y, a, b)
    <3>1. CASE y = <<>>
      <4>1. Same(<<>>, x, b, a)
        BY <2>1, <3>1
      <4>2. Behind(x, a, <<>>, b)
        <5> HIDE DEF Same
        <5> QED BY <1>1, <4>1
      <4> QED BY <3>1, <4>2
    <3>2. CASE y # <<>>
      <4>1. x # <<>>
        BY <2>1, EmptySeq
      <4>2. PICK e \in Names, s \in Seq(Names) : x = <<e>> \o s /\ s = Tail(x)
        BY <4>1, FirstAndRest
      <4>3. PICK f \in Names, t \in Seq(Names) : y = <<f>> \o t /\ t = Tail(y)
        BY <3>2, FirstAndRest
      <4>4. Len(s) = n
        <5>1. Len(Tail(x)) = Len(x) - 1
          BY <4>1, HeadTailProperties
        <5> QED BY <2>1, <4>2, <5>1
      <4> DEFINE u == ToLengthPrefixedNested(s) \o a
                 v == ToLengthPrefixedNested(t) \o b
      <4>5. ASSUME NEW g \in Names, NEW z \in Seq(Names), NEW c \in Seq(Byte)
            PROVE  /\ ToLengthPrefixedNested(<<g>> \o z) \o c
                        = ToLengthPrefixed(g) \o (ToLengthPrefixedNested(z) \o c)
                   /\ ToLengthPrefixedNested(z) \o c \in Seq(Byte)
        <5>1. <<g>> \in Seq(Names)
          OBVIOUS
        <5>2. ToLengthPrefixedNested(<<g>> \o z) = ToLengthPrefixed(g) \o ToLengthPrefixedNested(z)
          BY <5>1, NestedConcat, NestedOfOne
        <5>3. ToLengthPrefixed(g) \in Seq(Byte) /\ ToLengthPrefixedNested(z) \in Seq(Byte)
          BY PrefixIsBytes, NestedIsBytes
        <5>4. ToLengthPrefixedNested(z) \o c \in Seq(Byte)
          BY <5>3, ConcatProperties
        <5>6. (ToLengthPrefixed(g) \o ToLengthPrefixedNested(z)) \o c
                = ToLengthPrefixed(g) \o (ToLengthPrefixedNested(z) \o c)
          <6> DEFINE front == ToLengthPrefixed(g)
                     names == ToLengthPrefixedNested(z)
          <6>1. front \in Seq(Byte) /\ names \in Seq(Byte)
            BY <5>3
          <6> HIDE DEF front, names
          <6>2. Regroups(front, names, c)
            BY <6>1, BytesRegroup
          <6> QED BY <6>2 DEF Regroups, front, names
        <5> QED BY <5>2, <5>4, <5>6
      <4>6. ToLengthPrefixed(e) \o u = ToLengthPrefixed(f) \o v /\ u \in Seq(Byte) /\ v \in Seq(Byte)
        BY <2>1, <4>2, <4>3, <4>5
      <4>7. e = f /\ u = v
        <5> HIDE DEF u, v
        <5> DEFINE bytes == ToLengthPrefixed(e) \o u
        <5>1. IsRawKey(e, u, bytes) /\ bytes = ToLengthPrefixed(f) \o v
          BY <4>6, RawKey
        <5> HIDE DEF bytes
        <5>2. IsRawKey(f, v, bytes)
          BY <4>6, <5>1, RawKey
        <5> QED BY <4>6, <5>1, <5>2, RawKeyIsUnique
      <4>8. Meet(s, t, a, b)
        <5>1. Same(s, t, a, b)
          BY <4>7
        <5> HIDE DEF Same, Meet
        <5> QED BY <1>3, <4>4, <5>1
      <4>9. ASSUME NEW r \in Seq(Names), NEW w \in Seq(Names)
            PROVE  <<e>> \o (r \o w) = (<<e>> \o r) \o w
        <5>1. <<e>> \in Seq(Names)
          OBVIOUS
        <5> DEFINE one == <<e>>
        <5> HIDE DEF one
        <5>2. one \in Seq(Names)
          BY <5>1 DEF one
        <5>3. Regroups(one, r, w)
          BY <5>2, NamesRegroup
        <5> QED BY <5>3 DEF Regroups, one
      <4>10. CASE Behind(s, a, t, b)
        <5>1. PICK w \in Seq(Names) : s = t \o w /\ b = ToLengthPrefixedNested(w) \o a
          BY <4>10 DEF Behind
        <5>2. x = y \o w
          BY <4>2, <4>3, <4>7, <4>9, <5>1
        <5> QED BY <5>1, <5>2 DEF Behind
      <4>11. CASE Behind(t, b, s, a)
        <5>1. PICK w \in Seq(Names) : t = s \o w /\ a = ToLengthPrefixedNested(w) \o b
          BY <4>11 DEF Behind
        <5>2. y = x \o w
          BY <4>2, <4>3, <4>7, <4>9, <5>1
        <5> QED BY <5>1, <5>2 DEF Behind
      <4> QED BY <4>8, <4>10, <4>11
    <3> QED BY <3>1, <3>2
  <2> HIDE DEF Same, Meet
  <2> QED BY <2>1
<1>4. Len(p) \in P
  <2>1. \A n \in Nat : n \in P
    <3> HIDE DEF P
    <3> QED BY <1>2, <1>3, NumberInduction
  <2> QED BY <2>1, LenProperties
<1>5. Meet(p, q, k, l)
  <2>1. Same(p, q, k, l)
    OBVIOUS
  <2> HIDE DEF Same, Meet
  <2> QED BY <1>4, <2>1
<1> QED BY <1>5

LEMMA BytesCancel ==
    ASSUME NEW s \in Seq(Byte), NEW t \in Seq(Byte), NEW u \in Seq(Byte), s \o t = s \o u
    PROVE  t = u
<1>1. \A S : \A x, y, z \in Seq(S) : x \o y = x \o z => y = z
  BY ConcatSimplifications
<1>2. \A x, y, z \in Seq(Byte) : x \o y = x \o z => y = z
  BY <1>1, Zenon
<1> QED BY <1>2, Zenon

LEMMA PrefixSplits ==
    ASSUME NEW S, NEW s \in Seq(S), NEW t \in Seq(S), IsPrefix(s, t)
    PROVE  Trim(s, t) \in Seq(S) /\ t = s \o Trim(s, t)
<1>1. Len(s) \in Nat /\ Len(t) \in Nat /\ Len(s) <= Len(t) /\ SubSeq(s, 1, Len(s)) = SubSeq(t, 1, Len(s))
  BY LenProperties DEF IsPrefix
<1>2. SubSeq(t, 1, Len(s)) = s /\ SubSeq(t, 1, Len(t)) = t
  BY <1>1, SubSeqFull
<1>3. SubSeq(t, 1, Len(s)) \o SubSeq(t, Len(s) + 1, Len(t)) = SubSeq(t, 1, Len(t))
  <2>1. 1 \in 1 .. Len(t) + 1 /\ Len(s) \in 1 - 1 .. Len(t) /\ Len(t) \in Len(s) .. Len(t)
    BY <1>1
  <2> QED BY <2>1, ConcatAdjacentSubSeq
<1>4. SubSeq(t, Len(s) + 1, Len(t)) \in Seq(S)
  <2>1. \A i \in Len(s) + 1 .. Len(t) : t[i] \in S
    <3>1. \A i \in Len(s) + 1 .. Len(t) : i \in 1 .. Len(t)
      BY <1>1
    <3> QED BY <3>1, ElementOfSeq
  <2>2. Len(s) + 1 \in Int /\ Len(t) \in Int
    BY <1>1
  <2> QED BY <2>1, <2>2, SubSeqProperties
<1> QED BY <1>2, <1>3, <1>4 DEF Trim

LEMMA PrefixOfConcat ==
    ASSUME NEW S, NEW s \in Seq(S), NEW r \in Seq(S)
    PROVE  IsPrefix(s, s \o r) /\ Trim(s, s \o r) = r
<1> DEFINE t == s \o r
           m == Len(s)
           n == Len(r)
<1>1. m \in Nat /\ n \in Nat /\ Len(t) = m + n
  BY LenProperties, ConcatProperties
<1>2. SubSeq(s, 1, m) = SubSeq(t, 1, m)
  <2>1. CASE m = 0
    <3>1. SubSeq(s, 1, 0) = <<>> /\ SubSeq(t, 1, 0) = <<>>
      BY SubSeqEmpty
    <3> QED BY <2>1, <3>1
  <2>2. CASE m # 0
    <3>1. 1 \in 1 .. Len(s) /\ m \in 1 .. Len(s)
      BY <1>1, <2>2
    <3> QED BY <3>1, SubSeqOfConcat1
  <2> QED BY <2>1, <2>2
<1>3. SubSeq(t, m + 1, m + n) = r
  <2>1. CASE n = 0
    <3>1. SubSeq(t, m + 1, m + n) = <<>>
      BY <1>1, <2>1, SubSeqEmpty
    <3> QED BY <2>1, <3>1, EmptySeq
  <2>2. CASE n # 0
    <3>1. m + 1 \in Len(s) + 1 .. Len(s) + Len(r) /\ m + n \in Len(s) + 1 .. Len(s) + Len(r)
      BY <1>1, <2>2
    <3>2. SubSeq(t, m + 1, m + n) = SubSeq(r, (m + 1) - Len(s), (m + n) - Len(s))
      BY <3>1, SubSeqOfConcat2
    <3>3. (m + 1) - Len(s) = 1 /\ (m + n) - Len(s) = Len(r)
      BY <1>1
    <3> QED BY <3>2, <3>3, SubSeqFull
  <2> QED BY <2>1, <2>2
<1>4. m <= Len(t)
  BY <1>1
<1> QED BY <1>1, <1>2, <1>3, <1>4 DEF IsPrefix, Trim

LEMMA PrefixesOfEachOther ==
    ASSUME NEW S, NEW s \in Seq(S), NEW t \in Seq(S), IsPrefix(s, t), IsPrefix(t, s)
    PROVE  s = t
<1>1. Len(s) \in Nat /\ Len(t) \in Nat /\ Len(s) = Len(t)
  <2>1. Len(s) \in Nat /\ Len(t) \in Nat
    BY LenProperties
  <2>2. Len(s) <= Len(t) /\ Len(t) <= Len(s)
    BY DEF IsPrefix
  <2> QED BY <2>1, <2>2
<1>2. SubSeq(s, 1, Len(s)) = SubSeq(t, 1, Len(s))
  BY DEF IsPrefix
<1> QED BY <1>1, <1>2, SubSeqFull

LEMMA PathsAreNames == Paths \subseteq Seq(Names) \ {<<>>}
<1> SUFFICES ASSUME NEW path \in Paths
             PROVE  path \in Seq(Names) /\ path # <<>>
  OBVIOUS
<1>1. path \in Seq(Seq(Byte)) /\ path # <<>> /\ \A i \in DOMAIN path : Len(path[i]) < Base * Base
  BY PathsAssumption
<1>2. Len(path) \in Nat /\ DOMAIN path = 1 .. Len(path) /\ path = [i \in 1 .. Len(path) |-> path[i]]
  BY <1>1, LenProperties
<1>3. \A i \in 1 .. Len(path) : path[i] \in Names
  BY <1>1, <1>2, ElementOfSeq DEF Names
<1>4. [i \in 1 .. Len(path) |-> path[i]] \in Seq(Names)
  BY <1>2, <1>3, IsASeq
<1> QED BY <1>1, <1>2, <1>4

\* The bytes under which a key is stored through the views of a path.
RawKeyOf(path, key) == ToLengthPrefixedNested(path) \o key

LEMMA RawKeyWithin ==
    ASSUME NEW p \in Seq(Names), NEW w \in Seq(Names), NEW k \in Seq(Byte)
    PROVE  /\ RawKeyOf(p \o w, k) = RawKeyOf(p, ToLengthPrefixedNested(w) \o k)
           /\ ToLengthPrefixedNested(w) \o k \in Seq(Byte)
<1>1. ToLengthPrefixedNested(p) \in Seq(Byte) /\ ToLengthPrefixedNested(w) \in Seq(Byte)
  BY NestedIsBytes
<1>2. ToLengthPrefixedNested(p \o w) = ToLengthPrefixedNested(p) \o ToLengthPrefixedNested(w)
  BY NestedConcat
<1>3. (ToLengthPrefixedNested(p) \o ToLengthPrefixedNested(w)) \o k
        = ToLengthPrefixedNested(p) \o (ToLengthPrefixedNested(w) \o k)
  <2> DEFINE outer == ToLengthPrefixedNested(p)
             inner == ToLengthPrefixedNested(w)
  <2>1. outer \in Seq(Byte) /\ inner \in Seq(Byte)
    BY <1>1
  <2> HIDE DEF outer, inner
  <2>2. Regroups(outer, inner, k)
    BY <2>1, BytesRegroup
  <2> QED BY <2>2 DEF Regroups, outer, inner
<1> QED BY <1>1, <1>2, <1>3, ConcatProperties DEF RawKeyOf

LEMMA RawKeyDecides ==
    ASSUME NEW p \in Seq(Names), NEW k \in Seq(Byte), NEW l \in Seq(Byte),
           RawKeyOf(p, k) = RawKeyOf(p, l)
    PROVE  k = l
BY NestedIsBytes, BytesCancel DEF RawKeyOf

\* A view has a word for a record exactly if the two have the same raw key.
LEMMA SeenIsSameKey ==
    ASSUME NEW q \in Paths, NEW record, record.path \in Paths, record.key \in Seq(Byte)
    PROVE  SeenFrom(q, record)
             = {l \in Seq(Byte) : RawKeyOf(q, l) = RawKeyOf(record.path, record.key)}
<1> DEFINE p == record.path
           k == record.key
           Same == {l \in Seq(Byte) : RawKeyOf(q, l) = RawKeyOf(p, k)}
<1>1. p \in Seq(Names) /\ q \in Seq(Names) /\ k \in Seq(Byte)
  BY PathsAreNames
<1>2. CASE q = p
  <2>1. SeenFrom(q, record) = {k}
    BY <1>2 DEF SeenFrom, IsStrictPrefix
  <2>2. \A l \in Seq(Byte) : RawKeyOf(q, l) = RawKeyOf(p, k) => l = k
    BY <1>1, <1>2, RawKeyDecides
  <2>3. k \in Same
    BY <1>1, <1>2
  <2>4. Same = {k}
    <3> HIDE DEF p, k
    <3> QED BY <2>2, <2>3
  <2> QED BY <2>1, <2>4
<1>3. CASE q # p /\ IsStrictPrefix(q, p)
  <2> DEFINE w == Trim(q, p)
             m == ToLengthPrefixedNested(w) \o k
  <2>1. w \in Seq(Names) /\ p = q \o w
    BY <1>1, <1>3, PrefixSplits DEF IsStrictPrefix
  <2>2. SeenFrom(q, record) = {m}
    <3>1. ~IsStrictPrefix(p, q)
      <4>1. IsPrefix(q, p)
        BY <1>3 DEF IsStrictPrefix
      <4>2. IsPrefix(p, q) => p = q
        BY <1>1, <4>1, PrefixesOfEachOther
      <4> QED BY <1>3, <4>2 DEF IsStrictPrefix
    <3> QED BY <1>3, <3>1 DEF SeenFrom
  <2> HIDE DEF p, k, w
  <2>3. RawKeyOf(p, k) = RawKeyOf(q, m) /\ m \in Seq(Byte)
    BY <1>1, <2>1, RawKeyWithin
  <2> HIDE DEF m
  <2>4. \A l \in Seq(Byte) : RawKeyOf(q, l) = RawKeyOf(q, m) => l = m
    BY <1>1, <2>3, RawKeyDecides
  <2>5. Same = {m}
    BY <2>3, <2>4
  <2> QED BY <2>2, <2>5 DEF p, k
<1>4. CASE q # p /\ ~IsStrictPrefix(q, p) /\ IsStrictPrefix(p, q)
  <2> DEFINE w == Trim(p, q)
             within == ToLengthPrefixedNested(w)
             seen == {Trim(within, x) : x \in {x \in {k} : IsPrefix(within, x)}}
  <2>1. w \in Seq(Names) /\ q = p \o w
    BY <1>1, <1>4, PrefixSplits DEF IsStrictPrefix
  <2>2. SeenFrom(q, record) = seen
    BY <1>4 DEF SeenFrom
  <2> HIDE DEF p, k, w
  <2>3. within \in Seq(Byte)
    BY <2>1, NestedIsBytes
  <2>4. ASSUME NEW l \in Seq(Byte)
        PROVE  RawKeyOf(q, l) = RawKeyOf(p, within \o l) /\ within \o l \in Seq(Byte)
    BY <1>1, <2>1, RawKeyWithin
  <2> HIDE DEF within
  <2>5. ASSUME NEW l \in Same PROVE l \in seen
    <3>1. l \in Seq(Byte) /\ RawKeyOf(p, within \o l) = RawKeyOf(p, k)
      BY <2>4
    <3>2. within \o l = k
      BY <1>1, <2>4, <3>1, RawKeyDecides
    <3>3. IsPrefix(within, k) /\ Trim(within, k) = l
      BY <2>3, <3>1, <3>2, PrefixOfConcat
    <3> QED BY <3>3
  <2>6. ASSUME NEW l \in seen PROVE l \in Same
    <3>1. IsPrefix(within, k) /\ l = Trim(within, k)
      OBVIOUS
    <3>2. l \in Seq(Byte) /\ k = within \o l
      BY <1>1, <2>3, <3>1, PrefixSplits
    <3> QED BY <2>4, <3>2
  <2>7. Same = seen
    <3> HIDE DEF Same, seen
    <3> QED BY <2>5, <2>6
  <2> QED BY <2>2, <2>7 DEF p, k
<1>5. CASE q # p /\ ~IsStrictPrefix(q, p) /\ ~IsStrictPrefix(p, q)
  <2>1. SeenFrom(q, record) = {}
    BY <1>5 DEF SeenFrom
  <2>2. ASSUME NEW l \in Seq(Byte), RawKeyOf(q, l) = RawKeyOf(p, k) PROVE FALSE
    <3> HIDE DEF p, k
    <3>1. Behind(q, l, p, k) \/ Behind(p, k, q, l)
      BY <1>1, <2>2, RawKeysMeet DEF RawKeyOf
    <3>2. IsPrefix(p, q) \/ IsPrefix(q, p)
      BY <1>1, <3>1, PrefixOfConcat DEF Behind
    <3> QED BY <1>5, <3>2 DEF IsStrictPrefix
  <2> QED BY <2>1, <2>2
<1> QED BY <1>2, <1>3, <1>4, <1>5

-----------------------------------------------------------------------------
(* What every view answers *)

\* All views of a path have the prefix of the path.
LEMMA ViewsHavePrefix ==
    ASSUME NEW path \in Paths
    PROVE  /\ \A view \in ViewsOf(path) : view.prefix = ToLengthPrefixedNested(path)
           /\ PrefixesOf(path) = {ToLengthPrefixedNested(path)}
<1> DEFINE prefix == ToLengthPrefixedNested(path)
           keeper == Head(path)
           rest == Tail(path)
<1>1. path \in Seq(Names) /\ path # <<>>
  BY PathsAreNames
<1>2. keeper \in Names /\ rest \in Seq(Names) /\ path = <<keeper>> \o rest
  BY <1>1, FirstAndRest
<1>3. rest = <<>> => ToLengthPrefixed(keeper) = prefix
  <2> SUFFICES ASSUME rest = <<>> PROVE ToLengthPrefixed(keeper) = prefix
    OBVIOUS
  <2>1. path = <<keeper>>
    <3>1. <<keeper>> \in Seq(Names)
      BY <1>2
    <3>2. <<keeper>> \o <<>> = <<keeper>>
      BY <3>1, ConcatEmptySeq
    <3> QED BY <1>2, <3>2
  <2>2. ToLengthPrefixedNested(<<keeper>>) = ToLengthPrefixed(keeper)
    BY <1>2, NestedOfOne
  <2> HIDE DEF keeper
  <2> QED BY <2>1, <2>2
<1>4. Len(path) = 1 => rest = <<>>
  <2>1. Len(rest) = Len(path) - 1
    BY <1>1, HeadTailProperties
  <2> HIDE DEF rest
  <2> QED BY <1>2, <2>1, EmptySeq
<1>5. Typed(keeper, rest).prefix = prefix
  <2>1. CASE rest = <<>>
    <3> HIDE DEF keeper, rest, prefix
    <3> QED BY <1>3, <2>1 DEF Typed, StorageView
  <2>2. CASE rest # <<>>
    <3> HIDE DEF keeper, rest, prefix
    <3> QED BY <1>2, <2>2 DEF Typed, StorageView, prefix
  <2> QED BY <2>1, <2>2
<1>6. Borrow(Typed(keeper, rest)).prefix = prefix
  <2>1. CASE rest = <<>>
    <3> HIDE DEF keeper, rest, prefix
    <3> QED BY <1>3, <2>1 DEF Typed, StorageView, Borrow
  <2>2. CASE rest # <<>>
    <3> HIDE DEF keeper, rest, prefix
    <3> QED BY <1>2, <2>2 DEF Typed, StorageView, Borrow, prefix
  <2> QED BY <2>1, <2>2
<1>7. Multilevel(path).prefix = prefix /\ ReadonlyMultilevel(path).prefix = prefix
  BY DEF Multilevel, ReadonlyMultilevel, StorageView
<1>8. Len(path) = 1 => Prefixed(keeper).prefix = prefix /\ ReadonlyPrefixed(keeper).prefix = prefix
  <2> HIDE DEF keeper, rest, prefix
  <2> QED BY <1>3, <1>4 DEF Prefixed, ReadonlyPrefixed, StorageView
<1>9. \A view \in ViewsOf(path) : view.prefix = prefix
  <2> HIDE DEF prefix
  <2> QED BY <1>5, <1>6, <1>7, <1>8 DEF ViewsOf
<1>10. Multilevel(path) \in ViewsOf(path)
  BY DEF ViewsOf
<1> HIDE DEF prefix
<1> QED BY <1>7, <1>9, <1>10 DEF PrefixesOf, prefix

RawKeyOfRecord(record) == RawKeyOf(record.path, record.key)

\* The storage is what was written, each record under its raw key.
StoredAsWritten ==
    /\ DOMAIN storage = {RawKeyOfRecord(record) : record \in own}
    /\ \A record \in own : storage[RawKeyOfRecord(record)] = record.value

PrefixedInv ==
    /\ own \subseteq [path : Paths, key : PrefixedKeys, value : Contents]
    /\ IsFiniteSet(DOMAIN storage)
    /\ StoredAsWritten

\* Writing a key replaces the records with its raw key, however they were written.
LEMMA OthersAreOthers ==
    ASSUME PrefixedInv, NEW path \in Paths, NEW key \in PrefixedKeys
    PROVE  Others(path, key) = {record \in own : RawKeyOfRecord(record) # RawKeyOf(path, key)}
<1>1. key \in Seq(Byte)
  BY PrefixedKeysAssumption
<1>2. ASSUME NEW record \in own
      PROVE  key \in SeenFrom(path, record) <=> RawKeyOfRecord(record) = RawKeyOf(path, key)
  <2>1. record.path \in Paths /\ record.key \in Seq(Byte)
    BY PrefixedKeysAssumption DEF PrefixedInv
  <2>2. SeenFrom(path, record) = {l \in Seq(Byte) : RawKeyOf(path, l) = RawKeyOf(record.path, record.key)}
    BY <2>1, SeenIsSameKey
  <2> QED BY <1>1, <2>2 DEF RawKeyOfRecord
<1> QED BY <1>2 DEF Others

LEMMA InitPrefixedInv == PrefixedInit => PrefixedInv
<1> SUFFICES ASSUME PrefixedInit PROVE PrefixedInv
  OBVIOUS
<1>1. own = {} /\ DOMAIN storage = {}
  BY DEF PrefixedInit
<1> QED BY <1>1, FS_EmptySet DEF PrefixedInv, StoredAsWritten

LEMMA SetKeepsPrefixedInv ==
    ASSUME PrefixedInv, NEW path \in Paths, NEW key \in PrefixedKeys, NEW value \in Contents,
           SetRecord(path, key, value)
    PROVE  PrefixedInv'
<1> DEFINE raw == RawKeyOf(path, key)
           new == [path |-> path, key |-> key, value |-> value]
           others == {record \in own : RawKeyOfRecord(record) # raw}
<1>1. storage' = [k \in DOMAIN storage \cup {raw} |-> IF k = raw THEN value ELSE storage[k]]
  <2>1. PICK view \in Writable(path) : storage' = SetWithPrefix(view.prefix, key, value)
    BY DEF SetRecord
  <2>2. view.prefix = ToLengthPrefixedNested(path)
    BY <2>1, ViewsHavePrefix DEF Writable
  <2> QED BY <2>1, <2>2 DEF SetWithPrefix, RawKeyOf
<1>2. own' = others \cup {new}
  BY OthersAreOthers DEF SetRecord
<1>3. RawKeyOfRecord(new) = raw /\ new.value = value
  BY DEF RawKeyOfRecord
<1>4. own' \subseteq [path : Paths, key : PrefixedKeys, value : Contents]
  BY <1>2 DEF PrefixedInv
<1>5. IsFiniteSet(DOMAIN storage')
  <2>1. DOMAIN storage' = DOMAIN storage \cup {raw}
    BY <1>1
  <2> QED BY <2>1, FS_AddElement DEF PrefixedInv
<1> HIDE DEF raw, new
<1>6. DOMAIN storage' = {RawKeyOfRecord(record) : record \in own'}
  BY <1>1, <1>2, <1>3 DEF PrefixedInv, StoredAsWritten
<1>7. ASSUME NEW record \in own' PROVE storage'[RawKeyOfRecord(record)] = record.value
  <2>1. CASE record = new
    BY <1>1, <1>3, <2>1
  <2>2. CASE record \in others
    BY <1>1, <2>2 DEF PrefixedInv, StoredAsWritten
  <2> QED BY <1>2, <2>1, <2>2
<1> QED BY <1>4, <1>5, <1>6, <1>7 DEF PrefixedInv, StoredAsWritten, RawKeyOfRecord

LEMMA RemoveKeepsPrefixedInv ==
    ASSUME PrefixedInv, NEW path \in Paths, NEW key \in PrefixedKeys, RemoveRecord(path, key)
    PROVE  PrefixedInv'
<1> DEFINE raw == RawKeyOf(path, key)
<1>1. storage' = [k \in DOMAIN storage \ {raw} |-> storage[k]]
  <2>1. PICK view \in Writable(path) : storage' = RemoveWithPrefix(view.prefix, key)
    BY DEF RemoveRecord
  <2>2. view.prefix = ToLengthPrefixedNested(path)
    BY <2>1, ViewsHavePrefix DEF Writable
  <2> QED BY <2>1, <2>2 DEF RemoveWithPrefix, RawKeyOf
<1>2. own' = {record \in own : RawKeyOfRecord(record) # raw}
  BY OthersAreOthers DEF RemoveRecord
<1>3. own' \subseteq [path : Paths, key : PrefixedKeys, value : Contents] /\ IsFiniteSet(DOMAIN storage')
  BY <1>1, <1>2, FS_Subset DEF PrefixedInv
<1> HIDE DEF raw
<1>4. DOMAIN storage' = {RawKeyOfRecord(record) : record \in own'}
  BY <1>1, <1>2 DEF PrefixedInv, StoredAsWritten
<1>5. ASSUME NEW record \in own' PROVE storage'[RawKeyOfRecord(record)] = record.value
  BY <1>1, <1>2 DEF PrefixedInv, StoredAsWritten
<1> QED BY <1>3, <1>4, <1>5 DEF PrefixedInv, StoredAsWritten, RawKeyOfRecord

LEMMA NextPrefixedInv == PrefixedInv /\ [PrefixedNext]_prefixedVars => PrefixedInv'
<1> SUFFICES ASSUME PrefixedInv, [PrefixedNext]_prefixedVars PROVE PrefixedInv'
  OBVIOUS
<1>1. CASE UNCHANGED prefixedVars
  BY <1>1 DEF prefixedVars, PrefixedInv, StoredAsWritten, RawKeyOfRecord
<1>2. ASSUME NEW path \in Paths, NEW key \in PrefixedKeys, NEW value \in Contents,
             SetRecord(path, key, value)
      PROVE  PrefixedInv'
  BY <1>2, SetKeepsPrefixedInv
<1>3. ASSUME NEW path \in Paths, NEW key \in PrefixedKeys, RemoveRecord(path, key)
      PROVE  PrefixedInv'
  BY <1>3, RemoveKeepsPrefixedInv
<1> QED BY <1>1, <1>2, <1>3 DEF PrefixedNext

LEMMA PrefixedInvMeansApart == PrefixedInv => NamespacesAreApart
<1> SUFFICES ASSUME PrefixedInv, NEW path \in Paths, NEW key \in PrefixedKeys,
                    NEW prefix \in PrefixesOf(path)
             PROVE  ValuesAt(path, key) = {GetWithPrefix(prefix, key)} \ {Absent}
  BY DEF NamespacesAreApart
<1> DEFINE raw == RawKeyOf(path, key)
<1>1. prefix \o key = raw
  BY ViewsHavePrefix DEF RawKeyOf
<1>2. ASSUME NEW record \in own
      PROVE  key \in SeenFrom(path, record) <=> RawKeyOfRecord(record) = raw
  <2>1. record.path \in Paths /\ record.key \in Seq(Byte) /\ key \in Seq(Byte)
    BY PrefixedKeysAssumption DEF PrefixedInv
  <2>2. SeenFrom(path, record) = {l \in Seq(Byte) : RawKeyOf(path, l) = RawKeyOf(record.path, record.key)}
    BY <2>1, SeenIsSameKey
  <2> QED BY <2>1, <2>2 DEF RawKeyOfRecord
<1>3. ValuesAt(path, key) = {record.value : record \in {r \in own : RawKeyOfRecord(r) = raw}}
  BY <1>2 DEF ValuesAt
<1>4. \A record \in own : record.value \in Contents
  BY DEF PrefixedInv
<1> HIDE DEF raw
<1>5. CASE raw \in DOMAIN storage
  <2>1. PICK record \in own : RawKeyOfRecord(record) = raw
    BY <1>5 DEF PrefixedInv, StoredAsWritten
  <2>2. \A r \in own : RawKeyOfRecord(r) = raw => r.value = storage[raw]
    BY DEF PrefixedInv, StoredAsWritten
  <2>3. ValuesAt(path, key) = {storage[raw]}
    BY <1>3, <2>1, <2>2
  <2>4. storage[raw] # Absent
    BY <1>4, <2>1, <2>2, AbsentAssumption
  <2> QED BY <1>1, <1>5, <2>3, <2>4 DEF GetWithPrefix
<1>6. CASE raw \notin DOMAIN storage
  <2>1. \A r \in own : RawKeyOfRecord(r) # raw
    BY <1>6 DEF PrefixedInv, StoredAsWritten
  <2>2. ValuesAt(path, key) = {}
    BY <1>3, <2>1
  <2> QED BY <1>1, <1>6, <2>2 DEF GetWithPrefix
<1> QED BY <1>5, <1>6

\* The views of prefixed_storage, one within the other to any depth: what is written
\* through one is read through all those of the same namespace, and through those around
\* it and within it under the key it has there, and no other namespace sees it.
THEOREM NamespacesStayApart == PrefixedSpec => []NamespacesAreApart
<1>1. PrefixedSpec => []PrefixedInv
  BY InitPrefixedInv, NextPrefixedInv, PTL DEF PrefixedSpec
<1> QED BY <1>1, PrefixedInvMeansApart, PTL

-----------------------------------------------------------------------------
(* The order of bytes *)

\* a is less than b from the byte after the nth.
LessAt(a, b, n) ==
    /\ n <= Len(a) /\ n < Len(b)
    /\ \A i \in 1 .. n : a[i] = b[i]
    /\ n < Len(a) => a[n + 1] < b[n + 1]

LEMMA BytesAreNumbers ==
    ASSUME NEW a \in Seq(Byte)
    PROVE  /\ Len(a) \in Nat
           /\ \A i \in 1 .. Len(a) : a[i] \in Byte /\ a[i] \in Nat
<1>1. Byte \subseteq Nat
  BY BaseAssumption DEF Byte
<1> QED BY <1>1, LenProperties, ElementOfSeq

LEMMA PrefixAgrees ==
    ASSUME NEW S, NEW s \in Seq(S), NEW t \in Seq(S)
    PROVE  IsPrefix(s, t) <=> Len(s) <= Len(t) /\ \A i \in 1 .. Len(s) : s[i] = t[i]
<1>1. Len(s) \in Nat /\ Len(t) \in Nat
  BY LenProperties
<1>2. ASSUME IsPrefix(s, t)
      PROVE  Len(s) <= Len(t) /\ \A i \in 1 .. Len(s) : s[i] = t[i]
  <2>1. Trim(s, t) \in Seq(S) /\ t = s \o Trim(s, t)
    BY <1>2, PrefixSplits
  <2>2. \A i \in 1 .. Len(s) + Len(Trim(s, t)) :
          (s \o Trim(s, t))[i] = IF i <= Len(s) THEN s[i] ELSE Trim(s, t)[i - Len(s)]
    BY <2>1, ConcatProperties
  <2>3. Len(Trim(s, t)) \in Nat
    BY <2>1, LenProperties
  <2>4. \A i \in 1 .. Len(s) : i \in 1 .. Len(s) + Len(Trim(s, t)) /\ i <= Len(s)
    BY <1>1, <2>3
  <2>5. \A i \in 1 .. Len(s) : s[i] = (s \o Trim(s, t))[i]
    BY <2>2, <2>4
  <2>6. Len(s) <= Len(t)
    BY <1>2 DEF IsPrefix
  <2> HIDE DEF Trim
  <2> QED BY <2>1, <2>5, <2>6, Zenon
<1>3. ASSUME Len(s) <= Len(t), \A i \in 1 .. Len(s) : s[i] = t[i]
      PROVE  IsPrefix(s, t)
  <2>1. SubSeq(s, 1, Len(s)) = s
    BY SubSeqFull
  <2>2. \A i \in 1 .. Len(s) : t[i] \in S
    <3>1. \A i \in 1 .. Len(s) : i \in 1 .. Len(t)
      BY <1>1, <1>3
    <3> QED BY <3>1, ElementOfSeq
  <2>3. /\ SubSeq(t, 1, Len(s)) \in Seq(S)
        /\ Len(SubSeq(t, 1, Len(s))) = IF 1 <= Len(s) THEN Len(s) - 1 + 1 ELSE 0
        /\ \A i \in 1 .. Len(s) - 1 + 1 : SubSeq(t, 1, Len(s))[i] = t[1 + i - 1]
    <3>1. 1 \in Int /\ Len(s) \in Int
      BY <1>1
    <3> QED BY <2>2, <3>1, SubSeqProperties
  <2> DEFINE u == SubSeq(t, 1, Len(s))
  <2>4. u \in Seq(S) /\ Len(u) = Len(s) /\ \A i \in 1 .. Len(s) : u[i] = s[i]
    <3>1. Len(u) = Len(s)
      <4> HIDE DEF u
      <4>1. Len(u) = IF 1 <= Len(s) THEN Len(s) - 1 + 1 ELSE 0
        BY <2>3 DEF u
      <4> QED BY <1>1, <4>1
    <3>2. ASSUME NEW i \in 1 .. Len(s) PROVE u[i] = s[i]
      <4>1. u[i] = t[1 + i - 1]
        <5>1. i \in 1 .. Len(s) - 1 + 1
          BY <1>1
        <5> QED BY <2>3, <5>1
      <4>2. 1 + i - 1 = i
        BY <1>1
      <4> QED BY <1>3, <4>1, <4>2
    <3> QED BY <2>3, <3>1, <3>2
  <2> HIDE DEF u
  <2>5. s = u
    BY <2>4, SeqEqual
  <2> QED BY <1>3, <2>1, <2>5 DEF IsPrefix, u
<1> QED BY <1>2, <1>3

LEMMA LessIsAt ==
    ASSUME NEW a \in Seq(Byte), NEW b \in Seq(Byte)
    PROVE  Less(a, b) <=> \E n \in Nat : LessAt(a, b, n)
<1>1. Len(a) \in Nat /\ Len(b) \in Nat
  BY LenProperties
<1>2. ASSUME NEW n \in 0 .. Len(a)
      PROVE  IsPrefix(SubSeq(a, 1, n), b) <=> n <= Len(b) /\ \A i \in 1 .. n : a[i] = b[i]
  <2> DEFINE s == SubSeq(a, 1, n)
  <2>1. s \in Seq(Byte) /\ Len(s) = n /\ \A i \in 1 .. n : s[i] = a[i]
    <3>1. \A i \in 1 .. n : a[i] \in Byte
      <4>1. \A i \in 1 .. n : i \in 1 .. Len(a)
        BY <1>1
      <4> QED BY <4>1, ElementOfSeq
    <3>2. 1 \in Int /\ n \in Int
      OBVIOUS
    <3>3. /\ s \in Seq(Byte)
          /\ Len(s) = IF 1 <= n THEN n - 1 + 1 ELSE 0
          /\ \A i \in 1 .. n - 1 + 1 : s[i] = a[1 + i - 1]
      BY <3>1, <3>2, SubSeqProperties
    <3> HIDE DEF s
    <3>4. Len(s) = n
      BY <3>3
    <3>5. ASSUME NEW i \in 1 .. n PROVE s[i] = a[i]
      <4>1. i \in 1 .. n - 1 + 1 /\ 1 + i - 1 = i
        OBVIOUS
      <4> QED BY <3>3, <4>1
    <3> QED BY <3>3, <3>4, <3>5
  <2> HIDE DEF s
  <2>2. IsPrefix(s, b) <=> Len(s) <= Len(b) /\ \A i \in 1 .. Len(s) : s[i] = b[i]
    BY <2>1, PrefixAgrees
  <2>3. IsPrefix(s, b) <=> n <= Len(b) /\ \A i \in 1 .. n : a[i] = b[i]
    BY <2>1, <2>2
  <2> QED BY <2>3 DEF s
<1>3. ASSUME Less(a, b) PROVE \E n \in Nat : LessAt(a, b, n)
  <2>1. PICK n \in 0 .. Len(a) : /\ IsPrefix(SubSeq(a, 1, n), b)
                                 /\ n < Len(b)
                                 /\ n < Len(a) => a[n + 1] < b[n + 1]
    BY <1>3 DEF Less
  <2>2. n \in Nat /\ n <= Len(a)
    BY <1>1
  <2> QED BY <1>2, <2>1, <2>2 DEF LessAt
<1>4. ASSUME NEW n \in Nat, LessAt(a, b, n) PROVE Less(a, b)
  <2>1. n \in 0 .. Len(a) /\ n <= Len(b)
    BY <1>1, <1>4 DEF LessAt
  <2> QED BY <1>2, <1>4, <2>1 DEF LessAt, Less
<1> QED BY <1>3, <1>4

LEMMA LessIsIrreflexive ==
    ASSUME NEW a \in Seq(Byte)
    PROVE  ~Less(a, a)
<1> SUFFICES ASSUME NEW n \in Nat, LessAt(a, a, n) PROVE FALSE
  BY LessIsAt
<1>1. n < Len(a) /\ Len(a) \in Nat /\ a[n + 1] < a[n + 1]
  BY BytesAreNumbers DEF LessAt
<1>2. a[n + 1] \in Nat
  BY <1>1, BytesAreNumbers
<1> QED BY <1>1, <1>2

LEMMA LessIsTransitive ==
    ASSUME NEW a \in Seq(Byte), NEW b \in Seq(Byte), NEW c \in Seq(Byte), Less(a, b), Less(b, c)
    PROVE  Less(a, c)
<1>1. PICK n \in Nat : LessAt(a, b, n)
  BY LessIsAt
<1>2. PICK m \in Nat : LessAt(b, c, m)
  BY LessIsAt
<1>3. Len(a) \in Nat /\ Len(b) \in Nat /\ Len(c) \in Nat
  BY BytesAreNumbers
<1>4. CASE n < m
  <2>1. n <= Len(a) /\ n < Len(c) /\ n + 1 \in 1 .. m /\ \A i \in 1 .. n : i \in 1 .. m
    BY <1>1, <1>2, <1>3, <1>4 DEF LessAt
  <2>2. LessAt(a, c, n)
    BY <1>1, <1>2, <2>1 DEF LessAt
  <2> QED BY <2>2, LessIsAt
<1>5. CASE n = m
  <2>1. n <= Len(a) /\ n < Len(c) /\ n < Len(b) /\ \A i \in 1 .. n : a[i] = c[i]
    BY <1>1, <1>2, <1>5 DEF LessAt
  <2>2. ASSUME n < Len(a) PROVE a[n + 1] < c[n + 1]
    <3>1. a[n + 1] < b[n + 1] /\ b[n + 1] < c[n + 1]
      BY <1>1, <1>2, <1>5, <2>1, <2>2 DEF LessAt
    <3>2. a[n + 1] \in Nat /\ b[n + 1] \in Nat /\ c[n + 1] \in Nat
      BY <1>3, <2>1, <2>2, BytesAreNumbers
    <3> QED BY <3>1, <3>2
  <2>3. LessAt(a, c, n)
    BY <2>1, <2>2 DEF LessAt
  <2> QED BY <2>3, LessIsAt
<1>6. CASE m < n
  <2>1. m < Len(a) /\ m < Len(c) /\ m < Len(b) /\ m + 1 \in 1 .. n /\ \A i \in 1 .. m : i \in 1 .. n
    BY <1>1, <1>2, <1>3, <1>6 DEF LessAt
  <2>2. a[m + 1] < c[m + 1] /\ m <= Len(a)
    BY <1>1, <1>2, <1>3, <2>1 DEF LessAt
  <2>3. LessAt(a, c, m)
    BY <1>1, <1>2, <2>1, <2>2 DEF LessAt
  <2> QED BY <2>3, LessIsAt
<1> QED BY <1>4, <1>5, <1>6

\* a and b agree up to the nth byte and no further.
Parts(a, b, n) ==
    /\ n <= Len(a) /\ n <= Len(b)
    /\ \A i \in 1 .. n : a[i] = b[i]
    /\ n < Len(a) /\ n < Len(b) => a[n + 1] # b[n + 1]

LEMMA FirstDifference ==
    ASSUME NEW a \in Seq(Byte), NEW b \in Seq(Byte)
    PROVE  \E n \in Nat : Parts(a, b, n)
<1> DEFINE Agree(m) == m <= Len(a) /\ m <= Len(b) /\ a[m] = b[m]
           D == {m \in Nat : m # 0 /\ ~Agree(m)}
<1>1. Len(a) \in Nat /\ Len(b) \in Nat
  BY BytesAreNumbers
<1>2. Len(a) + 1 \in D
  BY <1>1
<1>3. PICK m \in D : \A i \in D : m <= i
  <2>1. D \in SUBSET Nat /\ D # {}
    BY <1>2
  <2> HIDE DEF D
  <2> QED BY <2>1, LeastNumber
<1>4. PICK n \in Nat : m = n + 1
  <2>1. m \in Nat /\ m # 0
    OBVIOUS
  <2>2. m - 1 \in Nat /\ m = (m - 1) + 1
    BY <2>1
  <2> QED BY <2>2
<1>5. \A i \in 1 .. n : Agree(i)
  <2> TAKE i \in 1 .. n
  <2>1. i \in Nat /\ i # 0 /\ ~(m <= i)
    BY <1>4
  <2>2. i \notin D
    <3> HIDE DEF D
    <3> QED BY <1>3, <2>1
  <2> QED BY <2>1, <2>2
<1>6. n <= Len(a) /\ n <= Len(b)
  <2>1. CASE n = 0
    BY <1>1, <2>1
  <2>2. CASE n # 0
    <3>1. n \in 1 .. n
      BY <2>2
    <3> QED BY <1>5, <3>1
  <2> QED BY <2>1, <2>2
<1>7. n < Len(a) /\ n < Len(b) => a[n + 1] # b[n + 1]
  <2>1. ~Agree(n + 1)
    BY <1>3, <1>4
  <2> QED BY <1>1, <2>1
<1>8. Parts(a, b, n)
  BY <1>5, <1>6, <1>7 DEF Parts
<1> QED BY <1>8

LEMMA LessIsTotal ==
    ASSUME NEW a \in Seq(Byte), NEW b \in Seq(Byte), a # b
    PROVE  Less(a, b) \/ Less(b, a)
<1>1. PICK n \in Nat : Parts(a, b, n)
  BY FirstDifference
<1>2. Len(a) \in Nat /\ Len(b) \in Nat
  BY BytesAreNumbers
<1>3. CASE n = Len(a) /\ n = Len(b)
  <2>1. a = b
    BY <1>1, <1>3, SeqEqual DEF Parts
  <2> QED BY <2>1
<1>4. CASE n = Len(a) /\ n # Len(b)
  <2>1. LessAt(a, b, n)
    BY <1>1, <1>2, <1>4 DEF Parts, LessAt
  <2> QED BY <2>1, LessIsAt
<1>5. CASE n # Len(a) /\ n = Len(b)
  <2>1. LessAt(b, a, n)
    BY <1>1, <1>2, <1>5 DEF Parts, LessAt
  <2> QED BY <2>1, LessIsAt
<1>6. CASE n # Len(a) /\ n # Len(b)
  <2>1. n < Len(a) /\ n < Len(b) /\ n + 1 \in 1 .. Len(a) /\ n + 1 \in 1 .. Len(b)
    BY <1>1, <1>2, <1>6 DEF Parts
  <2>2. a[n + 1] \in Nat /\ b[n + 1] \in Nat /\ a[n + 1] # b[n + 1]
    BY <1>1, <2>1, BytesAreNumbers DEF Parts
  <2>3. CASE a[n + 1] < b[n + 1]
    <3>1. LessAt(a, b, n)
      BY <1>1, <2>1, <2>3 DEF Parts, LessAt
    <3> QED BY <3>1, LessIsAt
  <2>4. CASE b[n + 1] < a[n + 1]
    <3>1. LessAt(b, a, n)
      BY <1>1, <2>1, <2>4 DEF Parts, LessAt
    <3> QED BY <3>1, LessIsAt
  <2> QED BY <2>2, <2>3, <2>4
<1> QED BY <1>3, <1>4, <1>5, <1>6

LEMMA LessIsAsymmetric ==
    ASSUME NEW a \in Seq(Byte), NEW b \in Seq(Byte), Less(a, b)
    PROVE  ~Less(b, a)
BY LessIsIrreflexive, LessIsTransitive

LEMMA BytesConcat ==
    ASSUME NEW p \in Seq(Byte), NEW x \in Seq(Byte)
    PROVE  /\ p \o x \in Seq(Byte)
           /\ Len(p) \in Nat /\ Len(x) \in Nat /\ Len(p \o x) = Len(p) + Len(x)
           /\ \A i \in 1 .. Len(p) : (p \o x)[i] = p[i]
           /\ \A i \in 1 .. Len(x) : (p \o x)[Len(p) + i] = x[i]
<1> DEFINE u == p \o x
<1>1. Len(p) \in Nat /\ Len(x) \in Nat
  BY LenProperties
<1>2. /\ u \in Seq(Byte) /\ Len(u) = Len(p) + Len(x)
      /\ \A i \in 1 .. Len(p) + Len(x) : u[i] = IF i <= Len(p) THEN p[i] ELSE x[i - Len(p)]
  BY ConcatProperties
<1> HIDE DEF u
<1>3. ASSUME NEW i \in 1 .. Len(p) PROVE u[i] = p[i]
  <2>1. i \in 1 .. Len(p) + Len(x) /\ i <= Len(p)
    BY <1>1
  <2> QED BY <1>2, <2>1
<1>4. ASSUME NEW i \in 1 .. Len(x) PROVE u[Len(p) + i] = x[i]
  <2> DEFINE j == Len(p) + i
  <2>1. j \in 1 .. Len(p) + Len(x) /\ ~(j <= Len(p)) /\ j - Len(p) = i
    BY <1>1
  <2> HIDE DEF j
  <2>2. u[j] = x[i]
    BY <1>2, <2>1
  <2> QED BY <2>2 DEF j
<1>5. u \in Seq(Byte) /\ Len(u) = Len(p) + Len(x)
  BY <1>2
<1> QED BY <1>1, <1>3, <1>4, <1>5 DEF u

\* The order of keys behind the same prefix is that of the keys.
LEMMA LessBehindPrefix ==
    ASSUME NEW p \in Seq(Byte), NEW a \in Seq(Byte), NEW b \in Seq(Byte)
    PROVE  Less(p \o a, p \o b) <=> Less(a, b)
<1>1. p \o a \in Seq(Byte) /\ p \o b \in Seq(Byte)
  BY BytesConcat
<1>2. ASSUME NEW x \in Seq(Byte), NEW y \in Seq(Byte), Less(x, y)
      PROVE  Less(p \o x, p \o y)
  <2> DEFINE u == p \o x
             v == p \o y
             m == Len(p)
  <2>1. PICK n \in Nat : LessAt(x, y, n)
    BY <1>2, LessIsAt
  <2>2. /\ u \in Seq(Byte) /\ m \in Nat /\ Len(x) \in Nat /\ Len(u) = m + Len(x)
        /\ \A i \in 1 .. m : u[i] = p[i]
        /\ \A i \in 1 .. Len(x) : u[m + i] = x[i]
    BY BytesConcat
  <2>3. /\ v \in Seq(Byte) /\ Len(y) \in Nat /\ Len(v) = m + Len(y)
        /\ \A i \in 1 .. m : v[i] = p[i]
        /\ \A i \in 1 .. Len(y) : v[m + i] = y[i]
    BY BytesConcat
  <2> HIDE DEF u, v, m
  <2>4. m + n \in Nat /\ m + n <= Len(u) /\ m + n < Len(v) /\ n <= Len(x) /\ n < Len(y)
    BY <2>1, <2>2, <2>3 DEF LessAt
  <2>5. ASSUME NEW i \in 1 .. m + n PROVE u[i] = v[i]
    <3>1. CASE i <= m
      <4>1. i \in 1 .. m
        BY <2>2, <3>1
      <4> QED BY <2>2, <2>3, <4>1
    <3>2. CASE ~(i <= m)
      <4>1. PICK j \in 1 .. n : i = m + j
        <5>1. i - m \in 1 .. n /\ i = m + (i - m)
          BY <2>2, <3>2
        <5> QED BY <5>1
      <4>2. j \in 1 .. Len(x) /\ j \in 1 .. Len(y)
        BY <2>2, <2>3, <2>4
      <4>3. u[m + j] = x[j] /\ v[m + j] = y[j]
        BY <2>2, <2>3, <4>2
      <4>4. x[j] = y[j]
        BY <2>1 DEF LessAt
      <4> QED BY <4>1, <4>3, <4>4
    <3> QED BY <3>1, <3>2
  <2>6. ASSUME m + n < Len(u) PROVE u[m + n + 1] < v[m + n + 1]
    <3>1. n < Len(x) /\ n + 1 \in 1 .. Len(x) /\ n + 1 \in 1 .. Len(y) /\ m + (n + 1) = m + n + 1
      BY <2>2, <2>3, <2>4, <2>6
    <3>2. u[m + (n + 1)] = x[n + 1] /\ v[m + (n + 1)] = y[n + 1]
      BY <2>2, <2>3, <3>1
    <3>3. x[n + 1] < y[n + 1]
      BY <2>1, <3>1 DEF LessAt
    <3> QED BY <3>1, <3>2, <3>3
  <2>7. LessAt(u, v, m + n)
    BY <2>4, <2>5, <2>6 DEF LessAt
  <2>8. Less(u, v)
    BY <2>2, <2>3, <2>4, <2>7, LessIsAt
  <2> QED BY <2>8 DEF u, v
<1>3. ASSUME Less(p \o a, p \o b) PROVE Less(a, b)
  <2>1. a # b
    BY <1>1, <1>3, LessIsIrreflexive
  <2>2. ~Less(b, a)
    <3>1. Less(b, a) => Less(p \o b, p \o a)
      BY <1>2
    <3>2. ~Less(p \o b, p \o a)
      <4> DEFINE u == p \o a
                 v == p \o b
      <4>1. u \in Seq(Byte) /\ v \in Seq(Byte) /\ Less(u, v)
        BY <1>1, <1>3
      <4> HIDE DEF u, v
      <4>2. ~Less(v, u)
        BY <4>1, LessIsAsymmetric
      <4> QED BY <4>2 DEF u, v
    <3> QED BY <3>1, <3>2
  <2> QED BY <2>1, <2>2, LessIsTotal
<1> QED BY <1>2, <1>3

\* What is neither below the keys of a prefix nor has the prefix is above it, at a byte
\* of the prefix.
Above(k, p, n) ==
    /\ n < Len(p) /\ n < Len(k)
    /\ \A i \in 1 .. n : k[i] = p[i]
    /\ p[n + 1] < k[n + 1]

LEMMA NotBelowPrefix ==
    ASSUME NEW p \in Seq(Byte), NEW s \in Seq(Byte), NEW k \in Seq(Byte),
           ~Less(k, p \o s), ~IsPrefix(p, k)
    PROVE  \E n \in Nat : Above(k, p, n)
<1> DEFINE u == p \o s
<1>1. u \in Seq(Byte) /\ Len(p) \in Nat /\ Len(s) \in Nat /\ Len(u) = Len(p) + Len(s) /\ Len(k) \in Nat
  BY BytesConcat, LenProperties
<1>2. \A i \in 1 .. Len(p) : u[i] = p[i]
  BY BytesConcat
<1>3. ~Less(k, u)
  OBVIOUS
<1> HIDE DEF u
<1>4. PICK n \in Nat : Parts(k, p, n)
  BY FirstDifference
<1>5. n < Len(p)
  <2>1. n <= Len(p) /\ n <= Len(k) /\ \A i \in 1 .. n : p[i] = k[i]
    BY <1>4 DEF Parts
  <2>2. CASE n = Len(p)
    <3>1. IsPrefix(p, k)
      BY <2>1, <2>2, PrefixAgrees
    <3> QED BY <3>1
  <2> QED BY <1>1, <2>1, <2>2
<1>6. n <= Len(k) /\ n < Len(u) /\ (\A i \in 1 .. n : k[i] = p[i] /\ i \in 1 .. Len(p)) /\ n + 1 \in 1 .. Len(p)
  BY <1>1, <1>4, <1>5 DEF Parts
<1>7. ~LessAt(k, u, n)
  BY <1>1, <1>3, LessIsAt
<1>8. n < Len(k) /\ ~(k[n + 1] < u[n + 1])
  BY <1>2, <1>6, <1>7 DEF LessAt
<1>9. k[n + 1] # p[n + 1]
  BY <1>4, <1>5, <1>8 DEF Parts
<1>10. k[n + 1] \in Nat /\ p[n + 1] \in Nat
  <2>1. n + 1 \in 1 .. Len(k)
    BY <1>1, <1>8
  <2> QED BY <1>6, <2>1, BytesAreNumbers
<1>11. p[n + 1] < k[n + 1]
  BY <1>2, <1>6, <1>8, <1>9, <1>10
<1> QED BY <1>5, <1>6, <1>8, <1>11 DEF Above

\* Between two keys with a prefix there are only keys with this prefix.
LEMMA BetweenHasPrefix ==
    ASSUME NEW p \in Seq(Byte), NEW s \in Seq(Byte), NEW e \in Seq(Byte), NEW k \in Seq(Byte),
           ~Less(k, p \o s), Less(k, p \o e)
    PROVE  IsPrefix(p, k)
<1> SUFFICES ASSUME ~IsPrefix(p, k) PROVE FALSE
  OBVIOUS
<1>1. PICK n \in Nat : Above(k, p, n)
  BY NotBelowPrefix
<1> DEFINE v == p \o e
<1>2. v \in Seq(Byte) /\ Len(p) \in Nat /\ Len(e) \in Nat /\ Len(v) = Len(p) + Len(e) /\ Len(k) \in Nat
  BY BytesConcat, LenProperties
<1>3. \A i \in 1 .. Len(p) : v[i] = p[i]
  BY BytesConcat
<1>4. Less(k, v)
  OBVIOUS
<1> HIDE DEF v
<1>5. n <= Len(v) /\ n < Len(k) /\ n + 1 \in 1 .. Len(p) /\ \A i \in 1 .. n : i \in 1 .. Len(p)
  BY <1>1, <1>2 DEF Above
<1>6. LessAt(v, k, n)
  BY <1>1, <1>3, <1>5 DEF Above, LessAt
<1>7. Less(v, k)
  BY <1>2, <1>6, LessIsAt
<1> QED BY <1>2, <1>4, <1>7, LessIsAsymmetric

\* The byte that namespace_upper_bound increments.
Incremented(p, c) ==
    /\ c \in 1 .. Len(p)
    /\ p[c] # Base - 1
    /\ \A i \in c + 1 .. Len(p) : p[i] = Base - 1

LEMMA IncrementedExists ==
    ASSUME NEW p \in Seq(Byte), \E i \in 1 .. Len(p) : p[i] # Base - 1
    PROVE  \E c \in 1 .. Len(p) : Incremented(p, c)
<1> DEFINE S == {i \in 1 .. Len(p) : p[i] # Base - 1}
<1>1. Len(p) \in Nat /\ S \in SUBSET (1 .. Len(p)) /\ S # {}
  BY LenProperties
<1>2. PICK c \in S : \A i \in S : i <= c
  <2> HIDE DEF S
  <2> QED BY <1>1, MaxOfProperties
<1>3. ASSUME NEW i \in c + 1 .. Len(p) PROVE p[i] = Base - 1
  <2>1. i \in 1 .. Len(p) /\ ~(i <= c)
    BY <1>1
  <2> QED BY <1>2, <2>1
<1>4. Incremented(p, c)
  BY <1>3 DEF Incremented
<1> QED BY <1>4

LEMMA UpperBoundBytes ==
    ASSUME NEW p \in Seq(Byte), NEW c, Incremented(p, c)
    PROVE  /\ NamespaceUpperBound(p) \in Seq(Byte) /\ Len(NamespaceUpperBound(p)) = Len(p)
           /\ \A i \in 1 .. c - 1 : NamespaceUpperBound(p)[i] = p[i]
           /\ NamespaceUpperBound(p)[c] = p[c] + 1
           /\ \A i \in c + 1 .. Len(p) : NamespaceUpperBound(p)[i] = 0
<1> DEFINE n == Len(p)
           Carried(i) == \A j \in i + 1 .. n : p[j] = Base - 1
           F(i) == IF Carried(i) THEN (p[i] + 1) % Base ELSE p[i]
           u == [i \in 1 .. n |-> F(i)]
<1>1. n \in Nat /\ DOMAIN p = 1 .. n /\ c \in 1 .. n
  BY LenProperties DEF Incremented
<1>2. NamespaceUpperBound(p) = u
  BY <1>1 DEF NamespaceUpperBound
<1>3. Base \in Nat /\ Base > 1 /\ 0 \in Byte
  BY BaseAssumption DEF Byte
<1>4. \A i \in 1 .. n : p[i] \in Byte
  BY BytesAreNumbers
<1>5. \A i \in 1 .. n : F(i) \in Byte
  <2> TAKE i \in 1 .. n
  <2> DEFINE b == p[i]
  <2>1. b \in Byte
    BY <1>4
  <2> HIDE DEF b
  <2>2. (b + 1) % Base \in Byte
    BY <1>3, <2>1 DEF Byte
  <2> QED BY <1>4, <2>2 DEF b
<1>6. u \in Seq(Byte) /\ Len(u) = n
  <2> HIDE DEF F
  <2>1. u \in Seq(Byte)
    BY <1>1, <1>5, IsASeq
  <2> QED BY <1>1, <2>1, LenProperties
<1>7. ASSUME NEW i \in 1 .. c - 1 PROVE u[i] = p[i]
  <2>1. i \in 1 .. n /\ c \in i + 1 .. n
    BY <1>1
  <2>2. ~Carried(i)
    BY <2>1 DEF Incremented
  <2> QED BY <2>1, <2>2
<1>8. u[c] = p[c] + 1
  <2>1. Carried(c)
    BY DEF Incremented
  <2>2. u[c] = (p[c] + 1) % Base
    BY <1>1, <2>1
  <2> DEFINE b == p[c]
  <2>3. b \in Byte /\ b # Base - 1
    BY <1>1, <1>4 DEF Incremented
  <2> HIDE DEF b
  <2>4. (b + 1) % Base = b + 1
    BY <1>3, <2>3 DEF Byte
  <2> QED BY <2>2, <2>4 DEF b
<1>9. ASSUME NEW i \in c + 1 .. n PROVE u[i] = 0
  <2>1. i \in 1 .. n /\ p[i] = Base - 1
    BY <1>1 DEF Incremented
  <2>2. Carried(i)
    <3>1. \A j \in i + 1 .. n : j \in c + 1 .. n
      BY <1>1
    <3> QED BY <3>1 DEF Incremented
  <2>3. u[i] = ((Base - 1) + 1) % Base
    BY <2>1, <2>2
  <2>4. ((Base - 1) + 1) % Base = 0
    <3>1. (Base - 1) + 1 = Base
      BY <1>3
    <3>2. Base % Base = 0
      BY <1>3
    <3> QED BY <3>1, <3>2
  <2> QED BY <2>3, <2>4
<1> HIDE DEF u
<1> QED BY <1>2, <1>6, <1>7, <1>8, <1>9

\* Every key with a prefix is below the upper bound of the prefix.
LEMMA BelowUpperBound ==
    ASSUME NEW p \in Seq(Byte), NEW x \in Seq(Byte), NEW c, Incremented(p, c)
    PROVE  Less(p \o x, NamespaceUpperBound(p))
<1> DEFINE u == NamespaceUpperBound(p)
           k == p \o x
           n == c - 1
<1>1. /\ k \in Seq(Byte) /\ Len(p) \in Nat /\ Len(x) \in Nat /\ Len(k) = Len(p) + Len(x)
      /\ \A i \in 1 .. Len(p) : k[i] = p[i]
  BY BytesConcat
<1>2. /\ u \in Seq(Byte) /\ Len(u) = Len(p)
      /\ \A i \in 1 .. c - 1 : u[i] = p[i]
      /\ u[c] = p[c] + 1
  BY UpperBoundBytes
<1>3. c \in 1 .. Len(p) /\ p[c] \in Nat
  BY BytesAreNumbers DEF Incremented
<1> HIDE DEF u, k
<1>4. n \in Nat /\ n + 1 = c /\ n <= Len(k) /\ n < Len(u) /\ \A i \in 1 .. n : i \in 1 .. Len(p)
  BY <1>1, <1>2, <1>3
<1>5. k[c] < u[c]
  BY <1>1, <1>2, <1>3
<1>6. LessAt(k, u, n)
  BY <1>1, <1>2, <1>4, <1>5 DEF LessAt
<1>7. Less(k, u)
  BY <1>1, <1>2, <1>4, <1>6, LessIsAt
<1> QED BY <1>7 DEF u, k

\* Below the upper bound and not below the prefix, there are only keys with the prefix,
\* and prefixes of the upper bound that are shorter.
LEMMA WithinUpperBound ==
    ASSUME NEW p \in Seq(Byte), NEW s \in Seq(Byte), NEW k \in Seq(Byte), NEW c, Incremented(p, c),
           ~Less(k, p \o s), Less(k, NamespaceUpperBound(p)),
           Len(p) <= Len(k) \/ c = Len(p)
    PROVE  IsPrefix(p, k)
<1> DEFINE u == NamespaceUpperBound(p)
<1> SUFFICES ASSUME ~IsPrefix(p, k) PROVE FALSE
  OBVIOUS
<1>1. /\ u \in Seq(Byte) /\ Len(u) = Len(p)
      /\ \A i \in 1 .. c - 1 : u[i] = p[i]
      /\ u[c] = p[c] + 1
      /\ \A i \in c + 1 .. Len(p) : u[i] = 0
  BY UpperBoundBytes
<1>2. Less(k, u)
  OBVIOUS
<1> HIDE DEF u
<1>3. Len(p) \in Nat /\ Len(k) \in Nat /\ c \in 1 .. Len(p)
  BY LenProperties DEF Incremented
<1>4. PICK n \in Nat : Above(k, p, n)
  BY NotBelowPrefix
<1>5. n + 1 \in 1 .. Len(p) /\ n + 1 \in 1 .. Len(k) /\ p[n + 1] < k[n + 1]
  BY <1>3, <1>4 DEF Above
<1>6. p[n + 1] \in Byte /\ k[n + 1] \in Byte /\ p[n + 1] \in Nat /\ k[n + 1] \in Nat
  BY <1>5, BytesAreNumbers
<1>7. n + 1 <= c
  <2>1. CASE n + 1 > c
    <3>1. n + 1 \in c + 1 .. Len(p)
      BY <1>3, <1>5, <2>1
    <3>2. p[n + 1] = Base - 1
      BY <3>1 DEF Incremented
    <3>3. k[n + 1] <= Base - 1
      BY <1>6, BaseAssumption DEF Byte
    <3> QED BY <1>5, <1>6, <3>2, <3>3, BaseAssumption
  <2> QED BY <1>3, <2>1
<1>8. \A i \in 1 .. n : u[i] = k[i]
  <2> TAKE i \in 1 .. n
  <2>1. i \in 1 .. c - 1
    BY <1>3, <1>7
  <2> QED BY <1>1, <1>4, <2>1 DEF Above
<1>9. ~(u[n + 1] < k[n + 1])
  <2>1. u[n + 1] < k[n + 1] => LessAt(u, k, n)
    BY <1>1, <1>3, <1>5, <1>8 DEF LessAt
  <2>2. ~LessAt(u, k, n)
    BY <1>1, <1>2, LessIsAsymmetric, LessIsAt
  <2> QED BY <2>1, <2>2
<1>10. n + 1 = c
  <2>1. CASE n + 1 < c
    <3>1. n + 1 \in 1 .. c - 1
      BY <1>3, <2>1
    <3>2. u[n + 1] = p[n + 1]
      BY <1>1, <3>1
    <3> QED BY <1>5, <1>9, <3>2
  <2> QED BY <1>3, <1>7, <2>1
<1>11. k[c] = u[c] /\ c \in 1 .. Len(k)
  <2>1. u[c] = p[c] + 1 /\ p[c] < k[c] /\ ~(u[c] < k[c])
    BY <1>1, <1>5, <1>9, <1>10
  <2>2. p[c] \in Nat /\ k[c] \in Nat
    BY <1>6, <1>10
  <2> QED BY <1>5, <1>10, <2>1, <2>2
<1>12. PICK m \in Nat : LessAt(k, u, m)
  BY <1>1, <1>2, LessIsAt
<1>13. CASE m < c
  <2>1. m + 1 \in 1 .. n \/ m + 1 = c
    BY <1>3, <1>10, <1>13
  <2>2. k[m + 1] = u[m + 1]
    BY <1>8, <1>11, <2>1
  <2>3. m + 1 \in 1 .. Len(k)
    BY <1>3, <1>11, <1>13
  <2>4. k[m + 1] \in Nat
    BY <2>3, BytesAreNumbers
  <2>5. k[m + 1] < u[m + 1]
    BY <1>3, <1>12, <2>3 DEF LessAt
  <2> QED BY <2>2, <2>4, <2>5
<1>14. CASE c <= m
  <2>1. m + 1 \in c + 1 .. Len(p) /\ c # Len(p)
    BY <1>1, <1>3, <1>12, <1>14 DEF LessAt
  <2>2. u[m + 1] = 0
    BY <1>1, <2>1
  <2>3. m + 1 \in 1 .. Len(k)
    BY <1>3, <2>1
  <2>4. k[m + 1] \in Nat
    BY <2>3, BytesAreNumbers
  <2>5. k[m + 1] < u[m + 1]
    BY <1>3, <1>12, <2>3 DEF LessAt
  <2> QED BY <2>2, <2>4, <2>5
<1> QED BY <1>3, <1>13, <1>14

\* The order of two lengths is that of their bytes.
LEMMA LengthOrder ==
    ASSUME NEW m \in Nat, NEW n \in Nat,
           ~(n \div Base < m \div Base), n \div Base = m \div Base => ~(n % Base < m % Base)
    PROVE  m <= n
<1> DEFINE q == m \div Base
           r == m % Base
           t == n \div Base
           v == n % Base
<1>1. Base \in Nat /\ Base > 0
  BY BaseAssumption
<1>2. q \in Nat /\ t \in Nat /\ r \in 0 .. Base - 1 /\ v \in 0 .. Base - 1
  BY <1>1, LengthIsBytes
<1>3. m = Base * q + r /\ n = Base * t + v
  BY <1>1, Z3
<1>4. ~(t < q) /\ (t = q => ~(v < r))
  OBVIOUS
<1> HIDE DEF q, r, t, v
<1>5. CASE t = q
  <2> DEFINE product == Base * q
  <2>1. product \in Nat /\ m = product + r /\ n = product + v
    BY <1>1, <1>2, <1>3, <1>5
  <2> HIDE DEF product
  <2> QED BY <1>2, <1>4, <1>5, <2>1
<1>6. CASE t # q
  <2>1. PICK d \in Nat : t = q + 1 + d
    <3>1. t - q - 1 \in Nat /\ t = q + 1 + (t - q - 1)
      BY <1>2, <1>4, <1>6
    <3> QED BY <3>1
  <2>2. Base * t = Base * q + Base + Base * d
    BY <1>1, <1>2, <2>1, Z3
  <2> DEFINE low == Base * q
             high == Base * d
  <2>3. low \in Nat /\ high \in Nat
    BY <1>1, <1>2
  <2>4. m = low + r /\ n = low + Base + high + v
    BY <1>3, <2>2
  <2> HIDE DEF low, high
  <2> QED BY <1>1, <1>2, <2>3, <2>4
<1> QED BY <1>5, <1>6

\* A raw key that is not below a keeper's keys is no shorter than the keeper's prefix:
\* its first name is no shorter than the keeper's.
LEMMA RawKeyIsLong ==
    ASSUME NEW a \in Names, NEW b \in Names, NEW s \in Seq(Byte), NEW l \in Seq(Byte),
           ~Less(ToLengthPrefixed(b) \o l, ToLengthPrefixed(a) \o s)
    PROVE  Len(ToLengthPrefixed(a)) <= Len(ToLengthPrefixed(b) \o l)
<1> DEFINE u == ToLengthPrefixed(a) \o s
           k == ToLengthPrefixed(b) \o l
           empty == ToLengthPrefixed(a) \o <<>>
           x == Len(a)
           y == Len(b)
<1>1. x \in Nat /\ y \in Nat /\ Len(s) \in Nat /\ Len(l) \in Nat /\ x < Base * Base /\ y < Base * Base
  BY LenProperties DEF Names
<1>2. IsRawKey(a, s, u) /\ IsRawKey(b, l, k)
  BY RawKey
<1>3. Len(ToLengthPrefixed(a)) = 2 + x
  <2>1. IsRawKey(a, <<>>, empty)
    <3>1. <<>> \in Seq(Byte)
      OBVIOUS
    <3> QED BY <3>1, RawKey
  <2>2. empty = ToLengthPrefixed(a)
    BY PrefixIsBytes, ConcatEmptySeq
  <2>3. Len(empty) = 2 + x + Len(<<>>)
    <3> HIDE DEF empty
    <3> QED BY <2>1 DEF IsRawKey
  <2>4. Len(<<>>) = 0
    OBVIOUS
  <2> HIDE DEF empty
  <2> QED BY <1>1, <2>2, <2>3, <2>4
<1>4. u \in Seq(Byte) /\ k \in Seq(Byte)
  BY PrefixIsBytes, BytesConcat
<1>5. ~Less(k, u)
  OBVIOUS
<1> HIDE DEF u, k
<1>6. Len(u) = 2 + x + Len(s) /\ u[1] = x \div Base /\ u[2] = x % Base
  BY <1>2 DEF IsRawKey
<1>7. Len(k) = 2 + y + Len(l) /\ k[1] = y \div Base /\ k[2] = y % Base
  BY <1>2 DEF IsRawKey
<1>8. ~LessAt(k, u, 0) /\ ~LessAt(k, u, 1)
  BY <1>4, <1>5, LessIsAt
<1>9. ~(k[1] < u[1])
  <2>1. 0 <= Len(k) /\ 0 < Len(u) /\ 0 + 1 = 1 /\ 1 .. 0 = {}
    BY <1>1, <1>6, <1>7
  <2> QED BY <1>8, <2>1 DEF LessAt
<1>10. k[1] = u[1] => ~(k[2] < u[2])
  <2>1. 1 <= Len(k) /\ 1 < Len(u) /\ 1 + 1 = 2 /\ 1 .. 1 = {1}
    BY <1>1, <1>6, <1>7
  <2> QED BY <1>8, <2>1 DEF LessAt
<1>11. x <= y
  <2> HIDE DEF x, y
  <2> QED BY <1>1, <1>6, <1>7, <1>9, <1>10, LengthOrder
<1> QED BY <1>1, <1>3, <1>7, <1>11 DEF k

-----------------------------------------------------------------------------
(* What every range lists *)

LEMMA TightIsIncremented ==
    ASSUME NEW path \in Paths, UpperBoundIsTight(path)
    PROVE  \E c : /\ Incremented(ToLengthPrefixedNested(path), c)
                  /\ c = Len(ToLengthPrefixedNested(path)) \/ Len(path) = 1
<1> DEFINE p == ToLengthPrefixedNested(path)
<1>1. path \in Seq(Names) /\ path # <<>>
  BY PathsAreNames
<1>2. p \in Seq(Byte) /\ Len(p) \in Nat
  BY <1>1, NestedIsBytes, LenProperties
<1>3. Len(p) # 0
  <2>1. Head(path) \in Names /\ Tail(path) \in Seq(Names) /\ path = <<Head(path)>> \o Tail(path)
    BY <1>1, FirstAndRest
  <2> DEFINE a == Head(path)
             rest == ToLengthPrefixedNested(Tail(path))
             bytes == ToLengthPrefixed(a) \o rest
  <2>2. p = ToLengthPrefixedNested(<<a>>) \o rest /\ rest \in Seq(Byte)
    <3>1. <<a>> \in Seq(Names)
      BY <2>1
    <3> QED BY <2>1, <3>1, NestedConcat, NestedIsBytes
  <2>3. p = bytes
    BY <2>1, <2>2, NestedOfOne
  <2>4. IsRawKey(a, rest, bytes)
    BY <2>1, <2>2, RawKey
  <2>5. Len(a) \in Nat /\ Len(rest) \in Nat
    BY <2>1, <2>2, LenProperties DEF Names
  <2> HIDE DEF a, rest, bytes, p
  <2>6. Len(bytes) = 2 + Len(a) + Len(rest)
    BY <2>4 DEF IsRawKey
  <2> QED BY <2>3, <2>5, <2>6
<1>4. CASE p[Len(p)] # Base - 1
  <2>1. Incremented(p, Len(p))
    <3> HIDE DEF p
    <3>1. Len(p) \in 1 .. Len(p) /\ Len(p) + 1 .. Len(p) = {}
      BY <1>2, <1>3
    <3> QED BY <1>4, <3>1 DEF Incremented
  <2> QED BY <2>1
<1>5. CASE Len(path) = 1 /\ \E i \in DOMAIN p : p[i] # Base - 1
  <2>1. \E c \in 1 .. Len(p) : Incremented(p, c)
    <3> HIDE DEF p
    <3>1. DOMAIN p = 1 .. Len(p)
      BY <1>2, LenProperties
    <3> QED BY <1>2, <1>5, <3>1, IncrementedExists
  <2> QED BY <1>5, <2>1
<1> QED BY <1>4, <1>5 DEF UpperBoundIsTight

\* A raw key is a length-prefixed name and what follows.
LEMMA RawKeyHasName ==
    ASSUME PrefixedInv, NEW k \in DOMAIN storage
    PROVE  /\ k \in Seq(Byte)
           /\ \E b \in Names, l \in Seq(Byte) : k = ToLengthPrefixed(b) \o l
<1>1. PICK record \in own : k = RawKeyOf(record.path, record.key)
  BY DEF PrefixedInv, StoredAsWritten, RawKeyOfRecord
<1> DEFINE q == record.path
           b == Head(q)
           w == Tail(q)
           l == ToLengthPrefixedNested(w) \o record.key
<1>2. q \in Seq(Names) /\ q # <<>> /\ record.key \in Seq(Byte)
  BY PathsAreNames, PrefixedKeysAssumption DEF PrefixedInv
<1>3. b \in Names /\ w \in Seq(Names) /\ q = <<b>> \o w
  BY <1>2, FirstAndRest
<1>4. <<b>> \in Seq(Names)
  BY <1>3
<1>5. l \in Seq(Byte)
  BY <1>2, <1>3, NestedIsBytes, BytesConcat
<1>6. k = RawKeyOf(<<b>> \o w, record.key)
  BY <1>1, <1>3
<1>7. RawKeyOf(<<b>> \o w, record.key) = RawKeyOf(<<b>>, l)
  <2> HIDE DEF b, w
  <2> QED BY <1>2, <1>3, <1>4, RawKeyWithin
<1>8. RawKeyOf(<<b>>, l) = ToLengthPrefixed(b) \o l
  BY <1>3, NestedOfOne DEF RawKeyOf
<1>9. ToLengthPrefixed(b) \o l \in Seq(Byte)
  BY <1>3, <1>5, PrefixIsBytes, BytesConcat
<1> HIDE DEF b, l, w, q
<1> QED BY <1>3, <1>5, <1>6, <1>7, <1>8, <1>9

LEMMA BelowTightBound ==
    ASSUME PrefixedInv, NEW path \in Paths, UpperBoundIsTight(path), NEW s \in Seq(Byte),
           NEW k \in DOMAIN storage, ~Less(k, RawKeyOf(path, s)),
           Less(k, NamespaceUpperBound(ToLengthPrefixedNested(path)))
    PROVE  IsPrefix(ToLengthPrefixedNested(path), k)
<1> DEFINE p == ToLengthPrefixedNested(path)
<1>1. path \in Seq(Names) /\ path # <<>> /\ p \in Seq(Byte)
  BY PathsAreNames, NestedIsBytes
<1>2. PICK c : Incremented(p, c) /\ (c = Len(p) \/ Len(path) = 1)
  BY TightIsIncremented
<1>3. PICK b \in Names, l \in Seq(Byte) : k = ToLengthPrefixed(b) \o l
  BY RawKeyHasName
<1>4. k \in Seq(Byte)
  BY RawKeyHasName
<1>5. Len(path) = 1 => Len(p) <= Len(k)
  <2> SUFFICES ASSUME Len(path) = 1 PROVE Len(p) <= Len(k)
    OBVIOUS
  <2> DEFINE a == path[1]
  <2>1. path = <<a>> /\ a \in Names
    BY <1>1
  <2>2. p = ToLengthPrefixed(a)
    <3> HIDE DEF a
    <3> QED BY <2>1, NestedOfOne
  <2>3. ~Less(ToLengthPrefixed(b) \o l, ToLengthPrefixed(a) \o s)
    BY <1>3, <2>2 DEF RawKeyOf
  <2> HIDE DEF a, p
  <2> QED BY <1>3, <2>1, <2>2, <2>3, RawKeyIsLong
<1>6. ~Less(k, p \o s) /\ Less(k, NamespaceUpperBound(p))
  BY DEF RawKeyOf
<1>7. IsPrefix(p, k)
  <2> HIDE DEF p
  <2> QED BY <1>1, <1>2, <1>4, <1>5, <1>6, WithinUpperBound
<1> QED BY <1>7

\* The bounds of a view: None is no bound.
Bound == PrefixedKeys \cup {Absent}
From(p, start) == IF start = Absent THEN p ELSE p \o start
UpTo(p, end) == IF end = Absent THEN NamespaceUpperBound(p) ELSE p \o end
WithinBounds(k, start, end) == (start # Absent => ~Less(k, start)) /\ (end # Absent => Less(k, end))

\* The raw records of a range are those of the keys within the bounds.
LEMMA RawRange ==
    ASSUME PrefixedInv, NEW path \in Paths, UpperBoundIsTight(path), NEW start \in Bound, NEW end \in Bound
    PROVE  LET p == ToLengthPrefixedNested(path)
           IN  Between(From(p, start), UpTo(p, end))
                 = {k \in DOMAIN storage : IsPrefix(p, k) /\ WithinBounds(Trim(p, k), start, end)}
<1> DEFINE p == ToLengthPrefixedNested(path)
<1>1. p \in Seq(Byte)
  BY PathsAreNames, NestedIsBytes
<1>2. (start # Absent => start \in Seq(Byte)) /\ (end # Absent => end \in Seq(Byte))
  BY PrefixedKeysAssumption DEF Bound
<1>3. PICK c : Incremented(p, c)
  BY TightIsIncremented
<1>4. p \o <<>> = p /\ <<>> \in Seq(Byte)
  BY <1>1, ConcatEmptySeq
<1>5. ASSUME NEW k \in DOMAIN storage, ~Less(k, From(p, start)), Less(k, UpTo(p, end))
      PROVE  IsPrefix(p, k)
  <2>1. k \in Seq(Byte)
    BY RawKeyHasName
  <2>2. PICK s \in Seq(Byte) : ~Less(k, p \o s)
    <3> HIDE DEF p
    <3> QED BY <1>2, <1>4, <1>5 DEF From
  <2>3. CASE end = Absent
    <3>1. Less(k, NamespaceUpperBound(p))
      BY <1>5, <2>3 DEF UpTo
    <3> QED BY <2>2, <3>1, BelowTightBound DEF RawKeyOf
  <2>4. CASE end # Absent
    <3>1. Less(k, p \o end)
      BY <1>5, <2>4 DEF UpTo
    <3> HIDE DEF p
    <3> QED BY <1>1, <1>2, <2>1, <2>2, <2>4, <3>1, BetweenHasPrefix
  <2> QED BY <2>3, <2>4
<1>6. ASSUME NEW k \in DOMAIN storage, IsPrefix(p, k)
      PROVE  ~Less(k, From(p, start)) /\ Less(k, UpTo(p, end)) <=> WithinBounds(Trim(p, k), start, end)
  <2> HIDE DEF p
  <2> DEFINE x == Trim(p, k)
  <2>1. k \in Seq(Byte)
    BY RawKeyHasName
  <2>2. x \in Seq(Byte) /\ k = p \o x
    BY <1>1, <1>6, <2>1, PrefixSplits
  <2> HIDE DEF x
  <2>3. start # Absent => (Less(k, From(p, start)) <=> Less(x, start))
    BY <1>1, <1>2, <2>2, LessBehindPrefix DEF From
  <2>4. start = Absent => ~Less(k, From(p, start))
    <3>1. ~Less(x, <<>>)
      <4>1. \A n \in Nat : ~LessAt(x, <<>>, n)
        BY DEF LessAt
      <4> QED BY <1>4, <2>2, <4>1, LessIsAt
    <3>2. Less(p \o x, p \o <<>>) <=> Less(x, <<>>)
      BY <1>1, <1>4, <2>2, LessBehindPrefix
    <3> QED BY <1>4, <2>2, <3>1, <3>2 DEF From
  <2>5. end # Absent => (Less(k, UpTo(p, end)) <=> Less(x, end))
    BY <1>1, <1>2, <2>2, LessBehindPrefix DEF UpTo
  <2>6. end = Absent => Less(k, UpTo(p, end))
    BY <1>1, <1>3, <2>2, BelowUpperBound DEF UpTo
  <2> QED BY <2>3, <2>4, <2>5, <2>6 DEF WithinBounds, x
<1>7. Between(From(p, start), UpTo(p, end))
        = {k \in DOMAIN storage : IsPrefix(p, k) /\ WithinBounds(Trim(p, k), start, end)}
  <2> HIDE DEF p
  <2> QED BY <1>5, <1>6 DEF Between
<1> QED BY <1>7

LEMMA PrecedesOrders ==
    ASSUME NEW order \in Orders, NEW a \in Seq(Byte), NEW b \in Seq(Byte)
    PROVE  /\ a # b => Precedes(order, a, b) \/ Precedes(order, b, a)
           /\ \A c \in Seq(Byte) : Precedes(order, a, b) /\ Precedes(order, b, c) => Precedes(order, a, c)
BY LessIsTotal, LessIsTransitive DEF Precedes

\* The keys of s are those in S, one after the other.
InSequence(s, S, order) ==
    /\ s \in [1 .. Cardinality(S) -> S]
    /\ \A k \in S : \E i \in 1 .. Cardinality(S) : s[i] = k
    /\ \A i, j \in 1 .. Cardinality(S) : i < j => Precedes(order, s[i], s[j])

LEMMA KeysInOrderAre ==
    ASSUME NEW order \in Orders, NEW S \in SUBSET Seq(Byte), IsFiniteSet(S)
    PROVE  InSequence(KeysInOrder(S, order), S, order)
<1> DEFINE R == {x \in S \X S : Precedes(order, x[1], x[2])}
<1>1. \A a, b \in S : <<a, b>> \in R <=> Precedes(order, a, b)
  OBVIOUS
<1> HIDE DEF R
<1>2. StrictlyOrders(R, S)
  BY <1>1, PrecedesOrders DEF StrictlyOrders
<1>3. PICK s : Enumerates(s, Cardinality(S), S, R)
  BY <1>2, EnumerationExists
<1>4. InSequence(s, S, order)
  BY <1>1, <1>3 DEF InSequence, Enumerates
<1> QED BY <1>4 DEF InSequence, KeysInOrder

\* The keys of a range of a view are those it sees within the bounds, in order.
SeenKeys(p, start, end) ==
    {x \in Seq(Byte) : p \o x \in DOMAIN storage /\ WithinBounds(x, start, end)}

LEMMA RangeListsSeenKeys ==
    ASSUME PrefixedInv, NEW path \in Paths, UpperBoundIsTight(path), NEW start \in Bound, NEW end \in Bound,
           NEW order \in Orders
    PROVE  LET p == ToLengthPrefixedNested(path)
               records == RangeWithPrefix(p, start, end, order)
           IN  \E n \in Nat :
                 /\ DOMAIN records = 1 .. n
                 /\ \A i \in 1 .. n : \E x \in SeenKeys(p, start, end) : records[i] = <<x, storage[p \o x]>>
                 /\ \A x \in SeenKeys(p, start, end) : \E i \in 1 .. n : records[i] = <<x, storage[p \o x]>>
                 /\ \A i, j \in 1 .. n : i < j => Precedes(order, records[i][1], records[j][1])
<1> DEFINE p == ToLengthPrefixedNested(path)
           S == Between(From(p, start), UpTo(p, end))
           raw == KeysInOrder(S, order)
           records == [i \in DOMAIN raw |-> <<Trim(p, raw[i]), storage[raw[i]]>>]
<1>1. p \in Seq(Byte)
  BY PathsAreNames, NestedIsBytes
<1>2. RangeWithPrefix(p, start, end, order) = records
  BY DEF RangeWithPrefix, From, UpTo
<1>3. S = {k \in DOMAIN storage : IsPrefix(p, k) /\ WithinBounds(Trim(p, k), start, end)}
  BY RawRange
<1>4. DOMAIN storage \subseteq Seq(Byte) /\ IsFiniteSet(DOMAIN storage)
  BY RawKeyHasName DEF PrefixedInv
<1> HIDE DEF p, S
<1>5. S \in SUBSET Seq(Byte) /\ IsFiniteSet(S)
  BY <1>3, <1>4, FS_Subset
<1>6. PICK n \in Nat : n = Cardinality(S)
  BY <1>5, FS_CardinalityType
<1>7. InSequence(raw, S, order)
  BY <1>5, KeysInOrderAre
<1> HIDE DEF raw
<1>8. /\ raw \in [1 .. n -> S]
      /\ \A k \in S : \E i \in 1 .. n : raw[i] = k
      /\ \A i, j \in 1 .. n : i < j => Precedes(order, raw[i], raw[j])
  BY <1>6, <1>7 DEF InSequence
<1>9. DOMAIN records = 1 .. n
  BY <1>8
<1>10. ASSUME NEW k \in S
       PROVE  Trim(p, k) \in SeenKeys(p, start, end) /\ k = p \o Trim(p, k)
  <2>1. k \in Seq(Byte) /\ IsPrefix(p, k) /\ WithinBounds(Trim(p, k), start, end) /\ k \in DOMAIN storage
    BY <1>3, <1>5
  <2>2. Trim(p, k) \in Seq(Byte) /\ k = p \o Trim(p, k)
    BY <1>1, <2>1, PrefixSplits
  <2> DEFINE x == Trim(p, k)
  <2> HIDE DEF x
  <2>3. x \in Seq(Byte) /\ k = p \o x /\ p \o x \in DOMAIN storage /\ WithinBounds(x, start, end)
    <3>1. x \in Seq(Byte) /\ k = p \o x
      BY <2>2 DEF x
    <3> QED BY <2>1, <3>1 DEF x
  <2>4. x \in SeenKeys(p, start, end)
    BY <2>3 DEF SeenKeys
  <2> QED BY <2>3, <2>4 DEF x
<1>11. ASSUME NEW x \in SeenKeys(p, start, end)
       PROVE  p \o x \in S /\ Trim(p, p \o x) = x
  <2>1. x \in Seq(Byte) /\ p \o x \in DOMAIN storage /\ WithinBounds(x, start, end)
    BY DEF SeenKeys
  <2>2. IsPrefix(p, p \o x) /\ Trim(p, p \o x) = x
    BY <1>1, <2>1, PrefixOfConcat
  <2> QED BY <1>3, <2>1, <2>2
<1>12. ASSUME NEW i \in 1 .. n
       PROVE  /\ raw[i] \in S /\ records[i] = <<Trim(p, raw[i]), storage[raw[i]]>>
              /\ \E x \in SeenKeys(p, start, end) : records[i] = <<x, storage[p \o x]>>
  <2>1. raw[i] \in S /\ records[i] = <<Trim(p, raw[i]), storage[raw[i]]>>
    BY <1>8
  <2> DEFINE x == Trim(p, raw[i])
  <2>2. x \in SeenKeys(p, start, end) /\ raw[i] = p \o x
    BY <1>10, <2>1
  <2>3. records[i] = <<x, storage[raw[i]]>>
    BY <2>1
  <2> HIDE DEF x, records
  <2>4. records[i] = <<x, storage[p \o x]>>
    BY <2>2, <2>3
  <2> QED BY <2>1, <2>2, <2>4
<1> HIDE DEF records
<1>13. ASSUME NEW x \in SeenKeys(p, start, end)
       PROVE  \E i \in 1 .. n : records[i] = <<x, storage[p \o x]>>
  <2>1. PICK i \in 1 .. n : raw[i] = p \o x
    BY <1>8, <1>11
  <2>2. records[i] = <<Trim(p, raw[i]), storage[raw[i]]>>
    BY <1>12
  <2>3. Trim(p, raw[i]) = x
    BY <1>11, <2>1
  <2> QED BY <2>1, <2>2, <2>3
<1>14. ASSUME NEW i \in 1 .. n, NEW j \in 1 .. n, i < j
       PROVE  Precedes(order, records[i][1], records[j][1])
  <2> DEFINE x == Trim(p, raw[i])
             y == Trim(p, raw[j])
  <2>1. raw[i] \in S /\ raw[j] \in S /\ Precedes(order, raw[i], raw[j])
    BY <1>8, <1>14
  <2>2. x \in Seq(Byte) /\ raw[i] = p \o x /\ y \in Seq(Byte) /\ raw[j] = p \o y
    BY <1>10, <2>1 DEF SeenKeys
  <2>3. records[i][1] = x /\ records[j][1] = y
    BY <1>12
  <2> HIDE DEF x, y
  <2>4. Precedes(order, p \o x, p \o y)
    BY <2>1, <2>2
  <2>5. Precedes(order, x, y)
    BY <1>1, <2>2, <2>4, LessBehindPrefix DEF Precedes
  <2> QED BY <2>3, <2>5
<1> QED BY <1>2, <1>9, <1>12, <1>13, <1>14 DEF p

LEMMA PrefixedInvMeansExact ==
    ASSUME \A path \in Paths : UpperBoundIsTight(path), PrefixedInv
    PROVE  RangesAreExact
<1> SUFFICES ASSUME NEW path \in Paths, NEW start \in Bound, NEW end \in Bound, NEW order \in Orders,
                    NEW prefix \in PrefixesOf(path)
             PROVE  LET seen == UNION {{<<k, r.value>> : k \in SeenFrom(path, r)} : r \in own}
                        records == RangeWithPrefix(prefix, start, end, order)
                    IN  /\ ToSet(records) = {x \in seen : WithinBounds(x[1], start, end)}
                        /\ \A i, j \in DOMAIN records :
                             i < j => Precedes(order, records[i][1], records[j][1])
  BY DEF RangesAreExact, WithinBounds, Bound, Orders
<1> DEFINE p == ToLengthPrefixedNested(path)
           seen == UNION {{<<k, r.value>> : k \in SeenFrom(path, r)} : r \in own}
           records == RangeWithPrefix(p, start, end, order)
<1>1. prefix = p
  BY ViewsHavePrefix
<1>2. PICK n \in Nat :
        /\ DOMAIN records = 1 .. n
        /\ \A i \in 1 .. n : \E x \in SeenKeys(p, start, end) : records[i] = <<x, storage[p \o x]>>
        /\ \A x \in SeenKeys(p, start, end) : \E i \in 1 .. n : records[i] = <<x, storage[p \o x]>>
        /\ \A i, j \in 1 .. n : i < j => Precedes(order, records[i][1], records[j][1])
  BY RangeListsSeenKeys
<1> HIDE DEF records
<1>3. ASSUME NEW r \in own, NEW k
      PROVE  k \in SeenFrom(path, r) <=> k \in Seq(Byte) /\ p \o k = RawKeyOfRecord(r)
  <2>1. r.path \in Paths /\ r.key \in Seq(Byte)
    BY PrefixedKeysAssumption DEF PrefixedInv
  <2>2. SeenFrom(path, r) = {l \in Seq(Byte) : RawKeyOf(path, l) = RawKeyOf(r.path, r.key)}
    BY <2>1, SeenIsSameKey
  <2> QED BY <2>2 DEF RawKeyOfRecord, RawKeyOf
<1> HIDE DEF p
<1>4. ASSUME NEW x \in SeenKeys(p, start, end)
      PROVE  <<x, storage[p \o x]>> \in seen /\ WithinBounds(x, start, end)
  <2>1. x \in Seq(Byte) /\ p \o x \in DOMAIN storage /\ WithinBounds(x, start, end)
    BY DEF SeenKeys
  <2>2. PICK r \in own : p \o x = RawKeyOfRecord(r)
    BY <2>1 DEF PrefixedInv, StoredAsWritten
  <2>3. x \in SeenFrom(path, r) /\ storage[p \o x] = r.value
    BY <1>3, <2>1, <2>2 DEF PrefixedInv, StoredAsWritten
  <2> QED BY <2>1, <2>3
<1>5. ASSUME NEW y \in seen, WithinBounds(y[1], start, end)
      PROVE  \E x \in SeenKeys(p, start, end) : y = <<x, storage[p \o x]>>
  <2>1. PICK r \in own : y \in {<<k, r.value>> : k \in SeenFrom(path, r)}
    OBVIOUS
  <2>2. PICK k \in SeenFrom(path, r) : y = <<k, r.value>>
    BY <2>1
  <2>3. k \in Seq(Byte) /\ p \o k = RawKeyOfRecord(r)
    BY <1>3
  <2>4. p \o k \in DOMAIN storage /\ storage[p \o k] = r.value
    BY <2>3 DEF PrefixedInv, StoredAsWritten
  <2>5. y[1] = k
    BY <2>2
  <2>6. k \in SeenKeys(p, start, end)
    BY <1>5, <2>3, <2>4, <2>5 DEF SeenKeys
  <2> QED BY <2>2, <2>4, <2>6
<1> HIDE DEF seen
<1>6. ToSet(records) = {records[i] : i \in 1 .. n}
  BY <1>2 DEF ToSet
<1>7. ASSUME NEW i \in 1 .. n
      PROVE  records[i] \in {y \in seen : WithinBounds(y[1], start, end)}
  <2>1. PICK x \in SeenKeys(p, start, end) : records[i] = <<x, storage[p \o x]>>
    BY <1>2
  <2> QED BY <1>4, <2>1
<1>8. ASSUME NEW y \in seen, WithinBounds(y[1], start, end)
      PROVE  \E i \in 1 .. n : records[i] = y
  <2>1. PICK x \in SeenKeys(p, start, end) : y = <<x, storage[p \o x]>>
    BY <1>5, <1>8
  <2>2. PICK i \in 1 .. n : records[i] = <<x, storage[p \o x]>>
    BY <1>2
  <2> QED BY <2>1, <2>2
<1>9. ToSet(records) = {y \in seen : WithinBounds(y[1], start, end)}
  BY <1>6, <1>7, <1>8
<1> QED BY <1>1, <1>2, <1>9 DEF seen, records, p

\* range_with_prefix: between any bounds, in either order, a view lists its own records and
\* those within and around it that have a key there, all of them and no others, if no
\* namespace in use has an upper bound above foreign keys.
THEOREM RangesStayExact ==
    ASSUME \A path \in Paths : UpperBoundIsTight(path)
    PROVE  PrefixedSpec => []RangesAreExact
<1>1. PrefixedSpec => []PrefixedInv
  BY InitPrefixedInv, NextPrefixedInv, PTL DEF PrefixedSpec
<1>2. PrefixedInv => RangesAreExact
  BY PrefixedInvMeansExact
<1> QED BY <1>1, <1>2, PTL
=============================================================================
