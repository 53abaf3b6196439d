-------------------------- MODULE StorageTransaction --------------------------
(***************************************************************************)
(* src/transactions.rs: nested StorageTransactions over a backing storage.  *)
(* caches is the stack of open transactions, innermost last; each keeps the *)
(* deltas it shows to its user (local_state) and the operations it replays  *)
(* on commit (rep_log).  RepLog::commit writes operation by operation, so   *)
(* the log being replayed is a state of its own (pending): while it is not  *)
(* empty the storage below is exclusively borrowed and nothing else runs.   *)
(***************************************************************************)
EXTENDS Naturals, Sequences, FiniteSets

CONSTANTS Keys, Values,
          None,       \* what get returns for an absent key
          Delete,     \* Delta::Delete / Op::Delete
          NoDelta,    \* local_state has no entry for the key
          MaxDepth,   \* bound: nested transactions
          MaxLog      \* bound: operations logged and not yet replayed

ASSUME MarkersAssumption ==
    /\ {None, Delete, NoDelta} \cap Values = {}
    /\ Delete # NoDelta

ASSUME BoundsAssumption == MaxDepth \in Nat /\ MaxLog \in Nat

VARIABLES base, caches, pending
vars == <<base, caches, pending>>

Deltas == Values \cup {Delete}
Ops == [key : Keys, delta : Deltas]
Layer == [local_state : [Keys -> Deltas \cup {NoDelta}], rep_log : Seq(Ops)]

Depth == Len(caches)
MaxOf(S) == CHOOSE m \in S : \A i \in S : i <= m

\* Mutant of Content: a Delete is written down like a value.
ContentKeepsDelete(delta) == delta

\* Delta::Set { value } is read as its value, Delta::Delete {} as None.
Content(delta) == IF delta = Delete THEN None ELSE delta

-----------------------------------------------------------------------------
(* Reading *)

\* The layers up to the nth that have an entry for k.
Holding(n, k) == {i \in 1 .. n : caches[i].local_state[k] # NoDelta}

\* StorageTransaction::get on the nth transaction: its own delta, else what the
\* storage below answers, down to the backing storage (n = 0).
Get(n, k) ==
    IF Holding(n, k) = {} THEN base[k]
    ELSE Content(caches[MaxOf(Holding(n, k))].local_state[k])

\* The delta that replaying log leaves on k: that of the last operation on k.
Touching(log, k) == {j \in DOMAIN log : log[j].key = k}
LastDelta(log, k) ==
    IF Touching(log, k) = {} THEN NoDelta ELSE log[MaxOf(Touching(log, k))].delta

-----------------------------------------------------------------------------
(* Writing *)

\* Mutant of Record: removing a key this transaction has not touched is not logged.
RecordSkipsDelete(layer, op) ==
    [local_state |-> [layer.local_state EXCEPT ![op.key] = op.delta],
     rep_log     |-> IF op.delta = Delete /\ layer.local_state[op.key] = NoDelta
                     THEN layer.rep_log ELSE Append(layer.rep_log, op)]

\* Storage::set and Storage::remove of a StorageTransaction.
Record(layer, op) ==
    [local_state |-> [layer.local_state EXCEPT ![op.key] = op.delta],
     rep_log     |-> Append(layer.rep_log, op)]

\* Mutant of Apply: a nested commit writes through to the backing storage.
ApplyToBase(op, cs) ==
    /\ base' = [base EXCEPT ![op.key] = Content(op.delta)]
    /\ caches' = cs

\* Op::apply on the innermost of the transactions cs, on the backing storage
\* when cs is empty.
Apply(op, cs) ==
    IF cs = <<>>
    THEN /\ base' = [base EXCEPT ![op.key] = Content(op.delta)]
         /\ caches' = cs
    ELSE /\ caches' = [cs EXCEPT ![Len(cs)] = Record(cs[Len(cs)], op)]
         /\ UNCHANGED base

Logged == UNION {{i} \X DOMAIN caches[i].rep_log : i \in DOMAIN caches}

NewLayer == [local_state |-> [k \in Keys |-> NoDelta], rep_log |-> <<>>]

Init ==
    /\ base \in [Keys -> Values \cup {None}]
    /\ caches = <<>>
    /\ pending = <<>>

\* transactional opens a cache over the storage it is given.
Begin ==
    /\ pending = <<>>
    /\ Depth < MaxDepth
    /\ caches' = Append(caches, NewLayer)
    /\ UNCHANGED <<base, pending>>

\* The action run by transactional (or code outside of one) writes.
Write(op) ==
    /\ pending = <<>>
    /\ Cardinality(Logged) < MaxLog
    /\ Apply(op, caches)
    /\ UNCHANGED pending

\* The action returned Ok: prepare() keeps only the log of the transaction.
Prepare ==
    /\ pending = <<>>
    /\ caches # <<>>
    /\ pending' = caches[Depth].rep_log
    /\ caches' = SubSeq(caches, 1, Depth - 1)
    /\ UNCHANGED base

\* One round of the loop of RepLog::commit.
CommitStep ==
    /\ pending # <<>>
    /\ Apply(Head(pending), caches)
    /\ pending' = Tail(pending)

\* The action returned Err: the transaction is dropped by `?`.
Rollback ==
    /\ pending = <<>>
    /\ caches # <<>>
    /\ caches' = SubSeq(caches, 1, Depth - 1)
    /\ UNCHANGED <<base, pending>>

Next ==
    \/ Begin
    \/ \E op \in Ops : Write(op)
    \/ Prepare
    \/ CommitStep
    \/ Rollback

Spec == Init /\ [][Next]_vars

-----------------------------------------------------------------------------
(* Properties *)

\* Types of the state of src/transactions.rs, with the bound on nesting.
TypeOK ==
    /\ base \in [Keys -> Values \cup {None}]
    /\ caches \in Seq(Layer)
    /\ pending \in Seq(Ops)

\* Replaying the log of a transaction leaves exactly the deltas it showed to
\* its user: set and remove keep local_state and rep_log in step, also when
\* they are called by the commit of a nested transaction.
LogMatchesState ==
    \A i \in 1 .. Depth : \A k \in Keys :
        caches[i].local_state[k] = LastDelta(caches[i].rep_log, k)

\* The snapshots the abstract store sees: what get answers at every level, the
\* innermost one with the rest of the log being replayed already applied.
View(n) == [k \in Keys |-> Get(n, k)]
Replayed(view) ==
    [k \in Keys |-> IF LastDelta(pending, k) = NoDelta THEN view[k]
                    ELSE Content(LastDelta(pending, k))]
Snapshots ==
    [i \in 1 .. Depth + 1 |-> IF i = Depth + 1 THEN Replayed(View(Depth)) ELSE View(i - 1)]

Abstract == INSTANCE SnapshotStore WITH views <- Snapshots

\* DESIGN.md, "StorageTransaction": a commit flushes everything the transaction
\* showed, a rollback forgets it, at every level of nesting, and neither
\* disturbs the levels below the one it writes to.
ImplementsSnapshots == Abstract!Spec
=============================================================================
