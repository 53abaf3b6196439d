---------------------------- MODULE SnapshotStore ----------------------------
(***************************************************************************)
(* What src/transactions.rs promises (DESIGN.md, "StorageTransaction"): a   *)
(* stack of snapshots of a key/value store.  views[1] is the backing        *)
(* storage; every further element is the content an open transaction shows  *)
(* to its user.  Opening a transaction copies the top, writing changes only *)
(* the top, committing replaces the storage below by the top in one step,   *)
(* dropping the transaction forgets the top.                                *)
(***************************************************************************)
EXTENDS Naturals, Sequences

CONSTANTS Keys,      \* the keys of the storage
          Values,    \* the values a key may be set to
          None       \* the content of an absent key

VARIABLE views

Content == [Keys -> Values \cup {None}]
Depth == Len(views)

Init == \E content \in Content : views = <<content>>

\* transactional: StorageTransaction::new(base)
Begin == views' = Append(views, views[Depth])

\* Storage::set and Storage::remove on the innermost storage
Put(k, v) == views' = [views EXCEPT ![Depth] = [views[Depth] EXCEPT ![k] = v]]

\* cache.prepare().commit(base)
Commit ==
    /\ Depth > 1
    /\ views' = [i \in 1 .. Depth - 1 |-> IF i = Depth - 1 THEN views[Depth] ELSE views[i]]

\* the transaction is dropped
Rollback ==
    /\ Depth > 1
    /\ views' = [i \in 1 .. Depth - 1 |-> views[i]]

Next ==
    \/ Begin
    \/ \E k \in Keys, v \in Values \cup {None} : Put(k, v)
    \/ Commit
    \/ Rollback

Spec == Init /\ [][Next]_views
=============================================================================
