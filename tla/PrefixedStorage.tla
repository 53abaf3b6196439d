---------------------------- MODULE PrefixedStorage ----------------------------
(***************************************************************************)
(* src/prefixed_storage: the views through which each module of an App, and *)
(* each contract, has a part of the one storage to itself.  The key of a    *)
(* record is the names of the namespaces, each after its length             *)
(* (LengthPrefixed), and the key within.                                    *)
(*                                                                          *)
(* A view of nested namespaces lies within the views of those that enclose  *)
(* it: own is what every record is in the words of its writer.              *)
(***************************************************************************)
EXTENDS LengthPrefixed, FiniteSets, SequencesExt

CONSTANTS Paths,         \* the namespaces in use: sequences of names, outermost first
          PrefixedKeys,  \* the keys that are written and bound ranges
          Contents,      \* the values
          Absent,        \* no value, no bound
          MaxRecords     \* bound: records in the storage

ASSUME PathsAssumption ==
    /\ Paths \subseteq Seq(Seq(Byte)) \ {<<>>}
    /\ \A path \in Paths : \A i \in DOMAIN path : Len(path[i]) < Base * Base
ASSUME PrefixedKeysAssumption == PrefixedKeys \subseteq Seq(Byte)
ASSUME AbsentAssumption == Absent \notin Contents /\ Absent \notin PrefixedKeys

VARIABLES storage,  \* the bytes of the App: a function from raw keys to values
          own       \* history: the records as they were written, by path and key
prefixedVars == <<storage, own>>

-----------------------------------------------------------------------------
(* length_prefixed.rs: a name of a path after the other *)

ToLengthPrefixedNested(namespaces) ==
    FlattenSeq([i \in DOMAIN namespaces |-> ToLengthPrefixed(namespaces[i])])

-----------------------------------------------------------------------------
(* namespace_helpers.rs *)

\* The order of bytes.
Less(a, b) ==
    \E n \in 0 .. Len(a) :
        /\ IsPrefix(SubSeq(a, 1, n), b)
        /\ n < Len(b)
        /\ n < Len(a) => a[n + 1] < b[n + 1]

\* Mutant of NamespaceUpperBound: the last byte alone is incremented, and wraps.
NamespaceUpperBoundWraps(input) ==
    [i \in DOMAIN input |-> IF i = Len(input) THEN (input[i] + 1) % Base ELSE input[i]]

\* Increments the last byte, and the one before it when a byte of 255 becomes 0.
NamespaceUpperBound(input) ==
    LET Carried(i) == \A j \in i + 1 .. Len(input) : input[j] = Base - 1
    IN  [i \in DOMAIN input |-> IF Carried(i) THEN (input[i] + 1) % Base ELSE input[i]]

GetWithPrefix(prefix, key) ==
    IF prefix \o key \in DOMAIN storage THEN storage[prefix \o key] ELSE Absent

SetWithPrefix(prefix, key, value) ==
    [k \in DOMAIN storage \cup {prefix \o key} |->
        IF k = prefix \o key THEN value ELSE storage[k]]

RemoveWithPrefix(prefix, key) ==
    [k \in DOMAIN storage \ {prefix \o key} |-> storage[k]]

\* The raw records of the storage below: start is within, end is not.
Between(start, end) == {k \in DOMAIN storage : ~Less(k, start) /\ Less(k, end)}

Precedes(order, a, b) == IF order = "Ascending" THEN Less(a, b) ELSE Less(b, a)
KeysInOrder(S, order) ==
    CHOOSE s \in [1 .. Cardinality(S) -> S] :
      /\ \A k \in S : \E i \in 1 .. Cardinality(S) : s[i] = k
      /\ \A i, j \in 1 .. Cardinality(S) : i < j => Precedes(order, s[i], s[j])

Trim(namespace, key) == SubSeq(key, Len(namespace) + 1, Len(key))

RangeWithPrefix(namespace, start, end, order) ==
    LET from == IF start = Absent THEN namespace ELSE namespace \o start
        to == IF end = Absent THEN NamespaceUpperBound(namespace) ELSE namespace \o end
        raw == KeysInOrder(Between(from, to), order)
    IN  [i \in DOMAIN raw |-> <<Trim(namespace, raw[i]), storage[raw[i]]>>]

-----------------------------------------------------------------------------
(* The views.  Those of a keeper are typed: their first name is the keeper's. *)

StorageView(prefix, writable) == [prefix |-> prefix, writable |-> writable]

Prefixed(namespace) == StorageView(ToLengthPrefixed(namespace), TRUE)
Multilevel(namespaces) == StorageView(ToLengthPrefixedNested(namespaces), TRUE)
ReadonlyPrefixed(namespace) == StorageView(ToLengthPrefixed(namespace), FALSE)
ReadonlyMultilevel(namespaces) == StorageView(ToLengthPrefixedNested(namespaces), FALSE)

\* TypedPrefixedStorageMut: the keeper's storage, or a namespace of it, such as that
\* of a contract; borrow gives a read-only view of the same.
Typed(keeper, namespaces) ==
    CASE namespaces = <<>> -> StorageView(ToLengthPrefixed(keeper), TRUE)
      [] OTHER -> StorageView(ToLengthPrefixedNested(<<keeper>> \o namespaces), TRUE)
Borrow(view) == [view EXCEPT !.writable = FALSE]

\* The views there are of a path; set and remove of a read-only one panic.
ViewsOf(path) ==
    {Multilevel(path), ReadonlyMultilevel(path), Typed(Head(path), Tail(path)),
     Borrow(Typed(Head(path), Tail(path)))}
        \cup (IF Len(path) = 1 THEN {Prefixed(Head(path)), ReadonlyPrefixed(Head(path))} ELSE {})
Writable(path) == {view \in ViewsOf(path) : view.writable}
PrefixesOf(path) == {view.prefix : view \in ViewsOf(path)}

\* The same record, in the words of path: of its own, or of a namespace that encloses
\* path or that path encloses.  A view of another namespace has no word for it.
SeenFrom(path, record) ==
    CASE path = record.path -> {record.key}
      [] IsStrictPrefix(path, record.path) ->
            {ToLengthPrefixedNested(Trim(path, record.path)) \o record.key}
      [] IsStrictPrefix(record.path, path) ->
            LET within == ToLengthPrefixedNested(Trim(record.path, path))
            IN  {Trim(within, k) : k \in {k \in {record.key} : IsPrefix(within, k)}}
      [] OTHER -> {}

Others(path, key) == {record \in own : key \notin SeenFrom(path, record)}

-----------------------------------------------------------------------------
PrefixedInit ==
    /\ storage = [k \in {} |-> 0]
    /\ own = {}

SetRecord(path, key, value) ==
    /\ \E view \in Writable(path) : storage' = SetWithPrefix(view.prefix, key, value)
    /\ own' = Others(path, key) \cup {[path |-> path, key |-> key, value |-> value]}
    /\ Cardinality(own') <= MaxRecords

RemoveRecord(path, key) ==
    /\ \E view \in Writable(path) : storage' = RemoveWithPrefix(view.prefix, key)
    /\ own' = Others(path, key)

PrefixedNext ==
    \E path \in Paths, key \in PrefixedKeys :
        \/ \E value \in Contents : SetRecord(path, key, value)
        \/ RemoveRecord(path, key)

PrefixedSpec == PrefixedInit /\ [][PrefixedNext]_prefixedVars

-----------------------------------------------------------------------------
(* Properties *)

ValuesAt(path, key) == {record.value : record \in {r \in own : key \in SeenFrom(path, r)}}

\* get_with_prefix: a view answers what was last written to the key through it, or
\* through a namespace around or within it, and no write to another namespace is
\* ever taken for it, whatever bytes its name and key are made of.
NamespacesAreApart ==
    \A path \in Paths, key \in PrefixedKeys : \A prefix \in PrefixesOf(path) :
        ValuesAt(path, key) = {GetWithPrefix(prefix, key)} \ {Absent}

\* namespace_upper_bound is above the keys with the prefix of the path and nothing more:
\* it ends in the byte it incremented, or no raw key is short enough to lie in between.
UpperBoundIsTight(path) ==
    LET prefix == ToLengthPrefixedNested(path)
    IN  \/ prefix[Len(prefix)] # Base - 1
        \/ Len(path) = 1 /\ \E i \in DOMAIN prefix : prefix[i] # Base - 1

\* range_with_prefix: between any bounds a view lists all of its records, trimmed and
\* in order, and no other namespace's.
RangesAreExact ==
    \A path \in Paths, start \in PrefixedKeys \cup {Absent}, end \in PrefixedKeys \cup {Absent},
       order \in {"Ascending", "Descending"} :
        LET seen == UNION {{<<k, r.value>> : k \in SeenFrom(path, r)} : r \in own}
            InRange(k) == (start # Absent => ~Less(k, start)) /\ (end # Absent => Less(k, end))
        IN  \A prefix \in PrefixesOf(path) :
              LET records == RangeWithPrefix(prefix, start, end, order)
              IN  /\ ToSet(records) = {x \in seen : InRange(x[1])}
                  /\ \A i, j \in DOMAIN records :
                       i < j => Precedes(order, records[i][1], records[j][1])
=============================================================================
