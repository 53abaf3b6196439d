-------------------------- MODULE SubMessages_proofs --------------------------
(***************************************************************************)
(* Proofs about SubMessages, for any number of transactions, messages and   *)
(* submessages, all kinds of message and all ways to fail: the types of its *)
(* state, that each layer of storage holds what was not rolled back, that   *)
(* errors are handled or go up, that submessages are replied to as they     *)
(* ask, and that the backing storage is written once.                       *)
(***************************************************************************)
EXTENDS SubMessages, FiniteSetTheorems, SequenceTheorems, TLAPS

-----------------------------------------------------------------------------
(* Sequences *)

IsSeq(s) == s \in Seq(Range(s))

\* t is the sequence s with e after it.
IsAppend(S, s, e, t) ==
    /\ t \in Seq(S) /\ IsSeq(t)
    /\ t # <<>>
    /\ Len(t) = Len(s) + 1 /\ Len(s) \in Nat
    /\ \A i \in 1 .. Len(s) : t[i] = s[i]
    /\ t[Len(s) + 1] = e

\* t is the sequence s without its last k elements.
IsShorter(S, s, k, t) ==
    /\ t \in Seq(S) /\ IsSeq(t) /\ Len(t) = Len(s) - k
    /\ \A i \in 1 .. Len(s) - k : t[i] = s[i]

\* t is the sequence s without its last element.
IsBelow(S, s, t) ==
    /\ t \in Seq(S) /\ IsSeq(t)
    /\ Len(t) = Len(s) - 1 /\ Len(s) \in Nat \ {0}
    /\ \A i \in 1 .. Len(t) : t[i] = s[i]

\* t is the sequence s without the last element but one.
IsCommit(s, t) ==
    /\ IsSeq(t)
    /\ Len(t) = Len(s) - 1 /\ Len(s) \in Nat \ {0, 1}
    /\ \A i \in 1 .. Len(s) - 2 : t[i] = s[i]
    /\ t[Len(s) - 1] = s[Len(s)]

\* t is the sequence s with another element at its end.
IsReplace(s, e, t) ==
    /\ IsSeq(t)
    /\ Len(t) = Len(s) /\ Len(s) \in Nat \ {0}
    /\ \A i \in 1 .. Len(s) - 1 : t[i] = s[i]
    /\ t[Len(s)] = e

\* Append, SubSeq and EXCEPT on the sequences of the model, as the steps use them.
LEMMA Appended ==
    ASSUME NEW S, NEW s \in Seq(S), NEW e \in S
    PROVE  IsAppend(S, s, e, Append(s, e))
<1> DEFINE t == Append(s, e)
<1>1. /\ t \in Seq(S) /\ t # <<>> /\ Len(t) = Len(s) + 1
      /\ \A i \in 1 .. Len(s) : t[i] = s[i]
      /\ t[Len(s) + 1] = e
  BY AppendProperties
<1>2. t \in Seq(Range(t))
  BY <1>1, SeqOfRange
<1>3. Len(s) \in Nat
  BY LenProperties
<1> QED
  BY <1>1, <1>2, <1>3 DEF IsAppend, IsSeq

LEMMA AppendedAny ==
    ASSUME NEW s, IsSeq(s), NEW e
    PROVE  IsAppend(Range(s) \cup {e}, s, e, Append(s, e))
<1> DEFINE S == Range(s) \cup {e}
<1>1. s \in Seq(S) /\ e \in S
  BY SeqMonotonic DEF IsSeq
<1> HIDE DEF S
<1>2. IsAppend(S, s, e, Append(s, e))
  BY <1>1, Appended
<1> QED
  BY <1>2 DEF S

LEMMA ShorterBy ==
    ASSUME NEW S, NEW s \in Seq(S), NEW k \in Nat, k <= Len(s)
    PROVE  IsShorter(S, s, k, SubSeq(s, 1, Len(s) - k))
<1> DEFINE n == Len(s) - k
           t == SubSeq(s, 1, Len(s) - k)
<1>1. Len(s) \in Nat /\ \A i \in 1 .. Len(s) : s[i] \in S
  BY LenProperties, ElementOfSeq
<1>2. n \in Nat /\ 1 \in Int /\ n \in Int /\ \A i \in 1 .. n : s[i] \in S
  BY <1>1
<1>3. t = SubSeq(s, 1, n)
  OBVIOUS
<1> HIDE DEF n, t
<1>4. /\ t \in Seq(S)
      /\ Len(t) = IF 1 <= n THEN n - 1 + 1 ELSE 0
      /\ \A i \in 1 .. n - 1 + 1 : t[i] = s[1 + i - 1]
  BY <1>2, <1>3, SubSeqProperties
<1>5. Len(t) = n /\ \A i \in 1 .. n : t[i] = s[i]
  BY <1>2, <1>4
<1>6. IsSeq(t)
  BY <1>4, SeqOfRange DEF IsSeq
<1> QED
  BY <1>4, <1>5, <1>6 DEF n, t, IsShorter

LEMMA Shortened ==
    ASSUME NEW S, NEW s \in Seq(S), s # <<>>
    PROVE  IsBelow(S, s, SubSeq(s, 1, Len(s) - 1))
<1>1. Len(s) \in Nat \ {0}
  BY EmptySeq
<1>2. 1 \in Nat /\ 1 <= Len(s)
  BY <1>1
<1>3. IsShorter(S, s, 1, SubSeq(s, 1, Len(s) - 1))
  BY <1>2, ShorterBy, Zenon
<1> QED
  BY <1>1, <1>3 DEF IsBelow, IsShorter

\* CommitLayer and DropLayer, and the layer a call writes to.
LEMMA Committed ==
    ASSUME NEW s, IsSeq(s), Len(s) > 1
    PROVE  IsCommit(s, Append(SubSeq(s, 1, Len(s) - 2), s[Len(s)]))
<1> DEFINE u == SubSeq(s, 1, Len(s) - 2)
           t == Append(u, s[Len(s)])
<1>1. s \in Seq(Range(s))
  BY DEF IsSeq
<1>2. Len(s) \in Nat \ {0, 1}
  <2>1. Len(s) \in Nat
    BY <1>1, LenProperties
  <2> QED
    BY <2>1
<1>3. 2 \in Nat /\ 2 <= Len(s)
  BY <1>2
<1>4. IsShorter(Range(s), s, 2, u)
  BY <1>1, <1>3, ShorterBy, Zenon
<1> HIDE DEF u
<1>5. IsSeq(u) /\ Len(u) = Len(s) - 2 /\ \A i \in 1 .. Len(s) - 2 : u[i] = s[i]
  BY <1>4 DEF IsShorter
<1>6. IsAppend(Range(u) \cup {s[Len(s)]}, u, s[Len(s)], t)
  BY <1>5, AppendedAny, Zenon
<1> HIDE DEF t
<1>7. IsCommit(s, t)
  BY <1>2, <1>5, <1>6 DEF IsAppend, IsCommit
<1> QED
  BY <1>7, Zenon DEF t, u

LEMMA Replaced ==
    ASSUME NEW s, IsSeq(s), s # <<>>, NEW e
    PROVE  IsReplace(s, e, [s EXCEPT ![Len(s)] = e])
<1> DEFINE t == [s EXCEPT ![Len(s)] = e]
           S == Range(s) \cup {e}
<1>1. s \in Seq(Range(s))
  BY DEF IsSeq
<1>2. s \in Seq(S) /\ e \in S
  BY <1>1, SeqMonotonic
<1> HIDE DEF S
<1>3. Len(s) \in Nat \ {0}
  BY <1>2, EmptySeq
<1>4. /\ t \in Seq(S) /\ Len(t) = Len(s)
      /\ \A j \in 1 .. Len(s) : t[j] = IF j = Len(s) THEN e ELSE s[j]
  BY <1>2, <1>3, ExceptSeq
<1>5. t \in Seq(Range(t))
  BY <1>4, SeqOfRange
<1> QED
  BY <1>3, <1>4, <1>5 DEF IsReplace, IsSeq

\* The scopes around the running function: none at scope 0.
PathTo(sc, s) == IF s = 0 THEN {} ELSE sc[s].path

ScopeRecords == [role : {"tx", "submsg", "ibc", "callback"}, parent : Nat, by : Nat,
                 replyOn : ReplyOns, status : {"open", "committed", "dropped"},
                 path : SUBSET Nat]

\* The scopes sc form a forest, of which those from scope top to its root are open;
\* every one of them has a layer above the backing storage.
Nested(sc, cs, top, depth) ==
    /\ sc \in Seq(ScopeRecords) /\ cs \in Seq(Range(cs))
    /\ top \in 0 .. Len(sc)
    /\ depth = Cardinality(PathTo(sc, top)) + 1
    /\ \A s \in 1 .. Len(sc) :
         /\ sc[s].parent \in 0 .. s - 1
         /\ sc[s].path = {s} \cup PathTo(sc, sc[s].parent)
         /\ sc[s].path \subseteq 1 .. s
         /\ \A t \in sc[s].path : sc[t].path \subseteq sc[s].path
         /\ sc[s].status = "open" <=> s \in PathTo(sc, top)
         /\ sc[s].role = "submsg" => sc[s].by \in 1 .. Len(cs)
    /\ \A c \in 1 .. Len(cs) : cs[c].scope \in 1 .. Len(sc)

Roles == {"multi", "sudo", "call", "sub", "reply", "callback"} \cup IbcKinds
\* The frames that exist after n calls and m scopes.
FramesOf(n, m) == [role : Roles, scope : 1 .. m, call : 0 .. n,
                   events : Seq(1 .. n), data : SUBSET (0 .. n)]

\* The frame f is where it belongs, above a frame that runs in scope below: the frame
\* of a transactional holds its scope, and all others run in the scope below.
Placed(f, below, sc, cs) ==
    /\ f.role \in {"multi", "sudo"} <=> below = 0
    /\ IF f.role \in {"call", "reply"} THEN f.scope = below ELSE sc[f.scope].parent = below
    /\ f.role \in {"multi", "sudo"} => sc[f.scope].role = "tx"
    /\ f.role \in IbcKinds => sc[f.scope].role = "ibc" /\ sc[f.scope].replyOn = "Never"
    /\ f.role = "callback" => sc[f.scope].role = "callback"
    /\ f.role = "sub" => /\ sc[f.scope].role = "submsg" /\ sc[f.scope].by = f.call
                         /\ f.call \in 1 .. Len(cs) /\ cs[f.call].scope = below
    /\ f.role = "call" => f.call \in 1 .. Len(cs) /\ cs[f.call].scope = f.scope

ScopeAt(st, i) == IF i = 0 THEN 0 ELSE st[i].scope
TopScope(st) == ScopeAt(st, Len(st))

Frames(st, sc, cs) ==
    /\ st \in Seq(FramesOf(Len(cs), Len(sc)))
    /\ \A i \in 1 .. Len(st) : Placed(st[i], ScopeAt(st, i - 1), sc, cs)

\* Neither scope s nor one around it was dropped.
Kept(sc, s) == \A t \in sc[s].path : sc[t].status # "dropped"
OpenOn(sc, s) == {t \in sc[s].path : sc[t].status = "open"}

\* Layer n of ls holds what it should: LayersHoldSurvivors.
Held(ls, sc, cs) ==
    \A n \in 1 .. Len(ls) : \A x :
        x \in ls[n] <=> \E c \in 1 .. Len(cs) :
                           /\ Kept(sc, cs[c].scope)
                           /\ Cardinality(OpenOn(sc, cs[c].scope)) < n
                           /\ x \in Effects(c, cs[c].kind, cs[c].outcome)

BreaksIn(sc, cs, s) ==
    \/ \E c \in 1 .. Len(cs) : cs[c].scope = s /\ ~Succeeds(cs[c].outcome)
    \/ \E t \in 1 .. Len(sc) :
          /\ sc[t].parent = s /\ sc[t].status = "dropped"
          /\ sc[t].role # "callback" /\ sc[t].replyOn \notin {"Always", "Error"}

\* A scope that is open is broken just while the error goes up to its end.
Broken(sc, cs, top, failing) ==
    \A s \in 1 .. Len(sc) :
        IF sc[s].status = "open" THEN BreaksIn(sc, cs, s) <=> s = top /\ failing
        ELSE sc[s].status = "dropped" <=> BreaksIn(sc, cs, s)

World(ls, st, failing, sc, cs) ==
    /\ IsSeq(ls)
    /\ Frames(st, sc, cs)
    /\ Nested(sc, cs, TopScope(st), Len(ls))
    /\ Held(ls, sc, cs)
    /\ Broken(sc, cs, TopScope(st), failing)

Awaited(sc, s) == /\ sc[s].role = "submsg" /\ sc[s].status # "open"
                     /\ RepliesTo(sc[s].replyOn, sc[s].status = "committed")
\* A finished submessage that is to be replied to has one reply, where its issuer runs,
\* that knows how it ended; others have none.
Answered(sc, cs) ==
    \A s \in 1 .. Len(sc) :
        IF Awaited(sc, s)
        THEN \E r \in 1 .. Len(cs) :
               /\ \A c \in 1 .. Len(cs) : cs[c].answers = s <=> c = r
               /\ cs[r].scope = cs[sc[s].by].scope
               /\ cs[r].got.ok <=> sc[s].status = "committed"
        ELSE \A c \in 1 .. Len(cs) : cs[c].answers # s

AnswersAreScopes(sc, cs) == \A c \in 1 .. Len(cs) : cs[c].answers \in 0 .. Len(sc)

ResultsOf(n) == [ok : BOOLEAN, data : SUBSET (0 .. n), events : Seq(1 .. n)]
Failing == ret # <<>> /\ ~ret[1].ok

ResultsTyped ==
    /\ ret \in Seq(ResultsOf(Len(calls))) /\ Len(ret) <= 1
    /\ responses \in Seq(ResultsOf(Len(calls)))
    /\ stack = <<>> => ret = <<>>

IInv ==
    /\ World(layers, stack, Failing, scopes, calls)
    /\ Answered(scopes, calls) /\ AnswersAreScopes(scopes, calls)
    /\ ResultsTyped

\* What StorageIsWrittenAtOnce says of a step.
WrittenAtOnce == layers'[1] # layers[1] => stack' = <<>> /\ Len(layers') = 1

\* The backing storage is the same.
SameBase(ls, ls2) == ls2[1] = ls[1]

-----------------------------------------------------------------------------
(* Scopes *)

LEMMA PathsAreFinite ==
    ASSUME NEW sc, NEW cs, NEW top, NEW depth, Nested(sc, cs, top, depth)
    PROVE  /\ IsFiniteSet(PathTo(sc, top))
           /\ Cardinality(PathTo(sc, top)) \in Nat
           /\ depth \in Nat \ {0}
<1>1. PathTo(sc, top) \subseteq 1 .. Len(sc) /\ Len(sc) \in Nat
  <2>1. Len(sc) \in Nat
    BY LenProperties DEF Nested
  <2> QED
    BY <2>1 DEF Nested, PathTo
<1>2. IsFiniteSet(1 .. Len(sc))
  BY <1>1, FS_Interval
<1>3. IsFiniteSet(PathTo(sc, top))
  BY <1>1, <1>2, FS_Subset
<1>4. Cardinality(PathTo(sc, top)) \in Nat
  BY <1>3, FS_CardinalityType
<1> QED
  BY <1>3, <1>4 DEF Nested

\* Under a scope with the running one in its path there are as many open scopes as
\* there are layers above the backing storage, under any other there are fewer.
LEMMA OpenScopes ==
    ASSUME NEW sc, NEW cs, NEW top, NEW depth, Nested(sc, cs, top, depth),
           NEW s \in 1 .. Len(sc)
    PROVE  /\ OpenOn(sc, s) = sc[s].path \cap PathTo(sc, top)
           /\ Cardinality(OpenOn(sc, s)) \in Nat
           /\ Cardinality(OpenOn(sc, s)) < depth
           /\ top \in sc[s].path => Cardinality(OpenOn(sc, s)) = depth - 1
           /\ top # 0 /\ top \notin sc[s].path => Cardinality(OpenOn(sc, s)) < depth - 1
<1> DEFINE path == PathTo(sc, top)
<1>1. IsFiniteSet(path) /\ Cardinality(path) \in Nat /\ depth = Cardinality(path) + 1
  BY PathsAreFinite DEF Nested
<1>2. OpenOn(sc, s) = sc[s].path \cap path
  BY DEF Nested, OpenOn
<1>3. OpenOn(sc, s) \in SUBSET path
  BY <1>2
<1>4. IsFiniteSet(OpenOn(sc, s)) /\ Cardinality(OpenOn(sc, s)) <= Cardinality(path)
  BY <1>1, <1>3, FS_Subset
<1>5. Cardinality(OpenOn(sc, s)) \in Nat
  BY <1>4, FS_CardinalityType
<1>6. ASSUME top \in sc[s].path
      PROVE  Cardinality(OpenOn(sc, s)) = depth - 1
  <2>1. top # 0 /\ path \subseteq sc[s].path
    BY <1>6 DEF Nested, PathTo
  <2>2. OpenOn(sc, s) = path
    BY <1>2, <2>1
  <2> HIDE DEF path
  <2> QED
    BY <1>1, <2>2
<1>7. ASSUME top # 0, top \notin sc[s].path
      PROVE  Cardinality(OpenOn(sc, s)) < depth - 1
  <2>1. top \in path
    BY <1>7 DEF Nested, PathTo
  <2>2. OpenOn(sc, s) # path
    BY <1>2, <1>7, <2>1
  <2>3. Cardinality(OpenOn(sc, s)) # Cardinality(path)
    BY <1>1, <1>3, <2>2, FS_Subset
  <2> QED
    BY <1>1, <1>4, <1>5, <2>3
<1> HIDE DEF path
<1> QED
  <2>1. Cardinality(OpenOn(sc, s)) < depth
    BY <1>1, <1>4, <1>5
  <2> QED
    BY <1>2, <1>5, <1>6, <1>7, <2>1 DEF path

\* Opening a scope within the running one.
LEMMA NestedOpen ==
    ASSUME NEW sc, NEW cs, NEW top, NEW depth, Nested(sc, cs, top, depth),
           NEW rec \in ScopeRecords, NEW sc2, IsAppend(ScopeRecords, sc, rec, sc2),
           rec.parent = top, rec.status = "open",
           rec.path = {Len(sc) + 1} \cup PathTo(sc, top),
           rec.role = "submsg" => rec.by \in 1 .. Len(cs)
    PROVE  Nested(sc2, cs, Len(sc) + 1, depth + 1)
<1> DEFINE n == Len(sc)
<1>1. /\ n \in Nat /\ Len(sc2) = n + 1
      /\ \A s \in 1 .. n : sc2[s] = sc[s]
      /\ sc2[n + 1] = rec
      /\ sc2 \in Seq(ScopeRecords)
  BY DEF IsAppend
<1>2. top \in 0 .. n /\ PathTo(sc, top) \subseteq 1 .. n
  BY <1>1 DEF Nested, PathTo
<1>3. \A s \in 0 .. n : PathTo(sc2, s) = PathTo(sc, s)
  BY <1>1 DEF PathTo
<1>4. PathTo(sc2, n + 1) = {n + 1} \cup PathTo(sc, top)
  BY <1>1 DEF PathTo
<1>5. depth + 1 = Cardinality(PathTo(sc2, n + 1)) + 1
  <2>1. IsFiniteSet(PathTo(sc, top)) /\ n + 1 \notin PathTo(sc, top)
    BY <1>1, <1>2, PathsAreFinite
  <2>2. Cardinality(PathTo(sc, top) \cup {n + 1}) = Cardinality(PathTo(sc, top)) + 1
    BY <2>1, FS_AddElement
  <2>3. PathTo(sc2, n + 1) = PathTo(sc, top) \cup {n + 1}
    BY <1>4
  <2> QED
    BY <2>2, <2>3 DEF Nested
<1>6. ASSUME NEW s \in 1 .. n
      PROVE  /\ sc2[s].parent \in 0 .. s - 1
             /\ sc2[s].path = {s} \cup PathTo(sc2, sc2[s].parent)
             /\ sc2[s].path \subseteq 1 .. s
             /\ \A t \in sc2[s].path : sc2[t].path \subseteq sc2[s].path
             /\ sc2[s].status = "open" <=> s \in PathTo(sc2, n + 1)
             /\ sc2[s].role = "submsg" => sc2[s].by \in 1 .. Len(cs)
  <2>1. /\ sc[s].parent \in 0 .. s - 1
        /\ sc[s].path = {s} \cup PathTo(sc, sc[s].parent)
        /\ sc[s].path \subseteq 1 .. s
        /\ \A t \in sc[s].path : sc[t].path \subseteq sc[s].path
        /\ sc[s].status = "open" <=> s \in PathTo(sc, top)
        /\ sc[s].role = "submsg" => sc[s].by \in 1 .. Len(cs)
    BY DEF Nested
  <2>2. sc2[s] = sc[s] /\ sc[s].parent \in 0 .. n /\ s # n + 1 /\ 1 .. s \subseteq 1 .. n
    BY <1>1, <2>1
  <2>3. \A t \in sc[s].path : sc2[t] = sc[t]
    BY <1>1, <2>1, <2>2
  <2> HIDE DEF n
  <2> QED
    BY <1>3, <1>4, <2>1, <2>2, <2>3
<1>7. /\ sc2[n + 1].parent \in 0 .. n
      /\ sc2[n + 1].path = {n + 1} \cup PathTo(sc2, sc2[n + 1].parent)
      /\ sc2[n + 1].path \subseteq 1 .. n + 1
      /\ \A t \in sc2[n + 1].path : sc2[t].path \subseteq sc2[n + 1].path
      /\ sc2[n + 1].status = "open" <=> n + 1 \in PathTo(sc2, n + 1)
      /\ sc2[n + 1].role = "submsg" => sc2[n + 1].by \in 1 .. Len(cs)
  <2>1. \A t \in PathTo(sc, top) : t \in 1 .. n /\ sc[t].path \subseteq PathTo(sc, top)
    BY <1>1, <1>2 DEF Nested, PathTo
  <2> QED
    BY <1>1, <1>2, <1>3, <1>4, <2>1
<1>8. \A s \in 1 .. n + 1 : s \in 1 .. n \/ s = n + 1
  BY <1>1
<1>9. /\ cs \in Seq(Range(cs))
      /\ \A c \in 1 .. Len(cs) : cs[c].scope \in 1 .. n + 1
  BY <1>1 DEF Nested
<1> HIDE DEF n
<1>10. n + 1 \in 0 .. Len(sc2) /\ n + 1 - 1 = n
  BY <1>1
<1> QED
  <2>1. Nested(sc2, cs, n + 1, depth + 1)
    BY <1>1, <1>5, <1>6, <1>7, <1>8, <1>9, <1>10 DEF Nested
  <2> QED
    BY <2>1 DEF n

\* sc2 is sc with the end of scope s.
IsClose(sc, s, status, sc2) ==
    /\ sc2 \in Seq(ScopeRecords) /\ Len(sc2) = Len(sc) /\ Len(sc) \in Nat
    /\ \A t \in 1 .. Len(sc) : /\ sc2[t].role = sc[t].role /\ sc2[t].parent = sc[t].parent
                               /\ sc2[t].by = sc[t].by /\ sc2[t].replyOn = sc[t].replyOn
                               /\ sc2[t].path = sc[t].path
                               /\ sc2[t].status = IF t = s THEN status ELSE sc[t].status

\* Close changes the status of one scope.
LEMMA Closed ==
    ASSUME NEW sc \in Seq(ScopeRecords), NEW s \in 1 .. Len(sc),
           NEW status \in {"open", "committed", "dropped"}
    PROVE  IsClose(sc, s, status, [sc EXCEPT ![s].status = status])
<1> DEFINE rec == [sc[s] EXCEPT !.status = status]
           sc2 == [sc EXCEPT ![s] = rec]
<1>1. sc[s] \in ScopeRecords
  BY ElementOfSeq
<1>2. /\ rec \in ScopeRecords /\ rec.status = status
      /\ rec.role = sc[s].role /\ rec.parent = sc[s].parent /\ rec.by = sc[s].by
      /\ rec.replyOn = sc[s].replyOn /\ rec.path = sc[s].path
  BY <1>1 DEF ScopeRecords
<1> HIDE DEF rec
<1>3. /\ sc2 \in Seq(ScopeRecords) /\ Len(sc2) = Len(sc)
      /\ \A t \in 1 .. Len(sc) : sc2[t] = IF t = s THEN rec ELSE sc[t]
  BY <1>2, ExceptSeq
<1>4. Len(sc) \in Nat
  BY LenProperties
<1> HIDE DEF sc2
<1>5. IsClose(sc, s, status, sc2)
  BY <1>2, <1>3, <1>4 DEF IsClose
<1> QED
  BY <1>5 DEF sc2, rec

\* The end of the running scope.
LEMMA NestedClose ==
    ASSUME NEW sc, NEW cs, NEW top, NEW depth, Nested(sc, cs, top, depth), top # 0,
           NEW status \in {"committed", "dropped"}, NEW sc2, IsClose(sc, top, status, sc2)
    PROVE  Nested(sc2, cs, sc[top].parent, depth - 1) /\ depth - 1 \in Nat \ {0}
<1> DEFINE n == Len(sc)
           below == sc[top].parent
<1>1. /\ n \in Nat /\ Len(sc2) = n /\ top \in 1 .. n /\ below \in 0 .. top - 1 /\ below \in 0 .. n
      /\ sc2 \in Seq(ScopeRecords)
  BY DEF Nested, IsClose
<1>2. \A s \in 0 .. n : PathTo(sc2, s) = PathTo(sc, s)
  BY DEF IsClose, PathTo
<1>3. PathTo(sc, top) = {top} \cup PathTo(sc, below) /\ PathTo(sc, top) = sc[top].path
  BY <1>1 DEF Nested, PathTo
<1>4. top \notin PathTo(sc, below)
  BY <1>1 DEF Nested, PathTo
<1>5. /\ IsFiniteSet(PathTo(sc, below))
      /\ Cardinality(PathTo(sc, top)) = Cardinality(PathTo(sc, below)) + 1
      /\ Cardinality(PathTo(sc, below)) \in Nat
  <2>1. IsFiniteSet(PathTo(sc, top)) /\ PathTo(sc, below) \in SUBSET PathTo(sc, top)
    BY <1>3, PathsAreFinite
  <2>2. IsFiniteSet(PathTo(sc, below))
    BY <2>1, FS_Subset
  <2>3. Cardinality(PathTo(sc, below) \cup {top}) = Cardinality(PathTo(sc, below)) + 1
    BY <1>4, <2>2, FS_AddElement
  <2>4. PathTo(sc, top) = PathTo(sc, below) \cup {top}
    BY <1>3
  <2> QED
    BY <2>2, <2>3, <2>4, FS_CardinalityType
<1>6. depth - 1 = Cardinality(PathTo(sc2, below)) + 1 /\ depth - 1 \in Nat \ {0}
  BY <1>1, <1>2, <1>5 DEF Nested
<1>7. ASSUME NEW s \in 1 .. n
      PROVE  /\ sc2[s].parent \in 0 .. s - 1
             /\ sc2[s].path = {s} \cup PathTo(sc2, sc2[s].parent)
             /\ sc2[s].path \subseteq 1 .. s
             /\ \A t \in sc2[s].path : sc2[t].path \subseteq sc2[s].path
             /\ sc2[s].status = "open" <=> s \in PathTo(sc2, below)
             /\ sc2[s].role = "submsg" => sc2[s].by \in 1 .. Len(cs)
  <2>1. /\ sc[s].parent \in 0 .. s - 1
        /\ sc[s].path = {s} \cup PathTo(sc, sc[s].parent)
        /\ sc[s].path \subseteq 1 .. s
        /\ \A t \in sc[s].path : sc[t].path \subseteq sc[s].path
        /\ sc[s].status = "open" <=> s \in PathTo(sc, top)
        /\ sc[s].role = "submsg" => sc[s].by \in 1 .. Len(cs)
    BY DEF Nested
  <2>2. sc[s].parent \in 0 .. n /\ 1 .. s \subseteq 1 .. n
    BY <1>1, <2>1
  <2>3. \A t \in sc[s].path : sc2[t].path = sc[t].path
    BY <2>1, <2>2 DEF IsClose
  <2>4. /\ sc2[s].role = sc[s].role /\ sc2[s].parent = sc[s].parent
        /\ sc2[s].by = sc[s].by /\ sc2[s].path = sc[s].path
        /\ sc2[s].status = IF s = top THEN status ELSE sc[s].status
    BY DEF IsClose
  <2>5. sc2[s].status = "open" <=> s \in PathTo(sc2, below)
    BY <1>1, <1>2, <1>3, <1>4, <2>1, <2>4
  <2> HIDE DEF n, below
  <2> QED
    BY <1>2, <2>1, <2>2, <2>3, <2>4, <2>5
<1>8. /\ cs \in Seq(Range(cs))
      /\ \A c \in 1 .. Len(cs) : cs[c].scope \in 1 .. n
  BY DEF Nested
<1> HIDE DEF n
<1> QED
  BY <1>1, <1>6, <1>7, <1>8 DEF Nested

\* A call in the running scope.
LEMMA NestedCall ==
    ASSUME NEW sc, NEW cs, NEW top, NEW depth, Nested(sc, cs, top, depth), top # 0,
           NEW S, NEW rec, rec.scope = top, NEW cs2, IsAppend(S, cs, rec, cs2)
    PROVE  Nested(sc, cs2, top, depth)
<1>1. /\ Len(cs) \in Nat /\ Len(cs2) = Len(cs) + 1 /\ cs2 \in Seq(Range(cs2))
      /\ \A c \in 1 .. Len(cs) : cs2[c] = cs[c]
      /\ cs2[Len(cs) + 1] = rec
  BY DEF IsAppend, IsSeq
<1>2. \A c \in 1 .. Len(cs2) : cs2[c].scope \in 1 .. Len(sc)
  <2>1. Len(sc) \in Nat /\ top \in 0 .. Len(sc)
    BY DEF Nested
  <2>2. top \in 1 .. Len(sc)
    BY <2>1
  <2>3. \A c \in 1 .. Len(cs) : cs[c].scope \in 1 .. Len(sc)
    BY DEF Nested
  <2>4. \A c \in 1 .. Len(cs2) : c \in 1 .. Len(cs) \/ c = Len(cs) + 1
    BY <1>1
  <2>5. \A c \in 1 .. Len(cs) : cs2[c].scope \in 1 .. Len(sc)
    BY <1>1, <2>3
  <2> QED
    BY <1>1, <2>2, <2>4, <2>5
<1>3. 1 .. Len(cs) \subseteq 1 .. Len(cs2)
  BY <1>1
<1> QED
  BY <1>1, <1>2, <1>3 DEF Nested

-----------------------------------------------------------------------------
(* Layers *)

\* A scope that opens starts from the layer below it.
LEMMA HeldOpen ==
    ASSUME NEW ls, NEW sc, NEW cs, NEW top, Nested(sc, cs, top, Len(ls)), Held(ls, sc, cs),
           NEW rec, NEW sc2, IsAppend(ScopeRecords, sc, rec, sc2),
           NEW S, NEW ls2, IsAppend(S, ls, ls[Len(ls)], ls2)
    PROVE  Held(ls2, sc2, cs)
<1> DEFINE N == Len(ls)
<1>1. /\ N \in Nat \ {0} /\ Len(ls2) = N + 1
      /\ \A n \in 1 .. N : ls2[n] = ls[n]
      /\ ls2[N + 1] = ls[N]
  BY PathsAreFinite DEF IsAppend
<1>2. ASSUME NEW c \in 1 .. Len(cs)
      PROVE  /\ Kept(sc2, cs[c].scope) <=> Kept(sc, cs[c].scope)
             /\ OpenOn(sc2, cs[c].scope) = OpenOn(sc, cs[c].scope)
             /\ Cardinality(OpenOn(sc, cs[c].scope)) \in Nat
             /\ Cardinality(OpenOn(sc, cs[c].scope)) < N
  <2> DEFINE s == cs[c].scope
  <2>1. s \in 1 .. Len(sc) /\ Len(sc) \in Nat
    BY DEF Nested, IsAppend
  <2>2. sc[s].path \subseteq 1 .. Len(sc)
    BY <2>1 DEF Nested
  <2>3. \A t \in 1 .. Len(sc) : sc2[t] = sc[t]
    BY DEF IsAppend
  <2> HIDE DEF s
  <2>4. (Kept(sc2, s) <=> Kept(sc, s)) /\ OpenOn(sc2, s) = OpenOn(sc, s)
    BY <2>1, <2>2, <2>3 DEF Kept, OpenOn
  <2>5. Cardinality(OpenOn(sc, s)) \in Nat /\ Cardinality(OpenOn(sc, s)) < N
    BY <2>1, OpenScopes
  <2> QED
    BY <2>4, <2>5 DEF s
<1>3. ASSUME NEW n \in 1 .. N + 1, NEW x
      PROVE  x \in ls2[n] <=> \E c \in 1 .. Len(cs) :
                                 /\ Kept(sc2, cs[c].scope)
                                 /\ Cardinality(OpenOn(sc2, cs[c].scope)) < n
                                 /\ x \in Effects(c, cs[c].kind, cs[c].outcome)
  <2> DEFINE m == IF n = N + 1 THEN N ELSE n
  <2>1. m \in 1 .. N /\ ls2[n] = ls[m]
    BY <1>1
  <2>2. x \in ls[m] <=> \E c \in 1 .. Len(cs) :
                           /\ Kept(sc, cs[c].scope)
                           /\ Cardinality(OpenOn(sc, cs[c].scope)) < m
                           /\ x \in Effects(c, cs[c].kind, cs[c].outcome)
    BY <2>1 DEF Held
  <2>3. \A c \in 1 .. Len(cs) : /\ Kept(sc2, cs[c].scope) <=> Kept(sc, cs[c].scope)
                                /\ Cardinality(OpenOn(sc2, cs[c].scope)) < n
                                     <=> Cardinality(OpenOn(sc, cs[c].scope)) < m
    BY <1>1, <1>2
  <2> QED
    BY <2>1, <2>2, <2>3
<1> HIDE DEF N
<1> QED
  BY <1>1, <1>3 DEF Held

\* A call leaves its effects in the layer of the running scope.
LEMMA HeldCall ==
    ASSUME NEW ls, NEW sc, NEW cs, NEW top, Nested(sc, cs, top, Len(ls)), top # 0,
           Held(ls, sc, cs),
           NEW S, NEW rec, rec.scope = top, NEW cs2, IsAppend(S, cs, rec, cs2),
           NEW ls2,
           IsReplace(ls, ls[Len(ls)] \cup Effects(Len(cs) + 1, rec.kind, rec.outcome), ls2)
    PROVE  Held(ls2, sc, cs2)
<1> DEFINE N == Len(ls)
           k == Len(cs) + 1
<1>1. /\ N \in Nat \ {0} /\ Len(ls2) = N
      /\ \A n \in 1 .. N - 1 : ls2[n] = ls[n]
      /\ ls2[N] = ls[N] \cup Effects(k, rec.kind, rec.outcome)
  BY DEF IsReplace
<1>2. /\ Len(cs) \in Nat /\ Len(cs2) = k /\ cs2[k] = rec
      /\ \A c \in 1 .. Len(cs) : cs2[c] = cs[c]
  BY DEF IsAppend
<1>3. \A c \in 1 .. k : c \in 1 .. Len(cs) \/ c = k
  BY <1>2
<1>4. k \in 1 .. k /\ 1 .. Len(cs) \subseteq 1 .. k
  BY <1>2
<1>5. /\ Kept(sc, rec.scope)
      /\ Cardinality(OpenOn(sc, rec.scope)) = N - 1
  <2>1. top \in 1 .. Len(sc) /\ top \in sc[top].path
    <3>1. Len(sc) \in Nat
      BY LenProperties DEF Nested
    <3> QED
      BY <3>1 DEF Nested
  <2>2. Cardinality(OpenOn(sc, top)) = N - 1
    BY <2>1, OpenScopes
  <2>3. \A t \in sc[top].path : t \in 1 .. Len(sc) /\ sc[t].status = "open"
    BY <2>1 DEF Nested, PathTo
  <2> QED
    BY <2>2, <2>3 DEF Kept
<1>6. ASSUME NEW n \in 1 .. N, NEW x
      PROVE  x \in ls2[n] <=> \E c \in 1 .. k :
                                 /\ Kept(sc, cs2[c].scope)
                                 /\ Cardinality(OpenOn(sc, cs2[c].scope)) < n
                                 /\ x \in Effects(c, cs2[c].kind, cs2[c].outcome)
  <2>1. x \in ls[n] <=> \E c \in 1 .. Len(cs) :
                           /\ Kept(sc, cs[c].scope)
                           /\ Cardinality(OpenOn(sc, cs[c].scope)) < n
                           /\ x \in Effects(c, cs[c].kind, cs[c].outcome)
    BY DEF Held
  <2>2. (x \in ls2[n]) <=> (x \in ls[n] \/ (n = N /\ x \in Effects(k, rec.kind, rec.outcome)))
    BY <1>1
  <2>3. (Cardinality(OpenOn(sc, rec.scope)) < n) <=> (n = N)
    BY <1>1, <1>5
  <2> HIDE DEF N, k
  <2> QED
    BY <1>2, <1>3, <1>4, <1>5, <2>1, <2>2, <2>3
<1> HIDE DEF N, k
<1> QED
  BY <1>1, <1>2, <1>6 DEF Held

\* When the running scope ends, the calls that were kept under other scopes are those
\* under which it is not open.
LEMMA OpenAfterClose ==
    ASSUME NEW sc, NEW cs, NEW top, NEW depth, Nested(sc, cs, top, depth), top # 0,
           NEW status \in {"committed", "dropped"}, NEW sc2, IsClose(sc, top, status, sc2),
           NEW s \in 1 .. Len(sc)
    PROVE  /\ Cardinality(OpenOn(sc2, s)) \in Nat
           /\ Cardinality(OpenOn(sc2, s)) < depth - 1
           /\ Kept(sc2, s) <=> Kept(sc, s) /\ (top \in sc[s].path => status = "committed")
           /\ top \in sc[s].path => /\ Cardinality(OpenOn(sc, s)) = depth - 1
                                    /\ Cardinality(OpenOn(sc2, s)) = depth - 2
           /\ top \notin sc[s].path => OpenOn(sc2, s) = OpenOn(sc, s)
<1>1. Nested(sc2, cs, sc[top].parent, depth - 1) /\ depth - 1 \in Nat \ {0}
  BY NestedClose
<1>2. Len(sc2) = Len(sc) /\ sc2[s].path = sc[s].path
  BY DEF IsClose
<1>3. /\ Cardinality(OpenOn(sc2, s)) \in Nat
      /\ Cardinality(OpenOn(sc2, s)) < depth - 1
      /\ sc[top].parent \in sc2[s].path => Cardinality(OpenOn(sc2, s)) = depth - 1 - 1
  BY <1>1, <1>2, OpenScopes
<1>4. Len(sc) \in Nat /\ top \in 1 .. Len(sc)
  BY DEF IsClose, Nested
<1>5. sc[s].path \subseteq 1 .. Len(sc)
  BY <1>4 DEF Nested
<1>6. \A t \in sc[s].path : sc2[t].status = IF t = top THEN status ELSE sc[t].status
  BY <1>5 DEF IsClose
<1>7. sc[top].status = "open"
  BY <1>4 DEF Nested, PathTo
<1>8. Kept(sc2, s) <=> Kept(sc, s) /\ (top \in sc[s].path => status = "committed")
  BY <1>2, <1>6, <1>7 DEF Kept
<1>9. ASSUME top \notin sc[s].path
      PROVE  OpenOn(sc2, s) = OpenOn(sc, s)
  BY <1>2, <1>6, <1>9 DEF OpenOn
<1>10. ASSUME top \in sc[s].path
       PROVE  /\ Cardinality(OpenOn(sc, s)) = depth - 1
              /\ Cardinality(OpenOn(sc2, s)) = depth - 2
  <2>1. OpenOn(sc2, s) = OpenOn(sc, s) \ {top} /\ top \in OpenOn(sc, s)
    BY <1>2, <1>6, <1>7, <1>10 DEF OpenOn
  <2>2. Cardinality(OpenOn(sc, s)) = depth - 1 /\ OpenOn(sc, s) \in SUBSET PathTo(sc, top)
    BY <1>10, OpenScopes
  <2>3. IsFiniteSet(OpenOn(sc, s))
    BY <2>2, PathsAreFinite, FS_Subset
  <2>4. Cardinality(OpenOn(sc2, s)) = Cardinality(OpenOn(sc, s)) - 1
    BY <2>1, <2>3, FS_RemoveElement
  <2>5. depth \in Nat
    BY PathsAreFinite
  <2> QED
    BY <2>2, <2>4, <2>5
<1> QED
  BY <1>3, <1>8, <1>9, <1>10

\* Committing the running scope hands its layer down.
LEMMA HeldCommit ==
    ASSUME NEW ls, NEW sc, NEW cs, NEW top, Nested(sc, cs, top, Len(ls)), top # 0,
           Held(ls, sc, cs),
           NEW sc2, IsClose(sc, top, "committed", sc2), NEW ls2, IsCommit(ls, ls2)
    PROVE  Held(ls2, sc2, cs)
<1> DEFINE N == Len(ls)
<1>1. /\ N \in Nat \ {0, 1} /\ Len(ls2) = N - 1
      /\ \A n \in 1 .. N - 2 : ls2[n] = ls[n]
      /\ ls2[N - 1] = ls[N]
  BY DEF IsCommit
<1>2. ASSUME NEW c \in 1 .. Len(cs), NEW n \in 1 .. N - 1
      PROVE  /\ Kept(sc2, cs[c].scope) <=> Kept(sc, cs[c].scope)
             /\ Cardinality(OpenOn(sc2, cs[c].scope)) < n
                  <=> Cardinality(OpenOn(sc, cs[c].scope)) < (IF n = N - 1 THEN N ELSE n)
  <2> DEFINE s == cs[c].scope
  <2>1. s \in 1 .. Len(sc)
    BY DEF Nested
  <2> HIDE DEF s, N
  <2>2. /\ Cardinality(OpenOn(sc2, s)) \in Nat
        /\ Cardinality(OpenOn(sc2, s)) < N - 1
        /\ Kept(sc2, s) <=> Kept(sc, s)
        /\ top \in sc[s].path => /\ Cardinality(OpenOn(sc, s)) = N - 1
                                 /\ Cardinality(OpenOn(sc2, s)) = N - 2
        /\ top \notin sc[s].path => OpenOn(sc2, s) = OpenOn(sc, s)
    BY <2>1, OpenAfterClose DEF N
  <2>3. Cardinality(OpenOn(sc2, s)) < n
          <=> Cardinality(OpenOn(sc, s)) < (IF n = N - 1 THEN N ELSE n)
    BY <1>1, <2>2
  <2> QED
    BY <2>2, <2>3 DEF s
<1>3. ASSUME NEW n \in 1 .. N - 1, NEW x
      PROVE  x \in ls2[n] <=> \E c \in 1 .. Len(cs) :
                                 /\ Kept(sc2, cs[c].scope)
                                 /\ Cardinality(OpenOn(sc2, cs[c].scope)) < n
                                 /\ x \in Effects(c, cs[c].kind, cs[c].outcome)
  <2> DEFINE m == IF n = N - 1 THEN N ELSE n
  <2>1. m \in 1 .. N /\ ls2[n] = ls[m]
    BY <1>1
  <2>2. x \in ls[m] <=> \E c \in 1 .. Len(cs) :
                           /\ Kept(sc, cs[c].scope)
                           /\ Cardinality(OpenOn(sc, cs[c].scope)) < m
                           /\ x \in Effects(c, cs[c].kind, cs[c].outcome)
    BY <2>1 DEF Held
  <2> QED
    BY <1>2, <2>1, <2>2
<1> HIDE DEF N
<1> QED
  BY <1>1, <1>3 DEF Held

\* Dropping the running scope leaves what was below it.
LEMMA HeldDrop ==
    ASSUME NEW ls, NEW sc, NEW cs, NEW top, Nested(sc, cs, top, Len(ls)), top # 0,
           Held(ls, sc, cs),
           NEW sc2, IsClose(sc, top, "dropped", sc2),
           NEW S, NEW ls2, IsBelow(S, ls, ls2)
    PROVE  Held(ls2, sc2, cs)
<1> DEFINE N == Len(ls)
<1>1. /\ N \in Nat \ {0} /\ Len(ls2) = N - 1
      /\ \A n \in 1 .. N - 1 : ls2[n] = ls[n]
  BY DEF IsBelow
<1>2. ASSUME NEW c \in 1 .. Len(cs), NEW n \in 1 .. N - 1
      PROVE  Kept(sc2, cs[c].scope) /\ Cardinality(OpenOn(sc2, cs[c].scope)) < n
               <=> Kept(sc, cs[c].scope) /\ Cardinality(OpenOn(sc, cs[c].scope)) < n
  <2> DEFINE s == cs[c].scope
  <2>1. s \in 1 .. Len(sc)
    BY DEF Nested
  <2> HIDE DEF s, N
  <2>2. /\ Kept(sc2, s) <=> Kept(sc, s) /\ top \notin sc[s].path
        /\ top \in sc[s].path => Cardinality(OpenOn(sc, s)) = N - 1
        /\ top \notin sc[s].path => OpenOn(sc2, s) = OpenOn(sc, s)
    BY <2>1, OpenAfterClose DEF N
  <2> QED
    BY <1>1, <2>2 DEF s
<1>3. ASSUME NEW n \in 1 .. N - 1, NEW x
      PROVE  x \in ls2[n] <=> \E c \in 1 .. Len(cs) :
                                 /\ Kept(sc2, cs[c].scope)
                                 /\ Cardinality(OpenOn(sc2, cs[c].scope)) < n
                                 /\ x \in Effects(c, cs[c].kind, cs[c].outcome)
  <2>1. n \in 1 .. N
    BY <1>1
  <2>2. x \in ls[n] <=> \E c \in 1 .. Len(cs) :
                           /\ Kept(sc, cs[c].scope)
                           /\ Cardinality(OpenOn(sc, cs[c].scope)) < n
                           /\ x \in Effects(c, cs[c].kind, cs[c].outcome)
    BY <2>1 DEF Held
  <2> QED
    BY <1>1, <1>2, <2>2
<1> HIDE DEF N
<1> QED
  BY <1>1, <1>3 DEF Held

-----------------------------------------------------------------------------
(* Errors *)

\* A new scope is not broken.
LEMMA BrokenOpen ==
    ASSUME NEW sc, NEW cs, NEW top, NEW depth, Nested(sc, cs, top, depth),
           Broken(sc, cs, top, FALSE),
           NEW rec, NEW sc2, IsAppend(ScopeRecords, sc, rec, sc2),
           rec.parent = top, rec.status = "open"
    PROVE  Broken(sc2, cs, Len(sc) + 1, FALSE)
<1> DEFINE n == Len(sc)
<1>1. /\ n \in Nat /\ Len(sc2) = n + 1
      /\ \A t \in 1 .. n : sc2[t] = sc[t]
      /\ sc2[n + 1] = rec
  BY DEF IsAppend
<1>2. \A t \in 1 .. n + 1 : t \in 1 .. n \/ t = n + 1
  BY <1>1
<1>3. ASSUME NEW s \in 1 .. n + 1
      PROVE  BreaksIn(sc2, cs, s) <=> s \in 1 .. n /\ BreaksIn(sc, cs, s)
  <2>1. \A t \in 1 .. n : sc[t].parent \in 0 .. t - 1
    BY DEF Nested
  <2>2. \A c \in 1 .. Len(cs) : cs[c].scope \in 1 .. n
    BY DEF Nested
  <2>3. ASSUME NEW t \in 1 .. n + 1, sc2[t].parent = s, sc2[t].status = "dropped"
        PROVE  t \in 1 .. n /\ s \in 1 .. n /\ sc2[t] = sc[t]
    <3>1. t \in 1 .. n /\ sc2[t] = sc[t]
      BY <1>1, <1>2, <2>3
    <3> QED
      BY <1>1, <2>1, <2>3, <3>1
  <2>4. 1 .. n \subseteq 1 .. n + 1
    BY <1>1
  <2> HIDE DEF n
  <2>5. CASE s \in 1 .. n
    <3>1. BreaksIn(sc2, cs, s) => BreaksIn(sc, cs, s)
      BY <1>1, <2>3 DEF BreaksIn, n
    <3>2. BreaksIn(sc, cs, s) => BreaksIn(sc2, cs, s)
      BY <1>1, <2>4 DEF BreaksIn, n
    <3> QED
      BY <2>5, <3>1, <3>2
  <2>6. CASE s \notin 1 .. n
    BY <1>1, <2>2, <2>3, <2>6 DEF BreaksIn
  <2> QED
    BY <2>5, <2>6
<1>4. ASSUME NEW s \in 1 .. n
      PROVE  IF sc2[s].status = "open" THEN BreaksIn(sc2, cs, s) <=> s = n + 1 /\ FALSE
             ELSE sc2[s].status = "dropped" <=> BreaksIn(sc2, cs, s)
  <2>1. s \in 1 .. n + 1 /\ sc2[s] = sc[s]
    BY <1>1
  <2>2. BreaksIn(sc2, cs, s) <=> BreaksIn(sc, cs, s)
    BY <1>3, <2>1
  <2> QED
    BY <2>1, <2>2 DEF Broken
<1>5. sc2[n + 1].status = "open" /\ ~BreaksIn(sc2, cs, n + 1)
  BY <1>1, <1>3
<1> HIDE DEF n
<1>6. Broken(sc2, cs, n + 1, FALSE)
  BY <1>1, <1>2, <1>4, <1>5 DEF Broken
<1> QED
  BY <1>6 DEF n

\* A call breaks the running scope if it fails.
LEMMA BrokenCall ==
    ASSUME NEW sc, NEW cs, NEW top, NEW depth, Nested(sc, cs, top, depth), top # 0,
           Broken(sc, cs, top, FALSE),
           NEW S, NEW rec, rec.scope = top, NEW cs2, IsAppend(S, cs, rec, cs2)
    PROVE  Broken(sc, cs2, top, ~Succeeds(rec.outcome))
<1> DEFINE k == Len(cs) + 1
<1>1. /\ Len(cs) \in Nat /\ Len(cs2) = k /\ cs2[k] = rec
      /\ \A c \in 1 .. Len(cs) : cs2[c] = cs[c]
  BY DEF IsAppend
<1>2. \A c \in 1 .. k : c \in 1 .. Len(cs) \/ c = k
  BY <1>1
<1>3. k \in 1 .. k /\ 1 .. Len(cs) \subseteq 1 .. k
  BY <1>1
<1> HIDE DEF k
<1>4. \A s : BreaksIn(sc, cs2, s) <=> BreaksIn(sc, cs, s) \/ (s = top /\ ~Succeeds(rec.outcome))
  BY <1>1, <1>2, <1>3 DEF BreaksIn
<1>5. top \in 1 .. Len(sc) /\ sc[top].status = "open"
  BY DEF Nested, PathTo
<1> QED
  BY <1>4, <1>5 DEF Broken

\* At the end of the running scope, an error is handled or breaks the scope around it.
LEMMA BrokenClose ==
    ASSUME NEW sc, NEW cs, NEW top, NEW depth, Nested(sc, cs, top, depth), top # 0,
           NEW failing \in BOOLEAN, Broken(sc, cs, top, failing),
           NEW status \in {"committed", "dropped"}, status = "dropped" <=> failing,
           NEW sc2, IsClose(sc, top, status, sc2),
           NEW failing2 \in BOOLEAN,
           sc[top].parent # 0 =>
               (failing2 <=> /\ failing /\ sc[top].role # "callback"
                             /\ sc[top].replyOn \notin {"Always", "Error"})
    PROVE  Broken(sc2, cs, sc[top].parent, failing2)
<1> DEFINE below == sc[top].parent
           passes == /\ failing /\ sc[top].role # "callback"
                     /\ sc[top].replyOn \notin {"Always", "Error"}
<1>1. /\ Len(sc2) = Len(sc) /\ Len(sc) \in Nat
      /\ top \in 1 .. Len(sc) /\ sc[top].status = "open" /\ below # top
  BY DEF Nested, PathTo, IsClose
<1>2. \A t \in 1 .. Len(sc) : /\ sc2[t].role = sc[t].role /\ sc2[t].parent = sc[t].parent
                              /\ sc2[t].replyOn = sc[t].replyOn
                              /\ sc2[t].status = IF t = top THEN status ELSE sc[t].status
  BY DEF IsClose
<1>3. ASSUME NEW s \in 1 .. Len(sc)
      PROVE  BreaksIn(sc2, cs, s) <=> BreaksIn(sc, cs, s) \/ (s = below /\ passes)
  <2>1. \A t \in 1 .. Len(sc) :
          sc2[t].status = "dropped" <=> sc[t].status = "dropped" \/ (t = top /\ failing)
    BY <1>1, <1>2
  <2> QED
    BY <1>1, <1>2, <2>1 DEF BreaksIn
<1>4. ASSUME NEW s \in 1 .. Len(sc)
      PROVE  IF sc2[s].status = "open" THEN BreaksIn(sc2, cs, s) <=> s = below /\ failing2
             ELSE sc2[s].status = "dropped" <=> BreaksIn(sc2, cs, s)
  <2>1. BreaksIn(sc2, cs, s) <=> BreaksIn(sc, cs, s) \/ (s = below /\ passes)
    BY <1>3
  <2>2. CASE s = top
    <3>1. BreaksIn(sc, cs, s) <=> failing
      BY <1>1, <2>2 DEF Broken
    <3> QED
      BY <1>1, <1>2, <2>1, <2>2, <3>1
  <2>3. CASE s # top /\ sc[s].status = "open"
    <3>1. ~BreaksIn(sc, cs, s) /\ sc2[s].status = "open"
      BY <1>2, <2>3 DEF Broken
    <3>2. s = below => below # 0
      OBVIOUS
    <3> QED
      BY <2>1, <3>1, <3>2
  <2>4. CASE s # top /\ sc[s].status # "open"
    <3>1. (sc[s].status = "dropped" <=> BreaksIn(sc, cs, s)) /\ sc2[s].status = sc[s].status
      BY <1>2, <2>4 DEF Broken
    <3>2. s # below
      <4>1. below \in 1 .. Len(sc) => sc[below].status = "open"
        <5>1. below \in 1 .. Len(sc) => below \in sc[below].path
          BY DEF Nested
        <5>2. below # 0 => sc[below].path \subseteq PathTo(sc, top)
          BY <1>1 DEF Nested, PathTo
        <5> HIDE DEF below
        <5>3. below \in 1 .. Len(sc) => below # 0
          OBVIOUS
        <5> QED
          BY <5>1, <5>2, <5>3 DEF Nested
      <4> QED
        BY <2>4, <4>1
    <3> QED
      BY <2>1, <2>4, <3>1, <3>2
  <2> QED
    BY <2>2, <2>3, <2>4
<1> HIDE DEF passes
<1> QED
  BY <1>1, <1>4 DEF Broken

-----------------------------------------------------------------------------
(* Replies *)

\* sc2 has the scopes of sc, with another status perhaps, and more.
MoreScopes(sc, sc2) ==
    /\ Len(sc) \in Nat /\ Len(sc2) \in Nat /\ Len(sc) <= Len(sc2)
    /\ \A t \in 1 .. Len(sc) : /\ sc2[t].role = sc[t].role /\ sc2[t].parent = sc[t].parent
                               /\ sc2[t].by = sc[t].by /\ sc2[t].replyOn = sc[t].replyOn

MoreCalls(cs, cs2) ==
    /\ Len(cs) \in Nat /\ Len(cs2) \in Nat /\ Len(cs) <= Len(cs2)
    /\ \A c \in 1 .. Len(cs) : cs2[c].scope = cs[c].scope

\* A scope that opens, and a call that is no reply, answer nothing.
LEMMA AnsweredOpen ==
    ASSUME NEW sc, NEW cs, Answered(sc, cs), AnswersAreScopes(sc, cs),
           NEW rec, NEW sc2, IsAppend(ScopeRecords, sc, rec, sc2), rec.status = "open"
    PROVE  Answered(sc2, cs) /\ AnswersAreScopes(sc2, cs)
<1> DEFINE n == Len(sc)
<1>1. /\ n \in Nat /\ Len(sc2) = n + 1
      /\ \A t \in 1 .. n : sc2[t] = sc[t]
      /\ sc2[n + 1] = rec
  BY DEF IsAppend
<1>2. \A t \in 1 .. n + 1 : t \in 1 .. n \/ t = n + 1
  BY <1>1
<1>3. \A c \in 1 .. Len(cs) : cs[c].answers \in 0 .. n /\ cs[c].answers # n + 1
  BY <1>1 DEF AnswersAreScopes
<1>4. 0 .. n \subseteq 0 .. n + 1
  BY <1>1
<1>5. \A s \in 1 .. n : Awaited(sc2, s) <=> Awaited(sc, s)
  BY <1>1 DEF Awaited
<1>6. ~Awaited(sc2, n + 1)
  BY <1>1 DEF Awaited
<1>7. AnswersAreScopes(sc2, cs)
  BY <1>1, <1>3, <1>4 DEF AnswersAreScopes
<1> HIDE DEF n
<1>8. Answered(sc2, cs)
  BY <1>1, <1>2, <1>3, <1>5, <1>6 DEF Answered, n
<1> QED
  BY <1>7, <1>8

LEMMA AnsweredCall ==
    ASSUME NEW sc, NEW cs, NEW top, NEW depth, Nested(sc, cs, top, depth),
           Answered(sc, cs), AnswersAreScopes(sc, cs),
           NEW S, NEW rec, rec.answers = 0, NEW cs2, IsAppend(S, cs, rec, cs2)
    PROVE  Answered(sc, cs2) /\ AnswersAreScopes(sc, cs2)
<1> DEFINE k == Len(cs) + 1
<1>1. /\ Len(cs) \in Nat /\ Len(cs2) = k /\ cs2[k] = rec
      /\ \A c \in 1 .. Len(cs) : cs2[c] = cs[c]
  BY DEF IsAppend
<1>2. \A c \in 1 .. k : c \in 1 .. Len(cs) \/ c = k
  BY <1>1
<1>3. k \in 1 .. k /\ k \notin 1 .. Len(cs) /\ 1 .. Len(cs) \subseteq 1 .. k
  BY <1>1
<1>4. \A s \in 1 .. Len(sc) : s # 0
  OBVIOUS
<1>5. Len(sc) \in Nat
  BY LenProperties DEF Nested
<1> HIDE DEF k
<1>6. AnswersAreScopes(sc, cs2)
  BY <1>1, <1>2, <1>5 DEF AnswersAreScopes
<1>7. ASSUME NEW s \in 1 .. Len(sc)
      PROVE  IF Awaited(sc, s)
             THEN \E r \in 1 .. Len(cs2) :
                    /\ \A c \in 1 .. Len(cs2) : cs2[c].answers = s <=> c = r
                    /\ cs2[r].scope = cs2[sc[s].by].scope
                    /\ cs2[r].got.ok <=> sc[s].status = "committed"
             ELSE \A c \in 1 .. Len(cs2) : cs2[c].answers # s
  <2>1. CASE Awaited(sc, s)
    <3>1. PICK r \in 1 .. Len(cs) :
            /\ \A c \in 1 .. Len(cs) : cs[c].answers = s <=> c = r
            /\ cs[r].scope = cs[sc[s].by].scope
            /\ cs[r].got.ok <=> sc[s].status = "committed"
      BY <2>1 DEF Answered
    <3>2. sc[s].by \in 1 .. Len(cs)
      BY <2>1 DEF Awaited, Nested
    <3>3. r \in 1 .. Len(cs2) /\ cs2[r] = cs[r] /\ cs2[sc[s].by] = cs[sc[s].by]
      BY <1>1, <1>3, <3>2
    <3>4. \A c \in 1 .. Len(cs2) : cs2[c].answers = s <=> c = r
      BY <1>1, <1>2, <1>3, <1>4, <3>1
    <3> QED
      BY <2>1, <3>1, <3>3, <3>4, Zenon
  <2>2. CASE ~Awaited(sc, s)
    BY <1>1, <1>2, <1>4, <2>2 DEF Answered
  <2> QED
    BY <2>1, <2>2
<1> QED
  BY <1>6, <1>7 DEF Answered

\* The running scope ends, and nobody waits for its end.
LEMMA AnsweredClose ==
    ASSUME NEW sc, NEW cs, NEW top, NEW depth, Nested(sc, cs, top, depth), top # 0,
           Answered(sc, cs), AnswersAreScopes(sc, cs),
           NEW status \in {"committed", "dropped"}, NEW sc2, IsClose(sc, top, status, sc2),
           ~Awaited(sc2, top)
    PROVE  Answered(sc2, cs) /\ AnswersAreScopes(sc2, cs)
<1>1. Len(sc2) = Len(sc) /\ top \in 1 .. Len(sc)
  BY DEF IsClose, Nested
<1>2. ~Awaited(sc, top)
  BY <1>1 DEF Awaited, Nested, PathTo
<1>3. \A s \in 1 .. Len(sc) : /\ s # top => (Awaited(sc2, s) <=> Awaited(sc, s))
                              /\ s # top => sc2[s].status = sc[s].status
                              /\ sc2[s].by = sc[s].by
  BY DEF IsClose, Awaited
<1>4. ASSUME NEW s \in 1 .. Len(sc)
      PROVE  IF Awaited(sc2, s)
             THEN \E r \in 1 .. Len(cs) :
                    /\ \A c \in 1 .. Len(cs) : cs[c].answers = s <=> c = r
                    /\ cs[r].scope = cs[sc2[s].by].scope
                    /\ cs[r].got.ok <=> sc2[s].status = "committed"
             ELSE \A c \in 1 .. Len(cs) : cs[c].answers # s
  <2>1. CASE s = top
    BY <1>1, <1>2, <2>1 DEF Answered
  <2>2. CASE s # top
    BY <1>3, <2>2 DEF Answered
  <2> QED
    BY <2>1, <2>2
<1>5. Answered(sc2, cs)
  BY <1>1, <1>4 DEF Answered
<1> QED
  BY <1>1, <1>5 DEF AnswersAreScopes

\* The running scope ends, and rec is the reply that waits for its end.
LEMMA AnsweredReply ==
    ASSUME NEW sc, NEW cs, NEW top, NEW depth, Nested(sc, cs, top, depth), top # 0,
           Answered(sc, cs), AnswersAreScopes(sc, cs),
           NEW status \in {"committed", "dropped"}, NEW sc2, IsClose(sc, top, status, sc2),
           Awaited(sc2, top),
           NEW S, NEW rec, NEW cs2, IsAppend(S, cs, rec, cs2),
           rec.answers = top, rec.scope = cs[sc[top].by].scope,
           rec.got.ok <=> status = "committed"
    PROVE  Answered(sc2, cs2) /\ AnswersAreScopes(sc2, cs2)
<1> DEFINE k == Len(cs) + 1
<1>1. /\ Len(cs) \in Nat /\ Len(cs2) = k /\ cs2[k] = rec
      /\ \A c \in 1 .. Len(cs) : cs2[c] = cs[c]
  BY DEF IsAppend
<1>2. \A c \in 1 .. k : c \in 1 .. Len(cs) \/ c = k
  BY <1>1
<1>3. k \in 1 .. k /\ k \notin 1 .. Len(cs) /\ 1 .. Len(cs) \subseteq 1 .. k
  BY <1>1
<1>4. Len(sc2) = Len(sc) /\ top \in 1 .. Len(sc)
  BY DEF IsClose, Nested
<1>5. ~Awaited(sc, top)
  BY <1>4 DEF Awaited, Nested, PathTo
<1>6. \A s \in 1 .. Len(sc) : /\ s # top => (Awaited(sc2, s) <=> Awaited(sc, s))
                              /\ sc2[s].status = IF s = top THEN status ELSE sc[s].status
                              /\ sc2[s].by = sc[s].by
  BY DEF IsClose, Awaited
<1>7. \A s \in 1 .. Len(sc) : Awaited(sc2, s) => sc2[s].by \in 1 .. Len(cs)
  <2>1. \A s \in 1 .. Len(sc) : sc2[s].role = sc[s].role /\ sc2[s].by = sc[s].by
    BY DEF IsClose
  <2>2. \A s \in 1 .. Len(sc) : sc[s].role = "submsg" => sc[s].by \in 1 .. Len(cs)
    BY DEF Nested
  <2>3. \A s \in 1 .. Len(sc) : Awaited(sc2, s) => sc2[s].role = "submsg"
    BY DEF Awaited
  <2> QED
    BY <2>1, <2>2, <2>3
<1> HIDE DEF k
<1>8. ASSUME NEW s \in 1 .. Len(sc)
      PROVE  IF Awaited(sc2, s)
             THEN \E r \in 1 .. k :
                    /\ \A c \in 1 .. k : cs2[c].answers = s <=> c = r
                    /\ cs2[r].scope = cs2[sc2[s].by].scope
                    /\ cs2[r].got.ok <=> sc2[s].status = "committed"
             ELSE \A c \in 1 .. k : cs2[c].answers # s
  <2>1. CASE s = top
    <3>1. \A c \in 1 .. Len(cs) : cs[c].answers # s
      BY <1>5, <2>1 DEF Answered
    <3>2. sc2[s].by \in 1 .. Len(cs) /\ sc2[s].by = sc[top].by
      BY <1>6, <1>7, <2>1
    <3>3. /\ \A c \in 1 .. k : cs2[c].answers = s <=> c = k
          /\ cs2[k].scope = cs2[sc2[s].by].scope
          /\ cs2[k].got.ok <=> sc2[s].status = "committed"
      <4>1. \A c \in 1 .. k : cs2[c].answers = s <=> c = k
        BY <1>1, <1>2, <1>3, <2>1, <3>1
      <4>2. cs2[k].scope = cs2[sc2[s].by].scope
        BY <1>1, <3>2
      <4>3. sc2[s].status = status
        BY <1>6, <2>1
      <4> QED
        BY <1>1, <4>1, <4>2, <4>3
    <3> QED
      BY <1>3, <2>1, <3>3
  <2>2. CASE s # top /\ Awaited(sc2, s)
    <3>1. PICK r \in 1 .. Len(cs) :
            /\ \A c \in 1 .. Len(cs) : cs[c].answers = s <=> c = r
            /\ cs[r].scope = cs[sc[s].by].scope
            /\ cs[r].got.ok <=> sc[s].status = "committed"
      BY <1>6, <2>2 DEF Answered
    <3>2. sc[s].by \in 1 .. Len(cs)
      BY <1>6, <1>7, <2>2
    <3>3. /\ \A c \in 1 .. k : cs2[c].answers = s <=> c = r
          /\ cs2[r].scope = cs2[sc2[s].by].scope
          /\ cs2[r].got.ok <=> sc2[s].status = "committed"
      <4>1. \A c \in 1 .. k : cs2[c].answers = s <=> c = r
        BY <1>1, <1>2, <1>3, <2>2, <3>1
      <4>2. sc2[s].by = sc[s].by /\ sc2[s].status = sc[s].status
        BY <1>6, <2>2
      <4>3. cs2[r] = cs[r] /\ cs2[sc2[s].by] = cs[sc[s].by]
        BY <1>1, <3>2, <4>2
      <4> QED
        BY <3>1, <4>1, <4>2, <4>3
    <3> QED
      BY <1>3, <2>2, <3>3
  <2>3. CASE s # top /\ ~Awaited(sc2, s)
    BY <1>1, <1>2, <1>6, <2>3 DEF Answered
  <2> QED
    BY <2>1, <2>2, <2>3
<1>9. Answered(sc2, cs2)
  BY <1>1, <1>4, <1>8 DEF Answered
<1>10. Len(sc) \in Nat
  BY DEF IsClose
<1>11. AnswersAreScopes(sc2, cs2)
  BY <1>1, <1>2, <1>4, <1>10 DEF AnswersAreScopes
<1> QED
  BY <1>9, <1>11

-----------------------------------------------------------------------------
(* Frames *)

\* What exists goes on existing when calls and scopes are added.
LEMMA TypesGrow ==
    ASSUME NEW n \in Nat, NEW n2 \in Nat, n <= n2, NEW m \in Nat, NEW m2 \in Nat, m <= m2
    PROVE  FramesOf(n, m) \subseteq FramesOf(n2, m2) /\ ResultsOf(n) \subseteq ResultsOf(n2)
<1>1. 1 .. n \subseteq 1 .. n2 /\ 0 .. n \subseteq 0 .. n2 /\ 1 .. m \subseteq 1 .. m2
  OBVIOUS
<1>2. \A e \in Seq(1 .. n) : e \in Seq(1 .. n2)
  BY <1>1, SeqMonotonic, Zenon
<1>3. \A d \in SUBSET (0 .. n) : d \in SUBSET (0 .. n2)
  BY <1>1
<1>4. FramesOf(n, m) \subseteq FramesOf(n2, m2)
  BY <1>1, <1>2, <1>3 DEF FramesOf
<1>5. ResultsOf(n) \subseteq ResultsOf(n2)
  BY <1>2, <1>3 DEF ResultsOf
<1> QED
  BY <1>4, <1>5

LEMMA PlacedStays ==
    ASSUME NEW sc, NEW sc2, MoreScopes(sc, sc2), NEW cs, NEW cs2, MoreCalls(cs, cs2),
           NEW f, f.scope \in 1 .. Len(sc), NEW below, Placed(f, below, sc, cs)
    PROVE  Placed(f, below, sc2, cs2)
<1>1. f.call \in 1 .. Len(cs) => f.call \in 1 .. Len(cs2) /\ cs2[f.call].scope = cs[f.call].scope
  BY DEF MoreCalls
<1> QED
  BY <1>1 DEF Placed, MoreScopes

LEMMA FrameIsTyped ==
    ASSUME NEW st, NEW sc, NEW cs, Frames(st, sc, cs), NEW i \in 1 .. Len(st)
    PROVE  st[i] \in FramesOf(Len(cs), Len(sc)) /\ st[i].scope \in 1 .. Len(sc)
<1>1. st[i] \in FramesOf(Len(cs), Len(sc))
  BY ElementOfSeq DEF Frames
<1> QED
  BY <1>1 DEF FramesOf

LEMMA FramesStay ==
    ASSUME NEW st, NEW sc, NEW cs, Frames(st, sc, cs),
           NEW sc2, MoreScopes(sc, sc2), NEW cs2, MoreCalls(cs, cs2)
    PROVE  Frames(st, sc2, cs2)
<1>1. FramesOf(Len(cs), Len(sc)) \subseteq FramesOf(Len(cs2), Len(sc2))
  BY TypesGrow DEF MoreScopes, MoreCalls
<1>2. st \in Seq(FramesOf(Len(cs2), Len(sc2)))
  BY <1>1, SeqMonotonic DEF Frames
<1>3. ASSUME NEW i \in 1 .. Len(st)
      PROVE  Placed(st[i], ScopeAt(st, i - 1), sc2, cs2)
  <2>1. st[i].scope \in 1 .. Len(sc) /\ Placed(st[i], ScopeAt(st, i - 1), sc, cs)
    BY FrameIsTyped DEF Frames
  <2> QED
    BY <2>1, PlacedStays
<1> QED
  BY <1>2, <1>3 DEF Frames

\* The running function.
LEMMA TopIsPlaced ==
    ASSUME NEW st, NEW sc, NEW cs, Frames(st, sc, cs)
    PROVE  /\ st = <<>> <=> TopScope(st) = 0
           /\ st # <<>> => /\ Len(st) \in Nat \ {0}
                           /\ TopScope(st) = st[Len(st)].scope
                           /\ st[Len(st)] \in FramesOf(Len(cs), Len(sc))
                           /\ TopScope(st) \in 1 .. Len(sc)
                           /\ Placed(st[Len(st)], ScopeAt(st, Len(st) - 1), sc, cs)
<1>1. st \in Seq(FramesOf(Len(cs), Len(sc)))
  BY DEF Frames
<1>2. CASE st = <<>>
  <2>1. Len(st) = 0
    BY <1>2, EmptySeq
  <2> QED
    BY <1>2, <2>1 DEF TopScope, ScopeAt
<1>3. CASE st # <<>>
  <2>1. Len(st) \in Nat \ {0}
    BY <1>1, <1>3, EmptySeq
  <2>2. Len(st) \in 1 .. Len(st)
    BY <2>1
  <2>3. st[Len(st)] \in FramesOf(Len(cs), Len(sc)) /\ st[Len(st)].scope \in 1 .. Len(sc)
    BY <2>2, FrameIsTyped
  <2>4. TopScope(st) = st[Len(st)].scope
    BY <2>1 DEF TopScope, ScopeAt
  <2> QED
    BY <1>3, <2>1, <2>2, <2>3, <2>4 DEF Frames
<1> QED
  BY <1>2, <1>3

\* st2 is what Frames says, with f on top.
IsPush(st2, f, sc2, cs2) ==
    /\ Frames(st2, sc2, cs2)
    /\ st2 # <<>>
    /\ TopScope(st2) = f.scope

\* A frame is pushed where it belongs.
LEMMA FramesPush ==
    ASSUME NEW st, NEW sc, NEW cs, Frames(st, sc, cs),
           NEW f \in FramesOf(Len(cs), Len(sc)), Placed(f, TopScope(st), sc, cs)
    PROVE  IsPush(Append(st, f), f, sc, cs)
<1> DEFINE st2 == Append(st, f)
           F == FramesOf(Len(cs), Len(sc))
<1>1. st \in Seq(F) /\ f \in F
  BY DEF Frames
<1> HIDE DEF F
<1>2. IsAppend(F, st, f, st2)
  BY <1>1, Appended, Zenon
<1> HIDE DEF st2
<1>3. /\ st2 \in Seq(F) /\ st2 # <<>> /\ Len(st) \in Nat /\ Len(st2) = Len(st) + 1
      /\ \A i \in 1 .. Len(st) : st2[i] = st[i]
      /\ st2[Len(st) + 1] = f
  BY <1>2 DEF IsAppend
<1>4. \A i \in 1 .. Len(st) + 1 : i \in 1 .. Len(st) \/ i = Len(st) + 1
  BY <1>3
<1>5. \A i \in 1 .. Len(st) + 1 : ScopeAt(st2, i - 1) = ScopeAt(st, i - 1)
  BY <1>3 DEF ScopeAt
<1>6. ASSUME NEW i \in 1 .. Len(st) + 1
      PROVE  Placed(st2[i], ScopeAt(st2, i - 1), sc, cs)
  <2>1. CASE i \in 1 .. Len(st)
    BY <1>3, <1>5, <2>1 DEF Frames
  <2>2. CASE i = Len(st) + 1
    <3>1. ScopeAt(st2, i - 1) = TopScope(st)
      <4>1. i - 1 = Len(st)
        BY <1>3, <2>2
      <4>2. ScopeAt(st2, i - 1) = ScopeAt(st, i - 1)
        BY <1>5
      <4> QED
        BY <4>1, <4>2 DEF TopScope
    <3> QED
      BY <1>3, <2>2, <3>1
  <2> QED
    BY <1>4, <2>1, <2>2
<1>7. Frames(st2, sc, cs)
  BY <1>3, <1>6 DEF Frames, F
<1>8. TopScope(st2) = f.scope
  BY <1>3 DEF TopScope, ScopeAt
<1>9. IsPush(st2, f, sc, cs)
  BY <1>3, <1>7, <1>8 DEF IsPush
<1> QED
  BY <1>9 DEF st2

\* st2 is the stack below the top of st.
IsPopped(st, st2, sc, cs) ==
    /\ Frames(st2, sc, cs)
    /\ TopScope(st2) = ScopeAt(st, Len(st) - 1)
    /\ Placed(st[Len(st)], TopScope(st2), sc, cs)
    /\ st2 = <<>> <=> TopScope(st2) = 0

\* The frame that is popped belonged above the one that is the top now.
LEMMA FramesPop ==
    ASSUME NEW st, NEW sc, NEW cs, Frames(st, sc, cs), st # <<>>
    PROVE  IsPopped(st, SubSeq(st, 1, Len(st) - 1), sc, cs)
<1> DEFINE st2 == SubSeq(st, 1, Len(st) - 1)
           F == FramesOf(Len(cs), Len(sc))
<1>1. st \in Seq(F)
  BY DEF Frames
<1> HIDE DEF F
<1>2. IsBelow(F, st, st2)
  BY <1>1, Shortened, Zenon
<1> HIDE DEF st2
<1>3. /\ st2 \in Seq(F) /\ Len(st) \in Nat \ {0} /\ Len(st2) = Len(st) - 1
      /\ \A i \in 1 .. Len(st2) : st2[i] = st[i]
  BY <1>2 DEF IsBelow
<1>4. \A i \in 0 .. Len(st) - 1 : ScopeAt(st2, i) = ScopeAt(st, i)
  BY <1>3 DEF ScopeAt
<1>5. ASSUME NEW i \in 1 .. Len(st2)
      PROVE  Placed(st2[i], ScopeAt(st2, i - 1), sc, cs)
  <2>1. i \in 1 .. Len(st) /\ i - 1 \in 0 .. Len(st) - 1
    BY <1>3
  <2>2. st2[i] = st[i] /\ ScopeAt(st2, i - 1) = ScopeAt(st, i - 1)
    BY <1>3, <1>4, <2>1
  <2> QED
    BY <2>1, <2>2 DEF Frames
<1>6. Frames(st2, sc, cs)
  BY <1>3, <1>5 DEF Frames, F
<1>7. TopScope(st2) = ScopeAt(st, Len(st) - 1)
  BY <1>3, <1>4 DEF TopScope
<1>8. Placed(st[Len(st)], TopScope(st2), sc, cs)
  BY <1>7, TopIsPlaced
<1>9. st2 = <<>> <=> TopScope(st2) = 0
  BY <1>6, TopIsPlaced
<1>10. IsPopped(st, st2, sc, cs)
  BY <1>6, <1>7, <1>8, <1>9 DEF IsPopped
<1> QED
  BY <1>10 DEF st2

-----------------------------------------------------------------------------
(* Steps of the whole: of the layers ls, the stack st, whether an error goes up, *)
(* the scopes sc and the calls cs                                                *)

\* There are layers above the backing storage exactly while something runs.
LEMMA Lengths ==
    ASSUME NEW ls, NEW st, NEW failing, NEW sc, NEW cs, World(ls, st, failing, sc, cs)
    PROVE  /\ Len(ls) \in Nat \ {0} /\ Len(sc) \in Nat /\ Len(cs) \in Nat
           /\ Len(ls) = 1 <=> st = <<>>
           /\ st # <<>> => TopScope(st) # 0
<1> DEFINE top == TopScope(st)
<1>1. Nested(sc, cs, top, Len(ls)) /\ Frames(st, sc, cs)
  BY DEF World
<1> HIDE DEF top
<1>2. /\ IsFiniteSet(PathTo(sc, top))
      /\ Cardinality(PathTo(sc, top)) \in Nat
      /\ Len(ls) \in Nat \ {0}
      /\ Len(ls) = Cardinality(PathTo(sc, top)) + 1
  BY <1>1, PathsAreFinite DEF Nested
<1>3. Len(sc) \in Nat /\ Len(cs) \in Nat
  BY <1>1, LenProperties DEF Nested
<1>4. Cardinality(PathTo(sc, top)) = 0 <=> PathTo(sc, top) = {}
  BY <1>2, FS_EmptySet
<1>5. PathTo(sc, top) = {} <=> top = 0
  BY <1>1, <1>3 DEF Nested, PathTo
<1>6. Len(ls) = 1 <=> top = 0
  BY <1>2, <1>4, <1>5
<1> QED
  BY <1>1, <1>2, <1>3, <1>6, TopIsPlaced DEF top

\* A transactional opens a scope within the running one.
LEMMA WorldOpen ==
    ASSUME NEW ls, NEW st, NEW sc, NEW cs, World(ls, st, FALSE, sc, cs),
           NEW rec \in ScopeRecords, rec.parent = TopScope(st), rec.status = "open",
           rec.path = {Len(sc) + 1} \cup PathTo(sc, TopScope(st)),
           rec.role = "submsg" => rec.by \in 1 .. Len(cs),
           NEW f \in FramesOf(Len(cs), Len(sc) + 1), f.scope = Len(sc) + 1,
           Placed(f, TopScope(st), Append(sc, rec), cs)
    PROVE  /\ World(Append(ls, ls[Len(ls)]), Append(st, f), FALSE, Append(sc, rec), cs)
           /\ SameBase(ls, Append(ls, ls[Len(ls)]))
           /\ Append(st, f) # <<>>
           /\ IsAppend(ScopeRecords, sc, rec, Append(sc, rec))
<1> DEFINE ls2 == Append(ls, ls[Len(ls)])
           st2 == Append(st, f)
           sc2 == Append(sc, rec)
           top == TopScope(st)
<1>1. /\ IsSeq(ls) /\ Frames(st, sc, cs) /\ Nested(sc, cs, top, Len(ls))
      /\ Held(ls, sc, cs) /\ Broken(sc, cs, top, FALSE)
  BY DEF World
<1>2. sc \in Seq(ScopeRecords)
  BY <1>1 DEF Nested
<1>3. IsAppend(ScopeRecords, sc, rec, sc2)
  BY <1>2, Appended, Zenon
<1>4. IsAppend(Range(ls) \cup {ls[Len(ls)]}, ls, ls[Len(ls)], ls2)
  BY <1>1, AppendedAny, Zenon
<1> HIDE DEF ls2, sc2, top
<1>5. Nested(sc2, cs, Len(sc) + 1, Len(ls) + 1)
  BY <1>1, <1>3, NestedOpen DEF top
<1>6. Held(ls2, sc2, cs)
  BY <1>1, <1>3, <1>4, HeldOpen, Zenon
<1>7. Broken(sc2, cs, Len(sc) + 1, FALSE)
  BY <1>1, <1>3, BrokenOpen, Zenon DEF top
<1>8. MoreScopes(sc, sc2) /\ MoreCalls(cs, cs) /\ Len(sc2) = Len(sc) + 1
  BY <1>3, Lengths DEF IsAppend, MoreScopes, MoreCalls
<1>9. Frames(st, sc2, cs)
  BY <1>1, <1>8, FramesStay
<1>10. IsPush(st2, f, sc2, cs)
  BY <1>8, <1>9, FramesPush DEF top, sc2
<1> HIDE DEF st2
<1>11. /\ Len(ls2) = Len(ls) + 1 /\ IsSeq(ls2)
       /\ ls2[1] = ls[1]
  <2>1. Len(ls) \in Nat \ {0}
    BY Lengths
  <2>2. 1 \in 1 .. Len(ls)
    BY <2>1
  <2> QED
    BY <1>4, <2>2 DEF IsAppend
<1>12. World(ls2, st2, FALSE, sc2, cs)
  BY <1>5, <1>6, <1>7, <1>10, <1>11 DEF World, IsPush
<1>13. SameBase(ls, ls2) /\ st2 # <<>>
  BY <1>10, <1>11 DEF SameBase, IsPush
<1> QED
  BY <1>3, <1>12, <1>13 DEF ls2, st2, sc2

\* What transactional leaves of the layers ls.
LayersAfter(ls, status) ==
    IF status = "committed" THEN Append(SubSeq(ls, 1, Len(ls) - 2), ls[Len(ls)])
    ELSE SubSeq(ls, 1, Len(ls) - 1)

\* Scope s failed with an error that goes up.
GoesUp(sc, s, failing) ==
    failing /\ sc[s].role # "callback" /\ sc[s].replyOn \notin {"Always", "Error"}

\* The scope of the frame at the top may end so.
MayEnd(ls, st, failing, sc, cs, status, failing2) ==
    /\ failing \in BOOLEAN /\ failing2 \in BOOLEAN
    /\ World(ls, st, failing, sc, cs)
    /\ st # <<>> /\ st[Len(st)].role \notin {"call", "reply"}
    /\ status \in {"committed", "dropped"}
    /\ status = "dropped" <=> failing
    /\ sc[TopScope(st)].parent # 0 => (failing2 <=> GoesUp(sc, TopScope(st), failing))

\* That scope ends, and the frame with it.
IsEnded(ls, st, sc, status, ls2, st2, sc2) ==
    /\ ls2 = LayersAfter(ls, status)
    /\ st2 = SubSeq(st, 1, Len(st) - 1)
    /\ sc2 = [sc EXCEPT ![TopScope(st)].status = status]

HasEnded(ls, st, sc, cs, status, failing2, ls2, st2, sc2) ==
    /\ World(ls2, st2, failing2, sc2, cs)
    /\ IsClose(sc, TopScope(st), status, sc2)
    /\ sc[TopScope(st)].parent = TopScope(st2)
    /\ Placed(st[Len(st)], TopScope(st2), sc, cs)
    /\ st2 # <<>> => SameBase(ls, ls2)

\* transactional commits or drops the scope of the frame at the top.
LEMMA WorldClose ==
    ASSUME NEW ls, NEW st, NEW failing, NEW sc, NEW cs, NEW status, NEW failing2,
           MayEnd(ls, st, failing, sc, cs, status, failing2),
           NEW ls2, NEW st2, NEW sc2, IsEnded(ls, st, sc, status, ls2, st2, sc2)
    PROVE  HasEnded(ls, st, sc, cs, status, failing2, ls2, st2, sc2)
<1> DEFINE top == TopScope(st)
<1>0. /\ failing \in BOOLEAN /\ failing2 \in BOOLEAN
      /\ World(ls, st, failing, sc, cs)
      /\ st # <<>> /\ st[Len(st)].role \notin {"call", "reply"}
      /\ status \in {"committed", "dropped"} /\ (status = "dropped" <=> failing)
      /\ sc[top].parent # 0 =>
          (failing2 <=> /\ failing /\ sc[top].role # "callback"
                        /\ sc[top].replyOn \notin {"Always", "Error"})
  BY Zenon DEF MayEnd, GoesUp
<1>1. /\ IsSeq(ls) /\ Frames(st, sc, cs) /\ Nested(sc, cs, top, Len(ls))
      /\ Held(ls, sc, cs) /\ Broken(sc, cs, top, failing)
  BY <1>0 DEF World
<1>2. sc \in Seq(ScopeRecords)
  BY <1>1 DEF Nested
<1>3. /\ top # 0 /\ top \in 1 .. Len(sc) /\ top = st[Len(st)].scope
      /\ st[Len(st)] \in FramesOf(Len(cs), Len(sc))
  BY <1>0, <1>1, TopIsPlaced
<1>4. IsPopped(st, st2, sc, cs)
  <2>1. IsPopped(st, SubSeq(st, 1, Len(st) - 1), sc, cs)
    BY <1>0, <1>1, FramesPop
  <2> QED
    BY <2>1, Zenon DEF IsEnded
<1>5. IsClose(sc, top, status, sc2)
  <2>1. IsClose(sc, top, status, [sc EXCEPT ![top].status = status])
    BY <1>0, <1>2, <1>3, Closed
  <2> QED
    BY <2>1, Zenon DEF IsEnded
<1>14. ls2 = LayersAfter(ls, status)
  BY DEF IsEnded
<1>6. sc[top].parent = TopScope(st2) /\ Placed(st[Len(st)], TopScope(st2), sc, cs)
  BY <1>0, <1>3, <1>4 DEF IsPopped, Placed
<1> HIDE DEF top
<1>7. Nested(sc2, cs, sc[top].parent, Len(ls) - 1) /\ Len(ls) - 1 \in Nat \ {0}
  <2>1. PICK depth : depth = Len(ls)
    OBVIOUS
  <2>2. Nested(sc, cs, top, depth) /\ top # 0 /\ status \in {"committed", "dropped"}
    BY <1>0, <1>1, <1>3, <2>1
  <2>3. Nested(sc2, cs, sc[top].parent, depth - 1) /\ depth - 1 \in Nat \ {0}
    BY <1>5, <2>2, NestedClose
  <2> QED
    BY <2>1, <2>3
<1>8. ls \in Seq(Range(ls)) /\ Len(ls) \in Nat /\ Len(ls) > 1 /\ ls # <<>>
  <2>1. Len(ls) \in Nat
    BY <1>0, Lengths
  <2>2. Len(ls) > 1
    <3> DEFINE n == Len(ls)
    <3>1. n \in Nat /\ n - 1 \in Nat \ {0}
      BY <1>7, <2>1
    <3> HIDE DEF n
    <3>2. n > 1
      BY <3>1
    <3> QED
      BY <3>2 DEF n
  <2>3. ls \in Seq(Range(ls))
    BY <1>1 DEF IsSeq
  <2>4. Len(<<>>) = 0
    BY EmptySeq
  <2> QED
    BY <2>1, <2>2, <2>3, <2>4
<1>9. /\ Held(ls2, sc2, cs) /\ IsSeq(ls2) /\ Len(ls2) = Len(ls) - 1
      /\ Len(ls) # 2 => ls2[1] = ls[1]
  <2>1. CASE status = "committed"
    <3>1. IsCommit(ls, ls2)
      BY <1>1, <1>8, <2>1, <1>14, Committed DEF LayersAfter
    <3>2. Held(ls2, sc2, cs)
      BY <1>1, <1>3, <1>5, <2>1, <3>1, HeldCommit
    <3> QED
      BY <3>1, <3>2 DEF IsCommit
  <2>2. CASE status = "dropped"
    <3>1. IsBelow(Range(ls), ls, SubSeq(ls, 1, Len(ls) - 1))
      BY <1>8, Shortened
    <3>2. IsBelow(Range(ls), ls, ls2)
      BY <2>2, <3>1, <1>14 DEF LayersAfter
    <3>3. Held(ls2, sc2, cs)
      BY <1>1, <1>3, <1>5, <2>2, <3>2, HeldDrop, Zenon
    <3> QED
      BY <1>7, <3>2, <3>3 DEF IsBelow
  <2> QED
    BY <1>0, <2>1, <2>2
<1>10. Broken(sc2, cs, sc[top].parent, failing2)
  BY <1>0, <1>1, <1>3, <1>5, BrokenClose, Zenon DEF top
<1>11. Frames(st2, sc2, cs)
  <2>1. MoreScopes(sc, sc2)
    BY <1>5 DEF IsClose, MoreScopes
  <2>2. MoreCalls(cs, cs)
    BY <1>0, Lengths DEF MoreCalls
  <2> QED
    BY <1>4, <2>1, <2>2, FramesStay DEF IsPopped
<1>12. World(ls2, st2, failing2, sc2, cs)
  BY <1>6, <1>7, <1>9, <1>10, <1>11 DEF World
<1>13. st2 # <<>> => SameBase(ls, ls2)
  <2>1. Len(ls2) = 1 <=> st2 = <<>>
    BY <1>12, Lengths
  <2> QED
    BY <1>8, <1>9, <2>1 DEF SameBase
<1> QED
  BY <1>5, <1>6, <1>12, <1>13 DEF top, HasEnded

\* A call in the running scope.
LEMMA WorldCall ==
    ASSUME NEW ls, NEW st, NEW sc, NEW cs, World(ls, st, FALSE, sc, cs), st # <<>>,
           NEW rec, rec.scope = TopScope(st), NEW S, NEW cs2, IsAppend(S, cs, rec, cs2),
           NEW new, new = ls[Len(ls)] \cup Effects(Len(cs) + 1, rec.kind, rec.outcome),
           NEW ls2, IsReplace(ls, new, ls2)
    PROVE  World(ls2, st, ~Succeeds(rec.outcome), sc, cs2)
<1> DEFINE top == TopScope(st)
<1>1. /\ IsSeq(ls) /\ Frames(st, sc, cs) /\ Nested(sc, cs, top, Len(ls))
      /\ Held(ls, sc, cs) /\ Broken(sc, cs, top, FALSE)
  BY DEF World
<1>2. Len(ls) \in Nat \ {0, 1} /\ top # 0 /\ Len(sc) \in Nat /\ Len(cs) \in Nat
  BY Lengths
<1> HIDE DEF top
<1>3. Nested(sc, cs2, top, Len(ls))
  BY <1>1, <1>2, NestedCall, Zenon DEF top
<1>4. Held(ls2, sc, cs2)
  BY <1>1, <1>2, HeldCall, Zenon DEF top
<1>5. Broken(sc, cs2, top, ~Succeeds(rec.outcome))
  BY <1>1, <1>2, BrokenCall, Zenon DEF top
<1>6. Frames(st, sc, cs2)
  <2>1. MoreScopes(sc, sc) /\ MoreCalls(cs, cs2)
    BY <1>2 DEF IsAppend, MoreScopes, MoreCalls
  <2> QED
    BY <1>1, <2>1, FramesStay
<1>7. Len(ls2) = Len(ls) /\ IsSeq(ls2)
  BY DEF IsReplace
<1> QED
  BY <1>3, <1>4, <1>5, <1>6, <1>7 DEF World, top

\* A call does not reach the backing storage.
LEMMA BaseStays ==
    ASSUME NEW ls, NEW st, NEW failing, NEW sc, NEW cs, World(ls, st, failing, sc, cs),
           st # <<>>, NEW new, NEW ls2, IsReplace(ls, new, ls2)
    PROVE  SameBase(ls, ls2)
<1> DEFINE n == Len(ls)
<1>1. n \in Nat \ {0, 1}
  BY Lengths
<1> HIDE DEF n
<1>2. 1 \in 1 .. n - 1
  BY <1>1
<1> QED
  BY <1>2 DEF IsReplace, SameBase, n

\* The call that rec records runs: it leaves its effects in the innermost layer.
Runs(ls, cs, rec, ls2, cs2) ==
    /\ ls2 = [ls EXCEPT ![Len(ls)] = @ \cup Effects(Len(cs) + 1, rec.kind, rec.outcome)]
    /\ cs2 = Append(cs, rec)

LEMMA RunExtends ==
    ASSUME NEW ls, IsSeq(ls), ls # <<>>, NEW cs, IsSeq(cs), NEW rec,
           NEW ls2, NEW cs2, Runs(ls, cs, rec, ls2, cs2)
    PROVE  /\ IsAppend(Range(cs) \cup {rec}, cs, rec, cs2)
           /\ IsReplace(ls, ls[Len(ls)] \cup Effects(Len(cs) + 1, rec.kind, rec.outcome), ls2)
<1> DEFINE new == ls[Len(ls)] \cup Effects(Len(cs) + 1, rec.kind, rec.outcome)
<1>1. IsAppend(Range(cs) \cup {rec}, cs, rec, cs2)
  <2>1. IsAppend(Range(cs) \cup {rec}, cs, rec, Append(cs, rec))
    BY AppendedAny, Zenon
  <2> QED
    BY <2>1, Zenon DEF Runs
<1>2. IsReplace(ls, new, ls2)
  <2>1. ls2 = [ls EXCEPT ![Len(ls)] = new]
    BY DEF Runs
  <2> HIDE DEF new
  <2>2. IsReplace(ls, new, [ls EXCEPT ![Len(ls)] = new])
    BY Replaced, Zenon
  <2> QED
    BY <2>1, <2>2, Zenon
<1> QED
  BY <1>1, <1>2, Zenon

\* with_storage and the keepers: the call ends, and its scope is broken if it failed.
LEMMA WorldRun ==
    ASSUME NEW ls, NEW st, NEW sc, NEW cs, World(ls, st, FALSE, sc, cs), st # <<>>,
           NEW rec, rec.scope = TopScope(st),
           NEW cs2, NEW ls2, Runs(ls, cs, rec, ls2, cs2)
    PROVE  /\ World(ls2, st, ~Succeeds(rec.outcome), sc, cs2)
           /\ IsAppend(Range(cs) \cup {rec}, cs, rec, cs2)
           /\ SameBase(ls, ls2)
<1> DEFINE new == ls[Len(ls)] \cup Effects(Len(cs) + 1, rec.kind, rec.outcome)
<1>1. IsSeq(cs)
  BY DEF World, Nested, IsSeq
<1>2. IsSeq(ls) /\ ls # <<>>
  BY Lengths, EmptySeq DEF World
<1>3. IsAppend(Range(cs) \cup {rec}, cs, rec, cs2) /\ IsReplace(ls, new, ls2)
  BY <1>1, <1>2, RunExtends, Zenon
<1>4. new = ls[Len(ls)] \cup Effects(Len(cs) + 1, rec.kind, rec.outcome)
  OBVIOUS
<1> HIDE DEF new
<1>5. World(ls2, st, ~Succeeds(rec.outcome), sc, cs2)
  BY <1>3, <1>4, WorldCall, Zenon
<1>6. SameBase(ls, ls2)
  BY <1>3, BaseStays, Zenon
<1> QED
  BY <1>3, <1>5, <1>6, Zenon

\* A frame that runs in the scope of the one below it comes and goes.
LEMMA WorldPush ==
    ASSUME NEW ls, NEW st, NEW failing, NEW sc, NEW cs, World(ls, st, failing, sc, cs),
           NEW f \in FramesOf(Len(cs), Len(sc)), f.scope = TopScope(st),
           Placed(f, TopScope(st), sc, cs)
    PROVE  /\ World(ls, Append(st, f), failing, sc, cs)
           /\ Append(st, f) # <<>> /\ TopScope(Append(st, f)) = f.scope
<1>1. Frames(st, sc, cs)
  BY DEF World
<1>2. IsPush(Append(st, f), f, sc, cs)
  BY <1>1, FramesPush
<1> QED
  BY <1>2 DEF World, IsPush

LEMMA WorldPop ==
    ASSUME NEW ls, NEW st, NEW failing, NEW sc, NEW cs, World(ls, st, failing, sc, cs),
           st # <<>>, st[Len(st)].role \in {"call", "reply"}
    PROVE  LET st2 == SubSeq(st, 1, Len(st) - 1)
           IN  /\ World(ls, st2, failing, sc, cs)
               /\ TopScope(st2) = TopScope(st)
               /\ st2 # <<>>
               /\ Placed(st[Len(st)], TopScope(st2), sc, cs)
<1> DEFINE st2 == SubSeq(st, 1, Len(st) - 1)
<1>1. Frames(st, sc, cs)
  BY DEF World
<1>2. IsPopped(st, st2, sc, cs)
  BY <1>1, FramesPop
<1> HIDE DEF st2
<1>3. TopScope(st) = st[Len(st)].scope /\ TopScope(st) # 0
  BY <1>1, TopIsPlaced
<1>4. TopScope(st2) = TopScope(st) /\ Frames(st2, sc, cs) /\ st2 # <<>>
  BY <1>2, <1>3 DEF IsPopped, Placed
<1>5. World(ls, st2, failing, sc, cs)
  BY <1>4 DEF World
<1> QED
  BY <1>2, <1>4, <1>5 DEF st2, IsPopped

-----------------------------------------------------------------------------
(* The steps of the model *)

\* Failing, when there is no result and when there is one.
LEMMA NoError ==
    ASSUME IInv, ret = <<>>
    PROVE  World(layers, stack, FALSE, scopes, calls)
<1>1. Failing = FALSE
  BY DEF Failing
<1>2. World(layers, stack, Failing, scopes, calls)
  BY DEF IInv
<1> QED
  BY <1>1, <1>2, Zenon

LEMMA OneResult ==
    ASSUME NEW n, NEW r \in ResultsOf(n)
    PROVE  <<r>> \in Seq(ResultsOf(n)) /\ Len(<<r>>) <= 1 /\ <<r>> # <<>> /\ <<r>>[1] = r
<1> HIDE DEF ResultsOf
<1> QED
  OBVIOUS

LEMMA WithResult ==
    ASSUME IInv, ret # <<>>
    PROVE  /\ World(layers, stack, ~ret[1].ok, scopes, calls)
           /\ ret[1] \in ResultsOf(Len(calls)) /\ ret[1].ok \in BOOLEAN
           /\ stack # <<>>
           /\ Failing = ~ret[1].ok
<1>1. ret \in Seq(ResultsOf(Len(calls)))
  BY DEF IInv, ResultsTyped
<1>2. 1 \in 1 .. Len(ret)
  <2>1. Len(ret) \in Nat \ {0}
    BY <1>1, EmptySeq
  <2> QED
    BY <2>1
<1>3. ret[1] \in ResultsOf(Len(calls))
  BY <1>1, <1>2, ElementOfSeq
<1>4. ret[1].ok \in BOOLEAN
  BY <1>3 DEF ResultsOf
<1>5. Failing = ~ret[1].ok
  BY <1>4 DEF Failing
<1>6. World(layers, stack, Failing, scopes, calls) /\ stack # <<>>
  BY DEF IInv, ResultsTyped
<1> QED
  BY <1>3, <1>4, <1>5, <1>6, Zenon

\* Top is where it belongs.
LEMMA TopFrame ==
    ASSUME NEW failing, World(layers, stack, failing, scopes, calls), stack # <<>>
    PROVE  /\ Top = stack[Len(stack)] /\ Top \in FramesOf(Len(calls), Len(scopes))
           /\ Top.scope = TopScope(stack)
           /\ TopScope(stack) \in 1 .. Len(scopes) /\ TopScope(stack) # 0
           /\ Placed(Top, ScopeAt(stack, Len(stack) - 1), scopes, calls)
           /\ Len(scopes) \in Nat /\ Len(calls) \in Nat
           /\ scopes \in Seq(ScopeRecords) /\ calls \in Seq(Range(calls))
<1>1. Frames(stack, scopes, calls) /\ Nested(scopes, calls, TopScope(stack), Len(layers))
  BY DEF World
<1>2. scopes \in Seq(ScopeRecords) /\ calls \in Seq(Range(calls))
  BY <1>1 DEF Nested
<1>3. Len(scopes) \in Nat /\ Len(calls) \in Nat
  BY Lengths
<1> QED
  BY <1>1, <1>2, <1>3, TopIsPlaced DEF Top

\* Results stay typed when calls are added.
LEMMA ResponsesStay ==
    ASSUME NEW n \in Nat, NEW n2 \in Nat, n <= n2, NEW s \in Seq(ResultsOf(n))
    PROVE  s \in Seq(ResultsOf(n2))
<1>1. ResultsOf(n) \subseteq ResultsOf(n2)
  BY TypesGrow
<1> QED
  BY <1>1, SeqMonotonic

\* Call, in a world of which the stack has been brought to rest.
LEMMA CallStep ==
    ASSUME NEW storage, NEW rest, NEW sc, World(storage, rest, FALSE, sc, calls), rest # <<>>,
           NEW rec, rec.scope = TopScope(rest),
           Call(storage, rest, TopScope(rest), Len(calls) + 1, rec.kind, rec.outcome),
           calls' = Append(calls, rec)
    PROVE  /\ World(layers', stack', Failing', sc, calls')
           /\ IsAppend(Range(calls) \cup {rec}, calls, rec, calls')
           /\ SameBase(storage, layers')
           /\ ret' \in Seq(ResultsOf(Len(calls'))) /\ Len(ret') <= 1
           /\ stack' # <<>>
<1> DEFINE c == Len(calls) + 1
           scope == TopScope(rest)
<1>2. /\ World(layers', rest, ~Succeeds(rec.outcome), sc, calls')
      /\ IsAppend(Range(calls) \cup {rec}, calls, rec, calls')
      /\ SameBase(storage, layers')
  <2>1. Runs(storage, calls, rec, layers', calls')
    BY DEF Call, Runs
  <2>2. World(layers', rest, ~Succeeds(rec.outcome), sc, calls')
    BY <2>1, WorldRun, Zenon
  <2>3. IsAppend(Range(calls) \cup {rec}, calls, rec, calls')
    BY <2>1, WorldRun, Zenon
  <2>4. SameBase(storage, layers')
    BY <2>1, WorldRun, Zenon
  <2> QED
    BY <2>2, <2>3, <2>4, Zenon
<1>3. /\ Len(calls) \in Nat /\ Len(calls') = c /\ calls'[c] = rec /\ Len(sc) \in Nat
      /\ scope # 0
  BY <1>2, Lengths DEF IsAppend
<1>4. scope \in 1 .. Len(sc)
  BY <1>2, <1>3, TopIsPlaced DEF World
<1>5. CASE Succeeds(rec.outcome) /\ rec.kind \notin {"bank", "ibc_ack"}
  <2> DEFINE f == Frame("call", scope, c, <<c>>, DataOf(c, rec.outcome))
  <2>1. stack' = Append(rest, f) /\ ret' = <<>>
    BY <1>5 DEF Call
  <2>2. /\ f.role = "call" /\ f.scope = scope /\ f.call = c
        /\ f \in FramesOf(Len(calls'), Len(sc))
    <3>1. c \in 1 .. c /\ c \in 0 .. c
      BY <1>3
    <3>2. <<c>> \in Seq(1 .. c)
      BY <3>1
    <3>3. DataOf(c, rec.outcome) \in SUBSET (0 .. c)
      BY <3>1 DEF DataOf, NoData
    <3> HIDE DEF c, scope
    <3> QED
      BY <1>3, <1>4, <3>1, <3>2, <3>3 DEF Frame, FramesOf, Roles
  <2>3. Placed(f, scope, sc, calls')
    BY <1>3, <2>2 DEF Placed, IbcKinds
  <2>4. World(layers', rest, FALSE, sc, calls')
    <3> DEFINE e == ~Succeeds(rec.outcome)
    <3>1. e = FALSE
      BY <1>5
    <3>2. World(layers', rest, e, sc, calls')
      BY <1>2
    <3> HIDE DEF e
    <3> QED
      BY <3>1, <3>2
  <2> HIDE DEF f, c
  <2>5. World(layers', stack', FALSE, sc, calls') /\ stack' # <<>>
    BY <2>1, <2>2, <2>3, <2>4, WorldPush
  <2>6. Failing' = FALSE /\ ret' \in Seq(ResultsOf(Len(calls'))) /\ Len(ret') <= 1
    BY <2>1, EmptySeq DEF Failing
  <2> QED
    BY <1>2, <2>5, <2>6, Zenon
<1>6. CASE ~(Succeeds(rec.outcome) /\ rec.kind \notin {"bank", "ibc_ack"})
  <2> DEFINE r == IF Succeeds(rec.outcome) THEN Ok(NoData, <<c>>) ELSE Err
  <2>1. stack' = rest /\ ret' = <<r>>
    BY <1>6 DEF Call
  <2>2. r \in ResultsOf(Len(calls')) /\ r.ok = Succeeds(rec.outcome)
    <3>1. <<c>> \in Seq(1 .. c) /\ <<>> \in Seq(1 .. c)
      BY <1>3
    <3> HIDE DEF c
    <3>2. Ok(NoData, <<c>>) \in ResultsOf(c) /\ Ok(NoData, <<c>>).ok = TRUE
      BY <3>1 DEF Ok, NoData, ResultsOf
    <3>3. Err \in ResultsOf(c) /\ Err.ok = FALSE
      BY <3>1 DEF Err, NoData, ResultsOf
    <3>4. Succeeds(rec.outcome) \in BOOLEAN
      BY DEF Succeeds
    <3> QED
      BY <1>3, <3>2, <3>3, <3>4
  <2> HIDE DEF r
  <2>3. /\ ret' \in Seq(ResultsOf(Len(calls'))) /\ Len(ret') <= 1
        /\ ret' # <<>> /\ ret'[1] = r
    BY <2>1, <2>2, OneResult
  <2>4. Failing' = ~Succeeds(rec.outcome)
    BY <2>2, <2>3 DEF Failing
  <2> QED
    BY <1>2, <2>1, <2>3, <2>4, Zenon
<1> QED
  BY <1>5, <1>6

LEMMA CallKeepsResponses ==
    ASSUME IInv, NEW rec, IsAppend(Range(calls) \cup {rec}, calls, rec, calls')
    PROVE  responses \in Seq(ResultsOf(Len(calls')))
<1>1. Len(calls) \in Nat /\ Len(calls') = Len(calls) + 1
  BY DEF IsAppend
<1>2. responses \in Seq(ResultsOf(Len(calls)))
  BY DEF IInv, ResultsTyped
<1> QED
  BY <1>1, <1>2, ResponsesStay

\* Dispatch and IbcCall.
LEMMA PlainCall ==
    ASSUME IInv, ret = <<>>, stack # <<>>, UNCHANGED <<responses, scopes>>,
           NEW kind, NEW outcome, NEW root,
           Call(layers, stack, Top.scope, Len(calls) + 1, kind, outcome),
           calls' = Append(calls, CallRecord(Top.scope, root, kind, outcome, 0, Err))
    PROVE  IInv' /\ WrittenAtOnce
<1> DEFINE rec == CallRecord(Top.scope, root, kind, outcome, 0, Err)
<1>1. World(layers, stack, FALSE, scopes, calls)
  BY NoError
<1>2. /\ Top.scope = TopScope(stack)
      /\ rec.scope = TopScope(stack) /\ rec.kind = kind /\ rec.outcome = outcome
      /\ rec.answers = 0
  BY <1>1, TopFrame DEF CallRecord
<1> HIDE DEF rec
<1>3. /\ World(layers', stack', Failing', scopes, calls')
      /\ IsAppend(Range(calls) \cup {rec}, calls, rec, calls')
      /\ SameBase(layers, layers')
      /\ ret' \in Seq(ResultsOf(Len(calls'))) /\ Len(ret') <= 1
      /\ stack' # <<>>
  BY <1>1, <1>2, CallStep DEF rec
<1>4. Answered(scopes, calls') /\ AnswersAreScopes(scopes, calls')
  BY <1>1, <1>2, <1>3, AnsweredCall DEF World, IInv
<1>5. responses' \in Seq(ResultsOf(Len(calls')))
  BY <1>3, CallKeepsResponses
<1>6. scopes' = scopes
  OBVIOUS
<1> QED
  BY <1>3, <1>4, <1>5, <1>6 DEF IInv, ResultsTyped, WrittenAtOnce, SameBase

\* A step ends in a world where the invariant holds.
LEMMA StepEnds ==
    ASSUME World(layers', stack', Failing', scopes', calls'),
           Answered(scopes', calls'), AnswersAreScopes(scopes', calls'),
           ResultsTyped', stack' # <<>> => SameBase(layers, layers')
    PROVE  IInv' /\ WrittenAtOnce
<1>1. Len(layers') = 1 <=> stack' = <<>>
  BY Lengths
<1> QED
  BY <1>1 DEF IInv, WrittenAtOnce, SameBase

\* The frame f belongs in the scope rec that is opened for it.
FitsScope(f, rec, below, cs) ==
    /\ f.role \notin {"call", "reply"}
    /\ f.role \in {"multi", "sudo"} <=> below = 0
    /\ f.role \in {"multi", "sudo"} => rec.role = "tx"
    /\ f.role \in IbcKinds => rec.role = "ibc" /\ rec.replyOn = "Never"
    /\ f.role = "callback" => rec.role = "callback"
    /\ f.role = "sub" => /\ rec.role = "submsg" /\ rec.by = f.call
                         /\ f.call \in 1 .. Len(cs) /\ cs[f.call].scope = below

\* rec is a new scope of the scopes sc.
IsNewScope(rec, sc, role, parent, by, replyOn) ==
    /\ rec \in ScopeRecords
    /\ rec.role = role /\ rec.parent = parent /\ rec.by = by /\ rec.replyOn = replyOn
    /\ rec.status = "open"
    /\ rec.path = {Len(sc) + 1} \cup PathTo(sc, parent)

\* NewScope and Frame make what OpenStep needs.
LEMMA NewScopeIs ==
    ASSUME NEW role \in {"tx", "submsg", "ibc", "callback"}, NEW parent \in Nat,
           NEW by \in Nat, NEW replyOn \in ReplyOns,
           scopes \in Seq(ScopeRecords), parent \in 0 .. Len(scopes)
    PROVE  IsNewScope(NewScope(role, parent, by, replyOn), scopes, role, parent, by, replyOn)
<1> DEFINE path == {Len(scopes) + 1} \cup PathTo(scopes, parent)
<1>1. Len(scopes) \in Nat
  BY LenProperties
<1>2. parent # 0 => scopes[parent] \in ScopeRecords
  BY <1>1, ElementOfSeq
<1>3. path \in SUBSET Nat
  BY <1>1, <1>2 DEF PathTo, ScopeRecords
<1>4. NewScope(role, parent, by, replyOn) =
        [role |-> role, parent |-> parent, by |-> by, replyOn |-> replyOn,
         status |-> "open", path |-> path]
  BY DEF NewScope, PathTo
<1> HIDE DEF path
<1>5. NewScope(role, parent, by, replyOn) \in ScopeRecords
  BY <1>3, <1>4 DEF ScopeRecords
<1> QED
  BY <1>4, <1>5 DEF path, IsNewScope

\* f is a frame of scope scope, of those that exist after n calls and m scopes.
IsFrame(f, n, m, role, scope, call) ==
    f \in FramesOf(n, m) /\ f.role = role /\ f.scope = scope /\ f.call = call

LEMMA NewFrame ==
    ASSUME NEW n \in Nat, NEW role \in Roles, NEW call \in 0 .. n,
           NEW events \in Seq(1 .. n), NEW m \in Nat, NEW scope \in 1 .. m
    PROVE  IsFrame(Frame(role, scope, call, events, NoData), n, m, role, scope, call)
  BY DEF Frame, FramesOf, NoData, IsFrame

\* The scope rec opens with the frame f.
IsOpened(ls, st, sc, rec, f, ls2, st2, sc2) ==
    /\ ls2 = Append(ls, ls[Len(ls)])
    /\ st2 = Append(st, f)
    /\ sc2 = Append(sc, rec)

\* A scope opens, and its frame is pushed.
LEMMA OpenStep ==
    ASSUME NEW ls, NEW st, NEW sc, World(ls, st, FALSE, sc, calls),
           Answered(sc, calls), AnswersAreScopes(sc, calls),
           NEW role, NEW by, NEW replyOn,
           NEW rec, IsNewScope(rec, sc, role, TopScope(st), by, replyOn),
           role = "submsg" => by \in 1 .. Len(calls),
           NEW frame, NEW call,
           NEW f, IsFrame(f, Len(calls), Len(sc) + 1, frame, Len(sc) + 1, call),
           FitsScope(f, rec, TopScope(st), calls),
           NEW ls2, NEW st2, NEW sc2, IsOpened(ls, st, sc, rec, f, ls2, st2, sc2)
    PROVE  /\ World(ls2, st2, FALSE, sc2, calls)
           /\ Answered(sc2, calls) /\ AnswersAreScopes(sc2, calls)
           /\ SameBase(ls, ls2)
           /\ st2 # <<>>
<1> DEFINE sc3 == Append(sc, rec)
<1>1. Len(sc) \in Nat /\ sc \in Seq(ScopeRecords) /\ rec \in ScopeRecords
  BY Lengths DEF World, Nested, IsNewScope
<1>2. IsAppend(ScopeRecords, sc, rec, sc3)
  BY <1>1, Appended, Zenon
<1> HIDE DEF sc3
<1>3. f.scope = Len(sc) + 1 /\ f \in FramesOf(Len(calls), Len(sc) + 1)
  BY DEF IsFrame
<1>4. rec.parent = TopScope(st) /\ rec.status = "open" /\ rec.role = role /\ rec.by = by
      /\ rec.path = {Len(sc) + 1} \cup PathTo(sc, TopScope(st))
  BY DEF IsNewScope
<1>5. Placed(f, TopScope(st), sc3, calls)
  BY <1>1, <1>2, <1>3, <1>4 DEF Placed, FitsScope, IsAppend, IbcKinds
<1>6. Answered(sc3, calls) /\ AnswersAreScopes(sc3, calls)
  BY <1>2, <1>4, AnsweredOpen
<1>7. /\ World(Append(ls, ls[Len(ls)]), Append(st, f), FALSE, sc3, calls)
      /\ SameBase(ls, Append(ls, ls[Len(ls)])) /\ Append(st, f) # <<>>
  BY <1>1, <1>3, <1>4, <1>5, WorldOpen DEF sc3
<1>8. ls2 = Append(ls, ls[Len(ls)]) /\ st2 = Append(st, f) /\ sc2 = sc3
  BY DEF IsOpened, sc3
<1> QED
  BY <1>6, <1>7, <1>8, Zenon

\* A scope is opened where the running function is: Start, IbcEnter and IssueSubMsg.
LEMMA Opens ==
    ASSUME IInv, ret = <<>>, UNCHANGED <<ret, calls>>, responses' \in {responses, <<>>},
           NEW role, NEW by, NEW replyOn,
           NEW rec, IsNewScope(rec, scopes, role, TopScope(stack), by, replyOn),
           role = "submsg" => by \in 1 .. Len(calls),
           NEW frame, NEW call,
           NEW f, IsFrame(f, Len(calls), Len(scopes) + 1, frame, Len(scopes) + 1, call),
           FitsScope(f, rec, TopScope(stack), calls),
           IsOpened(layers, stack, scopes, rec, f, layers', stack', scopes')
    PROVE  IInv' /\ WrittenAtOnce
<1>1. World(layers, stack, FALSE, scopes, calls)
  BY NoError
<1>2. Answered(scopes, calls) /\ AnswersAreScopes(scopes, calls)
  BY DEF IInv
<1>3. calls' = calls /\ ret' = <<>>
  OBVIOUS
<1>4. /\ World(layers', stack', FALSE, scopes', calls)
      /\ Answered(scopes', calls) /\ AnswersAreScopes(scopes', calls)
      /\ SameBase(layers, layers') /\ stack' # <<>>
  BY <1>1, <1>2, OpenStep
<1>5. ResultsTyped' /\ Failing' = FALSE
  BY <1>4, EmptySeq DEF IInv, ResultsTyped, Failing
<1>6. World(layers', stack', Failing', scopes', calls')
  BY <1>3, <1>4, <1>5, Zenon
<1> QED
  BY <1>3, <1>4, <1>5, <1>6, StepEnds, Zenon

\* execute_multi, wasm_sudo and sudo open a transaction.
LEMMA StartKeeps ==
    ASSUME IInv, NEW entry \in {"multi", "sudo"}, Start(entry)
    PROVE  IInv' /\ WrittenAtOnce
<1> DEFINE rec == NewScope("tx", 0, 0, "Never")
           f == Frame(entry, Len(scopes) + 1, 0, <<>>, NoData)
<1>1. stack = <<>> /\ UNCHANGED <<ret, calls>> /\ responses' = <<>>
  BY DEF Start
<1>2. ret = <<>>
  BY <1>1 DEF IInv, ResultsTyped
<1>3. World(layers, stack, FALSE, scopes, calls)
  BY <1>2, NoError
<1>4. Len(scopes) \in Nat /\ Len(calls) \in Nat /\ scopes \in Seq(ScopeRecords)
  BY <1>3, Lengths DEF World, Nested
<1>5. TopScope(stack) = 0
  BY <1>1, <1>3, TopIsPlaced DEF World
<1>6. IsNewScope(rec, scopes, "tx", 0, 0, "Never")
  BY <1>4, NewScopeIs DEF ReplyOns
<1>7. IsFrame(f, Len(calls), Len(scopes) + 1, entry, Len(scopes) + 1, 0)
  <2>1. <<>> \in Seq(1 .. Len(calls)) /\ entry \in Roles
    BY EmptySeq DEF Roles
  <2>2. Len(scopes) + 1 \in Nat /\ Len(scopes) + 1 \in 1 .. Len(scopes) + 1 /\ 0 \in 0 .. Len(calls)
    BY <1>4
  <2> QED
    BY <1>4, <2>1, <2>2, NewFrame, Zenon
<1>8. IsOpened(layers, stack, scopes, rec, f, layers', stack', scopes')
  <2>1. Append(<<>>, f) = <<f>>
    OBVIOUS
  <2> QED
    BY <1>1, <2>1 DEF Start, IsOpened, OpenLayer, Storage
<1> HIDE DEF rec, f
<1>9. FitsScope(f, rec, 0, calls)
  BY <1>6, <1>7 DEF FitsScope, IsNewScope, IsFrame, IbcKinds
<1> QED
  BY <1>1, <1>2, <1>5, <1>6, <1>7, <1>8, <1>9, Opens

\* The keepers run a message in the scope of the running function.
LEMMA DispatchKeeps ==
    ASSUME IInv, NEW kind, NEW outcome, Dispatch(kind, outcome)
    PROVE  IInv' /\ WrittenAtOnce
<1>1. ret = <<>> /\ stack # <<>> /\ UNCHANGED <<responses, scopes>>
  BY DEF Dispatch, Sends, Running
<1>2. Call(layers, stack, Top.scope, Len(calls) + 1, kind, outcome)
  BY DEF Dispatch
<1>3. calls' = Append(calls, CallRecord(Top.scope, Len(calls) + 1, kind, outcome, 0, Err))
  BY DEF Dispatch
<1> QED
  BY <1>1, <1>2, <1>3, PlainCall

\* The handler of the IBC module opens a cache.
LEMMA IbcEnterKeeps ==
    ASSUME IInv, NEW kind \in Kinds, IbcEnter(kind)
    PROVE  IInv' /\ WrittenAtOnce
<1> DEFINE top == TopScope(stack)
           rec == NewScope("ibc", Top.scope, 0, "Never")
           f == Frame(kind, Len(scopes) + 1, 0, <<>>, NoData)
<1>1. /\ ret = <<>> /\ stack # <<>> /\ UNCHANGED <<ret, responses, calls>>
      /\ kind \in IbcKinds
  BY DEF IbcEnter, Sends, Running
<1>2. World(layers, stack, FALSE, scopes, calls)
  BY <1>1, NoError
<1>3. /\ Len(scopes) \in Nat /\ Len(calls) \in Nat /\ scopes \in Seq(ScopeRecords)
      /\ Top.scope = top /\ top \in 1 .. Len(scopes)
  BY <1>1, <1>2, TopFrame
<1>4. top \in Nat /\ top \in 0 .. Len(scopes) /\ top # 0
  BY <1>3
<1>5. IsNewScope(rec, scopes, "ibc", top, 0, "Never")
  BY <1>3, <1>4, NewScopeIs DEF ReplyOns
<1>6. IsFrame(f, Len(calls), Len(scopes) + 1, kind, Len(scopes) + 1, 0)
  <2>1. <<>> \in Seq(1 .. Len(calls)) /\ kind \in Roles
    BY <1>1, EmptySeq DEF Roles
  <2>2. Len(scopes) + 1 \in Nat /\ Len(scopes) + 1 \in 1 .. Len(scopes) + 1 /\ 0 \in 0 .. Len(calls)
    BY <1>3
  <2> QED
    BY <1>3, <2>1, <2>2, NewFrame, Zenon
<1>7. IsOpened(layers, stack, scopes, rec, f, layers', stack', scopes')
  BY DEF IbcEnter, IsOpened, OpenLayer, Storage
<1> HIDE DEF rec, f
<1>8. FitsScope(f, rec, top, calls)
  BY <1>1, <1>4, <1>5, <1>6 DEF FitsScope, IsNewScope, IsFrame, IbcKinds
<1> QED
  BY <1>1, <1>5, <1>6, <1>7, <1>8, Opens

\* Router::ibc and ibc_source_callback call a contract or the bank.
LEMMA IbcCallKeeps ==
    ASSUME IInv, NEW outcome, IbcCall(outcome)
    PROVE  IInv' /\ WrittenAtOnce
<1> DEFINE root == IF Top.role = "callback" THEN Top.call ELSE Len(calls) + 1
<1>1. ret = <<>> /\ stack # <<>> /\ UNCHANGED <<responses, scopes>>
  BY DEF IbcCall
<1>2. Call(layers, stack, Top.scope, Len(calls) + 1, Top.role, outcome)
  BY DEF IbcCall
<1>3. calls' = Append(calls, CallRecord(Top.scope, root, Top.role, outcome, 0, Err))
  BY DEF IbcCall
<1> HIDE DEF root
<1> QED
  BY <1>1, <1>2, <1>3, PlainCall

\* execute_submsg opens a cache for a call of the contract that runs.
LEMMA IssueSubMsgKeeps ==
    ASSUME IInv, NEW replyOn \in ReplyOns, IssueSubMsg(replyOn)
    PROVE  IInv' /\ WrittenAtOnce
<1> DEFINE top == TopScope(stack)
           by == Top.call
           rec == NewScope("submsg", Top.scope, by, replyOn)
           f == Frame("sub", Len(scopes) + 1, by, <<>>, NoData)
<1>1. /\ ret = <<>> /\ stack # <<>> /\ UNCHANGED <<ret, responses, calls>>
      /\ Top.role = "call"
  BY DEF IssueSubMsg, Running
<1>2. World(layers, stack, FALSE, scopes, calls)
  BY <1>1, NoError
<1>3. /\ Len(scopes) \in Nat /\ Len(calls) \in Nat /\ scopes \in Seq(ScopeRecords)
      /\ Top.scope = top /\ top \in 1 .. Len(scopes)
      /\ Placed(Top, ScopeAt(stack, Len(stack) - 1), scopes, calls)
  BY <1>1, <1>2, TopFrame
<1>4. top \in Nat /\ top \in 0 .. Len(scopes) /\ top # 0
  BY <1>3
<1>5. by \in 1 .. Len(calls) /\ calls[by].scope = top
  BY <1>1, <1>3 DEF Placed
<1>6. by \in Nat /\ by \in 0 .. Len(calls)
  BY <1>3, <1>5
<1> HIDE DEF by
<1>7. IsNewScope(rec, scopes, "submsg", top, by, replyOn)
  BY <1>3, <1>4, <1>6, NewScopeIs
<1>8. IsFrame(f, Len(calls), Len(scopes) + 1, "sub", Len(scopes) + 1, by)
  <2>1. <<>> \in Seq(1 .. Len(calls)) /\ "sub" \in Roles
    BY EmptySeq DEF Roles
  <2>2. Len(scopes) + 1 \in Nat /\ Len(scopes) + 1 \in 1 .. Len(scopes) + 1
    BY <1>3
  <2> QED
    BY <1>3, <1>6, <2>1, <2>2, NewFrame, Zenon
<1>9. IsOpened(layers, stack, scopes, rec, f, layers', stack', scopes')
  BY DEF IssueSubMsg, IsOpened, OpenLayer, Storage, by
<1> HIDE DEF rec, f
<1>10. FitsScope(f, rec, top, calls)
  BY <1>4, <1>5, <1>7, <1>8 DEF FitsScope, IsNewScope, IsFrame, IbcKinds
<1> QED
  BY <1>1, <1>5, <1>7, <1>8, <1>9, <1>10, Opens

\* A scope ends and needs no reply: IbcReturns, CallbackReturns, SubMsgWithoutReply,
\* Fail and Finish.
LEMMA Closes ==
    ASSUME IInv, stack # <<>>, Top.role \notin {"call", "reply"},
           NEW status \in {"committed", "dropped"}, status = "dropped" <=> Failing,
           scopes[TopScope(stack)].parent # 0 =>
               (Failing' <=> GoesUp(scopes, TopScope(stack), Failing)),
           scopes[TopScope(stack)].role = "submsg" =>
               ~RepliesTo(scopes[TopScope(stack)].replyOn, status = "committed"),
           IsEnded(layers, stack, scopes, status, layers', stack', scopes'),
           calls' = calls, ResultsTyped'
    PROVE  IInv' /\ WrittenAtOnce
<1> DEFINE top == TopScope(stack)
           e == Failing
           e2 == Failing'
<1>1. World(layers, stack, e, scopes, calls) /\ Answered(scopes, calls)
      /\ AnswersAreScopes(scopes, calls)
  BY DEF IInv
<1>2. MayEnd(layers, stack, e, scopes, calls, status, e2)
  BY <1>1 DEF MayEnd, Failing, Top
<1> HIDE DEF e, e2
<1>3. HasEnded(layers, stack, scopes, calls, status, e2, layers', stack', scopes')
  BY <1>2, WorldClose, Zenon
<1>5. /\ World(layers', stack', e2, scopes', calls)
      /\ IsClose(scopes, top, status, scopes')
      /\ stack' # <<>> => SameBase(layers, layers')
  BY <1>3, Zenon DEF HasEnded
<1>6. Nested(scopes, calls, top, Len(layers)) /\ top # 0 /\ top \in 1 .. Len(scopes)
  BY <1>1, TopIsPlaced DEF World
<1>7. ~Awaited(scopes', top)
  BY <1>5, <1>6 DEF Awaited, IsClose
<1> HIDE DEF top
<1>8. Answered(scopes', calls) /\ AnswersAreScopes(scopes', calls)
  BY <1>1, <1>5, <1>6, <1>7, AnsweredClose
<1>9. World(layers', stack', Failing', scopes', calls')
  BY <1>5 DEF e2
<1> QED
  BY <1>5, <1>8, <1>9, StepEnds

\* Only transactions have nothing below them.
LEMMA BelowTheTop ==
    ASSUME NEW failing, World(layers, stack, failing, scopes, calls), stack # <<>>
    PROVE  /\ Below = <<>> <=> Top.role \in {"multi", "sudo"}
           /\ Below = <<>> <=> TopScope(Below) = 0
           /\ Placed(Top, TopScope(Below), scopes, calls)
<1>1. Frames(stack, scopes, calls)
  BY DEF World
<1>2. IsPopped(stack, SubSeq(stack, 1, Len(stack) - 1), scopes, calls)
  BY <1>1, FramesPop
<1>3. IsPopped(stack, Below, scopes, calls)
  BY <1>2 DEF Below
<1> QED
  BY <1>3 DEF IsPopped, Placed, Top

\* The layers, the scopes and the stack when the scope of the top frame ends.
LEMMA TopEnds ==
    ASSUME NEW failing, World(layers, stack, failing, scopes, calls), stack # <<>>,
           NEW ok \in BOOLEAN
    PROVE  IsEnded(layers, stack, scopes, IF ok THEN "committed" ELSE "dropped",
                   IF ok THEN CommitLayer ELSE DropLayer, Below,
                   Close(Top.scope, IF ok THEN "committed" ELSE "dropped"))
<1>1. Top.scope = TopScope(stack)
  BY TopFrame
<1> QED
  BY <1>1 DEF IsEnded, LayersAfter, CommitLayer, DropLayer, Below, Close, Storage

\* The results that a step returns.
LEMMA OkResult ==
    ASSUME NEW n, NEW data \in SUBSET (0 .. n), NEW events \in Seq(1 .. n)
    PROVE  Ok(data, events) \in ResultsOf(n) /\ Ok(data, events).ok = TRUE
  BY DEF Ok, ResultsOf

IsReturned(r, n) ==
    /\ ret' \in Seq(ResultsOf(n)) /\ Len(ret') <= 1
    /\ ret' # <<>> /\ Failing' = ~r.ok

LEMMA Returned ==
    ASSUME NEW n, NEW r \in ResultsOf(n), ret' = <<r>>
    PROVE  IsReturned(r, n)
<1>1. ret' \in Seq(ResultsOf(n)) /\ Len(ret') <= 1 /\ ret' # <<>> /\ ret'[1] = r
  BY OneResult
<1> HIDE DEF ResultsOf
<1>2. Failing' = ~ret'[1].ok
  BY <1>1 DEF Failing
<1> QED
  BY <1>1, <1>2 DEF IsReturned

LEMMA ResultsStayTyped ==
    ASSUME IInv, UNCHANGED <<responses, calls>>, stack' # <<>> \/ ret' = <<>>,
           ret' \in Seq(ResultsOf(Len(calls))), Len(ret') <= 1
    PROVE  ResultsTyped'
  BY DEF IInv, ResultsTyped

\* The data and events that are put together are those of calls.
LEMMA Typed ==
    ASSUME IInv, ret # <<>>
    PROVE  /\ Len(calls) \in Nat
           /\ Top.events \in Seq(1 .. Len(calls)) /\ Top.data \in SUBSET (0 .. Len(calls))
           /\ ret[1].events \in Seq(1 .. Len(calls)) /\ ret[1].data \in SUBSET (0 .. Len(calls))
           /\ ret \in Seq(ResultsOf(Len(calls))) /\ Len(ret) <= 1
           /\ Top.events \o ret[1].events \in Seq(1 .. Len(calls))
<1>1. ret[1] \in ResultsOf(Len(calls)) /\ stack # <<>>
  BY WithResult
<1>2. Top \in FramesOf(Len(calls), Len(scopes)) /\ Len(calls) \in Nat
  BY <1>1, WithResult, TopFrame
<1>3. ret \in Seq(ResultsOf(Len(calls))) /\ Len(ret) <= 1
  BY DEF IInv, ResultsTyped
<1>4. ret[1].events \in Seq(1 .. Len(calls)) /\ ret[1].data \in SUBSET (0 .. Len(calls))
  BY <1>1 DEF ResultsOf
<1>5. Top.events \in Seq(1 .. Len(calls)) /\ Top.data \in SUBSET (0 .. Len(calls))
  BY <1>2 DEF FramesOf
<1>6. Top.events \o ret[1].events \in Seq(1 .. Len(calls))
  BY <1>4, <1>5, ConcatProperties
<1> QED
  BY <1>2, <1>3, <1>4, <1>5, <1>6

\* The handler of the IBC module commits or drops its cache.
LEMMA IbcReturnsKeeps ==
    ASSUME IInv, IbcReturns
    PROVE  IInv' /\ WrittenAtOnce
<1> DEFINE ok == ret[1].ok
           status == IF ok THEN "committed" ELSE "dropped"
<1>1. /\ stack # <<>> /\ Top.role \in IbcKinds /\ ret # <<>>
      /\ UNCHANGED <<ret, responses, calls>>
  BY DEF IbcReturns
<1>2. World(layers, stack, ~ok, scopes, calls) /\ ok \in BOOLEAN /\ Failing = ~ok
  BY <1>1, WithResult
<1>3. IsEnded(layers, stack, scopes, status, layers', stack', scopes')
  <2>1. /\ layers' = IF ok THEN CommitLayer ELSE DropLayer
        /\ stack' = Below /\ scopes' = Close(Top.scope, status)
    BY DEF IbcReturns
  <2>2. IsEnded(layers, stack, scopes, status, IF ok THEN CommitLayer ELSE DropLayer, Below,
                Close(Top.scope, status))
    BY <1>1, <1>2, TopEnds, Zenon
  <2> QED
    BY <2>1, <2>2, Zenon
<1>4. stack' # <<>>
  <2>1. Below # <<>>
    BY <1>1, <1>2, BelowTheTop DEF IbcKinds
  <2> QED
    BY <2>1 DEF IbcReturns
<1>5. ResultsTyped'
  BY <1>1, <1>4, Typed, ResultsStayTyped
<1>6. Failing' = Failing
  BY <1>1 DEF Failing
<1>7. scopes[TopScope(stack)].role = "ibc" /\ scopes[TopScope(stack)].replyOn = "Never"
  BY <1>1, <1>2, TopFrame DEF Placed
<1>8. GoesUp(scopes, TopScope(stack), Failing) <=> Failing
  BY <1>7 DEF GoesUp
<1>9. /\ status \in {"committed", "dropped"} /\ (status = "dropped" <=> Failing)
      /\ Top.role \notin {"call", "reply"}
  BY <1>1, <1>2 DEF IbcKinds
<1> HIDE DEF status
<1> QED
  BY <1>1, <1>3, <1>5, <1>6, <1>7, <1>8, <1>9, Closes

\* The function that is called next has no result yet.
LEMMA NoResult ==
    ASSUME NEW n
    PROVE  <<>> \in Seq(ResultsOf(n)) /\ Len(<<>>) <= 1
<1> HIDE DEF ResultsOf
<1> QED
  OBVIOUS

\* The error of a source callback drops its cache and goes no further.
LEMMA CallbackReturnsKeeps ==
    ASSUME IInv, CallbackReturns
    PROVE  IInv' /\ WrittenAtOnce
<1> DEFINE ok == ret[1].ok
           status == IF ok THEN "committed" ELSE "dropped"
           r == Ok(NoData, Top.events \o ret[1].events)
<1>1. /\ stack # <<>> /\ Top.role = "callback" /\ ret # <<>>
      /\ UNCHANGED <<responses, calls>> /\ ret' = <<r>>
  BY DEF CallbackReturns, Running
<1>2. World(layers, stack, ~ok, scopes, calls) /\ ok \in BOOLEAN /\ Failing = ~ok
  BY <1>1, WithResult
<1>3. IsEnded(layers, stack, scopes, status, layers', stack', scopes')
  <2>1. /\ layers' = IF ok THEN CommitLayer ELSE DropLayer
        /\ stack' = Below /\ scopes' = Close(Top.scope, status)
    BY DEF CallbackReturns
  <2>2. IsEnded(layers, stack, scopes, status, IF ok THEN CommitLayer ELSE DropLayer, Below,
                Close(Top.scope, status))
    BY <1>1, <1>2, TopEnds, Zenon
  <2> QED
    BY <2>1, <2>2, Zenon
<1>4. stack' # <<>>
  <2>1. Below # <<>>
    BY <1>1, <1>2, BelowTheTop
  <2> QED
    BY <2>1 DEF CallbackReturns
<1>5. r \in ResultsOf(Len(calls)) /\ r.ok = TRUE
  <2>1. NoData \in SUBSET (0 .. Len(calls)) /\ Top.events \o ret[1].events \in Seq(1 .. Len(calls))
    BY <1>1, Typed DEF NoData
  <2> QED
    BY <2>1, OkResult, Zenon
<1> HIDE DEF r
<1>6. IsReturned(r, Len(calls))
  BY <1>1, <1>5, Returned
<1>7. ResultsTyped' /\ ~Failing'
  BY <1>1, <1>4, <1>5, <1>6, ResultsStayTyped DEF IsReturned
<1>8. scopes[TopScope(stack)].role = "callback"
  BY <1>1, <1>2, TopFrame DEF Placed
<1>9. ~GoesUp(scopes, TopScope(stack), Failing)
  BY <1>8 DEF GoesUp
<1>10. /\ status \in {"committed", "dropped"} /\ (status = "dropped" <=> Failing)
       /\ Top.role \notin {"call", "reply"}
  BY <1>1, <1>2
<1> HIDE DEF status
<1> QED
  BY <1>1, <1>3, <1>7, <1>8, <1>9, <1>10, Closes

\* An error that no reply is asked for goes up.
LEMMA SubMsgWithoutReplyKeeps ==
    ASSUME IInv, SubMsgWithoutReply
    PROVE  IInv' /\ WrittenAtOnce
<1> DEFINE ok == ret[1].ok
           status == IF ok THEN "committed" ELSE "dropped"
           r == Ok(NoData, ret[1].events)
<1>1. /\ stack # <<>> /\ Top.role = "sub" /\ ret # <<>>
      /\ UNCHANGED <<responses, calls>>
      /\ ret' = IF ok THEN <<r>> ELSE ret
  BY DEF SubMsgWithoutReply, Running
<1>2. World(layers, stack, ~ok, scopes, calls) /\ ok \in BOOLEAN /\ Failing = ~ok
  BY <1>1, WithResult
<1>3. IsEnded(layers, stack, scopes, status, layers', stack', scopes')
  <2>1. /\ layers' = IF ok THEN CommitLayer ELSE DropLayer
        /\ stack' = Below /\ scopes' = Close(Top.scope, status)
    BY DEF SubMsgWithoutReply
  <2>2. IsEnded(layers, stack, scopes, status, IF ok THEN CommitLayer ELSE DropLayer, Below,
                Close(Top.scope, status))
    BY <1>1, <1>2, TopEnds, Zenon
  <2> QED
    BY <2>1, <2>2, Zenon
<1>4. stack' # <<>>
  <2>1. Below # <<>>
    BY <1>1, <1>2, BelowTheTop
  <2> QED
    BY <2>1 DEF SubMsgWithoutReply
<1>5. r \in ResultsOf(Len(calls)) /\ r.ok = TRUE
  <2>1. NoData \in SUBSET (0 .. Len(calls)) /\ ret[1].events \in Seq(1 .. Len(calls))
    BY <1>1, Typed DEF NoData
  <2> QED
    BY <2>1, OkResult, Zenon
<1> HIDE DEF r
<1>6. ResultsTyped' /\ (Failing' <=> ~ok)
  <2>1. CASE ok
    <3>1. IsReturned(r, Len(calls))
      BY <1>1, <1>5, <2>1, Returned
    <3> QED
      BY <1>1, <1>4, <1>5, <2>1, <3>1, ResultsStayTyped DEF IsReturned
  <2>2. CASE ~ok
    <3>1. ret' = ret
      BY <1>1, <2>2
    <3>2. Failing' = Failing
      BY <3>1 DEF Failing
    <3>3. ResultsTyped'
      BY <1>1, <1>4, <3>1, Typed, ResultsStayTyped
    <3> QED
      BY <1>2, <3>2, <3>3
  <2> QED
    BY <1>2, <2>1, <2>2
<1>7. /\ scopes[TopScope(stack)].role = "submsg"
      /\ ~RepliesTo(scopes[TopScope(stack)].replyOn, ok)
  <2>1. scopes[TopScope(stack)].role = "submsg" /\ Top.scope = TopScope(stack)
    BY <1>1, <1>2, TopFrame DEF Placed
  <2> QED
    BY <2>1 DEF SubMsgWithoutReply
<1>8. /\ status \in {"committed", "dropped"} /\ (status = "dropped" <=> Failing)
      /\ Top.role \notin {"call", "reply"} /\ ((status = "committed") = ok)
  BY <1>1, <1>2
<1>9. GoesUp(scopes, TopScope(stack), Failing) <=> ~ok
  BY <1>2, <1>7 DEF GoesUp, RepliesTo
<1>10. ~RepliesTo(scopes[TopScope(stack)].replyOn, status = "committed")
  BY <1>7, <1>8 DEF RepliesTo
<1> HIDE DEF status
<1> QED
  BY <1>1, <1>3, <1>6, <1>8, <1>9, <1>10, Closes

\* The transaction ends: Fail and Finish.
LEMMA TransactionEnds ==
    ASSUME IInv, stack # <<>>, Top.role \in {"multi", "sudo"}, stack' = <<>>, ret' = <<>>,
           responses' \in {responses, <<>>}, calls' = calls,
           NEW ok \in BOOLEAN, Failing = ~ok,
           layers' = IF ok THEN CommitLayer ELSE DropLayer,
           scopes' = Close(Top.scope, IF ok THEN "committed" ELSE "dropped")
    PROVE  IInv' /\ WrittenAtOnce
<1> DEFINE status == IF ok THEN "committed" ELSE "dropped"
           e == Failing
<1>1. World(layers, stack, e, scopes, calls)
  BY DEF IInv
<1> HIDE DEF e
<1>2. stack' = Below
  BY <1>1, BelowTheTop
<1>3. IsEnded(layers, stack, scopes, status, layers', stack', scopes')
  <2>1. IsEnded(layers, stack, scopes, status, IF ok THEN CommitLayer ELSE DropLayer, Below,
                Close(Top.scope, status))
    BY <1>1, TopEnds, Zenon
  <2> QED
    BY <1>2, <2>1, Zenon
<1>4. ResultsTyped'
  <2>1. responses \in Seq(ResultsOf(Len(calls)))
    BY DEF IInv, ResultsTyped
  <2>2. <<>> \in Seq(ResultsOf(Len(calls))) /\ Len(<<>>) <= 1
    BY NoResult
  <2>3. responses' \in Seq(ResultsOf(Len(calls)))
    BY <2>1, <2>2
  <2> QED
    BY <2>2, <2>3 DEF ResultsTyped
<1>5. scopes[TopScope(stack)].role = "tx" /\ scopes[TopScope(stack)].parent = 0
  <2>1. /\ Placed(Top, ScopeAt(stack, Len(stack) - 1), scopes, calls)
        /\ Top.scope = TopScope(stack)
    BY <1>1, TopFrame
  <2> QED
    BY <2>1 DEF Placed
<1>6. /\ status \in {"committed", "dropped"} /\ (status = "dropped" <=> Failing)
      /\ Top.role \notin {"call", "reply"}
  OBVIOUS
<1> HIDE DEF status
<1> QED
  BY <1>3, <1>4, <1>5, <1>6, Closes

\* The first error drops the transaction.
LEMMA FailKeeps ==
    ASSUME IInv, Fail
    PROVE  IInv' /\ WrittenAtOnce
<1>1. /\ stack # <<>> /\ Top.role \in {"multi", "sudo"} /\ ret # <<>> /\ ~ret[1].ok
      /\ stack' = <<>> /\ ret' = <<>> /\ responses' = <<>> /\ calls' = calls
      /\ layers' = DropLayer /\ scopes' = Close(Top.scope, "dropped")
  BY DEF Fail, Running
<1> DEFINE ok == FALSE
<1>2. ok \in BOOLEAN /\ Failing = ~ok
  BY <1>1, WithResult
<1>3. /\ layers' = IF ok THEN CommitLayer ELSE DropLayer
      /\ scopes' = Close(Top.scope, IF ok THEN "committed" ELSE "dropped")
  BY <1>1
<1> HIDE DEF ok
<1> QED
  BY <1>1, <1>2, <1>3, TransactionEnds

\* The transaction commits to the backing storage.
LEMMA FinishKeeps ==
    ASSUME IInv, Finish
    PROVE  IInv' /\ WrittenAtOnce
<1>1. /\ stack # <<>> /\ Top.role \in {"multi", "sudo"} /\ ret = <<>>
      /\ stack' = <<>> /\ ret' = <<>> /\ responses' = responses /\ calls' = calls
      /\ layers' = CommitLayer /\ scopes' = Close(Top.scope, "committed")
  BY DEF Finish, Running
<1> DEFINE ok == TRUE
<1>2. ok \in BOOLEAN /\ Failing = ~ok
  BY <1>1 DEF Failing
<1>3. /\ layers' = IF ok THEN CommitLayer ELSE DropLayer
      /\ scopes' = Close(Top.scope, IF ok THEN "committed" ELSE "dropped")
  BY <1>1
<1> HIDE DEF ok
<1> QED
  BY <1>1, <1>2, <1>3, TransactionEnds

\* A function returns whose scope goes on: ReplyReturns, CallReturns and Fold.
LEMMA Pops ==
    ASSUME IInv, stack # <<>>, Top.role \in {"call", "reply"}, stack' = Below,
           UNCHANGED <<layers, responses, calls, scopes>>,
           ret' \in Seq(ResultsOf(Len(calls))), Len(ret') <= 1, Failing' = Failing
    PROVE  IInv' /\ WrittenAtOnce
<1> DEFINE e == Failing
           st2 == SubSeq(stack, 1, Len(stack) - 1)
<1>1. World(layers, stack, e, scopes, calls) /\ Answered(scopes, calls)
      /\ AnswersAreScopes(scopes, calls)
  BY DEF IInv
<1> HIDE DEF e
<1>2. World(layers, st2, e, scopes, calls) /\ st2 # <<>>
  BY <1>1, WorldPop DEF Top
<1>3. stack' = st2
  BY DEF Below
<1> HIDE DEF st2
<1>4. World(layers', stack', Failing', scopes', calls') /\ stack' # <<>>
  BY <1>2, <1>3, Zenon DEF e
<1>5. ResultsTyped'
  BY <1>4, ResultsStayTyped
<1>6. SameBase(layers, layers')
  BY DEF SameBase
<1>7. calls' = calls /\ scopes' = scopes
  OBVIOUS
<1> QED
  BY <1>1, <1>4, <1>5, <1>6, <1>7, StepEnds, Zenon

\* reply and execute_submsg put the responses together.
LEMMA ReplyReturnsKeeps ==
    ASSUME IInv, ReplyReturns
    PROVE  IInv' /\ WrittenAtOnce
<1> DEFINE ok == ret[1].ok
           r == Ok(ret[1].data, Top.events \o ret[1].events)
<1>1. /\ stack # <<>> /\ Top.role = "reply" /\ ret # <<>> /\ stack' = Below
      /\ UNCHANGED <<layers, responses, calls, scopes>>
      /\ ret' = IF ok THEN <<r>> ELSE ret
  BY DEF ReplyReturns, Running
<1>2. ok \in BOOLEAN /\ Failing = ~ok
  BY <1>1, WithResult
<1>3. CASE ok
  <2>1. r \in ResultsOf(Len(calls)) /\ r.ok = TRUE
    <3>1. ret[1].data \in SUBSET (0 .. Len(calls))
          /\ Top.events \o ret[1].events \in Seq(1 .. Len(calls))
      BY <1>1, Typed
    <3> QED
      BY <3>1, OkResult, Zenon
  <2> HIDE DEF r
  <2>2. IsReturned(r, Len(calls))
    BY <1>1, <1>3, <2>1, Returned
  <2> QED
    BY <1>1, <1>2, <1>3, <2>1, <2>2, Pops DEF IsReturned
<1>4. CASE ~ok
  <2>1. ret' = ret
    BY <1>1, <1>4
  <2>2. Failing' = Failing
    BY <2>1 DEF Failing
  <2> QED
    BY <1>1, <2>1, <2>2, Typed, Pops
<1> QED
  BY <1>2, <1>3, <1>4

\* The response of a contract goes up when it has no submessage left.
LEMMA CallReturnsKeeps ==
    ASSUME IInv, CallReturns
    PROVE  IInv' /\ WrittenAtOnce
<1> DEFINE kind == calls[Top.call].kind
           data == ResponseData(kind, Top.data)
           r == Ok(data, Top.events)
<1>1. /\ stack # <<>> /\ Top.role = "call" /\ ret = <<>> /\ stack' = Below
      /\ UNCHANGED <<layers, responses, calls, scopes>>
      /\ ret' = <<r>>
  BY DEF CallReturns, Running
<1>2. Top \in FramesOf(Len(calls), Len(scopes)) /\ Len(calls) \in Nat
  BY <1>1, NoError, TopFrame
<1>3. Top.data \in SUBSET (0 .. Len(calls)) /\ Top.events \in Seq(1 .. Len(calls))
  BY <1>2 DEF FramesOf
<1>4. data \in SUBSET (0 .. Len(calls))
  <2>1. 0 \in 0 .. Len(calls)
    BY <1>2
  <2> QED
    BY <1>3, <2>1 DEF ResponseData, NoData
<1> HIDE DEF data
<1>5. r \in ResultsOf(Len(calls)) /\ r.ok = TRUE
  BY <1>3, <1>4, OkResult, Zenon
<1> HIDE DEF r
<1>6. IsReturned(r, Len(calls))
  BY <1>1, <1>5, Returned
<1>7. Failing = FALSE
  BY <1>1 DEF Failing
<1> QED
  BY <1>1, <1>5, <1>6, <1>7, Pops DEF IsReturned

\* execute_multi collects a response.
LEMMA CollectResponseKeeps ==
    ASSUME IInv, CollectResponse
    PROVE  IInv' /\ WrittenAtOnce
<1>1. /\ ret # <<>> /\ ret[1].ok /\ ret' = <<>> /\ responses' = Append(responses, ret[1])
      /\ UNCHANGED <<layers, stack, calls, scopes>>
  BY DEF CollectResponse
<1>2. Failing = ~ret[1].ok /\ ret[1] \in ResultsOf(Len(calls))
  BY <1>1, WithResult
<1>3. Failing' = Failing
  BY <1>1, <1>2 DEF Failing
<1>4. World(layers', stack', Failing', scopes', calls')
      /\ Answered(scopes', calls') /\ AnswersAreScopes(scopes', calls')
  <2> DEFINE e == Failing
             e2 == Failing'
  <2>1. World(layers, stack, e, scopes, calls) /\ Answered(scopes, calls)
        /\ AnswersAreScopes(scopes, calls)
    BY DEF IInv
  <2>2. e2 = e
    BY <1>3
  <2> HIDE DEF e, e2
  <2>3. World(layers', stack', e2, scopes', calls')
        /\ Answered(scopes', calls') /\ AnswersAreScopes(scopes', calls')
    BY <1>1, <2>1, <2>2
  <2> QED
    BY <2>3 DEF e2
<1>5. ResultsTyped'
  <2>1. responses \in Seq(ResultsOf(Len(calls)))
    BY DEF IInv, ResultsTyped
  <2> HIDE DEF ResultsOf
  <2>2. responses' \in Seq(ResultsOf(Len(calls)))
    BY <1>1, <1>2, <2>1
  <2> QED
    BY <1>1, <2>2, NoResult DEF ResultsTyped
<1>6. SameBase(layers, layers')
  BY <1>1 DEF SameBase
<1> QED
  BY <1>4, <1>5, <1>6, StepEnds, Zenon

\* process_response folds the result of a submessage, or returns its error.
LEMMA FoldKeeps ==
    ASSUME IInv, Fold
    PROVE  IInv' /\ WrittenAtOnce
<1> DEFINE ok == ret[1].ok
           f == [Top EXCEPT !.events = @ \o ret[1].events,
                            !.data = IF ret[1].data = NoData THEN @ ELSE ret[1].data]
<1>1. /\ stack # <<>> /\ Top.role = "call" /\ ret # <<>>
      /\ UNCHANGED <<layers, responses, calls, scopes>>
  BY DEF Fold, Running
<1>2. /\ World(layers, stack, ~ok, scopes, calls) /\ ok \in BOOLEAN /\ Failing = ~ok
  BY <1>1, WithResult
<1>3. CASE ok
  <2> DEFINE st2 == SubSeq(stack, 1, Len(stack) - 1)
  <2>1. stack' = Append(st2, f) /\ ret' = <<>>
    BY <1>3 DEF Fold, Below
  <2>2. World(layers, stack, FALSE, scopes, calls)
    <3> DEFINE e == ~ok
    <3>1. World(layers, stack, e, scopes, calls) /\ e = FALSE
      BY <1>2, <1>3
    <3> HIDE DEF e
    <3> QED
      BY <3>1
  <2>3. /\ World(layers, st2, FALSE, scopes, calls)
        /\ TopScope(st2) = TopScope(stack) /\ st2 # <<>>
        /\ Placed(Top, TopScope(st2), scopes, calls)
    BY <1>1, <2>2, WorldPop DEF Top
  <2> HIDE DEF st2
  <2>4. /\ f \in FramesOf(Len(calls), Len(scopes))
        /\ f.role = Top.role /\ f.scope = Top.scope /\ f.call = Top.call
    <3>1. Top \in FramesOf(Len(calls), Len(scopes))
      BY <1>1, <2>2, TopFrame
    <3>2. /\ Top.events \o ret[1].events \in Seq(1 .. Len(calls))
          /\ ret[1].data \in SUBSET (0 .. Len(calls))
      BY <1>1, Typed
    <3> QED
      BY <3>1, <3>2 DEF FramesOf
  <2> HIDE DEF f
  <2>5. f.scope = TopScope(st2) /\ Placed(f, TopScope(st2), scopes, calls)
    <3>1. Top.scope = TopScope(stack)
      BY <1>1, <2>2, TopFrame
    <3> QED
      BY <2>3, <2>4, <3>1 DEF Placed
  <2>6. World(layers, Append(st2, f), FALSE, scopes, calls) /\ Append(st2, f) # <<>>
    BY <2>3, <2>4, <2>5, WorldPush
  <2>7. ResultsTyped' /\ Failing' = FALSE
    <3>1. stack' # <<>> /\ UNCHANGED <<responses, calls>>
      BY <1>1, <2>1, <2>6
    <3>2. ResultsTyped'
      BY <2>1, <3>1, NoResult, ResultsStayTyped
    <3> QED
      BY <2>1, <3>2 DEF Failing
  <2>8. World(layers', stack', Failing', scopes', calls')
    BY <1>1, <2>1, <2>6, <2>7, Zenon
  <2>9. Answered(scopes', calls') /\ AnswersAreScopes(scopes', calls') /\ SameBase(layers, layers')
    BY <1>1 DEF IInv, SameBase
  <2> QED
    BY <2>7, <2>8, <2>9, StepEnds, Zenon
<1>4. CASE ~ok
  <2>1. ret' = ret /\ stack' = Below
    BY <1>4 DEF Fold
  <2>2. Failing' = Failing
    BY <2>1 DEF Failing
  <2> QED
    BY <1>1, <2>1, <2>2, Typed, Pops
<1> QED
  BY <1>2, <1>3, <1>4

\* The scope of the frame at the top ended, and no error goes up.
LEMMA EndsWell ==
    ASSUME IInv, ret # <<>>, Top.role \notin {"call", "reply", "multi", "sudo"},
           ~GoesUp(scopes, TopScope(stack), ~ret[1].ok),
           NEW status, status = IF ret[1].ok THEN "committed" ELSE "dropped",
           NEW ls, NEW sc, IsEnded(layers, stack, scopes, status, ls, Below, sc)
    PROVE  /\ World(ls, Below, FALSE, sc, calls)
           /\ IsClose(scopes, TopScope(stack), status, sc)
           /\ scopes[TopScope(stack)].parent = TopScope(Below)
           /\ Placed(Top, TopScope(Below), scopes, calls)
           /\ Below # <<>> /\ SameBase(layers, ls)
<1> DEFINE e == ~ret[1].ok
<1>1. World(layers, stack, e, scopes, calls) /\ stack # <<>> /\ e \in BOOLEAN
  BY WithResult
<1>2. status \in {"committed", "dropped"} /\ (status = "dropped" <=> e)
  BY <1>1
<1> HIDE DEF e
<1>3. MayEnd(layers, stack, e, scopes, calls, status, FALSE)
  BY <1>1, <1>2 DEF MayEnd, Top, e
<1>4. HasEnded(layers, stack, scopes, calls, status, FALSE, ls, Below, sc)
  BY <1>3, WorldClose, Zenon
<1>5. Below # <<>>
  BY <1>1, BelowTheTop
<1> QED
  BY <1>4, <1>5, Zenon DEF HasEnded, Top

\* A cache is committed and the next one opened beside it, in one step.
LEMMA SourceCallbackKeeps ==
    ASSUME IInv, SourceCallback
    PROVE  IInv' /\ WrittenAtOnce
<1> DEFINE top == TopScope(stack)
           below == TopScope(Below)
           ls == CommitLayer
           sc == Close(Top.scope, "committed")
           rec == NewScope("callback", scopes[Top.scope].parent, 0, "Never")
           f == Frame("callback", Len(scopes) + 1, Len(calls), ret[1].events, NoData)
<1>1. /\ stack # <<>> /\ Top.role = "ibc_ack" /\ ret # <<>> /\ ret[1].ok
      /\ UNCHANGED <<responses, calls>> /\ ret' = <<>>
      /\ layers' = Append(ls, Storage) /\ scopes' = Append(sc, rec)
      /\ stack' = Append(Below, f)
  BY DEF SourceCallback, Running
<1>2. /\ World(layers, stack, ~ret[1].ok, scopes, calls)
      /\ Answered(scopes, calls) /\ AnswersAreScopes(scopes, calls)
  BY <1>1, WithResult DEF IInv
<1>3. IsEnded(layers, stack, scopes, "committed", ls, Below, sc)
  <2> DEFINE ok == TRUE
             failing == ~ret[1].ok
  <2>1. World(layers, stack, failing, scopes, calls) /\ ok \in BOOLEAN
    BY <1>2
  <2> HIDE DEF failing
  <2>2. IsEnded(layers, stack, scopes, IF ok THEN "committed" ELSE "dropped",
                IF ok THEN CommitLayer ELSE DropLayer, Below,
                Close(Top.scope, IF ok THEN "committed" ELSE "dropped"))
    BY <1>1, <2>1, TopEnds
  <2> QED
    BY <2>2
<1>4. /\ Top.scope = top /\ scopes[top].role = "ibc" /\ scopes[top].replyOn = "Never"
      /\ Len(scopes) \in Nat /\ Len(calls) \in Nat /\ scopes \in Seq(ScopeRecords)
      /\ top \in 1 .. Len(scopes) /\ top # 0
  BY <1>1, <1>2, TopFrame DEF Placed, IbcKinds
<1>5. /\ World(ls, Below, FALSE, sc, calls)
      /\ IsClose(scopes, top, "committed", sc)
      /\ scopes[top].parent = below
      /\ Below # <<>> /\ SameBase(layers, ls)
  <2>1. ~GoesUp(scopes, top, ~ret[1].ok)
    BY <1>1 DEF GoesUp
  <2>2. "committed" = IF ret[1].ok THEN "committed" ELSE "dropped"
    BY <1>1
  <2>3. Top.role \notin {"call", "reply", "multi", "sudo"}
    BY <1>1
  <2> HIDE DEF ls, sc
  <2> QED
    BY <1>1, <1>3, <2>1, <2>2, <2>3, EndsWell, Zenon
<1>6. Len(sc) = Len(scopes) /\ PathTo(sc, below) = PathTo(scopes, below)
      /\ below \in 0 .. Len(scopes) /\ below \in Nat /\ below # 0
  <2>1. Nested(scopes, calls, top, Len(layers))
    BY <1>2 DEF World
  <2>2. below \in 0 .. Len(scopes) /\ below \in Nat /\ Len(sc) = Len(scopes)
    BY <1>4, <1>5, <2>1 DEF Nested, IsClose
  <2>3. PathTo(sc, below) = PathTo(scopes, below)
    BY <1>5, <2>2 DEF IsClose, PathTo
  <2>4. below # 0
    BY <1>2, <1>1, <1>5, BelowTheTop
  <2> QED
    BY <2>2, <2>3, <2>4
<1>7. IsNewScope(rec, sc, "callback", below, 0, "Never")
  <2>1. IsNewScope(rec, scopes, "callback", below, 0, "Never")
    BY <1>4, <1>5, <1>6, NewScopeIs DEF ReplyOns
  <2> HIDE DEF rec, sc
  <2> QED
    BY <1>6, <2>1 DEF IsNewScope
<1>8. IsFrame(f, Len(calls), Len(sc) + 1, "callback", Len(sc) + 1, Len(calls))
  <2>1. ret[1].events \in Seq(1 .. Len(calls)) /\ "callback" \in Roles
    BY <1>1, Typed DEF Roles
  <2>2. /\ Len(scopes) + 1 \in Nat /\ Len(scopes) + 1 \in 1 .. Len(scopes) + 1
        /\ Len(calls) \in 0 .. Len(calls)
    BY <1>4
  <2>3. IsFrame(f, Len(calls), Len(scopes) + 1, "callback", Len(scopes) + 1, Len(calls))
    BY <1>4, <2>1, <2>2, NewFrame, Zenon
  <2> QED
    BY <1>6, <2>3
<1>9. ls[Len(ls)] = Storage
  <2>1. IsSeq(layers)
    BY <1>2 DEF World
  <2>2. Len(layers) > 1
    <3> DEFINE n == Len(layers)
    <3>1. n \in Nat \ {0, 1}
      BY <1>1, <1>2, Lengths
    <3> HIDE DEF n
    <3>2. n > 1
      BY <3>1
    <3> QED
      BY <3>2 DEF n
  <2>3. IsCommit(layers, ls)
    BY <2>1, <2>2, Committed DEF CommitLayer, Storage
  <2> HIDE DEF ls
  <2> QED
    BY <2>3 DEF IsCommit, Storage
<1>10. IsOpened(ls, Below, sc, rec, f, layers', stack', scopes')
  <2> HIDE DEF ls, sc, rec, f
  <2> QED
    BY <1>1, <1>9 DEF IsOpened
<1>11. Answered(sc, calls) /\ AnswersAreScopes(sc, calls)
  <2>1. ~Awaited(sc, top)
    BY <1>4, <1>5 DEF Awaited, IsClose
  <2>2. Nested(scopes, calls, top, Len(layers))
    BY <1>2 DEF World
  <2> HIDE DEF sc, top
  <2> QED
    BY <1>2, <1>4, <1>5, <2>1, <2>2, AnsweredClose
<1> HIDE DEF ls, sc, rec, f, top
<1>12. FitsScope(f, rec, below, calls)
  BY <1>6, <1>7, <1>8 DEF FitsScope, IsNewScope, IsFrame, IbcKinds
<1> HIDE DEF below
<1>13. /\ World(layers', stack', FALSE, scopes', calls)
       /\ Answered(scopes', calls) /\ AnswersAreScopes(scopes', calls)
       /\ SameBase(ls, layers')
       /\ stack' # <<>>
  <2>1. "callback" # "submsg"
    OBVIOUS
  <2> QED
    BY <1>5, <1>7, <1>8, <1>10, <1>11, <1>12, <2>1, OpenStep DEF below
<1>14. Failing' = FALSE
  BY <1>1 DEF Failing
<1>15. ResultsTyped'
  BY <1>1, NoResult, ResultsStayTyped
<1>16. SameBase(layers, layers')
  BY <1>5, <1>13 DEF SameBase
<1>17. World(layers', stack', Failing', scopes', calls')
  BY <1>1, <1>13, <1>14, Zenon
<1> QED
  BY <1>1, <1>13, <1>15, <1>16, <1>17, StepEnds

\* The scope of a submessage ends and its reply runs where the issuer runs.
LEMMA SubMsgWithReplyKeeps ==
    ASSUME IInv, NEW outcome, SubMsgWithReply(outcome)
    PROVE  IInv' /\ WrittenAtOnce
<1> DEFINE ok == ret[1].ok
           status == IF ok THEN "committed" ELSE "dropped"
           top == TopScope(stack)
           below == TopScope(Below)
           issuer == calls[Top.call]
           kept == IF ok THEN CommitLayer ELSE DropLayer
           sc == Close(Top.scope, status)
           f == Frame("reply", issuer.scope, Top.call, ret[1].events, NoData)
           rec == CallRecord(issuer.scope, issuer.root, "reply", outcome, Top.scope, ret[1])
<1>1. /\ stack # <<>> /\ Top.role = "sub" /\ ret # <<>>
      /\ RepliesTo(scopes[Top.scope].replyOn, ok)
      /\ UNCHANGED responses /\ scopes' = sc
      /\ Call(kept, Append(Below, f), issuer.scope, Len(calls) + 1, "reply", outcome)
      /\ calls' = Append(calls, rec)
  BY DEF SubMsgWithReply, Running
<1>2. /\ World(layers, stack, ~ok, scopes, calls) /\ ok \in BOOLEAN
      /\ Answered(scopes, calls) /\ AnswersAreScopes(scopes, calls)
  BY <1>1, WithResult DEF IInv
<1>3. /\ Top.scope = top /\ Len(scopes) \in Nat /\ Len(calls) \in Nat
      /\ top \in 1 .. Len(scopes) /\ top # 0
  BY <1>1, <1>2, TopFrame
<1>4. IsEnded(layers, stack, scopes, status, kept, Below, sc)
  BY <1>1, <1>2, TopEnds, Zenon
<1>5. /\ World(kept, Below, FALSE, sc, calls)
      /\ IsClose(scopes, top, status, sc)
      /\ scopes[top].parent = below
      /\ Placed(Top, below, scopes, calls)
      /\ Below # <<>> /\ SameBase(layers, kept)
  <2>1. ~GoesUp(scopes, top, ~ok)
    BY <1>1, <1>2, <1>3 DEF GoesUp, RepliesTo
  <2>2. Top.role \notin {"call", "reply", "multi", "sudo"}
    BY <1>1
  <2>3. status = IF ret[1].ok THEN "committed" ELSE "dropped"
    OBVIOUS
  <2> HIDE DEF kept, sc, status
  <2> QED
    BY <1>1, <1>4, <2>1, <2>2, <2>3, EndsWell, Zenon
<1>6. /\ scopes[top].role = "submsg" /\ scopes[top].by = Top.call
      /\ Top.call \in 1 .. Len(calls) /\ issuer.scope = below
  BY <1>1, <1>3, <1>5 DEF Placed
<1>7. /\ Len(sc) = Len(scopes) /\ sc[top].role = "submsg" /\ sc[top].status = status
      /\ sc[top].replyOn = scopes[top].replyOn /\ sc[top].by = Top.call
      /\ status \in {"committed", "dropped"} /\ (ok <=> status = "committed")
  BY <1>2, <1>3, <1>5, <1>6 DEF IsClose
<1>8. IsFrame(f, Len(calls), Len(sc), "reply", below, Top.call)
  <2>1. ret[1].events \in Seq(1 .. Len(calls)) /\ "reply" \in Roles
    BY <1>1, Typed DEF Roles
  <2>2. Len(sc) \in Nat /\ Top.call \in 0 .. Len(calls)
    BY <1>3, <1>6, <1>7
  <2>3. below \in 1 .. Len(sc)
    BY <1>5, TopIsPlaced DEF World
  <2> QED
    BY <1>3, <1>6, <2>1, <2>2, <2>3, NewFrame, Zenon
<1>9. rec.scope = below /\ rec.answers = top /\ rec.got = ret[1] /\ rec.kind = "reply"
      /\ rec.outcome = outcome
  BY <1>3, <1>6 DEF CallRecord
<1>10. Awaited(sc, top)
  BY <1>1, <1>2, <1>3, <1>7 DEF Awaited, RepliesTo
<1> HIDE DEF ok, status, kept, sc, f, rec
<1>11. below # 0
  BY <1>1, <1>2, <1>5, BelowTheTop
<1>12. /\ World(kept, Append(Below, f), FALSE, sc, calls)
       /\ Append(Below, f) # <<>> /\ TopScope(Append(Below, f)) = below
  <2>1. Placed(f, below, sc, calls)
    BY <1>8, <1>11 DEF Placed, IsFrame, IbcKinds
  <2>2. f \in FramesOf(Len(calls), Len(sc)) /\ f.scope = below
    BY <1>8 DEF IsFrame
  <2> QED
    BY <1>5, <2>1, <2>2, WorldPush
<1> DEFINE rest == Append(Below, f)
<1>13. /\ Call(kept, rest, TopScope(rest), Len(calls) + 1, rec.kind, rec.outcome)
       /\ rec.scope = TopScope(rest)
  BY <1>1, <1>6, <1>9, <1>12
<1> HIDE DEF rest
<1>14. /\ World(layers', stack', Failing', sc, calls')
       /\ IsAppend(Range(calls) \cup {rec}, calls, rec, calls')
       /\ SameBase(kept, layers')
       /\ ret' \in Seq(ResultsOf(Len(calls'))) /\ Len(ret') <= 1
       /\ stack' # <<>>
  BY <1>1, <1>12, <1>13, CallStep DEF rest
<1>15. Answered(sc, calls') /\ AnswersAreScopes(sc, calls')
  <2>1. Nested(scopes, calls, top, Len(layers))
    BY <1>2 DEF World
  <2>2. rec.scope = calls[scopes[top].by].scope /\ (rec.got.ok <=> status = "committed")
    BY <1>6, <1>7, <1>9 DEF ok
  <2> HIDE DEF top
  <2> QED
    BY <1>2, <1>3, <1>5, <1>7, <1>9, <1>10, <1>14, <2>1, <2>2, AnsweredReply
<1>16. responses' \in Seq(ResultsOf(Len(calls')))
  BY <1>1, <1>14, CallKeepsResponses
<1>17. ResultsTyped'
  BY <1>14, <1>16 DEF ResultsTyped
<1>18. SameBase(layers, layers')
  BY <1>5, <1>14 DEF SameBase
<1> QED
  BY <1>1, <1>14, <1>15, <1>17, <1>18, StepEnds

-----------------------------------------------------------------------------
(* The invariant *)

\* The App before the first transaction.
LEMMA Initially ==
    ASSUME Init
    PROVE  IInv
<1>1. /\ layers = <<{}>> /\ stack = <<>> /\ ret = <<>> /\ responses = <<>>
      /\ calls = <<>> /\ scopes = <<>>
  BY DEF Init
<1>2. /\ Len(layers) = 1 /\ Len(scopes) = 0 /\ Len(calls) = 0 /\ Len(stack) = 0
      /\ layers[1] = {}
  BY <1>1
<1>3. TopScope(stack) = 0 /\ PathTo(scopes, 0) = {}
  BY <1>2 DEF TopScope, ScopeAt, PathTo
<1>4. IsSeq(layers)
  <2>1. layers \in Seq({{}})
    BY <1>1
  <2> QED
    BY <2>1, SeqOfRange DEF IsSeq
<1>5. Nested(scopes, calls, 0, 1)
  <2>1. Cardinality({}) = 0
    BY FS_EmptySet
  <2>2. scopes \in Seq(ScopeRecords) /\ calls \in Seq(Range(calls))
    BY <1>1, EmptySeq
  <2>3. /\ 1 .. Len(scopes) = {} /\ 1 .. Len(calls) = {}
        /\ 0 \in 0 .. Len(scopes) /\ 1 = Cardinality(PathTo(scopes, 0)) + 1
    <3>1. 1 .. 0 = {} /\ 0 \in 0 .. 0
      OBVIOUS
    <3>2. 0 = Cardinality(PathTo(scopes, 0))
      BY <1>3, <2>1, Zenon
    <3> DEFINE p == Cardinality(PathTo(scopes, 0))
    <3>3. 1 = p + 1
      <4> HIDE DEF p
      <4>1. p = 0
        BY <3>2 DEF p
      <4> QED
        BY <4>1
    <3> QED
      BY <1>2, <3>1, <3>3, Zenon
  <2> QED
    BY <2>2, <2>3, Zenon DEF Nested
<1>6. Frames(stack, scopes, calls)
  <2>1. stack \in Seq(FramesOf(Len(calls), Len(scopes)))
    BY <1>1, EmptySeq
  <2> QED
    BY <1>2, <2>1 DEF Frames
<1>7. Held(layers, scopes, calls) /\ Broken(scopes, calls, 0, Failing)
  BY <1>2 DEF Held, Broken
<1>8. World(layers, stack, Failing, scopes, calls)
  BY <1>2, <1>3, <1>4, <1>5, <1>6, <1>7 DEF World
<1>9. Answered(scopes, calls) /\ AnswersAreScopes(scopes, calls)
  BY <1>2 DEF Answered, AnswersAreScopes
<1>10. ResultsTyped
  BY <1>1, NoResult DEF ResultsTyped
<1> QED
  BY <1>8, <1>9, <1>10 DEF IInv

\* No step breaks the invariant, or writes to the backing storage in between.
LEMMA Steps ==
    ASSUME IInv, [Next]_vars
    PROVE  IInv' /\ WrittenAtOnce
<1>1. ASSUME NEW entry \in {"multi", "sudo"}, Start(entry)
      PROVE  IInv' /\ WrittenAtOnce
  BY <1>1, StartKeeps
<1>2. ASSUME NEW kind \in Kinds, NEW outcome \in Outcomes(kind), Dispatch(kind, outcome)
      PROVE  IInv' /\ WrittenAtOnce
  BY <1>2, DispatchKeeps
<1>3. ASSUME NEW kind \in Kinds, IbcEnter(kind)
      PROVE  IInv' /\ WrittenAtOnce
  BY <1>3, IbcEnterKeeps
<1>4. ASSUME NEW outcome \in Outcomes(Top.role), IbcCall(outcome)
      PROVE  IInv' /\ WrittenAtOnce
  BY <1>4, IbcCallKeeps
<1>5. ASSUME NEW replyOn \in ReplyOns, IssueSubMsg(replyOn)
      PROVE  IInv' /\ WrittenAtOnce
  BY <1>5, IssueSubMsgKeeps
<1>6. ASSUME NEW outcome \in Outcomes("reply"), SubMsgWithReply(outcome)
      PROVE  IInv' /\ WrittenAtOnce
  BY <1>6, SubMsgWithReplyKeeps
<1>7. CASE UNCHANGED vars
  <2>1. UNCHANGED <<layers, stack, ret, responses, calls, scopes>>
    BY <1>7 DEF vars
  <2>2. Failing' = Failing
    BY <2>1 DEF Failing
  <2> DEFINE e == Failing
             e2 == Failing'
  <2>3. World(layers, stack, e, scopes, calls) /\ Answered(scopes, calls)
        /\ AnswersAreScopes(scopes, calls) /\ ResultsTyped
    BY DEF IInv
  <2>4. e2 = e
    BY <2>2
  <2> HIDE DEF e, e2
  <2>5. World(layers', stack', e2, scopes', calls') /\ Answered(scopes', calls')
        /\ AnswersAreScopes(scopes', calls')
    BY <2>1, <2>3, <2>4
  <2>6. ResultsTyped' /\ SameBase(layers, layers')
    BY <2>1, <2>3 DEF ResultsTyped, SameBase
  <2> QED
    BY <2>5, <2>6, StepEnds DEF e2
<1> QED
  BY <1>1, <1>2, <1>3, <1>4, <1>5, <1>6, <1>7, IbcReturnsKeeps, SourceCallbackKeeps,
     CallbackReturnsKeeps, SubMsgWithoutReplyKeeps, ReplyReturnsKeeps, FoldKeeps,
     CallReturnsKeeps, CollectResponseKeeps, FailKeeps, FinishKeeps
     DEF Next

\* The invariant holds in all states: the layers, the stack and the scopes of all
\* functions that run agree with each other, however deep App::execute recurses.
THEOREM Invariance == Spec => []IInv
<1>1. IInv /\ [Next]_vars => IInv'
  BY Steps
<1> QED
  BY <1>1, Initially, PTL DEF Spec

\* execute_multi, wasm_sudo and sudo: the backing storage is written by the step
\* that ends the transaction, and by no message, submessage or reply before it.
THEOREM StorageWrittenOnce == Spec => StorageIsWrittenAtOnce
<1>1. IInv /\ [Next]_vars => [layers'[1] # layers[1] => stack' = <<>> /\ Len(layers') = 1]_vars
  BY Steps DEF WrittenAtOnce
<1> QED
  BY <1>1, Invariance, PTL DEF Spec, StorageIsWrittenAtOnce

\* The state of execute_multi and execute_submsg keeps its types; each scope that
\* is open has one layer of storage, which holds effects of calls that were made.
THEOREM TypeCorrect == Spec => []TypeOK
<1>1. ASSUME IInv PROVE TypeOK
  <2> DEFINE top == TopScope(stack)
             writes == (1 .. Len(calls)) \X {"prepared", "state"}
             f == Failing
  <2>1. World(layers, stack, f, scopes, calls) /\ ResultsTyped
    BY <1>1 DEF IInv
  <2> HIDE DEF f
  <2>2. /\ IsSeq(layers) /\ Frames(stack, scopes, calls)
        /\ Nested(scopes, calls, top, Len(layers)) /\ Held(layers, scopes, calls)
    BY <2>1 DEF World
  <2>3. layers \in Seq(SUBSET writes)
    <3>1. ASSUME NEW n \in 1 .. Len(layers)
          PROVE  layers[n] \in SUBSET writes
      <4>1. ASSUME NEW x \in layers[n]
            PROVE  x \in writes
        <5>1. PICK c \in 1 .. Len(calls) : x \in Effects(c, calls[c].kind, calls[c].outcome)
          BY <2>2 DEF Held
        <5> QED
          BY <5>1 DEF Effects, Preparation, ContractWrites
      <4> QED
        BY <4>1
    <3> HIDE DEF writes
    <3>2. layers \in Seq(Range(layers)) /\ Len(layers) \in Nat /\ DOMAIN layers = 1 .. Len(layers)
      BY <2>2, LenProperties DEF IsSeq
    <3>3. Range(layers) \subseteq SUBSET writes
      BY <3>1, <3>2 DEF Range
    <3> QED
      BY <3>2, <3>3, SeqMonotonic
  <2>4. Len(layers) = 1 + Cardinality({s \in DOMAIN scopes : scopes[s].status = "open"})
    <3> DEFINE open == {s \in DOMAIN scopes : scopes[s].status = "open"}
    <3>1. scopes \in Seq(ScopeRecords) /\ DOMAIN scopes = 1 .. Len(scopes)
      BY <2>2, LenProperties DEF Nested
    <3>2. open = PathTo(scopes, top)
      <4>1. PathTo(scopes, top) \subseteq 1 .. Len(scopes)
        BY <2>2 DEF Nested, PathTo
      <4> QED
        BY <2>2, <3>1, <4>1 DEF Nested
    <3>3. Cardinality(PathTo(scopes, top)) \in Nat
      BY <2>2, PathsAreFinite
    <3> HIDE DEF open, top
    <3>4. Len(layers) = Cardinality(PathTo(scopes, top)) + 1
      BY <2>2 DEF Nested
    <3>5. Len(layers) = 1 + Cardinality(PathTo(scopes, top))
      BY <3>3, <3>4
    <3> QED
      BY <3>2, <3>5, Zenon DEF open
  <2>5. stack \in Seq(FramesOf(Len(calls), Len(scopes))) /\ DOMAIN scopes = 1 .. Len(scopes)
    BY <2>2, LenProperties DEF Frames, Nested
  <2> HIDE DEF writes
  <2> QED
    BY <2>1, <2>3, <2>4, <2>5
       DEF TypeOK, ResultsTyped, FramesOf, Roles, ResultsOf, Results, DataValues, writes
<1> QED
  BY <1>1, Invariance, PTL

\* transactional in execute_multi, execute_submsg and the IBC module: each layer of
\* storage holds the effects of the calls that no failure around them took back,
\* whatever is nested in what, and nothing else.
THEOREM SurvivorsHeld == Spec => []LayersHoldSurvivors
<1>1. ASSUME IInv PROVE LayersHoldSurvivors
  <2> DEFINE f == Failing
  <2>1. World(layers, stack, f, scopes, calls)
    BY <1>1 DEF IInv
  <2> HIDE DEF f
  <2>2. /\ Held(layers, scopes, calls)
        /\ DOMAIN layers = 1 .. Len(layers) /\ DOMAIN calls = 1 .. Len(calls)
    BY <2>1, LenProperties DEF World, Nested, IsSeq
  <2>3. ASSUME NEW n \in DOMAIN layers
        PROVE  layers[n] = UNION {EffectsOf(c) : c \in {d \in DOMAIN calls :
                   Survives(d) /\ Cardinality(OpenAround(d)) < n}}
    <3>1. ASSUME NEW d
          PROVE  /\ Survives(d) <=> Kept(scopes, calls[d].scope)
                 /\ OpenAround(d) = OpenOn(scopes, calls[d].scope)
      BY DEF Survives, Dropped, Kept, OpenAround, OpenOn
    <3>2. ASSUME NEW x
          PROVE  x \in layers[n] <=> \E c \in DOMAIN calls :
                     /\ Survives(c) /\ Cardinality(OpenAround(c)) < n
                     /\ x \in EffectsOf(c)
      BY <2>2, <3>1 DEF Held, EffectsOf
    <3> QED
      BY <3>2
  <2> QED
    BY <2>3 DEF LayersHoldSurvivors
<1> QED
  BY <1>1, Invariance, PTL

\* `?` in process_response and execute_multi: an error that no reply handles takes
\* back all that is around it, and nothing is taken back without such an error; those
\* of source callbacks are ignored.
THEOREM ErrorsHandledOrPropagated == Spec => []ErrorsAreHandledOrPropagate
<1>1. ASSUME IInv PROVE ErrorsAreHandledOrPropagate
  <2> DEFINE f == Failing
  <2>1. World(layers, stack, f, scopes, calls)
    BY <1>1 DEF IInv
  <2> HIDE DEF f
  <2>2. /\ Broken(scopes, calls, TopScope(stack), f)
        /\ DOMAIN scopes = 1 .. Len(scopes) /\ DOMAIN calls = 1 .. Len(calls)
    BY <2>1, LenProperties DEF World, Nested
  <2>3. ASSUME NEW s \in DOMAIN scopes
        PROVE  Breaks(s) <=> BreaksIn(scopes, calls, s)
    BY <2>2 DEF Breaks, BreaksIn, Succeeded
  <2> QED
    BY <2>2, <2>3 DEF ErrorsAreHandledOrPropagate, Broken, Breaks
<1> QED
  BY <1>1, Invariance, PTL

\* execute_submsg: a submessage that has ended has been replied to once if ReplyOn
\* asks for it, and not at all if not, by its issuer and where that runs.
THEOREM RepliesMatch == Spec => []RepliesMatchReplyOn
<1>1. ASSUME IInv PROVE RepliesMatchReplyOn
  <2> DEFINE f == Failing
  <2>1. World(layers, stack, f, scopes, calls) /\ Answered(scopes, calls)
    BY <1>1 DEF IInv
  <2> HIDE DEF f
  <2>2. /\ DOMAIN scopes = 1 .. Len(scopes) /\ DOMAIN calls = 1 .. Len(calls)
    BY <2>1, LenProperties DEF World, Nested
  <2>3. ASSUME NEW s \in DOMAIN scopes
        PROVE  LET replies == {c \in DOMAIN calls : calls[c].answers = s}
               IN  IF Awaited(scopes, s)
                   THEN /\ Cardinality(replies) = 1
                        /\ \A c \in replies : calls[c].scope = calls[scopes[s].by].scope
                   ELSE replies = {}
    <3> DEFINE replies == {c \in DOMAIN calls : calls[c].answers = s}
    <3>1. CASE Awaited(scopes, s)
      <4>1. PICK r \in 1 .. Len(calls) :
                /\ \A c \in 1 .. Len(calls) : calls[c].answers = s <=> c = r
                /\ calls[r].scope = calls[scopes[s].by].scope
        BY <2>1, <2>2, <3>1 DEF Answered
      <4>2. replies = {r}
        BY <2>2, <4>1
      <4>3. Cardinality({r}) = 1
        BY FS_Singleton
      <4> QED
        BY <3>1, <4>1, <4>2, <4>3
    <3>2. CASE ~Awaited(scopes, s)
      BY <2>1, <2>2, <3>2 DEF Answered
    <3> QED
      BY <3>1, <3>2
  <2>4. ASSUME NEW s \in DOMAIN scopes
        PROVE  Awaited(scopes, s) <=>
                 /\ scopes[s].role = "submsg"
                 /\ \/ scopes[s].status = "committed" /\ scopes[s].replyOn \in {"Always", "Success"}
                    \/ scopes[s].status = "dropped" /\ scopes[s].replyOn \in {"Always", "Error"}
    <3>1. scopes[s] \in ScopeRecords
      BY <2>1, <2>2, ElementOfSeq DEF World, Nested
    <3>2. scopes[s].status \in {"open", "committed", "dropped"}
      BY <3>1 DEF ScopeRecords
    <3> QED
      BY <3>2 DEF Awaited, RepliesTo
  <2> QED
    BY <2>3, <2>4 DEF RepliesMatchReplyOn
<1> QED
  BY <1>1, Invariance, PTL

\* What RepliesAreToldTheTruth says of success and failure.
RepliesKnowTheOutcome ==
    \A r \in DOMAIN calls : calls[r].answers # 0 =>
        (calls[r].got.ok <=> scopes[calls[r].answers].status = "committed")

\* execute_submsg: whatever ran in between, the reply is told that its submessage
\* succeeded exactly when the scope of that was committed.
THEOREM RepliesKnow == Spec => []RepliesKnowTheOutcome
<1>1. ASSUME IInv, NEW r \in DOMAIN calls, calls[r].answers # 0
      PROVE  calls[r].got.ok <=> scopes[calls[r].answers].status = "committed"
  <2> DEFINE f == Failing
             s == calls[r].answers
  <2>1. World(layers, stack, f, scopes, calls)
    BY <1>1 DEF IInv
  <2> HIDE DEF f
  <2>2. Answered(scopes, calls) /\ AnswersAreScopes(scopes, calls)
    BY <1>1 DEF IInv
  <2>3. DOMAIN calls = 1 .. Len(calls) /\ Len(scopes) \in Nat
    BY <2>1, LenProperties DEF World, Nested
  <2>4. s \in 0 .. Len(scopes)
    BY <2>2, <2>3 DEF AnswersAreScopes
  <2>5. s \in 1 .. Len(scopes)
    BY <1>1, <2>3, <2>4
  <2>6. Awaited(scopes, s)
    BY <2>2, <2>3, <2>5 DEF Answered
  <2>7. PICK a \in 1 .. Len(calls) :
            /\ \A c \in 1 .. Len(calls) : calls[c].answers = s <=> c = a
            /\ calls[a].got.ok <=> scopes[s].status = "committed"
    BY <2>2, <2>5, <2>6 DEF Answered
  <2>8. r = a
    BY <2>3, <2>7
  <2> QED
    BY <2>7, <2>8
<1>2. IInv => RepliesKnowTheOutcome
  BY <1>1 DEF RepliesKnowTheOutcome
<1> QED
  BY <1>2, Invariance, PTL
=============================================================================
