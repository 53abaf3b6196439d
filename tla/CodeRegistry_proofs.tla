-------------------------- MODULE CodeRegistry_proofs --------------------------
(***************************************************************************)
(* Proofs about CodeRegistry, for all recipes, accounts, salts and labels,  *)
(* any number of codes and contracts and any depth of messages: contracts   *)
(* have a code and run it, codes do not change, and neither do contracts    *)
(* without an admin.                                                        *)
(***************************************************************************)
EXTENDS CodeRegistry, Sums_proofs, SequenceTheorems

-----------------------------------------------------------------------------
(* The stack *)

\* t is the sequence s with frame on top of it.
IsPush(s, frame, t) ==
    /\ t \in Seq(Range(t))
    /\ t # <<>>
    /\ Len(t) = Len(s) + 1 /\ Len(s) \in Nat
    /\ \A i \in 1 .. Len(s) : t[i] = s[i]
    /\ t[Len(s) + 1] = frame
    /\ s # <<>> => Len(s) > 0

\* t is the sequence s without its top.
IsPop(s, t) ==
    /\ t \in Seq(Range(t))
    /\ Len(t) = Len(s) - 1 /\ Len(s) \in Nat \ {0}
    /\ \A i \in 1 .. Len(t) : t[i] = s[i]
    /\ t = <<>> <=> Len(s) = 1

LEMMA Pushed ==
    ASSUME NEW s, s \in Seq(Range(s)), NEW frame
    PROVE  IsPush(s, frame, Append(s, frame))
<1> DEFINE t == Append(s, frame)
<1> DEFINE S == Range(s) \cup {frame}
<1>1. s \in Seq(S) /\ frame \in S
  BY SeqMonotonic
<1> HIDE DEF S
<1>2. /\ t \in Seq(S) /\ t # <<>> /\ Len(t) = Len(s) + 1
      /\ \A i \in 1 .. Len(s) : t[i] = s[i]
      /\ t[Len(s) + 1] = frame
  BY <1>1, AppendProperties
<1>3. t \in Seq(Range(t))
  BY <1>2, SeqOfRange
<1>4. Len(s) \in Nat /\ (s # <<>> => Len(s) > 0)
  BY <1>1, LenProperties, EmptySeq
<1> QED
  BY <1>2, <1>3, <1>4 DEF IsPush

LEMMA Popped ==
    ASSUME NEW s, s \in Seq(Range(s)), s # <<>>
    PROVE  IsPop(s, SubSeq(s, 1, Len(s) - 1))
<1> DEFINE t == SubSeq(s, 1, Len(s) - 1)
<1> DEFINE S == Range(s)
<1>1. s \in Seq(S)
  OBVIOUS
<1> HIDE DEF S
<1>2. Len(s) \in Nat \ {0} /\ \A i \in 1 .. Len(s) : s[i] \in S
  BY <1>1, EmptySeq, LenProperties
<1>3. /\ t \in Seq(S)
      /\ Len(t) = Len(s) - 1
      /\ \A i \in 1 .. Len(s) - 1 : t[i] = s[i]
  <2> DEFINE n == Len(s) - 1
  <2>1. n \in Nat /\ 1 \in Int /\ n \in Int /\ \A i \in 1 .. n : s[i] \in S
    BY <1>2
  <2>2. t = SubSeq(s, 1, n)
    OBVIOUS
  <2> HIDE DEF n
  <2>3. /\ t \in Seq(S)
        /\ Len(t) = IF 1 <= n THEN n - 1 + 1 ELSE 0
        /\ \A i \in 1 .. n - 1 + 1 : t[i] = s[1 + i - 1]
    BY <2>1, <2>2, SubSeqProperties
  <2>4. Len(t) = n /\ \A i \in 1 .. n : t[i] = s[i]
    BY <2>1, <2>3
  <2> QED
    BY <2>3, <2>4 DEF n
<1>4. t \in Seq(Range(t))
  BY <1>3, SeqOfRange
<1>5. t = <<>> <=> Len(t) = 0
  BY <1>3, EmptySeq
<1>6. IsPop(s, t)
  <2> HIDE DEF t
  <2> QED
    BY <1>2, <1>3, <1>4, <1>5 DEF IsPop
<1> QED
  BY <1>6

-----------------------------------------------------------------------------
(* Wrappers *)

\* A set of bounded numbers has a largest one.
LEMMA MaxOfBounded ==
    ASSUME NEW n \in Nat, NEW S, S \subseteq 0 .. n, S # {}
    PROVE  Max(S) \in S /\ \A i \in S : i <= Max(S)
<1>1. n \in Nat
  OBVIOUS
<1> DEFINE T == {n - i : i \in S}
<1>2. T \subseteq Nat /\ T # {}
  <2>1. \A i \in S : i \in 0 .. n
    OBVIOUS
  <2>2. \A i \in S : n - i \in Nat
    BY <1>1, <2>1
  <2> QED
    BY <2>2
<1> DEFINE Less == {p \in Nat \X Nat : p[1] < p[2]}
<1>3. PICK t \in T : \A u \in T : <<u, t>> \notin Less
  <2>1. Less = OpToRel(<, Nat)
    BY Zenon DEF OpToRel
  <2>2. IsWellFoundedOn(Less, Nat)
    BY <2>1, NatLessThanWellFounded, Zenon
  <2> HIDE DEF T, Less
  <2> QED
    BY <1>2, <2>2, WFMin
<1>4. \A u \in T : t <= u
  <2> TAKE u \in T
  <2>1. t \in Nat /\ u \in Nat /\ <<u, t>> \notin Less
    BY <1>2, <1>3
  <2>2. ~(u < t)
    BY <2>1
  <2> HIDE DEF T, Less
  <2> QED
    BY <2>1, <2>2
<1>5. PICK m \in S : t = n - m
  BY <1>3
<1>6. \A i \in S : m >= i
  <2> TAKE i \in S
  <2>1. n - m <= n - i
    BY <1>4, <1>5
  <2>2. m \in Int /\ i \in Int
    OBVIOUS
  <2> HIDE DEF T, Less
  <2> QED
    BY <1>1, <2>1, <2>2
<1>7. Max(S) \in S /\ \A i \in S : Max(S) >= i
  BY <1>6, Zenon DEF Max
<1> HIDE DEF T, Less
<1>8. \A i \in S : i \in Int
  OBVIOUS
<1> QED
  BY <1>7, <1>8

\* The closure that a call makes of its function.
Closure(call) ==
    IF call.call \in {"new", "with_sudo", "with_reply", "with_migrate", "with_ibc",
                      "with_ibc_source_callback"}
    THEN Plain(call.with) ELSE Customized(call.with)

\* What a call does to a wrapper, whichever it is: the entry points that it provides get
\* its closure, the others are handed over, or are missing at first.
Step(call, fns) ==
    [fns      |-> [e \in EntryPoints |->
                      IF e \in Provides(call.call) THEN Closure(call)
                      ELSE IF call.call \in Constructors THEN None ELSE fns[e]],
     checksum |-> IF call.call = "with_checksum" THEN call.with ELSE None]

LEMMA WithIsStep ==
    ASSUME NEW call \in Calls, NEW fns, fns = [e \in EntryPoints |-> fns[e]], NEW checksum
    PROVE  With([fns |-> fns, checksum |-> checksum], call) = Step(call, fns)
<1> DEFINE w == [fns |-> fns, checksum |-> checksum]
<1>1. CASE call.call = "new"
  BY <1>1 DEF With, New, Only, Step, Provides, Closure, Constructors
<1>2. CASE call.call = "new_with_empty"
  BY <1>2 DEF With, NewWithEmpty, Only, Step, Provides, Closure, Constructors
<1>3. CASE call.call = "with_sudo"
  BY <1>3 DEF With, WithSudo, Step, Provides, Closure, Constructors
<1>4. CASE call.call = "with_sudo_empty"
  BY <1>4 DEF With, WithSudoEmpty, Step, Provides, Closure, Constructors
<1>5. CASE call.call = "with_reply"
  BY <1>5 DEF With, WithReply, Step, Provides, Closure, Constructors
<1>6. CASE call.call = "with_reply_empty"
  BY <1>6 DEF With, WithReplyEmpty, Step, Provides, Closure, Constructors
<1>7. CASE call.call = "with_migrate"
  BY <1>7 DEF With, WithMigrate, Step, Provides, Closure, Constructors
<1>8. CASE call.call = "with_migrate_empty"
  BY <1>8 DEF With, WithMigrateEmpty, Step, Provides, Closure, Constructors
<1>9. CASE call.call = "with_checksum"
  BY <1>9 DEF With, WithChecksum, Step, Provides, Constructors, EntryPoints, WasmEntryPoints,
              IbcEntryPoints
<1>10. CASE call.call = "with_ibc"
  BY <1>10 DEF With, WithIbc, Step, Provides, Closure, Constructors
<1>11. CASE call.call = "with_ibc_source_callback"
  BY <1>11 DEF With, WithIbcSourceCallback, Step, Provides, Closure, Constructors
<1> QED BY <1>1, <1>2, <1>3, <1>4, <1>5, <1>6, <1>7, <1>8, <1>9, <1>10, <1>11
        DEF Calls, Constructors, Methods

\* Of the calls s of a recipe, those that give what.
Giving(recipe, s, what) == {i \in s : what \in Provides(recipe[i].call)}

\* What the calls s of a recipe build, read off the last call for each entry point and
\* the last of all.
FnOf(recipe, s, e) ==
    IF Giving(recipe, s, e) = {} THEN None ELSE Closure(recipe[Max(Giving(recipe, s, e))])
ChecksumIn(recipe, s) ==
    IF s # {} /\ recipe[Max(s)].call = "with_checksum" THEN recipe[Max(s)].with ELSE None
BuiltFrom(recipe, s) ==
    [fns |-> [e \in EntryPoints |-> FnOf(recipe, s, e)], checksum |-> ChecksumIn(recipe, s)]

\* There is one number that is largest.
LEMMA MaxIs ==
    ASSUME NEW S, S \subseteq Nat, NEW m \in S, \A i \in S : i <= m
    PROVE  Max(S) = m
<1>1. m \in S /\ \A i \in S : m >= i
  OBVIOUS
<1>2. Max(S) \in S /\ \A i \in S : Max(S) >= i
  BY <1>1, Zenon DEF Max
<1> HIDE DEF Max
<1>3. Max(S) >= m /\ m >= Max(S) /\ Max(S) \in Nat /\ m \in Nat
  BY <1>1, <1>2
<1> QED BY <1>3

LEMMA LastCall ==
    ASSUME NEW recipe, IsRecipe(recipe), NEW s \in SUBSET DOMAIN recipe
    PROVE  /\ s \subseteq Nat \ {0}
           /\ IsFiniteSet(s)
           /\ s # {} => Max(s) \in s /\ \A i \in s : i <= Max(s)
<1>1. Len(recipe) \in Nat /\ DOMAIN recipe = 1 .. Len(recipe)
  BY LenProperties DEF IsRecipe
<1>2. s \subseteq 0 .. Len(recipe) /\ s \subseteq Nat \ {0} /\ s \subseteq 1 .. Len(recipe)
  BY <1>1
<1>3. IsFiniteSet(s)
  <2>1. IsFiniteSet(1 .. Len(recipe))
    BY <1>1, FS_Interval
  <2> QED BY <1>2, <2>1, FS_Subset
<1>4. s # {} => Max(s) \in s /\ \A i \in s : i <= Max(s)
  BY <1>1, <1>2, MaxOfBounded
<1> QED BY <1>2, <1>3, <1>4

\* One call more.
LEMMA BuiltStep ==
    ASSUME NEW recipe, IsRecipe(recipe), NEW s \in SUBSET DOMAIN recipe, s # {}
    PROVE  With(BuiltFrom(recipe, s \ {Max(s)}), recipe[Max(s)]) = BuiltFrom(recipe, s)
<1> DEFINE m == Max(s)
           rest == s \ {m}
           fns == [e \in EntryPoints |-> FnOf(recipe, rest, e)]
<1>1. /\ m \in s /\ m \in DOMAIN recipe /\ \A i \in s : i <= m
      /\ s \subseteq Nat \ {0}
  BY LastCall
<1>2. /\ recipe[m] \in Calls
      /\ recipe[m].call \in Constructors <=> m = 1
  BY <1>1, ElementOfSeq, LenProperties DEF IsRecipe
<1>3. With(BuiltFrom(recipe, rest), recipe[m]) = Step(recipe[m], fns)
  <2>1. BuiltFrom(recipe, rest) = [fns |-> fns, checksum |-> ChecksumIn(recipe, rest)]
    BY DEF BuiltFrom
  <2>2. fns = [e \in EntryPoints |-> fns[e]]
    OBVIOUS
  <2> HIDE DEF fns, rest, m
  <2> QED BY <1>2, <2>1, <2>2, WithIsStep
<1> HIDE DEF m
<1>4. ASSUME NEW e \in EntryPoints
      PROVE  FnOf(recipe, s, e) =
                IF e \in Provides(recipe[m].call) THEN Closure(recipe[m])
                ELSE IF recipe[m].call \in Constructors THEN None ELSE FnOf(recipe, rest, e)
  <2>1. CASE e \in Provides(recipe[m].call)
    <3> DEFINE G == Giving(recipe, s, e)
    <3>1. m \in G /\ G \subseteq s
      BY <1>1, <2>1 DEF Giving
    <3>2. G \subseteq Nat /\ \A i \in G : i <= m
      BY <1>1, <3>1
    <3> HIDE DEF G
    <3>3. G # {} /\ Max(G) = m
      BY <3>1, <3>2, MaxIs
    <3> QED BY <2>1, <3>3 DEF FnOf, G
  <2>2. CASE e \notin Provides(recipe[m].call) /\ recipe[m].call \in Constructors
    <3>1. m = 1
      BY <1>2, <2>2
    <3>2. \A i \in s : i = m
      BY <1>1, <3>1
    <3>3. Giving(recipe, s, e) = {}
      BY <2>2, <3>2 DEF Giving
    <3> QED BY <2>2, <3>3 DEF FnOf
  <2>3. CASE e \notin Provides(recipe[m].call) /\ recipe[m].call \notin Constructors
    <3>1. Giving(recipe, s, e) = Giving(recipe, rest, e)
      BY <2>3 DEF Giving
    <3> QED BY <2>3, <3>1 DEF FnOf
  <2> QED BY <2>1, <2>2, <2>3
<1>5. ChecksumIn(recipe, s) = IF recipe[m].call = "with_checksum" THEN recipe[m].with ELSE None
  BY DEF ChecksumIn, m
<1>6. Step(recipe[m], fns) = BuiltFrom(recipe, s)
  BY <1>4, <1>5, Zenon DEF Step, BuiltFrom
<1> QED BY <1>3, <1>6 DEF m

\* g tells what any of the calls of a recipe build: the recursion behind FoldLeft.
Tells(g, recipe) ==
    g = [s \in SUBSET DOMAIN recipe |->
            IF s = {} THEN Nothing ELSE With(g[s \ {Max(s)}], recipe[Max(s)])]

LEMMA BuildIsTold ==
    ASSUME NEW recipe
    PROVE  Build(recipe) = (CHOOSE g : Tells(g, recipe))[DOMAIN recipe]
BY DEF Build, FoldLeft, MapThenFoldSet, Tells

LEMMA NothingIsBuilt ==
    ASSUME NEW recipe
    PROVE  BuiltFrom(recipe, {}) = Nothing
<1>1. \A e : Giving(recipe, {}, e) = {}
  BY DEF Giving
<1>2. \A e : FnOf(recipe, {}, e) = None
  BY <1>1 DEF FnOf
<1>3. ChecksumIn(recipe, {}) = None
  BY DEF ChecksumIn
<1> QED BY <1>2, <1>3, Zenon DEF BuiltFrom, Nothing

\* The builder, one call after the other, gives what the last calls say.
LEMMA BuildIs ==
    ASSUME NEW recipe, IsRecipe(recipe)
    PROVE  Build(recipe) = BuiltFrom(recipe, DOMAIN recipe)
<1> DEFINE D == DOMAIN recipe
           built == [s \in SUBSET D |-> BuiltFrom(recipe, s)]
<1>1. Tells(built, recipe)
  <2>1. ASSUME NEW s \in SUBSET D
        PROVE  BuiltFrom(recipe, s) =
                  IF s = {} THEN Nothing ELSE With(built[s \ {Max(s)}], recipe[Max(s)])
    <3>1. CASE s = {}
      BY <3>1, NothingIsBuilt
    <3>2. CASE s # {}
      <4>1. built[s \ {Max(s)}] = BuiltFrom(recipe, s \ {Max(s)})
        OBVIOUS
      <4> QED BY <3>2, <4>1, BuiltStep
    <3> QED BY <3>1, <3>2
  <2> QED BY <2>1, Zenon DEF Tells
<1> DEFINE g == CHOOSE h : Tells(h, recipe)
<1>2. Tells(g, recipe)
  BY <1>1, Zenon
<1> HIDE DEF g
<1> DEFINE P == {s \in SUBSET D : g[s] = BuiltFrom(recipe, s)}
<1>3. ASSUME NEW s \in SUBSET D, \A U \in SUBSET s : U # s => U \in P
      PROVE  s \in P
  <2>1. CASE s = {}
    <3>1. g[s] = Nothing
      BY <1>2, <2>1 DEF Tells
    <3> QED BY <2>1, <3>1, NothingIsBuilt
  <2>2. CASE s # {}
    <3>1. Max(s) \in s
      BY <2>2, LastCall
    <3>2. s \ {Max(s)} \in P
      BY <1>3, <3>1
    <3>3. g[s] = With(g[s \ {Max(s)}], recipe[Max(s)])
      BY <1>2, <2>2 DEF Tells
    <3>4. g[s] = BuiltFrom(recipe, s)
      BY <2>2, <3>2, <3>3, BuiltStep
    <3> QED BY <3>4
  <2> QED BY <2>1, <2>2
<1>4. IsFiniteSet(D)
  BY LastCall
<1>5. D \in P
  <2>1. \A T \in SUBSET D : T \in P
    <3> HIDE DEF P, D
    <3> QED BY <1>3, <1>4, SubsetInduction
  <2> QED BY <2>1
<1>6. Build(recipe) = g[D]
  BY BuildIsTold DEF g
<1> QED BY <1>5, <1>6

\* Each entry point has a function that was given, or none.
LEMMA FnIsProvided ==
    ASSUME NEW recipe, IsRecipe(recipe), NEW e \in EntryPoints
    PROVE  \/ FnOf(recipe, DOMAIN recipe, e) = None /\ Provided(recipe, e) = None
           \/ /\ FnOf(recipe, DOMAIN recipe, e) \in Closures
              /\ FnOf(recipe, DOMAIN recipe, e).raw_fn = Provided(recipe, e)
              /\ Provided(recipe, e) \in Functions
<1> DEFINE G == Giving(recipe, DOMAIN recipe, e)
<1>1. CASE G = {}
  BY <1>1 DEF FnOf, Provided, Giving
<1>2. CASE G # {}
  <2> DEFINE m == Max(G)
  <2>1. G \in SUBSET DOMAIN recipe
    BY DEF Giving
  <2>2. m \in G /\ m \in DOMAIN recipe /\ \A i \in G : i <= m
    BY <1>2, <2>1, LastCall
  <2>3. G \subseteq Nat
    BY <2>1, LastCall
  <2>4. (CHOOSE i \in G : \A j \in G : j <= i) = m
    <3> DEFINE l == CHOOSE i \in G : \A j \in G : j <= i
    <3>1. l \in G /\ \A j \in G : j <= l
      BY <2>2, Zenon
    <3> HIDE DEF l, m, G
    <3>2. l = m
      BY <2>2, <2>3, <3>1
    <3> QED BY <3>2 DEF l
  <2>5. Provided(recipe, e) = recipe[m].with
    <3>1. G = {i \in DOMAIN recipe : e \in Provides(recipe[i].call)}
      BY DEF Giving
    <3> HIDE DEF G
    <3> QED BY <1>2, <2>4, <3>1, Zenon DEF Provided
  <2>6. FnOf(recipe, DOMAIN recipe, e) = Closure(recipe[m])
    BY <1>2 DEF FnOf
  <2>7. recipe[m] \in Calls /\ e \in Provides(recipe[m].call)
    BY <2>2, ElementOfSeq, LenProperties DEF IsRecipe, Giving
  <2> HIDE DEF m
  <2>8. recipe[m].call # "with_checksum"
    BY <2>7 DEF Provides, EntryPoints, WasmEntryPoints, IbcEntryPoints
  <2>9. recipe[m].with \in Functions
    BY <2>7, <2>8 DEF Calls
  <2>10. Closure(recipe[m]) \in Closures /\ Closure(recipe[m]).raw_fn = recipe[m].with
    BY <2>9 DEF Closure, Closures, Plain, Customized
  <2> QED BY <2>5, <2>6, <2>9, <2>10
<1> QED BY <1>1, <1>2

\* What the functions of a wrapper's entry point run: one of them, or none.
Runs(wrapper, e) ==
    {closure.raw_fn : closure \in IF Implements(wrapper, e) THEN {wrapper.fns[e]} ELSE {}}

LEMMA RunsWhatItHas ==
    ASSUME NEW wrapper, NEW e, NEW given,
           \/ wrapper.fns[e] = None /\ given = None
           \/ /\ wrapper.fns[e] \in Closures
              /\ wrapper.fns[e].raw_fn = given
              /\ given \in Functions
    PROVE  Runs(wrapper, e) = {given} \ {None}
<1>1. CASE wrapper.fns[e] = None /\ given = None
  <2>1. ~Implements(wrapper, e)
    BY <1>1 DEF Implements
  <2>2. Runs(wrapper, e) = {}
    BY <2>1 DEF Runs
  <2> QED BY <1>1, <2>2
<1>2. CASE wrapper.fns[e] \in Closures /\ wrapper.fns[e].raw_fn = given /\ given \in Functions
  <2>1. Implements(wrapper, e) /\ given # None
    BY <1>2, NoneAssumption DEF Implements
  <2>2. Runs(wrapper, e) = {given}
    BY <1>2, <2>1 DEF Runs
  <2> QED BY <2>1, <2>2
<1> QED BY <1>1, <1>2

\* What a recipe builds is a wrapper, and runs what the recipe provides.
LEMMA BuildIsWrapper ==
    ASSUME NEW recipe, IsRecipe(recipe)
    PROVE  /\ Build(recipe) \in Wrappers
           /\ \A e \in EntryPoints : Runs(Build(recipe), e) = {Provided(recipe, e)} \ {None}
<1> DEFINE D == DOMAIN recipe
<1>1. Build(recipe) = BuiltFrom(recipe, D)
  BY BuildIs
<1>2. \A e \in EntryPoints : FnOf(recipe, D, e) \in Closures \cup {None}
  BY FnIsProvided
<1>3. ChecksumIn(recipe, D) \in Checksums \cup {None}
  <2>1. CASE D # {} /\ recipe[Max(D)].call = "with_checksum"
    <3>1. Max(D) \in D
      BY <2>1, LastCall
    <3>2. recipe[Max(D)] \in Calls
      BY <3>1, ElementOfSeq, LenProperties DEF IsRecipe
    <3>3. recipe[Max(D)].with \in Checksums
      BY <2>1, <3>2 DEF Calls, Constructors, Methods
    <3> QED BY <2>1, <3>3 DEF ChecksumIn
  <2> QED BY <2>1 DEF ChecksumIn
<1>4. BuiltFrom(recipe, D) \in Wrappers
  <2>1. [e \in EntryPoints |-> FnOf(recipe, D, e)] \in [EntryPoints -> Closures \cup {None}]
    BY <1>2
  <2> QED BY <1>3, <2>1 DEF BuiltFrom, Wrappers
<1>5. ASSUME NEW e \in EntryPoints
      PROVE  Runs(Build(recipe), e) = {Provided(recipe, e)} \ {None}
  <2>1. Build(recipe).fns[e] = FnOf(recipe, D, e)
    BY <1>1 DEF BuiltFrom
  <2> QED BY <2>1, FnIsProvided, RunsWhatItHas
<1> QED BY <1>1, <1>4, <1>5

-----------------------------------------------------------------------------
(* Contracts *)

HasFields(contracts) ==
    \A a \in DOMAIN contracts : {"code_id", "admin"} \subseteq DOMAIN contracts[a]

HasCode(contracts, codes) == \A a \in DOMAIN contracts : contracts[a].code_id \in codes

\* The contracts without an admin are the same in both.
Keeps(old, new) ==
    \A a \in DOMAIN old : old[a].admin = None => a \in DOMAIN new /\ new[a] = old[a]

\* A contract that called another has a code, and so had all contracts before each
\* message; only the one that was called last may lack it, and then cannot run.
CallersRun == \A i \in 1 .. Len(stack) - 1 : stack[i].fn # {}

ContractsInv ==
    /\ stack \in Seq(Range(stack))
    /\ CallersRun
    /\ HasFields(CONTRACTS)
    /\ stack = <<>> \/ Top.fn # {} => HasCode(CONTRACTS, DOMAIN code_data)
    /\ Keeps(Settled, CONTRACTS)
    /\ \A i \in 1 .. Len(stack) :
          /\ HasFields(stack[i].before)
          /\ HasCode(stack[i].before, DOMAIN code_data)
          /\ Keeps(Settled, stack[i].before)

LEMMA CallStep ==
    ASSUME ContractsInv, stack = <<>> \/ Top.fn # {},
           NEW contract, NEW entry, NEW contracts, Call(contract, entry, contracts),
           HasFields(contracts), Keeps(CONTRACTS, contracts),
           \A a \in DOMAIN contracts \ {contract} : Registered(contracts[a].code_id)
    PROVE  ContractsInv' /\ Settled' = Settled
<1> DEFINE frame == Frame(contract, entry, contracts)
<1>1. /\ CONTRACTS' = contracts
      /\ stack' = Append(stack, frame)
      /\ code_data' = code_data
  BY DEF Call, codeVars
<1>2. frame.before = CONTRACTS /\ frame.fn = ContractCode(contracts[contract].code_id, entry)
  BY DEF Frame
<1> HIDE DEF frame
<1>3. /\ stack' \in Seq(Range(stack'))
      /\ stack' # <<>>
      /\ Len(stack') = Len(stack) + 1 /\ Len(stack) \in Nat
      /\ \A i \in 1 .. Len(stack) : stack'[i] = stack[i]
      /\ stack'[Len(stack) + 1] = frame
      /\ stack # <<>> => Len(stack) > 0
  <2>1. stack \in Seq(Range(stack))
    BY DEF ContractsInv
  <2>2. IsPush(stack, frame, Append(stack, frame))
    BY <2>1, Pushed, Zenon
  <2> QED
    BY <2>2, <1>1 DEF IsPush
<1>4. Settled' = Settled
  <2>1. CASE stack = <<>>
    <3>1. Len(stack) = 0
      BY <2>1, EmptySeq
    <3> QED
      BY <2>1, <3>1, <1>2, <1>3 DEF Settled
  <2>2. CASE stack # <<>>
    BY <2>2, <1>3 DEF Settled
  <2> QED
    BY <2>1, <2>2
<1>5. Keeps(Settled, contracts)
  BY DEF ContractsInv, Keeps
<1>6. CallersRun'
  <2> SUFFICES ASSUME NEW i \in 1 .. Len(stack)
               PROVE  stack[i].fn # {}
    BY <1>3 DEF CallersRun
  <2>1. CASE i = Len(stack)
    BY <2>1, <1>3, EmptySeq DEF Top
  <2>2. CASE i # Len(stack)
    BY <2>2, <1>3 DEF ContractsInv, CallersRun
  <2> QED
    BY <2>1, <2>2
<1>7. HasCode(CONTRACTS, DOMAIN code_data)
  BY DEF ContractsInv
<1>8. Top' = frame
  BY <1>3 DEF Top
<1>9. Top'.fn # {} => HasCode(contracts, DOMAIN code_data)
  BY <1>2, <1>8 DEF HasCode, Registered, ContractCode
<1>10. \A i \in 1 .. Len(stack') : /\ HasFields(stack'[i].before)
                                   /\ HasCode(stack'[i].before, DOMAIN code_data)
                                   /\ Keeps(Settled, stack'[i].before)
  <2> TAKE i \in 1 .. Len(stack')
  <2>1. CASE i = Len(stack) + 1
    BY <2>1, <1>2, <1>3, <1>7 DEF ContractsInv
  <2>2. CASE i # Len(stack) + 1
    <3>1. i \in 1 .. Len(stack) /\ stack'[i] = stack[i]
      BY <2>2, <1>3
    <3> QED
      BY <3>1 DEF ContractsInv
  <2> QED
    BY <2>1, <2>2
<1> QED
  BY <1>1, <1>3, <1>4, <1>5, <1>6, <1>8, <1>9, <1>10 DEF ContractsInv

LEMMA Sent ==
    ASSUME NEW sender, CanSend(sender)
    PROVE  stack = <<>> \/ Top.fn # {}
BY DEF CanSend

\* What was there when the message from outside was sent has a code.
LEMMA SettledHaveCode ==
    ASSUME ContractsInv
    PROVE  HasCode(Settled, DOMAIN code_data)
<1>1. CASE stack = <<>>
  BY <1>1 DEF ContractsInv, Settled
<1>2. CASE stack # <<>>
  <2>1. stack \in Seq(Range(stack))
    BY DEF ContractsInv
  <2>2. IsPop(stack, SubSeq(stack, 1, Len(stack) - 1))
    BY <1>2, <2>1, Popped, Zenon
  <2>3. 1 \in 1 .. Len(stack)
    BY <2>2 DEF IsPop
  <2> QED
    BY <1>2, <2>3 DEF ContractsInv, Settled
<1> QED
  BY <1>1, <1>2

\* Messages that change no contract before they call one.
LEMMA PlainCallStep ==
    ASSUME ContractsInv, stack = <<>> \/ Top.fn # {},
           NEW contract, NEW entry, Call(contract, entry, CONTRACTS)
    PROVE  ContractsInv' /\ Settled' = Settled
<1>1. HasFields(CONTRACTS)
  BY DEF ContractsInv
<1>2. Keeps(CONTRACTS, CONTRACTS)
  BY DEF Keeps
<1>3. \A a \in DOMAIN CONTRACTS \ {contract} : Registered(CONTRACTS[a].code_id)
  BY DEF ContractsInv, HasCode, Registered
<1> QED
  BY <1>1, <1>2, <1>3, CallStep

LEMMA InstantiateStep ==
    ASSUME ContractsInv, NEW sender, NEW code_id, NEW admin, NEW label, NEW salt,
           Instantiate(sender, code_id, admin, label, salt)
    PROVE  ContractsInv' /\ Settled' = Settled
<1> DEFINE address == Address(sender, code_id, salt)
           data == [code_id |-> code_id, creator |-> sender, admin |-> admin, label |-> label]
           contracts == Put(CONTRACTS, address, data)
<1>1. /\ CanSend(sender)
      /\ address \notin DOMAIN CONTRACTS
      /\ Call(address, "instantiate", contracts)
  BY DEF Instantiate, RegisterContract, NewAddress
<1>2. {"code_id", "admin"} \subseteq DOMAIN data
  OBVIOUS
<1> HIDE DEF address, data
<1>3. stack = <<>> \/ Top.fn # {}
  BY <1>1, Sent
<1>4. /\ DOMAIN contracts = DOMAIN CONTRACTS \cup {address}
      /\ contracts[address] = data
      /\ \A a \in DOMAIN CONTRACTS : contracts[a] = CONTRACTS[a]
  BY <1>1 DEF Put
<1> HIDE DEF contracts
<1>5. HasFields(contracts)
  BY <1>2, <1>4 DEF ContractsInv, HasFields
<1>6. Keeps(CONTRACTS, contracts)
  BY <1>4 DEF Keeps
<1>7. \A a \in DOMAIN contracts \ {address} : Registered(contracts[a].code_id)
  BY <1>3, <1>4 DEF ContractsInv, HasCode, Registered
<1> QED
  BY <1>1, <1>3, <1>5, <1>6, <1>7, CallStep

LEMMA MigrateStep ==
    ASSUME ContractsInv, NEW sender, NEW contract \in DOMAIN CONTRACTS, NEW code_id,
           Migrate(sender, contract, code_id)
    PROVE  ContractsInv' /\ Settled' = Settled
<1> DEFINE contracts == [CONTRACTS EXCEPT ![contract].code_id = code_id]
<1>1. /\ CanSend(sender)
      /\ CONTRACTS[contract].admin # None
      /\ Call(contract, "migrate", contracts)
  BY DEF Migrate, IsAdmin
<1>2. stack = <<>> \/ Top.fn # {}
  BY <1>1, Sent
<1>3. /\ DOMAIN contracts = DOMAIN CONTRACTS
      /\ DOMAIN contracts[contract] = DOMAIN CONTRACTS[contract]
      /\ \A a \in DOMAIN CONTRACTS \ {contract} : contracts[a] = CONTRACTS[a]
  OBVIOUS
<1> HIDE DEF contracts
<1>4. HasFields(contracts)
  BY <1>3 DEF ContractsInv, HasFields
<1>5. Keeps(CONTRACTS, contracts)
  BY <1>1, <1>3 DEF Keeps
<1>6. \A a \in DOMAIN contracts \ {contract} : Registered(contracts[a].code_id)
  BY <1>2, <1>3 DEF ContractsInv, HasCode, Registered
<1> QED
  BY <1>1, <1>2, <1>4, <1>5, <1>6, CallStep

LEMMA UpdateAdminStep ==
    ASSUME ContractsInv, NEW sender, NEW contract \in DOMAIN CONTRACTS, NEW admin,
           UpdateAdmin(sender, contract, admin)
    PROVE  ContractsInv' /\ Keeps(Settled, Settled')
<1>1. /\ CONTRACTS[contract].admin # None
      /\ CONTRACTS' = [CONTRACTS EXCEPT ![contract].admin = admin]
      /\ stack' = stack /\ code_data' = code_data
  BY DEF UpdateAdmin, IsAdmin, codeVars
<1>2. {"code_id", "admin"} \subseteq DOMAIN CONTRACTS[contract]
  BY DEF ContractsInv, HasFields
<1>3. /\ DOMAIN CONTRACTS' = DOMAIN CONTRACTS
      /\ DOMAIN CONTRACTS'[contract] = DOMAIN CONTRACTS[contract]
      /\ CONTRACTS'[contract].code_id = CONTRACTS[contract].code_id
      /\ \A a \in DOMAIN CONTRACTS \ {contract} : CONTRACTS'[a] = CONTRACTS[a]
  BY <1>1, <1>2
<1>4. HasFields(CONTRACTS')
  BY <1>3 DEF ContractsInv, HasFields
<1>5. Keeps(CONTRACTS, CONTRACTS') /\ Keeps(CONTRACTS', CONTRACTS')
  BY <1>1, <1>3 DEF Keeps
<1>6. stack = <<>> \/ Top.fn # {} => HasCode(CONTRACTS', DOMAIN code_data)
  BY <1>3 DEF ContractsInv, HasCode
<1>7. Keeps(Settled, CONTRACTS')
  BY <1>5 DEF ContractsInv, Keeps
<1>8. Top' = Top /\ (CallersRun <=> CallersRun')
  BY <1>1 DEF Top, CallersRun
<1>9. CASE stack = <<>>
  <2>1. Settled' = CONTRACTS' /\ Len(stack) = 0
    BY <1>1, <1>9, EmptySeq DEF Settled
  <2> QED
    BY <1>1, <1>4, <1>5, <1>6, <1>7, <1>8, <1>9, <2>1 DEF ContractsInv
<1>10. CASE stack # <<>>
  <2>1. Settled' = Settled
    BY <1>1, <1>10 DEF Settled
  <2>2. Keeps(Settled, Settled)
    BY DEF Keeps
  <2> QED
    BY <1>1, <1>4, <1>6, <1>7, <1>8, <1>10, <2>1, <2>2 DEF ContractsInv
<1> QED
  BY <1>9, <1>10

\* The end of a message that leaves the contracts as they are in left.
LEMMA PopStep ==
    ASSUME ContractsInv, stack # <<>>, Pop, UNCHANGED code_data,
           HasFields(CONTRACTS'), HasCode(CONTRACTS', DOMAIN code_data),
           Keeps(Settled, CONTRACTS')
    PROVE  ContractsInv' /\ Keeps(Settled, Settled')
<1>1. stack \in Seq(Range(stack))
  BY DEF ContractsInv
<1>2. IsPop(stack, SubSeq(stack, 1, Len(stack) - 1))
  BY <1>1, Popped, Zenon
<1>3. /\ stack' \in Seq(Range(stack'))
      /\ Len(stack') = Len(stack) - 1 /\ Len(stack) \in Nat \ {0}
      /\ \A i \in 1 .. Len(stack') : stack'[i] = stack[i]
      /\ stack' = <<>> <=> Len(stack) = 1
  BY <1>2 DEF IsPop, Pop
<1>4. CallersRun'
  BY <1>3 DEF CallersRun, ContractsInv
<1>5. \A i \in 1 .. Len(stack') : /\ HasFields(stack'[i].before)
                                  /\ HasCode(stack'[i].before, DOMAIN code_data)
                                  /\ Keeps(Settled, stack'[i].before)
  <2> TAKE i \in 1 .. Len(stack')
  <2>1. i \in 1 .. Len(stack) /\ stack'[i] = stack[i]
    BY <1>3
  <2> QED
    BY <2>1 DEF ContractsInv
<1>6. Keeps(CONTRACTS', CONTRACTS') /\ Keeps(Settled, Settled)
  BY DEF Keeps
<1>7. CASE stack' = <<>>
  <2>1. Settled' = CONTRACTS' /\ Len(stack') = 0
    BY <1>3, <1>7 DEF Settled
  <2>2. Keeps(Settled, Settled') /\ Keeps(Settled', CONTRACTS')
    BY <1>6, <2>1
  <2>3. 1 .. Len(stack') = {}
    BY <2>1
  <2>4. code_data' = code_data
    OBVIOUS
  <2> QED
    BY <1>3, <1>4, <2>2, <2>3, <2>4 DEF ContractsInv
<1>8. CASE stack' # <<>>
  <2>1. 1 \in 1 .. Len(stack')
    BY <1>3, <1>8
  <2>2. Settled' = Settled
    BY <1>3, <1>8, <2>1 DEF Settled
  <2> QED
    BY <1>3, <1>4, <1>5, <1>6, <1>8, <2>2 DEF ContractsInv
<1> QED
  BY <1>7, <1>8

LEMMA ReturnStep ==
    ASSUME ContractsInv, Return
    PROVE  ContractsInv' /\ Keeps(Settled, Settled')
BY PopStep DEF Return, ContractsInv, codeVars

LEMMA FailStep ==
    ASSUME ContractsInv, Fail
    PROVE  ContractsInv' /\ Keeps(Settled, Settled')
<1>1. stack # <<>> /\ Pop /\ UNCHANGED code_data /\ CONTRACTS' = stack[Len(stack)].before
  BY DEF Fail, codeVars, Top
<1>2. stack \in Seq(Range(stack))
  BY DEF ContractsInv
<1>3. IsPop(stack, SubSeq(stack, 1, Len(stack) - 1))
  BY <1>1, <1>2, Popped, Zenon
<1>4. Len(stack) \in 1 .. Len(stack)
  BY <1>3 DEF IsPop
<1>5. /\ HasFields(CONTRACTS')
      /\ HasCode(CONTRACTS', DOMAIN code_data)
      /\ Keeps(Settled, CONTRACTS')
  BY <1>1, <1>4 DEF ContractsInv
<1> QED
  BY <1>1, <1>5, PopStep

\* Codes are stored between messages and only added to.
LEMMA CodesStep ==
    ASSUME ContractsInv, UNCHANGED <<CONTRACTS, stack>>, DOMAIN code_data \subseteq DOMAIN code_data'
    PROVE  ContractsInv' /\ Keeps(Settled, Settled')
<1>1. Settled' = Settled /\ Top' = Top /\ (CallersRun <=> CallersRun')
  BY DEF Settled, Top, CallersRun
<1>2. \A contracts : HasCode(contracts, DOMAIN code_data) => HasCode(contracts, DOMAIN code_data')
  BY DEF HasCode
<1>3. Keeps(Settled, Settled)
  BY DEF Keeps
<1> QED
  BY <1>1, <1>2, <1>3 DEF ContractsInv

-----------------------------------------------------------------------------
(* Codes *)

CodesInv ==
    /\ DOMAIN code_data \subseteq 1 .. MaxCodeId
    /\ DOMAIN uploaded = DOMAIN code_data

\* Old codes are as they were.
CodesKept ==
    \A id \in DOMAIN code_data :
        /\ id \in DOMAIN code_data'
        /\ code_data'[id] = code_data[id]
        /\ uploaded'[id] = uploaded[id]

LEMMA NextCodeIdIsFree ==
    ASSUME CodesInv, NEW id \in NextCodeId
    PROVE  id \in 1 .. MaxCodeId /\ id \notin DOMAIN code_data
<1> DEFINE S == DOMAIN code_data \cup {0}
<1>1. S \subseteq 0 .. MaxCodeId /\ S # {} /\ DOMAIN code_data \subseteq S
  BY RegistryBounds DEF CodesInv
<1>2. id = Max(S) + 1 /\ Max(S) # MaxCodeId
  BY DEF NextCodeId
<1> HIDE DEF S
<1>3. Max(S) \in S /\ \A i \in S : i <= Max(S)
  BY <1>1, MaxOfBounded, RegistryBounds
<1>4. MaxCodeId \in Nat /\ Max(S) \in 0 .. MaxCodeId
  BY <1>1, <1>3, RegistryBounds
<1>5. id \in 1 .. MaxCodeId /\ ~(id <= Max(S))
  BY <1>2, <1>4
<1> QED
  BY <1>1, <1>3, <1>5

\* A code under a new id.
LEMMA NewCode ==
    ASSUME CodesInv, NEW id \in 1 .. MaxCodeId, id \notin DOMAIN code_data, NEW code, NEW recipe,
           code_data' = Put(code_data, id, code), uploaded' = Put(uploaded, id, recipe)
    PROVE  CodesInv' /\ CodesKept /\ DOMAIN code_data \subseteq DOMAIN code_data'
BY DEF Put, CodesInv, CodesKept

LEMMA StoreCodeStep ==
    ASSUME CodesInv, NEW creator, NEW recipe, StoreCode(creator, recipe)
    PROVE  CodesInv' /\ CodesKept /\ DOMAIN code_data \subseteq DOMAIN code_data'
<1>1. PICK id \in NextCodeId : SaveCode(id, creator, recipe)
  BY DEF StoreCode
<1>2. id \in 1 .. MaxCodeId /\ id \notin DOMAIN code_data
  BY NextCodeIdIsFree
<1> QED
  BY <1>1, <1>2, NewCode DEF SaveCode

LEMMA StoreCodeWithIdStep ==
    ASSUME CodesInv, NEW creator, NEW id \in CodeIds, NEW recipe,
           StoreCodeWithId(creator, id, recipe)
    PROVE  CodesInv' /\ CodesKept /\ DOMAIN code_data \subseteq DOMAIN code_data'
<1>1. id \in 1 .. MaxCodeId /\ id \notin DOMAIN code_data
  BY RegistryBounds DEF StoreCodeWithId, CodeIds, Registered
<1>2. SaveCode(id, creator, recipe)
  BY DEF StoreCodeWithId
<1> QED
  BY <1>1, <1>2, NewCode DEF SaveCode

LEMMA DuplicateCodeStep ==
    ASSUME CodesInv, NEW code_id, DuplicateCode(code_id)
    PROVE  CodesInv' /\ CodesKept /\ DOMAIN code_data \subseteq DOMAIN code_data'
<1>1. PICK id \in NextCodeId :
          /\ code_data' = Put(code_data, id, code_data[code_id])
          /\ uploaded' = Put(uploaded, id, uploaded[code_id])
  BY DEF DuplicateCode
<1>2. id \in 1 .. MaxCodeId /\ id \notin DOMAIN code_data
  BY NextCodeIdIsFree
<1> QED
  BY <1>1, <1>2, NewCode

-----------------------------------------------------------------------------
(* Messages and their contracts *)

HasIds(contracts) == \A a \in DOMAIN contracts : contracts[a].code_id \in CodeIds

\* The contract of a message is there when the message sends another: what fails later
\* brings no contracts back that lack it.
FramesInv ==
    /\ HasIds(CONTRACTS)
    /\ \A i \in 1 .. Len(stack) :
          /\ HasIds(stack[i].before)
          /\ stack[i].contract \in DOMAIN CONTRACTS
    /\ \A i, j \in 1 .. Len(stack) :
          i < j => stack[i].contract \in DOMAIN stack[j].before

LEMMA FramesCall ==
    ASSUME ContractsInv, FramesInv, NEW contract, NEW entry, NEW contracts,
           Call(contract, entry, contracts),
           HasIds(contracts), DOMAIN CONTRACTS \subseteq DOMAIN contracts,
           contract \in DOMAIN contracts
    PROVE  FramesInv'
<1> DEFINE frame == Frame(contract, entry, contracts)
<1>1. CONTRACTS' = contracts /\ stack' = Append(stack, frame)
  BY DEF Call
<1>2. frame.before = CONTRACTS /\ frame.contract = contract
  BY DEF Frame
<1> HIDE DEF frame
<1>3. IsPush(stack, frame, stack')
  BY <1>1, Pushed, Zenon DEF ContractsInv
<1>4. /\ Len(stack') = Len(stack) + 1 /\ Len(stack) \in Nat
      /\ \A i \in 1 .. Len(stack) : stack'[i] = stack[i]
      /\ stack'[Len(stack) + 1] = frame
  BY <1>3 DEF IsPush
<1>5. \A i \in 1 .. Len(stack') : i \in 1 .. Len(stack) \/ stack'[i] = frame
  BY <1>4
<1>6. HasIds(CONTRACTS')
  BY <1>1
<1>7. ASSUME NEW i \in 1 .. Len(stack')
      PROVE  HasIds(stack'[i].before) /\ stack'[i].contract \in DOMAIN CONTRACTS'
  BY <1>1, <1>2, <1>4, <1>5 DEF FramesInv
<1>8. ASSUME NEW i \in 1 .. Len(stack'), NEW j \in 1 .. Len(stack'), i < j
      PROVE  stack'[i].contract \in DOMAIN stack'[j].before
  <2>1. i \in 1 .. Len(stack) /\ stack'[i] = stack[i]
    BY <1>4, <1>8
  <2>2. CASE j \in 1 .. Len(stack)
    BY <1>4, <1>8, <2>1, <2>2 DEF FramesInv
  <2>3. CASE stack'[j] = frame
    BY <1>2, <2>1, <2>3 DEF FramesInv
  <2> QED BY <1>5, <2>2, <2>3
<1> QED BY <1>6, <1>7, <1>8 DEF FramesInv, HasIds

LEMMA FramesPop ==
    ASSUME ContractsInv, FramesInv, stack # <<>>, Pop,
           CONTRACTS' = CONTRACTS \/ CONTRACTS' = Top.before
    PROVE  FramesInv'
<1>1. IsPop(stack, stack')
  BY Popped, Zenon DEF ContractsInv, Pop
<1>2. /\ Len(stack') = Len(stack) - 1 /\ Len(stack) \in Nat \ {0}
      /\ \A i \in 1 .. Len(stack') : stack'[i] = stack[i]
  BY <1>1 DEF IsPop
<1>3. \A i \in 1 .. Len(stack') : i \in 1 .. Len(stack) /\ i < Len(stack) /\ stack'[i] = stack[i]
  BY <1>2
<1>4. Len(stack) \in 1 .. Len(stack)
  BY <1>2
<1>5. HasIds(CONTRACTS') /\ \A i \in 1 .. Len(stack') : stack[i].contract \in DOMAIN CONTRACTS'
  BY <1>3, <1>4 DEF FramesInv, Top
<1>6. ASSUME NEW i \in 1 .. Len(stack')
      PROVE  HasIds(stack'[i].before) /\ stack'[i].contract \in DOMAIN CONTRACTS'
  BY <1>3, <1>5 DEF FramesInv
<1>7. ASSUME NEW i \in 1 .. Len(stack'), NEW j \in 1 .. Len(stack'), i < j
      PROVE  stack'[i].contract \in DOMAIN stack'[j].before
  BY <1>3, <1>7 DEF FramesInv
<1> QED BY <1>5, <1>6, <1>7 DEF FramesInv, HasIds

LEMMA FramesInstantiate ==
    ASSUME ContractsInv, FramesInv, NEW sender, NEW code_id \in CodeIds, NEW admin, NEW label,
           NEW salt, Instantiate(sender, code_id, admin, label, salt)
    PROVE  FramesInv'
<1> DEFINE address == Address(sender, code_id, salt)
           data == [code_id |-> code_id, creator |-> sender, admin |-> admin, label |-> label]
           contracts == Put(CONTRACTS, address, data)
<1>1. Call(address, "instantiate", contracts)
  BY DEF Instantiate, RegisterContract
<1>2. data.code_id = code_id
  OBVIOUS
<1> HIDE DEF address, data
<1>3. /\ DOMAIN contracts = DOMAIN CONTRACTS \cup {address}
      /\ contracts[address] = data
      /\ \A a \in DOMAIN contracts \ {address} : contracts[a] = CONTRACTS[a]
  BY DEF Put
<1> HIDE DEF contracts
<1>4. HasIds(contracts)
  BY <1>2, <1>3 DEF FramesInv, HasIds
<1> QED BY <1>1, <1>3, <1>4, FramesCall

LEMMA FramesMigrate ==
    ASSUME ContractsInv, FramesInv, NEW sender, NEW contract \in DOMAIN CONTRACTS,
           NEW code_id \in CodeIds, Migrate(sender, contract, code_id)
    PROVE  FramesInv'
<1> DEFINE contracts == [CONTRACTS EXCEPT ![contract].code_id = code_id]
<1>1. Call(contract, "migrate", contracts)
  BY DEF Migrate
<1>2. "code_id" \in DOMAIN CONTRACTS[contract]
  BY DEF ContractsInv, HasFields
<1>3. /\ DOMAIN contracts = DOMAIN CONTRACTS
      /\ contracts[contract].code_id = code_id
      /\ \A a \in DOMAIN CONTRACTS \ {contract} : contracts[a] = CONTRACTS[a]
  BY <1>2
<1> HIDE DEF contracts
<1>4. HasIds(contracts)
  BY <1>3 DEF FramesInv, HasIds
<1> QED BY <1>1, <1>3, <1>4, FramesCall

LEMMA FramesUpdateAdmin ==
    ASSUME ContractsInv, FramesInv, NEW sender, NEW contract \in DOMAIN CONTRACTS, NEW admin,
           UpdateAdmin(sender, contract, admin)
    PROVE  FramesInv'
<1>1. /\ CONTRACTS' = [CONTRACTS EXCEPT ![contract].admin = admin]
      /\ stack' = stack
  BY DEF UpdateAdmin
<1>2. "code_id" \in DOMAIN CONTRACTS[contract]
  BY DEF ContractsInv, HasFields
<1>3. /\ DOMAIN CONTRACTS' = DOMAIN CONTRACTS
      /\ \A a \in DOMAIN CONTRACTS : CONTRACTS'[a].code_id = CONTRACTS[a].code_id
  BY <1>1, <1>2
<1>4. HasIds(CONTRACTS')
  BY <1>3 DEF FramesInv, HasIds
<1> QED BY <1>1, <1>3, <1>4 DEF FramesInv, HasIds

\* The contract that is called again by a reply is there.
LEMMA TopIsThere ==
    ASSUME ContractsInv, FramesInv, stack # <<>>
    PROVE  Top.contract \in DOMAIN CONTRACTS
<1>1. Len(stack) \in Nat \ {0}
  BY EmptySeq, LenProperties DEF ContractsInv
<1> QED BY <1>1 DEF Top, FramesInv

LEMMA FramesStep ==
    ASSUME ContractsInv, FramesInv, [Next]_vars
    PROVE  FramesInv'
<1>1. ASSUME UNCHANGED <<CONTRACTS, stack>> PROVE FramesInv'
  BY <1>1 DEF FramesInv, HasIds
<1>2. ASSUME NEW contract \in DOMAIN CONTRACTS, NEW entry, Call(contract, entry, CONTRACTS)
      PROVE  FramesInv'
  BY <1>2, FramesCall DEF FramesInv
<1>3. ASSUME NEW creator, NEW recipe, StoreCode(creator, recipe) PROVE FramesInv'
  BY <1>1, <1>3 DEF StoreCode
<1>4. ASSUME NEW creator, NEW id, NEW recipe, StoreCodeWithId(creator, id, recipe)
      PROVE  FramesInv'
  BY <1>1, <1>4 DEF StoreCodeWithId
<1>5. ASSUME NEW id, DuplicateCode(id) PROVE FramesInv'
  BY <1>1, <1>5 DEF DuplicateCode
<1>6. ASSUME NEW sender, NEW contract \in DOMAIN CONTRACTS, Execute(sender, contract)
      PROVE  FramesInv'
  BY <1>2, <1>6 DEF Execute
<1>7. ASSUME NEW contract \in DOMAIN CONTRACTS, NEW entry, CallFromOutside(contract, entry)
      PROVE  FramesInv'
  BY <1>2, <1>7 DEF CallFromOutside
<1>8. CASE Reply
  BY <1>2, <1>8, TopIsThere DEF Reply
<1>9. CASE Return
  BY <1>9, FramesPop DEF Return
<1>10. CASE Fail
  BY <1>10, FramesPop DEF Fail
<1>11. CASE UNCHANGED vars
  BY <1>1, <1>11 DEF vars
<1> QED
  BY <1>3, <1>4, <1>5, <1>6, <1>7, <1>8, <1>9, <1>10, <1>11, FramesInstantiate, FramesMigrate,
     FramesUpdateAdmin DEF Next

-----------------------------------------------------------------------------
(* Codes and their wrappers *)

\* A code points to the wrapper that the recipe builds.
CodeIsBuilt(code, recipe, base) ==
    /\ recipe \in Recipes
    /\ code.source_id \in 1 .. Len(base)
    /\ base[code.source_id] = Build(recipe)

WrappersInv ==
    /\ code_base \in Seq(Wrappers)
    /\ \A id \in DOMAIN code_data : CodeIsBuilt(code_data[id], uploaded[id], code_base)

LEMMA WrappersSave ==
    ASSUME CodesInv, WrappersInv, NEW id, NEW creator, NEW recipe \in Recipes,
           SaveCode(id, creator, recipe)
    PROVE  WrappersInv'
<1> DEFINE wrapper == Build(recipe)
           code == [creator |-> creator, checksum |-> ChecksumOf(wrapper, id), source_id |-> SourceId]
<1>1. /\ code_base' = Append(code_base, wrapper)
      /\ code_data' = Put(code_data, id, code)
      /\ uploaded' = Put(uploaded, id, recipe)
  BY DEF SaveCode
<1>2. wrapper \in Wrappers
  BY RecipesAreRecipes, BuildIsWrapper
<1>3. code.source_id = Len(code_base) + 1
  BY DEF SourceId
<1> HIDE DEF code
<1>4. wrapper = Build(recipe)
  OBVIOUS
<1> HIDE DEF wrapper
<1>5. /\ code_base' \in Seq(Wrappers)
      /\ Len(code_base') = Len(code_base) + 1 /\ Len(code_base) \in Nat
      /\ \A i \in 1 .. Len(code_base) : code_base'[i] = code_base[i]
      /\ code_base'[Len(code_base) + 1] = wrapper
  BY <1>1, <1>2, AppendProperties, LenProperties DEF WrappersInv
<1>6. CodeIsBuilt(code, recipe, code_base')
  BY <1>3, <1>4, <1>5 DEF CodeIsBuilt
<1>7. \A i \in DOMAIN code_data : CodeIsBuilt(code_data[i], uploaded[i], code_base')
  BY <1>5 DEF WrappersInv, CodeIsBuilt
<1>8. /\ DOMAIN code_data' = DOMAIN code_data \cup {id}
      /\ code_data'[id] = code /\ uploaded'[id] = recipe
      /\ \A i \in DOMAIN code_data \ {id} : code_data'[i] = code_data[i] /\ uploaded'[i] = uploaded[i]
  BY <1>1 DEF Put, CodesInv
<1>9. \A i \in DOMAIN code_data' : CodeIsBuilt(code_data'[i], uploaded'[i], code_base')
  BY <1>6, <1>7, <1>8
<1> QED BY <1>5, <1>9 DEF WrappersInv

LEMMA WrappersDuplicate ==
    ASSUME CodesInv, WrappersInv, NEW code_id, DuplicateCode(code_id)
    PROVE  WrappersInv'
<1>1. PICK copy \in NextCodeId :
          /\ code_data' = Put(code_data, copy, code_data[code_id])
          /\ uploaded' = Put(uploaded, copy, uploaded[code_id])
  BY DEF DuplicateCode
<1>2. code_id \in DOMAIN code_data /\ code_base' = code_base
  BY DEF DuplicateCode, Registered
<1>3. /\ DOMAIN code_data' = DOMAIN code_data \cup {copy}
      /\ \A i \in DOMAIN code_data' :
            \E j \in DOMAIN code_data : code_data'[i] = code_data[j] /\ uploaded'[i] = uploaded[j]
  BY <1>1, <1>2 DEF Put, CodesInv
<1>4. \A i \in DOMAIN code_data' : CodeIsBuilt(code_data'[i], uploaded'[i], code_base')
  BY <1>2, <1>3 DEF WrappersInv
<1> QED BY <1>2, <1>4 DEF WrappersInv

LEMMA WrappersStep ==
    ASSUME CodesInv, WrappersInv, [Next]_vars
    PROVE  WrappersInv'
<1>1. ASSUME UNCHANGED codeVars PROVE WrappersInv'
  BY <1>1 DEF codeVars, WrappersInv
<1>2. ASSUME NEW creator, NEW recipe \in Recipes, StoreCode(creator, recipe) PROVE WrappersInv'
  BY <1>2, WrappersSave DEF StoreCode
<1>3. ASSUME NEW creator, NEW id, NEW recipe \in Recipes, StoreCodeWithId(creator, id, recipe)
      PROVE  WrappersInv'
  BY <1>3, WrappersSave DEF StoreCodeWithId
<1>4. ASSUME NEW sender, NEW code_id, NEW admin, NEW label, NEW salt,
             Instantiate(sender, code_id, admin, label, salt)
      PROVE  WrappersInv'
  BY <1>1, <1>4 DEF Instantiate, RegisterContract, Call
<1>5. ASSUME NEW sender, NEW contract, NEW code_id, Migrate(sender, contract, code_id)
      PROVE  WrappersInv'
  BY <1>1, <1>5 DEF Migrate, Call
<1>6. ASSUME NEW sender, NEW contract, NEW admin, UpdateAdmin(sender, contract, admin)
      PROVE  WrappersInv'
  BY <1>1, <1>6 DEF UpdateAdmin
<1>7. ASSUME NEW sender, NEW contract, Execute(sender, contract) PROVE WrappersInv'
  BY <1>1, <1>7 DEF Execute, Call
<1>8. ASSUME NEW contract, NEW entry, CallFromOutside(contract, entry) PROVE WrappersInv'
  BY <1>1, <1>8 DEF CallFromOutside, Call
<1>9. CASE Reply
  BY <1>1, <1>9 DEF Reply, Call
<1>10. CASE Return \/ Fail
  BY <1>1, <1>10 DEF Return, Fail
<1>11. CASE UNCHANGED vars
  BY <1>1, <1>11 DEF vars, codeVars
<1> QED
  BY <1>2, <1>3, <1>4, <1>5, <1>6, <1>7, <1>8, <1>9, <1>10, <1>11, WrappersDuplicate DEF Next

-----------------------------------------------------------------------------
(* The theorems *)

Core == ContractsInv /\ CodesInv

LEMMA InitCore ==
    ASSUME Init
    PROVE  Core
<1>1. stack = <<>> /\ Len(stack) = 0 /\ stack \in Seq(Range(stack))
  BY EmptySeq DEF Init
<1>2. DOMAIN CONTRACTS = {} /\ DOMAIN code_data = {} /\ DOMAIN uploaded = {}
  BY DEF Init
<1> QED
  BY <1>1, <1>2 DEF Core, ContractsInv, CodesInv, CallersRun, HasFields, HasCode, Keeps, Settled

LEMMA StepCore ==
    ASSUME Core, [Next]_vars
    PROVE  Core' /\ Keeps(Settled, Settled') /\ CodesKept
<1>1. ContractsInv /\ CodesInv
  BY DEF Core
<1>2. Keeps(Settled, Settled)
  BY DEF Keeps
<1>3. ASSUME UNCHANGED codeVars
      PROVE  CodesInv' /\ CodesKept
  BY <1>1, <1>3 DEF codeVars, CodesInv, CodesKept
<1>4. ASSUME NEW creator \in Accounts, NEW recipe \in Recipes, StoreCode(creator, recipe)
      PROVE  Core' /\ Keeps(Settled, Settled') /\ CodesKept
  <2>1. CodesInv' /\ CodesKept /\ DOMAIN code_data \subseteq DOMAIN code_data'
    BY <1>1, <1>4, StoreCodeStep
  <2> QED
    BY <1>1, <1>4, <2>1, CodesStep DEF StoreCode, Core
<1>5. ASSUME NEW creator \in Accounts, NEW id \in CodeIds, NEW recipe \in Recipes,
             StoreCodeWithId(creator, id, recipe)
      PROVE  Core' /\ Keeps(Settled, Settled') /\ CodesKept
  <2>1. CodesInv' /\ CodesKept /\ DOMAIN code_data \subseteq DOMAIN code_data'
    BY <1>1, <1>5, StoreCodeWithIdStep
  <2> QED
    BY <1>1, <1>5, <2>1, CodesStep DEF StoreCodeWithId, Core
<1>6. ASSUME NEW id \in CodeIds, DuplicateCode(id)
      PROVE  Core' /\ Keeps(Settled, Settled') /\ CodesKept
  <2>1. CodesInv' /\ CodesKept /\ DOMAIN code_data \subseteq DOMAIN code_data'
    BY <1>1, <1>6, DuplicateCodeStep
  <2> QED
    BY <1>1, <1>6, <2>1, CodesStep DEF DuplicateCode, Core
<1>7. ASSUME NEW sender \in Senders, NEW code_id \in CodeIds, NEW admin \in Admins,
             NEW label \in Labels, NEW salt \in Salts \cup {None},
             Instantiate(sender, code_id, admin, label, salt)
      PROVE  Core' /\ Keeps(Settled, Settled') /\ CodesKept
  <2>1. ContractsInv' /\ Settled' = Settled
    BY <1>1, <1>7, InstantiateStep
  <2>2. UNCHANGED codeVars
    BY <1>7 DEF Instantiate, RegisterContract, Call
  <2> QED
    BY <1>2, <1>3, <2>1, <2>2 DEF Core
<1>8. ASSUME NEW sender \in Senders, NEW contract \in DOMAIN CONTRACTS,
             NEW code_id \in CodeIds, Migrate(sender, contract, code_id)
      PROVE  Core' /\ Keeps(Settled, Settled') /\ CodesKept
  <2>1. ContractsInv' /\ Settled' = Settled
    BY <1>1, <1>8, MigrateStep
  <2>2. UNCHANGED codeVars
    BY <1>8 DEF Migrate, Call
  <2> QED
    BY <1>2, <1>3, <2>1, <2>2 DEF Core
<1>9. ASSUME NEW sender \in Senders, NEW contract \in DOMAIN CONTRACTS,
             NEW admin \in Admins, UpdateAdmin(sender, contract, admin)
      PROVE  Core' /\ Keeps(Settled, Settled') /\ CodesKept
  <2>1. ContractsInv' /\ Keeps(Settled, Settled')
    BY <1>1, <1>9, UpdateAdminStep
  <2>2. UNCHANGED codeVars
    BY <1>9 DEF UpdateAdmin
  <2> QED
    BY <1>3, <2>1, <2>2 DEF Core
<1>10. ASSUME NEW contract, NEW entry, Call(contract, entry, CONTRACTS),
              stack = <<>> \/ Top.fn # {}
       PROVE  Core' /\ Keeps(Settled, Settled') /\ CodesKept
  <2>1. ContractsInv' /\ Settled' = Settled
    BY <1>1, <1>10, PlainCallStep
  <2>2. UNCHANGED codeVars
    BY <1>10 DEF Call
  <2> QED
    BY <1>2, <1>3, <2>1, <2>2 DEF Core
<1>11. ASSUME NEW sender \in Senders, NEW contract \in DOMAIN CONTRACTS,
              Execute(sender, contract)
       PROVE  Core' /\ Keeps(Settled, Settled') /\ CodesKept
  BY <1>10, <1>11, Sent DEF Execute
<1>12. ASSUME NEW contract \in DOMAIN CONTRACTS, NEW entry \in Outside,
              CallFromOutside(contract, entry)
       PROVE  Core' /\ Keeps(Settled, Settled') /\ CodesKept
  BY <1>10, <1>12 DEF CallFromOutside
<1>13. CASE Reply
  BY <1>10, <1>13 DEF Reply
<1>14. CASE Return
  BY <1>1, <1>3, <1>14, ReturnStep DEF Return, Core
<1>15. CASE Fail
  BY <1>1, <1>3, <1>15, FailStep DEF Fail, Core
<1>16. CASE UNCHANGED vars
  <2>1. UNCHANGED <<CONTRACTS, stack>> /\ UNCHANGED codeVars /\ code_data' = code_data
    BY <1>16 DEF vars, codeVars
  <2> QED
    BY <1>1, <1>3, <2>1, CodesStep DEF Core
<1> QED
  BY <1>4, <1>5, <1>6, <1>7, <1>8, <1>9, <1>11, <1>12, <1>13, <1>14, <1>15, <1>16 DEF Next

LEMMA InitTypes ==
    ASSUME Init
    PROVE  FramesInv /\ WrappersInv
<1>1. /\ Len(stack) = 0 /\ 1 .. Len(stack) = {}
      /\ code_base \in Seq(Wrappers)
  BY EmptySeq DEF Init
<1>2. DOMAIN CONTRACTS = {} /\ DOMAIN code_data = {}
  BY DEF Init
<1> QED
  BY <1>1, <1>2 DEF FramesInv, WrappersInv, HasIds

IInv == Core /\ FramesInv /\ WrappersInv

THEOREM Invariance == Spec => []IInv
<1>1. Init => IInv
  BY InitCore, InitTypes DEF IInv
<1>2. IInv /\ [Next]_vars => IInv'
  BY StepCore, FramesStep, WrappersStep DEF IInv, Core
<1> QED
  BY <1>1, <1>2, PTL DEF Spec

\* The types of the state; code_data never points past the wrappers, and a contract
\* whose message is being executed is there.
THEOREM TypeCorrect == Spec => []TypeOK
<1>1. ASSUME IInv PROVE TypeOK
  <2>1. ContractsInv /\ CodesInv /\ FramesInv /\ WrappersInv
    BY <1>1 DEF IInv, Core
  <2>2. \A i \in DOMAIN stack : stack[i].contract \in DOMAIN CONTRACTS
    <3>1. DOMAIN stack = 1 .. Len(stack)
      BY <2>1, LenProperties DEF ContractsInv
    <3> QED BY <2>1, <3>1 DEF FramesInv
  <2>3. \A id \in DOMAIN code_data : code_data[id].source_id \in DOMAIN code_base
    <3>1. DOMAIN code_base = 1 .. Len(code_base)
      BY <2>1, LenProperties DEF WrappersInv
    <3> QED BY <2>1, <3>1 DEF WrappersInv, CodeIsBuilt
  <2> QED BY <2>1, <2>2, <2>3 DEF TypeOK, CodesInv, WrappersInv, FramesInv, HasIds
<1>2. IInv => TypeOK
  BY <1>1
<1> QED
  BY <1>2, Invariance, PTL

\* with_storage and the with_* methods of ContractWrapper: whichever calls put a wrapper
\* together and under however many ids it was stored and copied, the function that runs
\* for an entry point of a contract is the last that was given for it.
THEOREM ContractsRunWhatWasGiven == Spec => []ContractsRunTheirCode
<1>1. ASSUME IInv, NEW id \in DOMAIN code_data, NEW entry \in EntryPoints
      PROVE  {closure.raw_fn : closure \in ContractCode(id, entry)}
                 = {Provided(uploaded[id], entry)} \ {None}
  <2>1. CodeIsBuilt(code_data[id], uploaded[id], code_base)
    BY <1>1 DEF IInv, WrappersInv
  <2> DEFINE recipe == uploaded[id]
  <2>2. IsRecipe(recipe) /\ code_base[code_data[id].source_id] = Build(recipe)
    BY <2>1, RecipesAreRecipes DEF CodeIsBuilt
  <2>3. Runs(Build(recipe), entry) = {Provided(recipe, entry)} \ {None}
    BY <2>2, BuildIsWrapper
  <2>4. ContractCode(id, entry) =
            IF Implements(Build(recipe), entry) THEN {Build(recipe).fns[entry]} ELSE {}
    BY <2>2 DEF ContractCode, Registered
  <2> QED BY <2>3, <2>4, Zenon DEF Runs
<1>2. ASSUME IInv PROVE ContractsRunTheirCode
  <2>1. ASSUME NEW a \in DOMAIN CONTRACTS, NEW entry \in EntryPoints,
               Registered(CONTRACTS[a].code_id)
        PROVE  {closure.raw_fn : closure \in ContractCode(CONTRACTS[a].code_id, entry)}
                   = {Provided(uploaded[CONTRACTS[a].code_id], entry)} \ {None}
    BY <1>1, <1>2, <2>1 DEF Registered
  <2> QED BY <2>1, Zenon DEF ContractsRunTheirCode
<1>3. IInv => ContractsRunTheirCode
  BY <1>2
<1> QED
  BY <1>3, Invariance, PTL

\* register_contract and Migrate: although the check of a code id compares it with
\* the number of codes, no contract is left without a code when a message ends.
THEOREM ContractsAlwaysHaveCode == Spec => []ContractsHaveCode
<1>1. IInv => ContractsHaveCode
  BY SettledHaveCode DEF IInv, Core, ContractsHaveCode, HasCode, Registered
<1> QED
  BY <1>1, Invariance, PTL

\* next_code_id and save_code: whatever ids tests take for themselves, an id is given
\* out once and what is stored under it stays.
THEOREM CodesStayTheSame == Spec => CodesAreImmutable
<1>1. IInv /\ [Next]_vars =>
        [\A id \in DOMAIN code_data :
            /\ id \in DOMAIN code_data'
            /\ CodeInfo(id)' = CodeInfo(id)
            /\ uploaded'[id] = uploaded[id]]_vars
  BY StepCore DEF IInv, CodesKept, CodeInfo
<1> QED
  BY <1>1, Invariance, PTL DEF Spec, CodesAreImmutable

\* update_admin, Migrate and register_contract: a contract without an admin stays as
\* it is, through all messages, however they are nested and wherever they fail.
THEOREM UnownedContractsStay == Spec => WithoutAdminNothingChanges
<1>1. IInv /\ [Next]_vars =>
        [\A a \in DOMAIN Settled : Settled[a].admin = None =>
            a \in DOMAIN Settled' /\ Settled'[a] = Settled[a]]_vars
  BY StepCore DEF IInv, Keeps
<1> QED
  BY <1>1, Invariance, PTL DEF Spec, WithoutAdminNothingChanges
===============================================================================
