------------------------------ MODULE Sums_proofs ------------------------------
(***************************************************************************)
(* Facts about the sums of the community module Functions: SumFunction(f)   *)
(* adds the values of f, SumFunctionOnSet(f, S) those at S.                 *)
(*                                                                          *)
(* The induction these need is over the finite subsets of a set.  It is     *)
(* stated for a set of subsets, SubsetInduction, so that it applies to any  *)
(* property whose instances can be collected in a set.                      *)
(***************************************************************************)
EXTENDS Functions, FiniteSetTheorems, TLAPS

-----------------------------------------------------------------------------
(* Induction over the subsets of a finite set *)

\* A set P of subsets of S is all of them if a subset is in P whenever all
\* smaller ones are: otherwise there were a smallest one that is not.
LEMMA SubsetInduction ==
    ASSUME NEW S, IsFiniteSet(S), NEW P,
           \A T \in SUBSET S : (\A U \in SUBSET T : U # T => U \in P) => T \in P
    PROVE  \A T \in SUBSET S : T \in P
<1>1. IsWellFoundedOn(StrictSubsetOrdering(S), SUBSET S)
  BY FS_StrictSubsetOrderingWellFounded, FS_FiniteSubsetsOfFinite
<1> DEFINE Others == {T \in SUBSET S : T \notin P}
<1>2. ASSUME Others # {} PROVE FALSE
  <2>1. PICK T \in Others : \A U \in Others : <<U, T>> \notin StrictSubsetOrdering(S)
    <3>1. Others \subseteq SUBSET S
      OBVIOUS
    <3> HIDE DEF Others
    <3> QED BY <1>1, <1>2, <3>1, WFMin
  <2>2. ASSUME NEW U \in SUBSET T, U # T PROVE U \in P
    <3>1. <<U, T>> \in StrictSubsetOrdering(S)
      BY <2>1, <2>2 DEF StrictSubsetOrdering
    <3> QED BY <2>1, <2>2, <3>1
  <2> QED BY <2>1, <2>2
<1> QED BY <1>2

\* The same one element at a time.
LEMMA ElementInduction ==
    ASSUME NEW S, IsFiniteSet(S), NEW P, {} \in P,
           \A T \in SUBSET S : \A x \in T : T \ {x} \in P => T \in P
    PROVE  S \in P
<1>1. ASSUME NEW T \in SUBSET S, \A U \in SUBSET T : U # T => U \in P
      PROVE  T \in P
  <2>1. CASE T = {}
    BY <2>1
  <2>2. CASE T # {}
    <3>1. PICK x \in T : TRUE
      BY <2>2
    <3>2. T \ {x} \in P
      BY <1>1, <3>1
    <3> QED BY <3>1, <3>2
  <2> QED BY <2>1, <2>2
<1>2. \A T \in SUBSET S : T \in P
  BY <1>1, SubsetInduction
<1> QED BY <1>2

-----------------------------------------------------------------------------
(* The recursion behind the fold *)

Pick(s) == CHOOSE x \in s : TRUE

\* g tells the sum of f on every subset of S.
Counts(g, f, S) ==
    g = [s \in SUBSET S |-> IF s = {} THEN 0 ELSE f[Pick(s)] + g[s \ {Pick(s)}]]
Table(f, S) == CHOOSE g : Counts(g, f, S)

LEMMA SumIsInTable ==
    ASSUME NEW f, NEW S
    PROVE  SumFunctionOnSet(f, S) = Table(f, S)[S]
BY DEF SumFunctionOnSet, FoldFunctionOnSet, MapThenFoldSet, Table, Counts, Pick

LEMMA SumIsOnDomain ==
    ASSUME NEW f
    PROVE  SumFunction(f) = SumFunctionOnSet(f, DOMAIN f)
BY DEF SumFunction

LEMMA PickIsMember ==
    ASSUME NEW S, S # {}
    PROVE  Pick(S) \in S
BY DEF Pick

\* Two tables agree where both have entries, if the functions do.
LEMMA TablesAgree ==
    ASSUME NEW S, NEW T \in SUBSET S, IsFiniteSet(T),
           NEW f, NEW e, \A x \in T : f[x] = e[x],
           NEW g, Counts(g, f, S), NEW h, Counts(h, e, T)
    PROVE  \A s \in SUBSET T : g[s] = h[s]
<1> DEFINE P == {s \in SUBSET T : g[s] = h[s]}
<1>1. ASSUME NEW s \in SUBSET T, \A U \in SUBSET s : U # s => U \in P
      PROVE  s \in P
  <2>1. CASE s = {}
    BY <2>1 DEF Counts
  <2>2. CASE s # {}
    <3>1. Pick(s) \in s
      BY <2>2, PickIsMember
    <3> DEFINE rest == s \ {Pick(s)}
    <3>2. rest \in SUBSET s /\ rest # s
      BY <3>1
    <3>3. g[rest] = h[rest]
      BY <1>1, <3>2
    <3>4. f[Pick(s)] = e[Pick(s)]
      BY <3>1
    <3>5. g[s] = f[Pick(s)] + g[rest]
      BY <2>2 DEF Counts
    <3>6. h[s] = e[Pick(s)] + h[rest]
      BY <2>2 DEF Counts
    <3> QED BY <3>3, <3>4, <3>5, <3>6
  <2> QED BY <2>1, <2>2
<1>2. \A s \in SUBSET T : s \in P
  <2> HIDE DEF P
  <2> QED BY <1>1, SubsetInduction
<1> QED BY <1>2

\* Every finite set has a table.
LEMMA TableExists ==
    ASSUME NEW S, IsFiniteSet(S), NEW f
    PROVE  Counts(Table(f, S), f, S)
<1> DEFINE P == {T \in SUBSET S : Counts(Table(f, T), f, T)}
<1>1. ASSUME NEW T \in SUBSET S, \A U \in SUBSET T : U # T => U \in P
      PROVE  T \in P
  <2> DEFINE entry(s) == IF s = {} THEN 0 ELSE f[Pick(s)] + Table(f, s \ {Pick(s)})[s \ {Pick(s)}]
             g == [s \in SUBSET T |-> entry(s)]
  <2>1. ASSUME NEW s \in SUBSET T, s # {}
        PROVE  g[s \ {Pick(s)}] = Table(f, s \ {Pick(s)})[s \ {Pick(s)}]
    <3> DEFINE rest == s \ {Pick(s)}
    <3>1. rest \in SUBSET T /\ rest # T /\ rest \in SUBSET S /\ IsFiniteSet(rest)
      BY <2>1, PickIsMember, FS_Subset
    <3>2. Counts(Table(f, rest), f, rest)
      BY <1>1, <3>1
    <3>3. g[rest] = entry(rest)
      BY <3>1
    <3>4. CASE rest = {}
      <4>1. Table(f, rest)[rest] = 0
        BY <3>2, <3>4 DEF Counts
      <4> QED BY <3>3, <3>4, <4>1
    <3>5. CASE rest # {}
      <4> DEFINE less == rest \ {Pick(rest)}
      <4>1. less \in SUBSET rest /\ less \in SUBSET T /\ less # T /\ IsFiniteSet(less)
        BY <3>1, <3>5, PickIsMember, FS_Subset
      <4>2. Counts(Table(f, less), f, less)
        BY <1>1, <4>1
      <4>3. Table(f, rest)[less] = Table(f, less)[less]
        <5> HIDE DEF less, rest
        <5> QED BY <3>2, <4>1, <4>2, TablesAgree
      <4>4. Table(f, rest)[rest] = f[Pick(rest)] + Table(f, rest)[less]
        <5> HIDE DEF rest
        <5>1. rest \in SUBSET rest
          OBVIOUS
        <5> QED BY <3>2, <3>5, <5>1 DEF Counts
      <4> QED BY <3>3, <3>5, <4>3, <4>4
    <3> QED BY <3>4, <3>5
  <2>2. Counts(g, f, T)
    <3>1. ASSUME NEW s \in SUBSET T
          PROVE  entry(s) = IF s = {} THEN 0 ELSE f[Pick(s)] + g[s \ {Pick(s)}]
      <4>1. CASE s = {}
        BY <4>1
      <4>2. CASE s # {}
        <5> HIDE DEF g
        <5> QED BY <2>1, <4>2
      <4> QED BY <4>1, <4>2
    <3>2. g = [s \in SUBSET T |-> IF s = {} THEN 0 ELSE f[Pick(s)] + g[s \ {Pick(s)}]]
      <4>1. \A s \in SUBSET T : entry(s) = IF s = {} THEN 0 ELSE f[Pick(s)] + g[s \ {Pick(s)}]
        BY <3>1
      <4> DEFINE G(s) == IF s = {} THEN 0 ELSE f[Pick(s)] + g[s \ {Pick(s)}]
      <4>2. \A s \in SUBSET T : entry(s) = G(s)
        BY <4>1
      <4>3. [s \in SUBSET T |-> entry(s)] = [s \in SUBSET T |-> G(s)]
        <5> HIDE DEF entry, G
        <5> QED BY <4>2
      <4> QED BY <4>3
    <3> HIDE DEF g
    <3> QED BY <3>2 DEF Counts
  <2>3. Counts(Table(f, T), f, T)
    <3> HIDE DEF g
    <3> QED BY <2>2 DEF Table
  <2> QED BY <2>3
<1>2. \A T \in SUBSET S : T \in P
  <2> HIDE DEF P
  <2> QED BY <1>1, SubsetInduction
<1> QED BY <1>2

-----------------------------------------------------------------------------
(* Sums *)

LEMMA SumOfNothing ==
    ASSUME NEW f
    PROVE  SumFunctionOnSet(f, {}) = 0
<1>1. Counts(Table(f, {}), f, {})
  BY TableExists, FS_EmptySet
<1> QED BY <1>1, SumIsInTable DEF Counts

\* The sum takes only the values on the set.
LEMMA SumsAreSame ==
    ASSUME NEW S, IsFiniteSet(S), NEW f, NEW g, \A x \in S : f[x] = g[x]
    PROVE  SumFunctionOnSet(f, S) = SumFunctionOnSet(g, S)
<1> DEFINE t == Table(f, S)
           u == Table(g, S)
<1>1. Counts(t, f, S) /\ Counts(u, g, S)
  BY TableExists
<1>2. S \in SUBSET S
  OBVIOUS
<1>3. \A s \in SUBSET S : t[s] = u[s]
  <2> HIDE DEF t, u
  <2> QED BY <1>1, <1>2, TablesAgree
<1> QED BY <1>3, SumIsInTable

\* The recursion of the fold.
LEMMA SumPicks ==
    ASSUME NEW S, IsFiniteSet(S), S # {}, NEW f
    PROVE  SumFunctionOnSet(f, S) = f[Pick(S)] + SumFunctionOnSet(f, S \ {Pick(S)})
<1> DEFINE rest == S \ {Pick(S)}
<1>1. rest \in SUBSET S /\ rest \in SUBSET rest /\ S \in SUBSET S /\ IsFiniteSet(rest)
  BY FS_Subset
<1>2. Counts(Table(f, S), f, S) /\ Counts(Table(f, rest), f, rest)
  BY <1>1, TableExists
<1>3. Table(f, S)[rest] = Table(f, rest)[rest]
  <2> HIDE DEF rest
  <2> QED BY <1>1, <1>2, TablesAgree
<1>4. Table(f, S)[S] = f[Pick(S)] + Table(f, S)[rest]
  BY <1>1, <1>2 DEF Counts
<1>5. SumFunctionOnSet(f, S) = Table(f, S)[S]
  BY SumIsInTable
<1>6. SumFunctionOnSet(f, rest) = Table(f, rest)[rest]
  BY SumIsInTable
<1> QED BY <1>3, <1>4, <1>5, <1>6

\* f is a function to the natural numbers on S.
Natural(f, S) == \A x \in S : f[x] \in Nat

LEMMA SumIsNatural ==
    ASSUME NEW S, IsFiniteSet(S), NEW f, Natural(f, S)
    PROVE  SumFunctionOnSet(f, S) \in Nat
<1> DEFINE P == {T \in SUBSET S : SumFunctionOnSet(f, T) \in Nat}
<1>1. ASSUME NEW T \in SUBSET S, \A U \in SUBSET T : U # T => U \in P
      PROVE  T \in P
  <2>1. CASE T = {}
    BY <2>1, SumOfNothing
  <2>2. CASE T # {}
    <3>1. Pick(T) \in T /\ IsFiniteSet(T)
      BY <2>2, PickIsMember, FS_Subset
    <3>2. SumFunctionOnSet(f, T \ {Pick(T)}) \in Nat
      BY <1>1, <3>1
    <3>3. f[Pick(T)] \in Nat
      BY <3>1 DEF Natural
    <3>4. SumFunctionOnSet(f, T) = f[Pick(T)] + SumFunctionOnSet(f, T \ {Pick(T)})
      BY <2>2, <3>1, SumPicks
    <3> QED BY <3>2, <3>3, <3>4
  <2> QED BY <2>1, <2>2
<1>2. \A T \in SUBSET S : T \in P
  <2> HIDE DEF P
  <2> QED BY <1>1, SubsetInduction
<1> QED BY <1>2

\* Any element may be taken out first.
LEMMA SumTakesOut ==
    ASSUME NEW S, IsFiniteSet(S), NEW f, Natural(f, S), NEW x \in S
    PROVE  SumFunctionOnSet(f, S) = f[x] + SumFunctionOnSet(f, S \ {x})
<1> DEFINE Sum(T) == SumFunctionOnSet(f, T)
           P == {T \in SUBSET S : \A y \in T : Sum(T) = f[y] + Sum(T \ {y})}
<1>1. ASSUME NEW T \in SUBSET S, \A U \in SUBSET T : U # T => U \in P
      PROVE  T \in P
  <2>1. ASSUME NEW y \in T
        PROVE  Sum(T) = f[y] + Sum(T \ {y})
    <3> DEFINE z == Pick(T)
               both == (T \ {y}) \ {z}
    <3>1. z \in T /\ IsFiniteSet(T)
      BY <2>1, PickIsMember, FS_Subset
    <3>2. Sum(T) = f[z] + Sum(T \ {z})
      BY <2>1, <3>1, SumPicks
    <3>3. CASE z = y
      BY <3>2, <3>3
    <3>4. CASE z # y
      <4>1. T \ {z} \in P /\ T \ {y} \in P
        BY <1>1, <2>1, <3>1
      <4>2. (T \ {z}) \ {y} = both
        OBVIOUS
      <4>3. Sum(T \ {z}) = f[y] + Sum((T \ {z}) \ {y})
        BY <2>1, <3>4, <4>1
      <4>4. Sum(T \ {y}) = f[z] + Sum(both)
        BY <3>1, <3>4, <4>1
      <4>5. both \in SUBSET S /\ IsFiniteSet(both) /\ Natural(f, both)
        BY FS_Subset DEF Natural
      <4>6. Sum(both) \in Nat
        BY <4>5, SumIsNatural
      <4>7. f[y] \in Nat /\ f[z] \in Nat
        BY <2>1, <3>1 DEF Natural
      <4>8. Sum(T) = f[z] + (f[y] + Sum(both))
        <5> HIDE DEF Sum, both, z
        <5> QED BY <3>2, <4>2, <4>3
      <4> HIDE DEF Sum, both, z
      <4> QED BY <4>4, <4>6, <4>7, <4>8
    <3> QED BY <3>3, <3>4
  <2> QED BY <2>1
<1>2. \A T \in SUBSET S : T \in P
  <2> HIDE DEF P
  <2> QED BY <1>1, SubsetInduction
<1>3. S \in P
  BY <1>2
<1> QED BY <1>3
\* A change at one element.
LEMMA SumChanges ==
    ASSUME NEW S, IsFiniteSet(S), NEW f, Natural(f, S), NEW g, Natural(g, S),
           NEW x \in S, \A y \in S : y # x => g[y] = f[y]
    PROVE  SumFunctionOnSet(g, S) + f[x] = SumFunctionOnSet(f, S) + g[x]
<1> DEFINE rest == S \ {x}
<1>1. rest \in SUBSET S /\ IsFiniteSet(rest) /\ Natural(f, rest) /\ Natural(g, rest)
  BY FS_Subset DEF Natural
<1>2. SumFunctionOnSet(f, rest) = SumFunctionOnSet(g, rest)
  <2>1. \A y \in rest : f[y] = g[y]
    OBVIOUS
  <2> HIDE DEF rest
  <2> QED BY <1>1, <2>1, SumsAreSame
<1>3. SumFunctionOnSet(f, rest) \in Nat
  <2> HIDE DEF rest
  <2> QED BY <1>1, SumIsNatural
<1>4. SumFunctionOnSet(f, S) = f[x] + SumFunctionOnSet(f, rest)
  BY SumTakesOut
<1>5. SumFunctionOnSet(g, S) = g[x] + SumFunctionOnSet(g, rest)
  BY SumTakesOut
<1>6. f[x] \in Nat /\ g[x] \in Nat
  BY DEF Natural
<1> HIDE DEF rest
<1> QED BY <1>2, <1>3, <1>4, <1>5, <1>6

\* The sum over two sets without a common element.
LEMMA SumOfParts ==
    ASSUME NEW S, IsFiniteSet(S), NEW f, Natural(f, S), NEW A, NEW B,
           A \cap B = {}, A \cup B = S
    PROVE  SumFunctionOnSet(f, S) = SumFunctionOnSet(f, A) + SumFunctionOnSet(f, B)
<1> DEFINE Sum(T) == SumFunctionOnSet(f, T)
           P == {T \in SUBSET A : Sum(T \cup B) = Sum(T) + Sum(B)}
<1>1. IsFiniteSet(A) /\ IsFiniteSet(B) /\ Natural(f, A) /\ Natural(f, B)
  BY FS_Subset DEF Natural
<1>2. Sum(B) \in Nat
  BY <1>1, SumIsNatural
<1>3. {} \in P
  <2>1. Sum({} \cup B) = Sum(B) /\ Sum({}) = 0
    BY SumOfNothing
  <2> HIDE DEF Sum
  <2> QED BY <1>2, <2>1
<1>4. ASSUME NEW T \in SUBSET A, NEW x \in T, T \ {x} \in P
      PROVE  T \in P
  <2>1. IsFiniteSet(T) /\ Natural(f, T) /\ IsFiniteSet(T \cup B) /\ Natural(f, T \cup B)
    BY <1>1, FS_Subset DEF Natural
  <2>2. Sum(T) = f[x] + Sum(T \ {x})
    BY <1>4, <2>1, SumTakesOut
  <2>3. x \in T \cup B /\ (T \cup B) \ {x} = (T \ {x}) \cup B
    BY <1>4
  <2>4. Sum(T \cup B) = f[x] + Sum((T \cup B) \ {x})
    BY <2>1, <2>3, SumTakesOut
  <2>5. Sum((T \ {x}) \cup B) = Sum(T \ {x}) + Sum(B)
    BY <1>4
  <2>6. IsFiniteSet(T \ {x}) /\ Natural(f, T \ {x})
    BY <2>1, FS_Subset DEF Natural
  <2>7. Sum(T \ {x}) \in Nat
    BY <2>6, SumIsNatural
  <2>8. f[x] \in Nat
    BY <1>4, <2>1 DEF Natural
  <2>9. Sum(T \cup B) = f[x] + (Sum(T \ {x}) + Sum(B))
    <3> HIDE DEF Sum
    <3> QED BY <2>3, <2>4, <2>5
  <2> HIDE DEF Sum
  <2> QED BY <1>2, <2>2, <2>7, <2>8, <2>9
<1>5. A \in P
  <2> HIDE DEF P
  <2> QED BY <1>1, <1>3, <1>4, ElementInduction
<1>6. Sum(S) = Sum(A) + Sum(B)
  BY <1>5
<1> QED BY <1>6

\* A part of a sum is no more than the whole.
LEMMA SumOfSubset ==
    ASSUME NEW S, IsFiniteSet(S), NEW f, Natural(f, S), NEW T \in SUBSET S
    PROVE  SumFunctionOnSet(f, T) <= SumFunctionOnSet(f, S)
<1> DEFINE rest == S \ T
<1>1. T \cap rest = {} /\ T \cup rest = S
  OBVIOUS
<1>2. IsFiniteSet(T) /\ IsFiniteSet(rest) /\ Natural(f, T) /\ Natural(f, rest)
  BY FS_Subset DEF Natural
<1> HIDE DEF rest
<1>3. SumFunctionOnSet(f, T) \in Nat /\ SumFunctionOnSet(f, rest) \in Nat
  BY <1>2, SumIsNatural
<1>4. SumFunctionOnSet(f, S) = SumFunctionOnSet(f, T) + SumFunctionOnSet(f, rest)
  BY <1>1, SumOfParts
<1> QED BY <1>3, <1>4

\* No value more, no sum more.
LEMMA SumAtMost ==
    ASSUME NEW S, IsFiniteSet(S), NEW f, Natural(f, S), NEW g, Natural(g, S),
           \A x \in S : f[x] <= g[x]
    PROVE  SumFunctionOnSet(f, S) <= SumFunctionOnSet(g, S)
<1> DEFINE F(T) == SumFunctionOnSet(f, T)
           G(T) == SumFunctionOnSet(g, T)
           P == {T \in SUBSET S : F(T) <= G(T)}
<1>1. {} \in P
  <2>1. F({}) = 0 /\ G({}) = 0
    BY SumOfNothing
  <2> HIDE DEF F, G
  <2> QED BY <2>1
<1>2. ASSUME NEW T \in SUBSET S, NEW x \in T, T \ {x} \in P
      PROVE  T \in P
  <2>1. IsFiniteSet(T) /\ Natural(f, T) /\ Natural(g, T)
    BY FS_Subset DEF Natural
  <2>2. IsFiniteSet(T \ {x}) /\ Natural(f, T \ {x}) /\ Natural(g, T \ {x})
    BY <2>1, FS_Subset DEF Natural
  <2>3. F(T \ {x}) \in Nat /\ G(T \ {x}) \in Nat
    BY <2>2, SumIsNatural
  <2>4. F(T) = f[x] + F(T \ {x}) /\ G(T) = g[x] + G(T \ {x})
    BY <1>2, <2>1, SumTakesOut
  <2>5. f[x] \in Nat /\ g[x] \in Nat /\ f[x] <= g[x]
    BY <1>2 DEF Natural
  <2>6. F(T \ {x}) <= G(T \ {x})
    BY <1>2
  <2> HIDE DEF F, G
  <2>7. F(T) <= G(T)
    BY <2>3, <2>4, <2>5, <2>6
  <2> QED BY <2>7
<1>3. S \in P
  <2> HIDE DEF P
  <2> QED BY <1>1, <1>2, ElementInduction
<1> QED BY <1>3

\* The sum of two functions.
LEMMA SumOfTwo ==
    ASSUME NEW S, IsFiniteSet(S), NEW f, Natural(f, S), NEW g, Natural(g, S),
           NEW h, \A x \in S : h[x] = f[x] + g[x]
    PROVE  SumFunctionOnSet(h, S) = SumFunctionOnSet(f, S) + SumFunctionOnSet(g, S)
<1> DEFINE F(T) == SumFunctionOnSet(f, T)
           G(T) == SumFunctionOnSet(g, T)
           H(T) == SumFunctionOnSet(h, T)
           P == {T \in SUBSET S : H(T) = F(T) + G(T)}
<1>0. Natural(h, S)
  BY DEF Natural
<1>1. {} \in P
  <2>1. F({}) = 0 /\ G({}) = 0 /\ H({}) = 0
    BY SumOfNothing
  <2> HIDE DEF F, G, H
  <2> QED BY <2>1
<1>2. ASSUME NEW T \in SUBSET S, NEW x \in T, T \ {x} \in P
      PROVE  T \in P
  <2>1. IsFiniteSet(T) /\ Natural(f, T) /\ Natural(g, T) /\ Natural(h, T)
    BY <1>0, FS_Subset DEF Natural
  <2>2. IsFiniteSet(T \ {x}) /\ Natural(f, T \ {x}) /\ Natural(g, T \ {x})
    BY <2>1, FS_Subset DEF Natural
  <2>3. F(T \ {x}) \in Nat /\ G(T \ {x}) \in Nat
    BY <2>2, SumIsNatural
  <2>4. F(T) = f[x] + F(T \ {x}) /\ G(T) = g[x] + G(T \ {x})
    BY <1>2, <2>1, SumTakesOut
  <2>5. H(T) = h[x] + H(T \ {x})
    BY <1>2, <2>1, SumTakesOut
  <2>6. f[x] \in Nat /\ g[x] \in Nat /\ h[x] = f[x] + g[x]
    BY <1>2 DEF Natural
  <2>7. H(T \ {x}) = F(T \ {x}) + G(T \ {x})
    BY <1>2
  <2> HIDE DEF F, G, H
  <2>8. H(T) = F(T) + G(T)
    BY <2>3, <2>4, <2>5, <2>6, <2>7
  <2> QED BY <2>8
<1>3. S \in P
  <2> HIDE DEF P
  <2> QED BY <1>1, <1>2, ElementInduction
<1> QED BY <1>3

\* h gives each member of S an index in R of its own, and uses all of them; the
\* values of f are those of g at the indices.
Renames(h, S, R) ==
    /\ h \in [S -> R]
    /\ \A x \in S : \A y \in S : h[x] = h[y] => x = y
    /\ \A r \in R : \E x \in S : h[x] = r
Carries(h, S, f, g) == \A x \in S : g[h[x]] = f[x]

\* Other indices for the same values.
LEMMA SumReindexed ==
    ASSUME NEW S, IsFiniteSet(S), NEW f, Natural(f, S), NEW R, IsFiniteSet(R),
           NEW g, NEW h, Renames(h, S, R), Carries(h, S, f, g)
    PROVE  SumFunctionOnSet(f, S) = SumFunctionOnSet(g, R)
<1>0. /\ h \in [S -> R]
      /\ \A x \in S : \A y \in S : h[x] = h[y] => x = y
      /\ \A r \in R : \E x \in S : h[x] = r
      /\ \A x \in S : g[h[x]] = f[x]
  BY DEF Renames, Carries
<1> DEFINE Image(T) == {r \in R : \E x \in T : h[x] = r}
           F(T) == SumFunctionOnSet(f, T)
           G(T) == SumFunctionOnSet(g, T)
           P == {T \in SUBSET S : F(T) = G(Image(T))}
<1>1. Natural(g, R)
  BY <1>0 DEF Natural
<1>2. {} \in P
  <2>1. Image({}) = {}
    OBVIOUS
  <2>2. F({}) = 0 /\ G({}) = 0
    BY SumOfNothing
  <2> HIDE DEF F, G, Image
  <2> QED BY <2>1, <2>2
<1>3. ASSUME NEW T \in SUBSET S, NEW x \in T, T \ {x} \in P
      PROVE  T \in P
  <2>1. IsFiniteSet(T) /\ Natural(f, T)
    BY FS_Subset DEF Natural
  <2>2. IsFiniteSet(Image(T)) /\ Natural(g, Image(T))
    BY <1>1, FS_Subset DEF Natural
  <2>3. h[x] \in Image(T) /\ Image(T \ {x}) = Image(T) \ {h[x]}
    BY <1>0, <1>3
  <2>4. F(T) = f[x] + F(T \ {x})
    BY <1>3, <2>1, SumTakesOut
  <2>5. G(Image(T)) = g[h[x]] + G(Image(T) \ {h[x]})
    <3> HIDE DEF Image
    <3> QED BY <2>2, <2>3, SumTakesOut
  <2>6. F(T \ {x}) = G(Image(T \ {x}))
    BY <1>3
  <2>7. g[h[x]] = f[x]
    BY <1>0, <1>3
  <2> HIDE DEF F, G, Image
  <2>8. F(T) = G(Image(T))
    BY <2>3, <2>4, <2>5, <2>6, <2>7
  <2> QED BY <2>8
<1>4. S \in P
  <2> HIDE DEF P
  <2> QED BY <1>2, <1>3, ElementInduction
<1>5. Image(S) = R
  BY <1>0
<1>6. F(S) = G(Image(S))
  BY <1>4
<1> HIDE DEF Image
<1> QED BY <1>5, <1>6

\* Zeros may be added.
LEMMA SumOfZeros ==
    ASSUME NEW S, IsFiniteSet(S), NEW f, \A x \in S : f[x] = 0
    PROVE  SumFunctionOnSet(f, S) = 0
<1> DEFINE Sum(T) == SumFunctionOnSet(f, T)
           P == {T \in SUBSET S : Sum(T) = 0}
<1>1. {} \in P
  BY SumOfNothing
<1>2. ASSUME NEW T \in SUBSET S, NEW x \in T, T \ {x} \in P
      PROVE  T \in P
  <2>1. IsFiniteSet(T) /\ Natural(f, T)
    BY FS_Subset DEF Natural
  <2>2. Sum(T) = f[x] + Sum(T \ {x})
    BY <1>2, <2>1, SumTakesOut
  <2>3. Sum(T \ {x}) = 0 /\ f[x] = 0
    BY <1>2
  <2> HIDE DEF Sum
  <2>4. Sum(T) = 0
    BY <2>2, <2>3
  <2> QED BY <2>4
<1>3. S \in P
  <2> HIDE DEF P
  <2> QED BY <1>1, <1>2, ElementInduction
<1> QED BY <1>3

\* A sum over part of the set, when the values outside of it are zero.
LEMMA SumWithin ==
    ASSUME NEW S, IsFiniteSet(S), NEW f, DOMAIN f \subseteq S,
           NEW g, Natural(g, S),
           \A x \in DOMAIN f : g[x] = f[x],
           \A x \in S : x \notin DOMAIN f => g[x] = 0
    PROVE  SumFunction(f) = SumFunctionOnSet(g, S)
<1> DEFINE T == DOMAIN f
           rest == S \ T
<1>1. T \cap rest = {} /\ T \cup rest = S /\ IsFiniteSet(T) /\ IsFiniteSet(rest)
  BY FS_Subset
<1>2. SumFunction(f) = SumFunctionOnSet(f, T)
  BY SumIsOnDomain
<1>3. SumFunctionOnSet(f, T) = SumFunctionOnSet(g, T)
  <2>1. \A x \in T : f[x] = g[x]
    OBVIOUS
  <2> HIDE DEF T
  <2> QED BY <1>1, <2>1, SumsAreSame
<1>4. SumFunctionOnSet(g, rest) = 0
  <2>1. \A x \in rest : g[x] = 0
    OBVIOUS
  <2> HIDE DEF rest
  <2> QED BY <1>1, <2>1, SumOfZeros
<1>5. SumFunctionOnSet(g, T) \in Nat
  <2>1. Natural(g, T)
    BY DEF Natural
  <2> HIDE DEF T
  <2> QED BY <1>1, <2>1, SumIsNatural
<1>6. SumFunctionOnSet(g, S) = SumFunctionOnSet(g, T) + SumFunctionOnSet(g, rest)
  <2> HIDE DEF T, rest
  <2> QED BY <1>1, SumOfParts
<1> HIDE DEF T, rest
<1> QED BY <1>2, <1>3, <1>4, <1>5, <1>6

\* What one place loses another gains.
LEMMA SumMoves ==
    ASSUME NEW S, IsFiniteSet(S), NEW f, Natural(f, S), NEW g, Natural(g, S),
           NEW x \in S, NEW y \in S, x # y, NEW n \in Nat,
           g[x] + n = f[x], g[y] = f[y] + n,
           \A z \in S : z # x /\ z # y => g[z] = f[z]
    PROVE  SumFunctionOnSet(g, S) = SumFunctionOnSet(f, S)
<1> DEFINE h == [z \in S |-> IF z = x THEN g[x] ELSE f[z]]
<1>1. Natural(h, S) /\ h[x] = g[x] /\ h[y] = f[y]
  BY DEF Natural
<1>2. \A z \in S : z # x => h[z] = f[z]
  OBVIOUS
<1>3. \A z \in S : z # y => g[z] = h[z]
  OBVIOUS
<1> HIDE DEF h
<1>4. SumFunctionOnSet(h, S) + f[x] = SumFunctionOnSet(f, S) + h[x]
  BY <1>1, <1>2, SumChanges
<1>5. SumFunctionOnSet(g, S) + h[y] = SumFunctionOnSet(h, S) + g[y]
  BY <1>1, <1>3, SumChanges
<1>6. /\ SumFunctionOnSet(f, S) \in Nat /\ SumFunctionOnSet(g, S) \in Nat
      /\ SumFunctionOnSet(h, S) \in Nat
  BY <1>1, SumIsNatural
<1>7. f[x] \in Nat /\ f[y] \in Nat /\ g[x] \in Nat /\ g[y] \in Nat
  BY DEF Natural
<1> QED BY <1>1, <1>4, <1>5, <1>6, <1>7

\* The values of g where the marks of k are in T.
Marked(g, k, S, T) == [p \in S |-> IF k[p] \in T THEN g[p] ELSE 0]

LEMMA MarkedIsNatural ==
    ASSUME NEW S, NEW g, Natural(g, S), NEW k, NEW T
    PROVE  Natural(Marked(g, k, S, T), S)
BY DEF Natural, Marked

\* Counted row by row: if each x of X has room for the values marked x, all of them
\* have room for all values.
LEMMA SumOfRows ==
    ASSUME NEW S, IsFiniteSet(S), NEW g, Natural(g, S),
           NEW X, IsFiniteSet(X), NEW h, Natural(h, X),
           NEW k, \A p \in S : k[p] \in X,
           \A x \in X : SumFunctionOnSet(Marked(g, k, S, {x}), S) <= h[x]
    PROVE  SumFunctionOnSet(g, S) <= SumFunctionOnSet(h, X)
<1> DEFINE Row(T) == SumFunctionOnSet(Marked(g, k, S, T), S)
           Room(T) == SumFunctionOnSet(h, T)
           P == {T \in SUBSET X : Row(T) <= Room(T)}
<1>1. {} \in P
  <2>1. \A p \in S : Marked(g, k, S, {})[p] = 0
    BY DEF Marked
  <2>2. Row({}) = 0
    BY <2>1, SumOfZeros
  <2>3. Room({}) = 0
    BY SumOfNothing
  <2> QED BY <2>2, <2>3
<1>2. ASSUME NEW T \in SUBSET X, NEW x \in T, T \ {x} \in P
      PROVE  T \in P
  <2>1. /\ IsFiniteSet(T) /\ Natural(h, T) /\ IsFiniteSet(T \ {x}) /\ Natural(h, T \ {x})
    BY FS_Subset DEF Natural
  <2>2. Room(T) = h[x] + Room(T \ {x}) /\ h[x] \in Nat
    BY <2>1, SumTakesOut DEF Natural
  <2>3. \A p \in S : Marked(g, k, S, T)[p]
                       = Marked(g, k, S, T \ {x})[p] + Marked(g, k, S, {x})[p]
    BY DEF Marked, Natural
  <2>4. /\ Natural(Marked(g, k, S, T \ {x}), S) /\ Natural(Marked(g, k, S, {x}), S)
    BY MarkedIsNatural
  <2>5. Row(T) = Row(T \ {x}) + Row({x})
    BY <2>3, <2>4, SumOfTwo
  <2>6. Row(T \ {x}) <= Room(T \ {x}) /\ Row({x}) <= h[x]
    BY <1>2
  <2>7. Row(T \ {x}) \in Nat /\ Row({x}) \in Nat /\ Room(T \ {x}) \in Nat
    BY <2>1, <2>4, SumIsNatural
  <2> HIDE DEF Row, Room
  <2>8. Row(T) <= Room(T)
    BY <2>2, <2>5, <2>6, <2>7
  <2> QED BY <2>8
<1>3. X \in P
  <2> HIDE DEF P
  <2> QED BY <1>1, <1>2, ElementInduction
<1>4. Row(X) = SumFunctionOnSet(g, S)
  <2>1. \A p \in S : Marked(g, k, S, X)[p] = g[p]
    BY DEF Marked
  <2> QED BY <2>1, SumsAreSame
<1> QED BY <1>3, <1>4

===============================================================================
