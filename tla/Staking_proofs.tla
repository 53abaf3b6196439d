---------------------------- MODULE Staking_proofs ----------------------------
(***************************************************************************)
(* Proofs about Staking.  The records of validators and of delegators, the  *)
(* queue and the balances are tied by sums over sets of any size, which the *)
(* lemmas of Sums_proofs take apart; decimals are multiples of 1/SCALE.     *)
(***************************************************************************)
EXTENDS Staking, Sums_proofs, SequenceTheorems

-----------------------------------------------------------------------------
(* Decimals *)

\* Decimal256::from_ratio(amount, 1) is a number of units, none only for none.
LEMMA Scaled ==
    ASSUME NEW a \in Nat
    PROVE  /\ Dec(a) \in Nat
           /\ Dec(a) = 0 <=> a = 0
<1>1. SCALE \in Nat /\ SCALE # 0
  BY ConstantsAssumption
<1>2. a * SCALE \in Nat
  BY <1>1
<1>3. a # 0 => a * SCALE # 0
  BY <1>1, Z3
<1>4. a = 0 => a * SCALE = 0
  BY <1>1, Z3
<1> QED BY <1>2, <1>3, <1>4 DEF Dec

\* The units of a sum.
LEMMA ScaledSum ==
    ASSUME NEW a \in Nat, NEW b \in Nat
    PROVE  Dec(a + b) = Dec(a) + Dec(b)
<1>1. SCALE \in Nat
  BY ConstantsAssumption
<1>2. (a + b) * SCALE = a * SCALE + b * SCALE
  BY <1>1, Z3
<1> QED BY <1>2 DEF Dec

\* Amounts are ordered like their units.
LEMMA ScaledAtMost ==
    ASSUME NEW a \in Nat, NEW b \in Nat, Dec(a) <= Dec(b)
    PROVE  a <= b
<1>1. SCALE \in Nat /\ SCALE # 0
  BY ConstantsAssumption
<1>2. a * SCALE <= b * SCALE => a <= b
  BY <1>1, Z3T(30)
<1> QED BY <1>2 DEF Dec

\* The whole tokens of a number of units.
LEMMA WholeIsNatural ==
    ASSUME NEW u \in Nat
    PROVE  Whole(u) \in Nat
BY ConstantsAssumption, Z3 DEF Whole

\* A whole number of tokens more.
LEMMA WholeOfSum ==
    ASSUME NEW u \in Nat, NEW a \in Nat
    PROVE  Whole(u + Dec(a)) = Whole(u) + a
<1>1. SCALE \in Nat /\ SCALE # 0
  BY ConstantsAssumption
<1>2. (u + a * SCALE) \div SCALE = (u \div SCALE) + a
  BY <1>1, Z3T(30)
<1> QED BY <1>2 DEF Whole, Dec

\* What is converted and back is the same.
LEMMA WholeOfScaled ==
    ASSUME NEW a \in Nat
    PROVE  Whole(Dec(a)) = a
<1>1. SCALE \in Nat /\ SCALE # 0
  BY ConstantsAssumption
<1>2. (a * SCALE) \div SCALE = a
  BY <1>1, Z3T(30)
<1> QED BY <1>2 DEF Whole, Dec

\* Rounding down keeps the order.
LEMMA WholeIsMonotone ==
    ASSUME NEW u \in Nat, NEW w \in Nat, u <= w
    PROVE  Whole(u) <= Whole(w)
<1>1. SCALE \in Nat /\ SCALE # 0
  BY ConstantsAssumption
<1>2. u \div SCALE <= w \div SCALE
  BY <1>1, Z3T(30)
<1> QED BY <1>2 DEF Whole

\* What a slash leaves of an amount: the share that remains, rounded down.
LEMMA Remaining ==
    ASSUME NEW u \in Nat, NEW remaining \in Nat, remaining <= SCALE
    PROVE  Whole(u * remaining) \in Nat /\ Whole(u * remaining) <= u
<1>1. SCALE \in Nat /\ SCALE # 0
  BY ConstantsAssumption
<1>2. u * remaining \in Nat
  OBVIOUS
<1>3. u * remaining <= u * SCALE
  BY <1>1, Z3T(30)
<1>4. Whole(u * remaining) <= Whole(u * SCALE)
  <2>1. u * SCALE \in Nat
    BY <1>1
  <2> QED BY <1>2, <1>3, <2>1, WholeIsMonotone
<1>5. Whole(u * SCALE) = u
  BY WholeOfScaled DEF Dec
<1> QED BY <1>2, <1>4, <1>5, WholeIsNatural

-----------------------------------------------------------------------------
(* What the records say, for any value of the storage *)

Entries == [Pairs -> Shares \cup {NoShares}]
StakeOf(sts, p) == IF sts[p] = NoShares THEN 0 ELSE sts[p].stake

Records(vals, now) ==
    \A v \in DOMAIN vals :
        /\ v \in Validators
        /\ vals[v] \in [stakers : SUBSET Delegators, stake : Nat, last : 0 .. now]

Finite(vals) == IsFiniteSet(DOMAIN vals) /\ \A v \in DOMAIN vals : IsFiniteSet(vals[v].stakers)

\* Who has shares is a staker; after a slash a staker may be without.
Linked(sts, vals) ==
    \A d \in Delegators, v \in Validators :
        sts[<<d, v>>] # NoShares => v \in DOMAIN vals /\ d \in vals[v].stakers

\* The stake of all validators, the whole tokens a delegator could undelegate,
\* and the units delegated to a validator.
Total(vals) == SumFunction([v \in DOMAIN vals |-> vals[v].stake])
Holdings(sts, d) == {v \in Validators : sts[<<d, v>>] # NoShares}
Held(sts, d) == SumFunction([v \in Holdings(sts, d) |-> Whole(sts[<<d, v>>].stake)])
Holders(sts, v) == {d \in Delegators : sts[<<d, v>>] # NoShares}
SharesSum(sts, v) == SumFunction([d \in Holders(sts, v) |-> sts[<<d, v>>].stake])

\* Before a slash nothing is rounded: every entry is a whole number of tokens and the
\* stake of a validator is their sum.
InStep(sts, vals) ==
    \A v \in DOMAIN vals :
        /\ vals[v].stakers = Holders(sts, v)
        /\ SharesSum(sts, v) = Dec(vals[v].stake)
        /\ \A d \in Holders(sts, v) : \E n \in Nat \ {0} : sts[<<d, v>>].stake = Dec(n)

\* One entry of a delegator changed, and the record of the validator with it.
Changed(sts, vals, sts2, vals2, d, v) ==
    /\ \A p \in Pairs : p # <<d, v>> => sts2[p] = sts[p]
    /\ DOMAIN vals2 = DOMAIN vals
    /\ \A w \in DOMAIN vals : w # v => vals2[w] = vals[w]
    /\ vals2[v].stakers = IF sts2[<<d, v>>] = NoShares THEN vals[v].stakers \ {d}
                          ELSE vals[v].stakers \cup {d}

LEMMA StakeIsNatural ==
    ASSUME NEW sts \in Entries, NEW p \in Pairs
    PROVE  StakeOf(sts, p) \in Nat
BY NoSharesAssumption DEF Entries, StakeOf, Shares

\* What a delegator holds is a sum over any finite set that has its validators.
LEMMA HeldOver ==
    ASSUME NEW sts \in Entries, NEW d \in Delegators,
           NEW D \in SUBSET Validators, IsFiniteSet(D), Holdings(sts, d) \subseteq D
    PROVE  LET g == [v \in D |-> Whole(StakeOf(sts, <<d, v>>))]
           IN  Natural(g, D) /\ Held(sts, d) = SumFunctionOnSet(g, D)
<1> DEFINE f == [v \in Holdings(sts, d) |-> Whole(sts[<<d, v>>].stake)]
           g == [v \in D |-> Whole(StakeOf(sts, <<d, v>>))]
<1>1. \A v \in D : StakeOf(sts, <<d, v>>) \in Nat
  BY StakeIsNatural DEF Pairs
<1>2. Natural(g, D)
  BY <1>1, WholeIsNatural DEF Natural
<1>3. \A v \in DOMAIN f : g[v] = f[v]
  BY DEF StakeOf, Holdings
<1>4. Whole(0) = 0
  BY WholeOfScaled, Scaled
<1>5. \A v \in D : v \notin DOMAIN f => g[v] = 0
  BY <1>4 DEF StakeOf, Holdings
<1>6. DOMAIN f \subseteq D
  OBVIOUS
<1>7. Held(sts, d) = SumFunction(f)
  BY DEF Held
<1>8. SumFunction(f) = SumFunctionOnSet(g, D)
  <2> HIDE DEF f, g
  <2> QED BY <1>2, <1>3, <1>5, <1>6, SumWithin
<1> QED BY <1>2, <1>7, <1>8

\* The shares with a validator are a sum over any finite set that has its holders.
LEMMA SharesOver ==
    ASSUME NEW sts \in Entries, NEW v \in Validators,
           NEW D \in SUBSET Delegators, IsFiniteSet(D), Holders(sts, v) \subseteq D
    PROVE  LET g == [d \in D |-> StakeOf(sts, <<d, v>>)]
           IN  Natural(g, D) /\ SharesSum(sts, v) = SumFunctionOnSet(g, D)
<1> DEFINE f == [d \in Holders(sts, v) |-> sts[<<d, v>>].stake]
           g == [d \in D |-> StakeOf(sts, <<d, v>>)]
<1>1. \A d \in D : StakeOf(sts, <<d, v>>) \in Nat
  BY StakeIsNatural DEF Pairs
<1>2. Natural(g, D)
  BY <1>1 DEF Natural
<1>3. \A d \in DOMAIN f : g[d] = f[d]
  BY DEF StakeOf, Holders
<1>4. \A d \in D : d \notin DOMAIN f => g[d] = 0
  BY DEF StakeOf, Holders
<1>5. DOMAIN f \subseteq D
  OBVIOUS
<1>6. SharesSum(sts, v) = SumFunction(f)
  BY DEF SharesSum
<1>7. SumFunction(f) = SumFunctionOnSet(g, D)
  <2> HIDE DEF f, g
  <2> QED BY <1>2, <1>3, <1>4, <1>5, SumWithin
<1> QED BY <1>2, <1>6, <1>7

LEMMA TotalOver ==
    ASSUME NEW vals, NEW now \in Nat, Records(vals, now)
    PROVE  LET g == [v \in DOMAIN vals |-> vals[v].stake]
           IN  Natural(g, DOMAIN vals) /\ Total(vals) = SumFunctionOnSet(g, DOMAIN vals)
<1> DEFINE g == [v \in DOMAIN vals |-> vals[v].stake]
<1>1. Natural(g, DOMAIN vals)
  BY DEF Natural, Records
<1>2. SumFunction(g) = SumFunctionOnSet(g, DOMAIN g)
  BY SumIsOnDomain
<1> QED BY <1>1, <1>2 DEF Total

-----------------------------------------------------------------------------
(* What a change of one entry does to the sums *)

\* The stake of all validators changes by what that of one does.
LEMMA ChangedTotal ==
    ASSUME NEW sts, NEW sts2, NEW vals, NEW vals2, NEW d, NEW v \in DOMAIN vals,
           NEW now \in Nat, Records(vals, now), Records(vals2, now), Finite(vals),
           Changed(sts, vals, sts2, vals2, d, v)
    PROVE  Total(vals2) + vals[v].stake = Total(vals) + vals2[v].stake
<1> DEFINE D == DOMAIN vals
           f == [w \in D |-> vals[w].stake]
           g == [w \in D |-> vals2[w].stake]
<1>1. IsFiniteSet(D) /\ D = DOMAIN vals2
  BY DEF Finite, Changed
<1>2. Natural(f, D) /\ Total(vals) = SumFunctionOnSet(f, D)
  BY TotalOver
<1>3. Natural(g, D) /\ Total(vals2) = SumFunctionOnSet(g, D)
  BY <1>1, TotalOver
<1>4. \A w \in D : w # v => g[w] = f[w]
  BY DEF Changed
<1>5. f[v] = vals[v].stake /\ g[v] = vals2[v].stake /\ v \in D
  OBVIOUS
<1>6. SumFunctionOnSet(g, D) + f[v] = SumFunctionOnSet(f, D) + g[v]
  <2> HIDE DEF f, g, D
  <2> QED BY <1>1, <1>2, <1>3, <1>4, <1>5, SumChanges
<1> HIDE DEF f, g, D
<1> QED BY <1>2, <1>3, <1>5, <1>6

\* What the delegator holds changes by the whole tokens of the entry; what others
\* hold does not.
LEMMA ChangedHeld ==
    ASSUME NEW sts \in Entries, NEW sts2 \in Entries, NEW vals, NEW vals2,
           NEW d \in Delegators, NEW v \in DOMAIN vals,
           NEW now \in Nat, Records(vals, now), Finite(vals),
           Linked(sts, vals), Linked(sts2, vals2),
           Changed(sts, vals, sts2, vals2, d, v)
    PROVE  /\ Held(sts2, d) + Whole(StakeOf(sts, <<d, v>>))
                  = Held(sts, d) + Whole(StakeOf(sts2, <<d, v>>))
           /\ \A e \in Delegators : e # d => Held(sts2, e) = Held(sts, e)
<1> DEFINE D == DOMAIN vals
           f(e) == [w \in D |-> Whole(StakeOf(sts, <<e, w>>))]
           g(e) == [w \in D |-> Whole(StakeOf(sts2, <<e, w>>))]
<1>1. IsFiniteSet(D) /\ D = DOMAIN vals2 /\ D \in SUBSET Validators
  BY DEF Finite, Changed, Records
<1>2. ASSUME NEW e \in Delegators
      PROVE  /\ Natural(f(e), D) /\ Held(sts, e) = SumFunctionOnSet(f(e), D)
             /\ Natural(g(e), D) /\ Held(sts2, e) = SumFunctionOnSet(g(e), D)
  <2>1. Holdings(sts, e) \subseteq D
    BY DEF Holdings, Linked
  <2>2. Holdings(sts2, e) \subseteq D
    BY <1>1 DEF Holdings, Linked
  <2>3. Natural(f(e), D) /\ Held(sts, e) = SumFunctionOnSet(f(e), D)
    <3> HIDE DEF D
    <3> QED BY <1>1, <2>1, HeldOver
  <2>4. Natural(g(e), D) /\ Held(sts2, e) = SumFunctionOnSet(g(e), D)
    <3> HIDE DEF D
    <3> QED BY <1>1, <2>2, HeldOver
  <2> QED BY <2>3, <2>4
<1>3. ASSUME NEW e \in Delegators, NEW w \in D, <<e, w>> # <<d, v>>
      PROVE  g(e)[w] = f(e)[w]
  <2>1. <<e, w>> \in Pairs
    BY <1>1 DEF Pairs
  <2> QED BY <1>3, <2>1 DEF Changed, StakeOf
<1>4. \A w \in D : w # v => g(d)[w] = f(d)[w]
  BY <1>3
<1>5. f(d)[v] = Whole(StakeOf(sts, <<d, v>>)) /\ g(d)[v] = Whole(StakeOf(sts2, <<d, v>>)) /\ v \in D
  OBVIOUS
<1>6. SumFunctionOnSet(g(d), D) + f(d)[v] = SumFunctionOnSet(f(d), D) + g(d)[v]
  <2>1. Natural(f(d), D) /\ Natural(g(d), D)
    BY <1>2
  <2> HIDE DEF f, g, D
  <2> QED BY <1>1, <1>4, <1>5, <2>1, SumChanges
<1>7. ASSUME NEW e \in Delegators, e # d
      PROVE  Held(sts2, e) = Held(sts, e)
  <2>1. \A w \in D : g(e)[w] = f(e)[w]
    BY <1>3, <1>7
  <2>2. SumFunctionOnSet(g(e), D) = SumFunctionOnSet(f(e), D)
    <3> HIDE DEF f, g, D
    <3> QED BY <1>1, <2>1, SumsAreSame
  <2> QED BY <1>2, <2>2
<1>8. Held(sts, d) = SumFunctionOnSet(f(d), D) /\ Held(sts2, d) = SumFunctionOnSet(g(d), D)
  BY <1>2
<1>9. Held(sts2, d) + Whole(StakeOf(sts, <<d, v>>)) = Held(sts, d) + Whole(StakeOf(sts2, <<d, v>>))
  <2> HIDE DEF f, g, D
  <2> QED BY <1>5, <1>6, <1>8
<1> QED BY <1>7, <1>9

\* The units with the validator change by those of the entry; those with others
\* do not.
LEMMA ChangedShares ==
    ASSUME NEW sts \in Entries, NEW sts2 \in Entries, NEW vals, NEW vals2,
           NEW d \in Delegators, NEW v \in DOMAIN vals,
           NEW now \in Nat, Records(vals, now), Finite(vals),
           Linked(sts, vals), Linked(sts2, vals2),
           Changed(sts, vals, sts2, vals2, d, v)
    PROVE  /\ SharesSum(sts2, v) + StakeOf(sts, <<d, v>>)
                  = SharesSum(sts, v) + StakeOf(sts2, <<d, v>>)
           /\ \A w \in DOMAIN vals : w # v => SharesSum(sts2, w) = SharesSum(sts, w)
<1> DEFINE D == vals[v].stakers \cup {d}
           f == [e \in D |-> StakeOf(sts, <<e, v>>)]
           g == [e \in D |-> StakeOf(sts2, <<e, v>>)]
<1>1. v \in Validators /\ D \in SUBSET Delegators
  BY DEF Records
<1>2. IsFiniteSet(D)
  BY FS_AddElement DEF Finite
<1>3. Holders(sts, v) \subseteq D
  BY <1>1 DEF Holders, Linked
<1>4. Holders(sts2, v) \subseteq D
  BY <1>1 DEF Holders, Linked, Changed
<1>5. Natural(f, D) /\ SharesSum(sts, v) = SumFunctionOnSet(f, D)
  <2> HIDE DEF D
  <2> QED BY <1>1, <1>2, <1>3, SharesOver
<1>6. Natural(g, D) /\ SharesSum(sts2, v) = SumFunctionOnSet(g, D)
  <2> HIDE DEF D
  <2> QED BY <1>1, <1>2, <1>4, SharesOver
<1>7. \A e \in D : e # d => g[e] = f[e]
  <2>1. \A e \in D : <<e, v>> \in Pairs
    BY <1>1 DEF Pairs
  <2> QED BY <2>1 DEF Changed, StakeOf
<1>8. f[d] = StakeOf(sts, <<d, v>>) /\ g[d] = StakeOf(sts2, <<d, v>>) /\ d \in D
  OBVIOUS
<1>9. SumFunctionOnSet(g, D) + f[d] = SumFunctionOnSet(f, D) + g[d]
  <2> HIDE DEF f, g, D
  <2> QED BY <1>2, <1>5, <1>6, <1>7, <1>8, SumChanges
<1>10. ASSUME NEW w \in DOMAIN vals, w # v
       PROVE  SharesSum(sts2, w) = SharesSum(sts, w)
  <2>1. \A e \in Delegators : sts2[<<e, w>>] = sts[<<e, w>>]
    <3>1. w \in Validators
      BY DEF Records
    <3>2. \A e \in Delegators : <<e, w>> \in Pairs /\ <<e, w>> # <<d, v>>
      BY <1>10, <3>1 DEF Pairs
    <3> QED BY <3>2 DEF Changed
  <2>2. Holders(sts2, w) = Holders(sts, w)
    BY <2>1 DEF Holders
  <2>3. [e \in Holders(sts2, w) |-> sts2[<<e, w>>].stake]
            = [e \in Holders(sts, w) |-> sts[<<e, w>>].stake]
    BY <2>1, <2>2 DEF Holders
  <2> QED BY <2>3 DEF SharesSum
<1>11. SharesSum(sts2, v) + StakeOf(sts, <<d, v>>) = SharesSum(sts, v) + StakeOf(sts2, <<d, v>>)
  <2> HIDE DEF f, g, D
  <2> QED BY <1>5, <1>6, <1>8, <1>9
<1> QED BY <1>10, <1>11

\* Records that are in step stay so when the entry and the stake of the validator
\* change by the same whole number of tokens.
LEMMA ChangedInStep ==
    ASSUME NEW sts \in Entries, NEW sts2 \in Entries, NEW vals, NEW vals2,
           NEW d \in Delegators, NEW v \in DOMAIN vals,
           NEW now \in Nat, Records(vals, now), Records(vals2, now), Finite(vals),
           Linked(sts, vals), Linked(sts2, vals2),
           Changed(sts, vals, sts2, vals2, d, v),
           InStep(sts, vals),
           StakeOf(sts2, <<d, v>>) + Dec(vals[v].stake) = StakeOf(sts, <<d, v>>) + Dec(vals2[v].stake),
           sts2[<<d, v>>] # NoShares => \E n \in Nat \ {0} : sts2[<<d, v>>].stake = Dec(n)
    PROVE  InStep(sts2, vals2)
<1>1. v \in Validators /\ v \in DOMAIN vals2 /\ DOMAIN vals2 = DOMAIN vals
  BY DEF Records, Changed
<1>2. SharesSum(sts2, v) + StakeOf(sts, <<d, v>>) = SharesSum(sts, v) + StakeOf(sts2, <<d, v>>)
  BY ChangedShares
<1>3. \A w \in DOMAIN vals : w # v => SharesSum(sts2, w) = SharesSum(sts, w)
  BY ChangedShares
<1>4. ASSUME NEW w \in DOMAIN vals2, NEW e \in Delegators, <<e, w>> # <<d, v>>
      PROVE  sts2[<<e, w>>] = sts[<<e, w>>]
  <2>1. <<e, w>> \in Pairs
    BY DEF Records, Pairs
  <2> QED BY <1>4, <2>1 DEF Changed
<1>5. ASSUME NEW w \in DOMAIN vals2
      PROVE  vals2[w].stakers = Holders(sts2, w)
  <2>1. CASE w # v
    <3>1. Holders(sts2, w) = Holders(sts, w)
      BY <1>4, <2>1 DEF Holders
    <3>2. vals2[w] = vals[w] /\ w \in DOMAIN vals
      BY <1>1, <2>1 DEF Changed
    <3> QED BY <3>1, <3>2 DEF InStep
  <2>2. CASE w = v
    <3>1. Holders(sts2, v) = IF sts2[<<d, v>>] = NoShares THEN Holders(sts, v) \ {d}
                             ELSE Holders(sts, v) \cup {d}
      <4>1. \A e \in Delegators : e # d => sts2[<<e, v>>] = sts[<<e, v>>]
        BY <1>1, <1>4
      <4> QED BY <4>1 DEF Holders
    <3>2. vals[v].stakers = Holders(sts, v)
      BY DEF InStep
    <3> QED BY <2>2, <3>1, <3>2 DEF Changed
  <2> QED BY <2>1, <2>2
<1>6. ASSUME NEW w \in DOMAIN vals2
      PROVE  SharesSum(sts2, w) = Dec(vals2[w].stake)
  <2>1. CASE w # v
    <3>1. vals2[w] = vals[w] /\ w \in DOMAIN vals
      BY <1>1, <2>1 DEF Changed
    <3> QED BY <1>3, <2>1, <3>1 DEF InStep
  <2>2. CASE w = v
    <3>1. SharesSum(sts, v) = Dec(vals[v].stake)
      BY DEF InStep
    <3>2. vals[v].stake \in Nat /\ vals2[v].stake \in Nat
      BY <1>1 DEF Records
    <3>3. Dec(vals[v].stake) \in Nat /\ Dec(vals2[v].stake) \in Nat
      BY <3>2, Scaled
    <3>4. StakeOf(sts, <<d, v>>) \in Nat /\ StakeOf(sts2, <<d, v>>) \in Nat
      BY <1>1, StakeIsNatural DEF Pairs
    <3>5. SharesSum(sts2, v) \in Nat
      <4> DEFINE D == vals2[v].stakers
                 g == [e \in D |-> StakeOf(sts2, <<e, v>>)]
      <4>1. D = Holders(sts2, v) /\ D \in SUBSET Delegators
        BY <1>1, <1>5 DEF Records
      <4>2. IsFiniteSet(D)
        <5>1. IsFiniteSet(vals[v].stakers)
          BY DEF Finite
        <5>2. IsFiniteSet(vals[v].stakers \cup {d}) /\ IsFiniteSet(vals[v].stakers \ {d})
          BY <5>1, FS_AddElement, FS_RemoveElement
        <5> QED BY <5>2 DEF Changed
      <4>3. Natural(g, D) /\ SharesSum(sts2, v) = SumFunctionOnSet(g, D)
        <5>1. Holders(sts2, v) \subseteq D
          BY <4>1
        <5> HIDE DEF D
        <5> QED BY <1>1, <4>1, <4>2, <5>1, SharesOver
      <4> HIDE DEF D, g
      <4> QED BY <4>2, <4>3, SumIsNatural
    <3> QED BY <1>2, <2>2, <3>1, <3>3, <3>4, <3>5
  <2> QED BY <2>1, <2>2
<1>7. ASSUME NEW w \in DOMAIN vals2, NEW e \in Holders(sts2, w)
      PROVE  \E n \in Nat \ {0} : sts2[<<e, w>>].stake = Dec(n)
  <2>1. CASE <<e, w>> = <<d, v>>
    BY <2>1 DEF Holders
  <2>2. CASE <<e, w>> # <<d, v>>
    <3>1. e \in Delegators /\ sts2[<<e, w>>] = sts[<<e, w>>]
      BY <1>4, <2>2 DEF Holders
    <3>2. e \in Holders(sts, w) /\ w \in DOMAIN vals
      BY <1>1, <1>7, <3>1 DEF Holders
    <3> QED BY <3>1, <3>2 DEF InStep
  <2> QED BY <2>1, <2>2
<1> QED BY <1>5, <1>6, <1>7 DEF InStep

\* The records of validators and delegators, as every state has them.
Good(sts, vals, now) ==
    /\ sts \in Entries
    /\ Records(vals, now)
    /\ Finite(vals)
    /\ Linked(sts, vals)

LEMMA SumsAreNatural ==
    ASSUME NEW sts, NEW vals, NEW now \in Nat, Good(sts, vals, now)
    PROVE  /\ Total(vals) \in Nat
           /\ \A d \in Delegators : Held(sts, d) \in Nat
<1> DEFINE D == DOMAIN vals
<1>1. IsFiniteSet(D) /\ D \in SUBSET Validators
  BY DEF Good, Finite, Records
<1>2. Total(vals) \in Nat
  <2> DEFINE g == [v \in D |-> vals[v].stake]
  <2>1. Natural(g, D) /\ Total(vals) = SumFunctionOnSet(g, D)
    BY TotalOver DEF Good
  <2> HIDE DEF D, g
  <2> QED BY <1>1, <2>1, SumIsNatural
<1>3. ASSUME NEW d \in Delegators PROVE Held(sts, d) \in Nat
  <2> DEFINE g == [v \in D |-> Whole(StakeOf(sts, <<d, v>>))]
  <2>1. Holdings(sts, d) \subseteq D
    BY DEF Good, Linked, Holdings
  <2>2. sts \in Entries
    BY DEF Good
  <2>3. Natural(g, D) /\ Held(sts, d) = SumFunctionOnSet(g, D)
    <3> HIDE DEF D
    <3> QED BY <1>1, <2>1, <2>2, HeldOver
  <2> HIDE DEF D, g
  <2> QED BY <1>1, <2>3, SumIsNatural
<1> QED BY <1>2, <1>3

\* Records with the same entries, stakes and stakers: rewards and times may differ.
SameStakes(sts, vals, sts2, vals2) ==
    /\ \A p \in Pairs : sts2[p] = NoShares <=> sts[p] = NoShares
    /\ \A p \in Pairs : sts[p] # NoShares => sts2[p].stake = sts[p].stake
    /\ DOMAIN vals2 = DOMAIN vals
    /\ \A v \in DOMAIN vals : vals2[v].stakers = vals[v].stakers /\ vals2[v].stake = vals[v].stake

LEMMA SameSums ==
    ASSUME NEW sts, NEW vals, NEW sts2, NEW vals2, DOMAIN vals \subseteq Validators,
           SameStakes(sts, vals, sts2, vals2)
    PROVE  /\ Finite(vals) => Finite(vals2)
           /\ Linked(sts, vals) => Linked(sts2, vals2)
           /\ InStep(sts, vals) => InStep(sts2, vals2)
           /\ Total(vals2) = Total(vals)
           /\ \A d \in Delegators : Held(sts2, d) = Held(sts, d)
<1>1. ASSUME NEW d \in Delegators, NEW v \in Validators
      PROVE  /\ sts2[<<d, v>>] = NoShares <=> sts[<<d, v>>] = NoShares
             /\ sts[<<d, v>>] # NoShares => sts2[<<d, v>>].stake = sts[<<d, v>>].stake
  <2>1. <<d, v>> \in Pairs
    BY DEF Pairs
  <2> QED BY <2>1 DEF SameStakes
<1>2. Finite(vals) => Finite(vals2)
  BY DEF Finite, SameStakes
<1>3. Linked(sts, vals) => Linked(sts2, vals2)
  BY <1>1 DEF Linked, SameStakes
<1>4. Total(vals2) = Total(vals)
  <2>1. [v \in DOMAIN vals2 |-> vals2[v].stake] = [v \in DOMAIN vals |-> vals[v].stake]
    BY DEF SameStakes
  <2> QED BY <2>1 DEF Total
<1>5. ASSUME NEW d \in Delegators PROVE Held(sts2, d) = Held(sts, d)
  <2>1. Holdings(sts2, d) = Holdings(sts, d)
    BY <1>1 DEF Holdings
  <2>2. [v \in Holdings(sts2, d) |-> Whole(sts2[<<d, v>>].stake)]
            = [v \in Holdings(sts, d) |-> Whole(sts[<<d, v>>].stake)]
    BY <1>1, <2>1 DEF Holdings
  <2> QED BY <2>2 DEF Held
<1>6. InStep(sts, vals) => InStep(sts2, vals2)
  <2> SUFFICES ASSUME InStep(sts, vals), NEW v \in DOMAIN vals2
               PROVE  /\ vals2[v].stakers = Holders(sts2, v)
                      /\ SharesSum(sts2, v) = Dec(vals2[v].stake)
                      /\ \A d \in Holders(sts2, v) : \E n \in Nat \ {0} : sts2[<<d, v>>].stake = Dec(n)
    BY DEF InStep
  <2>1. v \in DOMAIN vals /\ v \in Validators
    BY DEF SameStakes
  <2>2. vals2[v].stakers = vals[v].stakers /\ vals2[v].stake = vals[v].stake
    BY <2>1 DEF SameStakes
  <2>3. Holders(sts2, v) = Holders(sts, v)
    BY <1>1, <2>1 DEF Holders
  <2>4. [d \in Holders(sts2, v) |-> sts2[<<d, v>>].stake]
            = [d \in Holders(sts, v) |-> sts[<<d, v>>].stake]
    BY <1>1, <2>1, <2>3 DEF Holders
  <2>5. SharesSum(sts2, v) = SharesSum(sts, v)
    BY <2>4 DEF SharesSum
  <2>6. \A d \in Holders(sts2, v) : sts2[<<d, v>>].stake = sts[<<d, v>>].stake
    BY <1>1, <2>1, <2>3 DEF Holders
  <2> QED BY <2>1, <2>2, <2>3, <2>5, <2>6 DEF InStep
<1> QED BY <1>2, <1>3, <1>4, <1>5, <1>6

-----------------------------------------------------------------------------
(* update_rewards *)

LEMMA NewRewardsAreNatural ==
    ASSUME time \in Nat, Records(validators, time), NEW v \in DOMAIN validators
    PROVE  NewRewards(v) \in Nat
<1> DEFINE n == validators[v].stake
           m == validators[v].last
<1>1. n \in Nat /\ m \in 0 .. time /\ RATE \in Nat
  BY ConstantsAssumption DEF Records
<1>2. time - m \in Nat
  BY <1>1
<1>3. n * RATE \in Nat
  BY <1>1
<1>4. \A a \in Nat, b \in Nat : a * b \in Nat
  OBVIOUS
<1>5. n * RATE * (time - m) \in Nat
  <2> HIDE DEF n, m
  <2> QED BY <1>2, <1>3, <1>4
<1> QED BY <1>5 DEF NewRewards

LEMMA QuotientIsNatural ==
    ASSUME NEW a \in Nat, NEW b \in Nat, b # 0
    PROVE  a \div b \in Nat
BY Z3

\* share_of_rewards divides by the stake of the validator only when there is any.
LEMMA RewardsAreNatural ==
    ASSUME time \in Nat, Records(validators, time), NEW v \in DOMAIN validators,
           stakes \in Entries, NEW d \in Delegators, HasShares(d, v)
    PROVE  Rewards(d, v) \in Nat
<1> DEFINE old == stakes[<<d, v>>]
           n == validators[v].stake
           new == NewRewards(v)
<1>1. old \in Shares /\ old.stake \in Nat /\ old.rewards \in Nat
  BY DEF HasShares, Entries, Pairs, Records, Shares
<1>2. new \in Nat
  BY NewRewardsAreNatural
<1>3. n \in Nat
  BY DEF Records
<1>4. SCALE \in Nat /\ SCALE # 0
  BY ConstantsAssumption
<1>5. ShareOfRewards(d, v, new) = IF n = 0 THEN 0 ELSE ((new * old.stake) \div SCALE) \div n
  BY DEF ShareOfRewards, Times
<1>6. ShareOfRewards(d, v, new) \in Nat
  <2> DEFINE k == old.stake
             product == new * k
             quotient == product \div SCALE
  <2>1. product \in Nat
    <3>1. k \in Nat
      BY <1>1
    <3> HIDE DEF new, k
    <3> QED BY <1>2, <3>1
  <2>2. quotient \in Nat
    <3> HIDE DEF product
    <3> QED BY <1>4, <2>1, QuotientIsNatural
  <2>3. n # 0 => quotient \div n \in Nat
    <3> HIDE DEF quotient, n
    <3> QED BY <1>3, <2>2, QuotientIsNatural
  <2>4. ShareOfRewards(d, v, new) = IF n = 0 THEN 0 ELSE quotient \div n
    BY <1>5
  <2> HIDE DEF quotient, n, new
  <2> QED BY <2>3, <2>4
<1>7. Rewards(d, v) = old.rewards + ShareOfRewards(d, v, new)
  BY DEF Rewards
<1> HIDE DEF old, new
<1> QED BY <1>1, <1>6, <1>7

\* Calculating rewards changes no stake.
LEMMA UpdatedIsSame ==
    ASSUME time \in Nat, Good(stakes, validators, time), NEW v \in DOMAIN validators,
           ~UpdatePanics(v)
    PROVE  /\ Good(UpdatedStakes(v), UpdatedValidators(v), time)
           /\ SameStakes(stakes, validators, UpdatedStakes(v), UpdatedValidators(v))
<1> DEFINE sts == UpdatedStakes(v)
           vals == UpdatedValidators(v)
<1>1. stakes \in Entries /\ Records(validators, time)
  BY DEF Good
<1>2. ASSUME NEW p \in Pairs
      PROVE  /\ sts[p] \in Shares \cup {NoShares}
             /\ sts[p] = NoShares <=> stakes[p] = NoShares
             /\ stakes[p] # NoShares => sts[p].stake = stakes[p].stake
  <2>1. CASE p[2] = v /\ p[1] \in validators[v].stakers /\ NewRewards(v) # 0
    <3>1. p = <<p[1], v>> /\ p[1] \in Delegators
      BY <2>1 DEF Pairs
    <3>2. HasShares(p[1], v)
      BY <2>1 DEF UpdatePanics, StakersExist
    <3>3. Rewards(p[1], v) \in Nat
      BY <1>1, <3>1, <3>2, RewardsAreNatural
    <3>4. stakes[p] \in Shares
      BY <1>1, <3>1, <3>2 DEF HasShares, Entries
    <3>5. sts[p] = [stakes[p] EXCEPT !.rewards = Rewards(p[1], v)]
      BY <2>1 DEF UpdatedStakes
    <3>6. sts[p] \in Shares /\ sts[p].stake = stakes[p].stake
      BY <3>3, <3>4, <3>5 DEF Shares
    <3> QED BY <3>4, <3>6, NoSharesAssumption
  <2>2. CASE ~(p[2] = v /\ p[1] \in validators[v].stakers /\ NewRewards(v) # 0)
    <3>1. sts[p] = stakes[p]
      BY <2>2 DEF UpdatedStakes
    <3> QED BY <1>1, <3>1 DEF Entries
  <2> QED BY <2>1, <2>2
<1>3. sts \in Entries
  <2>1. sts = [p \in Pairs |-> sts[p]]
    BY DEF UpdatedStakes
  <2> HIDE DEF sts
  <2> QED BY <1>2, <2>1 DEF Entries
<1>4. DOMAIN vals = DOMAIN validators
  BY DEF UpdatedValidators
<1>5. ASSUME NEW w \in DOMAIN validators
      PROVE  /\ vals[w].stakers = validators[w].stakers
             /\ vals[w].stake = validators[w].stake
             /\ vals[w] \in [stakers : SUBSET Delegators, stake : Nat, last : 0 .. time]
  <2>1. validators[w] \in [stakers : SUBSET Delegators, stake : Nat, last : 0 .. time]
    BY <1>1 DEF Records
  <2>2. vals[w] = IF w = v THEN [validators[w] EXCEPT !.last = time] ELSE validators[w]
    BY DEF UpdatedValidators
  <2> QED BY <2>1, <2>2
<1>6. Records(vals, time)
  <2>1. DOMAIN validators \subseteq Validators
    BY <1>1 DEF Records
  <2> QED BY <1>4, <1>5, <2>1 DEF Records
<1>7. SameStakes(stakes, validators, sts, vals)
  BY <1>2, <1>4, <1>5 DEF SameStakes
<1>8. Finite(vals) /\ Linked(sts, vals)
  <2>1. DOMAIN validators \subseteq Validators
    BY <1>1 DEF Records
  <2> HIDE DEF sts, vals
  <2> QED BY <1>7, <2>1, SameSums DEF Good
<1> QED BY <1>3, <1>6, <1>7, <1>8 DEF Good

-----------------------------------------------------------------------------
(* add_stake and remove_stake *)

\* The record of the validator that is saved.
LEMMA SavedRecord ==
    ASSUME NEW vals, NEW now \in Nat, NEW d \in Delegators, NEW v \in DOMAIN vals,
           NEW shares, NEW total \in Nat,
           vals[v] \in [stakers : SUBSET Delegators, stake : Nat, last : 0 .. now]
    PROVE  LET vals2 == SavedValidators(vals, d, v, shares, total)
           IN  /\ DOMAIN vals2 = DOMAIN vals
               /\ \A w \in DOMAIN vals : w # v => vals2[w] = vals[w]
               /\ vals2[v].stake = total
               /\ vals2[v].stakers = IF shares.stake = 0 THEN vals[v].stakers \ {d}
                                     ELSE vals[v].stakers \cup {d}
               /\ vals2[v] \in [stakers : SUBSET Delegators, stake : Nat, last : 0 .. now]
<1> DEFINE old == vals[v]
           stakers == IF shares.stake = 0 THEN old.stakers \ {d} ELSE old.stakers \cup {d}
           new == [stakers |-> stakers, stake |-> total, last |-> old.last]
           vals2 == SavedValidators(vals, d, v, shares, total)
<1>1. vals2 = [vals EXCEPT ![v].stake = total, ![v].stakers = stakers]
  BY DEF SavedValidators
<1>2. /\ DOMAIN vals2 = DOMAIN vals
      /\ \A w \in DOMAIN vals : w # v => vals2[w] = vals[w]
  <2> HIDE DEF stakers, old
  <2> QED BY <1>1
<1>3. vals2[v] = new
  <2>1. vals2[v] = [[old EXCEPT !.stake = total] EXCEPT !.stakers = stakers]
    <3> HIDE DEF stakers
    <3> QED BY <1>1
  <2> HIDE DEF vals2, stakers, old
  <2>2. old \in [stakers : SUBSET Delegators, stake : Nat, last : 0 .. now]
    BY DEF old
  <2> QED BY <2>1, <2>2
<1>4. stakers \in SUBSET Delegators /\ old.last \in 0 .. now
  OBVIOUS
<1>5. new \in [stakers : SUBSET Delegators, stake : Nat, last : 0 .. now]
  <2> HIDE DEF stakers, old
  <2> QED BY <1>4
<1>6. new.stake = total /\ new.stakers = stakers
  <2> HIDE DEF stakers, old
  <2> QED OBVIOUS
<1> HIDE DEF new
<1> QED BY <1>2, <1>3, <1>5, <1>6

\* add_stake: the delegator holds the amount more, and so does the validator.
LEMMA AddedStake ==
    ASSUME NEW sts, NEW vals, NEW now \in Nat, Good(sts, vals, now),
           NEW d \in Delegators, NEW v \in DOMAIN vals, NEW amount \in Nat
    PROVE  LET after == Added([stakes |-> sts, validators |-> vals], d, v, amount)
           IN  /\ Good(after.stakes, after.validators, now)
               /\ Total(after.validators) = Total(vals) + amount
               /\ Held(after.stakes, d) = Held(sts, d) + amount
               /\ \A e \in Delegators : e # d => Held(after.stakes, e) = Held(sts, e)
               /\ InStep(sts, vals) => InStep(after.stakes, after.validators)
               /\ DOMAIN after.validators = DOMAIN vals
<1> DEFINE st == [stakes |-> sts, validators |-> vals]
           old == SharesOf(sts, d, v)
           shares == [old EXCEPT !.stake = @ + Dec(amount)]
           total == vals[v].stake + amount
           sts2 == SavedStakes(sts, d, v, shares)
           vals2 == SavedValidators(vals, d, v, shares, total)
           after == Added(st, d, v, amount)
<1>1. sts \in Entries /\ Records(vals, now) /\ Finite(vals) /\ Linked(sts, vals)
  BY DEF Good
<1>2. v \in Validators /\ <<d, v>> \in Pairs
  BY <1>1 DEF Records, Pairs
<1>3. Dec(amount) \in Nat
  BY Scaled
<1>4. old \in Shares /\ old.stake = StakeOf(sts, <<d, v>>)
  BY <1>1, <1>2 DEF SharesOf, StakeOf, Entries, Shares
<1>5. shares \in Shares /\ shares.stake = StakeOf(sts, <<d, v>>) + Dec(amount)
  <2> HIDE DEF old
  <2> QED BY <1>3, <1>4 DEF Shares
<1>6. /\ \A p \in Pairs : p # <<d, v>> => sts2[p] = sts[p]
      /\ sts2[<<d, v>>] = IF shares.stake = 0 THEN NoShares ELSE shares
      /\ sts2 \in Entries
  <2> HIDE DEF shares
  <2> QED BY <1>1, <1>2, <1>5 DEF SavedStakes, Entries
<1>7. /\ sts2[<<d, v>>] = NoShares <=> shares.stake = 0
      /\ StakeOf(sts2, <<d, v>>) = StakeOf(sts, <<d, v>>) + Dec(amount)
  <2> HIDE DEF shares, sts2
  <2> QED BY <1>5, <1>6, NoSharesAssumption DEF StakeOf
<1>8. vals[v] \in [stakers : SUBSET Delegators, stake : Nat, last : 0 .. now]
  BY <1>1 DEF Records
<1>9. total \in Nat
  BY <1>8
<1>10. /\ DOMAIN vals2 = DOMAIN vals
       /\ \A w \in DOMAIN vals : w # v => vals2[w] = vals[w]
       /\ vals2[v].stake = total
       /\ vals2[v].stakers = IF shares.stake = 0 THEN vals[v].stakers \ {d}
                             ELSE vals[v].stakers \cup {d}
       /\ vals2[v] \in [stakers : SUBSET Delegators, stake : Nat, last : 0 .. now]
  <2> HIDE DEF shares, total
  <2> QED BY <1>8, <1>9, SavedRecord
<1>11. after.stakes = sts2 /\ after.validators = vals2
  BY DEF Added
<1>12. vals2[v].stake = vals[v].stake + amount
  BY <1>10
<1> HIDE DEF st, old, shares, total, sts2, vals2, after
<1>13. Changed(sts, vals, sts2, vals2, d, v)
  BY <1>6, <1>7, <1>10 DEF Changed
<1>14. Records(vals2, now)
  <2> SUFFICES ASSUME NEW w \in DOMAIN vals
               PROVE  w \in Validators
                      /\ vals2[w] \in [stakers : SUBSET Delegators, stake : Nat, last : 0 .. now]
    BY <1>10 DEF Records
  <2>1. CASE w = v
    BY <1>2, <1>10, <2>1
  <2>2. CASE w # v
    BY <1>1, <1>10, <2>2 DEF Records
  <2> QED BY <2>1, <2>2
<1>15. Finite(vals2)
  <2>1. IsFiniteSet(vals[v].stakers \cup {d}) /\ IsFiniteSet(vals[v].stakers \ {d})
    <3>1. IsFiniteSet(vals[v].stakers)
      BY <1>1 DEF Finite
    <3> QED BY <3>1, FS_AddElement, FS_RemoveElement
  <2>2. IsFiniteSet(vals2[v].stakers)
    BY <1>10, <2>1
  <2> QED BY <1>1, <1>10, <2>2 DEF Finite
<1>16. Linked(sts2, vals2)
  <2> SUFFICES ASSUME NEW e \in Delegators, NEW w \in Validators, sts2[<<e, w>>] # NoShares
               PROVE  w \in DOMAIN vals2 /\ e \in vals2[w].stakers
    BY DEF Linked
  <2>1. CASE <<e, w>> = <<d, v>>
    BY <1>13, <2>1 DEF Changed
  <2>2. CASE <<e, w>> # <<d, v>>
    <3>1. sts[<<e, w>>] # NoShares
      <4>1. <<e, w>> \in Pairs
        BY DEF Pairs
      <4> QED BY <1>6, <2>2, <4>1
    <3>2. w \in DOMAIN vals /\ e \in vals[w].stakers
      BY <1>1, <3>1 DEF Linked
    <3> QED BY <1>13, <2>2, <3>2 DEF Changed
  <2> QED BY <2>1, <2>2
<1>17. Good(sts2, vals2, now)
  BY <1>6, <1>14, <1>15, <1>16 DEF Good
<1>18. Total(vals2) = Total(vals) + amount
  <2>1. Total(vals2) + vals[v].stake = Total(vals) + vals2[v].stake
    BY <1>1, <1>13, <1>14, ChangedTotal
  <2>2. Total(vals) \in Nat /\ Total(vals2) \in Nat
    BY <1>17, SumsAreNatural
  <2>3. vals[v].stake \in Nat
    BY <1>8
  <2> QED BY <1>12, <2>1, <2>2, <2>3
<1>19. StakeOf(sts, <<d, v>>) \in Nat
  BY <1>1, <1>2, StakeIsNatural
<1>20. /\ Held(sts2, d) + Whole(StakeOf(sts, <<d, v>>)) = Held(sts, d) + Whole(StakeOf(sts2, <<d, v>>))
       /\ \A e \in Delegators : e # d => Held(sts2, e) = Held(sts, e)
  BY <1>1, <1>6, <1>13, <1>16, ChangedHeld
<1>21. Held(sts2, d) = Held(sts, d) + amount
  <2> DEFINE w == Whole(StakeOf(sts, <<d, v>>))
             w2 == Whole(StakeOf(sts2, <<d, v>>))
  <2>1. w2 = w + amount
    BY <1>7, <1>19, WholeOfSum
  <2>2. w \in Nat
    BY <1>19, WholeIsNatural
  <2>3. Held(sts, d) \in Nat /\ Held(sts2, d) \in Nat
    BY <1>17, SumsAreNatural
  <2>4. Held(sts2, d) + w = Held(sts, d) + w2
    BY <1>20
  <2> HIDE DEF w, w2
  <2> QED BY <2>1, <2>2, <2>3, <2>4
<1>22. ASSUME InStep(sts, vals) PROVE InStep(sts2, vals2)
  <2>1. PICK n \in Nat : StakeOf(sts, <<d, v>>) = Dec(n)
    <3>1. CASE sts[<<d, v>>] = NoShares
      <4>1. Dec(0) = 0
        BY Scaled
      <4> QED BY <3>1, <4>1 DEF StakeOf
    <3>2. CASE sts[<<d, v>>] # NoShares
      BY <1>22, <3>2 DEF InStep, Holders, StakeOf
    <3> QED BY <3>1, <3>2
  <2>2. StakeOf(sts2, <<d, v>>) = Dec(n + amount)
    BY <1>7, <2>1, ScaledSum
  <2>3. StakeOf(sts2, <<d, v>>) + Dec(vals[v].stake) = StakeOf(sts, <<d, v>>) + Dec(vals2[v].stake)
    <3>1. vals[v].stake \in Nat
      BY <1>8
    <3>2. Dec(vals2[v].stake) = Dec(vals[v].stake) + Dec(amount) /\ Dec(vals[v].stake) \in Nat
      BY <1>12, <3>1, ScaledSum, Scaled
    <3> QED BY <1>3, <1>7, <1>19, <3>2
  <2>4. sts2[<<d, v>>] # NoShares => \E m \in Nat \ {0} : sts2[<<d, v>>].stake = Dec(m)
    <3> SUFFICES ASSUME sts2[<<d, v>>] # NoShares
                 PROVE  \E m \in Nat \ {0} : sts2[<<d, v>>].stake = Dec(m)
      OBVIOUS
    <3>1. sts2[<<d, v>>].stake = Dec(n + amount)
      BY <2>2 DEF StakeOf
    <3>2. shares.stake # 0 /\ shares.stake = Dec(n + amount)
      BY <1>5, <1>7, <2>1, <2>2
    <3>3. n + amount \in Nat \ {0}
      BY <3>2, Scaled
    <3> QED BY <3>1, <3>3
  <2> QED BY <1>1, <1>6, <1>13, <1>14, <1>16, <1>22, <2>3, <2>4, ChangedInStep
<1> USE DEF st, after
<1> QED BY <1>10, <1>11, <1>17, <1>18, <1>20, <1>21, <1>22

\* remove_stake: what it takes off a delegator and the validator is the amount.
LEMMA RemovedStake ==
    ASSUME NEW sts, NEW vals, NEW now \in Nat, Good(sts, vals, now),
           NEW d \in Delegators, NEW v \in DOMAIN vals, NEW amount \in Nat,
           CanRemove([stakes |-> sts, validators |-> vals], d, v, amount)
    PROVE  LET after == Removed([stakes |-> sts, validators |-> vals], d, v, amount)
           IN  /\ Good(after.stakes, after.validators, now)
               /\ Total(after.validators) + amount = Total(vals)
               /\ Held(after.stakes, d) + amount = Held(sts, d)
               /\ \A e \in Delegators : e # d => Held(after.stakes, e) = Held(sts, e)
               /\ InStep(sts, vals) => InStep(after.stakes, after.validators)
               /\ DOMAIN after.validators = DOMAIN vals
               /\ \A p \in Pairs : p # <<d, v>> => after.stakes[p] = sts[p]
<1> DEFINE st == [stakes |-> sts, validators |-> vals]
           old == sts[<<d, v>>]
           shares == [old EXCEPT !.stake = @ - Dec(amount)]
           total == vals[v].stake - amount
           sts2 == SavedStakes(sts, d, v, shares)
           vals2 == SavedValidators(vals, d, v, shares, total)
           after == Removed(st, d, v, amount)
<1>1. sts \in Entries /\ Records(vals, now) /\ Finite(vals) /\ Linked(sts, vals)
  BY DEF Good
<1>2. v \in Validators /\ <<d, v>> \in Pairs
  BY <1>1 DEF Records, Pairs
<1>3. Dec(amount) \in Nat
  BY Scaled
<1>4. /\ old # NoShares /\ Dec(amount) <= old.stake
      /\ amount <= vals[v].stake
  BY DEF CanRemove
<1>5. old \in Shares /\ old.stake = StakeOf(sts, <<d, v>>) /\ old.stake \in Nat
  BY <1>1, <1>2, <1>4 DEF StakeOf, Entries, Shares
<1>6. /\ shares \in Shares
      /\ shares.stake = StakeOf(sts, <<d, v>>) - Dec(amount)
      /\ shares.stake + Dec(amount) = StakeOf(sts, <<d, v>>)
  <2> HIDE DEF old
  <2> QED BY <1>3, <1>4, <1>5 DEF Shares
<1>7. /\ \A p \in Pairs : p # <<d, v>> => sts2[p] = sts[p]
      /\ sts2[<<d, v>>] = IF shares.stake = 0 THEN NoShares ELSE shares
      /\ sts2 \in Entries
  <2> HIDE DEF shares
  <2> QED BY <1>1, <1>2, <1>6 DEF SavedStakes, Entries
<1>8. /\ sts2[<<d, v>>] = NoShares <=> shares.stake = 0
      /\ StakeOf(sts2, <<d, v>>) = shares.stake
      /\ StakeOf(sts2, <<d, v>>) + Dec(amount) = StakeOf(sts, <<d, v>>)
  <2> HIDE DEF shares, sts2
  <2> QED BY <1>6, <1>7, NoSharesAssumption DEF StakeOf
<1>9. vals[v] \in [stakers : SUBSET Delegators, stake : Nat, last : 0 .. now]
  BY <1>1 DEF Records
<1>10. total \in Nat /\ total + amount = vals[v].stake
  <2> DEFINE n == vals[v].stake
  <2>1. n \in Nat /\ amount <= n
    BY <1>4, <1>9
  <2> HIDE DEF n
  <2>2. n - amount \in Nat /\ (n - amount) + amount = n
    BY <2>1
  <2> QED BY <2>2 DEF n
<1>11. /\ DOMAIN vals2 = DOMAIN vals
       /\ \A w \in DOMAIN vals : w # v => vals2[w] = vals[w]
       /\ vals2[v].stake = total
       /\ vals2[v].stakers = IF shares.stake = 0 THEN vals[v].stakers \ {d}
                             ELSE vals[v].stakers \cup {d}
       /\ vals2[v] \in [stakers : SUBSET Delegators, stake : Nat, last : 0 .. now]
  <2> HIDE DEF shares, total
  <2> QED BY <1>9, <1>10, SavedRecord
<1>12. after.stakes = sts2 /\ after.validators = vals2
  BY DEF Removed
<1> HIDE DEF st, old, shares, total, sts2, vals2, after
<1>13. Changed(sts, vals, sts2, vals2, d, v)
  BY <1>7, <1>8, <1>11 DEF Changed
<1>14. Records(vals2, now)
  <2> SUFFICES ASSUME NEW w \in DOMAIN vals
               PROVE  w \in Validators
                      /\ vals2[w] \in [stakers : SUBSET Delegators, stake : Nat, last : 0 .. now]
    BY <1>11 DEF Records
  <2>1. CASE w = v
    BY <1>2, <1>11, <2>1
  <2>2. CASE w # v
    BY <1>1, <1>11, <2>2 DEF Records
  <2> QED BY <2>1, <2>2
<1>15. Finite(vals2)
  <2>1. IsFiniteSet(vals[v].stakers \cup {d}) /\ IsFiniteSet(vals[v].stakers \ {d})
    <3>1. IsFiniteSet(vals[v].stakers)
      BY <1>1 DEF Finite
    <3> QED BY <3>1, FS_AddElement, FS_RemoveElement
  <2>2. IsFiniteSet(vals2[v].stakers)
    BY <1>11, <2>1
  <2> QED BY <1>1, <1>11, <2>2 DEF Finite
<1>16. Linked(sts2, vals2)
  <2> SUFFICES ASSUME NEW e \in Delegators, NEW w \in Validators, sts2[<<e, w>>] # NoShares
               PROVE  w \in DOMAIN vals2 /\ e \in vals2[w].stakers
    BY DEF Linked
  <2>1. CASE <<e, w>> = <<d, v>>
    BY <1>13, <2>1 DEF Changed
  <2>2. CASE <<e, w>> # <<d, v>>
    <3>1. sts[<<e, w>>] # NoShares
      <4>1. <<e, w>> \in Pairs
        BY DEF Pairs
      <4> QED BY <1>7, <2>2, <4>1
    <3>2. w \in DOMAIN vals /\ e \in vals[w].stakers
      BY <1>1, <3>1 DEF Linked
    <3> QED BY <1>13, <2>2, <3>2 DEF Changed
  <2> QED BY <2>1, <2>2
<1>17. Good(sts2, vals2, now)
  BY <1>7, <1>14, <1>15, <1>16 DEF Good
<1>18. Total(vals2) + amount = Total(vals)
  <2>1. Total(vals2) + vals[v].stake = Total(vals) + vals2[v].stake
    BY <1>1, <1>13, <1>14, ChangedTotal
  <2>2. Total(vals) \in Nat /\ Total(vals2) \in Nat
    BY <1>17, SumsAreNatural
  <2>3. vals2[v].stake = total
    BY <1>11
  <2> QED BY <1>10, <2>1, <2>2, <2>3
<1>19. StakeOf(sts, <<d, v>>) \in Nat /\ StakeOf(sts2, <<d, v>>) \in Nat
  BY <1>1, <1>2, <1>7, StakeIsNatural
<1>20. /\ Held(sts2, d) + Whole(StakeOf(sts, <<d, v>>)) = Held(sts, d) + Whole(StakeOf(sts2, <<d, v>>))
       /\ \A e \in Delegators : e # d => Held(sts2, e) = Held(sts, e)
  BY <1>1, <1>7, <1>13, <1>16, ChangedHeld
<1>21. Held(sts2, d) + amount = Held(sts, d)
  <2> DEFINE w == Whole(StakeOf(sts, <<d, v>>))
             w2 == Whole(StakeOf(sts2, <<d, v>>))
  <2>1. w = w2 + amount
    BY <1>8, <1>19, WholeOfSum
  <2>2. w2 \in Nat
    BY <1>19, WholeIsNatural
  <2>3. Held(sts, d) \in Nat /\ Held(sts2, d) \in Nat
    BY <1>17, SumsAreNatural
  <2>4. Held(sts2, d) + w = Held(sts, d) + w2
    BY <1>20
  <2> HIDE DEF w, w2
  <2> QED BY <2>1, <2>2, <2>3, <2>4
<1>22. ASSUME InStep(sts, vals) PROVE InStep(sts2, vals2)
  <2>1. PICK n \in Nat : StakeOf(sts, <<d, v>>) = Dec(n)
    BY <1>4, <1>22 DEF old, InStep, Holders, StakeOf
  <2> DEFINE m == n - amount
  <2>2. m \in Nat /\ m + amount = n
    <3>1. Dec(amount) <= Dec(n)
      BY <1>4, <1>5, <2>1
    <3>2. amount <= n
      BY <3>1, ScaledAtMost
    <3> QED BY <3>2
  <2>3. StakeOf(sts2, <<d, v>>) = Dec(m)
    <3> HIDE DEF m
    <3>1. Dec(n) = Dec(m) + Dec(amount) /\ Dec(m) \in Nat
      BY <2>2, ScaledSum, Scaled
    <3> QED BY <1>3, <1>8, <1>19, <2>1, <3>1
  <2> HIDE DEF m
  <2>4. StakeOf(sts2, <<d, v>>) + Dec(vals[v].stake) = StakeOf(sts, <<d, v>>) + Dec(vals2[v].stake)
    <3>1. Dec(vals[v].stake) = Dec(total) + Dec(amount) /\ Dec(total) \in Nat
      BY <1>10, ScaledSum, Scaled
    <3>2. vals2[v].stake = total
      BY <1>11
    <3> QED BY <1>3, <1>8, <1>19, <3>1, <3>2
  <2>5. sts2[<<d, v>>] # NoShares => \E k \in Nat \ {0} : sts2[<<d, v>>].stake = Dec(k)
    <3> SUFFICES ASSUME sts2[<<d, v>>] # NoShares
                 PROVE  \E k \in Nat \ {0} : sts2[<<d, v>>].stake = Dec(k)
      OBVIOUS
    <3>1. sts2[<<d, v>>].stake = Dec(m)
      BY <2>3 DEF StakeOf
    <3>2. Dec(m) # 0
      BY <1>8, <2>3
    <3>3. m \in Nat \ {0}
      BY <2>2, <3>2, Scaled
    <3> QED BY <3>1, <3>3
  <2> QED BY <1>1, <1>7, <1>13, <1>14, <1>16, <1>22, <2>4, <2>5, ChangedInStep
<1> USE DEF st, after
<1> QED BY <1>7, <1>11, <1>12, <1>17, <1>18, <1>20, <1>21, <1>22

-----------------------------------------------------------------------------
(* Slashes, and entries that are removed when they have no whole tokens left *)

\* What a slash leaves of the records when a share remains of every stake.
Slashed(sts, vals, v, remaining, total, now, sts2, vals2) ==
    /\ total = Whole(vals[v].stake * remaining)
    /\ total # 0 => vals[v].stakers \subseteq Holders(sts, v)
    /\ sts2 = [p \in Pairs |->
                  IF p[2] # v \/ p[1] \notin vals[v].stakers THEN sts[p]
                  ELSE IF total = 0 THEN NoShares
                  ELSE [sts[p] EXCEPT !.stake = Times(@, remaining)]]
    /\ DOMAIN vals2 = DOMAIN vals
    /\ \A w \in DOMAIN vals : w # v => vals2[w] = vals[w]
    /\ vals2[v] = [stakers |-> IF total = 0 THEN {} ELSE vals[v].stakers,
                   stake |-> total, last |-> now]

\* What is left of each stake is no more than it was, and the records stay linked.
LEMMA SlashedStake ==
    ASSUME NEW sts, NEW vals, NEW now \in Nat, Good(sts, vals, now), NEW v \in DOMAIN vals,
           NEW remaining \in Nat, remaining <= SCALE, NEW total, NEW sts2, NEW vals2,
           Slashed(sts, vals, v, remaining, total, now, sts2, vals2)
    PROVE  /\ Good(sts2, vals2, now)
           /\ Total(vals2) <= Total(vals)
           /\ \A d \in Delegators : Held(sts2, d) <= Held(sts, d)
<1>0. /\ total = Whole(vals[v].stake * remaining)
      /\ total # 0 => vals[v].stakers \subseteq Holders(sts, v)
      /\ sts2 = [p \in Pairs |->
                    IF p[2] # v \/ p[1] \notin vals[v].stakers THEN sts[p]
                    ELSE IF total = 0 THEN NoShares
                    ELSE [sts[p] EXCEPT !.stake = Times(@, remaining)]]
      /\ DOMAIN vals2 = DOMAIN vals
      /\ \A w \in DOMAIN vals : w # v => vals2[w] = vals[w]
      /\ vals2[v] = [stakers |-> IF total = 0 THEN {} ELSE vals[v].stakers,
                     stake |-> total, last |-> now]
  BY DEF Slashed
<1> USE <1>0
<1> DEFINE D == DOMAIN vals
<1>1. sts \in Entries /\ Records(vals, now) /\ Finite(vals) /\ Linked(sts, vals)
  BY DEF Good
<1>2. IsFiniteSet(D) /\ D \in SUBSET Validators /\ v \in Validators
  BY <1>1 DEF Finite, Records
<1>3. vals[v] \in [stakers : SUBSET Delegators, stake : Nat, last : 0 .. now]
  BY <1>1 DEF Records
<1>4. total \in Nat /\ total <= vals[v].stake
  <2>1. vals[v].stake \in Nat
    BY <1>3
  <2> QED BY <2>1, Remaining
<1>5. ASSUME NEW p \in Pairs
      PROVE  /\ sts2[p] \in Shares \cup {NoShares}
             /\ sts2[p] # NoShares => sts[p] # NoShares
             /\ StakeOf(sts2, p) <= StakeOf(sts, p)
  <2>1. sts[p] \in Shares \cup {NoShares}
    BY <1>1 DEF Entries
  <2>2. StakeOf(sts, p) \in Nat
    BY <1>1, StakeIsNatural
  <2>3. CASE p[2] # v \/ p[1] \notin vals[v].stakers
    <3>1. sts2[p] = sts[p]
      BY <2>3
    <3>2. StakeOf(sts2, p) = StakeOf(sts, p)
      BY <3>1 DEF StakeOf
    <3> QED BY <2>1, <2>2, <3>1, <3>2
  <2>4. CASE ~(p[2] # v \/ p[1] \notin vals[v].stakers) /\ total = 0
    <3>1. sts2[p] = NoShares
      BY <2>4
    <3>2. StakeOf(sts2, p) = 0
      BY <3>1 DEF StakeOf
    <3> QED BY <2>2, <3>1, <3>2
  <2>5. CASE ~(p[2] # v \/ p[1] \notin vals[v].stakers) /\ total # 0
    <3>1. sts2[p] = [sts[p] EXCEPT !.stake = Times(@, remaining)]
      BY <2>5
    <3>2. p = <<p[1], v>> /\ p[1] \in Holders(sts, v)
      BY <2>5 DEF Pairs
    <3>3. sts[p] # NoShares /\ sts[p] \in Shares
      BY <2>1, <3>2 DEF Holders
    <3>4. sts[p].stake \in Nat
      BY <3>3 DEF Shares
    <3>5. Times(sts[p].stake, remaining) \in Nat /\ Times(sts[p].stake, remaining) <= sts[p].stake
      BY <3>4, Remaining DEF Times, Whole
    <3>6. sts2[p] \in Shares /\ sts2[p].stake = Times(sts[p].stake, remaining)
      <4> DEFINE k == Times(sts[p].stake, remaining)
      <4>1. sts2[p] = [sts[p] EXCEPT !.stake = k] /\ k \in Nat
        BY <3>1, <3>5
      <4> HIDE DEF k
      <4>2. sts2[p] \in Shares /\ sts2[p].stake = k
        BY <3>3, <4>1 DEF Shares
      <4> QED BY <4>2 DEF k
    <3>7. StakeOf(sts2, p) = sts2[p].stake /\ StakeOf(sts, p) = sts[p].stake
      BY <3>3, <3>6, NoSharesAssumption DEF StakeOf
    <3> QED BY <3>3, <3>5, <3>6, <3>7
  <2> QED BY <2>3, <2>4, <2>5
<1>6. sts2 \in Entries
  <2>1. sts2 = [p \in Pairs |-> sts2[p]]
    OBVIOUS
  <2> QED BY <1>5, <2>1 DEF Entries
<1>7. Records(vals2, now)
  <2>1. vals2[v] \in [stakers : SUBSET Delegators, stake : Nat, last : 0 .. now]
    <3> DEFINE stakers == IF total = 0 THEN {} ELSE vals[v].stakers
    <3>1. stakers \in SUBSET Delegators /\ now \in 0 .. now
      BY <1>3
    <3>2. vals2[v] = [stakers |-> stakers, stake |-> total, last |-> now]
      OBVIOUS
    <3> HIDE DEF stakers
    <3> QED BY <1>4, <3>1, <3>2
  <2> QED BY <1>1, <1>2, <2>1 DEF Records
<1>8. Finite(vals2)
  <2>1. IsFiniteSet(vals2[v].stakers)
    BY <1>1, FS_EmptySet DEF Finite
  <2> QED BY <1>1, <2>1 DEF Finite
<1>9. Linked(sts2, vals2)
  <2> SUFFICES ASSUME NEW e \in Delegators, NEW w \in Validators, sts2[<<e, w>>] # NoShares
               PROVE  w \in DOMAIN vals2 /\ e \in vals2[w].stakers
    BY DEF Linked
  <2>1. <<e, w>> \in Pairs
    BY DEF Pairs
  <2>2. w \in DOMAIN vals /\ e \in vals[w].stakers
    <3>1. sts[<<e, w>>] # NoShares
      BY <1>5, <2>1
    <3> QED BY <1>1, <3>1 DEF Linked
  <2>3. w = v => total # 0
    BY <2>1, <2>2
  <2> QED BY <2>2, <2>3
<1>10. Good(sts2, vals2, now)
  BY <1>6, <1>7, <1>8, <1>9 DEF Good
<1>11. Total(vals2) <= Total(vals)
  <2> DEFINE f == [w \in D |-> vals2[w].stake]
             g == [w \in D |-> vals[w].stake]
  <2>1. Natural(f, D) /\ Total(vals2) = SumFunctionOnSet(f, D)
    BY <1>7, TotalOver
  <2>2. Natural(g, D) /\ Total(vals) = SumFunctionOnSet(g, D)
    BY <1>1, TotalOver
  <2>3. \A w \in D : f[w] <= g[w]
    <3> SUFFICES ASSUME NEW w \in D PROVE vals2[w].stake <= vals[w].stake
      OBVIOUS
    <3>1. CASE w = v
      BY <1>4, <3>1
    <3>2. CASE w # v
      <4>1. vals[w].stake \in Nat
        BY <1>1 DEF Records
      <4> QED BY <3>2, <4>1
    <3> QED BY <3>1, <3>2
  <2> HIDE DEF D, f, g
  <2> QED BY <1>2, <2>1, <2>2, <2>3, SumAtMost
<1>12. ASSUME NEW d \in Delegators PROVE Held(sts2, d) <= Held(sts, d)
  <2> DEFINE f == [w \in D |-> Whole(StakeOf(sts2, <<d, w>>))]
             g == [w \in D |-> Whole(StakeOf(sts, <<d, w>>))]
  <2>1. Holdings(sts2, d) \subseteq D
    BY <1>9 DEF Holdings, Linked
  <2>2. Holdings(sts, d) \subseteq D
    BY <1>1 DEF Holdings, Linked
  <2>3. Natural(f, D) /\ Held(sts2, d) = SumFunctionOnSet(f, D)
    <3> HIDE DEF D
    <3> QED BY <1>2, <1>6, <2>1, HeldOver
  <2>4. Natural(g, D) /\ Held(sts, d) = SumFunctionOnSet(g, D)
    <3> HIDE DEF D
    <3> QED BY <1>1, <1>2, <2>2, HeldOver
  <2>5. \A w \in D : f[w] <= g[w]
    <3> SUFFICES ASSUME NEW w \in D PROVE f[w] <= g[w]
      OBVIOUS
    <3>1. <<d, w>> \in Pairs
      BY <1>2 DEF Pairs
    <3>2. StakeOf(sts2, <<d, w>>) \in Nat /\ StakeOf(sts, <<d, w>>) \in Nat
      BY <1>1, <1>6, <3>1, StakeIsNatural
    <3>3. StakeOf(sts2, <<d, w>>) <= StakeOf(sts, <<d, w>>)
      BY <1>5, <3>1
    <3> QED BY <3>2, <3>3, WholeIsMonotone
  <2> HIDE DEF D, f, g
  <2> QED BY <1>2, <2>3, <2>4, <2>5, SumAtMost
<1> QED BY <1>10, <1>11, <1>12

\* Entries without whole tokens can go: nobody holds less.
LEMMA EntriesGone ==
    ASSUME NEW sts, NEW vals, NEW now \in Nat, Good(sts, vals, now),
           NEW gone, \A p \in Pairs : p \in gone => Whole(StakeOf(sts, p)) = 0,
           NEW sts2, sts2 = [p \in Pairs |-> IF p \in gone THEN NoShares ELSE sts[p]]
    PROVE  /\ Good(sts2, vals, now)
           /\ \A d \in Delegators : Held(sts2, d) = Held(sts, d)
           /\ InStep(sts, vals) => sts2 = sts
<1> DEFINE D == DOMAIN vals
<1>1. sts \in Entries /\ Records(vals, now) /\ Finite(vals) /\ Linked(sts, vals)
  BY DEF Good
<1>2. IsFiniteSet(D) /\ D \in SUBSET Validators
  BY <1>1 DEF Finite, Records
<1>3. sts2 \in Entries
  BY <1>1 DEF Entries
<1>4. \A d \in Delegators, v \in Validators : <<d, v>> \in Pairs
  BY DEF Pairs
<1>5. Linked(sts2, vals)
  BY <1>1, <1>4 DEF Linked
<1>6. Good(sts2, vals, now)
  BY <1>1, <1>3, <1>5 DEF Good
<1>7. ASSUME NEW d \in Delegators PROVE Held(sts2, d) = Held(sts, d)
  <2> DEFINE f == [w \in D |-> Whole(StakeOf(sts2, <<d, w>>))]
             g == [w \in D |-> Whole(StakeOf(sts, <<d, w>>))]
  <2>1. Holdings(sts2, d) \subseteq D
    BY <1>5 DEF Holdings, Linked
  <2>2. Holdings(sts, d) \subseteq D
    BY <1>1 DEF Holdings, Linked
  <2>3. Natural(f, D) /\ Held(sts2, d) = SumFunctionOnSet(f, D)
    <3> HIDE DEF D
    <3> QED BY <1>2, <1>3, <2>1, HeldOver
  <2>4. Natural(g, D) /\ Held(sts, d) = SumFunctionOnSet(g, D)
    <3> HIDE DEF D
    <3> QED BY <1>1, <1>2, <2>2, HeldOver
  <2>5. \A w \in D : f[w] = g[w]
    <3> SUFFICES ASSUME NEW w \in D
                 PROVE  Whole(StakeOf(sts2, <<d, w>>)) = Whole(StakeOf(sts, <<d, w>>))
      OBVIOUS
    <3>1. <<d, w>> \in Pairs
      BY <1>2 DEF Pairs
    <3>2. CASE <<d, w>> \in gone
      <4>1. sts2[<<d, w>>] = NoShares
        BY <3>1, <3>2
      <4>2. StakeOf(sts2, <<d, w>>) = 0
        BY <4>1 DEF StakeOf
      <4>3. Whole(0) = 0
        BY WholeOfScaled, Scaled
      <4> QED BY <3>1, <3>2, <4>2, <4>3
    <3>3. CASE <<d, w>> \notin gone
      BY <3>1, <3>3 DEF StakeOf
    <3> QED BY <3>2, <3>3
  <2>6. SumFunctionOnSet(f, D) = SumFunctionOnSet(g, D)
    <3> HIDE DEF D, f, g
    <3> QED BY <1>2, <2>5, SumsAreSame
  <2> QED BY <2>3, <2>4, <2>6
<1>8. ASSUME InStep(sts, vals) PROVE sts2 = sts
  <2>1. ASSUME NEW p \in Pairs PROVE sts2[p] = sts[p]
    <3>1. CASE p \in gone
      <4>1. PICK d \in Delegators, v \in Validators : p = <<d, v>>
        BY DEF Pairs
      <4>2. ASSUME sts[p] # NoShares PROVE FALSE
        <5>1. v \in DOMAIN vals /\ d \in Holders(sts, v)
          BY <1>1, <4>1, <4>2 DEF Linked, Holders
        <5>2. PICK n \in Nat \ {0} : sts[<<d, v>>].stake = Dec(n)
          BY <1>8, <5>1 DEF InStep
        <5>3. Whole(StakeOf(sts, p)) = n
          BY <4>1, <4>2, <5>2, WholeOfScaled DEF StakeOf
        <5> QED BY <3>1, <5>2, <5>3
      <4> QED BY <3>1, <4>2
    <3>2. CASE p \notin gone
      BY <3>2
    <3> QED BY <3>1, <3>2
  <2>2. sts = [p \in Pairs |-> sts[p]] /\ sts2 = [p \in Pairs |-> sts2[p]]
    BY <1>1 DEF Entries
  <2>3. [p \in Pairs |-> sts[p]] = [p \in Pairs |-> sts2[p]]
    BY <2>1
  <2> QED BY <2>2, <2>3
<1> QED BY <1>6, <1>7, <1>8

-----------------------------------------------------------------------------
(* The queue *)

Unbondings == [delegator : Delegators, validator : Validators, amount : Nat, payout_at : Nat]
AmountIn(q, places) == SumFunctionOnSet([i \in DOMAIN q |-> q[i].amount], places)
PlacesOf(q, d) == {i \in DOMAIN q : q[i].delegator = d}

LEMMA QueueIsFinite ==
    ASSUME NEW q \in Seq(Unbondings)
    PROVE  /\ DOMAIN q = 1 .. Len(q) /\ Len(q) \in Nat
           /\ IsFiniteSet(DOMAIN q)
           /\ \A places \in SUBSET DOMAIN q : IsFiniteSet(places)
           /\ Natural([i \in DOMAIN q |-> q[i].amount], DOMAIN q)
           /\ \A i \in DOMAIN q : q[i] \in Unbondings /\ q[i].amount \in Nat
<1>1. DOMAIN q = 1 .. Len(q) /\ Len(q) \in Nat
  OBVIOUS
<1>2. IsFiniteSet(DOMAIN q)
  <2>1. IsFiniteSet(1 .. Len(q))
    BY <1>1, FS_Interval
  <2> QED BY <1>1, <2>1
<1>3. \A places \in SUBSET DOMAIN q : IsFiniteSet(places)
  BY <1>2, FS_Subset
<1>4. \A i \in DOMAIN q : q[i] \in Unbondings
  OBVIOUS
<1>5. \A i \in DOMAIN q : q[i].amount \in Nat
  BY <1>4 DEF Unbondings
<1>6. Natural([i \in DOMAIN q |-> q[i].amount], DOMAIN q)
  BY <1>5 DEF Natural
<1> QED BY <1>1, <1>2, <1>3, <1>4, <1>5, <1>6

LEMMA AmountIsNatural ==
    ASSUME NEW q \in Seq(Unbondings), NEW places \in SUBSET DOMAIN q
    PROVE  AmountIn(q, places) \in Nat
<1> DEFINE f == [i \in DOMAIN q |-> q[i].amount]
<1>1. IsFiniteSet(places) /\ Natural(f, places)
  BY QueueIsFinite DEF Natural
<1>2. SumFunctionOnSet(f, places) \in Nat
  <2> HIDE DEF f
  <2> QED BY <1>1, SumIsNatural
<1> QED BY <1>2 DEF AmountIn

LEMMA AmountsAreSame ==
    ASSUME NEW q \in Seq(Unbondings), NEW q2 \in Seq(Unbondings),
           NEW places \in SUBSET DOMAIN q, places \subseteq DOMAIN q2,
           \A i \in places : q2[i].amount = q[i].amount
    PROVE  AmountIn(q2, places) = AmountIn(q, places)
<1> DEFINE f == [i \in DOMAIN q |-> q[i].amount]
           g == [i \in DOMAIN q2 |-> q2[i].amount]
<1>1. IsFiniteSet(places)
  BY QueueIsFinite
<1>2. \A i \in places : g[i] = f[i]
  OBVIOUS
<1>3. SumFunctionOnSet(g, places) = SumFunctionOnSet(f, places)
  <2> HIDE DEF f, g
  <2> QED BY <1>1, <1>2, SumsAreSame
<1> QED BY <1>3 DEF AmountIn

LEMMA AmountTakesOut ==
    ASSUME NEW q \in Seq(Unbondings), NEW places \in SUBSET DOMAIN q, NEW i \in places
    PROVE  AmountIn(q, places) = q[i].amount + AmountIn(q, places \ {i})
<1> DEFINE f == [j \in DOMAIN q |-> q[j].amount]
<1>1. IsFiniteSet(places) /\ Natural(f, places) /\ f[i] = q[i].amount
  BY QueueIsFinite DEF Natural
<1>2. SumFunctionOnSet(f, places) = f[i] + SumFunctionOnSet(f, places \ {i})
  <2> HIDE DEF f
  <2> QED BY <1>1, SumTakesOut
<1> QED BY <1>1, <1>2 DEF AmountIn

\* A place more in a queue adds its amount, and adds it to its delegator's.
LEMMA PlaceIsAdded ==
    ASSUME NEW q \in Seq(Unbondings), NEW q2 \in Seq(Unbondings), NEW u \in Unbondings,
           NEW n, n \notin DOMAIN q, DOMAIN q2 = DOMAIN q \cup {n},
           q2[n] = u, \A i \in DOMAIN q : q2[i] = q[i]
    PROVE  /\ AmountIn(q2, DOMAIN q2) = AmountIn(q, DOMAIN q) + u.amount
           /\ AmountIn(q2, PlacesOf(q2, u.delegator))
                  = AmountIn(q, PlacesOf(q, u.delegator)) + u.amount
           /\ \A d \in Delegators : d # u.delegator =>
                  AmountIn(q2, PlacesOf(q2, d)) = AmountIn(q, PlacesOf(q, d))
<1>1. ASSUME NEW places \in SUBSET DOMAIN q
      PROVE  /\ AmountIn(q2, places) = AmountIn(q, places)
             /\ AmountIn(q2, places \cup {n}) = AmountIn(q, places) + u.amount
  <2>1. AmountIn(q2, places) = AmountIn(q, places)
    BY AmountsAreSame
  <2> DEFINE more == places \cup {n}
  <2>2. more \ {n} = places /\ more \in SUBSET DOMAIN q2 /\ n \in more
    OBVIOUS
  <2>3. AmountIn(q2, more) = q2[n].amount + AmountIn(q2, more \ {n})
    <3> HIDE DEF more
    <3> QED BY <2>2, AmountTakesOut
  <2>4. AmountIn(q, places) \in Nat /\ u.amount \in Nat
    BY AmountIsNatural DEF Unbondings
  <2>5. AmountIn(q2, more) = u.amount + AmountIn(q, places)
    <3> HIDE DEF more
    <3> QED BY <2>1, <2>2, <2>3
  <2> QED BY <2>1, <2>4, <2>5
<1>2. PlacesOf(q2, u.delegator) = PlacesOf(q, u.delegator) \cup {n}
  BY DEF PlacesOf
<1>3. \A d \in Delegators : d # u.delegator => PlacesOf(q2, d) = PlacesOf(q, d)
  BY DEF PlacesOf
<1>4. \A d \in Delegators : PlacesOf(q, d) \in SUBSET DOMAIN q
  BY DEF PlacesOf
<1>5. u.delegator \in Delegators
  BY DEF Unbondings
<1>6. AmountIn(q2, DOMAIN q2) = AmountIn(q, DOMAIN q) + u.amount
  BY <1>1
<1>7. AmountIn(q2, PlacesOf(q2, u.delegator)) = AmountIn(q, PlacesOf(q, u.delegator)) + u.amount
  BY <1>1, <1>2, <1>4, <1>5
<1>8. \A d \in Delegators : d # u.delegator =>
          AmountIn(q2, PlacesOf(q2, d)) = AmountIn(q, PlacesOf(q, d))
  BY <1>1, <1>3, <1>4
<1> QED BY <1>6, <1>7, <1>8

\* An unbonding that is queued.
Appended(q, u, q2) == q2 = Append(q, u)

LEMMA QueueGrows ==
    ASSUME NEW q \in Seq(Unbondings), NEW u \in Unbondings, NEW q2, Appended(q, u, q2)
    PROVE  /\ q2 \in Seq(Unbondings)
           /\ AmountIn(q2, DOMAIN q2) = AmountIn(q, DOMAIN q) + u.amount
           /\ AmountIn(q2, PlacesOf(q2, u.delegator))
                  = AmountIn(q, PlacesOf(q, u.delegator)) + u.amount
           /\ \A d \in Delegators : d # u.delegator =>
                  AmountIn(q2, PlacesOf(q2, d)) = AmountIn(q, PlacesOf(q, d))
<1> DEFINE n == Len(q) + 1
<1>1. /\ q2 \in Seq(Unbondings) /\ n \in Nat
      /\ DOMAIN q = 1 .. Len(q) /\ DOMAIN q2 = 1 .. n
      /\ q2[n] = u /\ \A i \in DOMAIN q : q2[i] = q[i]
  BY DEF Appended
<1>2. n \notin DOMAIN q /\ DOMAIN q2 = DOMAIN q \cup {n}
  BY <1>1
<1> HIDE DEF n
<1> QED BY <1>1, <1>2, PlaceIsAdded

\* Amounts that do not grow in a queue that otherwise stays.
LEMMA QueueShrinks ==
    ASSUME NEW q \in Seq(Unbondings), NEW q2 \in Seq(Unbondings), DOMAIN q2 = DOMAIN q,
           \A i \in DOMAIN q : q2[i].delegator = q[i].delegator /\ q2[i].amount <= q[i].amount
    PROVE  /\ AmountIn(q2, DOMAIN q2) <= AmountIn(q, DOMAIN q)
           /\ \A d \in Delegators : AmountIn(q2, PlacesOf(q2, d)) <= AmountIn(q, PlacesOf(q, d))
<1> DEFINE f == [i \in DOMAIN q |-> q[i].amount]
           g == [i \in DOMAIN q2 |-> q2[i].amount]
<1>1. ASSUME NEW places \in SUBSET DOMAIN q
      PROVE  AmountIn(q2, places) <= AmountIn(q, places)
  <2>1. IsFiniteSet(places) /\ Natural(f, places)
    BY QueueIsFinite DEF Natural
  <2>2. Natural(g, places)
    BY QueueIsFinite DEF Natural
  <2>3. \A i \in places : g[i] <= f[i]
    OBVIOUS
  <2>4. SumFunctionOnSet(g, places) <= SumFunctionOnSet(f, places)
    <3> HIDE DEF f, g
    <3> QED BY <2>1, <2>2, <2>3, SumAtMost
  <2> QED BY <2>4 DEF AmountIn
<1>2. \A d \in Delegators : PlacesOf(q2, d) = PlacesOf(q, d) /\ PlacesOf(q, d) \in SUBSET DOMAIN q
  BY DEF PlacesOf
<1> QED BY <1>1, <1>2

\* q2 is q after its first n places; moved are the places in q of places in q2.
Shifted(q, q2, n, m) ==
    /\ DOMAIN q = 1 .. m + n
    /\ DOMAIN q2 = 1 .. m
    /\ \A i \in 1 .. m : q2[i] = q[i + n]
Moved(q, n, places, moved) == \A j \in DOMAIN q : j \in moved <=> j > n /\ j - n \in places

\* The places of a queue after its first n are those of the rest.
LEMMA AmountMovesUp ==
    ASSUME NEW q \in Seq(Unbondings), NEW q2 \in Seq(Unbondings), NEW n \in Nat, NEW m \in Nat,
           Shifted(q, q2, n, m), NEW places \in SUBSET (1 .. m),
           NEW moved \in SUBSET DOMAIN q, Moved(q, n, places, moved)
    PROVE  AmountIn(q2, places) = AmountIn(q, moved)
<1> DEFINE f == [i \in DOMAIN q2 |-> q2[i].amount]
           g == [i \in DOMAIN q |-> q[i].amount]
           h == [i \in places |-> i + n]
<1>1. IsFiniteSet(places) /\ IsFiniteSet(moved) /\ Natural(f, places)
  <2>1. places \in SUBSET DOMAIN q2
    BY DEF Shifted
  <2> QED BY <2>1, QueueIsFinite DEF Natural
<1>2. ASSUME NEW i \in places PROVE i + n \in moved
  <2>1. i \in 1 .. m /\ i + n \in 1 .. m + n /\ i + n > n /\ (i + n) - n = i
    OBVIOUS
  <2> QED BY <2>1 DEF Shifted, Moved
<1>3. h \in [places -> moved]
  BY <1>2
<1>4. \A x \in places : \A y \in places : h[x] = h[y] => x = y
  OBVIOUS
<1>5. \A r \in moved : \E x \in places : h[x] = r
  <2> SUFFICES ASSUME NEW r \in moved PROVE \E x \in places : h[x] = r
    OBVIOUS
  <2>1. r \in 1 .. m + n /\ r - n \in places
    BY DEF Shifted, Moved
  <2>2. h[r - n] = r
    BY <2>1
  <2> QED BY <2>1, <2>2
<1>6. \A x \in places : g[h[x]] = f[x]
  <2> SUFFICES ASSUME NEW x \in places PROVE g[x + n] = f[x]
    OBVIOUS
  <2>0. x \in 1 .. m /\ x + n \in 1 .. m + n
    OBVIOUS
  <2>1. x \in DOMAIN q2 /\ x + n \in DOMAIN q
    BY <2>0 DEF Shifted
  <2>2. q2[x] = q[x + n]
    BY <2>1 DEF Shifted
  <2> QED BY <2>1, <2>2
<1>7. Renames(h, places, moved) /\ Carries(h, places, f, g)
  <2> HIDE DEF f, g, h
  <2> QED BY <1>3, <1>4, <1>5, <1>6 DEF Renames, Carries
<1>8. SumFunctionOnSet(f, places) = SumFunctionOnSet(g, moved)
  <2> HIDE DEF f, g, h
  <2> QED BY <1>1, <1>7, SumReindexed
<1> QED BY <1>8 DEF AmountIn

\* Amounts of parts.
LEMMA AmountOfParts ==
    ASSUME NEW q \in Seq(Unbondings), NEW places \in SUBSET DOMAIN q,
           NEW A, NEW B, A \cap B = {}, A \cup B = places
    PROVE  AmountIn(q, places) = AmountIn(q, A) + AmountIn(q, B)
<1> DEFINE f == [i \in DOMAIN q |-> q[i].amount]
<1>1. IsFiniteSet(places) /\ Natural(f, places)
  BY QueueIsFinite DEF Natural
<1>2. SumFunctionOnSet(f, places) = SumFunctionOnSet(f, A) + SumFunctionOnSet(f, B)
  <2> HIDE DEF f
  <2> QED BY <1>1, SumOfParts
<1> QED BY <1>2 DEF AmountIn

\* What is in the rest of the queue and what is in its first n places.
LEMMA AmountIsSplit ==
    ASSUME NEW q \in Seq(Unbondings), NEW q2 \in Seq(Unbondings), NEW n \in Nat, NEW m \in Nat,
           Shifted(q, q2, n, m), NEW places \in SUBSET DOMAIN q
    PROVE  AmountIn(q2, {i \in 1 .. m : i + n \in places}) + AmountIn(q, places \cap (1 .. n))
               = AmountIn(q, places)
<1> DEFINE first == places \cap (1 .. n)
           rest == places \ (1 .. n)
           left == {i \in 1 .. m : i + n \in places}
<1>1. first \cap rest = {} /\ first \cup rest = places
      /\ first \in SUBSET DOMAIN q /\ rest \in SUBSET DOMAIN q
  OBVIOUS
<1>2. AmountIn(q, places) = AmountIn(q, first) + AmountIn(q, rest)
  <2> HIDE DEF first, rest
  <2> QED BY <1>1, AmountOfParts
<1>3. Moved(q, n, left, rest)
  <2> SUFFICES ASSUME NEW j \in DOMAIN q PROVE j \in rest <=> j > n /\ j - n \in left
    BY DEF Moved
  <2>0. j \in 1 .. m + n
    BY DEF Shifted
  <2>1. j > n => j - n \in 1 .. m /\ (j - n) + n = j
    BY <2>0
  <2>2. j \in 1 .. n <=> ~(j > n)
    BY <2>0
  <2> QED BY <2>1, <2>2
<1>4. left \in SUBSET (1 .. m)
  OBVIOUS
<1>5. AmountIn(q2, left) = AmountIn(q, rest)
  <2> HIDE DEF left, rest
  <2> QED BY <1>1, <1>3, <1>4, AmountMovesUp
<1>6. AmountIn(q, first) \in Nat /\ AmountIn(q, rest) \in Nat
  BY <1>1, AmountIsNatural
<1>7. AmountIn(q2, left) + AmountIn(q, first) = AmountIn(q, places)
  <2> HIDE DEF first, rest, left
  <2> QED BY <1>2, <1>5, <1>6
<1> QED BY <1>7

\* What leaves with the first n places, of all and of each delegator.
LEMMA AmountsLeave ==
    ASSUME NEW q \in Seq(Unbondings), NEW q2 \in Seq(Unbondings), NEW n \in Nat, NEW m \in Nat,
           Shifted(q, q2, n, m)
    PROVE  /\ AmountIn(q2, DOMAIN q2) + AmountIn(q, 1 .. n) = AmountIn(q, DOMAIN q)
           /\ \A d \in Delegators :
                  AmountIn(q2, PlacesOf(q2, d)) + AmountIn(q, {i \in 1 .. n : q[i].delegator = d})
                      = AmountIn(q, PlacesOf(q, d))
<1>1. /\ DOMAIN q2 = 1 .. m /\ DOMAIN q = 1 .. m + n
      /\ \A i \in 1 .. m : i + n \in DOMAIN q /\ q2[i] = q[i + n]
      /\ 1 .. n \subseteq DOMAIN q
  BY DEF Shifted
<1>2. AmountIn(q2, DOMAIN q2) + AmountIn(q, 1 .. n) = AmountIn(q, DOMAIN q)
  <2>1. {i \in 1 .. m : i + n \in DOMAIN q} = DOMAIN q2
    BY <1>1
  <2>2. DOMAIN q \cap (1 .. n) = 1 .. n
    BY <1>1
  <2>3. AmountIn(q2, {i \in 1 .. m : i + n \in DOMAIN q}) + AmountIn(q, DOMAIN q \cap (1 .. n))
            = AmountIn(q, DOMAIN q)
    BY AmountIsSplit
  <2> QED BY <2>1, <2>2, <2>3
<1>3. ASSUME NEW d \in Delegators
      PROVE  AmountIn(q2, PlacesOf(q2, d)) + AmountIn(q, {i \in 1 .. n : q[i].delegator = d})
                 = AmountIn(q, PlacesOf(q, d))
  <2>1. {i \in 1 .. m : i + n \in PlacesOf(q, d)} = PlacesOf(q2, d)
    BY <1>1 DEF PlacesOf
  <2>2. PlacesOf(q, d) \cap (1 .. n) = {i \in 1 .. n : q[i].delegator = d}
    BY <1>1 DEF PlacesOf
  <2>3. PlacesOf(q, d) \in SUBSET DOMAIN q
    BY DEF PlacesOf
  <2>4. AmountIn(q2, {i \in 1 .. m : i + n \in PlacesOf(q, d)})
            + AmountIn(q, PlacesOf(q, d) \cap (1 .. n)) = AmountIn(q, PlacesOf(q, d))
    BY <2>3, AmountIsSplit
  <2> QED BY <2>1, <2>2, <2>4
<1> QED BY <1>2, <1>3

\* The queue without its first n places.
Paid(q, n, q2) == q2 = SubSeq(q, n + 1, Len(q))

\* The first n unbondings leave the queue with their amounts.
LEMMA QueueIsPaid ==
    ASSUME NEW q \in Seq(Unbondings), NEW n \in 0 .. Len(q), NEW q2, Paid(q, n, q2)
    PROVE  /\ q2 \in Seq(Unbondings)
           /\ DOMAIN q2 = 1 .. Len(q) - n
           /\ \A i \in DOMAIN q2 : i + n \in DOMAIN q /\ q2[i] = q[i + n]
           /\ AmountIn(q2, DOMAIN q2) + AmountIn(q, 1 .. n) = AmountIn(q, DOMAIN q)
           /\ \A d \in Delegators :
                  AmountIn(q2, PlacesOf(q2, d)) + AmountIn(q, {i \in 1 .. n : q[i].delegator = d})
                      = AmountIn(q, PlacesOf(q, d))
<1> DEFINE m == Len(q) - n
<1>1. Len(q) \in Nat /\ DOMAIN q = 1 .. Len(q)
  BY QueueIsFinite
<1>2. n \in Nat /\ m \in Nat /\ Len(q) = m + n
  BY <1>1
<1>3. /\ q2 \in Seq(Unbondings)
      /\ Len(q2) = m
      /\ \A i \in 1 .. m : q2[i] = q[i + n]
  <2> DEFINE l == Len(q)
             a == n + 1
             s == SubSeq(q, a, l)
  <2>1. \A i \in a .. l : q[i] \in Unbondings
    BY <1>1, <1>2, QueueIsFinite
  <2>2. a \in Int /\ l \in Int
    BY <1>1, <1>2
  <2>3. /\ s \in Seq(Unbondings)
        /\ Len(s) = IF a <= l THEN l - a + 1 ELSE 0
        /\ \A i \in 1 .. l - a + 1 : s[i] = q[a + i - 1]
    <3> HIDE DEF a, l
    <3> QED BY <2>1, <2>2, SubSeqProperties
  <2>4. l - a + 1 = m /\ (a <= l <=> m >= 1)
    <3> HIDE DEF l
    <3> QED BY <1>1, <1>2 DEF l
  <2>5. \A i \in 1 .. m : a + i - 1 = i + n
    <3> HIDE DEF m
    <3> QED BY <1>2
  <2>6. Len(s) = m
    <3> HIDE DEF a, l, s, m
    <3> QED BY <1>2, <2>3, <2>4
  <2>7. \A i \in 1 .. m : s[i] = q[i + n]
    <3> HIDE DEF a, l, s, m
    <3> QED BY <2>3, <2>4, <2>5
  <2>8. s = q2
    BY DEF Paid
  <2> HIDE DEF s, m
  <2> QED BY <2>3, <2>6, <2>7, <2>8
<1> HIDE DEF m
<1>4. DOMAIN q2 = 1 .. m /\ DOMAIN q = 1 .. m + n
  <2>1. DOMAIN q2 = 1 .. Len(q2)
    BY <1>3, QueueIsFinite
  <2> QED BY <1>1, <1>2, <1>3, <2>1
<1>5. \A i \in DOMAIN q2 : i + n \in DOMAIN q /\ q2[i] = q[i + n]
  BY <1>2, <1>3, <1>4
<1>6. Shifted(q, q2, n, m) /\ q2 \in Seq(Unbondings)
  BY <1>3, <1>4 DEF Shifted
<1>7. /\ AmountIn(q2, DOMAIN q2) + AmountIn(q, 1 .. n) = AmountIn(q, DOMAIN q)
      /\ \A d \in Delegators :
             AmountIn(q2, PlacesOf(q2, d)) + AmountIn(q, {i \in 1 .. n : q[i].delegator = d})
                 = AmountIn(q, PlacesOf(q, d))
  BY <1>2, <1>6, AmountsLeave
<1>8. DOMAIN q2 = 1 .. Len(q) - n
  BY <1>4 DEF m
<1> QED BY <1>3, <1>5, <1>7, <1>8

-----------------------------------------------------------------------------
(* The inductive invariant *)

Types ==
    /\ time \in Nat
    /\ queue \in Seq(Unbondings)
    /\ DOMAIN withdraw \subseteq Delegators
    /\ \A d \in DOMAIN withdraw : withdraw[d] \in Accounts \ {d}
    /\ balance \in [Accounts -> Nat]
    /\ panicked \in BOOLEAN
    /\ minted \in [Accounts -> Nat]
    /\ slashes \in Nat

\* The queue is sorted by payout_at, which is at most one unbonding time away.
InOrder(q, now) ==
    /\ \A i, j \in DOMAIN q : i < j => q[i].payout_at <= q[j].payout_at
    /\ \A i \in DOMAIN q : q[i].payout_at <= now + UNBONDING_TIME

\* The module account holds what is staked and queued.
Covered(vals, q, bal) == Total(vals) + AmountIn(q, DOMAIN q) <= bal[Module]

\* What belongs to a delegator is no more than it started with and was rewarded.
Owned(sts, q, bal, rewards) ==
    \A d \in Delegators :
        bal[d] + AmountIn(q, PlacesOf(q, d)) + Held(sts, d) <= InitialBalance[d] + rewards[d]

BeforeSlash(n, failed, sts, vals) == n = 0 => ~failed /\ InStep(sts, vals)

IInv ==
    /\ Types
    /\ Good(stakes, validators, time)
    /\ InOrder(queue, time)
    /\ Covered(validators, queue, balance)
    /\ Owned(stakes, queue, balance, minted)
    /\ BeforeSlash(slashes, panicked, stakes, validators)

LEMMA AccountsAreApart ==
    /\ Module \in Accounts /\ Delegators \subseteq Accounts
    /\ \A d \in Delegators : d # Module
BY ConstantsAssumption DEF Accounts

LEMMA InitIInv == Init => IInv
<1> SUFFICES ASSUME Init PROVE IInv
  OBVIOUS
<1>1. /\ time = 0 /\ stakes = [p \in Pairs |-> NoShares] /\ validators = [v \in {} |-> 0]
      /\ queue = <<>> /\ withdraw = [d \in {} |-> 0]
      /\ balance = [a \in Accounts |-> IF a = Module THEN 0 ELSE InitialBalance[a]]
      /\ panicked = FALSE /\ slashes = 0 /\ minted = [a \in Accounts |-> 0]
  BY DEF Init
<1>2. Types
  <2>1. queue \in Seq(Unbondings)
    BY <1>1
  <2>2. balance \in [Accounts -> Nat]
    BY <1>1, ConstantsAssumption DEF Accounts
  <2>3. minted \in [Accounts -> Nat]
    BY <1>1
  <2>4. DOMAIN withdraw = {}
    BY <1>1
  <2> QED BY <1>1, <2>1, <2>2, <2>3, <2>4 DEF Types
<1>3. DOMAIN validators = {} /\ DOMAIN queue = {}
  BY <1>1
<1>4. stakes \in Entries /\ \A d \in Delegators, v \in Validators : stakes[<<d, v>>] = NoShares
  BY <1>1 DEF Entries, Pairs
<1>5. Good(stakes, validators, time)
  BY <1>3, <1>4, FS_EmptySet DEF Good, Records, Finite, Linked
<1>6. InOrder(queue, time)
  BY <1>3 DEF InOrder
<1>7. Total(validators) = 0
  <2> DEFINE g == [v \in DOMAIN validators |-> validators[v].stake]
  <2>1. Total(validators) = SumFunctionOnSet(g, DOMAIN g) /\ DOMAIN g = {}
    BY <1>3, SumIsOnDomain DEF Total
  <2> HIDE DEF g
  <2> QED BY <2>1, SumOfNothing
<1>8. AmountIn(queue, {}) = 0
  BY SumOfNothing DEF AmountIn
<1>9. \A d \in Delegators : Held(stakes, d) = 0
  <2> TAKE d \in Delegators
  <2> DEFINE g == [v \in Holdings(stakes, d) |-> Whole(stakes[<<d, v>>].stake)]
  <2>1. Holdings(stakes, d) = {}
    BY <1>4 DEF Holdings
  <2>2. Held(stakes, d) = SumFunctionOnSet(g, DOMAIN g) /\ DOMAIN g = {}
    BY <2>1, SumIsOnDomain DEF Held
  <2> HIDE DEF g
  <2> QED BY <2>2, SumOfNothing
<1>10. Covered(validators, queue, balance)
  BY <1>1, <1>3, <1>7, <1>8, AccountsAreApart DEF Covered
<1>11. Owned(stakes, queue, balance, minted)
  <2> SUFFICES ASSUME NEW d \in Delegators
               PROVE  balance[d] + AmountIn(queue, PlacesOf(queue, d)) + Held(stakes, d)
                          <= InitialBalance[d] + minted[d]
    BY DEF Owned
  <2>1. PlacesOf(queue, d) = {}
    BY <1>3 DEF PlacesOf
  <2>2. balance[d] = InitialBalance[d] /\ minted[d] = 0
    BY <1>1, AccountsAreApart
  <2>3. InitialBalance[d] \in Nat
    BY ConstantsAssumption
  <2>4. AmountIn(queue, PlacesOf(queue, d)) = 0 /\ Held(stakes, d) = 0
    BY <1>8, <1>9, <2>1
  <2> QED BY <2>2, <2>3, <2>4
<1>12. BeforeSlash(slashes, panicked, stakes, validators)
  BY <1>1, <1>3 DEF BeforeSlash, InStep
<1> QED BY <1>2, <1>5, <1>6, <1>10, <1>11, <1>12 DEF IInv

-----------------------------------------------------------------------------
(* Panics, and update_rewards in a reachable state *)

\* A panic only ends the run, and happens only after a slash.
LEMMA PanicStep ==
    ASSUME IInv, Panic, slashes # 0
    PROVE  IInv'
<1>1. Types'
  BY DEF IInv, Types, Panic
<1>2. /\ Good(stakes, validators, time)'
      /\ InOrder(queue, time)'
      /\ Covered(validators, queue, balance)'
      /\ Owned(stakes, queue, balance, minted)'
  BY DEF IInv, Panic
<1>3. BeforeSlash(slashes, panicked, stakes, validators)'
  BY DEF BeforeSlash, Panic
<1> QED BY <1>1, <1>2, <1>3 DEF IInv

\* "all stakers in validator_info should exist".
LEMMA UpdateSucceeds ==
    ASSUME IInv, NEW v \in DOMAIN validators, slashes = 0
    PROVE  ~UpdatePanics(v) /\ StakersExist(v)
<1>1. validators[v].stakers = Holders(stakes, v)
  BY DEF IInv, BeforeSlash, InStep
<1> QED BY <1>1 DEF UpdatePanics, StakersExist, Holders, HasShares

LEMMA UpdateKeeps ==
    ASSUME IInv, NEW v \in DOMAIN validators, ~UpdatePanics(v)
    PROVE  /\ Good(UpdatedStakes(v), UpdatedValidators(v), time)
           /\ SameStakes(stakes, validators, UpdatedStakes(v), UpdatedValidators(v))
           /\ Total(UpdatedValidators(v)) = Total(validators)
           /\ \A d \in Delegators : Held(UpdatedStakes(v), d) = Held(stakes, d)
           /\ slashes = 0 => InStep(UpdatedStakes(v), UpdatedValidators(v))
           /\ DOMAIN UpdatedValidators(v) = DOMAIN validators
<1> DEFINE sts == UpdatedStakes(v)
           vals == UpdatedValidators(v)
<1>1. time \in Nat /\ Good(stakes, validators, time)
  BY DEF IInv, Types
<1>2. Good(sts, vals, time) /\ SameStakes(stakes, validators, sts, vals)
  BY <1>1, UpdatedIsSame
<1>3. DOMAIN validators \subseteq Validators
  BY <1>1 DEF Good, Records
<1>4. /\ InStep(stakes, validators) => InStep(sts, vals)
      /\ Total(vals) = Total(validators)
      /\ \A d \in Delegators : Held(sts, d) = Held(stakes, d)
  <2> HIDE DEF sts, vals
  <2> QED BY <1>2, <1>3, SameSums
<1>5. slashes = 0 => InStep(stakes, validators)
  BY DEF IInv, BeforeSlash
<1>6. DOMAIN vals = DOMAIN validators
  BY <1>2 DEF SameStakes
<1> QED BY <1>2, <1>4, <1>5, <1>6

-----------------------------------------------------------------------------
(* Steps *)

\* A validator without stakers.
LEMMA ValidatorAdded ==
    ASSUME NEW sts, NEW vals, NEW now \in Nat, Good(sts, vals, now),
           NEW v \in Validators, v \notin DOMAIN vals,
           NEW vals2,
           vals2 = [w \in DOMAIN vals \cup {v} |->
                       IF w = v THEN [stakers |-> {}, stake |-> 0, last |-> now] ELSE vals[w]]
    PROVE  /\ Good(sts, vals2, now)
           /\ Total(vals2) = Total(vals)
           /\ InStep(sts, vals) => InStep(sts, vals2)
<1> DEFINE D == DOMAIN vals
           D2 == DOMAIN vals2
           f == [w \in D |-> vals[w].stake]
           g == [w \in D2 |-> vals2[w].stake]
<1>1. sts \in Entries /\ Records(vals, now) /\ Finite(vals) /\ Linked(sts, vals)
  BY DEF Good
<1>2. /\ D2 = D \cup {v} /\ D2 \ {v} = D /\ v \in D2
      /\ vals2[v] = [stakers |-> {}, stake |-> 0, last |-> now]
      /\ \A w \in D : vals2[w] = vals[w]
  OBVIOUS
<1>3. IsFiniteSet(D) /\ IsFiniteSet(D2)
  <2>1. IsFiniteSet(D)
    BY <1>1 DEF Finite
  <2>2. IsFiniteSet(D \cup {v})
    <3> HIDE DEF D
    <3> QED BY <2>1, FS_AddElement
  <2> QED BY <1>2, <2>1, <2>2
<1>4. Records(vals2, now)
  <2>1. vals2[v] \in [stakers : SUBSET Delegators, stake : Nat, last : 0 .. now]
    BY <1>2
  <2> QED BY <1>1, <1>2, <2>1 DEF Records
<1>5. Finite(vals2)
  <2> SUFFICES ASSUME NEW w \in D2 PROVE IsFiniteSet(vals2[w].stakers)
    BY <1>3 DEF Finite
  <2>1. CASE w = v
    <3>1. vals2[w].stakers = {}
      BY <1>2, <2>1
    <3> QED BY <3>1, FS_EmptySet
  <2>2. CASE w # v
    <3>1. w \in D /\ vals2[w] = vals[w]
      BY <1>2, <2>2
    <3> QED BY <1>1, <3>1 DEF Finite
  <2> QED BY <2>1, <2>2
<1>6. Linked(sts, vals2)
  BY <1>1, <1>2 DEF Linked
<1>7. Good(sts, vals2, now)
  BY <1>1, <1>4, <1>5, <1>6 DEF Good
<1>8. Total(vals2) = Total(vals)
  <2>1. Natural(f, D) /\ Total(vals) = SumFunctionOnSet(f, D)
    BY <1>1, TotalOver
  <2>2. Natural(g, D2) /\ Total(vals2) = SumFunctionOnSet(g, D2)
    BY <1>4, TotalOver
  <2>3. g[v] = 0 /\ \A w \in D : g[w] = f[w]
    BY <1>2
  <2> HIDE DEF f, g, D, D2
  <2>4. SumFunctionOnSet(g, D2) = g[v] + SumFunctionOnSet(g, D2 \ {v})
    BY <1>2, <1>3, <2>2, SumTakesOut
  <2>5. SumFunctionOnSet(g, D) = SumFunctionOnSet(f, D)
    BY <1>3, <2>3, SumsAreSame
  <2>6. SumFunctionOnSet(f, D) \in Nat
    BY <1>3, <2>1, SumIsNatural
  <2> QED BY <1>2, <2>1, <2>2, <2>3, <2>4, <2>5, <2>6
<1>9. ASSUME InStep(sts, vals) PROVE InStep(sts, vals2)
  <2>1. Holders(sts, v) = {}
    BY <1>1 DEF Linked, Holders
  <2>2. SharesSum(sts, v) = 0
    <3> DEFINE h == [d \in Holders(sts, v) |-> sts[<<d, v>>].stake]
    <3>1. SharesSum(sts, v) = SumFunctionOnSet(h, DOMAIN h) /\ DOMAIN h = {}
      BY <2>1, SumIsOnDomain DEF SharesSum
    <3> HIDE DEF h
    <3> QED BY <3>1, SumOfNothing
  <2>3. Dec(0) = 0
    BY Scaled
  <2>4. vals2[v].stakers = {} /\ vals2[v].stake = 0
    BY <1>2
  <2>5. \A w \in D2 : w = v \/ (w \in D /\ vals2[w] = vals[w])
    BY <1>2
  <2> HIDE DEF D2
  <2> QED BY <1>9, <2>1, <2>2, <2>3, <2>4, <2>5 DEF InStep, D2
<1> QED BY <1>7, <1>8, <1>9

LEMMA AddValidatorStep ==
    ASSUME IInv, NEW v \in Validators, AddValidator(v)
    PROVE  IInv'
<1>1. /\ v \notin DOMAIN validators
      /\ validators' = [w \in DOMAIN validators \cup {v} |->
             IF w = v THEN [stakers |-> {}, stake |-> 0, last |-> time] ELSE validators[w]]
      /\ UNCHANGED <<time, stakes, queue, withdraw, balance, panicked, slashes, minted>>
  BY DEF AddValidator
<1>2. time \in Nat /\ Good(stakes, validators, time)
  BY DEF IInv, Types
<1>3. PICK vals : vals = validators'
  OBVIOUS
<1>4. /\ Good(stakes, vals, time)
      /\ Total(vals) = Total(validators)
      /\ InStep(stakes, validators) => InStep(stakes, vals)
  BY <1>1, <1>2, <1>3, ValidatorAdded
<1>5. Types'
  BY <1>1 DEF IInv, Types
<1>6. InOrder(queue, time)' /\ Owned(stakes, queue, balance, minted)'
  BY <1>1 DEF IInv
<1>7. Covered(vals, queue, balance)
  BY <1>4 DEF IInv, Covered
<1>8. BeforeSlash(slashes, panicked, stakes, vals)
  BY <1>4 DEF IInv, BeforeSlash
<1> QED BY <1>1, <1>3, <1>4, <1>5, <1>6, <1>7, <1>8 DEF IInv

\* StakingMsg::Delegate: tokens move to the module account with the stake.
LEMMA DelegateStep ==
    ASSUME IInv, NEW d \in Delegators, NEW v \in Validators, NEW amount \in Amounts,
           Delegate(d, v, amount)
    PROVE  IInv'
<1>1. v \in DOMAIN validators /\ amount \in Nat
  BY ConstantsAssumption DEF Delegate
<1>2. CASE UpdatePanics(v)
  BY <1>1, <1>2, UpdateSucceeds, PanicStep DEF Delegate
<1>3. CASE ~UpdatePanics(v)
  <2> DEFINE after == Added([stakes |-> UpdatedStakes(v), validators |-> UpdatedValidators(v)],
                            d, v, amount)
  <2>1. /\ amount <= balance[d]
        /\ stakes' = after.stakes /\ validators' = after.validators
        /\ balance' = [balance EXCEPT ![d] = @ - amount, ![Module] = @ + amount]
        /\ UNCHANGED <<time, queue, withdraw, panicked, slashes, minted>>
    BY <1>3 DEF Delegate, Updated
  <2>2. time \in Nat /\ balance \in [Accounts -> Nat]
    BY DEF IInv, Types
  <2>3. /\ Good(UpdatedStakes(v), UpdatedValidators(v), time)
        /\ Total(UpdatedValidators(v)) = Total(validators)
        /\ \A e \in Delegators : Held(UpdatedStakes(v), e) = Held(stakes, e)
        /\ slashes = 0 => InStep(UpdatedStakes(v), UpdatedValidators(v))
        /\ v \in DOMAIN UpdatedValidators(v)
    BY <1>1, <1>3, UpdateKeeps
  <2>4. /\ Good(after.stakes, after.validators, time)
        /\ Total(after.validators) = Total(UpdatedValidators(v)) + amount
        /\ Held(after.stakes, d) = Held(UpdatedStakes(v), d) + amount
        /\ \A e \in Delegators : e # d => Held(after.stakes, e) = Held(UpdatedStakes(v), e)
        /\ InStep(UpdatedStakes(v), UpdatedValidators(v)) => InStep(after.stakes, after.validators)
    BY <1>1, <2>2, <2>3, AddedStake
  <2> HIDE DEF after
  <2>5. PICK sts, vals, bal : sts = stakes' /\ vals = validators' /\ bal = balance'
    OBVIOUS
  <2>6. /\ Good(sts, vals, time)
        /\ Total(vals) = Total(validators) + amount
        /\ Held(sts, d) = Held(stakes, d) + amount
        /\ \A e \in Delegators : e # d => Held(sts, e) = Held(stakes, e)
        /\ slashes = 0 => InStep(sts, vals)
    BY <2>1, <2>3, <2>4, <2>5
  <2>7. /\ bal \in [Accounts -> Nat]
        /\ bal[d] + amount = balance[d] /\ bal[Module] = balance[Module] + amount
        /\ \A e \in Delegators : e # d => bal[e] = balance[e]
    <3>1. d \in Accounts /\ Module \in Accounts /\ d # Module /\ Delegators \subseteq Accounts
          /\ \A e \in Delegators : e # Module
      BY AccountsAreApart
    <3>2. balance[d] \in Nat /\ balance[Module] \in Nat
      BY <2>2, <3>1
    <3>3. balance[d] - amount \in Nat /\ (balance[d] - amount) + amount = balance[d]
          /\ balance[Module] + amount \in Nat
      BY <1>1, <2>1, <3>2
    <3>4. bal = [balance EXCEPT ![d] = balance[d] - amount, ![Module] = balance[Module] + amount]
      BY <2>1, <2>5, <3>1
    <3> QED BY <2>2, <3>1, <3>3, <3>4
  <2>8. Types'
    <3>1. balance' \in [Accounts -> Nat]
      BY <2>5, <2>7
    <3> QED BY <2>1, <3>1 DEF IInv, Types
  <2>9. Covered(vals, queue, bal)
    <3>1. Total(validators) + AmountIn(queue, DOMAIN queue) <= balance[Module]
      BY DEF IInv, Covered
    <3>2. AmountIn(queue, DOMAIN queue) \in Nat
      BY AmountIsNatural DEF IInv, Types
    <3>3. Total(validators) \in Nat
      BY <2>2, SumsAreNatural DEF IInv
    <3>4. balance[Module] \in Nat
      BY <2>2, AccountsAreApart
    <3> QED BY <1>1, <2>6, <2>7, <3>1, <3>2, <3>3, <3>4 DEF Covered
  <2>10. Owned(sts, queue, bal, minted)
    <3> SUFFICES ASSUME NEW e \in Delegators
                 PROVE  bal[e] + AmountIn(queue, PlacesOf(queue, e)) + Held(sts, e)
                            <= InitialBalance[e] + minted[e]
      BY DEF Owned
    <3>1. balance[e] + AmountIn(queue, PlacesOf(queue, e)) + Held(stakes, e)
              <= InitialBalance[e] + minted[e]
      BY DEF IInv, Owned
    <3>2. AmountIn(queue, PlacesOf(queue, e)) \in Nat
      BY AmountIsNatural DEF IInv, Types, PlacesOf
    <3>3. Held(stakes, e) \in Nat
      BY <2>2, SumsAreNatural DEF IInv
    <3>4. balance[e] \in Nat /\ bal[e] \in Nat
      BY <2>2, <2>7, AccountsAreApart
    <3>5. CASE e = d
      <4>1. bal[e] + amount = balance[e] /\ Held(sts, e) = Held(stakes, e) + amount
        BY <2>6, <2>7, <3>5
      <4>2. bal[e] + AmountIn(queue, PlacesOf(queue, e)) + Held(sts, e)
                = balance[e] + AmountIn(queue, PlacesOf(queue, e)) + Held(stakes, e)
        BY <1>1, <3>2, <3>3, <3>4, <4>1
      <4> QED BY <3>1, <4>2
    <3>6. CASE e # d
      BY <2>6, <2>7, <3>1, <3>6
    <3> QED BY <3>5, <3>6
  <2>11. BeforeSlash(slashes, panicked, sts, vals)
    BY <2>6 DEF IInv, BeforeSlash
  <2>12. InOrder(queue, time)
    BY DEF IInv
  <2> QED BY <2>1, <2>5, <2>6, <2>8, <2>9, <2>10, <2>11, <2>12 DEF IInv
<1> QED BY <1>2, <1>3

\* An unbonding that is due an unbonding time from now goes to the end of the queue.
LEMMA QueueStaysInOrder ==
    ASSUME NEW q \in Seq(Unbondings), NEW now \in Nat, InOrder(q, now),
           NEW u \in Unbondings, u.payout_at = now + UNBONDING_TIME,
           NEW q2, q2 = Append(q, u)
    PROVE  InOrder(q2, now)
<1> DEFINE n == Len(q) + 1
<1>1. /\ n \in Nat /\ DOMAIN q = 1 .. Len(q) /\ DOMAIN q2 = 1 .. n
      /\ q2[n] = u /\ \A i \in DOMAIN q : q2[i] = q[i]
  OBVIOUS
<1>2. /\ \A i \in DOMAIN q2 : i \in DOMAIN q \/ i = n
      /\ \A i \in DOMAIN q : i < n
  BY <1>1
<1>3. \A i \in DOMAIN q : q[i].payout_at \in Nat
  BY QueueIsFinite DEF Unbondings
<1>4. u.payout_at \in Nat
  BY DEF Unbondings
<1> HIDE DEF n
<1>5. \A i \in DOMAIN q2 : q2[i].payout_at <= now + UNBONDING_TIME
  BY <1>1, <1>2, <1>4 DEF InOrder
<1>6. ASSUME NEW i \in DOMAIN q2, NEW j \in DOMAIN q2, i < j
      PROVE  q2[i].payout_at <= q2[j].payout_at
  <2>1. CASE j = n
    <3>1. q2[j].payout_at = now + UNBONDING_TIME
      BY <1>1, <2>1
    <3> QED BY <1>5, <3>1
  <2>2. CASE j \in DOMAIN q
    <3>1. i # n
      BY <1>1, <1>2, <1>6, <2>2
    <3>2. i \in DOMAIN q
      BY <1>2, <3>1
    <3> QED BY <1>1, <1>6, <2>2, <3>2 DEF InOrder
  <2> QED BY <1>2, <2>1, <2>2
<1> QED BY <1>5, <1>6 DEF InOrder

\* StakingMsg::Undelegate: the amount goes from the stake to the queue.
LEMMA UndelegateStep ==
    ASSUME IInv, NEW d \in Delegators, NEW v \in Validators, NEW amount \in Amounts,
           Undelegate(d, v, amount)
    PROVE  IInv'
<1>1. v \in DOMAIN validators /\ amount \in Nat
  BY ConstantsAssumption DEF Undelegate
<1>2. CASE UpdatePanics(v)
  BY <1>1, <1>2, UpdateSucceeds, PanicStep DEF Undelegate
<1>3. CASE ~UpdatePanics(v)
  <2> DEFINE st == [stakes |-> UpdatedStakes(v), validators |-> UpdatedValidators(v)]
             after == Removed(st, d, v, amount)
             u == [delegator |-> d, validator |-> v, amount |-> amount,
                   payout_at |-> time + UNBONDING_TIME]
  <2>1. /\ CanRemove(st, d, v, amount)
        /\ stakes' = after.stakes /\ validators' = after.validators
        /\ queue' = Append(queue, u)
        /\ UNCHANGED <<time, withdraw, balance, panicked, slashes, minted>>
    BY <1>3 DEF Undelegate, Updated
  <2>2. /\ time \in Nat /\ queue \in Seq(Unbondings) /\ balance \in [Accounts -> Nat]
        /\ UNBONDING_TIME \in Nat
    BY ConstantsAssumption DEF IInv, Types
  <2>3. /\ Good(UpdatedStakes(v), UpdatedValidators(v), time)
        /\ Total(UpdatedValidators(v)) = Total(validators)
        /\ \A e \in Delegators : Held(UpdatedStakes(v), e) = Held(stakes, e)
        /\ slashes = 0 => InStep(UpdatedStakes(v), UpdatedValidators(v))
        /\ v \in DOMAIN UpdatedValidators(v)
    BY <1>1, <1>3, UpdateKeeps
  <2>4. /\ Good(after.stakes, after.validators, time)
        /\ Total(after.validators) + amount = Total(UpdatedValidators(v))
        /\ Held(after.stakes, d) + amount = Held(UpdatedStakes(v), d)
        /\ \A e \in Delegators : e # d => Held(after.stakes, e) = Held(UpdatedStakes(v), e)
        /\ InStep(UpdatedStakes(v), UpdatedValidators(v)) => InStep(after.stakes, after.validators)
    BY <1>1, <2>1, <2>2, <2>3, RemovedStake
  <2>5. u \in Unbondings /\ u.delegator = d /\ u.amount = amount
        /\ u.payout_at = time + UNBONDING_TIME
    BY <1>1, <2>2 DEF Unbondings
  <2> HIDE DEF st, after, u
  <2>6. PICK sts, vals, q : sts = stakes' /\ vals = validators' /\ q = queue'
    OBVIOUS
  <2>7. /\ Good(sts, vals, time)
        /\ Total(vals) + amount = Total(validators)
        /\ Held(sts, d) + amount = Held(stakes, d)
        /\ \A e \in Delegators : e # d => Held(sts, e) = Held(stakes, e)
        /\ slashes = 0 => InStep(sts, vals)
    BY <2>1, <2>3, <2>4, <2>6
  <2>8. q = Append(queue, u)
    BY <2>1, <2>6
  <2>9. /\ q \in Seq(Unbondings)
        /\ AmountIn(q, DOMAIN q) = AmountIn(queue, DOMAIN queue) + amount
        /\ AmountIn(q, PlacesOf(q, d)) = AmountIn(queue, PlacesOf(queue, d)) + amount
        /\ \A e \in Delegators : e # d =>
               AmountIn(q, PlacesOf(q, e)) = AmountIn(queue, PlacesOf(queue, e))
    <3>1. /\ q \in Seq(Unbondings)
          /\ AmountIn(q, DOMAIN q) = AmountIn(queue, DOMAIN queue) + u.amount
          /\ AmountIn(q, PlacesOf(q, u.delegator))
                 = AmountIn(queue, PlacesOf(queue, u.delegator)) + u.amount
          /\ \A e \in Delegators : e # u.delegator =>
                 AmountIn(q, PlacesOf(q, e)) = AmountIn(queue, PlacesOf(queue, e))
      <4>1. Appended(queue, u, q)
        BY <2>8 DEF Appended
      <4>2. queue \in Seq(Unbondings) /\ u \in Unbondings
        BY <2>2, <2>5
      <4> QED BY <4>1, <4>2, QueueGrows
    <3> QED BY <2>5, <3>1
  <2>10. InOrder(q, time)
    <3>1. InOrder(queue, time)
      BY DEF IInv
    <3> QED BY <2>2, <2>5, <2>8, <3>1, QueueStaysInOrder
  <2>11. Types'
    <3>1. queue' \in Seq(Unbondings)
      BY <2>6, <2>9
    <3> QED BY <2>1, <3>1 DEF IInv, Types
  <2>12. Covered(vals, q, balance)
    <3>1. Total(validators) + AmountIn(queue, DOMAIN queue) <= balance[Module]
      BY DEF IInv, Covered
    <3>2. AmountIn(queue, DOMAIN queue) \in Nat
      BY <2>2, AmountIsNatural
    <3>3. Total(validators) \in Nat /\ Total(vals) \in Nat
      BY <2>2, <2>7, SumsAreNatural DEF IInv
    <3>4. Total(vals) + AmountIn(q, DOMAIN q)
              = Total(validators) + AmountIn(queue, DOMAIN queue)
      BY <1>1, <2>7, <2>9, <3>2, <3>3
    <3> QED BY <3>1, <3>4 DEF Covered
  <2>13. Owned(sts, q, balance, minted)
    <3> SUFFICES ASSUME NEW e \in Delegators
                 PROVE  balance[e] + AmountIn(q, PlacesOf(q, e)) + Held(sts, e)
                            <= InitialBalance[e] + minted[e]
      BY DEF Owned
    <3>1. balance[e] + AmountIn(queue, PlacesOf(queue, e)) + Held(stakes, e)
              <= InitialBalance[e] + minted[e]
      BY DEF IInv, Owned
    <3>2. AmountIn(queue, PlacesOf(queue, e)) \in Nat
      BY <2>2, AmountIsNatural DEF PlacesOf
    <3>3. Held(stakes, e) \in Nat /\ Held(sts, e) \in Nat
      BY <2>2, <2>7, SumsAreNatural DEF IInv
    <3>4. balance[e] \in Nat
      BY <2>2, AccountsAreApart
    <3>5. CASE e = d
      <4>1. /\ AmountIn(q, PlacesOf(q, e)) = AmountIn(queue, PlacesOf(queue, e)) + amount
            /\ Held(sts, e) + amount = Held(stakes, e)
        BY <2>7, <2>9, <3>5
      <4>2. balance[e] + AmountIn(q, PlacesOf(q, e)) + Held(sts, e)
                = balance[e] + AmountIn(queue, PlacesOf(queue, e)) + Held(stakes, e)
        BY <1>1, <3>2, <3>3, <3>4, <4>1
      <4> QED BY <3>1, <4>2
    <3>6. CASE e # d
      BY <2>7, <2>9, <3>1, <3>6
    <3> QED BY <3>5, <3>6
  <2>14. BeforeSlash(slashes, panicked, sts, vals)
    BY <2>7 DEF IInv, BeforeSlash
  <2> QED BY <2>1, <2>6, <2>7, <2>10, <2>11, <2>12, <2>13, <2>14 DEF IInv
<1> QED BY <1>2, <1>3

\* Rewards of another validator are updated between a removal and an addition.
LEMMA UpdatedBetween ==
    ASSUME NEW sts, NEW vals, NEW now \in Nat, Good(sts, vals, now), NEW v \in DOMAIN vals,
           NEW updated \in Entries, NEW other \in BOOLEAN,
           \A p \in Pairs : p[2] = v /\ other =>
               /\ updated[p] = NoShares <=> sts[p] = NoShares
               /\ sts[p] # NoShares => updated[p].stake = sts[p].stake,
           NEW sts2, sts2 = [p \in Pairs |-> IF p[2] = v /\ other THEN updated[p] ELSE sts[p]],
           NEW vals2, vals2 = [vals EXCEPT ![v].last = now]
    PROVE  /\ Good(sts2, vals2, now)
           /\ SameStakes(sts, vals, sts2, vals2)
<1>1. sts \in Entries /\ Records(vals, now) /\ Finite(vals) /\ Linked(sts, vals)
  BY DEF Good
<1>2. sts2 \in Entries
  BY <1>1 DEF Entries
<1>3. ASSUME NEW w \in DOMAIN vals
      PROVE  /\ vals2[w].stakers = vals[w].stakers /\ vals2[w].stake = vals[w].stake
             /\ vals2[w] \in [stakers : SUBSET Delegators, stake : Nat, last : 0 .. now]
  <2>1. vals[w] \in [stakers : SUBSET Delegators, stake : Nat, last : 0 .. now]
    BY <1>1 DEF Records
  <2>2. vals2[w] = IF w = v THEN [vals[w] EXCEPT !.last = now] ELSE vals[w]
    OBVIOUS
  <2> QED BY <2>1, <2>2
<1>4. DOMAIN vals2 = DOMAIN vals /\ DOMAIN vals \subseteq Validators
  BY <1>1 DEF Records
<1>5. Records(vals2, now)
  BY <1>3, <1>4 DEF Records
<1>6. SameStakes(sts, vals, sts2, vals2)
  BY <1>3, <1>4 DEF SameStakes
<1>7. Finite(vals2) /\ Linked(sts2, vals2)
  BY <1>1, <1>4, <1>6, SameSums
<1> QED BY <1>2, <1>5, <1>6, <1>7 DEF Good

\* StakingMsg::Redelegate: the amount goes from one validator to another.
LEMMA RedelegateStep ==
    ASSUME IInv, NEW d \in Delegators, NEW src \in Validators, NEW dst \in Validators,
           NEW amount \in Amounts \cup {0}, Redelegate(d, src, dst, amount)
    PROVE  IInv'
<1>1. src \in DOMAIN validators /\ dst \in DOMAIN validators /\ amount \in Nat
  BY ConstantsAssumption DEF Redelegate
<1>2. CASE UpdatePanics(src) \/ UpdatePanics(dst)
  <2>1. slashes # 0
    BY <1>1, <1>2, UpdateSucceeds
  <2>2. Panic
    BY <1>2 DEF Redelegate
  <2> QED BY <2>1, <2>2, PanicStep
<1>3. CASE ~(UpdatePanics(src) \/ UpdatePanics(dst))
  <2> DEFINE st == [stakes |-> UpdatedStakes(src), validators |-> UpdatedValidators(src)]
             removed == Removed(st, d, src, amount)
             other == src # dst
             sts1 == [p \in Pairs |-> IF p[2] = dst /\ other THEN UpdatedStakes(dst)[p]
                                      ELSE removed.stakes[p]]
             vals1 == [removed.validators EXCEPT ![dst].last = time]
             after == Added([stakes |-> sts1, validators |-> vals1], d, dst, amount)
  <2>1. /\ CanRemove(st, d, src, amount)
        /\ stakes' = after.stakes /\ validators' = after.validators
        /\ UNCHANGED <<time, queue, withdraw, balance, panicked, slashes, minted>>
    BY <1>3 DEF Redelegate, Updated
  <2>2. time \in Nat
    BY DEF IInv, Types
  <2>3. /\ Good(UpdatedStakes(src), UpdatedValidators(src), time)
        /\ SameStakes(stakes, validators, UpdatedStakes(src), UpdatedValidators(src))
        /\ Total(UpdatedValidators(src)) = Total(validators)
        /\ \A e \in Delegators : Held(UpdatedStakes(src), e) = Held(stakes, e)
        /\ slashes = 0 => InStep(UpdatedStakes(src), UpdatedValidators(src))
        /\ DOMAIN UpdatedValidators(src) = DOMAIN validators
    BY <1>1, <1>3, UpdateKeeps
  <2>4. /\ Good(UpdatedStakes(dst), UpdatedValidators(dst), time)
        /\ SameStakes(stakes, validators, UpdatedStakes(dst), UpdatedValidators(dst))
    BY <1>1, <1>3, UpdateKeeps
  <2>5. /\ Good(removed.stakes, removed.validators, time)
        /\ Total(removed.validators) + amount = Total(UpdatedValidators(src))
        /\ Held(removed.stakes, d) + amount = Held(UpdatedStakes(src), d)
        /\ \A e \in Delegators : e # d => Held(removed.stakes, e) = Held(UpdatedStakes(src), e)
        /\ InStep(UpdatedStakes(src), UpdatedValidators(src))
               => InStep(removed.stakes, removed.validators)
        /\ DOMAIN removed.validators = DOMAIN UpdatedValidators(src)
        /\ \A p \in Pairs : p # <<d, src>> => removed.stakes[p] = UpdatedStakes(src)[p]
    <3>1. src \in DOMAIN UpdatedValidators(src)
      BY <1>1, <2>3
    <3> QED BY <1>1, <2>1, <2>2, <2>3, <3>1, RemovedStake
  <2> HIDE DEF st, removed
  <2>6. /\ Good(sts1, vals1, time)
        /\ SameStakes(removed.stakes, removed.validators, sts1, vals1)
    <3>1. ASSUME NEW p \in Pairs, p[2] = dst, other
          PROVE  /\ UpdatedStakes(dst)[p] = NoShares <=> removed.stakes[p] = NoShares
                 /\ removed.stakes[p] # NoShares =>
                        UpdatedStakes(dst)[p].stake = removed.stakes[p].stake
      <4>1. p # <<d, src>>
        BY <3>1
      <4>2. removed.stakes[p] = UpdatedStakes(src)[p]
        BY <2>5, <4>1
      <4> QED BY <2>3, <2>4, <4>2 DEF SameStakes
    <3>2. UpdatedStakes(dst) \in Entries /\ other \in BOOLEAN
      BY <2>4 DEF Good
    <3>3. dst \in DOMAIN removed.validators
      BY <1>1, <2>3, <2>5
    <3> HIDE DEF other
    <3> QED BY <2>2, <2>5, <3>1, <3>2, <3>3, UpdatedBetween
  <2> HIDE DEF sts1, vals1
  <2>7. /\ Total(vals1) = Total(removed.validators)
        /\ \A e \in Delegators : Held(sts1, e) = Held(removed.stakes, e)
        /\ InStep(removed.stakes, removed.validators) => InStep(sts1, vals1)
        /\ dst \in DOMAIN vals1
    <3>1. DOMAIN removed.validators \subseteq Validators
      BY <2>5 DEF Good, Records
    <3>2. dst \in DOMAIN vals1
      BY <1>1, <2>3, <2>5, <2>6 DEF SameStakes
    <3> QED BY <2>6, <3>1, <3>2, SameSums
  <2>8. /\ Good(after.stakes, after.validators, time)
        /\ Total(after.validators) = Total(vals1) + amount
        /\ Held(after.stakes, d) = Held(sts1, d) + amount
        /\ \A e \in Delegators : e # d => Held(after.stakes, e) = Held(sts1, e)
        /\ InStep(sts1, vals1) => InStep(after.stakes, after.validators)
    BY <1>1, <2>2, <2>6, <2>7, AddedStake
  <2> HIDE DEF after
  <2>9. PICK sts, vals : sts = stakes' /\ vals = validators'
    OBVIOUS
  <2>10. /\ Good(sts, vals, time)
         /\ Total(vals) = Total(validators)
         /\ \A e \in Delegators : Held(sts, e) = Held(stakes, e)
         /\ slashes = 0 => InStep(sts, vals)
    <3>1. Good(sts, vals, time) /\ (slashes = 0 => InStep(sts, vals))
      BY <2>1, <2>3, <2>5, <2>7, <2>8, <2>9
    <3>2. Total(vals) = Total(validators)
      BY <2>1, <2>3, <2>5, <2>7, <2>8, <2>9
    <3>3. ASSUME NEW e \in Delegators PROVE Held(sts, e) = Held(stakes, e)
      BY <2>1, <2>3, <2>5, <2>7, <2>8, <2>9
    <3> QED BY <3>1, <3>2, <3>3
  <2>11. Types'
    BY <2>1 DEF IInv, Types
  <2>12. Covered(vals, queue, balance)
    BY <2>10 DEF IInv, Covered
  <2>13. Owned(sts, queue, balance, minted)
    BY <2>10 DEF IInv, Owned
  <2>14. BeforeSlash(slashes, panicked, sts, vals)
    BY <2>10 DEF IInv, BeforeSlash
  <2>15. InOrder(queue, time)
    BY DEF IInv
  <2> QED BY <2>1, <2>9, <2>10, <2>11, <2>12, <2>13, <2>14, <2>15 DEF IInv
<1> QED BY <1>2, <1>3

\* StakingSudo::Slash: stakes and unbondings shrink, and the module keeps its tokens.
LEMMA SlashStep ==
    ASSUME IInv, NEW v \in Validators, NEW percentage \in Percentages, Slash(v, percentage)
    PROVE  IInv'
<1> DEFINE remaining == IF IsPercentage(percentage) THEN SCALE - percentage ELSE 0
           total == Whole(validators[v].stake * remaining)
           stakers == validators[v].stakers
<1>1. v \in DOMAIN validators /\ percentage \in Nat /\ percentage <= SCALE
  BY ConstantsAssumption DEF Slash, IsPercentage
<1>2. remaining \in Nat /\ remaining <= SCALE
  BY <1>1, ConstantsAssumption DEF IsPercentage
<1>3. time \in Nat /\ queue \in Seq(Unbondings) /\ balance \in [Accounts -> Nat] /\ slashes \in Nat
  BY DEF IInv, Types
<1> HIDE DEF remaining
<1>4. CASE UpdatePanics(v) \/ (total # 0 /\ ~StakersExist(v))
  <2>1. slashes # 0
    BY <1>1, <1>4, UpdateSucceeds
  <2>2. Panic
    BY <1>4 DEF Slash, remaining
  <2> QED BY <2>1, <2>2, PanicStep
<1>5. CASE ~(UpdatePanics(v) \/ (total # 0 /\ ~StakersExist(v)))
  <2> DEFINE sts1 == UpdatedStakes(v)
             vals1 == UpdatedValidators(v)
  <2>1. /\ stakes' = [p \in Pairs |->
               IF p[2] # v \/ p[1] \notin stakers THEN sts1[p]
               ELSE IF total = 0 THEN NoShares
               ELSE [sts1[p] EXCEPT !.stake = Times(@, remaining)]]
        /\ validators' = [validators EXCEPT ![v] =
               [stakers |-> IF total = 0 THEN {} ELSE stakers,
                stake |-> total, last |-> time]]
        /\ queue' = [i \in DOMAIN queue |->
               IF queue[i].validator = v
               THEN [queue[i] EXCEPT !.amount = Whole(@ * remaining)] ELSE queue[i]]
        /\ slashes' = slashes + 1
        /\ UNCHANGED <<time, withdraw, balance, panicked, minted>>
    BY <1>5 DEF Slash, remaining
  <2>2. /\ Good(sts1, vals1, time)
        /\ SameStakes(stakes, validators, sts1, vals1)
        /\ Total(vals1) = Total(validators)
        /\ \A e \in Delegators : Held(sts1, e) = Held(stakes, e)
        /\ DOMAIN vals1 = DOMAIN validators
    BY <1>1, <1>5, UpdateKeeps
  <2>3. /\ vals1[v].stakers = stakers /\ vals1[v].stake = validators[v].stake
        /\ \A w \in DOMAIN validators : w # v => vals1[w] = validators[w]
    <3>1. validators[v] \in [stakers : SUBSET Delegators, stake : Nat, last : 0 .. time]
      BY <1>1 DEF IInv, Good, Records
    <3>2. vals1[v] = [validators[v] EXCEPT !.last = time]
          /\ \A w \in DOMAIN validators : w # v => vals1[w] = validators[w]
      BY <1>1 DEF UpdatedValidators
    <3> HIDE DEF vals1
    <3> QED BY <3>1, <3>2
  <2> HIDE DEF sts1, vals1
  <2>4. total # 0 => stakers \subseteq Holders(sts1, v)
    <3> SUFFICES ASSUME total # 0, NEW e \in stakers PROVE e \in Holders(sts1, v)
      OBVIOUS
    <3>1. stakes[<<e, v>>] # NoShares
      BY <1>5 DEF StakersExist, HasShares
    <3>2. e \in Delegators
      BY <1>1 DEF IInv, Good, Records
    <3>3. <<e, v>> \in Pairs
      BY <3>2 DEF Pairs
    <3> QED BY <2>2, <3>1, <3>2, <3>3 DEF SameStakes, Holders
  <2>5. PICK sts, vals, q : sts = stakes' /\ vals = validators' /\ q = queue'
    OBVIOUS
  <2>6. /\ DOMAIN vals = DOMAIN vals1
        /\ \A w \in DOMAIN vals1 : w # v => vals[w] = vals1[w]
        /\ vals[v] = [stakers |-> IF total = 0 THEN {} ELSE vals1[v].stakers,
                      stake |-> total, last |-> time]
    BY <1>1, <2>1, <2>2, <2>3, <2>5
  <2>7. sts = [p \in Pairs |->
                  IF p[2] # v \/ p[1] \notin vals1[v].stakers THEN sts1[p]
                  ELSE IF total = 0 THEN NoShares
                  ELSE [sts1[p] EXCEPT !.stake = Times(@, remaining)]]
    BY <2>1, <2>3, <2>5
  <2>8. total = Whole(vals1[v].stake * remaining) /\ v \in DOMAIN vals1
    BY <1>1, <2>2, <2>3
  <2> HIDE DEF total
  <2>9. /\ Good(sts, vals, time)
        /\ Total(vals) <= Total(vals1)
        /\ \A e \in Delegators : Held(sts, e) <= Held(sts1, e)
    <3>1. Slashed(sts1, vals1, v, remaining, total, time, sts, vals)
      BY <2>3, <2>4, <2>6, <2>7, <2>8 DEF Slashed
    <3>2. v \in DOMAIN vals1
      BY <2>8
    <3> QED BY <1>2, <1>3, <2>2, <3>1, <3>2, SlashedStake
  <2>10. ASSUME NEW i \in DOMAIN queue
         PROVE  /\ q[i] \in Unbondings /\ q[i].delegator = queue[i].delegator
                /\ q[i].amount <= queue[i].amount /\ q[i].payout_at = queue[i].payout_at
    <3> DEFINE u == queue[i]
    <3>1. u \in Unbondings
      BY <1>3, QueueIsFinite
    <3>2. q[i] = IF u.validator = v THEN [u EXCEPT !.amount = Whole(@ * remaining)] ELSE u
      BY <2>1, <2>5
    <3> HIDE DEF u
    <3>3. u.amount \in Nat
      BY <3>1 DEF Unbondings
    <3>4. Whole(u.amount * remaining) \in Nat /\ Whole(u.amount * remaining) <= u.amount
      BY <1>2, <3>3, Remaining
    <3>5. /\ q[i] \in Unbondings /\ q[i].delegator = u.delegator
          /\ q[i].amount <= u.amount /\ q[i].payout_at = u.payout_at
      <4> DEFINE k == Whole(u.amount * remaining)
      <4>1. k \in Nat /\ k <= u.amount /\ q[i] = IF u.validator = v THEN [u EXCEPT !.amount = k] ELSE u
        BY <3>2, <3>4
      <4> HIDE DEF k
      <4> QED BY <3>1, <3>3, <4>1 DEF Unbondings
    <3> QED BY <3>5 DEF u
  <2>11. q \in Seq(Unbondings) /\ DOMAIN q = DOMAIN queue
    <3>1. DOMAIN queue = 1 .. Len(queue) /\ Len(queue) \in Nat
      BY <1>3, QueueIsFinite
    <3>2. q = [i \in 1 .. Len(queue) |-> q[i]]
      BY <2>1, <2>5, <3>1
    <3> QED BY <2>10, <3>1, <3>2
  <2>12. /\ AmountIn(q, DOMAIN q) <= AmountIn(queue, DOMAIN queue)
         /\ \A e \in Delegators : AmountIn(q, PlacesOf(q, e)) <= AmountIn(queue, PlacesOf(queue, e))
    BY <1>3, <2>10, <2>11, QueueShrinks
  <2>13. InOrder(q, time)
    <3>1. InOrder(queue, time)
      BY DEF IInv
    <3> QED BY <2>10, <2>11, <3>1 DEF InOrder
  <2>14. Types'
    <3>1. queue' \in Seq(Unbondings) /\ slashes' \in Nat
      BY <1>3, <2>1, <2>5, <2>11
    <3> QED BY <2>1, <3>1 DEF IInv, Types
  <2>15. /\ Total(vals) \in Nat /\ Total(validators) \in Nat
         /\ \A e \in Delegators : Held(sts, e) \in Nat /\ Held(stakes, e) \in Nat
    BY <1>3, <2>9, SumsAreNatural DEF IInv
  <2>16. Covered(vals, q, balance)
    <3>1. Total(validators) + AmountIn(queue, DOMAIN queue) <= balance[Module]
      BY DEF IInv, Covered
    <3>2. AmountIn(queue, DOMAIN queue) \in Nat /\ AmountIn(q, DOMAIN q) \in Nat
      BY <1>3, <2>11, AmountIsNatural
    <3>3. balance[Module] \in Nat
      BY <1>3, AccountsAreApart
    <3>4. Total(vals) <= Total(validators)
      BY <2>2, <2>9
    <3> QED BY <2>12, <2>15, <3>1, <3>2, <3>3, <3>4 DEF Covered
  <2>17. Owned(sts, q, balance, minted)
    <3> SUFFICES ASSUME NEW e \in Delegators
                 PROVE  balance[e] + AmountIn(q, PlacesOf(q, e)) + Held(sts, e)
                            <= InitialBalance[e] + minted[e]
      BY DEF Owned
    <3>1. balance[e] + AmountIn(queue, PlacesOf(queue, e)) + Held(stakes, e)
              <= InitialBalance[e] + minted[e]
      BY DEF IInv, Owned
    <3>2. AmountIn(queue, PlacesOf(queue, e)) \in Nat /\ AmountIn(q, PlacesOf(q, e)) \in Nat
      BY <1>3, <2>11, AmountIsNatural DEF PlacesOf
    <3>3. balance[e] \in Nat
      BY <1>3, AccountsAreApart
    <3>4. Held(sts, e) <= Held(stakes, e)
      BY <2>2, <2>9
    <3>5. AmountIn(q, PlacesOf(q, e)) <= AmountIn(queue, PlacesOf(queue, e))
      BY <2>12
    <3>6. InitialBalance[e] + minted[e] \in Nat
      <4>1. InitialBalance[e] \in Nat
        BY ConstantsAssumption
      <4>2. minted[e] \in Nat
        BY AccountsAreApart DEF IInv, Types
      <4> QED BY <4>1, <4>2
    <3>7. Held(sts, e) \in Nat /\ Held(stakes, e) \in Nat
      BY <2>15
    <3> QED BY <3>1, <3>2, <3>3, <3>4, <3>5, <3>6, <3>7
  <2>18. BeforeSlash(slashes, panicked, stakes, validators)'
    BY <1>3, <2>1 DEF BeforeSlash
  <2> QED BY <2>1, <2>5, <2>9, <2>13, <2>14, <2>16, <2>17, <2>18 DEF IInv
<1> QED BY <1>4, <1>5

\* Shares whose rewards were removed are shares of the same stake.
LEMMA RewardsRemoved ==
    ASSUME NEW sts, NEW vals, NEW now \in Nat, Good(sts, vals, now),
           NEW p \in Pairs, sts[p] # NoShares,
           NEW sts2, sts2 = [sts EXCEPT ![p].rewards = 0]
    PROVE  /\ Good(sts2, vals, now)
           /\ SameStakes(sts, vals, sts2, vals)
<1>1. sts \in Entries /\ Records(vals, now) /\ Finite(vals) /\ Linked(sts, vals)
  BY DEF Good
<1> DEFINE old == sts[p]
           new == [old EXCEPT !.rewards = 0]
<1>2. old \in Shares
  BY <1>1 DEF Entries
<1>3. new \in Shares /\ new.stake = old.stake
  <2> HIDE DEF old
  <2> QED BY <1>2 DEF Shares
<1>4. /\ sts2[p] = new
      /\ \A r \in Pairs : r # p => sts2[r] = sts[r]
      /\ sts2 \in Entries
  <2>1. sts2 = [sts EXCEPT ![p] = new]
    OBVIOUS
  <2> HIDE DEF new
  <2> QED BY <1>1, <1>3, <2>1 DEF Entries
<1> HIDE DEF new
<1>5. SameStakes(sts, vals, sts2, vals)
  BY <1>2, <1>3, <1>4, NoSharesAssumption DEF SameStakes
<1>6. Linked(sts2, vals)
  <2>1. DOMAIN vals \subseteq Validators
    BY <1>1 DEF Records
  <2> QED BY <1>1, <1>5, <2>1, SameSums
<1> QED BY <1>1, <1>4, <1>5, <1>6 DEF Good

LEMMA WithdrawAddressIsAccount ==
    ASSUME IInv, NEW d \in Delegators
    PROVE  GetWithdrawAddress(d) \in Accounts
BY AccountsAreApart DEF IInv, Types, GetWithdrawAddress

\* DistributionMsg::WithdrawDelegatorReward: what is minted is counted as minted.
LEMMA WithdrawStep ==
    ASSUME IInv, NEW d \in Delegators, NEW v \in Validators, WithdrawDelegatorReward(d, v)
    PROVE  IInv'
<1>1. v \in DOMAIN validators
  BY DEF WithdrawDelegatorReward
<1>2. CASE UpdatePanics(v)
  BY <1>1, <1>2, UpdateSucceeds, PanicStep DEF WithdrawDelegatorReward
<1>3. CASE ~UpdatePanics(v)
  <2> DEFINE sts1 == UpdatedStakes(v)
             vals1 == UpdatedValidators(v)
             amount == Whole(sts1[<<d, v>>].rewards)
             to == GetWithdrawAddress(d)
  <2>1. /\ HasShares(d, v)
        /\ stakes' = [sts1 EXCEPT ![<<d, v>>].rewards = 0]
        /\ validators' = vals1
        /\ balance' = [balance EXCEPT ![to] = @ + amount]
        /\ minted' = [minted EXCEPT ![to] = @ + amount]
        /\ UNCHANGED <<time, queue, withdraw, panicked, slashes>>
    BY <1>3 DEF WithdrawDelegatorReward, RemoveRewards
  <2>2. /\ time \in Nat /\ balance \in [Accounts -> Nat] /\ minted \in [Accounts -> Nat]
        /\ queue \in Seq(Unbondings)
    BY DEF IInv, Types
  <2>3. /\ Good(sts1, vals1, time)
        /\ SameStakes(stakes, validators, sts1, vals1)
        /\ Total(vals1) = Total(validators)
        /\ \A e \in Delegators : Held(sts1, e) = Held(stakes, e)
        /\ slashes = 0 => InStep(sts1, vals1)
        /\ DOMAIN vals1 = DOMAIN validators
    BY <1>1, <1>3, UpdateKeeps
  <2>4. <<d, v>> \in Pairs /\ sts1[<<d, v>>] # NoShares
    <3>1. <<d, v>> \in Pairs
      BY DEF Pairs
    <3> QED BY <2>1, <2>3, <3>1 DEF SameStakes, HasShares
  <2>5. amount \in Nat
    <3>1. sts1[<<d, v>>] \in Shares
      BY <2>3, <2>4 DEF Good, Entries
    <3>2. sts1[<<d, v>>].rewards \in Nat
      BY <3>1 DEF Shares
    <3> QED BY <3>2, WholeIsNatural
  <2>6. to \in Accounts
    BY WithdrawAddressIsAccount
  <2> HIDE DEF sts1, vals1, amount, to
  <2>7. PICK sts, bal, rewards : sts = stakes' /\ bal = balance' /\ rewards = minted'
    OBVIOUS
  <2>8. Good(sts, vals1, time) /\ SameStakes(sts1, vals1, sts, vals1)
    BY <2>1, <2>2, <2>3, <2>4, <2>7, RewardsRemoved
  <2>9. /\ \A e \in Delegators : Held(sts, e) = Held(stakes, e)
        /\ slashes = 0 => InStep(sts, vals1)
    <3>1. DOMAIN vals1 \subseteq Validators
      BY <2>3 DEF Good, Records
    <3> QED BY <2>3, <2>8, <3>1, SameSums
  <2>10. /\ bal \in [Accounts -> Nat] /\ rewards \in [Accounts -> Nat]
         /\ \A a \in Accounts : \/ bal[a] = balance[a] /\ rewards[a] = minted[a]
                                \/ bal[a] = balance[a] + amount /\ rewards[a] = minted[a] + amount
    BY <2>1, <2>2, <2>5, <2>6, <2>7
  <2>11. Types'
    <3>1. balance' \in [Accounts -> Nat] /\ minted' \in [Accounts -> Nat]
      BY <2>7, <2>10
    <3> QED BY <2>1, <3>1 DEF IInv, Types
  <2>12. Covered(vals1, queue, bal)
    <3>1. Total(validators) + AmountIn(queue, DOMAIN queue) <= balance[Module]
      BY DEF IInv, Covered
    <3>2. AmountIn(queue, DOMAIN queue) \in Nat
      BY <2>2, AmountIsNatural
    <3>3. Total(validators) \in Nat
      BY <2>2, SumsAreNatural DEF IInv
    <3>4. balance[Module] \in Nat /\ balance[Module] <= bal[Module] /\ bal[Module] \in Nat
      <4>1. Module \in Accounts
        BY AccountsAreApart
      <4>2. balance[Module] \in Nat /\ bal[Module] \in Nat
        BY <2>2, <2>10, <4>1
      <4>3. bal[Module] = balance[Module] \/ bal[Module] = balance[Module] + amount
        BY <2>10, <4>1
      <4> QED BY <2>5, <4>2, <4>3
    <3> QED BY <2>3, <3>1, <3>2, <3>3, <3>4 DEF Covered
  <2>13. Owned(sts, queue, bal, rewards)
    <3> SUFFICES ASSUME NEW e \in Delegators
                 PROVE  bal[e] + AmountIn(queue, PlacesOf(queue, e)) + Held(sts, e)
                            <= InitialBalance[e] + rewards[e]
      BY DEF Owned
    <3>1. balance[e] + AmountIn(queue, PlacesOf(queue, e)) + Held(stakes, e)
              <= InitialBalance[e] + minted[e]
      BY DEF IInv, Owned
    <3>2. AmountIn(queue, PlacesOf(queue, e)) \in Nat
      BY <2>2, AmountIsNatural DEF PlacesOf
    <3>3. Held(stakes, e) \in Nat
      BY <2>2, SumsAreNatural DEF IInv
    <3>4. e \in Accounts /\ balance[e] \in Nat /\ minted[e] \in Nat
      BY <2>2, AccountsAreApart
    <3>5. InitialBalance[e] \in Nat
      BY ConstantsAssumption
    <3>6. Held(sts, e) = Held(stakes, e)
      BY <2>9
    <3>7. \/ bal[e] = balance[e] /\ rewards[e] = minted[e]
          \/ bal[e] = balance[e] + amount /\ rewards[e] = minted[e] + amount
      BY <2>10, <3>4
    <3> QED BY <2>5, <3>1, <3>2, <3>3, <3>4, <3>5, <3>6, <3>7
  <2>14. BeforeSlash(slashes, panicked, sts, vals1)
    BY <2>9 DEF IInv, BeforeSlash
  <2>15. InOrder(queue, time)
    BY DEF IInv
  <2> QED BY <2>1, <2>7, <2>8, <2>11, <2>12, <2>13, <2>14, <2>15 DEF IInv
<1> QED BY <1>2, <1>3

\* DistributionMsg::SetWithdrawAddress: a delegator's own address is not kept.
LEMMA SetWithdrawAddressStep ==
    ASSUME IInv, NEW d \in Delegators, NEW address \in Withdrawals,
           SetWithdrawAddress(d, address)
    PROVE  IInv'
<1>1. /\ withdraw' = [e \in (DOMAIN withdraw \cup {d}) \ {f \in {d} : f = address} |->
                         IF e = d THEN address ELSE withdraw[e]]
      /\ UNCHANGED <<time, stakes, validators, queue, balance, panicked, slashes, minted>>
  BY DEF SetWithdrawAddress
<1>2. address \in Accounts
  BY ConstantsAssumption DEF Accounts
<1>3. DOMAIN withdraw' \subseteq Delegators /\ \A e \in DOMAIN withdraw' : withdraw'[e] \in Accounts \ {e}
  BY <1>1, <1>2 DEF IInv, Types
<1>4. Types'
  BY <1>1, <1>3 DEF IInv, Types
<1>5. /\ Good(stakes, validators, time)'
      /\ InOrder(queue, time)'
      /\ Covered(validators, queue, balance)'
      /\ Owned(stakes, queue, balance, minted)'
      /\ BeforeSlash(slashes, panicked, stakes, validators)'
  BY <1>1 DEF IInv
<1> QED BY <1>4, <1>5 DEF IInv

-----------------------------------------------------------------------------
(* update_block *)

\* A set of places that holds with a place all those before it is the first places.
LEMMA FirstPlaces ==
    ASSUME NEW m \in Nat, NEW D \in SUBSET (1 .. m),
           \A i \in D : \A j \in 1 .. i : j \in D
    PROVE  LET n == Cardinality(D) IN n \in 0 .. m /\ D = 1 .. n
<1> DEFINE Less == OpToRel(<, Nat)
           After == {k \in Nat : k + 1 \notin D}
<1>1. m \in After
  BY Z3
<1>2. Less = {p \in Nat \X Nat : p[1] < p[2]}
  BY Zenon DEF OpToRel
<1>3. PICK n \in After : \A k \in After : <<k, n>> \notin Less
  <2>1. After \subseteq Nat /\ After # {}
    BY <1>1
  <2>2. IsWellFoundedOn(Less, Nat)
    BY NatLessThanWellFounded
  <2> HIDE DEF Less, After
  <2> QED BY <2>1, <2>2, WFMin
<1> HIDE DEF Less
<1>4. \A k \in Nat : k < n => k + 1 \in D
  <2> SUFFICES ASSUME NEW k \in Nat, k < n PROVE k + 1 \in D
    OBVIOUS
  <2>1. <<k, n>> \in Less
    BY <1>2
  <2> QED BY <1>3, <2>1
<1>5. 1 .. n \subseteq D
  <2> SUFFICES ASSUME NEW i \in 1 .. n PROVE i \in D
    OBVIOUS
  <2>1. i - 1 \in Nat /\ i - 1 < n /\ (i - 1) + 1 = i
    OBVIOUS
  <2> QED BY <1>4, <2>1
<1>6. D \subseteq 1 .. n
  <2> SUFFICES ASSUME NEW i \in D, ~(i <= n) PROVE FALSE
    OBVIOUS
  <2>1. n + 1 \in 1 .. i
    OBVIOUS
  <2> QED BY <2>1
<1>7. D = 1 .. n
  BY <1>5, <1>6
<1>8. Cardinality(1 .. n) = n
  <2>1. Cardinality(1 .. n) = IF 1 > n THEN 0 ELSE n - 1 + 1
    BY FS_Interval
  <2> QED BY <2>1
<1>9. n <= m
  <2> SUFFICES ASSUME n > m PROVE FALSE
    OBVIOUS
  <2>1. n \in 1 .. n
    OBVIOUS
  <2> QED BY <1>5, <2>1
<1> QED BY <1>7, <1>8, <1>9

\* process_queue takes the first unbondings of the queue: those whose time has come.
LEMMA DueComeFirst ==
    ASSUME NEW now \in Nat, queue \in Seq(Unbondings), InOrder(queue, time)
    PROVE  LET n == Cardinality(Due(now))
           IN  /\ n \in 0 .. Len(queue) /\ Due(now) = 1 .. n
               /\ \A i \in DOMAIN queue : queue[i].payout_at <= now <=> i <= n
<1> DEFINE D == Due(now)
           n == Cardinality(D)
<1>1. DOMAIN queue = 1 .. Len(queue) /\ Len(queue) \in Nat
  BY QueueIsFinite
<1>2. D \in SUBSET (1 .. Len(queue))
  BY <1>1 DEF Due
<1>3. \A i \in D : \A j \in 1 .. i : j \in D
  <2> SUFFICES ASSUME NEW i \in D, NEW j \in 1 .. i PROVE j \in D
    OBVIOUS
  <2>1. i \in DOMAIN queue /\ \A k \in 1 .. i : queue[k].payout_at <= now
    BY DEF Due
  <2>2. i \in 1 .. Len(queue) /\ i \in Nat
    BY <1>1, <2>1
  <2>3. j \in DOMAIN queue /\ \A k \in 1 .. j : k \in 1 .. i
    BY <1>1, <2>2
  <2> QED BY <2>1, <2>3 DEF Due
<1>4. n \in 0 .. Len(queue) /\ D = 1 .. n
  <2> HIDE DEF D
  <2> QED BY <1>1, <1>2, <1>3, FirstPlaces
<1>5. ASSUME NEW i \in DOMAIN queue PROVE queue[i].payout_at <= now <=> i \in D
  <2>1. CASE queue[i].payout_at <= now
    <3>1. i \in 1 .. Len(queue)
      BY <1>1
    <3>2. ASSUME NEW j \in 1 .. i PROVE queue[j].payout_at <= now
      <4>1. j \in DOMAIN queue
        BY <1>1, <3>1
      <4>2. queue[j].payout_at \in Nat /\ queue[i].payout_at \in Nat
        BY <4>1, QueueIsFinite DEF Unbondings
      <4>3. CASE j = i
        BY <2>1, <4>3
      <4>4. CASE j # i
        <5>1. j < i
          BY <3>1, <4>4
        <5>2. queue[j].payout_at <= queue[i].payout_at
          BY <4>1, <5>1 DEF InOrder
        <5> QED BY <2>1, <4>2, <5>2
      <4> QED BY <4>3, <4>4
    <3> QED BY <2>1, <3>2 DEF Due
  <2>2. CASE i \in D
    <3>1. i \in 1 .. i
      BY <1>1
    <3> QED BY <2>2, <3>1 DEF Due
  <2> QED BY <2>1, <2>2
<1>6. \A i \in DOMAIN queue : i \in D <=> i <= n
  <2> HIDE DEF D, n
  <2> QED BY <1>1, <1>4
<1> QED BY <1>4, <1>5, <1>6

\* What is paid is in the queue, so the module account can pay it.
LEMMA PayoutIsCovered ==
    ASSUME IInv, NEW now \in Nat
    PROVE  /\ PaidOut(now) \in Nat /\ PaidOut(now) <= balance[Module]
           /\ \A d \in Delegators : PaidTo(d, now) \in Nat
<1>1. time \in Nat /\ queue \in Seq(Unbondings) /\ balance \in [Accounts -> Nat]
  BY DEF IInv, Types
<1>2. Due(now) \in SUBSET DOMAIN queue
  BY DEF Due
<1>3. PaidOut(now) = AmountIn(queue, Due(now))
  BY DEF PaidOut, QueuedAmount, AmountIn
<1>4. \A d \in Delegators : PaidTo(d, now) = AmountIn(queue, {i \in Due(now) : queue[i].delegator = d})
  BY DEF PaidTo, QueuedAmount, AmountIn
<1>5. PaidOut(now) \in Nat /\ \A d \in Delegators : PaidTo(d, now) \in Nat
  BY <1>1, <1>2, <1>3, <1>4, AmountIsNatural
<1>6. AmountIn(queue, Due(now)) <= AmountIn(queue, DOMAIN queue)
  <2> DEFINE f == [i \in DOMAIN queue |-> queue[i].amount]
             D == Due(now)
             S == DOMAIN queue
  <2>1. IsFiniteSet(S) /\ Natural(f, S) /\ D \in SUBSET S
    BY <1>1, <1>2, QueueIsFinite
  <2>2. SumFunctionOnSet(f, D) <= SumFunctionOnSet(f, S)
    <3> HIDE DEF f, D, S
    <3> QED BY <2>1, SumOfSubset
  <2> QED BY <2>2 DEF AmountIn
<1>7. PaidOut(now) <= balance[Module]
  <2>1. Total(validators) + AmountIn(queue, DOMAIN queue) <= balance[Module]
    BY DEF IInv, Covered
  <2>2. Total(validators) \in Nat
    BY <1>1, SumsAreNatural DEF IInv
  <2>3. AmountIn(queue, DOMAIN queue) \in Nat
    BY <1>1, AmountIsNatural
  <2>4. balance[Module] \in Nat
    BY <1>1, AccountsAreApart
  <2> QED BY <1>3, <1>5, <1>6, <2>1, <2>2, <2>3, <2>4
<1> QED BY <1>5, <1>7

\* What leaves the queue is what is paid, of all and of each delegator.
LEMMA QueueIsProcessed ==
    ASSUME IInv, NEW now \in Nat, time <= now,
           NEW q, Paid(queue, Cardinality(Due(now)), q)
    PROVE  /\ q \in Seq(Unbondings)
           /\ InOrder(q, now)
           /\ AmountIn(q, DOMAIN q) + PaidOut(now) = AmountIn(queue, DOMAIN queue)
           /\ \A d \in Delegators :
                  AmountIn(q, PlacesOf(q, d)) + PaidTo(d, now) = AmountIn(queue, PlacesOf(queue, d))
<1> DEFINE n == Cardinality(Due(now))
<1>1. time \in Nat /\ queue \in Seq(Unbondings) /\ InOrder(queue, time)
  BY DEF IInv, Types
<1>2. n \in 0 .. Len(queue) /\ Due(now) = 1 .. n
  BY <1>1, DueComeFirst
<1> HIDE DEF n
<1>3. Paid(queue, n, q)
  BY DEF n
<1>4. /\ q \in Seq(Unbondings)
      /\ DOMAIN q = 1 .. Len(queue) - n
      /\ \A i \in DOMAIN q : i + n \in DOMAIN queue /\ q[i] = queue[i + n]
      /\ AmountIn(q, DOMAIN q) + AmountIn(queue, 1 .. n) = AmountIn(queue, DOMAIN queue)
      /\ \A d \in Delegators :
             AmountIn(q, PlacesOf(q, d)) + AmountIn(queue, {i \in 1 .. n : queue[i].delegator = d})
                 = AmountIn(queue, PlacesOf(queue, d))
  BY <1>1, <1>2, <1>3, QueueIsPaid
<1>5. PaidOut(now) = AmountIn(queue, 1 .. n)
  BY <1>2 DEF PaidOut, QueuedAmount, AmountIn
<1>6. \A d \in Delegators : PaidTo(d, now) = AmountIn(queue, {i \in 1 .. n : queue[i].delegator = d})
  BY <1>2 DEF PaidTo, QueuedAmount, AmountIn
<1>7. InOrder(q, now)
  <2>1. n \in Int /\ DOMAIN q \subseteq Int
    BY <1>2, <1>4
  <2>2. ASSUME NEW i \in DOMAIN q, NEW j \in DOMAIN q, i < j
        PROVE  q[i].payout_at <= q[j].payout_at
    <3>1. i + n \in DOMAIN queue /\ j + n \in DOMAIN queue /\ i + n < j + n
      BY <1>4, <2>1, <2>2
    <3>2. queue[i + n].payout_at <= queue[j + n].payout_at
      BY <1>1, <3>1 DEF InOrder
    <3> QED BY <1>4, <3>2
  <2>3. ASSUME NEW i \in DOMAIN q PROVE q[i].payout_at <= now + UNBONDING_TIME
    <3>1. i + n \in DOMAIN queue /\ q[i] = queue[i + n]
      BY <1>4
    <3>2. q[i].payout_at <= time + UNBONDING_TIME
      BY <1>1, <3>1 DEF InOrder
    <3>3. q[i].payout_at \in Nat
      BY <1>4, QueueIsFinite DEF Unbondings
    <3>4. UNBONDING_TIME \in Nat
      BY ConstantsAssumption
    <3> QED BY <1>1, <3>2, <3>3, <3>4
  <2> QED BY <2>2, <2>3 DEF InOrder
<1> QED BY <1>4, <1>5, <1>6, <1>7

\* STAKES.remove loses no whole token.
LEMMA StakesAreKept ==
    ASSUME IInv, NEW now \in Nat, NEW sts, sts = StakesAfterPayout(now)
    PROVE  /\ Good(sts, validators, time)
           /\ \A d \in Delegators : Held(sts, d) = Held(stakes, d)
           /\ InStep(stakes, validators) => sts = stakes
<1> DEFINE gone == {p \in Pairs : \E i \in Due(now) :
                       /\ p = <<queue[i].delegator, queue[i].validator>>
                       /\ stakes[p] # NoShares => RemainingDelegation(i) = 0}
<1>1. time \in Nat /\ queue \in Seq(Unbondings) /\ Good(stakes, validators, time) /\ stakes \in Entries
  BY DEF IInv, Types, Good
<1>2. ASSUME NEW p \in Pairs, p \in gone PROVE Whole(StakeOf(stakes, p)) = 0
  <2>1. CASE stakes[p] = NoShares
    <3>1. Whole(0) = 0
      BY WholeOfScaled, Scaled
    <3> QED BY <2>1, <3>1 DEF StakeOf
  <2>2. CASE stakes[p] # NoShares
    <3>1. PICK i \in Due(now) : /\ p = <<queue[i].delegator, queue[i].validator>>
                                /\ RemainingDelegation(i) = 0
      BY <1>2, <2>2
    <3> DEFINE same == {j \in DOMAIN queue : /\ j > i
                                            /\ queue[j].delegator = queue[i].delegator
                                            /\ queue[j].validator = queue[i].validator}
               w == Whole(stakes[p].stake)
    <3>2. w + AmountIn(queue, same) = 0
      BY <3>1 DEF RemainingDelegation, QueuedAmount, AmountIn
    <3>3. AmountIn(queue, same) \in Nat
      BY <1>1, AmountIsNatural
    <3>4. stakes[p].stake = StakeOf(stakes, p) /\ StakeOf(stakes, p) \in Nat
      BY <1>1, <2>2, StakeIsNatural DEF StakeOf
    <3>5. w \in Nat
      BY <3>4, WholeIsNatural
    <3>6. w = 0
      <4> HIDE DEF w, same
      <4> QED BY <3>2, <3>3, <3>5
    <3> QED BY <3>4, <3>6
  <2> QED BY <2>1, <2>2
<1>3. sts = [p \in Pairs |-> IF p \in gone THEN NoShares ELSE stakes[p]]
  BY DEF StakesAfterPayout
<1> HIDE DEF gone
<1> QED BY <1>1, <1>2, <1>3, EntriesGone

\* App::update_block: unbondings are paid from the module account.
LEMMA UpdateBlockStep ==
    ASSUME IInv, NEW now \in Nat, UpdateBlock(now)
    PROVE  IInv'
<1>1. /\ time \in Nat /\ queue \in Seq(Unbondings) /\ balance \in [Accounts -> Nat]
      /\ Good(stakes, validators, time)
  BY DEF IInv, Types
<1>2. PaidOut(now) \in Nat /\ PaidOut(now) <= balance[Module]
      /\ \A d \in Delegators : PaidTo(d, now) \in Nat
  BY PayoutIsCovered
<1>3. balance[Module] \in Nat
  BY <1>1, AccountsAreApart
<1>4. /\ time <= now /\ time' = now
      /\ stakes' = StakesAfterPayout(now)
      /\ balance' = [a \in Accounts |-> IF a = Module THEN balance[a] - PaidOut(now)
                                        ELSE balance[a] + PaidTo(a, now)]
      /\ queue' = SubSeq(queue, Cardinality(Due(now)) + 1, Len(queue))
      /\ UNCHANGED <<validators, withdraw, panicked, slashes, minted>>
  BY <1>2, <1>3 DEF UpdateBlock
<1>5. PICK sts, bal, q : sts = stakes' /\ bal = balance' /\ q = queue'
  OBVIOUS
<1>6. /\ q \in Seq(Unbondings)
      /\ InOrder(q, now)
      /\ AmountIn(q, DOMAIN q) + PaidOut(now) = AmountIn(queue, DOMAIN queue)
      /\ \A d \in Delegators :
             AmountIn(q, PlacesOf(q, d)) + PaidTo(d, now) = AmountIn(queue, PlacesOf(queue, d))
  <2>1. Paid(queue, Cardinality(Due(now)), q)
    BY <1>4, <1>5 DEF Paid
  <2> QED BY <1>4, <2>1, QueueIsProcessed
<1>7. /\ Good(sts, validators, time)
      /\ \A d \in Delegators : Held(sts, d) = Held(stakes, d)
      /\ InStep(stakes, validators) => sts = stakes
  BY <1>4, <1>5, StakesAreKept
<1>8. Good(sts, validators, now)
  <2>1. 0 .. time \subseteq 0 .. now
    BY <1>1, <1>4
  <2> QED BY <1>7, <2>1 DEF Good, Records
<1>9. /\ bal \in [Accounts -> Nat]
      /\ bal[Module] + PaidOut(now) = balance[Module]
      /\ \A d \in Delegators : bal[d] = balance[d] + PaidTo(d, now)
  <2>1. Module \in Accounts /\ Delegators \subseteq Accounts /\ \A d \in Delegators : d # Module
    BY AccountsAreApart
  <2>2. bal[Module] = balance[Module] - PaidOut(now)
    BY <1>4, <1>5, <2>1
  <2>3. \A d \in Delegators : bal[d] = balance[d] + PaidTo(d, now)
    BY <1>4, <1>5, <2>1
  <2>4. bal[Module] \in Nat /\ bal[Module] + PaidOut(now) = balance[Module]
    BY <1>2, <1>3, <2>2
  <2>5. \A d \in Delegators : bal[d] \in Nat
    BY <1>1, <1>2, <2>1, <2>3
  <2>6. \A a \in Accounts : bal[a] \in Nat
    BY <2>4, <2>5 DEF Accounts
  <2>7. bal = [a \in Accounts |-> bal[a]]
    BY <1>4, <1>5
  <2> QED BY <2>3, <2>4, <2>6, <2>7
<1>10. Types'
  <2>1. time' \in Nat /\ queue' \in Seq(Unbondings) /\ balance' \in [Accounts -> Nat]
    BY <1>4, <1>5, <1>6, <1>9
  <2> QED BY <1>4, <2>1 DEF IInv, Types
<1>11. Covered(validators, q, bal)
  <2>1. Total(validators) + AmountIn(queue, DOMAIN queue) <= balance[Module]
    BY DEF IInv, Covered
  <2>2. Total(validators) \in Nat
    BY <1>1, SumsAreNatural
  <2>3. AmountIn(q, DOMAIN q) \in Nat /\ AmountIn(queue, DOMAIN queue) \in Nat
    BY <1>1, <1>6, AmountIsNatural
  <2>4. bal[Module] \in Nat
    BY <1>9, AccountsAreApart
  <2> QED BY <1>2, <1>3, <1>6, <1>9, <2>1, <2>2, <2>3, <2>4 DEF Covered
<1>12. Owned(sts, q, bal, minted)
  <2> SUFFICES ASSUME NEW e \in Delegators
               PROVE  bal[e] + AmountIn(q, PlacesOf(q, e)) + Held(sts, e)
                          <= InitialBalance[e] + minted[e]
    BY DEF Owned
  <2>1. balance[e] + AmountIn(queue, PlacesOf(queue, e)) + Held(stakes, e)
            <= InitialBalance[e] + minted[e]
    BY DEF IInv, Owned
  <2>2. AmountIn(q, PlacesOf(q, e)) \in Nat
    BY <1>6, AmountIsNatural DEF PlacesOf
  <2>3. Held(sts, e) = Held(stakes, e) /\ Held(stakes, e) \in Nat
    BY <1>1, <1>7, SumsAreNatural
  <2>4. balance[e] \in Nat
    BY <1>1, AccountsAreApart
  <2>5. AmountIn(q, PlacesOf(q, e)) + PaidTo(e, now) = AmountIn(queue, PlacesOf(queue, e))
    BY <1>6
  <2>6. bal[e] = balance[e] + PaidTo(e, now) /\ PaidTo(e, now) \in Nat
    BY <1>2, <1>9
  <2>7. bal[e] + AmountIn(q, PlacesOf(q, e)) + Held(sts, e)
            = balance[e] + AmountIn(queue, PlacesOf(queue, e)) + Held(stakes, e)
    BY <2>2, <2>3, <2>4, <2>5, <2>6
  <2> QED BY <2>1, <2>7
<1>13. BeforeSlash(slashes, panicked, sts, validators)
  BY <1>7 DEF IInv, BeforeSlash
<1> QED BY <1>4, <1>5, <1>6, <1>8, <1>10, <1>11, <1>12, <1>13 DEF IInv

-----------------------------------------------------------------------------
(* Theorems *)

LEMMA NextStep == IInv /\ [Next]_vars => IInv'
<1> SUFFICES ASSUME IInv, [Next]_vars PROVE IInv'
  OBVIOUS
<1>1. CASE UNCHANGED vars
  <2>1. UNCHANGED <<time, stakes, validators, queue, withdraw, balance, panicked, slashes, minted>>
    BY <1>1 DEF vars
  <2>2. Types'
    BY <2>1 DEF IInv, Types
  <2>3. /\ Good(stakes, validators, time)'
        /\ InOrder(queue, time)'
        /\ Covered(validators, queue, balance)'
        /\ Owned(stakes, queue, balance, minted)'
        /\ BeforeSlash(slashes, panicked, stakes, validators)'
    BY <2>1 DEF IInv
  <2> QED BY <2>2, <2>3 DEF IInv
<1>2. ASSUME NEW v \in Validators, AddValidator(v) PROVE IInv'
  BY <1>2, AddValidatorStep
<1>3. ASSUME NEW d \in Delegators, NEW v \in Validators, NEW amount \in Amounts,
             Delegate(d, v, amount)
      PROVE  IInv'
  BY <1>3, DelegateStep
<1>4. ASSUME NEW d \in Delegators, NEW v \in Validators, NEW amount \in Amounts,
             Undelegate(d, v, amount)
      PROVE  IInv'
  BY <1>4, UndelegateStep
<1>5. ASSUME NEW d \in Delegators, NEW src \in Validators, NEW dst \in Validators,
             NEW amount \in Amounts \cup {0}, Redelegate(d, src, dst, amount)
      PROVE  IInv'
  BY <1>5, RedelegateStep
<1>6. ASSUME NEW v \in Validators, NEW percentage \in Percentages, Slash(v, percentage)
      PROVE  IInv'
  BY <1>6, SlashStep
<1>7. ASSUME NEW d \in Delegators, NEW v \in Validators, WithdrawDelegatorReward(d, v)
      PROVE  IInv'
  BY <1>7, WithdrawStep
<1>8. ASSUME NEW d \in Delegators, NEW address \in Withdrawals, SetWithdrawAddress(d, address)
      PROVE  IInv'
  BY <1>8, SetWithdrawAddressStep
<1>9. ASSUME NEW now \in 0 .. MaxTime, UpdateBlock(now) PROVE IInv'
  <2>1. now \in Nat
    OBVIOUS
  <2> QED BY <1>9, <2>1, UpdateBlockStep
<1> QED BY <1>1, <1>2, <1>3, <1>4, <1>5, <1>6, <1>7, <1>8, <1>9 DEF Next

\* The records of validators, delegators, queue and bank stay tied by the invariant
\* through every message, slash and block.
THEOREM Invariance == Spec => []IInv
<1>1. Init => IInv
  BY InitIInv
<1>2. IInv /\ [Next]_vars => IInv'
  BY NextStep
<1> QED BY <1>1, <1>2, PTL DEF Spec

\* The storage of both modules only ever has values of its types: no stake, no amount
\* and no balance is ever subtracted below zero.
THEOREM TypeCorrect == Spec => []TypeOK
<1>1. IInv => TypeOK
  <2> SUFFICES ASSUME IInv PROVE TypeOK
    OBVIOUS
  <2>1. /\ Types /\ stakes \in [Pairs -> Shares \cup {NoShares}]
        /\ Records(validators, time)
    BY DEF IInv, Good, Entries
  <2> QED BY <2>1 DEF TypeOK, Types, Records, Unbondings
<1> QED BY <1>1, Invariance, PTL

\* The module account holds every token that is staked or queued, whatever was
\* delegated, redelegated, slashed and rounded before: process_queue can always pay.
THEOREM SolventAlways == Spec => []Solvent
<1>1. IInv => Solvent
  <2> SUFFICES ASSUME IInv PROVE Solvent
    OBVIOUS
  <2>1. Total(validators) + AmountIn(queue, DOMAIN queue) <= balance[Module]
    BY DEF IInv, Covered
  <2> QED BY <2>1 DEF Solvent, Total, QueuedAmount, AmountIn
<1> QED BY <1>1, Invariance, PTL

\* Staking moves tokens and never makes them: what a delegator has, is owed by the
\* queue and could undelegate is no more than it started with and was rewarded.
THEOREM StakingMakesNothing == Spec => []NothingFromNothing
<1>1. IInv => NothingFromNothing
  <2> SUFFICES ASSUME IInv, NEW d \in Delegators
               PROVE  balance[d] + Queued(d)
                          + SumFunction([v \in DelegatorValidators(d) |-> GetStake(d, v)])
                      <= InitialBalance[d] + minted[d]
    BY DEF NothingFromNothing
  <2>1. balance[d] + AmountIn(queue, PlacesOf(queue, d)) + Held(stakes, d)
            <= InitialBalance[d] + minted[d]
    BY DEF IInv, Owned
  <2>2. Queued(d) = AmountIn(queue, PlacesOf(queue, d))
    BY DEF Queued, QueuedAmount, AmountIn, PlacesOf
  <2>3. SumFunction([v \in DelegatorValidators(d) |-> GetStake(d, v)]) = Held(stakes, d)
    BY DEF DelegatorValidators, HasShares, GetStake, Held, Holdings
  <2> QED BY <2>1, <2>2, <2>3
<1> QED BY <1>1, Invariance, PTL

\* As long as nothing was slashed nothing panics, the stakers of a validator are the
\* delegators with shares, its stake is theirs, and AllDelegations lists what
\* Delegation answers: every entry of STAKES has whole tokens.
THEOREM RecordsAgree == Spec => []RecordsAgreeBeforeSlash
<1>1. IInv => RecordsAgreeBeforeSlash
  <2> SUFFICES ASSUME IInv, slashes = 0
               PROVE  /\ ~panicked
                      /\ ValidatorInfoMatchesStakes
                      /\ \A d \in Delegators : \A v \in DOMAIN validators :
                            {delegation.amount : delegation \in Delegation(d, v)}
                                = {AllDelegations(d)[w] : w \in {v} \cap DOMAIN AllDelegations(d)}
    BY DEF RecordsAgreeBeforeSlash
  <2>1. ~panicked /\ InStep(stakes, validators)
    BY DEF IInv, BeforeSlash
  <2>2. DOMAIN validators \subseteq Validators
    BY DEF IInv, Good, Records
  <2>3. ASSUME NEW v \in DOMAIN validators
        PROVE  /\ validators[v].stakers = {d \in Delegators : HasShares(d, v)}
               /\ validators[v].stake = Whole(SharesWith(v))
    <3>1. validators[v].stake \in Nat
      BY DEF IInv, Good, Records
    <3>2. SharesWith(v) = SharesSum(stakes, v)
      BY DEF SharesWith, SharesSum, Holders, HasShares
    <3>3. SharesSum(stakes, v) = Dec(validators[v].stake)
      BY <2>1 DEF InStep
    <3>4. Whole(SharesWith(v)) = validators[v].stake
      BY <3>1, <3>2, <3>3, WholeOfScaled
    <3>5. validators[v].stakers = {d \in Delegators : HasShares(d, v)}
      BY <2>1 DEF InStep, Holders, HasShares
    <3> QED BY <3>4, <3>5
  <2>4. ASSUME NEW d \in Delegators, NEW v \in DOMAIN validators
        PROVE  {delegation.amount : delegation \in Delegation(d, v)}
                   = {AllDelegations(d)[w] : w \in {v} \cap DOMAIN AllDelegations(d)}
    <3>1. v \in Validators
      BY <2>2
    <3>2. CASE HasShares(d, v)
      <4>1. d \in Holders(stakes, v)
        BY <3>2 DEF Holders, HasShares
      <4>2. PICK n \in Nat \ {0} : stakes[<<d, v>>].stake = Dec(n)
        BY <2>1, <4>1 DEF InStep
      <4>3. GetStake(d, v) # 0
        BY <4>2, WholeOfScaled DEF GetStake
      <4>4. {u \in {v} : HasShares(d, u) /\ GetStake(d, u) # 0} = {v}
        BY <3>2, <4>3
      <4>5. Delegation(d, v) = {[amount |-> GetStake(d, v), rewards |-> GetRewards(d, v) \ {0}]}
        BY <4>4 DEF Delegation
      <4>6. {delegation.amount : delegation \in Delegation(d, v)} = {GetStake(d, v)}
        BY <4>5
      <4>7. v \in DOMAIN AllDelegations(d) /\ AllDelegations(d)[v] = GetStake(d, v)
        BY <3>2 DEF AllDelegations
      <4> QED BY <4>6, <4>7
    <3>3. CASE ~HasShares(d, v)
      <4>1. {u \in {v} : HasShares(d, u) /\ GetStake(d, u) # 0} = {}
        BY <3>3
      <4>2. Delegation(d, v) = {}
        BY <4>1 DEF Delegation
      <4>3. v \notin DOMAIN AllDelegations(d)
        BY <3>3 DEF AllDelegations
      <4> QED BY <4>2, <4>3
    <3> QED BY <3>2, <3>3
  <2> QED BY <2>1, <2>3, <2>4 DEF ValidatorInfoMatchesStakes
<1> QED BY <1>1, Invariance, PTL

\* Only update_block and set_block move the time.
LEMMA TimeIsOfBlocks ==
    ASSUME Next, time' # time
    PROVE  \E now \in 0 .. MaxTime : UpdateBlock(now)
<1>1. ASSUME Panic PROVE time' = time
  BY <1>1 DEF Panic
<1>2. ASSUME NEW v \in Validators, AddValidator(v) PROVE time' = time
  BY <1>2 DEF AddValidator
<1>3. ASSUME NEW d \in Delegators, NEW v \in Validators, NEW amount \in Amounts,
             Delegate(d, v, amount) \/ Undelegate(d, v, amount)
      PROVE  time' = time
  BY <1>1, <1>3 DEF Delegate, Undelegate
<1>4. ASSUME NEW d \in Delegators, NEW src \in Validators, NEW dst \in Validators,
             NEW amount \in Amounts \cup {0}, Redelegate(d, src, dst, amount)
      PROVE  time' = time
  BY <1>1, <1>4 DEF Redelegate
<1>5. ASSUME NEW v \in Validators, NEW percentage \in Percentages, Slash(v, percentage)
      PROVE  time' = time
  BY <1>1, <1>5 DEF Slash
<1>6. ASSUME NEW d \in Delegators, NEW v \in Validators, WithdrawDelegatorReward(d, v)
      PROVE  time' = time
  BY <1>1, <1>6 DEF WithdrawDelegatorReward
<1>7. ASSUME NEW d \in Delegators, NEW address \in Withdrawals, SetWithdrawAddress(d, address)
      PROVE  time' = time
  BY <1>7 DEF SetWithdrawAddress
<1> QED BY <1>2, <1>3, <1>4, <1>5, <1>6, <1>7 DEF Next

\* When time passes, process_queue pays the unbondings at the head of the queue that
\* are due, and these are all that are due: each delegator is paid what leaves its
\* part of the queue.
THEOREM PaidWhenDue == Spec => UnbondingsArePaidWhenDue
<1> DEFINE DuePaid ==
        time' # time =>
            /\ \E n \in 0 .. Len(queue) :
                  /\ queue' = SubSeq(queue, n + 1, Len(queue))
                  /\ \A i \in DOMAIN queue : queue[i].payout_at <= time' <=> i <= n
            /\ \A d \in Delegators : balance'[d] + Queued(d)' = balance[d] + Queued(d)
<1>1. IInv /\ [Next]_vars => DuePaid
  <2> SUFFICES ASSUME IInv, [Next]_vars, time' # time
               PROVE  /\ \E n \in 0 .. Len(queue) :
                            /\ queue' = SubSeq(queue, n + 1, Len(queue))
                            /\ \A i \in DOMAIN queue : queue[i].payout_at <= time' <=> i <= n
                      /\ \A d \in Delegators :
                            balance'[d] + Queued(d)' = balance[d] + Queued(d)
    OBVIOUS
  <2>1. PICK now \in 0 .. MaxTime : UpdateBlock(now)
    BY TimeIsOfBlocks DEF vars
  <2>2. now \in Nat
    OBVIOUS
  <2>3. /\ time \in Nat /\ queue \in Seq(Unbondings) /\ balance \in [Accounts -> Nat]
        /\ InOrder(queue, time)
    BY DEF IInv, Types
  <2>4. /\ PaidOut(now) \in Nat /\ PaidOut(now) <= balance[Module]
        /\ \A d \in Delegators : PaidTo(d, now) \in Nat
    BY <2>2, PayoutIsCovered
  <2>5. balance[Module] \in Nat
    BY <2>3, AccountsAreApart
  <2>6. /\ time <= now /\ time' = now
        /\ balance' = [a \in Accounts |-> IF a = Module THEN balance[a] - PaidOut(now)
                                          ELSE balance[a] + PaidTo(a, now)]
        /\ queue' = SubSeq(queue, Cardinality(Due(now)) + 1, Len(queue))
    BY <2>1, <2>4, <2>5 DEF UpdateBlock
  <2>7. \E n \in 0 .. Len(queue) :
            /\ queue' = SubSeq(queue, n + 1, Len(queue))
            /\ \A i \in DOMAIN queue : queue[i].payout_at <= time' <=> i <= n
    <3>1. /\ Cardinality(Due(now)) \in 0 .. Len(queue)
          /\ \A i \in DOMAIN queue : queue[i].payout_at <= now <=> i <= Cardinality(Due(now))
      BY <2>2, <2>3, DueComeFirst
    <3> QED BY <2>6, <3>1
  <2>8. ASSUME NEW d \in Delegators
        PROVE  balance'[d] + Queued(d)' = balance[d] + Queued(d)
    <3>1. PICK q : q = queue'
      OBVIOUS
    <3>2. Paid(queue, Cardinality(Due(now)), q)
      BY <2>6, <3>1 DEF Paid
    <3>3. /\ q \in Seq(Unbondings)
          /\ AmountIn(q, PlacesOf(q, d)) + PaidTo(d, now) = AmountIn(queue, PlacesOf(queue, d))
      <4>1. time <= now
        BY <2>6
      <4> QED BY <2>2, <3>2, <4>1, QueueIsProcessed
    <3>4. AmountIn(q, PlacesOf(q, d)) \in Nat
      BY <3>3, AmountIsNatural DEF PlacesOf
    <3>5. Queued(d) = AmountIn(queue, PlacesOf(queue, d))
      BY DEF Queued, QueuedAmount, AmountIn, PlacesOf
    <3>6. Queued(d)' = AmountIn(q, PlacesOf(q, d))
      BY <3>1 DEF Queued, QueuedAmount, AmountIn, PlacesOf
    <3>7. d \in Accounts /\ d # Module /\ balance[d] \in Nat
      BY <2>3, AccountsAreApart
    <3>8. balance'[d] = balance[d] + PaidTo(d, now) /\ PaidTo(d, now) \in Nat
      BY <2>4, <2>6, <3>7
    <3> QED BY <3>3, <3>4, <3>5, <3>6, <3>7, <3>8
  <2> QED BY <2>7, <2>8
<1> QED BY <1>1, Invariance, PTL DEF Spec, UnbondingsArePaidWhenDue

\* What DelegationRewards reports, for any value of the storage, before it is rounded.
RewardsIn(sts, vals, now, d, v) ==
    sts[<<d, v>>].rewards
        + (IF vals[v].stake = 0 THEN 0
           ELSE Times(vals[v].stake * RATE * (now - vals[v].last), sts[<<d, v>>].stake)
                    \div vals[v].stake)

Reported(sts, vals, now, d) ==
    SumFunction([v \in Holdings(sts, d) |-> Whole(RewardsIn(sts, vals, now, d, v))])

\* No time, no rewards.
LEMMA NothingIsNew ==
    ASSUME NEW stake \in Nat, NEW total \in Nat, total # 0
    PROVE  Times(0, stake) \div total = 0
<1>1. SCALE \in Nat /\ SCALE # 0
  BY ConstantsAssumption
<1>2. 0 * stake = 0
  OBVIOUS
<1>3. 0 \div SCALE = 0
  BY <1>1, Z3
<1>4. 0 \div total = 0
  BY Z3
<1> QED BY <1>2, <1>3, <1>4 DEF Times

\* At the time of the last calculation what is reported is what is saved.
LEMMA SavedIsReported ==
    ASSUME NEW sts, NEW vals, NEW now \in Nat, Good(sts, vals, now),
           NEW d \in Delegators, NEW v \in DOMAIN vals, sts[<<d, v>>] # NoShares,
           vals[v].stake * RATE * (now - vals[v].last) = 0
    PROVE  RewardsIn(sts, vals, now, d, v) = sts[<<d, v>>].rewards
<1> DEFINE shares == sts[<<d, v>>]
           total == vals[v].stake
           new == vals[v].stake * RATE * (now - vals[v].last)
<1>1. shares \in Shares /\ total \in Nat
  BY DEF Good, Entries, Records, Pairs
<1>2. shares.stake \in Nat /\ shares.rewards \in Nat
  BY <1>1 DEF Shares
<1>3. total # 0 => Times(new, shares.stake) \div total = 0
  <2> HIDE DEF shares, total
  <2>1. new = 0
    BY DEF total, shares
  <2> HIDE DEF new
  <2> QED BY <1>1, <1>2, <2>1, NothingIsNew
<1>4. RewardsIn(sts, vals, now, d, v)
          = shares.rewards + (IF total = 0 THEN 0 ELSE Times(new, shares.stake) \div total)
  BY DEF RewardsIn
<1> HIDE DEF shares, total, new
<1>5. RewardsIn(sts, vals, now, d, v) = shares.rewards + 0
  BY <1>3, <1>4
<1>6. RewardsIn(sts, vals, now, d, v) = shares.rewards
  BY <1>2, <1>5
<1> QED BY <1>6 DEF shares

\* update_rewards saves what is reported, for all that have shares with the validator.
LEMMA ReportedIsSaved ==
    ASSUME IInv, NEW d \in Delegators, NEW v \in DOMAIN validators, HasShares(d, v)
    PROVE  UpdatedStakes(v)[<<d, v>>].rewards = RewardsIn(stakes, validators, time, d, v)
<1>1. Good(stakes, validators, time) /\ time \in Nat /\ v \in Validators
  BY DEF IInv, Types, Good, Records
<1>2. <<d, v>> \in Pairs /\ d \in validators[v].stakers
  BY <1>1 DEF Good, Linked, HasShares, Pairs
<1>3. CASE NewRewards(v) = 0
  <2>1. UpdatedStakes(v)[<<d, v>>] = stakes[<<d, v>>]
    BY <1>2, <1>3 DEF UpdatedStakes
  <2>2. validators[v].stake * RATE * (time - validators[v].last) = 0
    BY <1>3 DEF NewRewards
  <2>3. RewardsIn(stakes, validators, time, d, v) = stakes[<<d, v>>].rewards
    BY <1>1, <2>2, SavedIsReported DEF HasShares
  <2> QED BY <2>1, <2>3
<1>4. CASE NewRewards(v) # 0
  <2>1. UpdatedStakes(v)[<<d, v>>] = [stakes[<<d, v>>] EXCEPT !.rewards = Rewards(d, v)]
    BY <1>2, <1>4 DEF UpdatedStakes
  <2>2. stakes[<<d, v>>] \in Shares
    BY <1>1, <1>2 DEF Good, Entries, HasShares
  <2>3. UpdatedStakes(v)[<<d, v>>].rewards = Rewards(d, v)
    BY <2>1, <2>2 DEF Shares
  <2>4. Rewards(d, v) = RewardsIn(stakes, validators, time, d, v)
    BY DEF Rewards, ShareOfRewards, NewRewards, RewardsIn
  <2> QED BY <2>3, <2>4
<1> QED BY <1>3, <1>4

Withdrawn(sts, p, sts2) == sts2 = [sts EXCEPT ![p].rewards = 0]

\* A withdrawal takes what is reported for the delegator with the validator, and
\* changes nothing that is reported for others or with others.
LEMMA ReportsOfOthersStay ==
    ASSUME IInv, NEW d \in Delegators, NEW v \in DOMAIN validators,
           HasShares(d, v), ~UpdatePanics(v),
           NEW sts2, Withdrawn(UpdatedStakes(v), <<d, v>>, sts2),
           NEW vals2, vals2 = UpdatedValidators(v)
    PROVE  /\ \A e \in Delegators : Holdings(sts2, e) = Holdings(stakes, e)
           /\ RewardsIn(sts2, vals2, time, d, v) = 0
           /\ \A e \in Delegators : \A w \in Holdings(stakes, e) :
                  <<e, w>> # <<d, v>> => RewardsIn(sts2, vals2, time, e, w)
                                            = RewardsIn(stakes, validators, time, e, w)
<1> DEFINE sts1 == UpdatedStakes(v)
<1>1. /\ time \in Nat /\ Good(stakes, validators, time)
      /\ DOMAIN validators \subseteq Validators
  BY DEF IInv, Types, Good, Records
<1>2. Good(sts1, vals2, time) /\ SameStakes(stakes, validators, sts1, vals2)
  BY UpdateKeeps
<1>3. <<d, v>> \in Pairs /\ sts1[<<d, v>>] # NoShares
  <2>1. <<d, v>> \in Pairs
    BY <1>1 DEF Pairs
  <2> QED BY <1>2, <2>1 DEF SameStakes, HasShares
<1>4. /\ \A w \in DOMAIN validators : w # v => vals2[w] = validators[w]
      /\ vals2[v].last = time /\ v \in DOMAIN vals2 /\ DOMAIN vals2 = DOMAIN validators
  <2>1. validators[v] \in [stakers : SUBSET Delegators, stake : Nat, last : 0 .. time]
    BY <1>1 DEF Good, Records
  <2>2. vals2 = [validators EXCEPT ![v].last = time]
    BY DEF UpdatedValidators
  <2> QED BY <2>1, <2>2
<1>5. \A e \in Delegators, w \in Validators : w # v => sts1[<<e, w>>] = stakes[<<e, w>>]
  BY DEF UpdatedStakes, Pairs
<1>6. ASSUME NEW e \in Delegators, HasShares(e, v)
      PROVE  sts1[<<e, v>>].rewards = RewardsIn(stakes, validators, time, e, v)
  BY <1>6, ReportedIsSaved
<1> HIDE DEF sts1
<1>7. Withdrawn(sts1, <<d, v>>, sts2)
  BY DEF sts1
<1>8. Good(sts2, vals2, time) /\ SameStakes(sts1, vals2, sts2, vals2)
  BY <1>1, <1>2, <1>3, <1>7, RewardsRemoved DEF Withdrawn
<1>9. /\ \A p \in Pairs : p # <<d, v>> => sts2[p] = sts1[p]
      /\ sts2[<<d, v>>].rewards = 0
  <2>1. sts1 \in Entries
    BY <1>2 DEF Good
  <2>2. sts1[<<d, v>>] \in Shares
    BY <1>3, <2>1 DEF Entries
  <2>3. sts2[<<d, v>>] = [sts1[<<d, v>>] EXCEPT !.rewards = 0]
    BY <1>3, <1>7, <2>1 DEF Entries, Withdrawn
  <2>4. sts2[<<d, v>>].rewards = 0
    BY <2>2, <2>3 DEF Shares
  <2>5. \A p \in Pairs : p # <<d, v>> => sts2[p] = sts1[p]
    BY <1>7, <2>1 DEF Entries, Withdrawn
  <2> QED BY <2>4, <2>5
<1>10. \A e \in Delegators, w \in Validators : sts2[<<e, w>>] = NoShares <=> stakes[<<e, w>>] = NoShares
  <2> SUFFICES ASSUME NEW e \in Delegators, NEW w \in Validators
               PROVE  sts2[<<e, w>>] = NoShares <=> stakes[<<e, w>>] = NoShares
    OBVIOUS
  <2>1. <<e, w>> \in Pairs
    BY DEF Pairs
  <2> QED BY <1>2, <1>8, <2>1 DEF SameStakes
<1>11. \A e \in Delegators : Holdings(sts2, e) = Holdings(stakes, e)
  BY <1>10 DEF Holdings
<1>12. ASSUME NEW e \in Delegators, HasShares(e, v)
       PROVE  RewardsIn(sts2, vals2, time, e, v) = sts2[<<e, v>>].rewards
  <2>1. sts2[<<e, v>>] # NoShares
    BY <1>1, <1>10, <1>12 DEF HasShares
  <2>2. vals2[v].stake \in Nat /\ RATE \in Nat
    BY <1>4, <1>8, ConstantsAssumption DEF Good, Records
  <2>3. vals2[v].stake * RATE * (time - vals2[v].last) = 0
    <3>1. time - vals2[v].last = 0
      BY <1>1, <1>4
    <3>2. vals2[v].stake * RATE \in Nat
      BY <2>2
    <3>3. \A n \in Nat : n * 0 = 0
      OBVIOUS
    <3> QED BY <3>1, <3>2, <3>3
  <2> QED BY <1>1, <1>4, <1>8, <2>1, <2>3, SavedIsReported
<1>13. RewardsIn(sts2, vals2, time, d, v) = 0
  BY <1>9, <1>12
<1>14. ASSUME NEW e \in Delegators, NEW w \in Holdings(stakes, e), <<e, w>> # <<d, v>>
       PROVE  RewardsIn(sts2, vals2, time, e, w) = RewardsIn(stakes, validators, time, e, w)
  <2>1. <<e, w>> \in Pairs /\ w \in Validators /\ stakes[<<e, w>>] # NoShares
    BY DEF Pairs, Holdings
  <2>2. sts2[<<e, w>>] = sts1[<<e, w>>]
    BY <1>9, <1>14, <2>1
  <2>3. CASE w = v
    <3>1. HasShares(e, v)
      BY <2>1, <2>3 DEF HasShares
    <3> QED BY <1>6, <1>12, <2>2, <2>3, <3>1
  <2>4. CASE w # v
    <3>1. sts2[<<e, w>>] = stakes[<<e, w>>]
      BY <1>5, <2>1, <2>2, <2>4
    <3>2. w \in DOMAIN validators
      BY <1>1, <2>1 DEF Good, Linked
    <3>3. vals2[w] = validators[w]
      BY <1>4, <2>4, <3>2
    <3> QED BY <3>1, <3>3 DEF RewardsIn
  <2> QED BY <2>3, <2>4
<1> QED BY <1>11, <1>13, <1>14

LEMMA ReportsArePaid ==
    ASSUME IInv, NEW d \in Delegators, NEW v \in DOMAIN validators,
           HasShares(d, v), ~UpdatePanics(v),
           NEW sts2, Withdrawn(UpdatedStakes(v), <<d, v>>, sts2),
           NEW vals2, vals2 = UpdatedValidators(v)
    PROVE  /\ Reported(sts2, vals2, time, d) + Whole(RewardsIn(stakes, validators, time, d, v))
                  = Reported(stakes, validators, time, d)
           /\ \A e \in Delegators \ {d} :
                  Reported(sts2, vals2, time, e) = Reported(stakes, validators, time, e)
<1> DEFINE D(e) == Holdings(stakes, e)
           f(e) == [w \in D(e) |-> Whole(RewardsIn(stakes, validators, time, e, w))]
           g(e) == [w \in D(e) |-> Whole(RewardsIn(sts2, vals2, time, e, w))]
<1>1. /\ \A e \in Delegators : Holdings(sts2, e) = D(e)
      /\ RewardsIn(sts2, vals2, time, d, v) = 0
      /\ \A e \in Delegators : \A w \in D(e) :
             <<e, w>> # <<d, v>> => RewardsIn(sts2, vals2, time, e, w)
                                       = RewardsIn(stakes, validators, time, e, w)
  BY ReportsOfOthersStay
<1>2. ASSUME NEW e \in Delegators
      PROVE  /\ Reported(stakes, validators, time, e) = SumFunctionOnSet(f(e), D(e))
             /\ Reported(sts2, vals2, time, e) = SumFunctionOnSet(g(e), D(e))
  <2>1. Reported(stakes, validators, time, e) = SumFunction(f(e))
    BY DEF Reported
  <2>2. Reported(sts2, vals2, time, e) = SumFunction(g(e))
    BY <1>1 DEF Reported
  <2>3. DOMAIN f(e) = D(e) /\ DOMAIN g(e) = D(e)
    OBVIOUS
  <2> HIDE DEF f, g, D
  <2> QED BY <2>1, <2>2, <2>3, SumIsOnDomain
<1>3. ASSUME NEW e \in Delegators, e # d
      PROVE  Reported(sts2, vals2, time, e) = Reported(stakes, validators, time, e)
  <2>1. g(e) = f(e)
    BY <1>1, <1>3
  <2> HIDE DEF f, g
  <2> QED BY <1>2, <2>1
<1>4. /\ time \in Nat /\ Good(stakes, validators, time)
      /\ DOMAIN validators \subseteq Validators
  BY DEF IInv, Types, Good, Records
<1>5. v \in D(d)
  BY <1>4 DEF Holdings, HasShares
<1>6. IsFiniteSet(D(d)) /\ D(d) \subseteq DOMAIN validators
  <2>1. D(d) \subseteq DOMAIN validators
    BY <1>4 DEF Good, Linked, Holdings
  <2> HIDE DEF D
  <2> QED BY <1>4, <2>1, FS_Subset DEF Good, Finite
<1>7. ASSUME NEW w \in D(d)
      PROVE  RewardsIn(stakes, validators, time, d, w) \in Nat
  <2>1. HasShares(d, w) /\ w \in DOMAIN validators
    BY <1>6 DEF Holdings, HasShares
  <2>2. Rewards(d, w) \in Nat
    BY <1>4, <2>1, RewardsAreNatural DEF Good
  <2>3. Rewards(d, w) = RewardsIn(stakes, validators, time, d, w)
    BY DEF Rewards, ShareOfRewards, NewRewards, RewardsIn
  <2> QED BY <2>2, <2>3
<1>8. Natural(f(d), D(d))
  <2>1. \A w \in D(d) : f(d)[w] \in Nat
    BY <1>7, WholeIsNatural
  <2> HIDE DEF f, D
  <2> QED BY <2>1 DEF Natural
<1>9. g(d)[v] = 0 /\ f(d)[v] = Whole(RewardsIn(stakes, validators, time, d, v))
  <2>1. Whole(0) = 0
    BY WholeOfScaled, Scaled
  <2> QED BY <1>1, <1>5, <2>1
<1>10. \A w \in D(d) : w # v => g(d)[w] = f(d)[w]
  BY <1>1
<1>11. Natural(g(d), D(d))
  <2> HIDE DEF f, g, D
  <2> QED BY <1>8, <1>9, <1>10 DEF Natural
<1>12. SumFunctionOnSet(g(d), D(d)) + f(d)[v] = SumFunctionOnSet(f(d), D(d)) + g(d)[v]
  <2> HIDE DEF f, g, D
  <2> QED BY <1>5, <1>6, <1>8, <1>10, <1>11, SumChanges
<1>13. SumFunctionOnSet(f(d), D(d)) \in Nat
  <2> HIDE DEF f, g, D
  <2> QED BY <1>6, <1>8, SumIsNatural
<1>14. Reported(sts2, vals2, time, d) + Whole(RewardsIn(stakes, validators, time, d, v))
           = Reported(stakes, validators, time, d)
  <2>1. /\ Reported(stakes, validators, time, d) = SumFunctionOnSet(f(d), D(d))
        /\ Reported(sts2, vals2, time, d) = SumFunctionOnSet(g(d), D(d))
    BY <1>2
  <2> HIDE DEF f, g, D
  <2> QED BY <1>9, <1>12, <1>13, <2>1
<1> QED BY <1>3, <1>14

\* Only WithdrawDelegatorReward mints.
LEMMA MintedIsWithdrawn ==
    ASSUME Next, minted' # minted
    PROVE  \E d \in Delegators, v \in Validators : WithdrawDelegatorReward(d, v)
<1>1. ASSUME Panic PROVE minted' = minted
  BY <1>1 DEF Panic
<1>2. ASSUME NEW v \in Validators, AddValidator(v) PROVE minted' = minted
  BY <1>2 DEF AddValidator
<1>3. ASSUME NEW d \in Delegators, NEW v \in Validators, NEW amount \in Amounts,
             Delegate(d, v, amount) \/ Undelegate(d, v, amount)
      PROVE  minted' = minted
  BY <1>1, <1>3 DEF Delegate, Undelegate
<1>4. ASSUME NEW d \in Delegators, NEW src \in Validators, NEW dst \in Validators,
             NEW amount \in Amounts \cup {0}, Redelegate(d, src, dst, amount)
      PROVE  minted' = minted
  BY <1>1, <1>4 DEF Redelegate
<1>5. ASSUME NEW v \in Validators, NEW percentage \in Percentages, Slash(v, percentage)
      PROVE  minted' = minted
  BY <1>1, <1>5 DEF Slash
<1>6. ASSUME NEW now \in 0 .. MaxTime, UpdateBlock(now) PROVE minted' = minted
  BY <1>1, <1>6 DEF UpdateBlock
<1>7. ASSUME NEW d \in Delegators, NEW address \in Withdrawals, SetWithdrawAddress(d, address)
      PROVE  minted' = minted
  BY <1>7 DEF SetWithdrawAddress
<1> QED BY <1>2, <1>3, <1>4, <1>5, <1>6, <1>7 DEF Next

\* One withdrawal mints, to the delegator's withdraw address, what DelegationRewards
\* reported before it; DelegationTotalRewards of the delegator goes down by as much,
\* and nobody else's changes, although update_rewards rewrites the shares of all
\* stakers of the validator.
THEOREM WithdrawalsPay == Spec => WithdrawalsPayWhatIsReported
<1> DEFINE Pays ==
        minted' # minted => \E d \in Delegators, v \in DOMAIN validators :
            \E amount \in GetRewards(d, v) :
                /\ minted' = [minted EXCEPT ![GetWithdrawAddress(d)] = @ + amount]
                /\ TotalRewards(d)' + amount = TotalRewards(d)
                /\ \A other \in Delegators \ {d} : TotalRewards(other)' = TotalRewards(other)
<1>1. ASSUME NEW d PROVE TotalRewards(d) = Reported(stakes, validators, time, d)
  <2>1. DelegatorValidators(d) = Holdings(stakes, d)
    BY DEF DelegatorValidators, Holdings, HasShares
  <2>2. \A v : Rewards(d, v) = RewardsIn(stakes, validators, time, d, v)
    BY DEF Rewards, ShareOfRewards, NewRewards, RewardsIn
  <2> QED BY <2>1, <2>2 DEF TotalRewards, Reported
<1>2. ASSUME NEW d PROVE TotalRewards(d)' = Reported(stakes', validators', time', d)
  <2>1. DelegatorValidators(d)' = Holdings(stakes', d)
    BY DEF DelegatorValidators, Holdings, HasShares
  <2>2. \A v : Rewards(d, v)' = RewardsIn(stakes', validators', time', d, v)
    BY DEF Rewards, ShareOfRewards, NewRewards, RewardsIn
  <2> QED BY <2>1, <2>2 DEF TotalRewards, Reported
<1>3. IInv /\ [Next]_vars => Pays
  <2> SUFFICES ASSUME IInv, [Next]_vars, minted' # minted
               PROVE  \E d \in Delegators, v \in DOMAIN validators :
                        \E amount \in GetRewards(d, v) :
                            /\ minted' = [minted EXCEPT ![GetWithdrawAddress(d)] = @ + amount]
                            /\ TotalRewards(d)' + amount = TotalRewards(d)
                            /\ \A other \in Delegators \ {d} :
                                  TotalRewards(other)' = TotalRewards(other)
    OBVIOUS
  <2>1. PICK d \in Delegators, v \in Validators : WithdrawDelegatorReward(d, v)
    BY MintedIsWithdrawn DEF vars
  <2> DEFINE amount == Whole(UpdatedStakes(v)[<<d, v>>].rewards)
  <2>2. v \in DOMAIN validators
    BY <2>1 DEF WithdrawDelegatorReward
  <2>3. ~UpdatePanics(v)
    BY <2>1 DEF WithdrawDelegatorReward, Panic
  <2>4. /\ HasShares(d, v)
        /\ stakes' = RemoveRewards(d, v)
        /\ validators' = UpdatedValidators(v)
        /\ time' = time
        /\ minted' = [minted EXCEPT ![GetWithdrawAddress(d)] = @ + amount]
    BY <2>1, <2>3 DEF WithdrawDelegatorReward
  <2>5. PICK sts, vals : sts = stakes' /\ vals = validators'
    OBVIOUS
  <2>6. Withdrawn(UpdatedStakes(v), <<d, v>>, sts) /\ vals = UpdatedValidators(v)
    BY <2>4, <2>5 DEF RemoveRewards, Withdrawn
  <2>7. amount = Whole(RewardsIn(stakes, validators, time, d, v))
    BY <2>2, <2>4, ReportedIsSaved
  <2>8. Rewards(d, v) = RewardsIn(stakes, validators, time, d, v)
    BY DEF Rewards, ShareOfRewards, NewRewards, RewardsIn
  <2>9. amount \in GetRewards(d, v)
    BY <2>4, <2>7, <2>8 DEF GetRewards
  <2> HIDE DEF amount
  <2>10. /\ Reported(sts, vals, time, d) + amount = Reported(stakes, validators, time, d)
         /\ \A e \in Delegators \ {d} :
                Reported(sts, vals, time, e) = Reported(stakes, validators, time, e)
    BY <2>2, <2>3, <2>4, <2>6, <2>7, ReportsArePaid
  <2>11. \A e : TotalRewards(e)' = Reported(sts, vals, time, e)
    BY <1>2, <2>4, <2>5
  <2>12. /\ TotalRewards(d)' + amount = TotalRewards(d)
         /\ \A e \in Delegators \ {d} : TotalRewards(e)' = TotalRewards(e)
    BY <1>1, <2>10, <2>11
  <2> QED BY <2>2, <2>4, <2>9, <2>12
<1> QED BY <1>3, Invariance, PTL DEF Spec, WithdrawalsPayWhatIsReported

===============================================================================
