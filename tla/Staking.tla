------------------------------- MODULE Staking -------------------------------
(***************************************************************************)
(* src/staking.rs: StakeKeeper and DistributionKeeper, with the part of the *)
(* bank (src/bank.rs) they move tokens with and the block updates of        *)
(* src/app.rs that drive process_queue.  One bonded denom.                  *)
(*                                                                          *)
(* Execute and sudo run inside transactional: a handler that returns an     *)
(* error leaves no trace and is no step here.  A handler that panics ends   *)
(* the test: panicked is set and nothing runs after that.                   *)
(*                                                                          *)
(* A Decimal256 is a natural number of units of 1/SCALE (1/10^18 in the     *)
(* code), rounded down like there; a Uint256 amount is a natural number.    *)
(***************************************************************************)
EXTENDS Naturals, Sequences, FiniteSets, Functions

CONSTANTS Delegators, Validators,
          Module,          \* module_addr, the account that holds staked tokens
          NoShares,        \* STAKES has no entry
          SCALE,           \* units of a Decimal256 in 1
          RATE,            \* reward units per staked token and second: apr
                           \* less commission, over the seconds of a year
          UNBONDING_TIME,  \* StakingInfo.unbonding_time
          Percentages,     \* slashed percentages, in units of 1/SCALE
          Amounts,         \* amounts in messages
          Withdrawals,     \* addresses that are set to receive rewards
          InitialBalance,  \* tokens of each delegator at the start
          MaxTime,         \* bound: seconds that pass
          MaxSlashes,      \* bound: slashes
          MaxQueue         \* bound: unbondings queued at a time

ASSUME ConstantsAssumption ==
    /\ Module \notin Delegators
    /\ SCALE \in Nat \ {0} /\ RATE \in Nat /\ UNBONDING_TIME \in Nat
    /\ Percentages \subseteq Nat
    /\ Withdrawals \subseteq Delegators \cup {Module}
    /\ Amounts \subseteq Nat \ {0} /\ InitialBalance \in [Delegators -> Nat]
    /\ MaxTime \in Nat /\ MaxSlashes \in Nat /\ MaxQueue \in Nat

Shares == [stake : Nat, rewards : Nat]
ASSUME NoSharesAssumption == NoShares \notin Shares

VARIABLES time,       \* block.time, in seconds
          stakes,     \* STAKES: shares of a delegator with a validator
          validators, \* VALIDATOR_INFO of the validators that were added
          queue,      \* UNBONDING_QUEUE
          withdraw,   \* WITHDRAW_ADDRESS of the delegators that set one
          balance,    \* BALANCES of the bonded denom
          panicked,   \* a Rust panic ended the test
          slashes,    \* how many slashes there were, for the bound
          minted,     \* history: rewards minted to each account
          accrued     \* history: rewards a delegator earned second by second
vars == <<time, stakes, validators, queue, withdraw, balance, panicked, slashes, minted, accrued>>

Accounts == Delegators \cup {Module}
Pairs == Delegators \X Validators

Whole(units) == units \div SCALE                    \* Uint256::new(1).mul_floor
Times(units1, units2) == (units1 * units2) \div SCALE
Dec(amount) == amount * SCALE                       \* Decimal256::from_ratio(amount, 1)

HasShares(d, v) == stakes[<<d, v>>] # NoShares

-----------------------------------------------------------------------------
(* Rewards *)

\* calculate_rewards since the last calculation.
NewRewards(v) == validators[v].stake * RATE * (time - validators[v].last)

\* Shares::share_of_rewards.
ShareOfRewards(d, v, rewards) ==
    IF validators[v].stake = 0 THEN 0
    ELSE Times(rewards, stakes[<<d, v>>].stake) \div validators[v].stake

\* get_rewards_from_validator, before it is rounded to whole tokens.
Rewards(d, v) == stakes[<<d, v>>].rewards + ShareOfRewards(d, v, NewRewards(v))

\* update_rewards: the new rewards of every staker, unless there are none.
\* `expect("all stakers in validator_info should exist")` panics otherwise.
StakersExist(v) == \A d \in validators[v].stakers : HasShares(d, v)
UpdatePanics(v) == NewRewards(v) # 0 /\ ~StakersExist(v)

\* Mutant of UpdatedStakes: only the time of the calculation is saved.
UpdatedStakesNotSaved(v) == stakes

UpdatedStakes(v) ==
    [p \in Pairs |->
        IF p[2] = v /\ p[1] \in validators[v].stakers /\ NewRewards(v) # 0
        THEN [stakes[p] EXCEPT !.rewards = Rewards(p[1], v)] ELSE stakes[p]]

\* Mutant of UpdatedValidators: the time of the calculation is not saved.
UpdatedValidatorsKeepTime(v) == validators

UpdatedValidators(v) == [validators EXCEPT ![v].last = time]

\* The queries of both modules.  GetRewards is DelegationRewards, empty when there are
\* no shares; AllDelegations lists what has shares, Delegation what has whole tokens.
GetRewards(d, v) == IF HasShares(d, v) THEN {Whole(Rewards(d, v))} ELSE {}
GetStake(d, v) == Whole(stakes[<<d, v>>].stake)
DelegatorValidators(d) == {v \in Validators : HasShares(d, v)}
AllDelegations(d) ==
    [v \in {w \in DOMAIN validators : HasShares(d, w)} |-> GetStake(d, v)]
Delegation(d, v) ==
    {[amount |-> GetStake(d, w), rewards |-> GetRewards(d, w) \ {0}] :
        w \in {u \in {v} : HasShares(d, u) /\ GetStake(d, u) # 0}}
TotalRewards(d) ==
    SumFunction([v \in DelegatorValidators(d) |-> Whole(Rewards(d, v))])
GetWithdrawAddress(d) == IF d \in DOMAIN withdraw THEN withdraw[d] ELSE d

Panic ==
    /\ panicked' = TRUE
    /\ UNCHANGED <<time, stakes, validators, queue, withdraw, balance, slashes, minted, accrued>>

-----------------------------------------------------------------------------
(* update_stake *)

SharesOf(sts, d, v) ==
    IF sts[<<d, v>>] = NoShares THEN [stake |-> 0, rewards |-> 0] ELSE sts[<<d, v>>]

\* Saves shares that became d's; without stake the entry goes, and with it the
\* rewards that were not withdrawn.
SavedStakes(sts, d, v, shares) ==
    [sts EXCEPT ![<<d, v>>] = IF shares.stake = 0 THEN NoShares ELSE shares]

\* Mutant of SavedValidators: a delegator without stake stays a staker.
SavedValidatorsKeepStaker(vals, d, v, shares, total) ==
    [vals EXCEPT ![v].stake = total, ![v].stakers = @ \cup {d}]

SavedValidators(vals, d, v, shares, total) ==
    [vals EXCEPT ![v].stake = total,
                 ![v].stakers = IF shares.stake = 0 THEN @ \ {d} ELSE @ \cup {d}]

\* The storage after add_stake and remove_stake, from stakes and validators
\* whose rewards are up to date.
Added(st, d, v, amount) ==
    LET old    == SharesOf(st.stakes, d, v)
        shares == [old EXCEPT !.stake = @ + Dec(amount)]
    IN  [stakes     |-> SavedStakes(st.stakes, d, v, shares),
         validators |-> SavedValidators(st.validators, d, v, shares,
                                        st.validators[v].stake + amount)]

\* Mutant of CanRemove: only the stake of the validator is checked.
CanRemoveTotal(st, d, v, amount) ==
    /\ st.stakes[<<d, v>>] # NoShares
    /\ amount <= st.validators[v].stake

CanRemove(st, d, v, amount) ==
    /\ st.stakes[<<d, v>>] # NoShares
    /\ Dec(amount) <= st.stakes[<<d, v>>].stake
    /\ amount <= st.validators[v].stake       \* checked_sub

\* Mutants of Removed: the stake of the validator is left alone; the amount is
\* taken for a Decimal without conversion.
RemovedFromSharesOnly(st, d, v, amount) ==
    LET old    == st.stakes[<<d, v>>]
        shares == [old EXCEPT !.stake = @ - Dec(amount)]
    IN  [stakes     |-> SavedStakes(st.stakes, d, v, shares),
         validators |-> SavedValidators(st.validators, d, v, shares, st.validators[v].stake)]
RemovedUnits(st, d, v, amount) ==
    LET old    == st.stakes[<<d, v>>]
        shares == [old EXCEPT !.stake = @ - amount]
    IN  [stakes     |-> SavedStakes(st.stakes, d, v, shares),
         validators |-> SavedValidators(st.validators, d, v, shares,
                                        st.validators[v].stake - amount)]

Removed(st, d, v, amount) ==
    LET old    == st.stakes[<<d, v>>]
        shares == [old EXCEPT !.stake = @ - Dec(amount)]
    IN  [stakes     |-> SavedStakes(st.stakes, d, v, shares),
         validators |-> SavedValidators(st.validators, d, v, shares,
                                        st.validators[v].stake - amount)]

Updated(v) == [stakes |-> UpdatedStakes(v), validators |-> UpdatedValidators(v)]

\* A second of earning at the stake a delegator has, with a validator that has
\* whole tokens left.
Earning == [p \in Pairs |->
    IF stakes[p] = NoShares THEN 0
    ELSE IF validators[p[2]].stake = 0 THEN 0
    ELSE Times(stakes[p].stake, RATE)]

\* What a delegator has not withdrawn is forfeited with the entry in STAKES.
Forfeit(sts, acc) == [p \in Pairs |-> IF sts[p] = NoShares THEN 0 ELSE acc[p]]

-----------------------------------------------------------------------------
Init ==
    /\ time = 0
    /\ stakes = [p \in Pairs |-> NoShares]
    /\ validators = [v \in {} |-> 0]
    /\ queue = <<>>
    /\ withdraw = [d \in {} |-> 0]
    /\ balance = [a \in Accounts |-> IF a = Module THEN 0 ELSE InitialBalance[a]]
    /\ panicked = FALSE
    /\ slashes = 0
    /\ minted = [a \in Accounts |-> 0]
    /\ accrued = [p \in Pairs |-> 0]

AddValidator(v) ==
    /\ v \notin DOMAIN validators
    /\ validators' = [w \in DOMAIN validators \cup {v} |->
                        IF w = v THEN [stakers |-> {}, stake |-> 0, last |-> time] ELSE validators[w]]
    /\ UNCHANGED <<time, stakes, queue, withdraw, balance, panicked, slashes, minted, accrued>>

\* StakingMsg::Delegate: add_stake, then the tokens move to the module.
Delegate(d, v, amount) ==
    /\ v \in DOMAIN validators
    /\ IF UpdatePanics(v) THEN Panic
       ELSE /\ amount <= balance[d]
            /\ LET after == Added(Updated(v), d, v, amount)
               IN  /\ stakes' = after.stakes
                   /\ validators' = after.validators
            /\ balance' = [balance EXCEPT ![d] = @ - amount, ![Module] = @ + amount]
            /\ UNCHANGED <<time, queue, withdraw, panicked, slashes, minted, accrued>>

\* StakingMsg::Undelegate: remove_stake, then a place at the end of the queue.
Undelegate(d, v, amount) ==
    /\ v \in DOMAIN validators
    /\ IF UpdatePanics(v) THEN Panic
       ELSE /\ CanRemove(Updated(v), d, v, amount)
            /\ Len(queue) < MaxQueue
            /\ LET after == Removed(Updated(v), d, v, amount)
               IN  /\ stakes' = after.stakes
                   /\ validators' = after.validators
                   /\ accrued' = Forfeit(after.stakes, accrued)
            /\ queue' = Append(queue, [delegator |-> d, validator |-> v, amount |-> amount,
                                       payout_at |-> time + UNBONDING_TIME])
            /\ UNCHANGED <<time, withdraw, balance, panicked, slashes, minted>>

\* StakingMsg::Redelegate: remove_stake from src, add_stake to dst.
Redelegate(d, src, dst, amount) ==
    /\ {src, dst} \subseteq DOMAIN validators
    /\ ~UpdatePanics(src) => CanRemove(Updated(src), d, src, amount)
    /\ IF UpdatePanics(src) \/ UpdatePanics(dst) THEN Panic
       ELSE /\ LET removed == Removed(Updated(src), d, src, amount)
                   current == [stakes |-> [p \in Pairs |->
                                   IF p[2] = dst /\ src # dst THEN UpdatedStakes(dst)[p]
                                   ELSE removed.stakes[p]],
                               validators |-> [removed.validators EXCEPT ![dst].last = time]]
                   after   == Added(current, d, dst, amount)
               IN  /\ stakes' = after.stakes
                   /\ validators' = after.validators
                   /\ accrued' = Forfeit(removed.stakes, accrued)
            /\ UNCHANGED <<time, queue, withdraw, balance, panicked, slashes, minted>>

\* validate_percentage.
IsPercentage(percentage) == percentage <= SCALE

\* StakingSudo::Slash: stakes and queued unbondings lose the same share; the
\* tokens stay with the module.
Slash(v, percentage) ==
    LET remaining == IF IsPercentage(percentage) THEN SCALE - percentage ELSE 0
        sts       == UpdatedStakes(v)
        total     == Whole(validators[v].stake * remaining)
        stakers   == validators[v].stakers
    IN  /\ v \in DOMAIN validators
        /\ IsPercentage(percentage)
        /\ slashes < MaxSlashes
        /\ IF UpdatePanics(v) \/ (total # 0 /\ ~StakersExist(v)) THEN Panic
           ELSE /\ stakes' = [p \in Pairs |->
                        IF p[2] # v \/ p[1] \notin stakers THEN sts[p]
                        ELSE IF total = 0 THEN NoShares
                        ELSE [sts[p] EXCEPT !.stake = Times(@, remaining)]]
                /\ validators' = [validators EXCEPT ![v] =
                        [stakers |-> IF total = 0 THEN {} ELSE stakers,
                         stake |-> total, last |-> time]]
                /\ queue' = [i \in DOMAIN queue |->
                        IF queue[i].validator = v
                        THEN [queue[i] EXCEPT !.amount = Whole(@ * remaining)] ELSE queue[i]]
                /\ accrued' = Forfeit(stakes', accrued)
                /\ slashes' = slashes + 1
                /\ UNCHANGED <<time, withdraw, balance, panicked, minted>>

\* remove_rewards: the fraction of a token is discarded.
RemoveRewards(d, v) == [UpdatedStakes(v) EXCEPT ![<<d, v>>].rewards = 0]

\* DistributionMsg::WithdrawDelegatorReward: minting nothing is an error.
WithdrawDelegatorReward(d, v) ==
    /\ v \in DOMAIN validators
    /\ IF UpdatePanics(v) THEN Panic
       ELSE /\ HasShares(d, v)
            /\ LET amount == Whole(UpdatedStakes(v)[<<d, v>>].rewards)
               IN  /\ amount # 0
                   /\ stakes' = RemoveRewards(d, v)
                   /\ balance' = [balance EXCEPT ![GetWithdrawAddress(d)] = @ + amount]
                   /\ minted' = [minted EXCEPT ![GetWithdrawAddress(d)] = @ + amount]
            /\ validators' = UpdatedValidators(v)
            /\ accrued' = [accrued EXCEPT ![<<d, v>>] = 0]
            /\ UNCHANGED <<time, queue, withdraw, panicked, slashes>>

\* DistributionMsg::SetWithdrawAddress.
SetWithdrawAddress(d, address) ==
    /\ withdraw' = [e \in (DOMAIN withdraw \cup {d}) \ {f \in {d} : f = address} |->
                      IF e = d THEN address ELSE withdraw[e]]
    /\ UNCHANGED <<time, stakes, validators, queue, balance, panicked, slashes, minted, accrued>>

-----------------------------------------------------------------------------
(* process_queue *)

QueuedAmount(places) == SumFunctionOnSet([i \in DOMAIN queue |-> queue[i].amount], places)

\* Mutant of Due: an unbonding is due only after its time.
DueLater(now) == {i \in DOMAIN queue : \A j \in 1 .. i : queue[j].payout_at < now}

\* The leading entries that are due: the loop stops at the first that is not.
Due(now) == {i \in DOMAIN queue : \A j \in 1 .. i : queue[j].payout_at <= now}

\* The delegation looked at when the ith entry is popped: the whole tokens of
\* the shares and the unbondings still queued.
RemainingDelegation(i) ==
    LET same == {j \in DOMAIN queue : /\ j > i
                                     /\ queue[j].delegator = queue[i].delegator
                                     /\ queue[j].validator = queue[i].validator}
    IN  Whole(stakes[<<queue[i].delegator, queue[i].validator>>].stake)
            + QueuedAmount(same)

PaidTo(d, now) == QueuedAmount({i \in Due(now) : queue[i].delegator = d})
PaidOut(now) == QueuedAmount(Due(now))

\* STAKES.remove for an entry without whole tokens left.
StakesAfterPayout(now) ==
    [p \in Pairs |->
        IF \E i \in Due(now) :
              /\ p = <<queue[i].delegator, queue[i].validator>>
              /\ stakes[p] # NoShares => RemainingDelegation(i) = 0
        THEN NoShares ELSE stakes[p]]

\* App::update_block and set_block, with time going forward: process_queue pays
\* from the module account, and unwrap() panics when a transfer fails.
UpdateBlock(now) ==
    /\ time <= now
    /\ IF PaidOut(now) > balance[Module] THEN Panic
       ELSE /\ time' = now
            /\ stakes' = StakesAfterPayout(now)
            /\ balance' = [a \in Accounts |-> IF a = Module THEN balance[a] - PaidOut(now)
                                              ELSE balance[a] + PaidTo(a, now)]
            /\ queue' = SubSeq(queue, Cardinality(Due(now)) + 1, Len(queue))
            /\ accrued' = Forfeit(StakesAfterPayout(now),
                              [p \in Pairs |-> accrued[p] + Earning[p] * (now - time)])
            /\ UNCHANGED <<validators, withdraw, panicked, slashes, minted>>

Next ==
    /\ ~panicked
    /\ \/ \E v \in Validators : AddValidator(v)
       \/ \E d \in Delegators, v \in Validators, amount \in Amounts :
            \/ Delegate(d, v, amount)
            \/ Undelegate(d, v, amount)
       \/ \E d \in Delegators, src \in Validators, dst \in Validators, amount \in Amounts \cup {0} :
            Redelegate(d, src, dst, amount)
       \/ \E v \in Validators, percentage \in Percentages : Slash(v, percentage)
       \/ \E d \in Delegators, v \in Validators : WithdrawDelegatorReward(d, v)
       \/ \E d \in Delegators, address \in Withdrawals : SetWithdrawAddress(d, address)
       \/ \E now \in 0 .. MaxTime : UpdateBlock(now)

Spec == Init /\ [][Next]_vars

-----------------------------------------------------------------------------
(* Properties *)

TypeOK ==
    /\ time \in Nat
    /\ stakes \in [Pairs -> Shares \cup {NoShares}]
    /\ \A v \in DOMAIN validators :
          /\ v \in Validators
          /\ validators[v] \in [stakers : SUBSET Delegators, stake : Nat, last : 0 .. time]
    /\ queue \in Seq([delegator : Delegators, validator : Validators, amount : Nat, payout_at : Nat])
    /\ DOMAIN withdraw \subseteq Delegators
    /\ \A d \in DOMAIN withdraw : withdraw[d] \in Accounts \ {d}
    /\ balance \in [Accounts -> Nat]
    /\ panicked \in BOOLEAN

Queued(d) == QueuedAmount({i \in DOMAIN queue : queue[i].delegator = d})

\* update_block and set_block unwrap the result of process_queue: they rely on
\* the module account holding every token that is staked or queued, whatever was
\* delegated, redelegated, slashed and rounded before.
Solvent ==
    SumFunction([v \in DOMAIN validators |-> validators[v].stake])
        + QueuedAmount(DOMAIN queue) <= balance[Module]

\* Staking moves tokens and never makes them: what a delegator holds, is owed
\* by the queue and could undelegate (get_stake) never exceeds what it started
\* with and the rewards minted to it.
NothingFromNothing ==
    \A d \in Delegators :
        balance[d] + Queued(d)
            + SumFunction([v \in DelegatorValidators(d) |-> GetStake(d, v)])
        <= InitialBalance[d] + minted[d]

\* update_rewards, "Always call this to update rewards before changing anything
\* that influences future rewards": the rewards get_rewards computes lazily are
\* those a delegator earns second by second at the stake it has at the time.
RewardsAreEarned ==
    \A d \in Delegators, v \in Validators :
        HasShares(d, v) => Rewards(d, v) = accrued[<<d, v>>]

\* "Removes all rewards from the given (delegator, validator) pair and returns the
\* amount": one withdrawal mints, to the delegator's withdraw address, what
\* DelegationRewards reported before it, DelegationTotalRewards of the delegator
\* goes down by as much, and nobody else's changes.
WithdrawalsPayWhatIsReported ==
    [][minted' # minted => \E d \in Delegators, v \in DOMAIN validators :
        \E amount \in GetRewards(d, v) :
            /\ minted' = [minted EXCEPT ![GetWithdrawAddress(d)] = @ + amount]
            /\ TotalRewards(d)' + amount = TotalRewards(d)
            /\ \A other \in Delegators \ {d} : TotalRewards(other)' = TotalRewards(other)]_vars

\* process_queue, "assuming the queue is sorted by payout_at": when time passes
\* the unbondings that are due are paid, those and no others.
UnbondingsArePaidWhenDue ==
    [][time' # time =>
        /\ \E n \in 0 .. Len(queue) :
              /\ queue' = SubSeq(queue, n + 1, Len(queue))
              /\ \A i \in DOMAIN queue : queue[i].payout_at <= time' <=> i <= n
        /\ \A d \in Delegators : balance'[d] + Queued(d)' = balance[d] + Queued(d)]_vars

\* `expect("all stakers in validator_info should exist")` in update_rewards and
\* slash, and the unwrap() of update_block, never fail.
NeverPanics == ~panicked

SharesWith(v) ==
    SumFunction([d \in {e \in Delegators : HasShares(e, v)} |-> stakes[<<d, v>>].stake])

ValidatorInfoMatchesStakes ==
    \A v \in DOMAIN validators :
        /\ validators[v].stakers = {d \in Delegators : HasShares(d, v)}
        /\ validators[v].stake = Whole(SharesWith(v))

\* ValidatorInfo: stakers are those "that have staked with this validator", and stake
\* is "the whole stake of all stakers".  As long as nothing is slashed and rounded the
\* records of validators and delegators stay in step through unbondings that are paid
\* and redelegations, nothing panics, and AllDelegations lists what Delegation answers.
RecordsAgreeBeforeSlash ==
    slashes = 0 =>
        /\ ~panicked
        /\ ValidatorInfoMatchesStakes
        /\ \A d \in Delegators : \A v \in DOMAIN validators :
              {delegation.amount : delegation \in Delegation(d, v)}
                  = {AllDelegations(d)[w] : w \in {v} \cap DOMAIN AllDelegations(d)}
========================================
