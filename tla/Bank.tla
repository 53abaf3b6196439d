---------------------------------- MODULE Bank ----------------------------------
(***************************************************************************)
(* BankKeeper of src/bank.rs: what its messages, its queries and its        *)
(* administration do to the balances of all accounts, b.                    *)
(*                                                                          *)
(* A balance is kept normalized by NativeBalance (cw_utils): sorted, each   *)
(* denom once and no zeros, which is a function from denoms to amounts.  A  *)
(* list of coins in a message is as its sender wrote it, with denoms        *)
(* repeated and amounts of zero.                                            *)
(***************************************************************************)
EXTENDS Naturals, Sequences, Functions

CONSTANTS Addresses,   \* all addresses that hold coins
          Valid,       \* those that addr_validate accepts
          Denoms

ASSUME AddressesAssumption == Valid \subseteq Addresses

\* The coins of a list that count, by their places.
NormalizeAmount(coins) == {i \in DOMAIN coins : coins[i].amount # 0}

\* "Cannot transfer empty coins amount"
IsTransferable(coins) == NormalizeAmount(coins) # {}

\* What the coins in these places add up to: NativeBalance::normalize.
Total(coins, places, denom) ==
    SumFunction([i \in {i \in places : coins[i].denom = denom} |-> coins[i].amount])
TotalOf(coins, denom) == Total(coins, DOMAIN coins, denom)
Transferred(coins, denom) == Total(coins, NormalizeAmount(coins), denom)

NoCoins == [denom \in Denoms |-> 0]

SetBalance(b, account, coins) ==
    [b EXCEPT ![account] = [denom \in Denoms |-> TotalOf(coins, denom)]]

MintCoins(b, to, coins) ==
    [b EXCEPT ![to] = [denom \in Denoms |-> @[denom] + Transferred(coins, denom)]]

\* Mutant of CanBurn: each coin is compared with the balance there was before.
CanBurnEach(b, from, coins) ==
    /\ IsTransferable(coins)
    /\ \A i \in DOMAIN coins : coins[i].amount <= b[from][coins[i].denom]

\* NativeBalance - Vec<Coin> takes the coins off one by one.
CanBurn(b, from, coins) ==
    /\ IsTransferable(coins)
    /\ \A denom \in Denoms : TotalOf(coins, denom) <= b[from][denom]

BurnCoins(b, from, coins) ==
    [b EXCEPT ![from] = [denom \in Denoms |-> @[denom] - Transferred(coins, denom)]]

\* Mutant of SendCoins: the recipient's balance is read before the sender's is saved.
SendCoinsReadFirst(b, from, to, coins) ==
    [BurnCoins(b, from, coins) EXCEPT ![to] = MintCoins(b, to, coins)[to]]

SendCoins(b, from, to, coins) == MintCoins(BurnCoins(b, from, coins), to, coins)

\* BankQuery::Supply.
Supply(b, denom) == SumFunction([a \in Addresses |-> b[a][denom]])

\* BankMsg and BankSudo: whether the bank accepts a message, and the balances after it.
Accepts(b, sender, msg) ==
    CASE msg.type = "Mint" -> msg.to \in Valid /\ IsTransferable(msg.amount)
      [] msg.type \in {"Send", "Burn"} -> CanBurn(b, sender, msg.amount)

After(b, sender, msg) ==
    CASE msg.type = "Mint" -> MintCoins(b, msg.to, msg.amount)
      [] msg.type = "Send" -> SendCoins(b, sender, msg.to, msg.amount)
      [] msg.type = "Burn" -> BurnCoins(b, sender, msg.amount)
=============================================================================
