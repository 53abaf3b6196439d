---------------------------------- MODULE MCApp ----------------------------------
\* App with three accounts, one of which no message can come from, for TLC.
EXTENDS App

CONSTANTS alice, bob, raw, atom, osmo

Coin(denom, amount) == [denom |-> denom, amount |-> amount]

\* Nothing, a zero, a coin with a zero of another denom, a denom twice.
Lists == {<<>>, <<Coin(atom, 0)>>, <<Coin(atom, 1), Coin(osmo, 0)>>,
          <<Coin(atom, 1), Coin(atom, 1)>>}

OneOsmo == [a \in Addresses |-> [denom \in Denoms |-> IF a = alice /\ denom = osmo THEN 1 ELSE 0]]

Stubs == [slot \in Slots |->
    CASE slot = "custom" -> {"AcceptingModule", "CachingCustomHandler"}
      [] slot = "storage" -> {"populated"}
      [] slot = "api" -> {"MockApiBech32"}
      [] slot = "bank" -> {"FailingModule"}
      [] slot \in {"staking", "ibc", "distribution", "wasm"} -> {"FailingModule", "AcceptingModule"}
      [] OTHER -> {"AcceptingModule"}]
=============================================================================
