SPECIFICATION Spec
CONSTANTS
    alice = alice
    bob = bob
    raw = raw
    atom = atom
    osmo = osmo
    Addresses = {alice, bob, raw}
    Valid = {alice, bob}
    Denoms = {atom, osmo}
    CoinLists <- Lists
    Prior <- OneOsmo
    Replacements <- Stubs
    MaxReplaced = 2
    MaxMessages = 2
    MaxCustom = 2
    MaxSupply = 2
INVARIANTS TypeOK BalancesAreTheLedger
CHECK_DEADLOCK FALSE
