----------------------------------- MODULE App -----------------------------------
(***************************************************************************)
(* An App from its builder to its transactions: AppBuilder                  *)
(* (src/app_builder.rs), App and Router (src/app.rs), the bank, and the     *)
(* components a test gives in place of the default ones: modules that fail, *)
(* that accept (src/module.rs, src/gov.rs, src/stargate.rs) or that keep    *)
(* what they are told (src/custom_handler.rs).                              *)
(*                                                                          *)
(* The default keepers of wasm, staking, distribution and IBC have modules  *)
(* of their own (SubMessages, Staking, IbcPackets): here no message is sent *)
(* to them.  What runs into unimplemented!() panics and is no step.         *)
(***************************************************************************)
EXTENDS Bank, FiniteSets

CONSTANTS CoinLists,     \* the amounts of messages
          Prior,         \* the balances in a storage that is given to the builder
          Replacements,  \* of each component, those that may be given instead
          MaxReplaced,   \* bound: calls of with_ methods
          MaxMessages,   \* bound: messages in a transaction
          MaxCustom,     \* bound: custom messages, and queries, that are kept
          MaxSupply      \* bound: coins of a denom

Slots == {"wasm", "bank", "api", "storage", "custom", "staking", "distribution", "ibc",
          "gov", "stargate"}

\* Their types let no other component be the bank or the custom handler that keeps.
ASSUME ReplacementsAssumption ==
    /\ DOMAIN Replacements = Slots
    /\ \A slot \in Slots : /\ "BankKeeper" \in Replacements[slot] => slot = "bank"
                           /\ "CachingCustomHandler" \in Replacements[slot] => slot = "custom"
ASSUME CoinsAssumption ==
    /\ CoinLists \subseteq Seq([denom : Denoms, amount : Nat])
    /\ Prior \in [Addresses -> [Denoms -> Nat]]
ASSUME BoundsAssumption == {MaxReplaced, MaxMessages, MaxCustom, MaxSupply} \subseteq Nat

VARIABLES components,  \* those of the AppBuilder, then of the App and its Router
          running,     \* build was called
          balances,    \* the storage of the bank
          tx,          \* <<>>, or <<[cache, sudo, sent]>>: the open one, sent messages so far
          execs,       \* CachingCustomHandlerState
          queries,
          ledger,      \* history: what each account was given less what it gave
          draft        \* history: the same, in the open transaction
handler == <<execs, queries>>
vars == <<components, running, balances, tx, execs, queries, ledger, draft>>

-----------------------------------------------------------------------------
(* AppBuilder: each with_ method keeps the other components *)

New == [slot \in Slots |->
    CASE slot = "wasm" -> "WasmKeeper"
      [] slot = "bank" -> "BankKeeper"
      [] slot = "api" -> "MockApi"
      [] slot = "storage" -> "MockStorage"
      [] slot = "staking" -> "StakeKeeper"
      [] slot = "distribution" -> "DistributionKeeper"
      [] slot = "ibc" -> "IbcSimpleModule"
      [] slot \in {"custom", "gov", "stargate"} -> "FailingModule"]

WithWasm(b, wasm) == [b EXCEPT !["wasm"] = wasm]
WithBank(b, bank) == [b EXCEPT !["bank"] = bank]
WithApi(b, api) == [b EXCEPT !["api"] = api]
WithStorage(b, storage) == [b EXCEPT !["storage"] = storage]
WithCustom(b, custom) == [b EXCEPT !["custom"] = custom]
WithStaking(b, staking) == [b EXCEPT !["staking"] = staking]
WithDistribution(b, distribution) == [b EXCEPT !["distribution"] = distribution]
WithIbc(b, ibc) == [b EXCEPT !["ibc"] = ibc]

WithGov(b, gov) == [b EXCEPT !["gov"] = gov]
WithStargate(b, stargate) == [b EXCEPT !["stargate"] = stargate]

With(slot, b, component) ==
    CASE slot = "wasm" -> WithWasm(b, component)
      [] slot = "bank" -> WithBank(b, component)
      [] slot = "api" -> WithApi(b, component)
      [] slot = "storage" -> WithStorage(b, component)
      [] slot = "custom" -> WithCustom(b, component)
      [] slot = "staking" -> WithStaking(b, component)
      [] slot = "distribution" -> WithDistribution(b, component)
      [] slot = "ibc" -> WithIbc(b, component)
      [] slot = "gov" -> WithGov(b, component)
      [] slot = "stargate" -> WithStargate(b, component)

\* What the storage of the App holds to begin with.
Initially(storage) ==
    IF storage = "MockStorage" THEN [a \in Addresses |-> NoCoins] ELSE Prior

-----------------------------------------------------------------------------
(* Router *)

\* The component that Router::execute, sudo and query pass a message or query to.
SlotOf(type) ==
    CASE type \in {"Send", "Burn", "Mint"} -> "bank"
      [] type \in {"Stargate", "Any"} -> "stargate"
      [] OTHER -> type

Keepers == {"WasmKeeper", "StakeKeeper", "DistributionKeeper", "IbcSimpleModule"}
OtherTypes == {"wasm", "custom", "staking", "distribution", "ibc", "gov", "Stargate", "Any"}
SudoTypes == {"wasm", "staking", "ibc"}

BankMsgs ==
    [type : {"Send"}, to : Addresses, amount : CoinLists]
        \cup [type : {"Burn"}, amount : CoinLists]
BankSudos == [type : {"Mint"}, to : Addresses, amount : CoinLists]

\* FailingModule and StargateFailing refuse, AcceptingModule, StargateAccepting and
\* CachingCustomHandler accept everything.
AcceptedBy(component, b, sender, msg) ==
    CASE component = "FailingModule" -> FALSE
      [] component = "BankKeeper" -> Accepts(b, sender, msg)
      [] OTHER -> TRUE

AfterMessage(component, b, sender, msg) ==
    IF component = "BankKeeper" THEN After(b, sender, msg) ELSE b

Cached(component, kept, msg) ==
    IF component = "CachingCustomHandler" THEN Append(kept, msg) ELSE kept

-----------------------------------------------------------------------------
Init ==
    /\ components = New
    /\ running = FALSE
    /\ balances = [a \in Addresses |-> NoCoins]
    /\ tx = <<>>
    /\ execs = <<>> /\ queries = <<>>
    /\ ledger = balances /\ draft = balances

Replaced == {slot \in Slots : components[slot] # New[slot]}

Give(slot, component) ==
    /\ ~running
    /\ Cardinality(Replaced \cup {slot}) <= MaxReplaced
    /\ components' = With(slot, components, component)
    /\ UNCHANGED <<running, balances, tx, execs, queries, ledger, draft>>

\* build; the init_fn it calls is the first InitBalance.
Build ==
    /\ ~running
    /\ running' = TRUE
    /\ balances' = Initially(components["storage"])
    /\ ledger' = balances' /\ draft' = balances'
    /\ UNCHANGED <<components, tx, execs, queries>>

\* App::init_modules with BankKeeper::init_balance.
InitBalance(account, coins) ==
    /\ running /\ tx = <<>>
    /\ components["bank"] = "BankKeeper"
    /\ balances' = SetBalance(balances, account, coins)
    /\ \A denom \in Denoms : Supply(balances', denom) <= MaxSupply
    /\ ledger' = [ledger EXCEPT ![account] = [denom \in Denoms |-> TotalOf(coins, denom)]]
    /\ draft' = ledger'
    /\ UNCHANGED <<components, running, tx, execs, queries>>

\* execute_multi, which execute calls with one message, and sudo.
Begin(sudo) ==
    /\ running /\ tx = <<>>
    /\ tx' = <<[cache |-> balances, sudo |-> sudo, sent |-> 0]>>
    /\ UNCHANGED <<components, running, balances, execs, queries, ledger, draft>>

\* What the accounts of a ledger gave and were given by a message of the bank.
Entered(sender, msg) ==
    LET Given(a, denom) == IF msg.type # "Burn" /\ a = msg.to THEN TotalOf(msg.amount, denom) ELSE 0
        Gave(a, denom) == IF msg.type # "Mint" /\ a = sender THEN TotalOf(msg.amount, denom) ELSE 0
    IN  [a \in Addresses |-> [denom \in Denoms |->
            (draft[a][denom] + Given(a, denom)) - Gave(a, denom)]]

\* The next message of the transaction; the first error ends it and drops the cache.
Execute(sender, msg) ==
    LET component == components[SlotOf(msg.type)]
    IN  /\ tx # <<>>
        /\ component \notin Keepers
        /\ IF AcceptedBy(component, tx[1].cache, sender, msg)
           THEN /\ tx' = <<[tx[1] EXCEPT !.cache = AfterMessage(component, @, sender, msg),
                                        !.sent = @ + 1]>>
                /\ execs' = Cached(component, execs, sender)
                /\ draft' = IF component = "BankKeeper" THEN Entered(sender, msg) ELSE draft
           ELSE /\ tx' = <<>>
                /\ draft' = ledger
                /\ UNCHANGED execs
        /\ Len(execs') <= MaxCustom
        /\ UNCHANGED <<components, running, balances, queries, ledger>>

ExecuteMsg(sender, msg) ==
    /\ tx # <<>> /\ ~tx[1].sudo /\ tx[1].sent < MaxMessages
    /\ Execute(sender, msg)

\* Privileged messages have no sender, and there is one in a transaction.
Sudo(msg) ==
    /\ tx # <<>> /\ tx[1].sudo /\ tx[1].sent = 0
    /\ msg.type = "Mint" =>
         \A denom \in Denoms : Supply(tx[1].cache, denom) + TotalOf(msg.amount, denom) <= MaxSupply
    /\ Execute(CHOOSE a \in Addresses : TRUE, msg)

Commit ==
    /\ tx # <<>>
    /\ tx[1].sudo => tx[1].sent > 0
    /\ balances' = tx[1].cache
    /\ tx' = <<>>
    /\ ledger' = draft
    /\ UNCHANGED <<components, running, execs, queries, draft>>

\* App::wrap and RouterQuerier: a custom query is kept too.
Query(type) ==
    /\ running /\ tx = <<>>
    /\ components[SlotOf(type)] \notin Keepers \cup {"FailingModule", "BankKeeper"}
    /\ queries' = Cached(components[SlotOf(type)], queries, type)
    /\ Len(queries') <= MaxCustom
    /\ UNCHANGED <<components, running, balances, tx, execs, ledger, draft>>

\* CachingCustomHandlerState::reset, through the handle the test kept.
Reset ==
    /\ tx = <<>>
    /\ execs' = <<>> /\ queries' = <<>>
    /\ UNCHANGED <<components, running, balances, tx, ledger, draft>>

Next ==
    \/ \E slot \in Slots : \E component \in Replacements[slot] : Give(slot, component)
    \/ Build
    \/ \E account \in Addresses, coins \in CoinLists : InitBalance(account, coins)
    \/ \E sudo \in BOOLEAN : Begin(sudo)
    \/ \E sender \in Valid, msg \in BankMsgs \cup [type : OtherTypes] : ExecuteMsg(sender, msg)
    \/ \E msg \in BankSudos \cup [type : SudoTypes] : Sudo(msg)
    \/ Commit
    \/ \E type \in OtherTypes \ {"distribution", "gov"} : Query(type)
    \/ Reset

Spec == Init /\ [][Next]_vars

-----------------------------------------------------------------------------
(* Properties *)

TypeOK ==
    /\ DOMAIN components = Slots
    /\ balances \in [Addresses -> [Denoms -> Nat]]
    /\ tx \in Seq([cache : [Addresses -> [Denoms -> Nat]], sudo : BOOLEAN, sent : Nat])
    /\ Len(tx) <= 1
    /\ execs \in Seq(Valid) /\ queries \in Seq({"custom"})

\* BankKeeper and execute_multi: each account has what was minted for it and sent to
\* it less what it sent and burnt, in the storage by committed transactions, in the
\* cache by the messages so far too; whoever sends to itself, names a denom twice or
\* not at all.
BalancesAreTheLedger ==
    /\ balances = ledger
    /\ tx # <<>> => tx[1].cache = draft
=============================================================================
