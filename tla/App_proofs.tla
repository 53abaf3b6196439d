------------------------------- MODULE App_proofs -------------------------------
(***************************************************************************)
(* Proofs about App, for all addresses, denoms, lists of coins and          *)
(* components: the types of its state, and that the bank's balances are     *)
(* what was minted, sent and burnt.                                         *)
(***************************************************************************)
EXTENDS App, Sums_proofs, SequenceTheorems

-----------------------------------------------------------------------------
(* Lists of coins *)

\* What each place of a list adds to a denom.
Part(coins, denom) ==
    [i \in DOMAIN coins |-> IF coins[i].denom = denom THEN coins[i].amount ELSE 0]

\* Coins of zero may be counted or left out.
LEMMA TotalIsSum ==
    ASSUME NEW coins \in CoinLists, NEW places \in SUBSET DOMAIN coins, NEW denom,
           \A i \in DOMAIN coins : i \notin places => coins[i].amount = 0
    PROVE  /\ Total(coins, places, denom) = SumFunctionOnSet(Part(coins, denom), DOMAIN coins)
           /\ Total(coins, places, denom) \in Nat
<1> DEFINE S == DOMAIN coins
           f == [i \in {i \in places : coins[i].denom = denom} |-> coins[i].amount]
           g == Part(coins, denom)
<1>1. coins \in Seq([denom : Denoms, amount : Nat])
  BY CoinsAssumption
<1>2. S = 1 .. Len(coins) /\ Len(coins) \in Nat
  BY <1>1, LenProperties
<1>3. IsFiniteSet(S)
  BY <1>2, FS_Interval
<1>4. \A i \in S : coins[i].amount \in Nat
  <2> DEFINE Coin == [denom : Denoms, amount : Nat]
  <2>1. coins \in [1 .. Len(coins) -> Coin]
    BY <1>1, LenProperties
  <2>2. \A i \in S : coins[i] \in Coin
    <3> HIDE DEF Coin
    <3> QED BY <1>2, <2>1
  <2> QED BY <2>2
<1>5. Natural(g, S)
  BY <1>4 DEF Natural, Part
<1>6. DOMAIN f \subseteq S /\ \A i \in DOMAIN f : g[i] = f[i]
  BY DEF Part
<1>7. \A i \in S : i \notin DOMAIN f => g[i] = 0
  BY DEF Part
<1>8. Total(coins, places, denom) = SumFunction(f)
  BY DEF Total
<1> HIDE DEF S, f, g
<1>9. SumFunction(f) = SumFunctionOnSet(g, S)
  BY <1>3, <1>5, <1>6, <1>7, SumWithin
<1>10. SumFunctionOnSet(g, S) \in Nat
  BY <1>3, <1>5, SumIsNatural
<1> QED BY <1>8, <1>9, <1>10 DEF g, S

\* What a list adds up to is what it transfers: normalize_amount takes nothing away.
LEMMA TransferredIsTotal ==
    ASSUME NEW coins \in CoinLists, NEW denom
    PROVE  Transferred(coins, denom) = TotalOf(coins, denom) /\ TotalOf(coins, denom) \in Nat
<1>1. /\ NormalizeAmount(coins) \in SUBSET DOMAIN coins
      /\ \A i \in DOMAIN coins : i \notin NormalizeAmount(coins) => coins[i].amount = 0
  BY DEF NormalizeAmount
<1>2. Total(coins, NormalizeAmount(coins), denom)
        = SumFunctionOnSet(Part(coins, denom), DOMAIN coins)
  BY <1>1, TotalIsSum
<1>3. /\ Total(coins, DOMAIN coins, denom) = SumFunctionOnSet(Part(coins, denom), DOMAIN coins)
      /\ Total(coins, DOMAIN coins, denom) \in Nat
  BY TotalIsSum
<1> QED BY <1>2, <1>3 DEF Transferred, TotalOf

-----------------------------------------------------------------------------
(* The messages of the bank *)

Balances == [Addresses -> [Denoms -> Nat]]

\* s is b with the coins of a list more, or less, at one account.
Minted(b, s, to, coins) ==
    /\ s \in Balances
    /\ \A a \in Addresses, denom \in Denoms :
         s[a][denom] = b[a][denom] + (IF a = to THEN TotalOf(coins, denom) ELSE 0)
Burnt(b, s, from, coins) ==
    /\ s \in Balances
    /\ \A a \in Addresses, denom \in Denoms :
         s[a][denom] = b[a][denom] - (IF a = from THEN TotalOf(coins, denom) ELSE 0)

LEMMA MintDoes ==
    ASSUME NEW b \in Balances, NEW to \in Addresses, NEW coins \in CoinLists
    PROVE  Minted(b, MintCoins(b, to, coins), to, coins)
<1> DEFINE more == [denom \in Denoms |-> b[to][denom] + Transferred(coins, denom)]
           s == MintCoins(b, to, coins)
<1>1. \A denom \in Denoms : /\ more[denom] = b[to][denom] + TotalOf(coins, denom)
                           /\ TotalOf(coins, denom) \in Nat /\ more[denom] \in Nat
  <2>1. \A denom \in Denoms : b[to][denom] \in Nat
    BY DEF Balances
  <2> QED BY <2>1, TransferredIsTotal
<1>2. more \in [Denoms -> Nat]
  <2>1. more = [denom \in Denoms |-> more[denom]]
    OBVIOUS
  <2> HIDE DEF more
  <2> QED BY <1>1, <2>1
<1>3. s = [b EXCEPT ![to] = more]
  BY DEF MintCoins
<1> HIDE DEF more, s
<1>4. s \in Balances /\ s[to] = more /\ \A a \in Addresses : a # to => s[a] = b[a]
  BY <1>2, <1>3 DEF Balances
<1>5. ASSUME NEW a \in Addresses, NEW denom \in Denoms
      PROVE  s[a][denom] = b[a][denom] + (IF a = to THEN TotalOf(coins, denom) ELSE 0)
  <2>1. b[a][denom] \in Nat
    BY DEF Balances
  <2> QED BY <1>1, <1>4, <2>1
<1>6. Minted(b, s, to, coins)
  BY <1>4, <1>5 DEF Minted
<1> QED BY <1>6 DEF s

LEMMA BurnDoes ==
    ASSUME NEW b \in Balances, NEW from \in Addresses, NEW coins \in CoinLists,
           CanBurn(b, from, coins)
    PROVE  Burnt(b, BurnCoins(b, from, coins), from, coins)
<1> DEFINE less == [denom \in Denoms |-> b[from][denom] - Transferred(coins, denom)]
           s == BurnCoins(b, from, coins)
<1>1. \A denom \in Denoms : /\ less[denom] = b[from][denom] - TotalOf(coins, denom)
                           /\ TotalOf(coins, denom) \in Nat /\ less[denom] \in Nat
  <2>1. \A denom \in Denoms : b[from][denom] \in Nat
    BY DEF Balances
  <2>2. \A denom \in Denoms : TotalOf(coins, denom) <= b[from][denom]
    BY DEF CanBurn
  <2> QED BY <2>1, <2>2, TransferredIsTotal
<1>2. less \in [Denoms -> Nat]
  <2>1. less = [denom \in Denoms |-> less[denom]]
    OBVIOUS
  <2> HIDE DEF less
  <2> QED BY <1>1, <2>1
<1>3. s = [b EXCEPT ![from] = less]
  BY DEF BurnCoins
<1> HIDE DEF less, s
<1>4. s \in Balances /\ s[from] = less /\ \A a \in Addresses : a # from => s[a] = b[a]
  BY <1>2, <1>3 DEF Balances
<1>5. ASSUME NEW a \in Addresses, NEW denom \in Denoms
      PROVE  s[a][denom] = b[a][denom] - (IF a = from THEN TotalOf(coins, denom) ELSE 0)
  <2>1. b[a][denom] \in Nat
    BY DEF Balances
  <2> QED BY <1>1, <1>4, <2>1
<1>6. Burnt(b, s, from, coins)
  BY <1>4, <1>5 DEF Burnt
<1> QED BY <1>6 DEF s

LEMMA SetDoes ==
    ASSUME NEW b \in Balances, NEW account \in Addresses, NEW coins \in CoinLists
    PROVE  /\ SetBalance(b, account, coins) \in Balances
           /\ SetBalance(b, account, coins)
                = [b EXCEPT ![account] = [denom \in Denoms |-> TotalOf(coins, denom)]]
<1>1. [denom \in Denoms |-> TotalOf(coins, denom)] \in [Denoms -> Nat]
  BY TransferredIsTotal
<1> QED BY <1>1 DEF SetBalance, Balances

-----------------------------------------------------------------------------
(* What a message does is what the ledger enters *)

Msgs == BankMsgs \cup BankSudos \cup [type : OtherTypes]
Types == OtherTypes \cup {"Send", "Burn", "Mint"}

\* The entries for a message, in a ledger d.
Entry(d, sender, msg, a, denom) ==
    (d[a][denom] + (IF msg.type # "Burn" /\ a = msg.to THEN TotalOf(msg.amount, denom) ELSE 0))
      - (IF msg.type # "Mint" /\ a = sender THEN TotalOf(msg.amount, denom) ELSE 0)

LEMMA EnteredIs ==
    ASSUME NEW sender, NEW msg
    PROVE  Entered(sender, msg)
             = [a \in Addresses |-> [denom \in Denoms |-> Entry(draft, sender, msg, a, denom)]]
BY DEF Entered, Entry

\* An address that sends to itself included: send burns before it mints.
LEMMA AfterIsEntry ==
    ASSUME NEW b \in Balances, NEW sender,
           NEW msg \in BankMsgs \cup BankSudos, msg.type # "Mint" => sender \in Addresses,
           Accepts(b, sender, msg)
    PROVE  /\ After(b, sender, msg) \in Balances
           /\ \A a \in Addresses, denom \in Denoms :
                After(b, sender, msg)[a][denom] = Entry(b, sender, msg, a, denom)
<1>1. /\ msg.amount \in CoinLists /\ msg.type \in {"Send", "Burn", "Mint"}
      /\ msg.type # "Burn" => msg.to \in Addresses
  BY DEF BankMsgs, BankSudos
<1>2. \A a \in Addresses, denom \in Denoms : b[a][denom] \in Nat /\ TotalOf(msg.amount, denom) \in Nat
  <2>1. \A a \in Addresses, denom \in Denoms : b[a][denom] \in Nat
    BY DEF Balances
  <2> QED BY <1>1, <2>1, TransferredIsTotal
<1>p. PICK s : s = After(b, sender, msg)
  OBVIOUS
<1>3. CASE msg.type = "Mint"
  <2>1. s = MintCoins(b, msg.to, msg.amount)
    BY <1>3, <1>p DEF After
  <2>2. Minted(b, s, msg.to, msg.amount)
    BY <1>1, <1>3, <2>1, MintDoes
  <2>3. s \in Balances
    BY <2>2 DEF Minted
  <2>4. \A a \in Addresses, denom \in Denoms : s[a][denom] = Entry(b, sender, msg, a, denom)
    BY <1>2, <1>3, <2>2 DEF Minted, Entry
  <2> QED BY <1>p, <2>3, <2>4
<1>4. CASE msg.type \in {"Send", "Burn"}
  <2>1. CanBurn(b, sender, msg.amount) /\ sender \in Addresses
    BY <1>4 DEF Accepts
  <2>p. PICK l : l = BurnCoins(b, sender, msg.amount)
    OBVIOUS
  <2>2. Burnt(b, l, sender, msg.amount)
    BY <1>1, <2>1, <2>p, BurnDoes
  <2>3. l \in Balances
    BY <2>2 DEF Burnt
  <2>4. CASE msg.type = "Burn"
    <3>1. s = l
      BY <1>p, <2>p, <2>4 DEF After
    <3>2. \A a \in Addresses, denom \in Denoms : s[a][denom] = Entry(b, sender, msg, a, denom)
      BY <1>2, <2>2, <2>4, <3>1 DEF Burnt, Entry
    <3> QED BY <1>p, <2>3, <3>1, <3>2
  <2>5. CASE msg.type = "Send"
    <3>1. s = MintCoins(l, msg.to, msg.amount)
      BY <1>p, <2>p, <2>5 DEF After, SendCoins
    <3>2. Minted(l, s, msg.to, msg.amount)
      BY <1>1, <2>3, <2>5, <3>1, MintDoes
    <3>3. ASSUME NEW a \in Addresses, NEW denom \in Denoms
          PROVE  s[a][denom] = Entry(b, sender, msg, a, denom)
      <4>1. s[a][denom] = l[a][denom] + (IF a = msg.to THEN TotalOf(msg.amount, denom) ELSE 0)
        BY <3>2 DEF Minted
      <4>2. l[a][denom] = b[a][denom] - (IF a = sender THEN TotalOf(msg.amount, denom) ELSE 0)
        BY <2>2 DEF Burnt
      <4> QED BY <1>2, <2>5, <4>1, <4>2 DEF Entry
    <3>4. s \in Balances
      BY <3>2 DEF Minted
    <3> QED BY <1>p, <3>3, <3>4
  <2> QED BY <1>4, <2>4, <2>5
<1> QED BY <1>1, <1>3, <1>4

LEMMA AfterIsEntered ==
    ASSUME draft \in Balances, NEW sender,
           NEW msg \in BankMsgs \cup BankSudos, msg.type # "Mint" => sender \in Addresses,
           Accepts(draft, sender, msg)
    PROVE  /\ After(draft, sender, msg) \in Balances
           /\ After(draft, sender, msg) = Entered(sender, msg)
<1> DEFINE e(a, denom) == Entry(draft, sender, msg, a, denom)
           s == After(draft, sender, msg)
<1>1. s \in Balances /\ \A a \in Addresses, denom \in Denoms : s[a][denom] = e(a, denom)
  BY AfterIsEntry
<1>2. Entered(sender, msg) = [a \in Addresses |-> [denom \in Denoms |-> e(a, denom)]]
  BY EnteredIs
<1> HIDE DEF e, s
<1>3. \A a \in Addresses : s[a] = [denom \in Denoms |-> e(a, denom)]
  BY <1>1 DEF Balances
<1>4. s = [a \in Addresses |-> [denom \in Denoms |-> e(a, denom)]]
  BY <1>1, <1>3 DEF Balances
<1> QED BY <1>1, <1>2, <1>4 DEF s

-----------------------------------------------------------------------------
(* The inductive invariant *)

Transactions == [cache : Balances, sudo : BOOLEAN, sent : Nat]

\* Only the bank keeps the books, and only the custom module keeps messages.
Assembled ==
    \A slot \in Slots : /\ components[slot] = "BankKeeper" => slot = "bank"
                        /\ components[slot] = "CachingCustomHandler" => slot = "custom"

IInv ==
    /\ TypeOK
    /\ Assembled
    /\ BalancesAreTheLedger
    /\ tx = <<>> => draft = ledger
    /\ ~running => tx = <<>>

LEMMA SlotsOfTypes ==
    ASSUME NEW type \in Types
    PROVE  /\ SlotOf(type) \in Slots
           /\ SlotOf(type) = "bank" <=> type \in {"Send", "Burn", "Mint"}
           /\ SlotOf(type) = "custom" <=> type = "custom"
<1>1. CASE type \in {"Send", "Burn", "Mint"}
  BY <1>1 DEF SlotOf, Slots
<1>2. CASE type \in {"Stargate", "Any"}
  BY <1>2 DEF SlotOf, Slots
<1>3. CASE type \in {"wasm", "custom", "staking", "distribution", "ibc", "gov"}
  BY <1>3 DEF SlotOf, Slots
<1> QED BY <1>1, <1>2, <1>3 DEF Types, OtherTypes

LEMMA InitiallyBalances ==
    ASSUME NEW kind
    PROVE  Initially(kind) \in Balances
BY CoinsAssumption DEF Initially, Balances, NoCoins

\* Each with_ method sets its component and no other.
LEMMA WithSets ==
    ASSUME NEW slot \in Slots, NEW b, NEW component
    PROVE  With(slot, b, component) = [b EXCEPT ![slot] = component]
<1>1. CASE slot \in {"wasm", "bank", "api", "storage"}
  BY <1>1 DEF With, WithWasm, WithBank, WithApi, WithStorage
<1>2. CASE slot \in {"custom", "staking", "distribution"}
  BY <1>2 DEF With, WithCustom, WithStaking, WithDistribution
<1>3. CASE slot \in {"ibc", "gov", "stargate"}
  BY <1>3 DEF With, WithIbc, WithGov, WithStargate
<1> QED BY <1>1, <1>2, <1>3 DEF Slots

\* No transaction is open, or one.
LEMMA OneTransaction ==
    ASSUME TypeOK
    PROVE  /\ tx \in Seq(Transactions)
           /\ tx # <<>> => tx = <<tx[1]>> /\ tx[1] \in Transactions
<1>1. tx \in Seq(Transactions) /\ Len(tx) <= 1
  BY DEF TypeOK, Transactions, Balances, Types
<1>2. ASSUME tx # <<>>
      PROVE  tx = <<tx[1]>> /\ tx[1] \in Transactions
  <2> HIDE DEF Transactions
  <2>1. Len(tx) = 1
    <3>1. PICK n : n = Len(tx)
      OBVIOUS
    <3>2. n \in Nat \ {0}
      BY <1>1, <1>2, <3>1, EmptySeq
    <3>3. n <= 1
      BY <1>1, <3>1
    <3> QED BY <3>1, <3>2, <3>3
  <2>2. tx[1] \in Transactions
    BY <1>1, <2>1, ElementOfSeq
  <2> DEFINE same == <<tx[1]>>
  <2>3. same \in Seq(Transactions) /\ Len(same) = 1 /\ same[1] = tx[1]
    BY <2>2
  <2> HIDE DEF same
  <2>4. tx = same
    BY <1>1, <2>1, <2>3, SeqEqual
  <2> QED BY <2>2, <2>4 DEF same
<1> QED BY <1>1, <1>2

\* The types of transactions that are opened, go on and end.
LEMMA TxTypes ==
    /\ <<>> \in Seq(Transactions) /\ Len(<<>>) = 0
    /\ \A t \in Transactions : <<t>> \in Seq(Transactions) /\ Len(<<t>>) = 1 /\ <<t>>[1] = t
<1> HIDE DEF Transactions
<1> QED OBVIOUS

LEMMA InitInv == Init => IInv
<1> SUFFICES ASSUME Init PROVE IInv
  OBVIOUS
<1>1. balances \in Balances /\ DOMAIN components = Slots
  BY DEF Init, Balances, NoCoins, New
<1>2. TypeOK
  <2>1. execs \in Seq(Valid) /\ queries \in Seq({"custom"})
    BY EmptySeq DEF Init
  <2>2. tx \in Seq(Transactions) /\ Len(tx) <= 1
    BY TxTypes DEF Init
  <2> QED BY <1>1, <2>1, <2>2 DEF TypeOK, Transactions, Balances, Types
<1>3. Assembled
  <2>1. components = New
    BY DEF Init
  <2>2. ASSUME NEW slot \in Slots
        PROVE  /\ New[slot] = "BankKeeper" => slot = "bank"
               /\ New[slot] # "CachingCustomHandler"
    <3>1. CASE slot \in {"wasm", "bank", "api", "storage", "staking"}
      BY <3>1 DEF New, Slots
    <3>2. CASE slot \in {"distribution", "ibc", "custom", "gov", "stargate"}
      BY <3>2 DEF New, Slots
    <3> QED BY <3>1, <3>2 DEF Slots
  <2> QED BY <2>1, <2>2 DEF Assembled
<1> QED BY <1>2, <1>3 DEF IInv, Init, BalancesAreTheLedger

LEMMA GiveInv ==
    ASSUME IInv, NEW slot \in Slots, NEW component \in Replacements[slot],
           Give(slot, component)
    PROVE  IInv'
<1>1. ~running /\ tx = <<>> /\ DOMAIN components = Slots
  BY DEF Give, IInv, TypeOK
<1>2. components' = [components EXCEPT ![slot] = component]
  BY <1>1, WithSets DEF Give
<1>3. DOMAIN components' = Slots
  BY <1>1, <1>2
<1>4. ASSUME NEW s \in Slots
      PROVE  /\ components'[s] = "BankKeeper" => s = "bank"
             /\ components'[s] = "CachingCustomHandler" => s = "custom"
  <2>1. CASE s = slot
    BY <1>1, <1>2, <2>1, ReplacementsAssumption
  <2>2. CASE s # slot
    BY <1>1, <1>2, <2>2 DEF IInv, Assembled
  <2> QED BY <2>1, <2>2
<1>5. Assembled'
  BY <1>2, <1>4 DEF Assembled
<1>6. TypeOK'
  BY <1>3 DEF Give, IInv, TypeOK
<1>7. UNCHANGED <<running, balances, tx, ledger, draft>>
  BY DEF Give
<1> QED BY <1>1, <1>5, <1>6, <1>7 DEF IInv, BalancesAreTheLedger

LEMMA BuildInv ==
    ASSUME IInv, Build
    PROVE  IInv'
<1>1. tx = <<>>
  BY DEF Build, IInv
<1>2. /\ UNCHANGED <<components, tx, execs, queries>>
      /\ balances' = ledger' /\ draft' = ledger' /\ running'
      /\ balances' = Initially(components["storage"])
  BY DEF Build
<1>3. balances' \in Balances
  BY <1>2, InitiallyBalances
<1>4. TypeOK'
  BY <1>2, <1>3 DEF IInv, TypeOK, Balances
<1> QED BY <1>1, <1>2, <1>4 DEF IInv, Assembled, BalancesAreTheLedger

LEMMA InitBalanceInv ==
    ASSUME IInv, NEW account \in Addresses, NEW coins \in CoinLists, InitBalance(account, coins)
    PROVE  IInv'
<1>1. /\ running /\ tx = <<>>
      /\ UNCHANGED <<components, running, tx, execs, queries>>
      /\ draft' = ledger'
  BY DEF InitBalance
<1>2. balances \in Balances /\ ledger = balances
  BY DEF IInv, TypeOK, BalancesAreTheLedger, Balances
<1>3. balances' \in Balances /\ ledger' = balances'
  BY <1>2, SetDoes DEF InitBalance
<1>4. TypeOK'
  BY <1>1, <1>3 DEF IInv, TypeOK, Balances
<1> QED BY <1>1, <1>3, <1>4 DEF IInv, Assembled, BalancesAreTheLedger

LEMMA BeginInv ==
    ASSUME IInv, NEW sudo \in BOOLEAN, Begin(sudo)
    PROVE  IInv'
<1>1. /\ running /\ tx = <<>>
      /\ UNCHANGED <<components, running, balances, execs, queries, ledger, draft>>
  BY DEF Begin
<1> DEFINE t == [cache |-> balances, sudo |-> sudo, sent |-> 0]
<1>2. t \in Transactions /\ t.cache = balances
  BY DEF Transactions, IInv, TypeOK, Balances
<1>3. tx' = <<t>>
  BY DEF Begin
<1> HIDE DEF t
<1>4. tx' \in Seq(Transactions) /\ Len(tx') = 1 /\ tx'[1] = t /\ tx' # <<>>
  BY <1>2, <1>3, TxTypes
<1>5. TypeOK'
  BY <1>1, <1>4 DEF IInv, TypeOK, Transactions, Balances, Types
<1>6. BalancesAreTheLedger'
  BY <1>1, <1>2, <1>4 DEF IInv, BalancesAreTheLedger
<1> QED BY <1>1, <1>4, <1>5, <1>6 DEF IInv, Assembled

-----------------------------------------------------------------------------
(* A message of a transaction *)

LEMMA MsgsOfTypes ==
    ASSUME NEW msg \in Msgs
    PROVE  /\ msg.type \in Types
           /\ msg.type \in {"Send", "Burn", "Mint"} => msg \in BankMsgs \cup BankSudos
<1>1. CASE msg \in BankMsgs \cup BankSudos
  BY <1>1 DEF BankMsgs, BankSudos, Types
<1>2. CASE msg \in [type : OtherTypes]
  <2>1. msg.type \in OtherTypes
    BY <1>2
  <2> QED BY <2>1 DEF Types, OtherTypes
<1> QED BY <1>1, <1>2 DEF Msgs

\* A transaction after a message it accepts.
WithSent(t, c) == [t EXCEPT !.cache = c, !.sent = @ + 1]

LEMMA SentIs ==
    ASSUME NEW t \in Transactions, NEW c \in Balances
    PROVE  WithSent(t, c) \in Transactions /\ WithSent(t, c).cache = c
<1> DEFINE n == t.sent + 1
<1>1. n \in Nat
  BY DEF Transactions
<1>2. WithSent(t, c) = [t EXCEPT !.cache = c, !.sent = n]
  BY DEF WithSent
<1> HIDE DEF n
<1> QED BY <1>1, <1>2 DEF Transactions

LEMMA ExecuteInv ==
    ASSUME IInv, NEW sender, NEW msg \in Msgs, Execute(sender, msg),
           msg.type \notin SudoTypes \cup {"Mint"} => sender \in Valid
    PROVE  IInv'
<1> DEFINE component == components[SlotOf(msg.type)]
<1>1. /\ tx # <<>> /\ running
      /\ UNCHANGED <<components, running, balances, queries, ledger>>
  BY DEF Execute, IInv
<1>2. tx \in Seq(Transactions) /\ tx = <<tx[1]>> /\ tx[1] \in Transactions
  BY <1>1, OneTransaction DEF IInv
<1>3. tx[1].cache = draft /\ draft \in Balances
  BY <1>1, <1>2 DEF IInv, BalancesAreTheLedger, Transactions
<1>4. /\ msg.type \in Types
      /\ msg.type \in {"Send", "Burn", "Mint"} => msg \in BankMsgs \cup BankSudos
  BY MsgsOfTypes
<1>5. /\ SlotOf(msg.type) \in Slots
      /\ component = "BankKeeper" => SlotOf(msg.type) = "bank"
      /\ component = "CachingCustomHandler" => SlotOf(msg.type) = "custom"
  BY <1>4, SlotsOfTypes DEF IInv, Assembled
<1>6. component = "BankKeeper" => msg \in BankMsgs \cup BankSudos
  BY <1>4, <1>5, SlotsOfTypes
<1>7. component = "CachingCustomHandler" => sender \in Valid
  BY <1>4, <1>5, SlotsOfTypes DEF SudoTypes
<1>8. (msg \in BankMsgs \cup BankSudos /\ msg.type # "Mint") => sender \in Addresses
  BY AddressesAssumption DEF BankMsgs, BankSudos, SudoTypes
<1>9. CASE AcceptedBy(component, tx[1].cache, sender, msg)
  <2> DEFINE c == AfterMessage(component, draft, sender, msg)
             t == [tx[1] EXCEPT !.cache = c, !.sent = @ + 1]
  <2>1. /\ tx' = <<t>>
        /\ execs' = Cached(component, execs, sender)
        /\ draft' = (IF component = "BankKeeper" THEN Entered(sender, msg) ELSE draft)
    BY <1>3, <1>9 DEF Execute
  <2>3. component = "BankKeeper" => Accepts(draft, sender, msg)
    BY <1>3, <1>9 DEF AcceptedBy
  <2>4. c \in Balances /\ draft' = c
    <3>1. CASE component = "BankKeeper"
      <4>1. c = After(draft, sender, msg) /\ draft' = Entered(sender, msg)
        BY <1>5, <2>1, <3>1 DEF AfterMessage
      <4>2. /\ After(draft, sender, msg) \in Balances
            /\ After(draft, sender, msg) = Entered(sender, msg)
        BY <1>3, <1>6, <1>8, <2>3, <3>1, AfterIsEntered
      <4> QED BY <4>1, <4>2
    <3>2. CASE component # "BankKeeper"
      <4>1. c = draft /\ draft' = draft
        BY <1>5, <2>1, <3>2 DEF AfterMessage
      <4> QED BY <1>3, <4>1
    <3> QED BY <3>1, <3>2
  <2> HIDE DEF c
  <2>5. t \in Transactions /\ t.cache = c
    <3>1. tx[1] \in Transactions /\ c \in Balances
      BY <1>2, <2>4
    <3>2. t = WithSent(tx[1], c)
      BY DEF WithSent
    <3> HIDE DEF t
    <3> QED BY <3>1, <3>2, SentIs
  <2> HIDE DEF t
  <2>6. tx' \in Seq(Transactions) /\ Len(tx') = 1 /\ tx'[1] = t /\ tx' # <<>>
    BY <2>1, <2>5, TxTypes
  <2>7. execs' \in Seq(Valid)
    <3>1. execs \in Seq(Valid)
      BY DEF IInv, TypeOK
    <3> QED BY <1>7, <2>1, <3>1, AppendProperties DEF Cached
  <2>8. TypeOK'
    BY <1>1, <2>6, <2>7 DEF IInv, TypeOK, Transactions, Balances, Types
  <2>9. BalancesAreTheLedger'
    BY <1>1, <2>4, <2>5, <2>6 DEF IInv, BalancesAreTheLedger
  <2> QED BY <1>1, <2>6, <2>8, <2>9 DEF IInv, Assembled
<1>10. CASE ~AcceptedBy(component, tx[1].cache, sender, msg)
  <2>1. tx' = <<>> /\ draft' = ledger /\ execs' = execs
    BY <1>10 DEF Execute
  <2>3. TypeOK'
    <3>1. tx' \in Seq(Transactions) /\ Len(tx') <= 1
      BY <2>1, TxTypes
    <3> QED BY <1>1, <2>1, <3>1 DEF IInv, TypeOK, Transactions, Balances, Types
  <2> QED BY <1>1, <2>1, <2>3 DEF IInv, Assembled, BalancesAreTheLedger
<1> QED BY <1>9, <1>10

LEMMA ExecuteMsgInv ==
    ASSUME IInv, NEW sender \in Valid, NEW msg \in BankMsgs \cup [type : OtherTypes],
           ExecuteMsg(sender, msg)
    PROVE  IInv'
BY ExecuteInv DEF ExecuteMsg, Msgs

LEMMA SudoInv ==
    ASSUME IInv, NEW msg \in BankSudos \cup [type : SudoTypes], Sudo(msg)
    PROVE  IInv'
<1> DEFINE nobody == CHOOSE a \in Addresses : TRUE
<1>1. Execute(nobody, msg)
  BY DEF Sudo
<1> HIDE DEF nobody
<1>2. msg \in Msgs /\ msg.type \in SudoTypes \cup {"Mint"}
  <2>1. CASE msg \in BankSudos
    BY <2>1 DEF Msgs, BankSudos
  <2>2. CASE msg \in [type : SudoTypes]
    BY <2>2 DEF Msgs, SudoTypes, OtherTypes
  <2> QED BY <2>1, <2>2
<1> QED BY <1>1, <1>2, ExecuteInv

-----------------------------------------------------------------------------
(* The other steps *)

LEMMA CommitInv ==
    ASSUME IInv, Commit
    PROVE  IInv'
<1>1. /\ tx # <<>> /\ running /\ tx' = <<>>
      /\ balances' = tx[1].cache /\ ledger' = draft
      /\ UNCHANGED <<components, running, execs, queries, draft>>
  BY DEF Commit, IInv
<1>2. tx[1] \in Transactions
  BY <1>1, OneTransaction DEF IInv
<1>3. balances' \in Balances /\ balances' = ledger'
  BY <1>1, <1>2 DEF IInv, BalancesAreTheLedger, Transactions
<1>4. tx' \in Seq(Transactions) /\ Len(tx') <= 1
  BY <1>1, TxTypes
<1>5. TypeOK'
  BY <1>1, <1>3, <1>4 DEF IInv, TypeOK, Transactions, Balances, Types
<1> QED BY <1>1, <1>3, <1>5 DEF IInv, Assembled, BalancesAreTheLedger

LEMMA QueryInv ==
    ASSUME IInv, NEW type \in OtherTypes \ {"distribution", "gov"}, Query(type)
    PROVE  IInv'
<1>1. /\ queries' = Cached(components[SlotOf(type)], queries, type)
      /\ UNCHANGED <<components, running, balances, tx, execs, ledger, draft>>
  BY DEF Query
<1>2. type \in Types
  BY DEF Types
<1>3. components[SlotOf(type)] = "CachingCustomHandler" => type = "custom"
  BY <1>2, SlotsOfTypes DEF IInv, Assembled
<1>4. queries \in Seq({"custom"})
  BY DEF IInv, TypeOK
<1>5. queries' \in Seq({"custom"})
  BY <1>1, <1>3, <1>4, AppendProperties DEF Cached
<1>6. TypeOK'
  BY <1>1, <1>5 DEF IInv, TypeOK
<1> QED BY <1>1, <1>6 DEF IInv, Assembled, BalancesAreTheLedger

LEMMA ResetInv ==
    ASSUME IInv, Reset
    PROVE  IInv'
<1>1. /\ execs' = <<>> /\ queries' = <<>>
      /\ UNCHANGED <<components, running, balances, tx, ledger, draft>>
  BY DEF Reset
<1>2. execs' \in Seq(Valid) /\ queries' \in Seq({"custom"})
  BY <1>1, EmptySeq
<1>3. TypeOK'
  BY <1>1, <1>2 DEF IInv, TypeOK
<1> QED BY <1>1, <1>3 DEF IInv, Assembled, BalancesAreTheLedger

LEMMA NextInv == IInv /\ [Next]_vars => IInv'
<1> SUFFICES ASSUME IInv, [Next]_vars PROVE IInv'
  OBVIOUS
<1>1. ASSUME NEW slot \in Slots, NEW component \in Replacements[slot], Give(slot, component)
      PROVE  IInv'
  BY <1>1, GiveInv
<1>2. CASE Build
  BY <1>2, BuildInv
<1>3. ASSUME NEW account \in Addresses, NEW coins \in CoinLists, InitBalance(account, coins)
      PROVE  IInv'
  BY <1>3, InitBalanceInv
<1>4. ASSUME NEW sudo \in BOOLEAN, Begin(sudo)
      PROVE  IInv'
  BY <1>4, BeginInv
<1>5. ASSUME NEW sender \in Valid, NEW msg \in BankMsgs \cup [type : OtherTypes],
             ExecuteMsg(sender, msg)
      PROVE  IInv'
  BY <1>5, ExecuteMsgInv
<1>6. ASSUME NEW msg \in BankSudos \cup [type : SudoTypes], Sudo(msg)
      PROVE  IInv'
  BY <1>6, SudoInv
<1>7. CASE Commit
  BY <1>7, CommitInv
<1>8. ASSUME NEW type \in OtherTypes \ {"distribution", "gov"}, Query(type)
      PROVE  IInv'
  BY <1>8, QueryInv
<1>9. CASE Reset
  BY <1>9, ResetInv
<1>10. CASE UNCHANGED vars
  BY <1>10 DEF vars, IInv, TypeOK, Assembled, BalancesAreTheLedger
<1> QED BY <1>1, <1>2, <1>3, <1>4, <1>5, <1>6, <1>7, <1>8, <1>9, <1>10 DEF Next

\* The invariant holds through building, every message and every commit.
THEOREM Invariance == Spec => []IInv
<1> QED BY InitInv, NextInv, PTL DEF Spec

\* No balance, in the storage or in a cache, is ever subtracted below zero, a
\* transaction is open or none is, and CachingCustomHandler keeps senders and custom
\* queries only.
THEOREM TypeCorrect == Spec => []TypeOK
<1>1. IInv => TypeOK
  BY DEF IInv
<1> QED BY <1>1, Invariance, PTL

\* BankKeeper and execute_multi: for any lists of coins, with denoms repeated and
\* amounts of zero, and accounts that send to themselves, every account has what it was
\* minted and sent less what it sent and burnt, and of failed transactions nothing.
THEOREM BalancesFollowTheLedger == Spec => []BalancesAreTheLedger
<1>1. IInv => BalancesAreTheLedger
  BY DEF IInv
<1> QED BY <1>1, Invariance, PTL

=============================================================================
