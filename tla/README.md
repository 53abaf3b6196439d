# A TLA+ model of cw-multi-test

cw-multi-test runs CosmWasm contracts in a simulated chain: an `App` holds a
storage, a block and a `Router` to modules (bank, wasm, staking, distribution,
IBC, ...).  Everything is one synchronous Rust call, so what is hard is not
threads but nesting: storage transactions inside transactions, contracts that
send submessages that call contracts, replies to them, errors that are caught at
some level and roll back what is above it, records kept in several places that
must stay in step over long sequences of messages, and packets that travel
between two Apps.

All paths below are relative to the repository.

## Inventory

| Part | State | Operations | What makes it correct |
| --- | --- | --- | --- |
| Storage transactions, `src/transactions.rs` | `local_state` (deltas) and `rep_log` (operations) of every open `StorageTransaction`, the storage below | `get`, `range`, `set`, `remove`, `transactional`, `RepLog::commit` | a stack of snapshots: commit flushes all, rollback nothing, `range` agrees with `get` |
| Prefixed storage, `src/prefixed_storage/` | none | `get`, `set`, `remove`, `range` through prefixed, multilevel, read-only and typed views | namespaces do not overlap, ranges stay in theirs and miss nothing |
| App and Router, `src/app.rs` | storage, block | `init_modules`, `execute_multi`, `wasm_sudo`, `sudo`, `set_block`, `update_block`, queries | each call is atomic, block changes pay what is due |
| Wasm keeper: execution, `src/wasm.rs` | contract storage | execute, instantiate, migrate, sudo, reply, submessages, IBC entry points, source callbacks | rollback, reply and data rules of wasmd |
| Wasm keeper: registry, `src/wasm.rs`, `src/addresses.rs`, `src/checksums.rs` | `code_base`, `code_data`, `ContractData` | `store_code`, `store_code_with_id`, `duplicate_code`, `register_contract`, migrate, `update_admin` | ids are given out once, contracts have a code, addresses are unique, only admins change contracts |
| Bank, `src/bank.rs` | `BALANCES`, `IBC_DENOMS` | send, mint, burn, ICS20 receive, acknowledge, timeout | transfers conserve supply, vouchers are backed |
| Staking and distribution, `src/staking.rs` | `STAKES`, `VALIDATOR_INFO`, `UNBONDING_QUEUE`, `WITHDRAW_ADDRESS` | `add_validator`, delegate, undelegate, redelegate, slash, `process_queue`, withdraw rewards, set withdraw address | records agree, the module can pay, rewards are those earned |
| IBC, `src/ibc/simple_ibc.rs`, `state.rs`, `types.rs` | connections, channels, packets sent, received, acknowledged, timed out | handshake, send, receive, acknowledge, timeout, transfer, callbacks | a packet is executed at most once, and ends acknowledged or timed out, never both |
| IBC relayer, `src/ibc/relayer/` | none | `create_connection`, `create_channel`, `relay_packet(s)` | both ends agree after a handshake, every packet of a transaction is settled |
| IBC memos, `src/ibc/memo/` | none | parse JSON memos | - |
| Contract wrappers, `src/contracts.rs` | the functions of a contract's entry points | `new`, `with_*` methods, calls | each entry point runs the function given for it |
| App builder, `src/app_builder.rs` | eleven components | `new`, `with_*` methods, `build` | components are kept apart by their type parameters: the compiler's work |
| Failing, accepting, caching modules, `src/module.rs`, `gov.rs`, `stargate.rs`, `custom_handler.rs` | messages a `CachingCustomHandler` keeps | accept or refuse | transactions around them stay atomic |
| Executor helpers, API, errors | none | build, convert | - |

How they interact: `App` opens a transaction over the storage and hands the cache
to `Router::execute`, which dispatches to a module by the kind of message.  The
wasm keeper calls contracts (each in a transaction of its own), and sends their
submessages back through the router, each in another transaction.  Staking and
distribution move tokens by sending `BankMsg::Send` and `BankSudo::Mint` through
the router.  IBC calls the wasm keeper or the bank with packets.  The relayer
reads events of one App and calls `sudo` of the other.  No callback crosses a
thread; an interleaving is an order in which a test calls the Apps.

What is hard to test is listed line by line under `hazards` in `PROJECT.json`,
with the property that covers it.

## Modules

### StorageTransaction, SnapshotStore

`StorageTransaction` is `src/transactions.rs`: `caches` is the stack of open
transactions, `caches[i].local_state` and `caches[i].rep_log` are the fields of
the struct, `base` the backing storage.  `Begin`, `Write`, `Prepare` and
`Rollback` are the calls a user of `transactional` makes.  `RepLog::commit`
replays operation by operation (`CommitStep`, one round of its loop); `pending`
is the rest of the log.  The writes of a replay go through `Storage::set` and
`remove` of the transaction below, which logs them again: that is `Apply`.

`SnapshotStore` says what this is for: a stack of complete contents; begin
copies the top, commit replaces the content below by the top in one step, and
rollback forgets the top.  The refinement mapping (`Snapshots`) takes a level to
what `get` answers there, and while a log is being replayed the innermost level
to what it will answer after it.

### StorageRange

The iterator of `StorageTransaction::range`: `MergeOverlay`, `PickMatch` and
`TakeLeft` have the names of the code's functions.  `next` and `take_left` call each other
until there is something to yield; here a function from the number of rounds to the
state of the iterator, one `NextItem` a round, goes on until both sides are exhausted.
A transaction's range is the merge of its deltas over the range of the storage
below, again as a recursive function.  The reference is the sorted sequence of records that `get`
answers.  The states are those of `StorageTransaction`.

### SubMessages

`App::execute_multi`, `wasm_sudo` and `sudo`, the message processing of `WasmKeeper`,
and the calls of the IBC module into contracts and back.  The recursion
of the code is the variable `stack`, one frame per function that waits:

| Frame | Function | Actions |
| --- | --- | --- |
| `multi` | `execute_multi` | `Start`, `Dispatch`, `CollectResponse`, `Fail`, `Finish` |
| `sudo` | `wasm_sudo`, `sudo`: one privileged message | the same |
| `call` | `process_response` of a contract call | `IssueSubMsg`, `Fold`, `CallReturns` |
| `sub` | `execute_submsg`, its `transactional` open | `Dispatch`, `SubMsgWithoutReply`, `SubMsgWithReply` |
| `reply` | `execute_submsg` waiting for `reply` | `ReplyReturns` |
| `ibc_close`, `ibc_receive`, `ibc_ack` | `close_channel`, `receive_packet`, `acknowledge_packet`, their `transactional` open | `IbcEnter`, `IbcCall`, `IbcReturns` |
| `callback` | the source callback at the end of an acknowledgement, in a `transactional` of its own | `SourceCallback`, `IbcCall`, `CallbackReturns` |

`ret` is the `StdResult<AppResponse>` a function hands to the one that waits.
`layers` are the snapshots of `SnapshotStore`, each the set of effects visible in
it: a call leaves `prepared` (the funds are sent, the contract registered) and
`state` (the contract's writes).  `with_storage` opens and closes a transaction
within one step of the model: nothing else runs in between except the contract.
A contract is any behaviour: it fails before, in or after its entry point,
returns data or not, and issues any number of submessages up to a bound.  The
list of submessages is chosen one at a time, which is the same because nothing
reads the rest of the list.  Events are the numbers of the calls that emitted
them, data the set of calls whose bytes it holds.  `calls` and `scopes` are
history, which the properties speak about.

What is abstracted: the text of events and attributes (`verify_response` is an
outcome), the encoding of data (only whether there is some, and whose: 0 stands for
the address in an `instantiate` response), gas, payloads and ids.  `WasmMsg::Migrate` is
an `execute`; `UpdateAdmin` and `ClearAdmin` behave like a `bank` message here: they
succeed or are refused.  What they change is in `CodeRegistry`.

A scope is a `transactional`; `ErrorsAreHandledOrPropagate` says which fail from what
went wrong in them, without the code's control flow, and `LayersHoldSurvivors` which
effects each open layer then shows.

### CodeRegistry, ContractWrapper

`ContractWrapper` is the builder of `src/contracts.rs`: a wrapper is a function from
entry points to closures and a checksum, and every `with_*` method an operator with the
fields it hands over.  A *recipe* is the sequence of the calls a test makes; `Provided`
reads off a recipe what it gives for an entry point, without the builder.

`CodeRegistry` has the state of the keeper that tests change between messages
(`code_base`, `code_data`) and the contracts in the storage.  `stack` holds the messages
that are being executed, each with the function it runs and the contracts before it;
`Fail` puts these back.  `Instantiate` is `Instantiate` and `Instantiate2`, with and
without a salt; addresses and generated checksums are records of what the code hashes.
Accounts send messages when nothing runs, and contracts while they run, so an admin that
is a contract may migrate itself, or the contract that called it.  Code ids end at
`MaxCodeId`, which is `u64::MAX` in the code.

### Bank, App

`Bank` is what the messages of `BankKeeper` do to balances, as operators: lists of coins
are as their sender wrote them, a denom twice or zero, and `NativeBalance` adds them up
(`TotalOf`); a transfer leaves out zeros first (`NormalizeAmount`, `Transferred`).
`App` is an App from `AppBuilder::new` over any `with_*` methods and `build` to its
transactions: `components` are the builder's eleven less the block (a value),
`SlotOf` is the dispatch of the `Router`, and each message is accepted or refused by the
component that is there.  `ledger` and `draft` are history: what each account was given
less what it gave, in whole transactions and in the open one.  Nothing is stated about the
builder alone: each component has a type parameter of its own (`AppBuilder`), so a `with_*`
method that dropped or swapped one would not compile.

### LengthPrefixed, PrefixedStorage

The storage is a function from byte sequences to values; the operators have the names
of `namespace_helpers.rs` and `length_prefixed.rs`, a byte is a number below `Base`.
`LengthPrefixed` is one name and its length, apart from the paths of names, which are a
fold.  `ViewsOf` are all the views there are of a path of namespaces.  A view of nested
namespaces lies within the views that enclose it, so one record can be seen through
several views under different keys: `SeenFrom` says which, and `own` is what was written,
in the words of the view it was written through.  `KeysInOrder` is the order in which the
storage below yields keys.  `UpperBoundIsTight` says of a path what its ranges rely on, see
the last observation.

### Staking

`StakeKeeper` and `DistributionKeeper` with the bank balances of one denom and
the block time.  One action per message, with everything it calls, as the
surrounding `execute` or `sudo` is atomic: a handler that returns an error is no
step.  A handler that panics sets `panicked`, after which nothing runs.
Fractions are natural numbers of units of `1/SCALE` and every operation rounds
down where `Decimal256` and `mul_floor` do.  `UpdateBlock` is `set_block` and
`update_block` with the whole loop of `process_queue`.

`AllDelegations`, `Delegation`, `GetRewards` and `TotalRewards` are the queries.

`accrued` and `minted` are history: `accrued` adds up a delegator's rewards
second by second, where the code computes them lazily.

### IbcPackets, PacketLife

The IBC modules of two Apps and the channels between them, once established: the
variables in capitals are the storage maps of `src/ibc/state.rs`, keyed by packet
(source end and sequence) instead of by (port, channel, sequence); `open` and
`next_packet_id` are fields of `CHANNEL_INFO`.  A channel has one name for both of
its ends.  The actions are the handlers of `src/ibc/simple_ibc.rs`, each with the
call of the application at the end of it:

| Action | Handler |
| --- | --- |
| `SendPacket` | `_send_packet` |
| `ReceivePacket`, `ReceiveLatePacket` | `receive_packet`, before and after the timeout |
| `AcknowledgePacket` | `acknowledge_packet` |
| `TimeoutPacket` | `timeout_packet` |
| `CloseChannel`, `CloseConfirm` | `close_channel`, by anyone, and as `relay_packet` ends |
| `NextBlock` | `set_block`, `update_block` |

`relay_packet` of `src/ibc/relayer/packet.rs` reads the packet from one App and
calls `sudo` of the other and of the first again, as the events in the responses
tell it.  A call may fail and leave the ones before it done, and a test may make
the calls itself.  So in the model any call is made at any time after the event
that it needs, again and again.  What a relayer does not do is invent a packet,
an acknowledgement or a timeout: the module says that it trusts relayers.

`PacketLife` is what an application relies on: for each packet, the sender's call,
then at most one call of the receiver, before the timeout, and then at most one
call of the sender, with the acknowledgement that was written, or of the timeout
if the receiver was not and will not be called.  `told` is the history of these
calls, and `Late`, which packets the destination is past, is defined from the
blocks, apart from the test that `receive_packet` makes.

What the code does not do, and the model neither: it does not ask whether a
channel is open when it sends or receives, nor does it enforce the order of
packets on an ordered channel.

### IbcHandshake

How connections and channels come about: `create_connection`, `open_channel` and
`connect_channel` of `src/ibc/simple_ibc.rs` are the operators `NewConnection` and
`SetCounterparty` (without and with a connection id), `OpenChannel` (init and try)
and `ConnectChannel` (ack and confirm).  The variables are the storage maps:
`connections`, `next_channel_id` of `PORT_INFO`, `CHANNEL_HANDSHAKE_INFO` and
`CHANNEL_INFO`, of which `next_packet_id`, which starts at 1, is the subject of
`IbcPackets`.  Connection ids count from 1 here and from 0 in the code.

`create_connection` and `create_channel` of `src/ibc/relayer/channel.rs` are one
action for each call of `sudo`; `relayer[r]` is what the function knows before its
next call, from the responses to those before.  Several handshakes may go on at
once (`Relayers`), each may stop at any call (`Abandon`: the application refuses, the
`?` returns), and a test that makes the calls itself may go on from an earlier
response once more (`Repeat`).  The application is free to answer with any version.

What holds of connections is weaker than of channels.  A second try answers a connection
that is answered already, and a second ack overwrites the counterparty
(`simple_ibc.rs:77`), so two connections may name one and the same, which names only
the one acknowledged last.  `CounterpartiesLeadBack` says what is left; `EndsAgree` therefore asks only that
one of the two connections of a channel names the other, and `EstablishedForGood` is about
channels alone.

### IbcTransfer

The banks of the two Apps over `IbcPackets`, which it extends: each action
(`TransferNext`) is a handler of `IbcPackets` together with what the bank does in it, and
the acknowledgements are those of the bank.
`Transfer` is `transfer`, `Receive`, `Acknowledge` and `Timeout` are the handlers
`ibc_packet_receive`, `ibc_packet_acknowledge` and `ibc_packet_timeout` of
`src/bank.rs`.  `BALANCES` and `IBC_DENOMS` are the storage of the bank, a denom
is the path it took (`Wrap` and `Unwrap` add and take a channel; the code hashes
the path), `ICS20` the `Ics20Packet` in each packet, with one field of history,
`locked`: the denom under which the coins were locked.  A memo is one of three
kinds: none, a wasm hook (the funds go to the contract, the acknowledgement is an
`IbcHookAcknowledgement`) or an `ibc_callback`.  A hook's contract may send its
coins on like any other user.  A callback's acknowledgement is never parsed, see the
observations; what a callback does is in `SubMessages`.  Closing channels is left out: no handler asks whether
a channel is open, and the bank does nothing when one closes.

## Runs

| Run | Bounds | What it shows |
| --- | --- | --- |
| `storage` | 3 ordered keys, 2 values, 2 open transactions, 3 logged operations | types, `LogMatchesState`, `RangeAgreesWithGet`, `ImplementsSnapshots`: sets and removes at every level, in any order with commits and rollbacks, and every range of every level. Two transactions have a commit into one that is itself committed to the storage; two operations on the same key and one on another fit a log; three keys put deltas before, on and after a record from below. |
| `submessages` | 1 transaction of 3 messages and submessages: instantiate, close a channel, receive a packet, acknowledge one; refused or with an invalid response | types, `LayersHoldSurvivors`, `ErrorsAreHandledOrPropagate`, `RepliesMatchReplyOn`, `RepliesAreToldTheTruth`, `EventsAreOfSurvivors`, `StorageIsWrittenAtOnce`, `Terminates`: three messages are one inside the other, in sequence, or issued by a reply or a callback. Of the failures the one before anything happened and the one that leaves most behind: the contract wrote, its response is invalid. Instantiate is the message with most to undo and the only one that changes the data of its response. |
| `staking` | 2 delegators with 2 and 1 tokens, 2 validators, 1 slash of a half (or above the whole, refused), 2 s, queue of 2 | types, `Solvent`, `NothingFromNothing`, `RewardsAreEarned`, `RecordsAgreeBeforeSlash`, `UnbondingsArePaidWhenDue`, `WithdrawalsPayWhatIsReported`: fractions of a token and whole tokens are rounded apart by a slash between delegations, redelegations, withdrawals and unbondings. Before it the records agree. |
| `staking_panic` | 2 delegators, 1 slash | violated: `NeverPanics`, the first finding. |
| `ibc_packets` | 2 packets each way, ordered channel, timeouts by height and by time on one chain | types, `ImplementsPacketLife`, `EveryPacketSettles`, `OrderedTimeoutCloses`: two packets are what a late packet that closes the channel and one still in flight need. |
| `ibc_handshake` | 2 connections and 2 channels on each chain, 2 handshakes at once, 2 versions | types, `EndsAgree`, `CounterpartiesLeadBack`, `EstablishedForGood`: two handshakes can be mixed at every call, over the same or over different connections, and one can repeat what the other did. The order of a channel is one more field that is handed over like the version. |
| `transfer` | 2 unordered channels, 1 transfer each way on each, of 1 or 2 of 3 tokens, hooks, timeouts everywhere, paths of 2 | `WealthIsConserved`, `VouchersAreBacked`, `LockNeverTooLow`, `ReturnsAreNotRefunded`: transfers of different amounts compete for the lock account, vouchers come back over the right and over the wrong channel. One user stands for all, as the properties add up over users. One chain has native tokens, see the first observation; the refunds that finding 2 is about are refused here too, and what is locked for them stays backed. |
| `transfer_return_timeout` | 1 transfer each way, timeouts everywhere | violated: `TimeoutsAreRefunded`, the second finding. |
| `code_registry` | 2 recipes, 4 codes and contracts together, 2 contracts, 3 ids, messages within messages | types, `ContractsHaveCode`, `ContractsRunTheirCode`, `CodesAreImmutable`, `WithoutAdminNothingChanges`: three ids have a dense id, a gap and the last id; two contracts can be each other's admin; one message inside another can fail alone or with it. |
| `checksum_lost` | 2 recipes | violated: `ProvidedChecksumIsUsed`, the third finding. |
| `app` | 2 replaced components, 2 messages in a transaction, 3 accounts, 2 denoms, at most 2 coins of a denom | types, `BalancesAreTheLedger`: the bank and one other component may be replaced; a transaction needs a message to be undone and one that fails. |
| `prefixed` | bytes below 3, 4 namespaces, 4 keys, 3 records | `NamespacesAreApart`, `RangesAreExact`: the namespaces enclose each other, end in the largest byte, and have bytes that continue into another's key; a length needs both of its bytes from 3 on. All satisfy `UpperBoundIsTight`: the only name that ends in the largest byte is that of a keeper. |

Bounds on histories (`MaxLog`, `MaxTxs`, `MaxMessages`, `MaxTime`, `MaxSlashes`,
`MaxQueue`, `MaxDepth`, `MaxPackets`, `MaxBlock`, `MaxHops`, `MaxConnections`,
`MaxChannels`, `MaxRecords`, `MaxContracts`, `MaxReplaced`, `MaxCustom`, `MaxSupply`) are
guards of the actions that add to them and stand for no limit in the code.
`CHECK_DEADLOCK FALSE` is in the runs whose model ends at a bound; a test may always stop
calling the App.  Values, channels, relayers, versions and the two chains of a handshake
are symmetric sets where nothing tells them apart.

In the staking runs `SCALE`, the units of a token, is 100 or 400 instead of 10^18 and
`RATE`, the reward of a staked token in a second, is half a token, so that two
tokens have earned a whole one after a second; the rounding of the rate itself (`apr` over the
seconds of a year) is left out.  With a slash of a half every fraction that arises is
exact in these units, so `RewardsAreEarned` can ask for equality.

Each property has a mutant in `PROJECT.json`, a plausible bug in a definition
that makes TLC find it violated; the mutated operators stand next to the
definitions they replace.

### Fairness

`Terminates` needs it: `execute_multi` is one synchronous call: while its
stack is not empty the thread executes it, so `FairSpec` assumes weak fairness of
a step while something runs.  Nothing is assumed of a test: it need not call
`Start`, and contracts choose freely.  The model bounds submessages; a contract
that calls itself for ever is outside of it, in the code it overflows the stack.

`EveryPacketSettles` and `OrderedTimeoutCloses` are about tests that relay:
`relay_packets_in_tx` carries every packet of a transaction, so weak fairness is
assumed of the relayer's calls for each packet (`Relay`, and `CloseConfirm`, the last
call of `relay_packet`) and of nothing else.  A packet whose receiver writes no
acknowledgement never settles, and `relay_packet` panics at `unimplemented!`: it is an
outcome of its own in `EveryPacketSettles`.

### Findings

1. `process_queue` (`src/staking.rs:598`) removes the `STAKES` entry of a
   delegator whose shares are worth less than a whole token, because `get_stake`
   rounds to whole tokens, and leaves the delegator in `validator_info.stakers`.
   The next `update_rewards` that distributes rewards, or the next `slash`,
   panics at `expect("all stakers in validator_info should exist")`.
   Run `staking_panic`.
2. A voucher on its way back is locked under its local denom and travels under the
   unwrapped one; `ibc_packet_timeout` (`src/bank.rs:459`) looks for the latter in
   the lock account and refuses the refund.  Run `transfer_return_timeout`;
   `RefundsFollowTheName` proves that it concerns all transfers of this kind and no others.
3. `with_checksum` is lost when another `with_*` method of `ContractWrapper` follows:
   these set `checksum: None` (`src/contracts.rs:462` and its like).  Run `checksum_lost`.

### Observations

Met while modelling, without a run of their own:

- The lock account does not say where a denom comes from: if both chains have a native
  denom of one name, `ibc_packet_receive` (`src/bank.rs:339`) takes what arrives for what
  was locked, and its assertion that there is enough fails.  With `BothHave` for `Supply`,
  TLC finds it: each chain sends coins of its own denom, one of them 2 and the other 1, and
  the 2 cannot be received.  `LockStaysHighEnough` proves that it cannot fail otherwise.
- For a transfer with an `ibc_callback` memo, `ibc_packet_acknowledge` (`src/bank.rs:413`)
  parses the acknowledgement as an `IbcHooksAck`, which `ibc_packet_receive` writes only
  for a wasm hook: the parse fails and the packet is never acknowledged.
- `ValidatorInfo.stake` is "The whole stake of all stakers" (`src/staking.rs:80`), but
  `slash` rounds it to whole tokens and keeps the fractions in the stakers' shares, so they
  differ after slashes.  After a slash to below one token `AllDelegations` lists a
  delegation of zero and `Delegation` answers none.  That is why `RecordsAgreeBeforeSlash`
  speaks of the time before.
- `register_contract` and `Migrate` compare a code id with the number of codes
  (`src/wasm.rs:1386`): with sparse ids a stored code whose id is above the count cannot
  be instantiated, and an id below it that names nothing passes, and fails later.
- `Router::query` has no arm for `QueryRequest::Distribution`, and `Router::sudo` none for
  `SudoMsg::Custom`: both run into `unimplemented!`.  `customize_msg` panics on messages
  of gov, stargate and custom modules (`src/contracts.rs:988`).
- Messages that a `CachingCustomHandler` kept stay when their transaction is rolled back.
- `BankMsg::Send` does not validate its recipient: coins can go to an address that every
  query refuses.  `set_denom_metadata` writes outside the bank's namespace.
- `namespace_upper_bound` "returns wrong data" only if all bytes are 255, "but that is never
  possible as a namespace" (`src/prefixed_storage/namespace_helpers.rs:66`).  It is not
  possible for names shorter than 65535 bytes; a path of no names has an empty prefix, whose
  ranges are empty.  But with a nested namespace whose last name ends in a byte of 255 the
  bound is too high already: it has the length of the prefix and ends in zeros, and a raw
  key of an enclosing namespace can be a beginning of it, without the zeros.  A range without
  an end then reaches that key, and `trim` panics as the key is shorter than the prefix.  In
  bytes below 3, the record with key 1 of the namespace 1 is in the range of the namespace 2,2
  within it; TLC finds it when the run `prefixed` has the name 2,2 instead of 2,1.  The
  names of keepers and of contracts are text and end in no such byte, but
  `prefixed_multilevel_storage` of an App takes any.

## Proofs

`Storage_proofs` proves about `StorageTransaction`, for every set of keys and values and without
a bound on nesting or logs:

- `TypeCorrect`: `Spec => []TypeOK`;
- `LogsMatchStates`: `Spec => []LogMatchesState`;
- `Refinement`: `Spec => ImplementsSnapshots`;
- `RangesAgree`: `Spec => []RangeAgreesWithGet`, of `StorageRange`.

Assumptions: `MarkersAssumption`, that the markers for an absent key, a delete
and a missing delta are not values (in the code they are constructors of `Option`
and `Delta`), for ranges `KeysAreOrdered`, that keys are positive numbers and finitely many
(any total order would do, and a storage holds finitely many keys), and `BoundsAssumption`, that the bounds are numbers, which the
proofs do not use.

The argument.  The inductive invariant is `IInv == TypeOK /\ LogMatchesState`.
`LogMatchesState` alone says nothing without types, and `TypeOK` is needed to
know that the innermost log that `Prepare` takes holds operations.  The delta a
log leaves on a key is that of the last operation on it (`LastDelta`, by maximal
index); `LastDeltaAppend` is the step for `set` and `remove`, `LastDeltaHeadTail`
the one for a round of `commit`.  For the refinement, `GetBelow` unfolds `get` by
one level, `ApplyView` says that an operation on the innermost storage changes
its view at one key and no view below, and `ReplayGivesView`, from
`LogMatchesState`, that what a transaction shows is its log replayed over the
storage below: so `Prepare` is the abstract `Commit` (`PrepareStep`), and the
rounds that follow are stuttering steps (`CommitStepStutters`).

That ranges agree with `get` needs no invariant but the types; it is a proof about an
algorithm, by induction over its rounds.  The recursive functions are shown to exist
(`RunExists`, `RangesExist`), as is the sorted sequence of a finite set of keys
(`SortedExists`).  `MergeInv` is the invariant of the loop: what was taken from either
side comes before what is left on both (`Apart`), and what was yielded is, in order, all
that was taken, but the deletes and the records that have a delta (`Yielded`).  `LeftApart`,
`RightApart` and `BothApart` are the three arms of `pick_match`; that a record is
yielded only where there is no delta for its key follows from the order alone.  Each round
takes an item (`NextItemKeeps`), so as many rounds as there are items exhaust both sides
(`MergeEnds`).  By induction over the levels the range of each lists what its view shows
(`RangeLists`), and there is one such list (`ListsAreEqual`).

The same module proves `NamespacesDoNotOverlap` about `LengthPrefixed`: for bytes of any
size, two names shorter than a length can say and any keys, equal raw keys have equal names
and equal keys.  The length is recovered from its two bytes (`LengthIsEncoded`), then name
and key from their places (`RawKey`).  About `PrefixedStorage` it proves, for namespaces
nested to any depth and any number of records:

- `NamespacesStayApart`: `PrefixedSpec => []NamespacesAreApart`;
- `RangesStayExact`: `PrefixedSpec => []RangesAreExact`, if `UpperBoundIsTight` of every
  namespace in use.

Assumptions: bytes are numbers below `Base`, names are shorter than a length can say, keys
are bytes (`PathsAssumption`, `PrefixedKeysAssumption`), and `Absent` is no value and no
key.  Without tight upper bounds the second is false, see the last observation; it is
therefore a hypothesis of that theorem and not an assumption of the module.

The argument.  The prefix of a path is a fold, shown to exist step by step
(`FlattensExist`), and is that of its first names followed by that of the others
(`NestedConcat`).  By induction over the names, two equal raw keys come from paths of which
one begins the other, and the longer path's remaining names are the beginning of the other's
key (`RawKeysMeet`); this is what `SeenFrom` says (`SeenIsSameKey`).  So the invariant
`PrefixedInv`, that the storage is each record of `own` under its raw key, is kept by `set`
and `remove` because they replace exactly the records with that raw key
(`OthersAreOthers`), and it says what every view answers.  For ranges, `Less` is a strict
total order (`LessIsTransitive`, `LessIsTotal`) that a common prefix does not change
(`LessBehindPrefix`).  Keys between two keys with a prefix have it (`BetweenHasPrefix`).
Below the upper bound of a prefix are all keys with the prefix (`BelowUpperBound`), and
besides only keys that are shorter than the prefix and agree with the bound up to the byte
that was incremented (`WithinUpperBound`); no raw key is shorter than the prefix of a single
name and not below it (`RawKeyIsLong`).  Finitely many keys can be listed in order
(`EnumerationExists`).

`IbcPackets_proofs` proves, for all sets of channels, timeouts and acknowledgements and
any number of packets and blocks:

- `TypeCorrect`: `Spec => []TypeOK`;
- `Refinement`: `Spec => ImplementsPacketLife`.

Assumptions: there are two chains, timeouts are pairs of numbers or `None`, and the
bounds are numbers.  Nothing is assumed of the order or the number of a relayer's calls,
nor that channels are open.

The argument.  `PacketLife` is about the calls of applications, the handlers look at
maps of both chains; `Phases` says how they agree: every packet is unsent, in transit,
delivered, answered, expired or returned, and each phase fixes what every map and `told`
hold of it.  `TypeOK` is part of the inductive invariant `IInv` because sending must find
a packet nobody knows: the next sequence of an end is free (`NextSequenceIsFree`), which
is the last conjunct of `TypeOK`.  The phase *expired* says that the destination is past
the timeout, which stays true because blocks do not go back (`LateForGood`); that is why
a timeout can never meet a receiver that is still to be called, although `timeout_packet`
does not look at the other chain.  Each handler then is one action of `PacketLife`
(`SendStep`, `ReceiveStep`, `AcknowledgeStep`, `TimeoutStep`, `NextBlockStep`) or, when
it calls no application, a stuttering step (`QuietStep`).

About `IbcTransfer` the same module proves, for all users, names, amounts and memos, any
supply on both chains and denoms of any length of path:

- `TransferTypeCorrect`: `TransferSpec => []TransferTypeOK`;
- `WealthStaysTheSame`: `TransferSpec => []WealthIsConserved`;
- `TransfersArePackets`: `TransferSpec => ImplementsPacketLife`.

Assumptions: besides those above, that channels, names and users are finitely many (the
property is a sum over them), that the lock account is none of the users, that amounts are
positive, and that both acknowledgements of the bank are among `Responses`.  Nothing is
assumed of the native tokens of either chain, of which transfers time out, or of what the
lock account holds.  The argument.  The inductive invariant `TInv` adds to that of
`IbcPackets` the types, `WealthIsConserved` itself and that every transfer is an
`Ics20Packet`.  Each action moves one balance of a user and one packet
(`WealthMoves`, from the lemmas on sums): a transfer takes the amount from the sender into
the packet, and receiving or refunding it takes it out.  That needs the phases of
`IbcPackets`: who receives finds the packet in transit, and who is refunded finds it
expired, so that it is in flight in both and nobody is paid twice.  The denom may change on
the way, its name does not (`Wrapped`, `Unwrapped`).  The lock account is not counted, so
what it holds needs no invariant.

What it holds is the subject of three more theorems, for the same parameters and one more
assumption, `NativeAtOneChain`: each name is native to at most one of the two chains, as in
the repository's tests of transfers.  The first observation
shows that it is needed.

- `VouchersStayBacked`: `TransferSpec => []VouchersAreBacked`;
- `LockStaysHighEnough`: `TransferSpec => []LockNeverTooLow`;
- `RefundsFollowTheName`: `TransferSpec => []ReturnsAreNotRefunded`.

The argument.  None of the three is inductive: whether a packet is paid from the lock
account depends on what that account holds, and what it should hold depends on all vouchers
and packets there are.  The invariant `VInv` adds to `TInv` the `Books` of the lock account.

- Coins have a parity.  Every hop adds or removes one channel, so coins of a denom with an
  even path are only ever at home and those with an odd path only away (`CoinsAtHome`,
  `Right`); a packet locks coins that may be where they are and names these or what they
  stand for (`PacketsAtHome`).  Hence coins of one denom are never on both chains
  (`RightAway`), and a packet whose denom is found in the lock account of its destination
  named what it had wrapped.
- `Balanced` is an equation: what the lock account holds of a denom and has released is what
  was issued of vouchers for it, wherever they are now, and what it owes to transfers that
  did not arrive or brought vouchers back.  Vouchers that came back stay in the lock account of
  the other chain and still count as issued, since the code never burns them.
- `Solvent`: the lock account holds at least what it owes.  For the lock account of the
  chain away this says that the vouchers that came back, or are on their way, are all there,
  so the users hold only the others: `VouchersCover`.  With the equation of the chain at home
  it gives `VouchersAreBacked`, and `ReturnIsCovered`, that what comes back may be paid.

Each of the three steps that move coins keeps the books (`BooksLock`, `BooksPay`,
`BooksMint`, `BooksRefund`) because the entries it makes balance each other (`BooksMove`);
the sums over accounts, channels and packets change by one entry (`OwedChanges`,
`IssuedMoves`, `IssuedGrows`), as a voucher determines what it stands for
(`WrapIsInjective`).

`CodeRegistry_proofs` proves, for all recipes, accounts, salts, labels and admins, any
number of codes and contracts and any depth of messages:

- `TypeCorrect`: `Spec => []TypeOK`;
- `ContractsAlwaysHaveCode`: `Spec => []ContractsHaveCode`;
- `ContractsRunWhatWasGiven`: `Spec => []ContractsRunTheirCode`;
- `CodesStayTheSame`: `Spec => CodesAreImmutable`;
- `UnownedContractsStay`: `Spec => WithoutAdminNothingChanges`.

Assumptions: the bounds are numbers; `NoneAssumption`, that `Option::None` is no function,
closure or checksum; `RecipesAreRecipes`, that a recipe is a sequence of calls of which
exactly the first is a constructor, which Rust's types enforce: `new` and `new_with_empty`
take no wrapper, the methods take one.

The argument.  `ContractsHaveCode` is not inductive:
while a message runs a contract may be registered with, or migrated to, an id that names no
code.  `ContractsInv` adds that this can only be the contract on top of the stack, which
then has no function to run: it can send no message and its message can only fail.  So all
contracts that called others run (`CallersRun`), and the contracts saved in every frame, to
which `Fail` returns, all have a code.  For admins, `Keeps` says that contracts without an
admin are the same in the contracts at the start of the outermost message (`Settled`), in
those of every frame and in the present ones; so neither a message nor the return to any
frame changes them.  `CallStep` is common to all messages that call an entry point,
`PopStep` to `Return` and `Fail`.  `CodesInv` bounds the ids, so that `next_code_id` finds
one that is free (`NextCodeIdIsFree`), whatever ids were chosen by tests.  That the contract
of every frame exists (in `TypeOK`) is not inductive either: `FramesInv` adds that it exists
in the contracts saved by every later frame.

`ContractsRunTheirCode` compares the builder, a fold of `With` over the recipe, with what
`Provided` reads off the recipe.  `BuiltFrom` says in closed form what any set of the calls
builds; one more call at the end keeps it true (`BuiltStep`, for all eleven methods at once
by `WithIsStep`), so by induction over the sets of calls the fold agrees with it
(`BuildIs`).  `WrappersInv` is the invariant: each code points to a wrapper that the recipe
stored under its id builds, copies included.

`SubMessages_proofs` proves, for any number of transactions, messages and submessages,
all kinds of message and all ways to fail:

- `TypeCorrect`: `Spec => []TypeOK`;
- `SurvivorsHeld`: `Spec => []LayersHoldSurvivors`;
- `StorageWrittenOnce`: `Spec => StorageIsWrittenAtOnce`;
- `ErrorsHandledOrPropagated`: `Spec => []ErrorsAreHandledOrPropagate`;
- `RepliesMatch`: `Spec => []RepliesMatchReplyOn`;
- `RepliesKnow`: the first half of `RepliesAreToldTheTruth`, what a reply is told of
  success or error.

Assumptions: those of the module, that the bounds are numbers and the kinds of messages
are among those it knows.  The argument.  The properties speak about calls and scopes
that may have ended long ago; the inductive invariant `IInv` says how these histories and
the stack agree while the recursion is under way.  `World` is about what is open: the open
scopes are nested one in the other (`Nested`), there is a layer of storage for each of
them, every frame waits in the scope it opened (so `Ends` closes the innermost), each
layer holds what survives in it (`LayersHoldSurvivors` itself), and the scopes that have
ended are dropped exactly if they broke, except for the one on top that is ending.
`Answered` and `AnswersAreScopes` are about replies: who has asked for one has it, except
for the submessage whose reply is running.  `ResultsTyped` are the types of the results
that are handed up.  There is one lemma for opening a scope, one for closing it by commit
or rollback, one for a call, and each action is put together from these (`OpenStep`,
`Closes`, `CallStep`).

`IbcHandshake_proofs` proves, for all ports, versions, orders and relayers and any number
of connections and channels:

- `TypeCorrect`: `Spec => []TypeOK`;
- `EndsAlwaysAgree`: `Spec => []EndsAgree`;
- `CounterpartiesAlwaysLeadBack`: `Spec => []CounterpartiesLeadBack`;
- `ChannelsAreKept`: `Spec => EstablishedForGood`.

Assumptions: there are two chains, the bounds are numbers, and `None` is neither a number
nor a record of a handshake or a channel (`HandshakeNone`; it is `Option::None` in the
code).  The argument.  No handler looks at the other chain, so that the ends agree rests on
what the relayers remember from earlier responses, and this must stay true while others go
on.  `Known` says of each point in a handshake what is true of what its relayer remembers.
The connections of both chains that were made in answer to one of the other chain are a set
that only grows (`answering`, under an existential in `IInv`, as the code does not record
it); one that is in it keeps its counterparty, one that is not has none yet or
one in it that names it (`MayHave`), which is why counterparties lead back.  `Paired` are two
ends of which one was opened for the other.  `Extends` lists what no step takes back, and
`KnownStays` and `AgreeStays` follow from it once for all actions.

`Staking_proofs` proves, for all delegators and validators, finitely many or not, all
amounts, percentages and withdraw addresses, every size of a decimal's units, every rate
and every unbonding time:

- `TypeCorrect`: `Spec => []TypeOK`;
- `SolventAlways`: `Spec => []Solvent`;
- `StakingMakesNothing`: `Spec => []NothingFromNothing`;
- `RecordsAgree`: `Spec => []RecordsAgreeBeforeSlash`;
- `PaidWhenDue`: `Spec => UnbondingsArePaidWhenDue`;
- `WithdrawalsPay`: `Spec => WithdrawalsPayWhatIsReported`.

Assumptions: `ConstantsAssumption`, that numbers are numbers, that a message has an amount
and that the module account is none of the delegators; and `NoSharesAssumption`, that a
missing entry of `STAKES` is not an entry.  The argument.  The inductive invariant `IInv` has
six parts.  `Types`; `Good`, that the records have their types, that only finitely many
are there and that who has shares is a staker (after a slash the converse fails, which is
the first finding); `InOrder`, that the queue is sorted and ends at most one
`UNBONDING_TIME` away, without which an unbonding could wait behind a later one; `Covered`
and `Owned`, which are `Solvent` and `NothingFromNothing`; and `BeforeSlash`, that nothing
panicked and that every entry is a whole number of tokens and a validator's stake is their
sum (`InStep`).  `AddedStake`, `RemovedStake` and `SlashedStake` say what each change of the
records does to all sums, `UpdatedIsSame` that calculating rewards does nothing to them,
`QueueGrows`, `QueueShrinks` and `QueueIsPaid` what happens to the amounts in the queue.
Of rounding down two facts are needed: it keeps the order (`WholeIsMonotone`), and whole
tokens added to an entry are added to its whole part (`WholeOfSum`).  That `UpdateBlock` never panics is a step of the
proof (`PayoutIsCovered`).  For withdrawals, `ReportedIsSaved` says that `update_rewards`
saves what the query computes, and `ReportsOfOthersStay` that afterwards the query reads
back what was saved.

`Sums_proofs` has the lemmas on `SumFunctionOnSet` for finite sets of any size.  The
library's sum is a fold over a choice of elements, so that it does not depend on the order
(`SumTakesOut`) has to be proved, and by induction.  The prover cannot instantiate an
induction theorem for a predicate, but can for a set: `SubsetInduction` and
`ElementInduction` conclude that every subset of `S` is a member of `P`, from the
well-foundedness of the strict-subset ordering.

`App_proofs` proves, for all addresses and denoms, all lists of coins, every choice of
components and any number of messages:

- `TypeCorrect`: `Spec => []TypeOK`;
- `BalancesFollowTheLedger`: `Spec => []BalancesAreTheLedger`.

Assumptions: `AddressesAssumption`, that valid addresses are addresses; `CoinsAssumption`,
that amounts are numbers; `ReplacementsAssumption`, that a `BankKeeper` can only be given
for the bank and a `CachingCustomHandler` for the custom module, which their traits enforce:
without it an address could be kept of somebody who sent no custom message.  The argument.
The invariant `IInv` adds to the properties that only the bank keeps balances and only
the custom module keeps messages (`Assembled`, from `WithSets` for all ten methods), that
`draft` is `ledger` while no transaction is open, and that none is open before `build`.  What is left is arithmetic:
the bank leaves out amounts of zero, adds up coins of one denom, burns before it mints and
compares the burnt sum with the balance; `ledger` enters all coins at once.
`TransferredIsTotal` says that normalizing takes nothing away, from the lemmas on sums;
`BurnDoes` that no balance goes below zero; `AfterIsEntered` that the two agree, also for
an account that sends to itself.

Only model-checked:

- liveness (`Terminates`, `EveryPacketSettles`, `OrderedTimeoutCloses`), which is out of
  the prover's reach;
- `EventsAreOfSurvivors` and the second half of `RepliesAreToldTheTruth`, which data and
  events a reply sees: they are made of `SelectSeq` and `FlattenSeq`, which are recursive;
- `RewardsAreEarned`, which is true in units where no fraction is rounded, as those of the
  run, and not in general: `calculate_rewards` rounds once for the time since the last
  calculation, where `accrued` rounds every second.

## Plan

In this order, the most important behaviour first.

1. *Done:* `SnapshotStore`, `StorageTransaction`, `StorageRange`, `SubMessages`,
   `Staking`; the refinement theorem.
2. *Done:* `PacketLife`, `IbcPackets`, `IbcTransfer`, `IbcHandshake`; that `IbcPackets`
   implements `PacketLife`.
3. *Done:* `ContractWrapper`, `CodeRegistry` and its theorems; `Bank`, `App`;
   `PrefixedStorage` and the theorem on namespaces; IBC entry points and source callbacks
   in `SubMessages`; the queries of staking.
4. *Done:* the theorems on `SubMessages`, `IbcHandshake` and `Staking`; the lemmas on sums
   and, from them, that transfers conserve wealth, that the lock account backs every
   voucher, and the theorems on `App`; that ranges agree with `get`; that namespaces within
   namespaces are apart and their ranges exact.
5. *Left:* that the `layers` of `SubMessages` follow `SnapshotStore`.

Checking all runs should stay a matter of minutes: a new question joins an existing run
where the bounds of that run make its cases happen.

## Not modelled

In IBC: queries, addresses that are refused, more than two Apps, and blocks that go back
in height or time; the parsing of memos.  In the bank: denom metadata, which no other
operation reads.  Helpers of the executor, which build one message and decode its
response.  The encodings of addresses in `src/api.rs`, which belong to external crates,
and errors and re-exports, which have no state.  What ends in `unimplemented!` is no step.
In staking: `setup` that changes `unbonding_time` while unbondings are queued, a
block time that goes backwards through `set_block`, coins of another denom
(refused before any change).  Overflow of `Uint256` and `Decimal256`.  User
contracts, beyond being free to do anything.
