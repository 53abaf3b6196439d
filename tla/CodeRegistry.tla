----------------------------- MODULE CodeRegistry -----------------------------
(***************************************************************************)
(* The codes and the contracts of WasmKeeper (src/wasm.rs): store_code,     *)
(* store_code_with_id and duplicate_code, the registration of contracts     *)
(* with their addresses, migration, admins, and the lookup of the code that *)
(* runs when a contract is called.                                          *)
(*                                                                          *)
(* Codes live in the keeper and are stored between transactions.  Contracts *)
(* live in the storage: a message that fails takes back what it registered, *)
(* migrated or changed, and the messages that contracts sent meanwhile.     *)
(* A frame of the stack is a message that is being executed: the function   *)
(* that it runs and the contracts as they were before.                      *)
(***************************************************************************)
EXTENDS ContractWrapper, FiniteSets, FiniteSetsExt

CONSTANTS Accounts,     \* senders from outside
          Recipes,      \* wrappers that tests store
          Salts,        \* salts of Instantiate2
          Labels,       \* labels of contracts
          Admins,       \* admins that contracts get
          Outside,      \* entry points that are called from outside
          MaxCodeId,    \* u64::MAX
          MaxRecords,   \* bound: codes and contracts together
          MaxContracts, \* bound: contracts
          MaxDepth      \* bound: messages within messages

ASSUME RegistryBounds ==
    /\ MaxCodeId \in Nat /\ MaxRecords \in Nat /\ MaxContracts \in Nat /\ MaxDepth \in Nat
ASSUME OutsideEntryPoints == Outside \subseteq EntryPoints
ASSUME RecipesAreRecipes == \A recipe \in Recipes : IsRecipe(recipe)

VARIABLES code_base, \* the wrappers
          code_data, \* of each code id: creator, checksum and place in code_base
          CONTRACTS, \* of each address: the ContractData
          stack,     \* the messages being executed, innermost last
          uploaded   \* history: the recipe stored under a code id
codeVars == <<code_base, code_data, uploaded>>
vars == <<code_base, code_data, CONTRACTS, stack, uploaded>>

CodeIds == 0 .. MaxCodeId

\* SimpleChecksumGenerator::checksum and the two kinds of address.  Digests do not
\* collide.
Generated(code_id) == [generated |-> code_id]
Classic(code_id, instance_id) == [code_id |-> code_id, instance_id |-> instance_id]
Predictable(checksum, creator, salt) == [checksum |-> checksum, creator |-> creator, salt |-> salt]

-----------------------------------------------------------------------------
(* Codes *)

\* Mutant of NextCodeId: the ids are taken for dense.
NextCodeIdOfCount == {Cardinality(DOMAIN code_data) + 1} \cap CodeIds

\* next_code_id: one more than the largest; none when that is the last u64.
NextCodeId ==
    LET largest == Max(DOMAIN code_data \cup {0})
    IN  IF largest = MaxCodeId THEN {} ELSE {largest + 1}

Registered(code_id) == code_id \in DOMAIN code_data

\* Mutant of SourceId: the place of the wrapper is taken from the number of ids,
\* of which duplicates have no wrapper of their own.
SourceIdOfCount == Cardinality(DOMAIN code_data) + 1

\* The place of the next wrapper in code_base, counted from one.
SourceId == Len(code_base) + 1

ChecksumOf(wrapper, code_id) ==
    IF wrapper.checksum = None THEN Generated(code_id) ELSE wrapper.checksum

\* f with x mapped to y, whether or not x is new.
Put(f, x, y) == [z \in DOMAIN f \cup {x} |-> IF z = x THEN y ELSE f[z]]

SaveCode(code_id, creator, recipe) ==
    LET wrapper == Build(recipe)
    IN  /\ code_base' = Append(code_base, wrapper)
        /\ code_data' = Put(code_data, code_id,
              [creator |-> creator, checksum |-> ChecksumOf(wrapper, code_id), source_id |-> SourceId])
        /\ uploaded' = Put(uploaded, code_id, recipe)

Records(contracts) == Cardinality(DOMAIN code_data) + Cardinality(DOMAIN contracts)

\* Codes are stored through &mut App, never while a message is executed.
CanStore == stack = <<>> /\ Records(CONTRACTS) < MaxRecords

\* Without another id store_code panics.
StoreCode(creator, recipe) ==
    /\ CanStore
    /\ \E code_id \in NextCodeId : SaveCode(code_id, creator, recipe)
    /\ UNCHANGED <<CONTRACTS, stack>>

StoreCodeWithId(creator, code_id, recipe) ==
    /\ CanStore
    /\ ~Registered(code_id)
    /\ code_id # 0
    /\ SaveCode(code_id, creator, recipe)
    /\ UNCHANGED <<CONTRACTS, stack>>

DuplicateCode(code_id) ==
    /\ CanStore
    /\ Registered(code_id)
    /\ \E copy \in NextCodeId :
          /\ code_data' = Put(code_data, copy, code_data[code_id])
          /\ uploaded' = Put(uploaded, copy, uploaded[code_id])
    /\ UNCHANGED <<code_base, CONTRACTS, stack>>

-----------------------------------------------------------------------------
(* Running contracts *)

\* contract_code: the function of an entry point; {} is an error, no such code or
\* not implemented.
ContractCode(code_id, entry) ==
    IF Registered(code_id)
    THEN LET wrapper == code_base[code_data[code_id].source_id]
         IN  IF Implements(wrapper, entry) THEN {wrapper.fns[entry]} ELSE {}
    ELSE {}

\* query_smart, through with_storage_readonly.
QuerySmart(contract) == ContractCode(CONTRACTS[contract].code_id, "query")

Frame(contract, entry, contracts) ==
    [contract |-> contract, fn |-> ContractCode(contracts[contract].code_id, entry),
     before |-> CONTRACTS]

Top == stack[Len(stack)]

\* Messages come from accounts, and from a contract while its message is executed.
CanSend(sender) ==
    IF stack = <<>> THEN sender \in Accounts
    ELSE Len(stack) < MaxDepth /\ Top.fn # {} /\ sender = Top.contract

Senders == Accounts \cup {stack[i].contract : i \in DOMAIN stack}

\* with_storage looks the code of a contract up whenever one of its entry points
\* is called, and calls it.
Call(contract, entry, contracts) ==
    /\ CONTRACTS' = contracts
    /\ stack' = Append(stack, Frame(contract, entry, contracts))
    /\ UNCHANGED codeVars

\* The check of register_contract and of Migrate, on the number of codes.
SeemsRegistered(code_id) == code_id <= Cardinality(DOMAIN code_data)

\* Mutant of NewAddress: an address may be taken again.
NewAddressAlways(address) == TRUE

NewAddress(address) == address \notin DOMAIN CONTRACTS

Address(sender, code_id, salt) ==
    IF salt = None THEN Classic(code_id, Cardinality(DOMAIN CONTRACTS))
    ELSE Predictable(code_data[code_id].checksum, sender, salt)

RegisterContract(sender, code_id, admin, label, salt) ==
    LET address   == Address(sender, code_id, salt)
        contracts == Put(CONTRACTS, address,
            [code_id |-> code_id, creator |-> sender, admin |-> admin, label |-> label])
    IN  /\ SeemsRegistered(code_id)
        /\ salt # None => Registered(code_id)
        /\ NewAddress(address)
        /\ Cardinality(DOMAIN contracts) <= MaxContracts
        /\ Records(contracts) <= MaxRecords
        /\ Call(address, "instantiate", contracts)

\* WasmMsg::Instantiate, without a salt, and Instantiate2.
Instantiate(sender, code_id, admin, label, salt) ==
    /\ CanSend(sender)
    /\ label # ""
    /\ RegisterContract(sender, code_id, admin, label, salt)

\* data.admin is Some(sender).
IsAdmin(sender, contract) ==
    CONTRACTS[contract].admin # None /\ CONTRACTS[contract].admin = sender

\* WasmMsg::Migrate: the new code id is saved, then migrate of the new code runs.
Migrate(sender, contract, code_id) ==
    /\ CanSend(sender)
    /\ SeemsRegistered(code_id)
    /\ IsAdmin(sender, contract)
    /\ Call(contract, "migrate", [CONTRACTS EXCEPT ![contract].code_id = code_id])

\* WasmMsg::UpdateAdmin, and ClearAdmin with None.
UpdateAdmin(sender, contract, admin) ==
    /\ CanSend(sender)
    /\ IsAdmin(sender, contract)
    /\ CONTRACTS' = [CONTRACTS EXCEPT ![contract].admin = admin]
    /\ UNCHANGED <<stack, codeVars>>

\* WasmMsg::Execute from an account or a contract.
Execute(sender, contract) ==
    /\ CanSend(sender)
    /\ Call(contract, "execute", CONTRACTS)

\* App::wasm_sudo and the calls of the IBC module.
CallFromOutside(contract, entry) ==
    /\ stack = <<>>
    /\ Call(contract, entry, CONTRACTS)

\* execute_submsg calls reply of the contract that sent the submessage.
Reply ==
    /\ stack # <<>>
    /\ Top.fn # {}
    /\ Len(stack) < MaxDepth
    /\ Call(Top.contract, "reply", CONTRACTS)

-----------------------------------------------------------------------------
Pop == stack' = SubSeq(stack, 1, Len(stack) - 1)

\* The function and all messages that it sent succeeded.
Return ==
    /\ stack # <<>>
    /\ Top.fn # {}
    /\ Pop
    /\ UNCHANGED <<CONTRACTS, codeVars>>

\* Mutant of Fail: what a failing message did stays.
FailKeeps ==
    /\ stack # <<>>
    /\ Pop
    /\ UNCHANGED <<CONTRACTS, codeVars>>

\* There is no such function, it returned an error or one of its messages failed:
\* the transaction of the message or submessage drops its changes.
Fail ==
    /\ stack # <<>>
    /\ CONTRACTS' = Top.before
    /\ Pop
    /\ UNCHANGED codeVars

Init ==
    /\ code_base = <<>>
    /\ code_data = [id \in {} |-> None]
    /\ CONTRACTS = [a \in {} |-> None]
    /\ stack = <<>>
    /\ uploaded = [id \in {} |-> <<>>]

Next ==
    \/ \E creator \in Accounts, recipe \in Recipes : StoreCode(creator, recipe)
    \/ \E creator \in Accounts, code_id \in CodeIds, recipe \in Recipes :
          StoreCodeWithId(creator, code_id, recipe)
    \/ \E code_id \in CodeIds : DuplicateCode(code_id)
    \/ \E sender \in Senders, code_id \in CodeIds, admin \in Admins, label \in Labels,
          salt \in Salts \cup {None} : Instantiate(sender, code_id, admin, label, salt)
    \/ \E sender \in Senders, contract \in DOMAIN CONTRACTS :
          \/ \E code_id \in CodeIds : Migrate(sender, contract, code_id)
          \/ \E admin \in Admins : UpdateAdmin(sender, contract, admin)
          \/ Execute(sender, contract)
    \/ \E contract \in DOMAIN CONTRACTS, entry \in Outside : CallFromOutside(contract, entry)
    \/ Reply
    \/ Return
    \/ Fail

Spec == Init /\ [][Next]_vars

-----------------------------------------------------------------------------
(* Properties *)

\* Types of code_base, code_data and the contracts; code_data never points past
\* the wrappers (contract_code indexes code_base).
TypeOK ==
    /\ code_base \in Seq(Wrappers)
    /\ DOMAIN code_data \subseteq 1 .. MaxCodeId
    /\ \A id \in DOMAIN code_data : code_data[id].source_id \in DOMAIN code_base
    /\ DOMAIN uploaded = DOMAIN code_data
    /\ \A a \in DOMAIN CONTRACTS : CONTRACTS[a].code_id \in CodeIds
    /\ \A i \in DOMAIN stack : stack[i].contract \in DOMAIN CONTRACTS

\* The contracts once the message from outside is done, should it fail now.
Settled == IF stack = <<>> THEN CONTRACTS ELSE stack[1].before

\* register_contract, "check if the contract's code with specified code_id exists",
\* compares the id with the number of codes: although ids can be sparse and a code
\* id that is not registered can pass, no contract is left without a code.
ContractsHaveCode == \A a \in DOMAIN Settled : Registered(Settled[a].code_id)

\* with_storage and with_storage_readonly: what runs for any entry point of a
\* contract is the function that was given last for it to the wrapper that was
\* stored under the contract's present code id, or copied to it.
ContractsRunTheirCode ==
    \A a \in DOMAIN CONTRACTS, entry \in EntryPoints :
        Registered(CONTRACTS[a].code_id) =>
            LET fn == Provided(uploaded[CONTRACTS[a].code_id], entry)
            IN  {closure.raw_fn : closure \in ContractCode(CONTRACTS[a].code_id, entry)}
                    = {fn} \ {None}

\* WasmQuery::CodeInfo.
CodeInfo(id) == [creator |-> code_data[id].creator, checksum |-> code_data[id].checksum]

\* store_code, "Returns an identifier of the stored contract code": an id is given
\* out once, and a code never changes under it.
CodesAreImmutable ==
    [][\A id \in DOMAIN code_data :
        /\ id \in DOMAIN code_data'
        /\ CodeInfo(id)' = CodeInfo(id)
        /\ uploaded'[id] = uploaded[id]]_vars

\* update_admin and Migrate, "Only admin can", and register_contract, "contract with
\* the same address must not already exist": a contract whose admin was cleared never
\* changes again, whatever is migrated, instantiated over its code or salt, or rolled
\* back after it.
WithoutAdminNothingChanges ==
    [][\A a \in DOMAIN Settled : Settled[a].admin = None =>
        a \in DOMAIN Settled' /\ Settled'[a] = Settled[a]]_vars

\* with_checksum, "Populates [ContractWrapper] with the provided checksum of the
\* contract's Wasm blob": the checksum of a code is the one provided for it.
ProvidedChecksumIsUsed ==
    \A id \in DOMAIN code_data :
        Provided(uploaded[id], "checksum") # None =>
            code_data[id].checksum = Provided(uploaded[id], "checksum")
=============================================================================
