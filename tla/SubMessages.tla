----------------------------- MODULE SubMessages -----------------------------
(***************************************************************************)
(* How a transaction of the App runs: App::execute_multi, wasm_sudo and     *)
(* sudo (src/app.rs) and the message processing of WasmKeeper               *)
(* (src/wasm.rs): execute_wasm, process_wasm_msg_instantiate, with_storage, *)
(* process_response, execute_submsg and reply, and the entry points that    *)
(* the IBC module (src/ibc/simple_ibc.rs) calls: to close a channel, and to *)
(* receive and acknowledge a packet, with the callback to its sender.       *)
(*                                                                          *)
(* The recursion of the code is an explicit stack of frames, innermost      *)
(* last; ret holds the result a callee hands to the frame below it.  Each   *)
(* transactional(...) that is open owns a layer of storage; a layer is the  *)
(* set of effects visible in it, opened and closed as SnapshotStore says.   *)
(* Contracts are unconstrained: an entry point fails or succeeds, with or   *)
(* without data, and its list of submessages is chosen one at a time.       *)
(*                                                                          *)
(* calls and scopes record what happened; no action is guarded by them      *)
(* except through the bounds.                                               *)
(***************************************************************************)
EXTENDS Naturals, Sequences, FiniteSets, SequencesExt

CONSTANTS Kinds,       \* the kinds of message that are sent
          Failures,    \* the ways calls fail
          MaxTxs,      \* bound: calls of execute_multi and sudo
          MaxMessages  \* bound: messages and submessages of all calls together

ASSUME BoundsAssumption == MaxTxs \in Nat /\ MaxMessages \in Nat
ASSUME ChoicesAssumption ==
    /\ Kinds \subseteq {"execute", "instantiate", "bank", "ibc_close",
                        "sudo", "ibc_receive", "ibc_ack"}
    /\ Kinds \cap {"sudo", "bank", "ibc_close", "ibc_receive", "ibc_ack"} # {}
    /\ Failures \subseteq {"refused", "failed", "invalid"}

VARIABLES layers,   \* the backing storage and the open transactional layers
          stack,    \* frames of the functions being executed
          ret,      \* <<>> or <<r>>, r the StdResult<AppResponse> being returned
          responses,\* the AppResponses collected by execute_multi
          calls,    \* history: what ran, in order
          scopes    \* history: the transactional scopes, in order of opening
vars == <<layers, stack, ret, responses, calls, scopes>>

\* "execute" stands for WasmMsg::Execute and Migrate, which prepare something
\* (the funds, the new code id) before they call the contract.  A contract closes
\* its channel with IbcMsg::CloseChannel.  WasmSudo, a packet that is received and
\* the acknowledgement of a transfer of the bank come through wasm_sudo and sudo.
Messages == {"execute", "instantiate", "bank", "ibc_close"}
SudoMessages == {"sudo", "bank", "ibc_close", "ibc_receive", "ibc_ack"}
IbcKinds == {"ibc_close", "ibc_receive", "ibc_ack"}
ReplyOns == {"Always", "Success", "Error", "Never"}

\* data is the set of calls whose bytes it carries: {} is None, {c} what call c
\* returned, and 0 the address that instantiate_response adds.  The data of
\* ibc_packet_receive is the acknowledgement.
NoData == {}

Ok(data, events) == [ok |-> TRUE, data |-> data, events |-> events]
Err == [ok |-> FALSE, data |-> NoData, events |-> <<>>]

Frame(role, scope, call, events, data) ==
    [role |-> role, scope |-> scope, call |-> call, events |-> events, data |-> data]

Top == stack[Len(stack)]
Below == SubSeq(stack, 1, Len(stack) - 1)
Running(role) == stack # <<>> /\ Top.role = role
Storage == layers[Len(layers)]

-----------------------------------------------------------------------------
(* transactional of src/transactions.rs, on whole snapshots *)

OpenLayer == Append(layers, Storage)

\* Mutant of CommitLayer: a submessage is committed to the backing storage.
CommitLayerToBase == <<Storage>> \o SubSeq(layers, 2, Len(layers) - 1)

CommitLayer == Append(SubSeq(layers, 1, Len(layers) - 2), Storage)

\* Mutants of DropLayer: the cache of a failed scope is flushed, or stays open.
DropLayerFlushes == CommitLayer
DropLayerLeaks == layers

DropLayer == SubSeq(layers, 1, Len(layers) - 1)

\* A scope is that of a transaction, of a submessage of call by, of a call of the
\* IBC module or of a source callback.
NewScope(role, parent, by, replyOn) ==
    [role |-> role, parent |-> parent, by |-> by, replyOn |-> replyOn, status |-> "open",
     path |-> {Len(scopes) + 1} \cup (IF parent = 0 THEN {} ELSE scopes[parent].path)]
Close(scope, status) == [scopes EXCEPT ![scope].status = status]
ScopesOf(role) == {s \in DOMAIN scopes : scopes[s].role = role}

\* How many messages and submessages were sent, for the bound.
Sent ==
    LET InTx(scope) == scopes[scope].role = "tx"
    IN  Cardinality(ScopesOf("submsg"))
            + Cardinality({s \in ScopesOf("ibc") : InTx(scopes[s].parent)})
            + Cardinality({c \in DOMAIN calls : calls[c].root = c /\ InTx(calls[c].scope)})

-----------------------------------------------------------------------------
(* Calling an entry point *)

\* What an entry point does.  Its preparation fails (send, register_contract);
\* the contract returns Err, and with_storage drops what it wrote; its response
\* does not pass verify_response, which runs after with_storage committed; or
\* it succeeds.
Outcomes(kind) ==
    CASE kind \in {"bank", "ibc_ack"} -> {"refused", "done"}
      [] kind \in {"ibc_close", "callback"} -> (Failures \ {"refused"}) \cup {"done"}
      [] kind = "ibc_receive" -> (Failures \ {"refused"}) \cup {"done", "done_with_data"}
      [] kind = "sudo" -> (Failures \ {"refused"}) \cup {"done", "done_with_data"}
      [] kind = "reply" -> (Failures \ {"refused"}) \cup {"done", "done_with_data"}
      [] OTHER -> Failures \cup {"done", "done_with_data"}

Succeeds(outcome) == outcome \in {"done", "done_with_data"}

\* The funds are sent, the contract is registered, before the contract is called.
Preparation(c, kind, outcome) ==
    IF kind \in {"execute", "instantiate"} /\ outcome # "refused" THEN {<<c, "prepared">>} ELSE {}

\* with_storage commits what the contract wrote unless it returned Err.
ContractWrites(c, outcome) ==
    IF Succeeds(outcome) \/ outcome = "invalid" THEN {<<c, "state">>} ELSE {}

Effects(c, kind, outcome) == Preparation(c, kind, outcome) \cup ContractWrites(c, outcome)

DataOf(c, outcome) == IF outcome = "done_with_data" THEN {c} ELSE NoData

\* The call with index c of the given kind runs on storage: it leaves its effects
\* there, and on success build_app_response makes a frame that processes its
\* response.  The bank has no submessages and answers at once.
Call(storage, rest, scope, c, kind, outcome) ==
    /\ layers' = [storage EXCEPT ![Len(storage)] = @ \cup Effects(c, kind, outcome)]
    /\ IF Succeeds(outcome) /\ kind \notin {"bank", "ibc_ack"}
       THEN /\ stack' = Append(rest, Frame("call", scope, c, <<c>>, DataOf(c, outcome)))
            /\ ret' = <<>>
       ELSE /\ stack' = rest
            /\ ret' = IF Succeeds(outcome) THEN <<Ok(NoData, <<c>>)>> ELSE <<Err>>

\* What the history keeps of a call: of which message it is part (root), and for
\* a reply the scope it answers and the SubMsgResult it got.
CallRecord(scope, root, kind, outcome, answers, got) ==
    [scope |-> scope, root |-> root, kind |-> kind, outcome |-> outcome,
     answers |-> answers, got |-> got]

-----------------------------------------------------------------------------
Init ==
    /\ layers = <<{}>>
    /\ stack = <<>>
    /\ ret = <<>>
    /\ responses = <<>>
    /\ calls = <<>>
    /\ scopes = <<>>

\* App::execute_multi ("multi"), wasm_sudo and sudo ("sudo"):
\* transactional(&mut *storage, ...).
Start(entry) ==
    /\ stack = <<>>
    /\ Cardinality(ScopesOf("tx")) < MaxTxs /\ Sent < MaxMessages
    /\ layers' = OpenLayer
    /\ scopes' = Append(scopes, NewScope("tx", 0, 0, "Never"))
    /\ stack' = <<Frame(entry, Len(scopes) + 1, 0, <<>>, NoData)>>
    /\ responses' = <<>>
    /\ UNCHANGED <<ret, calls>>

\* The messages that the running function passes on: the next one of execute_multi,
\* the submessage of execute_submsg, the one of sudo.
Sends(kind) ==
    /\ ret = <<>>
    /\ \/ Running("multi") /\ Sent < MaxMessages /\ kind \in Messages
       \/ Running("sub") /\ kind \in Messages
       \/ Running("sudo") /\ responses = <<>> /\ kind \in SudoMessages

\* router.execute(api, write_cache, block, sender, msg) and router.sudo.
Dispatch(kind, outcome) ==
    /\ Sends(kind)
    /\ kind \notin IbcKinds
    /\ LET c == Len(calls) + 1
       IN  /\ Call(layers, stack, Top.scope, c, kind, outcome)
           /\ calls' = Append(calls, CallRecord(Top.scope, c, kind, outcome, 0, Err))
    /\ UNCHANGED <<responses, scopes>>

-----------------------------------------------------------------------------
(* Calls of the IBC module *)

\* The handler of the IBC module opens a cache around router.ibc.
IbcEnter(kind) ==
    /\ Sends(kind)
    /\ kind \in IbcKinds
    /\ layers' = OpenLayer
    /\ scopes' = Append(scopes, NewScope("ibc", Top.scope, 0, "Never"))
    /\ stack' = Append(stack, Frame(kind, Len(scopes) + 1, 0, <<>>, NoData))
    /\ UNCHANGED <<ret, responses, calls>>

\* Router::ibc calls the contract of the port, or the bank; ibc_source_callback the
\* contract that sent the transfer, as a part of acknowledgement Top.call.
IbcCall(outcome) ==
    /\ stack # <<>> /\ Top.role \in IbcKinds \cup {"callback"}
    /\ ret = <<>>
    /\ LET c == Len(calls) + 1
       IN  /\ Call(layers, stack, Top.scope, c, Top.role, outcome)
           /\ calls' = Append(calls, CallRecord(Top.scope,
                  IF Top.role = "callback" THEN Top.call ELSE c, Top.role, outcome, 0, Err))
    /\ UNCHANGED <<responses, scopes>>

\* The handler goes on with the response, or returns the error.
IbcReturns ==
    /\ stack # <<>> /\ Top.role \in IbcKinds
    /\ ret # <<>>
    /\ layers' = IF ret[1].ok THEN CommitLayer ELSE DropLayer
    /\ scopes' = Close(Top.scope, IF ret[1].ok THEN "committed" ELSE "dropped")
    /\ stack' = Below
    /\ UNCHANGED <<ret, responses, calls>>

\* acknowledge_packet and timeout_packet, when the memo of the packet has a
\* source callback: it has a transaction of its own after that of the bank.
SourceCallback ==
    /\ Running("ibc_ack")
    /\ ret # <<>>
    /\ ret[1].ok
    /\ layers' = Append(CommitLayer, Storage)
    /\ scopes' = Append(Close(Top.scope, "committed"),
                        NewScope("callback", scopes[Top.scope].parent, 0, "Never"))
    /\ stack' = Append(Below, Frame("callback", Len(scopes) + 1, Len(calls), ret[1].events, NoData))
    /\ ret' = <<>>
    /\ UNCHANGED <<responses, calls>>

\* Mutant of CallbackReturns: the error of the callback is returned.
CallbackReturnsError ==
    /\ Running("callback")
    /\ ret # <<>>
    /\ layers' = IF ret[1].ok THEN CommitLayer ELSE DropLayer
    /\ scopes' = Close(Top.scope, IF ret[1].ok THEN "committed" ELSE "dropped")
    /\ stack' = Below
    /\ ret' = IF ret[1].ok THEN <<Ok(NoData, Top.events \o ret[1].events)>> ELSE ret
    /\ UNCHANGED <<responses, calls>>

\* "we execute the Packet Callback, without failing on error".
CallbackReturns ==
    /\ Running("callback")
    /\ ret # <<>>
    /\ layers' = IF ret[1].ok THEN CommitLayer ELSE DropLayer
    /\ scopes' = Close(Top.scope, IF ret[1].ok THEN "committed" ELSE "dropped")
    /\ stack' = Below
    /\ ret' = <<Ok(NoData, Top.events \o ret[1].events)>>
    /\ UNCHANGED <<responses, calls>>

-----------------------------------------------------------------------------
(* Submessages and responses *)

\* process_response takes the next submessage; execute_submsg opens its cache.
IssueSubMsg(replyOn) ==
    /\ Running("call")
    /\ ret = <<>>
    /\ Sent < MaxMessages
    /\ layers' = OpenLayer
    /\ scopes' = Append(scopes, NewScope("submsg", Top.scope, Top.call, replyOn))
    /\ stack' = Append(stack, Frame("sub", Len(scopes) + 1, Top.call, <<>>, NoData))
    /\ UNCHANGED <<ret, responses, calls>>

\* Mutant of RepliesTo: ReplyOn::Always replies to successes only.
RepliesToSuccess(replyOn, ok) ==
    IF ok THEN replyOn \in {"Always", "Success"} ELSE replyOn = "Error"

RepliesTo(replyOn, ok) ==
    IF ok THEN replyOn \in {"Always", "Success"} ELSE replyOn \in {"Always", "Error"}

\* The rest of execute_submsg after the transactional: without a reply the result
\* goes up, stripped of its data; the reply runs outside of the closed scope.
SubMsgWithoutReply ==
    /\ Running("sub")
    /\ ret # <<>>
    /\ ~RepliesTo(scopes[Top.scope].replyOn, ret[1].ok)
    /\ layers' = IF ret[1].ok THEN CommitLayer ELSE DropLayer
    /\ scopes' = Close(Top.scope, IF ret[1].ok THEN "committed" ELSE "dropped")
    /\ stack' = Below
    /\ ret' = IF ret[1].ok THEN <<Ok(NoData, ret[1].events)>> ELSE ret
    /\ UNCHANGED <<responses, calls>>

SubMsgWithReply(outcome) ==
    /\ Running("sub")
    /\ ret # <<>>
    /\ RepliesTo(scopes[Top.scope].replyOn, ret[1].ok)
    /\ scopes' = Close(Top.scope, IF ret[1].ok THEN "committed" ELSE "dropped")
    /\ LET c      == Len(calls) + 1
           issuer == calls[Top.call]
           kept   == IF ret[1].ok THEN CommitLayer ELSE DropLayer
       IN  /\ Call(kept, Append(Below, Frame("reply", issuer.scope, Top.call, ret[1].events, NoData)),
                   issuer.scope, c, "reply", outcome)
           /\ calls' = Append(calls, CallRecord(issuer.scope, issuer.root, "reply", outcome,
                                                Top.scope, ret[1]))
    /\ UNCHANGED responses

\* Mutant of ReplyReturns: the response of the submessage is overwritten.
ReplyReturnsAlone ==
    /\ Running("reply")
    /\ ret # <<>>
    /\ stack' = Below
    /\ UNCHANGED <<layers, ret, responses, calls, scopes>>

\* execute_submsg combines the reply with the original response: the data of the
\* reply, its events after those of the submessage.  A reply that fails fails
\* the submessage.
ReplyReturns ==
    /\ Running("reply")
    /\ ret # <<>>
    /\ stack' = Below
    /\ ret' = IF ret[1].ok THEN <<Ok(ret[1].data, Top.events \o ret[1].events)>> ELSE ret
    /\ UNCHANGED <<layers, responses, calls, scopes>>

\* Mutant of Fold: an error is not returned.
FoldWaitsOnError ==
    /\ Running("call")
    /\ ret # <<>>
    /\ ret[1].ok
    /\ stack' = Append(Below, [Top EXCEPT
            !.events = @ \o ret[1].events,
            !.data = IF ret[1].data = NoData THEN @ ELSE ret[1].data])
    /\ ret' = <<>>
    /\ UNCHANGED <<layers, responses, calls, scopes>>

\* process_response folds the result of a submessage into the response: events
\* are appended, data replaced when there is some; an error ends it (`?`).
Fold ==
    /\ Running("call")
    /\ ret # <<>>
    /\ IF ret[1].ok
       THEN /\ stack' = Append(Below, [Top EXCEPT
                            !.events = @ \o ret[1].events,
                            !.data = IF ret[1].data = NoData THEN @ ELSE ret[1].data])
            /\ ret' = <<>>
       ELSE /\ stack' = Below
            /\ ret' = ret
    /\ UNCHANGED <<layers, responses, calls, scopes>>

\* Mutant of CallReturns: instantiate_response leaves out data that is empty.
CallReturnsWithoutAddress ==
    /\ Running("call")
    /\ ret = <<>>
    /\ stack' = Below
    /\ ret' = <<Ok(Top.data, Top.events)>>
    /\ UNCHANGED <<layers, responses, calls, scopes>>

\* The data a response ends with, when replies and submessages have put theirs in
\* place of it: encode_response_data keeps None, instantiate_response always has the
\* address, and AppIbcBasicResponse has events only.
ResponseData(kind, data) ==
    CASE kind = "instantiate" -> data \cup {0}
      [] kind \in {"ibc_close", "ibc_ack", "callback"} -> NoData
      [] OTHER -> data

\* No submessage is left: the response goes up.
CallReturns ==
    /\ Running("call")
    /\ ret = <<>>
    /\ stack' = Below
    /\ ret' = <<Ok(ResponseData(calls[Top.call].kind, Top.data), Top.events)>>
    /\ UNCHANGED <<layers, responses, calls, scopes>>

\* execute_multi collects Result<Vec<_>, _>: it goes on after Ok.
CollectResponse ==
    /\ Running("multi") \/ Running("sudo")
    /\ ret # <<>>
    /\ ret[1].ok
    /\ responses' = Append(responses, ret[1])
    /\ ret' = <<>>
    /\ UNCHANGED <<layers, stack, calls, scopes>>

\* The first Err ends it, and transactional drops the cache.
Fail ==
    /\ Running("multi") \/ Running("sudo")
    /\ ret # <<>>
    /\ ~ret[1].ok
    /\ layers' = DropLayer
    /\ scopes' = Close(Top.scope, "dropped")
    /\ stack' = <<>>
    /\ ret' = <<>>
    /\ responses' = <<>>
    /\ UNCHANGED calls

\* All messages succeeded: cache.prepare().commit(base).
Finish ==
    /\ Running("multi") \/ (Running("sudo") /\ responses # <<>>)
    /\ ret = <<>>
    /\ layers' = CommitLayer
    /\ scopes' = Close(Top.scope, "committed")
    /\ stack' = <<>>
    /\ UNCHANGED <<ret, responses, calls>>

Next ==
    \/ \E entry \in {"multi", "sudo"} : Start(entry)
    \/ \E kind \in Kinds : \E outcome \in Outcomes(kind) : Dispatch(kind, outcome)
    \/ \E kind \in Kinds : IbcEnter(kind)
    \/ stack # <<>> /\ \E outcome \in Outcomes(Top.role) : IbcCall(outcome)
    \/ IbcReturns
    \/ SourceCallback
    \/ CallbackReturns
    \/ \E replyOn \in ReplyOns : IssueSubMsg(replyOn)
    \/ SubMsgWithoutReply
    \/ \E outcome \in Outcomes("reply") : SubMsgWithReply(outcome)
    \/ ReplyReturns
    \/ Fold
    \/ CallReturns
    \/ CollectResponse
    \/ Fail
    \/ Finish

Spec == Init /\ [][Next]_vars

\* execute_multi is one synchronous Rust call: the running function never stops
\* while it has something to do.  Nothing obliges a test to call Start.
Running_ == stack # <<>> /\ Next
FairSpec == Spec /\ WF_vars(Running_)

-----------------------------------------------------------------------------
(* Properties *)

DataValues == SUBSET (0 .. Len(calls))
Results == [ok : BOOLEAN, data : DataValues, events : Seq(1 .. Len(calls))]

\* Types of the execution state of src/app.rs and src/wasm.rs; one layer of
\* storage per open scope.
TypeOK ==
    /\ layers \in Seq(SUBSET ((1 .. Len(calls)) \X {"prepared", "state"}))
    /\ Len(layers) = 1 + Cardinality({s \in DOMAIN scopes : scopes[s].status = "open"})
    /\ stack \in Seq([role : {"multi", "sudo", "call", "sub", "reply", "callback"} \cup IbcKinds,
                       scope : DOMAIN scopes, call : 0 .. Len(calls),
                       events : Seq(1 .. Len(calls)), data : DataValues])
    /\ ret \in Seq(Results)
    /\ Len(ret) <= 1
    /\ responses \in Seq(Results)

Dropped(scope) == \E s \in scopes[scope].path : scopes[s].status = "dropped"
Survives(c) == ~Dropped(calls[c].scope)
EffectsOf(c) == Effects(c, calls[c].kind, calls[c].outcome)
Succeeded(c) == Succeeds(calls[c].outcome)
Count(n) == [i \in 1 .. n |-> i]

\* The scopes around a call that have not ended yet.
OpenAround(c) == {s \in scopes[calls[c].scope].path : scopes[s].status = "open"}

\* The calls made under a scope, before call number end, that were not rolled
\* back, in order.
SurvivorsOf(scope, end) ==
    SelectSeq(Count(end), LAMBDA c : scope \in scopes[calls[c].scope].path /\ Survives(c))

\* "No state changes are persisted if any of them return an error" (execute_multi)
\* and its nested form in execute_submsg: each layer of storage holds exactly the
\* effects of the calls none of whose enclosing scopes failed; the backing storage
\* those of calls whose scopes have all ended, the layer of an open scope also those
\* under it and the open scopes around it.
LayersHoldSurvivors ==
    \A n \in DOMAIN layers :
        layers[n] = UNION {EffectsOf(c) : c \in {d \in DOMAIN calls :
            Survives(d) /\ Cardinality(OpenAround(d)) < n}}

\* What makes a scope fail: a call of its own that failed, or a scope within it that
\* was dropped, unless a reply on Error or Always handles that, or it is that of a
\* source callback.
Breaks(s) ==
    \/ \E c \in DOMAIN calls : calls[c].scope = s /\ ~Succeeded(c)
    \/ \E t \in DOMAIN scopes :
          /\ scopes[t].parent = s /\ scopes[t].status = "dropped"
          /\ scopes[t].role # "callback" /\ scopes[t].replyOn \notin {"Always", "Error"}

\* `?` in process_response and execute_multi, and "without failing on error" of the
\* source callback: an error is handled by a reply, or it fails everything around it;
\* a scope commits when nothing breaks it and is dropped only when something does.
ErrorsAreHandledOrPropagate ==
    \A s \in DOMAIN scopes : scopes[s].status # "open" =>
        (scopes[s].status = "dropped") = Breaks(s)

\* ReplyOn: a finished submessage has been replied to exactly once when its
\* result matches reply_on, never otherwise, and by a call of the contract that
\* issued it, in the scope the issuer runs in.
RepliesMatchReplyOn ==
    \A s \in DOMAIN scopes :
        LET replies == {c \in DOMAIN calls : calls[c].answers = s}
        IN  IF /\ scopes[s].role = "submsg"
               /\ \/ scopes[s].status = "committed" /\ scopes[s].replyOn \in {"Always", "Success"}
                  \/ scopes[s].status = "dropped" /\ scopes[s].replyOn \in {"Always", "Error"}
            THEN /\ Cardinality(replies) = 1
                 /\ \A c \in replies : calls[c].scope = calls[scopes[s].by].scope
            ELSE replies = {}

\* The call that set the data of the response of message root, by call number
\* end: the last one that returned data among the message's own call and the
\* replies, also to submessages of replies.
LastData(root, end) ==
    LET setters == {c \in 1 .. end : /\ calls[c].root = root
                                     /\ calls[c].outcome = "done_with_data"}
    IN  IF setters = {} THEN NoData ELSE {CHOOSE c \in setters : \A d \in setters : d <= c}

\* The message that a scope was opened for; the IBC module has a scope of its own.
IsRootIn(c, scope) ==
    /\ calls[c].root = c
    /\ \/ calls[c].scope = scope
       \/ scopes[calls[c].scope].role = "ibc" /\ scopes[calls[c].scope].parent = scope

DataOfMessage(root, end) == ResponseData(calls[root].kind, LastData(root, end))

\* execute_submsg's doc, "data is data returned from reply call, not from
\* execution of sub-message itself": what a reply is told about its submessage
\* is the truth: Ok with the events of all its surviving calls and the data of
\* its own message, or Err.
RepliesAreToldTheTruth ==
    \A r \in DOMAIN calls : calls[r].answers # 0 =>
        LET s    == calls[r].answers
            root == CHOOSE c \in DOMAIN calls : IsRootIn(c, s)
        IN  /\ calls[r].got.ok = (scopes[s].status = "committed")
            /\ calls[r].got.ok /\ Survives(r) =>
                 /\ calls[r].got.events = SurvivorsOf(s, r - 1)
                 /\ calls[r].got.data = DataOfMessage(root, r - 1)

\* process_response: after a successful execute_multi the events of its responses
\* are those of the calls whose effects were persisted, each once, in the order
\* of the calls; and the data of each response comes from its own message.
EventsAreOfSurvivors ==
    (stack = <<>> /\ scopes # <<>>) =>
        LET s     == CHOOSE t \in ScopesOf("tx") : \A u \in ScopesOf("tx") : u <= t
            roots == SelectSeq(Count(Len(calls)), LAMBDA c : IsRootIn(c, s))
        IN  IF scopes[s].status = "dropped" THEN responses = <<>>
            ELSE /\ FlattenSeq([i \in DOMAIN responses |-> responses[i].events])
                        = SurvivorsOf(s, Len(calls))
                 /\ Len(roots) = Len(responses)
                 /\ \A i \in DOMAIN roots : responses[i].data = DataOfMessage(roots[i], Len(calls))

\* "All sequential calls to RouterCache will be one atomic unit": the backing
\* storage is only written when execute_multi ends, never by a step inside.
StorageIsWrittenAtOnce ==
    [][layers'[1] # layers[1] => stack' = <<>> /\ Len(layers') = 1]_vars

\* Every execute_multi returns, whatever contracts and replies answer.
Terminates == stack # <<>> ~> stack = <<>>
=============================================================================
