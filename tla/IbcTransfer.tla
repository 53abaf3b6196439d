------------------------------ MODULE IbcTransfer ------------------------------
(***************************************************************************)
(* ICS20 transfers between the banks of two Apps: transfer of               *)
(* src/ibc/simple_ibc.rs, and ibc_packet_receive, ibc_packet_acknowledge    *)
(* and ibc_packet_timeout of src/bank.rs, called by the IBC modules of      *)
(* IbcPackets.                                                              *)
(*                                                                          *)
(* A bank locks what it sends in the account IBC_LOCK_MODULE_ADDRESS, one   *)
(* for all channels, and releases from it what comes back.  A denom is the  *)
(* sequence of channels it came through, latest first, and the name it had  *)
(* at home; the code hashes that path.  The errors that make a handler      *)
(* return Err undo the whole call, which is then no step.                   *)
(***************************************************************************)
EXTENDS IbcPackets, Functions

CONSTANTS Natives,    \* names of denoms
          Users,      \* addresses, valid on both chains
          Contract,   \* the user that ibc hooks call
          Lock,       \* IBC_LOCK_MODULE_ADDRESS
          Memos,      \* kinds of memo of a transfer
          Amounts,    \* amounts of a transfer
          Owner,      \* the user who holds all tokens at first
          Supply,     \* of each chain and name
          MaxHops     \* bound: channels in the path of a denom

ASSUME UsersAssumption == Contract \in Users /\ Owner \in Users /\ Lock \notin Users
ASSUME MemosAssumption == Memos \subseteq {"none", "hook", "callback"}
ASSUME SupplyAssumption ==
    Supply \in [Chains -> [Natives -> Nat]] /\ Amounts \subseteq Nat \ {0} /\ MaxHops \in Nat
ASSUME FiniteAssumption == IsFiniteSet(Channels) /\ IsFiniteSet(Natives) /\ IsFiniteSet(Users)
\* The acknowledgements of ibc_packet_receive.
ASSUME AcksAssumption == {"StdAck", "IbcHookAcknowledgement"} \subseteq Responses \ {None}

VARIABLES BALANCES,    \* of each chain, account and denom
          IBC_DENOMS,  \* the denoms each chain has wrapped
          ICS20        \* the Ics20Packet in each packet; history: what was locked
bankVars == <<BALANCES, IBC_DENOMS, ICS20>>
transferVars == <<vars, bankVars>>

Accounts == Users \cup {Lock}
Paths == UNION {[1 .. n -> Channels] : n \in 0 .. MaxHops}
Denom(path, name) == path \o <<name>>
Denoms == {Denom(path, name) : path \in Paths, name \in Natives}

Ics20Packets == [amount : Amounts, denom : Denoms, sender : Users, receiver : Users,
                 memo : Memos, locked : Denoms]
ASSUME NoTransferAssumption == None \notin Ics20Packets

-----------------------------------------------------------------------------
(* The bank of one chain: b maps accounts and denoms to amounts *)

Mint(b, to, denom, amount) == [b EXCEPT ![<<to, denom>>] = @ + amount]
Burn(b, from, denom, amount) == [b EXCEPT ![<<from, denom>>] = @ - amount]
SendCoins(b, from, to, denom, amount) ==
    Mint(Burn(b, from, denom, amount), to, denom, amount)

\* The subtraction of burn.
CanPay(c, from, denom, amount) == BALANCES[c][<<from, denom>>] >= amount

\* Mutant of Wrap: what arrives keeps the denom of the packet.
WrapNothing(channel, denom) == denom

Wrap(channel, denom) == <<channel>> \o denom

\* optional_unwrap_ibc_denom
Unwrap(c, denom, channel) ==
    IF denom \in IBC_DENOMS[c] /\ Head(denom) = channel THEN Tail(denom) ELSE denom

\* The coins of this denom in the lock account: `None` if there are none.
Locked(c, denom) == BALANCES[c][<<Lock, denom>>]

\* assert!(locked_amount.amount >= packet.amount)
LockCovers(c, t) == Locked(c, t.denom) >= t.amount

-----------------------------------------------------------------------------
TransferInit ==
    /\ Init
    /\ BALANCES = [c \in Chains |-> [x \in Accounts \X Denoms |->
                     IF x[1] = Owner /\ Len(x[2]) = 1 THEN Supply[c][x[2][1]] ELSE 0]]
    /\ IBC_DENOMS = [c \in Chains |-> {}]
    /\ ICS20 = [p \in Packets |-> None]

\* transfer: the coins are locked as they are, the packet names them as the
\* destination does if they came from it.
Transfer(p, sender, receiver, denom, amount, memo, timeout) ==
    /\ CanPay(p.src, sender, denom, amount)
    /\ BALANCES' = [BALANCES EXCEPT ![p.src] = SendCoins(@, sender, Lock, denom, amount)]
    /\ ICS20' = [ICS20 EXCEPT ![p] =
                   [amount |-> amount, denom |-> Unwrap(p.src, denom, p.channel),
                    sender |-> sender, receiver |-> receiver, memo |-> memo,
                    locked |-> denom]]
    /\ SendPacket(p, timeout)
    /\ UNCHANGED IBC_DENOMS

\* Who has the coins in the end: with a hook, the contract it calls with them.
Recipient(t) == IF t.memo = "hook" THEN Contract ELSE t.receiver

AckOf(t) == IF t.memo = "hook" THEN "IbcHookAcknowledgement" ELSE "StdAck"

\* Mutant of Returns: whatever is not wrapped is paid from the lock account.
ReturnsUnwrapped(c, t) == Len(t.denom) = 1

\* "If the denom is exactly a denom that was sent through this channel"
Returns(c, t) == Locked(c, t.denom) > 0

\* receive_packet and ibc_packet_receive, in time.
Receive(p) ==
    LET t == ICS20[p]
        c == Dest(p)
        voucher == Wrap(p.channel, t.denom)
    IN  /\ t # None
        /\ ReceivePacket(p, AckOf(t))
        /\ \/ /\ Returns(c, t)
              /\ LockCovers(c, t)
              /\ BALANCES' = [BALANCES EXCEPT ![c] =
                                SendCoins(@, Lock, Recipient(t), t.denom, t.amount)]
              /\ UNCHANGED IBC_DENOMS
           \/ /\ ~Returns(c, t)
              /\ voucher \in Denoms
              /\ BALANCES' = [BALANCES EXCEPT ![c] =
                                Mint(@, Recipient(t), voucher, t.amount)]
              /\ IBC_DENOMS' = [IBC_DENOMS EXCEPT ![c] = @ \cup {voucher}]
        /\ UNCHANGED ICS20

ReceiveLate(p) ==
    /\ ReceiveLatePacket(p)
    /\ UNCHANGED bankVars

\* A callback memo makes ibc_packet_acknowledge parse an IbcHooksAck, and a
\* StdAck is none.
Parses(t, ack) == t.memo = "callback" => ack = "IbcHookAcknowledgement"

Acknowledge(p) ==
    /\ ICS20[p] # None
    /\ Parses(ICS20[p], RECEIVE_ACK[p])
    /\ AcknowledgePacket(p)
    /\ UNCHANGED bankVars

\* ibc_packet_timeout; without the coins in the lock account it fails.
Refund(p) ==
    LET t == ICS20[p]
    IN  /\ LockCovers(p.src, t)
        /\ BALANCES' = [BALANCES EXCEPT ![p.src] =
                          SendCoins(@, Lock, t.sender, t.denom, t.amount)]

Timeout(p) ==
    /\ TimeoutPacket(p)
    /\ Refund(p)
    /\ UNCHANGED <<IBC_DENOMS, ICS20>>

TransferNextBlock(c) ==
    /\ NextBlock(c)
    /\ UNCHANGED bankVars

\* Closing a channel is left out: no handler reads open, and the bank does nothing
\* in ibc_channel_close.
TransferNext ==
    \/ \E p \in Packets :
         \/ \E sender, receiver \in Users, denom \in Denoms, amount \in Amounts,
               memo \in Memos, timeout \in Timeouts :
              Transfer(p, sender, receiver, denom, amount, memo, timeout)
         \/ Receive(p) \/ ReceiveLate(p) \/ Acknowledge(p) \/ Timeout(p)
    \/ \E c \in Chains : TransferNextBlock(c)

TransferSpec == TransferInit /\ [][TransferNext]_transferVars

-----------------------------------------------------------------------------
\* The balances stay amounts, no coin is spent that is not there; IBC_DENOMS holds
\* wrapped denoms, and each packet of the channel is a transfer of the bank.
TransferTypeOK ==
    /\ TypeOK
    /\ BALANCES \in [Chains -> [Accounts \X Denoms -> Nat]]
    /\ IBC_DENOMS \in [Chains -> SUBSET {d \in Denoms : Len(d) > 1}]
    /\ \A p \in Packets : ICS20[p] = None <=> SEND_PACKET[p] = None

\* A transfer that neither reached its recipient nor was refunded.
InFlight(p) ==
    /\ ICS20[p] # None
    /\ RECEIVE_PACKET[p] # "in time"
    /\ p \notin TIMEOUT_PACKET

AmountsOf(ps) == SumFunction([p \in ps |-> ICS20[p].amount])
Name(denom) == denom[Len(denom)]

\* Nobody gains or loses: what users hold of a name, at home or as vouchers of
\* whatever path, and what is in flight, is what there was at first.  transfer,
\* ibc_packet_receive and ibc_packet_timeout together.
WealthIsConserved ==
    \A name \in Natives :
      LET held == SumFunction([x \in Chains \X (Users \X {d \in Denoms : Name(d) = name}) |->
                                 BALANCES[x[1]][x[2]]])
          flying == AmountsOf({p \in Packets : InFlight(p) /\ Name(ICS20[p].denom) = name})
      IN  held + flying = SumFunction([c \in Chains |-> Supply[c][name]])

\* The lock account can pay every claim on it: vouchers that users of the other
\* chain hold, those on the way back, and transfers that may be refunded.
VouchersAreBacked ==
    \A c \in Chains, d \in Denoms :
      LET vouchers == SumFunction(
                        [x \in {x \in Users \X Channels : Wrap(x[2], d) \in Denoms} |->
                            BALANCES[Other(c)][<<x[1], Wrap(x[2], d)>>]])
          returning == {p \in Packets : InFlight(p) /\ p.src # c
                                            /\ ICS20[p].locked = Wrap(p.channel, d)}
          refundable == {p \in Packets : InFlight(p) /\ p.src = c
                                             /\ ICS20[p].locked = d}
      IN  Locked(c, d) >= vouchers + AmountsOf(returning) + AmountsOf(refundable)

\* The assertion of ibc_packet_receive: whatever arrives in time, the lock account
\* holds none of its denom or enough.
LockNeverTooLow ==
    \A p \in Packets :
      (InFlight(p) /\ RECEIVE_PACKET[p] = "no")
        => ~Returns(Dest(p), ICS20[p]) \/ LockCovers(Dest(p), ICS20[p])

\* ibc_packet_timeout finds in the lock account the coins of every transfer that left
\* under the name it was locked under, and never those of one that was sent back.
ReturnsAreNotRefunded ==
    \A p \in Packets :
      InFlight(p) => (LockCovers(p.src, ICS20[p]) <=> ICS20[p].denom = ICS20[p].locked)

\* ibc_packet_timeout gives the funds back to the sender: for each transfer that
\* timed out, the lock account holds the coins it looks for, and they are those
\* that the sender gave.
TimeoutsAreRefunded ==
    \A p \in Packets :
      (InFlight(p) /\ RECEIVE_PACKET[p] = "timed out")
        => ICS20[p].denom = ICS20[p].locked /\ LockCovers(p.src, ICS20[p])
=============================================================================
