--------------------------- MODULE IbcPackets_proofs ---------------------------
(***************************************************************************)
(* Proofs about IbcPackets, for all sets of channels, timeouts and          *)
(* acknowledgements and any number of packets and blocks: the types of its  *)
(* state, and that it keeps the promises of PacketLife.  Then, on top of    *)
(* these, about IbcTransfer: that transfers conserve what there is of each  *)
(* name, for all users, names and supplies and denoms of any path; and that *)
(* the lock account backs the vouchers of what is native to one chain.      *)
(***************************************************************************)
EXTENDS IbcTransfer, Sums_proofs, SequenceTheorems

-----------------------------------------------------------------------------
(* The phases of a packet *)

\* Nothing knows of the packet.
Unsent(p) ==
    /\ SEND_PACKET[p] = None
    /\ RECEIVE_PACKET[p] = "no" /\ RECEIVE_ACK[p] = None
    /\ SEND_ACK[p] = None /\ p \notin TIMEOUT_PACKET
    /\ told[p] = <<>>

InTransit(p) ==
    /\ SEND_PACKET[p] # None
    /\ RECEIVE_PACKET[p] = "no" /\ RECEIVE_ACK[p] = None
    /\ SEND_ACK[p] = None /\ p \notin TIMEOUT_PACKET
    /\ told[p] = <<Life!Sent>>

Delivered(p) ==
    /\ SEND_PACKET[p] # None
    /\ RECEIVE_PACKET[p] = "in time"
    /\ SEND_ACK[p] = None /\ p \notin TIMEOUT_PACKET
    /\ told[p] = <<Life!Sent, Life!Received(RECEIVE_ACK[p])>>

Answered(p) ==
    /\ SEND_PACKET[p] # None
    /\ RECEIVE_PACKET[p] = "in time"
    /\ SEND_ACK[p] = RECEIVE_ACK[p] /\ SEND_ACK[p] # None /\ p \notin TIMEOUT_PACKET
    /\ told[p] = <<Life!Sent, Life!Received(RECEIVE_ACK[p]), Life!Acknowledged(SEND_ACK[p])>>

\* Received too late, and the sender does not know it.
Expired(p) ==
    /\ SEND_PACKET[p] # None
    /\ RECEIVE_PACKET[p] = "timed out" /\ RECEIVE_ACK[p] = None
    /\ p \in Late
    /\ SEND_ACK[p] = None /\ p \notin TIMEOUT_PACKET
    /\ told[p] = <<Life!Sent>>

Returned(p) ==
    /\ SEND_PACKET[p] # None
    /\ RECEIVE_PACKET[p] = "timed out" /\ RECEIVE_ACK[p] = None
    /\ SEND_ACK[p] = None /\ p \in TIMEOUT_PACKET
    /\ told[p] = <<Life!Sent, Life!TimedOut>>

Phase(p) ==
    \/ Unsent(p) \/ InTransit(p) \/ Delivered(p)
    \/ Answered(p) \/ Expired(p) \/ Returned(p)

\* Every packet is in one of its phases, in which the maps of both chains and the
\* calls that the applications have seen agree.
Phases == \A p \in Packets : Phase(p)

IInv == TypeOK /\ Phases

-----------------------------------------------------------------------------
(* Facts about the two chains and about time *)

LEMMA OtherChain ==
    ASSUME NEW c \in Chains
    PROVE  Other(c) \in Chains /\ Other(c) # c
BY ChainsAssumption DEF Other

LEMMA EndsOfPackets ==
    ASSUME NEW p \in Packets
    PROVE  SourceEnd(p) \in Ends /\ DestEnd(p) \in Ends /\ Dest(p) \in Chains
BY OtherChain DEF Packets, SourceEnd, DestEnd, Dest, Ends

\* The key of the maps is unique.
LEMMA PacketIsItsKey ==
    ASSUME NEW p \in Packets, NEW q \in Packets,
           SourceEnd(p) = SourceEnd(q), p.sequence = q.sequence
    PROVE  p = q
BY DEF Packets, SourceEnd

LEMMA SequencesAreNumbers ==
    ASSUME NEW p \in Packets
    PROVE  p.sequence \in 1 .. MaxPackets /\ p.sequence \in Nat
BY PacketBoundsAssumption DEF Packets

LEMMA TimeoutIsNotNone ==
    ASSUME NEW t \in Timeouts
    PROVE  /\ t # None
           /\ t.height \in Nat \cup {None} /\ t.time \in Nat \cup {None}
BY TimeoutsAssumption

\* What receive_packet tests is whether the destination is past the timeout.
LEMMA LateIsTimedOut ==
    ASSUME TypeOK, NEW p \in Packets, SEND_PACKET[p] # None
    PROVE  p \in Late <=> HasTimedOut(SEND_PACKET[p], block[Dest(p)])
<1>1. SEND_PACKET[p] \in Timeouts
  BY DEF TypeOK
<1>2. /\ SEND_PACKET[p].height \in Nat \cup {None}
      /\ SEND_PACKET[p].time \in Nat \cup {None}
  BY <1>1, TimeoutIsNotNone
<1>3. /\ block[Dest(p)].height \in Nat
      /\ block[Dest(p)].time \in Nat
  BY EndsOfPackets DEF TypeOK
<1> QED
  BY <1>2, <1>3, TimeoutsAssumption DEF Late, HasTimedOut, Before

LEMMA LateStays ==
    ASSUME NEW p \in Packets, SEND_PACKET'[p] = SEND_PACKET[p], UNCHANGED block
    PROVE  p \in Late' <=> p \in Late
BY DEF Late

\* A step that does not touch a packet leaves it in its phase.
LEMMA PhaseStays ==
    ASSUME NEW p \in Packets, Phase(p),
           SEND_PACKET'[p] = SEND_PACKET[p], RECEIVE_PACKET'[p] = RECEIVE_PACKET[p],
           RECEIVE_ACK'[p] = RECEIVE_ACK[p], SEND_ACK'[p] = SEND_ACK[p],
           p \in TIMEOUT_PACKET' <=> p \in TIMEOUT_PACKET,
           told'[p] = told[p],
           p \in Late => p \in Late'
    PROVE  Phase(p)'
BY DEF Phase, Unsent, InTransit, Delivered, Answered, Expired, Returned

-----------------------------------------------------------------------------
(* The inductive invariant *)

LEMMA AppendToOne ==
    ASSUME NEW a, NEW b
    PROVE  Append(<<a>>, b) = <<a, b>>
<1> DEFINE longer == Append(<<a>>, b)
<1>1. <<a>> \in Seq({a, b}) /\ Len(<<a>>) = 1
  OBVIOUS
<1>2. longer \in Seq({a, b}) /\ Len(longer) = 2 /\ longer[1] = a /\ longer[2] = b
  BY <1>1, AppendProperties
<1>3. <<a, b>> \in Seq({a, b}) /\ Len(<<a, b>>) = 2
  OBVIOUS
<1> HIDE DEF longer
<1>4. longer = <<a, b>>
  BY <1>2, <1>3, SeqEqual
<1> QED
  BY <1>4 DEF longer

LEMMA AppendToTwo ==
    ASSUME NEW a, NEW b, NEW c
    PROVE  Append(<<a, b>>, c) = <<a, b, c>>
<1> DEFINE longer == Append(<<a, b>>, c)
<1>1. <<a, b>> \in Seq({a, b, c}) /\ Len(<<a, b>>) = 2
  OBVIOUS
<1>2. /\ longer \in Seq({a, b, c}) /\ Len(longer) = 3
      /\ longer[1] = a /\ longer[2] = b /\ longer[3] = c
  BY <1>1, AppendProperties
<1>3. <<a, b, c>> \in Seq({a, b, c}) /\ Len(<<a, b, c>>) = 3
  OBVIOUS
<1> HIDE DEF longer
<1>4. longer = <<a, b, c>>
  BY <1>2, <1>3, SeqEqual
<1> QED
  BY <1>4 DEF longer

Calls == [call : {"send", "receive", "acknowledge", "timeout"}, ack : Acks \cup {None}]

LEMMA InitIInv == Init => IInv
<1> SUFFICES ASSUME Init PROVE IInv
  OBVIOUS
<1>1. TypeOK
  <2>1. next_packet_id \in [Ends -> 1 .. MaxPackets + 1]
    BY PacketBoundsAssumption DEF Init
  <2>2. told \in [Packets -> Seq(Calls)]
    BY EmptySeq DEF Init
  <2>3. block \in [Chains -> [height : Nat, time : Nat]]
    BY DEF Init
  <2>4. \A p \in Packets : SEND_PACKET[p] # None <=> p.sequence < next_packet_id[SourceEnd(p)]
    BY EndsOfPackets, SequencesAreNumbers DEF Init
  <2> QED
    BY <2>1, <2>2, <2>3, <2>4 DEF Init, TypeOK, Calls
<1>2. Phases
  BY DEF Init, Phases, Phase, Unsent
<1> QED
  BY <1>1, <1>2 DEF IInv

\* What every call of an application adds to told.
LEMMA TellType ==
    ASSUME TypeOK, NEW p \in Packets, NEW what \in Calls, Tell(p, what)
    PROVE  /\ told' \in [Packets -> Seq(Calls)]
           /\ told'[p] = Append(told[p], what)
           /\ \A q \in Packets : q # p => told'[q] = told[q]
<1>1. told \in [Packets -> Seq(Calls)]
  BY DEF TypeOK, Calls
<1>2. Append(told[p], what) \in Seq(Calls)
  BY <1>1, AppendProperties
<1> QED
  BY <1>1, <1>2 DEF Tell

\* The calls of PacketLife.
LEMMA CallsOfLife ==
    /\ Life!Sent \in Calls /\ Life!TimedOut \in Calls
    /\ \A ack \in Acks \cup {None} : Life!Received(ack) \in Calls
                                    /\ Life!Acknowledged(ack) \in Calls
BY DEF Calls, Life!Sent, Life!TimedOut, Life!Received, Life!Acknowledged

LEMMA NextSequenceIsFree ==
    ASSUME TypeOK, NEW p \in Packets, NEW timeout, SendPacket(p, timeout)
    PROVE  SEND_PACKET[p] = None
<1>1. SEND_PACKET[p] # None <=> p.sequence < next_packet_id[SourceEnd(p)]
  BY DEF TypeOK
<1>2. p.sequence = next_packet_id[SourceEnd(p)]
  BY DEF SendPacket
<1> QED
  BY <1>1, <1>2, SequencesAreNumbers

LEMMA SendInv ==
    ASSUME IInv, NEW p \in Packets, NEW timeout \in Timeouts, SendPacket(p, timeout)
    PROVE  IInv'
<1> USE DEF IInv
<1>1. timeout # None
  BY TimeoutIsNotNone
<1>2. SEND_PACKET[p] = None
  BY NextSequenceIsFree
<1>3. Unsent(p)
  BY <1>2 DEF Phases, Phase, Unsent, InTransit, Delivered, Answered, Expired, Returned
<1>4. /\ told' \in [Packets -> Seq(Calls)]
      /\ told'[p] = <<Life!Sent>>
      /\ \A q \in Packets : q # p => told'[q] = told[q]
  <2>1. Tell(p, Life!Sent)
    BY DEF SendPacket
  <2>2. told[p] = <<>>
    BY <1>3 DEF Unsent
  <2>3. Append(<<>>, Life!Sent) = <<Life!Sent>>
    OBVIOUS
  <2> QED
    BY <2>1, <2>2, <2>3, TellType, CallsOfLife, Zenon
<1>5. TypeOK'
  <2>1. next_packet_id' \in [Ends -> 1 .. MaxPackets + 1]
    <3>1. /\ next_packet_id \in [Ends -> 1 .. MaxPackets + 1]
          /\ next_packet_id' = [next_packet_id EXCEPT ![SourceEnd(p)] = p.sequence + 1]
      BY DEF TypeOK, SendPacket
    <3>2. SourceEnd(p) \in Ends
      BY EndsOfPackets
    <3>3. p.sequence + 1 \in 1 .. MaxPackets + 1
      BY SequencesAreNumbers, PacketBoundsAssumption
    <3> QED
      BY <3>1, <3>2, <3>3
  <2>2. SEND_PACKET' \in [Packets -> Timeouts \cup {None}]
    BY DEF TypeOK, SendPacket
  <2>3. ASSUME NEW q \in Packets
        PROVE  SEND_PACKET'[q] # None <=> q.sequence < next_packet_id'[SourceEnd(q)]
    <3>0. /\ next_packet_id \in [Ends -> 1 .. MaxPackets + 1]
          /\ next_packet_id' = [next_packet_id EXCEPT ![SourceEnd(p)] = p.sequence + 1]
          /\ SEND_PACKET[q] # None <=> q.sequence < next_packet_id[SourceEnd(q)]
          /\ SEND_PACKET \in [Packets -> Timeouts \cup {None}]
      BY DEF TypeOK, SendPacket
    <3>1. CASE SourceEnd(q) # SourceEnd(p)
      BY <3>0, <3>1, EndsOfPackets DEF SendPacket
    <3>2. CASE SourceEnd(q) = SourceEnd(p) /\ q # p
      <4>1. q.sequence # p.sequence
        BY <3>2, PacketIsItsKey
      <4>2. next_packet_id'[SourceEnd(q)] = p.sequence + 1
        BY <3>0, <3>2, EndsOfPackets DEF SendPacket
      <4>3. SEND_PACKET'[q] = SEND_PACKET[q] /\ next_packet_id[SourceEnd(q)] = p.sequence
        BY <3>0, <3>2 DEF SendPacket
      <4> QED
        BY <3>0, <4>1, <4>2, <4>3, SequencesAreNumbers
    <3>3. CASE q = p
      <4>1. next_packet_id'[SourceEnd(p)] = p.sequence + 1 /\ SEND_PACKET'[p] = timeout
        BY <3>0, EndsOfPackets DEF SendPacket
      <4> QED
        BY <3>3, <4>1, <1>1, SequencesAreNumbers
    <3> QED
      BY <3>1, <3>2, <3>3
  <2> QED
    BY <1>4, <2>1, <2>2, <2>3 DEF TypeOK, SendPacket, Calls
<1>6. ASSUME NEW q \in Packets PROVE Phase(q)'
  <2>0. SEND_PACKET \in [Packets -> Timeouts \cup {None}]
    BY DEF TypeOK
  <2>1. CASE q = p
    <3>1. InTransit(p)'
      BY <1>1, <1>3, <1>4, <2>0 DEF InTransit, Unsent, SendPacket
    <3> QED
      BY <2>1, <3>1 DEF Phase
  <2>2. CASE q # p
    <3>1. SEND_PACKET'[q] = SEND_PACKET[q] /\ UNCHANGED block
      BY <2>0, <2>2 DEF SendPacket
    <3>2. Phase(q)
      BY DEF Phases
    <3> QED
      BY <1>4, <2>2, <3>1, <3>2, LateStays, PhaseStays DEF SendPacket
  <2> QED
    BY <2>1, <2>2
<1> QED
  BY <1>5, <1>6 DEF Phases

LEMMA ReceiveInv ==
    ASSUME IInv, NEW p \in Packets, NEW ack \in Responses, ReceivePacket(p, ack)
    PROVE  IInv'
<1> USE DEF IInv
<1>1. InTransit(p)
  BY DEF ReceivePacket, NotReceived, Phases, Phase, Unsent, InTransit, Delivered,
         Answered, Expired, Returned
<1>2. ack \in Acks \cup {None}
  BY DEF Acks
<1>3. /\ told' \in [Packets -> Seq(Calls)]
      /\ told'[p] = <<Life!Sent, Life!Received(ack)>>
      /\ \A q \in Packets : q # p => told'[q] = told[q]
  <2>1. Tell(p, Life!Received(ack))
    BY DEF ReceivePacket
  <2>2. told[p] = <<Life!Sent>>
    BY <1>1 DEF InTransit
  <2>3. Append(<<Life!Sent>>, Life!Received(ack)) = <<Life!Sent, Life!Received(ack)>>
    BY AppendToOne
  <2>4. Life!Received(ack) \in Calls
    BY <1>2, CallsOfLife
  <2> QED
    BY <2>1, <2>2, <2>3, <2>4, TellType, Zenon
<1>4. TypeOK'
  BY <1>2, <1>3 DEF TypeOK, ReceivePacket, Calls
<1>5. ASSUME NEW q \in Packets PROVE Phase(q)'
  <2>0. /\ RECEIVE_PACKET \in [Packets -> {"no", "in time", "timed out"}]
        /\ RECEIVE_ACK \in [Packets -> Acks \cup {None}]
    BY DEF TypeOK
  <2>1. CASE q = p
    <3>1. Delivered(p)'
      BY <1>1, <1>3, <2>0 DEF InTransit, Delivered, ReceivePacket
    <3> QED
      BY <2>1, <3>1 DEF Phase
  <2>2. CASE q # p
    <3>1. /\ RECEIVE_PACKET'[q] = RECEIVE_PACKET[q] /\ RECEIVE_ACK'[q] = RECEIVE_ACK[q]
          /\ SEND_PACKET'[q] = SEND_PACKET[q] /\ UNCHANGED block
      BY <2>0, <2>2 DEF ReceivePacket
    <3>2. Phase(q)
      BY DEF Phases
    <3> QED
      BY <1>3, <2>2, <3>1, <3>2, LateStays, PhaseStays DEF ReceivePacket
  <2> QED
    BY <2>1, <2>2
<1> QED
  BY <1>4, <1>5 DEF Phases

LEMMA ReceiveLateInv ==
    ASSUME IInv, NEW p \in Packets, ReceiveLatePacket(p)
    PROVE  IInv'
<1> USE DEF IInv
<1>1. InTransit(p)
  BY DEF ReceiveLatePacket, NotReceived, Phases, Phase, Unsent, InTransit, Delivered,
         Answered, Expired, Returned
<1>2. TypeOK'
  BY DEF TypeOK, ReceiveLatePacket
<1>3. ASSUME NEW q \in Packets PROVE Phase(q)'
  <2>0. RECEIVE_PACKET \in [Packets -> {"no", "in time", "timed out"}]
    BY DEF TypeOK
  <2>1. CASE q = p
    <3>1. p \in Late'
      BY LateIsTimedOut, LateStays DEF ReceiveLatePacket
    <3>2. Expired(p)'
      BY <1>1, <2>0, <3>1 DEF InTransit, Expired, ReceiveLatePacket
    <3> QED
      BY <2>1, <3>2 DEF Phase
  <2>2. CASE q # p
    <3>1. /\ RECEIVE_PACKET'[q] = RECEIVE_PACKET[q]
          /\ SEND_PACKET'[q] = SEND_PACKET[q] /\ UNCHANGED block
      BY <2>0, <2>2 DEF ReceiveLatePacket
    <3>2. Phase(q)
      BY DEF Phases
    <3> QED
      BY <3>1, <3>2, LateStays, PhaseStays DEF ReceiveLatePacket
  <2> QED
    BY <2>1, <2>2
<1> QED
  BY <1>2, <1>3 DEF Phases

LEMMA AcknowledgeInv ==
    ASSUME IInv, NEW p \in Packets, AcknowledgePacket(p)
    PROVE  IInv'
<1> USE DEF IInv
<1>1. Delivered(p) /\ RECEIVE_ACK[p] \in Acks \cup {None} /\ RECEIVE_ACK[p] # None
  BY DEF AcknowledgePacket, Acknowledgeable, TypeOK, Phases, Phase, Unsent, InTransit,
         Delivered, Answered, Expired, Returned
<1> DEFINE ack == RECEIVE_ACK[p]
<1>2. /\ told' \in [Packets -> Seq(Calls)]
      /\ told'[p] = <<Life!Sent, Life!Received(ack), Life!Acknowledged(ack)>>
      /\ \A q \in Packets : q # p => told'[q] = told[q]
  <2>1. Tell(p, Life!Acknowledged(ack))
    BY DEF AcknowledgePacket
  <2>2. Life!Acknowledged(ack) \in Calls
    BY <1>1, CallsOfLife
  <2>3. told[p] = <<Life!Sent, Life!Received(ack)>>
    BY <1>1 DEF Delivered
  <2>4. Append(<<Life!Sent, Life!Received(ack)>>, Life!Acknowledged(ack))
          = <<Life!Sent, Life!Received(ack), Life!Acknowledged(ack)>>
    BY AppendToTwo
  <2> QED
    BY <2>1, <2>2, <2>3, <2>4, TellType, Zenon
<1>3. TypeOK'
  BY <1>1, <1>2 DEF TypeOK, AcknowledgePacket, Calls
<1>4. ASSUME NEW q \in Packets PROVE Phase(q)'
  <2>0. SEND_ACK \in [Packets -> Acks \cup {None}]
    BY DEF TypeOK
  <2>1. CASE q = p
    <3>1. Answered(p)'
      BY <1>1, <1>2, <2>0 DEF Delivered, Answered, AcknowledgePacket
    <3> QED
      BY <2>1, <3>1 DEF Phase
  <2>2. CASE q # p
    <3>1. /\ SEND_ACK'[q] = SEND_ACK[q]
          /\ SEND_PACKET'[q] = SEND_PACKET[q] /\ UNCHANGED block
      BY <2>0, <2>2 DEF AcknowledgePacket
    <3>2. Phase(q)
      BY DEF Phases
    <3> QED
      BY <1>2, <2>2, <3>1, <3>2, LateStays, PhaseStays DEF AcknowledgePacket
  <2> QED
    BY <2>1, <2>2
<1> QED
  BY <1>3, <1>4 DEF Phases

LEMMA TimeoutInv ==
    ASSUME IInv, NEW p \in Packets, TimeoutPacket(p)
    PROVE  IInv'
<1> USE DEF IInv
<1>1. Expired(p)
  BY DEF TimeoutPacket, ReportedLate, CanTimeout, Phases, Phase, Unsent, InTransit,
         Delivered, Answered, Expired, Returned
<1>2. /\ told' \in [Packets -> Seq(Calls)]
      /\ told'[p] = <<Life!Sent, Life!TimedOut>>
      /\ \A q \in Packets : q # p => told'[q] = told[q]
  <2>1. Tell(p, Life!TimedOut)
    BY DEF TimeoutPacket
  <2>2. told[p] = <<Life!Sent>>
    BY <1>1 DEF Expired
  <2>3. Append(<<Life!Sent>>, Life!TimedOut) = <<Life!Sent, Life!TimedOut>>
    BY AppendToOne
  <2> QED
    BY <2>1, <2>2, <2>3, TellType, CallsOfLife, Zenon
<1>3. TypeOK'
  BY <1>2 DEF TypeOK, TimeoutPacket, Calls
<1>4. ASSUME NEW q \in Packets PROVE Phase(q)'
  <2>1. CASE q = p
    <3>1. Returned(p)'
      BY <1>1, <1>2 DEF Expired, Returned, TimeoutPacket
    <3> QED
      BY <2>1, <3>1 DEF Phase
  <2>2. CASE q # p
    <3>1. /\ SEND_PACKET'[q] = SEND_PACKET[q] /\ UNCHANGED block
          /\ q \in TIMEOUT_PACKET' <=> q \in TIMEOUT_PACKET
      BY <2>2 DEF TimeoutPacket
    <3>2. Phase(q)
      BY DEF Phases
    <3> QED
      BY <1>2, <2>2, <3>1, <3>2, LateStays, PhaseStays DEF TimeoutPacket
  <2> QED
    BY <2>1, <2>2
<1> QED
  BY <1>3, <1>4 DEF Phases

\* A packet that is late stays late: blocks do not go back.
LEMMA LateForGood ==
    ASSUME TypeOK, NEW c \in Chains, NextBlock(c), NEW p \in Late
    PROVE  p \in Late'
<1>1. PICK height \in 0 .. MaxBlock[c], time \in 0 .. MaxBlock[c] :
        /\ height >= block[c].height /\ time >= block[c].time
        /\ block' = [block EXCEPT ![c] = [height |-> height, time |-> time]]
  BY DEF NextBlock
<1>2. p \in Packets /\ SEND_PACKET[p] # None /\ SEND_PACKET' = SEND_PACKET
  BY DEF Late, NextBlock, ibcVars
<1>3. SEND_PACKET[p].height \in Nat \cup {None} /\ SEND_PACKET[p].time \in Nat \cup {None}
  BY <1>2, TimeoutIsNotNone DEF TypeOK
<1>4. Dest(p) \in Chains /\ block \in [Chains -> [height : Nat, time : Nat]]
  BY <1>2, EndsOfPackets DEF TypeOK
<1>5. MaxBlock[c] \in Nat
  BY PacketBoundsAssumption
<1>6. /\ block'[Dest(p)].height >= block[Dest(p)].height
      /\ block'[Dest(p)].time >= block[Dest(p)].time
      /\ block[Dest(p)].height \in Nat /\ block[Dest(p)].time \in Nat
      /\ block'[Dest(p)].height \in Nat /\ block'[Dest(p)].time \in Nat
  BY <1>1, <1>4, <1>5
<1>7. \/ ~Before(block'[Dest(p)].height, SEND_PACKET[p].height)
      \/ ~Before(block'[Dest(p)].time, SEND_PACKET[p].time)
  <2>1. \/ ~Before(block[Dest(p)].height, SEND_PACKET[p].height)
        \/ ~Before(block[Dest(p)].time, SEND_PACKET[p].time)
    BY DEF Late
  <2> QED
    BY <2>1, <1>3, <1>6 DEF Before
<1> QED
  BY <1>2, <1>7 DEF Late

LEMMA NextBlockInv ==
    ASSUME IInv, NEW c \in Chains, NextBlock(c)
    PROVE  IInv'
<1> USE DEF IInv
<1>1. TypeOK'
  <2>1. block' \in [Chains -> [height : Nat, time : Nat]]
    <3>1. PICK height \in 0 .. MaxBlock[c], time \in 0 .. MaxBlock[c] :
            block' = [block EXCEPT ![c] = [height |-> height, time |-> time]]
      BY DEF NextBlock
    <3>2. height \in Nat /\ time \in Nat
      BY PacketBoundsAssumption
    <3> QED
      BY <3>1, <3>2 DEF TypeOK
  <2> QED
    BY <2>1 DEF TypeOK, NextBlock, ibcVars
<1>2. ASSUME NEW q \in Packets PROVE Phase(q)'
  <2>1. Phase(q)
    BY DEF Phases
  <2>2. q \in Late => q \in Late'
    BY LateForGood
  <2> QED
    BY <2>1, <2>2, PhaseStays DEF NextBlock, ibcVars
<1> QED
  BY <1>1, <1>2 DEF Phases

LEMMA CloseChannelInv ==
    ASSUME IInv, NEW e, CloseChannel(e)
    PROVE  IInv'
<1> USE DEF IInv
<1>1. TypeOK'
  BY DEF TypeOK, CloseChannel
<1>2. ASSUME NEW q \in Packets PROVE Phase(q)'
  <2>1. Phase(q)
    BY DEF Phases
  <2> QED
    BY <2>1, LateStays, PhaseStays DEF CloseChannel
<1> QED
  BY <1>1, <1>2 DEF Phases

LEMMA NextIInv == IInv /\ [Next]_vars => IInv'
<1> SUFFICES ASSUME IInv, [Next]_vars PROVE IInv'
  OBVIOUS
<1>1. ASSUME NEW p \in Packets, NEW timeout \in Timeouts, SendPacket(p, timeout)
      PROVE  IInv'
  BY <1>1, SendInv
<1>2. ASSUME NEW p \in Packets, NEW ack \in Responses, ReceivePacket(p, ack)
      PROVE  IInv'
  BY <1>2, ReceiveInv
<1>3. ASSUME NEW p \in Packets,
             ReceiveLatePacket(p) \/ AcknowledgePacket(p) \/ TimeoutPacket(p)
      PROVE  IInv'
  BY <1>3, ReceiveLateInv, AcknowledgeInv, TimeoutInv
<1>4. ASSUME NEW p \in Packets, CloseConfirm(p) PROVE IInv'
  BY <1>4, CloseChannelInv DEF CloseConfirm
<1>5. ASSUME NEW e \in Ends, CloseChannel(e) PROVE IInv'
  BY <1>5, CloseChannelInv
<1>6. ASSUME NEW c \in Chains, NextBlock(c) PROVE IInv'
  BY <1>6, NextBlockInv
<1>7. CASE UNCHANGED vars
  <2>1. UNCHANGED Late
    BY <1>7 DEF vars, Late
  <2>2. TypeOK'
    BY <1>7 DEF IInv, TypeOK, vars
  <2>3. Phases'
    BY <1>7, <2>1, PhaseStays DEF IInv, Phases, vars
  <2> QED
    BY <2>2, <2>3 DEF IInv
<1> QED
  BY <1>1, <1>2, <1>3, <1>4, <1>5, <1>6, <1>7 DEF Next

-----------------------------------------------------------------------------
(* Type correctness *)

\* The state of the IBC modules keeps its types, and the sequences of an end are
\* given out one after the other: _send_packet and CHANNEL_INFO.
THEOREM TypeCorrect == Spec => []TypeOK
<1>1. IInv => TypeOK
  BY DEF IInv
<1> QED
  BY <1>1, InitIInv, NextIInv, PTL DEF Spec

-----------------------------------------------------------------------------
(* IbcPackets implements PacketLife *)

LEMMA InitStep == Init => Life!Init
<1> SUFFICES ASSUME Init PROVE Life!Init
  OBVIOUS
<1>1. told = [p \in Packets |-> <<>>]
  BY DEF Init
<1>2. Late = {}
  BY DEF Init, Late
<1> QED
  BY <1>1, <1>2 DEF Life!Init

\* Where a step leaves timeouts and blocks alone, no packet becomes late.
LEMMA LateUnchanged ==
    ASSUME UNCHANGED <<SEND_PACKET, block>>
    PROVE  Late' = Late
BY DEF Late

LEMMA SendStep ==
    ASSUME IInv, NEW p \in Packets, NEW timeout \in Timeouts, SendPacket(p, timeout)
    PROVE  Life!Send(p)
<1>0. SEND_PACKET \in [Packets -> Timeouts \cup {None}]
  BY DEF IInv, TypeOK
<1>1. SEND_PACKET[p] = None
  BY NextSequenceIsFree DEF IInv
<1>2. told[p] = <<>>
  BY <1>1 DEF IInv, Phases, Phase, Unsent, InTransit, Delivered, Answered, Expired, Returned
<1>3. told' = [told EXCEPT ![p] = <<Life!Sent>>]
  <2>1. told' = [told EXCEPT ![p] = Append(told[p], Life!Sent)]
    BY DEF SendPacket, Tell
  <2>2. Append(<<>>, Life!Sent) = <<Life!Sent>>
    OBVIOUS
  <2> QED
    BY <1>2, <2>1, <2>2, Zenon
<1>4. Late' \in {Late, Late \cup {p}}
  <2>1. \A q \in Packets : q # p => (q \in Late' <=> q \in Late)
    <3> TAKE q \in Packets
    <3> HAVE q # p
    <3>1. SEND_PACKET'[q] = SEND_PACKET[q] /\ UNCHANGED block
      BY <1>0 DEF SendPacket
    <3> QED
      BY <3>1, LateStays
  <2>2. Late \subseteq Packets /\ Late' \subseteq Packets /\ p \notin Late
    BY <1>1 DEF Late
  <2> QED
    BY <2>1, <2>2
<1> QED
  BY <1>2, <1>3, <1>4 DEF Life!Send

LEMMA ReceiveStep ==
    ASSUME IInv, NEW p \in Packets, NEW ack \in Responses, ReceivePacket(p, ack)
    PROVE  Life!Receive(p, ack)
<1>1. told[p] = <<Life!Sent>>
  BY DEF ReceivePacket, NotReceived, IInv, Phases, Phase, Unsent, InTransit, Delivered,
         Answered, Expired, Returned
<1>2. told' = [told EXCEPT ![p] = <<Life!Sent, Life!Received(ack)>>]
  <2>1. told' = [told EXCEPT ![p] = Append(told[p], Life!Received(ack))]
    BY DEF ReceivePacket, Tell
  <2>2. Append(<<Life!Sent>>, Life!Received(ack)) = <<Life!Sent, Life!Received(ack)>>
    BY AppendToOne
  <2> QED
    BY <1>1, <2>1, <2>2, Zenon
<1>3. p \notin Late
  BY LateIsTimedOut DEF ReceivePacket, IInv
<1>4. Late' = Late
  BY LateUnchanged DEF ReceivePacket
<1> QED
  BY <1>1, <1>2, <1>3, <1>4 DEF Life!Receive

LEMMA AcknowledgeStep ==
    ASSUME IInv, NEW p \in Packets, AcknowledgePacket(p)
    PROVE  /\ Life!Acknowledge(p, RECEIVE_ACK[p])
           /\ RECEIVE_ACK[p] \in Acks
<1> DEFINE ack == RECEIVE_ACK[p]
<1>0. ack \in Acks
  BY DEF AcknowledgePacket, IInv, TypeOK
<1>1. told[p] = <<Life!Sent, Life!Received(ack)>>
  BY DEF AcknowledgePacket, Acknowledgeable, IInv, Phases, Phase, Unsent, InTransit,
         Delivered, Answered, Expired, Returned
<1>2. told' = [told EXCEPT ![p] =
                 <<Life!Sent, Life!Received(ack), Life!Acknowledged(ack)>>]
  <2>1. told' = [told EXCEPT ![p] = Append(told[p], Life!Acknowledged(ack))]
    BY DEF AcknowledgePacket, Tell
  <2>2. Append(<<Life!Sent, Life!Received(ack)>>, Life!Acknowledged(ack))
          = <<Life!Sent, Life!Received(ack), Life!Acknowledged(ack)>>
    BY AppendToTwo
  <2> QED
    BY <1>1, <2>1, <2>2, Zenon
<1>3. Late' = Late
  BY LateUnchanged DEF AcknowledgePacket
<1> QED
  BY <1>0, <1>1, <1>2, <1>3 DEF Life!Acknowledge

LEMMA TimeoutStep ==
    ASSUME IInv, NEW p \in Packets, TimeoutPacket(p)
    PROVE  Life!Timeout(p)
<1>1. p \in Late /\ told[p] = <<Life!Sent>>
  BY DEF TimeoutPacket, ReportedLate, CanTimeout, IInv, Phases, Phase, Unsent, InTransit,
         Delivered, Answered, Expired, Returned
<1>2. told' = [told EXCEPT ![p] = <<Life!Sent, Life!TimedOut>>]
  <2>1. told' = [told EXCEPT ![p] = Append(told[p], Life!TimedOut)]
    BY DEF TimeoutPacket, Tell
  <2>2. Append(<<Life!Sent>>, Life!TimedOut) = <<Life!Sent, Life!TimedOut>>
    BY AppendToOne
  <2> QED
    BY <1>1, <2>1, <2>2, Zenon
<1>3. Late' = Late
  BY LateUnchanged DEF TimeoutPacket
<1> QED
  BY <1>1, <1>2, <1>3 DEF Life!Timeout

LEMMA SentIsTold ==
    ASSUME NEW p \in Packets, Phase(p), SEND_PACKET[p] # None
    PROVE  told[p] # <<>>
<1>1. \A a, b, c : <<a>> # <<>> /\ <<a, b>> # <<>> /\ <<a, b, c>> # <<>>
  OBVIOUS
<1> QED
  BY <1>1, Zenon
  DEF Phase, Unsent, InTransit, Delivered, Answered, Expired, Returned

LEMMA NextBlockStep ==
    ASSUME IInv, NEW c \in Chains, NextBlock(c)
    PROVE  Life!Expire
<1>1. Late \subseteq Late'
  BY LateForGood DEF IInv
<1>2. Late' \subseteq Packets
  BY DEF Late
<1>3. ASSUME NEW p \in Late' PROVE told[p] # <<>>
  <2>1. p \in Packets /\ SEND_PACKET[p] # None
    BY <1>3 DEF Late, NextBlock, ibcVars
  <2> QED
    BY <2>1, SentIsTold DEF IInv, Phases
<1>4. UNCHANGED told
  BY DEF NextBlock
<1> QED
  BY <1>1, <1>2, <1>3, <1>4 DEF Life!Expire

\* receive_packet after the timeout and close_channel call no application.
LEMMA QuietStep ==
    ASSUME UNCHANGED <<SEND_PACKET, block, told>>
    PROVE  UNCHANGED Life!vars
BY LateUnchanged DEF Life!vars

\* Whatever the order in which packets are relayed, and however often: each is
\* received at most once, in time, and ends acknowledged or timed out, never both.
THEOREM Refinement == Spec => ImplementsPacketLife
<1>1. Spec => []IInv
  BY InitIInv, NextIInv, PTL DEF Spec
<1>2. ASSUME IInv, [Next]_vars
      PROVE  [Life!Next]_Life!vars
  <2>1. ASSUME NEW p \in Packets, NEW timeout \in Timeouts, SendPacket(p, timeout)
        PROVE  Life!Next
    BY <1>2, <2>1, SendStep DEF Life!Next
  <2>2. ASSUME NEW p \in Packets, NEW ack \in Responses, ReceivePacket(p, ack)
        PROVE  Life!Next
    <3>1. ack \in Acks \cup {None}
      BY DEF Acks
    <3> QED
      BY <1>2, <2>2, <3>1, ReceiveStep DEF Life!Next
  <2>3. ASSUME NEW p \in Packets, ReceiveLatePacket(p)
        PROVE  UNCHANGED Life!vars
    BY <2>3, QuietStep DEF ReceiveLatePacket
  <2>4. ASSUME NEW p \in Packets, AcknowledgePacket(p)
        PROVE  Life!Next
    BY <1>2, <2>4, AcknowledgeStep DEF Life!Next
  <2>5. ASSUME NEW p \in Packets, TimeoutPacket(p)
        PROVE  Life!Next
    BY <1>2, <2>5, TimeoutStep DEF Life!Next
  <2>6. ASSUME NEW p \in Packets, CloseConfirm(p)
        PROVE  UNCHANGED Life!vars
    BY <2>6, QuietStep DEF CloseConfirm, CloseChannel
  <2>7. ASSUME NEW e \in Ends, CloseChannel(e)
        PROVE  UNCHANGED Life!vars
    BY <2>7, QuietStep DEF CloseChannel
  <2>8. ASSUME NEW c \in Chains, NextBlock(c)
        PROVE  Life!Next
    BY <1>2, <2>8, NextBlockStep DEF Life!Next
  <2>9. CASE UNCHANGED vars
    BY <2>9, QuietStep DEF vars
  <2> QED
    BY <1>2, <2>1, <2>2, <2>3, <2>4, <2>5, <2>6, <2>7, <2>8, <2>9 DEF Next
<1>3. IInv /\ [Next]_vars => [Life!Next]_Life!vars
  BY <1>2
<1> QED
  BY <1>1, <1>3, InitStep, PTL DEF Spec, ImplementsPacketLife, Life!Spec

-----------------------------------------------------------------------------
(* Denoms *)

\* d names a coin that came through n channels.
IsDenom(d, n) ==
    /\ d \in Seq(Channels \cup Natives)
    /\ Len(d) = n + 1
    /\ \A i \in 1 .. n : d[i] \in Channels
    /\ d[n + 1] \in Natives

\* The denom and its path.
LEMMA PathAndName ==
    ASSUME NEW n \in Nat, NEW path \in [1 .. n -> Channels], NEW name \in Natives
    PROVE  IsDenom(path \o <<name>>, n)
<1> DEFINE last == <<name>>
           d == path \o last
           S == Channels \cup Natives
<1>1. path \in Seq(S) /\ Len(path) = n /\ \A i \in 1 .. n : path[i] \in Channels
  <2>1. \A i \in 1 .. n : path[i] \in S
    OBVIOUS
  <2>2. path \in [1 .. n -> S]
    BY <2>1
  <2> QED BY <2>2, LenProperties
<1>2. last \in Seq(S) /\ Len(last) = 1 /\ last[1] = name
  OBVIOUS
<1> HIDE DEF last, S
<1>3. /\ d \in Seq(S) /\ Len(d) = n + 1
      /\ \A i \in 1 .. n + 1 : d[i] = IF i <= n THEN path[i] ELSE last[i - n]
  BY <1>1, <1>2, ConcatProperties
<1> HIDE DEF d
<1>4. \A i \in 1 .. n : d[i] = path[i]
  BY <1>3
<1>5. d[n + 1] = name
  <2>1. n + 1 \in 1 .. n + 1 /\ ~(n + 1 <= n) /\ n + 1 - n = 1
    OBVIOUS
  <2> QED BY <1>2, <1>3, <2>1
<1> QED BY <1>1, <1>3, <1>4, <1>5 DEF IsDenom, S, d, last

LEMMA DenomHasForm ==
    ASSUME NEW d \in Denoms
    PROVE  \E n \in 0 .. MaxHops : IsDenom(d, n)
<1>1. PICK path \in Paths, name \in Natives : d = Denom(path, name)
  BY SMT DEF Denoms
<1>2. PICK n \in 0 .. MaxHops : path \in [1 .. n -> Channels]
  BY DEF Paths
<1>3. IsDenom(Denom(path, name), n)
  BY <1>2, PathAndName, SupplyAssumption DEF Denom
<1> QED BY <1>1, <1>3

LEMMA FormIsDenom ==
    ASSUME NEW n \in 0 .. MaxHops, NEW d, IsDenom(d, n)
    PROVE  d \in Denoms
<1> DEFINE path == [i \in 1 .. n |-> d[i]]
           name == d[n + 1]
           e == Denom(path, name)
<1>1. path \in [1 .. n -> Channels] /\ name \in Natives /\ n \in Nat
  BY SupplyAssumption DEF IsDenom
<1>2. e \in Denoms
  <2>1. path \in Paths
    BY <1>1 DEF Paths
  <2> HIDE DEF path, name
  <2> QED BY <1>1, <2>1, SMT DEF Denoms
<1>3. IsDenom(e, n)
  <2> HIDE DEF path, name
  <2> QED BY <1>1, PathAndName DEF Denom
<1>4. \A i \in 1 .. n + 1 : e[i] = d[i]
  <2> DEFINE S == Channels \cup Natives
             last == <<name>>
  <2>1. path \in Seq(S) /\ Len(path) = n /\ last \in Seq(S) /\ Len(last) = 1 /\ last[1] = name
    <3>1. path \in [1 .. n -> S]
      BY <1>1
    <3>2. path \in Seq(S) /\ Len(path) = n
      <4> HIDE DEF path
      <4> QED BY <1>1, <3>1, LenProperties
    <3> QED BY <1>1, <3>2
  <2>2. \A i \in 1 .. n : path[i] = d[i]
    OBVIOUS
  <2>3. e = path \o last
    BY DEF Denom
  <2> HIDE DEF path, last, S, name, e
  <2>4. \A i \in 1 .. n + 1 : e[i] = IF i <= n THEN path[i] ELSE last[i - n]
    BY <1>1, <2>1, <2>3, ConcatProperties
  <2> TAKE i \in 1 .. n + 1
  <2>5. CASE i <= n
    BY <1>1, <2>2, <2>4, <2>5
  <2>6. CASE ~(i <= n)
    <3>1. i = n + 1 /\ i - n = 1
      BY <1>1, <2>6
    <3> QED BY <2>1, <2>4, <2>6, <3>1 DEF name
  <2> QED BY <2>5, <2>6
<1> HIDE DEF e
<1>5. e = d
  BY <1>1, <1>3, <1>4, SeqEqual DEF IsDenom
<1> QED BY <1>2, <1>5

\* What all denoms have.
LEMMA DenomProperties ==
    ASSUME NEW d \in Denoms
    PROVE  d \in Seq(Channels \cup Natives) /\ Len(d) \in Nat \ {0} /\ Name(d) \in Natives
<1>1. PICK n \in 0 .. MaxHops : IsDenom(d, n)
  BY DenomHasForm
<1>2. n \in Nat
  BY SupplyAssumption
<1> QED BY <1>1, <1>2 DEF IsDenom, Name

LEMMA NativeDenom ==
    ASSUME NEW name \in Natives
    PROVE  <<name>> \in Denoms /\ Len(<<name>>) = 1 /\ Name(<<name>>) = name
<1>1. IsDenom(<<name>>, 0)
  BY DEF IsDenom
<1>2. 0 \in 0 .. MaxHops
  BY SupplyAssumption
<1>3. <<name>> \in Denoms
  BY <1>1, <1>2, FormIsDenom
<1> QED BY <1>3 DEF Name

\* A voucher has the name of what it stands for.
LEMMA Wrapped ==
    ASSUME NEW d \in Denoms, NEW channel \in Channels
    PROVE  Len(Wrap(channel, d)) > 1 /\ Name(Wrap(channel, d)) = Name(d)
<1> DEFINE S == Channels \cup Natives
           first == <<channel>>
           w == Wrap(channel, d)
<1>1. d \in Seq(S) /\ Len(d) \in Nat \ {0}
  BY DenomProperties
<1>2. first \in Seq(S) /\ Len(first) = 1
  OBVIOUS
<1>3. w = first \o d
  BY DEF Wrap
<1> HIDE DEF first, S, w
<1>4. /\ Len(w) = 1 + Len(d)
      /\ \A i \in 1 .. 1 + Len(d) : w[i] = IF i <= 1 THEN first[i] ELSE d[i - 1]
  <2>1. /\ Len(w) = Len(first) + Len(d)
        /\ \A i \in 1 .. Len(first) + Len(d) :
              w[i] = IF i <= Len(first) THEN first[i] ELSE d[i - Len(first)]
    BY <1>1, <1>2, <1>3, ConcatProperties
  <2> QED BY <1>1, <1>2, <2>1
<1>5. w[1 + Len(d)] = d[Len(d)]
  <2> DEFINE i == 1 + Len(d)
  <2>1. i \in 1 .. 1 + Len(d) /\ ~(i <= 1) /\ i - 1 = Len(d)
    BY <1>1
  <2> HIDE DEF i
  <2>2. w[i] = d[Len(d)]
    BY <1>4, <2>1
  <2> QED BY <2>2 DEF i
<1>6. Len(w) > 1 /\ Name(w) = Name(d)
  BY <1>1, <1>4, <1>5 DEF Name
<1> QED BY <1>6 DEF w

\* And so has what is left of a voucher without its last channel.
LEMMA Unwrapped ==
    ASSUME NEW d \in Denoms, Len(d) > 1
    PROVE  Tail(d) \in Denoms /\ Name(Tail(d)) = Name(d)
<1>1. PICK n \in 0 .. MaxHops : IsDenom(d, n)
  BY DenomHasForm
<1> DEFINE S == Channels \cup Natives
           t == Tail(d)
<1>2. /\ n \in Nat /\ d \in Seq(S) /\ Len(d) = n + 1
      /\ \A i \in 1 .. n : d[i] \in Channels
      /\ d[n + 1] \in Natives
  BY <1>1, SupplyAssumption DEF IsDenom
<1>3. n - 1 \in 0 .. MaxHops /\ n > 0
  BY <1>2, SupplyAssumption
<1>4. d # <<>>
  BY <1>2, <1>3
<1> HIDE DEF S
<1>5. t \in Seq(S) /\ Len(t) = n /\ \A i \in 1 .. n : t[i] = d[i + 1]
  <2>1. Len(t) = Len(d) - 1 /\ t \in Seq(S) /\ \A i \in 1 .. Len(t) : t[i] = d[i + 1]
    BY <1>2, <1>4, HeadTailProperties
  <2> HIDE DEF t
  <2>2. Len(t) = n
    BY <1>2, <2>1
  <2> QED BY <2>1, <2>2
<1> HIDE DEF t
<1>6. \A i \in 1 .. n - 1 : t[i] \in Channels
  <2> TAKE i \in 1 .. n - 1
  <2>1. i \in 1 .. n /\ i + 1 \in 1 .. n
    BY <1>2
  <2> QED BY <1>2, <1>5, <2>1
<1>7. t[n] = d[n + 1]
  BY <1>2, <1>3, <1>5
<1>8. IsDenom(t, n - 1)
  BY <1>2, <1>5, <1>6, <1>7 DEF IsDenom, S
<1>9. t \in Denoms
  BY <1>3, <1>8, FormIsDenom
<1>10. Name(t) = Name(d)
  BY <1>2, <1>5, <1>7 DEF Name
<1> QED BY <1>9, <1>10 DEF t

-----------------------------------------------------------------------------
(* Everything summed over is finite *)

\* A set is finite if each of its members has a mark of its own in a finite set.
LEMMA MarkedIsFinite ==
    ASSUME NEW S, NEW T, IsFiniteSet(T), NEW f \in [S -> T],
           \A x, y \in S : f[x] = f[y] => x = y
    PROVE  IsFiniteSet(S)
<1>1. f \in Injection(S, T)
  BY DEF Injection, IsInjective
<1> QED BY <1>1, FS_Injection

LEMMA ChainsFinite == IsFiniteSet(Chains)
<1>1. PICK c, d \in Chains : Chains = {c, d}
  BY ChainsAssumption
<1>2. {c, d} = {c} \cup {d} /\ IsFiniteSet({c}) /\ IsFiniteSet({d})
  BY FS_Singleton
<1>3. IsFiniteSet({c, d})
  BY <1>2, FS_Union
<1> QED BY <1>1, <1>3

LEMMA PacketsFinite == IsFiniteSet(Packets)
<1> DEFINE keys == Chains \X (Channels \X (1 .. MaxPackets))
           key == [p \in Packets |-> <<p.src, <<p.channel, p.sequence>>>>]
<1>1. IsFiniteSet(1 .. MaxPackets)
  BY PacketBoundsAssumption, FS_Interval
<1>2. IsFiniteSet(keys)
  <2>1. IsFiniteSet(Channels \X (1 .. MaxPackets))
    BY <1>1, FiniteAssumption, FS_Product
  <2> QED BY <2>1, ChainsFinite, FS_Product
<1>3. key \in [Packets -> keys]
  BY DEF Packets
<1>4. \A p, q \in Packets : key[p] = key[q] => p = q
  BY DEF Packets
<1> HIDE DEF keys, key
<1> QED BY <1>2, <1>3, <1>4, MarkedIsFinite

LEMMA DenomsFinite == IsFiniteSet(Denoms)
<1> DEFINE S == Channels \cup Natives
           places == (1 .. MaxHops + 1) \X S
           Graph(d) == {x \in places : x[1] <= Len(d) /\ d[x[1]] = x[2]}
           graph == [d \in Denoms |-> Graph(d)]
<1>1. IsFiniteSet(1 .. MaxHops + 1)
  BY SupplyAssumption, FS_Interval
<1>2. IsFiniteSet(SUBSET places)
  <2>1. IsFiniteSet(S)
    BY FiniteAssumption, FS_Union
  <2> HIDE DEF S
  <2>2. IsFiniteSet(places)
    BY <1>1, <2>1, FS_Product
  <2> HIDE DEF places
  <2> QED BY <2>2, FS_SUBSET
<1>3. graph \in [Denoms -> SUBSET places]
  OBVIOUS
<1>4. ASSUME NEW d \in Denoms
      PROVE  /\ d \in Seq(S) /\ Len(d) \in 1 .. MaxHops + 1
             /\ \A i \in 1 .. MaxHops + 1 : \A v \in S :
                  <<i, v>> \in Graph(d) <=> i <= Len(d) /\ d[i] = v
  <2>1. PICK n \in 0 .. MaxHops : IsDenom(d, n)
    BY DenomHasForm
  <2>2. d \in Seq(S) /\ Len(d) \in 1 .. MaxHops + 1
    BY <2>1, SupplyAssumption DEF IsDenom
  <2> QED BY <2>2
<1>5. ASSUME NEW d \in Denoms, NEW e \in Denoms, Graph(d) = Graph(e)
      PROVE  Len(d) <= Len(e) /\ \A i \in 1 .. Len(d) : d[i] = e[i]
  <2> HIDE DEF Graph
  <2>1. ASSUME NEW i \in 1 .. Len(d)
        PROVE  i <= Len(e) /\ e[i] = d[i]
    <3>1. i \in 1 .. MaxHops + 1
      BY <1>4, SupplyAssumption
    <3>2. d[i] \in S /\ i <= Len(d)
      <4> HIDE DEF S
      <4> QED BY <1>4, ElementOfSeq
    <3>3. <<i, d[i]>> \in Graph(d)
      BY <1>4, <3>1, <3>2
    <3> QED BY <1>4, <1>5, <3>1, <3>2, <3>3
  <2>2. Len(d) \in 1 .. Len(d)
    BY <1>4, SupplyAssumption
  <2> QED BY <2>1, <2>2
<1>6. ASSUME NEW d \in Denoms, NEW e \in Denoms, graph[d] = graph[e]
      PROVE  d = e
  <2>1. Graph(d) = Graph(e)
    BY <1>6
  <2> HIDE DEF Graph, graph
  <2>2. Len(d) <= Len(e) /\ Len(e) <= Len(d)
    BY <1>5, <2>1
  <2>3. d \in Seq(S) /\ e \in Seq(S) /\ Len(d) = Len(e)
    BY <1>4, <2>2, SupplyAssumption
  <2>4. \A i \in 1 .. Len(d) : d[i] = e[i]
    BY <1>5, <2>1
  <2> HIDE DEF S
  <2> QED BY <2>3, <2>4, SeqEqual
<1> HIDE DEF graph, places
<1> QED BY <1>2, <1>3, <1>6, MarkedIsFinite

-----------------------------------------------------------------------------
(* The wealth of a name *)

\* What is held and in flight, for b the balances, i the transfers in the packets,
\* r how packets were received and t those that timed out: the state before a step
\* or after it.
Banks == [Chains -> [Accounts \X Denoms -> Nat]]
Transfers == [Packets -> Ics20Packets \cup {None}]
Held(name) == Chains \X (Users \X {d \in Denoms : Name(d) = name})
Flying(i, r, t, p) == i[p] # None /\ r[p] # "in time" /\ p \notin t
Purse(b, name) == [x \in Held(name) |-> b[x[1]][x[2]]]
Cargo(i, ps) == [p \in ps |-> i[p].amount]
Flight(i, r, t, name) == {p \in Packets : Flying(i, r, t, p) /\ Name(i[p].denom) = name}
Wealth(b, i, r, t, name) ==
    SumFunction(Purse(b, name)) + SumFunction(Cargo(i, Flight(i, r, t, name)))
AtFirst(name) == SumFunction([c \in Chains |-> Supply[c][name]])

\* The same sums over sets that no step changes.
Load(i, r, t, name) ==
    [p \in Packets |-> IF p \in Flight(i, r, t, name) THEN i[p].amount ELSE 0]

LEMMA HeldFinite ==
    ASSUME NEW name
    PROVE  IsFiniteSet(Held(name))
<1> DEFINE named == {d \in Denoms : Name(d) = name}
<1>1. IsFiniteSet(named)
  BY DenomsFinite, FS_Subset
<1> HIDE DEF named
<1>2. IsFiniteSet(Users \X named)
  BY <1>1, FiniteAssumption, FS_Product
<1>3. IsFiniteSet(Chains \X (Users \X named))
  BY <1>2, ChainsFinite, FS_Product
<1> QED BY <1>3 DEF Held, named

LEMMA PurseIsNatural ==
    ASSUME NEW b \in Banks, NEW name
    PROVE  Natural(Purse(b, name), Held(name)) /\ DOMAIN Purse(b, name) = Held(name)
<1>1. ASSUME NEW x \in Held(name)
      PROVE  b[x[1]][x[2]] \in Nat
  <2>1. x[1] \in Chains /\ x[2] \in Accounts \X Denoms
    BY DEF Held, Accounts
  <2> QED BY <2>1 DEF Banks
<1> QED BY <1>1 DEF Purse, Natural

LEMMA LoadIsNatural ==
    ASSUME NEW i \in Transfers, NEW r, NEW t, NEW name
    PROVE  Natural(Load(i, r, t, name), Packets)
<1>1. ASSUME NEW p \in Flight(i, r, t, name)
      PROVE  i[p].amount \in Nat
  <2>1. i[p] \in Ics20Packets
    BY DEF Flight, Flying, Transfers
  <2> QED BY <2>1, SupplyAssumption DEF Ics20Packets
<1> QED BY <1>1 DEF Load, Natural

LEMMA WealthIsSum ==
    ASSUME NEW b \in Banks, NEW i \in Transfers, NEW r, NEW t, NEW name
    PROVE  Wealth(b, i, r, t, name)
             = SumFunctionOnSet(Purse(b, name), Held(name))
               + SumFunctionOnSet(Load(i, r, t, name), Packets)
<1> DEFINE flight == Flight(i, r, t, name)
           cargo == Cargo(i, flight)
           load == Load(i, r, t, name)
<1>1. SumFunction(Purse(b, name)) = SumFunctionOnSet(Purse(b, name), Held(name))
  BY PurseIsNatural, SumIsOnDomain
<1>2. DOMAIN cargo = flight /\ flight \subseteq Packets
  BY DEF Cargo, Flight
<1>3. \A p \in flight : load[p] = cargo[p]
  BY <1>2 DEF Load, Cargo
<1>4. \A p \in Packets : p \notin flight => load[p] = 0
  BY DEF Load
<1>5. Natural(load, Packets)
  BY LoadIsNatural
<1>6. Wealth(b, i, r, t, name) = SumFunction(Purse(b, name)) + SumFunction(cargo)
  BY DEF Wealth
<1> HIDE DEF flight, cargo, load
<1>7. SumFunction(cargo) = SumFunctionOnSet(load, Packets)
  BY <1>2, <1>3, <1>4, <1>5, PacketsFinite, SumWithin
<1> QED BY <1>1, <1>6, <1>7 DEF load

\* One account gains what one packet loses, or the reverse.
LEMMA SumsMove ==
    ASSUME NEW H, IsFiniteSet(H), NEW f, Natural(f, H), NEW g, Natural(g, H),
           NEW P, IsFiniteSet(P), NEW u, Natural(u, P), NEW v, Natural(v, P),
           NEW x, \A y \in H : y # x => g[y] = f[y],
           NEW p \in P, \A q \in P : q # p => v[q] = u[q],
           x \in H => g[x] + v[p] = f[x] + u[p],
           x \notin H => v[p] = u[p]
    PROVE  SumFunctionOnSet(g, H) + SumFunctionOnSet(v, P)
             = SumFunctionOnSet(f, H) + SumFunctionOnSet(u, P)
<1> DEFINE F == SumFunctionOnSet(f, H)
           G == SumFunctionOnSet(g, H)
           U == SumFunctionOnSet(u, P)
           V == SumFunctionOnSet(v, P)
<1>1. F \in Nat /\ G \in Nat /\ U \in Nat /\ V \in Nat
  BY SumIsNatural
<1>2. V + u[p] = U + v[p]
  BY SumChanges
<1>3. u[p] \in Nat /\ v[p] \in Nat
  BY DEF Natural
<1>4. CASE x \in H
  <2>1. G + f[x] = F + g[x]
    BY <1>4, SumChanges
  <2>2. f[x] \in Nat /\ g[x] \in Nat
    BY <1>4 DEF Natural
  <2> HIDE DEF F, G, U, V
  <2>3. G + V = F + U
    BY <1>1, <1>2, <1>3, <1>4, <2>1, <2>2
  <2> QED BY <2>3 DEF F, G, U, V
<1>5. CASE x \notin H
  <2>1. F = G
    <3>1. \A y \in H : f[y] = g[y]
      BY <1>5
    <3> QED BY <3>1, SumsAreSame
  <2> HIDE DEF F, G, U, V
  <2>2. G + V = F + U
    BY <1>1, <1>2, <1>3, <1>5, <2>1
  <2> QED BY <2>2 DEF F, G, U, V
<1> QED BY <1>4, <1>5

\* Packet p carries n of the name of d, or nothing if it is not in flight.
Weighs(i, r, t, p, d, n) ==
    IF Flying(i, r, t, p) THEN Name(i[p].denom) = Name(d) /\ i[p].amount = n ELSE n = 0

\* Among the users, only what u has of d on chain c differs.
OneBalance(b, a, c, u, d) ==
    \A k \in Chains : \A y \in Users \X Denoms :
      <<k, y>> # <<c, <<u, d>>>> => a[k][y] = b[k][y]

LEMMA WealthMoves ==
    ASSUME NEW b \in Banks, NEW i \in Transfers, NEW r, NEW t,
           NEW a \in Banks, NEW j \in Transfers, NEW s, NEW o,
           NEW p \in Packets, NEW c \in Chains, NEW u \in Users, NEW d \in Denoms,
           OneBalance(b, a, c, u, d),
           \A q \in Packets : q # p => j[q] = i[q] /\ s[q] = r[q] /\ (q \in o <=> q \in t),
           NEW before, Weighs(i, r, t, p, d, before),
           NEW after, Weighs(j, s, o, p, d, after),
           a[c][<<u, d>>] + after = b[c][<<u, d>>] + before,
           NEW name
    PROVE  Wealth(a, j, s, o, name) = Wealth(b, i, r, t, name)
<1> DEFINE H == Held(name)
           f == Purse(b, name)
           g == Purse(a, name)
           load == Load(i, r, t, name)
           next == Load(j, s, o, name)
           x == <<c, <<u, d>>>>
<1>1. IsFiniteSet(H) /\ Natural(f, H) /\ Natural(g, H)
  BY HeldFinite, PurseIsNatural
<1>2. IsFiniteSet(Packets) /\ Natural(load, Packets) /\ Natural(next, Packets)
  BY PacketsFinite, LoadIsNatural
<1>3. ASSUME NEW y \in H, y # x
      PROVE  g[y] = f[y]
  <2>1. y[1] \in Chains /\ y[2] \in Users \X Denoms /\ y = <<y[1], y[2]>>
    BY <1>3 DEF Held
  <2>2. a[y[1]][y[2]] = b[y[1]][y[2]]
    BY <1>3, <2>1 DEF OneBalance
  <2> QED BY <1>3, <2>2 DEF Purse
<1>4. ASSUME NEW q \in Packets, q # p
      PROVE  next[q] = load[q]
  <2>1. q \in Flight(j, s, o, name) <=> q \in Flight(i, r, t, name)
    BY <1>4 DEF Flight, Flying
  <2> QED BY <1>4, <2>1 DEF Load
<1>5. /\ load[p] = IF Name(d) = name THEN before ELSE 0
      /\ next[p] = IF Name(d) = name THEN after ELSE 0
  BY DEF Load, Flight, Weighs
<1>6. x \in H <=> Name(d) = name
  BY DEF Held
<1>7. x \in H => g[x] = a[c][<<u, d>>] /\ f[x] = b[c][<<u, d>>]
  BY DEF Purse
<1>8. x \in H => g[x] + next[p] = f[x] + load[p]
  BY <1>5, <1>6, <1>7
<1>9. x \notin H => next[p] = load[p]
  BY <1>5, <1>6
<1>10. /\ Wealth(b, i, r, t, name) = SumFunctionOnSet(f, H) + SumFunctionOnSet(load, Packets)
       /\ Wealth(a, j, s, o, name) = SumFunctionOnSet(g, H) + SumFunctionOnSet(next, Packets)
  BY WealthIsSum
<1> HIDE DEF H, f, g, load, next, x
<1>11. SumFunctionOnSet(g, H) + SumFunctionOnSet(next, Packets)
         = SumFunctionOnSet(f, H) + SumFunctionOnSet(load, Packets)
  BY <1>1, <1>2, <1>3, <1>4, <1>8, <1>9, SumsMove
<1> QED BY <1>10, <1>11

-----------------------------------------------------------------------------
(* Transfers *)

Conserved(b, i, r, t) == \A name \in Natives : Wealth(b, i, r, t, name) = AtFirst(name)

\* The invariant: a transfer is in each packet that was sent and in no other, the
\* phases of packets tell which are in flight, and no name has lost or gained.
TInv ==
    /\ IInv
    /\ TransferTypeOK
    /\ ICS20 \in Transfers
    /\ WealthIsConserved

LEMMA ConservedIs ==
    WealthIsConserved <=> Conserved(BALANCES, ICS20, RECEIVE_PACKET, TIMEOUT_PACKET)
BY DEF WealthIsConserved, Conserved, Wealth, AtFirst, Purse, Held, Cargo, Flight, Flying,
       AmountsOf, InFlight

LEMMA ConservedIsNext ==
    WealthIsConserved' <=> Conserved(BALANCES, ICS20, RECEIVE_PACKET, TIMEOUT_PACKET)'
BY DEF WealthIsConserved, Conserved, Wealth, AtFirst, Purse, Held, Cargo, Flight, Flying,
       AmountsOf, InFlight

\* A step of one packet and of one balance of a user.
LEMMA ConservedMoves ==
    ASSUME TInv, BALANCES' \in Banks, ICS20' \in Transfers,
           NEW p \in Packets, NEW c \in Chains, NEW u \in Users, NEW d \in Denoms,
           OneBalance(BALANCES, BALANCES', c, u, d),
           \A q \in Packets : q # p =>
              /\ ICS20'[q] = ICS20[q] /\ RECEIVE_PACKET'[q] = RECEIVE_PACKET[q]
              /\ q \in TIMEOUT_PACKET' <=> q \in TIMEOUT_PACKET,
           NEW before, Weighs(ICS20, RECEIVE_PACKET, TIMEOUT_PACKET, p, d, before),
           NEW after, Weighs(ICS20', RECEIVE_PACKET', TIMEOUT_PACKET', p, d, after),
           BALANCES'[c][<<u, d>>] + after = BALANCES[c][<<u, d>>] + before
    PROVE  WealthIsConserved'
<1>1. BALANCES \in Banks /\ ICS20 \in Transfers
  BY DEF TInv, TransferTypeOK, Banks
<1>2. ASSUME NEW name \in Natives
      PROVE  Wealth(BALANCES', ICS20', RECEIVE_PACKET', TIMEOUT_PACKET', name)
               = Wealth(BALANCES, ICS20, RECEIVE_PACKET, TIMEOUT_PACKET, name)
  BY <1>1, WealthMoves
<1>3. Conserved(BALANCES, ICS20, RECEIVE_PACKET, TIMEOUT_PACKET)
  BY ConservedIs DEF TInv
<1>4. Conserved(BALANCES', ICS20', RECEIVE_PACKET', TIMEOUT_PACKET')
  BY <1>2, <1>3 DEF Conserved
<1> QED BY <1>4, ConservedIsNext

\* The account from can pay the account to, from the balances b.
Payable(b, from, to, denom, amount) ==
    /\ b \in [Accounts \X Denoms -> Nat]
    /\ from \in Accounts /\ to \in Accounts /\ from # to
    /\ denom \in Denoms /\ amount \in Nat
    /\ b[<<from, denom>>] >= amount

\* s are the balances after it.
Paid(b, s, from, to, denom, amount) ==
    /\ s \in [Accounts \X Denoms -> Nat]
    /\ s[<<from, denom>>] = b[<<from, denom>>] - amount
    /\ s[<<to, denom>>] = b[<<to, denom>>] + amount
    /\ \A y \in Accounts \X Denoms :
         y # <<from, denom>> /\ y # <<to, denom>> => s[y] = b[y]

LEMMA SendCoinsDoes ==
    ASSUME NEW b, NEW from, NEW to, NEW denom, NEW amount,
           Payable(b, from, to, denom, amount)
    PROVE  Paid(b, SendCoins(b, from, to, denom, amount), from, to, denom, amount)
<1> DEFINE less == Burn(b, from, denom, amount)
           s == SendCoins(b, from, to, denom, amount)
           B == [Accounts \X Denoms -> Nat]
<1>1. /\ less \in B
      /\ less[<<from, denom>>] = b[<<from, denom>>] - amount
      /\ \A y \in Accounts \X Denoms : y # <<from, denom>> => less[y] = b[y]
  BY DEF Burn, Payable
<1> HIDE DEF less
<1>2. s = Mint(less, to, denom, amount)
  BY DEF SendCoins, less
<1>3. /\ s \in B
      /\ s[<<to, denom>>] = less[<<to, denom>>] + amount
      /\ \A y \in Accounts \X Denoms : y # <<to, denom>> => s[y] = less[y]
  BY <1>1, <1>2 DEF Mint, Payable
<1> HIDE DEF s
<1>4. Paid(b, s, from, to, denom, amount)
  BY <1>1, <1>3 DEF Paid, Payable
<1> QED BY <1>4 DEF s

\* A step from b to a that gives chain c the balances s.
BankStep(b, a, c, s) ==
    /\ a \in Banks /\ a[c] = s
    /\ \A k \in Chains : k # c => a[k] = b[k]

LEMMA BankSteps ==
    ASSUME NEW b \in Banks, NEW c \in Chains, NEW s \in [Accounts \X Denoms -> Nat]
    PROVE  BankStep(b, [b EXCEPT ![c] = s], c, s)
BY DEF Banks, BankStep

LEMMA BankMoves ==
    ASSUME NEW b, NEW a, NEW c \in Chains, NEW s, BankStep(b, a, c, s),
           NEW u \in Users, NEW d \in Denoms,
           \A y \in Users \X Denoms : y # <<u, d>> => s[y] = b[c][y]
    PROVE  OneBalance(b, a, c, u, d)
<1>1. ASSUME NEW k \in Chains, NEW y \in Users \X Denoms, <<k, y>> # <<c, <<u, d>>>>
      PROVE  a[k][y] = b[k][y]
  <2>1. CASE k = c
    BY <1>1, <2>1 DEF BankStep
  <2>2. CASE k # c
    BY <2>2 DEF BankStep
  <2> QED BY <2>1, <2>2
<1> QED BY <1>1 DEF OneBalance

LEMMA UnwrappedName ==
    ASSUME TransferTypeOK, NEW c \in Chains, NEW denom \in Denoms, NEW channel
    PROVE  Unwrap(c, denom, channel) \in Denoms /\ Name(Unwrap(c, denom, channel)) = Name(denom)
<1>1. CASE denom \in IBC_DENOMS[c] /\ Head(denom) = channel
  <2>1. Len(denom) > 1
    BY <1>1 DEF TransferTypeOK
  <2> QED BY <1>1, <2>1, Unwrapped DEF Unwrap
<1>2. CASE ~(denom \in IBC_DENOMS[c] /\ Head(denom) = channel)
  BY <1>2 DEF Unwrap
<1> QED BY <1>1, <1>2

LEMMA TransferInv ==
    ASSUME TInv, NEW p \in Packets, NEW sender \in Users, NEW receiver \in Users,
           NEW denom \in Denoms, NEW amount \in Amounts, NEW memo \in Memos,
           NEW timeout \in Timeouts,
           Transfer(p, sender, receiver, denom, amount, memo, timeout)
    PROVE  TInv'
<1>1. IInv'
  BY SendInv DEF TInv, Transfer
<1>0. PICK c \in Chains : c = p.src
  BY DEF Packets
<1> DEFINE t == [amount |-> amount, denom |-> Unwrap(p.src, denom, p.channel),
                 sender |-> sender, receiver |-> receiver, memo |-> memo, locked |-> denom]
<1>2. /\ amount \in Nat
      /\ sender \in Accounts /\ Lock \in Accounts /\ sender # Lock /\ Lock \notin Users
      /\ BALANCES \in Banks /\ BALANCES[c] \in [Accounts \X Denoms -> Nat]
  BY SupplyAssumption, UsersAssumption DEF Accounts, TInv, TransferTypeOK, Banks
<1> DEFINE coins == SendCoins(BALANCES[c], sender, Lock, denom, amount)
<1>p. PICK paid : paid = coins
  OBVIOUS
<1>3. /\ paid \in [Accounts \X Denoms -> Nat]
      /\ paid[<<sender, denom>>] = BALANCES[c][<<sender, denom>>] - amount
      /\ \A y \in Accounts \X Denoms :
           y # <<sender, denom>> /\ y # <<Lock, denom>> => paid[y] = BALANCES[c][y]
  <2>1. BALANCES[c][<<sender, denom>>] >= amount
    BY <1>0 DEF Transfer, CanPay
  <2>2. Payable(BALANCES[c], sender, Lock, denom, amount)
    BY <1>2, <2>1 DEF Payable
  <2>3. Paid(BALANCES[c], paid, sender, Lock, denom, amount)
    BY <1>p, <2>2, SendCoinsDoes
  <2> QED BY <2>3 DEF Paid
<1>4. BALANCES' = [BALANCES EXCEPT ![c] = paid]
  BY <1>0, <1>p DEF Transfer
<1> HIDE DEF coins
<1>5. /\ BALANCES' \in Banks /\ BALANCES'[c] = paid
      /\ \A k \in Chains : k # c => BALANCES'[k] = BALANCES[k]
  <2>1. BankStep(BALANCES, BALANCES', c, paid)
    BY <1>2, <1>3, <1>4, BankSteps
  <2> QED BY <2>1 DEF BankStep
<1>6. t \in Ics20Packets /\ t # None /\ t.amount = amount /\ Name(t.denom) = Name(denom)
  <2>1. /\ Unwrap(p.src, denom, p.channel) \in Denoms
        /\ Name(Unwrap(p.src, denom, p.channel)) = Name(denom)
    BY <1>0, UnwrappedName DEF TInv
  <2>2. t \in Ics20Packets
    BY <2>1 DEF Ics20Packets
  <2> QED BY <2>1, <2>2, NoTransferAssumption
<1>7. ICS20' = [ICS20 EXCEPT ![p] = t]
  BY DEF Transfer
<1> HIDE DEF t
<1>8. ICS20 \in Transfers
  BY DEF TInv
<1>9. ICS20' \in Transfers /\ ICS20'[p] = t /\ \A q \in Packets : q # p => ICS20'[q] = ICS20[q]
  BY <1>6, <1>7, <1>8 DEF Transfers
<1>10. /\ SEND_PACKET \in [Packets -> Timeouts \cup {None}]
       /\ SEND_PACKET' = [SEND_PACKET EXCEPT ![p] = timeout] /\ timeout # None
       /\ UNCHANGED <<RECEIVE_PACKET, TIMEOUT_PACKET>>
  BY TimeoutIsNotNone DEF TInv, IInv, TypeOK, Transfer, SendPacket
<1>11. Unsent(p)
  <2>1. SEND_PACKET[p] = None
    BY NextSequenceIsFree DEF TInv, IInv, Transfer
  <2> QED BY <2>1 DEF TInv, IInv, Phases, Phase, Unsent, InTransit, Delivered, Answered,
                      Expired, Returned
<1>12. TransferTypeOK'
  <2>1. \A q \in Packets : ICS20'[q] = None <=> SEND_PACKET'[q] = None
    BY <1>6, <1>9, <1>10 DEF TInv, TransferTypeOK
  <2>2. UNCHANGED IBC_DENOMS
    BY DEF Transfer
  <2> QED BY <1>1, <1>5, <2>1, <2>2 DEF TInv, IInv, TransferTypeOK, Banks
<1>13. Weighs(ICS20, RECEIVE_PACKET, TIMEOUT_PACKET, p, denom, 0)
  <2>1. ICS20[p] = None
    BY <1>11 DEF Unsent, TInv, TransferTypeOK
  <2> QED BY <2>1 DEF Weighs, Flying
<1>14. Weighs(ICS20', RECEIVE_PACKET', TIMEOUT_PACKET', p, denom, amount)
  BY <1>6, <1>9, <1>10, <1>11 DEF Weighs, Flying, Unsent
<1>15. OneBalance(BALANCES, BALANCES', c, sender, denom)
  <2>1. ASSUME NEW y \in Users \X Denoms, y # <<sender, denom>>
        PROVE  paid[y] = BALANCES[c][y]
    <3>1. y \in Accounts \X Denoms /\ y # <<Lock, denom>>
      BY <1>2 DEF Accounts
    <3> QED BY <1>3, <2>1, <3>1
  <2>2. BankStep(BALANCES, BALANCES', c, paid)
    BY <1>5 DEF BankStep
  <2> QED BY <2>1, <2>2, BankMoves
<1>16. BALANCES'[c][<<sender, denom>>] + amount = BALANCES[c][<<sender, denom>>] + 0
  <2>1. BALANCES[c][<<sender, denom>>] \in Nat
    BY <1>2
  <2> QED BY <1>2, <1>3, <1>5, <2>1
<1>17. WealthIsConserved'
  <2>1. \A q \in Packets : q # p =>
           /\ ICS20'[q] = ICS20[q] /\ RECEIVE_PACKET'[q] = RECEIVE_PACKET[q]
           /\ q \in TIMEOUT_PACKET' <=> q \in TIMEOUT_PACKET
    BY <1>9, <1>10
  <2> QED BY <1>2, <1>5, <1>9, <1>13, <1>14, <1>15, <1>16, <2>1, ConservedMoves
<1> QED BY <1>1, <1>9, <1>12, <1>17 DEF TInv

\* A transfer that is received pays one user, from the lock account or with new
\* vouchers.
LEMMA ReceiveTransferInv ==
    ASSUME TInv, NEW p \in Packets, Receive(p)
    PROVE  TInv'
<1> DEFINE t == ICS20[p]
           voucher == Wrap(p.channel, t.denom)
<1>0. PICK c \in Chains : c = Dest(p)
  BY EndsOfPackets
<1>1. IInv'
  <2>1. AckOf(t) \in Responses
    BY AcksAssumption DEF AckOf
  <2> QED BY <2>1, ReceiveInv DEF TInv, Receive
<1>2. InTransit(p)
  BY DEF TInv, IInv, Receive, ReceivePacket, NotReceived, Phases, Phase, Unsent, InTransit,
         Delivered, Answered, Expired, Returned
<1>3. /\ t # None /\ t \in Ics20Packets /\ t.amount \in Nat /\ t.denom \in Denoms
      /\ Recipient(t) \in Users
  <2>1. t # None /\ t \in Ics20Packets
    BY DEF TInv, Transfers, Receive
  <2>2. t.amount \in Nat /\ t.denom \in Denoms /\ t.receiver \in Users
    BY <2>1, SupplyAssumption DEF Ics20Packets
  <2> QED BY <2>1, <2>2, UsersAssumption DEF Recipient
<1>p. PICK u \in Users : u = Recipient(t)
  BY <1>3
<1>4. /\ BALANCES \in Banks /\ BALANCES[c] \in [Accounts \X Denoms -> Nat]
      /\ ICS20 \in Transfers
      /\ IBC_DENOMS \in [Chains -> SUBSET {d \in Denoms : Len(d) > 1}]
      /\ u \in Accounts /\ Lock \in Accounts /\ u # Lock /\ Lock \notin Users
  BY UsersAssumption DEF TInv, TransferTypeOK, Banks, Accounts
<1>5. /\ RECEIVE_PACKET \in [Packets -> {"no", "in time", "timed out"}]
      /\ RECEIVE_PACKET' = [RECEIVE_PACKET EXCEPT ![p] = "in time"]
      /\ UNCHANGED <<SEND_PACKET, TIMEOUT_PACKET, ICS20>>
  BY DEF TInv, IInv, TypeOK, Receive, ReceivePacket
\* Either way u gains the amount, in a denom of the same name.
<1>6. \E d \in Denoms, s \in [Accounts \X Denoms -> Nat] :
        /\ Name(d) = Name(t.denom)
        /\ BankStep(BALANCES, BALANCES', c, s)
        /\ s[<<u, d>>] = BALANCES[c][<<u, d>>] + t.amount
        /\ \A y \in Users \X Denoms : y # <<u, d>> => s[y] = BALANCES[c][y]
        /\ IBC_DENOMS' \in [Chains -> SUBSET {e \in Denoms : Len(e) > 1}]
  <2>1. CASE /\ LockCovers(c, t)
             /\ BALANCES' = [BALANCES EXCEPT ![c] = SendCoins(@, Lock, u, t.denom, t.amount)]
             /\ UNCHANGED IBC_DENOMS
    <3>1. Payable(BALANCES[c], Lock, u, t.denom, t.amount)
      BY <1>3, <1>4, <2>1 DEF Payable, LockCovers, Locked
    <3>2. PICK s : s = SendCoins(BALANCES[c], Lock, u, t.denom, t.amount)
      OBVIOUS
    <3>3. Paid(BALANCES[c], s, Lock, u, t.denom, t.amount)
      BY <3>1, <3>2, SendCoinsDoes
    <3>4. s \in [Accounts \X Denoms -> Nat]
      BY <3>3 DEF Paid
    <3>5. BALANCES' = [BALANCES EXCEPT ![c] = s]
      BY <2>1, <3>2
    <3>6. BankStep(BALANCES, BALANCES', c, s)
      BY <1>4, <3>4, <3>5, BankSteps
    <3>7. ASSUME NEW y \in Users \X Denoms, y # <<u, t.denom>>
          PROVE  s[y] = BALANCES[c][y]
      <4>1. y \in Accounts \X Denoms /\ y # <<Lock, t.denom>>
        BY <1>4 DEF Accounts
      <4> QED BY <3>3, <3>7, <4>1 DEF Paid
    <3>8. s[<<u, t.denom>>] = BALANCES[c][<<u, t.denom>>] + t.amount
      BY <3>3 DEF Paid
    <3>9. IBC_DENOMS' \in [Chains -> SUBSET {e \in Denoms : Len(e) > 1}]
      BY <1>4, <2>1
    <3> HIDE DEF t
    <3> QED BY <1>3, <3>4, <3>6, <3>7, <3>8, <3>9
  <2>2. CASE /\ voucher \in Denoms
             /\ BALANCES' = [BALANCES EXCEPT ![c] = Mint(@, u, voucher, t.amount)]
             /\ IBC_DENOMS' = [IBC_DENOMS EXCEPT ![c] = @ \cup {voucher}]
    <3>1. Len(voucher) > 1 /\ Name(voucher) = Name(t.denom)
      BY <1>3, Wrapped DEF Packets
    <3>p. PICK v \in Denoms : v = voucher
      BY <2>2
    <3>2. PICK s : s = Mint(BALANCES[c], u, v, t.amount)
      OBVIOUS
    <3>3. /\ s \in [Accounts \X Denoms -> Nat]
          /\ s[<<u, v>>] = BALANCES[c][<<u, v>>] + t.amount
          /\ \A y \in Accounts \X Denoms : y # <<u, v>> => s[y] = BALANCES[c][y]
      BY <1>3, <1>4, <3>2 DEF Mint
    <3>4. BALANCES' = [BALANCES EXCEPT ![c] = s]
      BY <2>2, <3>2, <3>p
    <3>5. BankStep(BALANCES, BALANCES', c, s)
      BY <1>4, <3>3, <3>4, BankSteps
    <3>6. ASSUME NEW y \in Users \X Denoms, y # <<u, v>>
          PROVE  s[y] = BALANCES[c][y]
      BY <3>3, <3>6 DEF Accounts
    <3>7. IBC_DENOMS' \in [Chains -> SUBSET {e \in Denoms : Len(e) > 1}]
      <4>1. v \in {e \in Denoms : Len(e) > 1} /\ IBC_DENOMS' = [IBC_DENOMS EXCEPT ![c] = @ \cup {v}]
        BY <2>2, <3>1, <3>p
      <4> QED BY <1>4, <4>1
    <3>8. Name(v) = Name(t.denom)
      BY <3>1, <3>p
    <3> HIDE DEF t, voucher
    <3> QED BY <3>3, <3>5, <3>6, <3>7, <3>8
  <2> QED BY <1>0, <1>p, <2>1, <2>2 DEF Receive
<1>7. PICK d \in Denoms, s \in [Accounts \X Denoms -> Nat] :
        /\ Name(d) = Name(t.denom)
        /\ BankStep(BALANCES, BALANCES', c, s)
        /\ s[<<u, d>>] = BALANCES[c][<<u, d>>] + t.amount
        /\ \A y \in Users \X Denoms : y # <<u, d>> => s[y] = BALANCES[c][y]
        /\ IBC_DENOMS' \in [Chains -> SUBSET {e \in Denoms : Len(e) > 1}]
  BY <1>6
<1>8. BALANCES' \in Banks /\ BALANCES'[c] = s
  BY <1>7 DEF BankStep
<1>9. OneBalance(BALANCES, BALANCES', c, u, d)
  BY <1>7, BankMoves
<1>10. Weighs(ICS20, RECEIVE_PACKET, TIMEOUT_PACKET, p, d, t.amount)
  BY <1>2, <1>3, <1>7 DEF Weighs, Flying, InTransit
<1>11. Weighs(ICS20', RECEIVE_PACKET', TIMEOUT_PACKET', p, d, 0)
  BY <1>5 DEF Weighs, Flying
<1>12. BALANCES'[c][<<u, d>>] + 0 = BALANCES[c][<<u, d>>] + t.amount
  <2>1. BALANCES[c][<<u, d>>] \in Nat
    BY <1>4
  <2> HIDE DEF t
  <2> QED BY <1>3, <1>7, <1>8, <2>1
<1>13. ICS20' \in Transfers
  BY <1>4, <1>5
<1>14. WealthIsConserved'
  <2>1. \A q \in Packets : q # p =>
           /\ ICS20'[q] = ICS20[q] /\ RECEIVE_PACKET'[q] = RECEIVE_PACKET[q]
           /\ q \in TIMEOUT_PACKET' <=> q \in TIMEOUT_PACKET
    BY <1>5
  <2> HIDE DEF t
  <2> QED BY <1>8, <1>9, <1>10, <1>11, <1>12, <1>13, <2>1, ConservedMoves
<1>15. TransferTypeOK'
  <2>1. \A q \in Packets : ICS20'[q] = None <=> SEND_PACKET'[q] = None
    BY <1>5 DEF TInv, TransferTypeOK
  <2> QED BY <1>1, <1>7, <1>8, <2>1 DEF IInv, TransferTypeOK, Banks
<1> QED BY <1>1, <1>13, <1>14, <1>15 DEF TInv

\* A transfer that timed out was received by nobody, and the sender gets the
\* amount back.
LEMMA TimeoutTransferInv ==
    ASSUME TInv, NEW p \in Packets, Timeout(p)
    PROVE  TInv'
<1> DEFINE t == ICS20[p]
<1>0. PICK c \in Chains : c = p.src
  BY DEF Packets
<1>1. IInv'
  BY TimeoutInv DEF TInv, Timeout
<1>2. Expired(p)
  BY DEF TInv, IInv, Timeout, TimeoutPacket, ReportedLate, CanTimeout, Phases, Phase,
         Unsent, InTransit, Delivered, Answered, Expired, Returned
<1>3. t # None /\ t \in Ics20Packets /\ t.amount \in Nat /\ t.denom \in Denoms
  <2>1. t # None
    BY <1>2 DEF Expired, TInv, TransferTypeOK
  <2>2. t \in Ics20Packets
    BY <2>1 DEF TInv, Transfers
  <2> QED BY <2>1, <2>2, SupplyAssumption DEF Ics20Packets
<1>p. PICK u \in Users, d \in Denoms : u = t.sender /\ d = t.denom
  BY <1>3 DEF Ics20Packets
<1>4. /\ BALANCES \in Banks /\ BALANCES[c] \in [Accounts \X Denoms -> Nat]
      /\ ICS20 \in Transfers
      /\ u \in Accounts /\ Lock \in Accounts /\ u # Lock /\ Lock \notin Users
  BY UsersAssumption DEF TInv, TransferTypeOK, Banks, Accounts
<1>5. /\ TIMEOUT_PACKET' = TIMEOUT_PACKET \cup {p}
      /\ UNCHANGED <<SEND_PACKET, RECEIVE_PACKET, ICS20, IBC_DENOMS>>
  BY DEF Timeout, TimeoutPacket
<1>6. PICK s : s = SendCoins(BALANCES[c], Lock, u, d, t.amount)
  OBVIOUS
<1>7. Paid(BALANCES[c], s, Lock, u, d, t.amount)
  <2>1. BALANCES[c][<<Lock, d>>] >= t.amount
    BY <1>0, <1>p DEF Timeout, Refund, LockCovers, Locked
  <2>2. Payable(BALANCES[c], Lock, u, d, t.amount)
    BY <1>3, <1>4, <2>1 DEF Payable
  <2> QED BY <1>6, <2>2, SendCoinsDoes
<1>8. /\ s \in [Accounts \X Denoms -> Nat]
      /\ s[<<u, d>>] = BALANCES[c][<<u, d>>] + t.amount
  BY <1>7 DEF Paid
<1>9. BankStep(BALANCES, BALANCES', c, s)
  <2>1. BALANCES' = [BALANCES EXCEPT ![c] = s]
    BY <1>0, <1>p, <1>6 DEF Timeout, Refund
  <2> QED BY <1>4, <1>8, <2>1, BankSteps
<1>10. BALANCES' \in Banks /\ BALANCES'[c] = s
  BY <1>9 DEF BankStep
<1>11. OneBalance(BALANCES, BALANCES', c, u, d)
  <2>1. ASSUME NEW y \in Users \X Denoms, y # <<u, d>>
        PROVE  s[y] = BALANCES[c][y]
    <3>1. y \in Accounts \X Denoms /\ y # <<Lock, d>>
      BY <1>4 DEF Accounts
    <3> QED BY <1>7, <2>1, <3>1 DEF Paid
  <2> QED BY <1>9, <2>1, BankMoves
<1>12. Weighs(ICS20, RECEIVE_PACKET, TIMEOUT_PACKET, p, d, t.amount)
  BY <1>2, <1>3, <1>p DEF Weighs, Flying, Expired
<1>13. Weighs(ICS20', RECEIVE_PACKET', TIMEOUT_PACKET', p, d, 0)
  BY <1>5 DEF Weighs, Flying
<1>14. BALANCES'[c][<<u, d>>] + 0 = BALANCES[c][<<u, d>>] + t.amount
  <2>1. BALANCES[c][<<u, d>>] \in Nat
    BY <1>4
  <2> HIDE DEF t
  <2> QED BY <1>3, <1>8, <1>10, <2>1
<1>15. ICS20' \in Transfers
  BY <1>4, <1>5
<1>16. WealthIsConserved'
  <2>1. \A q \in Packets : q # p =>
           /\ ICS20'[q] = ICS20[q] /\ RECEIVE_PACKET'[q] = RECEIVE_PACKET[q]
           /\ q \in TIMEOUT_PACKET' <=> q \in TIMEOUT_PACKET
    BY <1>5
  <2> HIDE DEF t
  <2> QED BY <1>10, <1>11, <1>12, <1>13, <1>14, <1>15, <2>1, ConservedMoves
<1>17. TransferTypeOK'
  BY <1>1, <1>5, <1>10 DEF TInv, IInv, TransferTypeOK, Banks
<1> QED BY <1>1, <1>15, <1>16, <1>17 DEF TInv

\* A step that moves no coins and decides no transfer.
LEMMA QuietTransferInv ==
    ASSUME TInv, IInv', UNCHANGED <<bankVars, SEND_PACKET, TIMEOUT_PACKET>>,
           \A p \in Packets : RECEIVE_PACKET'[p] = "in time" <=> RECEIVE_PACKET[p] = "in time"
    PROVE  TInv'
<1>1. UNCHANGED <<BALANCES, IBC_DENOMS, ICS20, SEND_PACKET, TIMEOUT_PACKET>>
  BY DEF bankVars
<1>2. \A name : Flight(ICS20, RECEIVE_PACKET', TIMEOUT_PACKET, name)
                 = Flight(ICS20, RECEIVE_PACKET, TIMEOUT_PACKET, name)
  BY DEF Flight, Flying
<1>3. \A name : Wealth(BALANCES, ICS20, RECEIVE_PACKET', TIMEOUT_PACKET, name)
                 = Wealth(BALANCES, ICS20, RECEIVE_PACKET, TIMEOUT_PACKET, name)
  BY <1>2 DEF Wealth
<1>4. Conserved(BALANCES, ICS20, RECEIVE_PACKET', TIMEOUT_PACKET)
  BY <1>3, ConservedIs DEF TInv, Conserved
<1>5. WealthIsConserved'
  BY <1>1, <1>4, ConservedIsNext
<1> QED BY <1>1, <1>5 DEF TInv, IInv, TransferTypeOK

\* All that there is at first is with the owner, in the denoms of each chain.
LEMMA InitTInv == TransferInit => TInv
<1> SUFFICES ASSUME TransferInit PROVE TInv
  OBVIOUS
<1> DEFINE first(c, x) == IF x[1] = Owner /\ Len(x[2]) = 1 THEN Supply[c][x[2][1]] ELSE 0
<1>1. IInv
  BY InitIInv DEF TransferInit
<1>2. /\ \A c \in Chains : \A x \in Accounts \X Denoms : BALANCES[c][x] = first(c, x)
      /\ IBC_DENOMS = [c \in Chains |-> {}]
      /\ ICS20 = [p \in Packets |-> None]
      /\ SEND_PACKET = [p \in Packets |-> None]
  BY DEF TransferInit, Init
<1>3. ICS20 \in Transfers
  BY <1>2 DEF Transfers
<1>4. BALANCES \in Banks
  <2>1. ASSUME NEW c \in Chains, NEW x \in Accounts \X Denoms
        PROVE  first(c, x) \in Nat
    <3>1. CASE Len(x[2]) = 1
      <4>1. x[2][1] \in Natives
        BY <3>1, DenomProperties DEF Name
      <4> QED BY <4>1, SupplyAssumption
    <3>2. CASE Len(x[2]) # 1
      BY <3>2
    <3> QED BY <3>1, <3>2
  <2> HIDE DEF first
  <2>2. BALANCES = [c \in Chains |-> [x \in Accounts \X Denoms |-> first(c, x)]]
    BY DEF TransferInit, first
  <2> QED BY <2>1, <2>2 DEF Banks
<1>5. TransferTypeOK
  BY <1>1, <1>2, <1>4 DEF IInv, TransferTypeOK, Banks
<1>6. ASSUME NEW name \in Natives
      PROVE  Wealth(BALANCES, ICS20, RECEIVE_PACKET, TIMEOUT_PACKET, name) = AtFirst(name)
  <2> DEFINE coin == <<name>>
             place == [c \in Chains |-> <<c, <<Owner, coin>>>>]
             R == {x \in Held(name) : \E c \in Chains : place[c] = x}
             supply == [c \in Chains |-> Supply[c][name]]
             purse == Purse(BALANCES, name)
             owned == [x \in R |-> purse[x]]
             load == Load(ICS20, RECEIVE_PACKET, TIMEOUT_PACKET, name)
  <2>1. SumFunctionOnSet(load, Packets) = 0
    <3>1. \A p \in Packets : load[p] = 0
      BY <1>2 DEF Load, Flight, Flying
    <3> HIDE DEF load
    <3> QED BY <3>1, PacketsFinite, SumOfZeros
  <2>2. coin \in Denoms /\ Len(coin) = 1 /\ Name(coin) = name /\ coin[1] = name
    BY NativeDenom
  <2>3. \A c \in Chains : place[c] \in Held(name)
    BY <2>2, UsersAssumption DEF Held
  <2>4. Natural(purse, Held(name)) /\ IsFiniteSet(Held(name))
    BY <1>4, PurseIsNatural, HeldFinite
  <2>5. ASSUME NEW c \in Chains
        PROVE  purse[place[c]] = supply[c]
    <3>1. purse[place[c]] = BALANCES[c][<<Owner, coin>>]
      BY <2>3 DEF Purse
    <3>2. <<Owner, coin>> \in Accounts \X Denoms
      BY <2>2, UsersAssumption DEF Accounts
    <3>3. BALANCES[c][<<Owner, coin>>] = first(c, <<Owner, coin>>)
      BY <1>2, <3>2
    <3> QED BY <2>2, <3>1, <3>3
  <2>6. ASSUME NEW x \in Held(name), x \notin R
        PROVE  purse[x] = 0
    <3>1. PICK c \in Chains, u \in Users, d \in Denoms :
            x = <<c, <<u, d>>>> /\ Name(d) = name
      BY DEF Held
    <3>2. purse[x] = first(c, <<u, d>>)
      BY <1>2, <3>1 DEF Purse, Accounts
    <3>3. ASSUME u = Owner, Len(d) = 1 PROVE FALSE
      <4>1. d \in Seq(Channels \cup Natives) /\ d[1] = name
        BY <3>1, <3>3, DenomProperties DEF Name
      <4>2. coin \in Seq(Channels \cup Natives)
        BY <2>2, DenomProperties
      <4>3. \A i \in 1 .. Len(d) : d[i] = coin[i]
        BY <2>2, <3>3, <4>1
      <4> HIDE DEF coin
      <4>4. d = coin
        BY <2>2, <3>3, <4>1, <4>2, <4>3, SeqEqual
      <4> QED BY <2>6, <3>1, <3>3, <4>4
    <3> QED BY <3>2, <3>3
  <2>7. /\ \A c \in Chains : place[c] \in R
        /\ \A c, k \in Chains : place[c] = place[k] => c = k
        /\ \A x \in R : \E c \in Chains : place[c] = x
        /\ R \subseteq Held(name)
    BY <2>3
  <2>8. place \in [Chains -> R]
    BY <2>7
  <2> HIDE DEF place, R, coin
  <2>9. IsFiniteSet(R)
    BY <2>4, <2>7, FS_Subset
  <2>10. Natural(supply, Chains)
    BY SupplyAssumption DEF Natural
  <2>11. \A c \in Chains : owned[place[c]] = supply[c]
    BY <2>5, <2>7
  <2>12. DOMAIN owned = R /\ \A x \in R : owned[x] = purse[x]
    OBVIOUS
  <2>13. SumFunction(supply) = SumFunctionOnSet(supply, Chains)
    BY SumIsOnDomain
  <2>14. AtFirst(name) = SumFunction(supply)
    BY DEF AtFirst
  <2> HIDE DEF supply, purse, owned, load
  <2>15. SumFunctionOnSet(supply, Chains) = SumFunctionOnSet(owned, R)
    <3>1. Renames(place, Chains, R) /\ Carries(place, Chains, supply, owned)
      BY <2>7, <2>8, <2>11 DEF Renames, Carries
    <3> QED BY <2>9, <2>10, <3>1, ChainsFinite, SumReindexed
  <2>16. SumFunction(owned) = SumFunctionOnSet(owned, R)
    BY <2>12, SumIsOnDomain
  <2>17. SumFunction(owned) = SumFunctionOnSet(purse, Held(name))
    BY <2>4, <2>6, <2>7, <2>12, SumWithin
  <2>18. SumFunctionOnSet(purse, Held(name)) \in Nat
    BY <2>4, SumIsNatural
  <2>19. Wealth(BALANCES, ICS20, RECEIVE_PACKET, TIMEOUT_PACKET, name)
           = SumFunctionOnSet(purse, Held(name)) + SumFunctionOnSet(load, Packets)
    BY <1>3, <1>4, WealthIsSum DEF purse, load
  <2> QED BY <2>1, <2>13, <2>14, <2>15, <2>16, <2>17, <2>18, <2>19
<1>7. WealthIsConserved
  BY <1>6, ConservedIs DEF Conserved
<1> QED BY <1>1, <1>3, <1>5, <1>7 DEF TInv

LEMMA NextTInv == TInv /\ [TransferNext]_transferVars => TInv'
<1> SUFFICES ASSUME TInv, [TransferNext]_transferVars
             PROVE  TInv'
  OBVIOUS
<1>1. IInv /\ RECEIVE_PACKET \in [Packets -> {"no", "in time", "timed out"}]
  BY DEF TInv, IInv, TypeOK
<1>2. ASSUME NEW p \in Packets, NEW sender \in Users, NEW receiver \in Users,
             NEW denom \in Denoms, NEW amount \in Amounts, NEW memo \in Memos,
             NEW timeout \in Timeouts,
             Transfer(p, sender, receiver, denom, amount, memo, timeout)
      PROVE  TInv'
  BY <1>2, TransferInv
<1>3. ASSUME NEW p \in Packets, Receive(p)
      PROVE  TInv'
  BY <1>3, ReceiveTransferInv
<1>4. ASSUME NEW p \in Packets, ReceiveLate(p)
      PROVE  TInv'
  <2>1. IInv'
    BY <1>1, <1>4, ReceiveLateInv DEF ReceiveLate
  <2>2. \A q \in Packets : RECEIVE_PACKET'[q] = "in time" <=> RECEIVE_PACKET[q] = "in time"
    BY <1>1, <1>4 DEF ReceiveLate, ReceiveLatePacket, NotReceived
  <2> QED BY <1>4, <2>1, <2>2, QuietTransferInv DEF ReceiveLate, ReceiveLatePacket
<1>5. ASSUME NEW p \in Packets, Acknowledge(p)
      PROVE  TInv'
  <2>1. IInv'
    BY <1>1, <1>5, AcknowledgeInv DEF Acknowledge
  <2> QED BY <1>5, <2>1, QuietTransferInv DEF Acknowledge, AcknowledgePacket
<1>6. ASSUME NEW p \in Packets, Timeout(p)
      PROVE  TInv'
  BY <1>6, TimeoutTransferInv
<1>7. ASSUME NEW c \in Chains, TransferNextBlock(c)
      PROVE  TInv'
  <2>1. IInv'
    BY <1>1, <1>7, NextBlockInv DEF TransferNextBlock
  <2> QED BY <1>7, <2>1, QuietTransferInv DEF TransferNextBlock, NextBlock, ibcVars
<1>8. CASE UNCHANGED transferVars
  <2>1. UNCHANGED vars /\ UNCHANGED bankVars
    BY <1>8 DEF transferVars
  <2>2. IInv'
    BY <1>1, <2>1, NextIInv
  <2> QED BY <2>1, <2>2, QuietTransferInv DEF vars
<1> QED BY <1>2, <1>3, <1>4, <1>5, <1>6, <1>7, <1>8 DEF TransferNext

\* The balances of both chains stay amounts whatever is transferred, received, timed
\* out and refunded: burn of src/bank.rs never takes what is not there, IBC_DENOMS
\* holds wrapped denoms only, and transfers and packets stay together.
THEOREM TransferTypeCorrect == TransferSpec => []TransferTypeOK
<1>1. TInv => TransferTypeOK
  BY DEF TInv
<1> QED
  BY <1>1, InitTInv, NextTInv, PTL DEF TransferSpec

\* Nobody gains or loses by transfers, over any number of channels and denoms of any
\* path, in whatever order packets arrive, are late and are refunded: transfer,
\* ibc_packet_receive and ibc_packet_timeout of src/bank.rs.
THEOREM WealthStaysTheSame == TransferSpec => []WealthIsConserved
<1>1. TInv => WealthIsConserved
  BY DEF TInv
<1> QED
  BY <1>1, InitTInv, NextTInv, PTL DEF TransferSpec

\* The bank is one of the applications that IbcPackets leaves free.
LEMMA TransferStep == [TransferNext]_transferVars => [Next]_vars
<1> SUFFICES ASSUME [TransferNext]_transferVars
             PROVE  [Next]_vars
  OBVIOUS
<1>1. ASSUME NEW p \in Packets, NEW sender \in Users, NEW receiver \in Users,
             NEW denom \in Denoms, NEW amount \in Amounts, NEW memo \in Memos,
             NEW timeout \in Timeouts,
             Transfer(p, sender, receiver, denom, amount, memo, timeout)
      PROVE  Next
  BY <1>1 DEF Transfer, Next
<1>2. ASSUME NEW p \in Packets, Receive(p)
      PROVE  Next
  <2>1. AckOf(ICS20[p]) \in Responses
    BY AcksAssumption DEF AckOf
  <2>2. ReceivePacket(p, AckOf(ICS20[p]))
    BY <1>2 DEF Receive
  <2> QED BY <2>1, <2>2 DEF Next
<1>3. ASSUME NEW p \in Packets, ReceiveLate(p) \/ Acknowledge(p) \/ Timeout(p)
      PROVE  Next
  BY <1>3 DEF ReceiveLate, Acknowledge, Timeout, Next
<1>4. ASSUME NEW c \in Chains, TransferNextBlock(c)
      PROVE  Next
  BY <1>4 DEF TransferNextBlock, Next
<1>5. CASE UNCHANGED transferVars
  BY <1>5 DEF transferVars
<1> QED BY <1>1, <1>2, <1>3, <1>4, <1>5 DEF TransferNext

\* Whatever the bank refuses, its packets keep the promises of PacketLife: no transfer
\* is received twice, or both acknowledged and refunded.
THEOREM TransfersArePackets == TransferSpec => ImplementsPacketLife
<1>1. TransferInit => Init
  BY DEF TransferInit
<1>2. TransferSpec => Spec
  BY <1>1, TransferStep, PTL DEF TransferSpec, Spec
<1> QED BY <1>2, Refinement

-----------------------------------------------------------------------------
(* Denoms that were wrapped *)

\* The parts of a wrapped denom.
LEMMA WrappedParts ==
    ASSUME NEW d \in Denoms, NEW channel \in Channels
    PROVE  /\ Wrap(channel, d) \in Seq(Channels \cup Natives)
           /\ Len(Wrap(channel, d)) = 1 + Len(d)
           /\ Wrap(channel, d)[1] = channel
           /\ \A i \in 1 .. Len(d) : Wrap(channel, d)[i + 1] = d[i]
<1> DEFINE S == Channels \cup Natives
           first == <<channel>>
           w == Wrap(channel, d)
<1>1. d \in Seq(S) /\ Len(d) \in Nat \ {0}
  BY DenomProperties
<1>2. first \in Seq(S) /\ Len(first) = 1 /\ first[1] = channel
  OBVIOUS
<1>3. w = first \o d
  BY DEF Wrap
<1> HIDE DEF first, S, w
<1>4. /\ w \in Seq(S) /\ Len(w) = 1 + Len(d)
      /\ \A i \in 1 .. 1 + Len(d) : w[i] = IF i <= 1 THEN first[i] ELSE d[i - 1]
  <2>1. /\ w \in Seq(S) /\ Len(w) = Len(first) + Len(d)
        /\ \A i \in 1 .. Len(first) + Len(d) :
              w[i] = IF i <= Len(first) THEN first[i] ELSE d[i - Len(first)]
    BY <1>1, <1>2, <1>3, ConcatProperties
  <2> QED BY <1>1, <1>2, <2>1
<1>5. PICK n \in Nat : n = Len(d)
  BY <1>1
<1>6. w[1] = channel
  BY <1>2, <1>4, <1>5
<1>7. ASSUME NEW i \in 1 .. n PROVE w[i + 1] = d[i]
  <2>1. i + 1 \in 1 .. 1 + n /\ ~(i + 1 <= 1) /\ i + 1 - 1 = i
    BY <1>5
  <2>2. \A m \in 1 .. 1 + n : w[m] = IF m <= 1 THEN first[m] ELSE d[m - 1]
    BY <1>4, <1>5
  <2> QED BY <2>1, <2>2
<1> QED BY <1>4, <1>5, <1>6, <1>7 DEF w, S

\* A wrapped denom tells its channel and what was wrapped.
LEMMA WrapIsInjective ==
    ASSUME NEW d \in Denoms, NEW e \in Denoms, NEW x \in Channels, NEW y \in Channels,
           Wrap(x, d) = Wrap(y, e)
    PROVE  x = y /\ d = e
<1> PICK v : v = Wrap(x, d)
  OBVIOUS
<1> DEFINE S == Channels \cup Natives
<1>1. /\ d \in Seq(S) /\ e \in Seq(S) /\ Len(d) \in Nat /\ Len(e) \in Nat
  BY DenomProperties
<1>2. /\ Len(v) = 1 + Len(d) /\ v[1] = x
      /\ \A i \in 1 .. Len(d) : v[i + 1] = d[i]
  BY WrappedParts
<1>3. /\ Len(v) = 1 + Len(e) /\ v[1] = y
      /\ \A i \in 1 .. Len(e) : v[i + 1] = e[i]
  BY WrappedParts
<1>4. Len(d) = Len(e)
  BY <1>1, <1>2, <1>3
<1>5. \A i \in 1 .. Len(d) : d[i] = e[i]
  BY <1>2, <1>3, <1>4
<1> HIDE DEF S
<1>6. d = e
  BY <1>1, <1>4, <1>5, SeqEqual
<1> QED BY <1>2, <1>3, <1>6

\* A denom with a path is its tail, wrapped.
LEMMA UnwrapsTo ==
    ASSUME NEW d \in Denoms, Len(d) > 1
    PROVE  Head(d) \in Channels /\ d = Wrap(Head(d), Tail(d))
<1> DEFINE S == Channels \cup Natives
<1>1. PICK n \in 0 .. MaxHops : IsDenom(d, n)
  BY DenomHasForm
<1>2. /\ n \in Nat /\ d \in Seq(S) /\ Len(d) = n + 1 /\ n > 0
      /\ \A i \in 1 .. n : d[i] \in Channels
  BY <1>1, SupplyAssumption DEF IsDenom
<1>3. d # <<>>
  BY <1>2
<1>4. PICK x, t : x = Head(d) /\ t = Tail(d)
  OBVIOUS
<1>5. x = d[1] /\ Len(t) = n /\ \A i \in 1 .. n : t[i] = d[i + 1]
  <2> HIDE DEF S
  <2>1. /\ Head(d) = d[1] /\ Len(Tail(d)) = Len(d) - 1
        /\ \A i \in 1 .. Len(Tail(d)) : Tail(d)[i] = d[i + 1]
    BY <1>2, <1>3, HeadTailProperties
  <2>2. Len(t) = n
    BY <1>2, <1>4, <2>1
  <2> QED BY <1>4, <2>1, <2>2
<1>6. x \in Channels
  BY <1>2, <1>5
<1>7. t \in Denoms
  BY <1>4, Unwrapped
<1>8. PICK w : w = Wrap(x, t)
  OBVIOUS
<1>9. /\ w \in Seq(S) /\ Len(w) = 1 + n /\ w[1] = x /\ \A i \in 1 .. n : w[i + 1] = t[i]
  BY <1>5, <1>6, <1>7, <1>8, WrappedParts
<1>10. ASSUME NEW i \in 1 .. n + 1 PROVE w[i] = d[i]
  <2>1. CASE i = 1
    BY <1>5, <1>9, <2>1
  <2>2. CASE i # 1
    <3>1. i - 1 \in 1 .. n /\ (i - 1) + 1 = i
      BY <1>2, <2>2
    <3> QED BY <1>5, <1>9, <3>1
  <2> QED BY <2>1, <2>2
<1>11. w = d
  <2>1. Len(w) = Len(d) /\ \A i \in 1 .. Len(w) : w[i] = d[i]
    BY <1>2, <1>9, <1>10
  <2> HIDE DEF S
  <2> QED BY <1>2, <1>9, <2>1, SeqEqual
<1> QED BY <1>4, <1>6, <1>8, <1>11

-----------------------------------------------------------------------------
(* What the lock account owes *)

\* Each name is native to one of the chains.
NativeAtOneChain == \A name \in Natives : \E c \in Chains : Supply[c][name] = 0

\* That chain, and whether coins of d may be on chain c: at home with a path of even
\* length, on the other chain with one of odd length.
Home(name) == CHOOSE c \in Chains : Supply[Other(c)][name] = 0
Right(c, d) == (c = Home(Name(d))) <=> (Len(d) % 2 = 1)

\* Of each packet, the coins d that chain c locked for it, that were not refunded, and
\* for which there is no voucher on the other chain: the packet did not arrive in
\* time, or it brought back a voucher.
Owing(i, r, t, c, d) ==
    [p \in Packets |->
       IF /\ p.src = c /\ i[p] # None /\ p \notin t /\ i[p].locked = d
          /\ r[p] # "in time" \/ i[p].denom # d
       THEN i[p].amount ELSE 0]

\* The coins d that chain c released to it.
Releasing(i, r, c, d) ==
    [p \in Packets |->
       IF /\ p.src # c /\ i[p] # None /\ r[p] = "in time"
          /\ i[p].denom = d /\ i[p].locked # d
       THEN i[p].amount ELSE 0]

\* The vouchers for coins d of chain c, on the other chain, of each account and
\* channel.
Vouchers(b, c, d) ==
    [x \in Accounts \X Channels |->
       IF Wrap(x[2], d) \in Denoms THEN b[Other(c)][<<x[1], Wrap(x[2], d)>>] ELSE 0]

Owed(i, r, t, c, d) == SumFunctionOnSet(Owing(i, r, t, c, d), Packets)
Released(i, r, c, d) == SumFunctionOnSet(Releasing(i, r, c, d), Packets)
Issued(b, c, d) == SumFunctionOnSet(Vouchers(b, c, d), Accounts \X Channels)

LEMMA VouchersFinite == IsFiniteSet(Accounts \X Channels)
<1>1. IsFiniteSet(Accounts)
  <2>1. IsFiniteSet({Lock})
    BY FS_Singleton
  <2> QED BY <2>1, FiniteAssumption, FS_Union DEF Accounts
<1> QED BY <1>1, FiniteAssumption, FS_Product

LEMMA VouchersAreNatural ==
    ASSUME NEW b \in Banks, NEW c \in Chains, NEW d
    PROVE  Natural(Vouchers(b, c, d), Accounts \X Channels)
<1>1. Other(c) \in Chains
  BY OtherChain
<1>2. ASSUME NEW y \in Accounts \X Denoms PROVE b[Other(c)][y] \in Nat
  BY <1>1 DEF Banks
<1>3. ASSUME NEW x \in Accounts \X Channels PROVE Vouchers(b, c, d)[x] \in Nat
  <2>1. CASE Wrap(x[2], d) \in Denoms
    <3>1. <<x[1], Wrap(x[2], d)>> \in Accounts \X Denoms
      BY <2>1
    <3>2. PICK y : y = <<x[1], Wrap(x[2], d)>>
      OBVIOUS
    <3> QED BY <1>2, <2>1, <3>1, <3>2 DEF Vouchers
  <2>2. CASE Wrap(x[2], d) \notin Denoms
    BY <2>2 DEF Vouchers
  <2> QED BY <2>1, <2>2
<1> QED BY <1>3 DEF Natural

LEMMA AmountIsNatural ==
    ASSUME NEW i \in Transfers, NEW p \in Packets, i[p] # None
    PROVE  i[p].amount \in Nat \ {0} /\ i[p].denom \in Denoms /\ i[p].locked \in Denoms
<1>1. i[p] \in Ics20Packets
  BY DEF Transfers
<1> QED BY <1>1, SupplyAssumption DEF Ics20Packets

LEMMA OwingIsNatural ==
    ASSUME NEW i \in Transfers, NEW r, NEW t, NEW c, NEW d
    PROVE  Natural(Owing(i, r, t, c, d), Packets) /\ Natural(Releasing(i, r, c, d), Packets)
<1>1. \A p \in Packets : i[p] # None => i[p].amount \in Nat
  BY AmountIsNatural
<1> QED BY <1>1 DEF Owing, Releasing, Natural

\* The step of one packet.
LEMMA OwedChanges ==
    ASSUME NEW i \in Transfers, NEW r, NEW t, NEW j \in Transfers, NEW s, NEW o,
           NEW p \in Packets,
           \A q \in Packets : q # p => j[q] = i[q] /\ s[q] = r[q] /\ (q \in o <=> q \in t),
           NEW c \in Chains, NEW d \in Denoms
    PROVE  /\ Owed(j, s, o, c, d) + Owing(i, r, t, c, d)[p]
                = Owed(i, r, t, c, d) + Owing(j, s, o, c, d)[p]
           /\ Released(j, s, c, d) + Releasing(i, r, c, d)[p]
                = Released(i, r, c, d) + Releasing(j, s, c, d)[p]
<1>1. \A q \in Packets : q # p => Owing(j, s, o, c, d)[q] = Owing(i, r, t, c, d)[q]
  BY DEF Owing
<1>2. \A q \in Packets : q # p => Releasing(j, s, c, d)[q] = Releasing(i, r, c, d)[q]
  BY DEF Releasing
<1>3. /\ Natural(Owing(i, r, t, c, d), Packets) /\ Natural(Releasing(i, r, c, d), Packets)
      /\ Natural(Owing(j, s, o, c, d), Packets) /\ Natural(Releasing(j, s, c, d), Packets)
  BY OwingIsNatural
<1>4. Owed(j, s, o, c, d) + Owing(i, r, t, c, d)[p]
        = Owed(i, r, t, c, d) + Owing(j, s, o, c, d)[p]
  BY <1>1, <1>3, PacketsFinite, SumChanges DEF Owed
<1>5. Released(j, s, c, d) + Releasing(i, r, c, d)[p]
        = Released(i, r, c, d) + Releasing(j, s, c, d)[p]
  BY <1>2, <1>3, PacketsFinite, SumChanges DEF Released
<1> QED BY <1>4, <1>5

\* The balances b and a agree on the vouchers for coins d of chain c.
SameVouchers(b, a, c, d) ==
    \A x \in Accounts \X Channels : Wrap(x[2], d) \in Denoms =>
       a[Other(c)][<<x[1], Wrap(x[2], d)>>] = b[Other(c)][<<x[1], Wrap(x[2], d)>>]

LEMMA IssuedElsewhere ==
    ASSUME NEW b, NEW a, NEW c \in Chains, NEW d, SameVouchers(b, a, c, d)
    PROVE  Issued(a, c, d) = Issued(b, c, d)
<1>1. \A x \in Accounts \X Channels : Vouchers(a, c, d)[x] = Vouchers(b, c, d)[x]
  BY DEF Vouchers, SameVouchers
<1> QED BY <1>1, VouchersFinite, SumsAreSame DEF Issued

\* Coins that change hands on a chain.
LEMMA IssuedMoves ==
    ASSUME NEW b \in Banks, NEW a, NEW k \in Chains, NEW s, BankStep(b, a, k, s),
           NEW from \in Accounts, NEW to \in Accounts, from # to,
           NEW denom \in Denoms, NEW amount \in Nat, Paid(b[k], s, from, to, denom, amount),
           b[k][<<from, denom>>] >= amount,
           NEW c \in Chains, NEW d \in Denoms
    PROVE  Issued(a, c, d) = Issued(b, c, d)
<1>0. a \in Banks /\ a[k] = s /\ \A m \in Chains : m # k => a[m] = b[m]
  BY DEF BankStep
<1>1. CASE Other(c) # k
  <2>1. a[Other(c)] = b[Other(c)]
    BY <1>0, <1>1, OtherChain
  <2>2. SameVouchers(b, a, c, d)
    BY <2>1 DEF SameVouchers
  <2> QED BY <2>2, IssuedElsewhere
<1>2. CASE Other(c) = k /\ ~(\E y \in Channels : Wrap(y, d) = denom)
  <2>1. ASSUME NEW x \in Accounts \X Channels, Wrap(x[2], d) \in Denoms
        PROVE  a[Other(c)][<<x[1], Wrap(x[2], d)>>] = b[Other(c)][<<x[1], Wrap(x[2], d)>>]
    <3>1. PICK w : w = Wrap(x[2], d)
      OBVIOUS
    <3>2. w \in Denoms /\ w # denom /\ x[1] \in Accounts
      BY <1>2, <2>1, <3>1
    <3>3. s[<<x[1], w>>] = b[k][<<x[1], w>>]
      <4>1. PICK y : y = <<x[1], w>>
        OBVIOUS
      <4>2. y \in Accounts \X Denoms /\ y # <<from, denom>> /\ y # <<to, denom>>
        BY <3>2, <4>1
      <4> QED BY <4>1, <4>2 DEF Paid
    <3> QED BY <1>0, <1>2, <3>1, <3>3
  <2>2. SameVouchers(b, a, c, d)
    BY <2>1 DEF SameVouchers
  <2> QED BY <2>2, IssuedElsewhere
<1>3. ASSUME Other(c) = k, NEW y \in Channels, Wrap(y, d) = denom
      PROVE  Issued(a, c, d) = Issued(b, c, d)
  <2> DEFINE f == Vouchers(b, c, d)
             g == Vouchers(a, c, d)
             S == Accounts \X Channels
             x == <<from, y>>
             z == <<to, y>>
  <2>1. Natural(f, S) /\ Natural(g, S)
    BY <1>0, VouchersAreNatural
  <2>2. x \in S /\ z \in S /\ x # z
    OBVIOUS
  <2>3. /\ f[x] = b[k][<<from, denom>>] /\ f[z] = b[k][<<to, denom>>]
        /\ g[x] = s[<<from, denom>>] /\ g[z] = s[<<to, denom>>]
    BY <1>0, <1>3 DEF Vouchers
  <2>4. f[x] \in Nat /\ f[z] \in Nat
    BY <2>1, <2>2 DEF Natural
  <2>5. g[x] + amount = f[x] /\ g[z] = f[z] + amount
    <3>1. s[<<from, denom>>] = b[k][<<from, denom>>] - amount
      BY DEF Paid
    <3>2. s[<<to, denom>>] = b[k][<<to, denom>>] + amount
      BY DEF Paid
    <3> HIDE DEF f, g
    <3> QED BY <2>3, <2>4, <3>1, <3>2
  <2>6. ASSUME NEW v \in S, v # x, v # z
        PROVE  g[v] = f[v]
    <3>1. PICK w : w = Wrap(v[2], d)
      OBVIOUS
    <3>2. CASE w \in Denoms
      <4>1. PICK u \in Accounts, q \in Channels : v = <<u, q>>
        OBVIOUS
      <4>2. <<u, w>> # <<from, denom>> /\ <<u, w>> # <<to, denom>>
        <5>1. w = Wrap(q, d)
          BY <3>1, <4>1
        <5>2. ASSUME w = denom PROVE q = y
          BY <1>3, <5>1, <5>2, WrapIsInjective
        <5> QED BY <2>6, <4>1, <5>2
      <4>3. s[<<u, w>>] = b[k][<<u, w>>]
        BY <3>2, <4>2 DEF Paid
      <4> QED BY <1>0, <1>3, <3>1, <3>2, <4>1, <4>3 DEF Vouchers
    <3>3. CASE w \notin Denoms
      BY <3>1, <3>3 DEF Vouchers
    <3> QED BY <3>2, <3>3
  <2> HIDE DEF f, g, S, x, z
  <2>7. SumFunctionOnSet(g, S) = SumFunctionOnSet(f, S)
    <3>1. IsFiniteSet(S)
      BY VouchersFinite DEF S
    <3> QED BY <2>1, <2>2, <2>5, <2>6, <3>1, SumMoves
  <2> QED BY <2>7 DEF Issued, f, g, S
<1> QED BY <1>1, <1>2, <1>3

\* s are the balances of chain k with new coins of u.
Minted(b, s, k, u, denom, amount) ==
    /\ s[<<u, denom>>] = b[k][<<u, denom>>] + amount
    /\ \A y \in Accounts \X Denoms : y # <<u, denom>> => s[y] = b[k][y]

\* New vouchers for e, on chain k.
LEMMA IssuedGrows ==
    ASSUME NEW b \in Banks, NEW a, NEW k \in Chains, NEW s, BankStep(b, a, k, s),
           NEW u \in Accounts, NEW y \in Channels, NEW e \in Denoms, NEW v \in Denoms,
           v = Wrap(y, e), NEW amount \in Nat,
           Minted(b, s, k, u, v, amount),
           NEW c \in Chains, NEW d \in Denoms
    PROVE  Issued(a, c, d) = Issued(b, c, d) + IF Other(c) = k /\ d = e THEN amount ELSE 0
<1>0. a \in Banks /\ a[k] = s /\ \A m \in Chains : m # k => a[m] = b[m]
  BY DEF BankStep
<1>m. /\ s[<<u, v>>] = b[k][<<u, v>>] + amount
      /\ \A w \in Accounts \X Denoms : w # <<u, v>> => s[w] = b[k][w]
  BY DEF Minted
<1>n. Issued(b, c, d) \in Nat
  BY VouchersAreNatural, VouchersFinite, SumIsNatural DEF Issued
<1>1. CASE Other(c) # k
  <2>1. a[Other(c)] = b[Other(c)]
    BY <1>0, <1>1, OtherChain
  <2>2. Issued(a, c, d) = Issued(b, c, d)
    <3>1. SameVouchers(b, a, c, d)
      BY <2>1 DEF SameVouchers
    <3> QED BY <3>1, IssuedElsewhere
  <2> QED BY <1>1, <1>n, <2>2
<1>2. CASE Other(c) = k /\ d # e
  <2>1. ASSUME NEW x \in Accounts \X Channels, Wrap(x[2], d) \in Denoms
        PROVE  a[Other(c)][<<x[1], Wrap(x[2], d)>>] = b[Other(c)][<<x[1], Wrap(x[2], d)>>]
    <3>1. PICK w : w = Wrap(x[2], d)
      OBVIOUS
    <3>2. w \in Denoms /\ x[1] \in Accounts /\ x[2] \in Channels
      BY <2>1, <3>1
    <3>3. w # v
      BY <1>2, <3>1, <3>2, WrapIsInjective
    <3>4. s[<<x[1], w>>] = b[k][<<x[1], w>>]
      BY <1>m, <3>2, <3>3
    <3> QED BY <1>0, <1>2, <3>1, <3>4
  <2>2. Issued(a, c, d) = Issued(b, c, d)
    <3>1. SameVouchers(b, a, c, d)
      BY <2>1 DEF SameVouchers
    <3> QED BY <3>1, IssuedElsewhere
  <2> QED BY <1>2, <1>n, <2>2
<1>3. CASE Other(c) = k /\ d = e
  <2> DEFINE f == Vouchers(b, c, d)
             g == Vouchers(a, c, d)
             S == Accounts \X Channels
             x == <<u, y>>
  <2>1. Natural(f, S) /\ Natural(g, S)
    BY <1>0, VouchersAreNatural
  <2>2. x \in S
    OBVIOUS
  <2>3. f[x] = b[k][<<u, v>>] /\ g[x] = s[<<u, v>>]
    BY <1>0, <1>3 DEF Vouchers
  <2>4. ASSUME NEW z \in S, z # x
        PROVE  g[z] = f[z]
    <3>1. PICK w : w = Wrap(z[2], d)
      OBVIOUS
    <3>2. CASE w \in Denoms
      <4>1. PICK m \in Accounts, q \in Channels : z = <<m, q>>
        OBVIOUS
      <4>2. <<m, w>> # <<u, v>>
        <5>1. w = Wrap(q, d)
          BY <3>1, <4>1
        <5>2. ASSUME w = v PROVE q = y
          BY <5>1, <5>2, WrapIsInjective
        <5> QED BY <2>4, <4>1, <5>2
      <4>3. s[<<m, w>>] = b[k][<<m, w>>]
        BY <1>m, <3>2, <4>2
      <4> QED BY <1>0, <1>3, <3>1, <3>2, <4>1, <4>3 DEF Vouchers
    <3>3. CASE w \notin Denoms
      BY <3>1, <3>3 DEF Vouchers
    <3> QED BY <3>2, <3>3
  <2>5. f[x] \in Nat /\ g[x] \in Nat
    BY <2>1, <2>2 DEF Natural
  <2> HIDE DEF f, g, S, x
  <2>6. SumFunctionOnSet(g, S) + f[x] = SumFunctionOnSet(f, S) + g[x]
    <3>1. IsFiniteSet(S)
      BY VouchersFinite DEF S
    <3> QED BY <2>1, <2>2, <2>4, <3>1, SumChanges
  <2>7. Issued(a, c, d) + f[x] = Issued(b, c, d) + g[x]
    BY <2>6 DEF Issued, f, g, S
  <2>8. g[x] = f[x] + amount
    BY <1>m, <2>3
  <2>9. Issued(a, c, d) \in Nat
    BY <1>0, VouchersAreNatural, VouchersFinite, SumIsNatural DEF Issued
  <2> QED BY <1>3, <1>n, <2>5, <2>7, <2>8, <2>9
<1> QED BY <1>1, <1>2, <1>3

\* Coins are only where they may be...
CoinsAtHome(b) ==
    \A c \in Chains, u \in Accounts, d \in Denoms : b[c][<<u, d>>] # 0 => Right(c, d)

\* ... and a packet names the coins it locked, or what they are vouchers for.
PacketsAtHome(i) ==
    \A p \in Packets : i[p] # None =>
      /\ Right(p.src, i[p].locked)
      /\ i[p].denom = i[p].locked \/ i[p].locked = Wrap(p.channel, i[p].denom)

\* A packet that was received in time does not time out.
Settled(r, t) == \A p \in Packets : r[p] = "in time" => p \notin t

\* The lock account never loses what it owes for packets...
Solvent(b, i, r, t) ==
    \A c \in Chains, d \in Denoms : b[c][<<Lock, d>>] >= Owed(i, r, t, c, d)

\* ... and all it ever held went out, or stands for vouchers or for packets.
Balanced(b, i, r, t) ==
    \A c \in Chains, d \in Denoms :
      b[c][<<Lock, d>>] + Released(i, r, c, d) = Issued(b, c, d) + Owed(i, r, t, c, d)

\* The coins d of chain c that packets of the other chain bring back.
Returning(i, r, t, c, d) ==
    [p \in Packets |->
       IF Flying(i, r, t, p) /\ p.src # c /\ i[p].locked = Wrap(p.channel, d)
       THEN i[p].amount ELSE 0]

LEMMA OtherOfOther ==
    ASSUME NEW c \in Chains, NEW d \in Chains, d # c
    PROVE  d = Other(c) /\ c = Other(d)
<1>1. PICK x, y \in Chains : x # y /\ Chains = {x, y}
  BY ChainsAssumption
<1>2. /\ Other(c) \in {x, y} /\ Other(c) # c /\ Other(d) \in {x, y} /\ Other(d) # d
      /\ c \in {x, y} /\ d \in {x, y}
  BY <1>1, OtherChain
<1> QED BY <1>2

LEMMA HomeIsChain ==
    ASSUME NativeAtOneChain, NEW d \in Denoms
    PROVE  /\ Home(Name(d)) \in Chains
           /\ Supply[Other(Home(Name(d)))][Name(d)] = 0
<1>1. Name(d) \in Natives
  BY DenomProperties
<1>2. PICK c \in Chains : Supply[c][Name(d)] = 0
  BY <1>1 DEF NativeAtOneChain
<1>3. Other(c) \in Chains /\ Other(Other(c)) = c
  <2>1. Other(c) \in Chains /\ Other(c) # c
    BY OtherChain
  <2> QED BY <2>1, OtherOfOther
<1>4. \E k \in Chains : Supply[Other(k)][Name(d)] = 0
  BY <1>2, <1>3
<1> QED BY <1>4 DEF Home

LEMMA RightAway ==
    ASSUME NativeAtOneChain, NEW c \in Chains, NEW d \in Denoms
    PROVE  Right(Other(c), d) <=> ~Right(c, d)
<1>1. c = Home(Name(d)) <=> ~(Other(c) = Home(Name(d)))
  <2>1. PICK x, y \in Chains : x # y /\ Chains = {x, y}
    BY ChainsAssumption
  <2>2. Home(Name(d)) \in {x, y} /\ c \in {x, y} /\ Other(c) \in {x, y} /\ Other(c) # c
    BY <2>1, HomeIsChain, OtherChain
  <2> QED BY <2>2
<1> QED BY <1>1 DEF Right

LEMMA RightWrapped ==
    ASSUME NEW c \in Chains, NEW d \in Denoms, NEW x \in Channels
    PROVE  Right(c, Wrap(x, d)) <=> ~Right(c, d)
<1>1. Name(Wrap(x, d)) = Name(d)
  BY Wrapped
<1>2. Len(Wrap(x, d)) = 1 + Len(d)
  BY WrappedParts
<1>3. PICK n \in Nat : n = Len(d)
  BY DenomProperties
<1>4. (1 + n) % 2 = 1 <=> ~(n % 2 = 1)
  OBVIOUS
<1> QED BY <1>1, <1>2, <1>3, <1>4 DEF Right

LEMMA ReturningIsNatural ==
    ASSUME NEW i \in Transfers, NEW r, NEW t, NEW c, NEW d
    PROVE  Natural(Returning(i, r, t, c, d), Packets)
<1>1. \A p \in Packets : i[p] # None => i[p].amount \in Nat
  BY AmountIsNatural
<1> QED BY <1>1 DEF Returning, Flying, Natural

\* The vouchers for coins d of chain c that are locked again cover the packets that
\* brought them back and those that still do.
Backing(i, r, t, c, d) ==
    [p \in Packets |->
       IF /\ p.src # c /\ i[p] # None /\ p \notin t /\ i[p].locked = Wrap(p.channel, d)
          /\ r[p] # "in time" \/ i[p].denom # i[p].locked
       THEN i[p].amount ELSE 0]

LEMMA BackingIsNatural ==
    ASSUME NEW i \in Transfers, NEW r, NEW t, NEW c, NEW d
    PROVE  Natural(Backing(i, r, t, c, d), Packets)
<1>1. \A p \in Packets : i[p] # None => i[p].amount \in Nat
  BY AmountIsNatural
<1> QED BY <1>1 DEF Backing, Natural

LEMMA BackingIsLocked ==
    ASSUME NEW b \in Banks, NEW i \in Transfers, NEW r, NEW t, Solvent(b, i, r, t),
           NEW c \in Chains, NEW d \in Denoms
    PROVE  SumFunctionOnSet(Backing(i, r, t, c, d), Packets)
             <= SumFunctionOnSet(Vouchers(b, c, d), {Lock} \X Channels)
<1> DEFINE g == Backing(i, r, t, c, d)
           h == Vouchers(b, c, d)
           X == {Lock} \X Channels
           k == [p \in Packets |-> <<Lock, p.channel>>]
<1>1. Natural(g, Packets)
  BY BackingIsNatural
<1>2. X \subseteq Accounts \X Channels
  BY DEF Accounts
<1>3. IsFiniteSet(X) /\ Natural(h, X)
  <2>1. IsFiniteSet(X)
    BY <1>2, VouchersFinite, FS_Subset
  <2>2. Natural(h, Accounts \X Channels)
    BY VouchersAreNatural
  <2> QED BY <1>2, <2>1, <2>2 DEF Natural
<1>4. \A p \in Packets : k[p] \in X
  BY DEF Packets
<1>5. ASSUME NEW x \in X
      PROVE  SumFunctionOnSet(Marked(g, k, Packets, {x}), Packets) <= h[x]
  <2>1. PICK y \in Channels : x = <<Lock, y>>
    OBVIOUS
  <2>2. PICK w : w = Wrap(y, d)
    OBVIOUS
  <2> DEFINE m == Marked(g, k, Packets, {x})
  <2>3. ASSUME NEW p \in Packets, m[p] # 0
        PROVE  /\ p.channel = y /\ p.src = Other(c) /\ i[p] # None /\ p \notin t
               /\ i[p].locked = w
               /\ r[p] # "in time" \/ i[p].denom # i[p].locked
               /\ m[p] = i[p].amount
    <3>1. k[p] = x /\ m[p] = g[p]
      BY <2>3 DEF Marked
    <3>2. p.channel = y /\ p.src \in Chains
      BY <2>1, <3>1 DEF Packets
    <3>3. /\ p.src # c /\ i[p] # None /\ p \notin t /\ i[p].locked = Wrap(p.channel, d)
          /\ r[p] # "in time" \/ i[p].denom # i[p].locked
          /\ g[p] = i[p].amount
      BY <2>3, <3>1 DEF Backing
    <3>4. p.src = Other(c)
      BY <3>2, <3>3, OtherOfOther
    <3> QED BY <2>2, <3>1, <3>2, <3>3, <3>4
  <2>4. Natural(m, Packets)
    BY <1>1, MarkedIsNatural
  <2>5. CASE w \in Denoms
    <3>1. Other(c) \in Chains
      BY OtherChain
    <3>2. PICK n : n = Other(c)
      OBVIOUS
    <3> DEFINE o == Owing(i, r, t, n, w)
    <3>3. Natural(o, Packets)
      BY OwingIsNatural
    <3>4. ASSUME NEW p \in Packets PROVE m[p] <= o[p]
      <4>1. CASE m[p] = 0
        BY <3>3, <4>1 DEF Natural
      <4>2. CASE m[p] # 0
        <5>1. o[p] = i[p].amount /\ m[p] = i[p].amount
          <6> HIDE DEF m
          <6> QED BY <2>3, <3>2, <4>2 DEF Owing
        <5>2. m[p] \in Nat
          BY <2>4 DEF Natural
        <5> HIDE DEF m, o
        <5> QED BY <5>1, <5>2
      <4> QED BY <4>1, <4>2
    <3>5. SumFunctionOnSet(m, Packets) <= SumFunctionOnSet(o, Packets)
      <4> HIDE DEF m, o
      <4> QED BY <2>4, <3>3, <3>4, PacketsFinite, SumAtMost
    <3>6. SumFunctionOnSet(o, Packets) <= b[n][<<Lock, w>>]
      BY <2>5, <3>1, <3>2 DEF Solvent, Owed
    <3>7. h[x] = b[n][<<Lock, w>>]
      BY <2>1, <2>2, <2>5, <3>2, UsersAssumption DEF Vouchers, Accounts
    <3>8. /\ SumFunctionOnSet(m, Packets) \in Nat /\ SumFunctionOnSet(o, Packets) \in Nat
      BY <2>4, <3>3, PacketsFinite, SumIsNatural
    <3>9. h[x] \in Nat
      BY <1>3 DEF Natural
    <3> HIDE DEF m, o, h
    <3> QED BY <3>5, <3>6, <3>7, <3>8, <3>9 DEF m
  <2>6. CASE w \notin Denoms
    <3>1. ASSUME NEW p \in Packets PROVE m[p] = 0
      <4>1. ASSUME m[p] # 0 PROVE FALSE
        <5> HIDE DEF m
        <5>1. i[p] # None /\ i[p].locked = w
          BY <2>3, <4>1
        <5> QED BY <2>6, <5>1, AmountIsNatural
      <4> QED BY <4>1
    <3>2. SumFunctionOnSet(m, Packets) = 0
      <4> HIDE DEF m
      <4> QED BY <3>1, PacketsFinite, SumOfZeros
    <3>3. h[x] \in Nat
      BY <1>3 DEF Natural
    <3> QED BY <3>2, <3>3
  <2> QED BY <2>5, <2>6
<1> HIDE DEF g, h, X, k
<1>6. SumFunctionOnSet(g, Packets) <= SumFunctionOnSet(h, X)
  BY <1>1, <1>3, <1>4, <1>5, PacketsFinite, SumOfRows
<1> QED BY <1>6 DEF g, h, X

\* So the vouchers cover what was released for them, what comes back, and what the
\* users have.
LEMMA VouchersCover ==
    ASSUME NEW b \in Banks, NEW i \in Transfers, NEW r, NEW t, Solvent(b, i, r, t),
           PacketsAtHome(i), Settled(r, t), NEW c \in Chains, NEW d \in Denoms
    PROVE  SumFunctionOnSet(Vouchers(b, c, d), Users \X Channels)
             + SumFunctionOnSet(Returning(i, r, t, c, d), Packets) + Released(i, r, c, d)
             <= Issued(b, c, d)
<1> DEFINE v == Vouchers(b, c, d)
           U == Users \X Channels
           X == {Lock} \X Channels
           back == Returning(i, r, t, c, d)
           out == Releasing(i, r, c, d)
           both == [p \in Packets |-> out[p] + back[p]]
           g == Backing(i, r, t, c, d)
<1>1. /\ Natural(v, Accounts \X Channels)
      /\ Natural(back, Packets) /\ Natural(out, Packets) /\ Natural(g, Packets)
  BY VouchersAreNatural, ReturningIsNatural, OwingIsNatural, BackingIsNatural
<1>2. SumFunctionOnSet(g, Packets) <= SumFunctionOnSet(v, X)
  BY BackingIsLocked
<1>3. ASSUME NEW p \in Packets
      PROVE  both[p] <= g[p] /\ both[p] = out[p] + back[p] /\ both[p] \in Nat
  <2>1. out[p] \in Nat /\ back[p] \in Nat /\ g[p] \in Nat
    BY <1>1 DEF Natural
  <2>2. CASE out[p] # 0
    <3>1. /\ p.src # c /\ i[p] # None /\ r[p] = "in time"
          /\ i[p].denom = d /\ i[p].locked # d /\ out[p] = i[p].amount
      BY <2>2 DEF Releasing
    <3>2. p \notin t /\ i[p].locked = Wrap(p.channel, d)
      BY <3>1 DEF PacketsAtHome, Settled
    <3>3. back[p] = 0
      BY <3>1 DEF Returning, Flying
    <3>4. g[p] = i[p].amount
      BY <3>1, <3>2 DEF Backing
    <3>5. g[p] = out[p]
      BY <3>1, <3>4
    <3> HIDE DEF out, back, g
    <3> QED BY <2>1, <3>3, <3>5
  <2>3. CASE out[p] = 0 /\ back[p] # 0
    <3>1. g[p] = back[p]
      BY <2>3 DEF Returning, Flying, Backing
    <3> HIDE DEF out, back, g
    <3> QED BY <2>1, <2>3, <3>1
  <2>4. CASE out[p] = 0 /\ back[p] = 0
    <3> HIDE DEF out, back, g
    <3> QED BY <2>1, <2>4
  <2> QED BY <2>2, <2>3, <2>4
<1>4. Natural(both, Packets)
  <2> HIDE DEF both
  <2> QED BY <1>3 DEF Natural
<1> HIDE DEF both, g, out, back, v
<1>5. SumFunctionOnSet(both, Packets)
        = SumFunctionOnSet(out, Packets) + SumFunctionOnSet(back, Packets)
  BY <1>1, <1>3, PacketsFinite, SumOfTwo
<1>6. SumFunctionOnSet(both, Packets) <= SumFunctionOnSet(g, Packets)
  BY <1>1, <1>3, <1>4, PacketsFinite, SumAtMost
<1>7. U \cap X = {} /\ U \cup X = Accounts \X Channels
  BY UsersAssumption DEF Accounts
<1> HIDE DEF U, X
<1>8. SumFunctionOnSet(v, Accounts \X Channels)
        = SumFunctionOnSet(v, U) + SumFunctionOnSet(v, X)
  BY <1>1, <1>7, VouchersFinite, SumOfParts
<1>9. /\ SumFunctionOnSet(out, Packets) \in Nat /\ SumFunctionOnSet(back, Packets) \in Nat
      /\ SumFunctionOnSet(g, Packets) \in Nat /\ SumFunctionOnSet(both, Packets) \in Nat
  BY <1>1, <1>4, PacketsFinite, SumIsNatural
<1>10. SumFunctionOnSet(v, U) \in Nat /\ SumFunctionOnSet(v, X) \in Nat
  <2>1. IsFiniteSet(U) /\ IsFiniteSet(X)
    BY <1>7, VouchersFinite, FS_Subset
  <2>2. Natural(v, U) /\ Natural(v, X)
    BY <1>1, <1>7 DEF Natural
  <2> QED BY <2>1, <2>2, SumIsNatural
<1>11. SumFunctionOnSet(v, U) + SumFunctionOnSet(back, Packets) + SumFunctionOnSet(out, Packets)
         <= SumFunctionOnSet(v, Accounts \X Channels)
  BY <1>2, <1>5, <1>6, <1>8, <1>9, <1>10
<1> QED BY <1>11 DEF Released, Issued, v, back, out, U

-----------------------------------------------------------------------------
(* The books of the lock account *)

\* The invariant of the lock account, of the state before a step or after it.
Books(b, i, r, t) ==
    /\ b \in Banks /\ i \in Transfers
    /\ Settled(r, t) /\ CoinsAtHome(b) /\ PacketsAtHome(i)
    /\ Solvent(b, i, r, t) /\ Balanced(b, i, r, t)

LEMMA BooksAreNatural ==
    ASSUME NEW b \in Banks, NEW i \in Transfers, NEW r, NEW t, NEW c \in Chains, NEW d \in Denoms
    PROVE  /\ b[c][<<Lock, d>>] \in Nat /\ Issued(b, c, d) \in Nat
           /\ Owed(i, r, t, c, d) \in Nat /\ Released(i, r, c, d) \in Nat
           /\ \A p \in Packets : /\ Owing(i, r, t, c, d)[p] \in Nat
                                 /\ Releasing(i, r, c, d)[p] \in Nat
<1>1. b[c][<<Lock, d>>] \in Nat
  BY DEF Banks, Accounts
<1>2. Issued(b, c, d) \in Nat
  BY VouchersAreNatural, VouchersFinite, SumIsNatural DEF Issued
<1>3. Natural(Owing(i, r, t, c, d), Packets) /\ Natural(Releasing(i, r, c, d), Packets)
  BY OwingIsNatural
<1>4. Owed(i, r, t, c, d) \in Nat /\ Released(i, r, c, d) \in Nat
  BY <1>3, PacketsFinite, SumIsNatural DEF Owed, Released
<1> QED BY <1>1, <1>2, <1>3, <1>4 DEF Natural

\* Among the packets, only what is known of p differs.
OnePacket(i, r, t, j, s, o, p) ==
    \A q \in Packets : q # p => j[q] = i[q] /\ s[q] = r[q] /\ (q \in o <=> q \in t)

\* The entries that a step of p makes balance each other.
Entries(b, i, r, t, a, j, s, o, p) ==
    \A c \in Chains, d \in Denoms :
      a[c][<<Lock, d>>] + Releasing(j, s, c, d)[p] + Issued(b, c, d) + Owing(i, r, t, c, d)[p]
        = b[c][<<Lock, d>>] + Releasing(i, r, c, d)[p] + Issued(a, c, d)
            + Owing(j, s, o, c, d)[p]

\* And the lock account does not lose more than it no longer owes.
Prudent(b, i, r, t, a, j, s, o, p) ==
    \A c \in Chains, d \in Denoms :
      \/ a[c][<<Lock, d>>] + Owing(i, r, t, c, d)[p] >= b[c][<<Lock, d>>] + Owing(j, s, o, c, d)[p]
      \/ a[c][<<Lock, d>>] >= Owed(j, s, o, c, d)

LEMMA Bookkeeping ==
    ASSUME NEW lock \in Nat, NEW out \in Nat, NEW issued \in Nat, NEW owed \in Nat,
           NEW lock1 \in Nat, NEW out1 \in Nat, NEW issued1 \in Nat, NEW owed1 \in Nat,
           NEW x \in Nat, NEW y \in Nat, NEW x1 \in Nat, NEW y1 \in Nat,
           lock + out = issued + owed,
           owed1 + y = owed + y1, out1 + x = out + x1,
           lock1 + x1 + issued + y = lock + x + issued1 + y1
    PROVE  lock1 + out1 = issued1 + owed1
OBVIOUS

LEMMA BooksMove ==
    ASSUME NEW b, NEW i, NEW r, NEW t, Books(b, i, r, t),
           NEW a \in Banks, NEW j \in Transfers, NEW s, NEW o,
           Settled(s, o), CoinsAtHome(a), PacketsAtHome(j),
           NEW p \in Packets, OnePacket(i, r, t, j, s, o, p),
           Entries(b, i, r, t, a, j, s, o, p), Prudent(b, i, r, t, a, j, s, o, p)
    PROVE  Books(a, j, s, o)
<1>1. b \in Banks /\ i \in Transfers
  BY DEF Books
<1>2. ASSUME NEW c \in Chains, NEW d \in Denoms
      PROVE  /\ a[c][<<Lock, d>>] + Released(j, s, c, d) = Issued(a, c, d) + Owed(j, s, o, c, d)
             /\ a[c][<<Lock, d>>] >= Owed(j, s, o, c, d)
  <2>1. /\ b[c][<<Lock, d>>] \in Nat /\ Issued(b, c, d) \in Nat
        /\ Owed(i, r, t, c, d) \in Nat /\ Released(i, r, c, d) \in Nat
        /\ Owing(i, r, t, c, d)[p] \in Nat /\ Releasing(i, r, c, d)[p] \in Nat
    BY <1>1, BooksAreNatural
  <2>2. /\ a[c][<<Lock, d>>] \in Nat /\ Issued(a, c, d) \in Nat
        /\ Owed(j, s, o, c, d) \in Nat /\ Released(j, s, c, d) \in Nat
        /\ Owing(j, s, o, c, d)[p] \in Nat /\ Releasing(j, s, c, d)[p] \in Nat
    BY BooksAreNatural
  <2>3. /\ Owed(j, s, o, c, d) + Owing(i, r, t, c, d)[p]
             = Owed(i, r, t, c, d) + Owing(j, s, o, c, d)[p]
        /\ Released(j, s, c, d) + Releasing(i, r, c, d)[p]
             = Released(i, r, c, d) + Releasing(j, s, c, d)[p]
    BY <1>1, OwedChanges DEF OnePacket
  <2>4. b[c][<<Lock, d>>] + Released(i, r, c, d) = Issued(b, c, d) + Owed(i, r, t, c, d)
    BY DEF Books, Balanced
  <2>5. b[c][<<Lock, d>>] >= Owed(i, r, t, c, d)
    BY DEF Books, Solvent
  <2>6. a[c][<<Lock, d>>] + Releasing(j, s, c, d)[p] + Issued(b, c, d) + Owing(i, r, t, c, d)[p]
          = b[c][<<Lock, d>>] + Releasing(i, r, c, d)[p] + Issued(a, c, d)
              + Owing(j, s, o, c, d)[p]
    BY DEF Entries
  <2>7. a[c][<<Lock, d>>] + Released(j, s, c, d) = Issued(a, c, d) + Owed(j, s, o, c, d)
    BY <2>1, <2>2, <2>3, <2>4, <2>6, Bookkeeping
  <2>8. \/ a[c][<<Lock, d>>] + Owing(i, r, t, c, d)[p]
             >= b[c][<<Lock, d>>] + Owing(j, s, o, c, d)[p]
        \/ a[c][<<Lock, d>>] >= Owed(j, s, o, c, d)
    BY DEF Prudent
  <2>9. a[c][<<Lock, d>>] >= Owed(j, s, o, c, d)
    BY <2>1, <2>2, <2>3, <2>5, <2>8
  <2> QED BY <2>7, <2>9
<1> QED BY <1>2 DEF Books, Solvent, Balanced

\* The other coins of the lock account, when some are paid or locked.
SameLocksBut(b, a, k, denom) ==
    \A c \in Chains, d \in Denoms :
      ~(c = k /\ d = denom) => a[c][<<Lock, d>>] = b[c][<<Lock, d>>]

SameCoinsBut(b, s, k, denom) ==
    \A u \in Accounts, d \in Denoms : d # denom => s[<<u, d>>] = b[k][<<u, d>>]

LEMMA CoinsMoveAtHome ==
    ASSUME NEW b, CoinsAtHome(b), NEW a, NEW k \in Chains, NEW s, BankStep(b, a, k, s),
           NEW denom \in Denoms, Right(k, denom),
           SameCoinsBut(b, s, k, denom)
    PROVE  CoinsAtHome(a)
<1>1. ASSUME NEW c \in Chains, NEW u \in Accounts, NEW d \in Denoms, a[c][<<u, d>>] # 0
      PROVE  Right(c, d)
  <2>1. CASE c = k /\ d = denom
    BY <2>1
  <2>2. CASE c = k /\ d # denom
    <3>1. a[c][<<u, d>>] = b[c][<<u, d>>]
      BY <2>2 DEF BankStep, SameCoinsBut
    <3> QED BY <1>1, <3>1 DEF CoinsAtHome
  <2>3. CASE c # k
    <3>1. a[c][<<u, d>>] = b[c][<<u, d>>]
      BY <2>3 DEF BankStep
    <3> QED BY <1>1, <3>1 DEF CoinsAtHome
  <2> QED BY <2>1, <2>2, <2>3
<1> QED BY <1>1 DEF CoinsAtHome

LEMMA LockMoves ==
    ASSUME NEW b, NEW a, NEW k \in Chains, NEW s, BankStep(b, a, k, s),
           NEW from, NEW to, NEW denom, NEW amount, Paid(b[k], s, from, to, denom, amount)
    PROVE  SameLocksBut(b, a, k, denom) /\ SameCoinsBut(b, s, k, denom)
<1>1. \A u \in Accounts, d \in Denoms : d # denom => s[<<u, d>>] = b[k][<<u, d>>]
  BY DEF Paid
<1>2. ASSUME NEW c \in Chains, NEW d \in Denoms, ~(c = k /\ d = denom)
      PROVE  a[c][<<Lock, d>>] = b[c][<<Lock, d>>]
  <2>1. CASE c = k
    BY <1>1, <1>2, <2>1 DEF BankStep, Accounts
  <2>2. CASE c # k
    BY <2>2 DEF BankStep
  <2> QED BY <2>1, <2>2
<1> QED BY <1>1, <1>2 DEF SameLocksBut, SameCoinsBut

\* transfer locks the coins that the packet takes along.
LEMMA BooksLock ==
    ASSUME NEW b, NEW i, NEW r, NEW t, Books(b, i, r, t),
           NEW p \in Packets, NEW a, NEW s, BankStep(b, a, p.src, s),
           NEW sender \in Users, NEW denom \in Denoms, NEW amount \in Nat \ {0},
           Paid(b[p.src], s, sender, Lock, denom, amount),
           b[p.src][<<sender, denom>>] >= amount,
           i[p] = None, r[p] = "no", p \notin t,
           NEW j \in Transfers, OnePacket(i, r, t, j, r, t, p),
           j[p] # None, j[p].amount = amount, j[p].locked = denom,
           j[p].denom = denom \/ denom = Wrap(p.channel, j[p].denom)
    PROVE  Books(a, j, r, t)
<1>0. PICK k \in Chains : k = p.src
  BY DEF Packets
<1>1. a \in Banks /\ a[k] = s /\ b \in Banks /\ i \in Transfers /\ CoinsAtHome(b)
  BY <1>0 DEF BankStep, Books
<1>2. sender \in Accounts /\ Lock \in Accounts /\ sender # Lock
  BY UsersAssumption DEF Accounts
<1>3. Right(k, denom)
  <2>1. b[k][<<sender, denom>>] # 0
    BY <1>0
  <2> QED BY <1>1, <1>2, <2>1 DEF CoinsAtHome
<1>4. SameLocksBut(b, a, k, denom) /\ SameCoinsBut(b, s, k, denom)
  BY <1>0, LockMoves
<1>5. CoinsAtHome(a)
  BY <1>0, <1>1, <1>3, <1>4, CoinsMoveAtHome
<1>6. PacketsAtHome(j)
  <2>1. ASSUME NEW q \in Packets, j[q] # None
        PROVE  /\ Right(q.src, j[q].locked)
               /\ j[q].denom = j[q].locked \/ j[q].locked = Wrap(q.channel, j[q].denom)
    <3>1. CASE q = p
      BY <1>0, <1>3, <3>1
    <3>2. CASE q # p
      <4>1. j[q] = i[q]
        BY <3>2 DEF OnePacket
      <4> QED BY <2>1, <4>1 DEF Books, PacketsAtHome
    <3> QED BY <3>1, <3>2
  <2> QED BY <2>1 DEF PacketsAtHome
<1>7. ASSUME NEW c \in Chains, NEW d \in Denoms
      PROVE  Issued(a, c, d) = Issued(b, c, d)
  <2>1. b[k][<<sender, denom>>] >= amount /\ amount \in Nat
    BY <1>0
  <2>2. BankStep(b, a, k, s) /\ Paid(b[k], s, sender, Lock, denom, amount)
    BY <1>0
  <2> QED BY <1>1, <1>2, <2>1, <2>2, IssuedMoves
<1>8. ASSUME NEW c \in Chains, NEW d \in Denoms
      PROVE  /\ Owing(i, r, t, c, d)[p] = 0
             /\ Releasing(i, r, c, d)[p] = 0 /\ Releasing(j, r, c, d)[p] = 0
             /\ a[c][<<Lock, d>>] = b[c][<<Lock, d>>] + Owing(j, r, t, c, d)[p]
  <2>1. /\ Owing(i, r, t, c, d)[p] = 0 /\ Releasing(i, r, c, d)[p] = 0
        /\ Releasing(j, r, c, d)[p] = 0
    BY DEF Owing, Releasing
  <2>2. b[c][<<Lock, d>>] \in Nat
    BY <1>1, BooksAreNatural
  <2>3. CASE c = k /\ d = denom
    <3>1. Owing(j, r, t, c, d)[p] = amount
      BY <1>0, <2>3 DEF Owing
    <3>2. a[c][<<Lock, d>>] = b[c][<<Lock, d>>] + amount
      BY <1>0, <1>1, <2>3 DEF Paid
    <3> QED BY <2>1, <3>1, <3>2
  <2>4. CASE ~(c = k /\ d = denom)
    <3>1. Owing(j, r, t, c, d)[p] = 0
      BY <1>0, <2>4 DEF Owing
    <3>2. a[c][<<Lock, d>>] = b[c][<<Lock, d>>]
      BY <1>4, <2>4 DEF SameLocksBut
    <3> QED BY <2>1, <2>2, <3>1, <3>2
  <2> QED BY <2>3, <2>4
<1>9. Entries(b, i, r, t, a, j, r, t, p) /\ Prudent(b, i, r, t, a, j, r, t, p)
  <2>1. ASSUME NEW c \in Chains, NEW d \in Denoms
        PROVE  /\ a[c][<<Lock, d>>] + Releasing(j, r, c, d)[p] + Issued(b, c, d)
                    + Owing(i, r, t, c, d)[p]
                    = b[c][<<Lock, d>>] + Releasing(i, r, c, d)[p] + Issued(a, c, d)
                        + Owing(j, r, t, c, d)[p]
               /\ a[c][<<Lock, d>>] + Owing(i, r, t, c, d)[p]
                    >= b[c][<<Lock, d>>] + Owing(j, r, t, c, d)[p]
    <3>1. /\ b[c][<<Lock, d>>] \in Nat /\ Issued(b, c, d) \in Nat
          /\ Owing(j, r, t, c, d)[p] \in Nat
      BY <1>1, BooksAreNatural
    <3> QED BY <1>7, <1>8, <3>1
  <2> QED BY <2>1 DEF Entries, Prudent
<1>10. Settled(r, t)
  BY DEF Books
<1> QED BY <1>1, <1>5, <1>6, <1>9, <1>10, BooksMove

InTime(r, p) == r[p] = "in time"

\* The transfer in packet p, as its destination reads it.
Names(i, p, denom, amount) == i[p] # None /\ i[p].denom = denom /\ i[p].amount = amount

\* ibc_packet_timeout takes from the lock account what the packet had locked there:
\* had it named other coins, they could not be on this chain.
LEMMA BooksRefund ==
    ASSUME NEW b, NEW i, NEW r, NEW t, Books(b, i, r, t),
           NEW p \in Packets, NEW a, NEW s, BankStep(b, a, p.src, s),
           NEW u \in Users, NEW denom \in Denoms, NEW amount \in Nat \ {0},
           Payable(b[p.src], Lock, u, denom, amount),
           Paid(b[p.src], s, Lock, u, denom, amount),
           Names(i, p, denom, amount), ~InTime(r, p), p \notin t,
           NEW o, OnePacket(i, r, t, i, r, o, p), p \in o
    PROVE  Books(a, i, r, o)
<1>0. PICK k \in Chains : k = p.src
  BY DEF Packets
<1>1. a \in Banks /\ a[k] = s /\ b \in Banks /\ i \in Transfers /\ CoinsAtHome(b)
  BY <1>0 DEF BankStep, Books
<1>2. u \in Accounts /\ Lock \in Accounts /\ u # Lock
  BY UsersAssumption DEF Accounts
<1>c. b[k][<<Lock, denom>>] \in Nat /\ b[k][<<Lock, denom>>] >= amount
  <2>1. b[k][<<Lock, denom>>] \in Nat
    BY <1>1, BooksAreNatural
  <2> QED BY <1>0, <2>1 DEF Payable
<1>3. Right(k, denom)
  <2>1. b[k][<<Lock, denom>>] # 0
    BY <1>c
  <2> QED BY <1>1, <1>2, <2>1 DEF CoinsAtHome
<1>4. i[p].locked = denom
  <2>1. ASSUME denom # i[p].locked PROVE FALSE
    <3>1. i[p].locked = Wrap(p.channel, denom) /\ Right(k, i[p].locked)
      BY <1>0, <2>1 DEF Books, PacketsAtHome, Names
    <3>2. p.channel \in Channels
      BY DEF Packets
    <3> QED BY <1>3, <3>1, <3>2, RightWrapped
  <2> QED BY <2>1
<1>5. /\ BankStep(b, a, k, s) /\ Paid(b[k], s, Lock, u, denom, amount)
  BY <1>0
<1>6. SameLocksBut(b, a, k, denom) /\ SameCoinsBut(b, s, k, denom)
  BY <1>5, LockMoves
<1>7. CoinsAtHome(a)
  BY <1>1, <1>3, <1>5, <1>6, CoinsMoveAtHome
<1>8. ASSUME NEW c \in Chains, NEW d \in Denoms
      PROVE  Issued(a, c, d) = Issued(b, c, d)
  BY <1>1, <1>2, <1>5, <1>c, IssuedMoves
<1>9. ASSUME NEW c \in Chains, NEW d \in Denoms
      PROVE  /\ Owing(i, r, o, c, d)[p] = 0 /\ Releasing(i, r, c, d)[p] = 0
             /\ a[c][<<Lock, d>>] + Owing(i, r, t, c, d)[p] = b[c][<<Lock, d>>]
  <2>1. Owing(i, r, o, c, d)[p] = 0 /\ Releasing(i, r, c, d)[p] = 0
    BY DEF Owing, Releasing, InTime
  <2>2. b[c][<<Lock, d>>] \in Nat
    BY <1>1, BooksAreNatural
  <2>3. CASE c = k /\ d = denom
    <3>1. Owing(i, r, t, c, d)[p] = amount
      BY <1>0, <1>4, <2>3 DEF Owing, Names, InTime
    <3>2. a[c][<<Lock, d>>] = b[c][<<Lock, d>>] - amount
      BY <1>1, <1>5, <2>3 DEF Paid
    <3> QED BY <2>1, <2>2, <3>1, <3>2
  <2>4. CASE ~(c = k /\ d = denom)
    <3>1. Owing(i, r, t, c, d)[p] = 0
      BY <1>0, <1>4, <2>4 DEF Owing, Names
    <3>2. a[c][<<Lock, d>>] = b[c][<<Lock, d>>]
      BY <1>6, <2>4 DEF SameLocksBut
    <3> QED BY <2>1, <2>2, <3>1, <3>2
  <2> QED BY <2>3, <2>4
<1>10. Entries(b, i, r, t, a, i, r, o, p) /\ Prudent(b, i, r, t, a, i, r, o, p)
  <2>1. ASSUME NEW c \in Chains, NEW d \in Denoms
        PROVE  /\ a[c][<<Lock, d>>] + Releasing(i, r, c, d)[p] + Issued(b, c, d)
                    + Owing(i, r, t, c, d)[p]
                    = b[c][<<Lock, d>>] + Releasing(i, r, c, d)[p] + Issued(a, c, d)
                        + Owing(i, r, o, c, d)[p]
               /\ a[c][<<Lock, d>>] + Owing(i, r, t, c, d)[p]
                    >= b[c][<<Lock, d>>] + Owing(i, r, o, c, d)[p]
    <3>1. /\ b[c][<<Lock, d>>] \in Nat /\ Issued(b, c, d) \in Nat
          /\ Owing(i, r, t, c, d)[p] \in Nat /\ a[c][<<Lock, d>>] \in Nat
      BY <1>1, BooksAreNatural
    <3> QED BY <1>8, <1>9, <3>1
  <2> QED BY <2>1 DEF Entries, Prudent
<1>11. PacketsAtHome(i)
  BY DEF Books
<1>12. Settled(r, o)
  <2>1. ASSUME NEW q \in Packets, InTime(r, q) PROVE q \notin o
    <3>1. q # p
      BY <2>1
    <3>2. q \notin t
      BY <2>1 DEF Books, Settled, InTime
    <3> QED BY <3>1, <3>2 DEF OnePacket
  <2> QED BY <2>1 DEF Settled, InTime
<1> QED BY <1>1, <1>7, <1>10, <1>11, <1>12, BooksMove

\* What is released for the packet p was locked again for it, and vouchers cover it.
LEMMA ReturnIsCovered ==
    ASSUME NEW b, NEW i, NEW r, NEW t, Books(b, i, r, t), NEW p \in Packets,
           NEW k \in Chains, k # p.src, NEW denom \in Denoms, NEW amount \in Nat \ {0},
           Names(i, p, denom, amount), ~InTime(r, p), p \notin t,
           i[p].locked = Wrap(p.channel, denom)
    PROVE  Released(i, r, k, denom) + amount <= Issued(b, k, denom)
<1> DEFINE back == Returning(i, r, t, k, denom)
           users == SumFunctionOnSet(Vouchers(b, k, denom), Users \X Channels)
<1>1. b \in Banks /\ i \in Transfers
  BY DEF Books
<1>2. Natural(back, Packets) /\ Natural(Vouchers(b, k, denom), Accounts \X Channels)
  BY <1>1, ReturningIsNatural, VouchersAreNatural
<1>3. back[p] = amount
  BY DEF Returning, Flying, Names, InTime
<1>4. users \in Nat
  <2>1. Users \X Channels \subseteq Accounts \X Channels
    BY DEF Accounts
  <2>2. IsFiniteSet(Users \X Channels) /\ Natural(Vouchers(b, k, denom), Users \X Channels)
    BY <1>2, <2>1, VouchersFinite, FS_Subset DEF Natural
  <2> QED BY <2>2, SumIsNatural
<1>5. users + SumFunctionOnSet(back, Packets) + Released(i, r, k, denom) <= Issued(b, k, denom)
  BY <1>1, VouchersCover DEF Books
<1>6. Released(i, r, k, denom) \in Nat /\ Issued(b, k, denom) \in Nat
  BY <1>1, BooksAreNatural
<1> HIDE DEF back, users
<1>7. SumFunctionOnSet(back, Packets) = back[p] + SumFunctionOnSet(back, Packets \ {p})
  BY <1>2, PacketsFinite, SumTakesOut
<1>8. SumFunctionOnSet(back, Packets \ {p}) \in Nat
  <2>1. IsFiniteSet(Packets \ {p}) /\ Natural(back, Packets \ {p})
    BY <1>2, PacketsFinite, FS_Subset DEF Natural
  <2> QED BY <2>1, SumIsNatural
<1> QED BY <1>3, <1>4, <1>5, <1>6, <1>7, <1>8

\* ibc_packet_receive pays from the lock account coins that came back: those of a
\* packet that names what it locked could not be on both chains.
LEMMA BooksPay ==
    ASSUME NativeAtOneChain, NEW b, NEW i, NEW r, NEW t, Books(b, i, r, t),
           NEW p \in Packets, NEW k \in Chains, k # p.src,
           NEW a, NEW s, BankStep(b, a, k, s),
           NEW u \in Users, NEW denom \in Denoms, NEW amount \in Nat \ {0},
           Payable(b[k], Lock, u, denom, amount),
           Paid(b[k], s, Lock, u, denom, amount),
           Names(i, p, denom, amount), ~InTime(r, p), p \notin t,
           NEW o, OnePacket(i, r, t, i, o, t, p), InTime(o, p)
    PROVE  Books(a, i, o, t)
<1>0. p.src \in Chains /\ p.channel \in Channels
  BY DEF Packets
<1>1. a \in Banks /\ a[k] = s /\ b \in Banks /\ i \in Transfers /\ CoinsAtHome(b)
  BY DEF BankStep, Books
<1>2. u \in Accounts /\ Lock \in Accounts /\ u # Lock
  BY UsersAssumption DEF Accounts
<1>c. b[k][<<Lock, denom>>] \in Nat /\ b[k][<<Lock, denom>>] >= amount
  <2>1. b[k][<<Lock, denom>>] \in Nat
    BY <1>1, BooksAreNatural
  <2> QED BY <2>1 DEF Payable
<1>3. Right(k, denom)
  <2>1. b[k][<<Lock, denom>>] # 0
    BY <1>c
  <2> QED BY <1>1, <1>2, <2>1 DEF CoinsAtHome
<1>4. i[p].locked = Wrap(p.channel, denom) /\ i[p].locked # denom
  <2>1. ASSUME denom = i[p].locked PROVE FALSE
    <3>1. Right(p.src, denom)
      BY <2>1 DEF Books, PacketsAtHome, Names
    <3>2. k = Other(p.src)
      BY <1>0, OtherOfOther
    <3> QED BY <1>0, <1>3, <3>1, <3>2, RightAway
  <2> QED BY <2>1 DEF Books, PacketsAtHome, Names
<1>5. BankStep(b, a, k, s) /\ Paid(b[k], s, Lock, u, denom, amount) /\ amount \in Nat
  OBVIOUS
<1>6. SameLocksBut(b, a, k, denom) /\ SameCoinsBut(b, s, k, denom)
  BY LockMoves
<1>7. CoinsAtHome(a)
  BY <1>1, <1>3, <1>6, CoinsMoveAtHome
<1>8. ASSUME NEW c \in Chains, NEW d \in Denoms
      PROVE  Issued(a, c, d) = Issued(b, c, d)
  BY <1>1, <1>2, <1>5, <1>c, IssuedMoves
<1>9. ASSUME NEW c \in Chains, NEW d \in Denoms
      PROVE  /\ Owing(i, o, t, c, d)[p] = Owing(i, r, t, c, d)[p]
             /\ Releasing(i, r, c, d)[p] = 0
             /\ a[c][<<Lock, d>>] + Releasing(i, o, c, d)[p] = b[c][<<Lock, d>>]
             /\ ~(c = k /\ d = denom) => a[c][<<Lock, d>>] = b[c][<<Lock, d>>]
  <2>1. Owing(i, o, t, c, d)[p] = Owing(i, r, t, c, d)[p] /\ Releasing(i, r, c, d)[p] = 0
    BY <1>4 DEF Owing, Releasing, InTime, Names
  <2>2. b[c][<<Lock, d>>] \in Nat
    BY <1>1, BooksAreNatural
  <2>3. CASE c = k /\ d = denom
    <3>1. Releasing(i, o, c, d)[p] = amount
      BY <1>0, <1>4, <2>3 DEF Releasing, Names, InTime
    <3>2. a[c][<<Lock, d>>] = b[c][<<Lock, d>>] - amount
      BY <1>1, <2>3 DEF Paid
    <3> QED BY <2>1, <2>2, <2>3, <3>1, <3>2
  <2>4. CASE ~(c = k /\ d = denom)
    <3>1. Releasing(i, o, c, d)[p] = 0
      <4>1. c # p.src => c = k
        BY <1>0, OtherOfOther
      <4> QED BY <2>4, <4>1 DEF Releasing, Names
    <3>2. a[c][<<Lock, d>>] = b[c][<<Lock, d>>]
      BY <1>6, <2>4 DEF SameLocksBut
    <3> QED BY <2>1, <2>2, <3>1, <3>2
  <2> QED BY <2>3, <2>4
<1>10. Entries(b, i, r, t, a, i, o, t, p)
  <2>1. ASSUME NEW c \in Chains, NEW d \in Denoms
        PROVE  a[c][<<Lock, d>>] + Releasing(i, o, c, d)[p] + Issued(b, c, d)
                 + Owing(i, r, t, c, d)[p]
                 = b[c][<<Lock, d>>] + Releasing(i, r, c, d)[p] + Issued(a, c, d)
                     + Owing(i, o, t, c, d)[p]
    <3>1. /\ b[c][<<Lock, d>>] \in Nat /\ Issued(b, c, d) \in Nat
          /\ Owing(i, r, t, c, d)[p] \in Nat /\ a[c][<<Lock, d>>] \in Nat
          /\ Releasing(i, o, c, d)[p] \in Nat
      BY <1>1, BooksAreNatural
    <3> QED BY <1>8, <1>9, <3>1
  <2> QED BY <2>1 DEF Entries
<1>11. Prudent(b, i, r, t, a, i, o, t, p)
  <2>1. ASSUME NEW c \in Chains, NEW d \in Denoms
        PROVE  \/ a[c][<<Lock, d>>] + Owing(i, r, t, c, d)[p]
                    >= b[c][<<Lock, d>>] + Owing(i, o, t, c, d)[p]
               \/ a[c][<<Lock, d>>] >= Owed(i, o, t, c, d)
    <3>1. /\ b[c][<<Lock, d>>] \in Nat /\ a[c][<<Lock, d>>] \in Nat
          /\ Owing(i, r, t, c, d)[p] \in Nat /\ Issued(b, c, d) \in Nat
          /\ Owed(i, r, t, c, d) \in Nat /\ Owed(i, o, t, c, d) \in Nat
          /\ Released(i, r, c, d) \in Nat
      BY <1>1, BooksAreNatural
    <3>2. CASE c = k /\ d = denom
      <4>1. Released(i, r, c, d) + amount <= Issued(b, c, d)
        BY <1>0, <1>4, <3>2, ReturnIsCovered
      <4>2. b[c][<<Lock, d>>] + Released(i, r, c, d) = Issued(b, c, d) + Owed(i, r, t, c, d)
        BY DEF Books, Balanced
      <4>3. a[c][<<Lock, d>>] = b[c][<<Lock, d>>] - amount
        BY <1>1, <3>2 DEF Paid
      <4>4. Owed(i, o, t, c, d) + Owing(i, r, t, c, d)[p]
              = Owed(i, r, t, c, d) + Owing(i, o, t, c, d)[p]
        BY <1>1, OwedChanges DEF OnePacket
      <4>5. Owed(i, o, t, c, d) = Owed(i, r, t, c, d)
        BY <1>9, <3>1, <4>4
      <4> QED BY <3>1, <4>1, <4>2, <4>3, <4>5
    <3>3. CASE ~(c = k /\ d = denom)
      BY <1>9, <3>1, <3>3
    <3> QED BY <3>2, <3>3
  <2> QED BY <2>1 DEF Prudent
<1>12. PacketsAtHome(i)
  BY DEF Books
<1>13. Settled(o, t)
  BY DEF Books, Settled, OnePacket
<1> QED BY <1>1, <1>7, <1>10, <1>11, <1>12, <1>13, BooksMove

\* ibc_packet_receive makes vouchers only for coins that the packet locked as they
\* are: for coins that came back, the lock account would have some.
LEMMA BooksMint ==
    ASSUME NativeAtOneChain, NEW b, NEW i, NEW r, NEW t, Books(b, i, r, t),
           NEW p \in Packets, NEW k \in Chains, k # p.src,
           NEW a, NEW s, BankStep(b, a, k, s),
           NEW u \in Users, NEW denom \in Denoms, NEW amount \in Nat \ {0},
           NEW voucher \in Denoms, voucher = Wrap(p.channel, denom),
           Minted(b, s, k, u, voucher, amount),
           b[k][<<Lock, denom>>] = 0,
           Names(i, p, denom, amount), ~InTime(r, p), p \notin t,
           NEW o, OnePacket(i, r, t, i, o, t, p), InTime(o, p)
    PROVE  Books(a, i, o, t)
<1>0. p.src \in Chains /\ p.channel \in Channels
  BY DEF Packets
<1>1. a \in Banks /\ a[k] = s /\ b \in Banks /\ i \in Transfers /\ CoinsAtHome(b)
  BY DEF BankStep, Books
<1>2. u \in Accounts /\ Lock \in Accounts /\ u # Lock /\ amount \in Nat
  BY UsersAssumption DEF Accounts
<1>3. i[p].locked = denom
  <2>1. ASSUME i[p].locked # denom PROVE FALSE
    <3>1. i[p].locked = Wrap(p.channel, denom)
      BY <2>1 DEF Books, PacketsAtHome, Names
    <3>2. Released(i, r, k, denom) + amount <= Issued(b, k, denom)
      BY <3>1, ReturnIsCovered
    <3>3. b[k][<<Lock, denom>>] + Released(i, r, k, denom)
            = Issued(b, k, denom) + Owed(i, r, t, k, denom)
      BY DEF Books, Balanced
    <3>4. /\ Issued(b, k, denom) \in Nat /\ Owed(i, r, t, k, denom) \in Nat
          /\ Released(i, r, k, denom) \in Nat
      BY <1>1, BooksAreNatural
    <3> QED BY <3>2, <3>3, <3>4
  <2> QED BY <2>1
<1>4. Right(k, voucher)
  <2>1. Right(p.src, denom)
    BY <1>3 DEF Books, PacketsAtHome, Names
  <2>2. k = Other(p.src)
    BY <1>0, OtherOfOther
  <2> QED BY <1>0, <2>1, <2>2, RightAway, RightWrapped
<1>5. SameCoinsBut(b, s, k, voucher)
  BY DEF SameCoinsBut, Minted
<1>6. CoinsAtHome(a)
  BY <1>1, <1>4, <1>5, CoinsMoveAtHome
<1>7. ASSUME NEW c \in Chains, NEW d \in Denoms
      PROVE  a[c][<<Lock, d>>] = b[c][<<Lock, d>>]
  <2>1. CASE c = k
    BY <1>1, <1>2, <2>1 DEF Minted
  <2>2. CASE c # k
    BY <2>2 DEF BankStep
  <2> QED BY <2>1, <2>2
<1>8. ASSUME NEW c \in Chains, NEW d \in Denoms
      PROVE  Issued(a, c, d) = Issued(b, c, d) + IF c = p.src /\ d = denom THEN amount ELSE 0
  <2>1. Other(c) = k <=> c = p.src
    <3>1. Other(c) \in Chains /\ Other(c) # c
      BY OtherChain
    <3>2. k = Other(p.src)
      BY <1>0, OtherOfOther
    <3>3. c # p.src => c = k
      BY <1>0, <3>2, OtherOfOther
    <3> QED BY <3>1, <3>2, <3>3
  <2>2. Issued(a, c, d) = Issued(b, c, d) + IF Other(c) = k /\ d = denom THEN amount ELSE 0
    BY <1>0, <1>1, <1>2, IssuedGrows
  <2> QED BY <2>1, <2>2
<1>9. ASSUME NEW c \in Chains, NEW d \in Denoms
      PROVE  /\ Owing(i, o, t, c, d)[p] = 0
             /\ Owing(i, r, t, c, d)[p] = IF c = p.src /\ d = denom THEN amount ELSE 0
             /\ Releasing(i, r, c, d)[p] = 0 /\ Releasing(i, o, c, d)[p] = 0
  BY <1>3 DEF Owing, Releasing, InTime, Names
<1>10. Entries(b, i, r, t, a, i, o, t, p) /\ Prudent(b, i, r, t, a, i, o, t, p)
  <2>1. ASSUME NEW c \in Chains, NEW d \in Denoms
        PROVE  /\ a[c][<<Lock, d>>] + Releasing(i, o, c, d)[p] + Issued(b, c, d)
                    + Owing(i, r, t, c, d)[p]
                    = b[c][<<Lock, d>>] + Releasing(i, r, c, d)[p] + Issued(a, c, d)
                        + Owing(i, o, t, c, d)[p]
               /\ a[c][<<Lock, d>>] + Owing(i, r, t, c, d)[p]
                    >= b[c][<<Lock, d>>] + Owing(i, o, t, c, d)[p]
    <3>1. /\ b[c][<<Lock, d>>] \in Nat /\ Issued(b, c, d) \in Nat
          /\ Owing(i, r, t, c, d)[p] \in Nat /\ Issued(a, c, d) \in Nat
      BY <1>1, BooksAreNatural
    <3>2. Issued(a, c, d) = Issued(b, c, d) + Owing(i, r, t, c, d)[p]
      BY <1>8, <1>9
    <3> QED BY <1>7, <1>9, <3>1, <3>2
  <2> QED BY <2>1 DEF Entries, Prudent
<1>11. PacketsAtHome(i)
  BY DEF Books
<1>12. Settled(o, t)
  BY DEF Books, Settled, OnePacket
<1> QED BY <1>1, <1>6, <1>10, <1>11, <1>12, BooksMove

\* A packet that arrives late changes no entry.
LEMMA BooksQuiet ==
    ASSUME NEW b, NEW i, NEW r, NEW t, Books(b, i, r, t), NEW o,
           \A p \in Packets : InTime(o, p) <=> InTime(r, p)
    PROVE  Books(b, i, o, t)
<1>1. ASSUME NEW c, NEW d
      PROVE  Owing(i, o, t, c, d) = Owing(i, r, t, c, d)
             /\ Releasing(i, o, c, d) = Releasing(i, r, c, d)
  BY DEF Owing, Releasing, InTime
<1>2. Solvent(b, i, o, t) /\ Balanced(b, i, o, t)
  BY <1>1 DEF Books, Solvent, Balanced, Owed, Released
<1>3. Settled(o, t)
  BY DEF Books, Settled, InTime
<1> QED BY <1>2, <1>3 DEF Books

\* The invariant: the books of the lock account are right as well.
VInv == TInv /\ Books(BALANCES, ICS20, RECEIVE_PACKET, TIMEOUT_PACKET)

LEMMA VInvNext ==
    ASSUME TInv', Books(BALANCES', ICS20', RECEIVE_PACKET', TIMEOUT_PACKET')
    PROVE  VInv'
BY DEF VInv

LEMMA TransferBooks ==
    ASSUME VInv, NEW p \in Packets, NEW sender \in Users, NEW receiver \in Users,
           NEW denom \in Denoms, NEW amount \in Amounts, NEW memo \in Memos,
           NEW timeout \in Timeouts,
           Transfer(p, sender, receiver, denom, amount, memo, timeout)
    PROVE  VInv'
<1>1. TInv'
  BY TransferInv DEF VInv
<1>0. PICK c \in Chains : c = p.src
  BY DEF Packets
<1> DEFINE t == [amount |-> amount, denom |-> Unwrap(p.src, denom, p.channel),
                 sender |-> sender, receiver |-> receiver, memo |-> memo, locked |-> denom]
<1>2. PICK n \in Nat \ {0} : n = amount
  BY SupplyAssumption
<1>3. /\ BALANCES \in Banks /\ BALANCES[c] \in [Accounts \X Denoms -> Nat]
      /\ sender \in Accounts /\ Lock \in Accounts /\ sender # Lock
  BY UsersAssumption DEF Accounts, VInv, TInv, TransferTypeOK, Banks
<1>p. PICK s : s = SendCoins(BALANCES[c], sender, Lock, denom, n)
  OBVIOUS
<1>4. BALANCES[c][<<sender, denom>>] >= n
  BY <1>0, <1>2 DEF Transfer, CanPay
<1>5. Paid(BALANCES[c], s, sender, Lock, denom, n)
  <2>1. Payable(BALANCES[c], sender, Lock, denom, n)
    BY <1>3, <1>4 DEF Payable
  <2> QED BY <1>p, <2>1, SendCoinsDoes
<1>6. BankStep(BALANCES, BALANCES', c, s)
  <2>1. BALANCES' = [BALANCES EXCEPT ![c] = s]
    BY <1>0, <1>2, <1>p DEF Transfer
  <2>2. s \in [Accounts \X Denoms -> Nat]
    BY <1>5 DEF Paid
  <2> QED BY <1>3, <2>1, <2>2, BankSteps
<1>7. SEND_PACKET[p] = None /\ Unsent(p)
  <2>1. SEND_PACKET[p] = None
    BY NextSequenceIsFree DEF VInv, TInv, IInv, Transfer
  <2> QED BY <2>1 DEF VInv, TInv, IInv, Phases, Phase, Unsent, InTransit, Delivered, Answered,
                      Expired, Returned
<1>8. ICS20[p] = None /\ RECEIVE_PACKET[p] = "no" /\ p \notin TIMEOUT_PACKET
  BY <1>7 DEF Unsent, VInv, TInv, TransferTypeOK
<1>9. /\ ICS20 \in Transfers /\ ICS20' \in Transfers
      /\ UNCHANGED <<RECEIVE_PACKET, TIMEOUT_PACKET>>
  BY <1>1 DEF VInv, TInv, Transfer, SendPacket
<1>10. ICS20' = [ICS20 EXCEPT ![p] = t]
  BY DEF Transfer
<1>11. t.amount = n /\ t.locked = denom /\ (t.denom = denom \/ denom = Wrap(p.channel, t.denom))
  <2>1. t.amount = n /\ t.locked = denom /\ t.denom = Unwrap(c, denom, p.channel)
    BY <1>0, <1>2
  <2>2. CASE denom \in IBC_DENOMS[c] /\ Head(denom) = p.channel
    <3>1. Len(denom) > 1
      BY <2>2 DEF VInv, TInv, TransferTypeOK
    <3> QED BY <2>1, <2>2, <3>1, UnwrapsTo DEF Unwrap
  <2>3. CASE ~(denom \in IBC_DENOMS[c] /\ Head(denom) = p.channel)
    BY <2>1, <2>3 DEF Unwrap
  <2> QED BY <2>1, <2>2, <2>3
<1> HIDE DEF t
<1>12. /\ ICS20'[p] = t /\ \A q \in Packets : q # p => ICS20'[q] = ICS20[q]
  BY <1>9, <1>10 DEF Transfers
<1>13. ICS20'[p] # None
  <2>1. SEND_PACKET'[p] # None
    BY TimeoutIsNotNone DEF VInv, TInv, IInv, TypeOK, Transfer, SendPacket
  <2> QED BY <1>1, <2>1 DEF TInv, TransferTypeOK
<1>14. PICK j : j = ICS20'
  OBVIOUS
<1>15. /\ j \in Transfers /\ j[p] # None /\ j[p].amount = n /\ j[p].locked = denom
       /\ j[p].denom = denom \/ denom = Wrap(p.channel, j[p].denom)
       /\ OnePacket(ICS20, RECEIVE_PACKET, TIMEOUT_PACKET, j, RECEIVE_PACKET, TIMEOUT_PACKET, p)
  BY <1>9, <1>11, <1>12, <1>13, <1>14 DEF OnePacket
<1>16. Books(BALANCES', j, RECEIVE_PACKET, TIMEOUT_PACKET)
  <2>1. BankStep(BALANCES, BALANCES', p.src, s)
    BY <1>0, <1>6
  <2>2. Paid(BALANCES[p.src], s, sender, Lock, denom, n) /\ BALANCES[p.src][<<sender, denom>>] >= n
    BY <1>0, <1>4, <1>5
  <2>3. Books(BALANCES, ICS20, RECEIVE_PACKET, TIMEOUT_PACKET)
    BY DEF VInv
  <2> QED BY <1>8, <1>15, <2>1, <2>2, <2>3, BooksLock
<1> QED BY <1>1, <1>9, <1>14, <1>16, VInvNext

LEMMA ReceiveBooks ==
    ASSUME NativeAtOneChain, VInv, NEW p \in Packets, Receive(p)
    PROVE  VInv'
<1>1. TInv'
  BY ReceiveTransferInv DEF VInv
<1>0. PICK c \in Chains : c = Dest(p) /\ c # p.src
  BY OtherChain DEF Dest, Packets
<1>2. /\ ICS20[p] # None /\ p \notin TIMEOUT_PACKET /\ ~InTime(RECEIVE_PACKET, p)
      /\ ICS20 \in Transfers
  <2>1. RECEIVE_PACKET[p] = "no" /\ SEND_PACKET[p] # None
    BY DEF Receive, ReceivePacket, NotReceived
  <2>2. p \notin TIMEOUT_PACKET
    BY <2>1 DEF VInv, TInv, IInv, Phases, Phase, Unsent, InTransit, Delivered, Answered,
                Expired, Returned
  <2> QED BY <2>1, <2>2 DEF Receive, VInv, TInv, InTime
<1>3. PICK denom \in Denoms, n \in Nat \ {0} : Names(ICS20, p, denom, n)
  BY <1>2, AmountIsNatural DEF Names
<1>4. PICK u \in Users : u = Recipient(ICS20[p])
  <2>1. ICS20[p] \in Ics20Packets
    BY <1>2 DEF Transfers
  <2> QED BY <2>1, UsersAssumption DEF Ics20Packets, Recipient
<1>5. /\ BALANCES \in Banks /\ BALANCES[c] \in [Accounts \X Denoms -> Nat]
      /\ u \in Accounts /\ Lock \in Accounts /\ u # Lock
      /\ Books(BALANCES, ICS20, RECEIVE_PACKET, TIMEOUT_PACKET)
  BY UsersAssumption DEF Accounts, VInv, TInv, TransferTypeOK, Banks
<1>6. PICK o : o = RECEIVE_PACKET'
  OBVIOUS
<1>7. /\ OnePacket(ICS20, RECEIVE_PACKET, TIMEOUT_PACKET, ICS20, o, TIMEOUT_PACKET, p)
      /\ InTime(o, p) /\ UNCHANGED <<ICS20, TIMEOUT_PACKET>>
  BY <1>6 DEF VInv, TInv, IInv, TypeOK, Receive, ReceivePacket, OnePacket, InTime
<1>8. PICK voucher : voucher = Wrap(p.channel, denom)
  OBVIOUS
<1>9. \/ /\ BALANCES[c][<<Lock, denom>>] >= n
         /\ BALANCES' = [BALANCES EXCEPT ![c] = SendCoins(@, Lock, u, denom, n)]
      \/ /\ ~(BALANCES[c][<<Lock, denom>>] > 0) /\ voucher \in Denoms
         /\ BALANCES' = [BALANCES EXCEPT ![c] = Mint(@, u, voucher, n)]
  BY <1>0, <1>3, <1>4, <1>8 DEF Receive, Returns, LockCovers, Locked, Names
<1>10. Books(BALANCES', ICS20, o, TIMEOUT_PACKET)
  <2>1. CASE /\ BALANCES[c][<<Lock, denom>>] >= n
             /\ BALANCES' = [BALANCES EXCEPT ![c] = SendCoins(@, Lock, u, denom, n)]
    <3>1. PICK s : s = SendCoins(BALANCES[c], Lock, u, denom, n)
      OBVIOUS
    <3>2. Payable(BALANCES[c], Lock, u, denom, n)
      BY <1>5, <2>1 DEF Payable
    <3>3. Paid(BALANCES[c], s, Lock, u, denom, n)
      BY <3>1, <3>2, SendCoinsDoes
    <3>4. BankStep(BALANCES, BALANCES', c, s)
      <4>1. s \in [Accounts \X Denoms -> Nat]
        BY <3>3 DEF Paid
      <4>2. BALANCES' = [BALANCES EXCEPT ![c] = s]
        BY <2>1, <3>1
      <4> QED BY <1>5, <4>1, <4>2, BankSteps
    <3> QED BY <1>0, <1>2, <1>3, <1>5, <1>7, <3>2, <3>3, <3>4, BooksPay
  <2>2. CASE /\ ~(BALANCES[c][<<Lock, denom>>] > 0) /\ voucher \in Denoms
             /\ BALANCES' = [BALANCES EXCEPT ![c] = Mint(@, u, voucher, n)]
    <3>1. PICK s : s = Mint(BALANCES[c], u, voucher, n)
      OBVIOUS
    <3>2. s \in [Accounts \X Denoms -> Nat] /\ Minted(BALANCES, s, c, u, voucher, n)
      BY <1>5, <2>2, <3>1 DEF Mint, Minted
    <3>3. BankStep(BALANCES, BALANCES', c, s)
      <4>1. BALANCES' = [BALANCES EXCEPT ![c] = s]
        BY <2>2, <3>1
      <4> QED BY <1>5, <3>2, <4>1, BankSteps
    <3>4. BALANCES[c][<<Lock, denom>>] = 0
      <4>1. BALANCES[c][<<Lock, denom>>] \in Nat
        BY <1>5
      <4> QED BY <2>2, <4>1
    <3> QED BY <1>0, <1>2, <1>3, <1>5, <1>7, <1>8, <2>2, <3>2, <3>3, <3>4, BooksMint
  <2> QED BY <1>9, <2>1, <2>2
<1> QED BY <1>1, <1>6, <1>7, <1>10, VInvNext

LEMMA TimeoutBooks ==
    ASSUME VInv, NEW p \in Packets, Timeout(p)
    PROVE  VInv'
<1>1. TInv'
  BY TimeoutTransferInv DEF VInv
<1>0. PICK c \in Chains : c = p.src
  BY DEF Packets
<1>2. /\ ICS20[p] # None /\ p \notin TIMEOUT_PACKET /\ ~InTime(RECEIVE_PACKET, p)
      /\ ICS20 \in Transfers
  <2>1. Expired(p)
    BY DEF VInv, TInv, IInv, Timeout, TimeoutPacket, ReportedLate, CanTimeout, Phases, Phase,
           Unsent, InTransit, Delivered, Answered, Expired, Returned
  <2> QED BY <2>1 DEF Expired, VInv, TInv, TransferTypeOK, InTime
<1>3. PICK denom \in Denoms, n \in Nat \ {0} : Names(ICS20, p, denom, n)
  BY <1>2, AmountIsNatural DEF Names
<1>4. PICK u \in Users : u = ICS20[p].sender
  <2>1. ICS20[p] \in Ics20Packets
    BY <1>2 DEF Transfers
  <2> QED BY <2>1 DEF Ics20Packets
<1>5. /\ BALANCES \in Banks /\ BALANCES[c] \in [Accounts \X Denoms -> Nat]
      /\ u \in Accounts /\ Lock \in Accounts /\ u # Lock
      /\ Books(BALANCES, ICS20, RECEIVE_PACKET, TIMEOUT_PACKET)
  BY UsersAssumption DEF Accounts, VInv, TInv, TransferTypeOK, Banks
<1>6. PICK o : o = TIMEOUT_PACKET'
  OBVIOUS
<1>7. /\ OnePacket(ICS20, RECEIVE_PACKET, TIMEOUT_PACKET, ICS20, RECEIVE_PACKET, o, p)
      /\ p \in o /\ UNCHANGED <<ICS20, RECEIVE_PACKET>>
  BY <1>6 DEF Timeout, TimeoutPacket, OnePacket
<1>8. PICK s : s = SendCoins(BALANCES[c], Lock, u, denom, n)
  OBVIOUS
<1>9. Payable(BALANCES[c], Lock, u, denom, n)
  <2>1. BALANCES[c][<<Lock, denom>>] >= n
    BY <1>0, <1>3 DEF Timeout, Refund, LockCovers, Locked, Names
  <2> QED BY <1>5, <2>1 DEF Payable
<1>10. Paid(BALANCES[c], s, Lock, u, denom, n)
  BY <1>8, <1>9, SendCoinsDoes
<1>11. BankStep(BALANCES, BALANCES', c, s)
  <2>1. s \in [Accounts \X Denoms -> Nat]
    BY <1>10 DEF Paid
  <2>2. BALANCES' = [BALANCES EXCEPT ![c] = s]
    BY <1>0, <1>3, <1>4, <1>8 DEF Timeout, Refund, Names
  <2> QED BY <1>5, <2>1, <2>2, BankSteps
<1>12. Books(BALANCES', ICS20, RECEIVE_PACKET, o)
  <2>1. /\ BankStep(BALANCES, BALANCES', p.src, s)
        /\ Payable(BALANCES[p.src], Lock, u, denom, n)
        /\ Paid(BALANCES[p.src], s, Lock, u, denom, n)
    BY <1>0, <1>9, <1>10, <1>11
  <2> QED BY <1>2, <1>3, <1>5, <1>7, <2>1, BooksRefund
<1> QED BY <1>1, <1>6, <1>7, <1>12, VInvNext

LEMMA InitVInv ==
    ASSUME NativeAtOneChain, TransferInit
    PROVE  VInv
<1> DEFINE first(c, x) == IF x[1] = Owner /\ Len(x[2]) = 1 THEN Supply[c][x[2][1]] ELSE 0
<1>1. TInv
  BY InitTInv
<1>2. /\ \A c \in Chains : \A x \in Accounts \X Denoms : BALANCES[c][x] = first(c, x)
      /\ ICS20 = [p \in Packets |-> None]
      /\ TIMEOUT_PACKET = {}
  BY DEF TransferInit, Init
<1>3. BALANCES \in Banks /\ ICS20 \in Transfers
  BY <1>1 DEF TInv, TransferTypeOK, Banks
<1>4. ASSUME NEW c \in Chains, NEW u \in Accounts, NEW d \in Denoms, BALANCES[c][<<u, d>>] # 0
      PROVE  u = Owner /\ Len(d) = 1 /\ Supply[c][d[1]] # 0
  BY <1>2, <1>4
<1>5. ASSUME NEW c \in Chains, NEW u \in Accounts, NEW d \in Denoms, BALANCES[c][<<u, d>>] # 0
      PROVE  Right(c, d)
  <2>1. Len(d) = 1 /\ Supply[c][Name(d)] # 0
    BY <1>4, <1>5 DEF Name
  <2>2. PICK h \in Chains : h = Home(Name(d)) /\ Supply[Other(h)][Name(d)] = 0
    BY HomeIsChain
  <2>3. c = h
    BY <2>1, <2>2, OtherOfOther
  <2>4. Len(d) % 2 = 1
    BY <2>1
  <2> QED BY <2>2, <2>3, <2>4 DEF Right
<1>6. ASSUME NEW c \in Chains, NEW d \in Denoms
      PROVE  /\ BALANCES[c][<<Lock, d>>] = 0
             /\ Owed(ICS20, RECEIVE_PACKET, TIMEOUT_PACKET, c, d) = 0
             /\ Released(ICS20, RECEIVE_PACKET, c, d) = 0
             /\ Issued(BALANCES, c, d) = 0
  <2>1. BALANCES[c][<<Lock, d>>] = 0
    BY <1>4, UsersAssumption DEF Accounts
  <2>2. Owed(ICS20, RECEIVE_PACKET, TIMEOUT_PACKET, c, d) = 0
    <3>1. \A p \in Packets : Owing(ICS20, RECEIVE_PACKET, TIMEOUT_PACKET, c, d)[p] = 0
      BY <1>2 DEF Owing
    <3> QED BY <3>1, PacketsFinite, SumOfZeros DEF Owed
  <2>3. Released(ICS20, RECEIVE_PACKET, c, d) = 0
    <3>1. \A p \in Packets : Releasing(ICS20, RECEIVE_PACKET, c, d)[p] = 0
      BY <1>2 DEF Releasing
    <3> QED BY <3>1, PacketsFinite, SumOfZeros DEF Released
  <2>4. Issued(BALANCES, c, d) = 0
    <3>1. ASSUME NEW x \in Accounts \X Channels
          PROVE  Vouchers(BALANCES, c, d)[x] = 0
      <4>1. PICK k, w : k \in Chains /\ k = Other(c) /\ w = Wrap(x[2], d)
        BY OtherChain
      <4>2. CASE w \in Denoms
        <5>1. Len(w) # 1
          <6>1. PICK n \in Nat \ {0} : n = Len(d)
            BY DenomProperties
          <6>2. Len(w) = 1 + n
            BY <4>1, <6>1, WrappedParts
          <6> QED BY <6>1, <6>2
        <5>2. BALANCES[k][<<x[1], w>>] = 0
          <6>1. x[1] \in Accounts
            OBVIOUS
          <6>2. ~(Len(w) = 1)
            BY <5>1
          <6> QED BY <1>4, <4>1, <4>2, <6>1, <6>2
        <5> QED BY <4>1, <4>2, <5>2 DEF Vouchers
      <4>3. CASE w \notin Denoms
        BY <4>1, <4>3 DEF Vouchers
      <4> QED BY <4>2, <4>3
    <3> QED BY <3>1, VouchersFinite, SumOfZeros DEF Issued
  <2> QED BY <2>1, <2>2, <2>3, <2>4
<1>7. /\ Settled(RECEIVE_PACKET, TIMEOUT_PACKET)
      /\ CoinsAtHome(BALANCES) /\ PacketsAtHome(ICS20)
  BY <1>2, <1>5 DEF Settled, CoinsAtHome, PacketsAtHome
<1>8. /\ Solvent(BALANCES, ICS20, RECEIVE_PACKET, TIMEOUT_PACKET)
      /\ Balanced(BALANCES, ICS20, RECEIVE_PACKET, TIMEOUT_PACKET)
  BY <1>6 DEF Solvent, Balanced
<1> QED BY <1>1, <1>3, <1>7, <1>8 DEF VInv, Books

LEMMA NextVInv ==
    ASSUME NativeAtOneChain, VInv, [TransferNext]_transferVars
    PROVE  VInv'
<1>1. /\ TInv' /\ Books(BALANCES, ICS20, RECEIVE_PACKET, TIMEOUT_PACKET)
      /\ RECEIVE_PACKET \in [Packets -> {"no", "in time", "timed out"}]
  BY NextTInv DEF VInv, TInv, IInv, TypeOK
\* A step that moves no coins and decides no transfer.
<1>2. ASSUME UNCHANGED <<bankVars, TIMEOUT_PACKET>>,
             \A p \in Packets : InTime(RECEIVE_PACKET', p) <=> InTime(RECEIVE_PACKET, p)
      PROVE  VInv'
  <2>1. Books(BALANCES, ICS20, RECEIVE_PACKET', TIMEOUT_PACKET)
    BY <1>1, <1>2, BooksQuiet
  <2>2. UNCHANGED <<BALANCES, ICS20, TIMEOUT_PACKET>>
    BY <1>2 DEF bankVars
  <2> QED BY <1>1, <2>1, <2>2, VInvNext
<1>3. ASSUME NEW p \in Packets, NEW sender \in Users, NEW receiver \in Users,
             NEW denom \in Denoms, NEW amount \in Amounts, NEW memo \in Memos,
             NEW timeout \in Timeouts,
             Transfer(p, sender, receiver, denom, amount, memo, timeout)
      PROVE  VInv'
  BY <1>3, TransferBooks
<1>4. ASSUME NEW p \in Packets, Receive(p)
      PROVE  VInv'
  BY <1>4, ReceiveBooks
<1>5. ASSUME NEW p \in Packets, ReceiveLate(p)
      PROVE  VInv'
  <2>1. \A q \in Packets : InTime(RECEIVE_PACKET', q) <=> InTime(RECEIVE_PACKET, q)
    BY <1>1, <1>5 DEF ReceiveLate, ReceiveLatePacket, NotReceived, InTime
  <2> QED BY <1>2, <1>5, <2>1 DEF ReceiveLate, ReceiveLatePacket
<1>6. ASSUME NEW p \in Packets, Acknowledge(p)
      PROVE  VInv'
  BY <1>2, <1>6 DEF Acknowledge, AcknowledgePacket
<1>7. ASSUME NEW p \in Packets, Timeout(p)
      PROVE  VInv'
  BY <1>7, TimeoutBooks
<1>8. ASSUME NEW c \in Chains, TransferNextBlock(c)
      PROVE  VInv'
  BY <1>2, <1>8 DEF TransferNextBlock, NextBlock, ibcVars
<1>9. CASE UNCHANGED transferVars
  BY <1>2, <1>9 DEF transferVars, vars
<1> QED BY <1>3, <1>4, <1>5, <1>6, <1>7, <1>8, <1>9 DEF TransferNext

LEMMA AmountsAre ==
    ASSUME TInv, NEW ps \in SUBSET Packets, \A p \in ps : ICS20[p] # None,
           NEW g, \A p \in ps : g[p] = ICS20[p].amount,
           \A p \in Packets : p \notin ps => g[p] = 0
    PROVE  AmountsOf(ps) = SumFunctionOnSet(g, Packets)
<1> DEFINE f == [p \in ps |-> ICS20[p].amount]
<1>1. \A p \in ps : ICS20[p].amount \in Nat
  BY AmountIsNatural DEF TInv
<1>2. Natural(g, Packets)
  BY <1>1 DEF Natural
<1>3. DOMAIN f = ps /\ \A p \in ps : g[p] = f[p]
  OBVIOUS
<1>4. AmountsOf(ps) = SumFunction(f)
  BY DEF AmountsOf
<1> HIDE DEF f
<1> QED BY <1>2, <1>3, <1>4, PacketsFinite, SumWithin


\* What the books say of the coins d of chain c.
LEMMA LockCoversClaims ==
    ASSUME VInv, NEW c \in Chains, NEW d \in Denoms
    PROVE  SumFunctionOnSet(Vouchers(BALANCES, c, d), Users \X Channels)
             + SumFunctionOnSet(Returning(ICS20, RECEIVE_PACKET, TIMEOUT_PACKET, c, d), Packets)
             + Owed(ICS20, RECEIVE_PACKET, TIMEOUT_PACKET, c, d) <= Locked(c, d)
<1> DEFINE users == SumFunctionOnSet(Vouchers(BALANCES, c, d), Users \X Channels)
           back == Returning(ICS20, RECEIVE_PACKET, TIMEOUT_PACKET, c, d)
           out == Released(ICS20, RECEIVE_PACKET, c, d)
           owed == Owed(ICS20, RECEIVE_PACKET, TIMEOUT_PACKET, c, d)
           lock == BALANCES[c][<<Lock, d>>]
           issued == Issued(BALANCES, c, d)
           b == SumFunctionOnSet(back, Packets)
<1>1. Books(BALANCES, ICS20, RECEIVE_PACKET, TIMEOUT_PACKET)
      /\ BALANCES \in Banks /\ ICS20 \in Transfers
  BY DEF VInv, Books
<1>2. users + b + out <= issued
  BY <1>1, VouchersCover DEF Books
<1>3. lock + out = issued + owed
  BY <1>1 DEF Books, Balanced
<1>4. lock \in Nat /\ out \in Nat /\ issued \in Nat /\ owed \in Nat
  BY <1>1, BooksAreNatural
<1>5. b \in Nat
  <2>1. Natural(back, Packets)
    BY <1>1, ReturningIsNatural
  <2> HIDE DEF back
  <2> QED BY <2>1, PacketsFinite, SumIsNatural
<1>6. users \in Nat
  <2>1. Users \X Channels \subseteq Accounts \X Channels
    BY DEF Accounts
  <2>2. Natural(Vouchers(BALANCES, c, d), Accounts \X Channels)
    BY <1>1, VouchersAreNatural
  <2>3. IsFiniteSet(Users \X Channels) /\ Natural(Vouchers(BALANCES, c, d), Users \X Channels)
    BY <2>1, <2>2, VouchersFinite, FS_Subset DEF Natural
  <2> QED BY <2>3, SumIsNatural
<1>7. Locked(c, d) = lock
  BY DEF Locked
<1> HIDE DEF users, b, out, owed, lock, issued
<1>8. users + b + owed <= lock
  BY <1>2, <1>3, <1>4, <1>5, <1>6
<1> QED BY <1>7, <1>8 DEF users, b, owed

LEMMA BackedByBooks == VInv => VouchersAreBacked
<1> SUFFICES ASSUME VInv, NEW c \in Chains, NEW d \in Denoms
             PROVE  LET vouchers == SumFunction(
                              [x \in {x \in Users \X Channels : Wrap(x[2], d) \in Denoms} |->
                                 BALANCES[Other(c)][<<x[1], Wrap(x[2], d)>>]])
                        returning == {p \in Packets : InFlight(p) /\ p.src # c
                                          /\ ICS20[p].locked = Wrap(p.channel, d)}
                        refundable == {p \in Packets : InFlight(p) /\ p.src = c
                                           /\ ICS20[p].locked = d}
                    IN  Locked(c, d) >= vouchers + AmountsOf(returning) + AmountsOf(refundable)
  BY DEF VouchersAreBacked
<1> DEFINE held == {x \in Users \X Channels : Wrap(x[2], d) \in Denoms}
           f == [x \in held |-> BALANCES[Other(c)][<<x[1], Wrap(x[2], d)>>]]
           v == Vouchers(BALANCES, c, d)
           U == Users \X Channels
           returning == {p \in Packets : InFlight(p) /\ p.src # c
                                           /\ ICS20[p].locked = Wrap(p.channel, d)}
           refundable == {p \in Packets : InFlight(p) /\ p.src = c /\ ICS20[p].locked = d}
           back == Returning(ICS20, RECEIVE_PACKET, TIMEOUT_PACKET, c, d)
           owing == Owing(ICS20, RECEIVE_PACKET, TIMEOUT_PACKET, c, d)
           g == [p \in Packets |-> IF p \in refundable THEN ICS20[p].amount ELSE 0]
<1>1. TInv /\ BALANCES \in Banks /\ ICS20 \in Transfers
  BY DEF VInv, Books
<1>2. Natural(v, U) /\ IsFiniteSet(U)
  <2>1. U \subseteq Accounts \X Channels
    BY DEF Accounts
  <2>2. Natural(v, Accounts \X Channels)
    BY <1>1, VouchersAreNatural
  <2> QED BY <2>1, <2>2, VouchersFinite, FS_Subset DEF Natural
<1>3. SumFunction(f) = SumFunctionOnSet(v, U)
  <2>1. DOMAIN f \subseteq U /\ DOMAIN f = held
    OBVIOUS
  <2>2. ASSUME NEW x \in held PROVE v[x] = f[x]
    BY DEF Vouchers, Accounts
  <2>3. ASSUME NEW x \in U, x \notin held PROVE v[x] = 0
    BY <2>3 DEF Vouchers, Accounts
  <2> HIDE DEF f, v, U, held
  <2> QED BY <1>2, <2>1, <2>2, <2>3, SumWithin
<1>4. AmountsOf(returning) = SumFunctionOnSet(back, Packets)
  <2>1. returning \in SUBSET Packets /\ \A p \in returning : ICS20[p] # None
    BY DEF InFlight
  <2>2. \A p \in returning : back[p] = ICS20[p].amount
    BY DEF InFlight, Returning, Flying
  <2>3. \A p \in Packets : p \notin returning => back[p] = 0
    BY DEF InFlight, Returning, Flying
  <2> HIDE DEF returning, back
  <2> QED BY <1>1, <2>1, <2>2, <2>3, AmountsAre
<1>5. AmountsOf(refundable) = SumFunctionOnSet(g, Packets)
  <2>1. refundable \in SUBSET Packets /\ \A p \in refundable : ICS20[p] # None
    BY DEF InFlight
  <2> HIDE DEF refundable
  <2>2. \A p \in refundable : g[p] = ICS20[p].amount
    BY <2>1
  <2>3. \A p \in Packets : p \notin refundable => g[p] = 0
    OBVIOUS
  <2> HIDE DEF g
  <2> QED BY <1>1, <2>1, <2>2, <2>3, AmountsAre
<1>6. Natural(owing, Packets)
  BY <1>1, OwingIsNatural
<1>7. ASSUME NEW p \in Packets PROVE g[p] \in Nat /\ g[p] <= owing[p]
  <2>1. CASE p \in refundable
    <3>1. ICS20[p].amount \in Nat
      BY <1>1, <2>1, AmountIsNatural DEF InFlight
    <3>2. owing[p] = ICS20[p].amount
      BY <2>1 DEF InFlight, Owing
    <3>3. g[p] = ICS20[p].amount
      BY <2>1
    <3> HIDE DEF g, owing
    <3> QED BY <3>1, <3>2, <3>3
  <2>2. CASE p \notin refundable
    <3>1. g[p] = 0
      BY <2>2
    <3> HIDE DEF g, owing
    <3> QED BY <1>6, <3>1 DEF Natural
  <2> QED BY <2>1, <2>2
<1> HIDE DEF f, v, U, held, returning, refundable, back, owing, g
<1>8. Natural(g, Packets)
  BY <1>7 DEF Natural
<1>9. SumFunctionOnSet(g, Packets) <= SumFunctionOnSet(owing, Packets)
  BY <1>6, <1>7, <1>8, PacketsFinite, SumAtMost
<1>10. SumFunctionOnSet(v, U) + SumFunctionOnSet(back, Packets)
         + SumFunctionOnSet(owing, Packets) <= Locked(c, d)
  BY LockCoversClaims DEF v, U, back, owing, Owed
<1>11. /\ SumFunctionOnSet(v, U) \in Nat /\ SumFunctionOnSet(g, Packets) \in Nat
       /\ SumFunctionOnSet(owing, Packets) \in Nat
  BY <1>2, <1>6, <1>8, PacketsFinite, SumIsNatural
<1>12. SumFunctionOnSet(back, Packets) \in Nat
  <2>1. Natural(back, Packets)
    BY <1>1, ReturningIsNatural DEF back
  <2> QED BY <2>1, PacketsFinite, SumIsNatural
<1>13. Locked(c, d) \in Nat
  BY <1>1, BooksAreNatural DEF Locked
<1>14. Locked(c, d) >= SumFunction(f) + AmountsOf(returning) + AmountsOf(refundable)
  BY <1>3, <1>4, <1>5, <1>9, <1>10, <1>11, <1>12, <1>13
<1> QED BY <1>14 DEF f, held, returning, refundable

LEMMA LockSuffices ==
    ASSUME NativeAtOneChain
    PROVE  VInv => LockNeverTooLow
<1> SUFFICES ASSUME VInv, NEW p \in Packets, InFlight(p), RECEIVE_PACKET[p] = "no",
                    Returns(Dest(p), ICS20[p])
             PROVE  LockCovers(Dest(p), ICS20[p])
  BY DEF LockNeverTooLow
<1>1. PICK k \in Chains : k = Dest(p) /\ k # p.src /\ k = Other(p.src)
  BY OtherChain DEF Dest, Packets
<1>2. /\ BALANCES \in Banks /\ ICS20 \in Transfers
      /\ Books(BALANCES, ICS20, RECEIVE_PACKET, TIMEOUT_PACKET)
  BY DEF VInv, Books
<1>3. p.src \in Chains /\ p \notin TIMEOUT_PACKET /\ ~InTime(RECEIVE_PACKET, p) /\ ICS20[p] # None
  BY DEF Packets, InFlight, InTime
<1>4. PICK denom \in Denoms, amount \in Nat \ {0} : Names(ICS20, p, denom, amount)
  BY <1>2, <1>3, AmountIsNatural DEF Names
<1>5. PICK lock \in Nat : lock = BALANCES[k][<<Lock, denom>>]
  BY <1>2, BooksAreNatural
<1>6. lock > 0
  BY <1>1, <1>4, <1>5 DEF Returns, Locked, Names
<1>7. Right(k, denom)
  BY <1>2, <1>5, <1>6 DEF Books, CoinsAtHome, Accounts
<1>8. ICS20[p].locked = Wrap(p.channel, denom)
  <2>1. ASSUME ICS20[p].locked = denom PROVE FALSE
    <3>1. Right(p.src, denom)
      BY <1>2, <1>3, <2>1 DEF Books, PacketsAtHome
    <3> QED BY <1>1, <1>3, <1>7, <3>1, RightAway
  <2> QED BY <1>2, <1>4, <2>1 DEF Books, PacketsAtHome, Names
<1>9. Released(ICS20, RECEIVE_PACKET, k, denom) + amount <= Issued(BALANCES, k, denom)
  BY <1>1, <1>2, <1>3, <1>4, <1>8, ReturnIsCovered
<1>10. lock + Released(ICS20, RECEIVE_PACKET, k, denom)
         = Issued(BALANCES, k, denom) + Owed(ICS20, RECEIVE_PACKET, TIMEOUT_PACKET, k, denom)
  BY <1>2, <1>5 DEF Books, Balanced
<1>11. /\ Released(ICS20, RECEIVE_PACKET, k, denom) \in Nat /\ Issued(BALANCES, k, denom) \in Nat
       /\ Owed(ICS20, RECEIVE_PACKET, TIMEOUT_PACKET, k, denom) \in Nat
  BY <1>2, BooksAreNatural
<1>12. lock >= amount
  BY <1>9, <1>10, <1>11
<1> QED BY <1>1, <1>4, <1>5, <1>12 DEF LockCovers, Locked, Names

\* Vouchers of whatever path, those on their way back and transfers that may still be
\* refunded are covered by the lock account of the chain whose coins they stand for,
\* with any number of channels and users: transfer, ibc_packet_receive and
\* ibc_packet_timeout of src/bank.rs.
THEOREM VouchersStayBacked ==
    ASSUME NativeAtOneChain
    PROVE  TransferSpec => []VouchersAreBacked
<1>1. TransferInit => VInv
  BY InitVInv
<1>2. VInv /\ [TransferNext]_transferVars => VInv'
  BY NextVInv
<1> QED
  BY <1>1, <1>2, BackedByBooks, PTL DEF TransferSpec

\* The assertion of ibc_packet_receive, src/bank.rs, never fails: if the lock account
\* holds coins that a packet names, they came back and it holds enough of them.
THEOREM LockStaysHighEnough ==
    ASSUME NativeAtOneChain
    PROVE  TransferSpec => []LockNeverTooLow
<1>1. TransferInit => VInv
  BY InitVInv
<1>2. VInv /\ [TransferNext]_transferVars => VInv'
  BY NextVInv
<1>3. VInv => LockNeverTooLow
  BY LockSuffices
<1> QED
  BY <1>1, <1>2, <1>3, PTL DEF TransferSpec

LEMMA RefundsAreKept ==
    ASSUME NativeAtOneChain
    PROVE  VInv => ReturnsAreNotRefunded
<1> SUFFICES ASSUME VInv, NEW p \in Packets, InFlight(p)
             PROVE  LockCovers(p.src, ICS20[p]) <=> ICS20[p].denom = ICS20[p].locked
  BY DEF ReturnsAreNotRefunded
<1>1. PICK k \in Chains : k = p.src
  BY DEF Packets
<1>2. /\ BALANCES \in Banks /\ ICS20 \in Transfers
      /\ Books(BALANCES, ICS20, RECEIVE_PACKET, TIMEOUT_PACKET)
  BY DEF VInv, Books
<1>3. /\ p.channel \in Channels /\ p \notin TIMEOUT_PACKET
      /\ ~InTime(RECEIVE_PACKET, p) /\ ICS20[p] # None
  BY DEF Packets, InFlight, InTime
<1>4. PICK denom \in Denoms, amount \in Nat \ {0} : Names(ICS20, p, denom, amount)
  BY <1>2, <1>3, AmountIsNatural DEF Names
<1>5. PICK lock \in Nat : lock = BALANCES[k][<<Lock, denom>>]
  BY <1>2, BooksAreNatural
<1>6. LockCovers(k, ICS20[p]) <=> lock >= amount
  BY <1>4, <1>5 DEF LockCovers, Locked, Names
<1>7. ASSUME ICS20[p].locked = denom
      PROVE  lock >= amount
  <2> DEFINE owing == Owing(ICS20, RECEIVE_PACKET, TIMEOUT_PACKET, k, denom)
  <2>1. Natural(owing, Packets)
    BY <1>2, OwingIsNatural
  <2>2. owing[p] = amount
    BY <1>1, <1>3, <1>4, <1>7 DEF Owing, Names, InTime
  <2>3. lock >= Owed(ICS20, RECEIVE_PACKET, TIMEOUT_PACKET, k, denom)
    BY <1>2, <1>5 DEF Books, Solvent
  <2>4. Owed(ICS20, RECEIVE_PACKET, TIMEOUT_PACKET, k, denom) = SumFunctionOnSet(owing, Packets)
    BY DEF Owed
  <2> HIDE DEF owing
  <2>5. SumFunctionOnSet(owing, Packets)
          = owing[p] + SumFunctionOnSet(owing, Packets \ {p})
    BY <2>1, PacketsFinite, SumTakesOut
  <2>6. SumFunctionOnSet(owing, Packets \ {p}) \in Nat
    <3>1. IsFiniteSet(Packets \ {p}) /\ Natural(owing, Packets \ {p})
      BY <2>1, PacketsFinite, FS_Subset DEF Natural
    <3> QED BY <3>1, SumIsNatural
  <2> QED BY <2>2, <2>3, <2>4, <2>5, <2>6
\* A voucher may be on this chain, and then what it stands for may not.
<1>8. ASSUME ICS20[p].locked # denom
      PROVE  lock = 0
  <2>1. PICK w : w = Wrap(p.channel, denom)
    OBVIOUS
  <2>2. ICS20[p].locked = w
    BY <1>2, <1>4, <1>8, <2>1 DEF Books, PacketsAtHome, Names
  <2>3. w \in Denoms
    BY <1>2, <1>3, <2>2, AmountIsNatural
  <2>4. Right(k, w)
    BY <1>1, <1>2, <1>3, <2>2 DEF Books, PacketsAtHome
  <2>5. ~Right(k, denom)
    BY <1>3, <2>1, <2>3, <2>4, RightWrapped, RightAway
  <2>6. CoinsAtHome(BALANCES) /\ Lock \in Accounts
    BY <1>2 DEF Books, Accounts
  <2> QED BY <1>5, <2>5, <2>6 DEF CoinsAtHome
<1>9. ICS20[p].denom = denom
  BY <1>4 DEF Names
<1>10. lock >= amount <=> ICS20[p].locked = denom
  BY <1>7, <1>8
<1> QED BY <1>1, <1>6, <1>9, <1>10

\* The extent of the second finding: ibc_packet_timeout refunds a transfer that left
\* under the name its coins have on the sender's chain, whatever else happened, and
\* never refunds vouchers that were sent back.
THEOREM RefundsFollowTheName ==
    ASSUME NativeAtOneChain
    PROVE  TransferSpec => []ReturnsAreNotRefunded
<1>1. TransferInit => VInv
  BY InitVInv
<1>2. VInv /\ [TransferNext]_transferVars => VInv'
  BY NextVInv
<1>3. VInv => ReturnsAreNotRefunded
  BY RefundsAreKept
<1> QED
  BY <1>1, <1>2, <1>3, PTL DEF TransferSpec
=============================================================================
