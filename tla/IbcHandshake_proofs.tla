------------------------- MODULE IbcHandshake_proofs -------------------------
(***************************************************************************)
(* Proofs about IbcHandshake, for any ports, versions and orders, and any   *)
(* number of connections, channels and handshakes that go on at a time.     *)
(***************************************************************************)
EXTENDS IbcHandshake, SequenceTheorems, TLAPS

-----------------------------------------------------------------------------
(* The invariant *)

\* The connections of all chains: those in answering were created in answer to a
\* connection of the other chain.
AllConnections == {p \in Chains \X (1 .. MaxConnections) : p[2] <= Len(connections[p[1]])}
Counterparty(c, i) == connections[c][i].counterparty

\* Connection j of the other chain answers connection i of c, or is answered by it.
Answers(answering, c, i, j) ==
    \/ <<c, i>> \in answering /\ Counterparty(c, i) = j
    \/ <<Other(c), j>> \in answering /\ Counterparty(Other(c), j) = i

\* Connection i of chain c may have counterparty j: one that answers another keeps
\* that as its counterparty, one that does not has one that answers it, or none yet.
MayHave(answering, c, i, j) ==
    IF <<c, i>> \in answering
    THEN j # None /\ <<Other(c), j>> \in AllConnections \ answering
    ELSE j # None => <<Other(c), j>> \in answering /\ Counterparty(Other(c), j) = i

Answering(answering) ==
    /\ \A c \in Chains : Len(connections[c]) <= MaxConnections
    /\ answering \subseteq AllConnections
    /\ \A c \in Chains : \A i \in 1 .. Len(connections[c]) :
         MayHave(answering, c, i, Counterparty(c, i))

Handshake(c, e) == CHANNEL_HANDSHAKE_INFO[c][e]
Channel(c, e) == CHANNEL_INFO[c][e]
IsOpen(c, e) == Handshake(c, e) # None \/ Channel(c, e) # None

\* What an end keeps from its opening on.
Order(c, e) == IF Handshake(c, e) # None THEN Handshake(c, e).order ELSE Channel(c, e).order
Connection(c, e) ==
    IF Handshake(c, e) # None THEN Handshake(c, e).connection ELSE Channel(c, e).connection

\* End e of chain c was opened first, and end d of the other chain for it.
Paired(answering, c, e, d, version) ==
    /\ e \in Ends /\ d \in Ends /\ version \in Versions
    /\ IsOpen(c, e) /\ IsOpen(Other(c), d)
    /\ Handshake(c, e) # None => Handshake(c, e).state = "Init"
    /\ Order(c, e) = Order(Other(c), d)
    /\ Answers(answering, c, Connection(c, e), Connection(Other(c), d))
    /\ IF Handshake(Other(c), d) # None
       THEN /\ Handshake(Other(c), d).state = "Try" /\ Handshake(Other(c), d).remote = e
            /\ Handshake(Other(c), d).version = version
       ELSE Channel(Other(c), d).counterparty = e

\* What a relayer knows after ConnectionInit is true,
TrueAfterConnectionInit(answering, known) ==
    /\ known.at = "connection try"
    /\ known = [at |-> "connection try", src |-> known.src, connection |-> known.connection]
    /\ <<known.src, known.connection>> \in AllConnections \ answering

\* after ConnectionTry,
TrueAfterConnectionTry(answering, known) ==
    /\ known.at = "connection ack"
    /\ known = [at |-> "connection ack", src |-> known.src, connection |-> known.connection,
                counterparty |-> known.counterparty]
    /\ <<known.src, known.connection>> \in AllConnections \ answering
    /\ <<Other(known.src), known.counterparty>> \in answering
    /\ Counterparty(Other(known.src), known.counterparty) = known.connection

\* after ChannelInit,
TrueAfterInit(known) ==
    /\ known.at = "try"
    /\ known = [at |-> "try", src |-> known.src, connection |-> known.connection,
                order |-> known.order, src_end |-> known.src_end, dst_port |-> known.dst_port]
    /\ known.src \in Chains /\ known.src_end \in Ends /\ known.dst_port \in Ports
    /\ known.order \in Orders /\ <<known.src, known.connection>> \in AllConnections
    /\ IsOpen(known.src, known.src_end)
    /\ Handshake(known.src, known.src_end) # None =>
         Handshake(known.src, known.src_end).state = "Init"
    /\ Order(known.src, known.src_end) = known.order
    /\ Connection(known.src, known.src_end) = known.connection

\* after ChannelTry and after ChannelAck.
TrueAfterTry(answering, known) ==
    /\ known.at \in {"ack", "confirm"}
    /\ known = [at |-> known.at, src |-> known.src, src_end |-> known.src_end,
                version |-> known.version, dst_end |-> known.dst_end]
    /\ known.src \in Chains
    /\ Paired(answering, known.src, known.src_end, known.dst_end, known.version)
    /\ known.at = "confirm" =>
         /\ Channel(known.src, known.src_end) # None
         /\ Channel(known.src, known.src_end).counterparty = known.dst_end
         /\ Channel(known.src, known.src_end).version = known.version

Known(answering, known) ==
    \/ known = Idle
    \/ TrueAfterConnectionInit(answering, known)
    \/ TrueAfterConnectionTry(answering, known)
    \/ TrueAfterInit(known)
    \/ TrueAfterTry(answering, known)

\* What EndsAgree says of established end e of chain c and the other end d, with
\* connections that answer each other: d is established, or waits.
EstablishedWith(answering, c, e, d) ==
    /\ Channel(Other(c), d) # None
    /\ Channel(Other(c), d).counterparty = e
    /\ Channel(Other(c), d).order = Channel(c, e).order
    /\ Channel(Other(c), d).version = Channel(c, e).version
    /\ Answers(answering, c, Channel(c, e).connection, Channel(Other(c), d).connection)

WaitsFor(answering, c, e, d) ==
    /\ Handshake(Other(c), d) # None
    /\ Handshake(Other(c), d).state = "Try" /\ Handshake(Other(c), d).remote = e
    /\ Handshake(Other(c), d).order = Channel(c, e).order
    /\ Handshake(Other(c), d).version = Channel(c, e).version
    /\ Answers(answering, c, Channel(c, e).connection, Handshake(Other(c), d).connection)

Agree(answering) ==
    \A c \in Chains, e \in Ends : Channel(c, e) # None =>
      \/ EstablishedWith(answering, c, e, Channel(c, e).counterparty)
      \/ WaitsFor(answering, c, e, Channel(c, e).counterparty)

OneOfBoth == \A c \in Chains, e \in Ends : Handshake(c, e) = None \/ Channel(c, e) = None

Sound(answering) ==
    /\ Answering(answering)
    /\ Agree(answering)
    /\ relayer = [r \in Relayers |-> relayer[r]]
    /\ \A r \in Relayers : Known(answering, relayer[r])

IInv ==
    /\ TypeOK
    /\ OneOfBoth
    /\ \E answering \in SUBSET AllConnections : Sound(answering)

\* What EstablishedForGood says of a step.
ChannelsStay == \A c \in Chains, e \in Ends : Channel(c, e) # None => Channel(c, e)' = Channel(c, e)

LEMMA OtherIs ==
    ASSUME NEW c \in Chains
    PROVE  /\ Other(c) \in Chains /\ Other(c) # c /\ Other(Other(c)) = c
           /\ \A d \in Chains : d = c \/ d = Other(c)
<1>1. PICK a, b \in Chains : a # b /\ Chains = {a, b}
  BY HandshakeChains
<1>2. \A d \in Chains : Other(d) \in Chains /\ Other(d) # d
  BY <1>1 DEF Other
<1> HIDE DEF Other
<1> QED
  BY <1>1, <1>2

-----------------------------------------------------------------------------
(* What stays true *)

\* A step that leaves true what a relayer knows.
Extends(answering, answering2) ==
    /\ AllConnections \subseteq AllConnections'
    /\ answering \subseteq answering2
    /\ AllConnections \ answering \subseteq AllConnections' \ answering2
    /\ \A c \in Chains : \A i \in 1 .. MaxConnections :
         <<c, i>> \in answering => Counterparty(c, i)' = Counterparty(c, i)
    /\ \A c \in Chains, e \in Ends : IsOpen(c, e) =>
         /\ IsOpen(c, e)' /\ Order(c, e)' = Order(c, e) /\ Connection(c, e)' = Connection(c, e)
         /\ Handshake(c, e)' \in {Handshake(c, e), None}
         /\ Channel(c, e) # None => Channel(c, e)' = Channel(c, e)
         /\ Handshake(c, e)' # Handshake(c, e) /\ Handshake(c, e).state = "Try" =>
              Channel(c, e)'.counterparty = Handshake(c, e).remote

LEMMA AnswersStay ==
    ASSUME NEW A, NEW A2, Extends(A, A2), A \subseteq AllConnections, NEW c \in Chains, NEW i, NEW j,
           Answers(A, c, i, j)
    PROVE  Answers(A2, c, i, j)'
<1>1. Other(c) \in Chains
  BY OtherIs
<1>2. \A d \in Chains : \A k : <<d, k>> \in A =>
          k \in 1 .. MaxConnections /\ <<d, k>> \in A2 /\ Counterparty(d, k)' = Counterparty(d, k)
  BY DEF Extends, AllConnections
<1> QED
  BY <1>1, <1>2 DEF Answers

LEMMA PairedStays ==
    ASSUME NEW A, NEW A2, Extends(A, A2), A \subseteq AllConnections, NEW c \in Chains, NEW e, NEW d,
           NEW version, Paired(A, c, e, d, version)
    PROVE  Paired(A2, c, e, d, version)'
<1>1. Other(c) \in Chains
  BY OtherIs
<1>2. e \in Ends /\ d \in Ends /\ IsOpen(c, e) /\ IsOpen(Other(c), d)
  BY DEF Paired
<1>3. Answers(A2, c, Connection(c, e), Connection(Other(c), d))'
  <2>1. Answers(A, c, Connection(c, e), Connection(Other(c), d))
    BY DEF Paired
  <2> DEFINE i == Connection(c, e)
             j == Connection(Other(c), d)
  <2>2. i' = i /\ j' = j
    BY <1>1, <1>2 DEF Extends
  <2> HIDE DEF i, j
  <2>3. Answers(A2, c, i, j)'
    BY <2>1, <2>2, AnswersStay DEF i, j
  <2> QED
    BY <2>3 DEF i, j
<1> QED
  BY <1>1, <1>2, <1>3 DEF Paired, Extends, IsOpen

LEMMA KnownStays ==
    ASSUME NEW A, NEW A2, Extends(A, A2), A \subseteq AllConnections,
           NEW known, Known(A, known)
    PROVE  Known(A2, known)'
<1> DEFINE o == Other(known.src)
<1>1. CASE known = Idle
  BY <1>1 DEF Known
<1>2. CASE TrueAfterConnectionInit(A, known)
  BY <1>2 DEF Known, TrueAfterConnectionInit, Extends
<1>3. CASE TrueAfterConnectionTry(A, known)
  <2>1. (<<known.src, known.connection>> \in AllConnections \ A2)'
    BY <1>3 DEF Extends, TrueAfterConnectionTry
  <2>2. <<o, known.counterparty>> \in A2
    BY <1>3 DEF Extends, TrueAfterConnectionTry
  <2>3. Counterparty(o, known.counterparty)' = Counterparty(o, known.counterparty)
    BY <1>3 DEF Extends, AllConnections, TrueAfterConnectionTry
  <2> QED
    BY <1>3, <2>1, <2>2, <2>3 DEF Known, TrueAfterConnectionTry
<1>4. CASE TrueAfterInit(known)
  <2>1. <<known.src, known.connection>> \in AllConnections'
    BY <1>4 DEF Extends, TrueAfterInit
  <2>2. /\ IsOpen(known.src, known.src_end)'
        /\ Handshake(known.src, known.src_end)' # None =>
                Handshake(known.src, known.src_end)'.state = "Init"
        /\ Order(known.src, known.src_end)' = known.order
        /\ Connection(known.src, known.src_end)' = known.connection
    BY <1>4 DEF Extends, TrueAfterInit
  <2> QED
    BY <1>4, <2>1, <2>2 DEF Known, TrueAfterInit
<1>5. CASE TrueAfterTry(A, known)
  <2>1. Paired(A2, known.src, known.src_end, known.dst_end, known.version)'
    BY <1>5, PairedStays DEF TrueAfterTry
  <2>2. known.at = "confirm" =>
          Channel(known.src, known.src_end)' = Channel(known.src, known.src_end)
    BY <1>5 DEF Extends, Paired, IsOpen, TrueAfterTry
  <2> QED
    BY <1>5, <2>1, <2>2 DEF Known, TrueAfterTry
<1> QED
  BY <1>1, <1>2, <1>3, <1>4, <1>5 DEF Known

LEMMA EstablishedWithStays ==
    ASSUME NEW A, NEW A2, Extends(A, A2), A \subseteq AllConnections,
           NEW c \in Chains, NEW e \in Ends, NEW d \in Ends, Channel(c, e) # None,
           EstablishedWith(A, c, e, d)
    PROVE  EstablishedWith(A2, c, e, d)'
<1> DEFINE i == Channel(c, e).connection
           j == Channel(Other(c), d).connection
<1>1. Other(c) \in Chains /\ Answers(A, c, i, j)
  BY OtherIs DEF EstablishedWith
<1>2. Channel(c, e)' = Channel(c, e) /\ Channel(Other(c), d)' = Channel(Other(c), d)
  BY <1>1 DEF Extends, IsOpen, EstablishedWith
<1>3. i' = i /\ j' = j
  BY <1>2
<1> HIDE DEF i, j
<1>4. Answers(A2, c, i, j)'
  BY <1>1, <1>3, AnswersStay
<1> QED
  BY <1>2, <1>4 DEF EstablishedWith, i, j

LEMMA WaitsForStays ==
    ASSUME NEW A, NEW A2, Extends(A, A2), A \subseteq AllConnections,
           NEW c \in Chains, NEW e \in Ends, NEW d \in Ends, Channel(c, e) # None,
           WaitsFor(A, c, e, d), Handshake(Other(c), d)' = Handshake(Other(c), d)
    PROVE  WaitsFor(A2, c, e, d)'
<1> DEFINE i == Channel(c, e).connection
           j == Handshake(Other(c), d).connection
<1>1. Other(c) \in Chains /\ Answers(A, c, i, j)
  BY OtherIs DEF WaitsFor
<1>2. Channel(c, e)' = Channel(c, e)
  BY <1>1 DEF Extends, IsOpen
<1>3. i' = i /\ j' = j
  BY <1>2
<1> HIDE DEF i, j
<1>4. Answers(A2, c, i, j)'
  BY <1>1, <1>3, AnswersStay
<1> QED
  BY <1>2, <1>4 DEF WaitsFor, i, j

LEMMA AgreeStays ==
    ASSUME TypeOK, NEW A, NEW A2, Extends(A, A2), A \subseteq AllConnections, Agree(A),
           UNCHANGED CHANNEL_INFO,
           \A c \in Chains, e \in Ends :
               Handshake(c, e) # None => Handshake(c, e)' = Handshake(c, e)
    PROVE  Agree(A2)'
<1> SUFFICES ASSUME NEW c \in Chains, NEW e \in Ends, Channel(c, e)' # None
             PROVE  \/ EstablishedWith(A2, c, e, Channel(c, e).counterparty)'
                    \/ WaitsFor(A2, c, e, Channel(c, e).counterparty)'
  BY DEF Agree
<1> DEFINE d == Channel(c, e).counterparty
<1>1. Channel(c, e) # None /\ d' = d
  BY DEF Channel
<1>2. d \in Ends /\ Other(c) \in Chains
  BY <1>1, OtherIs DEF TypeOK, IbcChannels, Channel
<1>3. EstablishedWith(A, c, e, d) \/ WaitsFor(A, c, e, d)
  BY <1>1 DEF Agree
<1>4. WaitsFor(A, c, e, d) => Handshake(Other(c), d)' = Handshake(Other(c), d)
  BY <1>1, <1>2 DEF WaitsFor
<1> HIDE DEF d
<1>5. EstablishedWith(A2, c, e, d)' \/ WaitsFor(A2, c, e, d)'
  BY <1>1, <1>2, <1>3, <1>4, EstablishedWithStays, WaitsForStays
<1> QED
  BY <1>5 DEF d

LEMMA AgreeInSteps ==
    ASSUME NEW A, Sound(A), NEW A2, Extends(A, A2), Answering(A2)', Agree(A2)',
           NEW r \in Relayers, NEW what, Known(A2, what)', Knows(r, what)
    PROVE  Sound(A2)'
<1>1. A \subseteq AllConnections /\ \A s \in Relayers : Known(A, relayer[s])
  BY DEF Sound, Answering
<1>2. /\ relayer' = [s \in Relayers |-> relayer'[s]]
      /\ \A s \in Relayers : relayer'[s] = IF s = r THEN what ELSE relayer[s]
  BY DEF Sound, Knows
<1>3. ASSUME NEW s \in Relayers
      PROVE  Known(A2, relayer[s])'
  <2>1. PICK known : known = relayer[s]
    OBVIOUS
  <2>2. PICK known2 : known2 = relayer'[s]
    OBVIOUS
  <2>3. Known(A2, known2)'
    BY <1>1, <1>2, <2>1, <2>2, KnownStays
  <2> QED
    BY <2>2, <2>3
<1> QED
  BY <1>2, <1>3 DEF Sound

-----------------------------------------------------------------------------
(* Connections *)

LEMMA ChannelsUnchanged ==
    ASSUME UNCHANGED <<CHANNEL_HANDSHAKE_INFO, CHANNEL_INFO>>
    PROVE  \A c \in Chains, e \in Ends :
             /\ IsOpen(c, e)' = IsOpen(c, e) /\ Order(c, e)' = Order(c, e)
             /\ Connection(c, e)' = Connection(c, e)
             /\ Handshake(c, e)' = Handshake(c, e) /\ Channel(c, e)' = Channel(c, e)
  BY DEF IsOpen, Order, Connection, Handshake, Channel

\* n connections of c, and one more.
OneMore(c, n, counterparty) ==
    /\ n \in Nat /\ n + 1 \in 1 .. MaxConnections
    /\ Len(connections[c]) = n /\ Len(connections'[c]) = n + 1
    /\ \A i \in 1 .. n : connections'[c][i] = connections[c][i]
    /\ connections'[c][n + 1] = [chain |-> Other(c), counterparty |-> counterparty]
    /\ connections'[Other(c)] = connections[Other(c)]

LEMMA NewConnectionAppends ==
    ASSUME TypeOK, NEW c \in Chains, NEW counterparty \in 1 .. MaxConnections \cup {None},
           NewConnection(c, counterparty)
    PROVE  /\ TypeOK'
           /\ OneMore(c, Len(connections[c]), counterparty)
<1> DEFINE R == [chain : Chains, counterparty : 1 .. MaxConnections \cup {None}]
           s == connections[c]
           x == [chain |-> Other(c), counterparty |-> counterparty]
<1>1. Other(c) \in Chains /\ Other(c) # c
  BY OtherIs
<1>2. connections \in [Chains -> Seq(R)] /\ s \in Seq(R) /\ x \in R /\ Len(s) \in Nat
  <2>1. connections \in [Chains -> Seq(R)]
    BY DEF TypeOK
  <2>2. x \in R
    BY <1>1
  <2> HIDE DEF R, x
  <2>3. s \in Seq(R)
    BY <2>1
  <2>4. Len(s) \in Nat
    BY <2>3
  <2> QED
    BY <2>1, <2>2, <2>3, <2>4
<1> HIDE DEF s, x, R
<1>3. Append(s, x) \in Seq(R)
  BY <1>2
<1>4. /\ Len(Append(s, x)) = Len(s) + 1 /\ Append(s, x)[Len(s) + 1] = x
      /\ \A i \in 1 .. Len(s) : Append(s, x)[i] = s[i]
  BY <1>2
<1>5. connections' = [connections EXCEPT ![c] = Append(s, x)]
  BY DEF NewConnection, s, x
<1>6. Len(s) + 1 \in 1 .. MaxConnections
  BY <1>2, HandshakeBounds DEF NewConnection, s
<1>7. connections' \in [Chains -> Seq(R)]
  BY <1>2, <1>3, <1>5
<1>8. connections'[c] = Append(s, x) /\ connections'[Other(c)] = connections[Other(c)]
  BY <1>1, <1>2, <1>5
<1>9. TypeOK'
  BY <1>7 DEF TypeOK, NewConnection, R
<1>10. OneMore(c, Len(s), counterparty)
  BY <1>2, <1>4, <1>6, <1>8 DEF OneMore, s, x
<1> QED
  BY <1>9, <1>10 DEF s

\* The one is an answer if it has a counterparty.
AddedTo(A, A2, c, n, counterparty) ==
    \/ counterparty = None /\ A2 = A
    \/ /\ A2 = A \cup {<<c, n + 1>>}
       /\ <<Other(c), counterparty>> \in AllConnections \ A

LEMMA ConnectionAdded ==
    ASSUME TypeOK, NEW A, Answering(A), NEW c \in Chains, NEW n, NEW counterparty,
           OneMore(c, n, counterparty),
           UNCHANGED <<CHANNEL_HANDSHAKE_INFO, CHANNEL_INFO>>,
           NEW A2, AddedTo(A, A2, c, n, counterparty)
    PROVE  /\ Extends(A, A2)
           /\ Answering(A2)'
           /\ AllConnections' = AllConnections \cup {<<c, n + 1>>}
           /\ <<c, n + 1>> \notin AllConnections
<1> DEFINE o == Other(c)
<1>1. o \in Chains /\ o # c /\ Other(o) = c /\ Chains = {c, o}
  BY OtherIs
<1>2. n \in Nat /\ n + 1 \in 1 .. MaxConnections
      /\ Len(connections[c]) = n /\ Len(connections'[c]) = n + 1
      /\ connections'[o] = connections[o]
  BY DEF OneMore
<1>0. \/ counterparty = None /\ A2 = A
      \/ /\ A2 = A \cup {<<c, n + 1>>}
         /\ <<o, counterparty>> \in AllConnections \ A
  BY DEF AddedTo
<1>3. AllConnections' = AllConnections \cup {<<c, n + 1>>}
  <2>1. ASSUME NEW d \in Chains, NEW i \in 1 .. MaxConnections
        PROVE  i <= Len(connections'[d]) <=>
                 (i <= Len(connections[d]) \/ (d = c /\ i = n + 1))
    <3>1. CASE d = c
      BY <1>2, <3>1, HandshakeBounds
    <3>2. CASE d = o
      BY <1>1, <1>2, <3>2
    <3> QED
      BY <1>1, <3>1, <3>2
  <2> QED
    BY <1>2, <2>1 DEF AllConnections
<1>4. <<c, n + 1>> \notin AllConnections
  BY <1>2 DEF AllConnections
<1>5. A \subseteq AllConnections
  BY DEF Answering
<1>6. \A d \in Chains : \A i \in 1 .. MaxConnections :
        <<d, i>> \in AllConnections => Counterparty(d, i)' = Counterparty(d, i)
  <2> SUFFICES ASSUME NEW d \in Chains, NEW i \in 1 .. MaxConnections,
                      <<d, i>> \in AllConnections
               PROVE  connections'[d][i] = connections[d][i]
    BY DEF Counterparty
  <2>1. CASE d = c
    BY <1>2, <2>1 DEF AllConnections, OneMore
  <2>2. CASE d = o
    BY <1>2, <2>2
  <2> QED
    BY <1>1, <2>1, <2>2
<1>7. Counterparty(c, n + 1)' = counterparty
  BY DEF OneMore, Counterparty
<1>8. Extends(A, A2)
  <2>1. /\ AllConnections \subseteq AllConnections'
        /\ A \subseteq A2
        /\ AllConnections \ A \subseteq AllConnections' \ A2
    BY <1>0, <1>3, <1>4
  <2>2. \A d \in Chains : \A i \in 1 .. MaxConnections :
          <<d, i>> \in A => Counterparty(d, i)' = Counterparty(d, i)
    BY <1>5, <1>6
  <2> QED
    BY <2>1, <2>2, ChannelsUnchanged DEF Extends
<1> QED
  <2>1. A2 \subseteq AllConnections'
    BY <1>0, <1>3, <1>5
  <2>2. ASSUME NEW d \in Chains, NEW i \in 1 .. Len(connections'[d])
        PROVE  MayHave(A2, d, i, Counterparty(d, i))'
    <3>1. CASE d = c /\ i = n + 1
      <4>1. CASE counterparty = None /\ A2 = A
        <5>1. MayHave(A2, c, n + 1, counterparty)'
          BY <1>4, <1>5, <4>1 DEF MayHave
        <5> QED
          BY <1>7, <3>1, <5>1
      <4>2. CASE /\ A2 = A \cup {<<c, n + 1>>}
                 /\ <<o, counterparty>> \in AllConnections \ A
        <5>1. counterparty # None
          BY <4>2, HandshakeBounds DEF AllConnections
        <5>2. <<o, counterparty>> \in AllConnections' \ A2
          BY <1>1, <1>3, <1>4, <4>2
        <5>3. MayHave(A2, c, n + 1, counterparty)'
          BY <4>2, <5>1, <5>2 DEF MayHave
        <5> QED
          BY <1>7, <3>1, <5>3
      <4> QED
        BY <1>0, <4>1, <4>2
    <3>2. CASE ~(d = c /\ i = n + 1)
      <4>1. i \in 1 .. Len(connections[d])
        <5>1. CASE d = c
          BY <1>2, <3>2, <5>1
        <5>2. CASE d = o
          BY <1>2, <5>2
        <5> QED
          BY <1>1, <5>1, <5>2
      <4>2. i \in 1 .. MaxConnections /\ <<d, i>> \in AllConnections /\ Other(d) \in Chains
        <5>1. i \in 1 .. MaxConnections
          <6>1. CASE d = c
            BY <1>2, <4>1, <6>1, HandshakeBounds
          <6>2. CASE d = o
            <7>1. Len(connections[o]) \in Nat /\ Len(connections[o]) <= MaxConnections
              BY <1>1 DEF TypeOK, Answering
            <7> QED
              BY <4>1, <6>2, <7>1, HandshakeBounds
          <6> QED
            BY <1>1, <6>1, <6>2
        <5> QED
          BY <4>1, <5>1, OtherIs DEF AllConnections
      <4>3. PICK j : j = Counterparty(d, i)
        OBVIOUS
      <4>4. Counterparty(d, i)' = j
        BY <1>6, <4>2, <4>3
      <4>5. MayHave(A, d, i, j)
        BY <4>1, <4>3 DEF Answering
      <4>6. MayHave(A2, d, i, j)'
        <5>1. CASE <<d, i>> \in A
          <6>1. <<d, i>> \in A2 /\ j # None /\ <<Other(d), j>> \in AllConnections' \ A2
            BY <1>8, <4>5, <5>1 DEF MayHave, Extends
          <6> QED
            BY <6>1 DEF MayHave
        <5>2. CASE <<d, i>> \notin A
          <6>1. <<d, i>> \notin A2
            BY <1>0, <1>4, <4>2, <5>2
          <6>2. ASSUME j # None
                PROVE  <<Other(d), j>> \in A2 /\ Counterparty(Other(d), j)' = i
            <7>1. <<Other(d), j>> \in A /\ Counterparty(Other(d), j) = i
              BY <4>5, <5>2, <6>2 DEF MayHave
            <7>2. j \in 1 .. MaxConnections
              BY <1>5, <7>1 DEF AllConnections
            <7> QED
              BY <1>8, <4>2, <7>1, <7>2 DEF Extends
          <6> QED
            BY <6>1, <6>2 DEF MayHave
        <5> QED
          BY <5>1, <5>2
      <4> QED
        BY <4>4, <4>6
    <3> QED
      BY <3>1, <3>2
  <2>3. \A d \in Chains : Len(connections'[d]) <= MaxConnections
    BY <1>1, <1>2 DEF Answering
  <2> QED
    BY <1>3, <1>4, <1>8, <2>1, <2>2, <2>3 DEF Answering

LEMMA OneOfBothStays ==
    ASSUME OneOfBoth, UNCHANGED <<CHANNEL_HANDSHAKE_INFO, CHANNEL_INFO>>
    PROVE  OneOfBoth'
  BY DEF OneOfBoth, Handshake, Channel

LEMMA AgreeUnchanged ==
    ASSUME TypeOK, NEW A, NEW A2, Extends(A, A2), A \subseteq AllConnections, Agree(A),
           UNCHANGED <<CHANNEL_HANDSHAKE_INFO, CHANNEL_INFO>>
    PROVE  Agree(A2)'
  BY ChannelsUnchanged, AgreeStays

LEMMA ConnectionInitKeeps ==
    ASSUME TypeOK, OneOfBoth, NEW A, Sound(A), NEW r \in Relayers, NEW src \in Chains,
           ConnectionInit(r, src)
    PROVE  TypeOK' /\ OneOfBoth' /\ Sound(A)' /\ Extends(A, A)
<1>1. PICK n : n = Len(connections[src])
  OBVIOUS
<1>2. PICK what : what = [at |-> "connection try", src |-> src, connection |-> n + 1]
  OBVIOUS
<1>3. /\ NewConnection(src, None) /\ Knows(r, what)
      /\ UNCHANGED <<CHANNEL_HANDSHAKE_INFO, CHANNEL_INFO>>
  BY <1>1, <1>2 DEF ConnectionInit, NewConnection
<1>4. TypeOK' /\ OneMore(src, n, None)
  BY <1>1, <1>3, NewConnectionAppends
<1>5. Answering(A) /\ A \subseteq AllConnections /\ Agree(A)
  BY DEF Sound, Answering
<1>6. /\ Extends(A, A) /\ Answering(A)'
      /\ AllConnections' = AllConnections \cup {<<src, n + 1>>}
      /\ <<src, n + 1>> \notin AllConnections
  <2>1. AddedTo(A, A, src, n, None)
    BY DEF AddedTo
  <2> QED
    BY <1>3, <1>4, <1>5, <2>1, ConnectionAdded
<1>7. Known(A, what)'
  <2>1. <<src, n + 1>> \in AllConnections' \ A
    BY <1>5, <1>6
  <2> QED
    BY <1>2, <2>1 DEF Known, TrueAfterConnectionInit
<1>8. OneOfBoth' /\ Agree(A)'
  BY <1>3, <1>5, <1>6, OneOfBothStays, AgreeUnchanged
<1>9. Sound(A)'
  BY <1>3, <1>6, <1>7, <1>8, AgreeInSteps
<1> QED
  BY <1>4, <1>6, <1>8, <1>9

LEMMA KnownAt ==
    ASSUME NEW A, NEW known, Known(A, known)
    PROVE  /\ known.at = "connection try" => TrueAfterConnectionInit(A, known)
           /\ known.at = "connection ack" => TrueAfterConnectionTry(A, known)
           /\ known.at = "try" => TrueAfterInit(known)
           /\ known.at \in {"ack", "confirm"} => TrueAfterTry(A, known)
<1>1. /\ known = Idle => known.at = "idle"
      /\ TrueAfterConnectionInit(A, known) => known.at = "connection try"
      /\ TrueAfterConnectionTry(A, known) => known.at = "connection ack"
      /\ TrueAfterInit(known) => known.at = "try"
      /\ TrueAfterTry(A, known) => known.at \in {"ack", "confirm"}
  <2>1. known = Idle => known.at = "idle"
    BY DEF Idle
  <2>2. TrueAfterConnectionInit(A, known) => known.at = "connection try"
    BY DEF TrueAfterConnectionInit
  <2>3. TrueAfterConnectionTry(A, known) => known.at = "connection ack"
    BY DEF TrueAfterConnectionTry
  <2>4. TrueAfterInit(known) => known.at = "try"
    BY DEF TrueAfterInit
  <2>5. TrueAfterTry(A, known) => known.at \in {"ack", "confirm"}
    BY DEF TrueAfterTry
  <2> QED
    BY <2>1, <2>2, <2>3, <2>4, <2>5
<1> QED
  BY <1>1 DEF Known

LEMMA KnownConnection ==
    ASSUME NEW A, NEW known, Known(A, known), known.at \in {"connection try", "connection ack"}
    PROVE  /\ known.src \in Chains /\ known.connection \in 1 .. MaxConnections
           /\ <<known.src, known.connection>> \in AllConnections \ A
           /\ known.at = "connection ack" =>
                /\ <<Other(known.src), known.counterparty>> \in A
                /\ Counterparty(Other(known.src), known.counterparty) = known.connection
<1>1. <<known.src, known.connection>> \in AllConnections \ A
  BY KnownAt DEF TrueAfterConnectionInit, TrueAfterConnectionTry
<1>2. known.src \in Chains /\ known.connection \in 1 .. MaxConnections
  BY <1>1 DEF AllConnections
<1>3. known.at = "connection ack" =>
        /\ <<Other(known.src), known.counterparty>> \in A
        /\ Counterparty(Other(known.src), known.counterparty) = known.connection
  BY KnownAt DEF TrueAfterConnectionTry
<1> QED
  BY <1>1, <1>2, <1>3

LEMMA ConnectionTryKeeps ==
    ASSUME TypeOK, OneOfBoth, NEW A, Sound(A), NEW r \in Relayers, ConnectionTry(r)
    PROVE  TypeOK' /\ OneOfBoth' /\ \E A2 : Sound(A2)' /\ Extends(A, A2)
<1>1. PICK known : known = relayer[r]
  OBVIOUS
<1>2. PICK src, i : src = known.src /\ i = known.connection
  OBVIOUS
<1>3. /\ src \in Chains /\ i \in 1 .. MaxConnections
      /\ <<src, i>> \in AllConnections \ A
  BY <1>1, <1>2, KnownConnection DEF ConnectionTry, Sound
<1>4. PICK o : o = Other(src)
  OBVIOUS
<1>5. o \in Chains /\ o # src /\ Other(o) = src
  BY <1>3, <1>4, OtherIs
<1>6. PICK n : n = Len(connections[o])
  OBVIOUS
<1>7. PICK what : what = [at |-> "connection ack", src |-> src, connection |-> i,
                         counterparty |-> n + 1]
  OBVIOUS
<1>8. /\ NewConnection(o, i) /\ Knows(r, what)
      /\ UNCHANGED <<CHANNEL_HANDSHAKE_INFO, CHANNEL_INFO>>
  BY <1>1, <1>2, <1>4, <1>6, <1>7 DEF ConnectionTry, NewConnection
<1>9. TypeOK' /\ OneMore(o, n, i)
  BY <1>3, <1>5, <1>6, <1>8, NewConnectionAppends
<1>10. Answering(A) /\ A \subseteq AllConnections /\ Agree(A)
  BY DEF Sound, Answering
<1>11. PICK A2 : A2 = A \cup {<<o, n + 1>>}
  OBVIOUS
<1>12. /\ Extends(A, A2) /\ Answering(A2)'
       /\ AllConnections' = AllConnections \cup {<<o, n + 1>>}
  <2>1. AddedTo(A, A2, o, n, i)
    BY <1>3, <1>5, <1>11 DEF AddedTo
  <2> QED
    BY <1>5, <1>8, <1>9, <1>10, <2>1, ConnectionAdded
<1>13. Known(A2, what)'
  <2>1. <<src, i>> \in AllConnections' \ A2 /\ <<o, n + 1>> \in A2
    BY <1>3, <1>5, <1>11, <1>12
  <2>2. Counterparty(o, n + 1)' = i
    BY <1>9 DEF OneMore, Counterparty
  <2>3. /\ what.at = "connection ack" /\ what.src = src /\ what.connection = i
        /\ what.counterparty = n + 1 /\ Other(what.src) = o
    BY <1>4, <1>7
  <2> QED
    BY <1>7, <2>1, <2>2, <2>3 DEF Known, TrueAfterConnectionTry
<1>14. OneOfBoth' /\ Agree(A2)'
  BY <1>8, <1>10, <1>12, OneOfBothStays, AgreeUnchanged
<1>15. Sound(A2)'
  BY <1>8, <1>12, <1>13, <1>14, AgreeInSteps
<1> QED
  BY <1>9, <1>12, <1>14, <1>15

LEMMA CounterpartySet ==
    ASSUME TypeOK, NEW A, Answering(A), NEW c \in Chains, NEW i, NEW j,
           <<c, i>> \in AllConnections \ A, <<Other(c), j>> \in A,
           Counterparty(Other(c), j) = i, SetCounterparty(c, i, j)
    PROVE  TypeOK' /\ Extends(A, A) /\ Answering(A)'
<1> DEFINE R == [chain : Chains, counterparty : 1 .. MaxConnections \cup {None}]
           s == connections[c]
           s2 == [s EXCEPT ![i].counterparty = j]
           o == Other(c)
<1>1. o \in Chains /\ o # c /\ Other(o) = c /\ Chains = {c, o}
  BY OtherIs
<1>2. A \subseteq AllConnections
  BY DEF Answering
<1>3. j \in 1 .. MaxConnections /\ i \in 1 .. MaxConnections /\ i <= Len(s) /\ j # None
  BY <1>2, HandshakeBounds DEF AllConnections
<1>4. connections \in [Chains -> Seq(R)] /\ s \in Seq(R) /\ Len(s) \in Nat
  <2>1. connections \in [Chains -> Seq(R)]
    BY DEF TypeOK
  <2> HIDE DEF R
  <2>2. s \in Seq(R)
    BY <2>1
  <2> QED
    BY <2>1, <2>2
<1>5. i \in 1 .. Len(s)
  BY <1>3, <1>4
<1>6. [s[i] EXCEPT !.counterparty = j] \in R /\ [s[i] EXCEPT !.counterparty = j].counterparty = j
  <2>1. s[i] \in R
    <3> HIDE DEF R, s
    <3> QED
      BY <1>4, <1>5
  <2> QED
    BY <1>3, <2>1
<1>7. connections' = [connections EXCEPT ![c] = s2]
  BY DEF SetCounterparty
<1>8. /\ s2 \in Seq(R) /\ Len(s2) = Len(s) /\ s2[i].counterparty = j
      /\ \A k \in 1 .. Len(s) : k # i => s2[k] = s[k]
  <2> DEFINE x == [s[i] EXCEPT !.counterparty = j]
  <2>1. s2 = [s EXCEPT ![i] = x]
    OBVIOUS
  <2> HIDE DEF x, s, R, s2
  <2>2. x \in R /\ x.counterparty = j
    BY <1>6 DEF x
  <2>3. s2 \in Seq(R) /\ Len(s2) = Len(s)
    BY <1>4, <1>5, <2>1, <2>2, ExceptSeq
  <2>4. s2[i] = x /\ \A k \in 1 .. Len(s) : k # i => s2[k] = s[k]
    BY <1>4, <1>5, <2>1, <2>2, ExceptSeq
  <2> QED
    BY <2>2, <2>3, <2>4
<1> HIDE DEF s2, R
<1>9. connections'[c] = s2 /\ connections'[o] = connections[o]
  BY <1>1, <1>4, <1>7
<1>10. connections' \in [Chains -> Seq(R)]
  BY <1>4, <1>7, <1>8
<1>11. UNCHANGED <<next_channel_id, CHANNEL_HANDSHAKE_INFO, CHANNEL_INFO>>
  BY DEF SetCounterparty
<1>12. TypeOK'
  BY <1>10, <1>11 DEF TypeOK, R
<1>13. \A d \in Chains : Len(connections'[d]) = Len(connections[d])
  BY <1>1, <1>8, <1>9
<1>14. AllConnections' = AllConnections
  BY <1>13 DEF AllConnections
<1>15. \A d \in Chains : \A k \in 1 .. Len(connections[d]) :
         <<d, k>> # <<c, i>> => Counterparty(d, k)' = Counterparty(d, k)
  <2> SUFFICES ASSUME NEW d \in Chains, NEW k \in 1 .. Len(connections[d]),
                      <<d, k>> # <<c, i>>
               PROVE  connections'[d][k] = connections[d][k]
    BY DEF Counterparty
  <2>1. CASE d = c
    BY <1>8, <1>9, <2>1
  <2>2. CASE d = o
    BY <1>9, <2>2
  <2> QED
    BY <1>1, <2>1, <2>2
<1>16. Counterparty(c, i)' = j
  BY <1>8, <1>9 DEF Counterparty
<1>17. \A d \in Chains : \A k \in 1 .. MaxConnections :
         <<d, k>> \in A => Counterparty(d, k)' = Counterparty(d, k)
  <2> SUFFICES ASSUME NEW d \in Chains, NEW k \in 1 .. MaxConnections, <<d, k>> \in A
               PROVE  k \in 1 .. Len(connections[d]) /\ <<d, k>> # <<c, i>>
    BY <1>15
  <2>1. k <= Len(connections[d])
    BY <1>2 DEF AllConnections
  <2>2. Len(connections[d]) \in Nat
    BY DEF TypeOK
  <2> QED
    BY <2>1, <2>2
<1>18. Extends(A, A)
  BY <1>11, <1>14, <1>17, ChannelsUnchanged DEF Extends
<1>19. ASSUME NEW d \in Chains, NEW k \in 1 .. Len(connections[d])
       PROVE  MayHave(A, d, k, Counterparty(d, k))'
  <2>1. CASE <<d, k>> = <<c, i>>
    <3>1. MayHave(A, c, i, j)'
      <4>1. <<o, j>> \in A /\ Counterparty(o, j)' = i
        BY <1>1, <1>3, <1>17
      <4> QED
        BY <4>1 DEF MayHave
    <3> QED
      BY <1>16, <2>1, <3>1
  <2>2. CASE <<d, k>> # <<c, i>>
    <3>1. PICK m : m = Counterparty(d, k)
      OBVIOUS
    <3>2. MayHave(A, d, k, m)
      BY <3>1 DEF Answering
    <3>3. MayHave(A, d, k, m)'
      <4>1. CASE <<d, k>> \in A
        BY <1>14, <3>2, <4>1 DEF MayHave
      <4>2. CASE <<d, k>> \notin A
        <5>1. ASSUME m # None
              PROVE  <<Other(d), m>> \in A /\ Counterparty(Other(d), m)' = k
          <6>1. <<Other(d), m>> \in A /\ Counterparty(Other(d), m) = k
            BY <3>2, <4>2, <5>1 DEF MayHave
          <6>2. m \in 1 .. MaxConnections /\ Other(d) \in Chains
            BY <1>2, <6>1 DEF AllConnections
          <6> QED
            BY <1>17, <6>1, <6>2
        <5> QED
          BY <4>2, <5>1 DEF MayHave
      <4> QED
        BY <4>1, <4>2
    <3> QED
      BY <1>15, <2>2, <3>1, <3>3
  <2> QED
    BY <2>1, <2>2
<1>20. Answering(A)'
  BY <1>2, <1>13, <1>14, <1>19 DEF Answering
<1> QED
  BY <1>12, <1>18, <1>20

LEMMA ConnectionAckKeeps ==
    ASSUME TypeOK, OneOfBoth, NEW A, Sound(A), NEW r \in Relayers, ConnectionAck(r)
    PROVE  TypeOK' /\ OneOfBoth' /\ Sound(A)' /\ Extends(A, A)
<1>1. PICK known : known = relayer[r]
  OBVIOUS
<1>2. PICK c, i, j : c = known.src /\ i = known.connection /\ j = known.counterparty
  OBVIOUS
<1>3. /\ c \in Chains /\ <<c, i>> \in AllConnections \ A
      /\ <<Other(c), j>> \in A /\ Counterparty(Other(c), j) = i
  BY <1>1, <1>2, KnownConnection DEF ConnectionAck, Sound
<1>4. /\ SetCounterparty(c, i, j) /\ Knows(r, Idle)
      /\ UNCHANGED <<CHANNEL_HANDSHAKE_INFO, CHANNEL_INFO>>
  BY <1>1, <1>2 DEF ConnectionAck, SetCounterparty
<1>5. Answering(A) /\ A \subseteq AllConnections /\ Agree(A)
  BY DEF Sound, Answering
<1>6. TypeOK' /\ Extends(A, A) /\ Answering(A)'
  BY <1>3, <1>4, <1>5, CounterpartySet
<1>7. OneOfBoth' /\ Agree(A)'
  BY <1>4, <1>5, <1>6, OneOfBothStays, AgreeUnchanged
<1>8. Known(A, Idle)'
  BY DEF Known
<1>9. Sound(A)'
  BY <1>4, <1>6, <1>7, <1>8, AgreeInSteps
<1> QED
  BY <1>6, <1>7, <1>9

-----------------------------------------------------------------------------
(* Channels *)

\* End e of chain c is opened, with a handshake.
Opened(c, e, handshake) ==
    /\ c \in Chains /\ e \in Ends /\ handshake \in Handshakes
    /\ Handshake(c, e) = None /\ Channel(c, e) = None
    /\ CHANNEL_HANDSHAKE_INFO' = [CHANNEL_HANDSHAKE_INFO EXCEPT ![c][e] = handshake]
    /\ next_channel_id' = [next_channel_id EXCEPT ![c][e[1]] = e[2] + 1]
    /\ next_channel_id[c][e[1]] = e[2]
    /\ UNCHANGED <<connections, CHANNEL_INFO>>

LEMMA OpenChannelOpens ==
    ASSUME TypeOK, NEW A, Answering(A),
           NEW c \in Chains, NEW connection, NEW port \in Ports, NEW order \in Orders,
           NEW version \in Versions, NEW remote \in EndOrNone, NEW state \in {"Init", "Try"},
           OpenChannel(c, connection, port, order, version, remote, state),
           NEW e, e = <<port, next_channel_id[c][port]>>
    PROVE  /\ Opened(c, e, [remote |-> remote, state |-> state, version |-> version,
                            order |-> order, connection |-> connection])
           /\ <<c, connection>> \in AllConnections
<1> DEFINE n == next_channel_id[c][port]
           handshake == [remote |-> remote, state |-> state, version |-> version,
                         order |-> order, connection |-> connection]
<1>1. connection \in 1 .. MaxConnections /\ connection <= Len(connections[c])
  <2> DEFINE len == Len(connections[c])
  <2>1. connections[c] \in Seq([chain : Chains,
                                counterparty : 1 .. MaxConnections \cup {None}])
    BY DEF TypeOK
  <2>2. len \in Nat /\ DOMAIN connections[c] = 1 .. len
    BY <2>1
  <2>3. connection \in 1 .. len /\ len <= MaxConnections
    BY <2>2 DEF OpenChannel, Answering
  <2> HIDE DEF len
  <2>4. connection \in 1 .. MaxConnections /\ connection <= len
    BY <2>2, <2>3, HandshakeBounds
  <2> QED
    BY <2>4 DEF len
<1>2. <<c, connection>> \in AllConnections
  BY <1>1 DEF AllConnections
<1>3. e \in Ends /\ e[1] = port /\ e[2] = n
  BY DEF OpenChannel, Ends
<1>4. handshake \in Handshakes
  BY <1>1 DEF Handshakes
<1>5. Handshake(c, e) = None /\ Channel(c, e) = None
  <2>1. n \in Nat
    BY <1>3 DEF Ends, Channels
  <2>2. ~(e[2] < next_channel_id[c][e[1]])
    BY <1>3, <2>1
  <2> QED
    BY <1>3, <2>2 DEF TypeOK, Handshake, Channel
<1>6. /\ CHANNEL_HANDSHAKE_INFO' = [CHANNEL_HANDSHAKE_INFO EXCEPT ![c][e] = handshake]
      /\ UNCHANGED <<connections, CHANNEL_INFO>>
  BY DEF OpenChannel
<1>7. next_channel_id' = [next_channel_id EXCEPT ![c][port] = n + 1]
  BY DEF OpenChannel, TakeChannelId
<1> QED
  BY <1>2, <1>3, <1>4, <1>5, <1>6, <1>7 DEF Opened

LEMMA OpenedIsTypeOK ==
    ASSUME TypeOK, NEW c, NEW e, NEW handshake, Opened(c, e, handshake)
    PROVE  TypeOK'
<1> DEFINE HS == CHANNEL_HANDSHAKE_INFO
           port == e[1]
           n == e[2]
<1>1. c \in Chains /\ e \in Ends /\ port \in Ports /\ n \in 1 .. MaxChannels /\ n \in Nat
      /\ handshake \in Handshakes /\ handshake # None
  BY HandshakeNone DEF Opened, Ends, Channels
<1>2. HS' \in [Chains -> [Ends -> Handshakes \cup {None}]]
  BY <1>1 DEF TypeOK, Opened
<1>3. next_channel_id' \in [Chains -> [Ports -> 1 .. MaxChannels + 1]]
  <2>1. n + 1 \in 1 .. MaxChannels + 1
    BY <1>1, HandshakeBounds
  <2> QED
    BY <1>1, <2>1 DEF TypeOK, Opened
<1>4. ASSUME NEW d \in Chains, NEW x \in Ends
      PROVE  (HS'[d][x] # None \/ CHANNEL_INFO'[d][x] # None)
               <=> x[2] < next_channel_id'[d][x[1]]
  <2>1. x[1] \in Ports /\ x[2] \in Nat /\ x = <<x[1], x[2]>> /\ e = <<e[1], e[2]>>
    BY <1>1 DEF Ends, Channels
  <2>2. CHANNEL_INFO'[d][x] = CHANNEL_INFO[d][x]
    BY DEF Opened
  <2>3. (HS[d][x] # None \/ CHANNEL_INFO[d][x] # None) <=> x[2] < next_channel_id[d][x[1]]
    BY DEF TypeOK
  <2>4. CASE d = c /\ x[1] = port
    <3>1. next_channel_id[d][x[1]] = n /\ next_channel_id'[d][x[1]] = n + 1
      BY <1>1, <2>4 DEF Opened, TypeOK
    <3>2. CASE x = e
      <4>1. HS'[d][x] = handshake
        BY <1>1, <2>4, <3>2 DEF Opened, TypeOK
      <4> QED
        BY <1>1, <3>1, <3>2, <4>1
    <3>3. CASE x # e
      <4>1. HS'[d][x] = HS[d][x]
        BY <1>1, <3>3 DEF Opened, TypeOK
      <4>2. x[2] # n
        BY <2>1, <2>4, <3>3
      <4> QED
        BY <1>1, <2>1, <2>2, <2>3, <3>1, <4>1, <4>2
    <3> QED
      BY <3>2, <3>3
  <2>5. CASE ~(d = c /\ x[1] = port)
    <3>1. HS'[d][x] = HS[d][x]
      BY <1>1, <2>5 DEF Opened, TypeOK
    <3>2. next_channel_id'[d][x[1]] = next_channel_id[d][x[1]]
      BY <1>1, <2>1, <2>5 DEF Opened, TypeOK
    <3> QED
      BY <2>2, <2>3, <3>1, <3>2
  <2> QED
    BY <2>4, <2>5
<1>5. /\ connections' = connections /\ CHANNEL_INFO' = CHANNEL_INFO
  BY DEF Opened
<1> QED
  BY <1>2, <1>3, <1>4, <1>5 DEF TypeOK

LEMMA ConnectionsUnchanged ==
    ASSUME UNCHANGED connections, NEW A
    PROVE  /\ AllConnections' = AllConnections
           /\ \A c \in Chains : \A i \in 1 .. MaxConnections :
                Counterparty(c, i)' = Counterparty(c, i)
           /\ Answering(A) => Answering(A)'
<1>1. AllConnections' = AllConnections
  BY DEF AllConnections
<1>2. \A c \in Chains : \A i \in 1 .. MaxConnections : Counterparty(c, i)' = Counterparty(c, i)
  BY DEF Counterparty
<1>3. Answering(A) => Answering(A)'
  BY DEF Answering, AllConnections, MayHave, Counterparty
<1> QED
  BY <1>1, <1>2, <1>3

LEMMA OpenedKeeps ==
    ASSUME TypeOK, OneOfBoth, NEW A, Sound(A), NEW c, NEW e, NEW handshake,
           Opened(c, e, handshake)
    PROVE  /\ TypeOK' /\ OneOfBoth' /\ Extends(A, A) /\ Answering(A)' /\ Agree(A)'
           /\ Handshake(c, e)' = handshake
           /\ \A d \in Chains, x \in Ends : IsOpen(d, x) =>
                Handshake(d, x)' = Handshake(d, x) /\ Channel(d, x)' = Channel(d, x)
<1>1. c \in Chains /\ e \in Ends
  BY DEF Opened
<1>2. Handshake(c, e)' = handshake
  BY <1>1 DEF Opened, TypeOK, Handshake
<1>3. ASSUME NEW d \in Chains, NEW x \in Ends, d # c \/ x # e
      PROVE  Handshake(d, x)' = Handshake(d, x)
  BY <1>1, <1>3 DEF Opened, TypeOK, Handshake
<1>4. \A d \in Chains, x \in Ends : Channel(d, x)' = Channel(d, x)
  BY DEF Opened, Channel
<1>5. Handshake(c, e) = None /\ Channel(c, e) = None /\ ~IsOpen(c, e)
  BY DEF Opened, IsOpen
<1>6. \A d \in Chains, x \in Ends : IsOpen(d, x) =>
        Handshake(d, x)' = Handshake(d, x) /\ Channel(d, x)' = Channel(d, x)
  BY <1>3, <1>4, <1>5
<1>7. OneOfBoth'
  BY <1>3, <1>4, <1>5 DEF OneOfBoth
<1>8. UNCHANGED connections /\ UNCHANGED CHANNEL_INFO
  BY DEF Opened
<1>9. Answering(A) /\ A \subseteq AllConnections /\ Agree(A)
  BY DEF Sound, Answering
<1>10. Extends(A, A)
  <2>1. ASSUME NEW d \in Chains, NEW x \in Ends, IsOpen(d, x)
        PROVE  /\ IsOpen(d, x)' /\ Order(d, x)' = Order(d, x)
               /\ Connection(d, x)' = Connection(d, x)
    BY <1>6, <2>1 DEF IsOpen, Order, Connection
  <2> QED
    BY <1>6, <1>8, <2>1, ConnectionsUnchanged DEF Extends
<1>11. Agree(A)'
  <2>1. \A d \in Chains, x \in Ends : Handshake(d, x) # None =>
           Handshake(d, x)' = Handshake(d, x)
    BY <1>6 DEF IsOpen
  <2> QED
    BY <1>8, <1>9, <1>10, <2>1, AgreeStays
<1>12. TypeOK'
  BY OpenedIsTypeOK
<1> QED
  BY <1>2, <1>6, <1>7, <1>8, <1>9, <1>10, <1>11, <1>12, ConnectionsUnchanged

LEMMA OpenNow ==
    ASSUME NEW c, NEW e, NEW handshake, handshake # None, Handshake(c, e)' = handshake
    PROVE  /\ IsOpen(c, e)' /\ Order(c, e)' = handshake.order
           /\ Connection(c, e)' = handshake.connection
  BY DEF IsOpen, Order, Connection

LEMMA ChannelInitKeeps ==
    ASSUME TypeOK, OneOfBoth, NEW A, Sound(A), NEW r \in Relayers, NEW src \in Chains,
           NEW connection, NEW src_port \in Ports, NEW dst_port \in Ports,
           NEW order \in Orders, NEW version \in Versions,
           ChannelInit(r, src, connection, src_port, dst_port, order, version)
    PROVE  TypeOK' /\ OneOfBoth' /\ Sound(A)' /\ Extends(A, A)
<1>1. PICK e : e = <<src_port, next_channel_id[src][src_port]>>
  OBVIOUS
<1>2. PICK remote : remote = <<dst_port, None>>
  OBVIOUS
<1>3. PICK handshake : handshake = [remote |-> remote, state |-> "Init", version |-> version,
                                    order |-> order, connection |-> connection]
  OBVIOUS
<1>4. PICK what : what = [at |-> "try", src |-> src, connection |-> connection,
                          order |-> order, src_end |-> e, dst_port |-> dst_port]
  OBVIOUS
<1>5. /\ OpenChannel(src, connection, src_port, order, version, remote, "Init")
      /\ Knows(r, what)
  BY <1>1, <1>2, <1>4 DEF ChannelInit
<1>6. remote \in EndOrNone
  BY <1>2 DEF EndOrNone
<1>7. Opened(src, e, handshake) /\ <<src, connection>> \in AllConnections
  <2>1. Answering(A)
    BY DEF Sound
  <2> QED
    BY <1>1, <1>3, <1>5, <1>6, <2>1, OpenChannelOpens
<1>8. handshake # None /\ e \in Ends
  BY <1>7, HandshakeNone DEF Opened
<1>9. /\ TypeOK' /\ OneOfBoth' /\ Extends(A, A) /\ Answering(A)' /\ Agree(A)'
      /\ Handshake(src, e)' = handshake
  BY <1>7, OpenedKeeps
<1>10. Known(A, what)'
  <2>1. <<src, connection>> \in AllConnections'
    BY <1>7, <1>9 DEF Extends
  <2>2. /\ IsOpen(src, e)' /\ Order(src, e)' = handshake.order
        /\ Connection(src, e)' = handshake.connection
    BY <1>8, <1>9, OpenNow
  <2>3. handshake.state = "Init" /\ handshake.order = order /\ handshake.connection = connection
    BY <1>3
  <2>4. /\ what.at = "try" /\ what.src = src /\ what.connection = connection
        /\ what.order = order /\ what.src_end = e /\ what.dst_port = dst_port
    BY <1>4
  <2>5. TrueAfterInit(what)'
    BY <1>4, <1>8, <1>9, <2>1, <2>2, <2>3, <2>4 DEF TrueAfterInit
  <2> QED
    BY <2>5 DEF Known
<1>11. Sound(A)'
  BY <1>5, <1>9, <1>10, AgreeInSteps
<1> QED
  BY <1>9, <1>11

LEMMA ChannelTryKeeps ==
    ASSUME TypeOK, OneOfBoth, NEW A, Sound(A), NEW r \in Relayers, NEW version \in Versions,
           ChannelTry(r, version)
    PROVE  TypeOK' /\ OneOfBoth' /\ Sound(A)' /\ Extends(A, A)
<1>1. PICK known : known = relayer[r]
  OBVIOUS
<1>2. PICK src, i, e, port, order :
        /\ src = known.src /\ i = known.connection /\ e = known.src_end
        /\ port = known.dst_port /\ order = known.order
  OBVIOUS
<1>3. /\ src \in Chains /\ e \in Ends /\ port \in Ports /\ order \in Orders
      /\ <<src, i>> \in AllConnections /\ IsOpen(src, e)
      /\ Handshake(src, e) # None => Handshake(src, e).state = "Init"
      /\ Order(src, e) = order /\ Connection(src, e) = i
  <2>1. TrueAfterInit(known)
    BY <1>1, KnownAt DEF ChannelTry, Sound
  <2> QED
    BY <1>2, <2>1 DEF TrueAfterInit
<1>4. PICK o : o = Other(src)
  OBVIOUS
<1>5. o \in Chains /\ o # src /\ Other(o) = src
  BY <1>3, <1>4, OtherIs
<1>6. PICK j : j = connections[src][i].counterparty
  OBVIOUS
<1>7. PICK d : d = <<port, next_channel_id[o][port]>>
  OBVIOUS
<1>8. PICK handshake : handshake = [remote |-> e, state |-> "Try", version |-> version,
                                    order |-> order, connection |-> j]
  OBVIOUS
<1>9. PICK what : what = [at |-> "ack", src |-> src, src_end |-> e, version |-> version,
                          dst_end |-> d]
  OBVIOUS
<1>10. /\ OpenChannel(o, j, port, order, version, e, "Try") /\ j # None
       /\ Knows(r, what)
  BY <1>1, <1>2, <1>4, <1>6, <1>7, <1>9 DEF ChannelTry
<1>11. Answering(A) /\ A \subseteq AllConnections
  BY DEF Sound, Answering
<1>12. Opened(o, d, handshake)
  <2>1. e \in EndOrNone
    BY <1>3 DEF EndOrNone, Ends
  <2> QED
    BY <1>3, <1>5, <1>7, <1>8, <1>10, <1>11, <2>1, OpenChannelOpens
<1>13. handshake # None /\ d \in Ends
  BY <1>12, HandshakeNone DEF Opened
<1>14. /\ TypeOK' /\ OneOfBoth' /\ Extends(A, A) /\ Answering(A)' /\ Agree(A)'
       /\ Handshake(o, d)' = handshake
       /\ Handshake(src, e)' = Handshake(src, e)
  BY <1>3, <1>12, OpenedKeeps
<1>15. Answers(A, src, i, j)'
  <2>1. i \in 1 .. Len(connections[src])
    <3>1. i \in 1 .. MaxConnections /\ i <= Len(connections[src])
      BY <1>3 DEF AllConnections
    <3>2. Len(connections[src]) \in Nat
      BY <1>3 DEF TypeOK
    <3> QED
      BY <3>1, <3>2
  <2>2. MayHave(A, src, i, j)
    BY <1>3, <1>6, <1>11, <2>1 DEF Answering, Counterparty
  <2>3. Answers(A, src, i, j)
    BY <1>6, <1>10, <2>2 DEF MayHave, Answers, Counterparty
  <2> QED
    BY <1>3, <1>11, <1>14, <2>3, AnswersStay
<1>16. Paired(A, src, e, d, version)'
  <2>1. /\ IsOpen(o, d)' /\ Order(o, d)' = order /\ Connection(o, d)' = j
    BY <1>8, <1>13, <1>14, OpenNow
  <2>2. /\ IsOpen(src, e)' /\ Order(src, e)' = order /\ Connection(src, e)' = i
    BY <1>3, <1>14 DEF Extends
  <2>3. handshake.state = "Try" /\ handshake.remote = e /\ handshake.version = version
    BY <1>8
  <2>4. Answers(A, src, Connection(src, e), Connection(o, d))'
    BY <1>15, <2>1, <2>2 DEF Answers
  <2> QED
    BY <1>3, <1>4, <1>13, <1>14, <2>1, <2>2, <2>3, <2>4 DEF Paired
<1>17. Known(A, what)'
  <2>1. /\ what.at = "ack" /\ what.src = src /\ what.src_end = e
        /\ what.version = version /\ what.dst_end = d
    BY <1>9
  <2>2. TrueAfterTry(A, what)'
    BY <1>3, <1>9, <1>16, <2>1 DEF TrueAfterTry
  <2> QED
    BY <2>2 DEF Known
<1>18. Sound(A)'
  BY <1>10, <1>14, <1>17, AgreeInSteps
<1> QED
  BY <1>14, <1>18

\* End e of chain c is established with end d.
Connected(c, e, d, version) ==
    /\ Handshake(c, e) # None /\ Handshake(c, e)' = None
    /\ Channel(c, e) = None /\ Channel(c, e)' # None
    /\ Channel(c, e)'.counterparty = d /\ Channel(c, e)'.version = version
    /\ Channel(c, e)'.order = Order(c, e)
    /\ Channel(c, e)'.connection = Connection(c, e)
    /\ \A x \in Chains, y \in Ends : x # c \/ y # e =>
         Handshake(x, y)' = Handshake(x, y) /\ Channel(x, y)' = Channel(x, y)
    /\ UNCHANGED <<connections, next_channel_id>>

LEMMA ConnectChannelConnects ==
    ASSUME TypeOK, OneOfBoth, NEW c \in Chains, NEW e \in Ends, NEW d \in Ends,
           NEW version \in Versions, ConnectChannel(c, e, d, version)
    PROVE  TypeOK' /\ OneOfBoth' /\ Connected(c, e, d, version)
<1> DEFINE h == Handshake(c, e)
           this == Established(h, d, version)
<1>1. h # None /\ h \in Handshakes
  BY DEF ConnectChannel, TypeOK, Handshake
<1>2. /\ this \in IbcChannels /\ this # None
      /\ this.counterparty = d /\ this.version = version
      /\ this.order = h.order /\ this.connection = h.connection
  <2>1. h.order \in Orders /\ h.connection \in 1 .. MaxConnections
    BY <1>1 DEF Handshakes
  <2> HIDE DEF h
  <2>2. this \in IbcChannels
    BY <2>1 DEF Established, IbcChannels
  <2>3. /\ this.counterparty = d /\ this.version = version
        /\ this.order = h.order /\ this.connection = h.connection
    BY DEF Established
  <2> QED
    BY <2>2, <2>3, HandshakeNone
<1> HIDE DEF this
<1>3. /\ CHANNEL_INFO' = [CHANNEL_INFO EXCEPT ![c][e] = this]
      /\ CHANNEL_HANDSHAKE_INFO' = [CHANNEL_HANDSHAKE_INFO EXCEPT ![c][e] = None]
      /\ UNCHANGED <<connections, next_channel_id>>
  BY DEF ConnectChannel, Forget, this, Handshake
<1>4. /\ CHANNEL_HANDSHAKE_INFO \in [Chains -> [Ends -> Handshakes \cup {None}]]
      /\ CHANNEL_INFO \in [Chains -> [Ends -> IbcChannels \cup {None}]]
  BY DEF TypeOK
<1>5. /\ CHANNEL_HANDSHAKE_INFO' \in [Chains -> [Ends -> Handshakes \cup {None}]]
      /\ CHANNEL_INFO' \in [Chains -> [Ends -> IbcChannels \cup {None}]]
  BY <1>2, <1>3, <1>4
<1>6. Handshake(c, e)' = None /\ Channel(c, e)' = this
  BY <1>3, <1>4 DEF Handshake, Channel
<1>7. ASSUME NEW x \in Chains, NEW y \in Ends, x # c \/ y # e
      PROVE  Handshake(x, y)' = Handshake(x, y) /\ Channel(x, y)' = Channel(x, y)
  BY <1>3, <1>4, <1>7 DEF Handshake, Channel
<1>8. Channel(c, e) = None /\ Order(c, e) = h.order /\ Connection(c, e) = h.connection
  BY <1>1 DEF OneOfBoth, Order, Connection
<1>9. OneOfBoth'
  BY <1>6, <1>7 DEF OneOfBoth
<1>10. TypeOK'
  <2>1. ASSUME NEW x \in Chains, NEW y \in Ends
        PROVE  (CHANNEL_HANDSHAKE_INFO'[x][y] # None \/ CHANNEL_INFO'[x][y] # None)
                 <=> y[2] < next_channel_id'[x][y[1]]
    <3>1. (CHANNEL_HANDSHAKE_INFO[x][y] # None \/ CHANNEL_INFO[x][y] # None)
            <=> y[2] < next_channel_id[x][y[1]]
      BY DEF TypeOK
    <3>2. CASE x = c /\ y = e
      BY <1>1, <1>2, <1>3, <1>6, <3>1, <3>2 DEF Handshake, Channel
    <3>3. CASE x # c \/ y # e
      BY <1>3, <1>7, <3>1, <3>3 DEF Handshake, Channel
    <3> QED
      BY <3>2, <3>3
  <2> QED
    BY <1>3, <1>5, <2>1 DEF TypeOK
<1> QED
  BY <1>1, <1>2, <1>3, <1>6, <1>7, <1>8, <1>9, <1>10 DEF Connected

LEMMA ConnectedExtends ==
    ASSUME NEW A, Answering(A), NEW c \in Chains, NEW e \in Ends, NEW d,
           NEW version, Connected(c, e, d, version),
           Handshake(c, e).state = "Try" => d = Handshake(c, e).remote
    PROVE  Extends(A, A) /\ Answering(A)'
<1>1. ASSUME NEW x \in Chains, NEW y \in Ends, IsOpen(x, y)
      PROVE  /\ IsOpen(x, y)' /\ Order(x, y)' = Order(x, y)
             /\ Connection(x, y)' = Connection(x, y)
             /\ Handshake(x, y)' \in {Handshake(x, y), None}
             /\ Channel(x, y) # None => Channel(x, y)' = Channel(x, y)
             /\ Handshake(x, y)' # Handshake(x, y) /\ Handshake(x, y).state = "Try" =>
                  Channel(x, y)'.counterparty = Handshake(x, y).remote
  <2>1. CASE x = c /\ y = e
    <3>1. /\ IsOpen(c, e)' /\ Order(c, e)' = Order(c, e)
          /\ Connection(c, e)' = Connection(c, e)
      BY DEF Connected, IsOpen, Order, Connection
    <3> QED
      BY <2>1, <3>1 DEF Connected
  <2>2. CASE x # c \/ y # e
    <3>1. Handshake(x, y)' = Handshake(x, y) /\ Channel(x, y)' = Channel(x, y)
      BY <2>2 DEF Connected
    <3> QED
      BY <1>1, <3>1 DEF IsOpen, Order, Connection
  <2> QED
    BY <2>1, <2>2
<1>2. UNCHANGED connections
  BY DEF Connected
<1> QED
  BY <1>1, <1>2, ConnectionsUnchanged DEF Extends

LEMMA ConnectedAgree ==
    ASSUME TypeOK, NEW A, A \subseteq AllConnections, Extends(A, A), Agree(A),
           NEW c \in Chains, NEW e \in Ends, NEW d \in Ends,
           NEW version, Connected(c, e, d, version),
           Handshake(c, e).state = "Try" =>
             d = Handshake(c, e).remote /\ version = Handshake(c, e).version,
           EstablishedWith(A, c, e, d)' \/ WaitsFor(A, c, e, d)'
    PROVE  Agree(A)'
<1> SUFFICES ASSUME NEW x \in Chains, NEW y \in Ends, Channel(x, y)' # None
             PROVE  \/ EstablishedWith(A, x, y, Channel(x, y).counterparty)'
                    \/ WaitsFor(A, x, y, Channel(x, y).counterparty)'
  BY DEF Agree
<1>1. PICK z : z = Channel(x, y)'.counterparty
  OBVIOUS
<1>2. EstablishedWith(A, x, y, z)' \/ WaitsFor(A, x, y, z)'
  <2>1. CASE x = c /\ y = e
    <3>1. z = d
      BY <1>1, <2>1 DEF Connected
    <3> QED
      BY <2>1, <3>1
  <2>2. CASE x # c \/ y # e
    <3>1. Channel(x, y)' = Channel(x, y) /\ Channel(x, y) # None
      BY <2>2 DEF Connected
    <3>2. z \in Ends /\ Other(x) \in Chains
      BY <1>1, <3>1, OtherIs DEF TypeOK, IbcChannels, Channel
    <3>3. EstablishedWith(A, x, y, z) \/ WaitsFor(A, x, y, z)
      BY <1>1, <3>1 DEF Agree
    <3>4. CASE EstablishedWith(A, x, y, z)
      BY <3>1, <3>2, <3>4, EstablishedWithStays
    <3>5. CASE WaitsFor(A, x, y, z)
      <4>1. CASE Other(x) # c \/ z # e
        <5>1. Handshake(Other(x), z)' = Handshake(Other(x), z)
          BY <3>2, <4>1 DEF Connected
        <5> QED
          BY <3>1, <3>2, <3>5, <5>1, WaitsForStays
      <4>2. CASE Other(x) = c /\ z = e
        <5>1. /\ Handshake(c, e).state = "Try" /\ Handshake(c, e).remote = y
              /\ Handshake(c, e).order = Channel(x, y).order
              /\ Handshake(c, e).version = Channel(x, y).version
              /\ Answers(A, x, Channel(x, y).connection, Handshake(c, e).connection)
          BY <3>5, <4>2 DEF WaitsFor
        <5>2. d = y /\ version = Channel(x, y).version
          BY <5>1
        <5>3. /\ Channel(c, e)' # None /\ Channel(c, e)'.counterparty = y
              /\ Channel(c, e)'.version = Channel(x, y)'.version
          BY <3>1, <5>2 DEF Connected
        <5>4. /\ Channel(c, e)'.order = Handshake(c, e).order
              /\ Channel(c, e)'.connection = Handshake(c, e).connection
          BY DEF Connected, Order, Connection
        <5>5. PICK i, j : i = Channel(x, y).connection /\ j = Handshake(c, e).connection
          OBVIOUS
        <5>6. Answers(A, x, i, j)'
          BY <5>1, <5>5, AnswersStay
        <5>7. i = Channel(x, y)'.connection /\ j = Channel(c, e)'.connection
          BY <3>1, <5>4, <5>5
        <5>8. Answers(A, x, Channel(x, y).connection, Channel(c, e).connection)'
          BY <5>6, <5>7 DEF Answers
        <5>9. EstablishedWith(A, x, y, e)'
          BY <3>1, <4>2, <5>1, <5>3, <5>4, <5>8 DEF EstablishedWith
        <5> QED
          BY <4>2, <5>9
      <4> QED
        BY <4>1, <4>2
    <3> QED
      BY <3>3, <3>4, <3>5
  <2> QED
    BY <2>1, <2>2
<1> QED
  BY <1>1, <1>2

LEMMA ChannelAckKeeps ==
    ASSUME TypeOK, OneOfBoth, NEW A, Sound(A), NEW r \in Relayers, ChannelAck(r)
    PROVE  TypeOK' /\ OneOfBoth' /\ Sound(A)' /\ Extends(A, A)
<1>1. PICK known : known = relayer[r]
  OBVIOUS
<1>2. PICK src, e, d, version : /\ src = known.src /\ e = known.src_end
                                /\ d = known.dst_end /\ version = known.version
  OBVIOUS
<1>3. TrueAfterTry(A, known) /\ known.at = "ack"
  BY <1>1, KnownAt DEF ChannelAck, Sound
<1>4. src \in Chains /\ Paired(A, src, e, d, version)
  BY <1>2, <1>3 DEF TrueAfterTry
<1>5. e \in Ends /\ d \in Ends /\ version \in Versions
  BY <1>4 DEF Paired
<1>6. PICK o : o = Other(src)
  OBVIOUS
<1>7. o \in Chains /\ o # src /\ Other(o) = src
  BY <1>4, <1>6, OtherIs
<1>8. PICK what : what = [known EXCEPT !.at = "confirm"]
  OBVIOUS
<1>9. ConnectChannel(src, e, d, version) /\ Knows(r, what)
  BY <1>1, <1>2, <1>8 DEF ChannelAck
<1>10. TypeOK' /\ OneOfBoth' /\ Connected(src, e, d, version)
  BY <1>4, <1>5, <1>9, ConnectChannelConnects
<1>11. Handshake(src, e).state = "Init"
  BY <1>4, <1>10 DEF Paired, Connected
<1>12. Answering(A) /\ A \subseteq AllConnections /\ Agree(A)
  BY DEF Sound, Answering
<1>13. Extends(A, A) /\ Answering(A)'
  BY <1>4, <1>5, <1>10, <1>11, <1>12, ConnectedExtends
<1>14. Handshake(o, d) # None
  <2> SUFFICES ASSUME Handshake(o, d) = None
               PROVE  FALSE
    OBVIOUS
  <2>1. Channel(o, d) # None /\ Channel(o, d).counterparty = e
    BY <1>4, <1>6 DEF Paired, IsOpen
  <2>2. EstablishedWith(A, o, d, e) \/ WaitsFor(A, o, d, e)
    BY <1>5, <1>7, <1>12, <2>1 DEF Agree
  <2>3. ~EstablishedWith(A, o, d, e)
    BY <1>7, <1>10 DEF EstablishedWith, Connected
  <2>4. ~WaitsFor(A, o, d, e)
    BY <1>7, <1>11 DEF WaitsFor
  <2> QED
    BY <2>2, <2>3, <2>4
<1>15. WaitsFor(A, src, e, d)'
  <2>1. /\ Handshake(o, d).state = "Try" /\ Handshake(o, d).remote = e
        /\ Handshake(o, d).version = version
    BY <1>4, <1>6, <1>14 DEF Paired
  <2>2. Order(src, e) = Handshake(o, d).order
    BY <1>4, <1>6, <1>14 DEF Paired, Order
  <2>3. Handshake(o, d)' = Handshake(o, d)
    BY <1>5, <1>7, <1>10 DEF Connected
  <2>4. PICK i, j : i = Connection(src, e) /\ j = Connection(o, d)
    OBVIOUS
  <2>5. Answers(A, src, i, j)
    BY <1>4, <1>6, <2>4 DEF Paired
  <2>6. Answers(A, src, i, j)'
    BY <1>4, <1>12, <1>13, <2>5, AnswersStay
  <2>7. i = Channel(src, e)'.connection /\ j = Handshake(o, d)'.connection
    BY <1>10, <1>14, <2>3, <2>4 DEF Connected, Connection
  <2>8. Answers(A, src, Channel(src, e).connection, Handshake(o, d).connection)'
    BY <2>6, <2>7 DEF Answers
  <2>9. Channel(src, e)'.order = Order(src, e) /\ Channel(src, e)'.version = version
    BY <1>10 DEF Connected
  <2> QED
    BY <1>6, <1>14, <2>1, <2>2, <2>3, <2>8, <2>9 DEF WaitsFor
<1>16. Agree(A)'
  BY <1>4, <1>5, <1>10, <1>11, <1>12, <1>13, <1>15, ConnectedAgree
<1>17. Known(A, what)'
  <2>1. /\ what = [at |-> "confirm", src |-> src, src_end |-> e, version |-> version,
                   dst_end |-> d]
        /\ what.at = "confirm" /\ what.src = src /\ what.src_end = e
        /\ what.version = version /\ what.dst_end = d
    <3>1. known = [at |-> known.at, src |-> src, src_end |-> e, version |-> version,
                   dst_end |-> d]
      BY <1>2, <1>3 DEF TrueAfterTry
    <3>2. what = [at |-> "confirm", src |-> src, src_end |-> e, version |-> version,
                  dst_end |-> d]
      BY <1>8, <3>1
    <3> QED
      BY <3>2
  <2>2. Paired(A, src, e, d, version)'
    BY <1>4, <1>12, <1>13, PairedStays
  <2>3. TrueAfterTry(A, what)'
    BY <1>4, <1>10, <2>1, <2>2 DEF TrueAfterTry, Connected
  <2> QED
    BY <2>3 DEF Known
<1>18. Sound(A)'
  BY <1>9, <1>13, <1>16, <1>17, AgreeInSteps
<1> QED
  BY <1>10, <1>13, <1>18

LEMMA ChannelConfirmKeeps ==
    ASSUME TypeOK, OneOfBoth, NEW A, Sound(A), NEW r \in Relayers, ChannelConfirm(r)
    PROVE  TypeOK' /\ OneOfBoth' /\ Sound(A)' /\ Extends(A, A)
<1>1. PICK known : known = relayer[r]
  OBVIOUS
<1>2. PICK src, e, d, version : /\ src = known.src /\ e = known.src_end
                                /\ d = known.dst_end /\ version = known.version
  OBVIOUS
<1>3. TrueAfterTry(A, known) /\ known.at = "confirm"
  BY <1>1, KnownAt DEF ChannelConfirm, Sound
<1>4. /\ src \in Chains /\ Paired(A, src, e, d, version)
      /\ Channel(src, e) # None /\ Channel(src, e).counterparty = d
      /\ Channel(src, e).version = version
  BY <1>2, <1>3 DEF TrueAfterTry
<1>5. e \in Ends /\ d \in Ends /\ version \in Versions
  BY <1>4 DEF Paired
<1>6. PICK o : o = Other(src)
  OBVIOUS
<1>7. o \in Chains /\ o # src /\ Other(o) = src
  BY <1>4, <1>6, OtherIs
<1>8. ConnectChannel(o, d, e, version) /\ Knows(r, Idle)
  BY <1>1, <1>2, <1>6 DEF ChannelConfirm
<1>9. TypeOK' /\ OneOfBoth' /\ Connected(o, d, e, version)
  BY <1>5, <1>7, <1>8, ConnectChannelConnects
<1>10. /\ Handshake(o, d).state = "Try" /\ Handshake(o, d).remote = e
       /\ Handshake(o, d).version = version
  BY <1>4, <1>6, <1>9 DEF Paired, Connected
<1>11. Answering(A) /\ A \subseteq AllConnections /\ Agree(A)
  BY DEF Sound, Answering
<1>12. Extends(A, A) /\ Answering(A)'
  BY <1>5, <1>7, <1>9, <1>10, <1>11, ConnectedExtends
<1>13. EstablishedWith(A, o, d, e)'
  <2>1. Channel(src, e)' = Channel(src, e) /\ Handshake(src, e) = None
    BY <1>4, <1>5, <1>7, <1>9 DEF Connected, OneOfBoth
  <2>2. Order(src, e) = Order(o, d)
    BY <1>4, <1>6 DEF Paired
  <2>3. Channel(src, e)'.order = Channel(o, d)'.order
    BY <1>9, <2>1, <2>2 DEF Order, Connected
  <2>4. PICK i, j : i = Connection(src, e) /\ j = Connection(o, d)
    OBVIOUS
  <2>5. Answers(A, src, i, j)
    BY <1>4, <1>6, <2>4 DEF Paired
  <2>6. Answers(A, src, i, j)'
    BY <1>4, <1>11, <1>12, <2>5, AnswersStay
  <2>7. i = Channel(src, e)'.connection /\ j = Channel(o, d)'.connection
    BY <1>9, <2>1, <2>4 DEF Connected, Connection
  <2>8. Answers(A, o, j, i)'
    BY <1>6, <1>7, <2>6 DEF Answers
  <2>9. Answers(A, o, Channel(o, d).connection, Channel(src, e).connection)'
    BY <2>7, <2>8 DEF Answers
  <2>10. Channel(o, d)' # None /\ Channel(o, d)'.version = version
    BY <1>9 DEF Connected
  <2> QED
    BY <1>4, <1>7, <2>1, <2>3, <2>9, <2>10 DEF EstablishedWith
<1>14. Agree(A)'
  BY <1>5, <1>7, <1>9, <1>10, <1>11, <1>12, <1>13, ConnectedAgree
<1>15. Known(A, Idle)'
  BY DEF Known
<1>16. Sound(A)'
  BY <1>8, <1>12, <1>14, <1>15, AgreeInSteps
<1> QED
  BY <1>9, <1>12, <1>16

-----------------------------------------------------------------------------
(* The theorems *)

LEMMA ChainsUnchanged ==
    ASSUME TypeOK, OneOfBoth, NEW A, Sound(A), UNCHANGED chainVars
    PROVE  /\ TypeOK' /\ OneOfBoth' /\ Extends(A, A) /\ Answering(A)' /\ Agree(A)'
           /\ \A known : Known(A, known) => Known(A, known)'
<1>1. /\ UNCHANGED <<CHANNEL_HANDSHAKE_INFO, CHANNEL_INFO>>
      /\ UNCHANGED connections /\ UNCHANGED next_channel_id
  BY DEF chainVars
<1>2. Answering(A) /\ A \subseteq AllConnections /\ Agree(A)
  BY DEF Sound, Answering
<1>3. Extends(A, A)
  BY <1>1, ChannelsUnchanged, ConnectionsUnchanged DEF Extends
<1>4. TypeOK'
  BY <1>1 DEF TypeOK
<1> QED
  BY <1>1, <1>2, <1>3, <1>4, OneOfBothStays, ConnectionsUnchanged, AgreeUnchanged, KnownStays

LEMMA RelayerOnlyKeeps ==
    ASSUME TypeOK, OneOfBoth, NEW A, Sound(A), NEW r \in Relayers,
           Abandon(r) \/ \E s \in Relayers : Repeat(r, s)
    PROVE  TypeOK' /\ OneOfBoth' /\ Sound(A)' /\ Extends(A, A)
<1>1. UNCHANGED chainVars
  BY DEF Abandon, Repeat
<1>2. PICK what : Knows(r, what) /\ Known(A, what)
  <2>1. CASE Abandon(r)
    BY <2>1 DEF Abandon, Known
  <2>2. CASE \E s \in Relayers : Repeat(r, s)
    BY <2>2 DEF Repeat, Sound
  <2> QED
    BY <2>1, <2>2
<1>3. /\ TypeOK' /\ OneOfBoth' /\ Extends(A, A) /\ Answering(A)' /\ Agree(A)'
      /\ Known(A, what)'
  BY <1>1, <1>2, ChainsUnchanged
<1>4. Sound(A)'
  BY <1>2, <1>3, AgreeInSteps
<1> QED
  BY <1>3, <1>4

LEMMA StutterKeeps ==
    ASSUME TypeOK, OneOfBoth, NEW A, Sound(A), UNCHANGED vars
    PROVE  TypeOK' /\ OneOfBoth' /\ Sound(A)' /\ Extends(A, A)
<1>1. UNCHANGED chainVars /\ relayer' = relayer
  BY DEF vars, chainVars
<1>2. /\ TypeOK' /\ OneOfBoth' /\ Extends(A, A) /\ Answering(A)' /\ Agree(A)'
      /\ \A known : Known(A, known) => Known(A, known)'
  BY <1>1, ChainsUnchanged
<1>3. \A s \in Relayers : Known(A, relayer[s])'
  <2> SUFFICES ASSUME NEW s \in Relayers
               PROVE  Known(A, relayer[s])'
    OBVIOUS
  <2>1. PICK known : known = relayer[s]
    OBVIOUS
  <2>2. Known(A, known)'
    BY <1>2, <2>1 DEF Sound
  <2>3. known = relayer'[s]
    BY <1>1, <2>1
  <2> QED
    BY <2>2, <2>3
<1>4. relayer' = [s \in Relayers |-> relayer'[s]]
  BY <1>1 DEF Sound
<1> QED
  BY <1>2, <1>3, <1>4 DEF Sound

LEMMA StepKeeps ==
    ASSUME TypeOK, OneOfBoth, NEW A, Sound(A), [Next]_vars
    PROVE  TypeOK' /\ OneOfBoth' /\ \E A2 : Sound(A2)' /\ Extends(A, A2)
<1>1. CASE UNCHANGED vars
  BY <1>1, StutterKeeps
<1>2. CASE Next
  <2>1. PICK r \in Relayers :
          \/ \E src \in Chains : ConnectionInit(r, src)
          \/ ConnectionTry(r) \/ ConnectionAck(r)
          \/ \E src \in Chains, connection \in 1 .. MaxConnections,
                src_port, dst_port \in Ports, order \in Orders, version \in Versions :
               ChannelInit(r, src, connection, src_port, dst_port, order, version)
          \/ \E version \in Versions : ChannelTry(r, version)
          \/ ChannelAck(r) \/ ChannelConfirm(r)
          \/ Abandon(r)
          \/ \E s \in Relayers : Repeat(r, s)
    BY <1>2 DEF Next
  <2>2. CASE \E src \in Chains : ConnectionInit(r, src)
    BY <2>2, ConnectionInitKeeps
  <2>3. CASE ConnectionTry(r)
    BY <2>3, ConnectionTryKeeps
  <2>4. CASE ConnectionAck(r)
    BY <2>4, ConnectionAckKeeps
  <2>5. CASE \E src \in Chains, connection \in 1 .. MaxConnections,
                src_port, dst_port \in Ports, order \in Orders, version \in Versions :
               ChannelInit(r, src, connection, src_port, dst_port, order, version)
    BY <2>5, ChannelInitKeeps
  <2>6. CASE \E version \in Versions : ChannelTry(r, version)
    BY <2>6, ChannelTryKeeps
  <2>7. CASE ChannelAck(r)
    BY <2>7, ChannelAckKeeps
  <2>8. CASE ChannelConfirm(r)
    BY <2>8, ChannelConfirmKeeps
  <2>9. CASE Abandon(r) \/ \E s \in Relayers : Repeat(r, s)
    BY <2>9, RelayerOnlyKeeps
  <2> QED
    BY <2>1, <2>2, <2>3, <2>4, <2>5, <2>6, <2>7, <2>8, <2>9
<1> QED
  BY <1>1, <1>2

LEMMA InitIsSound == Init => TypeOK /\ OneOfBoth /\ Sound({})
<1> SUFFICES ASSUME Init
             PROVE  TypeOK /\ OneOfBoth /\ Sound({})
  OBVIOUS
<1>1. \A c \in Chains : connections[c] = <<>> /\ Len(connections[c]) = 0
  BY DEF Init
<1>2. \A c \in Chains, e \in Ends : /\ CHANNEL_HANDSHAKE_INFO[c][e] = None
                                    /\ CHANNEL_INFO[c][e] = None
  BY DEF Init
<1>3. TypeOK
  <2>1. connections \in [Chains -> Seq([chain : Chains,
                                       counterparty : 1 .. MaxConnections \cup {None}])]
    BY DEF Init
  <2>2. next_channel_id \in [Chains -> [Ports -> 1 .. MaxChannels + 1]]
    BY HandshakeBounds DEF Init
  <2>3. /\ CHANNEL_HANDSHAKE_INFO \in [Chains -> [Ends -> Handshakes \cup {None}]]
        /\ CHANNEL_INFO \in [Chains -> [Ends -> IbcChannels \cup {None}]]
    BY DEF Init
  <2>4. \A c \in Chains, e \in Ends : ~(e[2] < next_channel_id[c][e[1]])
    <3> SUFFICES ASSUME NEW c \in Chains, NEW e \in Ends
                 PROVE  ~(e[2] < next_channel_id[c][e[1]])
      OBVIOUS
    <3>1. e[1] \in Ports /\ e[2] \in 1 .. MaxChannels
      BY DEF Ends, Channels
    <3>2. next_channel_id[c][e[1]] = 1
      BY <3>1 DEF Init
    <3> QED
      BY <3>1, <3>2, HandshakeBounds
  <2> QED
    BY <1>2, <2>1, <2>2, <2>3, <2>4 DEF TypeOK
<1>4. OneOfBoth
  BY <1>2 DEF OneOfBoth, Handshake, Channel
<1>5. Answering({})
  BY <1>1, HandshakeBounds DEF Answering
<1>6. Agree({})
  BY <1>2 DEF Agree, Channel
<1>7. relayer = [r \in Relayers |-> relayer[r]] /\ \A r \in Relayers : Known({}, relayer[r])
  BY DEF Init, Known
<1> QED
  BY <1>3, <1>4, <1>5, <1>6, <1>7 DEF Sound

\* The storage of the two chains and what every handshake in progress knows fit
\* together whatever calls are made, by whom and how often.
THEOREM Invariance == Spec => []IInv
<1>1. Init => IInv
  BY InitIsSound DEF IInv
<1>2. IInv /\ [Next]_vars => IInv'
  <2> SUFFICES ASSUME IInv, [Next]_vars
               PROVE  IInv'
    OBVIOUS
  <2>1. PICK A : Sound(A)
    BY DEF IInv
  <2>2. TypeOK /\ OneOfBoth
    BY DEF IInv
  <2>3. PICK A2 : TypeOK' /\ OneOfBoth' /\ Sound(A2)'
    BY <2>1, <2>2, StepKeeps
  <2>4. (A2 \in SUBSET AllConnections)'
    BY <2>3 DEF Sound, Answering
  <2> QED
    BY <2>3, <2>4 DEF IInv
<1> QED
  BY <1>1, <1>2, PTL DEF Spec

\* What open_channel, connect_channel and create_connection save has the type that
\* the storage maps declare, and no channel id is given out that is in use.
THEOREM TypeCorrect == Spec => []TypeOK
<1>1. IInv => TypeOK
  BY DEF IInv
<1> QED
  BY <1>1, Invariance, PTL

\* Two ends that connect_channel has established are each other's counterparty, with
\* one order and one version; an end whose other end is not established yet has one that
\* waits for that.  Of their connections one at least names the other, no more: a repeated
\* create_connection may since have given the other one a new counterparty.
THEOREM EndsAlwaysAgree == Spec => []EndsAgree
<1>1. IInv => EndsAgree
  <2> SUFFICES ASSUME IInv
               PROVE  EndsAgree
    OBVIOUS
  <2>1. PICK A : Agree(A)
    BY DEF IInv, Sound
  <2>2. \A c \in Chains : \A i, j : Answers(A, c, i, j) => Linked(c, i, j)
    BY DEF Answers, Linked, Counterparty
  <2>3. ASSUME NEW c \in Chains, NEW e \in Ends, Channel(c, e) # None,
               NEW d, d = Channel(c, e).counterparty
        PROVE  \/ /\ Channel(Other(c), d) # None
                  /\ Channel(Other(c), d).counterparty = e
                  /\ Channel(Other(c), d).order = Channel(c, e).order
                  /\ Channel(Other(c), d).version = Channel(c, e).version
                  /\ Linked(c, Channel(c, e).connection, Channel(Other(c), d).connection)
               \/ /\ Handshake(Other(c), d) # None
                  /\ Handshake(Other(c), d).state = "Try"
                  /\ Handshake(Other(c), d).remote = e
                  /\ Handshake(Other(c), d).order = Channel(c, e).order
                  /\ Handshake(Other(c), d).version = Channel(c, e).version
                  /\ Linked(c, Channel(c, e).connection, Handshake(Other(c), d).connection)
    <3>1. EstablishedWith(A, c, e, d) \/ WaitsFor(A, c, e, d)
      BY <2>1, <2>3 DEF Agree
    <3> QED
      BY <2>2, <3>1 DEF EstablishedWith, WaitsFor
  <2> QED
    BY <2>3 DEF EndsAgree, Channel, Handshake
<1> QED
  BY <1>1, Invariance, PTL

\* create_connection with the id of a connection overwrites its counterparty.  However
\* such calls are repeated and mixed, every counterparty exists, and if it has one
\* itself, then that one has it in turn.
THEOREM CounterpartiesAlwaysLeadBack == Spec => []CounterpartiesLeadBack
<1>1. IInv => CounterpartiesLeadBack
  <2> SUFFICES ASSUME IInv, NEW c \in Chains, NEW i \in DOMAIN connections[c],
                      NEW j, j = Counterparty(c, i), j # None
               PROVE  /\ j \in DOMAIN connections[Other(c)]
                      /\ Counterparty(Other(c), j) # None =>
                           /\ Counterparty(Other(c), j) \in DOMAIN connections[c]
                           /\ Counterparty(c, Counterparty(Other(c), j)) = j
    BY DEF CounterpartiesLeadBack, Counterparty
  <2>1. PICK A : Answering(A)
    BY DEF IInv, Sound
  <2>2. \A d \in Chains : DOMAIN connections[d] = 1 .. Len(connections[d])
    BY DEF IInv, TypeOK
  <2>3. Other(c) \in Chains /\ Other(Other(c)) = c
    BY OtherIs
  <2>4. \A d \in Chains : \A n : <<d, n>> \in AllConnections => n \in DOMAIN connections[d]
    BY <2>2, HandshakeBounds DEF AllConnections, IInv, TypeOK
  <2>5. MayHave(A, c, i, j)
    BY <2>1, <2>2 DEF Answering
  <2>6. CASE <<c, i>> \in A
    <3>1. <<Other(c), j>> \in AllConnections \ A
      BY <2>5, <2>6 DEF MayHave
    <3>2. j \in DOMAIN connections[Other(c)]
      BY <2>3, <2>4, <3>1
    <3>3. MayHave(A, Other(c), j, Counterparty(Other(c), j))
      BY <2>1, <2>2, <2>3, <3>2 DEF Answering
    <3>4. Counterparty(Other(c), j) # None =>
            /\ <<c, Counterparty(Other(c), j)>> \in A
            /\ Counterparty(c, Counterparty(Other(c), j)) = j
      BY <2>3, <3>1, <3>3 DEF MayHave
    <3> QED
      BY <2>1, <2>4, <3>2, <3>4 DEF Answering
  <2>7. CASE <<c, i>> \notin A
    <3>1. <<Other(c), j>> \in A /\ Counterparty(Other(c), j) = i
      BY <2>5, <2>7 DEF MayHave
    <3> QED
      BY <2>1, <2>3, <2>4, <3>1 DEF Answering
  <2> QED
    BY <2>6, <2>7
<1> QED
  BY <1>1, Invariance, PTL

\* connect_channel never replaces a channel that is established, also when the calls
\* of create_channel are made again: its packets never count from 1 again.  This is about
\* channels; the counterparty of a connection may be overwritten.
THEOREM ChannelsAreKept == Spec => EstablishedForGood
<1>1. IInv /\ [Next]_vars => ChannelsStay
  <2> SUFFICES ASSUME IInv, [Next]_vars
               PROVE  ChannelsStay
    OBVIOUS
  <2>1. PICK A : Sound(A) /\ TypeOK /\ OneOfBoth
    BY DEF IInv
  <2>2. PICK A2 : Extends(A, A2)
    BY <2>1, StepKeeps
  <2> QED
    BY <2>2 DEF ChannelsStay, Extends, IsOpen
<1>2. ChannelsStay <=> \A c \in Chains, e \in Ends :
                         CHANNEL_INFO[c][e] # None => CHANNEL_INFO'[c][e] = CHANNEL_INFO[c][e]
  BY DEF ChannelsStay, Channel
<1> QED
  BY <1>1, <1>2, Invariance, PTL DEF Spec, EstablishedForGood

=============================================================================
