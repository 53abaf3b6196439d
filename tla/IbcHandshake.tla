----------------------------- MODULE IbcHandshake -----------------------------
(***************************************************************************)
(* Connections and channels between the IBC modules of two Apps:            *)
(* create_connection, open_channel and connect_channel of                   *)
(* src/ibc/simple_ibc.rs, called as create_connection and create_channel of *)
(* src/ibc/relayer/channel.rs call them.                                    *)
(*                                                                          *)
(* Those two are sequences of sudo calls on one App and the other.  A test  *)
(* can make the calls itself, mix several handshakes and go on from an      *)
(* earlier response again, and each call may fail, because an application   *)
(* refuses it, and leave the rest undone.                                   *)
(***************************************************************************)
EXTENDS Naturals, Sequences

CONSTANTS Chains,         \* the two Apps
          Relayers,       \* handshakes that may be going on at a time
          Ports,          \* ports of both chains
          Versions,       \* versions that applications speak
          Orders,         \* IbcOrder
          None,           \* no counterparty, no channel
          MaxConnections, \* bound: connections of a chain
          MaxChannels     \* bound: channels of a port

ASSUME HandshakeChains == \E c, d \in Chains : c # d /\ Chains = {c, d}
ASSUME HandshakeBounds == MaxConnections \in Nat /\ MaxChannels \in Nat /\ None \notin Nat

VARIABLES connections,            \* of each chain, in the order of their ids
          next_channel_id,        \* PORT_INFO
          CHANNEL_HANDSHAKE_INFO, \* of each chain, by port and channel
          CHANNEL_INFO,           \* of each chain, by port and channel
          relayer                 \* of each handshake, the next call and what it knows
chainVars == <<connections, next_channel_id, CHANNEL_HANDSHAKE_INFO, CHANNEL_INFO>>
vars == <<connections, next_channel_id, CHANNEL_HANDSHAKE_INFO, CHANNEL_INFO, relayer>>

Channels == 1 .. MaxChannels
Ends == Ports \X Channels
Other(c) == CHOOSE d \in Chains : d # c

Idle == [at |-> "idle"]

Init ==
    /\ connections = [c \in Chains |-> <<>>]
    /\ next_channel_id = [c \in Chains |-> [port \in Ports |-> 1]]
    /\ CHANNEL_HANDSHAKE_INFO = [c \in Chains |-> [e \in Ends |-> None]]
    /\ CHANNEL_INFO = [c \in Chains |-> [e \in Ends |-> None]]
    /\ relayer = [r \in Relayers |-> Idle]

Knows(r, what) == relayer' = [relayer EXCEPT ![r] = what]

-----------------------------------------------------------------------------
(* The handlers of the IBC module of chain c *)

\* create_connection without a connection id: the id is the number of connections.
NewConnection(c, counterparty) ==
    /\ Len(connections[c]) < MaxConnections
    /\ connections' = [connections EXCEPT ![c] =
         Append(@, [chain |-> Other(c), counterparty |-> counterparty])]
    /\ UNCHANGED <<next_channel_id, CHANNEL_HANDSHAKE_INFO, CHANNEL_INFO>>

\* create_connection with the id of a connection to the same chain.
SetCounterparty(c, connection, counterparty) ==
    /\ connection \in DOMAIN connections[c]
    /\ connections[c][connection].chain = Other(c)
    /\ connections' = [connections EXCEPT ![c][connection].counterparty = counterparty]
    /\ UNCHANGED <<next_channel_id, CHANNEL_HANDSHAKE_INFO, CHANNEL_INFO>>

\* Mutant of TakeChannelId: the counter is not saved.
KeepChannelId(c, port) == UNCHANGED next_channel_id

TakeChannelId(c, port) == next_channel_id' = [next_channel_id EXCEPT ![c][port] = @ + 1]

\* open_channel: state is Init, or Try if there is a counterparty_version.  version
\* is the one that the application answers with.
OpenChannel(c, connection, port, order, version, counterparty, state) ==
    LET channel == next_channel_id[c][port]
    IN  /\ connection \in DOMAIN connections[c]
        /\ channel \in Channels
        /\ TakeChannelId(c, port)
        /\ CHANNEL_HANDSHAKE_INFO' = [CHANNEL_HANDSHAKE_INFO EXCEPT ![c][<<port, channel>>] =
             [remote |-> counterparty, state |-> state, version |-> version,
              order |-> order, connection |-> connection]]
        /\ UNCHANGED <<connections, CHANNEL_INFO>>

\* Mutant of Forget: the handshake stays, and may be completed again.
ForgetNothing(c, end) == UNCHANGED CHANNEL_HANDSHAKE_INFO

\* "Remove handshake, add channel"
Forget(c, end) ==
    CHANNEL_HANDSHAKE_INFO' = [CHANNEL_HANDSHAKE_INFO EXCEPT ![c][end] = None]

\* Mutant of Established: an end keeps the version that it proposed itself.
EstablishedAsProposed(handshake, counterparty, version) ==
    [counterparty |-> counterparty, order |-> handshake.order,
     version |-> handshake.version, connection |-> handshake.connection]

\* The IbcChannel of CHANNEL_INFO.
Established(handshake, counterparty, version) ==
    [counterparty |-> counterparty, order |-> handshake.order,
     version |-> version, connection |-> handshake.connection]

\* connect_channel, after Init (an ack) or Try (a confirmation).
ConnectChannel(c, end, counterparty, version) ==
    /\ CHANNEL_HANDSHAKE_INFO[c][end] # None
    /\ CHANNEL_INFO' = [CHANNEL_INFO EXCEPT ![c][end] =
         Established(CHANNEL_HANDSHAKE_INFO[c][end], counterparty, version)]
    /\ Forget(c, end)
    /\ UNCHANGED <<connections, next_channel_id>>

-----------------------------------------------------------------------------
(* relayer: create_connection *)

ConnectionInit(r, src) ==
    /\ relayer[r] = Idle
    /\ NewConnection(src, None)
    /\ Knows(r, [at |-> "connection try", src |-> src,
                 connection |-> Len(connections[src]) + 1])

ConnectionTry(r) ==
    LET known == relayer[r]
        dst == Other(known.src)
    IN  /\ known.at = "connection try"
        /\ NewConnection(dst, known.connection)
        /\ Knows(r, [at |-> "connection ack", src |-> known.src,
                     connection |-> known.connection,
                     counterparty |-> Len(connections[dst]) + 1])

\* Mutant of ConnectionAck: the two connections are taken for each other.
ConnectionAckSwapped(r) ==
    LET known == relayer[r]
    IN  /\ known.at = "connection ack"
        /\ SetCounterparty(known.src, known.counterparty, known.connection)
        /\ Knows(r, Idle)

ConnectionAck(r) ==
    LET known == relayer[r]
    IN  /\ known.at = "connection ack"
        /\ SetCounterparty(known.src, known.connection, known.counterparty)
        /\ Knows(r, Idle)

(* relayer: create_channel *)

ChannelInit(r, src, connection, src_port, dst_port, order, version) ==
    /\ relayer[r] = Idle
    /\ OpenChannel(src, connection, src_port, order, version, <<dst_port, None>>, "Init")
    /\ Knows(r, [at |-> "try", src |-> src, connection |-> connection, order |-> order,
                 src_end |-> <<src_port, next_channel_id[src][src_port]>>,
                 dst_port |-> dst_port])

\* The connection of the other chain is the counterparty of the one at the source:
\* without one, unwrap panics.
ChannelTry(r, version) ==
    LET known == relayer[r]
        dst == Other(known.src)
        connection == connections[known.src][known.connection].counterparty
    IN  /\ known.at = "try"
        /\ connection # None
        /\ OpenChannel(dst, connection, known.dst_port, known.order, version,
                       known.src_end, "Try")
        /\ Knows(r, [at |-> "ack", src |-> known.src, src_end |-> known.src_end,
                     version |-> version,
                     dst_end |-> <<known.dst_port, next_channel_id[dst][known.dst_port]>>])

ChannelAck(r) ==
    LET known == relayer[r]
    IN  /\ known.at = "ack"
        /\ ConnectChannel(known.src, known.src_end, known.dst_end, known.version)
        /\ Knows(r, [known EXCEPT !.at = "confirm"])

ChannelConfirm(r) ==
    LET known == relayer[r]
    IN  /\ known.at = "confirm"
        /\ ConnectChannel(Other(known.src), known.dst_end, known.src_end, known.version)
        /\ Knows(r, Idle)

\* A call returns an error, and the `?` after it ends the function.
Abandon(r) ==
    /\ relayer[r] # Idle
    /\ Knows(r, Idle)
    /\ UNCHANGED chainVars

\* A test goes on from the responses of an earlier call once more.
Repeat(r, s) ==
    /\ relayer[r] = Idle
    /\ Knows(r, relayer[s])
    /\ UNCHANGED chainVars

Next ==
    \E r \in Relayers :
      \/ \E src \in Chains : ConnectionInit(r, src)
      \/ ConnectionTry(r) \/ ConnectionAck(r)
      \/ \E src \in Chains, connection \in 1 .. MaxConnections, src_port, dst_port \in Ports,
            order \in Orders, version \in Versions :
           ChannelInit(r, src, connection, src_port, dst_port, order, version)
      \/ \E version \in Versions : ChannelTry(r, version)
      \/ ChannelAck(r) \/ ChannelConfirm(r)
      \/ Abandon(r)
      \/ \E s \in Relayers : Repeat(r, s)

Spec == Init /\ [][Next]_vars

-----------------------------------------------------------------------------
EndOrNone == Ports \X (Channels \cup {None})
Handshakes == [remote : EndOrNone, state : {"Init", "Try"}, version : Versions,
               order : Orders, connection : 1 .. MaxConnections]
IbcChannels == [counterparty : Ends, order : Orders, version : Versions,
                connection : 1 .. MaxConnections]

ASSUME HandshakeNone == None \notin Handshakes /\ None \notin IbcChannels

\* The storage maps hold what their types say, and a channel id that is still to
\* be given out by PORT_INFO is not in use.
TypeOK ==
    /\ connections \in [Chains -> Seq([chain : Chains,
                                      counterparty : 1 .. MaxConnections \cup {None}])]
    /\ next_channel_id \in [Chains -> [Ports -> 1 .. MaxChannels + 1]]
    /\ CHANNEL_HANDSHAKE_INFO \in [Chains -> [Ends -> Handshakes \cup {None}]]
    /\ CHANNEL_INFO \in [Chains -> [Ends -> IbcChannels \cup {None}]]
    /\ \A c \in Chains, e \in Ends :
         (CHANNEL_HANDSHAKE_INFO[c][e] # None \/ CHANNEL_INFO[c][e] # None)
           <=> e[2] < next_channel_id[c][e[1]]

\* One of two connections was created for the other.
Linked(c, i, j) ==
    \/ connections[c][i].counterparty = j
    \/ connections[Other(c)][j].counterparty = i

\* create_connection overwrites a counterparty without a look at the one there was, nor
\* at the other chain: calls that are repeated or mixed let two connections name one and
\* the same.  Even so every counterparty is a connection of the other chain, and whoever
\* follows them, as create_channel does for its try, comes to two that name each other or
\* to one that has no counterparty yet, never to a connection that went to a third.
CounterpartiesLeadBack ==
    \A c \in Chains : \A i \in DOMAIN connections[c] :
      LET j == connections[c][i].counterparty
          k == connections[Other(c)][j].counterparty
      IN  j # None =>
            /\ j \in DOMAIN connections[Other(c)]
            /\ k # None => k \in DOMAIN connections[c] /\ connections[c][k].counterparty = j

\* What connect_channel establishes: the other end is established too, or waits for
\* its confirmation, and it is the other end of this one, with the same order and
\* version, over connections of which one at least names the other.
EndsAgree ==
    \A c \in Chains, e \in Ends :
      LET this == CHANNEL_INFO[c][e]
          that == CHANNEL_INFO[Other(c)][this.counterparty]
          waiting == CHANNEL_HANDSHAKE_INFO[Other(c)][this.counterparty]
      IN  this # None =>
            \/ /\ that # None
               /\ that.counterparty = e
               /\ that.order = this.order /\ that.version = this.version
               /\ Linked(c, this.connection, that.connection)
            \/ /\ waiting # None
               /\ waiting.state = "Try" /\ waiting.remote = e
               /\ waiting.order = this.order /\ waiting.version = this.version
               /\ Linked(c, this.connection, waiting.connection)

\* However often the calls of create_channel are made, an established channel is
\* not established anew: its packets would count from 1 again.
EstablishedForGood ==
    [][\A c \in Chains, e \in Ends :
         CHANNEL_INFO[c][e] # None => CHANNEL_INFO'[c][e] = CHANNEL_INFO[c][e]]_vars
=============================================================================
