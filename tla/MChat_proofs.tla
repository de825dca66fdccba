--------------------------- MODULE MChat_proofs ---------------------------
(***************************************************************************)
(* What holds of MChat for all streams and addresses: its types, that the  *)
(* strikes stay below the number at which the server would panic, that a   *)
(* line goes to admitted clients only and to all that are served, and, for *)
(* all thresholds that leave a ban longer than a strike counts, how long a *)
(* ban lasts and how many lines fit in a moment.                           *)
(***************************************************************************)
EXTENDS MChatHistory, Subsequences_proofs, TLAPS

Maps == [Addrs -> Client \cup {None}]

(* The messages of the channel, one kind at a time.                        *)
LEMMA HeadType ==
    ASSUME TypeOK, channel # << >>
    PROVE  /\ Head(channel) \in Messages
           /\ Tail(channel) \in Seq(Messages)
           /\ Head(channel).kind = "ClientConnected" => Head(channel).conn \in Conns
           /\ Head(channel).kind # "ClientConnected" => Head(channel).addr \in Addrs
<1>1. Head(channel) \in Messages /\ Tail(channel) \in Seq(Messages)
  BY DEF TypeOK
<1> QED
  BY <1>1 DEF Messages

(* Purging and disconnecting keep a map of clients a map of clients.       *)
LEMMA PurgedType ==
    ASSUME TypeOK
    PROVE  Purged \in Maps
  BY DEF TypeOK, Maps, Purged, Present

LEMMA DisconnectType ==
    ASSUME NEW map \in Maps, NEW gone
    PROVE  Disconnect(map, gone) \in Maps
<1>1. \A a \in Addrs : map[a] # None => [map[a] EXCEPT !.is_connected = FALSE] \in Client
  BY DEF Maps, Client
<1> QED
  BY <1>1 DEF Maps, Disconnect

LEMMA NewClientType ==
    ASSUME TypeOK, NEW c \in Conns
    PROVE  NewClient(c) \in Client
  BY NumbersAssumption DEF TypeOK, NewClient, Client

(* A panic leaves well-typed variables, whatever its reason.               *)
LEMMA PanicType ==
    ASSUME TypeOK, NEW why \in Panics, Panic(why)
    PROVE  TypeOK'
<1>1. peer' \in [Conns -> PeerStates]
  BY DEF TypeOK, Panic, PeerStates
<1>2. channel' \in Seq(Messages)
  BY DEF Panic
<1> QED
  BY <1>1, <1>2, NoneAssumption DEF TypeOK, Panic, Panics

LEMMA SendType ==
    ASSUME TypeOK, NEW m \in Messages, Send(m)
    PROVE  channel' \in Seq(Messages)
  BY DEF TypeOK, Send

LEMMA DistributeType ==
    ASSUME TypeOK, NEW map \in Maps, channel # << >>, Sender \in Addrs, Distribute(map)
    PROVE  /\ clients' \in Maps
           /\ broadcast' \in [from : Addrs, to : SUBSET Conns] \cup {None}
<1>1. \A a \in Audience(map) : map[a].stream \in Conns
  BY DEF Audience, Maps, Client
<1>2. clients' \in Maps
  BY DisconnectType DEF Distribute
<1> QED
  BY <1>1, <1>2 DEF Distribute

LEMMA WarnType ==
    ASSUME NEW map \in Maps, Warn(map)
    PROVE  clients' \in Maps /\ broadcast' = None
  BY DisconnectType DEF Warn

-----------------------------------------------------------------------------
LEMMA InitType == Init => TypeOK
  BY DEF Init, TypeOK, Panics, PeerStates, ThreadStates

(* The steps of the clients and of their threads.                          *)
LEMMA PeerStepType ==
    ASSUME TypeOK, NEW c \in Conns, Arrive(c) \/ PeerLeaves(c)
    PROVE  TypeOK'
<1>1. CASE Arrive(c)
  <2>1. channel' \in Seq(Messages)
    <3>1. Connected(c) \in Messages
      BY DEF Connected, Messages
    <3> QED
      BY <1>1, <3>1, SendType DEF Arrive, TypeOK
  <2>2. peer' \in [Conns -> PeerStates] /\ thread' \in [Conns -> ThreadStates]
    BY <1>1 DEF Arrive, TypeOK, PeerStates, ThreadStates
  <2> QED
    BY <1>1, <2>1, <2>2 DEF Arrive, TypeOK
<1>2. CASE PeerLeaves(c)
  <2>1. peer' \in [Conns -> PeerStates]
    BY <1>2 DEF PeerLeaves, PeerStep, TypeOK, PeerStates
  <2> QED
    BY <1>2, <2>1 DEF PeerLeaves, PeerStep, TypeOK
<1> QED
  BY <1>1, <1>2

LEMMA ClientLoopType ==
    ASSUME TypeOK, NEW c \in Conns, client_loop(c)
    PROVE  TypeOK'
<1>1. \A from, to : to \in ThreadStates /\ ReaderStep(c, from, to)
                      => thread' \in [Conns -> ThreadStates]
  BY DEF ReaderStep, TypeOK
<1>2. \A from, to : ReaderStep(c, from, to) /\ to \in ThreadStates
                      /\ channel' \in Seq(Messages) => TypeOK'
  BY <1>1 DEF ReaderStep, TypeOK
<1>3. PeerAddr[c] \in Addrs
  BY ConnsAssumption
<1>4. CASE ReaderStarts(c)
  BY <1>2, <1>4 DEF ReaderStarts, ThreadStates, TypeOK
<1>5. CASE ReadLine(c)
  <2>1. PICK text \in Texts : SendLine(c, text)
    BY <1>5 DEF ReadLine
  <2>2. [kind |-> "DistributeMessage", addr |-> PeerAddr[c], text |-> text] \in Messages
    BY <1>3 DEF Messages
  <2>3. channel' \in Seq(Messages)
    BY <2>1, <2>2, SendType DEF SendLine
  <2> QED
    BY <1>2, <1>5, <2>3 DEF ReadLine, ThreadStates
<1>6. CASE ReadEof(c)
  <2>1. [kind |-> "ClientDisconnected", addr |-> PeerAddr[c]] \in Messages
    BY <1>3 DEF Messages
  <2>2. channel' \in Seq(Messages)
    BY <1>6, <2>1, SendType DEF ReadEof
  <2> QED
    BY <1>2, <1>6, <2>2 DEF ReadEof, ThreadStates
<1>7. CASE SendEmpty(c)
  <2>1. [kind |-> "DistributeMessage", addr |-> PeerAddr[c], text |-> "eof"] \in Messages
    BY <1>3 DEF Messages, Texts
  <2>2. channel' \in Seq(Messages)
    BY <1>7, <2>1, SendType DEF SendEmpty, SendLine
  <2> QED
    BY <1>2, <1>7, <2>2 DEF SendEmpty, ThreadStates
<1>8. CASE ReaderFails(c)
  BY <1>2, <1>8 DEF ReaderFails, ThreadStates, TypeOK
<1> QED
  BY <1>4, <1>5, <1>6, <1>7, <1>8 DEF client_loop

(* The steps that wait for the guest.                                      *)
LEMMA DismissType ==
    ASSUME TypeOK, guest \in Conns, Dismiss,
           clients' \in Maps, ban_list' \in [Addrs -> Nat \cup {None}]
    PROVE  TypeOK'
<1>1. peer' \in [Conns -> PeerStates]
  BY DEF Dismiss, TypeOK, PeerStates
<1> QED
  BY <1>1 DEF Dismiss, TypeOK, Maps

LEMMA AdmitType ==
    ASSUME TypeOK, Admit
    PROVE  TypeOK'
<1>1. guest \in Conns /\ GuestAddr \in Addrs
  <2>1. server \in {"token", "name", "welcome"}
    BY DEF Admit, Authenticate, NoName, Named, Welcome
  <2> QED
    BY <2>1, ConnsAssumption DEF TypeOK, GuestAddr
<1>2. clients \in Maps /\ ban_list \in [Addrs -> Nat \cup {None}]
  BY DEF TypeOK, Maps
<1>3. CASE Authenticate
  <2>1. CASE server' = "name" /\ UNCHANGED <<now, channel, guest, clients, ban_list, peer, thread>>
              /\ broadcast' = None
    BY <1>1, <2>1, NoneAssumption DEF TypeOK
  <2>2. CASE Dismiss /\ UNCHANGED <<clients, ban_list>>
    BY <1>1, <1>2, <2>2, DismissType
  <2>3. CASE Panic("slice")
    BY <2>3, PanicType DEF Panics
  <2> QED
    BY <1>3, <2>1, <2>2, <2>3 DEF Authenticate
<1>4. CASE NoName
  <2>1. CASE Dismiss /\ UNCHANGED <<clients, ban_list>>
    BY <1>1, <1>2, <2>1, DismissType
  <2>2. CASE Panic("unwrap")
    BY <2>2, PanicType DEF Panics
  <2> QED
    BY <1>4, <2>1, <2>2 DEF NoName
<1>5. CASE Named
  <2> DEFINE client == clients[GuestAddr]
             strikes == ConnStrikes(client)
  <2>1. \A new \in Client : Register(new) => TypeOK'
    BY <1>1, NoneAssumption DEF Register, TypeOK
  <2>2. Present(GuestAddr) => client \in Client /\ strikes \in Nat
    BY <1>1, NumbersAssumption DEF TypeOK, Present, ConnStrikes, Client
  <2>3. CASE Register(NewClient(guest))
    BY <1>1, <2>1, <2>3, NewClientType
  <2>4. CASE Present(GuestAddr) /\ Panic("overflow")
    BY <2>4, PanicType DEF Panics
  <2>5. CASE Present(GuestAddr) /\ ~Overflows(strikes) /\ Register(Refreshed(client))
    <3>1. NewClient(guest) \in Client /\ strikes \in 0..MaxU8
      BY <1>1, <2>2, <2>5, NewClientType, NumbersAssumption DEF Overflows
    <3>2. Refreshed(client) \in Client
      BY <2>2, <2>5, <3>1 DEF Refreshed, Client
    <3> QED
      BY <2>1, <2>5, <3>2
  <2>6. CASE /\ Present(GuestAddr) /\ ~Overflows(strikes)
             /\ clients' = [clients EXCEPT ![GuestAddr].conn_strikes = strikes]
             /\ ban_list' = Ban(GuestAddr)
             /\ Dismiss
    <3>1. strikes \in 0..MaxU8
      BY <2>2, <2>6, NumbersAssumption DEF Overflows
    <3>2. [client EXCEPT !.conn_strikes = strikes] \in Client
      BY <2>2, <2>6, <3>1 DEF Client
    <3>3. clients' \in Maps
      BY <1>2, <2>6, <3>2 DEF Maps
    <3>4. ban_list' \in [Addrs -> Nat \cup {None}]
      BY <2>6 DEF Ban, TypeOK
    <3> QED
      BY <1>1, <2>6, <3>3, <3>4, DismissType
  <2> QED
    BY <1>5, <2>3, <2>4, <2>5, <2>6 DEF Named
<1>6. CASE Welcome
  <2>1. clients' \in Maps
    BY <1>2, <1>6, DisconnectType DEF Welcome
  <2>2. thread' \in [Conns -> ThreadStates]
    BY <1>1, <1>6 DEF Welcome, TypeOK, ThreadStates
  <2> QED
    BY <1>6, <2>1, <2>2 DEF Welcome, TypeOK, Maps
<1> QED
  BY <1>3, <1>4, <1>5, <1>6 DEF Admit

(* The steps that handle a message.                                        *)
LEMMA HandleType ==
    ASSUME TypeOK, channel # << >>, Handle,
           clients' \in Maps, ban_list' \in [Addrs -> Nat \cup {None}],
           broadcast' \in [from : Addrs, to : SUBSET Conns] \cup {None}
    PROVE  TypeOK'
  BY HeadType DEF Handle, TypeOK, Maps

LEMMA ReceiveType ==
    ASSUME TypeOK, Receive
    PROVE  TypeOK'
<1>1. channel # << >> /\ server = "receive" /\ guest = None
  BY DEF Receive, ReceiveConnected, BannedLine, LineOfStranger, LineOfClient,
         ReceiveDisconnected, Receives, TypeOK
<1>2. Purged \in Maps /\ ban_list \in [Addrs -> Nat \cup {None}]
  BY PurgedType DEF TypeOK
<1>3. Head(channel).kind # "ClientConnected" => Sender \in Addrs
  BY <1>1, HeadType DEF Sender
<1>4. \A a \in Addrs : Ban(a) \in [Addrs -> Nat \cup {None}]
  BY DEF Ban, TypeOK
<1>5. CASE ReceiveConnected
  <2>1. Head(channel).conn \in Conns
    BY <1>1, <1>5, HeadType DEF ReceiveConnected, Receives
  <2>2. CASE Panic("unwrap")
    BY <2>2, PanicType DEF Panics
  <2>3. CASE ~Panic("unwrap")
    BY <1>1, <1>2, <1>5, <2>1, <2>3, HeadType, NoneAssumption
       DEF ReceiveConnected, TypeOK, Maps
  <2> QED
    BY <2>2, <2>3
<1>6. CASE BannedLine
  <2>1. Sender \in Addrs
    BY <1>3, <1>6 DEF BannedLine, Receives
  <2>2. CASE Warn(Purged) /\ UNCHANGED ban_list
    BY <1>1, <1>2, <1>6, <2>2, WarnType, HandleType DEF BannedLine
  <2>3. CASE Distribute(Forgiven) /\ ban_list' = [ban_list EXCEPT ![Sender] = None]
    <3>1. Purged[Sender] # None => [Purged[Sender] EXCEPT !.msg_strikes = 0] \in Client
      BY <1>2, <2>1 DEF Maps, Client
    <3>2. Forgiven \in Maps
      BY <1>2, <3>1 DEF Forgiven, Maps
    <3>3. ban_list' \in [Addrs -> Nat \cup {None}]
      BY <1>2, <2>3
    <3> QED
      BY <1>1, <1>6, <2>1, <2>3, <3>2, <3>3, DistributeType, HandleType DEF BannedLine
  <2> QED
    BY <1>6, <2>2, <2>3 DEF BannedLine
<1>7. CASE LineOfStranger
  BY <1>1, <1>2, <1>7, HandleType DEF LineOfStranger
<1>8. CASE LineOfClient
  <2> DEFINE client == Purged[Sender]
             Spoken(strikes) ==
                 [Purged EXCEPT ![Sender] =
                    [client EXCEPT !.last_message = now, !.msg_strikes = strikes]]
  <2>1. Sender \in Addrs /\ client \in Client
    BY <1>2, <1>3, <1>8 DEF LineOfClient, Receives, Maps
  <2>2. \A strikes \in 0..3 : Spoken(strikes) \in Maps
    <3> SUFFICES ASSUME NEW strikes \in 0..3
                 PROVE  Spoken(strikes) \in Maps
      OBVIOUS
    <3>1. [client EXCEPT !.last_message = now, !.msg_strikes = strikes] \in Client
      BY <2>1 DEF Client, TypeOK
    <3> QED
      BY <1>2, <3>1 DEF Maps
  <2>3. client.msg_strikes \in 0..3
    BY <2>1 DEF Client
  <2>4. CASE Distribute(Spoken(client.msg_strikes)) /\ UNCHANGED ban_list /\ Handle
    BY <1>1, <1>2, <2>1, <2>2, <2>3, <2>4, DistributeType, HandleType
  <2>5. CASE /\ client.msg_strikes \in 0..1
             /\ Distribute(Spoken(client.msg_strikes + 1)) /\ UNCHANGED ban_list /\ Handle
    <3>1. client.msg_strikes + 1 \in 0..3
      BY <2>5
    <3> QED
      BY <1>1, <1>2, <2>1, <2>2, <2>5, <3>1, DistributeType, HandleType
  <2>6. CASE Warn(Spoken(3)) /\ ban_list' = Ban(Sender) /\ Handle
    BY <1>1, <1>4, <2>1, <2>2, <2>6, WarnType, HandleType
  <2>7. CASE Panic("strikes")
    BY <2>7, PanicType DEF Panics
  <2> HIDE DEF Spoken
  <2> QED
    BY <1>8, <2>4, <2>5, <2>6, <2>7 DEF LineOfClient, Spoken
<1>9. CASE ReceiveDisconnected
  BY <1>1, <1>2, <1>9, DisconnectType, HandleType DEF ReceiveDisconnected
<1> QED
  BY <1>5, <1>6, <1>7, <1>8, <1>9 DEF Receive

(* Every variable keeps its type, and the server has a guest in hand       *)
(* exactly while it prompts one.                                           *)
THEOREM TypeCorrect == Spec => []TypeOK
<1>1. TypeOK /\ [Next]_vars => TypeOK'
  <2> SUFFICES ASSUME TypeOK, [Next]_vars
               PROVE  TypeOK'
    OBVIOUS
  <2>1. CASE Tick
    BY <2>1 DEF Tick, TypeOK
  <2>2. CASE UNCHANGED vars
    BY <2>2 DEF vars, TypeOK
  <2> QED
    BY <2>1, <2>2, PeerStepType, ClientLoopType, ReceiveType, AdmitType DEF Next
<1> QED
  BY <1>1, InitType, PTL DEF Spec

-----------------------------------------------------------------------------
(* The strikes                                                             *)

Covered(map, bans) ==
    \A a \in Addrs : map[a] # None /\ map[a].msg_strikes = 3 => bans[a] # None

StrikesInv == TypeOK /\ StrikesCovered /\ NoStrikePanic

LEMMA PurgedCovered ==
    ASSUME StrikesCovered
    PROVE  Covered(Purged, ban_list)
  BY DEF Covered, Purged, StrikesCovered, Present, Banned

LEMMA DisconnectCovered ==
    ASSUME NEW map \in Maps, NEW gone, NEW bans, Covered(map, bans)
    PROVE  Covered(Disconnect(map, gone), bans)
<1> SUFFICES ASSUME NEW a \in Addrs, Disconnect(map, gone)[a] # None,
                    Disconnect(map, gone)[a].msg_strikes = 3
             PROVE  map[a] # None /\ map[a].msg_strikes = 3
  BY DEF Covered
<1>1. map[a] # None => map[a] \in Client
  BY DEF Maps
<1> QED
  BY <1>1 DEF Disconnect, Client

LEMMA CoveredIsStrikesCovered ==
    ASSUME Covered(clients', ban_list')
    PROVE  StrikesCovered'
  BY DEF Covered, StrikesCovered, Present, Banned

(* A panic empties the maps.                                               *)
LEMMA PanicStrikes ==
    ASSUME StrikesInv, NEW why \in Panics \ {"strikes"}, Panic(why)
    PROVE  StrikesCovered' /\ NoStrikePanic'
  BY DEF Panic, StrikesCovered, NoStrikePanic, Present

LEMMA DistributeStrikes ==
    ASSUME NEW map \in Maps, Covered(map, ban_list'), Distribute(map) \/ Warn(map)
    PROVE  StrikesCovered'
<1>1. Covered(clients', ban_list')
  BY DisconnectCovered DEF Distribute, Warn
<1> QED
  BY <1>1, CoveredIsStrikesCovered

LEMMA AdmitStrikes ==
    ASSUME StrikesInv, Admit
    PROVE  StrikesCovered' /\ NoStrikePanic'
<1>1. guest \in Conns /\ GuestAddr \in Addrs
  <2>1. server \in {"token", "name", "welcome"}
    BY DEF Admit, Authenticate, NoName, Named, Welcome
  <2> QED
    BY <2>1, ConnsAssumption DEF StrikesInv, TypeOK, GuestAddr
<1>2. clients \in Maps /\ Covered(clients, ban_list)
  BY DEF StrikesInv, TypeOK, Maps, Covered, StrikesCovered, Present, Banned
<1>3. CASE Authenticate \/ NoName
  <2>1. CASE UNCHANGED <<clients, ban_list>> /\ server' \in {"receive", "name"}
    BY <2>1 DEF StrikesInv, StrikesCovered, NoStrikePanic, Present, Banned
  <2>2. CASE Panic("slice") \/ Panic("unwrap")
    BY <2>2, PanicStrikes DEF Panics
  <2> QED
    BY <1>3, <2>1, <2>2 DEF Authenticate, NoName, Dismiss
<1>4. CASE Named
  <2> DEFINE client == clients[GuestAddr]
             strikes == ConnStrikes(client)
  <2>1. CASE Register(NewClient(guest))
    BY <1>1, <1>2, <2>1, CoveredIsStrikesCovered
       DEF Register, NewClient, Covered, Maps, NoStrikePanic
  <2>2. CASE Panic("overflow")
    BY <2>2, PanicStrikes DEF Panics
  <2>3. CASE Present(GuestAddr) /\ Register(Refreshed(client))
    <3>1. Refreshed(client).msg_strikes = client.msg_strikes
      BY DEF Refreshed, NewClient
    <3>2. Covered(clients', ban_list')
      BY <1>1, <1>2, <2>3, <3>1 DEF Register, Covered, Maps, Present
    <3> QED
      BY <2>3, <3>2, CoveredIsStrikesCovered DEF Register, NoStrikePanic
  <2>4. CASE /\ Present(GuestAddr)
             /\ clients' = [clients EXCEPT ![GuestAddr].conn_strikes = strikes]
             /\ ban_list' = Ban(GuestAddr)
             /\ Dismiss
    <3>1. ban_list'[GuestAddr] # None
      BY <1>1, <2>4, NoneAssumption DEF Ban, StrikesInv, TypeOK
    <3>2. \A a \in Addrs \ {GuestAddr} : clients'[a] = clients[a] /\ ban_list'[a] = ban_list[a]
      BY <1>1, <1>2, <2>4 DEF Ban, StrikesInv, TypeOK, Maps
    <3>3. Covered(clients', ban_list')
      BY <1>2, <3>1, <3>2 DEF Covered
    <3> QED
      BY <2>4, <3>3, CoveredIsStrikesCovered DEF Dismiss, NoStrikePanic
  <2> QED
    BY <1>4, <2>1, <2>2, <2>3, <2>4 DEF Named
<1>5. CASE Welcome
  <2>1. Covered(clients', ban_list')
    BY <1>2, <1>5, DisconnectCovered DEF Welcome
  <2> QED
    BY <1>5, <2>1, CoveredIsStrikesCovered DEF Welcome, NoStrikePanic
<1> QED
  BY <1>3, <1>4, <1>5 DEF Admit

LEMMA ReceiveStrikes ==
    ASSUME StrikesInv, Receive
    PROVE  StrikesCovered' /\ NoStrikePanic'
<1>1. channel # << >> /\ TypeOK /\ now \in Nat /\ ban_list \in [Addrs -> Nat \cup {None}]
  BY DEF StrikesInv, TypeOK, Receive, ReceiveConnected, BannedLine, LineOfStranger,
         LineOfClient, ReceiveDisconnected, Receives
<1>2. Purged \in Maps /\ Covered(Purged, ban_list)
  BY PurgedType, PurgedCovered DEF StrikesInv
<1>3. Head(channel).kind # "ClientConnected" => Sender \in Addrs
  BY <1>1, HeadType DEF Sender
<1>4. Handle => NoStrikePanic'
  BY DEF Handle, StrikesInv, NoStrikePanic
<1>5. CASE ReceiveConnected
  <2>1. CASE Panic("unwrap")
    BY <2>1, PanicStrikes DEF Panics
  <2>2. CASE ~Panic("unwrap")
    BY <1>2, <1>5, <2>2, CoveredIsStrikesCovered DEF ReceiveConnected, NoStrikePanic
  <2> QED
    BY <2>1, <2>2
<1>6. CASE BannedLine
  <2>1. Sender \in Addrs
    BY <1>3, <1>6 DEF BannedLine, Receives
  <2>2. CASE Warn(Purged) /\ UNCHANGED ban_list
    BY <1>2, <1>4, <1>6, <2>2, DistributeStrikes DEF BannedLine
  <2>3. CASE Distribute(Forgiven) /\ ban_list' = [ban_list EXCEPT ![Sender] = None]
    <3>1. Purged[Sender] # None => [Purged[Sender] EXCEPT !.msg_strikes = 0] \in Client
      BY <1>2, <2>1 DEF Maps, Client
    <3>2. Forgiven \in Maps
      BY <1>2, <3>1 DEF Forgiven, Maps
    <3>3. \A a \in Addrs \ {Sender} : Forgiven[a] = Purged[a] /\ ban_list'[a] = ban_list[a]
      BY <1>1, <1>2, <2>1, <2>3 DEF Forgiven, Maps
    <3>4. Forgiven[Sender] # None => Forgiven[Sender].msg_strikes = 0
      BY <1>2, <2>1 DEF Forgiven, Maps, Client
    <3>5. Covered(Forgiven, ban_list')
      BY <1>2, <3>3, <3>4 DEF Covered
    <3> QED
      BY <1>4, <1>6, <2>3, <3>2, <3>5, DistributeStrikes DEF BannedLine
  <2> QED
    BY <1>6, <2>2, <2>3 DEF BannedLine
<1>7. CASE LineOfStranger
  BY <1>2, <1>4, <1>7, CoveredIsStrikesCovered DEF LineOfStranger
<1>8. CASE LineOfClient
  <2> DEFINE client == Purged[Sender]
             Spoken(strikes) ==
                 [Purged EXCEPT ![Sender] =
                    [client EXCEPT !.last_message = now, !.msg_strikes = strikes]]
  <2>1. Sender \in Addrs /\ client \in Client /\ client # None /\ ~Banned(Sender)
    BY <1>2, <1>3, <1>8 DEF LineOfClient, Receives, Maps
  <2>2. client.msg_strikes \in 0..2
    <3>1. client.msg_strikes \in 0..3
      BY <2>1 DEF Client
    <3>2. client.msg_strikes # 3
      BY <1>2, <2>1 DEF Covered, Banned
    <3> QED
      BY <3>1, <3>2
  <2>3. ASSUME NEW strikes \in 0..3
        PROVE  /\ Spoken(strikes) \in Maps
               /\ Spoken(strikes)[Sender].msg_strikes = strikes
               /\ \A a \in Addrs \ {Sender} : Spoken(strikes)[a] = Purged[a]
    <3>1. /\ [client EXCEPT !.last_message = now, !.msg_strikes = strikes] \in Client
          /\ [client EXCEPT !.last_message = now, !.msg_strikes = strikes].msg_strikes = strikes
      BY <1>1, <2>1 DEF Client
    <3> QED
      BY <1>2, <2>1, <3>1 DEF Maps
  <2> HIDE DEF Spoken
  <2>4. ASSUME NEW strikes \in 0..2, Distribute(Spoken(strikes)), UNCHANGED ban_list, Handle
        PROVE  StrikesCovered' /\ NoStrikePanic'
    <3>1. Covered(Spoken(strikes), ban_list')
      BY <1>2, <2>3, <2>4 DEF Covered
    <3> QED
      BY <1>4, <2>3, <2>4, <3>1, DistributeStrikes
  <2>5. CASE Warn(Spoken(3)) /\ ban_list' = Ban(Sender) /\ Handle
    <3>1. ban_list'[Sender] # None
          /\ \A a \in Addrs \ {Sender} : ban_list'[a] = ban_list[a]
      BY <1>1, <2>1, <2>5, NoneAssumption DEF Ban
    <3>2. Covered(Spoken(3), ban_list')
      BY <1>2, <2>3, <3>1 DEF Covered
    <3> QED
      BY <1>4, <2>3, <2>5, <3>2, DistributeStrikes
  <2>6. client.msg_strikes \in 0..1 => client.msg_strikes + 1 \in 0..2
    OBVIOUS
  <2>7. client.msg_strikes \notin 0..1 => client.msg_strikes = 2
    BY <2>2
  <2> QED
    BY <1>8, <2>2, <2>4, <2>5, <2>6, <2>7 DEF LineOfClient, Spoken
<1>9. CASE ReceiveDisconnected
  BY <1>2, <1>4, <1>9, DisconnectCovered, CoveredIsStrikesCovered DEF ReceiveDisconnected
<1> QED
  BY <1>5, <1>6, <1>7, <1>8, <1>9 DEF Receive

LEMMA StrikesInductive == Spec => []StrikesInv
<1>1. Init => StrikesInv
  BY InitType DEF Init, StrikesInv, StrikesCovered, NoStrikePanic, Present
<1>2. StrikesInv /\ [Next]_vars => StrikesCovered' /\ NoStrikePanic'
  <2> SUFFICES ASSUME StrikesInv, [Next]_vars
               PROVE  StrikesCovered' /\ NoStrikePanic'
    OBVIOUS
  <2>1. CASE UNCHANGED <<clients, ban_list, server>>
    BY <2>1 DEF StrikesInv, StrikesCovered, NoStrikePanic, Present, Banned
  <2>2. CASE Tick \/ (\E c \in Conns : Arrive(c) \/ PeerLeaves(c) \/ client_loop(c))
    BY <2>1, <2>2 DEF Tick, Arrive, PeerLeaves, PeerStep, client_loop, ReaderStarts,
       ReadLine, ReadEof, SendEmpty, ReaderFails, ReaderStep
  <2>3. CASE UNCHANGED vars
    BY <2>1, <2>3 DEF vars
  <2> QED
    BY <2>2, <2>3, AdmitStrikes, ReceiveStrikes DEF Next
<1>3. Spec => []TypeOK
  BY TypeCorrect
<1>4. StrikesInv /\ [Next]_vars /\ TypeOK' => StrikesInv'
  BY <1>2 DEF StrikesInv
<1> QED
  BY <1>1, <1>3, <1>4, PTL DEF Spec

(* Three strikes without a ban do not occur, whatever purges,              *)
(* reconnections and lifted bans come in between                           *)
(* (is_allowed_to_send_msg) ...                                            *)
THEOREM StrikesAlwaysCovered == Spec => []StrikesCovered
<1>1. StrikesInv => StrikesCovered
  BY DEF StrikesInv
<1> QED
  BY <1>1, StrikesInductive, PTL

(* ... and so the panic of main.rs:185 does not either: it needs three     *)
(* strikes and no ban.                                                     *)
THEOREM NeverAFourthStrike == Spec => []NoStrikePanic
<1>1. StrikesInv => NoStrikePanic
  BY DEF StrikesInv
<1> QED
  BY <1>1, StrikesInductive, PTL

-----------------------------------------------------------------------------
(* The audience                                                            *)

(* A record is that of the stream's own address; and a connected one is of *)
(* a stream with a thread, or of the guest that is about to be given one.  *)
Seated ==
    \A a \in Addrs :
        Present(a) =>
            /\ PeerAddr[clients[a].stream] = a
            /\ clients[a].is_connected =>
                  \/ thread[clients[a].stream] # "none"
                  \/ server = "welcome" /\ guest = clients[a].stream

AudienceInv == TypeOK /\ Seated /\ AudienceAdmitted

(* Nobody is seated anew: records go, or are disconnected.                 *)
Follows(map) ==
    \A a \in Addrs :
        map[a] # None =>
            /\ clients[a] # None /\ map[a].stream = clients[a].stream
            /\ map[a].is_connected => clients[a].is_connected

LEMMA PurgedFollows == Follows(Purged)
  BY DEF Follows, Purged, Present

LEMMA DisconnectFollows ==
    ASSUME NEW map \in Maps, NEW gone, Follows(map)
    PROVE  Follows(Disconnect(map, gone))
<1> SUFFICES ASSUME NEW a \in Addrs, Disconnect(map, gone)[a] # None
             PROVE  /\ map[a] # None /\ Disconnect(map, gone)[a].stream = map[a].stream
                    /\ Disconnect(map, gone)[a].is_connected => map[a].is_connected
  BY DEF Follows
<1>1. map[a] # None => map[a] \in Client
  BY DEF Maps
<1>2. map[a] # None
  BY DEF Disconnect
<1>3. Disconnect(map, gone)[a] \in {map[a], [map[a] EXCEPT !.is_connected = FALSE]}
  BY DEF Disconnect
<1>4. /\ [map[a] EXCEPT !.is_connected = FALSE].stream = map[a].stream
      /\ [map[a] EXCEPT !.is_connected = FALSE].is_connected = FALSE
  BY <1>1, <1>2 DEF Client
<1> QED
  BY <1>2, <1>3, <1>4

(* The seats stay as long as no thread of a seated stream is forgotten and *)
(* a guest with a seat is not let go.                                      *)
LEMMA StillSeated ==
    ASSUME Seated, Follows(clients'),
           server = "welcome" => server' = "welcome" /\ guest' = guest,
           \A a \in Addrs : Present(a) /\ thread[clients[a].stream] # "none" =>
                               thread'[clients[a].stream] # "none"
    PROVE  Seated'
<1> SUFFICES ASSUME NEW a \in Addrs, clients'[a] # None
             PROVE  /\ PeerAddr[clients'[a].stream] = a
                    /\ clients'[a].is_connected =>
                          \/ thread'[clients'[a].stream] # "none"
                          \/ server' = "welcome" /\ guest' = clients'[a].stream
  BY DEF Seated, Present
<1>1. /\ clients[a] # None /\ clients'[a].stream = clients[a].stream
      /\ clients'[a].is_connected => clients[a].is_connected
  BY DEF Follows
<1> QED
  BY <1>1 DEF Seated, Present

LEMMA SameFollow ==
    ASSUME UNCHANGED clients
    PROVE  Follows(clients')
  BY DEF Follows

LEMMA PanicSeated ==
    ASSUME NEW why, Panic(why)
    PROVE  Seated' /\ AudienceAdmitted'
  BY DEF Panic, Seated, Present, AudienceAdmitted

(* Who is connected in the map that is distributed over has a thread.      *)
LEMMA DistributeAdmitted ==
    ASSUME AudienceInv, NEW map \in Maps, Follows(map), Distribute(map) \/ Warn(map),
           server = "receive", UNCHANGED <<server, guest, thread>>
    PROVE  Seated' /\ AudienceAdmitted'
<1>1. Follows(clients')
  BY DisconnectFollows DEF Distribute, Warn
<1>2. Seated'
  BY <1>1, StillSeated DEF AudienceInv
<1>3. CASE broadcast' = None
  BY <1>2, <1>3 DEF AudienceAdmitted
<1>4. CASE broadcast' # None
  <2> DEFINE failed == {a \in Audience(map) : ~Writable(map[a].stream)}
  <2>1. Distribute(map) /\ map[Sender] # None
    BY <1>4 DEF Distribute, Warn
  <2>2. broadcast' = [from |-> Sender,
                      to |-> {map[a].stream : a \in Audience(map) \ failed}]
    BY <2>1 DEF Distribute
  <2>3. ASSUME NEW a \in Audience(map)
        PROVE  thread[map[a].stream] # "none" /\ PeerAddr[map[a].stream] # Sender
    <3>1. a \in Addrs \ {Sender} /\ map[a] # None /\ map[a].is_connected
      BY DEF Audience
    <3>2. /\ Present(a) /\ map[a].stream = clients[a].stream
          /\ clients[a].is_connected
      BY <3>1 DEF Follows, Present
    <3> QED
      BY <3>1, <3>2 DEF AudienceInv, Seated
  <2>4. \A c \in broadcast'.to : thread[c] # "none" /\ PeerAddr[c] # broadcast'.from
    <3> HIDE DEF failed
    <3> QED
      BY <2>2, <2>3
  <2> QED
    BY <1>2, <2>4 DEF AudienceAdmitted
<1> QED
  BY <1>3, <1>4

LEMMA ReceiveAdmitted ==
    ASSUME AudienceInv, Receive
    PROVE  Seated' /\ AudienceAdmitted'
<1>1. /\ channel # << >> /\ TypeOK /\ server = "receive" /\ Purged \in Maps
      /\ Follows(Purged)
  BY PurgedType, PurgedFollows
     DEF AudienceInv, Receive, ReceiveConnected, BannedLine, LineOfStranger,
         LineOfClient, ReceiveDisconnected, Receives
<1>2. Head(channel).kind # "ClientConnected" => Sender \in Addrs
  BY <1>1, HeadType DEF Sender
<1>3. ASSUME Handle, Follows(clients'), broadcast' = None
      PROVE  Seated' /\ AudienceAdmitted'
  BY <1>1, <1>3, StillSeated DEF AudienceInv, AudienceAdmitted, Handle
<1>4. ASSUME Handle, NEW map \in Maps, Follows(map), Distribute(map) \/ Warn(map)
      PROVE  Seated' /\ AudienceAdmitted'
  BY <1>1, <1>4, DistributeAdmitted DEF Handle
<1>5. CASE ReceiveConnected
  <2>1. CASE Panic("unwrap")
    BY <2>1, PanicSeated
  <2>2. CASE ~Panic("unwrap")
    <3>1. clients' = Purged /\ broadcast' = None /\ UNCHANGED thread
      BY <1>5, <2>2 DEF ReceiveConnected
    <3> QED
      BY <1>1, <3>1, StillSeated DEF AudienceInv, AudienceAdmitted
  <2> QED
    BY <2>1, <2>2
<1>6. CASE BannedLine
  <2>1. CASE Warn(Purged)
    BY <1>1, <1>4, <1>6, <2>1 DEF BannedLine
  <2>2. CASE Distribute(Forgiven)
    <3>1. Sender \in Addrs
      BY <1>2, <1>6 DEF BannedLine, Receives
    <3>2. Purged[Sender] # None =>
             LET client == [Purged[Sender] EXCEPT !.msg_strikes = 0] IN
             /\ client \in Client /\ client.stream = Purged[Sender].stream
             /\ client.is_connected = Purged[Sender].is_connected
      BY <1>1, <3>1 DEF Maps, Client
    <3>3. Forgiven \in Maps /\ Follows(Forgiven)
      BY <1>1, <3>1, <3>2 DEF Forgiven, Maps, Follows
    <3> QED
      BY <1>4, <1>6, <2>2, <3>3 DEF BannedLine
  <2> QED
    BY <1>6, <2>1, <2>2 DEF BannedLine
<1>7. CASE LineOfStranger
  BY <1>1, <1>3, <1>7 DEF LineOfStranger
<1>8. CASE LineOfClient
  <2> DEFINE client == Purged[Sender]
             Spoken(strikes) ==
                 [Purged EXCEPT ![Sender] =
                    [client EXCEPT !.last_message = now, !.msg_strikes = strikes]]
  <2>1. Sender \in Addrs /\ client \in Client /\ client # None
    BY <1>1, <1>2, <1>8 DEF LineOfClient, Receives, Maps
  <2>2. ASSUME NEW strikes \in 0..3
        PROVE  Spoken(strikes) \in Maps /\ Follows(Spoken(strikes))
    <3> DEFINE noted == [client EXCEPT !.last_message = now, !.msg_strikes = strikes]
    <3>1. /\ noted \in Client /\ noted.stream = client.stream
          /\ noted.is_connected = client.is_connected
      BY <1>1, <2>1 DEF Client, TypeOK
    <3> HIDE DEF noted
    <3>2. Spoken(strikes) \in Maps
      BY <1>1, <2>1, <3>1 DEF Maps, noted
    <3>3. \A a \in Addrs : Spoken(strikes)[a] = IF a = Sender THEN noted ELSE Purged[a]
      BY <1>1, <2>1 DEF Maps, noted
    <3>4. Follows(Spoken(strikes))
      <4> HIDE DEF Spoken
      <4> QED
        BY <1>1, <2>1, <3>1, <3>3 DEF Follows
    <3> QED
      BY <3>2, <3>4
  <2> HIDE DEF Spoken
  <2>3. client.msg_strikes \in 0..3
    BY <2>1 DEF Client
  <2>4. client.msg_strikes \in 0..1 => client.msg_strikes + 1 \in 0..3
    OBVIOUS
  <2>5. ASSUME Handle, NEW strikes \in 0..3,
               Distribute(Spoken(strikes)) \/ Warn(Spoken(strikes))
        PROVE  Seated' /\ AudienceAdmitted'
    BY <1>4, <2>2, <2>5
  <2>6. CASE Panic("strikes")
    BY <2>6, PanicSeated
  <2>7. \/ /\ Handle
           /\ \/ Distribute(Spoken(client.msg_strikes))
              \/ /\ client.msg_strikes \in 0..1
                 /\ Distribute(Spoken(client.msg_strikes + 1))
              \/ Warn(Spoken(3))
        \/ Panic("strikes")
    BY <1>8 DEF LineOfClient, Spoken
  <2> HIDE DEF client
  <2>8. 3 \in 0..3
    OBVIOUS
  <2> QED
    BY <2>3, <2>4, <2>5, <2>6, <2>7, <2>8
<1>9. CASE ReceiveDisconnected
  BY <1>1, <1>3, <1>9, DisconnectFollows DEF ReceiveDisconnected
<1> QED
  BY <1>5, <1>6, <1>7, <1>8, <1>9 DEF Receive

(* The guest takes the seat of its own address.                            *)
LEMMA RegisterSeated ==
    ASSUME AudienceInv, guest \in Conns, server # "welcome",
           NEW client, Register(client), client.stream = guest
    PROVE  Seated'
<1>1. GuestAddr \in Addrs /\ clients \in Maps
  BY ConnsAssumption DEF AudienceInv, TypeOK, GuestAddr, Maps
<1>2. /\ clients'[GuestAddr] = client
      /\ \A a \in Addrs \ {GuestAddr} : clients'[a] = clients[a]
  BY <1>1 DEF Register, Maps
<1>3. server' = "welcome" /\ UNCHANGED <<guest, thread>>
  BY DEF Register
<1> QED
  BY <1>2, <1>3 DEF AudienceInv, Seated, Present, GuestAddr

LEMMA AdmitAdmitted ==
    ASSUME AudienceInv, Admit
    PROVE  Seated' /\ AudienceAdmitted'
<1>1. guest \in Conns /\ GuestAddr \in Addrs /\ clients \in Maps
  <2>1. server \in {"token", "name", "welcome"}
    BY DEF Admit, Authenticate, NoName, Named, Welcome
  <2> QED
    BY <2>1, ConnsAssumption DEF AudienceInv, TypeOK, GuestAddr, Maps
<1>2. broadcast' = None
  BY DEF Admit, Authenticate, NoName, Named, Welcome, Dismiss, Register, Panic
<1>3. AudienceAdmitted'
  BY <1>2 DEF AudienceAdmitted
<1>4. CASE Authenticate \/ NoName
  <2>1. CASE UNCHANGED <<clients, thread>> /\ server # "welcome"
    BY <1>3, <2>1, StillSeated, SameFollow DEF AudienceInv
  <2>2. CASE Panic("slice") \/ Panic("unwrap")
    BY <2>2, PanicSeated
  <2> QED
    BY <1>2, <1>4, <2>1, <2>2 DEF Authenticate, NoName, Dismiss, AudienceAdmitted
<1>5. CASE Named
  <2> DEFINE client == clients[GuestAddr]
             strikes == ConnStrikes(client)
  <2>1. server # "welcome"
    BY <1>5 DEF Named
  <2>2. CASE Register(NewClient(guest))
    <3>1. NewClient(guest).stream = guest
      BY DEF NewClient
    <3> QED
      BY <1>1, <1>3, <2>1, <2>2, <3>1, RegisterSeated
  <2>3. CASE Panic("overflow")
    BY <2>3, PanicSeated
  <2>4. CASE Register(Refreshed(client))
    <3>1. Refreshed(client).stream = guest
      BY DEF Refreshed, NewClient
    <3> QED
      BY <1>1, <1>3, <2>1, <2>4, <3>1, RegisterSeated
  <2>5. CASE /\ Present(GuestAddr)
             /\ clients' = [clients EXCEPT ![GuestAddr].conn_strikes = strikes]
             /\ Dismiss
    <3>1. Follows(clients')
      BY <1>1, <2>5 DEF Follows, Maps, Client, Present
    <3>2. UNCHANGED thread
      BY <2>5 DEF Dismiss
    <3> QED
      BY <1>3, <2>1, <3>1, <3>2, StillSeated DEF AudienceInv
  <2> QED
    BY <1>5, <2>2, <2>3, <2>4, <2>5 DEF Named
<1>6. CASE Welcome
  <2>1. Follows(clients')
    BY <1>1, <1>6, SameFollow, DisconnectFollows DEF Welcome, Follows
  <2> SUFFICES ASSUME NEW a \in Addrs, clients'[a] # None
               PROVE  /\ PeerAddr[clients'[a].stream] = a
                      /\ clients'[a].is_connected => thread'[clients'[a].stream] # "none"
    BY <1>2 DEF Seated, Present, AudienceAdmitted
  <2>2. /\ clients[a] # None /\ clients'[a].stream = clients[a].stream
        /\ clients'[a].is_connected => clients[a].is_connected
    BY <2>1 DEF Follows
  <2>3. /\ PeerAddr[clients[a].stream] = a
        /\ clients[a].is_connected => \/ thread[clients[a].stream] # "none"
                                      \/ guest = clients[a].stream
    BY <2>2 DEF AudienceInv, Seated, Present
  <2>4. thread \in [Conns -> ThreadStates] /\ clients[a] \in Client
    BY <1>1, <2>2 DEF AudienceInv, TypeOK, Maps
  <2>5. CASE Writable(guest)
    <3>1. clients[a].stream \in Conns /\ thread' = [thread EXCEPT ![guest] = "starting"]
      BY <1>6, <2>4, <2>5 DEF Welcome, Client
    <3> QED
      BY <1>1, <2>2, <2>3, <2>4, <3>1
  <2>6. CASE ~Writable(guest)
    <3>1. clients' = Disconnect(clients, {GuestAddr}) /\ UNCHANGED thread
      BY <1>6, <2>6 DEF Welcome
    <3>2. a = GuestAddr => clients'[a].is_connected = FALSE
      BY <2>2, <2>4, <3>1 DEF Disconnect, Client
    <3> QED
      BY <2>2, <2>3, <3>1, <3>2 DEF GuestAddr
  <2> QED
    BY <2>5, <2>6
<1> QED
  BY <1>4, <1>5, <1>6 DEF Admit

(* A name of a stream is used anew only when nobody is seated under it.    *)
LEMMA NetworkAdmitted ==
    ASSUME AudienceInv, NEW c \in Conns, Arrive(c) \/ PeerLeaves(c) \/ client_loop(c)
    PROVE  Seated' /\ AudienceAdmitted'
<1>1. UNCHANGED <<clients, server, guest>> /\ broadcast' = None
  BY DEF Arrive, PeerLeaves, PeerStep, client_loop, ReaderStarts, ReadLine, ReadEof,
         SendEmpty, ReaderFails, ReaderStep
<1>2. thread \in [Conns -> ThreadStates]
  BY DEF AudienceInv, TypeOK
<1>3. CASE Arrive(c)
  <2>1. \A a \in Addrs : Present(a) => clients[a].stream # c
    BY <1>3 DEF Arrive, Unused
  <2>2. ASSUME NEW a \in Addrs, Present(a)
        PROVE  clients[a].stream \in Conns
    BY <2>2 DEF AudienceInv, TypeOK, Client, Present
  <2>3. thread' = [thread EXCEPT ![c] = "none"]
    BY <1>3 DEF Arrive
  <2> QED
    BY <1>1, <1>2, <2>1, <2>2, <2>3, StillSeated, SameFollow
       DEF AudienceInv, AudienceAdmitted
<1>4. CASE PeerLeaves(c) \/ client_loop(c)
  <2>1. \/ UNCHANGED thread
        \/ \E to \in ThreadStates \ {"none"} : thread' = [thread EXCEPT ![c] = to]
    BY <1>4 DEF PeerLeaves, PeerStep, client_loop, ReaderStarts, ReadLine, ReadEof,
         SendEmpty, ReaderFails, ReaderStep, ThreadStates
  <2>2. \A d \in Conns : thread[d] # "none" => thread'[d] # "none"
    BY <1>2, <2>1
  <2>3. ASSUME NEW a \in Addrs, Present(a)
        PROVE  clients[a].stream \in Conns
    BY <2>3 DEF AudienceInv, TypeOK, Client, Present
  <2> QED
    BY <1>1, <2>2, <2>3, StillSeated, SameFollow DEF AudienceInv, AudienceAdmitted
<1> QED
  BY <1>3, <1>4

(* A line never reaches a stream that is not admitted, nor comes back to   *)
(* its sender, for any streams, addresses and thresholds                   *)
(* (distribute_to_all_clients).                                            *)
THEOREM OnlyAdmittedHear == Spec => []AudienceAdmitted
<1>1. Init => AudienceInv
  BY InitType DEF Init, AudienceInv, Seated, Present, AudienceAdmitted
<1>2. AudienceInv /\ [Next]_vars => Seated' /\ AudienceAdmitted'
  <2> SUFFICES ASSUME AudienceInv, [Next]_vars
               PROVE  Seated' /\ AudienceAdmitted'
    OBVIOUS
  <2>1. CASE Tick
    BY <2>1, StillSeated, SameFollow DEF Tick, AudienceInv, AudienceAdmitted
  <2>2. CASE UNCHANGED vars
    BY <2>2 DEF vars, AudienceInv, Seated, Present, AudienceAdmitted
  <2> QED
    BY <2>1, <2>2, NetworkAdmitted, ReceiveAdmitted, AdmitAdmitted DEF Next
<1>3. Spec => []TypeOK
  BY TypeCorrect
<1>4. AudienceInv /\ [Next]_vars /\ TypeOK' => AudienceInv'
  BY <1>2 DEF AudienceInv
<1>5. AudienceInv => AudienceAdmitted
  BY DEF AudienceInv
<1> QED
  BY <1>1, <1>3, <1>4, <1>5, PTL DEF Spec

-----------------------------------------------------------------------------
(* Who is served                                                           *)

(* The record at its address is that of c, and connected.                  *)
Owns(map, c) ==
    /\ map[PeerAddr[c]] # None
    /\ map[PeerAddr[c]].stream = c
    /\ map[PeerAddr[c]].is_connected

(* The thread of a stream at its end goes on speaking for the address.     *)
Speaks(d) == thread[d] \in {"leaving", "ghost"}

InNetwork == {"open", "closed"}

(* Of two streams of an address one at most is still in the network.       *)
OneInNetwork ==
    \A c, d \in Conns :
        c # d /\ PeerAddr[c] = PeerAddr[d] /\ peer[c] \in InNetwork => peer[d] \notin InNetwork

(* A stream that waits in the channel or is the guest has no thread yet    *)
(* and has not been let go of.                                             *)
Waiting ==
    \A c \in Conns :
        c = guest \/ InChannel(c) => thread[c] = "none" /\ peer[c] \notin {"away", "dropped"}

(* It waits once.                                                          *)
WaitsOnce ==
    /\ guest # None => ~InChannel(guest)
    /\ \A i, j \in 1..Len(channel) :
          channel[i].kind = "ClientConnected" /\ channel[i] = channel[j] => i = j

(* Who has announced the end of a stream is still there.                   *)
Announced ==
    ~Panicked =>
        \A i \in 1..Len(channel) :
            channel[i].kind = "ClientDisconnected" =>
                \E d \in Conns : PeerAddr[d] = channel[i].addr /\ Speaks(d)

Welcomed == server = "welcome" => Owns(clients, guest)

Live(c) == thread[c] \in {"starting", "reading"} /\ peer[c] = "open"

Served ==
    ~Panicked => \A c \in Conns : Live(c) => Owns(clients, c) \/ \E d \in Conns : PeerAddr[d] = PeerAddr[c] /\ Speaks(d)

ServedParts == OneInNetwork /\ Waiting /\ WaitsOnce /\ Announced /\ Welcomed /\ Served

ServedInv == TypeOK /\ ServedParts

(* A message put behind the others                                         *)
LEMMA Appended ==
    ASSUME TypeOK, NEW m \in Messages, channel' = Append(channel, m)
    PROVE  /\ Len(channel) \in Nat /\ Len(channel') = Len(channel) + 1
           /\ channel'[Len(channel) + 1] = m
           /\ \A i \in 1..Len(channel) : channel'[i] = channel[i]
  BY DEF TypeOK

LEMMA Received ==
    ASSUME TypeOK, channel # << >>, channel' = Tail(channel)
    PROVE  /\ Len(channel) \in Nat \ {0} /\ Len(channel') = Len(channel) - 1
           /\ Head(channel) = channel[1]
           /\ \A i \in 1..Len(channel') : channel'[i] = channel[i + 1]
  BY DEF TypeOK

(* What the clients, their threads and the clock do: nobody comes back     *)
(* into the network, is admitted or forgotten.                             *)
Quiet ==
    /\ UNCHANGED <<clients, server, guest>>
    /\ \A d \in Conns :
          /\ peer'[d] \in InNetwork => peer[d] \in InNetwork
          /\ peer'[d] = "open" => peer[d] = "open"
          /\ peer'[d] \in {"away", "dropped"} => peer[d] \in {"away", "dropped"}
          /\ thread[d] = "none" => thread'[d] = "none"
          /\ thread'[d] \in {"starting", "reading"} => thread[d] \in {"starting", "reading"}
          /\ ~Panicked /\ thread[d] \in {"leaving", "ghost"} => thread'[d] \in {"leaving", "ghost"}
    /\ \/ UNCHANGED channel
       \/ \E m \in Messages :
             /\ channel' = Append(channel, m) /\ m.kind # "ClientConnected"
             /\ m.kind = "ClientDisconnected" =>
                   \E d \in Conns : PeerAddr[d] = m.addr /\ thread'[d] = "leaving"

LEMMA QuietServed ==
    ASSUME ServedInv, Quiet
    PROVE  ServedParts'
<1>1. \A c \in Conns : InChannel(c)' <=> InChannel(c)
  <2>1. CASE UNCHANGED channel
    BY <2>1 DEF InChannel
  <2>2. ASSUME NEW m \in Messages, channel' = Append(channel, m), m.kind # "ClientConnected"
        PROVE  \A c \in Conns : InChannel(c)' <=> InChannel(c)
    BY <2>2, Appended DEF ServedInv, InChannel, Connected
  <2> QED
    BY <2>1, <2>2 DEF Quiet
<1>2. \A d \in Conns : ~Panicked /\ Speaks(d) => Speaks(d)'
  BY DEF Quiet, Speaks
<1>3. OneInNetwork' /\ Waiting'
  BY <1>1 DEF ServedInv, ServedParts, OneInNetwork, Waiting, Quiet
<1>4. WaitsOnce'
  <2>1. CASE UNCHANGED channel
    BY <1>1, <2>1, NoneAssumption DEF ServedInv, ServedParts, WaitsOnce, Quiet, TypeOK
  <2>2. ASSUME NEW m \in Messages, channel' = Append(channel, m), m.kind # "ClientConnected"
        PROVE  WaitsOnce'
    <3>1. /\ Len(channel) \in Nat /\ Len(channel') = Len(channel) + 1
          /\ channel'[Len(channel) + 1] = m
          /\ \A i \in 1..Len(channel) : channel'[i] = channel[i]
      BY <2>2, Appended DEF ServedInv
    <3>2. ASSUME NEW i \in 1..Len(channel'), NEW j \in 1..Len(channel'),
                 channel'[i].kind = "ClientConnected", channel'[i] = channel'[j]
          PROVE  i = j
      <4>1. i # Len(channel) + 1 /\ j # Len(channel) + 1
        BY <2>2, <3>1, <3>2
      <4>2. i \in 1..Len(channel) /\ j \in 1..Len(channel)
        BY <3>1, <4>1
      <4>3. channel[i].kind = "ClientConnected" /\ channel[i] = channel[j]
        BY <3>1, <3>2, <4>2
      <4> QED
        BY <4>2, <4>3 DEF ServedInv, ServedParts, WaitsOnce
    <3>3. guest' # None => ~InChannel(guest)'
      BY <1>1, NoneAssumption DEF ServedInv, ServedParts, WaitsOnce, Quiet, TypeOK
    <3> QED
      BY <3>2, <3>3 DEF WaitsOnce
  <2> QED
    BY <2>1, <2>2 DEF Quiet
<1>5. Announced'
  <2> SUFFICES ASSUME ~Panicked, NEW i \in 1..Len(channel'),
                      channel'[i].kind = "ClientDisconnected"
               PROVE  \E d \in Conns : PeerAddr[d] = channel'[i].addr /\ Speaks(d)'
    BY DEF Announced, Quiet, Panicked
  <2>1. CASE i \in 1..Len(channel) /\ channel'[i] = channel[i]
    BY <1>2, <2>1 DEF ServedInv, ServedParts, Announced
  <2>2. \A d \in Conns : thread'[d] = "leaving" => Speaks(d)'
    BY DEF Speaks
  <2>3. CASE UNCHANGED channel
    BY <2>1, <2>3
  <2>4. ASSUME NEW m \in Messages, channel' = Append(channel, m),
               m.kind = "ClientDisconnected" =>
                  \E d \in Conns : PeerAddr[d] = m.addr /\ thread'[d] = "leaving"
        PROVE  \E d \in Conns : PeerAddr[d] = channel'[i].addr /\ Speaks(d)'
    <3>1. /\ Len(channel) \in Nat /\ Len(channel') = Len(channel) + 1
          /\ channel'[Len(channel) + 1] = m
          /\ \A j \in 1..Len(channel) : channel'[j] = channel[j]
      BY <2>4, Appended DEF ServedInv
    <3>2. CASE i \in 1..Len(channel)
      BY <2>1, <3>1, <3>2
    <3>3. CASE i = Len(channel) + 1
      BY <2>2, <2>4, <3>1, <3>3
    <3> QED
      BY <3>1, <3>2, <3>3
  <2> QED
    BY <2>3, <2>4 DEF Quiet
<1>6. Welcomed' /\ Served'
  BY <1>2 DEF ServedInv, ServedParts, Welcomed, Served, Live, Quiet, Owns, Panicked
<1> QED
  BY <1>3, <1>4, <1>5, <1>6 DEF ServedParts

LEMMA ReadersQuiet ==
    ASSUME TypeOK, NEW c \in Conns, PeerLeaves(c) \/ client_loop(c)
    PROVE  Quiet
<1>1. CASE PeerLeaves(c)
  BY <1>1 DEF TypeOK, PeerLeaves, PeerStep, Quiet, InNetwork
<1>2. CASE client_loop(c)
  <2>1. /\ UNCHANGED <<clients, server, guest, peer>>
        /\ \A d \in Conns \ {c} : thread'[d] = thread[d]
    BY <1>2 DEF TypeOK, client_loop, ReaderStarts, ReadLine, ReadEof, SendEmpty, ReaderFails, ReaderStep
  <2>2. /\ thread[c] # "none"
        /\ thread'[c] \in {"starting", "reading"} => thread[c] \in {"starting", "reading"}
        /\ ~Panicked /\ thread[c] \in {"leaving", "ghost"} => thread'[c] \in {"leaving", "ghost"}
    BY <1>2 DEF TypeOK, client_loop, ReaderStarts, ReadLine, ReadEof, SendEmpty, ReaderFails, ReaderStep
  <2>3. \/ UNCHANGED channel
        \/ \E m \in Messages :
             /\ channel' = Append(channel, m) /\ m.kind # "ClientConnected"
             /\ m.kind = "ClientDisconnected" =>
                   \E d \in Conns : PeerAddr[d] = m.addr /\ thread'[d] = "leaving"
    <3>1. PeerAddr[c] \in Addrs
      BY ConnsAssumption
    <3>2. CASE ReaderStarts(c) \/ ReaderFails(c)
      BY <3>2 DEF ReaderStarts, ReaderFails
    <3>3. ASSUME NEW text \in Texts, SendLine(c, text)
          PROVE  \E m \in Messages : channel' = Append(channel, m) /\ m.kind = "DistributeMessage"
      <4> DEFINE m == [kind |-> "DistributeMessage", addr |-> PeerAddr[c], text |-> text]
      <4>1. m \in Messages /\ m.kind = "DistributeMessage"
        BY <3>1 DEF Messages
      <4>2. channel' = Append(channel, m)
        BY <3>3 DEF SendLine, Send
      <4> HIDE DEF m
      <4> QED
        BY <4>1, <4>2
    <3>4. CASE ReadEof(c)
      <4> DEFINE m == [kind |-> "ClientDisconnected", addr |-> PeerAddr[c]]
      <4>1. m \in Messages /\ m.kind # "ClientConnected" /\ m.addr = PeerAddr[c]
        BY <3>1 DEF Messages
      <4>2. channel' = Append(channel, m)
        BY <3>4 DEF ReadEof, Send
      <4>3. thread'[c] = "leaving"
        BY <3>4 DEF ReadEof, ReaderStep, TypeOK
      <4> HIDE DEF m
      <4> QED
        BY <4>1, <4>2, <4>3
    <3>5. CASE ReadLine(c) \/ SendEmpty(c)
      <4>1. \E text \in Texts : SendLine(c, text)
        BY <3>5 DEF ReadLine, SendEmpty, Texts
      <4> QED
        BY <3>3, <4>1
    <3> QED
      BY <1>2, <3>2, <3>4, <3>5 DEF client_loop
  <2> QED
    BY <2>1, <2>2, <2>3 DEF Quiet
<1> QED
  BY <1>1, <1>2

(* A new stream finds its address out of the network and its name unused.  *)
LEMMA ArriveServed ==
    ASSUME ServedInv, NEW c \in Conns, Arrive(c)
    PROVE  ServedParts'
<1>1. /\ UNCHANGED <<server, guest, clients>>
      /\ peer' = [peer EXCEPT ![c] = IF Panicked THEN "dropped" ELSE "open"]
      /\ thread' = [thread EXCEPT ![c] = "none"]
      /\ Unused(c) /\ AddressFree(c)
  BY DEF Arrive
<1>2. /\ thread \in [Conns -> ThreadStates] /\ peer \in [Conns -> PeerStates]
      /\ Connected(c) \in Messages
  BY DEF ServedInv, TypeOK, Connected, Messages
<1>3. IF Panicked THEN UNCHANGED channel ELSE channel' = Append(channel, Connected(c))
  BY DEF Arrive, Send
<1>4. \A d \in Conns \ {c} : InChannel(d)' <=> InChannel(d)
  BY <1>2, <1>3, Appended DEF ServedInv, InChannel, Connected
<1>5. Panicked => ~InChannel(c)'
  BY <1>1, <1>3 DEF Unused, InChannel
<1>6. OneInNetwork'
  BY <1>1, <1>2 DEF ServedInv, ServedParts, OneInNetwork, AddressFree, InNetwork
<1>7. Waiting'
  BY <1>1, <1>2, <1>4, <1>5 DEF ServedInv, ServedParts, Waiting, Unused
<1>8. WaitsOnce'
  <2>1. CASE Panicked
    <3>1. UNCHANGED channel
      BY <1>3, <2>1
    <3> QED
      BY <1>1, <3>1 DEF ServedInv, ServedParts, WaitsOnce, InChannel, Connected
  <2>2. CASE ~Panicked
    <3>1. /\ Len(channel) \in Nat /\ Len(channel') = Len(channel) + 1
          /\ channel'[Len(channel) + 1] = Connected(c)
          /\ \A i \in 1..Len(channel) : channel'[i] = channel[i]
      BY <1>2, <1>3, <2>2, Appended DEF ServedInv
    <3>2. \A i \in 1..Len(channel) : channel[i] # Connected(c)
      BY <1>1 DEF Unused, InChannel
    <3>3. \A i, j \in 1..Len(channel') :
              channel'[i].kind = "ClientConnected" /\ channel'[i] = channel'[j] => i = j
      BY <3>1, <3>2 DEF ServedInv, ServedParts, WaitsOnce
    <3>4. guest' # None => ~InChannel(guest)'
      BY <1>1, <1>4, NoneAssumption DEF ServedInv, ServedParts, WaitsOnce, TypeOK, Unused
    <3> QED
      BY <3>3, <3>4 DEF WaitsOnce
  <2> QED
    BY <2>1, <2>2
<1>9. \A d \in Conns : Speaks(d) => Speaks(d)'
  BY <1>1, <1>2 DEF Speaks, Unused
<1>10. Announced'
  <2> SUFFICES ASSUME ~Panicked, NEW i \in 1..Len(channel'),
                      channel'[i].kind = "ClientDisconnected"
               PROVE  \E d \in Conns : PeerAddr[d] = channel'[i].addr /\ Speaks(d)'
    BY <1>1 DEF Announced, Panicked
  <2>1. i \in 1..Len(channel) /\ channel'[i] = channel[i]
    BY <1>2, <1>3, Appended DEF ServedInv, Connected
  <2> QED
    BY <1>9, <2>1 DEF ServedInv, ServedParts, Announced
<1>11. Welcomed' /\ Served'
  BY <1>1, <1>2, <1>9 DEF ServedInv, ServedParts, Welcomed, Served, Live, Owns, Panicked
<1> QED
  BY <1>6, <1>7, <1>8, <1>10, <1>11 DEF ServedParts

(* What a step of the server may do to the records: who is writable keeps  *)
(* a record of its own, unless the end of its address is being announced.  *)
Keeps(map) ==
    \A c \in Conns : Owns(clients, c) /\ Writable(c) => Owns(map, c)

LEMMA PurgedKeeps ==
    ASSUME TypeOK
    PROVE  Keeps(Purged)
<1>1. \A c \in Conns : PeerAddr[c] \in Addrs
  BY ConnsAssumption
<1> QED
  BY <1>1 DEF Keeps, Owns, Purged, Present

LEMMA DisconnectKeeps ==
    ASSUME NEW map \in Maps, NEW gone, Keeps(map),
           \A a \in gone : map[a] # None => ~Writable(map[a].stream)
    PROVE  Keeps(Disconnect(map, gone))
<1> SUFFICES ASSUME NEW c \in Conns, Owns(clients, c), Writable(c)
             PROVE  Owns(Disconnect(map, gone), c)
  BY DEF Keeps
<1>1. PeerAddr[c] \in Addrs /\ Owns(map, c)
  BY ConnsAssumption DEF Keeps
<1>2. PeerAddr[c] \notin gone
  BY <1>1 DEF Owns
<1> QED
  BY <1>1, <1>2 DEF Owns, Disconnect

LEMMA DistributeKeeps ==
    ASSUME NEW map \in Maps, Keeps(map), Distribute(map) \/ Warn(map)
    PROVE  Keeps(clients')
<1>1. CASE Distribute(map)
  <2> DEFINE failed == {a \in Audience(map) : ~Writable(map[a].stream)}
  <2>1. clients' = Disconnect(map, failed)
    BY <1>1 DEF Distribute
  <2>2. \A a \in failed : ~Writable(map[a].stream)
    OBVIOUS
  <2> HIDE DEF failed
  <2> QED
    BY <2>1, <2>2, DisconnectKeeps
<1>2. CASE Warn(map)
  <2>1. CASE map[Sender] # None /\ ~Writable(map[Sender].stream)
    BY <1>2, <2>1, DisconnectKeeps DEF Warn
  <2>2. CASE ~(map[Sender] # None /\ ~Writable(map[Sender].stream))
    BY <1>2, <2>2 DEF Warn
  <2> QED
    BY <2>1, <2>2
<1> QED
  BY <1>1, <1>2

LEMMA PanicServed ==
    ASSUME ServedInv, NEW why \in Panics, Panic(why)
    PROVE  ServedParts'
<1>1. /\ Panicked' /\ channel' = << >> /\ guest' = None /\ server' # "welcome"
      /\ peer' = [c \in Conns |-> IF c = guest \/ InChannel(c) THEN "dropped" ELSE peer[c]]
  BY DEF Panic, Panics, Panicked
<1>2. OneInNetwork'
  BY <1>1 DEF ServedInv, ServedParts, OneInNetwork, InNetwork
<1>3. Waiting' /\ WaitsOnce'
  BY <1>1, NoneAssumption DEF Waiting, WaitsOnce, InChannel
<1> QED
  BY <1>1, <1>2, <1>3 DEF ServedParts, Announced, Welcomed, Served

(* The first message is taken, and its stream, if it has one, is the guest.*)
LEMMA TakenServed ==
    ASSUME ServedInv, server = "receive", channel # << >>, channel' = Tail(channel),
           UNCHANGED <<peer, thread>>, server' \in {"receive", "token"},
           IF Head(channel).kind = "ClientConnected" THEN guest' = Head(channel).conn
           ELSE guest' = guest,
           Keeps(clients') \/ /\ Head(channel).kind = "ClientDisconnected"
                              /\ clients' = Disconnect(Purged, {Sender})
    PROVE  ServedParts'
<1>1. /\ Len(channel) \in Nat \ {0} /\ Len(channel') = Len(channel) - 1
      /\ Head(channel) = channel[1]
      /\ \A i \in 1..Len(channel') : channel'[i] = channel[i + 1]
  BY Received DEF ServedInv
<1>2. \A i \in 1..Len(channel') : i + 1 \in 1..Len(channel)
  BY <1>1
<1>3. guest = None /\ ~Panicked
  BY DEF ServedInv, TypeOK, Panicked, Panics
<1>4. \A c \in Conns : InChannel(c)' => InChannel(c)
  BY <1>1, <1>2 DEF InChannel, Connected
<1>5. OneInNetwork'
  BY DEF ServedInv, ServedParts, OneInNetwork
<1>6. ASSUME Head(channel).kind = "ClientConnected"
      PROVE  guest' \in Conns /\ InChannel(guest') /\ Head(channel) = Connected(guest')
  <2>1. Head(channel) \in Messages
    BY HeadType DEF ServedInv
  <2>2. guest' \in Conns /\ Head(channel) = Connected(guest')
    BY <1>6, <2>1 DEF Messages, Connected
  <2>3. 1 \in 1..Len(channel)
    BY <1>1
  <2> QED
    BY <1>1, <2>2, <2>3 DEF InChannel
<1>7. Waiting'
  BY <1>3, <1>4, <1>6, NoneAssumption DEF ServedInv, ServedParts, Waiting
<1>8. WaitsOnce'
  <2>1. ASSUME NEW i \in 1..Len(channel'), NEW j \in 1..Len(channel'),
               channel'[i].kind = "ClientConnected", channel'[i] = channel'[j]
        PROVE  i = j
    <3>1. i + 1 = j + 1
      BY <1>1, <1>2, <2>1 DEF ServedInv, ServedParts, WaitsOnce
    <3> QED
      BY <3>1
  <2>2. ASSUME guest' # None, NEW i \in 1..Len(channel'), channel'[i] = Connected(guest')
        PROVE  FALSE
    <3>1. Head(channel).kind = "ClientConnected"
      BY <1>3, <2>2
    <3>2. channel[1] = channel[i + 1] /\ channel[1].kind = "ClientConnected"
      BY <1>1, <1>6, <2>2, <3>1
    <3>3. 1 = i + 1
      BY <1>1, <1>2, <3>2 DEF ServedInv, ServedParts, WaitsOnce
    <3> QED
      BY <3>3
  <2> QED
    BY <2>1, <2>2 DEF WaitsOnce, InChannel, Connected
<1>9. \A d \in Conns : Speaks(d) => Speaks(d)'
  BY DEF Speaks
<1>10. Announced'
  BY <1>1, <1>2, <1>3, <1>9 DEF ServedInv, ServedParts, Announced
<1>11. Welcomed'
  BY DEF Welcomed
<1>12. Served'
  <2> SUFFICES ASSUME NEW c \in Conns, Live(c)'
               PROVE  \/ Owns(clients', c)
                      \/ \E d \in Conns : PeerAddr[d] = PeerAddr[c] /\ Speaks(d)'
    BY DEF Served, Owns
  <2>1. Live(c) /\ Writable(c)
    BY DEF Live, Writable
  <2>2. Owns(clients, c) \/ \E d \in Conns : PeerAddr[d] = PeerAddr[c] /\ Speaks(d)'
    BY <1>3, <1>9, <2>1 DEF ServedInv, ServedParts, Served
  <2>3. CASE Owns(clients, c)
    <3>1. CASE Keeps(clients')
      BY <2>1, <2>3, <3>1 DEF Keeps
    <3>2. CASE Head(channel).kind = "ClientDisconnected" /\ clients' = Disconnect(Purged, {Sender})
      <4>1. CASE PeerAddr[c] = Sender
        <5>1. 1 \in 1..Len(channel) /\ channel[1].kind = "ClientDisconnected"
          BY <1>1, <3>2
        <5>2. PICK d \in Conns : PeerAddr[d] = channel[1].addr /\ Speaks(d)
          BY <1>3, <5>1 DEF ServedInv, ServedParts, Announced
        <5> QED
          BY <1>1, <1>9, <4>1, <5>2 DEF Sender
      <4>2. CASE PeerAddr[c] # Sender
        <5>1. PeerAddr[c] \in Addrs /\ Owns(Purged, c)
          BY <2>1, <2>3, PurgedKeeps, ConnsAssumption DEF Keeps, ServedInv
        <5> QED
          BY <3>2, <4>2, <5>1 DEF Owns, Disconnect
      <4> QED
        BY <4>1, <4>2
    <3> QED
      BY <3>1, <3>2
  <2> QED
    BY <2>2, <2>3
<1> QED
  BY <1>5, <1>7, <1>8, <1>10, <1>11, <1>12 DEF ServedParts

(* The purged map with the line of a client noted in it                    *)
Noted(strikes) ==
    [Purged EXCEPT ![Sender] =
        [Purged[Sender] EXCEPT !.last_message = now, !.msg_strikes = strikes]]

LEMMA NotedType ==
    ASSUME TypeOK, NEW strikes \in 0..3, Sender \in Addrs, Purged[Sender] # None
    PROVE  /\ Noted(strikes) \in Maps
           /\ Noted(strikes)[Sender] # None
           /\ Noted(strikes)[Sender].last_message = now
           /\ Noted(strikes)[Sender].msg_strikes = strikes
           /\ Noted(strikes)[Sender].stream = Purged[Sender].stream
           /\ Noted(strikes)[Sender].is_connected = Purged[Sender].is_connected
           /\ \A a \in Addrs \ {Sender} : Noted(strikes)[a] = Purged[a]
<1>1. Purged \in Maps /\ Purged[Sender] \in Client
  BY PurgedType DEF Maps
<1> DEFINE client == [Purged[Sender] EXCEPT !.last_message = now, !.msg_strikes = strikes]
<1>2. /\ client \in Client /\ client.last_message = now /\ client.msg_strikes = strikes
      /\ client.stream = Purged[Sender].stream
      /\ client.is_connected = Purged[Sender].is_connected
  BY <1>1 DEF Client, TypeOK
<1>3. Noted(strikes) = [Purged EXCEPT ![Sender] = client]
  BY DEF Noted
<1>4. \A x \in Client : x # None
  BY RecordAssumption
<1> HIDE DEF client
<1> QED
  BY <1>1, <1>2, <1>3, <1>4 DEF Maps

(* The purged map without the strikes of the sender                        *)
LEMMA ForgivenType ==
    ASSUME TypeOK, Sender \in Addrs
    PROVE  /\ Forgiven \in Maps
           /\ Forgiven[Sender] # None => Forgiven[Sender].msg_strikes = 0
           /\ \A a \in Addrs \ {Sender} : Forgiven[a] = Purged[a]
           /\ \A a \in Addrs : Purged[a] = None => Forgiven[a] = None
           /\ \A a \in Addrs : Purged[a] # None =>
                 /\ Forgiven[a] # None /\ Forgiven[a].stream = Purged[a].stream
                 /\ Forgiven[a].is_connected = Purged[a].is_connected
                 /\ Forgiven[a].last_message = Purged[a].last_message
<1>1. Purged \in Maps
  BY PurgedType
<1>2. CASE Purged[Sender] = None
  BY <1>1, <1>2 DEF Forgiven
<1>3. CASE Purged[Sender] # None
  <2> DEFINE client == [Purged[Sender] EXCEPT !.msg_strikes = 0]
  <2>1. Purged[Sender] \in Client
    BY <1>1, <1>3 DEF Maps
  <2>2. /\ client \in Client /\ client.msg_strikes = 0
        /\ client.stream = Purged[Sender].stream
        /\ client.is_connected = Purged[Sender].is_connected
        /\ client.last_message = Purged[Sender].last_message
    BY <2>1 DEF Client
  <2>3. Forgiven = [Purged EXCEPT ![Sender] = client]
    BY <1>3 DEF Forgiven
  <2>4. client # None
    BY <2>2, RecordAssumption
  <2> HIDE DEF client
  <2> QED
    BY <1>1, <1>3, <2>2, <2>3, <2>4 DEF Maps
<1> QED
  BY <1>2, <1>3

(* A line of a client is in time, or a strike, or the last strike.         *)
LEMMA LineCases ==
    ASSUME TypeOK, LineOfClient
    PROVE  /\ channel # << >> /\ server = "receive" /\ Sender \in Addrs
           /\ Head(channel).kind = "DistributeMessage"
           /\ Purged[Sender] # None /\ ~Banned(Sender)
           /\ \/ Panic("strikes") /\ Purged[Sender].msg_strikes = 3
              \/ /\ Handle /\ Warn(Noted(3)) /\ ban_list' = Ban(Sender)
              \/ /\ Handle /\ UNCHANGED ban_list /\ Distribute(Noted(Purged[Sender].msg_strikes))
                 /\ now - Purged[Sender].last_message >= StrikeWindow
              \/ /\ Handle /\ UNCHANGED ban_list /\ Purged[Sender].msg_strikes \in 0..1
                 /\ Distribute(Noted(Purged[Sender].msg_strikes + 1))
<1>1. /\ channel # << >> /\ server = "receive" /\ Head(channel).kind = "DistributeMessage"
      /\ Purged[Sender] # None /\ ~Banned(Sender)
  BY DEF LineOfClient, Receives
<1>2. Sender \in Addrs
  BY <1>1, HeadType DEF Sender
<1>3. /\ Purged[Sender].msg_strikes \in 0..3 /\ Purged[Sender].last_message \in Nat
      /\ now \in Nat /\ StrikeWindow \in Nat
  BY <1>1, <1>2, PurgedType, NumbersAssumption DEF Maps, Client, TypeOK
<1> QED
  BY <1>1, <1>2, <1>3 DEF LineOfClient, Noted

LEMMA ReceiveServed ==
    ASSUME ServedInv, Receive
    PROVE  ServedParts'
<1>1. /\ channel # << >> /\ TypeOK /\ server = "receive" /\ Purged \in Maps /\ Keeps(Purged)
  BY PurgedType, PurgedKeeps
     DEF ServedInv, Receive, ReceiveConnected, BannedLine, LineOfStranger,
         LineOfClient, ReceiveDisconnected, Receives
<1>2. Head(channel).kind # "ClientConnected" => Sender \in Addrs
  BY <1>1, HeadType DEF Sender
<1>3. ASSUME Handle, Head(channel).kind # "ClientConnected", Keeps(clients')
      PROVE  ServedParts'
  BY <1>1, <1>3, TakenServed DEF Handle
<1>4. ASSUME Handle, Head(channel).kind # "ClientConnected",
             NEW map \in Maps, Keeps(map), Distribute(map) \/ Warn(map)
      PROVE  ServedParts'
  BY <1>3, <1>4, DistributeKeeps
<1>5. CASE ReceiveConnected
  <2>1. CASE Panic("unwrap")
    BY <2>1, PanicServed DEF Panics
  <2>2. CASE ~Panic("unwrap")
    <3>1. /\ clients' = Purged /\ channel' = Tail(channel) /\ server' = "token"
          /\ guest' = Head(channel).conn /\ UNCHANGED <<peer, thread>>
          /\ Head(channel).kind = "ClientConnected"
      BY <1>5, <2>2 DEF ReceiveConnected, Receives
    <3> QED
      BY <1>1, <3>1, TakenServed
  <2> QED
    BY <2>1, <2>2
<1>6. CASE BannedLine
  <2>1. Sender \in Addrs /\ Handle /\ Head(channel).kind # "ClientConnected"
    BY <1>2, <1>6 DEF BannedLine, Receives
  <2>2. CASE Warn(Purged)
    BY <1>1, <1>4, <2>1, <2>2
  <2>3. CASE Distribute(Forgiven)
    <3>1. /\ Forgiven \in Maps
          /\ \A a \in Addrs : Purged[a] # None =>
                /\ Forgiven[a] # None /\ Forgiven[a].stream = Purged[a].stream
                /\ Forgiven[a].is_connected = Purged[a].is_connected
      BY <1>1, <2>1, ForgivenType
    <3>2. \A c \in Conns : Owns(Purged, c) => Owns(Forgiven, c)
      BY <3>1, ConnsAssumption DEF Owns
    <3>3. Keeps(Forgiven)
      BY <1>1, <3>2 DEF Keeps
    <3> QED
      BY <1>4, <2>1, <2>3, <3>1, <3>3
  <2> QED
    BY <1>6, <2>2, <2>3 DEF BannedLine
<1>7. CASE LineOfStranger
  BY <1>1, <1>3, <1>7 DEF LineOfStranger, Receives
<1>8. CASE LineOfClient
  <2>1. ASSUME Handle, NEW strikes \in 0..3, Distribute(Noted(strikes)) \/ Warn(Noted(strikes))
        PROVE  ServedParts'
    <3>1. Sender \in Addrs /\ Purged[Sender] # None /\ Head(channel).kind # "ClientConnected"
      BY <1>1, <1>8, LineCases
    <3>2. /\ Noted(strikes) \in Maps
          /\ Noted(strikes)[Sender] # None
          /\ Noted(strikes)[Sender].stream = Purged[Sender].stream
          /\ Noted(strikes)[Sender].is_connected = Purged[Sender].is_connected
          /\ \A a \in Addrs \ {Sender} : Noted(strikes)[a] = Purged[a]
      BY <1>1, <3>1, NotedType
    <3>3. \A c \in Conns : Owns(Purged, c) => Owns(Noted(strikes), c)
      <4> TAKE c \in Conns
      <4>1. PeerAddr[c] \in Addrs
        BY ConnsAssumption
      <4> QED
        BY <3>2, <4>1 DEF Owns
    <3>4. Keeps(Noted(strikes))
      BY <1>1, <3>3 DEF Keeps
    <3> QED
      BY <1>4, <2>1, <3>1, <3>2, <3>4
  <2>2. Purged[Sender].msg_strikes \in 0..3
    BY <1>1, <1>8, LineCases DEF Maps, Client
  <2>3. /\ Purged[Sender].msg_strikes \in 0..1 => Purged[Sender].msg_strikes + 1 \in 0..3
        /\ 3 \in 0..3
    OBVIOUS
  <2>4. CASE Panic("strikes")
    BY <2>4, PanicServed DEF Panics
  <2> QED
    BY <1>1, <1>8, <2>1, <2>2, <2>3, <2>4, LineCases
<1>9. CASE ReceiveDisconnected
  <2>1. /\ Handle /\ Head(channel).kind = "ClientDisconnected"
        /\ clients' = Disconnect(Purged, {Sender})
    BY <1>9 DEF ReceiveDisconnected, Receives
  <2> QED
    BY <1>1, <2>1, TakenServed DEF Handle
<1> QED
  BY <1>5, <1>6, <1>7, <1>8, <1>9 DEF Receive

(* A guest that is dismissed was without a thread and is let go of once.   *)
LEMMA DismissServed ==
    ASSUME ServedInv, guest \in Conns, ~Panicked, Dismiss, Keeps(clients')
    PROVE  ServedParts'
<1>1. /\ server' = "receive" /\ guest' = None /\ UNCHANGED <<channel, thread>>
      /\ peer' = [peer EXCEPT ![guest] = "dropped"] /\ peer \in [Conns -> PeerStates]
  BY DEF Dismiss, ServedInv, TypeOK
<1>2. \A c \in Conns : InChannel(c)' <=> InChannel(c)
  BY <1>1 DEF InChannel
<1>3. ~InChannel(guest)
  BY NoneAssumption DEF ServedInv, ServedParts, WaitsOnce
<1>4. OneInNetwork'
  BY <1>1 DEF ServedInv, ServedParts, OneInNetwork, InNetwork
<1>5. Waiting'
  BY <1>1, <1>2, <1>3, NoneAssumption DEF ServedInv, ServedParts, Waiting
<1>6. WaitsOnce'
  BY <1>1 DEF ServedInv, ServedParts, WaitsOnce
<1>7. \A d \in Conns : Speaks(d) => Speaks(d)'
  BY <1>1 DEF Speaks
<1>8. Announced' /\ Welcomed'
  BY <1>1, <1>7 DEF ServedInv, ServedParts, Announced, Welcomed
<1>9. Served'
  <2> SUFFICES ASSUME NEW c \in Conns, Live(c)'
               PROVE  \/ Owns(clients', c)
                      \/ \E d \in Conns : PeerAddr[d] = PeerAddr[c] /\ Speaks(d)'
    BY DEF Served, Owns
  <2>1. Live(c) /\ Writable(c)
    BY <1>1 DEF Live, Writable
  <2> QED
    BY <1>7, <2>1 DEF ServedInv, ServedParts, Served, Keeps
<1> QED
  BY <1>4, <1>5, <1>6, <1>8, <1>9 DEF ServedParts

(* A guest that is registered has its address for itself.                  *)
LEMMA RegisterServed ==
    ASSUME ServedInv, guest \in Conns, server = "name", Writable(guest),
           NEW client \in Client, Register(client),
           client.stream = guest, client.is_connected
    PROVE  ServedParts'
<1>1. /\ server' = "welcome" /\ UNCHANGED <<channel, guest, thread, peer>>
      /\ clients' = [clients EXCEPT ![GuestAddr] = client]
      /\ clients \in [Addrs -> Client \cup {None}]
      /\ peer \in [Conns -> PeerStates]
      /\ GuestAddr \in Addrs
  BY ConnsAssumption DEF Register, ServedInv, TypeOK, GuestAddr
<1>2. Owns(clients', guest)
  BY <1>1, RecordAssumption DEF Owns, GuestAddr
<1>3. OneInNetwork' /\ Waiting' /\ WaitsOnce' /\ Announced' /\ ~Panicked
  BY <1>1 DEF ServedInv, ServedParts, OneInNetwork, Waiting, WaitsOnce, Announced,
              InChannel, Panicked, Panics, Speaks
<1>4. ASSUME NEW c \in Conns, Live(c)
      PROVE  PeerAddr[c] # GuestAddr
  <2>1. c # guest
    BY <1>4 DEF ServedInv, ServedParts, Waiting, Live
  <2>2. peer[guest] \in InNetwork
    BY <1>1 DEF ServedInv, ServedParts, Waiting, Writable, PeerStates, InNetwork
  <2>3. peer[c] \in InNetwork
    BY <1>4 DEF Live, InNetwork
  <2> QED
    BY <2>1, <2>2, <2>3 DEF ServedInv, ServedParts, OneInNetwork, GuestAddr
<1>5. Served'
  <2> SUFFICES ASSUME NEW c \in Conns, Live(c)'
               PROVE  \/ Owns(clients', c)
                      \/ \E d \in Conns : PeerAddr[d] = PeerAddr[c] /\ Speaks(d)'
    BY DEF Served, Owns
  <2>1. Live(c)
    BY <1>1 DEF Live
  <2>2. PeerAddr[c] # GuestAddr /\ PeerAddr[c] \in Addrs
    BY <1>4, <2>1, ConnsAssumption
  <2>3. clients'[PeerAddr[c]] = clients[PeerAddr[c]]
    BY <1>1, <2>2
  <2> QED
    BY <1>1, <1>3, <2>1, <2>3 DEF ServedInv, ServedParts, Served, Owns, Speaks
<1>6. Welcomed'
  BY <1>1, <1>2 DEF Welcomed, Owns
<1> QED
  BY <1>3, <1>5, <1>6 DEF ServedParts

LEMMA AdmitServed ==
    ASSUME ServedInv, Admit
    PROVE  ServedParts'
<1>1. /\ guest \in Conns /\ GuestAddr \in Addrs /\ clients \in Maps /\ ~Panicked
      /\ thread[guest] = "none"
  <2>1. server \in {"token", "name", "welcome"}
    BY DEF Admit, Authenticate, NoName, Named, Welcome
  <2> QED
    BY <2>1, ConnsAssumption
       DEF ServedInv, ServedParts, TypeOK, GuestAddr, Maps, Panicked, Panics, Waiting
<1>2. ASSUME UNCHANGED clients
      PROVE  Keeps(clients')
  BY <1>2 DEF Keeps
<1>3. CASE Authenticate \/ NoName
  <2>1. CASE Dismiss /\ UNCHANGED clients
    BY <1>1, <1>2, <2>1, DismissServed
  <2>2. CASE Panic("slice") \/ Panic("unwrap")
    BY <2>2, PanicServed DEF Panics
  <2>3. CASE server' = "name" /\ UNCHANGED <<channel, guest, clients, peer, thread>>
    BY <1>1, <2>3
       DEF ServedInv, ServedParts, OneInNetwork, Waiting, WaitsOnce, Announced, Welcomed,
           Served, Live, Owns, Speaks, InChannel, Panicked, Panics
  <2> QED
    BY <1>3, <2>1, <2>2, <2>3 DEF Authenticate, NoName
<1>4. CASE Named
  <2> DEFINE client == clients[GuestAddr]
             strikes == ConnStrikes(client)
  <2>1. server = "name" /\ Writable(guest)
    BY <1>4 DEF Named
  <2>2. NewClient(guest) \in Client /\ NewClient(guest).stream = guest
        /\ NewClient(guest).is_connected
    BY <1>1, NewClientType DEF ServedInv, NewClient
  <2>3. CASE Register(NewClient(guest))
    BY <1>1, <2>1, <2>2, <2>3, RegisterServed
  <2>4. CASE Panic("overflow")
    BY <2>4, PanicServed DEF Panics
  <2>5. CASE Present(GuestAddr) /\ ~Overflows(strikes) /\ Register(Refreshed(client))
    <3>1. client \in Client /\ strikes \in Nat
      BY <1>1, <2>5, NumbersAssumption DEF Maps, Present, ConnStrikes, Client
    <3>2. strikes \in 0..MaxU8
      BY <2>5, <3>1, NumbersAssumption DEF Overflows
    <3>3. /\ Refreshed(client) \in Client /\ Refreshed(client).stream = guest
          /\ Refreshed(client).is_connected
      BY <2>2, <3>1, <3>2 DEF Refreshed, Client
    <3> QED
      BY <1>1, <2>1, <2>5, <3>3, RegisterServed
  <2>6. CASE /\ Present(GuestAddr) /\ ~Overflows(strikes)
             /\ clients' = [clients EXCEPT ![GuestAddr].conn_strikes = strikes]
             /\ Dismiss
    <3>1. Keeps(clients')
      <4>1. client \in Client /\ strikes \in 0..MaxU8
        <5>1. client \in Client
          BY <1>1, <2>6 DEF Maps, Present
        <5> QED
          BY <2>6, <5>1, NumbersAssumption DEF Overflows, ConnStrikes, Client
      <4>2. PICK new : new = [client EXCEPT !.conn_strikes = strikes]
        OBVIOUS
      <4>3. /\ new \in Client
            /\ new.stream = client.stream /\ new.is_connected = client.is_connected
        BY <4>1, <4>2 DEF Client
      <4>4. clients' = [clients EXCEPT ![GuestAddr] = new]
        BY <2>6, <4>2
      <4>5. \A a \in Addrs : clients'[a] = IF a = GuestAddr THEN new ELSE clients[a]
        BY <1>1, <4>4 DEF Maps
      <4>6. new # None
        BY <4>3, RecordAssumption
      <4> QED
        BY <4>3, <4>5, <4>6, ConnsAssumption DEF Keeps, Owns
    <3> QED
      BY <1>1, <2>6, <3>1, DismissServed
  <2> QED
    BY <1>4, <2>3, <2>4, <2>5, <2>6 DEF Named
<1>5. CASE Welcome
  <2>1. /\ server' = "receive" /\ guest' = None /\ UNCHANGED <<channel, peer>>
        /\ Owns(clients, guest) /\ thread \in [Conns -> ThreadStates]
    BY <1>5 DEF Welcome, ServedInv, ServedParts, Welcomed, TypeOK
  <2>2. \A c \in Conns \ {guest} : thread'[c] = thread[c]
    BY <1>1, <1>5, <2>1 DEF Welcome
  <2>3. \A d \in Conns : Speaks(d) => Speaks(d)'
    BY <1>1, <2>2 DEF Speaks
  <2>4. ~InChannel(guest) /\ \A c \in Conns : InChannel(c)' <=> InChannel(c)
    BY <1>1, <2>1, NoneAssumption DEF ServedInv, ServedParts, WaitsOnce, InChannel
  <2>5. OneInNetwork' /\ Waiting' /\ WaitsOnce' /\ Welcomed'
    BY <2>1, <2>2, <2>4, NoneAssumption
       DEF ServedInv, ServedParts, OneInNetwork, Waiting, WaitsOnce, Welcomed
  <2>6. Announced'
    BY <1>1, <2>1, <2>3 DEF ServedInv, ServedParts, Announced
  <2>7. Served'
    <3> SUFFICES ASSUME NEW c \in Conns, Live(c)'
                 PROVE  \/ Owns(clients', c)
                        \/ \E d \in Conns : PeerAddr[d] = PeerAddr[c] /\ Speaks(d)'
      BY DEF Served, Owns
    <3>1. PeerAddr[c] \in Addrs
      BY ConnsAssumption
    <3>2. CASE Writable(guest)
      <4>1. UNCHANGED clients
        BY <1>5, <3>2 DEF Welcome
      <4>2. CASE c = guest
        BY <2>1, <4>1, <4>2
      <4>3. CASE c # guest
        <5>1. Live(c)
          BY <2>1, <2>2, <4>3 DEF Live
        <5> QED
          BY <1>1, <2>3, <4>1, <5>1 DEF ServedInv, ServedParts, Served
      <4> QED
        BY <4>2, <4>3
    <3>3. CASE ~Writable(guest)
      <4>1. clients' = Disconnect(clients, {GuestAddr}) /\ UNCHANGED thread
        BY <1>5, <3>3 DEF Welcome
      <4>2. Live(c) /\ c # guest
        BY <1>1, <2>1, <4>1 DEF Live
      <4>3. PeerAddr[c] = GuestAddr => ~Owns(clients, c)
        BY <2>1, <4>2 DEF Owns, GuestAddr
      <4>4. PeerAddr[c] # GuestAddr /\ Owns(clients, c) => Owns(clients', c)
        BY <3>1, <4>1 DEF Owns, Disconnect
      <4> QED
        BY <1>1, <2>3, <4>2, <4>3, <4>4 DEF ServedInv, ServedParts, Served
    <3> QED
      BY <3>2, <3>3
  <2> QED
    BY <2>5, <2>6, <2>7 DEF ServedParts
<1> QED
  BY <1>3, <1>4, <1>5 DEF Admit

(* Whoever reconnects, is disconnected, purged or banned in the meantime,  *)
(* a client with a reading thread and a connection that is up is served,   *)
(* unless an older thread of its address still speaks, for any streams,    *)
(* addresses and thresholds (Server::start, client_loop).                  *)
THEOREM TheLiveAreServed == Spec => []LiveIsServed
<1>1. Init => ServedInv
  <2> SUFFICES ASSUME Init PROVE ServedInv
    OBVIOUS
  <2>1. \A c \in Conns : ~InChannel(c) /\ c # guest
    BY NoneAssumption DEF Init, InChannel
  <2> QED
    BY <2>1, InitType
       DEF Init, ServedInv, ServedParts, OneInNetwork, InNetwork, Waiting, WaitsOnce, Announced,
           Welcomed, Served, Live
<1>2. ServedInv /\ [Next]_vars => ServedParts'
  <2> SUFFICES ASSUME ServedInv, [Next]_vars
               PROVE  ServedParts'
    OBVIOUS
  <2>1. CASE Tick
    BY <2>1, QuietServed DEF Tick, Quiet
  <2>2. CASE UNCHANGED vars
    BY <2>2, QuietServed DEF vars, Quiet
  <2>3. ASSUME NEW c \in Conns, PeerLeaves(c) \/ client_loop(c)
        PROVE  ServedParts'
    BY <2>3, ReadersQuiet, QuietServed DEF ServedInv
  <2> QED
    BY <2>1, <2>2, <2>3, ArriveServed, ReceiveServed, AdmitServed DEF Next
<1>3. Spec => []TypeOK
  BY TypeCorrect
<1>4. ServedInv /\ [Next]_vars /\ TypeOK' => ServedInv'
  BY <1>2 DEF ServedInv
<1>5. ServedInv => LiveIsServed
  <2> SUFFICES ASSUME ServedInv, ~Panicked, NEW c \in Conns, thread[c] = "reading", peer[c] = "open"
               PROVE  \/ Owns(clients, c)
                      \/ \E d \in Conns \ {c} : PeerAddr[d] = PeerAddr[c] /\ Speaks(d)
    BY DEF LiveIsServed, Owns, Present, Speaks
  <2>1. Owns(clients, c) \/ \E d \in Conns : PeerAddr[d] = PeerAddr[c] /\ Speaks(d)
    BY DEF ServedInv, ServedParts, Served, Live
  <2>2. ~Speaks(c)
    BY DEF Speaks
  <2> QED
    BY <2>1, <2>2
<1> QED
  BY <1>1, <1>3, <1>4, <1>5, PTL DEF Spec

-----------------------------------------------------------------------------
(* Bans and rates: what a step may do to an address                        *)

(* The record of an address is purged, new, or keeps its strikes.          *)
RecordTo(map, a) ==
    \/ /\ map[a] = None
       /\ clients[a] = None \/ now - clients[a].last_message >= PurgeAfter
    \/ map[a] # None /\ clients[a] = None
    \/ /\ map[a] # None /\ clients[a] # None
       /\ map[a].msg_strikes = clients[a].msg_strikes
       /\ map[a].last_message \in {clients[a].last_message, now}

(* The ban of an address is over and is lifted.                            *)
Lifts(a) ==
    /\ ban_list[a] # None /\ now - ban_list[a] >= BanTime
    /\ ban_list'[a] = None

(* No line of the address is distributed.                                  *)
Silently(a) ==
    /\ broadcast' = None \/ broadcast'.from # a
    /\ \/ ban_list'[a] = now
       \/ ban_list'[a] = ban_list[a] /\ (ban_list[a] = None => RecordTo(clients', a))
       \/ Lifts(a)

(* A line is, after a ban, in time or for a strike.                        *)
Says(a) ==
    /\ broadcast' # None /\ broadcast'.from = a
    /\ now' = now
    /\ \/ Lifts(a)
       \/ /\ ban_list[a] = None /\ ban_list'[a] = None
          /\ clients[a] # None /\ clients'[a] # None
          /\ clients'[a].last_message = now
          /\ \/ /\ now - clients[a].last_message >= StrikeWindow
                /\ clients'[a].msg_strikes = clients[a].msg_strikes
             \/ /\ clients[a].msg_strikes \in 0..1
                /\ clients'[a].msg_strikes = clients[a].msg_strikes + 1

Effects ==
    /\ now' \in {now, now + 1}
    /\ Panicked => Panicked'
    /\ IF Panicked' THEN broadcast' = None
       ELSE \A a \in Addrs : Silently(a) \/ Says(a)

LEMMA PurgedRecords ==
    ASSUME TypeOK
    PROVE  \A a \in Addrs : RecordTo(Purged, a) /\ (Purged[a] # None => Purged[a] = clients[a])
  BY DEF RecordTo, Purged, Present

(* Disconnecting leaves the moderation alone.                              *)
LEMMA DisconnectRecords ==
    ASSUME NEW map \in Maps, NEW gone, NEW a \in Addrs
    PROVE  /\ Disconnect(map, gone)[a] = None <=> map[a] = None
           /\ map[a] # None =>
                 /\ Disconnect(map, gone)[a].msg_strikes = map[a].msg_strikes
                 /\ Disconnect(map, gone)[a].last_message = map[a].last_message
<1>1. CASE map[a] = None
  BY <1>1 DEF Disconnect
<1>2. CASE map[a] # None
  <2>1. map[a] \in Client
    BY <1>2 DEF Maps
  <2>2. PICK client : client = [map[a] EXCEPT !.is_connected = FALSE]
    OBVIOUS
  <2>3. /\ client \in Client /\ client.msg_strikes = map[a].msg_strikes
        /\ client.last_message = map[a].last_message
    BY <2>1, <2>2 DEF Client
  <2>4. Disconnect(map, gone)[a] \in {client, map[a]}
    BY <2>2 DEF Disconnect
  <2> QED
    BY <1>2, <2>3, <2>4, RecordAssumption
<1> QED
  BY <1>1, <1>2

LEMMA DistributeRecords ==
    ASSUME NEW map \in Maps, Distribute(map) \/ Warn(map), NEW a \in Addrs
    PROVE  /\ clients'[a] = None <=> map[a] = None
           /\ map[a] # None =>
                 /\ clients'[a].msg_strikes = map[a].msg_strikes
                 /\ clients'[a].last_message = map[a].last_message
<1>1. clients' = map \/ \E gone : clients' = Disconnect(map, gone)
  BY DEF Distribute, Warn
<1> QED
  BY <1>1, DisconnectRecords

(* Where nothing is distributed, no ban begins or ends, and the records    *)
(* follow, there is silence.                                               *)
LEMMA SilentStep ==
    ASSUME broadcast' = None, UNCHANGED ban_list, now' \in {now, now + 1},
           Panicked => Panicked', \A a \in Addrs : RecordTo(clients', a)
    PROVE  Effects
  BY DEF Effects, Silently

LEMMA SameRecords ==
    ASSUME UNCHANGED clients
    PROVE  \A a \in Addrs : RecordTo(clients', a)
  BY DEF RecordTo

LEMMA NetworkEffects ==
    ASSUME TypeOK, Tick \/ \E c \in Conns : Arrive(c) \/ PeerLeaves(c) \/ client_loop(c)
    PROVE  Effects
<1>1. /\ broadcast' = None /\ UNCHANGED <<ban_list, clients, server>>
      /\ now' \in {now, now + 1}
  BY DEF Tick, Arrive, PeerLeaves, PeerStep, client_loop, ReaderStarts, ReadLine, ReadEof,
         SendEmpty, ReaderFails, ReaderStep
<1> QED
  BY <1>1, SilentStep, SameRecords DEF Panicked

LEMMA PanicEffects ==
    ASSUME NEW why \in Panics, Panic(why)
    PROVE  Effects
  BY DEF Effects, Panic, Panicked

LEMMA AdmitEffects ==
    ASSUME TypeOK, Admit
    PROVE  Effects
<1>1. guest \in Conns /\ GuestAddr \in Addrs /\ clients \in Maps /\ ~Panicked
  <2>1. server \in {"token", "name", "welcome"}
    BY DEF Admit, Authenticate, NoName, Named, Welcome
  <2> QED
    BY <2>1, ConnsAssumption DEF TypeOK, GuestAddr, Maps, Panicked, Panics
<1>2. CASE UNCHANGED <<now, clients, ban_list>> /\ broadcast' = None
  BY <1>1, <1>2, SilentStep, SameRecords
<1>3. ASSUME NEW why \in Panics, Panic(why)
      PROVE  Effects
  BY <1>3, PanicEffects
<1>4. CASE Authenticate \/ NoName
  BY <1>2, <1>3, <1>4 DEF Authenticate, NoName, Dismiss, Panics
<1>5. CASE Named
  <2> DEFINE client == clients[GuestAddr]
             strikes == ConnStrikes(client)
  <2>1. ASSUME NEW new \in Client, Register(new), new.last_message = now,
               client # None => new.msg_strikes = client.msg_strikes
        PROVE  Effects
    <3>1. /\ clients'[GuestAddr] = new
          /\ \A a \in Addrs \ {GuestAddr} : clients'[a] = clients[a]
      BY <1>1, <2>1 DEF Register, Maps
    <3>2. \A a \in Addrs : RecordTo(clients', a)
      BY <2>1, <3>1, RecordAssumption DEF RecordTo
    <3>3. broadcast' = None /\ UNCHANGED <<now, ban_list>>
      BY <2>1 DEF Register
    <3> QED
      BY <1>1, <3>2, <3>3, SilentStep
  <2>2. NewClient(guest) \in Client
    BY <1>1, NewClientType
  <2>3. CASE ~Present(GuestAddr) /\ Register(NewClient(guest))
    <3>1. NewClient(guest).last_message = now
      BY DEF NewClient
    <3> QED
      BY <2>1, <2>2, <2>3, <3>1 DEF Present
  <2>4. CASE Present(GuestAddr) /\ ~Overflows(strikes) /\ Register(Refreshed(client))
    <3>1. client \in Client /\ strikes \in Nat
      BY <1>1, <2>4, NumbersAssumption DEF Maps, Present, ConnStrikes, Client
    <3>2. strikes \in 0..MaxU8
      BY <2>4, <3>1, NumbersAssumption DEF Overflows
    <3>3. /\ Refreshed(client) \in Client /\ Refreshed(client).last_message = now
          /\ Refreshed(client).msg_strikes = client.msg_strikes
      BY <2>2, <3>1, <3>2 DEF Refreshed, Client, NewClient
    <3> QED
      BY <2>1, <2>4, <3>3
  <2>5. CASE /\ Present(GuestAddr) /\ ~Overflows(strikes)
             /\ clients' = [clients EXCEPT ![GuestAddr].conn_strikes = strikes]
             /\ ban_list' = Ban(GuestAddr)
             /\ Dismiss
    <3>1. /\ \A a \in Addrs \ {GuestAddr} : clients'[a] = clients[a] /\ ban_list'[a] = ban_list[a]
          /\ ban_list'[GuestAddr] = now
      BY <1>1, <2>5 DEF Ban, Maps, TypeOK
    <3>2. broadcast' = None /\ now' = now
      BY <2>5 DEF Dismiss
    <3>3. \A a \in Addrs : Silently(a)
      BY <3>1, <3>2 DEF Silently, RecordTo
    <3> QED
      BY <1>1, <3>2, <3>3 DEF Effects
  <2>6. CASE Panic("overflow")
    BY <1>3, <2>6 DEF Panics
  <2> QED
    BY <1>5, <2>3, <2>4, <2>5, <2>6 DEF Named
<1>6. CASE Welcome
  <2>1. clients' = clients \/ clients' = Disconnect(clients, {GuestAddr})
    BY <1>6 DEF Welcome
  <2>2. \A a \in Addrs : RecordTo(clients', a)
    BY <1>1, <2>1, DisconnectRecords DEF RecordTo
  <2>3. broadcast' = None /\ UNCHANGED <<now, ban_list>>
    BY <1>6 DEF Welcome
  <2> QED
    BY <1>1, <2>2, <2>3, SilentStep
<1> QED
  BY <1>4, <1>5, <1>6 DEF Admit

LEMMA ReceiveEffects ==
    ASSUME TypeOK, Receive
    PROVE  Effects
<1>1. /\ channel # << >> /\ server = "receive" /\ Purged \in Maps /\ ~Panicked
      /\ ban_list \in [Addrs -> Nat \cup {None}] /\ now \in Nat
  BY PurgedType
     DEF TypeOK, Receive, ReceiveConnected, BannedLine, LineOfStranger,
         LineOfClient, ReceiveDisconnected, Receives, Panicked, Panics
<1>2. Head(channel).kind # "ClientConnected" => Sender \in Addrs
  BY <1>1, HeadType DEF Sender
<1>3. \A a \in Addrs : RecordTo(Purged, a) /\ (Purged[a] # None => Purged[a] = clients[a])
  BY PurgedRecords
<1>4. ASSUME Handle
      PROVE  now' = now /\ ~Panicked'
  BY <1>1, <1>4 DEF Handle, Panicked
<1>5. CASE ReceiveConnected
  <2>1. CASE Panic("unwrap")
    BY <2>1, PanicEffects DEF Panics
  <2>2. CASE ~Panic("unwrap")
    <3>1. clients' = Purged /\ broadcast' = None /\ UNCHANGED <<now, ban_list>>
      BY <1>5, <2>2 DEF ReceiveConnected
    <3> QED
      BY <1>1, <1>3, <3>1, SilentStep
  <2> QED
    BY <2>1, <2>2
<1>6. CASE BannedLine
  <2>1. Sender \in Addrs /\ Handle /\ ban_list[Sender] # None
    BY <1>2, <1>6 DEF BannedLine, Receives, Banned
  <2>2. CASE Warn(Purged) /\ UNCHANGED ban_list
    <3>1. \A a \in Addrs : RecordTo(clients', a)
      BY <1>1, <1>3, <2>2, DistributeRecords DEF RecordTo
    <3>2. broadcast' = None
      BY <2>2 DEF Warn
    <3> QED
      BY <1>1, <1>4, <2>1, <2>2, <3>1, <3>2, SilentStep
  <2>3. CASE BanOver /\ Distribute(Forgiven) /\ ban_list' = [ban_list EXCEPT ![Sender] = None]
    <3>1. /\ Forgiven \in Maps
          /\ \A a \in Addrs \ {Sender} : Forgiven[a] = Purged[a]
      BY <1>1, <2>1, ForgivenType
    <3>2. \A a \in Addrs \ {Sender} : RecordTo(clients', a) /\ ban_list'[a] = ban_list[a]
      BY <1>1, <1>3, <2>3, <3>1, DistributeRecords DEF RecordTo
    <3>3. Lifts(Sender)
      BY <1>1, <2>1, <2>3 DEF Lifts, BanOver
    <3>4. broadcast' = None \/ (broadcast' # None /\ broadcast'.from = Sender)
      <4>1. PICK to : \/ broadcast' = None
                      \/ broadcast' = [from |-> Sender, to |-> to]
        BY <2>3 DEF Distribute
      <4> QED
        BY <4>1
    <3>5. \A a \in Addrs \ {Sender} : Silently(a)
      BY <3>2, <3>4 DEF Silently
    <3>6. Silently(Sender) \/ Says(Sender)
      BY <1>4, <2>1, <3>3, <3>4 DEF Silently, Says
    <3> QED
      BY <1>1, <1>4, <2>1, <3>5, <3>6 DEF Effects
  <2> QED
    BY <1>6, <2>2, <2>3 DEF BannedLine
<1>7. CASE LineOfStranger
  <2>1. /\ Handle /\ clients' = Purged /\ broadcast' = None /\ UNCHANGED ban_list
    BY <1>7 DEF LineOfStranger
  <2> QED
    BY <1>1, <1>3, <1>4, <2>1, SilentStep
<1>8. CASE LineOfClient
  <2>1. Sender \in Addrs /\ Purged[Sender] # None /\ ban_list[Sender] = None
    BY <1>8, LineCases DEF Banned
  <2>2. Purged[Sender] = clients[Sender] /\ clients[Sender] \in Client
    BY <1>1, <1>3, <2>1 DEF Maps
  <2>3. ASSUME NEW strikes \in 0..3, Handle, Distribute(Noted(strikes)) \/ Warn(Noted(strikes))
        PROVE  /\ \A a \in Addrs \ {Sender} : RecordTo(clients', a)
               /\ clients'[Sender] # None /\ clients'[Sender].last_message = now
               /\ clients'[Sender].msg_strikes = strikes
    <3>1. /\ Noted(strikes) \in Maps
          /\ Noted(strikes)[Sender] # None
          /\ Noted(strikes)[Sender].last_message = now
          /\ Noted(strikes)[Sender].msg_strikes = strikes
          /\ \A a \in Addrs \ {Sender} : Noted(strikes)[a] = Purged[a]
      BY <2>1, NotedType
    <3>2. \A a \in Addrs \ {Sender} : RecordTo(clients', a)
      BY <1>3, <2>3, <3>1, DistributeRecords DEF RecordTo
    <3> QED
      BY <2>1, <2>3, <3>1, <3>2, DistributeRecords
  <2>4. CASE Handle /\ Warn(Noted(3)) /\ ban_list' = Ban(Sender)
    <3>1. /\ ban_list'[Sender] = now /\ \A a \in Addrs \ {Sender} : ban_list'[a] = ban_list[a]
      BY <1>1, <2>1, <2>4 DEF Ban
    <3>2. broadcast' = None
      BY <2>4 DEF Warn
    <3>3. \A a \in Addrs : Silently(a)
      BY <2>3, <2>4, <3>1, <3>2 DEF Silently
    <3> QED
      BY <1>1, <1>4, <2>4, <3>2, <3>3 DEF Effects
  <2>5. ASSUME NEW strikes \in 0..3, Handle, Distribute(Noted(strikes)), UNCHANGED ban_list,
               \/ /\ now - clients[Sender].last_message >= StrikeWindow
                  /\ strikes = clients[Sender].msg_strikes
               \/ clients[Sender].msg_strikes \in 0..1 /\ strikes = clients[Sender].msg_strikes + 1
        PROVE  Effects
    <3>1. /\ \A a \in Addrs \ {Sender} : RecordTo(clients', a)
          /\ clients'[Sender] # None /\ clients'[Sender].last_message = now
          /\ clients'[Sender].msg_strikes = strikes
      BY <2>3, <2>5
    <3>2. Noted(strikes)[Sender] # None
      BY <2>1, NotedType
    <3>3. PICK to : broadcast' = [from |-> Sender, to |-> to]
      BY <2>5, <3>2 DEF Distribute
    <3>4. broadcast' # None /\ broadcast'.from = Sender
      <4>1. Noted(strikes) \in Maps /\ \A a \in Audience(Noted(strikes)) : Noted(strikes)[a].stream \in Conns
        BY <2>1, NotedType DEF Audience, Maps, Client
      <4>2. broadcast' \in [from : Addrs, to : SUBSET Conns]
        BY <2>1, <2>5, <3>2, <4>1 DEF Distribute
      <4> QED
        BY <3>3, <4>2, RecordAssumption
    <3>5. Says(Sender)
      BY <1>4, <2>1, <2>2, <2>5, <3>1, <3>4 DEF Says
    <3>6. \A a \in Addrs \ {Sender} : Silently(a)
      BY <2>5, <3>1, <3>4 DEF Silently
    <3> QED
      BY <1>1, <1>4, <2>1, <2>5, <3>5, <3>6 DEF Effects
  <2>6. /\ clients[Sender].msg_strikes \in 0..3
        /\ clients[Sender].msg_strikes \in 0..1 => clients[Sender].msg_strikes + 1 \in 0..3
    BY <2>2 DEF Client
  <2>7. CASE Panic("strikes")
    BY <2>7, PanicEffects DEF Panics
  <2> QED
    BY <1>8, <2>2, <2>4, <2>5, <2>6, <2>7, LineCases
<1>9. CASE ReceiveDisconnected
  <2>1. /\ Handle /\ clients' = Disconnect(Purged, {Sender}) /\ broadcast' = None
        /\ UNCHANGED ban_list
    BY <1>9 DEF ReceiveDisconnected
  <2>2. \A a \in Addrs : RecordTo(clients', a)
    BY <1>1, <1>3, <2>1, DisconnectRecords DEF RecordTo
  <2> QED
    BY <1>1, <1>4, <2>1, <2>2, SilentStep
<1> QED
  BY <1>5, <1>6, <1>7, <1>8, <1>9 DEF Receive

LEMMA NextEffects == TypeOK /\ Next => Effects
  BY NetworkEffects, ReceiveEffects, AdmitEffects DEF Next

-----------------------------------------------------------------------------
(* The two promises of the moderation                                      *)

LEMMA HistoryIsMChat == HistorySpec => Spec
<1>1. HistoryInit => Init
  BY DEF HistoryInit
<1>2. [HistoryNext]_hvars => [Next]_vars
  BY DEF HistoryNext, hvars
<1> QED
  BY <1>1, <1>2, PTL DEF HistorySpec, Spec

(* The last ban of an address is in force, or it has been served.          *)
BansServed ==
    ~Panicked => \A a \in Addrs :
        IF ban_list[a] # None THEN banned_since[a] = ban_list[a]
        ELSE banned_since[a] # None => now - banned_since[a] >= BanTime

BanInv ==
    /\ TypeOK
    /\ banned_since \in [Addrs -> Nat \cup {None}]
    /\ BansServed
    /\ Panicked => broadcast = None
    /\ BanServed

LEMMA BanStep ==
    ASSUME BanInv, HistoryNext, TypeOK'
    PROVE  BanInv'
<1>1. Effects
  BY NextEffects DEF BanInv, HistoryNext
<1>2. \A a \in Addrs : banned_since'[a] = IF ban_list'[a] # None THEN ban_list'[a] ELSE banned_since[a]
  BY DEF HistoryNext
<1>3. banned_since' \in [Addrs -> Nat \cup {None}]
  BY DEF BanInv, HistoryNext, TypeOK
<1>4. /\ now \in Nat /\ BanTime \in Nat /\ now' \in Nat /\ now' >= now
      /\ ban_list \in [Addrs -> Nat \cup {None}] /\ ban_list' \in [Addrs -> Nat \cup {None}]
      /\ banned_since \in [Addrs -> Nat \cup {None}] /\ None \notin Nat
  BY <1>1, NumbersAssumption, NoneAssumption DEF BanInv, TypeOK, Effects
<1>5. ASSUME ~Panicked', NEW a \in Addrs
      PROVE  /\ IF ban_list'[a] # None THEN banned_since'[a] = ban_list'[a]
                ELSE banned_since'[a] # None => now' - banned_since'[a] >= BanTime
             /\ broadcast' # None /\ broadcast'.from = a /\ banned_since'[a] # None =>
                   now' - banned_since'[a] >= BanTime
  <2>1. ~Panicked /\ (Silently(a) \/ Says(a))
    BY <1>1, <1>5 DEF Effects
  <2>2. IF ban_list[a] # None THEN banned_since[a] = ban_list[a]
        ELSE banned_since[a] # None => now - banned_since[a] >= BanTime
    BY <2>1 DEF BanInv, BansServed
  <2>3. banned_since[a] \in Nat \cup {None} /\ ban_list[a] \in Nat \cup {None}
    BY <1>4
  <2>4. CASE ban_list'[a] # None
    BY <1>2, <1>4, <2>1, <2>4 DEF Silently, Says, Lifts
  <2>5. CASE ban_list'[a] = None
    <3>1. banned_since'[a] = banned_since[a]
      BY <1>2, <2>5
    <3>2. banned_since[a] # None => now - banned_since[a] >= BanTime
      BY <1>4, <2>1, <2>2, <2>5 DEF Silently, Says, Lifts
    <3> QED
      BY <1>4, <2>3, <2>5, <3>1, <3>2
  <2> QED
    BY <2>4, <2>5
<1>6. BansServed'
  BY <1>5 DEF BansServed
<1>7. Panicked' => broadcast' = None
  BY <1>1 DEF Effects
<1>8. BanServed'
  <2> SUFFICES ASSUME broadcast' # None, banned_since'[broadcast'.from] # None
               PROVE  now' - banned_since'[broadcast'.from] >= BanTime
    BY DEF BanServed
  <2>1. broadcast'.from \in Addrs
    BY DEF TypeOK
  <2> QED
    BY <1>5, <1>7, <2>1
<1> QED
  BY <1>3, <1>6, <1>7, <1>8 DEF BanInv

(* No line of an address is distributed before its last ban is over, for   *)
(* any thresholds, however often it is banned, purged or reconnects        *)
(* (mchat/README.md, is_allowed_to_send_msg).                              *)
THEOREM BansAreServed == HistorySpec => []BanServed
<1>1. HistoryInit => BanInv
  <2> SUFFICES ASSUME HistoryInit PROVE BanInv
    OBVIOUS
  <2>1. TypeOK
    BY InitType DEF HistoryInit
  <2> QED
    BY <2>1 DEF HistoryInit, Init, BanInv, BansServed, BanServed
<1>2. BanInv /\ [HistoryNext]_hvars /\ TypeOK' => BanInv'
  <2> SUFFICES ASSUME BanInv, [HistoryNext]_hvars, TypeOK' PROVE BanInv'
    OBVIOUS
  <2>1. CASE HistoryNext
    BY <2>1, BanStep
  <2>2. CASE UNCHANGED hvars
    BY <2>2 DEF hvars, vars, BanInv, BansServed, BanServed, Panicked
  <2> QED
    BY <2>1, <2>2
<1>3. HistorySpec => []TypeOK
  BY HistoryIsMChat, TypeCorrect, PTL
<1>4. BanInv => BanServed
  BY DEF BanInv
<1> QED
  BY <1>1, <1>2, <1>3, <1>4, PTL DEF HistorySpec

(* What is left of the times of earlier lines is some of them.             *)
LEMMA FilteredTimes ==
    ASSUME NEW s \in Seq(Nat), NEW Keep
    PROVE  /\ Filter(s, Keep) \in Seq(Nat)
           /\ Len(Filter(s, Keep)) \in Nat /\ Len(s) \in Nat
           /\ Len(Filter(s, Keep)) <= Len(s)
           /\ \A i \in 1..Len(Filter(s, Keep)) :
                 Filter(s, Keep)[i] \in Keep
                    /\ \E j \in 1..Len(s) : Filter(s, Keep)[i] = s[j]
<1> DEFINE r == Filter(s, Keep)
<1>1. r \in Seq(Nat) /\ IsFiltered(r, s, Keep, Len(s)) /\ Len(s) \in Nat
  BY Filtered
<1> HIDE DEF r
<1>2. PICK h : Takes(h, r, s, Keep, Len(s))
  BY <1>1 DEF IsFiltered
<1>3. Len(r) \in Nat /\ Len(r) <= Len(s)
  BY <1>1 DEF IsFiltered
<1>4. \A i \in 1..Len(r) : r[i] \in Keep /\ \E j \in 1..Len(s) : r[i] = s[j]
  BY <1>2 DEF Takes
<1> QED
  BY <1>1, <1>3, <1>4 DEF r

(* All times are no later than t.                                          *)
Until(times, t) == \A i \in 1..Len(times) : times[i] <= t

(* Only the line that lifted a ban is noted; or no line counts any more;   *)
(* or the record knows of all: each beyond two has been a strike.          *)
Accounted(a) ==
    \/ Len(spoken[a]) <= 1
    \/ \A i \in 1..Len(spoken[a]) : now - spoken[a][i] >= StrikeWindow
    \/ /\ clients[a] # None
       /\ Until(spoken[a], clients[a].last_message)
       /\ Len(spoken[a]) <= clients[a].msg_strikes + 2

RateInv ==
    /\ TypeOK
    /\ spoken \in [Addrs -> Seq(Nat)]
    /\ \A a \in Addrs : Until(spoken[a], now)
    /\ ~Panicked => \A a \in Addrs :
          IF ban_list[a] # None THEN Until(spoken[a], ban_list[a]) ELSE Accounted(a)
    /\ RateLimited

LEMMA Older ==
    ASSUME NEW x \in Nat, NEW y \in Nat, NEW t \in Nat, NEW u \in Nat,
           NEW w \in Nat, NEW v \in Nat, x <= y, t - y >= v, w <= v, u >= t
    PROVE  u - x >= w
OBVIOUS

(* An address that says nothing stays within its account.                  *)
LEMMA SilentRate ==
    ASSUME RateInv, TypeOK', now' \in {now, now + 1}, ~Panicked, NEW a \in Addrs,
           Silently(a), spoken'[a] = spoken[a]
    PROVE  IF ban_list'[a] # None THEN Until(spoken'[a], ban_list'[a]) ELSE Accounted(a)'
<1>1. /\ now \in Nat /\ now' \in Nat /\ now' >= now
      /\ ban_list[a] \in Nat \cup {None} /\ ban_list'[a] \in Nat \cup {None}
      /\ clients[a] \in Client \cup {None} /\ clients'[a] \in Client \cup {None}
      /\ spoken[a] \in Seq(Nat) /\ None \notin Nat /\ None \notin Client
  BY NoneAssumption, RecordAssumption DEF RateInv, TypeOK
<1>2. /\ StrikeWindow \in Nat /\ BanTime \in Nat /\ PurgeAfter \in Nat
      /\ StrikeWindow <= BanTime /\ StrikeWindow <= PurgeAfter
  BY NumbersAssumption, ThresholdsAssumption
<1>3. PICK n \in Nat : n = Len(spoken[a])
  BY <1>1
<1>4. \A i \in 1..n : spoken[a][i] \in Nat /\ spoken[a][i] <= now
  BY <1>1, <1>3 DEF RateInv, Until
<1>7. now \in Nat /\ now' \in Nat /\ now' >= now
  BY <1>1
<1>5. CASE ban_list'[a] # None
  <2>1. CASE ban_list'[a] = now
    BY <1>3, <1>4, <1>5, <2>1 DEF Until
  <2>2. CASE ban_list'[a] = ban_list[a]
    BY <1>5, <2>2 DEF RateInv, Until
  <2> QED
    BY <1>5, <2>1, <2>2 DEF Silently, Lifts
<1>6. CASE ban_list'[a] = None
  <2>1. CASE Lifts(a)
    <3>1. \A i \in 1..n : spoken[a][i] <= ban_list[a] /\ ban_list[a] \in Nat /\ now - ban_list[a] >= BanTime
      BY <1>1, <1>3, <2>1 DEF RateInv, Until, Lifts
    <3>2. \A i \in 1..n : now' - spoken[a][i] >= StrikeWindow
      <4> TAKE i \in 1..n
      <4>1. spoken[a][i] \in Nat
        BY <1>4
      <4>2. ban_list[a] \in Nat /\ spoken[a][i] <= ban_list[a] /\ now - ban_list[a] >= BanTime
        BY <3>1
      <4> QED
        BY ONLY <1>2, <1>7, <4>1, <4>2, Older
    <3> QED
      BY <1>3, <1>6, <3>2 DEF Accounted
  <2>2. CASE ban_list[a] = None /\ RecordTo(clients', a)
    <3>1. Accounted(a)
      BY <2>2 DEF RateInv
    <3>2. CASE n <= 1
      BY <1>3, <1>6, <3>2 DEF Accounted
    <3>3. CASE \A i \in 1..n : now - spoken[a][i] >= StrikeWindow
      <4>1. \A i \in 1..n : now' - spoken[a][i] >= StrikeWindow
        BY <1>1, <1>2, <1>4, <3>3
      <4> QED
        BY <1>3, <1>6, <4>1 DEF Accounted
    <3>4. CASE /\ clients[a] # None /\ n <= clients[a].msg_strikes + 2
               /\ \A i \in 1..n : spoken[a][i] <= clients[a].last_message
      <4>1. clients[a].last_message \in Nat
        BY <1>1, <3>4 DEF Client
      <4>2. CASE clients'[a] = None
        <5>1. now - clients[a].last_message >= PurgeAfter
          BY <2>2, <3>4, <4>2 DEF RecordTo
        <5>2. \A i \in 1..n : now' - spoken[a][i] >= StrikeWindow
          <6> TAKE i \in 1..n
          <6>1. spoken[a][i] \in Nat
            BY <1>4
          <6>2. spoken[a][i] <= clients[a].last_message
            BY <3>4
          <6> QED
            BY ONLY <1>2, <1>7, <4>1, <5>1, <6>1, <6>2, Older
        <5> QED
          BY <1>3, <1>6, <5>2 DEF Accounted
      <4>3. CASE clients'[a] # None
        <5>1. /\ clients'[a].msg_strikes = clients[a].msg_strikes
              /\ clients'[a].last_message \in {clients[a].last_message, now}
          BY <2>2, <3>4, <4>3 DEF RecordTo
        <5>2. \A i \in 1..n : spoken[a][i] <= clients'[a].last_message
          BY <1>4, <3>4, <5>1
        <5> QED
          BY <1>3, <1>6, <3>4, <4>3, <5>1, <5>2 DEF Accounted, Until
      <4> QED
        BY <4>2, <4>3
    <3> QED
      BY <1>3, <3>1, <3>2, <3>3, <3>4 DEF Accounted, Until
  <2> QED
    BY <1>1, <1>6, <2>1, <2>2 DEF Silently
<1> QED
  BY <1>5, <1>6

(* A line that is distributed is within the account as well, and an        *)
(* account never allows more than four.                                    *)
LEMMA SayingRate ==
    ASSUME RateInv, TypeOK', ~Panicked, NEW a \in Addrs, Says(a),
           spoken'[a] = Append(Filter(spoken[a], Recent), now)
    PROVE  /\ Len(spoken'[a]) <= 4 /\ spoken'[a] \in Seq(Nat)
           /\ Until(spoken'[a], now')
           /\ ban_list'[a] = None /\ Accounted(a)'
<1>1. /\ now \in Nat /\ now' = now
      /\ ban_list[a] \in Nat \cup {None}
      /\ clients[a] \in Client \cup {None} /\ clients'[a] \in Client \cup {None}
      /\ spoken[a] \in Seq(Nat) /\ None \notin Nat /\ None \notin Client
  BY NoneAssumption, RecordAssumption DEF RateInv, TypeOK, Says
<1>2. /\ StrikeWindow \in Nat /\ BanTime \in Nat /\ StrikeWindow <= BanTime
  BY NumbersAssumption, ThresholdsAssumption
<1>3. PICK r \in Seq(Nat) : r = Filter(spoken[a], Recent)
  BY <1>1, FilteredTimes
<1>4. PICK n \in Nat, m \in Nat :
          /\ n = Len(spoken[a]) /\ m = Len(r) /\ m <= n
          /\ \A i \in 1..m : r[i] \in Recent /\ \E j \in 1..n : r[i] = spoken[a][j]
  <2>1. /\ Len(r) \in Nat /\ Len(spoken[a]) \in Nat /\ Len(r) <= Len(spoken[a])
        /\ \A i \in 1..Len(r) : r[i] \in Recent /\ \E j \in 1..Len(spoken[a]) : r[i] = spoken[a][j]
    <3>1. PICK s \in Seq(Nat) : s = spoken[a]
      BY <1>1
    <3>2. PICK K : K = Recent
      OBVIOUS
    <3>3. r = Filter(s, K)
      BY <1>3, <3>1, <3>2
    <3>4. /\ Len(r) \in Nat /\ Len(s) \in Nat /\ Len(r) <= Len(s)
          /\ \A i \in 1..Len(r) : r[i] \in K /\ \E j \in 1..Len(s) : r[i] = s[j]
      BY <3>3, FilteredTimes
    <3> QED
      BY <3>1, <3>2, <3>4
  <2> WITNESS Len(spoken[a]) \in Nat, Len(r) \in Nat
  <2> QED
    BY <2>1
<1>5. \A i \in 1..m : r[i] \in Nat /\ r[i] <= now /\ now - r[i] < StrikeWindow
  BY <1>1, <1>4 DEF Recent
<1>14. now \in Nat /\ now >= now
  BY <1>1
<1>15. n \in Nat /\ m \in Nat /\ m <= n
  BY <1>4
<1>6. /\ Len(spoken'[a]) = m + 1 /\ spoken'[a] \in Seq(Nat) /\ spoken'[a][m + 1] = now
      /\ \A i \in 1..m : spoken'[a][i] = r[i]
  BY <1>1, <1>3, <1>4
<1>7. \A i \in 1..m + 1 : spoken'[a][i] <= now
  <2> TAKE i \in 1..m + 1
  <2>1. CASE i = m + 1
    BY <1>6, <1>14, <2>1
  <2>2. CASE i # m + 1
    <3>1. i \in 1..m + 1
      OBVIOUS
    <3>2. i \in 1..m
      BY ONLY <1>15, <2>2, <3>1
    <3> QED
      BY <1>5, <1>6, <3>2
  <2> QED
    BY <2>1, <2>2
<1>8. Until(spoken'[a], now')
  BY <1>1, <1>6, <1>7 DEF Until
<1>9. ban_list'[a] = None
  BY DEF Says, Lifts
<1>10. ASSUME \A j \in 1..n : now - spoken[a][j] >= StrikeWindow
       PROVE  m = 0
  <2>1. SUFFICES ASSUME 1 \in 1..m PROVE FALSE
    BY <1>4
  <2>2. PICK j \in 1..n : r[1] = spoken[a][j]
    BY <1>4, <2>1
  <2>3. r[1] \in Nat /\ now - r[1] < StrikeWindow
    BY <1>5, <2>1
  <2>4. now - r[1] >= StrikeWindow
    BY <1>10, <2>2
  <2> QED
    BY <1>1, <1>2, <2>3, <2>4
<1>11. m = 0 => Len(spoken'[a]) <= 4 /\ Accounted(a)'
  BY <1>6 DEF Accounted
<1>12. CASE Lifts(a)
  <2>1. \A j \in 1..n : spoken[a][j] <= ban_list[a] /\ ban_list[a] \in Nat /\ now - ban_list[a] >= BanTime
    BY <1>1, <1>4, <1>12 DEF RateInv, Until, Lifts
  <2>2. \A j \in 1..n : now - spoken[a][j] >= StrikeWindow
    <3> TAKE j \in 1..n
    <3>1. spoken[a][j] \in Nat
      BY <1>1, <1>4
    <3>2. ban_list[a] \in Nat /\ spoken[a][j] <= ban_list[a] /\ now - ban_list[a] >= BanTime
      BY <2>1
    <3> QED
      BY ONLY <1>2, <1>14, <3>1, <3>2, Older
  <2> QED
    BY <1>6, <1>8, <1>9, <1>10, <1>11, <2>2
<1>13. CASE ~Lifts(a)
  <2>1. /\ ban_list[a] = None /\ clients[a] # None /\ clients'[a] # None
        /\ clients'[a].last_message = now
        /\ \/ /\ now - clients[a].last_message >= StrikeWindow
              /\ clients'[a].msg_strikes = clients[a].msg_strikes
           \/ /\ clients[a].msg_strikes \in 0..1
              /\ clients'[a].msg_strikes = clients[a].msg_strikes + 1
    BY <1>13 DEF Says
  <2>2. clients[a].msg_strikes \in 0..3 /\ clients[a].last_message \in Nat
    BY <1>1, <2>1 DEF Client
  <2>3. ASSUME m + 1 <= clients'[a].msg_strikes + 2
        PROVE  Accounted(a)'
    BY <1>1, <1>6, <1>7, <2>1, <2>3 DEF Accounted, Until
  <2>4. CASE m = 0
    BY <1>6, <1>8, <1>9, <1>11, <2>4
  <2>7. clients'[a].msg_strikes \in Nat
    BY <2>1, <2>2
  <2>5. CASE n <= 1
    <3>1. m + 1 <= 2 /\ m + 1 <= clients'[a].msg_strikes + 2
      BY ONLY <1>15, <2>5, <2>7
    <3> QED
      BY <1>6, <1>8, <1>9, <2>3, <3>1
  <2>6. CASE n <= clients[a].msg_strikes + 2 /\ Until(spoken[a], clients[a].last_message)
    <3>1. CASE now - clients[a].last_message >= StrikeWindow
      <4>1. \A j \in 1..n : spoken[a][j] \in Nat /\ spoken[a][j] <= clients[a].last_message
        <5>1. \A j \in 1..n : spoken[a][j] <= clients[a].last_message
          <6>1. n = Len(spoken[a])
            BY <1>4
          <6> QED
            BY ONLY <2>6, <6>1 DEF Until
        <5>2. \A j \in 1..n : spoken[a][j] \in Nat
          <6>1. n = Len(spoken[a]) /\ spoken[a] \in Seq(Nat)
            BY <1>1, <1>4
          <6> QED
            BY ONLY <6>1
        <5> QED
          BY ONLY <5>1, <5>2
      <4>2. \A j \in 1..n : now - spoken[a][j] >= StrikeWindow
        <5> TAKE j \in 1..n
        <5>1. spoken[a][j] \in Nat /\ spoken[a][j] <= clients[a].last_message
          BY <4>1
        <5>2. StrikeWindow \in Nat /\ StrikeWindow <= StrikeWindow
          BY <1>2
        <5> QED
          BY ONLY <1>14, <2>2, <3>1, <5>1, <5>2, Older
      <4> QED
        BY <1>10, <2>4, <4>2
    <3>2. CASE clients[a].msg_strikes \in 0..1 /\ clients'[a].msg_strikes = clients[a].msg_strikes + 1
      <4>1. n <= clients[a].msg_strikes + 2
        BY <2>6
      <4>2. m + 1 <= 4 /\ m + 1 <= clients'[a].msg_strikes + 2
        BY ONLY <1>15, <2>2, <3>2, <4>1
      <4> QED
        BY <1>6, <1>8, <1>9, <2>3, <4>2
    <3> QED
      BY <2>1, <3>1, <3>2
  <2> QED
    BY <1>4, <1>10, <2>1, <2>4, <2>5, <2>6 DEF RateInv, Accounted
<1> QED
  BY <1>12, <1>13

LEMMA RateStep ==
    ASSUME RateInv, HistoryNext, TypeOK'
    PROVE  RateInv'
<1>1. Effects /\ now \in Nat /\ now' \in Nat /\ Burst >= 4 /\ Burst \in Nat
  BY NextEffects, ThresholdsAssumption DEF RateInv, HistoryNext, TypeOK
<1>2. \A a \in Addrs : spoken'[a] = IF broadcast' # None /\ broadcast'.from = a
                                    THEN Append(Filter(spoken[a], Recent), now) ELSE spoken[a]
  BY DEF HistoryNext
<1>3. DOMAIN spoken' = Addrs /\ spoken' = [a \in Addrs |-> spoken'[a]]
  BY DEF HistoryNext
<1>4. ASSUME NEW a \in Addrs
      PROVE  /\ spoken'[a] \in Seq(Nat) /\ Until(spoken'[a], now') /\ Len(spoken'[a]) <= Burst
             /\ ~Panicked' => IF ban_list'[a] # None THEN Until(spoken'[a], ban_list'[a]) ELSE Accounted(a)'
  <2>1. CASE broadcast' # None /\ broadcast'.from = a
    <3>1. ~Panicked' /\ ~Panicked /\ Says(a)
      BY <1>1, <2>1 DEF Effects, Silently
    <3>2. spoken'[a] = Append(Filter(spoken[a], Recent), now)
      BY <1>2, <2>1
    <3>3. /\ Len(spoken'[a]) <= 4 /\ spoken'[a] \in Seq(Nat)
          /\ Until(spoken'[a], now') /\ ban_list'[a] = None /\ Accounted(a)'
      BY <3>1, <3>2, SayingRate
    <3>4. Len(spoken'[a]) <= Burst
      <4>1. Len(spoken'[a]) \in Nat
        BY <3>3
      <4> QED
        BY <1>1, <3>3, <4>1
    <3> QED
      BY <3>3, <3>4
  <2>2. CASE ~(broadcast' # None /\ broadcast'.from = a)
    <3>1. spoken'[a] = spoken[a]
      BY <1>2, <2>2
    <3>2. spoken'[a] \in Seq(Nat) /\ Len(spoken'[a]) <= Burst
      BY <3>1 DEF RateInv, RateLimited
    <3>3. Until(spoken'[a], now')
      BY <1>1, <3>1 DEF RateInv, Until, Effects
    <3>4. ~Panicked' => ~Panicked /\ Silently(a)
      BY <1>1, <2>2 DEF Effects, Says
    <3> QED
      BY <1>1, <3>1, <3>2, <3>3, <3>4, SilentRate DEF Effects
  <2> QED
    BY <2>1, <2>2
<1>5. spoken' \in [Addrs -> Seq(Nat)]
  BY <1>3, <1>4
<1> QED
  BY <1>4, <1>5 DEF RateInv, RateLimited

(* At most Burst lines, four, of an address are distributed within one     *)
(* StrikeWindow, for any thresholds with which a ban and the time until a  *)
(* purge are no shorter than that (is_allowed_to_send_msg).                *)
THEOREM RateIsLimited == HistorySpec => []RateLimited
<1>1. HistoryInit => RateInv
  <2> SUFFICES ASSUME HistoryInit PROVE RateInv
    OBVIOUS
  <2>1. TypeOK
    BY InitType DEF HistoryInit
  <2>2. spoken = [a \in Addrs |-> << >>]
    BY DEF HistoryInit
  <2>3. \A a \in Addrs : spoken[a] = << >> /\ Len(spoken[a]) = 0 /\ << >> \in Seq(Nat)
    BY <2>2
  <2> QED
    BY <2>1, <2>2, <2>3, ThresholdsAssumption
       DEF HistoryInit, Init, RateInv, Until, Accounted, RateLimited
<1>2. RateInv /\ [HistoryNext]_hvars /\ TypeOK' => RateInv'
  <2> SUFFICES ASSUME RateInv, [HistoryNext]_hvars, TypeOK' PROVE RateInv'
    OBVIOUS
  <2>1. CASE HistoryNext
    BY <2>1, RateStep
  <2>2. CASE UNCHANGED hvars
    BY <2>2 DEF hvars, vars, RateInv, Until, Accounted, RateLimited, Panicked
  <2> QED
    BY <2>1, <2>2
<1>3. HistorySpec => []TypeOK
  BY HistoryIsMChat, TypeCorrect, PTL
<1>4. RateInv => RateLimited
  BY DEF RateInv
<1> QED
  BY <1>1, <1>2, <1>3, <1>4, PTL DEF HistorySpec

=============================================================================
