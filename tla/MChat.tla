------------------------------- MODULE MChat -------------------------------
(***************************************************************************)
(* The chat server of mchat/src/main.rs: the accept loop, one reader       *)
(* thread per admitted stream (client_loop) and the server thread, which   *)
(* owns the maps of clients and bans, share an mpsc channel.  The server   *)
(* also prompts a newcomer for token and name, with blocking reads, so the *)
(* wait for them is a control state of its own.                            *)
(***************************************************************************)
EXTENDS Integers, Sequences, FiniteSets

CONSTANTS
    Conns,           \* accepted TCP streams
    Addrs,           \* peer addresses, the keys of both maps
    PeerAddr,        \* the address peer_addr() returns for a stream
    None,
    StrikeWindow,    \* 500 ms: a line sooner than that is a strike
    DdosWindow,      \* 5 s: a reconnection sooner than that is a strike
    BanTime,         \* 10 s
    PurgeAfter,      \* 20 s
    ConnStrikeLimit, \* 3
    MaxU8,           \* 255
    MaxTime,         \* bound of the model on the clock
    MaxQueue         \* bound of the model on the (unbounded) channel

ASSUME ConnsAssumption == PeerAddr \in [Conns -> Addrs]

ASSUME NumbersAssumption ==
    /\ StrikeWindow \in Nat \ {0}
    /\ {DdosWindow, BanTime, PurgeAfter, ConnStrikeLimit, MaxU8, MaxTime, MaxQueue} \subseteq Nat

ASSUME NoneAssumption == None \notin Nat /\ None \notin Conns

VARIABLES
    now,        \* SystemTime::now(), read by the server
    channel,    \* the messages sent and not yet received
    server,     \* where the server thread is, or why it panicked
    guest,      \* the stream the server is admitting
    clients,    \* Server.clients
    ban_list,   \* Server.ban_list: when an address was banned
    peer,       \* the remote end of a stream, as the server's kernel sees it
    thread,     \* the reader thread of a stream
    broadcast   \* the line the last step distributed: from whom and to whom

vars == <<now, channel, server, guest, clients, ban_list, peer, thread, broadcast>>

-----------------------------------------------------------------------------
(* peer_addr().unwrap() on a stream that was reset, the slice of a short   *)
(* token, conn_strikes past 255, msg_strikes past 3                        *)
Panics == {"unwrap", "slice", "overflow", "strikes"}

(* closed: FIN came in; reset: RST; gone: RST after FIN; dropped: the      *)
(* server let go of the stream                                             *)
PeerStates == {"away", "open", "closed", "reset", "gone", "dropped"}

(* leaving: read() was 0 and ClientDisconnected is sent; ghost: back in    *)
(* the loop at the end of the stream                                       *)
ThreadStates == {"none", "starting", "reading", "leaving", "ghost", "ended"}

(* binary: not UTF-8; eof: the empty vector left of a read() of 0          *)
Texts == {"text", "binary", "eof"}

Messages ==
    [kind : {"ClientConnected"}, conn : Conns]
        \cup [kind : {"DistributeMessage"}, addr : Addrs, text : Texts]
        \cup [kind : {"ClientDisconnected"}, addr : Addrs]

Client ==
    [last_message : Nat, last_connection : Nat, msg_strikes : 0..3,
     conn_strikes : 0..MaxU8, stream : Conns, is_connected : BOOLEAN]

ASSUME RecordAssumption ==
    None \notin Client /\ None \notin [from : Addrs, to : SUBSET Conns]

(* The type invariant; a guest is in hand exactly in the prompting states. *)
TypeOK ==
    /\ now \in Nat
    /\ channel \in Seq(Messages)
    /\ server \in {"receive", "token", "name", "welcome"} \cup Panics
    /\ guest \in Conns \cup {None}
    /\ clients \in [Addrs -> Client \cup {None}]
    /\ ban_list \in [Addrs -> Nat \cup {None}]
    /\ peer \in [Conns -> PeerStates]
    /\ thread \in [Conns -> ThreadStates]
    /\ broadcast \in [from : Addrs, to : SUBSET Conns] \cup {None}
    /\ server \in {"token", "name", "welcome"} <=> guest # None

-----------------------------------------------------------------------------
Panicked == server \in Panics

(* writes and peer_addr() work until RST came in, after a FIN too          *)
Writable(c) == peer[c] \notin {"reset", "gone"}

Present(a) == clients[a] # None

NewClient(c) ==
    [last_message |-> now, last_connection |-> now, msg_strikes |-> 0,
     conn_strikes |-> 0, stream |-> c, is_connected |-> TRUE]

(* purge_disconnected_clients, before every message is handled             *)
Purged ==
    [a \in Addrs |->
        IF Present(a) /\ ~clients[a].is_connected
                      /\ now - clients[a].last_message >= PurgeAfter
        THEN None ELSE clients[a]]

(* mark_as_disconnected                                                    *)
Disconnect(map, gone) ==
    [a \in Addrs |->
        IF a \in gone /\ map[a] # None
        THEN [map[a] EXCEPT !.is_connected = FALSE] ELSE map[a]]

(* Mutant: the warning is written first and its error skips the insertion. *)
BanIfWarned(a) ==
    IF Present(a) /\ ~Writable(clients[a].stream) THEN ban_list
    ELSE [ban_list EXCEPT ![a] = now]

Ban(a) == [ban_list EXCEPT ![a] = now]

Connected(c) == [kind |-> "ClientConnected", conn |-> c]

InChannel(c) == \E i \in 1..Len(channel) : channel[i] = Connected(c)

(* Mutant: a shared stack in place of the queue. *)
SendOnTop(message) == Len(channel) < MaxQueue /\ channel' = <<message>> \o channel

Send(message) == Len(channel) < MaxQueue /\ channel' = Append(channel, message)

(* A panic of the server thread drops its maps, and the receiver with the  *)
(* streams still in the channel.                                           *)
Panic(why) ==
    /\ server' = why
    /\ guest' = None
    /\ channel' = << >>
    /\ clients' = [a \in Addrs |-> None]
    /\ ban_list' = [a \in Addrs |-> None]
    /\ peer' = [c \in Conns |-> IF c = guest \/ InChannel(c) THEN "dropped" ELSE peer[c]]
    /\ broadcast' = None
    /\ UNCHANGED <<now, thread>>

-----------------------------------------------------------------------------
(* No thread, map or message holds the stream: its name may be used anew.  *)
Unused(c) ==
    /\ peer[c] \notin {"open", "closed"}
    /\ thread[c] \in {"none", "ended"}
    /\ guest # c
    /\ \A a \in Addrs : Present(a) => clients[a].stream # c
    /\ ~InChannel(c)

(* A client may use an address again when nothing of its earlier           *)
(* connection is left in the network.                                      *)
AddressFree(c) ==
    \A d \in Conns \ {c} : PeerAddr[d] = PeerAddr[c] => peer[d] \notin {"open", "closed"}

(* main: accept and send ClientConnected, an error of send is ignored      *)
Arrive(c) ==
    /\ Unused(c) /\ AddressFree(c)
    /\ IF Panicked THEN UNCHANGED channel ELSE Send(Connected(c))
    /\ peer' = [peer EXCEPT ![c] = IF Panicked THEN "dropped" ELSE "open"]
    /\ thread' = [thread EXCEPT ![c] = "none"]
    /\ broadcast' = None
    /\ UNCHANGED <<now, server, guest, clients, ban_list>>

PeerStep(c, from, to) ==
    /\ peer[c] = from
    /\ peer' = [peer EXCEPT ![c] = to]
    /\ broadcast' = None
    /\ UNCHANGED <<now, channel, server, guest, clients, ban_list, thread>>

PeerLeaves(c) ==
    PeerStep(c, "open", "closed") \/ PeerStep(c, "open", "reset") \/ PeerStep(c, "closed", "gone")

Tick ==
    /\ now < MaxTime
    /\ now' = now + 1
    /\ broadcast' = None
    /\ UNCHANGED <<channel, server, guest, clients, ban_list, peer, thread>>

-----------------------------------------------------------------------------
(* client_loop, the reader thread of an admitted stream                    *)
ReaderStep(c, from, to) ==
    /\ thread[c] \in from
    /\ thread' = [thread EXCEPT ![c] = to]
    /\ broadcast' = None
    /\ UNCHANGED <<now, server, guest, clients, ban_list, peer>>

(* peer_addr()?, at the head of the thread; on an error nobody is told     *)
ReaderStarts(c) ==
    /\ ReaderStep(c, {"starting"}, IF Writable(c) THEN "reading" ELSE "ended")
    /\ UNCHANGED channel

SendLine(c, text) ==
    Send([kind |-> "DistributeMessage", addr |-> PeerAddr[c], text |-> text])

ReadLine(c) ==
    /\ ReaderStep(c, {"reading"}, "reading")
    /\ ~Panicked
    /\ \E text \in Texts \ {"eof"} : SendLine(c, text)

AtEof(c) == peer[c] \in {"closed", "reset", "gone"}

(* Mutant: the thread returns at the end of the stream, telling nobody. *)
EofReturns(c) ==
    AtEof(c) /\ ReaderStep(c, {"reading", "ghost"}, "ended") /\ UNCHANGED channel

(* read() = 0, after a RST too when a write has consumed its error ...     *)
ReadEof(c) ==
    /\ AtEof(c)
    /\ ReaderStep(c, {"reading", "ghost"}, "leaving")
    /\ ~Panicked
    /\ Send([kind |-> "ClientDisconnected", addr |-> PeerAddr[c]])

(* ... does not end the loop: an empty line follows, and the next read()   *)
SendEmpty(c) ==
    /\ ReaderStep(c, {"leaving"}, "ghost")
    /\ ~Panicked
    /\ SendLine(c, "eof")

(* read() or send() fails: the thread ends, and nobody is told             *)
ReaderFails(c) ==
    /\ \/ peer[c] = "reset" /\ ReaderStep(c, {"reading"}, "ended")
       \/ Panicked /\ ReaderStep(c, {"reading", "leaving", "ghost"}, "ended")
    /\ UNCHANGED channel

client_loop(c) ==
    ReaderStarts(c) \/ ReadLine(c) \/ ReadEof(c) \/ SendEmpty(c) \/ ReaderFails(c)

-----------------------------------------------------------------------------
(* Server::start, ClientConnected: the guest's prompts                     *)
Receives(kind) == server = "receive" /\ channel # << >> /\ Head(channel).kind = kind

ReceiveConnected ==
    /\ Receives("ClientConnected")
    /\ IF ~Writable(Head(channel).conn) THEN Panic("unwrap")
       ELSE /\ channel' = Tail(channel)
            /\ clients' = Purged
            /\ server' = "token"
            /\ guest' = Head(channel).conn
            /\ broadcast' = None
            /\ UNCHANGED <<now, ban_list, peer, thread>>

(* continue, with the guest's stream dropped                               *)
Dismiss ==
    /\ server' = "receive"
    /\ guest' = None
    /\ peer' = [peer EXCEPT ![guest] = "dropped"]
    /\ broadcast' = None
    /\ UNCHANGED <<now, channel, thread>>

(* A right token; a wrong one of 16 characters or more, or a stream that   *)
(* fails; a short one, like the empty one read at a FIN: it is sliced      *)
(* before its length is compared.                                          *)
Authenticate ==
    /\ server = "token"
    /\ \/ /\ peer[guest] \in {"open", "closed"}
          /\ server' = "name"
          /\ broadcast' = None
          /\ UNCHANGED <<now, channel, guest, clients, ban_list, peer, thread>>
       \/ Dismiss /\ UNCHANGED <<clients, ban_list>>
       \/ Panic("slice")

(* get_name_from_client fails, on a name that is not UTF-8 or on a RST; or *)
(* the RST comes after the name and peer_addr() fails.                     *)
NoName ==
    /\ server = "name"
    /\ \/ Dismiss /\ UNCHANGED <<clients, ban_list>>
       \/ ~Writable(guest) /\ Panic("unwrap")

-----------------------------------------------------------------------------
(* The registration of the guest under its address                         *)
GuestAddr == PeerAddr[guest]

is_ddos(client) == now - client.last_connection < DdosWindow

ConnStrikes(client) == client.conn_strikes + (IF is_ddos(client) THEN 1 ELSE 0)

(* Mutant: the addition is not checked. *)
Unchecked(strikes) == FALSE

Overflows(strikes) == strikes > MaxU8

(* Mutant: the reconnection keeps the old stream. *)
OldStream(client) ==
    [client EXCEPT !.last_message = now, !.last_connection = now,
                   !.conn_strikes = ConnStrikes(client), !.is_connected = TRUE]

(* Mutant: the reconnection starts a new record. *)
NewRecord(client) == [NewClient(guest) EXCEPT !.conn_strikes = ConnStrikes(client)]

(* A known address is back: its message strikes stay.                      *)
Refreshed(client) ==
    [NewClient(guest) EXCEPT !.msg_strikes = client.msg_strikes,
                             !.conn_strikes = ConnStrikes(client)]

Register(client) ==
    /\ clients' = [clients EXCEPT ![GuestAddr] = client]
    /\ server' = "welcome"
    /\ broadcast' = None
    /\ UNCHANGED <<now, channel, guest, ban_list, peer, thread>>

(* A new client; a known one; too many reconnections: the address is       *)
(* banned and the stream shut down.                                        *)
Named ==
    /\ server = "name"
    /\ Writable(guest)
    /\ \/ ~Present(GuestAddr) /\ Register(NewClient(guest))
       \/ /\ Present(GuestAddr)
          /\ LET strikes == ConnStrikes(clients[GuestAddr]) IN
             \/ Overflows(strikes) /\ Panic("overflow")
             \/ /\ ~Overflows(strikes)
                /\ strikes <= ConnStrikeLimit
                /\ Register(Refreshed(clients[GuestAddr]))
             \/ /\ ~Overflows(strikes)
                /\ strikes > ConnStrikeLimit
                /\ clients' = [clients EXCEPT ![GuestAddr].conn_strikes = strikes]
                /\ ban_list' = Ban(GuestAddr)
                /\ Dismiss

(* The welcome is written and the reader thread spawned, or, after a RST,  *)
(* the new record marked as disconnected.                                  *)
Welcome ==
    /\ server = "welcome"
    /\ server' = "receive"
    /\ guest' = None
    /\ IF Writable(guest)
       THEN thread' = [thread EXCEPT ![guest] = "starting"] /\ UNCHANGED clients
       ELSE clients' = Disconnect(clients, {GuestAddr}) /\ UNCHANGED thread
    /\ broadcast' = None
    /\ UNCHANGED <<now, channel, ban_list, peer>>

-----------------------------------------------------------------------------
(* Server::start, DistributeMessage: is_allowed_to_send_msg gives its      *)
(* verdict on the purged map, and an allowed line is distributed.          *)
Sender == Head(channel).addr

Banned(a) == ban_list[a] # None

Handle == channel' = Tail(channel) /\ UNCHANGED <<now, server, guest, peer, thread>>

(* Mutant: the sender is not left out. *)
Everyone(map) ==
    {a \in Addrs : /\ map[Sender] # None /\ Head(channel).text # "binary"
                   /\ map[a] # None /\ map[a].is_connected}

(* Whom distribute_to_all_clients writes to; a failed write disconnects.   *)
Audience(map) ==
    {a \in Addrs \ {Sender} : /\ map[Sender] # None /\ Head(channel).text # "binary"
                             /\ map[a] # None /\ map[a].is_connected}

Distribute(map) ==
    LET failed == {a \in Audience(map) : ~Writable(map[a].stream)}
    IN  /\ clients' = Disconnect(map, failed)
        /\ broadcast' = IF map[Sender] = None THEN None
                        ELSE [from |-> Sender,
                              to |-> {map[a].stream : a \in Audience(map) \ failed}]

(* A warning to the sender; when it cannot be written, the error that is   *)
(* returned disconnects the sender.                                        *)
Warn(map) ==
    /\ clients' = IF map[Sender] # None /\ ~Writable(map[Sender].stream)
                  THEN Disconnect(map, {Sender}) ELSE map
    /\ broadcast' = None

(* Mutant: the ban is measured with the threshold of a strike. *)
StrikeOver == now - ban_list[Sender] >= StrikeWindow

BanOver == now - ban_list[Sender] >= BanTime

(* Mutant: the strikes outlive the ban. *)
NotForgiven == Purged

Forgiven ==
    IF Purged[Sender] = None THEN Purged ELSE [Purged EXCEPT ![Sender].msg_strikes = 0]

(* Still banned; or the first line after the ban, which lifts it and       *)
(* leaves last_message alone.                                              *)
BannedLine ==
    /\ Receives("DistributeMessage") /\ Banned(Sender)
    /\ \/ ~BanOver /\ Warn(Purged) /\ UNCHANGED ban_list
       \/ BanOver /\ Distribute(Forgiven) /\ ban_list' = [ban_list EXCEPT ![Sender] = None]
    /\ Handle

LineOfStranger ==
    /\ Receives("DistributeMessage") /\ ~Banned(Sender) /\ Purged[Sender] = None
    /\ clients' = Purged
    /\ broadcast' = None
    /\ UNCHANGED ban_list
    /\ Handle

(* In time; or a strike, of which the first two are allowed, the third is  *)
(* a ban and a fourth would be a panic.                                    *)
LineOfClient ==
    /\ Receives("DistributeMessage") /\ ~Banned(Sender) /\ Purged[Sender] # None
    /\ LET client == Purged[Sender]
           hasty == now - client.last_message < StrikeWindow
           Spoken(strikes) ==
               [Purged EXCEPT ![Sender] =
                  [client EXCEPT !.last_message = now, !.msg_strikes = strikes]]
       IN  \/ ~hasty /\ Distribute(Spoken(client.msg_strikes)) /\ UNCHANGED ban_list /\ Handle
           \/ /\ hasty /\ client.msg_strikes \in 0..1
              /\ Distribute(Spoken(client.msg_strikes + 1)) /\ UNCHANGED ban_list /\ Handle
           \/ /\ hasty /\ client.msg_strikes \notin 0..1
              /\ IF client.msg_strikes = 2
                 THEN Warn(Spoken(3)) /\ ban_list' = Ban(Sender) /\ Handle
                 ELSE Panic("strikes")

ReceiveDisconnected ==
    /\ Receives("ClientDisconnected")
    /\ clients' = Disconnect(Purged, {Sender})
    /\ broadcast' = None
    /\ UNCHANGED ban_list
    /\ Handle

-----------------------------------------------------------------------------
Init ==
    /\ now = 0
    /\ channel = << >>
    /\ server = "receive"
    /\ guest = None
    /\ clients = [a \in Addrs |-> None]
    /\ ban_list = [a \in Addrs |-> None]
    /\ peer = [c \in Conns |-> "away"]
    /\ thread = [c \in Conns |-> "none"]
    /\ broadcast = None

(* One turn of the server's loop, up to the first prompt.                  *)
Receive ==
    ReceiveConnected \/ BannedLine \/ LineOfStranger \/ LineOfClient \/ ReceiveDisconnected

(* The steps that wait for the guest.                                      *)
Admit == Authenticate \/ NoName \/ Named \/ Welcome

Next ==
    \/ Tick
    \/ \E c \in Conns : Arrive(c) \/ PeerLeaves(c) \/ client_loop(c)
    \/ Receive
    \/ Admit

Spec == Init /\ [][Next]_vars

(* The server thread and the readers are scheduled, and a client that is   *)
(* prompted answers at last, rightly or wrongly, or leaves.  The readers'  *)
(* fairness is strong because MaxQueue, which the real channel does not    *)
(* have, makes them wait for room again and again.                         *)
Fairness ==
    /\ WF_vars(Receive) /\ WF_vars(Admit)
    /\ \A c \in Conns : SF_vars(ReadEof(c))

FairSpec == Spec /\ Fairness

-----------------------------------------------------------------------------
(* A record with three message strikes belongs to a banned address: the    *)
(* two maps agree, whatever purges, reconnections and lifted bans came     *)
(* in between (is_allowed_to_send_msg).                                    *)
StrikesCovered ==
    \A a \in Addrs : Present(a) /\ clients[a].msg_strikes = 3 => Banned(a)

(* "Number of strikes exceeds valid number" (main.rs:185) is not reached.  *)
NoStrikePanic == server # "strikes"

(* A client whose thread reads and whose connection is up is registered    *)
(* under its address, with its own stream and connected, so the lines of   *)
(* the others are written to it.  Only the thread of an older connection   *)
(* of the same address can take this away, when it is at the end of its    *)
(* stream and goes on speaking for the address (client_loop).              *)
LiveIsServed ==
    \A c \in Conns :
        ~Panicked /\ thread[c] = "reading" /\ peer[c] = "open" =>
            \/ /\ Present(PeerAddr[c])
               /\ clients[PeerAddr[c]].stream = c
               /\ clients[PeerAddr[c]].is_connected
            \/ \E d \in Conns \ {c} : /\ PeerAddr[d] = PeerAddr[c]
                                       /\ thread[d] \in {"leaving", "ghost"}

(* A line goes to admitted clients only, never to a stream in the middle   *)
(* of its prompts or turned away at the door, nor back to its sender       *)
(* (distribute_to_all_clients).                                            *)
AudienceAdmitted ==
    broadcast # None =>
        \A c \in broadcast.to : thread[c] # "none" /\ PeerAddr[c] # broadcast.from

(* A client that connects and stays is admitted or turned away: neither    *)
(* chatter nor the threads that flood the channel after their client left  *)
(* keep the server from it.                                                *)
GuestSettled ==
    \A c \in Conns :
        peer[c] = "open" /\ thread[c] = "none" ~> thread[c] # "none" \/ peer[c] # "open"

(* A client that closes its connection while its thread reads does not     *)
(* stay connected in the map (client_loop, mark_as_disconnected).          *)
QuitNoticed ==
    \A c \in Conns :
        thread[c] = "reading" /\ peer[c] = "closed"
            ~> \A a \in Addrs : Present(a) /\ clients[a].stream = c => ~clients[a].is_connected

=============================================================================
