----------------------------- MODULE PollServer -----------------------------
(***************************************************************************)
(* The loop of RedisServer::start (ccredis), which EchoServer::start       *)
(* (ccloadbalancer) repeats: a range-for over the vector given to poll(),  *)
(* which accepts into that vector and erases from it on the way.  The loop *)
(* reads memory up to the end the vector had when the loop began, so the   *)
(* model has the memory of the vector, and not only its elements.  No      *)
(* descriptor is ever closed, so a descriptor stands for one connection.   *)
(***************************************************************************)
EXTENDS Integers, Sequences, SequencesExt, Subsequences

CONSTANTS
    Clients,
    Listener,
    Capacity,  \* maxClients: what fds_ has reserved
    Empty      \* memory behind the vector that was never written

ASSUME CapacityAssumption == Capacity \in Nat \ {0}

ASSUME NamesAssumption ==
    Listener \notin Clients /\ Empty \notin Clients /\ Empty # Listener

VARIABLES
    pc,      \* "poll", "loop", or "undefined" once the vector has reallocated
    fds_,    \* the memory of the vector: fd and whether revents has POLL_IN
    size,    \* its length
    at,      \* the iterator of the loop
    end,     \* the end of the loop
    backlog, \* connections waiting for accept()
    remote,  \* the other end of a connection
    inbox    \* whether a client's request is in the socket

server == <<pc, fds_, size, at, end>>
vars == <<server, backlog, remote, inbox>>

Slots == [fd : Clients \cup {Listener, Empty}, ready : BOOLEAN]

Elements == SubSeq(fds_, 1, size)

(* Type invariant. *)
TypeOK ==
    /\ pc \in {"poll", "loop", "undefined"}
    /\ fds_ \in [1..Capacity -> Slots]
    /\ size \in 1..Capacity
    /\ at \in 1..Capacity + 1 /\ end \in 0..Capacity
    /\ backlog \in Seq(Clients)
    /\ remote \in [Clients -> {"away", "open", "left"}]
    /\ inbox \in [Clients -> BOOLEAN]

-----------------------------------------------------------------------------
(* The clients: each sends its next request after the reply to the last    *)
Connect(c) ==
    /\ remote[c] = "away"
    /\ remote' = [remote EXCEPT ![c] = "open"]
    /\ backlog' = Append(backlog, c)
    /\ UNCHANGED <<inbox, server>>

Request(c) ==
    /\ remote[c] = "open" /\ ~inbox[c]
    /\ inbox' = [inbox EXCEPT ![c] = TRUE]
    /\ UNCHANGED <<remote, backlog, server>>

Leave(c) ==
    /\ remote[c] = "open"
    /\ remote' = [remote EXCEPT ![c] = "left"]
    /\ UNCHANGED <<inbox, backlog, server>>

-----------------------------------------------------------------------------
Readable(fd) ==
    \/ fd = Listener /\ backlog # << >>
    \/ fd \in Clients /\ (inbox[fd] \/ remote[fd] = "left")

poll ==
    /\ pc = "poll"
    /\ \E i \in 1..size : Readable(fds_[i].fd)
    /\ fds_' = [i \in 1..Capacity |->
                  IF i <= size THEN [fds_[i] EXCEPT !.ready = Readable(fds_[i].fd)] ELSE fds_[i]]
    /\ pc' = "loop" /\ at' = 1 /\ end' = size
    /\ UNCHANGED <<size, backlog, remote, inbox>>

Current == fds_[at]

AtClient == pc = "loop" /\ at <= end /\ Current.ready /\ Current.fd # Listener

Skip ==
    /\ pc = "loop" /\ at <= end
    /\ ~Current.ready
    /\ at' = at + 1
    /\ UNCHANGED <<pc, fds_, size, end, backlog, remote, inbox>>

(* Mutant: the vector is taken to grow in place. *)
NeverFull == FALSE

Full == size = Capacity

(* emplace_back: beyond the capacity the loop would go on in freed memory  *)
acceptNewClient ==
    /\ pc = "loop" /\ at <= end /\ Current.ready /\ Current.fd = Listener
    /\ backlog' = Tail(backlog)
    /\ IF Full
       THEN pc' = "undefined" /\ UNCHANGED <<fds_, size, at>>
       ELSE /\ fds_' = [fds_ EXCEPT ![size + 1] = [fd |-> Head(backlog), ready |-> FALSE]]
            /\ size' = size + 1
            /\ at' = at + 1
            /\ UNCHANGED pc
    /\ UNCHANGED <<end, remote, inbox>>

(* Mutant: recv() is called until the client has disconnected. *)
AgainSameClient == at

(* Mutant: the loop is left after the first client. *)
LeavesLoop == end + 1

Onward == at + 1

(* recv() has data, and the reply is sent.  Without data or the end of the *)
(* stream recv() waits, and the server with it.                            *)
handleClient ==
    /\ AtClient /\ inbox[Current.fd]
    /\ inbox' = [inbox EXCEPT ![Current.fd] = FALSE]
    /\ at' = Onward
    /\ UNCHANGED <<pc, fds_, size, end, backlog, remote>>

(* Mutant: the slot of the iterator is erased, whatever is in it by now. *)
EraseHere(fd) ==
    IF at > size THEN SubSeq(Elements, 1, size - 1) ELSE RemoveAt(Elements, at)

(* remove_if and erase: what was behind stays in memory *)
Erase(fd) == Filter(Elements, {slot \in Slots : slot.fd # fd})

Disconnected ==
    /\ AtClient /\ ~inbox[Current.fd] /\ remote[Current.fd] = "left"
    /\ LET kept == Erase(Current.fd)
       IN  /\ fds_' = kept \o SubSeq(fds_, Len(kept) + 1, Capacity)
           /\ size' = Len(kept)
    /\ at' = at + 1
    /\ UNCHANGED <<pc, end, backlog, remote, inbox>>

LoopEnds ==
    /\ pc = "loop" /\ at > end
    /\ pc' = "poll"
    /\ UNCHANGED <<fds_, size, at, end, backlog, remote, inbox>>

-----------------------------------------------------------------------------
Init ==
    /\ pc = "poll"
    /\ fds_ = [i \in 1..Capacity |->
                 [fd |-> IF i = 1 THEN Listener ELSE Empty, ready |-> FALSE]]
    /\ size = 1 /\ at = 1 /\ end = 0
    /\ backlog = << >>
    /\ remote = [c \in Clients |-> "away"]
    /\ inbox = [c \in Clients |-> FALSE]

Server ==
    poll \/ Skip \/ acceptNewClient \/ handleClient \/ Disconnected \/ LoopEnds

Next ==
    \/ Server
    \/ \E c \in Clients : Connect(c) \/ Request(c) \/ Leave(c)

Spec == Init /\ [][Next]_vars

(* The server is one thread, and runs when it can. *)
FairSpec == Spec /\ WF_vars(Server)

-----------------------------------------------------------------------------
(* Although the loop shifts the vector under its own iterator, between two *)
(* rounds every accepted client that has not left is in it, once.          *)
EachOnce ==
    pc = "poll" =>
        \A c \in Clients :
            LET places == {i \in 1..size : fds_[i].fd = c}
            IN  /\ \A i, j \in places : i = j
                /\ remote[c] = "open" /\ ~Contains(backlog, c) => places # {}

(* recv() waits, and with it the server.                                   *)
RecvWaits == AtClient /\ ~Readable(Current.fd)

(* A recv() that waits is always that of a slot behind the end of the      *)
(* vector, the copy of an element that was handled earlier in the round,   *)
(* and so somebody has left in this round (RedisServer::start).            *)
WaitsBehindTheEnd == RecvWaits => at > size

Over(c) == ~inbox[c] \/ remote[c] = "left" \/ pc = "undefined"

(* However many elements the loop skips after departures, a request is not *)
(* passed over in round after round: it is answered, as long as its client *)
(* stays, or the server waits in recv() (RedisServer::start).              *)
ServedOrStuck(c) == inbox[c] ~> Over(c) \/ RecvWaits

(* "This server support concurrent connection from redis-cli" (README): a  *)
(* request is answered, whatever the other clients do.                     *)
ConcurrentConnections == \A c \in Clients : inbox[c] ~> Over(c)

=============================================================================
