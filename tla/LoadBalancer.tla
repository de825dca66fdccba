---------------------------- MODULE LoadBalancer ----------------------------
(***************************************************************************)
(* The load balancer of ccloadbalancer: the main thread polls its          *)
(* descriptors, accepts, reads one piece of input per ready client and     *)
(* starts an asynchronous forward for it, then waits for all forwards and  *)
(* cleans up; a second thread checks which backends accept connections.    *)
(* The kernel's part, and the clients and backends, are modelled from how  *)
(* the code uses them.                                                     *)
(***************************************************************************)
EXTENDS Integers, Sequences, FiniteSets, Subsequences

CONSTANTS
    Clients,    \* remote clients
    Resetting,  \* those of them that may reset their connection
    Fds,        \* descriptors accept() can return, numbers above the listener's
    NumBackends,
    MaxTries,   \* 100, of getNextPort
    MaxRetries, \* 3, of forwardToBackend
    MaxSent,    \* bound of the model on the requests of a connection, by client
    None

ASSUME SetsAssumption == Fds \subseteq Nat \ {0} /\ Resetting \subseteq Clients

ASSUME NumbersAssumption ==
    /\ NumBackends \in Nat \ {0}
    /\ MaxTries \in Nat \ {0}
    /\ MaxRetries \in Nat \ {0}
    /\ MaxSent \in [Clients -> Nat]

ASSUME NoneAssumption == None \notin Nat /\ None \notin Clients

Backends == 0..NumBackends - 1

Listener == 0

VARIABLES
    pc,          \* where the main thread is
    fds_,        \* the vector given to poll()
    clients_,    \* the map of clients: absent, valid, or invalid (its fd is -1)
    todo,        \* the ready descriptors of fds_ the scan has not come to
    accepted,    \* fdsToRegister
    choice,      \* nextPortIndex and maxTries of getNextPort
    numForwards, \* modulo NumBackends
    task,        \* the forward of a descriptor
    backends,    \* backendServers: who counts as alive
    checker,     \* the backend the health check is at, NumBackends between checks
    up,          \* which backends do accept
    conn,        \* the client at the other end of a descriptor
    backlog,     \* connections waiting for accept()
    remote,      \* the client's end of its connection
    inbox,       \* its requests that are sent and not read
    sent, got    \* its requests, and the replies to them

network == <<conn, backlog, remote, inbox, sent, got>>
main == <<pc, fds_, clients_, todo, accepted, choice, numForwards>>
health == <<backends, checker, up>>
vars == <<network, main, health, task>>

-----------------------------------------------------------------------------
PCs == {"poll", "scan", "choose", "register", "collect", "killed"}

(* dropped: closed by the balancer; gone: as in closed or reset, and the   *)
(* next write is answered with SIGPIPE                                     *)
Remotes == {"away", "open", "closed", "reset", "gone", "dropped"}

Phases == {"none", "connect", "await", "reply", "success", "failed"}

Tasks == [phase : Phases, port : Backends, left : 0..MaxRetries, requests : Nat]

NoTask == [phase |-> "none", port |-> 0, left |-> 0, requests |-> 0]

(* Type invariant. *)
TypeOK ==
    /\ pc \in PCs
    /\ fds_ \in Seq({Listener} \cup Fds)
    /\ clients_ \in [Fds -> {"absent", "valid", "invalid"}]
    /\ todo \in Seq({Listener} \cup Fds)
    /\ accepted \in Fds \cup {None}
    /\ choice \in [index : Backends, tries : 0..MaxTries]
    /\ numForwards \in Backends
    /\ task \in [Fds -> Tasks]
    /\ backends \in [Backends -> BOOLEAN]
    /\ checker \in 0..NumBackends
    /\ up \in [Backends -> BOOLEAN]
    /\ conn \in [Fds -> Clients \cup {None}]
    /\ backlog \in Seq(Clients)
    /\ remote \in [Clients -> Remotes]
    /\ {inbox, sent, got} \subseteq [Clients -> Nat]
    /\ \A c \in Clients : sent[c] <= MaxSent[c]

-----------------------------------------------------------------------------
(* The clients and the backends                                            *)
Connect(c) ==
    /\ pc # "killed" /\ remote[c] \in {"away", "dropped"}
    /\ \A f \in Fds : conn[f] # c
    /\ remote' = [remote EXCEPT ![c] = "open"]
    /\ backlog' = Append(backlog, c)
    /\ inbox' = [inbox EXCEPT ![c] = 0]
    /\ sent' = [sent EXCEPT ![c] = 0]
    /\ got' = [got EXCEPT ![c] = 0]
    /\ UNCHANGED <<conn, main, health, task>>

Request(c) ==
    /\ remote[c] = "open"
    /\ sent[c] < MaxSent[c]
    /\ sent' = [sent EXCEPT ![c] = @ + 1]
    /\ inbox' = [inbox EXCEPT ![c] = @ + 1]
    /\ UNCHANGED <<conn, backlog, remote, got, main, health, task>>

Leave(c) ==
    /\ \/ /\ remote[c] = "open"
          /\ \E state \in {"closed"} \cup (IF c \in Resetting THEN {"reset"} ELSE {}) :
                remote' = [remote EXCEPT ![c] = state]
       \/ /\ remote[c] = "closed" /\ c \in Resetting
          /\ remote' = [remote EXCEPT ![c] = "gone"]
    /\ UNCHANGED <<conn, backlog, inbox, sent, got, main, health, task>>

BackendStarts(b) ==
    /\ ~up[b]
    /\ up' = [up EXCEPT ![b] = TRUE]
    /\ UNCHANGED <<backends, checker, network, main, task>>

(* Whoever waits for its reply reads the end of the connection.            *)
BackendStops(b) ==
    /\ up[b]
    /\ up' = [up EXCEPT ![b] = FALSE]
    /\ task' = [f \in Fds |->
                  IF task[f].phase = "await" /\ task[f].port = b
                  THEN [task[f] EXCEPT !.phase = "failed"] ELSE task[f]]
    /\ UNCHANGED <<backends, checker, network, main>>

-----------------------------------------------------------------------------
(* startHealthChecker: a pass over the backends under beMutex, then sleep  *)
checkAllBackends ==
    /\ pc # "killed"
    /\ \/ /\ checker < NumBackends
          /\ backends' = [backends EXCEPT ![checker] = up[checker]]
          /\ checker' = checker + 1
       \/ checker = NumBackends /\ checker' = 0 /\ UNCHANGED backends
    /\ UNCHANGED <<up, network, main, task>>

-----------------------------------------------------------------------------
(* start: one round of the main thread                                     *)
AtEnd(c) == inbox[c] = 0 /\ remote[c] \in {"closed", "gone"}

Readable(f) ==
    IF f = Listener THEN backlog # << >>
    ELSE inbox[conn[f]] > 0 \/ remote[conn[f]] # "open"

Registered == {fds_[i] : i \in 1..Len(fds_)}

PollIn == {f \in Registered : Readable(f)}

(* Mutant: the listener comes last. *)
ListenerLast == Filter(Tail(fds_), PollIn) \o Filter(<<Head(fds_)>>, PollIn)

Ready == Filter(fds_, PollIn)

poll ==
    /\ pc = "poll"
    /\ Ready # << >>
    /\ todo' = Ready
    /\ pc' = "scan"
    /\ accepted' = None
    /\ task' = [f \in Fds |-> NoTask]
    /\ UNCHANGED <<fds_, clients_, choice, numForwards, network, health>>

Free == {f \in Fds : conn[f] = None}

(* accept() gives the lowest free descriptor.  With none left it fails,    *)
(* and the -1 that is registered is purged in the same round.              *)
acceptNewClient ==
    /\ pc = "scan" /\ todo # << >> /\ Head(todo) = Listener
    /\ IF Free = {} THEN UNCHANGED <<conn, backlog, accepted>>
       ELSE LET f == CHOOSE g \in Free : \A h \in Free : g <= h
            IN  /\ conn' = [conn EXCEPT ![f] = Head(backlog)]
                /\ backlog' = Tail(backlog)
                /\ accepted' = f
    /\ todo' = Tail(todo)
    /\ UNCHANGED <<pc, fds_, clients_, choice, numForwards, task, health,
                   remote, inbox, sent, got>>

Scanned == Head(todo)
Asker == conn[Scanned]

Scans == pc = "scan" /\ todo # << >> /\ Head(todo) # Listener

(* MSG_PEEK reads 0: the client is marked, and its descriptor stays open.  *)
ClientLeft ==
    /\ Scans
    /\ AtEnd(Asker)
    /\ clients_' = [clients_ EXCEPT ![Scanned] = "invalid"]
    /\ todo' = Tail(todo)
    /\ UNCHANGED <<pc, fds_, accepted, choice, numForwards, task, network, health>>

(* Mutant: without MSG_PEEK the first recv() has taken the requests. *)
ReadTwice(c) == 0

Read(c) == inbox[c]

(* handleClient: recv() takes what is there.  After a reset MSG_PEEK has   *)
(* failed, its error is consumed, and recv() reads 0 bytes.                *)
handleClient ==
    /\ Scans
    /\ ~AtEnd(Asker)
    /\ task' = [task EXCEPT ![Scanned] = [NoTask EXCEPT !.requests = Read(Asker)]]
    /\ inbox' = [inbox EXCEPT ![Asker] = 0]
    /\ remote' = IF inbox[Asker] = 0 THEN [remote EXCEPT ![Asker] = "gone"] ELSE remote
    /\ choice' = [index |-> 0, tries |-> MaxTries]
    /\ pc' = "choose"
    /\ UNCHANGED <<fds_, clients_, todo, accepted, numForwards, health,
                   conn, backlog, sent, got>>

(* getNextPort: while the chosen backend is dead, sleep and take the next, *)
(* which needs the mutex of the health check.                              *)
(* Mutant: the counter is used without the modulo. *)
Counted(i) == i + 1

RoundRobin(i) == (i + 1) % NumBackends

NextPort ==
    /\ pc = "choose"
    /\ ~backends[choice.index] /\ choice.tries > 0
    /\ checker = NumBackends
    /\ choice' = [index |-> numForwards, tries |-> choice.tries - 1]
    /\ numForwards' = RoundRobin(numForwards)
    /\ UNCHANGED <<pc, fds_, clients_, todo, accepted, task, network, health>>

Forwarded ==
    /\ backends[choice.index] /\ choice.tries > 0
    /\ task' = [task EXCEPT ![Scanned].phase = "connect",
                            ![Scanned].port = choice.index,
                            ![Scanned].left = MaxRetries]
    /\ UNCHANGED <<clients_, conn, remote>>

Closed(f) ==
    /\ conn' = [conn EXCEPT ![f] = None]
    /\ remote' = IF remote[conn[f]] = "open" THEN [remote EXCEPT ![conn[f]] = "dropped"]
                 ELSE [remote EXCEPT ![conn[f]] = "away"]

(* "No backend available": the client is marked and closed.                *)
Refused ==
    /\ choice.tries = 0
    /\ clients_' = [clients_ EXCEPT ![Scanned] = "invalid"]
    /\ Closed(Scanned)
    /\ task' = [task EXCEPT ![Scanned] = NoTask]

PortChosen ==
    /\ pc = "choose"
    /\ Forwarded \/ Refused
    /\ pc' = "scan"
    /\ todo' = Tail(todo)
    /\ UNCHANGED <<fds_, accepted, choice, numForwards, health, backlog, inbox, sent, got>>

(* registerFileDescriptor, for the client that was accepted                *)
register ==
    /\ pc = "scan" /\ todo = << >>
    /\ pc' = "collect"
    /\ IF accepted = None THEN UNCHANGED <<fds_, clients_>>
       ELSE /\ fds_' = Append(fds_, accepted)
            /\ clients_' = [clients_ EXCEPT ![accepted] = "valid"]
    /\ UNCHANGED <<todo, accepted, choice, numForwards, task, network, health>>

Collected(f) == task[f].phase = "none"

(* fut.get(), in the order of the map                                      *)
collect ==
    /\ pc = "collect"
    /\ \E f \in Fds :
          /\ task[f].phase \in {"success", "failed"}
          /\ \A g \in Fds : g < f => Collected(g)
          /\ task' = [task EXCEPT ![f] = NoTask]
          /\ IF task[f].phase = "success" THEN UNCHANGED <<clients_, conn, remote>>
             ELSE clients_' = [clients_ EXCEPT ![f] = "invalid"] /\ Closed(f)
    /\ UNCHANGED <<pc, fds_, todo, accepted, choice, numForwards, health,
                   backlog, inbox, sent, got>>

(* markFdsForRemoval, purgeInvalidFds and purgeInvalidClients              *)
purge ==
    /\ pc = "collect"
    /\ \A f \in Fds : Collected(f)
    /\ fds_' = Filter(fds_, {Listener} \cup {f \in Fds : clients_[f] # "invalid"})
    /\ clients_' = [f \in Fds |-> IF clients_[f] = "invalid" THEN "absent" ELSE clients_[f]]
    /\ pc' = "poll"
    /\ UNCHANGED <<todo, accepted, choice, numForwards, task, network, health>>

-----------------------------------------------------------------------------
(* forwardToBackend, on its own thread                                     *)
(* Mutant: the retries are not counted. *)
Again(f) == UNCHANGED task

Retry(f) ==
    task' = [task EXCEPT ![f].left = @ - 1, ![f].phase = IF task[f].left = 1 THEN "failed" ELSE "connect"]

ForwardConnects(f) ==
    /\ pc # "killed" /\ task[f].phase = "connect"
    /\ IF up[task[f].port] THEN task' = [task EXCEPT ![f].phase = "await"] ELSE Retry(f)
    /\ UNCHANGED <<main, health, network>>

(* A backend replies to what it received: to nothing it never does.        *)
BackendReplies(f) ==
    /\ pc # "killed" /\ task[f].phase = "await"
    /\ task[f].requests > 0
    /\ task' = [task EXCEPT ![f].phase = "reply"]
    /\ UNCHANGED <<main, health, network>>

(* The reply reaches the client or is lost; it fails at a RST, and after   *)
(* that, the error being consumed, the write's SIGPIPE ends the process.   *)
Reply(f) ==
    LET c == conn[f] IN
    /\ pc # "killed" /\ task[f].phase = "reply"
    /\ \/ /\ remote[c] \in {"open", "closed"}
          /\ task' = [task EXCEPT ![f].phase = "success"]
          /\ got' = [got EXCEPT ![c] = @ + task[f].requests]
          /\ UNCHANGED <<pc, remote>>
       \/ /\ remote[c] = "reset"
          /\ task' = [task EXCEPT ![f].phase = "failed"]
          /\ remote' = [remote EXCEPT ![c] = "gone"]
          /\ UNCHANGED <<pc, got>>
       \/ /\ remote[c] = "gone"
          /\ pc' = "killed"
          /\ UNCHANGED <<task, remote, got>>
    /\ UNCHANGED <<fds_, clients_, todo, accepted, choice, numForwards, health,
                   conn, backlog, inbox, sent>>

-----------------------------------------------------------------------------
Init ==
    /\ pc = "poll"
    /\ fds_ = <<Listener>>
    /\ clients_ = [f \in Fds |-> "absent"]
    /\ todo = << >>
    /\ accepted = None
    /\ choice = [index |-> 0, tries |-> 0]
    /\ numForwards = 0
    /\ task = [f \in Fds |-> NoTask]
    \* addBackend: alive by default; the first check began before any was added
    /\ backends = [b \in Backends |-> TRUE]
    /\ checker \in 0..NumBackends
    /\ up \in [Backends -> BOOLEAN]
    /\ conn = [f \in Fds |-> None]
    /\ backlog = << >>
    /\ remote = [c \in Clients |-> "away"]
    /\ inbox = [c \in Clients |-> 0]
    /\ sent = [c \in Clients |-> 0]
    /\ got = [c \in Clients |-> 0]

MainThread ==
    \/ poll \/ acceptNewClient \/ ClientLeft \/ handleClient \/ PortChosen
    \/ register \/ collect \/ purge

forwardToBackend(f) == ForwardConnects(f) \/ BackendReplies(f) \/ Reply(f)

Environment ==
    \/ \E c \in Clients : Connect(c) \/ Request(c) \/ Leave(c)
    \/ \E b \in Backends : BackendStarts(b) \/ BackendStops(b)

Next ==
    \/ MainThread \/ NextPort \/ checkAllBackends \/ Environment
    \/ \E f \in Fds : forwardToBackend(f)

Spec == Init /\ [][Next]_vars

(* The three kinds of threads are scheduled, running backends answer what  *)
(* they receive, and the main thread gets the mutex that the health check  *)
(* takes and releases.                                                     *)
Fairness ==
    /\ WF_vars(MainThread) /\ SF_vars(NextPort) /\ WF_vars(checkAllBackends)
    /\ \A f \in Fds : WF_vars(forwardToBackend(f))

FairSpec == Spec /\ Fairness

-----------------------------------------------------------------------------
(* When the balancer polls, the vector it polls and the map of clients     *)
(* agree: both hold the same descriptors, once, all of them open, although *)
(* descriptors are closed in two places of the round and the kernel hands  *)
(* out a closed number again at once (start, LoadBalancer.cpp).            *)
RegistryConsistent ==
    pc = "poll" =>
        /\ \A i, j \in 1..Len(fds_) : fds_[i] = fds_[j] => i = j
        /\ \A f \in Fds :
              /\ clients_[f] = IF f \in Registered THEN "valid" ELSE "absent"
              /\ clients_[f] = "valid" => conn[f] # None

(* On a connection that the balancer keeps, every request is still in the  *)
(* socket, in the one forward of its descriptor, or answered, and answers  *)
(* go to the client that asked (start, handleClient, forwardToBackend).    *)
NoRequestLost ==
    \A f \in Fds :
        LET c == conn[f] IN
        c # None /\ clients_[f] = "valid" /\ task[f].phase # "failed" =>
            sent[c] = got[c] + inbox[c] +
                      (IF task[f].phase = "success" THEN 0 ELSE task[f].requests)

(* A client that stays gets an answer to its request or sees its           *)
(* connection closed, whatever the other clients and the backends do.  The *)
(* exception is an empty request, the rest of a reset: it is forwarded,    *)
(* and the balancer may wait for its answer for ever (start, getNextPort,  *)
(* forwardToBackend).                                                      *)
Answered ==
    \A c \in Clients :
        remote[c] = "open" /\ sent[c] > got[c]
            ~> \/ remote[c] # "open" \/ sent[c] = got[c] \/ pc = "killed"
               \/ \E f \in Fds : task[f].phase = "await" /\ task[f].requests = 0

=============================================================================
