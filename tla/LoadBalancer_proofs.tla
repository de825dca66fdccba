------------------------ MODULE LoadBalancer_proofs -------------------------
(* Proofs about LoadBalancer. *)
EXTENDS LoadBalancer, Subsequences_proofs, TLAPS

Scanning == pc \in {"scan", "choose"}

(* The listener is the first of the descriptors, and all are distinct.     *)
Ordered ==
    /\ Len(fds_) >= 1 /\ fds_[1] = Listener
    /\ \A i, j \in 1..Len(fds_) : fds_[i] = fds_[j] => i = j

Registry ==
    /\ \A f \in Fds : f \in Registered <=> clients_[f] # "absent"
    /\ \A f \in Fds : clients_[f] = "valid" => conn[f] # None

(* Nobody is marked for removal before the listener's turn has passed.     *)
Unmarked ==
    pc = "poll" \/ (Scanning /\ \E i \in 1..Len(todo) : todo[i] = Listener) =>
        \A f \in Fds : clients_[f] # "invalid"

(* The scan has valid clients before it, none of which is served already.  *)
Scan ==
    Scanning =>
        /\ pc = "choose" => todo # << >>
        /\ \A i, j \in 1..Len(todo) : todo[i] = todo[j] => i = j
        /\ \A i \in 1..Len(todo) :
              IF todo[i] = Listener THEN i = 1 /\ pc = "scan" /\ backlog # << >> /\ accepted = None
              ELSE clients_[todo[i]] = "valid" /\ task[todo[i]].phase = "none"

(* The forwards are those of valid clients; the one whose port is being    *)
(* chosen has its requests already.                                        *)
Forwards ==
    /\ \A f \in Fds : task[f].phase = "connect" => task[f].left >= 1
    /\ pc # "killed" =>
          \A f \in Fds :
              IF task[f].phase # "none" THEN clients_[f] = "valid" /\ pc # "poll"
              ELSE task[f].requests = 0 \/ (pc = "choose" /\ f = todo[1])

(* Where the requests of the client at f are *)
Balanced(f) ==
    task[f].phase # "failed" =>
        sent[conn[f]] = got[conn[f]] + inbox[conn[f]] +
                        (IF task[f].phase = "success" THEN 0 ELSE task[f].requests)

Accepted ==
    Scanning /\ accepted # None =>
        clients_[accepted] = "absent" /\ conn[accepted] # None /\ Balanced(accepted)

Balances == \A f \in Fds : clients_[f] = "valid" => Balanced(f)

(* A client has one connection: in the backlog, where nothing of it has    *)
(* been read, or accepted.                                                 *)
Peers ==
    /\ \A f, g \in Fds : conn[f] = conn[g] /\ conn[f] # None => f = g
    /\ \A i, j \in 1..Len(backlog) : backlog[i] = backlog[j] => i = j
    /\ \A i \in 1..Len(backlog) :
          LET c == backlog[i]
          IN  /\ \A f \in Fds : conn[f] # c
              /\ remote[c] \notin {"away", "dropped"}
              /\ sent[c] = inbox[c] /\ got[c] = 0

Inv ==
    /\ TypeOK /\ Ordered /\ Registry /\ Unmarked /\ Scan
    /\ Forwards /\ Accepted /\ Balances /\ Peers

-----------------------------------------------------------------------------
LEMMA Typing ==
    ASSUME TypeOK
    PROVE  /\ inbox \in [Clients -> Nat] /\ sent \in [Clients -> Nat] /\ got \in [Clients -> Nat]
           /\ \A f \in Fds : task[f] \in Tasks /\ conn[f] \in Clients \cup {None}
           /\ \A i \in 1..Len(fds_) : fds_[i] \in {Listener} \cup Fds
           /\ \A i \in 1..Len(todo) : todo[i] \in {Listener} \cup Fds
           /\ \A i \in 1..Len(backlog) : backlog[i] \in Clients
           /\ Listener \notin Fds /\ None \notin Fds /\ None \notin Clients
<1>1. inbox \in [Clients -> Nat] /\ sent \in [Clients -> Nat] /\ got \in [Clients -> Nat]
  <2>1. {inbox, sent, got} \subseteq [Clients -> Nat]
    BY DEF TypeOK
  <2> QED  BY <2>1
<1>2. Listener \notin Fds /\ None \notin Fds /\ None \notin Clients
  BY SetsAssumption, NoneAssumption DEF Listener
<1>3. \A f \in Fds : task[f] \in Tasks /\ conn[f] \in Clients \cup {None}
  BY DEF TypeOK
<1>4. \A i \in 1..Len(fds_) : fds_[i] \in {Listener} \cup Fds
  BY DEF TypeOK
<1>5. \A i \in 1..Len(todo) : todo[i] \in {Listener} \cup Fds
  BY DEF TypeOK
<1>6. \A i \in 1..Len(backlog) : backlog[i] \in Clients
  BY DEF TypeOK
<1> QED  BY <1>1, <1>2, <1>3, <1>4, <1>5, <1>6

LEMMA InvInit == Init => Inv
<1> SUFFICES ASSUME Init PROVE Inv
  OBVIOUS
<1> USE NumbersAssumption, SetsAssumption, NoneAssumption DEF Init
<1>1. TypeOK
  <2>1. NoTask \in Tasks
    BY DEF NoTask, Tasks, Phases, Backends
  <2>2. 0 \in Backends
    BY DEF Backends
  <2> QED  BY <2>1, <2>2 DEF TypeOK, PCs, Remotes
<1>2. Len(fds_) = 1 /\ fds_[1] = Listener /\ Len(todo) = 0 /\ Len(backlog) = 0
  OBVIOUS
<1>3. Ordered
  BY <1>2 DEF Ordered
<1>4. Registry
  <2>1. \A f \in Fds : f \notin Registered
    BY <1>2 DEF Registered, Listener
  <2> QED  BY <2>1 DEF Registry
<1>5. Unmarked /\ Scan /\ Accepted
  BY DEF Unmarked, Scan, Accepted, Scanning
<1>6. Forwards
  BY DEF Forwards, NoTask
<1>7. Balances /\ Peers
  BY <1>2 DEF Balances, Peers
<1> QED  BY <1>1, <1>3, <1>4, <1>5, <1>6, <1>7 DEF Inv

-----------------------------------------------------------------------------
(* The clients' and the backends' steps                                    *)
LEMMA ConnectKeeps ==
    ASSUME Inv, NEW c \in Clients, Connect(c)
    PROVE  Inv'
<1> USE DEF Connect, main, health
<1>1. TypeOK
  BY DEF Inv
<1>2. inbox' \in [Clients -> Nat] /\ sent' \in [Clients -> Nat] /\ got' \in [Clients -> Nat]
      /\ inbox'[c] = 0 /\ sent'[c] = 0 /\ got'[c] = 0
      /\ \A d \in Clients : d # c => inbox'[d] = inbox[d] /\ sent'[d] = sent[d] /\ got'[d] = got[d]
  BY <1>1, Typing
<1>3. remote' \in [Clients -> Remotes] /\ remote'[c] = "open"
      /\ \A d \in Clients : d # c => remote'[d] = remote[d]
  BY <1>1 DEF TypeOK, Remotes
<1>4. backlog' \in Seq(Clients) /\ Len(backlog') = Len(backlog) + 1 /\ Len(backlog) \in Nat
      /\ backlog'[Len(backlog')] = c /\ \A i \in 1..Len(backlog) : backlog'[i] = backlog[i]
  BY <1>1 DEF TypeOK
<1>5. \A f \in Fds : conn[f] # c
  OBVIOUS
<1>6. TypeOK'
  BY <1>1, <1>2, <1>3, <1>4, NumbersAssumption DEF TypeOK
<1>7. Ordered' /\ Registry' /\ Unmarked' /\ Forwards'
  BY DEF Inv, Ordered, Registry, Registered, Unmarked, Forwards, Scanning
<1>8. Scan'
  BY <1>4 DEF Inv, Scan, Scanning
<1>9. \A f \in Fds : conn[f] # None /\ Balanced(f) => Balanced(f)'
  BY <1>1, <1>2, <1>5, Typing DEF Balanced
<1>10. Accepted' /\ Balances'
  BY <1>1, <1>9 DEF Inv, TypeOK, Accepted, Balances, Registry, Scanning
<1>11. Peers'
  <2>1. \A i \in 1..Len(backlog') : i = Len(backlog') \/ i \in 1..Len(backlog)
    BY <1>4
  <2>2. \A i \in 1..Len(backlog) : backlog[i] \in Clients /\ backlog[i] # c
    BY <1>1, Typing DEF Inv, Peers
  <2>3. \A i, j \in 1..Len(backlog') : backlog'[i] = backlog'[j] => i = j
    BY <1>4, <2>1, <2>2 DEF Inv, Peers
  <2>4. ASSUME NEW i \in 1..Len(backlog')
        PROVE  /\ \A f \in Fds : conn[f] # backlog'[i]
               /\ remote'[backlog'[i]] \notin {"away", "dropped"}
               /\ sent'[backlog'[i]] = inbox'[backlog'[i]] /\ got'[backlog'[i]] = 0
    <3>1. CASE i = Len(backlog')
      BY <3>1, <1>2, <1>3, <1>4, <1>5
    <3>2. CASE i \in 1..Len(backlog)
      BY <3>2, <2>2, <1>2, <1>3, <1>4 DEF Inv, Peers
    <3> QED  BY <2>1, <3>1, <3>2
  <2> QED  BY <2>3, <2>4 DEF Inv, Peers
<1> QED  BY <1>6, <1>7, <1>8, <1>10, <1>11 DEF Inv

LEMMA SameRegistered == UNCHANGED fds_ => Registered' = Registered
BY DEF Registered

LEMMA RequestKeeps ==
    ASSUME Inv, NEW c \in Clients, Request(c)
    PROVE  Inv'
<1> USE DEF Request, main, health
<1>1. TypeOK
  BY DEF Inv
<1>2. inbox' \in [Clients -> Nat] /\ sent' \in [Clients -> Nat]
      /\ inbox'[c] = inbox[c] + 1 /\ sent'[c] = sent[c] + 1
      /\ \A d \in Clients : d # c => inbox'[d] = inbox[d] /\ sent'[d] = sent[d]
  BY <1>1, Typing
<1>3. TypeOK'
  <2>1. sent'[c] <= MaxSent[c]
    BY <1>1, <1>2, NumbersAssumption, Typing
  <2> QED  BY <1>1, <1>2, <2>1 DEF TypeOK
<1>4. Ordered' /\ Registry' /\ Unmarked' /\ Forwards' /\ Scan'
  BY DEF Inv, Ordered, Registry, Registered, Unmarked, Forwards, Scan, Scanning
<1>5. \A f \in Fds : conn[f] # None /\ Balanced(f) => Balanced(f)'
  <2> TAKE f \in Fds
  <2> HAVE conn[f] # None /\ Balanced(f)
  <2>1. conn[f] \in Clients /\ task[f].requests \in Nat
    BY <1>1, Typing DEF Tasks
  <2>2. sent[conn[f]] \in Nat /\ inbox[conn[f]] \in Nat /\ got[conn[f]] \in Nat
    BY <1>1, <2>1, Typing
  <2> QED  BY <1>2, <2>1, <2>2 DEF Balanced
<1>6. Accepted' /\ Balances'
  BY <1>1, <1>5 DEF Inv, TypeOK, Accepted, Balances, Registry, Scanning
<1>7. Peers'
  BY <1>1, <1>2, Typing DEF Inv, Peers
<1> QED  BY <1>3, <1>4, <1>6, <1>7 DEF Inv

LEMMA LeaveKeeps ==
    ASSUME Inv, NEW c \in Clients, Leave(c)
    PROVE  Inv'
<1> USE DEF Leave, main, health
<1>1. TypeOK
  BY DEF Inv
<1>2. \E state \in {"closed", "reset", "gone"} : remote' = [remote EXCEPT ![c] = state]
  OBVIOUS
<1>3. remote' \in [Clients -> Remotes]
      /\ \A d \in Clients : remote[d] \notin {"away", "dropped"} => remote'[d] \notin {"away", "dropped"}
  BY <1>1, <1>2 DEF TypeOK, Remotes
<1>4. TypeOK'
  BY <1>1, <1>3 DEF TypeOK
<1>5. Ordered' /\ Registry' /\ Unmarked' /\ Forwards' /\ Scan'
  BY DEF Inv, Ordered, Registry, Registered, Unmarked, Forwards, Scan, Scanning
<1>6. Accepted' /\ Balances'
  BY DEF Inv, Accepted, Balances, Balanced, Scanning
<1>7. Peers'
  BY <1>1, <1>3, Typing DEF Inv, Peers
<1> QED  BY <1>4, <1>5, <1>6, <1>7 DEF Inv

(* A step that leaves the connections, their requests and the main thread  *)
(* alone keeps the invariant, if it keeps the forwards' part of it.        *)
LEMMA ForwardKeeps ==
    ASSUME Inv, TypeOK', UNCHANGED <<main, network>>,
           \A f \in Fds : /\ task'[f].phase = "none" <=> task[f].phase = "none"
                          /\ task'[f].phase = "success" <=> task[f].phase = "success"
                          /\ task[f].phase = "failed" => task'[f].phase = "failed"
                          /\ task'[f].requests = task[f].requests
                          /\ task'[f].phase = "connect" => task'[f].left >= 1
    PROVE  Inv'
<1> USE DEF main, network
<1>1. Ordered' /\ Registry' /\ Unmarked' /\ Peers'
  BY DEF Inv, Ordered, Registry, Registered, Unmarked, Peers, Scanning
<1>2. Scan'
  BY Typing DEF Inv, Scan, Scanning
<1>3. Forwards'
  BY DEF Inv, Forwards
<1>4. \A f \in Fds : Balanced(f) => Balanced(f)'
  BY DEF Balanced
<1>5. Accepted' /\ Balances'
  BY <1>4 DEF Inv, TypeOK, Accepted, Balances, Scanning
<1> QED  BY <1>1, <1>2, <1>3, <1>5 DEF Inv

LEMMA BackendsKeep ==
    ASSUME Inv, NEW b \in Backends, BackendStarts(b) \/ BackendStops(b)
    PROVE  Inv'
<1>1. TypeOK
  BY DEF Inv
<1>2. up' \in [Backends -> BOOLEAN] /\ UNCHANGED <<main, network, backends, checker>>
  BY <1>1 DEF TypeOK, BackendStarts, BackendStops
<1>3. CASE BackendStarts(b)
  <2>1. TypeOK' /\ UNCHANGED task
    BY <1>1, <1>2, <1>3 DEF TypeOK, main, network, BackendStarts
  <2>2. \A f \in Fds : task[f].phase = "connect" => task[f].left >= 1
    BY DEF Inv, Forwards
  <2> QED  BY <1>2, <2>1, <2>2, ForwardKeeps
<1>4. CASE BackendStops(b)
  <2>1. \A f \in Fds :
          task'[f] = IF task[f].phase = "await" /\ task[f].port = b
                     THEN [task[f] EXCEPT !.phase = "failed"] ELSE task[f]
    BY <1>4 DEF BackendStops
  <2>2. \A f \in Fds : task[f] \in Tasks /\ task'[f] \in Tasks
    BY <1>1, <2>1, Typing DEF Tasks, Phases
  <2>3. TypeOK'
    <3>1. task' \in [Fds -> Tasks]
      BY <1>4, <2>2 DEF BackendStops
    <3> QED  BY <1>1, <1>2, <3>1 DEF TypeOK, main, network
  <2>4. \A f \in Fds : task[f].phase = "connect" => task[f].left >= 1
    BY DEF Inv, Forwards
  <2>5. \A f \in Fds : /\ task'[f].phase = "none" <=> task[f].phase = "none"
                       /\ task'[f].phase = "success" <=> task[f].phase = "success"
                       /\ task[f].phase = "failed" => task'[f].phase = "failed"
                       /\ task'[f].requests = task[f].requests
                       /\ task'[f].phase = "connect" => task'[f].left >= 1
    BY <2>1, <2>2, <2>4 DEF Tasks
  <2> QED  BY <1>2, <2>3, <2>5, ForwardKeeps
<1> QED  BY <1>3, <1>4

LEMMA CheckKeeps == Inv /\ checkAllBackends => Inv'
<1> SUFFICES ASSUME Inv, checkAllBackends PROVE Inv'
  OBVIOUS
<1>1. TypeOK
  BY DEF Inv
<1>2. UNCHANGED <<main, network, task, up>>
  BY DEF checkAllBackends
<1>3. checker' \in 0..NumBackends /\ backends' \in [Backends -> BOOLEAN]
  <2>1. CASE checker < NumBackends /\ checker' = checker + 1
             /\ backends' = [backends EXCEPT ![checker] = up[checker]]
    <3>1. checker \in Backends /\ checker + 1 \in 0..NumBackends
      BY <1>1, <2>1, NumbersAssumption DEF TypeOK, Backends
    <3>2. up[checker] \in BOOLEAN
      BY <1>1, <3>1 DEF TypeOK
    <3>3. backends' \in [Backends -> BOOLEAN]
      BY <1>1, <2>1, <3>2 DEF TypeOK
    <3> QED  BY <2>1, <3>1, <3>3
  <2>2. CASE checker' = 0 /\ UNCHANGED backends
    BY <1>1, <2>2, NumbersAssumption DEF TypeOK
  <2> QED  BY <2>1, <2>2 DEF checkAllBackends
<1>4. TypeOK'
  BY <1>1, <1>2, <1>3 DEF TypeOK, main, network
<1>5. \A f \in Fds : task[f].phase = "connect" => task[f].left >= 1
  BY DEF Inv, Forwards
<1> QED  BY <1>2, <1>4, <1>5, ForwardKeeps

LEMMA StutterKeeps == Inv /\ UNCHANGED vars => Inv'
<1> SUFFICES ASSUME Inv, UNCHANGED vars PROVE Inv'
  OBVIOUS
<1>1. TypeOK' /\ UNCHANGED <<main, network, task>>
  BY DEF Inv, TypeOK, vars, main, network, health
<1>2. \A f \in Fds : task[f].phase = "connect" => task[f].left >= 1
  BY DEF Inv, Forwards
<1> QED  BY <1>1, <1>2, ForwardKeeps

-----------------------------------------------------------------------------
(* The forwards                                                            *)
LEMMA ForwardConnectsKeeps ==
    ASSUME Inv, NEW f \in Fds, ForwardConnects(f)
    PROVE  Inv'
<1>1. TypeOK /\ task[f] \in Tasks /\ task[f].phase = "connect" /\ task[f].left >= 1
      /\ task \in [Fds -> Tasks] /\ UNCHANGED <<main, health, network>>
  BY DEF Inv, TypeOK, Forwards, ForwardConnects
<1>2. task' = [task EXCEPT ![f] = task'[f]]
      /\ task'[f] = IF up[task[f].port] THEN [task[f] EXCEPT !.phase = "await"]
                    ELSE [task[f] EXCEPT !.left = task[f].left - 1,
                                         !.phase = IF task[f].left = 1 THEN "failed" ELSE "connect"]
  <2>1. CASE up[task[f].port]
    <3>1. task' = [task EXCEPT ![f].phase = "await"]
      BY <2>1 DEF ForwardConnects
    <3> QED  BY <3>1, <2>1, <1>1
  <2>2. CASE ~up[task[f].port]
    <3>1. task' = [task EXCEPT ![f].left = @ - 1,
                               ![f].phase = IF task[f].left = 1 THEN "failed" ELSE "connect"]
      BY <2>2 DEF ForwardConnects, Retry
    <3> QED  BY <3>1, <2>2, <1>1
  <2> QED  BY <2>1, <2>2
<1>3. task'[f] \in Tasks
  <2>1. CASE up[task[f].port]
    BY <1>1, <1>2, <2>1 DEF Tasks, Phases
  <2>2. CASE ~up[task[f].port]
    <3>1. task[f].left \in 0..MaxRetries /\ task[f].left - 1 \in 0..MaxRetries
      BY <1>1, NumbersAssumption DEF Tasks
    <3>2. (IF task[f].left = 1 THEN "failed" ELSE "connect") \in Phases
      BY DEF Phases
    <3> QED  BY <1>1, <1>2, <2>2, <3>1, <3>2 DEF Tasks
  <2> QED  BY <2>1, <2>2
<1>4. TypeOK'
  <2>1. task' \in [Fds -> Tasks]
    BY <1>1, <1>2, <1>3
  <2> QED  BY <1>1, <2>1 DEF TypeOK, main, health, network
<1>5. /\ task'[f].phase \notin {"none", "success"} /\ task'[f].requests = task[f].requests
      /\ task'[f].phase = "connect" => task'[f].left >= 1
  BY <1>1, <1>2 DEF Tasks
<1>6. \A g \in Fds : g # f => task'[g] = task[g]
  BY <1>1, <1>2
<1>7. \A g \in Fds : task[g].phase = "connect" => task[g].left >= 1
  BY DEF Inv, Forwards
<1> QED  BY <1>1, <1>4, <1>5, <1>6, <1>7, ForwardKeeps

LEMMA BackendRepliesKeeps ==
    ASSUME Inv, NEW f \in Fds, BackendReplies(f)
    PROVE  Inv'
<1>1. TypeOK /\ task[f] \in Tasks /\ task[f].phase = "await" /\ task \in [Fds -> Tasks]
      /\ task' = [task EXCEPT ![f].phase = "reply"] /\ UNCHANGED <<main, health, network>>
  BY DEF Inv, TypeOK, BackendReplies
<1>2. task'[f] = [task[f] EXCEPT !.phase = "reply"] /\ \A g \in Fds : g # f => task'[g] = task[g]
  BY <1>1
<1>3. task'[f] \in Tasks /\ task'[f].phase = "reply" /\ task'[f].requests = task[f].requests
  BY <1>1, <1>2 DEF Tasks, Phases
<1>4. TypeOK'
  <2>1. task' \in [Fds -> Tasks]
    BY <1>1, <1>3
  <2> QED  BY <1>1, <2>1 DEF TypeOK, main, health, network
<1>5. \A g \in Fds : task[g].phase = "connect" => task[g].left >= 1
  BY DEF Inv, Forwards
<1> QED  BY <1>1, <1>2, <1>3, <1>4, <1>5, ForwardKeeps

LEMMA ReplySucceeds ==
    ASSUME Inv, NEW f \in Fds, Reply(f), task' = [task EXCEPT ![f].phase = "success"],
           got' = [got EXCEPT ![conn[f]] = @ + task[f].requests], UNCHANGED <<pc, remote>>
    PROVE  Inv'
<1>1. TypeOK /\ task[f] \in Tasks /\ task[f].phase = "reply" /\ task \in [Fds -> Tasks]
      /\ UNCHANGED <<fds_, clients_, todo, accepted, choice, numForwards, health,
                     conn, backlog, inbox, sent>>
  BY DEF Inv, TypeOK, Reply
<1>2. task'[f] = [task[f] EXCEPT !.phase = "success"] /\ \A g \in Fds : g # f => task'[g] = task[g]
  BY <1>1
<1>3. task'[f] \in Tasks /\ task'[f].phase = "success" /\ task'[f].requests = task[f].requests
  BY <1>1, <1>2 DEF Tasks, Phases
<1>4. task[f].requests \in Nat
  BY <1>1 DEF Tasks
<1>5. got' \in [Clients -> Nat]
      /\ (conn[f] \in Clients => got'[conn[f]] = got[conn[f]] + task[f].requests)
      /\ \A c \in Clients : c # conn[f] => got'[c] = got[c]
  <2>1. got \in [Clients -> Nat]
    BY <1>1, Typing
  <2>2. CASE conn[f] \in Clients
    BY <2>1, <2>2, <1>4
  <2>3. CASE conn[f] \notin Clients
    BY <2>1, <2>3
  <2> QED  BY <2>2, <2>3
<1>6. TypeOK'
  <2>1. task' \in [Fds -> Tasks]
    BY <1>1, <1>3
  <2> QED  BY <1>1, <2>1, <1>5 DEF TypeOK, health
<1>7. Ordered' /\ Registry' /\ Unmarked'
  BY <1>1 DEF Inv, Ordered, Registry, Registered, Unmarked, Scanning
<1>8. Scan'
  BY <1>1, <1>2, <1>3, Typing DEF Inv, Scan, Scanning
<1>9. Forwards'
  BY <1>1, <1>2, <1>3 DEF Inv, Forwards
<1>10. \A g \in Fds : conn[g] # None /\ Balanced(g) => Balanced(g)'
  <2> TAKE g \in Fds
  <2> HAVE conn[g] # None /\ Balanced(g)
  <2>1. conn[g] \in Clients
    BY <1>1, Typing
  <2>2. CASE g = f
    <3>1. sent[conn[f]] = got[conn[f]] + inbox[conn[f]] + task[f].requests
      BY <2>2, <1>1 DEF Balanced
    <3>2. sent[conn[f]] \in Nat /\ got[conn[f]] \in Nat /\ inbox[conn[f]] \in Nat
      BY <2>1, <2>2, <1>1, Typing
    <3> QED  BY <3>1, <3>2, <2>1, <2>2, <1>1, <1>3, <1>4, <1>5 DEF Balanced
  <2>3. CASE g # f
    <3>1. conn[g] # conn[f]
      BY <2>3 DEF Inv, Peers
    <3> QED  BY <3>1, <2>1, <2>3, <1>1, <1>2, <1>5 DEF Balanced
  <2> QED  BY <2>2, <2>3
<1>11. Accepted' /\ Balances'
  BY <1>1, <1>10 DEF Inv, TypeOK, Accepted, Balances, Registry, Scanning
<1>12. Peers'
  <2>1. \A i \in 1..Len(backlog) : backlog[i] \in Clients /\ backlog[i] # conn[f]
    BY <1>1, Typing DEF Inv, Peers
  <2> QED  BY <2>1, <1>1, <1>5 DEF Inv, Peers
<1> QED  BY <1>6, <1>7, <1>8, <1>9, <1>11, <1>12 DEF Inv

LEMMA ReplyFails ==
    ASSUME Inv, NEW f \in Fds, Reply(f), task' = [task EXCEPT ![f].phase = "failed"],
           remote' = [remote EXCEPT ![conn[f]] = "gone"], UNCHANGED <<pc, got>>
    PROVE  Inv'
<1>1. TypeOK /\ task[f] \in Tasks /\ task[f].phase = "reply" /\ task \in [Fds -> Tasks]
      /\ UNCHANGED <<fds_, clients_, todo, accepted, choice, numForwards, health,
                     conn, backlog, inbox, sent>>
  BY DEF Inv, TypeOK, Reply
<1>2. task'[f] = [task[f] EXCEPT !.phase = "failed"] /\ \A g \in Fds : g # f => task'[g] = task[g]
  BY <1>1
<1>3. task'[f] \in Tasks /\ task'[f].phase = "failed"
  BY <1>1, <1>2 DEF Tasks, Phases
<1>4. remote' \in [Clients -> Remotes] /\ \A c \in Clients : remote'[c] \in {remote[c], "gone"}
  BY <1>1 DEF TypeOK, Remotes
<1>5. TypeOK'
  <2>1. task' \in [Fds -> Tasks]
    BY <1>1, <1>3
  <2> QED  BY <1>1, <2>1, <1>4 DEF TypeOK, health
<1>6. Ordered' /\ Registry' /\ Unmarked'
  BY <1>1 DEF Inv, Ordered, Registry, Registered, Unmarked, Scanning
<1>7. Scan'
  BY <1>1, <1>2, <1>3, Typing DEF Inv, Scan, Scanning
<1>8. Forwards'
  BY <1>1, <1>2, <1>3 DEF Inv, Forwards
<1>9. \A g \in Fds : Balanced(g) => Balanced(g)'
  BY <1>1, <1>2, <1>3 DEF Balanced
<1>10. Accepted' /\ Balances'
  BY <1>1, <1>9 DEF Inv, TypeOK, Accepted, Balances, Scanning
<1>11. Peers'
  BY <1>1, <1>4, Typing DEF Inv, Peers
<1> QED  BY <1>5, <1>6, <1>7, <1>8, <1>10, <1>11 DEF Inv

LEMMA ReplyKills ==
    ASSUME Inv, NEW f \in Fds, Reply(f), pc' = "killed", UNCHANGED <<task, remote, got>>
    PROVE  Inv'
<1>1. UNCHANGED <<fds_, clients_, todo, accepted, choice, numForwards, health,
                  conn, backlog, inbox, sent>>
  BY DEF Reply
<1>2. TypeOK'
  BY <1>1 DEF Inv, TypeOK, health, PCs
<1>3. Ordered' /\ Registry' /\ Unmarked' /\ Scan' /\ Accepted' /\ Forwards'
  BY <1>1 DEF Inv, Ordered, Registry, Registered, Unmarked, Scan, Accepted, Forwards, Scanning
<1>4. Balances' /\ Peers'
  BY <1>1 DEF Inv, Balances, Balanced, Peers
<1> QED  BY <1>2, <1>3, <1>4 DEF Inv

LEMMA ForwardsKeep ==
    ASSUME Inv, NEW f \in Fds, forwardToBackend(f)
    PROVE  Inv'
<1>1. CASE Reply(f)
  BY <1>1, ReplySucceeds, ReplyFails, ReplyKills DEF Reply
<1> QED  BY <1>1, ForwardConnectsKeeps, BackendRepliesKeeps DEF forwardToBackend

-----------------------------------------------------------------------------
(* The main thread                                                         *)
LEMMA TodoTail ==
    ASSUME TypeOK, todo # << >>, todo' = Tail(todo)
    PROVE  /\ todo' \in Seq({Listener} \cup Fds)
           /\ Len(todo) \in Nat /\ Len(todo') = Len(todo) - 1
           /\ 1 \in 1..Len(todo) /\ Head(todo) = todo[1]
           /\ \A i \in 1..Len(todo') : i + 1 \in 1..Len(todo) /\ i + 1 # 1 /\ todo'[i] = todo[i + 1]
BY DEF TypeOK

(* The descriptor at the scan is that of a valid client nobody serves.     *)
LEMMA ScannedClient ==
    ASSUME Inv, pc \in {"scan", "choose"}, todo # << >>, pc = "scan" => Head(todo) # Listener
    PROVE  /\ Scanned = todo[1] /\ Scanned \in Fds /\ Scanned # accepted
           /\ clients_[Scanned] = "valid" /\ task[Scanned].phase = "none"
           /\ conn[Scanned] \in Clients
           /\ \A i \in 1..Len(todo) : todo[i] \in Fds
           /\ \A i \in 2..Len(todo) : todo[i] # Scanned
<1>1. TypeOK
  BY DEF Inv
<1>2. Len(todo) \in Nat /\ 1 \in 1..Len(todo) /\ Scanned = todo[1]
  BY <1>1 DEF TypeOK, Scanned
<1>3. \A i \in 1..Len(todo) : todo[i] # Listener
  BY <1>2 DEF Inv, Scan, Scanning, Scanned
<1>4. \A i \in 1..Len(todo) : todo[i] \in Fds
  BY <1>1, <1>3, Typing
<1>5. clients_[todo[1]] = "valid" /\ task[todo[1]].phase = "none"
  BY <1>2, <1>3 DEF Inv, Scan, Scanning
<1>6. conn[todo[1]] \in Clients
  BY <1>1, <1>2, <1>4, <1>5, Typing DEF Inv, Registry
<1>7. accepted # todo[1]
  BY <1>1, <1>2, <1>4, <1>5, Typing DEF Inv, Accepted, Scanning
<1>8. \A i \in 2..Len(todo) : todo[i] # todo[1]
  BY <1>2 DEF Inv, Scan, Scanning
<1> QED  BY <1>2, <1>4, <1>5, <1>6, <1>7, <1>8

LEMMA NextPortKeeps == Inv /\ NextPort => Inv'
<1> SUFFICES ASSUME Inv, NextPort PROVE Inv'
  OBVIOUS
<1> USE DEF NextPort, network, health
<1>1. TypeOK'
  <2>1. choice' \in [index : Backends, tries : 0..MaxTries]
    BY NumbersAssumption DEF Inv, TypeOK, Backends
  <2>2. numForwards' \in Backends
    BY NumbersAssumption DEF Inv, TypeOK, Backends, RoundRobin
  <2> QED  BY <2>1, <2>2 DEF Inv, TypeOK
<1>2. Ordered' /\ Registry' /\ Unmarked' /\ Scan' /\ Forwards' /\ Accepted'
  BY DEF Inv, Ordered, Registry, Registered, Unmarked, Scan, Forwards, Accepted, Balanced, Scanning
<1>3. Balances' /\ Peers'
  BY DEF Inv, Balances, Balanced, Peers
<1> QED  BY <1>1, <1>2, <1>3 DEF Inv

LEMMA ClientLeftKeeps == Inv /\ ClientLeft => Inv'
<1> SUFFICES ASSUME Inv, ClientLeft PROVE Inv'
  OBVIOUS
<1>1. TypeOK /\ pc = "scan" /\ todo # << >> /\ Head(todo) # Listener /\ todo' = Tail(todo)
      /\ clients_' = [clients_ EXCEPT ![Scanned] = "invalid"]
      /\ UNCHANGED <<pc, fds_, accepted, choice, numForwards, task, network, health>>
  BY DEF Inv, ClientLeft, Scans
<1> USE DEF network, health
<1>2. /\ Scanned = todo[1] /\ Scanned \in Fds /\ Scanned # accepted
      /\ clients_[Scanned] = "valid" /\ task[Scanned].phase = "none"
      /\ \A i \in 1..Len(todo) : todo[i] \in Fds
      /\ \A i \in 2..Len(todo) : todo[i] # Scanned
  BY <1>1, ScannedClient
<1>3. clients_' \in [Fds -> {"absent", "valid", "invalid"}] /\ clients_'[Scanned] = "invalid"
      /\ \A f \in Fds : f # Scanned => clients_'[f] = clients_[f]
  BY <1>1, <1>2 DEF TypeOK
<1>4. /\ todo' \in Seq({Listener} \cup Fds) /\ Len(todo) \in Nat /\ Len(todo') = Len(todo) - 1
      /\ \A i \in 1..Len(todo') : i + 1 \in 1..Len(todo) /\ i + 1 # 1 /\ todo'[i] = todo[i + 1]
  BY <1>1, TodoTail
<1>5. \A i \in 1..Len(todo') : todo'[i] \in Fds /\ todo'[i] # Scanned
  <2>1. \A i \in 1..Len(todo') : i + 1 \in 2..Len(todo)
    BY <1>4
  <2> QED  BY <2>1, <1>2, <1>4
<1>6. Listener \notin Fds
  BY <1>1, Typing
<1>7. TypeOK'
  BY <1>1, <1>3, <1>4 DEF TypeOK
<1>8. Ordered' /\ Registry'
  BY <1>1, <1>2, <1>3 DEF Inv, Ordered, Registry, Registered
<1>9. Unmarked'
  BY <1>1, <1>5, <1>6 DEF Unmarked
<1>10. Scan'
  <2>1. \A i, j \in 1..Len(todo') : todo'[i] = todo'[j] => i = j
    <3> TAKE i, j \in 1..Len(todo')
    <3> HAVE todo'[i] = todo'[j]
    <3>1. i + 1 = j + 1
      BY <1>1, <1>4 DEF Inv, Scan, Scanning
    <3> QED  BY <3>1, <1>4
  <2>2. \A i \in 1..Len(todo') : clients_'[todo'[i]] = "valid" /\ task[todo'[i]].phase = "none"
    <3> TAKE i \in 1..Len(todo')
    <3>1. clients_[todo[i + 1]] = "valid" /\ task[todo[i + 1]].phase = "none"
      BY <1>1, <1>4, <1>5, <1>6 DEF Inv, Scan, Scanning
    <3> QED  BY <3>1, <1>3, <1>4, <1>5
  <2> QED  BY <2>1, <2>2, <1>1, <1>5, <1>6 DEF Scan
<1>11. Forwards'
  BY <1>1, <1>2, <1>3 DEF Inv, Forwards
<1>12. Accepted'
  BY <1>1, <1>2, <1>3 DEF Inv, TypeOK, Accepted, Balanced, Scanning
<1>13. Balances'
  BY <1>1, <1>2, <1>3 DEF Inv, Balances, Balanced
<1>14. Peers'
  BY <1>1 DEF Inv, Peers
<1> QED  BY <1>7, <1>8, <1>9, <1>10, <1>11, <1>12, <1>13, <1>14 DEF Inv

LEMMA HandleKeeps == Inv /\ handleClient => Inv'
<1> SUFFICES ASSUME Inv, handleClient PROVE Inv'
  OBVIOUS
<1>1. TypeOK /\ pc = "scan" /\ todo # << >> /\ Head(todo) # Listener /\ pc' = "choose"
      /\ UNCHANGED <<fds_, clients_, todo, accepted, numForwards, health, conn, backlog, sent, got>>
      /\ choice' = [index |-> 0, tries |-> MaxTries]
      /\ inbox' = [inbox EXCEPT ![Asker] = 0]
      /\ remote' = IF inbox[Asker] = 0 THEN [remote EXCEPT ![Asker] = "gone"] ELSE remote
  BY DEF Inv, handleClient, Scans
<1> USE DEF health
<1>2. /\ Scanned = todo[1] /\ Scanned \in Fds /\ Scanned # accepted
      /\ clients_[Scanned] = "valid" /\ task[Scanned].phase = "none"
      /\ Asker = conn[Scanned] /\ Asker \in Clients
      /\ \A i \in 1..Len(todo) : todo[i] \in Fds
  BY <1>1, ScannedClient DEF Asker
<1>3. inbox \in [Clients -> Nat] /\ inbox[Asker] \in Nat /\ task \in [Fds -> Tasks]
  BY <1>1, <1>2, Typing DEF TypeOK
<1>4. inbox' \in [Clients -> Nat] /\ inbox'[Asker] = 0
      /\ \A c \in Clients : c # Asker => inbox'[c] = inbox[c]
  BY <1>1, <1>2, <1>3
<1>5. remote' \in [Clients -> Remotes] /\ \A c \in Clients : remote'[c] \in {remote[c], "gone"}
  BY <1>1, <1>2 DEF TypeOK, Remotes
<1> DEFINE new == [NoTask EXCEPT !.requests = inbox[Asker]]
<1>6. new \in Tasks /\ new.phase = "none" /\ new.requests = inbox[Asker]
  <2>1. 0 \in Backends /\ 0 \in 0..MaxRetries
    BY NumbersAssumption DEF Backends
  <2> QED  BY <2>1, <1>3 DEF NoTask, Tasks, Phases
<1>7. task' = [task EXCEPT ![Scanned] = new]
  BY DEF handleClient, Read
<1> HIDE DEF new
<1>8. task' \in [Fds -> Tasks] /\ task'[Scanned] = new /\ \A f \in Fds : f # Scanned => task'[f] = task[f]
  BY <1>2, <1>3, <1>6, <1>7
<1>9. choice' \in [index : Backends, tries : 0..MaxTries]
  BY <1>1, NumbersAssumption DEF Backends
<1>10. TypeOK'
  <2>1. {inbox', sent', got'} \subseteq [Clients -> Nat]
    BY <1>1, <1>4 DEF TypeOK
  <2>2. pc' \in PCs
    BY <1>1 DEF PCs
  <2> QED  BY <2>1, <2>2, <1>1, <1>5, <1>8, <1>9 DEF TypeOK
<1>11. Ordered' /\ Registry'
  BY <1>1 DEF Inv, Ordered, Registry, Registered
<1>12. Unmarked'
  BY <1>1 DEF Inv, Unmarked, Scanning
<1>13. Scan'
  <2>1. Listener \notin Fds
    BY <1>1, Typing
  <2>2. \A i \in 1..Len(todo) : clients_[todo[i]] = "valid" /\ task'[todo[i]].phase = "none"
    BY <1>1, <1>2, <1>6, <1>8, <2>1 DEF Inv, Scan, Scanning
  <2> QED  BY <2>1, <2>2, <1>1, <1>2 DEF Inv, Scan, Scanning
<1>14. Forwards'
  <2>1. pc # "killed" /\ pc # "choose" /\ pc' # "poll"
    BY <1>1
  <2> QED  BY <2>1, <1>1, <1>2, <1>6, <1>8 DEF Inv, Forwards
<1>15. \A f \in Fds : f # Scanned /\ conn[f] # None /\ Balanced(f) => Balanced(f)'
  <2> TAKE f \in Fds
  <2> HAVE f # Scanned /\ conn[f] # None /\ Balanced(f)
  <2>1. conn[f] # Asker /\ conn[f] \in Clients
    BY <1>1, <1>2, Typing DEF Inv, Peers
  <2> QED  BY <2>1, <1>1, <1>4, <1>8 DEF Balanced
<1>16. Accepted'
  BY <1>1, <1>2, <1>15 DEF Inv, TypeOK, Accepted, Scanning
<1>17. Balances'
  <2>1. Balanced(Scanned)'
    <3>1. task[Scanned].requests = 0
      BY <1>1, <1>2 DEF Inv, Forwards
    <3>2. sent[Asker] = got[Asker] + inbox[Asker] + 0
      BY <3>1, <1>2 DEF Inv, Balances, Balanced
    <3>3. got[Asker] \in Nat /\ sent[Asker] \in Nat
      BY <1>1, <1>2, Typing
    <3>4. sent[Asker] = got[Asker] + 0 + inbox[Asker]
      BY <3>2, <3>3, <1>3
    <3>5. Scanned' = Scanned
      BY <1>1 DEF Scanned
    <3> QED  BY <3>4, <3>5, <1>1, <1>2, <1>4, <1>6, <1>8 DEF Balanced
  <2>2. Scanned' = Scanned
    BY <1>1 DEF Scanned
  <2> QED  BY <2>1, <2>2, <1>1, <1>15 DEF Inv, Balances, Registry
<1>18. Peers'
  <2>1. \A i \in 1..Len(backlog) : backlog[i] \in Clients /\ backlog[i] # Asker
    BY <1>1, <1>2, Typing DEF Inv, Peers
  <2> QED  BY <2>1, <1>1, <1>4, <1>5 DEF Inv, Peers
<1> QED  BY <1>10, <1>11, <1>12, <1>13, <1>14, <1>16, <1>17, <1>18 DEF Inv

(* The descriptor is free again, and nobody in the backlog is disturbed.   *)
LEMMA Closing ==
    ASSUME Inv, NEW f \in Fds, Closed(f), UNCHANGED <<backlog, inbox, sent, got>>
    PROVE  /\ conn' \in [Fds -> Clients \cup {None}] /\ remote' \in [Clients -> Remotes]
           /\ conn'[f] = None /\ \A g \in Fds : g # f => conn'[g] = conn[g]
           /\ Peers'
<1>1. TypeOK
  BY DEF Inv
<1>2. conn' \in [Fds -> Clients \cup {None}]
      /\ conn'[f] = None /\ \A g \in Fds : g # f => conn'[g] = conn[g]
  BY <1>1 DEF TypeOK, Closed
<1>3. remote' \in [Clients -> Remotes] /\ \A c \in Clients : c # conn[f] => remote'[c] = remote[c]
  BY <1>1 DEF TypeOK, Closed, Remotes
<1>4. \A i \in 1..Len(backlog) : backlog[i] \in Clients /\ backlog[i] # conn[f] /\ backlog[i] # None
  BY <1>1, Typing DEF Inv, Peers
<1>5. Peers'
  <2>1. \A g, h \in Fds : conn'[g] = conn'[h] /\ conn'[g] # None => g = h
    BY <1>2 DEF Inv, Peers
  <2>2. \A i \in 1..Len(backlog) : /\ \A g \in Fds : conn'[g] # backlog[i]
                                   /\ remote'[backlog[i]] \notin {"away", "dropped"}
    BY <1>2, <1>3, <1>4 DEF Inv, Peers
  <2> QED  BY <2>1, <2>2 DEF Inv, Peers
<1> QED  BY <1>2, <1>3, <1>5

LEMMA PortChosenKeeps == Inv /\ PortChosen => Inv'
<1> SUFFICES ASSUME Inv, PortChosen PROVE Inv'
  OBVIOUS
<1>1. TypeOK /\ pc = "choose" /\ pc' = "scan" /\ todo' = Tail(todo)
      /\ UNCHANGED <<fds_, accepted, choice, numForwards, health, backlog, inbox, sent, got>>
  BY DEF Inv, PortChosen
<1>2. todo # << >>
  BY <1>1 DEF Inv, Scan, Scanning
<1> USE DEF health
<1>3. /\ Scanned = todo[1] /\ Scanned \in Fds /\ Scanned # accepted
      /\ clients_[Scanned] = "valid" /\ task[Scanned].phase = "none"
      /\ \A i \in 1..Len(todo) : todo[i] \in Fds
      /\ \A i \in 2..Len(todo) : todo[i] # Scanned
  BY <1>1, <1>2, ScannedClient
<1>4. /\ todo' \in Seq({Listener} \cup Fds) /\ Len(todo) \in Nat /\ Len(todo') = Len(todo) - 1
      /\ \A i \in 1..Len(todo') : i + 1 \in 1..Len(todo) /\ i + 1 # 1 /\ todo'[i] = todo[i + 1]
  BY <1>1, <1>2, TodoTail
<1>5. \A i \in 1..Len(todo') : todo'[i] \in Fds /\ todo'[i] # Scanned
  <2>1. \A i \in 1..Len(todo') : i + 1 \in 2..Len(todo)
    BY <1>4
  <2> QED  BY <2>1, <1>3, <1>4
<1>6. Listener \notin Fds
  BY <1>1, Typing
<1>7. Ordered' /\ Unmarked'
  BY <1>1, <1>5, <1>6 DEF Inv, Ordered, Unmarked
<1>8. \A i, j \in 1..Len(todo') : todo'[i] = todo'[j] => i = j
  <2> TAKE i, j \in 1..Len(todo')
  <2> HAVE todo'[i] = todo'[j]
  <2>1. i + 1 = j + 1
    BY <1>1, <1>4 DEF Inv, Scan, Scanning
  <2> QED  BY <2>1, <1>4
<1>9. \A i \in 1..Len(todo') : clients_[todo'[i]] = "valid" /\ task[todo'[i]].phase = "none"
  <2> TAKE i \in 1..Len(todo')
  <2>1. clients_[todo[i + 1]] = "valid" /\ task[todo[i + 1]].phase = "none"
    BY <1>1, <1>4, <1>5, <1>6 DEF Inv, Scan, Scanning
  <2> QED  BY <2>1, <1>4
<1>10. \A f \in Fds : f # Scanned /\ task[f].phase = "none" => task[f].requests = 0
  BY <1>1, <1>3 DEF Inv, Forwards
<1>11. task \in [Fds -> Tasks] /\ task[Scanned] \in Tasks /\ choice \in [index : Backends, tries : 0..MaxTries]
  BY <1>1, <1>3, Typing DEF TypeOK
<1>12. ASSUME Forwarded PROVE Inv'
  <2>1. UNCHANGED <<clients_, conn, remote>>
        /\ task' = [task EXCEPT ![Scanned].phase = "connect", ![Scanned].port = choice.index,
                                ![Scanned].left = MaxRetries]
    BY <1>12 DEF Forwarded
  <2>2. task'[Scanned] = [task[Scanned] EXCEPT !.phase = "connect", !.port = choice.index,
                                               !.left = MaxRetries]
        /\ \A f \in Fds : f # Scanned => task'[f] = task[f]
    BY <2>1, <1>3, <1>11
  <2>3. /\ task'[Scanned] \in Tasks /\ task'[Scanned].phase = "connect"
        /\ task'[Scanned].requests = task[Scanned].requests /\ task'[Scanned].left >= 1
    <3>1. MaxRetries \in 0..MaxRetries /\ MaxRetries >= 1 /\ choice.index \in Backends
      BY <1>11, NumbersAssumption
    <3> QED  BY <2>2, <3>1, <1>11 DEF Tasks, Phases
  <2>4. TypeOK'
    <3>1. task' \in [Fds -> Tasks]
      BY <2>1, <2>3, <1>3, <1>11
    <3> QED  BY <2>1, <3>1, <1>1, <1>4 DEF TypeOK, PCs
  <2>5. Registry'
    BY <2>1, <1>1, SameRegistered DEF Inv, Registry
  <2>6. Scan'
    <3>1. \A i \in 1..Len(todo') : /\ todo'[i] # Listener
                                   /\ clients_'[todo'[i]] = "valid" /\ task'[todo'[i]].phase = "none"
      BY <2>1, <2>2, <1>5, <1>6, <1>9
    <3> QED  BY <3>1, <1>1, <1>8 DEF Scan
  <2>7. Forwards'
    <3>1. \A f \in Fds : task'[f].phase = "connect" => task'[f].left >= 1
      BY <2>2, <2>3 DEF Inv, Forwards
    <3>2. \A f \in Fds : IF task'[f].phase # "none" THEN clients_[f] = "valid"
                         ELSE task'[f].requests = 0
      <4> TAKE f \in Fds
      <4>1. CASE f = Scanned
        BY <4>1, <2>3, <1>3
      <4>2. CASE f # Scanned
        BY <4>2, <2>2, <1>1, <1>10 DEF Inv, Forwards
      <4> QED  BY <4>1, <4>2
    <3> QED  BY <3>1, <3>2, <2>1, <1>1 DEF Forwards
  <2>8. \A f \in Fds : Balanced(f) => Balanced(f)'
    <3> TAKE f \in Fds
    <3>1. CASE f = Scanned
      <4>1. task[f].phase \notin {"failed", "success"} /\ task'[f].phase \notin {"failed", "success"}
            /\ task'[f].requests = task[f].requests
        BY <3>1, <2>3, <1>3
      <4> QED  BY <4>1, <2>1, <1>1 DEF Balanced
    <3>2. CASE f # Scanned
      BY <3>2, <2>1, <2>2, <1>1 DEF Balanced
    <3> QED  BY <3>1, <3>2
  <2>9. Accepted' /\ Balances'
    BY <2>1, <2>8, <1>1 DEF Inv, TypeOK, Accepted, Balances, Scanning
  <2>10. Peers'
    BY <2>1, <1>1 DEF Inv, Peers
  <2> QED  BY <2>4, <2>5, <2>6, <2>7, <2>9, <2>10, <1>7 DEF Inv
<1>13. ASSUME Refused PROVE Inv'
  <2>1. clients_' = [clients_ EXCEPT ![Scanned] = "invalid"] /\ Closed(Scanned)
        /\ task' = [task EXCEPT ![Scanned] = NoTask]
    BY <1>13 DEF Refused
  <2>2. /\ conn' \in [Fds -> Clients \cup {None}] /\ remote' \in [Clients -> Remotes]
        /\ \A f \in Fds : f # Scanned => conn'[f] = conn[f]
        /\ Peers'
    BY <2>1, <1>1, <1>3, Closing
  <2>3. NoTask \in Tasks /\ NoTask.phase = "none" /\ NoTask.requests = 0
    BY NumbersAssumption DEF NoTask, Tasks, Phases, Backends
  <2>4. task' \in [Fds -> Tasks] /\ task'[Scanned] = NoTask
        /\ \A f \in Fds : f # Scanned => task'[f] = task[f]
    BY <2>1, <2>3, <1>3, <1>11
  <2>5. clients_' \in [Fds -> {"absent", "valid", "invalid"}] /\ clients_'[Scanned] = "invalid"
        /\ \A f \in Fds : f # Scanned => clients_'[f] = clients_[f]
    BY <2>1, <1>1, <1>3 DEF TypeOK
  <2>6. TypeOK'
    BY <2>2, <2>4, <2>5, <1>1, <1>4 DEF TypeOK, PCs
  <2>7. Registry'
    <3>1. UNCHANGED Registered
      BY <1>1, SameRegistered
    <3>2. \A f \in Fds : clients_'[f] = "valid" => f # Scanned
      BY <2>5
    <3>3. clients_'[Scanned] # "absent" /\ Scanned \in Registered
      BY <2>5, <1>3 DEF Inv, Registry
    <3> QED  BY <3>1, <3>2, <3>3, <2>2, <2>5 DEF Inv, Registry
  <2>8. Scan'
    <3>1. \A i \in 1..Len(todo') : /\ todo'[i] # Listener
                                   /\ clients_'[todo'[i]] = "valid" /\ task'[todo'[i]].phase = "none"
      BY <2>4, <2>5, <1>5, <1>6, <1>9
    <3> QED  BY <3>1, <1>1, <1>8 DEF Scan
  <2>9. Forwards'
    BY <2>3, <2>4, <2>5, <1>1, <1>3, <1>10 DEF Inv, Forwards
  <2>10. \A f \in Fds : f # Scanned /\ Balanced(f) => Balanced(f)'
    BY <2>2, <2>4, <1>1 DEF Balanced
  <2>11. Accepted' /\ Balances'
    BY <2>2, <2>5, <2>10, <1>1, <1>3 DEF Inv, TypeOK, Accepted, Balances, Scanning
  <2> QED  BY <2>2, <2>6, <2>7, <2>8, <2>9, <2>11, <1>7 DEF Inv
<1> QED  BY <1>12, <1>13 DEF PortChosen

LEMMA RegisterKeeps == Inv /\ register => Inv'
<1> SUFFICES ASSUME Inv, register PROVE Inv'
  OBVIOUS
<1>1. TypeOK /\ pc = "scan" /\ pc' = "collect"
      /\ UNCHANGED <<todo, accepted, choice, numForwards, task, network, health>>
  BY DEF Inv, register
<1> USE DEF network, health
<1>2. Unmarked' /\ Scan' /\ Accepted'
  BY <1>1 DEF Unmarked, Scan, Accepted, Scanning
<1>3. Peers'
  BY <1>1 DEF Inv, Peers
<1>4. CASE accepted = None
  <2>1. UNCHANGED <<fds_, clients_>>
    BY <1>4 DEF register
  <2>2. TypeOK'
    BY <2>1, <1>1 DEF TypeOK, PCs
  <2>3. Ordered' /\ Registry' /\ Forwards' /\ Balances'
    BY <2>1, <1>1 DEF Inv, Ordered, Registry, Registered, Forwards, Balances, Balanced
  <2> QED  BY <2>2, <2>3, <1>2, <1>3 DEF Inv
<1>5. CASE accepted # None
  <2>1. fds_' = Append(fds_, accepted) /\ clients_' = [clients_ EXCEPT ![accepted] = "valid"]
    BY <1>5 DEF register
  <2>2. accepted \in Fds /\ clients_[accepted] = "absent" /\ conn[accepted] # None /\ Balanced(accepted)
    BY <1>1, <1>5 DEF Inv, TypeOK, Accepted, Scanning
  <2>3. clients_' \in [Fds -> {"absent", "valid", "invalid"}] /\ clients_'[accepted] = "valid"
        /\ \A f \in Fds : f # accepted => clients_'[f] = clients_[f]
    BY <2>1, <2>2, <1>1 DEF TypeOK
  <2>4. fds_' \in Seq({Listener} \cup Fds) /\ Len(fds_') = Len(fds_) + 1 /\ Len(fds_) \in Nat
        /\ fds_'[Len(fds_')] = accepted /\ \A i \in 1..Len(fds_) : fds_'[i] = fds_[i]
    BY <2>1, <2>2, <1>1 DEF TypeOK
  <2>5. \A i \in 1..Len(fds_') : i = Len(fds_') \/ i \in 1..Len(fds_)
    BY <2>4
  <2>6. accepted \notin Registered
    BY <2>2 DEF Inv, Registry
  <2>7. TypeOK'
    BY <2>3, <2>4, <1>1 DEF TypeOK, PCs
  <2>8. Ordered'
    <3>1. \A i \in 1..Len(fds_) : fds_[i] # accepted
      BY <2>6 DEF Registered
    <3>2. 1 \in 1..Len(fds_)
      BY <2>4 DEF Inv, Ordered
    <3> QED  BY <3>1, <3>2, <2>4, <2>5 DEF Inv, Ordered
  <2>9. Registry'
    <3>1. Registered' = Registered \cup {accepted}
      <4>1. \A i \in 1..Len(fds_) : i \in 1..Len(fds_')
        BY <2>4
      <4>2. Len(fds_') \in 1..Len(fds_')
        BY <2>4
      <4> QED  BY <4>1, <4>2, <2>4, <2>5 DEF Registered
    <3> QED  BY <3>1, <2>2, <2>3, <1>1 DEF Inv, Registry
  <2>10. Forwards'
    BY <2>3, <1>1 DEF Inv, Forwards
  <2>11. Balances'
    BY <2>2, <2>3, <1>1 DEF Inv, Balances, Balanced
  <2> QED  BY <2>7, <2>8, <2>9, <2>10, <2>11, <1>2, <1>3 DEF Inv
<1> QED  BY <1>4, <1>5

LEMMA CollectKeeps == Inv /\ collect => Inv'
<1> SUFFICES ASSUME Inv, collect PROVE Inv'
  OBVIOUS
<1>1. TypeOK /\ pc = "collect"
      /\ UNCHANGED <<pc, fds_, todo, accepted, choice, numForwards, health, backlog, inbox, sent, got>>
  BY DEF Inv, collect
<1> USE DEF health
<1>2. PICK f \in Fds :
        /\ task[f].phase \in {"success", "failed"} /\ task' = [task EXCEPT ![f] = NoTask]
        /\ IF task[f].phase = "success" THEN UNCHANGED <<clients_, conn, remote>>
           ELSE clients_' = [clients_ EXCEPT ![f] = "invalid"] /\ Closed(f)
  BY DEF collect
<1>3. NoTask \in Tasks /\ NoTask.phase = "none" /\ NoTask.requests = 0
  BY NumbersAssumption DEF NoTask, Tasks, Phases, Backends
<1>4. task' \in [Fds -> Tasks] /\ task'[f] = NoTask
      /\ \A g \in Fds : g # f => task'[g] = task[g]
  BY <1>1, <1>2, <1>3 DEF TypeOK
<1>5. clients_[f] = "valid"
  BY <1>1, <1>2 DEF Inv, Forwards
<1>6. Ordered' /\ Unmarked' /\ Scan' /\ Accepted'
  BY <1>1 DEF Inv, Ordered, Unmarked, Scan, Accepted, Scanning
<1>7. CASE task[f].phase = "success"
  <2>1. UNCHANGED <<clients_, conn, remote>>
    BY <1>2, <1>7
  <2>2. TypeOK'
    BY <2>1, <1>1, <1>4 DEF TypeOK
  <2>3. Registry' /\ Peers'
    BY <2>1, <1>1 DEF Inv, Registry, Registered, Peers
  <2>4. Forwards'
    BY <2>1, <1>1, <1>3, <1>4 DEF Inv, Forwards
  <2>5. Balances'
    BY <2>1, <1>1, <1>3, <1>4, <1>7 DEF Inv, Balances, Balanced
  <2> QED  BY <2>2, <2>3, <2>4, <2>5, <1>6 DEF Inv
<1>8. CASE task[f].phase = "failed"
  <2>1. clients_' = [clients_ EXCEPT ![f] = "invalid"] /\ Closed(f)
    BY <1>2, <1>8
  <2>2. /\ conn' \in [Fds -> Clients \cup {None}] /\ remote' \in [Clients -> Remotes]
        /\ \A g \in Fds : g # f => conn'[g] = conn[g]
        /\ Peers'
    BY <2>1, <1>1, Closing
  <2>3. clients_' \in [Fds -> {"absent", "valid", "invalid"}] /\ clients_'[f] = "invalid"
        /\ \A g \in Fds : g # f => clients_'[g] = clients_[g]
    BY <2>1, <1>1 DEF TypeOK
  <2>4. TypeOK'
    BY <2>2, <2>3, <1>1, <1>4 DEF TypeOK
  <2>5. Registry'
    BY <2>2, <2>3, <1>1, <1>5 DEF Inv, Registry, Registered
  <2>6. Forwards'
    BY <2>3, <1>1, <1>3, <1>4 DEF Inv, Forwards
  <2>7. Balances'
    BY <2>2, <2>3, <1>1, <1>4 DEF Inv, Balances, Balanced
  <2> QED  BY <2>2, <2>4, <2>5, <2>6, <2>7, <1>6 DEF Inv
<1> QED  BY <1>2, <1>7, <1>8

(* What is filtered out of distinct descriptors is distinct, and has the   *)
(* listener at its head if at all.                                         *)
LEMMA FilteredFds ==
    ASSUME TypeOK, Ordered, NEW Keep
    PROVE  LET r == Filter(fds_, Keep)
           IN  /\ r \in Seq({Listener} \cup Fds)
               /\ \A i, j \in 1..Len(r) : r[i] = r[j] => i = j
               /\ \A k \in 1..Len(r) : /\ r[k] \in Registered /\ r[k] \in Keep
                                       /\ r[k] = Listener => k = 1
               /\ \A f \in Registered : f \in Keep => \E k \in 1..Len(r) : r[k] = f
<1> DEFINE r == Filter(fds_, Keep)
<1>1. fds_ \in Seq({Listener} \cup Fds) /\ Len(fds_) \in Nat
  BY DEF TypeOK
<1>2. r \in Seq({Listener} \cup Fds) /\ IsFiltered(r, fds_, Keep, Len(fds_))
  BY <1>1, Filtered
<1> HIDE DEF r
<1>3. PICK h : Takes(h, r, fds_, Keep, Len(fds_))
  BY <1>2 DEF IsFiltered
<1>4. Len(r) \in Nat
  BY <1>2
<1>5. \A k \in 1..Len(r) : h[k] \in 1..Len(fds_) /\ k <= h[k] /\ r[k] = fds_[h[k]] /\ r[k] \in Keep
  BY <1>3 DEF Takes
<1>6. ASSUME NEW i \in 1..Len(r), NEW j \in 1..Len(r), r[i] = r[j]
      PROVE  i = j
  <2>1. h[i] = h[j] /\ h[i] \in Int
    BY <1>5, <1>6 DEF Ordered
  <2>2. ~(i < j) /\ ~(j < i)
    BY <2>1, <1>3 DEF Takes
  <2> QED  BY <2>2
<1>7. ASSUME NEW k \in 1..Len(r)
      PROVE  r[k] \in Registered /\ (r[k] = Listener => k = 1)
  <2>1. r[k] \in Registered
    BY <1>5 DEF Registered
  <2>2. ASSUME r[k] = Listener PROVE k = 1
    <3>1. 1 \in 1..Len(fds_) /\ fds_[1] = Listener
      BY <1>1 DEF Ordered
    <3>2. h[k] = 1
      BY <3>1, <2>2, <1>5 DEF Ordered
    <3>3. k <= 1
      BY <3>2, <1>5
    <3> QED  BY <3>3
  <2> QED  BY <2>1, <2>2
<1>8. ASSUME NEW f \in Registered, f \in Keep
      PROVE  \E k \in 1..Len(r) : r[k] = f
  <2>1. PICK i \in 1..Len(fds_) : fds_[i] = f
    BY DEF Registered
  <2>2. PICK k \in 1..Len(r) : h[k] = i
    BY <2>1, <1>8, <1>3 DEF Takes
  <2> QED  BY <2>1, <2>2, <1>5
<1>9. /\ r \in Seq({Listener} \cup Fds)
      /\ \A i, j \in 1..Len(r) : r[i] = r[j] => i = j
      /\ \A k \in 1..Len(r) : /\ r[k] \in Registered /\ r[k] \in Keep
                              /\ r[k] = Listener => k = 1
      /\ \A f \in Registered : f \in Keep => \E k \in 1..Len(r) : r[k] = f
  BY <1>2, <1>5, <1>6, <1>7, <1>8
<1> QED  BY <1>9 DEF r

LEMMA PollKeeps == Inv /\ poll => Inv'
<1> SUFFICES ASSUME Inv, poll PROVE Inv'
  OBVIOUS
<1>1. TypeOK /\ pc = "poll" /\ pc' = "scan" /\ accepted' = None /\ todo' = Filter(fds_, PollIn)
      /\ task' = [f \in Fds |-> NoTask] /\ UNCHANGED <<fds_, clients_, choice, numForwards, network, health>>
  BY DEF Inv, poll, Ready
<1> USE DEF network, health
<1>2. /\ todo' \in Seq({Listener} \cup Fds)
      /\ \A i, j \in 1..Len(todo') : todo'[i] = todo'[j] => i = j
      /\ \A k \in 1..Len(todo') : /\ todo'[k] \in Registered /\ todo'[k] \in PollIn
                                  /\ todo'[k] = Listener => k = 1
  BY <1>1, FilteredFds DEF Inv
<1>3. NoTask \in Tasks /\ NoTask.phase = "none" /\ NoTask.requests = 0
  BY NumbersAssumption DEF NoTask, Tasks, Phases, Backends
<1>4. \A f \in Fds : task'[f] = NoTask
  BY <1>1
<1>5. TypeOK'
  BY <1>1, <1>2, <1>3 DEF TypeOK, PCs
<1>6. Ordered' /\ Registry' /\ Peers'
  BY <1>1 DEF Inv, Ordered, Registry, Registered, Peers
<1>7. Unmarked'
  BY <1>1 DEF Inv, Unmarked
<1>8. Scan'
  <2>1. ASSUME NEW k \in 1..Len(todo'), todo'[k] = Listener
        PROVE  k = 1 /\ backlog # << >>
    BY <2>1, <1>2 DEF PollIn, Readable
  <2>2. ASSUME NEW k \in 1..Len(todo'), todo'[k] # Listener
        PROVE  clients_[todo'[k]] = "valid" /\ task'[todo'[k]].phase = "none"
    <3>1. todo'[k] \in Fds /\ todo'[k] \in Registered
      BY <2>2, <1>2
    <3>2. clients_[todo'[k]] \in {"absent", "valid", "invalid"}
      BY <3>1, <1>1 DEF TypeOK
    <3> QED  BY <3>1, <3>2, <1>1, <1>3, <1>4 DEF Inv, Registry, Unmarked
  <2> QED  BY <2>1, <2>2, <1>1, <1>2 DEF Scan
<1>9. Forwards'
  BY <1>3, <1>4 DEF Forwards
<1>10. Accepted'
  BY <1>1 DEF Accepted
<1>11. Balances'
  <2>1. \A f \in Fds : task[f].phase = "none" /\ task[f].requests = 0
    BY <1>1 DEF Inv, Forwards
  <2> QED  BY <2>1, <1>1, <1>3, <1>4 DEF Inv, Balances, Balanced
<1> QED  BY <1>5, <1>6, <1>7, <1>8, <1>9, <1>10, <1>11 DEF Inv

LEMMA AcceptKeeps == Inv /\ acceptNewClient => Inv'
<1> SUFFICES ASSUME Inv, acceptNewClient PROVE Inv'
  OBVIOUS
<1>1. TypeOK /\ pc = "scan" /\ todo # << >> /\ Head(todo) = Listener /\ todo' = Tail(todo)
      /\ UNCHANGED <<pc, fds_, clients_, choice, numForwards, task, health, remote, inbox, sent, got>>
  BY DEF Inv, acceptNewClient
<1> USE DEF health
<1>2. /\ todo' \in Seq({Listener} \cup Fds) /\ Len(todo) \in Nat /\ Len(todo') = Len(todo) - 1
      /\ 1 \in 1..Len(todo) /\ Head(todo) = todo[1]
      /\ \A i \in 1..Len(todo') : i + 1 \in 1..Len(todo) /\ i + 1 # 1 /\ todo'[i] = todo[i + 1]
  BY <1>1, TodoTail
<1>3. backlog # << >> /\ accepted = None /\ \A f \in Fds : clients_[f] # "invalid"
  BY <1>1, <1>2 DEF Inv, Scan, Unmarked, Scanning
<1>4. \A i \in 1..Len(todo') : todo'[i] # Listener /\ todo'[i] \in Fds
  BY <1>1, <1>2, Typing DEF Inv, Scan, Scanning
<1>5. Ordered'
  BY <1>1 DEF Inv, Ordered
<1>6. Unmarked' /\ Forwards'
  BY <1>1, <1>4 DEF Inv, Unmarked, Forwards
<1>7. Scan'
  <2>1. \A i, j \in 1..Len(todo') : todo'[i] = todo'[j] => i = j
    <3> TAKE i, j \in 1..Len(todo')
    <3> HAVE todo'[i] = todo'[j]
    <3>1. i + 1 = j + 1
      BY <1>1, <1>2 DEF Inv, Scan, Scanning
    <3> QED  BY <3>1, <1>2
  <2>2. \A i \in 1..Len(todo') : clients_[todo'[i]] = "valid" /\ task[todo'[i]].phase = "none"
    <3> TAKE i \in 1..Len(todo')
    <3>1. clients_[todo[i + 1]] = "valid" /\ task[todo[i + 1]].phase = "none"
      BY <1>1, <1>2, <1>4 DEF Inv, Scan, Scanning
    <3> QED  BY <3>1, <1>2
  <2> QED  BY <2>1, <2>2, <1>1, <1>4 DEF Scan
<1>8. CASE Free = {}
  <2>1. UNCHANGED <<conn, backlog, accepted>>
    BY <1>8 DEF acceptNewClient
  <2>2. TypeOK'
    BY <2>1, <1>1, <1>2 DEF TypeOK
  <2>3. Registry' /\ Balances' /\ Peers'
    BY <2>1, <1>1 DEF Inv, Registry, Registered, Balances, Balanced, Peers
  <2>4. Accepted'
    BY <2>1, <1>3 DEF Accepted
  <2> QED  BY <2>2, <2>3, <2>4, <1>5, <1>6, <1>7 DEF Inv
<1>9. CASE Free # {}
  <2>1. PICK f \in Free, c \in {Head(backlog)} :
          conn' = [conn EXCEPT ![f] = c] /\ backlog' = Tail(backlog) /\ accepted' = f
    <3>1. Free \subseteq Nat
      BY SetsAssumption DEF Free
    <3>2. \E g \in Free : \A h \in Free : g <= h
      BY <3>1, <1>9, LeastElement
    <3>3. (CHOOSE g \in Free : \A h \in Free : g <= h) \in Free
      BY <3>2
    <3> QED  BY <3>3, <1>9 DEF acceptNewClient
  <2>2. c = Head(backlog)
    OBVIOUS
  <2>3. f \in Fds /\ conn[f] = None
    BY DEF Free
  <2>4. /\ c = backlog[1] /\ c \in Clients /\ c # None /\ 1 \in 1..Len(backlog)
        /\ Len(backlog) \in Nat /\ backlog' \in Seq(Clients) /\ Len(backlog') = Len(backlog) - 1
        /\ \A i \in 1..Len(backlog') : /\ i + 1 \in 1..Len(backlog) /\ i + 1 # 1
                                       /\ backlog'[i] = backlog[i + 1]
    <3>1. PICK s \in Seq(Clients) : s = backlog
      BY <1>1 DEF TypeOK
    <3>2. s # << >> /\ backlog' = Tail(s)
      BY <3>1, <2>1, <1>3
    <3>3. /\ Head(s) = s[1] /\ s[1] \in Clients /\ 1 \in 1..Len(s) /\ Len(s) \in Nat
          /\ Tail(s) \in Seq(Clients) /\ Len(Tail(s)) = Len(s) - 1
          /\ \A i \in 1..Len(Tail(s)) : /\ i + 1 \in 1..Len(s) /\ i + 1 # 1
                                        /\ Tail(s)[i] = s[i + 1]
      BY ONLY <3>1, <3>2
    <3> QED  BY <3>1, <3>2, <3>3, <2>2, NoneAssumption
  <2>5. conn' \in [Fds -> Clients \cup {None}] /\ conn'[f] = c
        /\ \A g \in Fds : g # f => conn'[g] = conn[g]
    BY <2>1, <2>3, <2>4, <1>1 DEF TypeOK
  <2>6. clients_[f] = "absent"
    <3>1. clients_[f] \in {"absent", "valid", "invalid"} /\ clients_[f] # "invalid"
      BY <2>3, <1>1, <1>3 DEF TypeOK
    <3> QED  BY <3>1, <2>3 DEF Inv, Registry
  <2>7. TypeOK'
    BY <2>1, <2>3, <2>4, <2>5, <1>1, <1>2 DEF TypeOK
  <2>8. Registry'
    <3>1. \A g \in Fds : conn[g] # None => conn'[g] # None
      BY <2>3, <2>5
    <3> QED  BY <3>1, <1>1, SameRegistered DEF Inv, Registry
  <2>9. \A g \in Fds : conn[g] # c
    BY <2>4 DEF Inv, Peers
  <2>10. Accepted'
    <3>1. task[f].phase = "none" /\ task[f].requests = 0
      BY <2>3, <2>6, <1>1 DEF Inv, Forwards
    <3>2. sent[c] = inbox[c] /\ got[c] = 0 /\ sent[c] \in Nat
      BY <2>4, <1>1, Typing DEF Inv, Peers
    <3>3. sent[c] = got[c] + inbox[c] + 0
      BY <3>2
    <3>4. Balanced(f)'
      BY <3>1, <3>3, <2>5, <1>1 DEF Balanced
    <3> QED  BY <3>4, <2>1, <2>3, <2>4, <2>5, <2>6, <1>1 DEF Accepted
  <2>11. Balances'
    BY <2>5, <2>6, <1>1 DEF Inv, Balances, Balanced
  <2>12. Peers'
    <3>1. \A g, h \in Fds : conn'[g] = conn'[h] /\ conn'[g] # None => g = h
      BY <2>5, <2>9 DEF Inv, Peers
    <3>2. \A i, j \in 1..Len(backlog') : backlog'[i] = backlog'[j] => i = j
      <4> TAKE i, j \in 1..Len(backlog')
      <4> HAVE backlog'[i] = backlog'[j]
      <4>1. i + 1 = j + 1
        BY <2>4 DEF Inv, Peers
      <4> QED  BY <4>1, <2>4
    <3>3. \A i \in 1..Len(backlog') : backlog'[i] # c
      BY <2>4 DEF Inv, Peers
    <3>4. ASSUME NEW i \in 1..Len(backlog')
          PROVE  /\ \A g \in Fds : conn'[g] # backlog'[i]
                 /\ remote[backlog'[i]] \notin {"away", "dropped"}
                 /\ sent[backlog'[i]] = inbox[backlog'[i]] /\ got[backlog'[i]] = 0
      <4>1. i + 1 \in 1..Len(backlog) /\ backlog'[i] = backlog[i + 1]
        BY <2>4
      <4>2. \A g \in Fds : conn[g] # backlog'[i]
        BY <4>1 DEF Inv, Peers
      <4>3. \A g \in Fds : conn'[g] # backlog'[i]
        BY <4>2, <3>3, <2>5
      <4> QED  BY <4>1, <4>3 DEF Inv, Peers
    <3> QED  BY <3>1, <3>2, <3>4, <1>1 DEF Peers
  <2> QED  BY <2>7, <2>8, <2>10, <2>11, <2>12, <1>5, <1>6, <1>7 DEF Inv
<1> QED  BY <1>8, <1>9

LEMMA PurgeKeeps == Inv /\ purge => Inv'
<1> SUFFICES ASSUME Inv, purge PROVE Inv'
  OBVIOUS
<1> DEFINE Keep == {Listener} \cup {f \in Fds : clients_[f] # "invalid"}
<1>1. TypeOK /\ pc = "collect" /\ pc' = "poll" /\ fds_' = Filter(fds_, Keep)
      /\ clients_' = [f \in Fds |-> IF clients_[f] = "invalid" THEN "absent" ELSE clients_[f]]
      /\ \A f \in Fds : task[f].phase = "none"
  BY DEF Inv, purge, Collected
<1>2. TypeOK /\ pc' = "poll"
       /\ UNCHANGED <<todo, accepted, choice, numForwards, task, network, health>>
  BY DEF Inv, purge
<1> USE DEF network, health
<1>3. Listener \in Keep /\ \A f \in Fds : f \in Keep <=> clients_[f] # "invalid"
  BY <1>1, Typing
<1> HIDE DEF Keep
<1>4. /\ fds_' \in Seq({Listener} \cup Fds)
      /\ \A i, j \in 1..Len(fds_') : fds_'[i] = fds_'[j] => i = j
      /\ \A k \in 1..Len(fds_') : /\ fds_'[k] \in Registered /\ fds_'[k] \in Keep
                                  /\ fds_'[k] = Listener => k = 1
      /\ \A f \in Registered : f \in Keep => \E k \in 1..Len(fds_') : fds_'[k] = f
  BY <1>1, FilteredFds DEF Inv
<1>5. clients_' \in [Fds -> {"absent", "valid", "invalid"}]
      /\ \A f \in Fds : /\ clients_'[f] = IF clients_[f] = "invalid" THEN "absent" ELSE clients_[f]
                        /\ clients_'[f] # "invalid"
  BY <1>1 DEF TypeOK
<1>6. TypeOK'
  <2>1. fds_' \in Seq({Listener} \cup Fds)
    BY <1>4
  <2>2. clients_' \in [Fds -> {"absent", "valid", "invalid"}]
    BY <1>5
  <2> QED  BY <2>1, <2>2, <1>2 DEF TypeOK, PCs
<1>7. Ordered'
  <2>1. Listener \in Registered
    BY <1>1 DEF Inv, TypeOK, Ordered, Registered
  <2>2. PICK k \in 1..Len(fds_') : fds_'[k] = Listener
    BY <2>1, <1>3, <1>4
  <2>3. k = 1
    BY <2>2, <1>4
  <2>4. Len(fds_') \in Nat
    BY <1>4
  <2> QED  BY <2>2, <2>3, <2>4, <1>4 DEF Ordered
<1>8. Registry'
  <2>1. \A f \in Fds : f \in Registered' <=> f \in Registered /\ clients_[f] # "invalid"
    BY <1>3, <1>4 DEF Registered
  <2> QED  BY <2>1, <1>5, <1>2 DEF Inv, Registry
<1>9. Unmarked' /\ Scan' /\ Accepted'
  BY <1>5, <1>2 DEF Unmarked, Scan, Accepted, Scanning
<1>10. Forwards'
  BY <1>1, <1>2 DEF Inv, Forwards
<1>11. Balances'
  BY <1>5, <1>2 DEF Inv, Balances, Balanced
<1>12. Peers'
  BY <1>2 DEF Inv, Peers
<1> QED  BY <1>6, <1>7, <1>8, <1>9, <1>10, <1>11, <1>12 DEF Inv

-----------------------------------------------------------------------------
LEMMA InvStep == Inv /\ [Next]_vars => Inv'
<1> SUFFICES ASSUME Inv, [Next]_vars PROVE Inv'
  OBVIOUS
<1>1. CASE MainThread
  BY <1>1, PollKeeps, AcceptKeeps, ClientLeftKeeps, HandleKeeps, PortChosenKeeps,
     RegisterKeeps, CollectKeeps, PurgeKeeps DEF MainThread
<1>2. CASE Environment
  BY <1>2, ConnectKeeps, RequestKeeps, LeaveKeeps, BackendsKeep DEF Environment
<1>3. ASSUME NEW f \in Fds, forwardToBackend(f) PROVE Inv'
  BY <1>3, ForwardsKeep
<1>4. CASE NextPort \/ checkAllBackends \/ UNCHANGED vars
  BY <1>4, NextPortKeeps, CheckKeeps, StutterKeeps
<1> QED  BY <1>1, <1>2, <1>3, <1>4 DEF Next

LEMMA Invariance == Spec => []Inv
<1>1. Init => Inv
  BY InvInit
<1>2. Inv /\ [Next]_vars => Inv'
  BY InvStep
<1> QED  BY <1>1, <1>2, PTL DEF Spec

(* Every variable of the balancer keeps its type: accept() is only called  *)
(* when somebody waits, no retry counter goes below zero, and no index of  *)
(* a backend leaves the vector of backends.                                *)
THEOREM TypeCorrect == Spec => []TypeOK
<1>1. Inv => TypeOK
  BY DEF Inv
<1> QED  BY <1>1, Invariance, PTL

(* For any clients, descriptors and backends: when the balancer polls, the *)
(* vector and the map hold the same open descriptors, once, whatever was   *)
(* closed and reused in the round before (start, LoadBalancer.cpp).        *)
THEOREM RegistryAlwaysConsistent == Spec => []RegistryConsistent
<1>1. Inv => RegistryConsistent
  <2> SUFFICES ASSUME Inv, pc = "poll"
               PROVE  /\ \A i, j \in 1..Len(fds_) : fds_[i] = fds_[j] => i = j
                      /\ \A f \in Fds :
                            /\ clients_[f] = IF f \in Registered THEN "valid" ELSE "absent"
                            /\ clients_[f] = "valid" => conn[f] # None
    BY DEF RegistryConsistent
  <2>1. \A f \in Fds : clients_[f] \in {"absent", "valid"}
    BY DEF Inv, TypeOK, Unmarked
  <2> QED  BY <2>1 DEF Inv, Ordered, Registry
<1> QED  BY <1>1, Invariance, PTL

(* For any clients, descriptors and backends: on a connection that is kept *)
(* every request is in the socket, in the one forward of its descriptor,   *)
(* or answered to the client that sent it (handleClient, forwardToBackend).*)
THEOREM NoRequestEverLost == Spec => []NoRequestLost
<1>1. Inv => NoRequestLost
  BY DEF Inv, NoRequestLost, Balances, Balanced
<1> QED  BY <1>1, Invariance, PTL

=============================================================================
