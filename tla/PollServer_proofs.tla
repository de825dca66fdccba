------------------------- MODULE PollServer_proofs --------------------------
(* Proofs about PollServer. *)
EXTENDS PollServer, Subsequences_proofs, TLAPS

(* The listener is the first element, and nowhere else in the memory.      *)
ListenerFirst ==
    /\ fds_[1].fd = Listener
    /\ \A i \in 2..Capacity : fds_[i].fd # Listener

Distinct == \A i, j \in 1..size : fds_[i].fd = fds_[j].fd => i = j

(* Who waits for accept() waits once, and was never in the vector.         *)
Waiting ==
    /\ \A i, j \in 1..Len(backlog) : backlog[i] = backlog[j] => i = j
    /\ \A i \in 1..Len(backlog) :
          /\ remote[backlog[i]] # "away"
          /\ \A k \in 1..Capacity : fds_[k].fd # backlog[i]

Unknown ==
    \A c \in Clients : remote[c] = "away" => \A k \in 1..Capacity : fds_[k].fd # c

Present ==
    pc # "undefined" =>
        \A c \in Clients :
            remote[c] = "open" /\ ~Contains(backlog, c) => \E i \in 1..size : fds_[i].fd = c

(* What the loop has not come to is still as poll() found it.              *)
Fresh ==
    pc = "loop" => \A i \in at..size : fds_[i].ready => Readable(fds_[i].fd)

Inv ==
    /\ TypeOK /\ ListenerFirst /\ Distinct
    /\ Waiting /\ Unknown /\ Present /\ Fresh

-----------------------------------------------------------------------------
LEMMA InvInit == Init => Inv
<1> SUFFICES ASSUME Init PROVE Inv
  OBVIOUS
<1> USE CapacityAssumption, NamesAssumption
<1>1. TypeOK
  BY DEF Init, TypeOK, Slots
<1>2. ListenerFirst /\ Distinct
  BY DEF Init, ListenerFirst, Distinct
<1>3. Waiting /\ Unknown
  BY DEF Init, Waiting, Unknown
<1>4. Present /\ Fresh
  BY DEF Init, Present, Fresh
<1> QED  BY <1>1, <1>2, <1>3, <1>4 DEF Inv
-----------------------------------------------------------------------------
(* The clients' steps                                                      *)
LEMMA ConnectKeeps ==
    ASSUME Inv, NEW c \in Clients, Connect(c)
    PROVE  Inv'
<1> USE DEF Connect, server
<1>1. TypeOK'
  BY DEF Inv, TypeOK
<1>2. backlog \in Seq(Clients) /\ Len(backlog') = Len(backlog) + 1
      /\ backlog'[Len(backlog')] = c /\ \A i \in 1..Len(backlog) : backlog'[i] = backlog[i]
  BY DEF Inv, TypeOK
<1>3. ListenerFirst' /\ Distinct'
  BY DEF Inv, ListenerFirst, Distinct
<1>4. \A i \in 1..Len(backlog) : backlog[i] \in Clients /\ backlog[i] # c
  BY <1>2 DEF Inv, Waiting
<1>5. \A i \in 1..Len(backlog') : i \in 1..Len(backlog) \/ i = Len(backlog')
  BY <1>2
<1>6. remote'[c] = "open" /\ \A d \in Clients : d # c => remote'[d] = remote[d]
  BY DEF Inv, TypeOK
<1>7. Waiting'
  <2>1. \A i, j \in 1..Len(backlog') : backlog'[i] = backlog'[j] => i = j
    BY <1>2, <1>4, <1>5 DEF Inv, Waiting
  <2>2. ASSUME NEW i \in 1..Len(backlog')
        PROVE  /\ remote'[backlog'[i]] # "away"
               /\ \A k \in 1..Capacity : fds_[k].fd # backlog'[i]
    <3>1. CASE i \in 1..Len(backlog)
      BY <3>1, <1>2, <1>4, <1>6 DEF Inv, Waiting
    <3>2. CASE i = Len(backlog')
      BY <3>2, <1>2, <1>6 DEF Inv, Unknown
    <3> QED  BY <1>5, <3>1, <3>2
  <2> QED  BY <2>1, <2>2 DEF Waiting
<1>8. Unknown'
  BY <1>6 DEF Inv, Unknown
<1>9. Present'
  <2>1. \A d \in Clients : d # c /\ Contains(backlog, d) => Contains(backlog', d)
    BY <1>2 DEF Contains
  <2>2. Contains(backlog', c)
    BY <1>2 DEF Contains
  <2> QED  BY <2>1, <2>2, <1>6 DEF Inv, Present
<1>10. Fresh'
  <2>1. \A fd : Readable(fd) => Readable(fd)'
    BY <1>2, <1>6 DEF Readable
  <2> QED  BY <2>1 DEF Inv, Fresh
<1> QED  BY <1>1, <1>3, <1>7, <1>8, <1>9, <1>10 DEF Inv

LEMMA RequestKeeps ==
    ASSUME Inv, NEW c \in Clients, Request(c)
    PROVE  Inv'
<1> USE DEF Request, server
<1>1. TypeOK'
  BY DEF Inv, TypeOK
<1>2. ListenerFirst' /\ Distinct' /\ Waiting' /\ Unknown' /\ Present'
  BY DEF Inv, ListenerFirst, Distinct, Waiting, Unknown, Present
<1>3. Fresh'
  <2>1. \A fd : Readable(fd) => Readable(fd)'
    BY DEF Readable, Inv, TypeOK
  <2> QED  BY <2>1 DEF Inv, Fresh
<1> QED  BY <1>1, <1>2, <1>3 DEF Inv

LEMMA LeaveKeeps ==
    ASSUME Inv, NEW c \in Clients, Leave(c)
    PROVE  Inv'
<1> USE DEF Leave, server
<1>1. TypeOK'
  BY DEF Inv, TypeOK
<1>2. remote'[c] = "left" /\ \A d \in Clients : d # c => remote'[d] = remote[d]
  BY DEF Inv, TypeOK
<1>3. ListenerFirst' /\ Distinct'
  BY DEF Inv, ListenerFirst, Distinct
<1>4. Waiting'
  <2>1. \A i \in 1..Len(backlog) : backlog[i] \in Clients
    BY DEF Inv, TypeOK
  <2> QED  BY <1>2, <2>1 DEF Inv, Waiting
<1>5. Unknown' /\ Present'
  BY <1>2 DEF Inv, Unknown, Present
<1>6. Fresh'
  <2>1. \A fd : Readable(fd) => Readable(fd)'
    BY <1>2 DEF Readable
  <2> QED  BY <2>1 DEF Inv, Fresh
<1> QED  BY <1>1, <1>3, <1>4, <1>5, <1>6 DEF Inv
-----------------------------------------------------------------------------
(* The server's steps                                                      *)
LEMMA SameMemory ==
    ASSUME Inv, UNCHANGED <<size, backlog, remote>>,
           \A i \in 1..Capacity : fds_'[i].fd = fds_[i].fd, (pc = "undefined") = (pc' = "undefined")
    PROVE  ListenerFirst' /\ Distinct' /\ Waiting' /\ Unknown' /\ Present'
<1>1. size \in 1..Capacity /\ 1 \in 1..Capacity /\ \A i \in 1..size : i \in 1..Capacity
  BY CapacityAssumption DEF Inv, TypeOK
<1>2. ListenerFirst' /\ Distinct'
  BY <1>1 DEF Inv, ListenerFirst, Distinct
<1>3. Waiting' /\ Unknown'
  BY DEF Inv, Waiting, Unknown
<1>4. Present'
  BY <1>1 DEF Inv, Present
<1> QED  BY <1>2, <1>3, <1>4

LEMMA PollKeeps == Inv /\ poll => Inv'
<1> SUFFICES ASSUME Inv, poll PROVE Inv'
  OBVIOUS
<1>1. \A i \in 1..Capacity :
        /\ fds_[i] \in Slots /\ fds_'[i] \in Slots /\ fds_'[i].fd = fds_[i].fd
        /\ i <= size => fds_'[i].ready = Readable(fds_[i].fd)
  <2> TAKE i \in 1..Capacity
  <2>1. fds_[i] \in Slots
    BY DEF Inv, TypeOK
  <2>2. fds_'[i] = IF i <= size THEN [fds_[i] EXCEPT !.ready = Readable(fds_[i].fd)] ELSE fds_[i]
    BY DEF poll
  <2>3. Readable(fds_[i].fd) \in BOOLEAN
    BY DEF Readable
  <2> QED  BY <2>1, <2>2, <2>3 DEF Slots
<1>2. UNCHANGED <<size, backlog, remote, inbox>> /\ pc = "poll" /\ pc' = "loop" /\ at' = 1 /\ end' = size
  BY DEF poll
<1>3. TypeOK'
  <2>1. fds_' \in [1..Capacity -> Slots]
    BY <1>1 DEF poll
  <2> QED  BY <1>2, <2>1, CapacityAssumption DEF Inv, TypeOK
<1>4. ListenerFirst' /\ Distinct' /\ Waiting' /\ Unknown' /\ Present'
  BY <1>1, <1>2, SameMemory
<1>5. Fresh'
  <2>1. \A i \in 1..size : i \in 1..Capacity /\ i <= size
    BY CapacityAssumption DEF Inv, TypeOK
  <2>2. \A fd : Readable(fd)' = Readable(fd)
    BY <1>2 DEF Readable
  <2> QED  BY <1>1, <1>2, <2>1, <2>2 DEF Fresh
<1> QED  BY <1>3, <1>4, <1>5 DEF Inv

LEMMA SkipKeeps == Inv /\ Skip => Inv'
<1> SUFFICES ASSUME Inv, Skip PROVE Inv'
  OBVIOUS
<1> USE DEF Skip
<1>1. TypeOK'
  BY CapacityAssumption DEF Inv, TypeOK
<1>2. ListenerFirst' /\ Distinct' /\ Waiting' /\ Unknown' /\ Present'
  BY SameMemory
<1>3. Fresh'
  <2>1. \A i \in at'..size' : i \in at..size
    BY DEF Inv, TypeOK
  <2>2. \A fd : Readable(fd)' = Readable(fd)
    BY DEF Readable
  <2> QED  BY <2>1, <2>2 DEF Inv, Fresh
<1> QED  BY <1>1, <1>2, <1>3 DEF Inv

LEMMA LoopEndsKeeps == Inv /\ LoopEnds => Inv'
<1> SUFFICES ASSUME Inv, LoopEnds PROVE Inv'
  OBVIOUS
<1> USE DEF LoopEnds
<1>1. TypeOK'
  BY DEF Inv, TypeOK
<1>2. ListenerFirst' /\ Distinct' /\ Waiting' /\ Unknown' /\ Present'
  BY SameMemory
<1>3. Fresh'
  BY DEF Fresh
<1> QED  BY <1>1, <1>2, <1>3 DEF Inv

LEMMA HandleKeeps == Inv /\ handleClient => Inv'
<1> SUFFICES ASSUME Inv, handleClient PROVE Inv'
  OBVIOUS
<1> USE DEF handleClient, AtClient
<1>1. TypeOK'
  <2>1. inbox' \in [Clients -> BOOLEAN]
    BY DEF Inv, TypeOK
  <2>2. at' \in 1..Capacity + 1
    BY CapacityAssumption DEF Inv, TypeOK, Onward
  <2> QED  BY <2>1, <2>2 DEF Inv, TypeOK
<1>2. ListenerFirst' /\ Distinct' /\ Waiting' /\ Unknown' /\ Present'
  BY SameMemory
<1>3. Fresh'
  <2>1. \A i \in at'..size' : i \in at..size /\ i # at /\ at \in 1..size /\ i \in 1..size
    BY DEF Inv, TypeOK, Onward
  <2>2. \A fd : fd # Current.fd => Readable(fd)' = Readable(fd)
    BY DEF Inv, TypeOK, Readable
  <2>3. \A i \in at'..size' : fds_[i].fd # Current.fd
    BY <2>1 DEF Inv, Distinct, Current
  <2> QED  BY <2>1, <2>2, <2>3 DEF Inv, Fresh
<1> QED  BY <1>1, <1>2, <1>3 DEF Inv

LEMMA AcceptFullKeeps == Inv /\ acceptNewClient /\ Full => Inv'
<1> SUFFICES ASSUME Inv, acceptNewClient, Full PROVE Inv'
  OBVIOUS
<1>1. UNCHANGED <<fds_, size, at, end, remote, inbox>> /\ pc' = "undefined" /\ pc = "loop"
      /\ backlog' = Tail(backlog) /\ at <= end /\ fds_[at].fd = Listener /\ fds_[at].ready
  BY DEF acceptNewClient, Current
<1>2. at = 1 /\ at \in at..size
  BY <1>1, CapacityAssumption DEF Inv, TypeOK, ListenerFirst
<1>3. backlog # << >>
  BY <1>1, <1>2, NamesAssumption DEF Inv, Fresh, Readable
<1>4. backlog' \in Seq(Clients) /\ Len(backlog') = Len(backlog) - 1
      /\ \A i \in 1..Len(backlog') : backlog'[i] = backlog[i + 1] /\ i + 1 \in 1..Len(backlog)
  BY <1>1, <1>3 DEF Inv, TypeOK
<1>5. TypeOK'
  BY <1>1, <1>4 DEF Inv, TypeOK
<1>6. ListenerFirst' /\ Distinct' /\ Unknown'
  BY <1>1 DEF Inv, ListenerFirst, Distinct, Unknown
<1>7. Waiting'
  BY <1>1, <1>4 DEF Inv, Waiting
<1>8. Present' /\ Fresh'
  BY <1>1 DEF Present, Fresh
<1> QED  BY <1>5, <1>6, <1>7, <1>8 DEF Inv

LEMMA AcceptKeeps == Inv /\ acceptNewClient /\ ~Full => Inv'
<1> SUFFICES ASSUME Inv, acceptNewClient, ~Full PROVE Inv'
  OBVIOUS
<1> DEFINE new == [fd |-> Head(backlog), ready |-> FALSE]
<1>1. UNCHANGED <<pc, end, remote, inbox>> /\ pc = "loop" /\ size' = size + 1 /\ at' = at + 1
      /\ fds_' = [fds_ EXCEPT ![size + 1] = new]
      /\ backlog' = Tail(backlog) /\ at <= end /\ fds_[at].fd = Listener /\ fds_[at].ready
  BY DEF acceptNewClient, Current
<1>2. at = 1 /\ at \in at..size
  BY <1>1, CapacityAssumption DEF Inv, TypeOK, ListenerFirst
<1>3. backlog # << >>
  BY <1>1, <1>2, NamesAssumption DEF Inv, Fresh, Readable
<1>4. backlog' \in Seq(Clients) /\ Len(backlog') = Len(backlog) - 1
      /\ \A i \in 1..Len(backlog') : backlog'[i] = backlog[i + 1] /\ i + 1 \in 1..Len(backlog)
  BY <1>1, <1>3 DEF Inv, TypeOK
<1>5. Head(backlog) = backlog[1] /\ backlog[1] \in Clients /\ 1 \in 1..Len(backlog)
      /\ Len(backlog) \in Nat
  BY <1>3 DEF Inv, TypeOK
<1>6. size + 1 \in 1..Capacity /\ size \in 1..Capacity /\ Capacity \in Nat
  BY CapacityAssumption DEF Inv, TypeOK, Full
<1>7. \A i \in 1..Capacity : i # size + 1 => fds_'[i] = fds_[i]
  BY <1>1, <1>6 DEF Inv, TypeOK
<1>8. fds_'[size + 1] = new /\ new.fd = backlog[1] /\ new.ready = FALSE /\ new \in Slots
  BY <1>1, <1>5, <1>6 DEF Inv, TypeOK, Slots
<1>9. fds_' \in [1..Capacity -> Slots]
  BY <1>1, <1>8 DEF Inv, TypeOK
<1> HIDE DEF new
<1>10. \A k \in 1..Capacity : fds_[k].fd # backlog[1]
  BY <1>5 DEF Inv, Waiting
<1>11. TypeOK'
  BY <1>1, <1>2, <1>4, <1>6, <1>9 DEF Inv, TypeOK
<1>12. ListenerFirst'
  <2>1. 1 # size + 1 /\ 1 \in 1..Capacity
    BY <1>6
  <2>2. backlog[1] # Listener
    BY <1>5, NamesAssumption
  <2> QED  BY <1>7, <1>8, <2>1, <2>2 DEF Inv, ListenerFirst
<1>13. \A i \in 1..size' : i = size + 1 \/ (i \in 1..size /\ i # size + 1 /\ i \in 1..Capacity)
  BY <1>1, <1>6
<1>14. Distinct'
  BY <1>7, <1>8, <1>10, <1>13 DEF Inv, Distinct
<1>15. Waiting'
  <2>1. \A i, j \in 1..Len(backlog') : backlog'[i] = backlog'[j] => i = j
    <3> TAKE i, j \in 1..Len(backlog')
    <3> HAVE backlog'[i] = backlog'[j]
    <3>1. i + 1 = j + 1
      BY <1>4 DEF Inv, Waiting
    <3> QED  BY <3>1
  <2>2. ASSUME NEW i \in 1..Len(backlog'), NEW k \in 1..Capacity
        PROVE  remote[backlog'[i]] # "away" /\ fds_'[k].fd # backlog'[i]
    <3>2. i + 1 # 1 /\ i + 1 \in 1..Len(backlog) /\ backlog'[i] = backlog[i + 1]
      <4>1. Len(backlog') \in Nat
        BY <1>4
      <4> QED  BY <4>1, <1>4
    <3>1. remote[backlog'[i]] # "away" /\ fds_[k].fd # backlog'[i]
      <4>1. Waiting
        BY DEF Inv
      <4> QED  BY ONLY <4>1, <3>2 DEF Waiting
    <3>3. backlog'[i] # backlog[1]
      BY <3>2, <1>5 DEF Inv, Waiting
    <3> QED  BY <3>1, <3>3, <1>7, <1>8
  <2>3. 1 \in 1..Capacity
    BY <1>6
  <2> QED  BY <2>1, <2>2, <2>3, <1>1 DEF Waiting
<1>16. Unknown'
  <2>1. remote[backlog[1]] # "away"
    BY <1>5 DEF Inv, Waiting
  <2> QED  BY <2>1, <1>1, <1>7, <1>8 DEF Inv, Unknown
<1>17. Present'
  <2>1. ASSUME NEW c \in Clients, remote[c] = "open", ~Contains(backlog', c)
        PROVE  \E i \in 1..size' : fds_'[i].fd = c
    <3>1. CASE c = backlog[1]
      BY <3>1, <1>1, <1>6, <1>8
    <3>2. CASE c # backlog[1]
      <4>1. ~Contains(backlog, c)
        <5>1. SUFFICES ASSUME NEW i \in 1..Len(backlog), backlog[i] = c PROVE FALSE
          BY DEF Contains
        <5>2. i - 1 \in 1..Len(backlog') /\ (i - 1) + 1 = i
          BY <5>1, <3>2, <1>4, <1>5
        <5>3. backlog'[i - 1] = c
          BY <5>1, <5>2, <1>4
        <5> QED  BY <2>1, <5>2, <5>3 DEF Contains
      <4>2. PICK i \in 1..size : fds_[i].fd = c
        BY <4>1, <2>1, <1>1 DEF Inv, Present
      <4>3. i \in 1..size' /\ i # size + 1 /\ i \in 1..Capacity
        BY <1>1, <1>6
      <4> QED  BY <4>2, <4>3, <1>7
    <3> QED  BY <3>1, <3>2
  <2> QED  BY <2>1, <1>1 DEF Present
<1>18. Fresh'
  <2>1. ASSUME NEW i \in at'..size', fds_'[i].ready
        PROVE  Readable(fds_[i].fd)'
    <3>1. i \in 1..size' /\ i # 1
      BY <1>1, <1>2, <1>6
    <3>2. i # size + 1
      BY <2>1, <1>8
    <3>3. i \in 1..size
      BY <3>1, <3>2, <1>1, <1>6
    <3>4. i \in at..size /\ i \in 2..Capacity /\ i \in 1..Capacity
      BY <3>1, <3>3, <1>2, <1>6
    <3>5. fds_'[i] = fds_[i]
      BY <3>2, <3>4, <1>7
    <3>6. Readable(fds_[i].fd)
      BY <3>4, <3>5, <1>1, <2>1 DEF Inv, Fresh
    <3>7. fds_[i].fd # Listener
      BY <3>4 DEF Inv, ListenerFirst
    <3> QED  BY <3>5, <3>6, <3>7, <1>1 DEF Readable
  <2> QED  BY <2>1 DEF Fresh
<1> QED  BY <1>11, <1>12, <1>14, <1>15, <1>16, <1>17, <1>18 DEF Inv

(* g says where the memory after a departure was before: nothing moves up. *)
Shifts(g) ==
    /\ g \in [1..Capacity -> 1..Capacity]
    /\ \A i \in 1..Capacity : fds_'[i] = fds_[g[i]] /\ i <= g[i]
    /\ \A i \in 1..size' : g[i] \in 1..size
    /\ \A i, j \in 1..size' : g[i] = g[j] => i = j
    /\ \A j \in 1..size : fds_[j].fd # Current.fd => \E i \in 1..size' : g[i] = j
    /\ g[1] = 1

LEMMA Departure ==
    ASSUME Inv, Disconnected
    PROVE  /\ fds_' \in [1..Capacity -> Slots] /\ size' \in 1..size
           /\ \E g : Shifts(g)
<1> DEFINE Keep == {slot \in Slots : slot.fd # Current.fd}
           r == Filter(Elements, Keep)
<1>1. fds_' = r \o SubSeq(fds_, Len(r) + 1, Capacity) /\ size' = Len(r) /\ Current.fd # Listener
  BY DEF Disconnected, Erase, AtClient
<1>2. Capacity \in Nat \ {0} /\ size \in 1..Capacity /\ fds_ \in [1..Capacity -> Slots]
  BY CapacityAssumption DEF Inv, TypeOK
<1>3. fds_ \in Seq(Slots) /\ Len(fds_) = Capacity
  BY <1>2
<1>4. Elements \in Seq(Slots) /\ Len(Elements) = size /\ \A i \in 1..size : Elements[i] = fds_[i]
  BY <1>2, <1>3 DEF Elements
<1>5. r \in Seq(Slots) /\ IsFiltered(r, Elements, Keep, size)
  BY <1>4, Filtered
<1>6. \A slot : slot \in Keep <=> slot \in Slots /\ slot.fd # Current.fd
  OBVIOUS
<1> HIDE DEF r, Keep
<1>7. PICK h : Takes(h, r, Elements, Keep, size)
  BY <1>5 DEF IsFiltered
<1>8. Len(r) \in Nat /\ Len(r) <= size
  BY <1>5 DEF IsFiltered
<1> DEFINE rest == SubSeq(fds_, Len(r) + 1, Capacity)
<1>9. rest \in Seq(Slots) /\ Len(rest) = Capacity - Len(r)
      /\ \A i \in 1..Capacity - Len(r) : rest[i] = fds_[Len(r) + i]
  BY <1>2, <1>3, <1>8
<1>10. fds_' = r \o rest
  BY <1>1
<1> HIDE DEF rest
<1>11. /\ fds_' \in Seq(Slots) /\ Len(fds_') = Capacity
       /\ \A i \in 1..Len(r) : fds_'[i] = r[i]
       /\ \A i \in Len(r) + 1..Capacity : fds_'[i] = fds_[i]
  <2>1. fds_' \in Seq(Slots) /\ Len(fds_') = Len(r) + Len(rest)
        /\ \A i \in 1..Len(fds_') : fds_'[i] = IF i <= Len(r) THEN r[i] ELSE rest[i - Len(r)]
    <3>1. ASSUME NEW u \in Seq(Slots), NEW v \in Seq(Slots)
          PROVE  /\ u \o v \in Seq(Slots) /\ Len(u \o v) = Len(u) + Len(v)
                 /\ \A i \in 1..Len(u \o v) :
                       (u \o v)[i] = IF i <= Len(u) THEN u[i] ELSE v[i - Len(u)]
      OBVIOUS
    <3> QED  BY <3>1, <1>5, <1>9, <1>10
  <2>2. Len(fds_') = Capacity
    BY <2>1, <1>2, <1>8, <1>9
  <2>3. ASSUME NEW i \in 1..Len(r) PROVE fds_'[i] = r[i]
    BY <2>1, <2>2, <1>2, <1>8
  <2>4. ASSUME NEW i \in Len(r) + 1..Capacity PROVE fds_'[i] = fds_[i]
    <3>1. i \in 1..Capacity /\ ~(i <= Len(r)) /\ i - Len(r) \in 1..Capacity - Len(r)
          /\ Len(r) + (i - Len(r)) = i
      BY <1>2, <1>8
    <3> QED  BY <3>1, <2>1, <2>2, <1>9
  <2> QED  BY <2>1, <2>2, <2>3, <2>4
<1>12. fds_' \in [1..Capacity -> Slots]
  BY <1>11
<1>13. \A k \in 1..Len(r) : k <= h[k] /\ h[k] \in 1..size /\ r[k] = fds_[h[k]]
  BY <1>4, <1>7 DEF Takes
<1>14. \A j \in 1..size : fds_[j].fd # Current.fd => \E k \in 1..Len(r) : h[k] = j
  <2>1. \A j \in 1..size : fds_[j] \in Slots
    BY <1>2
  <2> QED  BY <2>1, <1>4, <1>6, <1>7 DEF Takes
<1>15. 1 \in 1..Len(r) /\ h[1] = 1
  <2>1. 1 \in 1..size /\ fds_[1].fd # Current.fd
    BY <1>1, <1>2 DEF Inv, ListenerFirst
  <2>2. PICK k \in 1..Len(r) : h[k] = 1
    BY <2>1, <1>14
  <2>3. k <= 1
    BY <2>2, <1>13
  <2>4. k = 1
    BY <2>3, <1>8
  <2> QED  BY <2>2, <2>4
<1>16. size' \in 1..size
  BY <1>1, <1>2, <1>8, <1>15
<1> DEFINE g == [i \in 1..Capacity |-> IF i <= Len(r) THEN h[i] ELSE i]
<1>17. \A i \in 1..Len(r) : i \in 1..Capacity /\ g[i] = h[i]
  BY <1>2, <1>8
<1>18. \A i \in 1..Capacity : i \in 1..Len(r) \/ (i \in Len(r) + 1..Capacity /\ g[i] = i)
  BY <1>2, <1>8
<1>19. g \in [1..Capacity -> 1..Capacity]
  <2>1. \A i \in 1..Capacity : g[i] \in 1..Capacity
    <3> HIDE DEF g
    <3> QED  BY <1>2, <1>13, <1>17, <1>18
  <2> QED  BY <2>1
<1> HIDE DEF g
<1>20. \A i \in 1..Capacity : fds_'[i] = fds_[g[i]] /\ i <= g[i]
  BY <1>2, <1>11, <1>13, <1>17, <1>18
<1>21. \A i, j \in 1..Len(r) : g[i] = g[j] => i = j
  <2> TAKE i, j \in 1..Len(r)
  <2> HAVE g[i] = g[j]
  <2>1. h[i] = h[j] /\ h[i] \in 1..size
    BY <1>13, <1>17
  <2>2. ~(i < j) /\ ~(j < i)
    BY <2>1, <1>7 DEF Takes
  <2> QED  BY <2>2, <1>8
<1>22. \A i \in 1..Len(r) : g[i] \in 1..size
  BY <1>13, <1>17
<1>23. \A j \in 1..size : fds_[j].fd # Current.fd => \E i \in 1..Len(r) : g[i] = j
  BY <1>14, <1>17
<1>24. g[1] = 1
  BY <1>15, <1>17
<1>25. Shifts(g)
  BY <1>1, <1>19, <1>20, <1>21, <1>22, <1>23, <1>24 DEF Shifts
<1> QED  BY <1>12, <1>16, <1>25

LEMMA DisconnectedKeeps == Inv /\ Disconnected => Inv'
<1> SUFFICES ASSUME Inv, Disconnected PROVE Inv'
  OBVIOUS
<1>1. UNCHANGED <<pc, end, backlog, remote, inbox>> /\ pc = "loop" /\ at' = at + 1
      /\ at <= end /\ remote[Current.fd] = "left"
  BY DEF Disconnected, AtClient
<1>2. fds_' \in [1..Capacity -> Slots] /\ size' \in 1..size
  BY Departure
<1>3. PICK g : Shifts(g)
  BY Departure
<1>4. Capacity \in Nat \ {0} /\ size \in 1..Capacity /\ at \in 1..Capacity + 1 /\ end \in 0..Capacity
  BY CapacityAssumption DEF Inv, TypeOK
<1>5. \A i \in 1..size' : i \in 1..Capacity /\ i \in 1..size
  BY <1>2, <1>4
<1>6. \A i \in 1..Capacity : fds_'[i] = fds_[g[i]] /\ g[i] \in 1..Capacity /\ i <= g[i]
  BY <1>3 DEF Shifts
<1>7. TypeOK'
  BY <1>1, <1>2, <1>4 DEF Inv, TypeOK
<1>8. ListenerFirst'
  <2>1. fds_'[1] = fds_[1]
    BY <1>3, <1>4 DEF Shifts
  <2>2. \A i \in 2..Capacity : i \in 1..Capacity /\ g[i] \in 2..Capacity
    BY <1>4, <1>6
  <2> QED  BY <1>6, <2>1, <2>2 DEF Inv, ListenerFirst
<1>9. Distinct'
  BY <1>3, <1>5, <1>6 DEF Inv, Distinct, Shifts
<1>10. Waiting' /\ Unknown'
  BY <1>1, <1>6 DEF Inv, Waiting, Unknown
<1>11. Present'
  <2>1. ASSUME NEW c \in Clients, remote[c] = "open", ~Contains(backlog, c)
        PROVE  \E i \in 1..size' : fds_'[i].fd = c
    <3>1. PICK j \in 1..size : fds_[j].fd = c
      BY <2>1, <1>1 DEF Inv, Present
    <3>2. PICK i \in 1..size' : g[i] = j
      BY <3>1, <2>1, <1>1, <1>3 DEF Shifts
    <3> QED  BY <3>1, <3>2, <1>5, <1>6
  <2> QED  BY <2>1, <1>1 DEF Present
<1>12. Fresh'
  <2>1. ASSUME NEW i \in at'..size', fds_'[i].ready
        PROVE  Readable(fds_'[i].fd)
    <3>1. i \in 1..size' /\ i \in Int /\ at <= i
      BY <1>1, <1>2, <1>4
    <3>2. i \in 1..Capacity /\ g[i] \in 1..size
      BY <3>1, <1>3, <1>5 DEF Shifts
    <3>3. fds_'[i] = fds_[g[i]] /\ i <= g[i]
      BY <3>2, <1>6
    <3>4. g[i] \in at..size
      BY <3>1, <3>2, <3>3, <1>4
    <3> QED  BY <3>3, <3>4, <2>1, <1>1 DEF Inv, Fresh
  <2>2. \A fd : Readable(fd)' = Readable(fd)
    BY <1>1 DEF Readable
  <2> QED  BY <2>1, <2>2 DEF Fresh
<1> QED  BY <1>7, <1>8, <1>9, <1>10, <1>11, <1>12 DEF Inv

-----------------------------------------------------------------------------
LEMMA StutterKeeps == Inv /\ UNCHANGED vars => Inv'
<1> SUFFICES ASSUME Inv, UNCHANGED vars PROVE Inv'
  OBVIOUS
<1> USE DEF vars, server
<1>1. TypeOK' /\ ListenerFirst' /\ Distinct' /\ Waiting' /\ Unknown' /\ Present'
  BY DEF Inv, TypeOK, ListenerFirst, Distinct, Waiting, Unknown, Present
<1>2. \A fd : Readable(fd)' = Readable(fd)
  BY DEF Readable
<1>3. Fresh'
  BY <1>2 DEF Inv, Fresh
<1> QED  BY <1>1, <1>3 DEF Inv

LEMMA InvStep == Inv /\ [Next]_vars => Inv'
<1> SUFFICES ASSUME Inv, [Next]_vars PROVE Inv'
  OBVIOUS
<1>1. ASSUME NEW c \in Clients, Connect(c) \/ Request(c) \/ Leave(c) PROVE Inv'
  BY <1>1, ConnectKeeps, RequestKeeps, LeaveKeeps
<1>2. CASE Server
  BY <1>2, PollKeeps, SkipKeeps, AcceptFullKeeps, AcceptKeeps, HandleKeeps, DisconnectedKeeps,
     LoopEndsKeeps DEF Server
<1>3. CASE UNCHANGED vars
  BY <1>3, StutterKeeps
<1> QED  BY <1>1, <1>2, <1>3 DEF Next

LEMMA Invariance == Spec => []Inv
<1>1. Init => Inv
  BY InvInit
<1>2. Inv /\ [Next]_vars => Inv'
  BY InvStep
<1> QED  BY <1>1, <1>2, PTL DEF Spec

(* The loop stays inside the memory of the vector, and the vector has the  *)
(* listener at least, whoever comes and leaves (RedisServer::start).       *)
THEOREM TypeCorrect == Spec => []TypeOK
<1>1. Inv => TypeOK
  BY DEF Inv
<1> QED  BY <1>1, Invariance, PTL

(* The erasures under the loop's own iterator lose nobody and double       *)
(* nobody: between two rounds each client is once in the vector, whatever  *)
(* comes and leaves during a round (RedisServer::start).                   *)
THEOREM EachOnceAlways == Spec => []EachOnce
<1>1. Inv => EachOnce
  <2> SUFFICES ASSUME Inv, pc = "poll", NEW c \in Clients
               PROVE  /\ \A i, j \in {i \in 1..size : fds_[i].fd = c} : i = j
                      /\ remote[c] = "open" /\ ~Contains(backlog, c) =>
                            {i \in 1..size : fds_[i].fd = c} # {}
    BY DEF EachOnce
  <2>1. \A i, j \in {i \in 1..size : fds_[i].fd = c} : i = j
    BY DEF Inv, Distinct
  <2>2. remote[c] = "open" /\ ~Contains(backlog, c) => {i \in 1..size : fds_[i].fd = c} # {}
    BY DEF Inv, Present
  <2> QED  BY <2>1, <2>2
<1> QED  BY <1>1, Invariance, PTL

(* For any number of clients and any capacity: where recv() waits, and the *)
(* server with it, the slot is behind the end of the vector, so that a     *)
(* departure in the same round has shifted it (RedisServer::start).        *)
THEOREM OnlyBehindTheEnd == Spec => []WaitsBehindTheEnd
<1>1. Inv => WaitsBehindTheEnd
  <2> SUFFICES ASSUME Inv, AtClient, ~Readable(Current.fd) PROVE at > size
    BY DEF WaitsBehindTheEnd, RecvWaits
  <2>1. pc = "loop" /\ fds_[at].ready /\ ~Readable(fds_[at].fd)
    BY DEF AtClient, Current
  <2>2. at \notin at..size
    BY <2>1 DEF Inv, Fresh
  <2> QED  BY <2>2, CapacityAssumption DEF Inv, TypeOK
<1> QED  BY <1>1, Invariance, PTL

=============================================================================
