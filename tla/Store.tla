------------------------------- MODULE Store -------------------------------
(***************************************************************************)
(* What the database of ccredis promises: a map from keys to values, from  *)
(* which a key disappears a moment after its deadline, and commands that   *)
(* answer from that map.                                                   *)
(***************************************************************************)
EXTENDS Integers

CONSTANTS
    Keys, Values,
    Increment, \* the value after INCR, None where it fails
    Grace,     \* how long after its deadline a key stays
    MaxTime,   \* bound of the model on the clock
    None

VARIABLES now, content, deadline, reply

vars == <<now, content, deadline, reply>>

Answer(to, kind, value) == [to |-> to, kind |-> kind, value |-> value]

Init ==
    /\ now = 0
    /\ content = [k \in Keys |-> None]
    /\ deadline = [k \in Keys |-> None]
    /\ reply = Answer("nobody", "none", None)

Over(time, d) == d # None /\ time >= d + Grace

Put(k, v, d) ==
    /\ content' = [content EXCEPT ![k] = IF Over(now, d) THEN None ELSE v]
    /\ deadline' = [deadline EXCEPT ![k] = IF Over(now, d) THEN None ELSE d]

SetKey(k, v, d) ==
    /\ Put(k, v, d)
    /\ reply' = Answer("SET", "OK", None)
    /\ UNCHANGED now

GetKey(k) ==
    /\ reply' = Answer("GET", IF content[k] = None THEN "missing" ELSE "bulk", content[k])
    /\ UNCHANGED <<now, content, deadline>>

ExistsKey(k) ==
    /\ reply' = Answer("EXISTS", "int", IF content[k] # None THEN 1 ELSE 0)
    /\ UNCHANGED <<now, content, deadline>>

IncrementKey(k) ==
    /\ \/ /\ content[k] = None
          /\ reply' = Answer("INCR", "missing", None)
          /\ UNCHANGED <<content, deadline>>
       \/ /\ content[k] # None /\ Increment[content[k]] = None
          /\ reply' = Answer("INCR", "invalid", None)
          /\ UNCHANGED <<content, deadline>>
       \/ /\ content[k] # None /\ Increment[content[k]] # None
          /\ reply' = Answer("INCR", "OK", None)
          /\ content' = [content EXCEPT ![k] = Increment[@]]
          /\ UNCHANGED deadline
    /\ UNCHANGED now

Tick ==
    /\ now < MaxTime
    /\ now' = now + 1
    /\ content' = [k \in Keys |-> IF Over(now', deadline[k]) THEN None ELSE content[k]]
    /\ deadline' = [k \in Keys |-> IF Over(now', deadline[k]) THEN None ELSE deadline[k]]
    /\ UNCHANGED reply

Next ==
    \/ \E k \in Keys, v \in Values, d \in 0..MaxTime \cup {None} : SetKey(k, v, d)
    \/ \E k \in Keys : GetKey(k) \/ ExistsKey(k) \/ IncrementKey(k)
    \/ Tick

Spec == Init /\ [][Next]_vars

=============================================================================
