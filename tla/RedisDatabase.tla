--------------------------- MODULE RedisDatabase ---------------------------
(***************************************************************************)
(* The database of ccredis (Database.h) under its command handlers         *)
(* (CommandHandler.cpp): a map whose values may have a point of expiry.    *)
(* Nothing is removed from the map: get() hides what has expired.          *)
(***************************************************************************)
EXTENDS Integers

CONSTANTS
    Keys,
    Strings,   \* values that are not an int written in decimal
    Numeral, \* what stoi() reads at the head of such a text, Null if it throws
    IntMax,  \* largest int: 2^31 - 1
    PerMs,   \* ticks of the clock, which is finer than a millisecond
    MaxTime, \* bound of the model on the clock
    Null

IntMin == -IntMax - 1

Ints == IntMin..IntMax

Values == Ints \cup Strings

ValueType == [value_ : Values, expire_ : Nat \cup {Null}]

ASSUME NumbersAssumption ==
    IntMax \in Nat /\ PerMs \in Nat \ {0} /\ MaxTime \in Nat

ASSUME StringsAssumption ==
    /\ Null \notin Values /\ Null \notin Int /\ Null \notin ValueType
    /\ Strings \cap Int = {}
    /\ Numeral \in [Strings -> Ints \cup {Null}]

VARIABLES
    now,   \* system_clock
    map_,  \* value_ and expire_ of each key, Null where the map has none
    reply  \* what the encoder has for the last command

databaseVars == <<now, map_, reply>>

Commands == {"nobody", "SET", "GET", "EXISTS", "INCR"}

Replies ==
    [to : Commands, kind : {"none", "OK", "bulk", "int", "missing", "invalid"},
     value : Values \cup {0, 1, Null}]

Answer(to, kind, value) == [to |-> to, kind |-> kind, value |-> value]

(* Type invariant. *)
DatabaseTypeOK ==
    /\ now \in 0..MaxTime
    /\ map_ \in [Keys -> ValueType \cup {Null}]
    /\ reply \in Replies

-----------------------------------------------------------------------------
(* duration_cast to milliseconds: towards zero *)
ToMs(t) == IF t >= 0 THEN t \div PerMs ELSE -((-t) \div PerMs)

(* Mutant: a key expires with its last millisecond. *)
ExpiredAt(entry, time) == entry.expire_ # Null /\ ToMs(entry.expire_ - time) <= 0

Expired(entry, time) == entry.expire_ # Null /\ ToMs(entry.expire_ - time) < 0

get(k) == IF map_[k] # Null /\ ~Expired(map_[k], now) THEN map_[k] ELSE Null

set(k, v, expire) ==
    map_' = [map_ EXCEPT ![k] = [value_ |-> v, expire_ |-> expire]]

(* stoi and += 1, which wraps *)
stoi(v) == IF v \in Ints THEN v ELSE Numeral[v]

(* Mutant: a number of more bits than an int. *)
Widened(n) == n + 1

PlusOne(n) == IF n = IntMax THEN IntMin ELSE n + 1

Incremented(v) == IF stoi(v) = Null THEN Null ELSE PlusOne(stoi(v))

-----------------------------------------------------------------------------
CommandSet(k, v, expire) ==
    /\ set(k, v, expire)
    /\ reply' = Answer("SET", "OK", Null)
    /\ UNCHANGED now

CommandGet(k) ==
    /\ reply' = IF get(k) = Null THEN Answer("GET", "missing", Null)
                ELSE Answer("GET", "bulk", get(k).value_)
    /\ UNCHANGED <<now, map_>>

CommandExists(k) ==
    /\ reply' = Answer("EXISTS", "int", IF get(k) # Null THEN 1 ELSE 0)
    /\ UNCHANGED <<now, map_>>

(* Mutant: the incremented value is stored without its expiry. *)
Forever(entry) == Null

Kept(entry) == entry.expire_

CommandIncr(k) ==
    /\ IF get(k) = Null
       THEN reply' = Answer("INCR", "missing", Null) /\ UNCHANGED map_
       ELSE IF Incremented(get(k).value_) = Null
       THEN reply' = Answer("INCR", "invalid", Null) /\ UNCHANGED map_
       ELSE /\ reply' = Answer("INCR", "OK", Null)
            /\ set(k, Incremented(get(k).value_), Kept(get(k)))
    /\ UNCHANGED now

Tick ==
    /\ now < MaxTime
    /\ now' = now + 1
    /\ UNCHANGED <<map_, reply>>

-----------------------------------------------------------------------------
DatabaseInit ==
    /\ now = 0
    /\ map_ = [k \in Keys |-> Null]
    /\ reply = Answer("nobody", "none", Null)

DatabaseNext ==
    \/ \E k \in Keys, v \in Values, expire \in 0..MaxTime \cup {Null} :
          CommandSet(k, v, expire)
    \/ \E k \in Keys : CommandGet(k) \/ CommandExists(k) \/ CommandIncr(k)
    \/ Tick

DatabaseSpec == DatabaseInit /\ [][DatabaseNext]_databaseVars

-----------------------------------------------------------------------------
(* What get() hides is what the abstract store has dropped.                *)
Content == [k \in Keys |-> IF get(k) # Null THEN map_[k].value_ ELSE Null]

Deadline == [k \in Keys |-> IF get(k) # Null THEN map_[k].expire_ ELSE Null]

Abstract == INSTANCE Store WITH
    Increment <- [v \in Values |-> Incremented(v)],
    None <- Null, Grace <- PerMs, content <- Content, deadline <- Deadline

(* The map that never forgets, read through get(), behaves as a store that *)
(* drops each key a millisecond after its deadline: no command brings an   *)
(* expired key back, INCR keeps the deadline and SET replaces it.          *)
ImplementsStore == Abstract!Spec

=============================================================================
