--------------------------- MODULE RedisCommands ---------------------------
(***************************************************************************)
(* How ccredis turns the elements of a decoded array into a command:       *)
(* parseRawArrayCommands visits ParsePayload with one element after the    *)
(* other, and the command keeps its own state between the visits.          *)
(* Elements are strings, integers or neither (an error, an array, a map or *)
(* nothing at all).  Texts are names.                                      *)
(***************************************************************************)
EXTENDS Integers, Sequences

CONSTANTS
    Words,       \* texts that are no option, no number and not empty
    Numbers,     \* texts that from_chars accepts
    Empty,       \* the text ""
    EX,
    PX,          \* the options
    Dangling,    \* a view of the temporary that to_string() returned
    MaxElements, \* bound of the model on the elements of a command
    None

ASSUME ElementsAssumption == MaxElements \in Nat

ASSUME TextsAssumption ==
    /\ Words \cap Numbers = {}
    /\ {Empty, EX, PX} \cap (Words \cup Numbers) = {}
    /\ {Dangling, None} \cap (Words \cup Numbers \cup {Empty, EX, PX}) = {}
    /\ EX # PX /\ Empty \notin {EX, PX}

VARIABLES
    command, \* the variant: its kind and its fields
    given,   \* the elements after the first, as far as they have been visited
    result   \* what became of it

vars == <<command, given, result>>

Texts == Words \cup Numbers \cup {Empty, EX, PX}

Elements == [type : {"string", "integer", "other"}, text : Texts]

(* An integer has the text of a number, what is neither has none.          *)
Arguments ==
    {e \in Elements : /\ e.type = "integer" => e.text \in Numbers
                      /\ e.type = "other" => e.text = Empty}

Kinds == {"SET", "GET", "EXISTS", "INCR", "PING", "HELLO", "unknown"}

Views == Texts \cup {Dangling}

Expiries == [resolution : {"s", "ms"}, time : Numbers]

Fields ==
    [kind : Kinds, key_ : Views, value_ : Views, expire : Expiries \cup {None},
     state_ : {"WaitingForValue", "Done"}, resolution_ : {"s", "ms"}]

FieldsOK ==
    /\ command \in Fields
    /\ given \in Seq(Elements)
    /\ result \in {"parsing", "command", "Missing key", "Missing version",
                   "Invalid expiration time", "aborted"}

(* Type invariant. *)
TypeOK == FieldsOK /\ given \in Seq(Arguments) /\ Len(given) <= MaxElements

NewCommand(kind) ==
    [kind |-> kind, key_ |-> Empty, value_ |-> Empty, expire |-> None,
     state_ |-> "WaitingForValue", resolution_ |-> "s"]

-----------------------------------------------------------------------------
(* Mutant: the error of the element, which a string or an integer has not. *)
ErrorOf(e) == None

View(e) == IF e.type = "integer" THEN Dangling ELSE e.text

(* Mutant: every later string replaces the value. *)
LastValue(e) == [command EXCEPT !.value_ = View(e)]

(* EX and PX ask for a value to come.  A dangling view is not empty.       *)
Option(e) ==
    IF e = [type |-> "string", text |-> EX]
    THEN [command EXCEPT !.state_ = "WaitingForValue", !.resolution_ = "s"]
    ELSE IF e = [type |-> "string", text |-> PX]
    THEN [command EXCEPT !.state_ = "WaitingForValue", !.resolution_ = "ms"]
    ELSE IF e.type = "string" /\ command.state_ = "WaitingForValue"
    THEN [command EXCEPT !.expire = [resolution |-> command.resolution_, time |-> e.text]]
    ELSE command

Refuses(e) ==
    /\ command.key_ # Empty /\ command.value_ # Empty
    /\ e.type = "string" /\ e.text \notin {EX, PX} \cup Numbers
    /\ command.state_ = "WaitingForValue"

(* Whatever was parsed, the last line says Done.                           *)
Finished(fields) == [fields EXCEPT !.state_ = "Done"]

SetPayload(e) ==
    /\ command.kind = "SET"
    /\ IF Refuses(e) THEN result' = "Invalid expiration time" /\ UNCHANGED command
       ELSE /\ command' = Finished(
                  IF command.key_ = Empty THEN [command EXCEPT !.key_ = View(e)]
                  ELSE IF command.value_ = Empty THEN [command EXCEPT !.value_ = View(e)]
                  ELSE Option(e))
            /\ UNCHANGED result

KeyPayload(e) ==
    /\ command.kind \in {"GET", "EXISTS", "INCR"}
    /\ command' = IF e.type = "other" THEN command ELSE [command EXCEPT !.key_ = View(e)]
    /\ result' = IF command'.key_ = Empty THEN "Missing key" ELSE result

PingPayload(e) ==
    /\ command.kind = "PING"
    /\ command' = IF e.type = "string" THEN [command EXCEPT !.value_ = e.text] ELSE command
    /\ UNCHANGED result

(* assert(resp_.string_.has_value()) *)
HelloPayload(e) ==
    /\ command.kind = "HELLO"
    /\ IF e.type # "string" THEN result' = "aborted" /\ UNCHANGED command
       ELSE /\ command' = [command EXCEPT !.value_ = e.text]
            /\ result' = IF e.text = Empty THEN "Missing version" ELSE result

UnknownPayload(e) == command.kind = "unknown" /\ UNCHANGED <<command, result>>

ParsePayload(e) ==
    \/ SetPayload(e) \/ KeyPayload(e) \/ PingPayload(e) \/ HelloPayload(e) \/ UnknownPayload(e)

Visit(e) ==
    /\ result = "parsing"
    /\ ParsePayload(e)
    /\ given' = Append(given, e)

(* The last element has been visited.                                      *)
Parsed ==
    /\ result = "parsing"
    /\ result' = "command"
    /\ UNCHANGED <<command, given>>

parseRawArrayCommands ==
    \/ Len(given) < MaxElements /\ \E e \in Arguments : Visit(e)
    \/ Parsed

Init ==
    /\ \E kind \in Kinds : command = NewCommand(kind)
    /\ given = << >>
    /\ result = "parsing"

Spec == Init /\ [][parseRawArrayCommands]_vars

-----------------------------------------------------------------------------
(* An element that is a string and not empty                               *)
Said(e) == e.type = "string" /\ e.text # Empty

Silent(from, to) == \A i \in from..to : ~Said(given[i])

(* A SET without integers means its first two texts that are not empty,    *)
(* however many elements come: options never end up in the value, and a    *)
(* repeated visit never changes key or value.                              *)
FirstTwo ==
    command.kind = "SET" /\ (\A i \in 1..Len(given) : given[i].type # "integer") =>
        \/ command.key_ = Empty /\ command.value_ = Empty /\ Silent(1, Len(given))
        \/ \E i \in 1..Len(given) :
              /\ Said(given[i]) /\ Silent(1, i - 1) /\ command.key_ = given[i].text
              /\ \/ command.value_ = Empty /\ Silent(i + 1, Len(given))
                 \/ \E j \in i + 1..Len(given) :
                       /\ Said(given[j]) /\ Silent(i + 1, j - 1)
                       /\ command.value_ = given[j].text

(* The test SETwithEx: SET key value EX 100 expires.                       *)
ExpiryKept ==
    \A time \in Numbers, unit \in {EX, PX} :
        /\ result = "command" /\ command.kind = "SET"
        /\ Len(given) = 4 /\ \A i \in 1..4 : Said(given[i])
        /\ given[3].text = unit /\ given[4].text = time
        => command.expire = [resolution |-> IF unit = EX THEN "s" ELSE "ms", time |-> time]

=============================================================================
