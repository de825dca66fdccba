-------------------------- MODULE RedisConnection ---------------------------
(***************************************************************************)
(* RedisServer::handleClient and handleInput under the byte streams of     *)
(* several clients: what one recv returns is decoded, parsed, executed and *)
(* answered before the next recv.  A recv may return a part of a request   *)
(* or several requests.  The steps of a command's parsing are those of     *)
(* RedisCommands, the handlers those of RedisDatabase, and the bytes are   *)
(* read by RespDecoder.  The loop over the clients is PollServer's; here   *)
(* nobody leaves.  No SET gets an expiry (ExpiryKept).                     *)
(***************************************************************************)
EXTENDS RespDecoder, RedisCommands, RedisDatabase

CONSTANTS
    Clients,
    Requests,   \* what each client may write: records of a kind and its arguments
    Cut,        \* clients whose requests may come in parts
    Bytes,      \* of the texts and names
    Spelling,   \* the bytes of each text
    Names,      \* the bytes of each command's name, and of one that is unknown
    IntOf,      \* the value of each number
    Torn,       \* any text that nobody has spelled
    BufferSize, \* what one recv returns at most: 1024 bytes
    MaxAsked    \* bound of the model on the requests of each client

Written == UNION {Requests[c] : c \in Clients}

Plain(request) ==
    \A i \in 1..Len(request.arguments) : request.arguments[i].type = "string"

(* The database holds texts, and the views of the commands are its keys.   *)
ASSUME DatabaseAssumption == Keys = Views /\ Strings = Views \ Numbers /\ Null = None

ASSUME RequestsAssumption ==
    /\ DOMAIN Requests = Clients /\ Cut \subseteq Clients /\ None \notin Clients
    /\ \A r \in Written : r.kind \in Kinds /\ r.arguments \in Seq(Arguments)
    /\ Torn \in Words
    /\ BufferSize \in Nat \ {0}
    /\ MaxAsked \in [Clients -> Nat]

ASSUME SpellingAssumption ==
    /\ Spelling \in [Texts -> Seq(Bytes)] /\ Names \in [Kinds -> Seq(Bytes)]
    /\ \A t, u \in Texts : Spelling[t] = Spelling[u] => t = u
    /\ \A k, l \in Kinds : Names[k] = Names[l] => k = l
    /\ IntOf \in [Numbers -> Ints]

(* Lengths have at most four digits.                                       *)
ASSUME LengthAssumption ==
    /\ \A t \in Texts : Len(Spelling[t]) <= 9999
    /\ \A k \in Kinds : Len(Names[k]) <= 9999
    /\ \A r \in Written : Len(r.arguments) < 9999

(* No text has a line's end, nor the byte that begins a string.            *)
ASSUME BytesAssumption == {CR, "+", "$"} \cap Bytes = {}

(* Nobody writes the torn text, and a name is a text that may be stored.   *)
ASSUME TornAssumption ==
    /\ \A r \in Written : \A i \in 1..Len(r.arguments) : r.arguments[i].text # Torn
    /\ \A k \in Kinds : \E t \in Texts \ {Torn} : Spelling[t] = Names[k]

(* The clients know how many arguments a command has.                      *)
ASSUME AskedAssumption ==
    \A r \in Written :
        /\ r.kind \in {"GET", "EXISTS", "INCR", "HELLO"} => Len(r.arguments) = 1
        /\ r.kind = "PING" => Len(r.arguments) <= 1
        /\ r.kind \notin {"SET", "unknown"} =>
              \A i \in 1..Len(r.arguments) : r.arguments[i].text # Empty

VARIABLES
    asked,   \* how many requests a client has written
    sent,    \* its requests that have not been received completely
    offset,  \* how many bytes of the first of them have been received
    manner,  \* how they came: "one" a recv, "several", with "integers", in "parts"
    pc,      \* "poll": waits for a readable client, "parse": has its command, "dead"
    serving, \* the client whose input is handled
    rest,    \* elements of its command that ParsePayload has not visited
    buffer,  \* of the encoder, which all clients share
    got,     \* what a client in step has received
    due      \* history: what it should have

connectionVars ==
    <<asked, sent, offset, manner, pc, serving, rest, buffer, got, due, vars, databaseVars>>

-----------------------------------------------------------------------------
(* A client writes arrays of bulk strings, redis-cli's form, or integers.  *)
Decimal(n) ==
    LET digit(unit) == DigitNames[1 + ((n \div unit) % 10)]
    IN  CASE n < 10 -> <<digit(1)>>
          [] 10 <= n /\ n < 100 -> <<digit(10), digit(1)>>
          [] 100 <= n /\ n < 1000 -> <<digit(100), digit(10), digit(1)>>
          [] OTHER -> <<digit(1000), digit(100), digit(10), digit(1)>>

Bulk(text) == <<"$">> \o Decimal(Len(text)) \o CRLF \o text \o CRLF

OnWire(e) ==
    IF e.type = "string" THEN Bulk(Spelling[e.text]) ELSE <<":">> \o Spelling[e.text] \o CRLF

(* What the first parts are together                                       *)
Joined(parts) ==
    LET upTo[k \in 0..Len(parts)] == IF k = 0 THEN << >> ELSE upTo[k - 1] \o parts[k]
    IN  upTo

Parts(r) ==
    <<Bulk(Names[r.kind])>> \o [i \in 1..Len(r.arguments) |-> OnWire(r.arguments[i])]

Wire ==
    [r \in Written |->
        <<"*">> \o Decimal(Len(Parts(r))) \o CRLF \o Joined(Parts(r))[Len(Parts(r))]]

(* What a client has written and the server has not received completely    *)
Whole(c) == Joined([i \in 1..Len(sent[c]) |-> Wire[sent[c][i]]])

Stream(c) ==
    LET bytes == Whole(c)[Len(sent[c])] IN SubSeq(bytes, offset[c] + 1, Len(bytes))

(* Where the requests of a stream end                                      *)
Ends(c) ==
    LET whole == Whole(c) IN [k \in 0..Len(sent[c]) |-> Len(whole[k]) - offset[c]]

(* Inside a run of one byte it does not matter where a recv ends.          *)
Lengths(c, bytes, ends) ==
    {n \in 1..Len(bytes) :
        /\ n <= BufferSize
        /\ \/ n \in Range(ends) \/ n = BufferSize
           \/ c \in Cut /\ (bytes[n] # bytes[n + 1] \/ (n > 1 /\ bytes[n] # bytes[n - 1]))}

Left(c, n, ends) ==
    LET whole == Max({k \in 0..Len(sent[c]) : ends[k] <= n})
    IN  [sent |-> SubSeq(sent[c], whole + 1, Len(sent[c])), offset |-> n - ends[whole]]

Manner(c, n, ends) ==
    IF manner[c] = "parts" \/ offset[c] # 0 \/ n \notin Range(ends) THEN "parts"
    ELSE IF manner[c] = "integers" \/ \E i \in 1..Len(sent[c]) : ~Plain(sent[c][i]) THEN "integers"
    ELSE IF manner[c] = "several" \/ n # ends[1] THEN "several" ELSE "one"

-----------------------------------------------------------------------------
TextOf(bytes) ==
    IF \E t \in Texts : Spelling[t] = bytes THEN CHOOSE t \in Texts : Spelling[t] = bytes ELSE Torn

KindOf(value) ==
    IF value.type = "string" /\ \E k \in DOMAIN Names : Names[k] = value.bytes
    THEN CHOOSE k \in DOMAIN Names : Names[k] = value.bytes ELSE "unknown"

ElementOf(value) ==
    IF value.type \in {"string", "integer"}
    THEN [type |-> value.type, text |-> TextOf(value.bytes)]
    ELSE [type |-> "other", text |-> Empty]

(* A string by itself is PING or unknown; so is what is no array.          *)
convertToCommands(value) ==
    /\ command' = NewCommand(CASE value.type = "array" -> KindOf(value.elements[1])
                               [] KindOf(value) = "PING" -> "PING"
                               [] OTHER -> "unknown")
    /\ rest' = IF value.type = "array" THEN [i \in 1..Len(value.elements) - 1 |->
                                                 ElementOf(value.elements[i + 1])]
               ELSE << >>
    /\ given' = << >>
    /\ result' = "parsing"

(* What a request should be answered, by the database it meets             *)
Stored(text) == IF text \in Numbers THEN IntOf[text] ELSE text

Owed(r) ==
    LET content == IF r.kind \in {"GET", "EXISTS", "INCR"} THEN get(r.arguments[1].text) ELSE None
    IN  CASE r.kind = "PING" -> Answer("PING", "bulk",
                 IF r.arguments = << >> THEN None ELSE r.arguments[1].text)
          [] r.kind = "HELLO" -> Answer("HELLO",
                 IF Spelling[r.arguments[1].text] = <<"3">> THEN "map" ELSE "invalid", None)
          [] r.kind = "SET" -> Answer("SET", "OK", None)
          [] r.kind = "GET" /\ content # None -> Answer("GET", "bulk", content.value_)
          [] r.kind = "EXISTS" -> Answer("EXISTS", "int", IF content = None THEN 0 ELSE 1)
          [] r.kind = "INCR" /\ content # None -> Answer("INCR",
                 IF stoi(content.value_) # None THEN "OK" ELSE "invalid", None)
          [] r.kind = "unknown" -> Answer("unknown", "invalid", None)
          [] OTHER -> Answer(r.kind, "missing", None)

-----------------------------------------------------------------------------
Request(c) ==
    /\ asked[c] < MaxAsked[c] /\ pc # "dead"
    /\ asked' = [asked EXCEPT ![c] = @ + 1]
    /\ \E r \in Requests[c] : sent' = [sent EXCEPT ![c] = Append(@, r)]
    /\ UNCHANGED <<offset, manner, pc, serving, rest, buffer, got, due, vars, databaseVars>>

(* An invalid_argument is logged, and the client gets no answer; any other *)
(* exception ends the server, and so does the first element of no array.   *)
handleInput(segment) ==
    LET decoded == decode(segment, 0)
        value == decoded.value
    IN  CASE decoded.fate = "decoded" /\ (value.type = "array" => value.elements # << >>) ->
                pc' = "parse" /\ convertToCommands(value)
          [] decoded.fate = "invalid_argument" ->
                pc' = "poll" /\ UNCHANGED <<rest, vars>>
          [] OTHER -> pc' = "dead" /\ UNCHANGED <<rest, vars>>

handleClient(c) ==
    /\ pc = "poll"
    /\ serving' = c
    /\ UNCHANGED <<asked, buffer, databaseVars>>
    /\ LET stream == Stream(c)
           ends == Ends(c) IN
       \E n \in Lengths(c, stream, ends) :
          LET left == Left(c, n, ends)
              came == Manner(c, n, ends) IN
          /\ sent' = [sent EXCEPT ![c] = left.sent]
          /\ offset' = [offset EXCEPT ![c] = left.offset]
          /\ manner' = [manner EXCEPT ![c] = came]
          /\ due' = [due EXCEPT ![c] = IF came = "one" THEN Append(@, Owed(sent[c][1])) ELSE << >>]
          /\ got' = [got EXCEPT ![c] = IF came = "one" THEN @ ELSE << >>]
          /\ handleInput(SubSeq(stream, 1, n))

parse ==
    /\ pc = "parse" /\ rest # << >>
    /\ Visit(Head(rest))
    /\ rest' = Tail(rest)
    /\ UNCHANGED <<asked, sent, offset, manner, pc, serving, buffer, got, due, databaseVars>>

(* CommandInvalid is an array of two errors, an empty PING says PONG.      *)
CommandInvalid == reply' = Answer(command.kind, "errors", None) /\ UNCHANGED <<now, map_>>

CommandPing ==
    /\ reply' = Answer("PING", "bulk", IF command.value_ = Empty THEN None ELSE command.value_)
    /\ UNCHANGED <<now, map_>>

CommandHello ==
    /\ reply' = Answer("HELLO", IF command.value_ # Empty /\ Spelling[command.value_] = <<"3">>
                                THEN "map" ELSE "invalid", None)
    /\ UNCHANGED <<now, map_>>

CommandUnknown == reply' = Answer("unknown", "invalid", None) /\ UNCHANGED <<now, map_>>

DatabaseCommand ==
    CASE command.kind = "SET" -> CommandSet(command.key_, Stored(command.value_), None)
      [] command.kind = "GET" -> CommandGet(command.key_)
      [] command.kind = "EXISTS" -> CommandExists(command.key_)
      [] command.kind = "INCR" -> CommandIncr(command.key_)

commandHandler_ ==
    IF result # "parsing" THEN CommandInvalid
    ELSE CASE command.kind = "PING" -> CommandPing
           [] command.kind = "HELLO" -> CommandHello
           [] command.kind = "unknown" -> CommandUnknown
           [] OTHER -> DatabaseCommand

(* Mutant: the buffer is not cleared. *)
Uncleared(bytes) == bytes

clearBuffer(bytes) == << >>

(* commandHandler_ appends to the encoder, sendData sends all it has.      *)
execute ==
    /\ pc = "parse" /\ (rest = << >> \/ result # "parsing")
    /\ result # "aborted"
    /\ commandHandler_
    /\ got' = [got EXCEPT ![serving] = IF manner[serving] = "one"
                                       THEN @ \o Append(buffer, reply') ELSE << >>]
    /\ buffer' = clearBuffer(Append(buffer, reply'))
    /\ pc' = "poll"
    /\ rest' = << >>
    /\ UNCHANGED <<asked, sent, offset, manner, serving, due, vars>>

abort ==
    /\ pc = "parse" /\ result = "aborted"
    /\ pc' = "dead"
    /\ UNCHANGED <<asked, sent, offset, manner, serving, rest, buffer, got, due, vars, databaseVars>>

-----------------------------------------------------------------------------
ConnectionInit ==
    /\ asked = [c \in Clients |-> 0]
    /\ sent = [c \in Clients |-> << >>]
    /\ offset = [c \in Clients |-> 0]
    /\ manner = [c \in Clients |-> "one"]
    /\ pc = "poll"
    /\ serving = None
    /\ rest = << >>
    /\ DatabaseInit
    /\ buffer = << >>
    /\ got = [c \in Clients |-> << >>]
    /\ due = [c \in Clients |-> << >>]
    /\ command = NewCommand("unknown")
    /\ given = << >>
    /\ result = "parsing"

ConnectionNext ==
    \/ \E c \in Clients : Request(c) \/ handleClient(c)
    \/ parse \/ execute \/ abort

ConnectionSpec == ConnectionInit /\ [][ConnectionNext]_connectionVars

-----------------------------------------------------------------------------
(* Type invariant. *)
ConnectionTypeOK ==
    /\ FieldsOK
    /\ \A c \in Clients :
          /\ sent[c] \in Seq(Requests[c]) /\ Len(sent[c]) <= asked[c] /\ asked[c] <= MaxAsked[c]
          /\ sent[c] = << >> => offset[c] = 0
          /\ sent[c] # << >> => offset[c] < Len(Wire[sent[c][1]])
    /\ rest \in Seq(Elements)
    /\ pc \in {"poll", "parse", "dead"} /\ serving \in Clients \cup {None}
    /\ \A i \in 1..Len(buffer) : buffer[i].to \in Kinds

(* A client whose requests come one a recv gets the answers to them, in    *)
(* their order and nothing else, whatever the others send to the decoder   *)
(* and the encoder it shares with them (handleInput).                      *)
InStep ==
    \A c \in Clients :
        pc # "dead" /\ manner[c] = "one" =>
            got[c] = IF pc = "parse" /\ serving = c THEN Front(due[c]) ELSE due[c]

(* However the streams are cut, a part of a text is never stored, neither  *)
(* as a key nor as a value, though a cut SET may store a text that had     *)
(* another role in it, its own name even (decodeBulkString, decodeArray).  *)
NothingTorn ==
    \A k \in DOMAIN map_ : map_[k] # None => k # Torn /\ map_[k].value_ # Torn

(* Requests of strings that are not cut never end the server, even if      *)
(* several come at once (handleInput catches invalid_argument only).       *)
SurvivesWhole ==
    pc = "dead" => \E c \in Clients : manner[c] \in {"integers", "parts"}

(* What the server's own decoder reads from a bulk string of its encoder   *)
(* is the text, or it refuses: the one byte of the length, which wraps, is *)
(* never taken for the length of a shorter text (appendBulkstring).        *)
NeverTruncated ==
    \A c \in Clients : \A i \in 1..Len(got[c]) :
        got[c][i].kind = "bulk" /\ got[c][i].value \in Texts =>
            LET text == Spelling[got[c][i].value]
                again == decode(appendBulkstring(text), 0)
            IN  again.fate = "decoded" => again.value.bytes = text

=============================================================================
