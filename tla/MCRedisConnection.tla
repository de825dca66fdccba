------------------------- MODULE MCRedisConnection --------------------------
(* Two clients of ccredis: a key, a value that wraps the byte of its       *)
(* length, a short one that is a number, options.                          *)
EXTENDS RedisConnection, TLC

CONSTANTS c1, c2, someKey, long, three

(* Each command's name may be stored as a text too.                        *)
CONSTANTS setName, getName, existsName, incrName, pingName, helloName, delName

MCTextOfName ==
    ("SET" :> setName) @@ ("GET" :> getName) @@ ("EXISTS" :> existsName) @@ ("INCR" :> incrName)
        @@ ("PING" :> pingName) @@ ("unknown" :> delName) @@ ("HELLO" :> helloName)

MCWords == {someKey, long, Torn} \cup Range(MCTextOfName)

MCNames ==
    ("SET" :> <<"S", "E", "T">>) @@ ("GET" :> <<"G", "E", "T">>)
        @@ ("EXISTS" :> <<"E", "X", "I", "S", "T", "S">>) @@ ("INCR" :> <<"I", "N", "C", "R">>)
        @@ ("PING" :> <<"P", "I", "N", "G">>)
        @@ ("unknown" :> <<"D", "E", "L">>) @@ ("HELLO" :> <<"H", "E", "L", "L", "O">>)

MCSpelling ==
    (someKey :> <<"k">>) @@ (long :> [i \in 1..257 |-> "x"]) @@ (three :> <<"3">>)
        @@ [t \in Range(MCTextOfName) |-> MCNames[CHOOSE k \in Kinds : MCTextOfName[k] = t]]
        @@ (Torn :> <<"?">>) @@ (Empty :> << >>)
        @@ (EX :> <<"E", "X">>) @@ (PX :> <<"P", "X">>)

String(text) == [type |-> "string", text |-> text]

Integer(text) == [type |-> "integer", text |-> text]

Ask(kind, arguments) == [kind |-> kind, arguments |-> arguments]

MCRequests ==
    c1 :> {Ask("GET", <<String(someKey)>>), Ask("INCR", <<String(someKey)>>), Ask("EXISTS", <<String(someKey)>>),
           Ask("SET", <<String(someKey), Integer(three)>>), Ask("PING", <<String(three)>>),
           Ask("HELLO", <<String(three)>>), Ask("unknown", <<String(someKey)>>)}
    @@ c2 :> {Ask("GET", <<String(someKey)>>), Ask("INCR", <<String(someKey)>>),
              Ask("SET", <<String(someKey), String(long)>>),
              Ask("SET", <<String(Empty), String(someKey), String(three), String(EX), String(three)>>),
              Ask("HELLO", <<Integer(three)>>)}

MCIntOf == three :> 3

MCBytes == UNION {Range(text) : text \in Range(MCSpelling) \cup Range(MCNames)}

MCKeys == Views

MCStrings == Views \ Numbers

MCNumeral == [t \in MCStrings |-> None]

MCMaxAsked == (c1 :> 1) @@ (c2 :> 2)

=============================================================================
