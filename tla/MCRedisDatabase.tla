-------------------------- MODULE MCRedisDatabase --------------------------
(* Two keys, ints of two bits, a word and a text that begins with 1. *)
EXTENDS RedisDatabase, TLC

CONSTANTS a, b, word, oneMore

Reads == (word :> Null) @@ (oneMore :> 1)

Swap == Permutations({a, b})

=============================================================================
