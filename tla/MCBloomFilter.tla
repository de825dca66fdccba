---------------------------- MODULE MCBloomFilter ----------------------------
EXTENDS BloomFilter, TLC

CONSTANTS cat, dog

(* The words share a bit; the second byte of the array has two bits of     *)
(* padding.                                                                *)
MCHash == cat :> <<0, 9>> @@ dog :> <<9, 3>>

MCHeader == <<[j \in 0..7 |-> j % 2], [j \in 0..7 |-> 0]>>

=============================================================================
