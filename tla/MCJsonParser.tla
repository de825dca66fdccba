---------------------------- MODULE MCJsonParser ----------------------------
(* Two keys; the bound on depth is that of three arrays in one another.    *)
EXTENDS JsonParser, TLC

CONSTANTS k1, k2

Keys == Permutations({k1, k2})

=============================================================================
