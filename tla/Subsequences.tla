---------------------------- MODULE Subsequences ----------------------------
(***************************************************************************)
(* What std::remove_if and erase leave of a vector, as a function by       *)
(* recursion on the prefixes of the sequence, and what the proofs need to  *)
(* know of it.  SelectSeq of the Sequences module is the same, but has no  *)
(* definition the provers can see.                                         *)
(***************************************************************************)
EXTENDS Integers, Sequences

(* The elements of s that are in Keep, in their order                      *)
Filter(s, Keep) ==
    LET kept[n \in 0..Len(s)] ==
            IF n = 0 THEN << >>
            ELSE IF s[n] \in Keep THEN Append(kept[n - 1], s[n]) ELSE kept[n - 1]
    IN  kept[Len(s)]

=============================================================================
