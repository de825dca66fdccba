----------------------------- MODULE BloomFilter -----------------------------
(***************************************************************************)
(* The spell checker ccspell: a Bloom filter that one process builds from  *)
(* the dictionary and writes to words.bf, and that later processes load    *)
(* from there.  Words are names, a hash function is any function to bits.  *)
(***************************************************************************)
EXTENDS Integers, Sequences

CONSTANTS
    Words,
    NumBits, NumHashes,
    Hash,     \* of a word: the bits fnv1() and its iterates lead to
    Header,   \* the bytes of the header: CCBF, version, hashes, bits
    MaxFile   \* bound of the model on the bytes of words.bf

Bit == {0, 1}

(* From the highest bit to the lowest                                      *)
Byte == [0..7 -> Bit]

ASSUME SizesAssumption ==
    NumBits \in Nat \ {0} /\ NumHashes \in Nat \ {0} /\ MaxFile \in Nat

ASSUME HashAssumption == Hash \in [Words -> [1..NumHashes -> 0..NumBits - 1]]

ASSUME HeaderAssumption == Header \in Seq(Byte)

VARIABLES
    pc,        \* "idle", "building"
    dict,      \* dict.txt, as the build reads it
    todo,      \* lines that it has yet to read
    bitarray_,
    file,      \* words.bf, empty where there is none
    kept       \* for the property: the words of the build that wrote the head of file

vars == <<pc, dict, todo, bitarray_, file, kept>>

(* Type invariant. *)
TypeOK ==
    /\ pc \in {"idle", "building"}
    /\ dict \in SUBSET Words /\ todo \in SUBSET dict
    /\ bitarray_ \in [0..NumBits - 1 -> Bit]
    /\ file \in Seq(Byte)
    /\ kept \in SUBSET Words

-----------------------------------------------------------------------------
build(d) ==
    /\ pc = "idle"
    /\ pc' = "building" /\ dict' = d /\ todo' = d
    /\ bitarray_' = [i \in 0..NumBits - 1 |-> 0]
    /\ UNCHANGED <<file, kept>>

BitsOf(w) == {Hash[w][i] : i \in 1..NumHashes}

(* Mutant: the filter counts, as one that supports deletion does. *)
Counted(i, w) == IF i \in BitsOf(w) THEN bitarray_[i] + 1 ELSE bitarray_[i]

Marked(i, w) == IF i \in BitsOf(w) THEN 1 ELSE bitarray_[i]

buildBitArray(w) ==
    /\ pc = "building" /\ w \in todo
    /\ bitarray_' = [i \in 0..NumBits - 1 |-> Marked(i, w)]
    /\ todo' = todo \ {w}
    /\ UNCHANGED <<pc, dict, file, kept>>

NumBytes == (NumBits + 7) \div 8

(* getByte() reads up to seven bits behind the array, which can be any.    *)
Padding == [NumBits..8 * NumBytes - 1 -> Bit]

(* Mutant: the bits are shifted in from the lowest. *)
LowestFirst(pad, k) ==
    [j \in 0..7 |-> LET i == 8 * k + 7 - j IN IF i < NumBits THEN bitarray_[i] ELSE pad[i]]

getByte(pad, k) ==
    [j \in 0..7 |-> LET i == 8 * k + j IN IF i < NumBits THEN bitarray_[i] ELSE pad[i]]

Output(pad) == Header \o [k \in 1..NumBytes |-> getByte(pad, k - 1)]

(* words.bf is opened with ios::app.                                       *)
serialize ==
    /\ pc = "building" /\ todo = {}
    /\ Len(file) + Len(Header) + NumBytes <= MaxFile
    /\ \E pad \in Padding : file' = file \o Output(pad)
    /\ kept' = IF file = << >> THEN dict ELSE kept
    /\ pc' = "idle"
    /\ UNCHANGED <<dict, todo, bitarray_>>

(* The process ends before it has written all, or anything.                *)
Interrupted ==
    /\ pc = "building"
    /\ \/ UNCHANGED file
       \/ /\ todo = {}
          /\ \E pad \in Padding, n \in 1..Len(Header) + NumBytes - 1 :
                /\ Len(file) + n <= MaxFile
                /\ file' = file \o SubSeq(Output(pad), 1, n)
    /\ pc' = "idle"
    /\ UNCHANGED <<dict, todo, bitarray_, kept>>

Init ==
    /\ pc = "idle"
    /\ dict = {} /\ todo = {}
    /\ bitarray_ = [i \in 0..NumBits - 1 |-> 0]
    /\ file = << >>
    /\ kept = {}

Next ==
    \/ \E d \in SUBSET Words : build(d)
    \/ \E w \in Words : buildBitArray(w)
    \/ serialize
    \/ Interrupted

Spec == Init /\ [][Next]_vars

-----------------------------------------------------------------------------
(* unserialize(): the header at the start, then all bytes there are; what  *)
(* lies behind the first NumBits bits is loaded and never looked at.       *)
Loadable ==
    /\ Len(file) >= Len(Header) + NumBytes
    /\ \A n \in 1..Len(Header) : file[n] = Header[n]

Loaded(i) == file[Len(Header) + 1 + i \div 8][i % 8]

lookup(w) == Loadable /\ \A i \in BitsOf(w) : Loaded(i) = 1

(* "false negatives are not [possible]": the words of the build that wrote *)
(* the head of words.bf are found, whatever later builds append to it,     *)
(* interrupted or not, and whatever the padding (serialize, unserialize).  *)
FirstBuildFound == \A w \in kept : lookup(w)

=============================================================================
