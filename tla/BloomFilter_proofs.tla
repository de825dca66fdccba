------------------------- MODULE BloomFilter_proofs -------------------------
(* No false negatives, for any words, hash functions and sizes. *)
EXTENDS BloomFilter, TLAPS

LEMMA HashedBits ==
    ASSUME NEW w \in Words
    PROVE  BitsOf(w) \subseteq 0..NumBits - 1
<1>1. Hash[w] \in [1..NumHashes -> 0..NumBits - 1]
  BY HashAssumption
<1>2. \A i \in 1..NumHashes : Hash[w][i] \in 0..NumBits - 1
  BY <1>1
<1> QED
  BY <1>2 DEF BitsOf

(* Where a bit is in the file: packed into bytes and found there again.    *)
LEMMA Position ==
    ASSUME NEW i \in 0..NumBits - 1
    PROVE  /\ i \div 8 \in 0..NumBytes - 1
           /\ i % 8 \in 0..7
           /\ 8 * (i \div 8) + (i % 8) = i
BY SizesAssumption DEF NumBytes

LEMMA NumBytesType == NumBytes \in Nat
BY SizesAssumption DEF NumBytes

LEMMA ByteType ==
    ASSUME TypeOK, NEW pad \in Padding, NEW k \in 0..NumBytes - 1
    PROVE  getByte(pad, k) \in Byte
<1> SUFFICES ASSUME NEW j \in 0..7
             PROVE  (IF 8 * k + j < NumBits THEN bitarray_[8 * k + j] ELSE pad[8 * k + j]) \in Bit
  BY DEF getByte, Byte
<1>1. 8 * k + j \in 0..8 * NumBytes - 1
  BY NumBytesType
<1>2. CASE 8 * k + j < NumBits
  BY <1>1, <1>2, SizesAssumption DEF TypeOK
<1>3. CASE ~(8 * k + j < NumBits)
  BY <1>1, <1>3, SizesAssumption DEF Padding
<1> QED
  BY <1>2, <1>3

(* What a build writes: the header, then every bit in its place.           *)
LEMMA OutputShape ==
    ASSUME TypeOK, NEW pad \in Padding
    PROVE  /\ Output(pad) \in Seq(Byte)
           /\ Len(Output(pad)) = Len(Header) + NumBytes
           /\ \A n \in 1..Len(Header) : Output(pad)[n] = Header[n]
           /\ \A i \in 0..NumBits - 1 :
                 Output(pad)[Len(Header) + 1 + i \div 8][i % 8] = bitarray_[i]
<1> DEFINE bytes == [k \in 1..NumBytes |-> getByte(pad, k - 1)]
<1>1. bytes \in Seq(Byte) /\ Len(bytes) = NumBytes
  <2>1. \A k \in 1..NumBytes : getByte(pad, k - 1) \in Byte
    BY ByteType, NumBytesType
  <2> QED
    BY <2>1, NumBytesType
<1>2. /\ Output(pad) = Header \o bytes
      /\ Output(pad) \in Seq(Byte)
      /\ Len(Output(pad)) = Len(Header) + NumBytes
      /\ \A n \in 1..Len(Header) : Output(pad)[n] = Header[n]
      /\ \A k \in 1..NumBytes : Output(pad)[Len(Header) + k] = bytes[k]
  <2>1. Output(pad) = Header \o bytes
    BY DEF Output
  <2>2. Len(Header) \in Nat /\ NumBytes \in Nat
    BY HeaderAssumption, NumBytesType
  <2> HIDE DEF bytes
  <2>3. Header \o bytes \in Seq(Byte) /\ Len(Header \o bytes) = Len(Header) + NumBytes
    BY <1>1, HeaderAssumption
  <2>4. \A n \in 1..Len(Header) : (Header \o bytes)[n] = Header[n]
    BY <1>1, HeaderAssumption
  <2>5. ASSUME NEW k \in 1..NumBytes PROVE (Header \o bytes)[Len(Header) + k] = bytes[k]
    BY <1>1, <2>2, HeaderAssumption
  <2> QED
    BY <2>1, <2>3, <2>4, <2>5
<1>3. ASSUME NEW i \in 0..NumBits - 1
      PROVE  Output(pad)[Len(Header) + 1 + i \div 8][i % 8] = bitarray_[i]
  <2> DEFINE k == i \div 8
  <2>1. k + 1 \in 1..NumBytes /\ i % 8 \in 0..7 /\ 8 * k + (i % 8) = i /\ k \in Int
    BY Position, NumBytesType
  <2>2. Len(Header) + 1 + k = Len(Header) + (k + 1)
    BY <2>1, HeaderAssumption
  <2>3. bytes[k + 1] = getByte(pad, k)
    BY <2>1
  <2>4. getByte(pad, k)[i % 8] = bitarray_[i]
    <3> HIDE DEF k
    <3> QED
      BY <2>1, SizesAssumption DEF getByte
  <2> HIDE DEF bytes
  <2> QED
    BY <1>2, <2>1, <2>2, <2>3, <2>4
<1> QED
  BY <1>2, <1>3

-----------------------------------------------------------------------------
(* TypeOK is inductive.                                                    *)
LEMMA TypeInit == Init => TypeOK
BY DEF Init, TypeOK, Bit

LEMMA TypeStep == TypeOK /\ [Next]_vars => TypeOK'
<1> SUFFICES ASSUME TypeOK, [Next]_vars PROVE TypeOK'
  OBVIOUS
<1>1. ASSUME NEW d \in SUBSET Words, build(d) PROVE TypeOK'
  BY <1>1 DEF build, TypeOK, Bit
<1>2. ASSUME NEW w \in Words, buildBitArray(w) PROVE TypeOK'
  BY <1>2 DEF buildBitArray, Marked, TypeOK, Bit
<1>3. CASE serialize
  <2>1. PICK pad \in Padding : file' = file \o Output(pad)
    BY <1>3 DEF serialize
  <2>2. file' \in Seq(Byte)
    BY <2>1, OutputShape DEF TypeOK
  <2> QED
    BY <1>3, <2>2 DEF serialize, TypeOK
<1>4. CASE Interrupted
  <2>1. file' \in Seq(Byte)
    <3>1. CASE UNCHANGED file
      BY <3>1 DEF TypeOK
    <3>2. CASE \E pad \in Padding, n \in 1..Len(Header) + NumBytes - 1 :
                  file' = file \o SubSeq(Output(pad), 1, n)
      <4>1. PICK pad \in Padding, n \in 1..Len(Header) + NumBytes - 1 :
                  file' = file \o SubSeq(Output(pad), 1, n)
        BY <3>2
      <4>2. SubSeq(Output(pad), 1, n) \in Seq(Byte)
        BY OutputShape, HeaderAssumption, NumBytesType
      <4> QED
        BY <4>1, <4>2 DEF TypeOK
    <3> QED
      BY <1>4, <3>1, <3>2 DEF Interrupted
  <2> QED
    BY <1>4, <2>1 DEF Interrupted, TypeOK
<1>5. CASE UNCHANGED vars
  BY <1>5 DEF vars, TypeOK
<1> QED
  BY <1>1, <1>2, <1>3, <1>4, <1>5 DEF Next

(* The filter's bits and the bytes of words.bf keep their types, for any   *)
(* number of bits, a multiple of eight or not (buildBitArray, serialize).  *)
THEOREM TypeCorrect == Spec => []TypeOK
BY TypeInit, TypeStep, PTL DEF Spec

-----------------------------------------------------------------------------
(* The bits of the words that a build has read are set ...                 *)
ReadIsMarked ==
    pc = "building" => \A w \in dict \ todo : \A i \in BitsOf(w) : bitarray_[i] = 1

(* ... and those of the words of the first build are set in the file.      *)
Inv == TypeOK /\ ReadIsMarked /\ FirstBuildFound

(* Appending to the file leaves what is loaded from it as it was.          *)
LEMMA AppendKeeps ==
    ASSUME TypeOK, FirstBuildFound, NEW out \in Seq(Byte),
           file' = file \o out, kept' = kept
    PROVE  FirstBuildFound'
<1> SUFFICES ASSUME NEW w \in kept PROVE lookup(w)'
  BY DEF FirstBuildFound
<1>1. lookup(w) /\ w \in Words
  BY DEF FirstBuildFound, TypeOK
<1>2. \A n \in 1..Len(file) : file'[n] = file[n]
  BY DEF TypeOK
<1>3. Len(file') >= Len(file) /\ Len(file) \in Nat /\ Len(Header) \in Nat
  BY HeaderAssumption DEF TypeOK
<1>4. Loadable'
  BY <1>1, <1>2, <1>3, NumBytesType DEF lookup, Loadable
<1>5. ASSUME NEW i \in BitsOf(w) PROVE Loaded(i)' = 1
  <2>1. i \div 8 \in 0..NumBytes - 1
    BY <1>1, HashedBits, Position
  <2>2. Len(Header) + 1 + i \div 8 \in 1..Len(file)
    BY <1>1, <1>3, <2>1, NumBytesType DEF lookup, Loadable
  <2>3. Loaded(i) = 1
    BY <1>1 DEF lookup
  <2> QED
    BY <1>2, <2>2, <2>3 DEF Loaded
<1> QED
  BY <1>4, <1>5 DEF lookup, BitsOf

(* A build that ends on an empty file is the first, and its bits are all   *)
(* in the file; one that ends on another only appends.                     *)
LEMMA SerializeFinds == Inv /\ serialize => FirstBuildFound'
<1> SUFFICES ASSUME Inv, serialize PROVE FirstBuildFound'
  OBVIOUS
<1>1. PICK pad \in Padding : file' = file \o Output(pad)
  BY DEF serialize
<1> DEFINE out == Output(pad)
<1>2. /\ out \in Seq(Byte) /\ Len(out) = Len(Header) + NumBytes
      /\ \A n \in 1..Len(Header) : out[n] = Header[n]
      /\ \A i \in 0..NumBits - 1 :
            out[Len(Header) + 1 + i \div 8][i % 8] = bitarray_[i]
  BY OutputShape DEF Inv
<1> HIDE DEF out
<1>3. CASE file # << >>
  BY <1>1, <1>2, <1>3, AppendKeeps DEF Inv, serialize, out
<1>4. CASE file = << >>
  <2>1. file' = out /\ kept' = dict
    BY <1>1, <1>2, <1>4 DEF serialize, out
  <2>2. Loadable'
    BY <1>2, <2>1, NumBytesType, HeaderAssumption DEF Loadable
  <2>3. ASSUME NEW w \in dict, NEW i \in BitsOf(w) PROVE Loaded(i)' = 1
    <3>1. w \in Words /\ w \in dict \ todo /\ pc = "building"
      BY DEF Inv, TypeOK, serialize
    <3>2. i \in 0..NumBits - 1 /\ bitarray_[i] = 1
      BY <3>1, HashedBits DEF Inv, ReadIsMarked
    <3> QED
      BY <1>2, <2>1, <3>2 DEF Loaded
  <2> QED
    BY <2>1, <2>2, <2>3 DEF FirstBuildFound, lookup, BitsOf
<1> QED
  BY <1>3, <1>4

LEMMA InvInit == Init => Inv
BY TypeInit DEF Init, Inv, ReadIsMarked, FirstBuildFound

LEMMA InvStep == Inv /\ [Next]_vars => Inv'
<1> SUFFICES ASSUME Inv, [Next]_vars PROVE ReadIsMarked' /\ FirstBuildFound'
  BY TypeStep DEF Inv
<1>1. ASSUME UNCHANGED <<file, kept>> PROVE FirstBuildFound'
  BY <1>1 DEF Inv, FirstBuildFound, lookup, Loadable, Loaded, BitsOf
<1>2. ASSUME NEW d \in SUBSET Words, build(d) PROVE ReadIsMarked' /\ FirstBuildFound'
  BY <1>1, <1>2 DEF build, ReadIsMarked
<1>3. ASSUME NEW w \in Words, buildBitArray(w) PROVE ReadIsMarked' /\ FirstBuildFound'
  <2>1. ASSUME NEW v \in dict \ (todo \ {w}), NEW i \in BitsOf(v) PROVE bitarray_'[i] = 1
    <3>1. i \in 0..NumBits - 1
      BY HashedBits DEF Inv, TypeOK
    <3>2. i \in BitsOf(w) \/ bitarray_[i] = 1
      BY <1>3 DEF Inv, ReadIsMarked, buildBitArray
    <3> QED
      BY <1>3, <3>1, <3>2 DEF buildBitArray, Marked
  <2> QED
    BY <1>1, <1>3, <2>1 DEF buildBitArray, ReadIsMarked, BitsOf
<1>4. CASE serialize
  BY <1>4, SerializeFinds DEF serialize, ReadIsMarked
<1>5. CASE Interrupted
  <2>1. ReadIsMarked' /\ kept' = kept
    BY <1>5 DEF Interrupted, ReadIsMarked
  <2>2. CASE UNCHANGED file
    BY <1>1, <2>1, <2>2
  <2>3. CASE \E pad \in Padding, n \in 1..Len(Header) + NumBytes - 1 :
                file' = file \o SubSeq(Output(pad), 1, n)
    <3>1. PICK pad \in Padding, n \in 1..Len(Header) + NumBytes - 1 :
                file' = file \o SubSeq(Output(pad), 1, n)
      BY <2>3
    <3>2. SubSeq(Output(pad), 1, n) \in Seq(Byte)
      BY OutputShape, HeaderAssumption, NumBytesType DEF Inv
    <3> QED
      BY <2>1, <3>1, <3>2, AppendKeeps DEF Inv
  <2> QED
    BY <1>5, <2>1, <2>2, <2>3 DEF Interrupted
<1>6. CASE UNCHANGED vars
  BY <1>1, <1>6 DEF vars, Inv, ReadIsMarked, BitsOf
<1> QED
  BY <1>2, <1>3, <1>4, <1>5, <1>6 DEF Next

(* No false negatives: whatever the hash functions, the number of bits and *)
(* the padding, the words of the build at the head of words.bf are found   *)
(* by lookup after any number of builds, complete or not (BloomFilter.h).  *)
THEOREM NoFalseNegatives == Spec => []FirstBuildFound
<1>1. Spec => []Inv
  BY InvInit, InvStep, PTL DEF Spec
<1>2. Inv => FirstBuildFound
  BY DEF Inv
<1> QED
  BY <1>1, <1>2, PTL

=============================================================================
