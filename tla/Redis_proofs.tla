---------------------------- MODULE Redis_proofs ----------------------------
(* ccredis, from the wire to the database.                                 *)
(*   - A command keeps its types through all visits, and a SET its first   *)
(*     two texts.  The database keeps its types and implements the         *)
(*     abstract store.                                                     *)
(*   - The connections: types, no torn text in the map, no abort on whole  *)
(*     requests of strings, each client told what it asked for, and no     *)
(*     reply read as another one.                                          *)
(* Lemmas about the decoder come first, in the order of what they need:    *)
(* digits, lengths, parts of a message, calls of decode(), requests as     *)
(* they are written.  Those about what the decoder makes of a request      *)
(* follow the types of the connection.                                     *)
EXTENDS RedisConnection, Subsequences_proofs, SequenceTheorems, TLAPS

-----------------------------------------------------------------------------
(* Digits: from_chars                                                      *)

(* The bytes that are digits                                               *)
Digits == Range(DigitNames)

(* The ten digits, their values, and the bytes that are none               *)
LEMMA DigitFacts ==
    /\ DOMAIN DigitValue = Digits
    /\ \A i \in 0..9 : DigitNames[i + 1] \in Digits /\ DigitValue[DigitNames[i + 1]] = i
    /\ \A d \in Digits : DigitValue[d] \in 0..9
    /\ CR \notin Digits /\ LF \notin Digits
    /\ "NUL" \notin Digits /\ "-" \notin Digits /\ "$" \notin Digits /\ "+" \notin Digits
    /\ "byte" \notin Digits
<1>1. DOMAIN DigitNames = 1..10 /\ Len(DigitNames) = 10
  BY DEF DigitNames
<1>2. Digits = {DigitNames[i] : i \in 1..10}
  BY <1>1 DEF Digits, Range
<1>3. Digits = {"0", "1", "2", "3", "4", "5", "6", "7", "8", "9"}
  BY <1>2 DEF DigitNames
<1>4. \A i, j \in 0..9 : DigitNames[i + 1] = DigitNames[j + 1] => i = j
  BY DEF DigitNames
<1>5. \A i \in 0..9 : DigitNames[i + 1] \in Digits
  BY <1>2
<1>6. \A d \in Digits : \E i \in 0..9 : DigitNames[i + 1] = d
  <2> TAKE d \in Digits
  <2>1. PICK j \in 1..10 : DigitNames[j] = d
    BY <1>2
  <2>2. j - 1 \in 0..9 /\ (j - 1) + 1 = j
    OBVIOUS
  <2> QED
    BY <2>1, <2>2
<1>7. DOMAIN DigitValue = Digits /\ \A d \in Digits : DigitValue[d] = CHOOSE i \in 0..9 : DigitNames[i + 1] = d
  BY DEF DigitValue, Digits
<1>8. \A d \in Digits : DigitValue[d] \in 0..9 /\ DigitNames[DigitValue[d] + 1] = d
  BY <1>6, <1>7
<1>9. \A i \in 0..9 : DigitValue[DigitNames[i + 1]] = i
  BY <1>4, <1>5, <1>8
<1>10. /\ CR \notin Digits /\ LF \notin Digits
       /\ "NUL" \notin Digits /\ "-" \notin Digits /\ "$" \notin Digits /\ "+" \notin Digits
       /\ "byte" \notin Digits
  BY <1>3 DEF CR, LF
<1> QED
  BY <1>5, <1>7, <1>8, <1>9, <1>10

-----------------------------------------------------------------------------
(* Induction up to m: T has all numbers of which something holds.          *)
LEMMA Induct ==
    ASSUME NEW m \in Nat, NEW T, 0 \in T, \A i \in 1..m : i - 1 \in T => i \in T
    PROVE  \A i \in 0..m : i \in T
<1> DEFINE U == {i \in 0..m : i \notin T}
<1>1. SUFFICES ASSUME U # {} PROVE FALSE
  OBVIOUS
<1>2. PICK n \in U : \A k \in U : n <= k
  <2>1. U \subseteq Nat
    OBVIOUS
  <2> HIDE DEF U
  <2> QED  BY <1>1, <2>1, LeastElement
<1>3. n \in 0..m /\ n \notin T /\ n # 0
  OBVIOUS
<1>4. n \in 1..m /\ n - 1 \in 0..m /\ ~(n <= n - 1)
  BY <1>3
<1>5. n - 1 \notin U
  BY <1>2, <1>4
<1> QED
  BY <1>3, <1>4, <1>5

(* The first m values of a function that is given by recursion             *)
Steps(f, a, next, m) == f[0] = a /\ \A i \in 1..m : f[i] = next[<<i, f[i - 1]>>]

(* A function by recursion on the numbers up to m                          *)
LEMMA StepsExist ==
    ASSUME NEW S, NEW a \in S, NEW m \in Nat, NEW next \in [(1..m) \X S -> S]
    PROVE  \E f \in [0..m -> S] : Steps(f, a, next, m)
<1> DEFINE Exists(n) == \E f \in [0..n -> S] : Steps(f, a, next, n)
           T == {n \in 0..m : Exists(n)}
<1>1. 0 \in T
  <2> DEFINE f == [i \in 0..0 |-> a]
  <2>1. f \in [0..0 -> S] /\ Steps(f, a, next, 0)
    BY DEF Steps
  <2>2. Exists(0)
    BY <2>1
  <2> HIDE DEF Exists
  <2> QED
    BY <2>2
<1>2. ASSUME NEW n \in 1..m, n - 1 \in T PROVE n \in T
  <2>1. n - 1 \in Nat
    OBVIOUS
  <2>3. PICK g \in [0..n - 1 -> S] : Steps(g, a, next, n - 1)
    BY <1>2
  <2> DEFINE f == [i \in 0..n |-> IF i = n THEN next[<<n, g[n - 1]>>] ELSE g[i]]
  <2>4. g[n - 1] \in S /\ n \in 1..m
    BY <2>1, <2>3
  <2>5. next[<<n, g[n - 1]>>] \in S
    BY <2>4
  <2>6. \A i \in 0..n - 1 : f[i] = g[i] /\ i # n
    BY <2>1
  <2>7. f \in [0..n -> S]
    BY <2>1, <2>3, <2>5
  <2>8. f[0] = a
    BY <2>1, <2>3, <2>6 DEF Steps
  <2>9. \A i \in 1..n : f[i] = next[<<i, f[i - 1]>>]
    <3> TAKE i \in 1..n
    <3>1. CASE i = n
      <4>1. n - 1 \in 0..n - 1 /\ n \in 0..n
        BY <2>1
      <4>2. f[n] = next[<<n, g[n - 1]>>] /\ f[n - 1] = g[n - 1]
        BY <4>1, <2>6
      <4> HIDE DEF f
      <4> QED
        BY <4>2, <3>1
    <3>2. CASE i # n
      <4>1. i \in 1..n - 1 /\ i \in 0..n - 1 /\ i - 1 \in 0..n - 1
        BY <2>1, <3>2
      <4> HIDE DEF f
      <4> QED
        BY <4>1, <2>3, <2>6 DEF Steps
    <3> QED
      BY <3>1, <3>2
  <2> HIDE DEF f
  <2>10. Exists(n)
    BY <2>7, <2>8, <2>9 DEF Steps
  <2> HIDE DEF Exists
  <2> QED
    BY <2>10
<1> HIDE DEF Exists, T
<1>3. m \in T
  BY <1>1, <1>2, Induct
<1> QED
  BY <1>3 DEF T, Exists

-----------------------------------------------------------------------------
(* Where the run of digits ends (from_chars)                               *)
LEMMA DigitsEndIs ==
    ASSUME NEW s, Len(s) \in Nat, NEW at \in Nat, NEW end \in at..Len(s),
           Byte(s, end) \notin Digits, \A i \in at..end - 1 : Byte(s, i) \in Digits
    PROVE  DigitsEnd(s, at) = end
<1> DEFINE P(e) == /\ Byte(s, e) \notin DOMAIN DigitValue
                   /\ \A i \in at..e - 1 : Byte(s, i) \in DOMAIN DigitValue
<1>1. P(end)
  BY DigitFacts
<1>2. ASSUME NEW e \in at..Len(s), P(e) PROVE e = end
  <2>1. CASE e < end
    BY <1>1, <1>2, <2>1
  <2>2. CASE end < e
    BY <1>1, <1>2, <2>2
  <2> QED
    BY <2>1, <2>2
<1> HIDE DEF P
<1>3. (CHOOSE e \in at..Len(s) : P(e)) = end
  BY <1>1, <1>2
<1> QED
  BY <1>3 DEF DigitsEnd, P

(* It ends within the piece it was given.                                  *)
LEMMA DigitsEndType ==
    ASSUME NEW s, Len(s) \in Nat, NEW at \in Nat, at <= Len(s)
    PROVE  /\ DigitsEnd(s, at) \in at..Len(s)
           /\ \A i \in at..DigitsEnd(s, at) - 1 : Byte(s, i) \in Digits
<1> DEFINE T == {i \in at..Len(s) : Byte(s, i) \notin Digits}
<1>1. Len(s) \in T
  BY DigitFacts DEF Byte
<1>2. PICK end \in T : \A i \in T : end <= i
  <2>1. T \subseteq Nat /\ T # {}
    BY <1>1
  <2> HIDE DEF T
  <2> QED
    BY <2>1, LeastElement
<1>3. \A i \in at..end - 1 : Byte(s, i) \in Digits
  BY <1>2
<1>4. DigitsEnd(s, at) = end
  BY <1>2, <1>3, DigitsEndIs
<1> QED
  BY <1>2, <1>3, <1>4

(* What the first digits make, read one more at a time                     *)
IsRead(read, s, at, m) ==
    read = [n \in 0..m |->
               IF n = 0 THEN 0 ELSE 10 * read[n - 1] + DigitValue[Byte(s, at + n - 1)]]

(* The number that the first digits make                                   *)
LEMMA ReadExists ==
    ASSUME NEW s, NEW at \in Nat, NEW m \in Nat,
           \A i \in at..at + m - 1 : Byte(s, i) \in Digits
    PROVE  \E read \in [0..m -> Nat] : IsRead(read, s, at, m)
<1> DEFINE digit(n) == DigitValue[Byte(s, at + n - 1)]
           next == [x \in (1..m) \X Nat |-> 10 * x[2] + digit(x[1])]
<1>1. \A n \in 1..m : digit(n) \in 0..9
  <2> TAKE n \in 1..m
  <2>1. at + n - 1 \in at..at + m - 1
    OBVIOUS
  <2> QED
    BY <2>1, DigitFacts
<1> HIDE DEF digit
<1>2. next \in [(1..m) \X Nat -> Nat]
  <2>1. \A n \in 1..m, v \in Nat : 10 * v + digit(n) \in Nat
    BY <1>1
  <2> QED
    BY <2>1
<1>3. \A n \in 1..m, v \in Nat : next[<<n, v>>] = 10 * v + digit(n)
  OBVIOUS
<1> HIDE DEF next
<1>4. PICK f \in [0..m -> Nat] : Steps(f, 0, next, m)
  BY <1>2, StepsExist
<1>5. \A n \in 1..m : f[n] = 10 * f[n - 1] + digit(n)
  <2> TAKE n \in 1..m
  <2>1. f[n - 1] \in Nat /\ f[n] = next[<<n, f[n - 1]>>]
    BY <1>4 DEF Steps
  <2> QED
    BY <2>1, <1>3
<1>6. f[0] = 0
  BY <1>4 DEF Steps
<1>7. \A n \in 0..m : f[n] = IF n = 0 THEN 0 ELSE 10 * f[n - 1] + digit(n)
  BY <1>5, <1>6
<1>8. f = [n \in 0..m |-> IF n = 0 THEN 0 ELSE 10 * f[n - 1] + digit(n)]
  BY <1>7
<1> QED
  BY <1>8 DEF IsRead, digit

(* What from_chars makes of the digits: one after the other from the left. *)
LEMMA NumberRead ==
    ASSUME NEW s, Len(s) \in Nat, NEW at \in Nat, at <= Len(s),
           NEW m, m = DigitsEnd(s, at) - at
    PROVE  /\ m = 0 => Number(s, at) = npos
           /\ m # 0 => \E read \in [0..m -> Nat] :
                 /\ read[0] = 0 /\ Number(s, at) = read[m]
                 /\ \A n \in 1..m : read[n] = 10 * read[n - 1] + DigitValue[Byte(s, at + n - 1)]
<1> DEFINE read == CHOOSE read : IsRead(read, s, at, m)
<1>1. Number(s, at) = IF m = 0 THEN npos ELSE read[m]
  BY DEF Number, IsRead
<1>2. m \in Nat /\ \A i \in at..at + m - 1 : Byte(s, i) \in Digits
  <2>1. DigitsEnd(s, at) \in at..Len(s)
    BY DigitsEndType
  <2>2. m \in Nat /\ at + m = DigitsEnd(s, at)
    BY <2>1
  <2> QED
    BY <2>2, DigitsEndType
<1>3. IsRead(read, s, at, m)
  BY <1>2, ReadExists
<1> HIDE DEF read
<1>4. /\ read = [n \in 0..m |-> read[n]] /\ read[0] = 0
      /\ \A n \in 1..m : read[n] = 10 * read[n - 1] + DigitValue[Byte(s, at + n - 1)]
  <2>1. \A n \in 0..m : read[n] = IF n = 0 THEN 0
                                  ELSE 10 * read[n - 1] + DigitValue[Byte(s, at + n - 1)]
    BY <1>3 DEF IsRead
  <2>2. read = [n \in 0..m |-> read[n]]
    BY <1>3 DEF IsRead
  <2> QED
    BY <1>2, <2>1, <2>2
<1> DEFINE T == {n \in 0..m : read[n] \in Nat}
<1>5. \A n \in 0..m : n \in T
  <2>1. 0 \in T
    BY <1>2, <1>4
  <2>2. ASSUME NEW n \in 1..m, n - 1 \in T PROVE n \in T
    <3>1. at + n - 1 \in at..at + m - 1
      BY <1>2
    <3>2. DigitValue[Byte(s, at + n - 1)] \in 0..9
      BY <1>2, <3>1, DigitFacts
    <3>3. n \in Nat /\ n \in 0..m /\ read[n - 1] \in Nat
      BY <1>2, <2>2
    <3>4. \A x \in Nat, d \in 0..9 : 10 * x + d \in Nat
      OBVIOUS
    <3>5. 10 * read[n - 1] + DigitValue[Byte(s, at + n - 1)] \in Nat
      BY ONLY <3>2, <3>3, <3>4
    <3> QED
      BY <1>4, <2>2, <3>3, <3>5
  <2> HIDE DEF T
  <2> QED
    BY <1>2, <2>1, <2>2, Induct
<1>6. read \in [0..m -> Nat]
  BY <1>4, <1>5
<1> QED
  BY <1>1, <1>4, <1>6

(* A length that was read is npos or small, never negative.                *)
LEMMA NumberType ==
    ASSUME NEW s, Len(s) \in Nat, NEW at \in Nat, at <= Len(s)
    PROVE  Number(s, at) \in Nat \cup {npos}
<1> DEFINE m == DigitsEnd(s, at) - at
<1>1. m \in Nat
  BY DigitsEndType
<1> HIDE DEF m
<1>2. CASE m = 0
  BY <1>2, NumberRead DEF m
<1>3. CASE m # 0
  <2>1. PICK read \in [0..m -> Nat] : Number(s, at) = read[m]
    BY <1>3, NumberRead DEF m
  <2> QED
    BY <1>1, <2>1
<1> QED
  BY <1>2, <1>3

-----------------------------------------------------------------------------
(* Numbers as they are written                                             *)

(* The digit of n at a decimal place                                       *)
DigitAt(n, unit) == (n \div unit) % 10

(* A decimal place holds a digit.                                          *)
LEMMA DigitAtType ==
    ASSUME NEW n \in Nat, n <= 9999, NEW u \in {1, 10, 100, 1000}
    PROVE  DigitAt(n, u) \in 0..9
BY DEF DigitAt

(* A number is the sum of its decimal places.                              *)
LEMMA DecimalArithmetic ==
    ASSUME NEW n \in Nat, n <= 9999
    PROVE  /\ n < 10 => n = DigitAt(n, 1)
           /\ 10 <= n /\ n < 100 => n = 10 * DigitAt(n, 10) + DigitAt(n, 1)
           /\ 100 <= n /\ n < 1000 => n = 10 * (10 * DigitAt(n, 100) + DigitAt(n, 10)) + DigitAt(n, 1)
           /\ n = 10 * (10 * (10 * DigitAt(n, 1000) + DigitAt(n, 100)) + DigitAt(n, 10)) + DigitAt(n, 1)
<1>2. n < 10 => n = DigitAt(n, 1)
  BY DEF DigitAt
<1>3. 10 <= n /\ n < 100 => n = 10 * DigitAt(n, 10) + DigitAt(n, 1)
  BY DEF DigitAt
<1>4. 100 <= n /\ n < 1000 => n = 10 * (10 * DigitAt(n, 100) + DigitAt(n, 10)) + DigitAt(n, 1)
  BY DEF DigitAt
<1>5. n = 10 * (10 * (10 * DigitAt(n, 1000) + DigitAt(n, 100)) + DigitAt(n, 10)) + DigitAt(n, 1)
  BY DEF DigitAt
<1> QED
  BY <1>2, <1>3, <1>4, <1>5

(* Reading digits from the left                                            *)
Reads(read, w) ==
    read[0] = 0 /\ \A k \in 1..Len(w) : read[k] = 10 * read[k - 1] + DigitValue[w[k]]

(* A length as to_string writes it: from_chars reads it back.              *)
LEMMA DecimalIs ==
    ASSUME NEW n \in Nat, n <= 9999
    PROVE  /\ Decimal(n) \in Seq(Digits) /\ Len(Decimal(n)) \in 1..4
           /\ \A read : Reads(read, Decimal(n)) => read[Len(Decimal(n))] = n
<1> DEFINE d(u) == DigitNames[1 + DigitAt(n, u)]
<1>1. \A u \in {1, 10, 100, 1000} : d(u) \in Digits /\ DigitValue[d(u)] = DigitAt(n, u) /\ DigitAt(n, u) \in Nat
  <2> TAKE u \in {1, 10, 100, 1000}
  <2>1. \A i \in 0..9 : 1 + i = i + 1
    OBVIOUS
  <2>2. DigitAt(n, u) \in 0..9
    BY DigitAtType
  <2>3. 1 + DigitAt(n, u) = DigitAt(n, u) + 1
    BY <2>1, <2>2
  <2> QED
    BY <2>2, <2>3, DigitFacts
<1>2. /\ n < 10 => Decimal(n) = <<d(1)>>
      /\ 10 <= n /\ n < 100 => Decimal(n) = <<d(10), d(1)>>
      /\ 100 <= n /\ n < 1000 => Decimal(n) = <<d(100), d(10), d(1)>>
      /\ 1000 <= n => Decimal(n) = <<d(1000), d(100), d(10), d(1)>>
  <2>1. Decimal(n) = CASE n < 10 -> <<d(1)>>
                       [] 10 <= n /\ n < 100 -> <<d(10), d(1)>>
                       [] 100 <= n /\ n < 1000 -> <<d(100), d(10), d(1)>>
                       [] OTHER -> <<d(1000), d(100), d(10), d(1)>>
    BY DEF Decimal, DigitAt
  <2> HIDE DEF d
  <2>2. ASSUME n < 10 PROVE Decimal(n) = <<d(1)>>
    <3>1. ~(10 <= n /\ n < 100) /\ ~(100 <= n /\ n < 1000)
      BY <2>2
    <3> QED
      BY <2>1, <2>2, <3>1
  <2>3. ASSUME 10 <= n /\ n < 100 PROVE Decimal(n) = <<d(10), d(1)>>
    <3>1. ~(n < 10) /\ ~(100 <= n /\ n < 1000)
      BY <2>3
    <3> QED
      BY <2>1, <2>3, <3>1
  <2>4. ASSUME 100 <= n /\ n < 1000 PROVE Decimal(n) = <<d(100), d(10), d(1)>>
    <3>1. ~(n < 10) /\ ~(10 <= n /\ n < 100)
      BY <2>4
    <3> QED
      BY <2>1, <2>4, <3>1
  <2>5. ASSUME 1000 <= n PROVE Decimal(n) = <<d(1000), d(100), d(10), d(1)>>
    <3>1. ~(n < 10) /\ ~(10 <= n /\ n < 100) /\ ~(100 <= n /\ n < 1000)
      BY <2>5
    <3> QED
      BY <2>1, <3>1
  <2> QED
    BY <2>2, <2>3, <2>4, <2>5
<1> HIDE DEF d
<1> DEFINE Sums(read) == \A k \in 1..Len(Decimal(n)) : read[k] = 10 * read[k - 1] + DigitValue[Decimal(n)[k]]
<1>3. CASE n < 10
  <2>1. Decimal(n) = <<d(1)>>
    BY <1>2, <1>3
  <2>2. Decimal(n) \in Seq(Digits) /\ Len(Decimal(n)) = 1 /\ Decimal(n)[1] = d(1)
    BY <1>1, <2>1
  <2>3. ASSUME NEW read, read[0] = 0, Sums(read) PROVE read[Len(Decimal(n))] = n
    <3>1. read[1] = 10 * read[0] + DigitAt(n, 1)
      BY <1>1, <2>2, <2>3
    <3>10. n = DigitAt(n, 1)
      BY <1>3, DecimalArithmetic
    <3>11. read[1] = DigitAt(n, 1)
      BY <1>1, <2>3, <3>1
    <3> QED
      BY <2>2, <3>10, <3>11
  <2> QED
    BY <2>2, <2>3 DEF Reads
<1>4. CASE 10 <= n /\ n < 100
  <2>1. Decimal(n) = <<d(10), d(1)>>
    BY <1>2, <1>4
  <2>2. Decimal(n) \in Seq(Digits) /\ Len(Decimal(n)) = 2 /\ Decimal(n)[1] = d(10) /\ Decimal(n)[2] = d(1)
    BY <1>1, <2>1
  <2>3. ASSUME NEW read, read[0] = 0, Sums(read) PROVE read[Len(Decimal(n))] = n
    <3>1. read[1] = 10 * read[0] + DigitAt(n, 10)
      BY <1>1, <2>2, <2>3
    <3>2. read[2] = 10 * read[1] + DigitAt(n, 1)
      BY <1>1, <2>2, <2>3
    <3>10. n = 10 * DigitAt(n, 10) + DigitAt(n, 1)
      BY <1>4, DecimalArithmetic
    <3>11. read[1] = DigitAt(n, 10)
      BY <1>1, <2>3, <3>1
    <3> QED
      BY <2>2, <3>2, <3>10, <3>11
  <2> QED
    BY <2>2, <2>3 DEF Reads
<1>5. CASE 100 <= n /\ n < 1000
  <2>1. Decimal(n) = <<d(100), d(10), d(1)>>
    BY <1>2, <1>5
  <2>2. /\ Decimal(n) \in Seq(Digits) /\ Len(Decimal(n)) = 3
        /\ Decimal(n)[1] = d(100) /\ Decimal(n)[2] = d(10) /\ Decimal(n)[3] = d(1)
    BY <1>1, <2>1
  <2>3. ASSUME NEW read, read[0] = 0, Sums(read) PROVE read[Len(Decimal(n))] = n
    <3>1. read[1] = 10 * read[0] + DigitAt(n, 100)
      BY <1>1, <2>2, <2>3
    <3>2. read[2] = 10 * read[1] + DigitAt(n, 10)
      BY <1>1, <2>2, <2>3
    <3>3. read[3] = 10 * read[2] + DigitAt(n, 1)
      BY <1>1, <2>2, <2>3
    <3>10. n = 10 * (10 * DigitAt(n, 100) + DigitAt(n, 10)) + DigitAt(n, 1)
      BY <1>5, DecimalArithmetic
    <3>11. read[1] = DigitAt(n, 100)
      BY <1>1, <2>3, <3>1
    <3> QED
      BY <2>2, <3>2, <3>3, <3>10, <3>11
  <2> QED
    BY <2>2, <2>3 DEF Reads
<1>6. CASE 1000 <= n
  <2>1. Decimal(n) = <<d(1000), d(100), d(10), d(1)>>
    BY <1>2, <1>6
  <2>2. /\ Decimal(n) \in Seq(Digits) /\ Len(Decimal(n)) = 4
        /\ Decimal(n)[1] = d(1000) /\ Decimal(n)[2] = d(100)
        /\ Decimal(n)[3] = d(10) /\ Decimal(n)[4] = d(1)
    BY <1>1, <2>1
  <2>3. ASSUME NEW read, read[0] = 0, Sums(read) PROVE read[Len(Decimal(n))] = n
    <3>1. read[1] = 10 * read[0] + DigitAt(n, 1000)
      BY <1>1, <2>2, <2>3
    <3>2. read[2] = 10 * read[1] + DigitAt(n, 100)
      BY <1>1, <2>2, <2>3
    <3>3. read[3] = 10 * read[2] + DigitAt(n, 10)
      BY <1>1, <2>2, <2>3
    <3>4. read[4] = 10 * read[3] + DigitAt(n, 1)
      BY <1>1, <2>2, <2>3
    <3>10. n = 10 * (10 * (10 * DigitAt(n, 1000) + DigitAt(n, 100)) + DigitAt(n, 10)) + DigitAt(n, 1)
      BY <1>6, DecimalArithmetic
    <3>11. read[1] = DigitAt(n, 1000)
      BY <1>1, <2>3, <3>1
    <3> QED
      BY <2>2, <3>2, <3>3, <3>4, <3>10, <3>11
  <2> QED
    BY <2>2, <2>3 DEF Reads
<1> QED
  BY <1>3, <1>4, <1>5, <1>6

-----------------------------------------------------------------------------
(* Parts of a message                                                      *)

(* What two sequences are together                                         *)
LEMMA Concat ==
    ASSUME NEW S, NEW u \in Seq(S), NEW v \in Seq(S)
    PROVE  /\ u \o v \in Seq(S) /\ Len(u \o v) = Len(u) + Len(v)
           /\ \A i \in 1..Len(u) : (u \o v)[i] = u[i]
           /\ \A i \in 1..Len(v) : (u \o v)[Len(u) + i] = v[i]
OBVIOUS

(* A piece of a sequence, behind its first a elements                      *)
IsPiece(p, q, a, b, S) ==
    /\ p \in Seq(S) /\ Len(p) = b - a /\ Len(p) \in Nat
    /\ \A i \in 1..b - a : p[i] = q[a + i]

(* What a piece of a sequence is, element by element                       *)
LEMMA PieceIs ==
    ASSUME NEW S, NEW q \in Seq(S), NEW a \in Nat, NEW b \in Nat, a <= b, b <= Len(q),
           NEW p, p = SubSeq(q, a + 1, b)
    PROVE  IsPiece(p, q, a, b, S)
<1>1. \A i \in a + 1..b : q[i] \in S
  <2>1. \A i \in 1..Len(q) : q[i] \in S
    OBVIOUS
  <2>2. \A i \in a + 1..b : i \in 1..Len(q)
    OBVIOUS
  <2> QED
    BY ONLY <2>1, <2>2
<1>2. a + 1 \in Int /\ b \in Int
  OBVIOUS
<1>3. /\ p \in Seq(S) /\ Len(p) = IF a + 1 <= b THEN b - (a + 1) + 1 ELSE 0
      /\ \A i \in 1..b - (a + 1) + 1 : p[i] = q[(a + 1) + i - 1]
  BY <1>1, <1>2, SubSeqProperties
<1>4. Len(p) = b - a
  BY ONLY <1>3, a \in Nat, b \in Nat, a <= b
<1>5. \A i \in 1..b - a : i \in 1..b - (a + 1) + 1 /\ (a + 1) + i - 1 = a + i
  OBVIOUS
<1>6. \A i \in 1..b - a : p[i] = q[a + i]
  BY ONLY <1>3, <1>5
<1>7. b - a \in Nat
  OBVIOUS
<1> QED
  BY ONLY <1>3, <1>4, <1>6, <1>7 DEF IsPiece

(* Sequences that can be joined, kept whole for the provers                *)
PartsOf(S) == Seq(Seq(S))

(* The first k parts together, for each k                                  *)
IsJoined(upTo, parts) ==
    upTo = [k \in 0..Len(parts) |-> IF k = 0 THEN << >> ELSE upTo[k - 1] \o parts[k]]

(* The first parts together, one more at a time                            *)
LEMMA JoinedIs ==
    ASSUME NEW S, NEW parts \in PartsOf(S)
    PROVE  /\ Joined(parts) \in [0..Len(parts) -> Seq(S)]
           /\ Joined(parts)[0] = << >>
           /\ \A k \in 1..Len(parts) : Joined(parts)[k] = Joined(parts)[k - 1] \o parts[k]
<1> DEFINE m == Len(parts)
           X == Seq(S)
           next == [x \in (1..m) \X X |-> x[2] \o parts[x[1]]]
<1>1. m \in Nat /\ << >> \in X /\ \A k \in 1..m : parts[k] \in X
  BY DEF PartsOf
<1>2. next \in [(1..m) \X X -> X]
  <2>1. \A k \in 1..m, v \in X : v \o parts[k] \in X
    BY <1>1, Concat
  <2> HIDE DEF X
  <2> QED
    BY <2>1
<1>3. \A k \in 1..m, v \in X : next[<<k, v>>] = v \o parts[k]
  OBVIOUS
<1> HIDE DEF next, X, m
<1>4. PICK f \in [0..m -> X] : Steps(f, << >>, next, m)
  BY <1>1, <1>2, StepsExist
<1>5. \A k \in 1..m : f[k] = f[k - 1] \o parts[k]
  <2> TAKE k \in 1..m
  <2>1. f[k - 1] \in X /\ f[k] = next[<<k, f[k - 1]>>]
    BY <1>1, <1>4 DEF Steps
  <2> QED
    BY <2>1, <1>3
<1>6. \A k \in 0..m : f[k] = IF k = 0 THEN << >> ELSE f[k - 1] \o parts[k]
  <2>1. f[0] = << >>
    BY <1>4 DEF Steps
  <2>2. \A k \in 0..m : k = 0 \/ k \in 1..m
    BY <1>1
  <2> QED
    BY ONLY <2>1, <2>2, <1>5
<1>7. f = [k \in 0..m |-> IF k = 0 THEN << >> ELSE f[k - 1] \o parts[k]]
  BY <1>6
<1>8. IsJoined(f, parts)
  BY <1>7 DEF IsJoined, m
<1> DEFINE upTo == CHOOSE upTo : IsJoined(upTo, parts)
<1>9. Joined(parts) = upTo
  BY DEF Joined, IsJoined
<1>10. IsJoined(upTo, parts)
  BY <1>8
<1> HIDE DEF upTo
<1>11. upTo = [k \in 0..m |-> IF k = 0 THEN << >> ELSE upTo[k - 1] \o parts[k]]
  BY <1>10 DEF IsJoined, m
<1>12. upTo[0] = << >> /\ \A k \in 1..m : upTo[k] = upTo[k - 1] \o parts[k]
  <2>1. \A k \in 0..m : upTo[k] = IF k = 0 THEN << >> ELSE upTo[k - 1] \o parts[k]
    BY <1>11
  <2>2. 0 \in 0..m /\ \A k \in 1..m : k \in 0..m /\ k # 0
    BY <1>1
  <2> QED
    BY <2>1, <2>2
<1> DEFINE T == {k \in 0..m : upTo[k] \in X}
<1>13. \A k \in 0..m : k \in T
  <2>1. 0 \in T
    BY <1>1, <1>12
  <2>2. ASSUME NEW k \in 1..m, k - 1 \in T PROVE k \in T
    <3>1. upTo[k - 1] \o parts[k] \in X
      BY <1>1, <2>2, Concat DEF X
    <3>2. k \in 0..m /\ upTo[k] = upTo[k - 1] \o parts[k]
      BY <1>1, <1>12
    <3> QED
      BY ONLY <3>1, <3>2
  <2> HIDE DEF T
  <2> QED
    BY <1>1, <2>1, <2>2, Induct
<1>14. upTo \in [0..m -> X]
  BY <1>11, <1>13
<1> QED
  BY <1>9, <1>12, <1>14 DEF m, X

(* One part lies behind the other.                                         *)
Stacked(joined, parts, S) ==
    /\ \A k \in 0..Len(parts) : joined[k] \in Seq(S) /\ Len(joined[k]) \in Nat
    /\ \A k \in 1..Len(parts) : Len(joined[k]) = Len(joined[k - 1]) + Len(parts[k])
    /\ Len(joined[0]) = 0
    /\ \A k \in 1..Len(parts) : \A i \in 1..Len(parts[k]) :
          joined[k][Len(joined[k - 1]) + i] = parts[k][i]
    /\ \A k \in 1..Len(parts) : \A i \in 1..Len(joined[k - 1]) :
          joined[k][i] = joined[k - 1][i]
    /\ joined[0] = << >> /\ \A k \in 1..Len(parts) : joined[k] = joined[k - 1] \o parts[k]

(* Where each part lies in all of them together                            *)
LEMMA JoinedLies ==
    ASSUME NEW S, NEW parts \in PartsOf(S), NEW joined, joined = Joined(parts)
    PROVE  Stacked(joined, parts, S)
<1>1. \A k \in 0..Len(parts) : joined[k] \in Seq(S)
  BY JoinedIs
<1>2. Len(parts) \in Nat /\ \A k \in 1..Len(parts) : k - 1 \in 0..Len(parts) /\ k \in 0..Len(parts) /\ parts[k] \in Seq(S)
  BY DEF PartsOf
<1>3. \A k \in 1..Len(parts) : joined[k] = joined[k - 1] \o parts[k] /\ joined[k - 1] \in Seq(S)
  BY <1>1, <1>2, JoinedIs
<1>4. \A v \in Seq(S) : Len(v) \in Nat
  OBVIOUS
<1>5. joined[0] = << >>
  BY JoinedIs
<1>6. Len(joined[0]) = 0
  BY <1>5
<1>7. ASSUME NEW k \in 1..Len(parts)
      PROVE  /\ Len(joined[k]) = Len(joined[k - 1]) + Len(parts[k])
             /\ \A i \in 1..Len(parts[k]) : joined[k][Len(joined[k - 1]) + i] = parts[k][i]
             /\ \A i \in 1..Len(joined[k - 1]) : joined[k][i] = joined[k - 1][i]
  <2> DEFINE u == joined[k - 1]
             v == parts[k]
  <2>1. u \in Seq(S) /\ v \in Seq(S) /\ joined[k] = u \o v
    BY <1>2, <1>3
  <2> HIDE DEF u, v
  <2>2. /\ Len(u \o v) = Len(u) + Len(v)
        /\ \A i \in 1..Len(u) : (u \o v)[i] = u[i]
        /\ \A i \in 1..Len(v) : (u \o v)[Len(u) + i] = v[i]
    BY ONLY <2>1, Concat
  <2> QED
    BY ONLY <2>1, <2>2 DEF u, v
<1> QED
  BY <1>1, <1>3, <1>4, <1>5, <1>6, <1>7 DEF Stacked

(* Which parts there are: later ones lie farther on.                       *)
LEMMA JoinedGrows ==
    ASSUME NEW S, NEW parts \in PartsOf(S), NEW joined, Stacked(joined, parts, S),
           NEW m \in 0..Len(parts)
    PROVE  \A k \in 0..Len(parts) : k >= m =>
              /\ Len(joined[m]) <= Len(joined[k])
              /\ \A i \in 1..Len(joined[m]) : joined[k][i] = joined[m][i]
<1> DEFINE n == Len(parts)
           len(k) == Len(joined[k])
           Good(k) == k >= m => len(m) <= len(k) /\ \A i \in 1..len(m) : joined[k][i] = joined[m][i]
           T == {k \in 0..n : Good(k)}
<1>1. n \in Nat /\ m \in 0..n /\ \A k \in 1..n : k - 1 \in 0..n /\ k \in 0..n /\ k - 1 \in Nat /\ k \in Nat
  BY DEF PartsOf
<1>2. /\ \A k \in 0..n : len(k) \in Nat
      /\ \A k \in 1..n : len(k) = len(k - 1) + Len(parts[k]) /\ Len(parts[k]) \in Nat
      /\ \A k \in 1..n : \A i \in 1..len(k - 1) : joined[k][i] = joined[k - 1][i]
  <2>1. \A k \in 1..n : Len(parts[k]) \in Nat
    <3>1. \A k \in 1..n : parts[k] \in Seq(S)
      BY DEF PartsOf
    <3>2. \A v \in Seq(S) : Len(v) \in Nat
      OBVIOUS
    <3> QED
      BY ONLY <3>1, <3>2
  <2>2. /\ \A k \in 0..Len(parts) : joined[k] \in Seq(S) /\ Len(joined[k]) \in Nat
        /\ \A k \in 1..Len(parts) : Len(joined[k]) = Len(joined[k - 1]) + Len(parts[k])
        /\ \A k \in 1..Len(parts) : \A i \in 1..Len(joined[k - 1]) : joined[k][i] = joined[k - 1][i]
    BY ONLY Stacked(joined, parts, S) DEF Stacked
  <2> QED
    BY ONLY <2>1, <2>2
<1> HIDE DEF n, len
<1>3. 0 \in T
  BY <1>1, <1>2
<1>4. ASSUME NEW k \in 1..n, k - 1 \in T PROVE k \in T
  <2>1. CASE k = m
    BY <2>1, <1>1, <1>2
  <2>2. CASE k < m
    BY <2>2, <1>1
  <2>3. CASE k > m
    <3>1. k - 1 >= m
      BY <2>3, <1>1
    <3>2. len(m) <= len(k - 1) /\ \A i \in 1..len(m) : joined[k - 1][i] = joined[m][i]
      BY <1>4, <3>1
    <3>3. len(k - 1) \in Nat /\ len(m) \in Nat
      BY <1>1, <1>2
    <3>4. \A i \in 1..len(m) : i \in 1..len(k - 1)
      BY <3>2, <3>3
    <3>5. len(m) <= len(k)
      <4>1. len(k) = len(k - 1) + Len(parts[k]) /\ Len(parts[k]) \in Nat
        BY <1>2
      <4> QED
        BY ONLY <3>2, <3>3, <4>1
    <3>6. \A i \in 1..len(m) : joined[k][i] = joined[m][i]
      BY <1>2, <3>2, <3>4
    <3> QED
      BY <1>1, <3>5, <3>6
  <2> QED
    BY <1>1, <2>1, <2>2, <2>3
<1> HIDE DEF T
<1>5. \A k \in 0..n : k \in T
  BY <1>1, <1>3, <1>4, Induct
<1> QED
  BY <1>5 DEF T, n, len

-----------------------------------------------------------------------------
(* The calls of decode()                                                   *)

(* What decode() returns at each place when it may go left calls deeper    *)
Row(s, left, below) ==
    [at \in 0..Len(s) |-> IF left = 0 THEN Thrown("overflow") ELSE decodeWith(s, at, below)]

(* Calls(s), up to m calls                                                 *)
IsCalls(calls, s, m) == calls = [left \in 0..m |-> Row(s, left, calls[left - 1])]

(* The calls of decode() by how deep they may still go                     *)
LEMMA CallsExist ==
    ASSUME NEW s, NEW m \in Nat
    PROVE  \E calls : IsCalls(calls, s, m)
<1> DEFINE T == {n \in 0..m : \E calls : IsCalls(calls, s, n)}
<1>1. 0 \in T
  <2> DEFINE calls == [left \in 0..0 |-> Row(s, 0, << >>)]
  <2>1. \A below, other : Row(s, 0, below) = Row(s, 0, other)
    BY DEF Row
  <2>2. calls = [left \in 0..0 |-> Row(s, left, calls[left - 1])]
    BY <2>1
  <2>3. IsCalls(calls, s, 0)
    BY <2>2 DEF IsCalls
  <2> HIDE DEF calls
  <2> QED
    BY <2>3
<1>2. ASSUME NEW n \in 1..m, n - 1 \in T PROVE n \in T
  <2>1. PICK g : IsCalls(g, s, n - 1)
    BY <1>2
  <2>2. g = [left \in 0..n - 1 |-> Row(s, left, g[left - 1])]
    BY <2>1 DEF IsCalls
  <2>9. \A left \in 0..n - 1 : g[left] = Row(s, left, g[left - 1])
    BY <2>2
  <2> DEFINE f == [left \in 0..n |-> IF left = n THEN Row(s, n, g[n - 1]) ELSE g[left]]
  <2>3. \A left \in 0..n - 1 : f[left] = g[left] /\ left # n
    OBVIOUS
  <2>4. f[n] = Row(s, n, g[n - 1]) /\ n - 1 \in 0..n - 1
    OBVIOUS
  <2>5. DOMAIN f = 0..n /\ f = [left \in 0..n |-> f[left]]
    OBVIOUS
  <2> HIDE DEF f
  <2>6. ASSUME NEW left \in 0..n PROVE f[left] = Row(s, left, f[left - 1])
    <3>1. CASE left = n
      BY <2>3, <2>4, <3>1
    <3>2. CASE left = 0
      <4>1. Row(s, 0, f[left - 1]) = Row(s, 0, g[left - 1])
        BY DEF Row
      <4>2. 0 \in 0..n - 1
        OBVIOUS
      <4> QED
        BY <2>3, <2>9, <3>2, <4>1, <4>2
    <3>3. CASE left # n /\ left # 0
      <4>1. left \in 0..n - 1 /\ left - 1 \in 0..n - 1
        BY <3>3
      <4> QED
        BY <2>3, <2>9, <4>1
    <3> QED
      BY <3>1, <3>2, <3>3
  <2>7. IsCalls(f, s, n)
    BY <2>5, <2>6 DEF IsCalls
  <2> QED
    BY <2>7
<1> HIDE DEF T
<1>3. m \in T
  BY <1>1, <1>2, Induct
<1> QED
  BY <1>3 DEF T

(* Each call has one call less to go deeper.                               *)
LEMMA CallsIs ==
    ASSUME NEW s, NEW calls, calls = Calls(s)
    PROVE  \A left \in 0..Stack, at \in 0..Len(s) :
              calls[left][at] = IF left = 0 THEN Thrown("overflow")
                                ELSE decodeWith(s, at, calls[left - 1])
<1> DEFINE chosen == CHOOSE f : IsCalls(f, s, Stack)
<1>1. Calls(s) = chosen
  BY DEF Calls, IsCalls, Row
<1>2. Stack \in Nat
  BY StackAssumption
<1>3. IsCalls(chosen, s, Stack)
  BY <1>2, CallsExist
<1> HIDE DEF chosen
<1>4. \A left \in 0..Stack : calls[left] = Row(s, left, calls[left - 1])
  BY <1>1, <1>3 DEF IsCalls
<1> QED
  BY <1>4 DEF Row

-----------------------------------------------------------------------------
(* Arrays                                                                  *)

(* The elements of an array, up to its length                              *)
IsElements(element, s, at, inner, length) ==
    element = [i \in 0..length |->
                 IF i = 0 THEN Decoded(FirstElement(s, at), Other)
                 ELSE Element(s, at, element[i - 1], inner)]

(* The elements of an array, one after the other (decodeArray)             *)
LEMMA ElementsExist ==
    ASSUME NEW s, NEW at \in Int, NEW inner, NEW length \in Nat
    PROVE  \E element : IsElements(element, s, at, inner, length)
<1> DEFINE first == Decoded(FirstElement(s, at), Other)
           S == {inner[p] : p \in at..Len(s)} \cup {first, Thrown("out_of_range")}
           next == [x \in (1..length) \X S |-> Element(s, at, x[2], inner)]
<1>1. \A v \in S : Element(s, at, v, inner) \in S
  BY DEF Element, InView
<1>2. next \in [(1..length) \X S -> S]
  <2> HIDE DEF S
  <2> QED
    BY <1>1
<1>3. \A i \in 1..length, v \in S : next[<<i, v>>] = Element(s, at, v, inner)
  <2> HIDE DEF S
  <2> QED
    OBVIOUS
<1>4. first \in S
  OBVIOUS
<1> HIDE DEF next, S, first
<1>5. PICK f \in [0..length -> S] : Steps(f, first, next, length)
  BY <1>2, <1>4, StepsExist
<1>6. \A i \in 1..length : f[i] = Element(s, at, f[i - 1], inner)
  <2> TAKE i \in 1..length
  <2>1. f[i - 1] \in S /\ f[i] = next[<<i, f[i - 1]>>]
    BY <1>5 DEF Steps
  <2> QED
    BY <2>1, <1>3
<1>7. \A i \in 0..length : f[i] = IF i = 0 THEN first ELSE Element(s, at, f[i - 1], inner)
  <2>1. f[0] = first
    BY <1>5 DEF Steps
  <2>2. \A i \in 0..length : i = 0 \/ i \in 1..length
    OBVIOUS
  <2> QED
    BY ONLY <2>1, <2>2, <1>6
<1>8. f = [i \in 0..length |-> IF i = 0 THEN first ELSE Element(s, at, f[i - 1], inner)]
  BY <1>7
<1> QED
  BY <1>8 DEF IsElements, first

(* What decodeArray goes through                                           *)
Chain(element, s, at, inner, length) ==
    /\ element[0] = Decoded(FirstElement(s, at), Other)
    /\ \A i \in 1..length : element[i] = Element(s, at, element[i - 1], inner)

(* The values of the elements                                              *)
ValuesOf(element, length) == [i \in 1..length |-> element[i].value]

(* The array that decodeArray returns                                      *)
Made(element, length) ==
    IF element[length].fate # "decoded" THEN element[length]
    ELSE Decoded(element[length].next, Value("array", << >>, ValuesOf(element, length)))

(* What decodeArray makes of its elements                                  *)
LEMMA ArrayIs ==
    ASSUME NEW s, NEW at \in Int, NEW inner, NEW length \in Nat, length = Number(s, at + 1)
    PROVE  \E element :
              /\ Chain(element, s, at, inner, length)
              /\ decodeArray(s, at, inner) = Made(element, length)
<1> DEFINE element == CHOOSE element : IsElements(element, s, at, inner, length)
<1>1. length # npos
  BY OffsetAssumption
<1>2. decodeArray(s, at, inner) = Made(element, length)
  BY <1>1 DEF decodeArray, IsElements, Made, ValuesOf
<1>3. IsElements(element, s, at, inner, length)
  BY ElementsExist
<1> HIDE DEF element
<1>4. \A i \in 0..length : element[i] =
         IF i = 0 THEN Decoded(FirstElement(s, at), Other) ELSE Element(s, at, element[i - 1], inner)
  BY <1>3 DEF IsElements
<1>5. 0 \in 0..length /\ \A i \in 1..length : i \in 0..length /\ i # 0
  OBVIOUS
<1>6. Chain(element, s, at, inner, length)
  BY ONLY <1>4, <1>5 DEF Chain
<1> QED
  BY <1>2, <1>6

(* What has been thrown is thrown on.                                      *)
LEMMA ChainDecoded ==
    ASSUME NEW s, NEW at \in Int, NEW inner, NEW length \in Nat,
           NEW element, Chain(element, s, at, inner, length), element[length].fate = "decoded"
    PROVE  \A i \in 1..length :
              /\ element[i].fate = "decoded" /\ element[i - 1].fate = "decoded"
              /\ InView(s, at, element[i - 1].next) /\ element[i] = inner[element[i - 1].next]
<1> DEFINE T == {j \in 0..length : element[length - j].fate = "decoded"}
<1>1. \A j \in 0..length : j \in T
  <2>1. 0 \in T
    OBVIOUS
  <2>2. ASSUME NEW j \in 1..length, j - 1 \in T PROVE j \in T
    <3> DEFINE i == length - (j - 1)
    <3>1. i \in 1..length /\ i - 1 = length - j
      OBVIOUS
    <3>2. element[i].fate = "decoded"
      BY <2>2
    <3> HIDE DEF i
    <3>3. element[i] = Element(s, at, element[i - 1], inner)
      BY <3>1 DEF Chain
    <3>4. element[i - 1].fate = "decoded"
      BY <3>2, <3>3 DEF Element
    <3> QED
      BY <3>1, <3>4
  <2> HIDE DEF T
  <2> QED
    BY <2>1, <2>2, Induct
<1>2. ASSUME NEW i \in 0..length PROVE element[i].fate = "decoded"
  <2>1. length - i \in 0..length /\ length - (length - i) = i
    OBVIOUS
  <2>2. length - i \in T
    BY <1>1, <2>1
  <2> QED
    BY <2>1, <2>2
<1>3. ASSUME NEW i \in 1..length
      PROVE  InView(s, at, element[i - 1].next) /\ element[i] = inner[element[i - 1].next]
  <2>1. i - 1 \in 0..length /\ i \in 0..length
    OBVIOUS
  <2>2. element[i] = Element(s, at, element[i - 1], inner)
    BY DEF Chain
  <2>3. element[i].fate = "decoded" /\ element[i - 1].fate = "decoded"
    BY <1>2, <2>1
  <2>4. "out_of_range" # "decoded"
    OBVIOUS
  <2> QED
    BY <2>2, <2>3 DEF Element, Thrown
<1>4. \A i \in 1..length : i \in 0..length /\ i - 1 \in 0..length
  OBVIOUS
<1> QED
  BY <1>2, <1>3, <1>4

(* A decoded array has so many elements as its header says.                *)
LEMMA ArrayDecoded ==
    ASSUME NEW s, Len(s) \in Nat, NEW at \in Nat, at < Len(s), NEW inner,
           NEW r, r = decodeArray(s, at, inner), r.fate = "decoded"
    PROVE  \E length \in Nat : \E element :
              /\ Chain(element, s, at, inner, length) /\ element[length].fate = "decoded"
              /\ length = Number(s, at + 1) /\ r.next = element[length].next
              /\ r.value = Value("array", << >>, ValuesOf(element, length))
<1> DEFINE length == Number(s, at + 1)
<1>1. length \in Nat \cup {npos}
  <2>1. at + 1 \in Nat /\ at + 1 <= Len(s)
    OBVIOUS
  <2> QED
    BY <2>1, NumberType
<1>2. length # npos
  <2>1. length = npos => decodeArray(s, at, inner) = Refused
    BY DEF decodeArray
  <2> QED
    BY <2>1 DEF Refused, Thrown
<1>3. length \in Nat
  BY <1>1, <1>2
<1>4. PICK element :
              /\ Chain(element, s, at, inner, length)
              /\ decodeArray(s, at, inner) = Made(element, length)
  <2> HIDE DEF length
  <2>1. length = Number(s, at + 1)
    BY DEF length
  <2> QED
    BY <1>3, <2>1, ArrayIs
<1>9. length = Number(s, at + 1)
  OBVIOUS
<1> HIDE DEF length
<1>5. element[length].fate = "decoded"
  BY <1>4 DEF Made
<1>6. r = Decoded(element[length].next, Value("array", << >>, ValuesOf(element, length)))
  BY <1>4, <1>5 DEF Made
<1>7. r.next = element[length].next /\ r.value = Value("array", << >>, ValuesOf(element, length))
  BY <1>6 DEF Decoded
<1> QED
  BY <1>3, <1>4, <1>5, <1>7, <1>9

-----------------------------------------------------------------------------
(* What decode() returns                                                   *)

(* Only an array's header makes an array, and strings are as they come.    *)
LEMMA DecodedKinds ==
    ASSUME NEW s, NEW at, NEW inner, NEW r, r = decodeWith(s, at, inner), r.fate = "decoded"
    PROVE  /\ r.value.type \in {"string", "integer", "other", "array"}
           /\ r.value.type = "array" => Byte(s, at) = "*" /\ r = decodeArray(s, at, inner)
           /\ r.value.type = "string" => \/ Byte(s, at) = "+" /\ r = decodeSimpleString(s, at)
                                         \/ Byte(s, at) = "$" /\ r = decodeBulkString(s, at)
<1>1. CASE Byte(s, at) = "+"
  <2>1. r = decodeSimpleString(s, at)
    BY <1>1 DEF decodeWith
  <2>2. r.value.type = "string"
    BY <2>1 DEF decodeSimpleString, Refused, Thrown, Decoded, Value
  <2> QED
    BY <1>1, <2>1, <2>2
<1>2. CASE Byte(s, at) = "-"
  <2>1. r = decodeError(s, at)
    BY <1>2 DEF decodeWith
  <2>2. r.value.type = "other"
    BY <2>1 DEF decodeError, Refused, Thrown, Decoded, Value, Other
  <2> QED
    BY <2>2
<1>3. CASE Byte(s, at) = ":"
  <2>1. r = decodeInt(s, at)
    BY <1>3 DEF decodeWith
  <2>2. r.value.type = "integer"
    BY <2>1 DEF decodeInt, Refused, Thrown, Decoded, Value
  <2> QED
    BY <2>2
<1>4. CASE Byte(s, at) = "$"
  <2>1. r = decodeBulkString(s, at)
    BY <1>4 DEF decodeWith
  <2>2. r.value.type = "string"
    BY <2>1 DEF decodeBulkString, Refused, Thrown, Decoded, Value
  <2> QED
    BY <1>4, <2>1, <2>2
<1>5. CASE Byte(s, at) = "*"
  <2>1. r = decodeArray(s, at, inner)
    BY <1>5 DEF decodeWith
  <2>2. \A x : x.fate # "decoded" => ~(r = x)
    OBVIOUS
  <2>3. \E x, y : r = Decoded(x, Value("array", << >>, y))
    BY <2>1, <2>2 DEF decodeArray, Refused, Thrown
  <2>4. r.value.type = "array"
    BY <2>3 DEF Decoded, Value
  <2> QED
    BY <1>5, <2>1, <2>4
<1>6. CASE Byte(s, at) = "%"
  <2>1. r = decodeMap(s, at, inner)
    BY <1>6 DEF decodeWith
  <2>2. \A x : x.fate # "decoded" => ~(r = x)
    OBVIOUS
  <2>3. \E x : r = Decoded(x, Other)
    BY <2>1, <2>2 DEF decodeMap, Refused, Thrown
  <2>4. r.value.type = "other"
    BY <2>3 DEF Decoded, Value, Other
  <2> QED
    BY <2>4
<1>7. CASE Byte(s, at) \notin {"+", "-", ":", "$", "*", "%"}
  <2>1. r = Decoded(at - 11, Other)
    BY <1>7 DEF decodeWith
  <2>2. r.value.type = "other"
    BY <2>1 DEF Decoded, Value, Other
  <2> QED
    BY <2>2
<1> QED
  BY <1>1, <1>2, <1>3, <1>4, <1>5, <1>6, <1>7

(* decode() at the beginning                                               *)
LEMMA DecodeIs ==
    ASSUME NEW s, Len(s) \in Nat
    PROVE  \A at \in 0..Len(s) : decode(s, at) = decodeWith(s, at, Calls(s)[Stack - 1])
<1>1. Stack \in 0..Stack /\ Stack # 0
  BY StackAssumption
<1> QED
  BY <1>1, CallsIs DEF decode

(* What decode() makes of what one recv has returned                       *)
LEMMA DecodeArray ==
    ASSUME NEW s, Len(s) \in Nat \ {0}, NEW r, r = decode(s, 0), r.fate = "decoded",
           r.value.type = "array"
    PROVE  \E length \in Nat : \E element :
              /\ r.value.elements = ValuesOf(element, length)
              /\ Chain(element, s, 0, Calls(s)[Stack - 1], length) /\ element[length].fate = "decoded"
<1>1. 0 \in 0..Len(s) /\ 0 \in Nat /\ 0 < Len(s) /\ Len(s) \in Nat
  OBVIOUS
<1> DEFINE inner == Calls(s)[Stack - 1]
<1>2. r = decodeWith(s, 0, inner)
  BY <1>1, DecodeIs
<1> HIDE DEF inner
<1>3. r = decodeArray(s, 0, inner)
  BY <1>2, DecodedKinds
<1>4. PICK length \in Nat : \E element :
              /\ Chain(element, s, 0, inner, length) /\ element[length].fate = "decoded"
              /\ r.value = Value("array", << >>, ValuesOf(element, length))
  BY <1>1, <1>3, ArrayDecoded
<1>5. PICK element :
              /\ Chain(element, s, 0, inner, length) /\ element[length].fate = "decoded"
              /\ r.value = Value("array", << >>, ValuesOf(element, length))
  BY <1>4
<1>6. r.value.elements = ValuesOf(element, length)
  BY <1>5 DEF Value
<1> QED
  BY <1>5, <1>6 DEF inner

(* What a command is made of: its kind and its elements have their types.  *)
LEMMA ElementType ==
    ASSUME NEW v
    PROVE  ElementOf(v) \in Elements /\ KindOf(v) \in Kinds
<1>1. TextOf(v.bytes) \in Texts
  BY RequestsAssumption DEF TextOf, Texts
<1>2. Empty \in Texts
  BY DEF Texts
<1>3. ElementOf(v) \in Elements
  BY <1>1, <1>2 DEF ElementOf, Elements
<1>4. DOMAIN Names = Kinds
  BY SpellingAssumption
<1>5. KindOf(v) \in Kinds
  BY <1>4 DEF KindOf, Kinds
<1> QED
  BY <1>3, <1>5

(* What a command is begun with has its types.                             *)
LEMMA ConvertType ==
    ASSUME NEW s, Len(s) \in Nat \ {0}, NEW r, r = decode(s, 0), r.fate = "decoded",
           r.value.type = "array" => r.value.elements # << >>, convertToCommands(r.value)
    PROVE  /\ command' \in Fields /\ given' = << >> /\ result' = "parsing"
           /\ rest' \in Seq(Elements)
<1>1. PICK kind \in Kinds : command' = NewCommand(kind)
  <2>1. KindOf(r.value.elements[1]) \in Kinds /\ "PING" \in Kinds /\ "unknown" \in Kinds
    BY ElementType DEF Kinds
  <2>2. CASE r.value.type = "array"
    BY <2>1, <2>2 DEF convertToCommands
  <2>3. CASE r.value.type # "array" /\ KindOf(r.value) = "PING"
    BY <2>1, <2>3 DEF convertToCommands
  <2>4. CASE r.value.type # "array" /\ KindOf(r.value) # "PING"
    BY <2>1, <2>4 DEF convertToCommands
  <2> QED
    BY <2>2, <2>3, <2>4
<1>2. command' \in Fields
  BY <1>1 DEF NewCommand, Fields, Views, Texts
<1>3. rest' \in Seq(Elements)
  <2>1. CASE r.value.type # "array"
    BY <2>1 DEF convertToCommands
  <2>2. CASE r.value.type = "array"
    <3>1. PICK length \in Nat : \E element : r.value.elements = ValuesOf(element, length)
      BY <2>2, DecodeArray
    <3>2. PICK element : r.value.elements = ValuesOf(element, length)
      BY <3>1
    <3> DEFINE v == r.value.elements
    <3>3. Len(v) = length /\ v # << >>
      BY <2>2, <3>2 DEF ValuesOf
    <3>4. length # 0
      BY <3>2, <3>3 DEF ValuesOf
    <3>5. length - 1 \in Nat
      BY <3>4
    <3>6. rest' = [i \in 1..length - 1 |-> ElementOf(v[i + 1])]
      BY <2>2, <3>3 DEF convertToCommands
    <3> HIDE DEF v
    <3>7. \A i \in 1..length - 1 : ElementOf(v[i + 1]) \in Elements
      BY ElementType
    <3> QED
      BY <3>5, <3>6, <3>7
  <2> QED
    BY <2>1, <2>2
<1> QED
  BY <1>2, <1>3 DEF convertToCommands

-----------------------------------------------------------------------------
(* Octets, and requests on the wire                                        *)

(* What a string begins with                                               *)
Opener == "$"

(* What an array begins with                                               *)
Star == "*"

(* What an integer begins with                                             *)
Colon == ":"

(* Every byte that can be on the wire                                      *)
Octets == Bytes \cup Digits \cup {CR, LF, Opener, Star, Colon, "byte"}

(* The bytes of the wire, one by one                                       *)
LEMMA OctetFacts ==
    /\ Bytes \subseteq Octets /\ Digits \subseteq Octets
    /\ CR \in Octets /\ LF \in Octets /\ Opener \in Octets /\ Star \in Octets /\ Colon \in Octets
BY DEF Octets

(* The end of a line                                                       *)
LEMMA CrlfIs == CRLF \in Seq(Octets) /\ Len(CRLF) = 2 /\ CRLF[1] = CR /\ CRLF[2] = LF
BY OctetFacts DEF CRLF

(* Two sequences of octets together                                        *)
LEMMA ConcatType ==
    ASSUME NEW u \in Seq(Octets), NEW v \in Seq(Octets)
    PROVE  u \o v \in Seq(Octets) /\ Len(u \o v) = Len(u) + Len(v) /\ Len(u) \in Nat /\ Len(v) \in Nat
OBVIOUS

(* One octet by itself                                                     *)
LEMMA SingleType ==
    ASSUME NEW o \in Octets
    PROVE  <<o>> \in Seq(Octets) /\ Len(<<o>>) = 1 /\ <<o>>[1] = o
OBVIOUS

(* Bytes are octets.                                                       *)
LEMMA WiderType ==
    ASSUME NEW S \in SUBSET Octets, NEW u \in Seq(S)
    PROVE  u \in Seq(Octets) /\ Len(u) \in Nat
OBVIOUS

(* A length is spelled in octets.                                          *)
LEMMA DecimalType ==
    ASSUME NEW n \in Nat, n <= 9999
    PROVE  Decimal(n) \in Seq(Octets) /\ Len(Decimal(n)) \in Nat
<1>1. Decimal(n) \in Seq(Digits)
  BY DecimalIs
<1> HIDE DEF Digits, Octets
<1> QED
  BY ONLY <1>1, OctetFacts, WiderType

(* A bulk string is made of octets.                                        *)
LEMMA BulkType ==
    ASSUME NEW t \in Seq(Bytes), Len(t) <= 9999
    PROVE  Bulk(t) \in Seq(Octets)
<1>1. Len(t) \in Nat
  OBVIOUS
<1>2. Decimal(Len(t)) \in Seq(Octets)
  BY <1>1, DecimalType
<1>3. t \in Seq(Octets)
  BY ONLY t \in Seq(Bytes), OctetFacts, WiderType
<1>4. <<Opener>> \in Seq(Octets)
  BY OctetFacts, SingleType
<1>5. <<Opener>> \o Decimal(Len(t)) \in Seq(Octets)
  BY <1>2, <1>4, ConcatType
<1>6. <<Opener>> \o Decimal(Len(t)) \o CRLF \in Seq(Octets)
  BY <1>5, CrlfIs, ConcatType
<1>7. <<Opener>> \o Decimal(Len(t)) \o CRLF \o t \in Seq(Octets)
  BY <1>3, <1>6, ConcatType
<1>8. <<Opener>> \o Decimal(Len(t)) \o CRLF \o t \o CRLF \in Seq(Octets)
  BY <1>7, CrlfIs, ConcatType
<1> QED
  BY <1>8 DEF Bulk, Opener

(* How a text is spelled                                                   *)
LEMMA TextSpelled ==
    ASSUME NEW t \in Texts
    PROVE  Spelling[t] \in Seq(Bytes) /\ Len(Spelling[t]) <= 9999
BY SpellingAssumption, LengthAssumption

(* How the name of a command is spelled                                    *)
LEMMA NameSpelled ==
    ASSUME NEW k \in Kinds
    PROVE  Names[k] \in Seq(Bytes) /\ Len(Names[k]) <= 9999
BY SpellingAssumption, LengthAssumption

(* An argument on the wire                                                 *)
LEMMA OnWireType ==
    ASSUME NEW e \in Elements
    PROVE  OnWire(e) \in Seq(Octets)
<1>1. e.text \in Texts
  BY DEF Elements
<1>2. Bulk(Spelling[e.text]) \in Seq(Octets)
  BY <1>1, TextSpelled, BulkType
<1>3. Spelling[e.text] \in Seq(Octets)
  BY <1>1, TextSpelled, OctetFacts, WiderType
<1>4. <<Colon>> \o Spelling[e.text] \in Seq(Octets)
  <2>1. <<Colon>> \in Seq(Octets)
    BY OctetFacts, SingleType
  <2> QED
    BY <1>3, <2>1, ConcatType
<1>5. <<Colon>> \o Spelling[e.text] \o CRLF \in Seq(Octets)
  BY <1>4, CrlfIs, ConcatType
<1> QED
  BY <1>2, <1>5 DEF OnWire, Colon

(* A request that a client has written                                     *)
LEMMA WrittenType ==
    ASSUME NEW r \in Written
    PROVE  /\ r.kind \in Kinds /\ r.arguments \in Seq(Elements)
           /\ Len(r.arguments) \in Nat /\ Len(r.arguments) < 9999
           /\ \A i \in 1..Len(r.arguments) : r.arguments[i] \in Elements
<1>1. r.kind \in Kinds /\ r.arguments \in Seq(Arguments) /\ Len(r.arguments) < 9999
  BY RequestsAssumption, LengthAssumption
<1>2. Arguments \subseteq Elements
  BY DEF Arguments
<1> HIDE DEF Arguments, Elements
<1> QED
  BY <1>1, <1>2

(* A request's parts: the name and what follows                            *)
LEMMA PartsType ==
    ASSUME NEW r \in Written
    PROVE  /\ Parts(r) \in PartsOf(Octets) /\ Len(Parts(r)) = 1 + Len(r.arguments)
           /\ Parts(r)[1] = Bulk(Names[r.kind])
           /\ \A i \in 1..Len(r.arguments) : Parts(r)[1 + i] = OnWire(r.arguments[i])
           /\ Len(Parts(r)) \in Nat /\ Len(Parts(r)) <= 9999
<1> DEFINE X == Seq(Octets)
           n == Len(r.arguments)
           u == <<Bulk(Names[r.kind])>>
           v == [i \in 1..n |-> OnWire(r.arguments[i])]
<1>1. Bulk(Names[r.kind]) \in X
  BY WrittenType, NameSpelled, BulkType
<1>2. n \in Nat /\ n < 9999
  BY WrittenType
<1>3. \A i \in 1..n : OnWire(r.arguments[i]) \in X
  BY WrittenType, OnWireType
<1>4. Parts(r) = u \o v
  BY DEF Parts
<1> HIDE DEF X, n
<1>5. v \in Seq(X) /\ Len(v) = n /\ \A i \in 1..n : v[i] = OnWire(r.arguments[i])
  BY <1>2, <1>3
<1>6. u \in Seq(X) /\ Len(u) = 1 /\ u[1] = Bulk(Names[r.kind])
  BY <1>1
<1> HIDE DEF u, v
<1> DEFINE w == u \o v
<1>11. /\ w \in Seq(X) /\ Len(w) = Len(u) + Len(v)
       /\ \A i \in 1..Len(u) : w[i] = u[i]
       /\ \A i \in 1..Len(v) : w[Len(u) + i] = v[i]
  <2>1. u \in Seq(X) /\ v \in Seq(X)
    BY <1>5, <1>6
  <2> QED
    BY ONLY <2>1, Concat
<1> HIDE DEF w
<1>7. /\ w \in Seq(X) /\ Len(w) = 1 + n
      /\ \A i \in 1..1 : w[i] = u[i]
      /\ \A i \in 1..n : w[1 + i] = v[i]
  BY ONLY <1>5, <1>6, <1>11
<1>8. w[1] = u[1]
  BY ONLY <1>7
<1>9. \A i \in 1..n : w[1 + i] = OnWire(r.arguments[i])
  BY <1>5, <1>7
<1>10. 1 + n \in Nat /\ 1 + n <= 9999
  BY <1>2
<1>12. Parts(r) = w
  BY ONLY <1>4 DEF w
<1>13. Parts(r) \in PartsOf(Octets)
  BY ONLY <1>7, <1>12 DEF X, PartsOf
<1>14. /\ Len(Parts(r)) = 1 + n /\ Parts(r)[1] = Bulk(Names[r.kind])
       /\ \A i \in 1..n : Parts(r)[1 + i] = OnWire(r.arguments[i])
  BY ONLY <1>6, <1>7, <1>8, <1>9, <1>12
<1>15. Len(Parts(r)) \in Nat /\ Len(Parts(r)) <= 9999
  BY ONLY <1>10, <1>14
<1> QED
  BY ONLY <1>13, <1>14, <1>15 DEF n

(* A request on the wire: not empty, and made of octets                    *)
LEMMA WireType ==
    ASSUME NEW r \in Written
    PROVE  Wire[r] \in Seq(Octets) /\ Len(Wire[r]) \in Nat /\ Len(Wire[r]) > 0
<1> DEFINE p == Parts(r)
           body == Joined(p)[Len(p)]
           head == <<Star>> \o Decimal(Len(p))
<1>1. p \in PartsOf(Octets) /\ Len(p) \in Nat /\ Len(p) <= 9999
  BY PartsType
<1>2. body \in Seq(Octets)
  <2> HIDE DEF p
  <2>1. Stacked(Joined(p), p, Octets)
    BY <1>1, JoinedLies
  <2>2. Len(p) \in 0..Len(p)
    BY <1>1
  <2> QED
    BY ONLY <2>1, <2>2 DEF body, Stacked
<1>3. Wire[r] = head \o CRLF \o body
  BY DEF Wire, Star
<1> HIDE DEF p, body
<1>4. <<Star>> \in Seq(Octets) /\ Len(<<Star>>) = 1
  BY OctetFacts, SingleType
<1>5. head \in Seq(Octets) /\ Len(head) \in Nat /\ Len(head) > 0
  <2>1. Decimal(Len(p)) \in Seq(Octets) /\ Len(Decimal(Len(p))) \in Nat
    BY <1>1, DecimalType
  <2>2. head \in Seq(Octets) /\ Len(head) = 1 + Len(Decimal(Len(p)))
    BY ONLY <1>4, <2>1, ConcatType
  <2> QED
    BY <2>1, <2>2
<1> HIDE DEF head
<1>6. head \o CRLF \in Seq(Octets) /\ Len(head \o CRLF) = Len(head) + 2
  BY <1>5, CrlfIs, ConcatType
<1>7. head \o CRLF \o body \in Seq(Octets)
      /\ Len(head \o CRLF \o body) = Len(head \o CRLF) + Len(body) /\ Len(body) \in Nat
  BY ONLY <1>2, <1>6, ConcatType
<1> QED
  BY ONLY <1>3, <1>5, <1>6, <1>7

-----------------------------------------------------------------------------
(* The books of a client                                                   *)

(* A set of numbers below a bound has a largest.                           *)
LEMMA Largest ==
    ASSUME NEW m \in Nat, NEW K, K \subseteq 0..m, 0 \in K
    PROVE  Max(K) \in K /\ \A k \in K : k <= Max(K)
<1> DEFINE T == {j \in 0..m : m - j \in K}
<1>1. m \in T
  OBVIOUS
<1>2. PICK j \in T : \A i \in T : j <= i
  <2>1. T \subseteq Nat /\ T # {}
    BY <1>1
  <2> HIDE DEF T
  <2> QED
    BY <2>1, LeastElement
<1>3. m - j \in K /\ \A k \in K : k <= m - j
  <2>1. \A k \in K : m - k \in T
    OBVIOUS
  <2>2. ASSUME NEW k \in K PROVE k <= m - j
    <3>1. j <= m - k /\ j \in 0..m /\ k \in 0..m
      BY <1>2, <2>1
    <3> QED
      BY <3>1
  <2> QED
    BY <2>2
<1>4. \A k, l \in K : k <= l /\ l <= k => k = l
  OBVIOUS
<1> QED
  BY <1>3, <1>4 DEF Max

-----------------------------------------------------------------------------
(* What a client has written and what of it has been received              *)
Book(c) ==
    /\ sent[c] \in Seq(Requests[c])
    /\ offset[c] \in Nat
    /\ sent[c] = << >> => offset[c] = 0
    /\ sent[c] # << >> => offset[c] < Len(Wire[sent[c][1]])

(* The requests of a client on the wire                                    *)
WiresOf(c) == [i \in 1..Len(sent[c]) |-> Wire[sent[c][i]]]

(* The requests of a client on the wire                                    *)
LEMMA WiresType ==
    ASSUME NEW c \in Clients, sent[c] \in Seq(Requests[c])
    PROVE  /\ Len(sent[c]) \in Nat
           /\ \A i \in 1..Len(sent[c]) : sent[c][i] \in Written
           /\ WiresOf(c) \in PartsOf(Octets) /\ Len(WiresOf(c)) = Len(sent[c])
           /\ \A i \in 1..Len(sent[c]) : WiresOf(c)[i] = Wire[sent[c][i]]
           /\ Whole(c) = Joined(WiresOf(c))
<1> DEFINE X == Seq(Octets)
           n == Len(sent[c])
<1>1. n \in Nat /\ \A i \in 1..n : sent[c][i] \in Requests[c]
  OBVIOUS
<1>2. \A i \in 1..n : sent[c][i] \in Written
  BY <1>1 DEF Written
<1>3. \A i \in 1..n : Wire[sent[c][i]] \in X
  BY <1>2, WireType
<1> HIDE DEF X, n
<1>4. [i \in 1..n |-> Wire[sent[c][i]]] \in Seq(X) /\ Len([i \in 1..n |-> Wire[sent[c][i]]]) = n
  BY ONLY <1>1, <1>3
<1> QED
  BY <1>1, <1>2, <1>4 DEF WiresOf, Whole, PartsOf, X, n

(* Where the requests of a client end in all of them together              *)
EndsOK(c, m, ends, whole, stream) ==
    /\ m \in Nat /\ Stacked(whole, WiresOf(c), Octets)
    /\ \A k \in 0..m : ends[k] = Len(whole[k]) - offset[c] /\ ends[k] \in Int
    /\ \A k \in 1..m : /\ ends[k] = ends[k - 1] + Len(Wire[sent[c][k]])
                       /\ Len(Wire[sent[c][k]]) \in Nat /\ Len(Wire[sent[c][k]]) > 0
    /\ ends[0] = -offset[c] /\ offset[c] <= Len(whole[m]) /\ offset[c] \in Nat
    /\ stream \in Seq(Octets) /\ Len(stream) = ends[m] /\ Len(stream) \in Nat
    /\ \A i \in 1..Len(stream) : stream[i] = whole[m][offset[c] + i]

(* Where each request of a client ends in what the client has sent         *)
LEMMA EndsAre ==
    ASSUME NEW c \in Clients, Book(c)
    PROVE  EndsOK(c, Len(sent[c]), Ends(c), Whole(c), Stream(c))
<1> SUFFICES ASSUME NEW m, m = Len(sent[c]), NEW ends, ends = Ends(c),
                    NEW whole, whole = Whole(c), NEW stream, stream = Stream(c)
             PROVE  EndsOK(c, m, ends, whole, stream)
  OBVIOUS
<1>1. /\ m \in Nat
      /\ \A i \in 1..m : sent[c][i] \in Written
      /\ WiresOf(c) \in PartsOf(Octets) /\ Len(WiresOf(c)) = m
      /\ \A i \in 1..m : WiresOf(c)[i] = Wire[sent[c][i]]
      /\ whole = Joined(WiresOf(c))
  BY WiresType DEF Book
<1>2. Stacked(whole, WiresOf(c), Octets)
  BY <1>1, JoinedLies
<1>3. offset[c] \in Nat
  BY DEF Book
<1>4. /\ \A k \in 0..m : whole[k] \in Seq(Octets) /\ Len(whole[k]) \in Nat
      /\ \A k \in 1..m : Len(whole[k]) = Len(whole[k - 1]) + Len(Wire[sent[c][k]])
      /\ Len(whole[0]) = 0
  BY ONLY <1>1, <1>2 DEF Stacked
<1>5. \A k \in 0..m : ends[k] = Len(whole[k]) - offset[c]
  BY <1>1 DEF Ends
<1>6. \A k \in 0..m : ends[k] \in Int
  BY ONLY <1>3, <1>4, <1>5
<1>7. \A k \in 1..m : /\ ends[k] = ends[k - 1] + Len(Wire[sent[c][k]])
                      /\ Len(Wire[sent[c][k]]) \in Nat /\ Len(Wire[sent[c][k]]) > 0
  <2> TAKE k \in 1..m
  <2>1. k \in 0..m /\ k - 1 \in 0..m
    BY <1>1
  <2>2. Len(Wire[sent[c][k]]) \in Nat /\ Len(Wire[sent[c][k]]) > 0
    BY <1>1, WireType
  <2>3. /\ Len(whole[k]) = Len(whole[k - 1]) + Len(Wire[sent[c][k]])
        /\ Len(whole[k]) \in Nat /\ Len(whole[k - 1]) \in Nat
        /\ ends[k] = Len(whole[k]) - offset[c] /\ ends[k - 1] = Len(whole[k - 1]) - offset[c]
    BY <2>1, <1>4, <1>5
  <2> DEFINE x == Len(whole[k])
             y == Len(whole[k - 1])
             l == Len(Wire[sent[c][k]])
             o == offset[c]
  <2>4. x = y + l /\ x \in Nat /\ y \in Nat /\ l \in Nat /\ o \in Nat /\ ends[k] = x - o /\ ends[k - 1] = y - o
    BY <2>2, <2>3, <1>3
  <2> HIDE DEF x, y, l, o
  <2>5. ends[k] = ends[k - 1] + l
    <3>1. x - o = (y - o) + l
      BY ONLY <2>4
    <3> QED
      BY ONLY <2>4, <3>1
  <2> QED
    BY ONLY <2>2, <2>5 DEF l
<1>8. ends[0] = -offset[c]
  BY <1>1, <1>3, <1>4, <1>5
<1>9. offset[c] <= Len(whole[m])
  <2>1. CASE m = 0
    <3>1. sent[c] = << >>
      <4>1. sent[c] \in Seq(Requests[c]) /\ Len(sent[c]) = 0
        BY <2>1 DEF Book
      <4> QED
        BY ONLY <4>1
    <3> QED
      BY <2>1, <3>1, <1>4 DEF Book
  <2>2. CASE m # 0
    <3>1. 1 \in 1..m /\ 1 \in 0..m /\ m \in 0..m /\ m >= 1 /\ 1 - 1 = 0
      BY <1>1, <2>2
    <3>2. sent[c] # << >>
      BY <2>2
    <3>3. offset[c] < Len(Wire[sent[c][1]]) /\ Len(Wire[sent[c][1]]) \in Nat
      BY <3>1, <3>2, <1>7 DEF Book
    <3>4. Len(whole[1]) = Len(Wire[sent[c][1]])
      <4>1. Len(whole[1]) = Len(whole[1 - 1]) + Len(Wire[sent[c][1]])
        BY ONLY <3>1, <1>4
      <4>2. Len(whole[1 - 1]) = 0
        BY ONLY <3>1, <1>4
      <4> DEFINE l == Len(Wire[sent[c][1]])
                 z == Len(whole[1 - 1])
      <4>3. l \in Nat /\ z = 0 /\ Len(whole[1]) = z + l
        BY ONLY <3>3, <4>1, <4>2
      <4> HIDE DEF l, z
      <4>4. Len(whole[1]) = l
        BY ONLY <4>3
      <4> QED
        BY ONLY <4>4 DEF l
    <3>5. Len(whole[1]) <= Len(whole[m])
      BY ONLY <3>1, <1>1, <1>2, JoinedGrows, WiresOf(c) \in PartsOf(Octets)
    <3> QED
      BY <1>3, <1>4, <3>1, <3>3, <3>4, <3>5
  <2> QED
    BY <2>1, <2>2
<1>10. stream = SubSeq(whole[m], offset[c] + 1, Len(whole[m]))
  BY DEF Stream
<1>11. whole[m] \in Seq(Octets) /\ Len(whole[m]) \in Nat /\ m \in 0..m
  BY <1>1, <1>4
<1>12. /\ stream \in Seq(Octets) /\ Len(stream) = Len(whole[m]) - offset[c]
       /\ \A i \in 1..Len(stream) : stream[i] = whole[m][offset[c] + i]
  <2> DEFINE b == whole[m]
             o == offset[c]
  <2>1. b \in Seq(Octets) /\ Len(b) \in Nat /\ o \in Nat /\ o <= Len(b) /\ stream = SubSeq(b, o + 1, Len(b))
    BY <1>3, <1>9, <1>10, <1>11
  <2> HIDE DEF b, o
  <2>2. stream \in Seq(Octets) /\ Len(stream) = Len(b) - o
    BY ONLY <2>1
  <2>3. \A i \in 1..Len(b) - o : stream[i] = b[o + i]
    BY ONLY <2>1
  <2> QED
    BY ONLY <2>2, <2>3 DEF b, o
<1>13. Len(stream) = ends[m] /\ Len(stream) \in Nat
  BY ONLY <1>3, <1>5, <1>9, <1>11, <1>12
<1> QED
  BY ONLY <1>1, <1>2, <1>3, <1>5, <1>6, <1>7, <1>8, <1>9, <1>12, <1>13 DEF EndsOK

(* Where a recv ends among the requests                                    *)
IsLeft(c, m, ends, n, left, w) ==
    /\ w \in 0..m /\ ends[w] <= n /\ (w < m => n < ends[w + 1])
    /\ left.sent = SubSeq(sent[c], w + 1, m) /\ left.offset = n - ends[w]

(* What has not come of the requests that have not come whole              *)
LEMMA LeftIs ==
    ASSUME NEW c \in Clients, Book(c), NEW m, m = Len(sent[c]), NEW ends, ends = Ends(c),
           NEW n \in Nat, NEW left, left = Left(c, n, ends)
    PROVE  \E w \in 0..m : IsLeft(c, m, ends, n, left, w)
<1> DEFINE K == {k \in 0..m : ends[k] <= n}
           w == Max(K)
<1>1. /\ m \in Nat /\ \A k \in 0..m : ends[k] \in Int
      /\ ends[0] = -offset[c] /\ offset[c] \in Nat
  BY EndsAre DEF EndsOK
<1>2. 0 \in K /\ K \subseteq 0..m
  BY <1>1
<1>3. w \in K /\ \A k \in K : k <= w
  <2> HIDE DEF K
  <2> QED
    BY <1>1, <1>2, Largest
<1>4. left.sent = SubSeq(sent[c], w + 1, m) /\ left.offset = n - ends[w]
  BY DEF Left
<1> HIDE DEF w
<1>5. w \in 0..m /\ ends[w] <= n
  BY <1>3
<1>6. ASSUME w < m PROVE n < ends[w + 1]
  <2>1. w + 1 \in 0..m /\ ~(w + 1 <= w)
    BY <1>1, <1>5, <1>6
  <2>2. w + 1 \notin K
    BY <1>3, <2>1
  <2>3. ~(ends[w + 1] <= n) /\ ends[w + 1] \in Int
    BY <1>1, <2>1, <2>2
  <2> QED
    BY ONLY <2>3, n \in Nat
<1> QED
  BY <1>4, <1>5, <1>6 DEF IsLeft

(* The books of a client: what was sent, what has come, what is left       *)
LEMMA LeftBook ==
    ASSUME NEW c \in Clients, Book(c), NEW m, m = Len(sent[c]), NEW ends, ends = Ends(c),
           NEW n \in Nat, n <= Len(Stream(c)), NEW left, left = Left(c, n, ends)
    PROVE  /\ left.sent \in Seq(Requests[c]) /\ left.offset \in Nat
           /\ Len(left.sent) <= m
           /\ left.sent = << >> => left.offset = 0
           /\ left.sent # << >> => left.offset < Len(Wire[left.sent[1]])
<1>10. PICK w \in 0..m : IsLeft(c, m, ends, n, left, w)
  BY LeftIs
<1>1. /\ ends[w] <= n /\ (w < m => n < ends[w + 1])
      /\ left.sent = SubSeq(sent[c], w + 1, m) /\ left.offset = n - ends[w]
  BY <1>10 DEF IsLeft
<1>2. /\ m \in Nat
      /\ \A k \in 0..m : ends[k] \in Int
      /\ \A k \in 1..m : /\ ends[k] = ends[k - 1] + Len(Wire[sent[c][k]])
                         /\ Len(Wire[sent[c][k]]) \in Nat
      /\ ends[m] = Len(Stream(c))
  BY EndsAre DEF EndsOK
<1>3. sent[c] \in Seq(Requests[c])
  BY DEF Book
<1>4. /\ left.sent \in Seq(Requests[c]) /\ Len(left.sent) = m - w
      /\ w < m => left.sent[1] = sent[c][w + 1]
  <2> DEFINE q == sent[c]
  <2>1. q \in Seq(Requests[c]) /\ m = Len(q) /\ m \in Nat /\ w \in 0..m /\ left.sent = SubSeq(q, w + 1, m)
    BY <1>1, <1>2, <1>3
  <2> HIDE DEF q
  <2>4. w \in Nat /\ w <= m /\ m <= Len(q) /\ (w < m => 1 \in 1..m - w)
    BY ONLY <2>1
  <2>5. q \in Seq(Requests[c]) /\ m \in Nat /\ left.sent = SubSeq(q, w + 1, m)
    BY ONLY <2>1
  <2>6. IsPiece(left.sent, q, w, m, Requests[c])
    BY ONLY <2>4, <2>5, PieceIs
  <2>2. left.sent \in Seq(Requests[c]) /\ Len(left.sent) = m - w
    BY ONLY <2>6 DEF IsPiece
  <2>3. w < m => left.sent[1] = q[w + 1]
    BY ONLY <2>4, <2>6 DEF IsPiece
  <2> QED
    BY ONLY <2>2, <2>3 DEF q
<1>5. ends[w] \in Int
  BY <1>1, <1>2
<1>6. left.offset \in Nat
  BY <1>1, <1>5
<1>7. CASE w = m
  <2>1. left.offset = 0 /\ Len(left.sent) = 0
    BY <1>1, <1>2, <1>4, <1>5, <1>7
  <2>2. left.sent = << >>
    BY <1>4, <2>1
  <2> QED
    BY <1>2, <1>4, <1>6, <2>1, <2>2
<1>8. CASE w < m
  <2>1. w + 1 \in 1..m /\ (w + 1) - 1 = w /\ w \in Nat
    BY <1>2, <1>8
  <2>2. ends[w + 1] = ends[w] + Len(Wire[sent[c][w + 1]]) /\ Len(Wire[sent[c][w + 1]]) \in Nat
    BY <1>2, <2>1
  <2>3. left.offset = n - ends[w] /\ n < ends[w + 1]
    BY <1>1, <1>8
  <2>4. n - ends[w] < Len(Wire[sent[c][w + 1]])
    BY ONLY <1>5, <2>2, <2>3, n \in Nat
  <2>5. left.offset < Len(Wire[left.sent[1]])
    BY <1>4, <1>8, <2>3, <2>4
  <2>6. left.sent # << >>
    BY <1>2, <1>4, <1>8
  <2>7. Len(left.sent) <= m
    BY <1>2, <1>4, <2>1
  <2> QED
    BY <1>4, <1>6, <2>5, <2>6, <2>7
<1> QED
  BY <1>1, <1>2, <1>7, <1>8

-----------------------------------------------------------------------------

(* What an element is stored as is a view.                                 *)
LEMMA ViewType ==
    ASSUME NEW e \in Elements
    PROVE  View(e) \in Views /\ e.text \in Texts
BY DEF View, Views, Elements

(* Only a number becomes a time of expiry.                                 *)
LEMMA OptionType ==
    ASSUME NEW e \in Elements, command \in Fields, ~Refuses(e),
           command.key_ # Empty, command.value_ # Empty
    PROVE  Option(e) \in Fields
<1>1. e.type \in {"string", "integer", "other"} /\ e.text \in Texts /\ e = [type |-> e.type, text |-> e.text]
  BY DEF Elements
<1>2. CASE e = [type |-> "string", text |-> EX] \/ e = [type |-> "string", text |-> PX]
  BY <1>2 DEF Option, Fields
<1>3. CASE /\ e # [type |-> "string", text |-> EX] /\ e # [type |-> "string", text |-> PX]
           /\ e.type = "string" /\ command.state_ = "WaitingForValue"
  <2>1. e.text \in Numbers
    BY <1>1, <1>3 DEF Refuses
  <2>2. [resolution |-> command.resolution_, time |-> e.text] \in Expiries
    BY <2>1 DEF Fields, Expiries
  <2> QED
    BY <1>3, <2>2 DEF Option, Fields
<1>4. CASE /\ e # [type |-> "string", text |-> EX] /\ e # [type |-> "string", text |-> PX]
           /\ ~(e.type = "string" /\ command.state_ = "WaitingForValue")
  BY <1>4 DEF Option
<1> QED
  BY <1>2, <1>3, <1>4

(* A command just begun has its types.                                     *)
LEMMA FieldsInit ==
    ASSUME NEW kind \in Kinds
    PROVE  NewCommand(kind) \in Fields
BY DEF NewCommand, Fields, Views, Texts

(* A visit keeps the types, whatever the command and the element.          *)
LEMMA PayloadType ==
    ASSUME NEW e \in Elements, FieldsOK, result = "parsing", ParsePayload(e)
    PROVE  /\ command' \in Fields
           /\ result' \in {"parsing", "Missing key", "Missing version",
                           "Invalid expiration time", "aborted"}
<1> USE ViewType DEF FieldsOK
<1>1. CASE SetPayload(e)
  <2>1. CASE Refuses(e)
    BY <1>1, <2>1 DEF SetPayload
  <2>2. CASE ~Refuses(e)
    <3> DEFINE fields == IF command.key_ = Empty THEN [command EXCEPT !.key_ = View(e)]
                         ELSE IF command.value_ = Empty THEN [command EXCEPT !.value_ = View(e)]
                         ELSE Option(e)
    <3>1. fields \in Fields
      BY <2>2, OptionType DEF Fields
    <3>2. command' = [fields EXCEPT !.state_ = "Done"] /\ result' = result
      BY <1>1, <2>2 DEF SetPayload, Finished
    <3> QED
      BY <3>1, <3>2 DEF Fields
  <2> QED
    BY <2>1, <2>2
<1>2. CASE KeyPayload(e)
  BY <1>2 DEF KeyPayload, Fields
<1>3. CASE PingPayload(e)
  BY <1>3 DEF PingPayload, Fields, Views
<1>4. CASE HelloPayload(e)
  BY <1>4 DEF HelloPayload, Fields, Views
<1>5. CASE UnknownPayload(e)
  BY <1>5 DEF UnknownPayload
<1> QED
  BY <1>1, <1>2, <1>3, <1>4, <1>5 DEF ParsePayload

(* TypeOK is inductive: its beginning                                      *)
LEMMA TypeInit == Init => TypeOK
BY FieldsInit, ElementsAssumption DEF Init, TypeOK, FieldsOK

(* TypeOK is inductive: each visit keeps it.                               *)
LEMMA TypeStep == TypeOK /\ [parseRawArrayCommands]_vars => TypeOK'
<1> SUFFICES ASSUME TypeOK, [parseRawArrayCommands]_vars PROVE TypeOK'
  OBVIOUS
<1>1. ASSUME Len(given) < MaxElements, NEW e \in Arguments, Visit(e)
      PROVE  TypeOK'
  <2>1. given' \in Seq(Arguments) /\ Len(given') = Len(given) + 1 /\ Len(given) \in Nat
    BY <1>1 DEF Visit, TypeOK
  <2>2. Len(given') <= MaxElements
    BY <1>1, <2>1, ElementsAssumption
  <2>3. e \in Elements /\ given' \in Seq(Elements)
    BY <2>1 DEF Arguments
  <2> QED
    BY <1>1, <2>1, <2>2, <2>3, PayloadType DEF Visit, TypeOK, FieldsOK
<1>2. CASE Parsed
  BY <1>2 DEF Parsed, TypeOK, FieldsOK
<1>3. CASE UNCHANGED vars
  BY <1>3 DEF vars, TypeOK, FieldsOK
<1> QED
  BY <1>1, <1>2, <1>3 DEF parseRawArrayCommands

(* The kind, the fields and the elements of a command keep their types     *)
(* through any sequence of visits (ParsePayload).                          *)
THEOREM TypeCorrect == Spec => []TypeOK
BY TypeInit, TypeStep, PTL DEF Spec

-----------------------------------------------------------------------------
(* What a visit does to the key and the value of a SET.                    *)
LEMMA SetVisit ==
    ASSUME FieldsOK, NEW e \in Elements, Visit(e), command'.kind = "SET",
           e.type # "integer"
    PROVE  /\ command.kind = "SET"
           /\ command'.key_ = IF command.key_ = Empty THEN e.text ELSE command.key_
           /\ command'.value_ = IF command.key_ # Empty /\ command.value_ = Empty
                                THEN e.text ELSE command.value_
<1>1. command \in Fields /\ View(e) = e.text
  BY DEF FieldsOK, View
<1>2. SetPayload(e)
  BY <1>1 DEF Visit, ParsePayload, KeyPayload, PingPayload, HelloPayload, UnknownPayload, Fields
<1>3. Option(e).key_ = command.key_ /\ Option(e).value_ = command.value_
  BY <1>1 DEF Option, Fields
<1>4. CASE Refuses(e)
  BY <1>2, <1>4 DEF SetPayload, Refuses
<1>5. CASE ~Refuses(e)
  <2> DEFINE fields == IF command.key_ = Empty THEN [command EXCEPT !.key_ = View(e)]
                       ELSE IF command.value_ = Empty THEN [command EXCEPT !.value_ = View(e)]
                       ELSE Option(e)
  <2>1. command' = [fields EXCEPT !.state_ = "Done"]
    BY <1>2, <1>5 DEF SetPayload, Finished
  <2>2. command'.key_ = fields.key_ /\ command'.value_ = fields.value_
    BY <2>1
  <2> QED
    BY <1>1, <1>2, <1>3, <2>2 DEF SetPayload, Fields
<1> QED
  BY <1>4, <1>5

(* A visit that adds an element, seen from the elements before it          *)
LEMMA Added ==
    ASSUME FieldsOK, NEW e \in Elements, Visit(e)
    PROVE  /\ Len(given) \in Nat /\ Len(given') = Len(given) + 1
           /\ given'[Len(given) + 1] = e
           /\ \A i \in 1..Len(given) : given'[i] = given[i]
BY DEF FieldsOK, Visit

(* A visit of an element, whatever was said before it                      *)
LEMMA TwoVisit ==
    ASSUME FieldsOK, FirstTwo, NEW e \in Elements, e.type = "other" => e.text = Empty, Visit(e)
    PROVE  FirstTwo'
<1> SUFFICES ASSUME command'.kind = "SET", \A i \in 1..Len(given') : given'[i].type # "integer"
             PROVE  FirstTwo'
  BY DEF FirstTwo
<1>0. PICK n \in Nat : n = Len(given)
  BY Added
<1> DEFINE Later(from, to) == \A i \in from..to : ~Said(given'[i])
<1>1. /\ Len(given') = n + 1 /\ given'[n + 1] = e
      /\ \A i \in 1..n : given'[i] = given[i]
  BY <1>0, Added
<1>2. e.type # "integer" /\ \A i \in 1..Len(given) : given[i].type # "integer"
  BY <1>0, <1>1
<1>3. /\ command.kind = "SET"
      /\ command'.key_ = IF command.key_ = Empty THEN e.text ELSE command.key_
      /\ command'.value_ = IF command.key_ # Empty /\ command.value_ = Empty
                           THEN e.text ELSE command.value_
  BY <1>2, SetVisit
<1>4. Said(e) <=> e.text # Empty
  BY <1>2 DEF Said, Elements
<1>5. \A from, to \in Int : from >= 1 /\ to <= n /\ Silent(from, to) => Later(from, to)
  BY <1>1 DEF Silent
<1>6. \A from \in Int : from >= 1 /\ Silent(from, n) /\ e.text = Empty => Later(from, n + 1)
  BY <1>1, <1>4 DEF Silent
<1>7. CASE command.key_ = Empty /\ command.value_ = Empty /\ Silent(1, n)
  <2>1. CASE e.text = Empty
    <3>1. command'.key_ = Empty /\ command'.value_ = Empty /\ Later(1, n + 1)
      BY <1>1, <1>3, <1>6, <1>7, <2>1
    <3> QED
      BY <1>1, <3>1 DEF FirstTwo, Silent
  <2>2. CASE e.text # Empty
    <3>1. Said(given'[n + 1]) /\ Later(1, n)
      BY <1>1, <1>4, <1>5, <1>7, <2>2
    <3>2. command'.key_ = given'[n + 1].text /\ command'.value_ = Empty
      BY <1>1, <1>3, <1>7
    <3>3. Later(n + 2, n + 1)
      OBVIOUS
    <3> QED
      BY <1>1, <3>1, <3>2, <3>3 DEF FirstTwo, Silent
  <2> QED
    BY <2>1, <2>2
<1>8. ASSUME NEW i \in 1..n, Said(given[i]), Silent(1, i - 1), command.key_ = given[i].text
      PROVE  /\ Said(given'[i]) /\ Later(1, i - 1)
             /\ command'.key_ = given'[i].text /\ command.key_ # Empty
  BY <1>1, <1>3, <1>5, <1>8 DEF Said
<1>9. ASSUME NEW i \in 1..n, Said(given[i]), Silent(1, i - 1), command.key_ = given[i].text,
             command.value_ = Empty, Silent(i + 1, n)
      PROVE  FirstTwo'
  <2>1. CASE e.text = Empty
    <3>1. command'.value_ = Empty /\ Later(i + 1, n + 1)
      BY <1>1, <1>3, <1>6, <1>9, <2>1
    <3> QED
      BY <1>1, <1>8, <1>9, <3>1 DEF FirstTwo, Silent
  <2>2. CASE e.text # Empty
    <3>1. Said(given'[n + 1]) /\ Later(i + 1, n)
      BY <1>1, <1>4, <1>5, <1>9, <2>2
    <3>2. command'.value_ = given'[n + 1].text
      BY <1>1, <1>3, <1>8, <1>9
    <3> QED
      BY <1>1, <1>8, <1>9, <3>1, <3>2 DEF FirstTwo, Silent
  <2> QED
    BY <2>1, <2>2
<1>10. ASSUME NEW i \in 1..n, Said(given[i]), Silent(1, i - 1), command.key_ = given[i].text,
              NEW j \in i + 1..n, Said(given[j]), Silent(i + 1, j - 1),
              command.value_ = given[j].text
       PROVE  FirstTwo'
  <2>1. Said(given'[j]) /\ Later(i + 1, j - 1)
    BY <1>1, <1>5, <1>10
  <2>2. command'.value_ = given'[j].text
    BY <1>1, <1>3, <1>10 DEF Said
  <2> QED
    BY <1>1, <1>8, <1>10, <2>1, <2>2 DEF FirstTwo, Silent
<1> QED
  BY <1>0, <1>2, <1>3, <1>7, <1>9, <1>10 DEF FirstTwo

(* FirstTwo is inductive, given the types.                                 *)
LEMMA TwoStep == TypeOK /\ FirstTwo /\ [parseRawArrayCommands]_vars => FirstTwo'
<1> SUFFICES ASSUME TypeOK, FirstTwo, [parseRawArrayCommands]_vars PROVE FirstTwo'
  OBVIOUS
<1>1. CASE UNCHANGED vars \/ Parsed
  BY <1>1 DEF vars, Parsed, FirstTwo, Silent
<1>2. ASSUME NEW e \in Arguments, Visit(e) PROVE FirstTwo'
  <2>1. FieldsOK /\ e \in Elements /\ (e.type = "other" => e.text = Empty)
    BY DEF TypeOK, Arguments
  <2> QED
    BY <1>2, <2>1, TwoVisit
<1> QED
  BY <1>1, <1>2 DEF parseRawArrayCommands

(* A command just begun has neither key nor value.                         *)
LEMMA TwoInit == Init => FirstTwo
BY DEF Init, NewCommand, FirstTwo, Silent

(* Whatever elements follow, and however many, a SET of strings keeps its  *)
(* first two texts as key and value (operator()(CommandSet)).              *)
THEOREM FirstTwoKept == Spec => []FirstTwo
BY TypeInit, TypeStep, TwoInit, TwoStep, PTL DEF Spec

-----------------------------------------------------------------------------
(* INCR leaves an int or nothing, for any width: the sum wraps once.       *)
LEMMA IncrementedType ==
    ASSUME NEW v \in Values
    PROVE  Incremented(v) \in Ints \cup {Null}
<1>1. stoi(v) \in Ints \cup {Null}
  BY StringsAssumption DEF stoi, Values
<1>2. \A n \in Ints : PlusOne(n) \in Ints
  BY NumbersAssumption DEF PlusOne, Ints, IntMin
<1> QED
  BY <1>1, <1>2 DEF Incremented

(* The truncated difference is negative from one millisecond on.           *)
LEMMA Truncation ==
    ASSUME NEW t \in Int
    PROVE  ToMs(t) < 0 <=> t <= -PerMs
<1>1. CASE t >= 0
  BY <1>1, NumbersAssumption DEF ToMs
<1>2. CASE t < 0
  <2> DEFINE y == -t
  <2>1. y \in Nat /\ PerMs \in Nat /\ PerMs > 0
    BY <1>2, NumbersAssumption
  <2>2. y \div PerMs > 0 <=> y >= PerMs
    BY <2>1
  <2> QED
    BY <1>2, <2>1, <2>2 DEF ToMs
<1> QED
  BY <1>1, <1>2

(* The types of a value and of the entry that get() shows.                 *)
LEMMA GetType ==
    ASSUME DatabaseTypeOK, NEW k \in Keys, get(k) # Null
    PROVE  get(k) = map_[k] /\ map_[k] \in ValueType
BY DEF DatabaseTypeOK, get

(* What the database answers has its types.                                *)
LEMMA AnswerType ==
    ASSUME NEW to \in Commands,
           NEW kind \in {"none", "OK", "bulk", "int", "missing", "invalid"},
           NEW value \in Values \cup {0, 1, Null}
    PROVE  Answer(to, kind, value) \in Replies
BY DEF Answer, Replies

(* The entry that a SET leaves has its types.                              *)
LEMMA SetType ==
    ASSUME DatabaseTypeOK, NEW k \in Keys, NEW v \in Values,
           NEW expire \in Nat \cup {Null}, set(k, v, expire)
    PROVE  map_' \in [Keys -> ValueType \cup {Null}]
BY DEF DatabaseTypeOK, set, ValueType

(* DatabaseTypeOK is inductive.                                                    *)
LEMMA DatabaseTypeInit == DatabaseInit => DatabaseTypeOK
<1> SUFFICES ASSUME DatabaseInit PROVE DatabaseTypeOK
  OBVIOUS
<1>1. reply \in Replies
  BY AnswerType DEF DatabaseInit, Commands
<1> QED
  BY <1>1, NumbersAssumption DEF DatabaseInit, DatabaseTypeOK

(* Each operation, and the clock, keeps the types.                         *)
LEMMA DatabaseTypeStep == DatabaseTypeOK /\ [DatabaseNext]_databaseVars => DatabaseTypeOK'
<1> SUFFICES ASSUME DatabaseTypeOK, [DatabaseNext]_databaseVars PROVE DatabaseTypeOK'
  OBVIOUS
<1>1. ASSUME NEW k \in Keys, NEW v \in Values, NEW expire \in 0..MaxTime \cup {Null},
             CommandSet(k, v, expire)
      PROVE  DatabaseTypeOK'
  <2>1. reply' \in Replies
    BY <1>1, AnswerType DEF CommandSet, Commands
  <2>2. map_' \in [Keys -> ValueType \cup {Null}]
    BY <1>1, SetType, NumbersAssumption DEF CommandSet
  <2> QED
    BY <1>1, <2>1, <2>2 DEF CommandSet, DatabaseTypeOK
<1>2. ASSUME NEW k \in Keys, CommandGet(k)
      PROVE  DatabaseTypeOK'
  <2>1. get(k) # Null => get(k).value_ \in Values
    BY GetType DEF ValueType
  <2>2. reply' \in Replies
    BY <1>2, <2>1, AnswerType DEF CommandGet, Commands
  <2> QED
    BY <1>2, <2>2 DEF CommandGet, DatabaseTypeOK
<1>3. ASSUME NEW k \in Keys, CommandExists(k)
      PROVE  DatabaseTypeOK'
  <2>1. reply' \in Replies
    BY <1>3, AnswerType DEF CommandExists, Commands
  <2> QED
    BY <1>3, <2>1 DEF CommandExists, DatabaseTypeOK
<1>4. ASSUME NEW k \in Keys, CommandIncr(k)
      PROVE  DatabaseTypeOK'
  <2>1. reply' \in Replies
    BY <1>4, AnswerType DEF CommandIncr, Commands
  <2>2. map_' \in [Keys -> ValueType \cup {Null}]
    <3>1. CASE UNCHANGED map_
      BY <3>1 DEF DatabaseTypeOK
    <3>2. CASE get(k) # Null /\ Incremented(get(k).value_) # Null
               /\ set(k, Incremented(get(k).value_), Kept(get(k)))
      <4>1. get(k).value_ \in Values /\ Kept(get(k)) \in Nat \cup {Null}
        BY <3>2, GetType DEF ValueType, Kept
      <4>2. Incremented(get(k).value_) \in Values
        BY <3>2, <4>1, IncrementedType DEF Values
      <4> QED
        BY <3>2, <4>1, <4>2, SetType
    <3> QED
      BY <1>4, <3>1, <3>2 DEF CommandIncr
  <2> QED
    BY <1>4, <2>1, <2>2 DEF CommandIncr, DatabaseTypeOK
<1>5. CASE Tick
  BY <1>5, NumbersAssumption DEF Tick, DatabaseTypeOK
<1>6. CASE UNCHANGED databaseVars
  BY <1>6 DEF databaseVars, DatabaseTypeOK
<1> QED
  BY <1>1, <1>2, <1>3, <1>4, <1>5, <1>6 DEF DatabaseNext

(* Every reply, value and point of expiry keeps its type, whatever the     *)
(* commands, keys and texts, and however wide an int is (Db, Database.h).  *)
THEOREM DatabaseTypeCorrect == DatabaseSpec => []DatabaseTypeOK
BY DatabaseTypeInit, DatabaseTypeStep, PTL DEF DatabaseSpec

-----------------------------------------------------------------------------
(* An entry has expired for get() exactly when its deadline is over for    *)
(* the abstract store.                                                     *)
LEMMA ExpiredIsOver ==
    ASSUME NEW entry \in ValueType, NEW time \in Nat
    PROVE  Expired(entry, time) <=> Abstract!Over(time, entry.expire_)
<1>1. CASE entry.expire_ = Null
  BY <1>1 DEF Expired, Abstract!Over
<1>2. CASE entry.expire_ # Null
  <2>1. entry.expire_ \in Nat
    BY <1>2 DEF ValueType
  <2>2. ToMs(entry.expire_ - time) < 0 <=> entry.expire_ - time <= -PerMs
    BY <2>1, Truncation
  <2> QED
    BY <1>2, <2>1, <2>2, NumbersAssumption DEF Expired, Abstract!Over
<1> QED
  BY <1>1, <1>2

(* What the abstract store holds of a key.                                 *)
LEMMA Held ==
    ASSUME DatabaseTypeOK, NEW k \in Keys
    PROVE  /\ Content[k] = IF get(k) # Null THEN get(k).value_ ELSE Null
           /\ Deadline[k] = IF get(k) # Null THEN get(k).expire_ ELSE Null
           /\ Content[k] = Null <=> get(k) = Null
<1>2. get(k) # Null => get(k).value_ # Null
  BY GetType, StringsAssumption DEF ValueType
<1> QED
  BY <1>2, GetType DEF Content, Deadline

(* Storing a value stores it in the abstract map as well, unless it has    *)
(* expired already.                                                        *)
LEMMA SetPuts ==
    ASSUME DatabaseTypeOK, NEW k \in Keys, NEW v \in Values,
           NEW expire \in Nat \cup {Null}, set(k, v, expire), UNCHANGED now
    PROVE  Abstract!Put(k, v, expire)
<1> DEFINE entry == [value_ |-> v, expire_ |-> expire]
<1>1. entry \in ValueType /\ entry # Null /\ now \in Nat
  BY NumbersAssumption, StringsAssumption DEF ValueType, DatabaseTypeOK
<1>2. map_' = [map_ EXCEPT ![k] = entry]
  BY DEF set
<1> DEFINE over == Abstract!Over(now, expire)
<1>3. Expired(entry, now) <=> over
  BY <1>1, ExpiredIsOver
<1>4. \A j \in Keys : get(j)' = IF j = k THEN IF Expired(entry, now) THEN Null ELSE entry
                                ELSE get(j)
  BY <1>1, <1>2 DEF get, DatabaseTypeOK, Expired
<1>5. \A j \in Keys : map_'[j] = IF j = k THEN entry ELSE map_[j]
  BY <1>2 DEF DatabaseTypeOK
<1>6. \A j \in Keys : /\ Content'[j] = IF j = k THEN IF over THEN Null ELSE v ELSE Content[j]
                      /\ Deadline'[j] = IF j = k THEN IF over THEN Null ELSE expire ELSE Deadline[j]
  <2> HIDE DEF over
  <2> TAKE j \in Keys
  <2>1. CASE j = k
    <3>1. map_'[k].value_ = v /\ map_'[k].expire_ = expire
      BY <1>5
    <3>2. get(k)' # Null <=> ~over
      BY <1>1, <1>3, <1>4
    <3> QED
      BY <2>1, <3>1, <3>2 DEF Content, Deadline
  <2>2. CASE j # k
    BY <1>4, <1>5, <2>2 DEF Content, Deadline
  <2> QED
    BY <2>1, <2>2
<1>7. /\ Content = [j \in Keys |-> Content[j]] /\ Content' = [j \in Keys |-> Content'[j]]
      /\ Deadline = [j \in Keys |-> Deadline[j]] /\ Deadline' = [j \in Keys |-> Deadline'[j]]
  BY DEF Content, Deadline
<1> QED
  BY <1>6, <1>7 DEF Abstract!Put

(* A step that leaves map and clock leaves the abstract map.               *)
LEMMA SameView ==
    ASSUME UNCHANGED <<now, map_>>
    PROVE  UNCHANGED <<Content, Deadline>>
BY DEF Content, Deadline, get, Expired

(* A tick drops from the abstract map what it makes get() hide.            *)
LEMMA TickDrops ==
    ASSUME DatabaseTypeOK, Tick
    PROVE  Abstract!Tick
<1> DEFINE Over(k) == Abstract!Over(now', Deadline[k])
<1>1. now \in Nat /\ now' = now + 1 /\ now' \in Nat /\ map_' = map_
  BY NumbersAssumption DEF Tick, DatabaseTypeOK
<1>2. ASSUME NEW k \in Keys
      PROVE  /\ Content'[k] = IF Over(k) THEN Null ELSE Content[k]
             /\ Deadline'[k] = IF Over(k) THEN Null ELSE Deadline[k]
  <2>1. CASE map_[k] = Null
    BY <1>1, <2>1 DEF Content, Deadline, get, Abstract!Over
  <2>2. CASE map_[k] # Null /\ Expired(map_[k], now)
    <3>1. map_[k] \in ValueType
      BY <2>2 DEF DatabaseTypeOK
    <3>2. Expired(map_[k], now')
      BY <1>1, <2>2, <3>1, ExpiredIsOver, NumbersAssumption DEF Abstract!Over, ValueType
    <3> QED
      BY <1>1, <2>2, <3>2 DEF Content, Deadline, get, Abstract!Over
  <2>3. CASE map_[k] # Null /\ ~Expired(map_[k], now)
    <3>1. map_[k] \in ValueType /\ Deadline[k] = map_[k].expire_
      BY <2>3 DEF DatabaseTypeOK, Deadline, get
    <3>2. Expired(map_[k], now') <=> Over(k)
      BY <1>1, <3>1, ExpiredIsOver
    <3> QED
      BY <1>1, <2>3, <3>1, <3>2 DEF Content, Deadline, get
  <2> QED
    BY <2>1, <2>2, <2>3
<1>3. Content' = [k \in Keys |-> IF Over(k) THEN Null ELSE Content[k]]
  BY <1>2 DEF Content
<1>4. Deadline' = [k \in Keys |-> IF Over(k) THEN Null ELSE Deadline[k]]
  BY <1>2 DEF Deadline
<1> QED
  BY <1>3, <1>4 DEF Tick, Abstract!Tick

(* INCR implements the abstract one.                                       *)
LEMMA IncrRefines ==
    ASSUME DatabaseTypeOK, NEW k \in Keys, CommandIncr(k)
    PROVE  Abstract!IncrementKey(k)
<1> DEFINE Increment == [v \in Values |-> Incremented(v)]
<1>1. CASE get(k) = Null
  BY <1>1, Held, SameView
     DEF CommandIncr, Abstract!IncrementKey, Answer, Abstract!Answer
<1>2. CASE get(k) # Null
  <2>1. /\ get(k).value_ \in Values /\ get(k).expire_ \in Nat \cup {Null}
        /\ Content[k] = get(k).value_ /\ Content[k] # Null
        /\ Deadline[k] = get(k).expire_
        /\ Increment[Content[k]] = Incremented(get(k).value_)
    BY <1>2, GetType, Held DEF ValueType
  <2>2. CASE Incremented(get(k).value_) = Null
    BY <1>2, <2>1, <2>2, SameView
       DEF CommandIncr, Abstract!IncrementKey, Answer, Abstract!Answer
  <2>3. CASE Incremented(get(k).value_) # Null
    <3>1. Incremented(get(k).value_) \in Values
      BY <2>1, <2>3, IncrementedType DEF Values
    <3>2. Abstract!Put(k, Incremented(get(k).value_), get(k).expire_)
      BY <1>2, <2>1, <2>3, <3>1, SetPuts DEF CommandIncr, Kept
    <3>3. ~Abstract!Over(now, get(k).expire_)
      BY <1>2, GetType, ExpiredIsOver, NumbersAssumption DEF get, DatabaseTypeOK
    <3>4. Content' = [Content EXCEPT ![k] = Increment[Content[k]]]
      BY <2>1, <3>2, <3>3 DEF Abstract!Put
    <3>5. Deadline' = Deadline
      BY <2>1, <3>2, <3>3 DEF Abstract!Put, Deadline
    <3> QED
      BY <1>2, <2>1, <2>3, <3>4, <3>5
         DEF CommandIncr, Abstract!IncrementKey, Answer, Abstract!Answer
  <2> QED
    BY <2>2, <2>3
<1> QED
  BY <1>1, <1>2

(* The empty map is the empty store.                                       *)
LEMMA InitRefines == DatabaseInit => Abstract!Init
BY DEF DatabaseInit, Abstract!Init, Content, Deadline, get, Answer, Abstract!Answer

(* Each step of the database is one of the store, or none.                 *)
LEMMA StepRefines == DatabaseTypeOK /\ [DatabaseNext]_databaseVars => [Abstract!Next]_(Abstract!vars)
<1> SUFFICES ASSUME DatabaseTypeOK, [DatabaseNext]_databaseVars PROVE [Abstract!Next]_(Abstract!vars)
  OBVIOUS
<1>1. ASSUME NEW k \in Keys, NEW v \in Values, NEW expire \in 0..MaxTime \cup {Null},
             CommandSet(k, v, expire)
      PROVE  Abstract!SetKey(k, v, expire)
  BY <1>1, SetPuts, NumbersAssumption
     DEF CommandSet, Abstract!SetKey, Answer, Abstract!Answer
<1>2. ASSUME NEW k \in Keys, CommandGet(k)
      PROVE  Abstract!GetKey(k)
  BY <1>2, Held, SameView DEF CommandGet, Abstract!GetKey, Answer, Abstract!Answer
<1>3. ASSUME NEW k \in Keys, CommandExists(k)
      PROVE  Abstract!ExistsKey(k)
  BY <1>3, Held, SameView DEF CommandExists, Abstract!ExistsKey, Answer, Abstract!Answer
<1>4. CASE UNCHANGED databaseVars
  BY <1>4, SameView DEF databaseVars, Abstract!vars
<1> QED
  BY <1>1, <1>2, <1>3, <1>4, IncrRefines, TickDrops DEF DatabaseNext, Abstract!Next

(* For any keys, texts, int width and clock, the database whose map never  *)
(* forgets behaves as the store that drops each key after its deadline     *)
(* (Db::get, Database.h, and the handlers of CommandHandler.cpp).          *)
THEOREM Implements == DatabaseSpec => ImplementsStore
BY DatabaseTypeCorrect, InitRefines, StepRefines, PTL DEF DatabaseSpec, ImplementsStore, Abstract!Spec

-----------------------------------------------------------------------------
(* The connection: types                                                   *)

(* How a client sends its requests                                         *)
Manners == {"one", "several", "integers", "parts"}

(* What the clients and the server know of each other, apart from bytes.   *)
BooksOK ==
    /\ FieldsOK
    /\ asked \in [Clients -> Nat] /\ manner \in [Clients -> Manners]
    /\ DOMAIN sent = Clients /\ DOMAIN offset = Clients
    /\ sent = [c \in Clients |-> sent[c]] /\ offset = [c \in Clients |-> offset[c]]
    /\ \A c \in Clients : Book(c) /\ Len(sent[c]) <= asked[c] /\ asked[c] <= MaxAsked[c]
    /\ rest \in Seq(Elements)
    /\ pc \in {"poll", "parse", "dead"} /\ serving \in Clients \cup {None}
    /\ pc = "parse" => serving \in Clients
    /\ buffer = << >>

(* The books are right before anything was sent.                           *)
LEMMA BooksInit == ConnectionInit => BooksOK
<1> SUFFICES ASSUME ConnectionInit PROVE BooksOK
  OBVIOUS
<1>1. FieldsOK
  <2>1. "unknown" \in Kinds
    BY DEF Kinds
  <2>2. command \in Fields
    BY <2>1, FieldsInit DEF ConnectionInit
  <2> QED
    BY <2>2 DEF ConnectionInit, FieldsOK
<1>2. \A c \in Clients : Book(c) /\ Len(sent[c]) <= asked[c] /\ asked[c] <= MaxAsked[c]
  BY RequestsAssumption DEF ConnectionInit, Book
<1>3. manner \in [Clients -> Manners]
  BY DEF ConnectionInit, Manners
<1> QED
  BY <1>1, <1>2, <1>3 DEF ConnectionInit, BooksOK

(* What one recv returns                                                   *)
LEMMA SegmentIs ==
    ASSUME NEW c \in Clients, Book(c), NEW ends, NEW n, n \in Lengths(c, Stream(c), ends),
           NEW segment, segment = SubSeq(Stream(c), 1, n)
    PROVE  /\ n \in Nat \ {0} /\ n <= Len(Stream(c))
           /\ IsPiece(segment, Stream(c), 0, n, Octets) /\ Len(segment) \in Nat \ {0}
<1>1. Stream(c) \in Seq(Octets) /\ Len(Stream(c)) \in Nat
  BY EndsAre DEF EndsOK
<1>2. n \in 1..Len(Stream(c))
  BY DEF Lengths
<1>3. n \in Nat \ {0} /\ n <= Len(Stream(c)) /\ 0 \in Nat /\ 0 <= n /\ 0 + 1 = 1 /\ n - 0 = n
  BY <1>1, <1>2
<1>4. segment = SubSeq(Stream(c), 0 + 1, n)
  BY <1>3
<1>5. IsPiece(segment, Stream(c), 0, n, Octets)
  BY <1>1, <1>3, <1>4, PieceIs
<1> QED
  BY ONLY <1>3, <1>5 DEF IsPiece

(* What a recv makes of its bytes has its types.                           *)
LEMMA InputType ==
    ASSUME NEW s, Len(s) \in Nat \ {0}, handleInput(s), FieldsOK, rest \in Seq(Elements)
    PROVE  FieldsOK' /\ rest' \in Seq(Elements) /\ pc' \in {"poll", "parse", "dead"}
<1> DEFINE r == decode(s, 0)
<1>1. CASE r.fate = "decoded" /\ (r.value.type = "array" => r.value.elements # << >>)
  <2>1. pc' = "parse" /\ convertToCommands(r.value)
    BY <1>1 DEF handleInput
  <2>2. /\ command' \in Fields /\ given' = << >> /\ result' = "parsing"
        /\ rest' \in Seq(Elements)
    <3>1. \A x : x = decode(s, 0) => x = r
      OBVIOUS
    <3> HIDE DEF r
    <3>2. r = decode(s, 0)
      BY DEF r
    <3> QED
      BY <1>1, <2>1, <3>2, ConvertType
  <2> QED
    BY ONLY <2>1, <2>2 DEF FieldsOK
<1>2. CASE /\ ~(r.fate = "decoded" /\ (r.value.type = "array" => r.value.elements # << >>))
           /\ r.fate = "invalid_argument"
  BY <1>2 DEF handleInput, vars, FieldsOK
<1>3. CASE /\ ~(r.fate = "decoded" /\ (r.value.type = "array" => r.value.elements # << >>))
           /\ r.fate # "invalid_argument"
  BY <1>3 DEF handleInput, vars, FieldsOK
<1> QED
  BY <1>1, <1>2, <1>3

(* The books stay right, whatever is sent, received, visited or closed.    *)
LEMMA BooksStep == BooksOK /\ [ConnectionNext]_connectionVars => BooksOK'
<1> SUFFICES ASSUME BooksOK, [ConnectionNext]_connectionVars PROVE BooksOK'
  OBVIOUS
<1>1. ASSUME NEW c \in Clients, Request(c) PROVE BooksOK'
  <2>1. PICK r \in Requests[c] : sent' = [sent EXCEPT ![c] = Append(@, r)]
    BY <1>1 DEF Request
  <2>2. /\ asked' = [asked EXCEPT ![c] = @ + 1] /\ asked[c] < MaxAsked[c]
        /\ UNCHANGED <<offset, manner, pc, serving, rest, buffer, command, given, result>>
    BY <1>1 DEF Request, vars
  <2>3. asked' \in [Clients -> Nat] /\ asked'[c] = asked[c] + 1 /\ asked[c] \in Nat /\ MaxAsked[c] \in Nat
    <3>1. asked \in [Clients -> Nat] /\ MaxAsked[c] \in Nat
      BY RequestsAssumption DEF BooksOK
    <3> QED
      BY ONLY <2>2, <3>1, c \in Clients
  <2>4. sent'[c] = Append(sent[c], r) /\ \A d \in Clients : d # c => sent'[d] = sent[d] /\ asked'[d] = asked[d]
    BY <2>1, <2>2 DEF BooksOK
  <2>5. /\ Book(c) /\ Len(sent[c]) <= asked[c]
    BY DEF BooksOK
  <2>6. /\ sent'[c] \in Seq(Requests[c]) /\ Len(sent'[c]) = Len(sent[c]) + 1 /\ Len(sent[c]) \in Nat
        /\ sent'[c] # << >>
        /\ sent[c] # << >> => sent'[c][1] = sent[c][1]
        /\ sent[c] = << >> => sent'[c][1] = r
    <3> DEFINE q == sent[c]
               p == sent'[c]
    <3>1. q \in Seq(Requests[c]) /\ p = Append(q, r)
      BY <2>4, <2>5 DEF Book
    <3> HIDE DEF p, q
    <3>2. p \in Seq(Requests[c]) /\ Len(p) = Len(q) + 1 /\ Len(q) \in Nat
      BY <3>1
    <3>3. p # << >>
      BY <3>2
    <3>4. q # << >> => p[1] = q[1]
      BY <3>1
    <3>5. q = << >> => p[1] = r
      BY <3>1
    <3> QED
      BY ONLY <3>2, <3>3, <3>4, <3>5 DEF p, q
  <2>7. r \in Written /\ Len(Wire[r]) > 0
    BY WireType DEF Written
  <2>8. Book(c)'
    <3>1. sent[c] = << >> => offset[c] = 0 /\ Len(Wire[r]) \in Nat
      BY <2>5, <2>7, WireType DEF Book
    <3> QED
      BY <2>2, <2>5, <2>6, <2>7, <3>1 DEF Book
  <2>9. Len(sent'[c]) <= asked'[c] /\ asked'[c] <= MaxAsked[c]
    BY ONLY <2>2, <2>3, <2>5, <2>6
  <2>10. \A d \in Clients : Book(d)' /\ Len(sent'[d]) <= asked'[d] /\ asked'[d] <= MaxAsked[d]
    <3> TAKE d \in Clients
    <3>1. CASE d = c
      BY <2>8, <2>9, <3>1
    <3>2. CASE d # c
      <4>1. Book(d) /\ Len(sent[d]) <= asked[d] /\ asked[d] <= MaxAsked[d]
        BY DEF BooksOK
      <4> QED
        BY <2>2, <2>4, <3>2, <4>1 DEF Book
    <3> QED
      BY <3>1, <3>2
  <2>11. DOMAIN sent' = Clients /\ sent' = [d \in Clients |-> sent'[d]]
    BY <2>1 DEF BooksOK
  <2>12. FieldsOK'
    BY <2>2 DEF BooksOK, FieldsOK
  <2> QED
    BY <2>2, <2>3, <2>10, <2>11, <2>12 DEF BooksOK
<1>2. ASSUME NEW c \in Clients, handleClient(c) PROVE BooksOK'
  <2> DEFINE stream == Stream(c)
             ends == Ends(c)
  <2>1. PICK n \in Lengths(c, stream, ends) :
          LET left == Left(c, n, ends)
              came == Manner(c, n, ends) IN
          /\ sent' = [sent EXCEPT ![c] = left.sent]
          /\ offset' = [offset EXCEPT ![c] = left.offset]
          /\ manner' = [manner EXCEPT ![c] = came]
          /\ handleInput(SubSeq(stream, 1, n))
    BY <1>2 DEF handleClient
  <2> DEFINE left == Left(c, n, ends)
             segment == SubSeq(stream, 1, n)
  <2>2. Book(c) /\ Len(sent[c]) <= asked[c] /\ asked[c] <= MaxAsked[c]
    BY DEF BooksOK
  <2>3. n \in Nat \ {0} /\ n <= Len(Stream(c)) /\ Len(segment) \in Nat \ {0}
    BY <2>2, SegmentIs
  <2>4. FieldsOK' /\ rest' \in Seq(Elements) /\ pc' \in {"poll", "parse", "dead"}
    <3> HIDE DEF segment
    <3>1. handleInput(segment)
      BY <2>1 DEF segment
    <3> QED
      BY <2>3, <3>1, InputType DEF BooksOK
  <2>5. /\ sent' = [sent EXCEPT ![c] = left.sent]
        /\ offset' = [offset EXCEPT ![c] = left.offset]
        /\ manner' = [manner EXCEPT ![c] = Manner(c, n, ends)]
    BY <2>1
  <2>6. /\ left.sent \in Seq(Requests[c]) /\ left.offset \in Nat
        /\ Len(left.sent) <= Len(sent[c])
        /\ left.sent = << >> => left.offset = 0
        /\ left.sent # << >> => left.offset < Len(Wire[left.sent[1]])
    BY <2>2, <2>3, LeftBook
  <2>7. Manner(c, n, ends) \in Manners
    BY DEF Manner, Manners
  <2> HIDE DEF left, ends, stream, segment
  <2>8. /\ sent'[c] = left.sent /\ offset'[c] = left.offset
        /\ \A d \in Clients : d # c => sent'[d] = sent[d] /\ offset'[d] = offset[d]
    BY <2>5 DEF BooksOK
  <2>9. Book(c)'
    BY <2>6, <2>8 DEF Book
  <2>10. UNCHANGED <<asked, buffer>> /\ serving' = c
    BY <1>2 DEF handleClient
  <2>11. Len(sent'[c]) <= asked'[c] /\ asked'[c] <= MaxAsked[c]
    <3>1. Len(left.sent) \in Nat /\ Len(sent[c]) \in Nat /\ asked[c] \in Nat
      BY <2>2, <2>6 DEF Book, BooksOK
    <3> QED
      BY <2>2, <2>6, <2>8, <2>10, <3>1
  <2>12. \A d \in Clients : Book(d)' /\ Len(sent'[d]) <= asked'[d] /\ asked'[d] <= MaxAsked[d]
    <3> TAKE d \in Clients
    <3>1. CASE d = c
      BY <2>9, <2>11, <3>1
    <3>2. CASE d # c
      <4>1. Book(d) /\ Len(sent[d]) <= asked[d] /\ asked[d] <= MaxAsked[d]
        BY DEF BooksOK
      <4> QED
        BY <2>8, <2>10, <3>2, <4>1 DEF Book
    <3> QED
      BY <3>1, <3>2
  <2>13. /\ DOMAIN sent' = Clients /\ sent' = [d \in Clients |-> sent'[d]]
         /\ DOMAIN offset' = Clients /\ offset' = [d \in Clients |-> offset'[d]]
         /\ manner' \in [Clients -> Manners]
    BY <2>5, <2>7 DEF BooksOK
  <2> QED
    BY <2>4, <2>10, <2>12, <2>13 DEF BooksOK
<1>3. CASE parse
  <2>1. rest # << >> /\ Visit(Head(rest)) /\ rest' = Tail(rest)
        /\ UNCHANGED <<asked, sent, offset, manner, pc, serving, buffer>>
    BY <1>3 DEF parse
  <2>2. Head(rest) \in Elements /\ rest' \in Seq(Elements)
    BY <2>1 DEF BooksOK
  <2>3. FieldsOK'
    <3> DEFINE e == Head(rest)
    <3>1. e \in Elements /\ result = "parsing" /\ ParsePayload(e) /\ given' = Append(given, e)
      BY <2>1, <2>2 DEF Visit
    <3>2. FieldsOK
      BY DEF BooksOK
    <3> HIDE DEF e
    <3>3. /\ command' \in Fields
          /\ result' \in {"parsing", "Missing key", "Missing version",
                           "Invalid expiration time", "aborted"}
      BY <3>1, <3>2, PayloadType
    <3>4. given' \in Seq(Elements)
      BY <3>1, <3>2 DEF FieldsOK
    <3> QED
      BY <3>3, <3>4 DEF FieldsOK
  <2> QED
    BY <2>1, <2>2, <2>3 DEF BooksOK, Book
<1>4. CASE execute
  <2>1. /\ buffer' = << >> /\ rest' = << >> /\ pc' = "poll"
        /\ UNCHANGED <<asked, sent, offset, manner, serving, command, given, result>>
    BY <1>4 DEF execute, clearBuffer, vars
  <2>2. rest' \in Seq(Elements)
    BY <2>1
  <2> QED
    BY <2>1, <2>2 DEF BooksOK, Book, FieldsOK
<1>5. CASE abort
  BY <1>5 DEF abort, vars, BooksOK, Book, FieldsOK
<1>6. CASE UNCHANGED connectionVars
  BY <1>6 DEF connectionVars, vars, BooksOK, Book, FieldsOK
<1> QED
  BY <1>1, <1>2, <1>3, <1>4, <1>5, <1>6 DEF ConnectionNext

(* The books of every client are kept through parts and whole requests:    *)
(* what the server holds is never more than was written, and a request     *)
(* that has come completely is not counted again (handleClient).           *)
THEOREM ConnectionTypeCorrect == ConnectionSpec => []ConnectionTypeOK
<1>1. BooksOK => ConnectionTypeOK
  BY DEF BooksOK, Book, ConnectionTypeOK
<1> QED
  BY <1>1, BooksInit, BooksStep, PTL DEF ConnectionSpec

-----------------------------------------------------------------------------
(* Pieces of what a recv returns                                           *)

(* w lies in s behind its first bytes                                      *)
Part(w, s, at) ==
    /\ at + Len(w) <= Len(s)
    /\ \A i \in 1..Len(w) : s[at + i] = w[i]

(* Where two sequences lie in both together                                *)
LEMMA PartsOfConcat ==
    ASSUME NEW u \in Seq(Octets), NEW v \in Seq(Octets)
    PROVE  Part(u, u \o v, 0) /\ Part(v, u \o v, Len(u))
<1> DEFINE w == u \o v
<1>1. /\ w \in Seq(Octets) /\ Len(w) = Len(u) + Len(v)
      /\ \A i \in 1..Len(u) : w[i] = u[i]
      /\ \A i \in 1..Len(v) : w[Len(u) + i] = v[i]
  BY Concat
<1>2. Len(u) \in Nat /\ Len(v) \in Nat
  OBVIOUS
<1> HIDE DEF w
<1>3. \A i \in 1..Len(u) : w[0 + i] = u[i]
  <2>1. \A i \in 1..Len(u) : 0 + i = i
    BY ONLY <1>2
  <2> QED
    BY ONLY <1>1, <2>1
<1>4. 0 + Len(u) <= Len(w) /\ Len(u) + Len(v) <= Len(w)
  BY ONLY <1>1, <1>2
<1> QED
  BY ONLY <1>1, <1>3, <1>4 DEF Part, w

(* A part of a part is a part.                                             *)
LEMMA PartOfPart ==
    ASSUME NEW w, NEW u, NEW s, NEW a \in Nat, NEW b \in Nat,
           Len(w) \in Nat, Len(u) \in Nat, Len(s) \in Nat,
           Part(w, u, a), Part(u, s, b), NEW c, c = b + a
    PROVE  Part(w, s, c)
<1>1. \A i \in 1..Len(w) : a + i \in 1..Len(u) /\ b + (a + i) = c + i
  BY DEF Part
<1>2. \A i \in 1..Len(w) : s[c + i] = w[i]
  BY <1>1 DEF Part
<1>3. c + Len(w) <= Len(s)
  BY DEF Part
<1> QED
  BY ONLY <1>2, <1>3 DEF Part

(* What comes behind more is where it was.                                 *)
LEMMA PartBehind ==
    ASSUME NEW w, Len(w) \in Nat, NEW u \in Seq(Octets), NEW v \in Seq(Octets), NEW a \in Nat,
           Part(w, u, a)
    PROVE  Part(w, u \o v, a)
<1>1. Part(u, u \o v, 0) /\ u \o v \in Seq(Octets) /\ Len(u \o v) \in Nat /\ Len(u) \in Nat
  <2>1. Part(u, u \o v, 0) /\ u \o v \in Seq(Octets) /\ Len(u) \in Nat
    BY PartsOfConcat, ConcatType
  <2>2. \A x \in Seq(Octets) : Len(x) \in Nat
    OBVIOUS
  <2> QED
    BY ONLY <2>1, <2>2
<1>2. a = 0 + a
  OBVIOUS
<1> QED
  BY ONLY <1>1, <1>2, PartOfPart, Part(w, u, a), a \in Nat, 0 \in Nat, Len(w) \in Nat

-----------------------------------------------------------------------------
(* The octets that begin no string                                         *)
Tame == Octets \ {Opener}

(* A byte of a text ends no line and begins no string.                     *)
LEMMA TameFacts ==
    /\ Bytes \subseteq Tame /\ Digits \subseteq Tame /\ Tame \subseteq Octets
    /\ CR \in Tame /\ LF \in Tame /\ Star \in Tame /\ Colon \in Tame
    /\ Opener \notin Tame /\ "+" \notin Octets /\ Star # CR /\ Star # LF
    /\ Opener # CR /\ Opener # LF /\ CR \notin Bytes
<1>1. Opener \notin Bytes /\ "+" \notin Bytes /\ CR \notin Bytes
  BY BytesAssumption DEF Opener
<1>2. Opener \notin Digits /\ "+" \notin Digits
  BY DigitFacts DEF Opener
<1>3. /\ Opener # CR /\ Opener # LF /\ Opener # Star /\ Opener # Colon /\ Star # CR /\ Star # LF
      /\ "+" \notin {CR, LF, Opener, Star, Colon, "byte"}
  BY DEF Opener, CR, LF, Star, Colon
<1>4. "+" \notin Octets
  BY <1>1, <1>2, <1>3 DEF Octets
<1> HIDE DEF Octets
<1> QED
  BY <1>1, <1>2, <1>3, <1>4, OctetFacts DEF Tame

(* Nothing in s opens a string but the first of its bytes.                 *)
Quiet(s) == \A i \in 2..Len(s) : s[i] # Opener

(* What is quiet and what has no opener are quiet together.                *)
LEMMA QuietConcat ==
    ASSUME NEW u \in Seq(Octets), NEW v \in Seq(Tame), Quiet(u), Len(u) >= 1
    PROVE  Quiet(u \o v)
<1> DEFINE w == u \o v
<1>1. v \in Seq(Octets) /\ Len(u) \in Nat /\ Len(v) \in Nat
  BY TameFacts
<1>2. /\ Len(w) = Len(u) + Len(v)
      /\ \A i \in 1..Len(u) : w[i] = u[i]
      /\ \A i \in 1..Len(v) : w[Len(u) + i] = v[i]
  BY <1>1, Concat
<1> HIDE DEF w
<1>3. \A i \in 1..Len(v) : v[i] # Opener
  BY TameFacts
<1>4. ASSUME NEW i \in 2..Len(w) PROVE w[i] # Opener
  <2>1. CASE i <= Len(u)
    <3>1. i \in 1..Len(u) /\ i \in 2..Len(u)
      BY <2>1, <1>1
    <3> QED
      BY ONLY <3>1, <1>2, Quiet(u) DEF Quiet
  <2>2. CASE i > Len(u)
    <3>1. i - Len(u) \in 1..Len(v) /\ Len(u) + (i - Len(u)) = i
      BY <2>2, <1>1, <1>2
    <3> QED
      BY ONLY <3>1, <1>2, <1>3
  <2>3. i <= Len(u) \/ i > Len(u)
    BY <1>1
  <2> QED
    BY <2>1, <2>2, <2>3
<1>5. \A i \in 2..Len(w) : w[i] # Opener
  BY ONLY <1>4
<1>6. Quiet(w)
  BY ONLY <1>5 DEF Quiet
<1> QED
  BY ONLY <1>6 DEF w

(* A length is spelled in digits.                                          *)
LEMMA DecimalSeq ==
    ASSUME NEW n \in Nat, n <= 9999
    PROVE  Decimal(n) \in Seq(Digits) /\ Len(Decimal(n)) \in Nat /\ Len(Decimal(n)) > 0
<1> DEFINE l == Len(Decimal(n))
<1>1. Decimal(n) \in Seq(Digits) /\ l \in 1..4
  BY DecimalIs
<1> HIDE DEF l
<1>2. l \in Nat /\ l > 0
  BY ONLY <1>1
<1> QED
  BY <1>1, <1>2 DEF l

(* Where the parts of a bulk string lie                                    *)
BulkParts(b, w, t) ==
    /\ b \in Seq(Octets) /\ Len(b) = 5 + Len(w) + Len(t)
    /\ w \in Seq(Digits) /\ Len(w) \in Nat /\ Len(w) > 0 /\ Len(t) \in Nat
    /\ Part(<<Opener>>, b, 0) /\ Part(w, b, 1) /\ Part(CRLF, b, 1 + Len(w))
    /\ Part(t, b, 3 + Len(w)) /\ Part(CRLF, b, 3 + Len(w) + Len(t))
    /\ Quiet(b)

(* The parts of a bulk string: header, text, end                           *)
LEMMA BulkIs ==
    ASSUME NEW t \in Seq(Bytes), Len(t) <= 9999
    PROVE  BulkParts(Bulk(t), Decimal(Len(t)), t)
<1> DEFINE w == Decimal(Len(t))
           o == <<Opener>>
           head == o \o w
           line == head \o CRLF
           body == line \o t
           b == body \o CRLF
<1>1. Len(t) \in Nat
  OBVIOUS
<1>2. w \in Seq(Digits) /\ Len(w) \in Nat /\ Len(w) > 0
  BY <1>1, DecimalSeq
<1>3. w \in Seq(Octets) /\ w \in Seq(Tame) /\ t \in Seq(Octets) /\ t \in Seq(Tame) /\ CRLF \in Seq(Octets) /\ CRLF \in Seq(Tame)
      /\ Len(CRLF) = 2
  <2>1. \A S : S \subseteq Tame => \A x \in Seq(S) : x \in Seq(Tame) /\ x \in Seq(Octets)
    <3>1. Tame \subseteq Octets
      BY TameFacts
    <3> QED
      BY ONLY <3>1
  <2>2. Bytes \subseteq Tame /\ Digits \subseteq Tame
    BY TameFacts
  <2>3. CRLF \in Seq(Tame) /\ Len(CRLF) = 2
    BY TameFacts DEF CRLF
  <2>4. w \in Seq(Tame) /\ w \in Seq(Octets)
    BY ONLY <1>2, <2>1, <2>2
  <2>5. t \in Seq(Tame) /\ t \in Seq(Octets)
    BY ONLY <2>1, <2>2, t \in Seq(Bytes)
  <2> QED
    BY ONLY <2>3, <2>4, <2>5, CrlfIs
<1>4. o \in Seq(Octets) /\ Len(o) = 1 /\ Quiet(o) /\ Len(o) >= 1
  BY OctetFacts, SingleType DEF Quiet
<1>5. b = Bulk(t)
  BY DEF Bulk, Opener
<1> HIDE DEF o, w
<1>6. head \in Seq(Octets) /\ Len(head) = 1 + Len(w) /\ Quiet(head) /\ Len(head) \in Nat /\ Len(head) >= 1
  <2>1. head \in Seq(Octets) /\ Len(head) = Len(o) + Len(w)
    BY ONLY <1>3, <1>4, ConcatType
  <2>2. Quiet(head)
    BY ONLY <1>3, <1>4, QuietConcat
  <2> QED
    BY ONLY <2>1, <2>2, <1>2, <1>4
<1>7. Part(o, head, 0) /\ Part(w, head, 1)
  <2>1. Part(o, head, 0) /\ Part(w, head, Len(o))
    BY ONLY <1>3, <1>4, PartsOfConcat
  <2> QED
    BY ONLY <1>4, <2>1
<1> HIDE DEF head
<1>8. line \in Seq(Octets) /\ Len(line) = 3 + Len(w) /\ Quiet(line) /\ Len(line) \in Nat /\ Len(line) >= 1
  <2>1. line \in Seq(Octets) /\ Len(line) = Len(head) + Len(CRLF)
    BY ONLY <1>3, <1>6, ConcatType
  <2>2. Quiet(line)
    BY ONLY <1>3, <1>6, QuietConcat
  <2> QED
    BY ONLY <2>1, <2>2, <1>2, <1>3, <1>6
<1>9. Part(o, line, 0) /\ Part(w, line, 1) /\ Part(CRLF, line, 1 + Len(w))
  <2>1. Part(CRLF, line, Len(head))
    BY ONLY <1>3, <1>6, PartsOfConcat
  <2>2. Part(o, line, 0)
    BY ONLY <1>3, <1>4, <1>6, <1>7, PartBehind, 0 \in Nat, 1 \in Nat
  <2>3. Part(w, line, 1)
    BY ONLY <1>2, <1>3, <1>6, <1>7, PartBehind, 1 \in Nat
  <2> QED
    BY ONLY <1>6, <2>1, <2>2, <2>3
<1> HIDE DEF line
<1>10. body \in Seq(Octets) /\ Len(body) = 3 + Len(w) + Len(t) /\ Quiet(body) /\ Len(body) \in Nat /\ Len(body) >= 1
  <2>1. body \in Seq(Octets) /\ Len(body) = Len(line) + Len(t)
    BY ONLY <1>3, <1>8, ConcatType
  <2>2. Quiet(body)
    BY ONLY <1>3, <1>8, QuietConcat
  <2> QED
    BY ONLY <2>1, <2>2, <1>1, <1>2, <1>8
<1>11. 1 + Len(w) \in Nat /\ 3 + Len(w) \in Nat /\ Len(CRLF) \in Nat /\ Len(o) \in Nat
  BY ONLY <1>2, <1>3, <1>4
<1>12. Part(o, body, 0) /\ Part(w, body, 1) /\ Part(CRLF, body, 1 + Len(w)) /\ Part(t, body, 3 + Len(w))
  <2>1. Part(t, body, Len(line))
    BY ONLY <1>3, <1>8, PartsOfConcat
  <2>2. Part(o, body, 0)
    BY ONLY <1>3, <1>8, <1>9, <1>11, PartBehind, 0 \in Nat
  <2>3. Part(w, body, 1)
    BY ONLY <1>2, <1>3, <1>8, <1>9, PartBehind, 1 \in Nat
  <2>4. Part(CRLF, body, 1 + Len(w))
    BY ONLY <1>3, <1>8, <1>9, <1>11, PartBehind
  <2> QED
    BY ONLY <1>8, <2>1, <2>2, <2>3, <2>4
<1> HIDE DEF body
<1>13. b \in Seq(Octets) /\ Len(b) = 5 + Len(w) + Len(t) /\ Quiet(b)
  <2>1. b \in Seq(Octets) /\ Len(b) = Len(body) + Len(CRLF)
    BY ONLY <1>3, <1>10, ConcatType
  <2>2. Quiet(b)
    BY ONLY <1>3, <1>10, QuietConcat
  <2> QED
    BY ONLY <2>1, <2>2, <1>1, <1>2, <1>3, <1>10
<1>14. Part(o, b, 0) /\ Part(w, b, 1) /\ Part(CRLF, b, 1 + Len(w)) /\ Part(t, b, 3 + Len(w))
       /\ Part(CRLF, b, 3 + Len(w) + Len(t))
  <2>1. Part(CRLF, b, Len(body))
    BY ONLY <1>3, <1>10, PartsOfConcat
  <2>2. Part(o, b, 0)
    BY ONLY <1>3, <1>10, <1>11, <1>12, PartBehind, 0 \in Nat
  <2>3. Part(w, b, 1)
    BY ONLY <1>2, <1>3, <1>10, <1>12, PartBehind, 1 \in Nat
  <2>4. Part(CRLF, b, 1 + Len(w))
    BY ONLY <1>3, <1>10, <1>11, <1>12, PartBehind
  <2>5. Part(t, b, 3 + Len(w))
    BY ONLY <1>1, <1>3, <1>10, <1>11, <1>12, PartBehind
  <2> QED
    BY ONLY <1>10, <2>1, <2>2, <2>3, <2>4, <2>5
<1> HIDE DEF b
<1> QED
  BY ONLY <1>1, <1>2, <1>5, <1>13, <1>14 DEF BulkParts, o, w

-----------------------------------------------------------------------------
(* Headers                                                                 *)

(* w lies in s as far as s goes.                                           *)
Lies(w, s, at) == \A i \in 1..Len(w) : at + i <= Len(s) => s[at + i] = w[i]

(* A part that lies in a sequence lies there as far as it goes.            *)
LEMMA LiesPart ==
    ASSUME NEW u, NEW w, NEW s, NEW a \in Nat, NEW at \in Nat, NEW c, c = at + a,
           Len(u) \in Nat, Len(w) \in Nat, Part(u, w, a), Lies(w, s, at)
    PROVE  Lies(u, s, c)
<1>1. \A i \in 1..Len(u) : a + i \in 1..Len(w) /\ at + (a + i) = c + i
  BY DEF Part
<1>2. \A i \in 1..Len(u) : c + i <= Len(s) => s[c + i] = u[i]
  BY <1>1 DEF Part, Lies
<1> QED
  BY ONLY <1>2 DEF Lies

(* at() counts from nought.                                                *)
LEMMA ByteIs ==
    ASSUME NEW s, Len(s) \in Nat, NEW at \in Nat
    PROVE  /\ at < Len(s) => Byte(s, at) = s[at + 1]
           /\ at >= Len(s) => Byte(s, at) = "NUL"
BY DEF Byte

(* The bytes that w has in s                                               *)
Shows(w, s, at) == \A i \in 0..Len(w) - 1 : at + i < Len(s) => Byte(s, at + i) = w[i + 1]

(* Lies and Shows are the same.                                            *)
LEMMA LiesBytes ==
    ASSUME NEW s, Len(s) \in Nat, NEW at \in Nat, NEW w, Len(w) \in Nat, Lies(w, s, at)
    PROVE  Shows(w, s, at)
<1> SUFFICES ASSUME NEW i \in 0..Len(w) - 1, at + i < Len(s)
             PROVE  Byte(s, at + i) = w[i + 1]
  BY DEF Shows
<1>1. i + 1 \in 1..Len(w) /\ at + (i + 1) <= Len(s) /\ at + (i + 1) = (at + i) + 1 /\ at + i \in Nat
  OBVIOUS
<1>2. s[(at + i) + 1] = w[i + 1]
  BY ONLY <1>1, Lies(w, s, at) DEF Lies
<1> QED
  BY <1>1, <1>2, ByteIs

(* The number that a header of a length shows                              *)
LEMMA NumberIs ==
    ASSUME NEW s, Len(s) \in Nat, NEW at \in Nat, NEW n \in Nat, n <= 9999,
           NEW w, w = Decimal(n), Lies(w, s, at), at + Len(w) < Len(s),
           Byte(s, at + Len(w)) \notin Digits
    PROVE  Number(s, at) = n
<1> DEFINE m == Len(w)
<1>1. w \in Seq(Digits) /\ m \in Nat /\ m > 0
  BY DecimalSeq
<1>2. \A i \in 1..m : w[i] \in Digits
  BY <1>1
<1> HIDE DEF m
<1>3. \A i \in 0..m - 1 : at + i < Len(s) => Byte(s, at + i) = w[i + 1]
  <2>1. Shows(w, s, at)
    BY <1>1, LiesBytes DEF m
  <2> QED
    BY ONLY <2>1 DEF Shows, m
<1>4. at + m < Len(s) /\ Byte(s, at + m) \notin Digits
  BY DEF m
<1>5. \A k \in 1..m : Byte(s, at + k - 1) = w[k]
  <2> TAKE k \in 1..m
  <2>1. k - 1 \in 0..m - 1 /\ at + (k - 1) < Len(s) /\ (k - 1) + 1 = k /\ at + (k - 1) = at + k - 1
    BY <1>1, <1>4
  <2> QED
    BY ONLY <2>1, <1>3
<1>6. \A i \in at..at + m - 1 : Byte(s, i) \in Digits
  <2> TAKE i \in at..at + m - 1
  <2>1. i - at + 1 \in 1..m /\ at + (i - at + 1) - 1 = i
    BY <1>1
  <2> QED
    BY ONLY <2>1, <1>2, <1>5
<1>7. DigitsEnd(s, at) = at + m
  <2> DEFINE e == at + m
  <2>1. e \in at..Len(s)
    BY <1>1, <1>4
  <2>4. e = at + m
    OBVIOUS
  <2> HIDE DEF e
  <2>2. Byte(s, e) \notin Digits /\ \A i \in at..e - 1 : Byte(s, i) \in Digits
    <3>1. Byte(s, e) \notin Digits
      BY ONLY <1>4, <2>4
    <3>2. \A i \in at..e - 1 : i \in at..at + m - 1
      BY <1>1, <2>4
    <3> QED
      BY ONLY <1>6, <3>1, <3>2
  <2>3. DigitsEnd(s, at) = e
    BY <2>1, <2>2, DigitsEndIs
  <2> QED
    BY <2>3 DEF e
<1>8. m = DigitsEnd(s, at) - at /\ at <= Len(s) /\ m # 0
  BY <1>1, <1>4, <1>7
<1>9. PICK read \in [0..m -> Nat] :
                 /\ read[0] = 0 /\ Number(s, at) = read[m]
                 /\ \A k \in 1..m : read[k] = 10 * read[k - 1] + DigitValue[Byte(s, at + k - 1)]
  BY <1>8, NumberRead
<1>10. Reads(read, w)
  BY ONLY <1>5, <1>9 DEF m, Reads
<1>11. read[Len(w)] = n
  <2>1. \A f : Reads(f, Decimal(n)) => f[Len(Decimal(n))] = n
    BY DecimalIs
  <2> QED
    BY ONLY <1>10, <2>1, w = Decimal(n)
<1> QED
  BY ONLY <1>9, <1>11 DEF m

(* Where the first line ends behind a header (find)                        *)
LEMMA LineEndIs ==
    ASSUME NEW s, Len(s) \in Nat, NEW at \in Nat, NEW e \in Nat, at <= e,
           \A i \in at..e - 1 : Byte(s, i) \notin {CR, LF}, e < Len(s) => Byte(s, e) \in {CR, LF}
    PROVE  LineEnd(s, at) = IF e < Len(s) THEN e ELSE npos
<1> DEFINE P(i) == /\ Byte(s, i) \in {CR, LF}
                   /\ \A j \in at..i - 1 : Byte(s, j) \notin {CR, LF}
<1>1. CASE e < Len(s)
  <2>1. P(e) /\ e \in at..Len(s) - 1
    BY <1>1
  <2>2. ASSUME NEW i \in at..Len(s) - 1, P(i) PROVE i = e
    <3>1. CASE i < e
      <4>1. i \in at..e - 1
        BY <3>1
      <4> QED
        BY <4>1, <2>2
    <3>2. CASE e < i
      <4>1. e \in at..i - 1
        BY <3>2
      <4> QED
        BY <4>1, <2>1, <2>2
    <3> QED
      BY <3>1, <3>2
  <2>3. LineEnd(s, at) = CHOOSE i \in at..Len(s) - 1 : P(i)
    BY <2>1 DEF LineEnd
  <2> HIDE DEF P
  <2> QED
    BY <1>1, <2>1, <2>2, <2>3
<1>2. CASE ~(e < Len(s))
  <2>1. \A i \in at..Len(s) - 1 : i \in at..e - 1
    BY <1>2
  <2>2. ~(\E i \in at..Len(s) - 1 : Byte(s, i) \in {CR, LF})
    BY <2>1
  <2> QED
    BY <1>2, <2>2 DEF LineEnd
<1> QED
  BY <1>1, <1>2

(* What decode() reads of a type, a number and the line's end              *)
HeaderAt(s, at, e, n) ==
    /\ e < Len(s) => /\ LineEnd(s, at) = e /\ Number(s, at + 1) = n
                     /\ Byte(s, at + 1) \in Digits /\ at + 1 < Len(s)
    /\ ~(e < Len(s)) => LineEnd(s, at) = npos

(* What decode() reads of a header: the end of its line and its length     *)
LEMMA HeaderRead ==
    ASSUME NEW s, Len(s) \in Nat, NEW at \in Nat, at < Len(s), NEW n \in Nat, n <= 9999,
           Byte(s, at) \notin {CR, LF}, NEW w, w = Decimal(n), Lies(w, s, at + 1),
           NEW e, e = at + 1 + Len(w), Lies(CRLF, s, e)
    PROVE  HeaderAt(s, at, e, n)
<1> DEFINE m == Len(w)
<1>1. w \in Seq(Digits) /\ m \in Nat /\ m > 0
  BY DecimalSeq
<1>2. \A i \in 1..m : w[i] \in Digits
  BY <1>1
<1> HIDE DEF m
<1>3. e = at + 1 + m /\ e \in Nat /\ at + 1 \in Nat
  BY <1>1 DEF m
<1>4. \A i \in 0..m - 1 : (at + 1) + i < Len(s) => Byte(s, (at + 1) + i) = w[i + 1]
  <2>1. Shows(w, s, at + 1)
    BY <1>1, <1>3, LiesBytes DEF m
  <2> QED
    BY ONLY <2>1 DEF Shows, m
<1>5. \A i \in at + 1..e - 1 : i < Len(s) => Byte(s, i) \in Digits
  <2> TAKE i \in at + 1..e - 1
  <2>1. i - (at + 1) \in 0..m - 1 /\ (at + 1) + (i - (at + 1)) = i /\ (i - (at + 1)) + 1 \in 1..m
    BY <1>1, <1>3
  <2> QED
    BY ONLY <2>1, <1>2, <1>4
<1>6. e < Len(s) => Byte(s, e) = CR
  <2>1. Shows(CRLF, s, e)
    <3>1. Len(CRLF) \in Nat
      BY CrlfIs
    <3> QED
      BY ONLY <1>3, <3>1, LiesBytes, Lies(CRLF, s, e), Len(s) \in Nat
  <2>2. 0 \in 0..Len(CRLF) - 1 /\ e + 0 = e /\ 0 + 1 = 1
    BY <1>3, CrlfIs
  <2>3. e < Len(s) => Byte(s, e) = CRLF[1]
    BY ONLY <2>1, <2>2 DEF Shows
  <2> QED
    BY <2>3, CrlfIs
<1>7. CR \notin Digits /\ LF \notin Digits /\ CR # "NUL" /\ LF # "NUL"
  BY DigitFacts DEF CR, LF
<1>8. \A i \in at..e - 1 : Byte(s, i) \notin {CR, LF}
  <2> TAKE i \in at..e - 1
  <2>1. i = at \/ i \in at + 1..e - 1
    BY <1>3
  <2>2. i \in Nat
    OBVIOUS
  <2>3. i >= Len(s) => Byte(s, i) = "NUL"
    BY <2>2, ByteIs
  <2>4. i < Len(s) \/ i >= Len(s)
    BY <2>2
  <2> QED
    BY ONLY <2>1, <2>3, <2>4, <1>5, <1>7, Byte(s, at) \notin {CR, LF}
<1>9. LineEnd(s, at) = IF e < Len(s) THEN e ELSE npos
  <2>1. at <= e
    BY <1>1, <1>3
  <2> QED
    BY <1>3, <1>6, <1>8, <2>1, LineEndIs
<1>10. ASSUME e < Len(s)
       PROVE  Number(s, at + 1) = n /\ Byte(s, at + 1) \in Digits /\ at + 1 < Len(s)
  <2>1. Byte(s, (at + 1) + m) \notin Digits /\ (at + 1) + m < Len(s)
    BY <1>3, <1>6, <1>7, <1>10
  <2>2. Number(s, at + 1) = n
    BY <1>3, <2>1, NumberIs DEF m
  <2>3. at + 1 \in at + 1..e - 1 /\ at + 1 < Len(s)
    BY <1>1, <1>3, <1>10
  <2> QED
    BY <1>5, <2>2, <2>3
<1> QED
  BY <1>9, <1>10 DEF HeaderAt

-----------------------------------------------------------------------------
(* Bulk strings                                                            *)

(* A bulk string is decoded as a whole or not at all.                      *)
LEMMA BulkRead ==
    ASSUME NEW s \in Seq(Octets), NEW at \in Nat, at < Len(s),
           NEW t \in Seq(Bytes), Len(t) <= 9999, NEW b, b = Bulk(t), Lies(b, s, at),
           NEW r, r = decodeBulkString(s, at)
    PROVE  /\ Byte(s, at) = Opener
           /\ at + Len(b) <= Len(s) + 1 => r = Decoded(at + Len(b), Value("string", t, << >>))
           /\ ~(at + Len(b) <= Len(s) + 1) => r = Refused
<1> DEFINE n == Len(t)
           w == Decimal(n)
           m == Len(w)
           e == at + 1 + m
           text == e + 2
<1>1. n \in Nat /\ Len(s) \in Nat /\ n <= 9999
  OBVIOUS
<1>2. BulkParts(b, w, t)
  BY BulkIs
<1> HIDE DEF n, w
<1>3. /\ Len(b) = 5 + m + n /\ w \in Seq(Digits) /\ m \in Nat /\ m > 0
      /\ Part(<<Opener>>, b, 0) /\ Part(w, b, 1) /\ Part(CRLF, b, 1 + m)
      /\ Part(t, b, 3 + m) /\ Part(CRLF, b, 3 + m + n)
  BY <1>2 DEF BulkParts, n
<1>4. Len(CRLF) \in Nat /\ CRLF[1] = CR /\ CRLF[2] = LF /\ Len(CRLF) = 2
  BY CrlfIs
<1> HIDE DEF m
<1>5. Len(b) \in Nat /\ e \in Nat /\ text \in Nat /\ 1 + m \in Nat /\ 3 + m \in Nat /\ 3 + m + n \in Nat
  BY <1>1, <1>3
<1>6. Lies(w, s, at + 1)
  BY ONLY <1>3, <1>5, LiesPart, Lies(b, s, at), at \in Nat, 1 \in Nat DEF m
<1>7. Lies(CRLF, s, e)
  <2>1. e = at + (1 + m)
    BY <1>3
  <2> HIDE DEF e
  <2> QED
    BY ONLY <1>3, <1>4, <1>5, <2>1, LiesPart, Lies(b, s, at), at \in Nat
<1>8. Lies(t, s, text)
  <2>1. text = at + (3 + m) /\ Len(t) \in Nat
    BY <1>1, <1>3 DEF n
  <2> HIDE DEF text
  <2> QED
    BY ONLY <1>3, <1>5, <2>1, LiesPart, Lies(b, s, at), at \in Nat
<1>9. Lies(CRLF, s, text + n)
  <2>1. text + n = at + (3 + m + n)
    BY <1>1, <1>3
  <2> HIDE DEF text
  <2> QED
    BY ONLY <1>3, <1>4, <1>5, <2>1, LiesPart, Lies(b, s, at), at \in Nat
<1>10. s[at + 1] = Opener
  <2>1. b[0 + 1] = Opener
    <3>1. Len(<<Opener>>) = 1 /\ <<Opener>>[1] = Opener
      OBVIOUS
    <3> QED
      BY <3>1, <1>3 DEF Part
  <2>2. at + 1 <= Len(s) /\ 1 \in 1..Len(b) /\ 0 + 1 = 1
    BY <1>1, <1>3
  <2> QED
    BY ONLY <2>1, <2>2, Lies(b, s, at) DEF Lies
<1>11. Byte(s, at) = Opener
  BY <1>1, <1>10, ByteIs
<1>12. HeaderAt(s, at, e, n)
  <2>1. Byte(s, at) \notin {CR, LF}
    BY <1>11, TameFacts
  <2>2. e = at + 1 + Len(w) /\ w = Decimal(n)
    BY DEF m, w
  <2> HIDE DEF e
  <2> QED
    BY <1>1, <1>6, <1>7, <2>1, <2>2, HeaderRead
<1>13. at + Len(b) = text + n + 2
  BY <1>1, <1>3
<1>16. text = e + 2
  OBVIOUS
<1> HIDE DEF text, e
<1>14. CASE ~(e < Len(s))
  <2>1. LineEnd(s, at) = npos
    BY <1>12, <1>14 DEF HeaderAt
  <2>2. ~(at + Len(b) <= Len(s) + 1)
    BY ONLY <1>1, <1>5, <1>13, <1>14, <1>16
  <2> QED
    BY <1>11, <2>1, <2>2 DEF decodeBulkString, text, e
<1>15. CASE e < Len(s)
  <2>1. /\ LineEnd(s, at) = e /\ Number(s, at + 1) = n
        /\ Byte(s, at + 1) \in Digits /\ at + 1 < Len(s)
    BY <1>12, <1>15 DEF HeaderAt
  <2>2. e # npos /\ n # npos
    BY <1>1, <1>5, OffsetAssumption
  <2>3. Slice(s, at + 1, e) # <<"-", "1">>
    <3> DEFINE p == Slice(s, at + 1, e)
    <3>1. p = SubSeq(s, (at + 1) + 1, e)
      BY <1>1, <1>5, <1>15 DEF Slice
    <3>2. at + 1 \in Nat /\ at + 1 <= e /\ e <= Len(s) /\ 1 \in 1..e - (at + 1)
      BY <1>1, <1>3, <1>15 DEF e
    <3> HIDE DEF p
    <3>3. IsPiece(p, s, at + 1, e, Octets)
      BY ONLY <1>5, <3>1, <3>2, PieceIs, s \in Seq(Octets)
    <3>4. p[1] = s[(at + 1) + 1]
      BY <3>2, <3>3 DEF IsPiece
    <3>5. Byte(s, at + 1) = s[(at + 1) + 1]
      BY <1>1, <2>1, ByteIs
    <3>6. p[1] \in Digits
      BY <2>1, <3>4, <3>5
    <3>7. p[1] # "-"
      BY <3>6, DigitFacts
    <3> QED
      BY <3>7 DEF p
  <2>4. CASE ~(text + n < Len(s))
    <3>1. Byte(s, text + n) = "NUL"
      BY <1>1, <1>5, <2>4, ByteIs
    <3>2. ~Delimited(s, text + n)
      BY <3>1 DEF Delimited, CR
    <3>3. ~(at + Len(b) <= Len(s) + 1)
      BY ONLY <1>1, <1>5, <1>13, <2>4
    <3>4. r = Refused
      BY <2>1, <2>2, <2>3, <3>2 DEF decodeBulkString, text
    <3> QED
      BY <1>11, <3>3, <3>4
  <2>5. CASE text + n < Len(s)
    <3>1. Byte(s, text + n) = CR
      <4>1. s[text + n + 1] = CR
        <5>1. 1 \in 1..Len(CRLF) /\ text + n + 1 <= Len(s)
          BY <1>1, <1>4, <1>5, <2>5
        <5> QED
          BY <5>1, <1>4, <1>9 DEF Lies
      <4>2. text + n \in Nat
        BY <1>1, <1>5
      <4> QED
        BY <1>1, <2>5, <4>1, <4>2, ByteIs
    <3>2. Delimited(s, text + n)
      BY <3>1 DEF Delimited
    <3>3. \A i \in text..text + n - 1 : s[i + 1] = t[i - text + 1] /\ s[i + 1] # CR
      <4> TAKE i \in text..text + n - 1
      <4>1. i - text + 1 \in 1..n /\ text + (i - text + 1) = i + 1 /\ i + 1 <= Len(s)
        BY <1>1, <1>5, <2>5
      <4>2. s[i + 1] = t[i - text + 1]
        BY ONLY <4>1, <1>8 DEF Lies, n
      <4>3. t[i - text + 1] \in Bytes
        BY <4>1 DEF n
      <4> QED
        BY <4>2, <4>3, TameFacts
    <3>4. ASSUME NEW i \in text..text + n - 2 PROVE Slice(s, i, i + 2) # CRLF
      <4> DEFINE p == Slice(s, i, i + 2)
      <4>1. i \in Nat /\ i + 2 \in Nat /\ i <= i + 2 /\ i + 2 <= Len(s) /\ 1 \in 1..(i + 2) - i
        BY <1>1, <1>5, <2>5
      <4>2. p = SubSeq(s, i + 1, i + 2)
        BY <4>1 DEF Slice
      <4> HIDE DEF p
      <4>3. IsPiece(p, s, i, i + 2, Octets)
        BY ONLY <4>1, <4>2, PieceIs, s \in Seq(Octets)
      <4>4. p[1] = s[i + 1]
        BY <4>1, <4>3 DEF IsPiece
      <4>5. i \in text..text + n - 1
        BY <1>1, <1>5
      <4>6. p[1] # CR
        BY <3>3, <4>4, <4>5
      <4> QED
        BY <4>6, <1>4 DEF p
    <3>5. Slice(s, text, text + n) = t
      <4> DEFINE p == Slice(s, text, text + n)
      <4>1. text \in Nat /\ text + n \in Nat /\ text <= text + n /\ text + n <= Len(s)
        BY <1>1, <1>5, <2>5
      <4>2. p = SubSeq(s, text + 1, text + n)
        BY <4>1 DEF Slice
      <4> HIDE DEF p
      <4>3. IsPiece(p, s, text, text + n, Octets)
        BY ONLY <4>1, <4>2, PieceIs, s \in Seq(Octets)
      <4>4. p \in Seq(Octets) /\ Len(p) = n
        BY <1>1, <1>5, <4>3 DEF IsPiece
      <4>5. \A i \in 1..n : p[i] = t[i]
        <5> TAKE i \in 1..n
        <5>1. i \in 1..(text + n) - text /\ text + i <= Len(s)
          BY <1>1, <1>5, <2>5
        <5>2. p[i] = s[text + i]
          BY ONLY <4>3, <5>1 DEF IsPiece
        <5>3. s[text + i] = t[i]
          BY <1>8, <5>1 DEF Lies, n
        <5> QED
          BY <5>2, <5>3
      <4>6. t \in Seq(Octets) /\ Len(t) = n
        BY OctetFacts, WiderType DEF n
      <4>7. p = t
        BY ONLY <4>4, <4>5, <4>6
      <4> QED
        BY <4>7 DEF p
    <3>6. ~(\E i \in text..text + n - 2 : Slice(s, i, i + 2) = CRLF)
      BY <3>4
    <3>7. r = Decoded(Behind(text + n), Value("string", t, << >>))
      BY <2>1, <2>2, <2>3, <3>2, <3>5, <3>6 DEF decodeBulkString, text
    <3>8. Behind(text + n) = at + Len(b)
      BY <1>13 DEF Behind
    <3>9. at + Len(b) <= Len(s) + 1
      BY ONLY <1>1, <1>5, <1>13, <2>5
    <3> QED
      BY <1>11, <3>7, <3>8, <3>9
  <2> QED
    BY <2>4, <2>5
<1> QED
  BY <1>14, <1>15

-----------------------------------------------------------------------------
(* What begins a string                                                    *)

(* What the texts are spelled as                                           *)
Known == {Spelling[t] : t \in Texts \ {Torn}}

(* Known texts are made of bytes.                                          *)
LEMMA KnownType ==
    ASSUME NEW t \in Known
    PROVE  t \in Seq(Bytes) /\ Len(t) <= 9999
BY TextSpelled DEF Known

(* Each string that opens is a whole one of a known text.                  *)
Solid(s) ==
    /\ s \in Seq(Octets)
    /\ \A p \in 0..Len(s) - 1 : s[p + 1] = Opener => \E t \in Known : Part(Bulk(t), s, p)

(* How long a bulk string is                                               *)
LEMMA BulkLen ==
    ASSUME NEW t \in Known
    PROVE  Bulk(t) \in Seq(Octets) /\ Len(Bulk(t)) \in Nat /\ Quiet(Bulk(t))
<1>1. BulkParts(Bulk(t), Decimal(Len(t)), t)
  BY KnownType, BulkIs
<1>2. Bulk(t) \in Seq(Octets) /\ Quiet(Bulk(t))
  BY <1>1 DEF BulkParts
<1> QED
  BY <1>2

(* A bulk string of a known text is solid.                                 *)
LEMMA SolidBulk ==
    ASSUME NEW t \in Known
    PROVE  Solid(Bulk(t))
<1> DEFINE b == Bulk(t)
<1>1. b \in Seq(Octets) /\ Len(b) \in Nat /\ Quiet(b)
  BY BulkLen
<1>2. Part(b, b, 0)
  <2>1. \A i \in 1..Len(b) : 0 + i = i
    BY <1>1
  <2> QED
    BY <1>1, <2>1 DEF Part
<1>3. ASSUME NEW p \in 0..Len(b) - 1, b[p + 1] = Opener PROVE Part(b, b, p)
  <2>1. p = 0
    <3>1. SUFFICES ASSUME p # 0 PROVE FALSE
      OBVIOUS
    <3>2. p + 1 \in 2..Len(b)
      BY <1>1, <3>1
    <3> QED
      BY <1>1, <1>3, <3>2 DEF Quiet
  <2> QED
    BY <1>2, <2>1
<1> QED
  BY <1>1, <1>3 DEF Solid

(* Without an opener everything is solid.                                  *)
LEMMA SolidTame ==
    ASSUME NEW s \in Seq(Tame)
    PROVE  Solid(s)
<1>1. s \in Seq(Octets)
  BY TameFacts
<1>2. \A p \in 0..Len(s) - 1 : s[p + 1] \in Tame
  BY <1>1
<1> QED
  BY <1>1, <1>2, TameFacts DEF Solid

(* Solid pieces make a solid whole.                                        *)
LEMMA SolidConcat ==
    ASSUME NEW u, NEW v, Solid(u), Solid(v)
    PROVE  Solid(u \o v)
<1> DEFINE w == u \o v
<1>1. u \in Seq(Octets) /\ v \in Seq(Octets)
  BY DEF Solid
<1>2. /\ w \in Seq(Octets) /\ Len(w) = Len(u) + Len(v) /\ Len(u) \in Nat /\ Len(v) \in Nat
  BY <1>1, ConcatType
<1>3. /\ \A i \in 1..Len(u) : w[i] = u[i]
      /\ \A i \in 1..Len(v) : w[Len(u) + i] = v[i]
  BY <1>1, Concat
<1>4. Part(u, w, 0) /\ Part(v, w, Len(u))
  BY <1>1, PartsOfConcat
<1> HIDE DEF w
<1>5. ASSUME NEW p \in 0..Len(w) - 1, w[p + 1] = Opener
      PROVE  \E t \in Known : Part(Bulk(t), w, p)
  <2>1. CASE p < Len(u)
    <3>1. p \in 0..Len(u) - 1 /\ p + 1 \in 1..Len(u) /\ p \in Nat /\ p = 0 + p
      BY <1>2, <2>1
    <3>2. u[p + 1] = Opener
      BY <1>3, <1>5, <3>1
    <3>3. PICK t \in Known : Part(Bulk(t), u, p)
      BY <3>1, <3>2 DEF Solid
    <3>4. Part(Bulk(t), w, p)
      <4>1. Len(Bulk(t)) \in Nat /\ Len(w) \in Nat
        BY <1>2, BulkLen
      <4> QED
        BY ONLY <1>2, <1>4, <3>1, <3>3, <4>1, PartOfPart, 0 \in Nat
    <3> QED
      BY <3>4
  <2>2. CASE p >= Len(u)
    <3> DEFINE q == p - Len(u)
    <3>1. q \in 0..Len(v) - 1 /\ q + 1 \in 1..Len(v) /\ q \in Nat /\ p = Len(u) + q /\ p + 1 = Len(u) + (q + 1)
      BY <1>2, <2>2
    <3> HIDE DEF q
    <3>2. v[q + 1] = Opener
      BY <1>3, <1>5, <3>1
    <3>3. PICK t \in Known : Part(Bulk(t), v, q)
      BY <3>1, <3>2 DEF Solid
    <3>4. Part(Bulk(t), w, p)
      <4>1. Len(Bulk(t)) \in Nat /\ Len(w) \in Nat
        BY <1>2, BulkLen
      <4> QED
        BY ONLY <1>2, <1>4, <3>1, <3>3, <4>1, PartOfPart
    <3> QED
      BY <3>4
  <2>3. p < Len(u) \/ p >= Len(u)
    BY <1>2
  <2> QED
    BY <2>1, <2>2, <2>3
<1> QED
  BY <1>2, <1>5 DEF Solid, w

(* Solid parts make a solid whole.                                         *)
LEMMA SolidJoined ==
    ASSUME NEW parts \in PartsOf(Octets), \A k \in 1..Len(parts) : Solid(parts[k])
    PROVE  \A k \in 0..Len(parts) : Solid(Joined(parts)[k])
<1> DEFINE joined == Joined(parts)
           T == {k \in 0..Len(parts) : Solid(joined[k])}
<1>1. Stacked(joined, parts, Octets) /\ Len(parts) \in Nat
  BY JoinedLies DEF PartsOf
<1>2. joined[0] = << >> /\ \A k \in 1..Len(parts) : joined[k] = joined[k - 1] \o parts[k]
  BY <1>1 DEF Stacked
<1> HIDE DEF joined
<1>3. 0 \in T
  <2>1. Solid(<< >>)
    <3>1. << >> \in Seq(Tame)
      OBVIOUS
    <3> QED
      BY ONLY <3>1, SolidTame
  <2> QED
    BY <1>1, <1>2, <2>1
<1>4. ASSUME NEW k \in 1..Len(parts), k - 1 \in T PROVE k \in T
  <2>1. Solid(joined[k - 1] \o parts[k])
    BY <1>4, SolidConcat
  <2>2. k \in 0..Len(parts)
    BY ONLY <1>1, k \in 1..Len(parts)
  <2>3. joined[k] = joined[k - 1] \o parts[k]
    BY ONLY <1>2, k \in 1..Len(parts)
  <2> QED
    BY ONLY <2>1, <2>2, <2>3
<1> HIDE DEF T
<1>5. \A k \in 0..Len(parts) : k \in T
  BY <1>1, <1>3, <1>4, Induct
<1> QED
  BY <1>5 DEF T, joined

(* One tame octet by itself                                                *)
LEMMA TameSeq ==
    ASSUME NEW S, S \subseteq Tame, NEW s \in Seq(S)
    PROVE  s \in Seq(Tame)
OBVIOUS

(* A length is solid.                                                      *)
LEMMA SolidDecimal ==
    ASSUME NEW n \in Nat, n <= 9999
    PROVE  Solid(Decimal(n))
<1>1. Decimal(n) \in Seq(Digits)
  BY DecimalSeq
<1>2. Decimal(n) \in Seq(Tame)
  BY ONLY <1>1, TameFacts, TameSeq
<1> QED
  BY <1>2, SolidTame

(* The header of an array is solid.                                        *)
LEMMA SolidHead ==
    /\ Solid(<<Star>>) /\ Solid(<<Colon>>) /\ Solid(CRLF)
<1>1. <<Star>> \in Seq(Tame) /\ <<Colon>> \in Seq(Tame) /\ CRLF \in Seq(Tame)
  BY TameFacts DEF CRLF
<1> QED
  BY <1>1, SolidTame

(* The arguments of a request are known texts.                             *)
LEMMA ArgumentKnown ==
    ASSUME NEW r \in Written, NEW i \in 1..Len(r.arguments)
    PROVE  /\ r.arguments[i] \in Arguments /\ r.arguments[i].text \in Texts
           /\ Spelling[r.arguments[i].text] \in Known
<1>1. r.arguments \in Seq(Arguments) /\ r.arguments[i].text # Torn
  BY RequestsAssumption, TornAssumption
<1> HIDE DEF Arguments
<1>2. r.arguments[i] \in Arguments
  BY <1>1
<1>3. r.arguments[i].text \in Texts
  BY <1>2 DEF Arguments, Elements
<1> QED
  BY <1>1, <1>2, <1>3 DEF Known

(* The name of a command is a known text.                                  *)
LEMMA NameKnown ==
    ASSUME NEW k \in Kinds
    PROVE  Names[k] \in Known
BY TornAssumption DEF Known

(* An argument on the wire is solid.                                       *)
LEMMA SolidOnWire ==
    ASSUME NEW e, Spelling[e.text] \in Known
    PROVE  Solid(OnWire(e))
<1>1. Solid(Bulk(Spelling[e.text]))
  BY SolidBulk
<1>2. Solid(Spelling[e.text])
  <2>1. Spelling[e.text] \in Seq(Bytes)
    BY KnownType
  <2>2. Spelling[e.text] \in Seq(Tame)
    BY ONLY <2>1, TameFacts, TameSeq
  <2> QED
    BY <2>2, SolidTame
<1>3. Solid(<<Colon>> \o Spelling[e.text] \o CRLF)
  BY <1>2, SolidHead, SolidConcat
<1> QED
  BY <1>1, <1>3 DEF OnWire, Colon

(* A request on the wire is solid.                                         *)
LEMMA SolidWire ==
    ASSUME NEW r \in Written
    PROVE  Solid(Wire[r])
<1> DEFINE p == Parts(r)
           n == Len(r.arguments)
<1>1. /\ p \in PartsOf(Octets) /\ Len(p) = 1 + n
      /\ p[1] = Bulk(Names[r.kind])
      /\ \A i \in 1..n : p[1 + i] = OnWire(r.arguments[i])
      /\ Len(p) \in Nat /\ Len(p) <= 9999
  BY PartsType
<1>2. n \in Nat /\ r.kind \in Kinds
  BY WrittenType
<1>3. Solid(p[1])
  BY <1>1, <1>2, NameKnown, SolidBulk
<1>4. \A i \in 1..n : Solid(p[1 + i])
  BY <1>1, ArgumentKnown, SolidOnWire
<1> HIDE DEF p, n
<1>5. \A k \in 1..Len(p) : Solid(p[k])
  <2> TAKE k \in 1..Len(p)
  <2>1. k = 1 \/ (k - 1 \in 1..n /\ 1 + (k - 1) = k)
    BY <1>1, <1>2
  <2> QED
    BY <1>3, <1>4, <2>1
<1>6. Solid(Joined(p)[Len(p)])
  <2>1. Len(p) \in 0..Len(p)
    BY <1>1
  <2> QED
    BY <1>1, <1>5, <2>1, SolidJoined
<1>7. Solid(<<Star>> \o Decimal(Len(p)) \o CRLF)
  BY <1>1, SolidHead, SolidDecimal, SolidConcat
<1>8. Solid(<<Star>> \o Decimal(Len(p)) \o CRLF \o Joined(p)[Len(p)])
  BY <1>6, <1>7, SolidConcat
<1> QED
  BY <1>8 DEF Wire, Star, p

-----------------------------------------------------------------------------
(* What begins a string begins a known text, as far as it has come.        *)
Sound(s) ==
    /\ s \in Seq(Octets)
    /\ \A p \in 0..Len(s) - 1 : s[p + 1] = Opener => \E t \in Known : Lies(Bulk(t), s, p)

(* What a recv returns is sound, however much of the stream it takes.      *)
LEMMA SegmentSound ==
    ASSUME NEW c \in Clients, Book(c), NEW ends, NEW n, n \in Lengths(c, Stream(c), ends),
           NEW segment, segment = SubSeq(Stream(c), 1, n)
    PROVE  Sound(segment)
<1> DEFINE m == Len(sent[c])
           o == offset[c]
           whole == Whole(c)[m]
           stream == Stream(c)
<1>1. EndsOK(c, m, Ends(c), Whole(c), stream)
  BY EndsAre
<1>2. /\ m \in Nat /\ Len(stream) \in Nat /\ o \in Nat /\ o <= Len(whole) /\ Len(stream) = Len(whole) - o
      /\ \A i \in 1..Len(stream) : stream[i] = whole[o + i]
  BY <1>1 DEF EndsOK
<1>3. /\ n \in Nat \ {0} /\ n <= Len(stream)
      /\ IsPiece(segment, stream, 0, n, Octets)
  BY SegmentIs
<1>4. segment \in Seq(Octets) /\ Len(segment) = n /\ \A i \in 1..n : segment[i] = stream[i]
  <2>1. n - 0 = n /\ \A i \in 1..n : 0 + i = i
    BY <1>3
  <2> QED
    BY ONLY <1>3, <2>1 DEF IsPiece
<1>5. Solid(whole)
  <2>1. /\ \A i \in 1..m : sent[c][i] \in Written
        /\ WiresOf(c) \in PartsOf(Octets) /\ Len(WiresOf(c)) = m
        /\ \A i \in 1..m : WiresOf(c)[i] = Wire[sent[c][i]]
        /\ Whole(c) = Joined(WiresOf(c))
    BY WiresType DEF Book
  <2>2. \A i \in 1..m : Solid(WiresOf(c)[i])
    BY <2>1, SolidWire
  <2>3. m \in 0..m
    BY <1>2
  <2> HIDE DEF m
  <2> QED
    BY <2>1, <2>2, <2>3, SolidJoined
<1> HIDE DEF m, o, whole, stream
<1>6. ASSUME NEW p \in 0..n - 1, segment[p + 1] = Opener
      PROVE  \E t \in Known : Lies(Bulk(t), segment, p)
  <2>1. p + 1 \in 1..n /\ p + 1 \in 1..Len(stream) /\ o + p \in 0..Len(whole) - 1 /\ o + (p + 1) = (o + p) + 1
    <3>1. Len(whole) \in Nat
      BY <1>5 DEF Solid
    <3> QED
      BY ONLY <1>2, <1>3, <3>1, p \in 0..n - 1
  <2>2. whole[(o + p) + 1] = Opener
    BY <1>2, <1>4, <1>6, <2>1
  <2>3. PICK t \in Known : Part(Bulk(t), whole, o + p)
    BY <1>5, <2>1, <2>2 DEF Solid
  <2> DEFINE b == Bulk(t)
  <2>4. Len(b) \in Nat
    BY BulkLen
  <2>5. ASSUME NEW i \in 1..Len(b), p + i <= n PROVE segment[p + i] = b[i]
    <3>1. p + i \in 1..n /\ p + i \in 1..Len(stream) /\ o + (p + i) = (o + p) + i
      BY ONLY <1>2, <1>3, <2>4, <2>5, p \in 0..n - 1, i \in 1..Len(b)
    <3>2. whole[(o + p) + i] = b[i]
      BY <2>3 DEF Part
    <3> QED
      BY <1>2, <1>4, <3>1, <3>2
  <2>6. Lies(b, segment, p)
    BY <1>4, <2>5 DEF Lies
  <2> QED
    BY <2>6
<1> QED
  BY <1>4, <1>6 DEF Sound

-----------------------------------------------------------------------------
(* Every string is a known text                                            *)

(* A known text is stored as a text, never as the torn one.                *)
LEMMA TextKnown ==
    ASSUME NEW b \in Known
    PROVE  TextOf(b) \in Texts /\ TextOf(b) # Torn
<1>1. PICK t \in Texts \ {Torn} : b = Spelling[t]
  BY DEF Known
<1>2. \A u \in Texts : Spelling[u] = b => u = t
  BY <1>1, SpellingAssumption
<1>3. TextOf(b) = t
  BY <1>1, <1>2 DEF TextOf
<1> QED
  BY <1>1, <1>3

(* Every string that is decoded is a text that somebody has spelled.       *)
LEMMA StringKnown ==
    ASSUME NEW s, Sound(s), NEW at \in 0..Len(s), NEW inner, NEW r, r = decodeWith(s, at, inner),
           r.fate = "decoded", r.value.type = "string"
    PROVE  r.value.bytes \in Known
<1>1. s \in Seq(Octets) /\ Len(s) \in Nat /\ at \in Nat
  <2>1. s \in Seq(Octets)
    BY DEF Sound
  <2>2. Len(s) \in Nat
    BY ONLY <2>1
  <2> QED
    BY ONLY <2>1, <2>2, at \in 0..Len(s)
<1>2. \/ Byte(s, at) = "+"
      \/ Byte(s, at) = "$" /\ r = decodeBulkString(s, at)
  BY DecodedKinds
<1>3. at < Len(s)
  <2>1. SUFFICES ASSUME at >= Len(s) PROVE FALSE
    BY <1>1
  <2>2. Byte(s, at) = "NUL"
    BY <1>1, <2>1, ByteIs
  <2> QED
    BY <1>2, <2>2
<1>4. Byte(s, at) = s[at + 1] /\ at + 1 \in 1..Len(s) /\ at \in 0..Len(s) - 1
  BY <1>1, <1>3, ByteIs
<1>5. s[at + 1] \in Octets
  BY ONLY <1>1, <1>4
<1>6. Byte(s, at) = Opener /\ r = decodeBulkString(s, at)
  BY <1>2, <1>4, <1>5, TameFacts DEF Opener
<1>7. PICK t \in Known : Lies(Bulk(t), s, at)
  BY <1>4, <1>6 DEF Sound
<1>8. t \in Seq(Bytes) /\ Len(t) <= 9999
  BY KnownType
<1>9. /\ at + Len(Bulk(t)) <= Len(s) + 1 =>
            r = Decoded(at + Len(Bulk(t)), Value("string", t, << >>))
      /\ ~(at + Len(Bulk(t)) <= Len(s) + 1) => r = Refused
  BY <1>1, <1>3, <1>6, <1>7, <1>8, BulkRead
<1>10. r = Decoded(at + Len(Bulk(t)), Value("string", t, << >>))
  BY <1>9 DEF Refused, Thrown
<1> QED
  BY <1>10 DEF Decoded, Value

(* The elements of the array that a recv brought                           *)
ElementsKnown(v) ==
    \A i \in 1..Len(v.elements) :
        v.elements[i].type = "string" => v.elements[i].bytes \in Known

(* The calls below have the same property.                                 *)
LEMMA InnerIs ==
    ASSUME NEW s, NEW p \in 0..Len(s)
    PROVE  Calls(s)[Stack - 1][p] = decodeWith(s, p, Calls(s)[Stack - 2])
<1>1. Stack - 1 \in 0..Stack /\ Stack - 1 # 0 /\ (Stack - 1) - 1 = Stack - 2
  BY StackAssumption
<1> DEFINE calls == Calls(s)
<1>2. \A left \in 0..Stack, at \in 0..Len(s) :
              calls[left][at] = IF left = 0 THEN Thrown("overflow")
                                ELSE decodeWith(s, at, calls[left - 1])
  BY CallsIs
<1> HIDE DEF calls
<1>3. calls[Stack - 1][p] = decodeWith(s, p, calls[(Stack - 1) - 1])
  BY ONLY <1>1, <1>2, p \in 0..Len(s)
<1> QED
  BY <1>1, <1>3 DEF calls

(* The strings of an array are known.                                      *)
LEMMA ArrayKnown ==
    ASSUME NEW s, Sound(s), Len(s) \in Nat \ {0}, NEW r, r = decode(s, 0), r.fate = "decoded",
           r.value.type = "array"
    PROVE  ElementsKnown(r.value)
<1> DEFINE inner == Calls(s)[Stack - 1]
<1>1. PICK length \in Nat : \E element :
              /\ r.value.elements = ValuesOf(element, length)
              /\ Chain(element, s, 0, inner, length) /\ element[length].fate = "decoded"
  BY DecodeArray
<1>2. PICK element :
              /\ r.value.elements = ValuesOf(element, length)
              /\ Chain(element, s, 0, inner, length) /\ element[length].fate = "decoded"
  BY <1>1
<1>3. \A p \in 0..Len(s) : inner[p] = decodeWith(s, p, Calls(s)[Stack - 2])
  BY InnerIs
<1> HIDE DEF inner
<1>4. \A i \in 1..length :
              /\ element[i].fate = "decoded" /\ element[i - 1].fate = "decoded"
              /\ InView(s, 0, element[i - 1].next) /\ element[i] = inner[element[i - 1].next]
  BY <1>2, ChainDecoded
<1>5. ASSUME NEW i \in 1..length, element[i].value.type = "string"
      PROVE  element[i].value.bytes \in Known
  <2> DEFINE p == element[i - 1].next
  <2>1. p \in 0..Len(s) /\ element[i].fate = "decoded"
    BY <1>4 DEF InView
  <2>2. element[i] = decodeWith(s, p, Calls(s)[Stack - 2])
    BY <1>3, <1>4, <2>1
  <2> HIDE DEF p
  <2> QED
    BY <1>5, <2>1, <2>2, StringKnown
<1>6. /\ Len(ValuesOf(element, length)) = length
      /\ \A i \in 1..length : ValuesOf(element, length)[i] = element[i].value
  BY DEF ValuesOf
<1> QED
  BY <1>2, <1>5, <1>6 DEF ElementsKnown

(* Elements that were converted from known strings have no torn text.      *)
LEMMA ConvertKnown ==
    ASSUME NEW s, Sound(s), Len(s) \in Nat \ {0}, NEW r, r = decode(s, 0), r.fate = "decoded",
           r.value.type = "array" => r.value.elements # << >>, convertToCommands(r.value)
    PROVE  \A i \in 1..Len(rest') : rest'[i].type # "integer" => rest'[i].text # Torn
<1>1. CASE r.value.type # "array"
  BY <1>1 DEF convertToCommands
<1>2. CASE r.value.type = "array"
  <2> DEFINE v == r.value.elements
  <2>1. PICK length \in Nat : \E element : v = ValuesOf(element, length)
    BY <1>2, DecodeArray
  <2>2. PICK element : v = ValuesOf(element, length)
    BY <2>1
  <2>3. Len(v) = length /\ v # << >>
    BY <1>2, <2>2 DEF ValuesOf
  <2>4. length # 0
    BY <2>2, <2>3 DEF ValuesOf
  <2>5. length - 1 \in Nat
    BY <2>4
  <2>6. rest' = [i \in 1..length - 1 |-> ElementOf(v[i + 1])]
    BY <1>2, <2>3 DEF convertToCommands
  <2>7. \A i \in 1..length : v[i].type = "string" => v[i].bytes \in Known
    BY <1>2, <2>3, ArrayKnown DEF ElementsKnown
  <2> HIDE DEF v
  <2>8. ASSUME NEW i \in 1..length - 1, rest'[i].type # "integer" PROVE rest'[i].text # Torn
    <3> DEFINE x == v[i + 1]
    <3>1. rest'[i] = ElementOf(x) /\ i + 1 \in 1..length
      BY <2>5, <2>6
    <3>2. x.type = "string" => x.bytes \in Known
      BY <2>7, <3>1
    <3> HIDE DEF x
    <3>3. CASE x.type = "string"
      BY <3>1, <3>2, <3>3, TextKnown DEF ElementOf
    <3>4. CASE x.type = "integer"
      BY <2>8, <3>1, <3>4 DEF ElementOf
    <3>5. CASE x.type \notin {"string", "integer"}
      BY <3>1, <3>5, TextsAssumption, RequestsAssumption DEF ElementOf
    <3> QED
      BY <3>3, <3>4, <3>5
  <2>9. Len(rest') = length - 1
    BY <2>5, <2>6
  <2> QED
    BY <2>8, <2>9
<1> QED
  BY <1>1, <1>2

-----------------------------------------------------------------------------
(* No torn text                                                            *)

(* Neither the command nor what may still get into it has a torn text.     *)
Undamaged(fields) == fields.key_ # Torn /\ fields.value_ # Torn

(* The inductive invariant of NothingTorn                                  *)
TornFree ==
    /\ Undamaged(command)
    /\ \A i \in 1..Len(rest) : rest[i].type # "integer" => rest[i].text # Torn
    /\ map_ \in [Keys -> ValueType \cup {Null}]
    /\ NothingTorn

(* What has no torn text, and what its parts are                           *)
LEMMA TornFacts ==
    /\ Torn \in Strings /\ Torn \in Texts /\ Torn # Empty /\ Torn # Dangling /\ Torn \notin Ints
    /\ Torn \notin Numbers
<1>1. Torn \in Words /\ Torn \notin Numbers /\ Torn # Empty /\ Torn # Dangling
  BY RequestsAssumption, TextsAssumption
<1>2. Torn \in Views \ Numbers /\ Torn \in Texts
  BY <1>1 DEF Views, Texts
<1>3. Torn \in Strings
  BY <1>2, DatabaseAssumption
<1>4. Torn \notin Int
  BY <1>3, StringsAssumption
<1>5. Ints \subseteq Int
  BY NumbersAssumption DEF Ints, IntMin
<1> QED
  BY <1>1, <1>2, <1>3, <1>4, <1>5

(* A visit brings no torn text into a command.                             *)
LEMMA TornVisit ==
    ASSUME NEW e \in Elements, e.type # "integer" => e.text # Torn, FieldsOK, Undamaged(command),
           ParsePayload(e)
    PROVE  Undamaged(command')
<1>1. View(e) # Torn /\ command \in Fields
  BY TornFacts DEF View, FieldsOK
<1>2. CASE SetPayload(e)
  <2>1. CASE Refuses(e)
    BY <1>2, <2>1 DEF SetPayload
  <2>2. CASE ~Refuses(e)
    <3>1. Undamaged(Option(e)) /\ Option(e).key_ = command.key_
      BY <1>1 DEF Option, Undamaged, Fields
    <3> DEFINE fields == IF command.key_ = Empty THEN [command EXCEPT !.key_ = View(e)]
                         ELSE IF command.value_ = Empty THEN [command EXCEPT !.value_ = View(e)]
                         ELSE Option(e)
    <3>2. Undamaged(fields)
      BY <1>1, <3>1 DEF Fields, Undamaged
    <3>3. command' = [fields EXCEPT !.state_ = "Done"]
      BY <1>2, <2>2 DEF SetPayload, Finished
    <3> HIDE DEF fields
    <3> QED
      BY <3>2, <3>3 DEF Undamaged
  <2> QED
    BY <2>1, <2>2
<1>3. CASE KeyPayload(e)
  BY <1>1, <1>3 DEF KeyPayload, Fields, Undamaged
<1>4. CASE PingPayload(e)
  BY <1>1, <1>4 DEF PingPayload, Fields, Undamaged
<1>5. CASE HelloPayload(e)
  BY <1>1, <1>5 DEF HelloPayload, Fields, Undamaged
<1>6. CASE UnknownPayload(e)
  BY <1>6 DEF UnknownPayload
<1> QED
  BY <1>2, <1>3, <1>4, <1>5, <1>6 DEF ParsePayload

(* The entry of a key, once stored                                         *)
LEMMA StoredType ==
    ASSUME NEW v \in Views, v # Torn
    PROVE  Stored(v) \in Values /\ Stored(v) # Torn
<1>1. CASE v \in Numbers
  BY <1>1, SpellingAssumption, TornFacts DEF Stored, Values
<1>2. CASE v \notin Numbers
  BY <1>2, DatabaseAssumption DEF Stored, Values
<1> QED
  BY <1>1, <1>2

(* A SET of a whole command stores no torn text.                           *)
LEMMA TornSet ==
    ASSUME NEW k \in Keys, NEW v \in Values, NEW expire \in Nat \cup {Null}, set(k, v, expire),
           map_ \in [Keys -> ValueType \cup {Null}], NothingTorn, k # Torn, v # Torn
    PROVE  map_' \in [Keys -> ValueType \cup {Null}] /\ NothingTorn'
<1> DEFINE entry == [value_ |-> v, expire_ |-> expire]
<1>1. entry \in ValueType /\ entry.value_ # Torn
  BY DEF ValueType
<1>2. map_' = [map_ EXCEPT ![k] = entry]
  BY DEF set
<1> HIDE DEF entry
<1>3. map_' \in [Keys -> ValueType \cup {Null}] /\ map_'[k] = entry
      /\ \A j \in Keys : j # k => map_'[j] = map_[j]
  BY <1>1, <1>2
<1>4. \A j \in Keys : map_'[j] # None => j # Torn /\ map_'[j].value_ # Torn
  BY <1>1, <1>3 DEF NothingTorn
<1> QED
  BY <1>3, <1>4 DEF NothingTorn

(* No command stores a torn text.                                          *)
LEMMA TornCommand ==
    ASSUME FieldsOK, Undamaged(command), map_ \in [Keys -> ValueType \cup {Null}], NothingTorn,
           commandHandler_
    PROVE  map_' \in [Keys -> ValueType \cup {Null}] /\ NothingTorn'
<1>1. command \in Fields
  BY DEF FieldsOK
<1>2. ASSUME UNCHANGED map_
      PROVE  map_' \in [Keys -> ValueType \cup {Null}] /\ NothingTorn'
  BY <1>2 DEF NothingTorn
<1>3. /\ command.kind \in Kinds /\ command.key_ \in Keys /\ command.value_ \in Views
      /\ command.key_ # Torn /\ command.value_ # Torn
  BY <1>1, DatabaseAssumption DEF Fields, Undamaged
<1>4. CASE result # "parsing"
  BY <1>2, <1>4 DEF commandHandler_, CommandInvalid
<1>5. CASE result = "parsing" /\ command.kind = "PING"
  BY <1>2, <1>5 DEF commandHandler_, CommandPing
<1>6. CASE result = "parsing" /\ command.kind = "HELLO"
  BY <1>2, <1>6 DEF commandHandler_, CommandHello
<1>7. CASE result = "parsing" /\ command.kind = "unknown"
  BY <1>2, <1>7 DEF commandHandler_, CommandUnknown
<1>8. CASE result = "parsing" /\ command.kind = "SET"
  <2>1. set(command.key_, Stored(command.value_), None)
    BY <1>8 DEF commandHandler_, DatabaseCommand, CommandSet
  <2>2. Stored(command.value_) \in Values /\ Stored(command.value_) # Torn
    BY <1>3, StoredType
  <2>3. None \in Nat \cup {Null}
    BY DatabaseAssumption
  <2> QED
    BY <1>3, <2>1, <2>2, <2>3, TornSet
<1>9. CASE result = "parsing" /\ command.kind = "GET"
  BY <1>2, <1>9 DEF commandHandler_, DatabaseCommand, CommandGet
<1>10. CASE result = "parsing" /\ command.kind = "EXISTS"
  BY <1>2, <1>10 DEF commandHandler_, DatabaseCommand, CommandExists
<1>11. CASE result = "parsing" /\ command.kind = "INCR"
  <2> DEFINE k == command.key_
             content == get(k)
             v == Incremented(content.value_)
  <2>1. CommandIncr(k)
    BY <1>11 DEF commandHandler_, DatabaseCommand
  <2>2. CASE content = Null \/ v = Null
    BY <1>2, <2>1, <2>2 DEF CommandIncr
  <2>3. CASE content # Null /\ v # Null
    <3>1. content \in ValueType
      BY <1>3, <2>3 DEF get
    <3>2. v \in Ints
      BY <2>3, <3>1, IncrementedType DEF ValueType
    <3>3. set(k, v, content.expire_)
      BY <2>1, <2>3 DEF CommandIncr, Kept
    <3>4. v \in Values /\ v # Torn /\ content.expire_ \in Nat \cup {Null}
      BY <3>1, <3>2, TornFacts DEF Values, ValueType
    <3> HIDE DEF content, v
    <3> QED
      BY <1>3, <3>3, <3>4, TornSet
  <2> QED
    BY <2>2, <2>3
<1> QED
  BY <1>3, <1>4, <1>5, <1>6, <1>7, <1>8, <1>9, <1>10, <1>11 DEF Kinds

(* TornFree is inductive, given the books.                                 *)
LEMMA TornStep == BooksOK /\ TornFree /\ [ConnectionNext]_connectionVars => TornFree'
<1> SUFFICES ASSUME BooksOK, TornFree, [ConnectionNext]_connectionVars PROVE TornFree'
  OBVIOUS
<1>1. ASSUME UNCHANGED <<command, rest, map_>> PROVE TornFree'
  BY <1>1 DEF TornFree, NothingTorn
<1>2. ASSUME NEW c \in Clients, Request(c) PROVE TornFree'
  BY <1>1, <1>2 DEF Request, vars, databaseVars
<1>3. ASSUME NEW c \in Clients, handleClient(c) PROVE TornFree'
  <2>1. PICK n \in Lengths(c, Stream(c), Ends(c)) : handleInput(SubSeq(Stream(c), 1, n))
    BY <1>3 DEF handleClient
  <2> DEFINE segment == SubSeq(Stream(c), 1, n)
             r == decode(segment, 0)
  <2>2. Book(c)
    BY DEF BooksOK
  <2>3. Len(segment) \in Nat \ {0} /\ Sound(segment)
    BY <2>2, SegmentIs, SegmentSound
  <2>4. UNCHANGED map_
    BY <1>3 DEF handleClient, databaseVars
  <2> HIDE DEF segment
  <2>5. handleInput(segment)
    BY <2>1 DEF segment
  <2>6. CASE r.fate = "decoded" /\ (r.value.type = "array" => r.value.elements # << >>)
    <3>1. convertToCommands(r.value)
      BY <2>5, <2>6 DEF handleInput
    <3>2. \A i \in 1..Len(rest') : rest'[i].type # "integer" => rest'[i].text # Torn
      <4> HIDE DEF r
      <4>1. r = decode(segment, 0)
        BY DEF r
      <4> QED
        BY <2>3, <2>6, <3>1, <4>1, ConvertKnown
    <3>3. \E kind : command' = NewCommand(kind)
      BY <3>1 DEF convertToCommands
    <3>4. Undamaged(command')
      BY <3>3, TornFacts DEF NewCommand, Undamaged
    <3> HIDE DEF r
    <3> QED
      BY <2>4, <3>2, <3>4 DEF TornFree, NothingTorn
  <2>7. CASE /\ ~(r.fate = "decoded" /\ (r.value.type = "array" => r.value.elements # << >>))
             /\ r.fate = "invalid_argument"
    BY <1>1, <2>4, <2>5, <2>7 DEF handleInput, vars
  <2>8. CASE /\ ~(r.fate = "decoded" /\ (r.value.type = "array" => r.value.elements # << >>))
             /\ r.fate # "invalid_argument"
    BY <1>1, <2>4, <2>5, <2>8 DEF handleInput, vars
  <2> QED
    BY <2>6, <2>7, <2>8
<1>4. CASE parse
  <2> DEFINE e == Head(rest)
  <2>1. rest # << >> /\ Visit(e) /\ rest' = Tail(rest) /\ UNCHANGED map_
    BY <1>4 DEF parse, databaseVars
  <2>2. rest \in Seq(Elements) /\ FieldsOK
    BY DEF BooksOK
  <2>3. e \in Elements /\ e = rest[1] /\ 1 \in 1..Len(rest)
    BY <2>1, <2>2
  <2>4. /\ Len(rest') = Len(rest) - 1 /\ Len(rest) \in Nat
        /\ \A i \in 1..Len(rest) - 1 : rest'[i] = rest[i + 1]
    BY <2>1, <2>2
  <2>5. \A i \in 1..Len(rest') : rest'[i].type # "integer" => rest'[i].text # Torn
    <3> TAKE i \in 1..Len(rest')
    <3>1. i \in 1..Len(rest) - 1 /\ i + 1 \in 1..Len(rest)
      BY <2>4
    <3> QED
      BY <2>4, <3>1 DEF TornFree
  <2>6. e.type # "integer" => e.text # Torn
    BY <2>3 DEF TornFree
  <2> HIDE DEF e
  <2>7. Undamaged(command')
    BY <2>1, <2>2, <2>3, <2>6, TornVisit DEF TornFree, Visit
  <2> QED
    BY <2>1, <2>5, <2>7 DEF TornFree, NothingTorn
<1>5. CASE execute
  <2>1. commandHandler_ /\ rest' = << >> /\ command' = command
    BY <1>5 DEF execute, vars
  <2>2. map_' \in [Keys -> ValueType \cup {Null}] /\ NothingTorn'
    BY <2>1, TornCommand DEF TornFree, BooksOK
  <2>3. Len(rest') = 0
    BY <2>1
  <2> QED
    BY <2>1, <2>2, <2>3 DEF TornFree
<1>6. CASE abort
  BY <1>1, <1>6 DEF abort, vars, databaseVars
<1>7. CASE UNCHANGED connectionVars
  BY <1>1, <1>7 DEF connectionVars, vars, databaseVars
<1> QED
  BY <1>2, <1>3, <1>4, <1>5, <1>6, <1>7 DEF ConnectionNext

(* Nothing has been stored yet.                                            *)
LEMMA TornInit == ConnectionInit => TornFree
<1> SUFFICES ASSUME ConnectionInit PROVE TornFree
  OBVIOUS
<1>1. Undamaged(command)
  BY TornFacts DEF ConnectionInit, NewCommand, Undamaged
<1>2. map_ = [k \in Keys |-> Null] /\ rest = << >>
  BY DEF ConnectionInit, DatabaseInit
<1>3. NothingTorn
  BY <1>2, DatabaseAssumption DEF NothingTorn
<1>4. Len(rest) = 0
  BY <1>2
<1> QED
  BY <1>1, <1>2, <1>3, <1>4 DEF TornFree

(* However the streams of any clients are cut, no part of a text gets into *)
(* the database: a bulk string is decoded whole or refused, and what       *)
(* begins in the middle of one is no string (decodeBulkString).            *)
THEOREM NothingTornKept == ConnectionSpec => []NothingTorn
<1>1. TornFree => NothingTorn
  BY DEF TornFree
<1> QED
  BY <1>1, BooksInit, BooksStep, TornInit, TornStep, PTL DEF ConnectionSpec

-----------------------------------------------------------------------------
(* Requests from their beginning                                           *)

(* Each part lies where those before it end.                               *)
LEMMA PartJoined ==
    ASSUME NEW parts \in PartsOf(Octets), NEW joined, Stacked(joined, parts, Octets),
           NEW k \in 1..Len(parts), NEW last, last = Len(parts)
    PROVE  Part(parts[k], joined[last], Len(joined[k - 1]))
<1> DEFINE p == parts[k]
           whole == joined[last]
           x == Len(joined[k - 1])
           y == Len(joined[k])
<1>1. last \in Nat /\ k \in 0..Len(parts) /\ last \in 0..Len(parts) /\ last >= k /\ k - 1 \in 0..Len(parts)
  BY DEF PartsOf
<1>2. y <= Len(whole) /\ \A i \in 1..y : whole[i] = joined[k][i]
  BY ONLY <1>1, JoinedGrows, parts \in PartsOf(Octets), Stacked(joined, parts, Octets)
<1>3. p \in Seq(Octets)
  BY DEF PartsOf
<1>4. Len(p) \in Nat
  BY ONLY <1>3
<1>5. /\ x \in Nat /\ y = x + Len(p) /\ Len(whole) \in Nat
      /\ \A i \in 1..Len(p) : joined[k][x + i] = p[i]
  BY ONLY <1>1, Stacked(joined, parts, Octets), k \in 1..Len(parts) DEF Stacked
<1> HIDE DEF p, whole, x, y
<1>6. \A i \in 1..Len(p) : x + i \in 1..y
  BY ONLY <1>4, <1>5
<1>7. \A i \in 1..Len(p) : whole[x + i] = p[i]
  BY ONLY <1>2, <1>5, <1>6
<1>8. x + Len(p) <= Len(whole)
  BY ONLY <1>2, <1>5
<1>9. Part(p, whole, x)
  BY ONLY <1>7, <1>8 DEF Part
<1> QED
  BY <1>9 DEF p, whole, x

(* Where the parts of a request lie                                        *)
WireParts(w, dec, body) ==
    /\ w \in Seq(Octets) /\ Len(w) \in Nat /\ Len(w) = 3 + Len(dec) + Len(body) /\ Len(body) \in Nat
    /\ dec \in Seq(Digits) /\ Len(dec) \in Nat /\ Len(dec) > 0
    /\ Part(<<Star>>, w, 0) /\ Part(dec, w, 1) /\ Part(CRLF, w, 1 + Len(dec))
    /\ Part(body, w, 3 + Len(dec))

(* The parts of a request on the wire                                      *)
LEMMA WireIs ==
    ASSUME NEW r \in Written
    PROVE  WireParts(Wire[r], Decimal(Len(Parts(r))), Joined(Parts(r))[Len(Parts(r))])
<1> DEFINE p == Parts(r)
           body == Joined(p)[Len(p)]
           dec == Decimal(Len(p))
           o == <<Star>>
           head == o \o dec
           line == head \o CRLF
           w == line \o body
<1>1. p \in PartsOf(Octets) /\ Len(p) \in Nat /\ Len(p) <= 9999
  BY PartsType
<1>2. body \in Seq(Octets)
  <2> HIDE DEF p
  <2>1. Stacked(Joined(p), p, Octets)
    BY <1>1, JoinedLies
  <2>2. Len(p) \in 0..Len(p)
    BY <1>1
  <2> QED
    BY ONLY <2>1, <2>2 DEF body, Stacked
<1>3. Wire[r] = w
  BY DEF Wire, Star
<1>4. dec \in Seq(Digits) /\ Len(dec) \in Nat /\ Len(dec) > 0 /\ dec \in Seq(Octets)
  BY <1>1, DecimalSeq, DecimalType
<1> HIDE DEF p, body, dec
<1>5. o \in Seq(Octets) /\ Len(o) = 1 /\ Len(o) \in Nat
  BY OctetFacts, SingleType
<1> HIDE DEF o
<1>6. CRLF \in Seq(Octets) /\ Len(CRLF) = 2 /\ Len(CRLF) \in Nat
  BY CrlfIs
<1>7. head \in Seq(Octets) /\ Len(head) = 1 + Len(dec) /\ Part(o, head, 0) /\ Part(dec, head, 1)
  <2>1. head \in Seq(Octets) /\ Len(head) = Len(o) + Len(dec)
    BY ONLY <1>4, <1>5, ConcatType
  <2>2. Part(o, head, 0) /\ Part(dec, head, Len(o))
    BY ONLY <1>4, <1>5, PartsOfConcat
  <2> QED
    BY ONLY <1>5, <2>1, <2>2
<1> HIDE DEF head
<1>8. line \in Seq(Octets) /\ Len(line) = 3 + Len(dec)
      /\ Part(o, line, 0) /\ Part(dec, line, 1) /\ Part(CRLF, line, 1 + Len(dec))
  <2>1. line \in Seq(Octets) /\ Len(line) = Len(head) + Len(CRLF)
    BY ONLY <1>6, <1>7, ConcatType
  <2>2. Part(CRLF, line, Len(head))
    BY ONLY <1>6, <1>7, PartsOfConcat
  <2>3. Part(o, line, 0)
    BY ONLY <1>5, <1>6, <1>7, PartBehind, 0 \in Nat
  <2>4. Part(dec, line, 1)
    BY ONLY <1>4, <1>6, <1>7, PartBehind, 1 \in Nat
  <2>5. Len(line) = 3 + Len(dec)
    BY ONLY <1>4, <1>6, <1>7, <2>1
  <2> QED
    BY ONLY <1>7, <2>1, <2>2, <2>3, <2>4, <2>5
<1> HIDE DEF line
<1>9. w \in Seq(Octets) /\ Len(w) = Len(line) + Len(body) /\ Len(body) \in Nat
  BY ONLY <1>2, <1>8, ConcatType
<1>10. Part(body, w, Len(line))
  BY ONLY <1>2, <1>8, PartsOfConcat
<1>11. Part(o, w, 0)
  BY ONLY <1>2, <1>5, <1>8, PartBehind, 0 \in Nat
<1>12. Part(dec, w, 1)
  BY ONLY <1>2, <1>4, <1>8, PartBehind, 1 \in Nat
<1>13. Part(CRLF, w, 1 + Len(dec))
  <2>1. 1 + Len(dec) \in Nat
    BY <1>4
  <2> QED
    BY ONLY <1>2, <1>6, <1>8, <2>1, PartBehind
<1>14. Len(w) \in Nat /\ Len(w) = 3 + Len(dec) + Len(body)
  BY ONLY <1>4, <1>8, <1>9
<1> HIDE DEF w
<1>15. WireParts(w, dec, body)
  BY ONLY <1>4, <1>8, <1>9, <1>10, <1>11, <1>12, <1>13, <1>14 DEF WireParts, o
<1> QED
  BY ONLY <1>3, <1>15 DEF dec, body, p

(* Each of these parts lies in the request.                                *)
LEMMA PartLies ==
    ASSUME NEW w, NEW s, NEW at, Part(w, s, at)
    PROVE  Lies(w, s, at)
BY DEF Part, Lies

(* What decode() reads at the beginning of a request                       *)
LEMMA RequestHeader ==
    ASSUME NEW s \in Seq(Octets), NEW n \in Nat, n <= 9999, NEW dec, dec = Decimal(n),
           NEW w, NEW body, WireParts(w, dec, body), Part(w, s, 0)
    PROVE  /\ Len(s) \in Nat \ {0} /\ Byte(s, 0) = "*" /\ Number(s, 1) = n
           /\ FirstElement(s, 0) = 3 + Len(dec)
<1> DEFINE e == 1 + Len(dec)
<1>1. /\ Len(w) \in Nat /\ Len(w) = 3 + Len(dec) + Len(body) /\ Len(body) \in Nat
      /\ Len(dec) \in Nat /\ Len(dec) > 0
      /\ Part(<<Star>>, w, 0) /\ Part(dec, w, 1) /\ Part(CRLF, w, 1 + Len(dec))
  BY ONLY WireParts(w, dec, body) DEF WireParts
<1>2. Len(s) \in Nat
  BY ONLY s \in Seq(Octets)
<1>3. 0 + Len(w) <= Len(s)
  BY DEF Part
<1>4. e \in Nat /\ e + 2 <= Len(s) /\ e < Len(s) /\ Len(s) \in Nat \ {0} /\ 0 < Len(s) /\ e = 0 + 1 + Len(dec)
      /\ e = 0 + e /\ e + 2 = 3 + Len(dec)
  BY <1>1, <1>2, <1>3
<1>5. Lies(w, s, 0)
  BY PartLies
<1>6. Len(<<Star>>) \in Nat /\ Len(<<Star>>) = 1 /\ <<Star>>[1] = Star
  OBVIOUS
<1>7. Lies(<<Star>>, s, 0)
  BY ONLY <1>1, <1>5, <1>6, LiesPart, 0 \in Nat, 0 = 0 + 0
<1>8. s[0 + 1] = Star
  <2>1. 1 \in 1..Len(<<Star>>) /\ 0 + 1 <= Len(s)
    BY <1>4, <1>6
  <2> QED
    BY ONLY <1>6, <1>7, <2>1 DEF Lies
<1>9. Byte(s, 0) = Star
  BY <1>2, <1>4, <1>8, ByteIs
<1>10. Lies(dec, s, 0 + 1)
  BY ONLY <1>1, <1>5, LiesPart, 0 \in Nat, 1 \in Nat, 1 = 0 + 1, 0 + 1 = 0 + 1
<1> HIDE DEF e
<1>11. Lies(CRLF, s, e)
  <2>1. Part(CRLF, w, e)
    BY <1>1 DEF e
  <2>2. Len(CRLF) \in Nat
    BY CrlfIs
  <2> QED
    BY ONLY <1>1, <1>4, <1>5, <2>1, <2>2, LiesPart, 0 \in Nat
<1>12. HeaderAt(s, 0, e, n)
  <2>1. Byte(s, 0) \notin {CR, LF}
    BY <1>9, TameFacts
  <2> QED
    BY ONLY <1>2, <1>4, <1>10, <1>11, <2>1, HeaderRead, 0 \in Nat, n \in Nat, n <= 9999, dec = Decimal(n)
<1>13. LineEnd(s, 0) = e /\ Number(s, 0 + 1) = n
  BY ONLY <1>4, <1>12 DEF HeaderAt
<1>14. FirstElement(s, 0) = e + 2
  BY <1>4, <1>13, OffsetAssumption DEF FirstElement
<1> QED
  BY <1>4, <1>9, <1>13, <1>14 DEF Star

-----------------------------------------------------------------------------
(* Requests of strings only                                                *)

(* The strings of a request: its name and its arguments                    *)
TextAt(r, k) == IF k = 1 THEN Names[r.kind] ELSE Spelling[r.arguments[k - 1].text]

(* The parts of a request of strings only                                  *)
LEMMA PlainParts ==
    ASSUME NEW r \in Written, Plain(r), NEW k \in 1..Len(Parts(r))
    PROVE  Parts(r)[k] = Bulk(TextAt(r, k)) /\ TextAt(r, k) \in Known
<1> DEFINE n == Len(r.arguments)
<1>1. /\ Len(Parts(r)) = 1 + n
      /\ Parts(r)[1] = Bulk(Names[r.kind])
      /\ \A i \in 1..n : Parts(r)[1 + i] = OnWire(r.arguments[i])
  BY PartsType
<1>2. n \in Nat /\ r.kind \in Kinds
  BY WrittenType
<1>3. CASE k = 1
  BY <1>1, <1>2, <1>3, NameKnown DEF TextAt
<1>4. CASE k # 1
  <2> DEFINE i == k - 1
  <2>1. i \in 1..n /\ k = 1 + i
    BY <1>1, <1>2, <1>4
  <2>2. TextAt(r, k) = Spelling[r.arguments[i].text]
    BY <1>4 DEF TextAt
  <2> HIDE DEF i
  <2>3. Parts(r)[k] = OnWire(r.arguments[i]) /\ r.arguments[i].type = "string"
    BY <1>1, <2>1 DEF Plain
  <2>4. TextAt(r, k) \in Known
    BY <2>1, <2>2, ArgumentKnown
  <2> QED
    BY <2>2, <2>3, <2>4 DEF OnWire
<1> QED
  BY <1>3, <1>4

(* A string that has come completely is decoded, and the next begins       *)
(* behind it.                                                              *)
LEMMA StringRead ==
    ASSUME NEW s \in Seq(Octets), NEW q \in Nat, NEW t \in Known, Part(Bulk(t), s, q),
           NEW inner
    PROVE  /\ q \in 0..Len(s)
           /\ decodeWith(s, q, inner) = Decoded(q + Len(Bulk(t)), Value("string", t, << >>))
<1> DEFINE b == Bulk(t)
<1>1. BulkParts(b, Decimal(Len(t)), t)
  BY KnownType, BulkIs
<1>2. Len(b) \in Nat /\ Len(b) > 0 /\ Len(s) \in Nat
  <2> DEFINE d == Decimal(Len(t))
  <2>1. Len(b) = 5 + Len(d) + Len(t) /\ Len(d) \in Nat /\ Len(t) \in Nat
    BY ONLY <1>1 DEF BulkParts
  <2>2. Len(s) \in Nat
    BY ONLY s \in Seq(Octets)
  <2> QED
    BY ONLY <2>1, <2>2
<1>3. q + Len(b) <= Len(s) /\ Lies(b, s, q)
  BY PartLies DEF Part
<1>4. q < Len(s) /\ q \in 0..Len(s) /\ q + Len(b) <= Len(s) + 1
  BY <1>2, <1>3
<1>5. t \in Seq(Bytes) /\ Len(t) <= 9999
  BY KnownType
<1>7. /\ Byte(s, q) = Opener
      /\ decodeBulkString(s, q) = Decoded(q + Len(b), Value("string", t, << >>))
  <2> DEFINE d == decodeBulkString(s, q)
  <2>1. /\ Byte(s, q) = Opener
        /\ q + Len(b) <= Len(s) + 1 => d = Decoded(q + Len(b), Value("string", t, << >>))
    <3>1. d = decodeBulkString(s, q)
      OBVIOUS
    <3> HIDE DEF d
    <3>2. q < Len(s)
      BY <1>4
    <3> QED
      BY <1>2, <1>3, <1>4, <1>5, <3>1, <3>2, BulkRead
  <2> QED
    BY <1>4, <2>1
<1>8. decodeWith(s, q, inner) = decodeBulkString(s, q)
  BY <1>7 DEF decodeWith, Opener
<1> QED
  BY <1>4, <1>7, <1>8

(* The first bytes of a request make an array's header.                    *)
LEMMA FirstArray ==
    ASSUME NEW s, NEW n \in Nat, n = Number(s, 1), NEW inner
    PROVE  \E element :
              /\ Chain(element, s, 0, inner, n)
              /\ decodeArray(s, 0, inner) = Made(element, n)
<1>1. ASSUME NEW at \in Int, at = 0
      PROVE  \E element :
                /\ Chain(element, s, at, inner, n)
                /\ decodeArray(s, at, inner) = Made(element, n)
  <2>1. n = Number(s, at + 1)
    BY <1>1
  <2> QED
    BY <2>1, ArrayIs
<1> QED
  BY <1>1

(* What decode() makes of a request                                        *)
Asks(r, d) ==
    /\ d.fate = "decoded" /\ d.value.type = "array"
    /\ Len(d.value.elements) = 1 + Len(r.arguments)
    /\ \A k \in 1..1 + Len(r.arguments) :
          d.value.elements[k] = Value("string", TextAt(r, k), << >>)

(* A request of strings that has come completely is decoded as it was      *)
(* written, whatever lies behind it.                                       *)
LEMMA RequestRead ==
    ASSUME NEW r \in Written, Plain(r), NEW s \in Seq(Octets), Part(Wire[r], s, 0),
           NEW d, d = decode(s, 0)
    PROVE  Asks(r, d)
<1> DEFINE parts == Parts(r)
           n == Len(parts)
           joined == Joined(parts)
           body == joined[n]
           dec == Decimal(n)
           h == 3 + Len(dec)
           w == Wire[r]
           inner == Calls(s)[Stack - 1]
<1>1. /\ parts \in PartsOf(Octets) /\ n \in Nat /\ n <= 9999 /\ n = 1 + Len(r.arguments)
  BY PartsType
<1>2. WireParts(w, dec, body)
  BY WireIs
<1>3. \A k \in 1..n : parts[k] = Bulk(TextAt(r, k)) /\ TextAt(r, k) \in Known
  BY PlainParts
<1>4. Stacked(joined, parts, Octets)
  BY <1>1, JoinedLies
<1> HIDE DEF parts, joined
<1>5. \A k \in 1..n : Part(parts[k], body, Len(joined[k - 1]))
  BY <1>1, <1>4, PartJoined
<1>6. dec = Decimal(n) /\ Part(w, s, 0) /\ h = 3 + Len(dec)
  OBVIOUS
<1>7. \A p \in 0..Len(s) : inner[p] = decodeWith(s, p, Calls(s)[Stack - 2])
  BY InnerIs
<1>20. \A k \in 1..n : /\ Len(joined[k]) = Len(joined[k - 1]) + Len(parts[k])
                       /\ Len(joined[k]) \in Nat /\ Len(joined[k - 1]) \in Nat
  <2>1. \A k \in 0..n : Len(joined[k]) \in Nat
    BY ONLY <1>4 DEF Stacked, n
  <2>2. \A k \in 1..n : k \in 0..n /\ k - 1 \in 0..n
    BY <1>1
  <2>3. \A k \in 1..n : Len(joined[k]) = Len(joined[k - 1]) + Len(parts[k])
    BY ONLY <1>4 DEF Stacked, n
  <2> QED
    BY ONLY <2>1, <2>2, <2>3
<1>21. Len(joined[0]) = 0
  BY ONLY <1>4 DEF Stacked
<1>8. d = decodeWith(s, 0, inner)
  <2>1. Len(s) \in Nat
    BY ONLY s \in Seq(Octets)
  <2>2. 0 \in 0..Len(s)
    BY <2>1
  <2> QED
    BY <2>1, <2>2, DecodeIs
<1> HIDE DEF n, body, dec, w, inner
<1>9. /\ Len(s) \in Nat \ {0} /\ Byte(s, 0) = "*" /\ Number(s, 1) = n /\ FirstElement(s, 0) = h
  BY ONLY <1>1, <1>2, <1>6, RequestHeader, s \in Seq(Octets)
<1>10. /\ Len(w) \in Nat /\ Len(body) \in Nat /\ h \in Nat /\ Part(body, w, h)
  <2>1. /\ Len(w) \in Nat /\ Len(body) \in Nat /\ Len(dec) \in Nat /\ Part(body, w, h)
    BY ONLY <1>2, <1>6 DEF WireParts
  <2> QED
    BY ONLY <1>6, <2>1
<1> HIDE DEF h
<1>11. Part(body, s, h)
  <2>1. h = 0 + h /\ Len(s) \in Nat
    BY <1>9, <1>10
  <2> QED
    BY ONLY <1>6, <1>10, <2>1, PartOfPart, 0 \in Nat
<1>12. d = decodeArray(s, 0, inner)
  BY <1>8, <1>9 DEF decodeWith
<1>13. PICK element :
          /\ Chain(element, s, 0, inner, n)
          /\ decodeArray(s, 0, inner) = Made(element, n)
  <2>1. n = Number(s, 1) /\ n \in Nat
    BY <1>1, <1>9
  <2> QED
    BY ONLY <2>1, FirstArray
<1>14. ASSUME NEW k \in 1..n, element[k - 1].fate = "decoded",
              element[k - 1].next = h + Len(joined[k - 1])
       PROVE  element[k] = Decoded(h + Len(joined[k]), Value("string", TextAt(r, k), << >>))
  <2> DEFINE t == TextAt(r, k)
             x == Len(joined[k - 1])
             q == h + x
             b == Bulk(t)
  <2>1. t \in Known /\ Part(b, body, x) /\ x \in Nat /\ Len(joined[k]) = x + Len(b)
    BY <1>3, <1>5, <1>20
  <2>2. Len(b) \in Nat
    BY <2>1, BulkLen
  <2>3. q = h + x /\ q \in Nat /\ Len(s) \in Nat /\ b = Bulk(t)
    BY <1>9, <1>10, <2>1
  <2>4. element[k] = Element(s, 0, element[k - 1], inner)
    BY <1>13 DEF Chain
  <2>5. element[k - 1].next = q
    BY <1>14
  <2> HIDE DEF t, x, q, b
  <2>6. Part(b, s, q)
    BY ONLY <1>10, <1>11, <2>1, <2>2, <2>3, PartOfPart
  <2>7. /\ q \in 0..Len(s)
        /\ decodeWith(s, q, Calls(s)[Stack - 2]) = Decoded(q + Len(b), Value("string", t, << >>))
    <3>1. t \in Known /\ q \in Nat /\ Part(Bulk(t), s, q)
      BY ONLY <2>1, <2>3, <2>6
    <3> QED
      BY ONLY <2>3, <3>1, StringRead, s \in Seq(Octets)
  <2>8. element[k] = inner[q]
    BY <1>14, <2>4, <2>5, <2>7 DEF Element, InView
  <2>9. element[k] = Decoded(q + Len(b), Value("string", t, << >>))
    BY <1>7, <2>7, <2>8
  <2>10. q + Len(b) = h + Len(joined[k])
    BY ONLY <1>10, <2>1, <2>2, <2>3
  <2> QED
    BY <2>9, <2>10 DEF t
<1> DEFINE T == {k \in 0..n : /\ element[k].fate = "decoded"
                              /\ element[k].next = h + Len(joined[k])
                              /\ k # 0 => element[k].value = Value("string", TextAt(r, k), << >>)}
<1>15. 0 \in T
  <2>1. element[0] = Decoded(FirstElement(s, 0), Other)
    BY <1>13 DEF Chain
  <2> QED
    BY <2>1, <1>1, <1>9, <1>10, <1>21 DEF Decoded
<1>16. ASSUME NEW k \in 1..n, k - 1 \in T PROVE k \in T
  <2>1. element[k] = Decoded(h + Len(joined[k]), Value("string", TextAt(r, k), << >>))
    BY <1>14, <1>16
  <2>2. k \in 0..n
    BY <1>1
  <2> QED
    BY <2>1, <2>2 DEF Decoded
<1>17. \A k \in 0..n : k \in T
  <2> HIDE DEF T
  <2>1. n \in Nat
    BY <1>1
  <2> QED
    BY ONLY <2>1, <1>15, <1>16, Induct
<1>18. /\ element[n].fate = "decoded"
       /\ \A k \in 1..n : element[k].value = Value("string", TextAt(r, k), << >>)
  <2>1. n \in 0..n /\ \A k \in 1..n : k \in 0..n /\ k # 0
    BY <1>1
  <2> QED
    BY <1>17, <2>1
<1>19. d = Decoded(element[n].next, Value("array", << >>, ValuesOf(element, n)))
  BY <1>12, <1>13, <1>18 DEF Made
<1>22. d.fate = "decoded" /\ d.value.type = "array" /\ d.value.elements = ValuesOf(element, n)
  BY <1>19 DEF Decoded, Value
<1>23. /\ Len(ValuesOf(element, n)) = n
       /\ \A k \in 1..n : ValuesOf(element, n)[k] = element[k].value
  BY <1>1 DEF ValuesOf
<1>24. /\ Len(d.value.elements) = n
       /\ \A k \in 1..n : d.value.elements[k] = Value("string", TextAt(r, k), << >>)
  BY ONLY <1>18, <1>22, <1>23
<1> QED
  BY ONLY <1>1, <1>22, <1>24 DEF Asks

-----------------------------------------------------------------------------
(* A client that sends its requests whole                                  *)

(* A client that never had a part of a request received has its requests   *)
(* begin where a recv does.                                                *)
LEMMA MannerRead ==
    ASSUME NEW c \in Clients, Book(c), NEW n, n \in Lengths(c, Stream(c), Ends(c)),
           Manner(c, n, Ends(c)) \in {"one", "several"},
           NEW segment, segment = SubSeq(Stream(c), 1, n)
    PROVE  /\ sent[c][1] \in Requests[c] /\ sent[c][1] \in Written /\ Plain(sent[c][1])
           /\ segment \in Seq(Octets) /\ Part(Wire[sent[c][1]], segment, 0)
<1> DEFINE m == Len(sent[c])
           ends == Ends(c)
           whole == Whole(c)
           stream == Stream(c)
           r == sent[c][1]
<1>1. /\ manner[c] # "parts" /\ offset[c] = 0 /\ n \in Range(ends)
      /\ manner[c] # "integers" /\ \A i \in 1..m : Plain(sent[c][i])
  BY DEF Manner
<1>2. EndsOK(c, m, ends, whole, stream)
  BY EndsAre
<1>3. /\ m \in Nat /\ Stacked(whole, WiresOf(c), Octets)
      /\ \A k \in 0..m : ends[k] = Len(whole[k]) - offset[c]
      /\ stream \in Seq(Octets) /\ Len(stream) \in Nat
      /\ \A i \in 1..Len(stream) : stream[i] = whole[m][offset[c] + i]
  BY ONLY <1>2 DEF EndsOK
<1>4. /\ n \in Nat \ {0} /\ n <= Len(stream) /\ IsPiece(segment, stream, 0, n, Octets)
  BY SegmentIs
<1>5. segment \in Seq(Octets) /\ Len(segment) = n /\ \A i \in 1..n : segment[i] = stream[i]
  <2>1. n - 0 = n /\ \A i \in 1..n : 0 + i = i
    BY <1>4
  <2> QED
    BY ONLY <1>4, <2>1 DEF IsPiece
<1>6. /\ \A i \in 1..m : sent[c][i] \in Written /\ sent[c][i] \in Requests[c]
      /\ WiresOf(c) \in PartsOf(Octets) /\ Len(WiresOf(c)) = m
      /\ \A i \in 1..m : WiresOf(c)[i] = Wire[sent[c][i]]
  <2>1. sent[c] \in Seq(Requests[c])
    BY DEF Book
  <2>2. \A i \in 1..m : sent[c][i] \in Requests[c]
    BY ONLY <2>1
  <2> QED
    BY <2>1, <2>2, WiresType
<1>7. PICK k \in 0..m : n = ends[k]
  <2>1. DOMAIN ends = 0..m
    BY DEF Ends
  <2> QED
    BY <1>1, <2>1 DEF Range
<1> HIDE DEF ends, whole, stream
<1>8. \A j \in 0..m : Len(whole[j]) \in Nat
  BY ONLY <1>3, <1>6 DEF Stacked
<1>9. n = Len(whole[k])
  BY <1>1, <1>3, <1>7, <1>8
<1>10. k >= 1 /\ 1 \in 1..m /\ 1 \in 0..m /\ m \in 0..m /\ m >= 1
  <2>1. Len(whole[0]) = 0
    BY ONLY <1>3 DEF Stacked
  <2>2. k # 0
    BY <1>4, <1>9, <2>1
  <2> QED
    BY <1>3, <2>2
<1>11. r \in Written /\ r \in Requests[c] /\ Plain(r)
  BY <1>1, <1>6, <1>10
<1>12. whole[1] = Wire[r]
  <2>1. whole[0] = << >> /\ whole[1] = whole[0] \o WiresOf(c)[1]
    <3>1. whole[1] = whole[1 - 1] \o WiresOf(c)[1]
      BY ONLY <1>3, <1>6, <1>10 DEF Stacked
    <3>2. whole[0] = << >>
      BY ONLY <1>3 DEF Stacked
    <3>3. 1 - 1 = 0
      OBVIOUS
    <3> QED
      BY ONLY <3>1, <3>2, <3>3
  <2>2. WiresOf(c)[1] = Wire[r] /\ Wire[r] \in Seq(Octets)
    BY <1>6, <1>10, <1>11, WireType
  <2>3. \A x \in Seq(Octets) : << >> \o x = x
    OBVIOUS
  <2> QED
    BY ONLY <2>1, <2>2, <2>3
<1>13. Len(whole[1]) <= n /\ Len(whole[1]) \in Nat
  <2>1. Len(whole[1]) <= Len(whole[k])
    BY ONLY <1>3, <1>6, <1>7, <1>10, JoinedGrows
  <2> QED
    BY <1>8, <1>9, <1>10, <2>1
<1>14. \A i \in 1..Len(whole[1]) : whole[m][i] = whole[1][i]
  BY ONLY <1>3, <1>6, <1>10, JoinedGrows
<1>15. ASSUME NEW i \in 1..Len(whole[1]) PROVE segment[0 + i] = whole[1][i]
  <2>1. i \in 1..n /\ i \in 1..Len(stream) /\ 0 + i = i /\ i \in Nat
    BY <1>4, <1>13
  <2>2. segment[i] = stream[i]
    BY ONLY <1>5, <2>1
  <2>3. stream[i] = whole[m][offset[c] + i]
    BY ONLY <1>3, <2>1
  <2>4. offset[c] + i = i
    BY <1>1, <2>1
  <2>5. whole[m][i] = whole[1][i]
    BY ONLY <1>14, i \in 1..Len(whole[1])
  <2> QED
    BY ONLY <2>1, <2>2, <2>3, <2>4, <2>5
<1>16. 0 + Len(whole[1]) <= Len(segment)
  BY <1>5, <1>13
<1>17. Part(whole[1], segment, 0)
  BY ONLY <1>15, <1>16 DEF Part
<1> QED
  BY <1>5, <1>11, <1>12, <1>17

(* What a request of strings becomes                                       *)
LEMMA ConvertWhole ==
    ASSUME NEW r \in Written, Plain(r), NEW d, Asks(r, d), convertToCommands(d.value)
    PROVE  /\ d.value.elements # << >>
           /\ command' = NewCommand(r.kind) /\ given' = << >> /\ result' = "parsing"
           /\ rest' = r.arguments
<1> DEFINE n == Len(r.arguments)
           v == d.value.elements
<1>1. /\ d.value.type = "array" /\ Len(v) = 1 + n
      /\ \A k \in 1..1 + n : v[k] = Value("string", TextAt(r, k), << >>)
  BY DEF Asks
<1>2. /\ r.kind \in Kinds /\ n \in Nat /\ r.arguments \in Seq(Elements)
      /\ \A i \in 1..n : r.arguments[i] \in Elements
  BY WrittenType
<1>3. /\ command' = NewCommand(KindOf(v[1])) /\ given' = << >> /\ result' = "parsing"
      /\ rest' = [i \in 1..Len(v) - 1 |-> ElementOf(v[i + 1])]
  <2>1. KindOf(d.value) # "PING"
    BY <1>1 DEF KindOf
  <2> QED
    BY <1>1, <2>1 DEF convertToCommands
<1> HIDE DEF v, n
<1>4. v # << >>
  <2>1. Len(<< >>) = 0
    OBVIOUS
  <2> QED
    BY <1>1, <1>2, <2>1
<1>5. KindOf(v[1]) = r.kind
  <2>1. v[1] = Value("string", Names[r.kind], << >>)
    <3>1. 1 \in 1..1 + n
      BY <1>2
    <3> QED
      BY <1>1, <3>1 DEF TextAt
  <2>2. DOMAIN Names = Kinds /\ \A k \in Kinds : Names[k] = Names[r.kind] => k = r.kind
    BY <1>2, SpellingAssumption
  <2> QED
    BY <1>2, <2>1, <2>2 DEF KindOf, Value
<1>6. ASSUME NEW i \in 1..n PROVE ElementOf(v[i + 1]) = r.arguments[i]
  <2> DEFINE e == r.arguments[i]
  <2>1. v[i + 1] = Value("string", Spelling[e.text], << >>)
    <3>1. i + 1 \in 1..1 + n /\ i + 1 # 1 /\ (i + 1) - 1 = i
      BY <1>2
    <3> QED
      BY <1>1, <3>1 DEF TextAt
  <2>2. e \in Elements /\ e.type = "string"
    BY <1>2 DEF Plain, n
  <2> HIDE DEF e
  <2>3. e = [type |-> "string", text |-> e.text] /\ e.text \in Texts
    BY <2>2 DEF Elements
  <2>4. TextOf(Spelling[e.text]) = e.text
    BY <2>3, SpellingAssumption DEF TextOf
  <2>5. ElementOf(v[i + 1]) = [type |-> "string", text |-> TextOf(Spelling[e.text])]
    BY <2>1 DEF ElementOf, Value
  <2>6. ElementOf(v[i + 1]) = e
    BY ONLY <2>3, <2>4, <2>5
  <2> QED
    BY <2>6 DEF e
<1>7. rest' = r.arguments
  <2>1. Len(v) - 1 = n
    BY <1>1, <1>2
  <2>2. rest' = [i \in 1..n |-> r.arguments[i]]
    BY <1>3, <1>6, <2>1
  <2>3. \A x \in Seq(Elements) : x = [i \in 1..Len(x) |-> x[i]]
    OBVIOUS
  <2>4. r.arguments = [i \in 1..n |-> r.arguments[i]]
    BY ONLY <1>2, <2>3 DEF n
  <2> QED
    BY ONLY <2>2, <2>4
<1> QED
  BY <1>3, <1>4, <1>5, <1>7 DEF v

(* What a recv makes of the requests of such a client                      *)
LEMMA WholeInput ==
    ASSUME NEW c \in Clients, Book(c), NEW n, n \in Lengths(c, Stream(c), Ends(c)),
           Manner(c, n, Ends(c)) \in {"one", "several"},
           handleInput(SubSeq(Stream(c), 1, n)), NEW r, r = sent[c][1]
    PROVE  /\ r \in Requests[c] /\ r \in Written /\ Plain(r) /\ pc' = "parse"
           /\ command' = NewCommand(r.kind) /\ given' = << >> /\ result' = "parsing"
           /\ rest' = r.arguments
<1> DEFINE segment == SubSeq(Stream(c), 1, n)
           d == decode(segment, 0)
<1>1. /\ r \in Requests[c] /\ r \in Written /\ Plain(r)
      /\ segment \in Seq(Octets) /\ Part(Wire[r], segment, 0)
  BY MannerRead
<1>2. handleInput(segment)
  OBVIOUS
<1> HIDE DEF segment
<1>3. Asks(r, d)
  BY <1>1, RequestRead
<1>4. d.fate = "decoded" /\ d.value.type = "array" /\ d.value.elements # << >>
  <2>1. d.fate = "decoded" /\ d.value.type = "array" /\ Len(d.value.elements) = 1 + Len(r.arguments)
    BY <1>3 DEF Asks
  <2>2. Len(r.arguments) \in Nat
    BY <1>1, WrittenType
  <2>3. Len(<< >>) = 0
    OBVIOUS
  <2> QED
    BY <2>1, <2>2, <2>3
<1>5. pc' = "parse" /\ convertToCommands(d.value)
  BY <1>2, <1>4 DEF handleInput
<1> HIDE DEF d
<1> QED
  BY <1>1, <1>3, <1>5, ConvertWhole

-----------------------------------------------------------------------------
(* Nothing to abort on                                                     *)

(* Requests of strings leave nothing that a visit would abort on.          *)
Harmless ==
    /\ pc = "parse" /\ manner[serving] \in {"one", "several"} =>
          /\ result # "aborted"
          /\ \A i \in 1..Len(rest) : rest[i].type = "string"
    /\ SurvivesWhole

(* What handleClient does, without the history                             *)
LEMMA ClientServed ==
    ASSUME NEW c \in Clients, handleClient(c), BooksOK
    PROVE  /\ Book(c) /\ serving' = c
           /\ \E n \in Lengths(c, Stream(c), Ends(c)) :
                 /\ handleInput(SubSeq(Stream(c), 1, n))
                 /\ manner' = [manner EXCEPT ![c] = Manner(c, n, Ends(c))]
                 /\ due' = [due EXCEPT ![c] = IF Manner(c, n, Ends(c)) = "one"
                                              THEN Append(@, Owed(sent[c][1])) ELSE << >>]
                 /\ got' = [got EXCEPT ![c] = IF Manner(c, n, Ends(c)) = "one" THEN @ ELSE << >>]
BY DEF handleClient, BooksOK

(* Harmless is inductive, given the books.                                 *)
LEMMA HarmlessStep == BooksOK /\ Harmless /\ [ConnectionNext]_connectionVars => Harmless'
<1> SUFFICES ASSUME BooksOK, Harmless, [ConnectionNext]_connectionVars PROVE Harmless'
  OBVIOUS
<1>1. ASSUME UNCHANGED <<pc, manner, serving, result, rest>> PROVE Harmless'
  BY <1>1 DEF Harmless, SurvivesWhole
<1>2. ASSUME NEW c \in Clients, Request(c) PROVE Harmless'
  BY <1>1, <1>2 DEF Request, vars
<1>3. ASSUME NEW c \in Clients, handleClient(c) PROVE Harmless'
  <2>1. PICK n \in Lengths(c, Stream(c), Ends(c)) :
                 /\ handleInput(SubSeq(Stream(c), 1, n))
                 /\ manner' = [manner EXCEPT ![c] = Manner(c, n, Ends(c))]
    BY <1>3, ClientServed
  <2> DEFINE came == Manner(c, n, Ends(c))
  <2>2. Book(c) /\ serving' = c /\ manner'[c] = came
    BY <1>3, <2>1, ClientServed DEF BooksOK
  <2>3. came \in {"one", "several", "integers", "parts"}
    BY DEF Manner
  <2>4. CASE came \in {"one", "several"}
    <3> DEFINE r == sent[c][1]
    <3>1. /\ r \in Written /\ Plain(r) /\ pc' = "parse" /\ result' = "parsing" /\ rest' = r.arguments
      BY <2>1, <2>2, <2>4, WholeInput
    <3> QED
      BY <3>1 DEF Harmless, SurvivesWhole, Plain
  <2>5. CASE came \in {"integers", "parts"}
    BY <2>2, <2>5 DEF Harmless, SurvivesWhole
  <2> QED
    BY <2>3, <2>4, <2>5
<1>4. CASE parse
  <2> DEFINE e == Head(rest)
  <2>1. /\ pc = "parse" /\ rest # << >> /\ Visit(e) /\ rest' = Tail(rest)
        /\ UNCHANGED <<pc, manner, serving>>
    BY <1>4 DEF parse
  <2>2. rest \in Seq(Elements) /\ FieldsOK
    BY DEF BooksOK
  <2>3. e = rest[1] /\ 1 \in 1..Len(rest)
    BY <2>1, <2>2
  <2>4. /\ Len(rest') = Len(rest) - 1 /\ Len(rest) \in Nat
        /\ \A i \in 1..Len(rest) - 1 : rest'[i] = rest[i + 1]
    BY <2>1, <2>2
  <2>5. CASE manner[serving] \in {"one", "several"}
    <3>1. \A i \in 1..Len(rest) : rest[i].type = "string"
      BY <2>1, <2>5 DEF Harmless
    <3>2. \A i \in 1..Len(rest') : rest'[i].type = "string"
      <4> TAKE i \in 1..Len(rest')
      <4>1. i \in 1..Len(rest) - 1 /\ i + 1 \in 1..Len(rest)
        BY <2>4
      <4> QED
        BY <2>4, <3>1, <4>1
    <3>3. e.type = "string"
      BY <2>3, <3>1
    <3> HIDE DEF e
    <3>4. result = "parsing" /\ ParsePayload(e)
      BY <2>1 DEF Visit
    <3>5. result' # "aborted"
      BY <3>3, <3>4 DEF ParsePayload, SetPayload, KeyPayload, PingPayload, HelloPayload, UnknownPayload
    <3> QED
      BY <2>1, <3>2, <3>5 DEF Harmless, SurvivesWhole
  <2>6. CASE manner[serving] \notin {"one", "several"}
    BY <2>1, <2>6 DEF Harmless, SurvivesWhole
  <2> QED
    BY <2>5, <2>6
<1>5. CASE execute
  BY <1>5 DEF execute, Harmless, SurvivesWhole
<1>6. CASE abort
  <2>1. /\ pc = "parse" /\ result = "aborted" /\ pc' = "dead" /\ manner' = manner
    BY <1>6 DEF abort
  <2>2. serving \in Clients /\ manner[serving] \in Manners
    BY <2>1 DEF BooksOK
  <2>3. manner[serving] \in {"integers", "parts"}
    BY <2>1, <2>2 DEF Harmless, Manners
  <2> QED
    BY <2>1, <2>2, <2>3 DEF Harmless, SurvivesWhole
<1>7. CASE UNCHANGED connectionVars
  BY <1>1, <1>7 DEF connectionVars, vars
<1> QED
  BY <1>2, <1>3, <1>4, <1>5, <1>6, <1>7 DEF ConnectionNext

(* Requests of strings never end the server, however many of them come in  *)
(* one recv: decode() takes the first as it was written, and no visit of   *)
(* a string aborts.  Only integers or a cut can (handleInput).             *)
THEOREM WholeSurvives == ConnectionSpec => []SurvivesWhole
<1>1. ConnectionInit => Harmless
  BY DEF ConnectionInit, Harmless, SurvivesWhole
<1>2. Harmless => SurvivesWhole
  BY DEF Harmless
<1> QED
  BY <1>1, <1>2, BooksInit, BooksStep, HarmlessStep, PTL DEF ConnectionSpec

-----------------------------------------------------------------------------
(* The first two texts of a SET                                            *)

(* What is none of the types of an element is stored without a text.       *)
Blank == \A i \in 1..Len(rest) : rest[i].type = "other" => rest[i].text = Empty

(* So convertToCommands leaves them, and a command without key and value.  *)
LEMMA ConvertBlank ==
    ASSUME NEW s, Len(s) \in Nat \ {0}, NEW r, r = decode(s, 0), r.fate = "decoded",
           r.value.type = "array" => r.value.elements # << >>, convertToCommands(r.value)
    PROVE  Blank' /\ FirstTwo'
<1>1. FirstTwo'
  <2>1. command'.key_ = Empty /\ command'.value_ = Empty /\ given' = << >>
    BY DEF convertToCommands, NewCommand
  <2> QED
    BY <2>1 DEF FirstTwo, Silent
<1>2. CASE r.value.type # "array"
  BY <1>1, <1>2 DEF convertToCommands, Blank
<1>3. CASE r.value.type = "array"
  <2> DEFINE v == r.value.elements
  <2>1. PICK length \in Nat : \E element : v = ValuesOf(element, length)
    BY <1>3, DecodeArray
  <2>2. PICK element : v = ValuesOf(element, length)
    BY <2>1
  <2>3. Len(v) = length /\ v # << >>
    BY <1>3, <2>2 DEF ValuesOf
  <2>4. length # 0
    BY <2>2, <2>3 DEF ValuesOf
  <2>5. length - 1 \in Nat
    BY <2>4
  <2>6. rest' = [i \in 1..length - 1 |-> ElementOf(v[i + 1])]
    BY <1>3, <2>3 DEF convertToCommands
  <2> HIDE DEF v
  <2>7. ASSUME NEW i \in 1..length - 1, rest'[i].type = "other" PROVE rest'[i].text = Empty
    <3>1. rest'[i] = ElementOf(v[i + 1])
      BY <2>5, <2>6
    <3> QED
      BY <2>7, <3>1 DEF ElementOf
  <2>8. Len(rest') = length - 1
    BY <2>5, <2>6
  <2> QED
    BY <1>1, <2>7, <2>8 DEF Blank
<1> QED
  BY <1>2, <1>3

(* Both are inductive, given the books.                                    *)
LEMMA BlankStep ==
    BooksOK /\ Blank /\ FirstTwo /\ [ConnectionNext]_connectionVars => Blank' /\ FirstTwo'
<1> SUFFICES ASSUME BooksOK, Blank, FirstTwo, [ConnectionNext]_connectionVars
             PROVE  Blank' /\ FirstTwo'
  OBVIOUS
<1>1. FieldsOK /\ rest \in Seq(Elements)
  BY DEF BooksOK
<1>2. ASSUME UNCHANGED vars PROVE FirstTwo'
  BY <1>2 DEF vars, FirstTwo, Silent
<1>3. ASSUME UNCHANGED <<rest, vars>> PROVE Blank' /\ FirstTwo'
  BY <1>2, <1>3 DEF Blank
<1>4. ASSUME NEW c \in Clients, Request(c) PROVE Blank' /\ FirstTwo'
  BY <1>3, <1>4 DEF Request
<1>5. ASSUME NEW c \in Clients, handleClient(c) PROVE Blank' /\ FirstTwo'
  <2>1. PICK n \in Lengths(c, Stream(c), Ends(c)) : handleInput(SubSeq(Stream(c), 1, n))
    BY <1>5, ClientServed
  <2> DEFINE s == SubSeq(Stream(c), 1, n)
             r == decode(s, 0)
  <2>2. Len(s) \in Nat \ {0}
    BY <1>5, SegmentIs DEF BooksOK
  <2>3. CASE r.fate = "decoded" /\ (r.value.type = "array" => r.value.elements # << >>)
    <3>1. convertToCommands(r.value)
      BY <2>1, <2>3 DEF handleInput
    <3>2. r = decode(s, 0)
      OBVIOUS
    <3> HIDE DEF r, s
    <3> QED
      BY <2>2, <2>3, <3>1, <3>2, ConvertBlank
  <2>4. CASE ~(r.fate = "decoded" /\ (r.value.type = "array" => r.value.elements # << >>))
    <3>1. UNCHANGED <<rest, vars>>
      BY <2>1, <2>4 DEF handleInput
    <3> QED
      BY <1>3, <3>1
  <2> QED
    BY <2>3, <2>4
<1>6. CASE parse
  <2>1. rest # << >> /\ Visit(Head(rest)) /\ rest' = Tail(rest)
    BY <1>6 DEF parse
  <2>2. /\ Len(rest) \in Nat \ {0} /\ Head(rest) = rest[1] /\ Head(rest) \in Elements
        /\ Len(Tail(rest)) = Len(rest) - 1
        /\ \A i \in 1..Len(rest) - 1 : Tail(rest)[i] = rest[i + 1]
    BY <1>1, <2>1
  <2>3. Head(rest).type = "other" => Head(rest).text = Empty
    BY <2>2 DEF Blank
  <2>4. FirstTwo'
    BY <1>1, <2>1, <2>2, <2>3, TwoVisit
  <2>5. Blank'
    <3>1. \A i \in 1..Len(rest) - 1 : i + 1 \in 1..Len(rest)
      BY <2>2
    <3> QED
      BY <2>1, <2>2, <3>1 DEF Blank
  <2> QED
    BY <2>4, <2>5
<1>7. CASE execute
  <2>1. rest' = << >> /\ UNCHANGED vars
    BY <1>7 DEF execute
  <2> QED
    BY <1>2, <2>1 DEF Blank
<1>8. CASE abort
  BY <1>3, <1>8 DEF abort
<1>9. CASE UNCHANGED connectionVars
  BY <1>3, <1>9 DEF connectionVars
<1> QED
  BY <1>4, <1>5, <1>6, <1>7, <1>8, <1>9 DEF ConnectionNext

(* Whatever the decoder has read, and from wherever it has jumped back: a  *)
(* SET that is executed has its first two texts as key and value           *)
(* (convertToCommands, operator()(CommandSet)).                            *)
THEOREM FirstTwoServed == ConnectionSpec => []FirstTwo
<1>1. ConnectionInit => Blank /\ FirstTwo
  BY DEF ConnectionInit, Blank, FirstTwo, Silent, NewCommand
<1> QED
  BY <1>1, BooksInit, BooksStep, BlankStep, PTL DEF ConnectionSpec

-----------------------------------------------------------------------------
(* What is owed                                                            *)

(* What a client may be told                                               *)
Told ==
    [to : Kinds, kind : {"OK", "bulk", "int", "missing", "invalid", "map"},
     value : Values \cup Texts \cup {0, 1, None}]

(* What may be told is an answer.                                          *)
LEMMA ToldType ==
    ASSUME NEW to \in Kinds, NEW kind \in {"OK", "bulk", "int", "missing", "invalid", "map"},
           NEW value \in Values \cup Texts \cup {0, 1, None}
    PROVE  Answer(to, kind, value) \in Told
BY DEF Answer, Told

(* How far the parsing of a request of strings has come                    *)
Understood(r) ==
    /\ command.kind = r.kind /\ result = "parsing"
    /\ Len(given) + Len(rest) = Len(r.arguments)
    /\ \A i \in 1..Len(rest) : rest[i] = r.arguments[Len(given) + i]
    /\ r.kind = "SET" => command.state_ = "Done" \/ command.key_ = Empty
    /\ r.kind \in {"GET", "EXISTS", "INCR"} =>
          command.key_ = IF Len(given) = 0 THEN Empty ELSE r.arguments[1].text
    /\ r.kind \in {"PING", "HELLO"} =>
          command.value_ = IF Len(given) = 0 THEN Empty ELSE r.arguments[1].text

(* What a client in step has received, and what it will                    *)
Accounted(c) ==
    /\ got[c] \in Seq(Told)
    /\ pc # "dead" /\ manner[c] = "one" /\ ~(pc = "parse" /\ serving = c) => due[c] = got[c]

(* The inductive invariant of InStep                                       *)
Promised ==
    /\ DOMAIN got = Clients /\ DOMAIN due = Clients
    /\ \A c \in Clients : Accounted(c)
    /\ pc = "parse" /\ manner[serving] = "one" =>
          \E r \in Written : /\ Plain(r) /\ Understood(r)
                             /\ due[serving] = Append(got[serving], Owed(r))

(* What get() shows of a key                                               *)
LEMMA GetIs ==
    ASSUME NEW k \in Keys, map_ \in [Keys -> ValueType \cup {Null}], get(k) # Null
    PROVE  get(k).value_ \in Values /\ get(k).expire_ \in Nat \cup {Null}
BY DEF get, ValueType

(* Which arguments a request has                                           *)
LEMMA AskedIs ==
    ASSUME NEW r \in Written, Plain(r)
    PROVE  /\ r.kind \in {"GET", "EXISTS", "INCR", "HELLO"} =>
                  /\ Len(r.arguments) = 1 /\ r.arguments[1].text \in Texts \ {Empty}
           /\ r.kind = "PING" =>
                  /\ Len(r.arguments) \in {0, 1}
                  /\ Len(r.arguments) = 1 => r.arguments[1].text \in Texts \ {Empty}
<1>1. /\ r.kind \in Kinds /\ Len(r.arguments) \in Nat
      /\ \A i \in 1..Len(r.arguments) : r.arguments[i].text \in Texts
  BY WrittenType, ArgumentKnown
<1>2. r.kind \in {"GET", "EXISTS", "INCR", "HELLO", "PING"} =>
          \A i \in 1..Len(r.arguments) : r.arguments[i].text # Empty
  BY AskedAssumption
<1>3. /\ r.kind \in {"GET", "EXISTS", "INCR", "HELLO"} => Len(r.arguments) = 1
      /\ r.kind = "PING" => Len(r.arguments) <= 1
  BY AskedAssumption
<1> DEFINE n == Len(r.arguments)
<1>4. n \in Nat /\ (n <= 1 => n \in {0, 1}) /\ (n = 1 => 1 \in 1..n)
  <2>1. n \in Nat
    BY <1>1
  <2> HIDE DEF n
  <2>2. n <= 1 => n \in {0, 1}
    BY ONLY <2>1
  <2>3. n = 1 => 1 \in 1..n
    BY ONLY <2>1
  <2> QED
    BY ONLY <2>1, <2>2, <2>3
<1>5. /\ r.kind \in {"GET", "EXISTS", "INCR", "HELLO"} => n = 1
      /\ r.kind = "PING" => n <= 1
      /\ \A i \in 1..n : r.arguments[i].text \in Texts
      /\ r.kind \in {"GET", "EXISTS", "INCR", "HELLO", "PING"} =>
            \A i \in 1..n : r.arguments[i].text # Empty
  BY <1>1, <1>2, <1>3
<1> HIDE DEF n
<1>6. r.kind \in {"GET", "EXISTS", "INCR", "HELLO", "PING"} /\ n = 1 =>
          r.arguments[1].text \in Texts \ {Empty}
  BY ONLY <1>4, <1>5
<1> QED
  BY <1>4, <1>5, <1>6 DEF n

(* Keys and texts are told apart.                                          *)
LEMMA KeyFacts ==
    ASSUME NEW t \in Texts
    PROVE  t \in Keys /\ t \in Views
BY DatabaseAssumption DEF Views

(* A request is owed something that a client may be told.                  *)
LEMMA OwedType ==
    ASSUME NEW r \in Written, Plain(r), map_ \in [Keys -> ValueType \cup {Null}]
    PROVE  Owed(r) \in Told
<1>1. r.kind \in Kinds
  BY WrittenType
<1>2. None = Null
  BY DatabaseAssumption
<1> DEFINE t == r.arguments[1].text
<1>3. CASE r.kind = "PING"
  <2>1. (IF r.arguments = << >> THEN None ELSE t) \in Values \cup Texts \cup {0, 1, None}
    <3>1. CASE Len(r.arguments) = 1
      BY <1>3, <3>1, AskedIs
    <3>2. CASE Len(r.arguments) = 0
      <4>1. r.arguments = << >>
        <5>1. r.arguments \in Seq(Elements)
          BY WrittenType
        <5> QED
          BY <3>2, <5>1
      <4> QED
        BY <4>1
    <3> QED
      BY <1>3, <3>1, <3>2, AskedIs
  <2>2. Owed(r) = Answer("PING", "bulk", IF r.arguments = << >> THEN None ELSE t)
    BY <1>3 DEF Owed
  <2> QED
    BY <2>1, <2>2, ToldType, <1>1, <1>3
<1>4. CASE r.kind = "HELLO"
  <2>1. Owed(r) \in {Answer("HELLO", "map", None), Answer("HELLO", "invalid", None)}
    BY <1>4 DEF Owed
  <2> QED
    BY <1>1, <1>4, <2>1, ToldType
<1>5. CASE r.kind = "SET"
  <2>1. Owed(r) = Answer("SET", "OK", None)
    BY <1>5 DEF Owed
  <2> QED
    BY <1>1, <1>5, <2>1, ToldType
<1>6. CASE r.kind = "GET"
  <2>1. CASE get(t) = None
    <3>1. Owed(r) = Answer(r.kind, "missing", None)
      BY <1>6, <2>1 DEF Owed
    <3> QED
      BY <1>1, <3>1, ToldType
  <2>2. CASE get(t) # None
    <3>1. Owed(r) = Answer("GET", "bulk", get(t).value_)
      BY <1>6, <2>2 DEF Owed
    <3>2. get(t).value_ \in Values
      BY <1>2, <1>6, <2>2, AskedIs, KeyFacts, GetIs
    <3> QED
      BY <1>1, <1>6, <3>1, <3>2, ToldType
  <2> QED
    BY <2>1, <2>2
<1>7. CASE r.kind = "EXISTS"
  <2>1. Owed(r) \in {Answer("EXISTS", "int", 0), Answer("EXISTS", "int", 1)}
    BY <1>7 DEF Owed
  <2> QED
    BY <1>1, <1>7, <2>1, ToldType
<1>8. CASE r.kind = "INCR"
  <2>1. Owed(r) \in {Answer("INCR", "OK", None), Answer("INCR", "invalid", None), Answer(r.kind, "missing", None)}
    BY <1>8 DEF Owed
  <2> QED
    BY <1>1, <1>8, <2>1, ToldType
<1>9. CASE r.kind = "unknown"
  <2>1. Owed(r) = Answer("unknown", "invalid", None)
    BY <1>9 DEF Owed
  <2> QED
    BY <1>1, <1>9, <2>1, ToldType
<1> QED
  BY <1>1, <1>3, <1>4, <1>5, <1>6, <1>7, <1>8, <1>9 DEF Kinds

(* The fields of a command just begun                                      *)
LEMMA UnderstoodFirst ==
    ASSUME NEW r \in Written, command' = NewCommand(r.kind), given' = << >>, result' = "parsing",
           rest' = r.arguments
    PROVE  Understood(r)'
<1>1. Len(r.arguments) \in Nat
  BY WrittenType
<1>2. Len(given') = 0
  OBVIOUS
<1>3. command'.kind = r.kind /\ command'.key_ = Empty /\ command'.value_ = Empty
  BY DEF NewCommand
<1>4. 0 + Len(r.arguments) = Len(r.arguments) /\ \A i \in 1..Len(r.arguments) : 0 + i = i
  BY <1>1
<1> QED
  BY <1>2, <1>3, <1>4 DEF Understood

(* What the visits make of a request that was understood                   *)
LEMMA UnderstoodVisit ==
    ASSUME NEW r \in Written, Plain(r), Understood(r), FieldsOK, rest \in Seq(Elements), rest # << >>,
           Visit(Head(rest)), rest' = Tail(rest)
    PROVE  Understood(r)'
<1> DEFINE e == Head(rest)
           a == Len(given)
           b == Len(rest)
<1>1. a \in Nat /\ b \in Nat /\ b >= 1 /\ e = rest[1] /\ 1 \in 1..b
  <2>1. given \in Seq(Elements)
    BY DEF FieldsOK
  <2> QED
    BY <2>1
<1>2. e \in Elements /\ command \in Fields
  <2>1. rest[1] \in Elements
    BY ONLY <1>1, rest \in Seq(Elements)
  <2> QED
    BY ONLY <1>1, <2>1, FieldsOK DEF FieldsOK
<1>3. /\ given' = Append(given, e) /\ result = "parsing" /\ ParsePayload(e)
  BY DEF Visit
<1>4. Len(given') = a + 1
  BY <1>3 DEF FieldsOK
<1>5. Len(rest') = b - 1 /\ \A i \in 1..b - 1 : rest'[i] = rest[i + 1]
  BY <1>1
<1>6. a + b = Len(r.arguments) /\ \A i \in 1..b : rest[i] = r.arguments[a + i]
  BY DEF Understood
<1> HIDE DEF e, a, b
<1>7. (a + 1) + (b - 1) = Len(r.arguments) /\ \A i \in 1..b - 1 : rest'[i] = r.arguments[(a + 1) + i]
  <2>1. \A i \in 1..b - 1 : i + 1 \in 1..b /\ a + (i + 1) = (a + 1) + i
    BY <1>1
  <2>2. (a + 1) + (b - 1) = a + b
    BY <1>1
  <2>3. \A i \in 1..b - 1 : rest'[i] = r.arguments[(a + 1) + i]
    BY ONLY <1>5, <1>6, <2>1
  <2> QED
    BY ONLY <1>6, <2>2, <2>3
<1>8. e = r.arguments[a + 1] /\ a + 1 \in 1..Len(r.arguments)
  BY <1>1, <1>6
<1>9. e.type = "string"
  BY <1>8 DEF Plain
<1>10. command.kind = r.kind
  BY DEF Understood
<1>11. r.kind \in {"GET", "EXISTS", "INCR", "HELLO", "PING"} =>
           a = 0 /\ e = r.arguments[1] /\ e.text # Empty
  BY <1>1, <1>8, AskedIs
<1>12. a + 1 # 0
  BY <1>1
<1>13. ASSUME command'.kind = r.kind, result' = "parsing",
              r.kind = "SET" => command'.state_ = "Done" \/ command'.key_ = Empty,
              r.kind \in {"GET", "EXISTS", "INCR"} => command'.key_ = r.arguments[1].text,
              r.kind \in {"PING", "HELLO"} => command'.value_ = r.arguments[1].text
       PROVE  Understood(r)'
  BY <1>4, <1>5, <1>7, <1>12, <1>13 DEF Understood
<1>14. View(e) = e.text
  BY <1>9 DEF View
<1>15. CASE r.kind = "SET"
  <2>1. SetPayload(e)
    BY <1>3, <1>10, <1>15 DEF ParsePayload, KeyPayload, PingPayload, HelloPayload, UnknownPayload
  <2>2. ~Refuses(e)
    BY <1>15 DEF Refuses, Understood
  <2> DEFINE fields == IF command.key_ = Empty THEN [command EXCEPT !.key_ = View(e)]
                       ELSE IF command.value_ = Empty THEN [command EXCEPT !.value_ = View(e)]
                       ELSE Option(e)
  <2>3. command' = [fields EXCEPT !.state_ = "Done"] /\ result' = result
    BY <2>1, <2>2 DEF SetPayload, Finished
  <2>4. fields \in Fields
    BY <1>2, <2>2, OptionType, ViewType DEF Fields
  <2>5. fields.kind = command.kind
    BY <1>2 DEF Fields, Option
  <2> HIDE DEF fields
  <2>6. command'.state_ = "Done" /\ command'.kind = command.kind
    BY <2>3, <2>4, <2>5 DEF Fields
  <2> QED
    BY <1>3, <1>10, <1>13, <1>15, <2>3, <2>6
<1>16. CASE r.kind \in {"GET", "EXISTS", "INCR"}
  <2>1. KeyPayload(e)
    BY <1>3, <1>10, <1>16 DEF ParsePayload, SetPayload, PingPayload, HelloPayload, UnknownPayload
  <2>2. command' = [command EXCEPT !.key_ = e.text]
    BY <1>9, <1>14, <2>1 DEF KeyPayload
  <2>3. command'.key_ = e.text /\ command'.kind = command.kind
    BY <1>2, <2>2 DEF Fields
  <2>4. result' = "parsing"
    BY <1>3, <1>11, <1>16, <2>1, <2>3 DEF KeyPayload
  <2> QED
    BY <1>10, <1>11, <1>13, <1>16, <2>3, <2>4
<1>17. CASE r.kind = "PING"
  <2>1. PingPayload(e)
    BY <1>3, <1>10, <1>17 DEF ParsePayload, SetPayload, KeyPayload, HelloPayload, UnknownPayload
  <2>2. command' = [command EXCEPT !.value_ = e.text] /\ result' = result
    BY <1>9, <2>1 DEF PingPayload
  <2>3. command'.value_ = e.text /\ command'.kind = command.kind
    BY <1>2, <2>2 DEF Fields
  <2> QED
    BY <1>3, <1>10, <1>11, <1>13, <1>17, <2>2, <2>3
<1>18. CASE r.kind = "HELLO"
  <2>1. HelloPayload(e)
    BY <1>3, <1>10, <1>18 DEF ParsePayload, SetPayload, KeyPayload, PingPayload, UnknownPayload
  <2>2. command' = [command EXCEPT !.value_ = e.text] /\ result' = result
    BY <1>9, <1>11, <1>18, <2>1 DEF HelloPayload
  <2>3. command'.value_ = e.text /\ command'.kind = command.kind
    BY <1>2, <2>2 DEF Fields
  <2> QED
    BY <1>3, <1>10, <1>11, <1>13, <1>18, <2>2, <2>3
<1>19. CASE r.kind = "unknown"
  <2>1. UnknownPayload(e)
    BY <1>3, <1>10, <1>19 DEF ParsePayload, SetPayload, KeyPayload, PingPayload, HelloPayload
  <2> QED
    BY <1>3, <1>10, <1>13, <1>19, <2>1 DEF UnknownPayload
<1>20. r.kind \in Kinds
  BY WrittenType
<1> QED
  BY <1>15, <1>16, <1>17, <1>18, <1>19, <1>20 DEF Kinds

-----------------------------------------------------------------------------
(* Each client gets what it asked for                                      *)

(* INCR leaves an int, or what it found.                                   *)
LEMMA IncrementedIs ==
    ASSUME NEW v \in Values
    PROVE  Incremented(v) = Null <=> stoi(v) = Null
<1>1. stoi(v) \in Ints \cup {Null}
  BY StringsAssumption DEF stoi, Values
<1>2. \A n \in Ints : PlusOne(n) \in Ints
  BY NumbersAssumption DEF PlusOne, Ints, IntMin
<1>3. Null \notin Ints
  BY StringsAssumption DEF Values
<1> QED
  BY <1>1, <1>2, <1>3 DEF Incremented

(* A command that has been understood is answered what its request is      *)
(* owed by the database as it was when it came.                            *)
LEMMA Answered ==
    ASSUME NEW r \in Written, Plain(r), Understood(r), BooksOK, rest = << >>,
           map_ \in [Keys -> ValueType \cup {Null}], commandHandler_
    PROVE  reply' = Owed(r)
<1> DEFINE t == r.arguments[1].text
           n == Len(r.arguments)
<1>1. Len(given) = n
  <2>1. Len(rest) = 0
    OBVIOUS
  <2>2. given \in Seq(Elements)
    BY DEF BooksOK, FieldsOK
  <2>3. Len(given) \in Nat
    BY ONLY <2>2
  <2> QED
    BY <2>1, <2>3 DEF Understood
<1>2. command.kind = r.kind /\ result = "parsing" /\ r.kind \in Kinds
  BY WrittenType DEF Understood
<1>3. None = Null
  BY DatabaseAssumption
<1>4. r.kind \in {"GET", "EXISTS", "INCR"} => command.key_ = t /\ t \in Keys
  <2>1. r.kind \in {"GET", "EXISTS", "INCR"} => Len(given) = 1 /\ t \in Keys
    BY <1>1, AskedIs, KeyFacts
  <2> QED
    BY <2>1 DEF Understood
<1>5. r.kind \in {"PING", "HELLO"} =>
          command.value_ = IF n = 0 THEN Empty ELSE t
  BY <1>1 DEF Understood
<1>6. CASE r.kind = "PING"
  <2>1. reply' = Answer("PING", "bulk", IF command.value_ = Empty THEN None ELSE command.value_)
    BY <1>2, <1>6 DEF commandHandler_, CommandPing
  <2>2. Owed(r) = Answer("PING", "bulk", IF r.arguments = << >> THEN None ELSE t)
    BY <1>6 DEF Owed
  <2>3. r.arguments = << >> <=> n = 0
    <3>1. r.arguments \in Seq(Elements)
      BY WrittenType
    <3> QED
      BY ONLY <3>1 DEF n
  <2>4. n # 0 => t # Empty
    BY <1>6, AskedIs
  <2> QED
    BY <1>5, <1>6, <2>1, <2>2, <2>3, <2>4
<1>7. CASE r.kind = "HELLO"
  <2>1. reply' = Answer("HELLO", IF command.value_ # Empty /\ Spelling[command.value_] = <<"3">>
                                 THEN "map" ELSE "invalid", None)
    BY <1>2, <1>7 DEF commandHandler_, CommandHello
  <2>2. Owed(r) = Answer("HELLO", IF Spelling[t] = <<"3">> THEN "map" ELSE "invalid", None)
    BY <1>7 DEF Owed
  <2>3. n # 0 /\ t # Empty
    BY <1>7, AskedIs
  <2> QED
    BY <1>5, <1>7, <2>1, <2>2, <2>3
<1>8. CASE r.kind = "unknown"
  BY <1>2, <1>8 DEF commandHandler_, CommandUnknown, Owed
<1>9. CASE r.kind = "SET"
  BY <1>2, <1>3, <1>9 DEF commandHandler_, DatabaseCommand, CommandSet, Owed
<1>10. CASE r.kind = "GET"
  <2>1. CommandGet(t)
    BY <1>2, <1>4, <1>10 DEF commandHandler_, DatabaseCommand
  <2> QED
    BY <1>3, <1>10, <2>1 DEF CommandGet, Owed
<1>11. CASE r.kind = "EXISTS"
  <2>1. CommandExists(t)
    BY <1>2, <1>4, <1>11 DEF commandHandler_, DatabaseCommand
  <2> QED
    BY <1>3, <1>11, <2>1 DEF CommandExists, Owed
<1>12. CASE r.kind = "INCR"
  <2> DEFINE content == get(t)
  <2>1. CommandIncr(t)
    BY <1>2, <1>4, <1>12 DEF commandHandler_, DatabaseCommand
  <2>2. CASE content = Null
    <3>1. reply' = Answer("INCR", "missing", Null)
      BY <2>1, <2>2 DEF CommandIncr
    <3>2. Owed(r) = Answer("INCR", "missing", None)
      BY <1>3, <1>12, <2>2 DEF Owed
    <3> QED
      BY <1>3, <3>1, <3>2
  <2>3. CASE content # Null
    <3>1. content.value_ \in Values
      BY <1>4, <1>12, <2>3, GetIs
    <3>2. Incremented(content.value_) = Null <=> stoi(content.value_) = Null
      BY <3>1, IncrementedIs
    <3>3. reply' = Answer("INCR", IF Incremented(content.value_) = Null THEN "invalid" ELSE "OK", Null)
      BY <2>1, <2>3 DEF CommandIncr
    <3>4. Owed(r) = Answer("INCR", IF stoi(content.value_) # None THEN "OK" ELSE "invalid", None)
      BY <1>3, <1>12, <2>3 DEF Owed
    <3> QED
      BY <1>3, <3>2, <3>3, <3>4
  <2> QED
    BY <2>2, <2>3
<1> QED
  BY <1>2, <1>6, <1>7, <1>8, <1>9, <1>10, <1>11, <1>12 DEF Kinds

(* The first element stays the first.                                      *)
LEMMA AppendFront ==
    ASSUME NEW S, NEW s \in Seq(S), NEW x \in S
    PROVE  Front(Append(s, x)) = s /\ Append(s, x) \in Seq(S) /\ << >> \o Append(s, x) = Append(s, x)
           /\ s \o Append(<< >>, x) = Append(s, x)
<1>1. Front(Append(s, x)) = s
  BY DEF Front
<1> QED
  BY <1>1

(* Promised is inductive, given the books and TornFree.                    *)
LEMMA PromisedStep ==
    BooksOK /\ TornFree /\ Promised /\ [ConnectionNext]_connectionVars => Promised'
<1> SUFFICES ASSUME BooksOK, TornFree, Promised, [ConnectionNext]_connectionVars PROVE Promised'
  OBVIOUS
<1>1. map_ \in [Keys -> ValueType \cup {Null}]
  BY DEF TornFree
<1>2. ASSUME UNCHANGED <<pc, manner, serving, got, due, rest, now, map_, command, given, result>>
      PROVE  Promised'
  <2>1. \A c \in Clients : Accounted(c)'
    BY <1>2 DEF Promised, Accounted
  <2>2. \A r : Understood(r)' <=> Understood(r)
    BY <1>2 DEF Understood
  <2>3. \A r : Owed(r)' = Owed(r)
    BY <1>2 DEF Owed, get, Expired, stoi
  <2> QED
    BY <1>2, <2>1, <2>2, <2>3 DEF Promised
<1>3. ASSUME NEW c \in Clients, Request(c) PROVE Promised'
  BY <1>2, <1>3 DEF Request, vars, databaseVars
<1>4. ASSUME NEW c \in Clients, handleClient(c) PROVE Promised'
  <2>1. PICK n \in Lengths(c, Stream(c), Ends(c)) :
                 /\ handleInput(SubSeq(Stream(c), 1, n))
                 /\ manner' = [manner EXCEPT ![c] = Manner(c, n, Ends(c))]
                 /\ due' = [due EXCEPT ![c] = IF Manner(c, n, Ends(c)) = "one"
                                              THEN Append(@, Owed(sent[c][1])) ELSE << >>]
                 /\ got' = [got EXCEPT ![c] = IF Manner(c, n, Ends(c)) = "one" THEN @ ELSE << >>]
    BY <1>4, ClientServed
  <2> DEFINE came == Manner(c, n, Ends(c))
  <2>2. Book(c) /\ serving' = c /\ pc = "poll" /\ UNCHANGED <<now, map_>>
    BY <1>4, ClientServed DEF handleClient, databaseVars
  <2>3. /\ manner'[c] = came /\ DOMAIN got' = Clients /\ DOMAIN due' = Clients
        /\ \A d \in Clients : d # c => manner'[d] = manner[d] /\ got'[d] = got[d] /\ due'[d] = due[d]
        /\ due'[c] = IF came = "one" THEN Append(due[c], Owed(sent[c][1])) ELSE << >>
        /\ got'[c] = IF came = "one" THEN got[c] ELSE << >>
    BY <2>1 DEF BooksOK, Promised
  <2>4. \A d \in Clients : got[d] \in Seq(Told) /\ (manner[d] = "one" => due[d] = got[d])
    BY <2>2 DEF Promised, Accounted
  <2>5. ASSUME NEW d \in Clients, d # c PROVE Accounted(d)'
    BY <2>3, <2>4, <2>5 DEF Accounted
  <2>6. CASE came = "one"
    <3>1. PICK r : r = sent[c][1]
      OBVIOUS
    <3>2. /\ r \in Written /\ Plain(r) /\ pc' = "parse"
          /\ command' = NewCommand(r.kind) /\ given' = << >> /\ result' = "parsing"
          /\ rest' = r.arguments
      BY <2>1, <2>2, <2>6, <3>1, WholeInput
    <3>3. Understood(r)'
      BY <3>2, UnderstoodFirst
    <3>4. manner[c] = "one"
      BY <2>6 DEF Manner, BooksOK, Manners
    <3>5. Owed(r)' = Owed(r)
      BY <2>2 DEF Owed, get, Expired, stoi
    <3>6. due'[c] = Append(got'[c], Owed(r)')
      BY <2>3, <2>4, <2>6, <3>1, <3>4, <3>5
    <3>7. Accounted(c)'
      BY <2>2, <2>3, <2>4, <2>6, <3>2 DEF Accounted
    <3> QED
      BY <2>2, <2>3, <2>5, <3>2, <3>3, <3>6, <3>7 DEF Promised
  <2>7. CASE came # "one"
    <3>1. Accounted(c)'
      BY <2>3, <2>7 DEF Accounted
    <3> QED
      BY <2>2, <2>3, <2>5, <2>7, <3>1 DEF Promised
  <2> QED
    BY <2>6, <2>7
<1>5. CASE parse
  <2>1. /\ pc = "parse" /\ rest # << >> /\ Visit(Head(rest)) /\ rest' = Tail(rest)
        /\ UNCHANGED <<pc, manner, serving, got, due, now, map_>>
    BY <1>5 DEF parse, databaseVars
  <2>2. \A c \in Clients : Accounted(c)'
    BY <2>1 DEF Promised, Accounted
  <2>3. CASE manner[serving] = "one"
    <3>1. PICK r \in Written : /\ Plain(r) /\ Understood(r)
                               /\ due[serving] = Append(got[serving], Owed(r))
      BY <2>1, <2>3 DEF Promised
    <3>2. Understood(r)'
      BY <2>1, <3>1, UnderstoodVisit DEF BooksOK
    <3>3. Owed(r)' = Owed(r)
      BY <2>1 DEF Owed, get, Expired, stoi
    <3> QED
      BY <2>1, <2>2, <3>1, <3>2, <3>3 DEF Promised
  <2>4. CASE manner[serving] # "one"
    BY <2>1, <2>2, <2>4 DEF Promised
  <2> QED
    BY <2>3, <2>4
<1>6. CASE execute
  <2>1. /\ pc = "parse" /\ pc' = "poll" /\ (rest = << >> \/ result # "parsing") /\ commandHandler_
        /\ got' = [got EXCEPT ![serving] = IF manner[serving] = "one"
                                       THEN @ \o Append(buffer, reply') ELSE << >>]
        /\ UNCHANGED <<manner, serving, due>>
    BY <1>6 DEF execute
  <2>7. serving \in Clients /\ buffer = << >>
    BY <2>1 DEF BooksOK
  <2>8. PICK c \in Clients : c = serving
    BY <2>7
  <2>2. c = serving /\ c \in Clients /\ buffer = << >> /\ serving' = c
    BY <2>1, <2>7, <2>8
  <2>3. /\ DOMAIN got' = Clients /\ DOMAIN due' = Clients
        /\ \A d \in Clients : d # c => got'[d] = got[d]
        /\ got'[c] = IF manner[c] = "one" THEN got[c] \o Append(<< >>, reply') ELSE << >>
    BY <2>1, <2>2 DEF Promised
  <2>4. ASSUME NEW d \in Clients, d # c PROVE Accounted(d)'
    BY <2>1, <2>2, <2>3, <2>4 DEF Promised, Accounted
  <2>5. CASE manner[c] = "one"
    <3>1. PICK r \in Written : /\ Plain(r) /\ Understood(r)
                               /\ due[c] = Append(got[c], Owed(r))
      BY <2>1, <2>2, <2>5 DEF Promised
    <3>2. rest = << >>
      BY <2>1, <3>1 DEF Understood
    <3>3. reply' = Owed(r)
      BY <1>1, <2>1, <3>1, <3>2, Answered
    <3>4. Owed(r) \in Told /\ got[c] \in Seq(Told)
      BY <1>1, <2>2, <3>1, OwedType DEF Promised, Accounted
    <3>5. got'[c] = due[c] /\ got'[c] \in Seq(Told)
      BY <2>3, <2>5, <3>1, <3>3, <3>4, AppendFront
    <3>6. Accounted(c)'
      BY <2>1, <2>2, <3>5 DEF Accounted
    <3> QED
      BY <2>1, <2>3, <2>4, <3>6 DEF Promised
  <2>6. CASE manner[c] # "one"
    <3>1. Accounted(c)'
      <4>1. got'[c] = << >> /\ manner'[c] # "one" /\ << >> \in Seq(Told)
        BY <2>1, <2>3, <2>6
      <4> QED
        BY <4>1 DEF Accounted
    <3> QED
      BY <2>1, <2>3, <2>4, <3>1 DEF Promised
  <2> QED
    BY <2>5, <2>6
<1>7. CASE abort
  <2>1. pc' = "dead" /\ UNCHANGED <<got, due>>
    BY <1>7 DEF abort
  <2> QED
    BY <2>1 DEF Promised, Accounted
<1>8. CASE UNCHANGED connectionVars
  BY <1>2, <1>8 DEF connectionVars, vars, databaseVars
<1> QED
  BY <1>3, <1>4, <1>5, <1>6, <1>7, <1>8 DEF ConnectionNext

(* Nothing is owed yet.                                                    *)
LEMMA PromisedInit == ConnectionInit => Promised
BY DEF ConnectionInit, Promised, Accounted

(* What is promised is InStep.                                             *)
LEMMA PromisedInStep == BooksOK /\ TornFree /\ Promised => InStep
<1> SUFFICES ASSUME BooksOK, TornFree, Promised, NEW c \in Clients, pc # "dead", manner[c] = "one"
             PROVE  got[c] = IF pc = "parse" /\ serving = c THEN Front(due[c]) ELSE due[c]
  BY DEF InStep
<1>1. CASE pc = "parse" /\ serving = c
  <2>1. PICK r \in Written : Plain(r) /\ due[c] = Append(got[c], Owed(r))
    BY <1>1 DEF Promised
  <2>2. Owed(r) \in Told /\ got[c] \in Seq(Told)
    BY <2>1, OwedType DEF TornFree, Promised, Accounted
  <2> QED
    BY <1>1, <2>1, <2>2, AppendFront
<1>2. CASE ~(pc = "parse" /\ serving = c)
  BY <1>2 DEF Promised, Accounted
<1> QED
  BY <1>1, <1>2

(* A client whose requests come one a recv gets the answer to each, of the *)
(* database as it was when the request came, in their order and nothing    *)
(* else: neither the other clients' parts nor their answers are left in    *)
(* the decoder or the encoder that all share (handleInput, sendData).      *)
THEOREM StayInStep == ConnectionSpec => []InStep
<1> QED
  BY BooksInit, BooksStep, TornInit, TornStep, PromisedInit, PromisedStep, PromisedInStep,
     PTL DEF ConnectionSpec

-----------------------------------------------------------------------------
(* Replies                                                                 *)

(* The one byte of the length: a digit, or none at all                     *)
LEMMA LengthByteIs ==
    ASSUME NEW n \in Nat, NEW x, x = LengthByte(n)
    PROVE  \/ \E v \in 0..9 : x = DigitNames[v + 1] /\ v <= n
           \/ x \in {CR, LF, "byte"}
<1> DEFINE code == (n + 48) % 256
<1>1. code \in Nat /\ (code \in 48..57 => code - 48 <= n)
  OBVIOUS
<1>2. x = CASE code \in 48..57 -> DigitNames[code - 47]
            [] code = 13 -> CR
            [] code = 10 -> LF
            [] OTHER -> "byte"
  BY DEF LengthByte
<1> HIDE DEF code
<1>3. CASE code \in 48..57
  <2> DEFINE v == code - 48
  <2>1. v \in 0..9 /\ v + 1 = code - 47 /\ code # 13 /\ code # 10 /\ v <= n
    BY <1>1, <1>3
  <2>2. x = DigitNames[code - 47]
    BY <1>2, <1>3, <2>1
  <2> QED
    BY <2>1, <2>2
<1>4. CASE code = 13
  <2>1. code \notin 48..57 /\ code # 10
    BY <1>4
  <2> QED
    BY <1>2, <1>4, <2>1
<1>5. CASE code = 10
  <2>1. code \notin 48..57 /\ code # 13
    BY <1>5
  <2> QED
    BY <1>2, <1>5, <2>1
<1>6. CASE code \notin 48..57 /\ code # 13 /\ code # 10
  BY <1>2, <1>6
<1> QED
  BY <1>3, <1>4, <1>5, <1>6

(* What appendBulkstring makes of a text, whatever its byte is             *)
Frame(s, x, t) ==
    /\ s \in Seq(Octets) /\ Len(s) = 6 + Len(t) /\ Len(t) \in Nat
    /\ s[1] = Opener /\ s[2] = x /\ s[3] = CR /\ s[4] = LF
    /\ \A i \in 1..Len(t) : s[4 + i] = t[i]

(* appendBulkstring, byte by byte                                          *)
LEMMA FrameIs ==
    ASSUME NEW x \in Octets, NEW t \in Seq(Bytes), NEW s, s = <<Opener, x>> \o CRLF \o t \o CRLF
    PROVE  Frame(s, x, t)
<1> DEFINE u == <<Opener, x>>
           v == u \o CRLF
           w == v \o t
           n == Len(t)
<1>1. u \in Seq(Octets) /\ Len(u) = 2 /\ u[1] = Opener /\ u[2] = x
  BY OctetFacts
<1>2. CRLF \in Seq(Octets) /\ Len(CRLF) = 2 /\ CRLF[1] = CR /\ CRLF[2] = LF
  BY CrlfIs
<1>3. t \in Seq(Octets) /\ n \in Nat
  BY OctetFacts, WiderType
<1>4. s = w \o CRLF
  OBVIOUS
<1> HIDE DEF u, n
<1>5. /\ v \in Seq(Octets) /\ Len(v) = 4 /\ v[1] = Opener /\ v[2] = x /\ v[3] = CR /\ v[4] = LF
  <2>1. /\ v \in Seq(Octets) /\ Len(v) = Len(u) + Len(CRLF)
        /\ \A i \in 1..Len(u) : v[i] = u[i]
        /\ \A i \in 1..Len(CRLF) : v[Len(u) + i] = CRLF[i]
    <3>1. u \in Seq(Octets) /\ CRLF \in Seq(Octets)
      BY <1>1, <1>2
    <3> QED
      BY ONLY <3>1, Concat
  <2> HIDE DEF v
  <2>2. v[1] = u[1] /\ v[2] = u[2]
    BY ONLY <1>1, <2>1
  <2>3. v[2 + 1] = CRLF[1] /\ v[2 + 2] = CRLF[2]
    BY ONLY <1>1, <1>2, <2>1
  <2> QED
    BY ONLY <1>1, <1>2, <2>1, <2>2, <2>3
<1> HIDE DEF v
<1>6. /\ w \in Seq(Octets) /\ Len(w) = 4 + n
      /\ \A i \in 1..4 : w[i] = v[i]
      /\ \A i \in 1..n : w[4 + i] = t[i]
  <2>1. /\ w \in Seq(Octets) /\ Len(w) = Len(v) + Len(t)
        /\ \A i \in 1..Len(v) : w[i] = v[i]
        /\ \A i \in 1..Len(t) : w[Len(v) + i] = t[i]
    <3>1. v \in Seq(Octets) /\ t \in Seq(Octets)
      BY <1>3, <1>5
    <3> QED
      BY ONLY <3>1, Concat
  <2> QED
    BY ONLY <1>5, <2>1 DEF n
<1> HIDE DEF w
<1>7. /\ s \in Seq(Octets) /\ Len(s) = Len(w) + 2
      /\ \A i \in 1..Len(w) : s[i] = w[i]
  <2>1. /\ s \in Seq(Octets) /\ Len(s) = Len(w) + Len(CRLF)
        /\ \A i \in 1..Len(w) : s[i] = w[i]
    <3>1. w \in Seq(Octets) /\ CRLF \in Seq(Octets)
      BY <1>2, <1>6
    <3>2. /\ w \o CRLF \in Seq(Octets) /\ Len(w \o CRLF) = Len(w) + Len(CRLF)
          /\ \A i \in 1..Len(w) : (w \o CRLF)[i] = w[i]
      BY ONLY <3>1, Concat
    <3> QED
      BY ONLY <1>4, <3>2
  <2> QED
    BY ONLY <1>2, <2>1
<1>8. Len(s) = 6 + n
  BY ONLY <1>3, <1>6, <1>7
<1>9. \A i \in 1..n : s[4 + i] = t[i]
  <2>1. \A i \in 1..n : 4 + i \in 1..Len(w)
    BY ONLY <1>3, <1>6
  <2> QED
    BY ONLY <1>6, <1>7, <2>1
<1>10. s[1] = Opener /\ s[2] = x /\ s[3] = CR /\ s[4] = LF
  <2>1. 1 \in 1..Len(w) /\ 2 \in 1..Len(w) /\ 3 \in 1..Len(w) /\ 4 \in 1..Len(w)
    BY ONLY <1>3, <1>6
  <2>2. w[1] = v[1] /\ w[2] = v[2] /\ w[3] = v[3] /\ w[4] = v[4]
    BY ONLY <1>6
  <2> QED
    BY ONLY <1>5, <1>7, <2>1, <2>2
<1> QED
  BY ONLY <1>3, <1>7, <1>8, <1>9, <1>10 DEF Frame, n

(* Without a digit for the length nothing is decoded.                      *)
LEMMA FrameRefused ==
    ASSUME NEW t \in Seq(Bytes), NEW x \in {CR, LF, "byte"}, NEW s, Frame(s, x, t)
    PROVE  decodeBulkString(s, 0) = Refused
<1>1. s \in Seq(Octets) /\ Len(s) \in Nat /\ Len(s) >= 6 /\ s[1] = Opener /\ s[2] = x /\ s[3] = CR
  <2>1. Len(s) = 6 + Len(t) /\ Len(t) \in Nat
    BY DEF Frame
  <2>2. Len(s) \in Nat /\ Len(s) >= 6
    BY ONLY <2>1
  <2> QED
    BY <2>2 DEF Frame
<1>2. Byte(s, 0) = Opener /\ Byte(s, 1) = x /\ Byte(s, 2) = CR
  BY <1>1 DEF Byte
<1>3. x \notin Digits
  BY DigitFacts
<1>4. Number(s, 1) = npos
  <2>1. DigitsEnd(s, 1) = 1
    <3>1. 1 \in 1..Len(s)
      BY <1>1
    <3>2. \A i \in 1..1 - 1 : Byte(s, i) \in Digits
      OBVIOUS
    <3> QED
      BY <1>1, <1>2, <1>3, <3>1, <3>2, DigitsEndIs
  <2> QED
    BY <2>1 DEF Number
<1> DEFINE e == IF x = "byte" THEN 2 ELSE 1
<1>5. LineEnd(s, 0) = e /\ e \in {1, 2}
  <2>1. e \in Nat /\ e < Len(s) /\ 0 <= e /\ e \in {1, 2}
    BY <1>1
  <2>2. \A i \in 0..e - 1 : Byte(s, i) \notin {CR, LF}
    <3>1. \A i \in 0..e - 1 : i = 0 \/ (i = 1 /\ x = "byte")
      OBVIOUS
    <3>2. "byte" # CR /\ "byte" # LF /\ Opener # CR /\ Opener # LF
      BY DEF CR, LF, Opener
    <3> QED
      BY <1>2, <3>1, <3>2
  <2>3. Byte(s, e) \in {CR, LF}
    BY <1>2
  <2> HIDE DEF e
  <2> QED
    BY <1>1, <2>1, <2>2, <2>3, LineEndIs
<1> HIDE DEF e
<1>6. Slice(s, 1, e) # <<"-", "1">>
  <2> DEFINE p == Slice(s, 1, e)
  <2>1. p = SubSeq(s, 1 + 1, e) /\ e \in Nat /\ 1 <= e /\ e <= Len(s)
    BY <1>1, <1>5 DEF Slice
  <2> HIDE DEF p
  <2>2. IsPiece(p, s, 1, e, Octets)
    BY ONLY <1>1, <2>1, PieceIs, 1 \in Nat
  <2>3. Len(p) = e - 1
    BY ONLY <2>2 DEF IsPiece
  <2>4. Len(<<"-", "1">>) = 2 /\ e - 1 # 2
    BY <1>5
  <2> QED
    BY <2>3, <2>4 DEF p
<1>7. e # npos
  BY <1>5, OffsetAssumption
<1> QED
  BY <1>4, <1>5, <1>6, <1>7 DEF decodeBulkString

-----------------------------------------------------------------------------
(* Replies whose length wraps                                              *)

(* A length of one digit                                                   *)
LEMMA DigitIs ==
    ASSUME NEW v \in Nat, v <= 9
    PROVE  Decimal(v) = <<DigitNames[v + 1]>> /\ DigitNames[v + 1] \in Digits
<1>1. 1 + ((v \div 1) % 10) = v + 1 /\ v < 10 /\ ~(10 <= v)
  OBVIOUS
<1>2. ~(100 <= v)
  OBVIOUS
<1>3. Decimal(v) = <<DigitNames[v + 1]>>
  BY <1>1, <1>2 DEF Decimal
<1>4. v \in 0..9
  OBVIOUS
<1> QED
  BY ONLY <1>3, <1>4, DigitFacts

(* The header of a reply whose length is a digit                           *)
LEMMA FrameHeader ==
    ASSUME NEW t \in Seq(Bytes), NEW v \in Nat, v <= 9, NEW x, x = DigitNames[v + 1],
           NEW s, Frame(s, x, t)
    PROVE  HeaderAt(s, 0, 2, v)
<1> DEFINE w == Decimal(v)
<1>1. /\ s \in Seq(Octets) /\ Len(s) = 6 + Len(t) /\ Len(t) \in Nat
      /\ s[1] = Opener /\ s[2] = x /\ s[3] = CR /\ s[4] = LF
  BY DEF Frame
<1>2. Len(s) \in Nat /\ 0 < Len(s)
  BY ONLY <1>1
<1>3. w = <<x>> /\ Len(w) = 1
  <2>1. w = <<x>>
    BY DigitIs
  <2> QED
    BY <2>1
<1>4. w = Decimal(v)
  OBVIOUS
<1> HIDE DEF w
<1>5. Lies(w, s, 0 + 1)
  <2>1. w[1] = x /\ \A i \in 1..1 : i = 1
    BY <1>3
  <2> QED
    BY <1>1, <1>3, <2>1 DEF Lies
<1>6. Lies(CRLF, s, 2)
  <2>1. \A i \in 1..2 : i = 1 \/ i = 2
    OBVIOUS
  <2> QED
    BY <1>1, <2>1, CrlfIs DEF Lies
<1>7. Byte(s, 0) \notin {CR, LF}
  <2>1. Byte(s, 0) = Opener
    BY <1>1, <1>2 DEF Byte
  <2> QED
    BY <2>1, TameFacts
<1>8. 2 = 0 + 1 + Len(w) /\ v <= 9999
  BY <1>3
<1> QED
  BY <1>2, <1>4, <1>5, <1>6, <1>7, <1>8, HeaderRead

(* A length that has wrapped points into the text.                         *)
LEMMA FrameWraps ==
    ASSUME NEW t \in Seq(Bytes), NEW v \in Nat, v <= 9, v < Len(t), NEW x, x = DigitNames[v + 1],
           NEW s, Frame(s, x, t)
    PROVE  decodeBulkString(s, 0) = Refused
<1>1. /\ s \in Seq(Octets) /\ Len(s) = 6 + Len(t) /\ Len(t) \in Nat /\ s[2] = x
      /\ \A i \in 1..Len(t) : s[4 + i] = t[i]
  BY DEF Frame
<1>2. Len(s) \in Nat /\ 2 < Len(s) /\ 1 < Len(s) /\ 4 + v < Len(s) /\ v + 1 \in 1..Len(t)
  BY ONLY <1>1, v \in Nat, v < Len(t)
<1>3. LineEnd(s, 0) = 2 /\ Number(s, 0 + 1) = v
  BY <1>2, FrameHeader DEF HeaderAt
<1>4. Byte(s, 4 + v) # CR
  <2>1. 4 + v \in Nat /\ 4 + (v + 1) = (4 + v) + 1
    OBVIOUS
  <2>2. Byte(s, 4 + v) = s[(4 + v) + 1]
    BY <1>2, <2>1, ByteIs
  <2>3. s[4 + (v + 1)] = t[v + 1]
    BY ONLY <1>1, <1>2
  <2>4. t[v + 1] \in Bytes
    BY <1>2
  <2> QED
    BY <2>1, <2>2, <2>3, <2>4, TameFacts
<1>5. Slice(s, 1, 2) # <<"-", "1">>
  <2> DEFINE p == Slice(s, 1, 2)
  <2>1. p = SubSeq(s, 1 + 1, 2) /\ 2 <= Len(s)
    BY <1>2 DEF Slice
  <2> HIDE DEF p
  <2>2. IsPiece(p, s, 1, 2, Octets)
    BY ONLY <1>1, <2>1, PieceIs, 1 \in Nat, 2 \in Nat, 1 <= 2
  <2>3. Len(p) = 2 - 1
    BY ONLY <2>2 DEF IsPiece
  <2>4. Len(<<"-", "1">>) = 2 /\ 2 - 1 # 2
    OBVIOUS
  <2>5. p # <<"-", "1">>
    BY ONLY <2>3, <2>4
  <2> QED
    BY <2>5 DEF p
<1>6. v # npos /\ 2 # npos
  BY OffsetAssumption
<1>7. ~Delimited(s, (2 + 2) + v)
  BY <1>4 DEF Delimited
<1> QED
  BY <1>3, <1>5, <1>6, <1>7 DEF decodeBulkString

(* Two octets, one behind the other                                        *)
LEMMA PairIs ==
    ASSUME NEW a, NEW b
    PROVE  <<a>> \o <<b>> = <<a, b>>
<1> DEFINE u == <<a>>
           v == <<b>>
           w == <<a, b>>
<1>1. u \in Seq({a, b}) /\ v \in Seq({a, b}) /\ w \in Seq({a, b})
  OBVIOUS
<1>2. Len(u) = 1 /\ Len(v) = 1 /\ Len(w) = 2 /\ u[1] = a /\ v[1] = b /\ w[1] = a /\ w[2] = b
  OBVIOUS
<1> HIDE DEF u, v, w
<1>3. /\ u \o v \in Seq({a, b}) /\ Len(u \o v) = Len(u) + Len(v)
      /\ \A i \in 1..Len(u) : (u \o v)[i] = u[i]
      /\ \A i \in 1..Len(v) : (u \o v)[Len(u) + i] = v[i]
  BY ONLY <1>1, Concat
<1>4. Len(u \o v) = Len(w) /\ (u \o v)[1] = w[1] /\ (u \o v)[2] = w[2]
  BY ONLY <1>2, <1>3
<1>5. \A i \in 1..Len(w) : i = 1 \/ i = 2
  BY ONLY <1>2
<1>6. \A i \in 1..Len(w) : (u \o v)[i] = w[i]
  BY ONLY <1>4, <1>5
<1>7. u \o v = w
  BY ONLY <1>1, <1>3, <1>4, <1>6, SeqEqual
<1> QED
  BY <1>7 DEF u, v, w

(* A reply that is decoded is the text that was sent.                      *)
LEMMA SentAgain ==
    ASSUME NEW t \in Seq(Bytes), Len(t) <= 9999, NEW s, s = appendBulkstring(t),
           NEW d, d = decode(s, 0), d.fate = "decoded"
    PROVE  d.value.bytes = t
<1> DEFINE n == Len(t)
           x == LengthByte(n)
<1>1. n \in Nat
  OBVIOUS
<1>2. s = <<Opener, x>> \o CRLF \o t \o CRLF
  BY DEF appendBulkstring, Opener
<1>3. \/ \E v \in 0..9 : x = DigitNames[v + 1] /\ v <= n
      \/ x \in {CR, LF, "byte"}
  BY <1>1, LengthByteIs
<1> HIDE DEF x, n
<1>4. x \in Octets
  BY <1>3, DigitFacts, OctetFacts DEF Octets
<1>5. Frame(s, x, t)
  BY ONLY <1>2, <1>4, FrameIs, t \in Seq(Bytes)
<1>6. s \in Seq(Octets) /\ Len(s) \in Nat /\ 0 < Len(s) /\ s[1] = Opener
  <2>1. s \in Seq(Octets) /\ Len(s) = 6 + n /\ s[1] = Opener
    BY <1>5 DEF Frame, n
  <2>2. Len(s) \in Nat /\ 0 < Len(s)
    BY ONLY <1>1, <2>1
  <2> QED
    BY <2>1, <2>2
<1>7. d = decodeBulkString(s, 0)
  <2>1. 0 \in 0..Len(s) /\ Byte(s, 0) = "$"
    BY <1>6 DEF Byte, Opener
  <2>2. d = decodeWith(s, 0, Calls(s)[Stack - 1])
    BY <1>6, <2>1, DecodeIs
  <2> QED
    BY <2>1, <2>2 DEF decodeWith
<1>8. d # Refused
  BY DEF Refused, Thrown
<1>9. x \notin {CR, LF, "byte"}
  BY <1>5, <1>7, <1>8, FrameRefused
<1>10. PICK v \in 0..9 : x = DigitNames[v + 1] /\ v <= n
  BY <1>3, <1>9
<1>11. v \in Nat /\ v <= 9 /\ (v < n \/ v = n)
  BY <1>1, <1>10
<1>12. v = n
  <2>1. ~(v < Len(t))
    BY <1>5, <1>7, <1>8, <1>10, <1>11, FrameWraps
  <2> QED
    BY <1>11, <2>1 DEF n
<1>13. s = Bulk(t)
  <2>1. Decimal(n) = <<x>>
    BY <1>10, <1>11, <1>12, DigitIs
  <2>2. <<Opener>> \o <<x>> = <<Opener, x>>
    BY PairIs
  <2> QED
    BY <1>2, <2>1, <2>2 DEF Bulk, Opener, n
<1>14. Lies(s, s, 0)
  <2>1. \A i \in 1..Len(s) : 0 + i = i
    BY <1>6
  <2> QED
    BY <2>1 DEF Lies
<1>15. /\ 0 + Len(s) <= Len(s) + 1 => d = Decoded(0 + Len(s), Value("string", t, << >>))
       /\ ~(0 + Len(s) <= Len(s) + 1) => d = Refused
  BY ONLY <1>6, <1>7, <1>13, <1>14, BulkRead, 0 \in Nat, t \in Seq(Bytes), Len(t) <= 9999
<1>16. d = Decoded(0 + Len(s), Value("string", t, << >>))
  BY <1>8, <1>15
<1> QED
  BY <1>16 DEF Decoded, Value

(* Whatever a client is told, its own decoder reads the text from it or    *)
(* refuses: a length that has wrapped points at a byte of the text, which  *)
(* is no line's end (appendBulkstring, decodeBulkString).                  *)
THEOREM TruncatesNever == ConnectionSpec => []NeverTruncated
<1>1. NeverTruncated
  <2> SUFFICES ASSUME NEW c \in Clients, NEW i \in 1..Len(got[c]), got[c][i].value \in Texts,
                      decode(appendBulkstring(Spelling[got[c][i].value]), 0).fate = "decoded"
               PROVE  decode(appendBulkstring(Spelling[got[c][i].value]), 0).value.bytes =
                          Spelling[got[c][i].value]
    BY DEF NeverTruncated
  <2> QED
    BY TextSpelled, SentAgain
<1> QED
  BY <1>1, PTL
=============================================================================
