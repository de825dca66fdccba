----------------------------- MODULE RespDecoder -----------------------------
(***************************************************************************)
(* RespDecoder.cpp of ccredis: what decode() makes of the bytes that one   *)
(* recv has put into the zeroed buffer, and appendBulkstring of the        *)
(* encoder.  Offsets count from 0 as in the code.  Bytes that decide are   *)
(* named, any other byte is only told apart from them.  The only negative  *)
(* length is that of the null string.                                      *)
(***************************************************************************)
EXTENDS Integers, Sequences, SequencesExt, FiniteSetsExt

CONSTANTS
    npos,  \* no offset, no number
    Stack  \* how deep the calls of decode() may be nested

(* At least an array and its elements are decoded.                         *)
ASSUME StackAssumption == Stack \in Nat /\ Stack >= 2

ASSUME OffsetAssumption == npos \notin Int

CR == "CR"

LF == "LF"

CRLF == <<CR, LF>>

DigitNames == <<"0", "1", "2", "3", "4", "5", "6", "7", "8", "9">>

DigitValue == [d \in Range(DigitNames) |-> CHOOSE i \in 0..9 : DigitNames[i + 1] = d]

(* The buffer behind what recv returned is zero.                           *)
Byte(segment, at) == IF at < Len(segment) THEN segment[at + 1] ELSE "NUL"

(* substr() ends where the segment does.                                   *)
Slice(segment, from, to) ==
    SubSeq(segment, from + 1, IF to <= Len(segment) THEN to ELSE Len(segment))

(* find_first_of("\r\n")                                                   *)
LineEnd(segment, at) ==
    IF \E i \in at..Len(segment) - 1 : Byte(segment, i) \in {CR, LF}
    THEN CHOOSE i \in at..Len(segment) - 1 :
            /\ Byte(segment, i) \in {CR, LF}
            /\ \A j \in at..i - 1 : Byte(segment, j) \notin {CR, LF}
    ELSE npos

First(offsets) == IF offsets = {} THEN npos ELSE Min(offsets)

(* find("\r\n")                                                            *)
Crlf(segment, at) ==
    First({i \in at..Len(segment) - 1 : Byte(segment, i) = CR /\ Byte(segment, i + 1) = LF})

(* The digits from_chars and stoi read, npos where there are none.         *)
DigitsEnd(segment, at) ==
    CHOOSE end \in at..Len(segment) :
        /\ Byte(segment, end) \notin DOMAIN DigitValue
        /\ \A i \in at..end - 1 : Byte(segment, i) \in DOMAIN DigitValue

Number(segment, at) ==
    LET digits == DigitsEnd(segment, at) - at
        read[n \in 0..digits] ==
            IF n = 0 THEN 0 ELSE 10 * read[n - 1] + DigitValue[Byte(segment, at + n - 1)]
    IN  IF digits = 0 THEN npos ELSE read[digits]

-----------------------------------------------------------------------------
(* RedisRespRes: "other" has neither string, integer nor array             *)
Value(type, bytes, elements) == [type |-> type, bytes |-> bytes, elements |-> elements]

Other == Value("other", << >>, << >>)

(* A value and the offset behind it, or the exception that ends decode()   *)
Decoded(next, value) == [fate |-> "decoded", next |-> next, value |-> value]

Thrown(what) == [fate |-> what, next |-> 0, value |-> Other]

Refused == Thrown("invalid_argument")

decodeSimpleString(segment, at) ==
    LET end == Crlf(segment, at)
    IN  IF end = npos THEN Refused
        ELSE Decoded(end + 2, Value("string", Slice(segment, at + 1, end), << >>))

decodeError(segment, at) ==
    LET end == Crlf(segment, at)
    IN  IF end = npos THEN Refused ELSE Decoded(end + 2, Other)

(* stoi skips white space, a CR and an LF too, and reads on behind them.   *)
decodeInt(segment, at) ==
    LET end == Crlf(segment, at)
        start == First({i \in at + 1..Len(segment) : Byte(segment, i) \notin {CR, LF}})
        digits == IF Byte(segment, start) \in {"+", "-"} THEN start + 1 ELSE start
    IN  IF end = npos \/ Number(segment, digits) = npos THEN Refused
        ELSE Decoded(end + 2, Value("integer", Slice(segment, start, DigitsEnd(segment, digits)),
                                    << >>))

(* Mutant: what comes behind the text is not looked at. *)
Trusted(segment, end) == TRUE

Delimited(segment, end) == Byte(segment, end) = CR

(* Mutant: the delimiter behind the text counts for one byte. *)
BehindCR(end) == end + 1

Behind(end) == end + 2

decodeBulkString(segment, at) ==
    LET delim == LineEnd(segment, at)
        length == Number(segment, at + 1)
        text == delim + 2
    IN  IF delim = npos THEN Refused
        ELSE IF Slice(segment, at + 1, delim) = <<"-", "1">>
        THEN Decoded(text, Value("string", <<"n", "u", "l", "l">>, << >>))
        ELSE IF length = npos THEN Refused
        ELSE IF ~Delimited(segment, text + length) THEN Refused
        ELSE IF \E i \in text..text + length - 2 : Slice(segment, i, i + 2) = CRLF THEN Refused
        ELSE Decoded(Behind(text + length),
                     Value("string", Slice(segment, text, text + length), << >>))

(* Without a CR or LF the delimiter is npos, and npos + 2 is 1.            *)
FirstElement(segment, at) ==
    IF LineEnd(segment, at) = npos THEN at + 1 ELSE LineEnd(segment, at) + 2

(* Where substr() may begin; an offset below the array's has wrapped.      *)
InView(segment, at, next) == next \in at..Len(segment)

(* What decode() makes of the bytes behind a value: inner is the decode()  *)
(* that has one call less left.                                            *)
Element(segment, at, before, inner) ==
    IF before.fate # "decoded" THEN before
    ELSE IF InView(segment, at, before.next) THEN inner[before.next] ELSE Thrown("out_of_range")

decodeArray(segment, at, inner) ==
    LET length == Number(segment, at + 1)
        element[i \in 0..length] ==
            IF i = 0 THEN Decoded(FirstElement(segment, at), Other)
            ELSE Element(segment, at, element[i - 1], inner)
    IN  IF length = npos THEN Refused
        ELSE IF element[length].fate # "decoded" THEN element[length]
        ELSE Decoded(element[length].next,
                     Value("array", << >>, [i \in 1..length |-> element[i].value]))

(* The next key is looked for where the value begins.                      *)
Entry(segment, at, before, inner) ==
    LET key == Element(segment, at, before, inner)
        value == Element(segment, at, key, inner)
    IN  IF key.fate = "decoded" /\ key.value.type # "string" THEN Thrown("assertion")
        ELSE IF value.fate # "decoded" THEN value ELSE key

decodeMap(segment, at, inner) ==
    LET length == Number(segment, at + 1)
        entry[i \in 0..length] ==
            IF i = 0 THEN Decoded(FirstElement(segment, at), Other)
            ELSE Entry(segment, at, entry[i - 1], inner)
    IN  IF length = npos THEN Refused
        ELSE IF entry[length].fate # "decoded" THEN entry[length]
        ELSE Decoded(entry[length].next + 2, Other)

(* The offset of an unknown value is -11.                                  *)
decodeWith(segment, at, inner) ==
    CASE Byte(segment, at) = "+" -> decodeSimpleString(segment, at)
      [] Byte(segment, at) = "-" -> decodeError(segment, at)
      [] Byte(segment, at) = ":" -> decodeInt(segment, at)
      [] Byte(segment, at) = "$" -> decodeBulkString(segment, at)
      [] Byte(segment, at) = "*" -> decodeArray(segment, at, inner)
      [] Byte(segment, at) = "%" -> decodeMap(segment, at, inner)
      [] OTHER -> Decoded(at - 11, Other)

(* decode() of each offset, with so many calls left on the stack           *)
Calls(segment) ==
    LET calls[left \in 0..Stack] ==
            [at \in 0..Len(segment) |->
                IF left = 0 THEN Thrown("overflow")
                ELSE decodeWith(segment, at, calls[left - 1])]
    IN  calls

decode(segment, at) == Calls(segment)[Stack][at]

-----------------------------------------------------------------------------
(* char(length) + '0' as one byte                                          *)
LengthByte(length) ==
    LET code == (length + 48) % 256
    IN  CASE code \in 48..57 -> DigitNames[code - 47]
          [] code = 13 -> CR
          [] code = 10 -> LF
          [] OTHER -> "byte"

appendBulkstring(text) == <<"$", LengthByte(Len(text))>> \o CRLF \o text \o CRLF

=============================================================================
