----------------------------- MODULE JsonParser -----------------------------
(***************************************************************************)
(* The JSON parser: Lexer::lex and the recursive descent of parser.  The   *)
(* code lexes the whole text first and parses then; here the tokens go to  *)
(* the parser as they come, so that texts of every length are one model.   *)
(* The calls that are under way are frames of a stack.  A parser that is   *)
(* used again keeps its depth.                                             *)
(***************************************************************************)
EXTENDS Integers, Sequences, FiniteSets

CONSTANTS
    Strings,    \* well-formed strings that begin with a letter but none of
                \* a literal's: keys and values
    MaxDepth,   \* depth from which an array is too deep: 20
    MaxNesting, \* bound of the model on arrays and objects in one another
    None

ASSUME StringsAssumption ==
    /\ Strings \cap ({"{", "}", "[", "]", ",", ":", "number", "literal", "broken"} \cup {None}) = {}
    /\ Strings \cap {"exponent", "space", "junk"} = {}
    /\ None \notin {"{", "}", "[", "]", ",", ":", "number", "literal", "broken"}

ASSUME DepthAssumption == MaxDepth \in Nat /\ MaxNesting \in Nat

(* A broken string has one quote and ends at a control character.          *)
Scalars == Strings \cup {"number", "literal", "broken"}

Tokens == Scalars \cup {"{", "}", "[", "]", ",", ":"}

(* What a text is made of.  An exponent is a number with an E; junk is     *)
(* what begins no token, a malformed number or literal, a bad escape, and  *)
(* a tab or a carriage return, which JSON takes for a space.               *)
Pieces == Tokens \cup {"exponent", "space", "junk"}

VARIABLES
    tokens,  \* tokens of the last piece that are not parsed
    number,  \* the character behind a number has not been looked at
    last,    \* the last token
    stack,   \* frames of parseArray and parseObject
    depth,
    fate,    \* what has become of the text
    stored,  \* where the last value was put
    before,  \* history: depth when parse() was called
    empties, \* history: how many empty arrays the text has had
    open,    \* history: brackets that are not closed
    grammar, \* history: what JSON expects, a frame for each open bracket
    verdict, \* history: whether the text is JSON as far as it goes
    belongs, \* history: where the last value belongs
    split    \* history: the text has a number with an E

lexer == <<tokens, number, last>>

parser == <<stack, depth, fate, stored, empties, open>>

reference == <<grammar, verdict, belongs, split>>

vars == <<lexer, parser, before, reference>>

Frame(kind) == [kind |-> kind, at |-> "first", first |-> None, own |-> None]

(* A value, told apart from the one before it by odd                       *)
Places == [into : {"array", "object", "nowhere"}, key : Strings \cup {None}, odd : BOOLEAN]

Nowhere == [into |-> "nowhere", key |-> None, odd |-> FALSE]

PutInto(kind, key, previous) == [into |-> kind, key |-> key, odd |-> ~previous.odd]

Top(frames) == frames[Len(frames)]

Below(frames) == SubSeq(frames, 1, Len(frames) - 1)

(* How far the innermost call is.                                          *)
At == Top(stack).at

Moved(frames, at) == [frames EXCEPT ![Len(frames)].at = at]

-----------------------------------------------------------------------------
(* parse() has thrown.  If the rest of the text has no tokens, or its last *)
(* is no bracket, the parser has never run.                                *)
Throw(what, deep) ==
    /\ fate' = what
    /\ depth' \in {deep, before}
    /\ UNCHANGED <<stack, stored, empties>>

(* Mutant: the pairs behind the first are put under its key, too. *)
PutFirst(frame) ==
    IF frame.kind = "array" THEN PutInto("array", None, stored)
    ELSE PutInto("object", frame.first, stored)

(* Where a frame puts a value: what comes without a comma and a key of its *)
(* own belongs to the first key.                                           *)
Put(frame) ==
    IF frame.kind = "array" THEN PutInto("array", None, stored)
    ELSE PutInto("object", IF frame.at = "value" THEN frame.own ELSE frame.first, stored)

(* The value is the caller's; the outermost is what parse() returns.       *)
Return(frames) ==
    IF frames = << >> THEN stack' = << >> /\ fate' = "returned" /\ UNCHANGED stored
    ELSE stack' = Moved(frames, "loop") /\ stored' = Put(Top(frames)) /\ UNCHANGED fate

OpenArray ==
    IF depth + 1 >= MaxDepth THEN Throw("too deep", depth + 1)
    ELSE /\ stack' = Append(stack, Frame("array"))
         /\ depth' = depth + 1
         /\ UNCHANGED <<fate, stored, empties>>

OpenObject ==
    /\ stack' = Append(stack, Frame("object"))
    /\ UNCHANGED <<depth, fate, stored, empties>>

parseValue(t) ==
    \/ t \in Scalars /\ Return(stack) /\ UNCHANGED <<depth, empties>>
    \/ t = "[" /\ OpenArray
    \/ t = "{" /\ OpenObject
    \/ t \in {"]", "}", ",", ":"} /\ Throw("refused", depth)

(* Mutant: a closed array still counts. *)
StillDeep(d) == d

Closed(d) == d - 1

parseArray(t) ==
    \/ t = "," /\ At = "first" /\ Throw("refused", depth)
    \/ t = "]" /\ At = "comma" /\ Throw("refused", depth)
    \/ /\ t = "]" /\ At = "first" \* returns with the depth
       /\ Return(Below(stack))
       /\ empties' = empties + 1
       /\ UNCHANGED depth
    \/ /\ t = "]" /\ At = "loop"
       /\ Return(Below(stack))
       /\ depth' = Closed(depth)
       /\ UNCHANGED empties
    \/ /\ t = "," /\ At # "first"
       /\ stack' = Moved(stack, "comma")
       /\ UNCHANGED <<depth, fate, stored, empties>>
    \/ t \notin {",", "]"} /\ parseValue(t)

(* Mutant: any token is a key. *)
AnyKey(t) == TRUE

isValidString(t) == t \in Strings

parseKeyValuePair(t) ==
    \/ /\ At = "key" /\ isValidString(t)
       /\ stack' = [stack EXCEPT ![Len(stack)].at = "separator", ![Len(stack)].own = t]
       /\ UNCHANGED <<depth, fate, stored, empties>>
    \/ /\ At = "separator" /\ t = ":"
       /\ stack' = Moved(stack, "value")
       /\ UNCHANGED <<depth, fate, stored, empties>>
    \/ /\ At = "key" /\ ~isValidString(t)
       /\ Throw("refused", depth)
    \/ /\ At = "separator" /\ t # ":"
       /\ Throw("refused", depth)
    \/ At = "value" /\ parseValue(t)

parseObject(t) ==
    \/ /\ t = "}" /\ At \in {"first", "loop"}
       /\ Return(Below(stack))
       /\ UNCHANGED <<depth, empties>>
    \/ /\ At = "first" /\ isValidString(t)
       /\ stack' = [stack EXCEPT ![Len(stack)].at = "colon", ![Len(stack)].first = t]
       /\ UNCHANGED <<depth, fate, stored, empties>>
    \/ /\ At = "colon" /\ t = ":"
       /\ stack' = Moved(stack, "loop")
       /\ UNCHANGED <<depth, fate, stored, empties>>
    \/ /\ At = "loop" /\ t = ","
       /\ stack' = Moved(stack, "key")
       /\ UNCHANGED <<depth, fate, stored, empties>>
    \/ At = "loop" /\ t \notin {"}", ","} /\ parseValue(t)
    \/ /\ At = "first" /\ t # "}" /\ ~isValidString(t)
       /\ Throw("refused", depth)
    \/ /\ At = "colon" /\ t # ":"
       /\ Throw("refused", depth)
    \/ parseKeyValuePair(t)

(* What follows the value that parse() has got is not parsed.              *)
parseToken(t) ==
    \/ fate = "returned" /\ Throw("refused", depth)
    \/ fate = "parsing" /\ stack = << >> /\ t = "[" /\ OpenArray
    \/ fate = "parsing" /\ stack = << >> /\ t = "{" /\ OpenObject
    \/ fate = "parsing" /\ stack = << >> /\ t \notin {"[", "{"} /\ Throw("refused", depth)
    \/ fate = "parsing" /\ stack # << >> /\ Top(stack).kind = "array" /\ parseArray(t)
    \/ fate = "parsing" /\ stack # << >> /\ Top(stack).kind = "object" /\ parseObject(t)

Matching(kind) == IF kind = "array" THEN "]" ELSE "}"

Opened(t) ==
    IF t = "[" THEN Append(open, "array")
    ELSE IF t = "{" THEN Append(open, "object")
    ELSE IF t \notin {"]", "}"} THEN open
    ELSE IF open # << >> /\ Matching(Top(open)) = t THEN Below(open) ELSE <<"crossed">>

parse ==
    /\ tokens # << >> /\ fate \in {"parsing", "returned"}
    /\ parseToken(Head(tokens))
    /\ open' = Opened(Head(tokens))
    /\ tokens' = Tail(tokens)
    /\ UNCHANGED <<number, last, before, reference>>

-----------------------------------------------------------------------------
(* The grammar of JSON, for texts that begin with a bracket                *)
AtValue ==
    /\ grammar # << >>
    /\ Top(grammar).at = "value" \/ (Top(grammar).at = "first" /\ Top(grammar).kind = "array")

AtKey ==
    /\ grammar # << >>
    /\ Top(grammar).at = "key" \/ (Top(grammar).at = "first" /\ Top(grammar).kind = "object")

Expectations ==
    [kind : {"array", "object"}, at : {"first", "more", "value", "key", "colon"},
     key : Strings \cup {None}]

(* None is no expectation and no sequence of them.                         *)
ASSUME NoneAssumption == None \notin Expectations /\ None \notin Seq(Expectations)

Expected(kind) == [kind |-> kind, at |-> "first", key |-> None]

More == IF grammar = << >> THEN << >> ELSE Moved(grammar, "more")

Closes(piece) ==
    /\ grammar # << >> /\ Top(grammar).at \in {"first", "more"}
    /\ piece = Matching(Top(grammar).kind)

(* What JSON expects behind the piece, None if it does not expect it       *)
Behind(piece) ==
    CASE piece = "space" -> grammar
      [] piece = "[" /\ (AtValue \/ verdict = "begin") -> Append(More, Expected("array"))
      [] piece = "{" /\ (AtValue \/ verdict = "begin") -> Append(More, Expected("object"))
      [] piece \in Strings \cup {"number", "exponent", "literal"} /\ AtValue -> More
      [] piece \in Strings /\ AtKey ->
            [grammar EXCEPT ![Len(grammar)] = [@ EXCEPT !.at = "colon", !.key = piece]]
      [] piece = ":" /\ grammar # << >> /\ Top(grammar).at = "colon" -> Moved(grammar, "value")
      [] piece = "," /\ grammar # << >> /\ Top(grammar).at = "more" ->
            Moved(grammar, IF Top(grammar).kind = "array" THEN "value" ELSE "key")
      [] Closes(piece) -> Below(grammar)
      [] OTHER -> None

(* The frame whose value the piece completes, if there is one              *)
Completes(piece) ==
    CASE piece \in Strings \cup {"number", "exponent", "literal"} /\ AtValue -> Top(grammar)
      [] Closes(piece) /\ Len(grammar) > 1 -> Top(Below(grammar))
      [] OTHER -> None

JSON(piece) ==
    /\ grammar' = IF Behind(piece) = None THEN << >> ELSE Behind(piece)
    /\ verdict' = IF Behind(piece) = None THEN "invalid"
                  ELSE IF Closes(piece) /\ Len(grammar) = 1 THEN "complete"
                  ELSE IF piece # "space" THEN "prefix" ELSE verdict
    /\ belongs' = IF Behind(piece) = None THEN Nowhere
                  ELSE IF Completes(piece) = None THEN belongs
                  ELSE PutInto(Completes(piece).kind, Completes(piece).key, belongs)
    /\ split' = (split \/ piece = "exponent")

-----------------------------------------------------------------------------
(* Mutant: a number is ended by what ends an array's element only. *)
ArrayKept == {",", "]"}

(* Of the characters behind a number these become tokens, any other one is *)
(* dropped.                                                                *)
Kept == {",", "]", "}"}

Lexes(piece, sequence) ==
    /\ tokens' = sequence
    /\ number' = (piece \in {"number", "exponent"})
    /\ last' = IF sequence = << >> THEN last ELSE Top(sequence)
    /\ UNCHANGED <<parser, before>>

Rejects ==
    /\ fate' = "refused"
    /\ depth' = before
    /\ UNCHANGED <<lexer, stack, stored, empties, open, before>>

lex(piece) ==
    /\ tokens = << >> /\ fate \in {"parsing", "returned"}
    /\ piece \in {"[", "{"} => Len(stack) < MaxNesting /\ Len(grammar) < MaxNesting
    /\ number => piece \notin {"number", "exponent"} \* would be part of it
    /\ JSON(piece)
    /\ \/ ~number /\ piece \in Tokens /\ Lexes(piece, <<piece>>)
       \/ ~number /\ piece = "exponent" /\ Lexes(piece, <<"number", "number">>)
       \/ ~number /\ piece = "space" /\ Lexes(piece, << >>)
       \/ number /\ piece \in Kept /\ Lexes(piece, <<piece>>)
       \/ number /\ piece \in {"space", "[", "{", "}", ",", ":", "junk"} \ Kept /\ Lexes(piece, << >>)
       \/ piece = "junk" /\ Rejects
       \/ number /\ piece \in Strings \cup {"literal", "broken"} /\ Rejects

(* The end of the text: the last token is looked at before the parser      *)
(* runs, and a call that is under way at the end reads behind it.          *)
End ==
    /\ tokens = << >> /\ fate \in {"parsing", "returned"}
    /\ \/ /\ last \notin {"]", "}"}
          /\ fate' = "refused" /\ depth' = before
       \/ /\ last \in {"]", "}"}
          /\ fate' = (IF fate = "returned" THEN "accepted" ELSE "behind")
          /\ UNCHANGED depth
    /\ verdict' = IF verdict = "complete" THEN verdict ELSE "invalid"
    /\ UNCHANGED <<lexer, stack, stored, empties, open, before, grammar, belongs, split>>

(* A parser that is used again.  The bound keeps depth finite.             *)
Again ==
    /\ fate \in {"accepted", "refused", "too deep"} /\ depth <= MaxDepth
    /\ before' = depth
    /\ tokens' = << >> /\ number' = FALSE /\ last' = None
    /\ stack' = << >> /\ fate' = "parsing" /\ stored' = Nowhere /\ empties' = 0 /\ open' = << >>
    /\ grammar' = << >> /\ verdict' = "begin" /\ belongs' = Nowhere /\ split' = FALSE
    /\ UNCHANGED depth

Init ==
    /\ tokens = << >> /\ number = FALSE /\ last = None
    /\ stack = << >> /\ depth = 0 /\ fate = "parsing" /\ stored = Nowhere
    /\ before = 0 /\ empties = 0 /\ open = << >>
    /\ grammar = << >> /\ verdict = "begin" /\ belongs = Nowhere /\ split = FALSE

Next ==
    \/ \E piece \in Pieces : lex(piece)
    \/ parse \/ End \/ Again

Spec == Init /\ [][Next]_vars

-----------------------------------------------------------------------------
Frames ==
    [kind : {"array", "object"}, first : Strings \cup {None}, own : Strings \cup {None},
     at : {"first", "loop", "comma", "colon", "key", "separator", "value"}]

(* Type invariant. *)
TypeOK ==
    /\ tokens \in Seq(Tokens) /\ number \in BOOLEAN /\ last \in Tokens \cup {None}
    /\ stack \in Seq(Frames) /\ depth \in Nat /\ stored \in Places
    /\ fate \in {"parsing", "returned", "accepted", "refused", "too deep", "behind"}
    /\ before \in Nat /\ empties \in Nat
    /\ open \in Seq({"array", "object", "crossed"})

Running == fate \in {"parsing", "returned"}

Arrays(frames) == Cardinality({i \in 1..Len(frames) : frames[i].kind = "array"})

(* A text is refused as too deep only for its own arrays, those that are   *)
(* nested and those that are empty, or for what earlier texts have left in *)
(* the parser (parseArray).                                                *)
DepthSpent ==
    /\ Running => depth = before + empties + Arrays(stack)
    /\ fate = "too deep" => before + empties + Arrays(stack) + 1 >= MaxDepth

(* Every JSON text is accepted unless it is too deep, and none is refused  *)
(* before its end (Lexer::lex and all of parser).                          *)
ValidAccepted ==
    tokens = << >> =>
        /\ verdict # "invalid" => fate \notin {"refused", "behind"}
        /\ verdict = "complete" => fate # "parsing"

(* Of a JSON text without an E in its numbers every value is put once, in  *)
(* its array or under its key (parseArray, parseObject).                   *)
SameTree ==
    tokens = << >> /\ verdict \in {"prefix", "complete"} /\ ~split
        /\ fate \in {"parsing", "returned", "accepted"} => stored = belongs

(* Whatever the tokens: the calls under way are the brackets that are not  *)
(* closed.  So what is accepted is nested well, and only a text with a     *)
(* bracket that nothing closes is read behind its end (parser).            *)
Nested ==
    fate \in {"parsing", "returned", "accepted", "behind"} =>
        open = [i \in 1..Len(stack) |-> stack[i].kind]

=============================================================================
