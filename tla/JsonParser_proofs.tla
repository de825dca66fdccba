------------------------- MODULE JsonParser_proofs -------------------------
(* The parser's calls are the open brackets, its depth is spent on arrays, *)
(* and what is JSON is accepted and becomes the tree that the grammar has, *)
(* for every bound on depth and nesting and every set of strings.          *)
EXTENDS JsonParser, FiniteSetTheorems, TLAPS

(* The kinds of the calls that are under way.                              *)
KindsOf(frames) == [i \in 1..Len(frames) |-> frames[i].kind]

ArraysAt(frames) == {i \in 1..Len(frames) : frames[i].kind = "array"}

LEMMA Replaced ==
    ASSUME NEW frames \in Seq(Frames), frames # << >>, NEW f \in Frames,
           f.kind = frames[Len(frames)].kind
    PROVE  LET changed == [frames EXCEPT ![Len(frames)] = f] IN
           /\ changed \in Seq(Frames) /\ Len(changed) = Len(frames)
           /\ KindsOf(changed) = KindsOf(frames)
<1> DEFINE changed == [frames EXCEPT ![Len(frames)] = f]
<1>1. changed \in Seq(Frames) /\ Len(changed) = Len(frames)
  OBVIOUS
<1>2. \A i \in 1..Len(frames) : changed[i].kind = frames[i].kind
  OBVIOUS
<1> QED
  BY <1>1, <1>2 DEF KindsOf

LEMMA MovedFrames ==
    ASSUME NEW frames \in Seq(Frames), frames # << >>,
           NEW at \in {"first", "loop", "comma", "colon", "key", "separator", "value"}
    PROVE  /\ Moved(frames, at) \in Seq(Frames)
           /\ Len(Moved(frames, at)) = Len(frames)
           /\ KindsOf(Moved(frames, at)) = KindsOf(frames)
<1> DEFINE f == [frames[Len(frames)] EXCEPT !.at = at]
<1>1. Len(frames) \in 1..Len(frames)
  OBVIOUS
<1>2. f \in Frames /\ f.kind = frames[Len(frames)].kind
  <2>1. frames[Len(frames)] \in Frames
    BY <1>1
  <2> QED
    BY <2>1 DEF Frames
<1>3. Moved(frames, at) = [frames EXCEPT ![Len(frames)] = f]
  BY <1>1 DEF Moved
<1> QED
  BY <1>1, <1>2, <1>3, Replaced

LEMMA PrefixLength ==
    ASSUME NEW S, NEW s \in Seq(S), NEW n \in 0..Len(s)
    PROVE  Len(SubSeq(s, 1, n)) = n
OBVIOUS

LEMMA BelowFrames ==
    ASSUME NEW frames \in Seq(Frames), frames # << >>
    PROVE  /\ Below(frames) \in Seq(Frames)
           /\ Len(Below(frames)) = Len(frames) - 1
           /\ \A i \in 1..Len(frames) - 1 : Below(frames)[i] = frames[i]
           /\ Top(frames) \in Frames
<1>1. Len(frames) \in Nat \ {0} /\ \A i \in 1..Len(frames) : frames[i] \in Frames
  OBVIOUS
<1>2. Top(frames) \in Frames
  BY <1>1 DEF Top
<1>3. Len(Below(frames)) = Len(frames) - 1
  <2>1. Len(frames) - 1 \in 0..Len(frames)
    BY <1>1
  <2>2. Len(SubSeq(frames, 1, Len(frames) - 1)) = Len(frames) - 1
    BY <2>1, PrefixLength
  <2> QED
    BY <2>2 DEF Below
<1>4. Below(frames) \in Seq(Frames)
  BY DEF Below
<1>5. \A i \in 1..Len(frames) - 1 : Below(frames)[i] = frames[i]
  BY <1>1 DEF Below
<1> QED
  BY <1>2, <1>3, <1>4, <1>5

LEMMA NewFrame ==
    ASSUME NEW kind \in {"array", "object"}
    PROVE  Frame(kind) \in Frames /\ Frame(kind).kind = kind
BY DEF Frame, Frames

LEMMA ArraysFinite ==
    ASSUME NEW frames \in Seq(Frames)
    PROVE  IsFiniteSet(ArraysAt(frames)) /\ Arrays(frames) = Cardinality(ArraysAt(frames))
           /\ Arrays(frames) \in Nat
<1>1. IsFiniteSet(1..Len(frames))
  BY FS_Interval
<1>2. IsFiniteSet(ArraysAt(frames))
  BY <1>1, FS_Subset DEF ArraysAt
<1>3. Arrays(frames) = Cardinality(ArraysAt(frames))
  BY DEF Arrays, ArraysAt
<1> QED
  BY <1>2, <1>3, FS_CardinalityType

(* Only the kinds count.                                                   *)
LEMMA ArraysOfKinds ==
    ASSUME NEW f \in Seq(Frames), NEW g \in Seq(Frames),
           Len(f) = Len(g), KindsOf(f) = KindsOf(g)
    PROVE  Arrays(f) = Arrays(g)
<1>1. \A i \in 1..Len(f) : f[i].kind = g[i].kind
  BY DEF KindsOf
<1>2. ArraysAt(f) = ArraysAt(g)
  BY <1>1 DEF ArraysAt
<1> QED
  BY <1>2, ArraysFinite

LEMMA ArraysEmpty == Arrays(<< >>) = 0
BY FS_EmptySet DEF Arrays

LEMMA ArraysPushed ==
    ASSUME NEW frames \in Seq(Frames), NEW frame \in Frames
    PROVE  Arrays(Append(frames, frame))
               = Arrays(frames) + (IF frame.kind = "array" THEN 1 ELSE 0)
<1> DEFINE n == Len(frames) + 1
<1>1. Append(frames, frame) \in Seq(Frames)
  OBVIOUS
<1>2. CASE frame.kind = "array"
  <2>1. ArraysAt(Append(frames, frame)) = ArraysAt(frames) \cup {n} /\ n \notin ArraysAt(frames)
    BY <1>2 DEF ArraysAt
  <2>2. Cardinality(ArraysAt(Append(frames, frame))) = Cardinality(ArraysAt(frames)) + 1
    BY <2>1, ArraysFinite, FS_AddElement
  <2> QED
    BY <1>1, <1>2, <2>2, ArraysFinite
<1>3. CASE frame.kind # "array"
  <2>1. ArraysAt(Append(frames, frame)) = ArraysAt(frames)
    BY <1>3 DEF ArraysAt
  <2> QED
    <3>1. Arrays(Append(frames, frame)) = Arrays(frames)
      BY <1>1, <2>1, ArraysFinite
    <3> QED
      BY <1>3, <3>1, ArraysFinite
<1> QED
  BY <1>2, <1>3

LEMMA ArraysPopped ==
    ASSUME NEW frames \in Seq(Frames), frames # << >>
    PROVE  Arrays(frames) = Arrays(Below(frames))
                            + (IF Top(frames).kind = "array" THEN 1 ELSE 0)
<1>1. frames = Append(Below(frames), Top(frames))
  BY DEF Below, Top
<1> QED
  BY <1>1, BelowFrames, ArraysPushed

-----------------------------------------------------------------------------
(* What holds as long as the parser runs.                                  *)
Held ==
    /\ open = KindsOf(stack)
    /\ depth = before + empties + Arrays(stack)

(* The steps of a call: all but the depth of a bracket.                    *)
SameKinds ==
    /\ stack' \in Seq(Frames) /\ Len(stack') = Len(stack) /\ KindsOf(stack') = KindsOf(stack)
    /\ fate' = fate /\ depth' = depth /\ empties' = empties /\ stored' \in Places

Pushes(kind) ==
    /\ stack' = Append(stack, Frame(kind)) /\ fate' = fate /\ stored' = stored
    /\ kind = "array" => depth' = depth + 1
    /\ kind = "object" => depth' = depth
    /\ empties' = empties

Pops(kind) ==
    /\ stack # << >> /\ Top(stack).kind = kind
    /\ stack' \in Seq(Frames) /\ Len(stack') = Len(stack) - 1
    /\ KindsOf(stack') = KindsOf(Below(stack))
    /\ fate' \in {"parsing", "returned"} /\ stored' \in Places
    /\ kind = "array" => \/ depth' = depth - 1 /\ empties' = empties
                         \/ depth' = depth /\ empties' = empties + 1
    /\ kind = "object" => depth' = depth /\ empties' = empties

Throws ==
    /\ \/ fate' = "refused"
       \/ fate' = "too deep" /\ depth + 1 >= MaxDepth
    /\ depth' \in {depth, depth + 1, before}
    /\ UNCHANGED <<stack, stored, empties>>

(* What a token can do: brackets open and close the call of their kind.    *)
Outcome(t) ==
    \/ Throws
    \/ t \notin {"[", "]", "{", "}"} /\ SameKinds
    \/ t = "[" /\ Pushes("array")
    \/ t = "{" /\ Pushes("object")
    \/ t = "]" /\ Pops("array")
    \/ t = "}" /\ Pops("object")

(* The types without those of the lexer.                                   *)
ParserOK ==
    /\ stack \in Seq(Frames) /\ depth \in Nat /\ stored \in Places
    /\ before \in Nat /\ empties \in Nat

LEMMA PutType ==
    ASSUME NEW frame \in Frames, stored \in Places
    PROVE  Put(frame) \in Places
BY DEF Put, PutInto, Places, Frames

LEMMA Returning ==
    ASSUME NEW frames \in Seq(Frames), stored \in Places, fate = "parsing", Return(frames)
    PROVE  /\ stack' \in Seq(Frames) /\ Len(stack') = Len(frames)
           /\ KindsOf(stack') = KindsOf(frames)
           /\ stored' \in Places /\ fate' \in {"parsing", "returned"}
           /\ frames # << >> => fate' = fate
<1>1. CASE frames = << >>
  BY <1>1 DEF Return
<1>2. CASE frames # << >>
  <2>1. stack' = Moved(frames, "loop") /\ stored' = Put(Top(frames)) /\ fate' = fate
    BY <1>2 DEF Return
  <2> QED
    BY <1>2, <2>1, MovedFrames, PutType, BelowFrames
<1> QED
  BY <1>1, <1>2

LEMMA OpenArrayStep ==
    ASSUME ParserOK, OpenArray
    PROVE  Throws \/ Pushes("array")
BY DEF OpenArray, Throw, Throws, Pushes, ParserOK

LEMMA OpenObjectStep ==
    ASSUME OpenObject
    PROVE  Pushes("object")
BY DEF OpenObject, Pushes

LEMMA parseValueStep ==
    ASSUME ParserOK, fate = "parsing", stack # << >>, NEW t \in Tokens, parseValue(t)
    PROVE  Outcome(t)
<1>1. CASE t \in Scalars /\ Return(stack) /\ UNCHANGED <<depth, empties>>
  <2>1. SameKinds
    BY <1>1, Returning DEF SameKinds, ParserOK
  <2>2. t \notin {"[", "]", "{", "}"}
    BY <1>1, StringsAssumption DEF Scalars
  <2> QED
    BY <2>1, <2>2 DEF Outcome
<1>2. CASE t = "[" /\ OpenArray
  BY <1>2, OpenArrayStep DEF Outcome
<1>3. CASE t = "{" /\ OpenObject
  BY <1>3, OpenObjectStep DEF Outcome
<1>4. CASE t \in {"]", "}", ",", ":"} /\ Throw("refused", depth)
  BY <1>4 DEF Throw, Throws, Outcome
<1> QED
  BY <1>1, <1>2, <1>3, <1>4 DEF parseValue

(* A call returns into what is below it.                                   *)
LEMMA PopStep ==
    ASSUME ParserOK, fate = "parsing", stack # << >>, Return(Below(stack)),
           Top(stack).kind = "array" => \/ depth' = depth - 1 /\ empties' = empties
                                        \/ depth' = depth /\ empties' = empties + 1,
           Top(stack).kind = "object" => depth' = depth /\ empties' = empties
    PROVE  Pops(Top(stack).kind)
BY Returning, BelowFrames DEF Pops, ParserOK

LEMMA MoveStep ==
    ASSUME ParserOK, stack # << >>,
           NEW at \in {"first", "loop", "comma", "colon", "key", "separator", "value"},
           stack' = Moved(stack, at), UNCHANGED <<depth, fate, stored, empties>>
    PROVE  SameKinds
BY MovedFrames DEF SameKinds, ParserOK

LEMMA parseArrayStep ==
    ASSUME ParserOK, fate = "parsing", stack # << >>, Top(stack).kind = "array",
           NEW t \in Tokens, parseArray(t)
    PROVE  Outcome(t)
<1>1. CASE Throw("refused", depth)
  BY <1>1 DEF Throw, Throws, Outcome
<1>2. CASE t = "]" /\ At = "first" /\ Return(Below(stack)) /\ empties' = empties + 1
           /\ UNCHANGED depth
  <2>1. Pops("array")
    BY <1>2, PopStep
  <2> QED
    BY <1>2, <2>1 DEF Outcome
<1>3. CASE t = "]" /\ At = "loop" /\ Return(Below(stack)) /\ depth' = Closed(depth)
           /\ UNCHANGED empties
  <2>1. Pops("array")
    BY <1>3, PopStep DEF Closed
  <2> QED
    BY <1>3, <2>1 DEF Outcome
<1>4. CASE t = "," /\ At # "first" /\ stack' = Moved(stack, "comma")
           /\ UNCHANGED <<depth, fate, stored, empties>>
  BY <1>4, MoveStep DEF Outcome
<1>5. CASE t \notin {",", "]"} /\ parseValue(t)
  BY <1>5, parseValueStep
<1> QED
  BY <1>1, <1>2, <1>3, <1>4, <1>5 DEF parseArray

(* A key is stored in the frame, which stays what it is.                   *)
LEMMA KeyStep ==
    ASSUME ParserOK, stack # << >>, NEW t \in Strings, NEW f \in Frames,
           f.kind = Top(stack).kind, stack' = [stack EXCEPT ![Len(stack)] = f],
           UNCHANGED <<depth, fate, stored, empties>>
    PROVE  t \notin {"[", "]", "{", "}"} /\ SameKinds
<1>1. t \notin {"[", "]", "{", "}"}
  BY StringsAssumption
<1> QED
  BY <1>1, Replaced DEF SameKinds, ParserOK, Top

LEMMA parseKeyValuePairStep ==
    ASSUME ParserOK, fate = "parsing", stack # << >>, NEW t \in Tokens, parseKeyValuePair(t)
    PROVE  Outcome(t)
<1>1. CASE /\ At = "key" /\ isValidString(t)
           /\ stack' = [stack EXCEPT ![Len(stack)].at = "separator", ![Len(stack)].own = t]
           /\ UNCHANGED <<depth, fate, stored, empties>>
  <2> DEFINE f == [Top(stack) EXCEPT !.at = "separator", !.own = t]
  <2>1. f \in Frames /\ f.kind = Top(stack).kind
    <3>1. Top(stack) \in Frames
      BY BelowFrames DEF ParserOK
    <3> QED
      BY <1>1, <3>1 DEF Frames, isValidString
  <2>2. stack' = [stack EXCEPT ![Len(stack)] = f]
    BY <1>1, BelowFrames DEF ParserOK, Frames, Top
  <2> QED
    BY <1>1, <2>1, <2>2, KeyStep DEF Outcome, isValidString
<1>2. CASE At = "separator" /\ t = ":" /\ stack' = Moved(stack, "value")
           /\ UNCHANGED <<depth, fate, stored, empties>>
  BY <1>2, MoveStep DEF Outcome
<1>3. CASE Throw("refused", depth)
  BY <1>3 DEF Throw, Throws, Outcome
<1>4. CASE At = "value" /\ parseValue(t)
  BY <1>4, parseValueStep
<1> QED
  BY <1>1, <1>2, <1>3, <1>4 DEF parseKeyValuePair

LEMMA parseObjectStep ==
    ASSUME ParserOK, fate = "parsing", stack # << >>, Top(stack).kind = "object",
           NEW t \in Tokens, parseObject(t)
    PROVE  Outcome(t)
<1>1. CASE t = "}" /\ At \in {"first", "loop"} /\ Return(Below(stack))
           /\ UNCHANGED <<depth, empties>>
  <2>1. Pops("object")
    BY <1>1, PopStep
  <2> QED
    BY <1>1, <2>1 DEF Outcome
<1>2. CASE /\ At = "first" /\ isValidString(t)
           /\ stack' = [stack EXCEPT ![Len(stack)].at = "colon", ![Len(stack)].first = t]
           /\ UNCHANGED <<depth, fate, stored, empties>>
  <2> DEFINE f == [Top(stack) EXCEPT !.at = "colon", !.first = t]
  <2>1. f \in Frames /\ f.kind = Top(stack).kind
    <3>1. Top(stack) \in Frames
      BY BelowFrames DEF ParserOK
    <3> QED
      BY <1>2, <3>1 DEF Frames, isValidString
  <2>2. stack' = [stack EXCEPT ![Len(stack)] = f]
    BY <1>2, BelowFrames DEF ParserOK, Frames, Top
  <2> QED
    BY <1>2, <2>1, <2>2, KeyStep DEF Outcome, isValidString
<1>3. CASE At = "colon" /\ t = ":" /\ stack' = Moved(stack, "loop")
           /\ UNCHANGED <<depth, fate, stored, empties>>
  BY <1>3, MoveStep DEF Outcome
<1>4. CASE At = "loop" /\ t = "," /\ stack' = Moved(stack, "key")
           /\ UNCHANGED <<depth, fate, stored, empties>>
  BY <1>4, MoveStep DEF Outcome
<1>5. CASE parseValue(t)
  BY <1>5, parseValueStep
<1>6. CASE Throw("refused", depth)
  BY <1>6 DEF Throw, Throws, Outcome
<1>7. CASE parseKeyValuePair(t)
  BY <1>7, parseKeyValuePairStep
<1> QED
  BY <1>1, <1>2, <1>3, <1>4, <1>5, <1>6, <1>7 DEF parseObject

LEMMA parseTokenStep ==
    ASSUME ParserOK, NEW t \in Tokens, parseToken(t)
    PROVE  Outcome(t)
<1>1. CASE Throw("refused", depth)
  BY <1>1 DEF Throw, Throws, Outcome
<1>2. CASE t = "[" /\ OpenArray
  BY <1>2, OpenArrayStep DEF Outcome
<1>3. CASE t = "{" /\ OpenObject
  BY <1>3, OpenObjectStep DEF Outcome
<1>4. CASE fate = "parsing" /\ stack # << >> /\ Top(stack).kind = "array" /\ parseArray(t)
  BY <1>4, parseArrayStep
<1>5. CASE fate = "parsing" /\ stack # << >> /\ Top(stack).kind = "object" /\ parseObject(t)
  BY <1>5, parseObjectStep
<1> QED
  BY <1>1, <1>2, <1>3, <1>4, <1>5 DEF parseToken

-----------------------------------------------------------------------------
IInv == TypeOK /\ DepthSpent /\ Nested

Brackets == {"array", "object", "crossed"}

LEMMA Types ==
    ASSUME TypeOK
    PROVE  /\ ParserOK /\ tokens \in Seq(Tokens) /\ open \in Seq(Brackets)
           /\ number \in BOOLEAN /\ last \in Tokens \cup {None}
           /\ fate \in {"parsing", "returned", "accepted", "refused", "too deep", "behind"}
BY Zenon DEF TypeOK, ParserOK, Brackets

LEMMA BelowBrackets ==
    ASSUME NEW s \in Seq(Brackets), s # << >>
    PROVE  Below(s) \in Seq(Brackets) /\ Top(s) \in Brackets
<1>1. Len(s) \in 1..Len(s)
  OBVIOUS
<1>2. Top(s) \in Brackets
  BY <1>1 DEF Top
<1> QED
  BY <1>2 DEF Below

LEMMA OpenedType ==
    ASSUME open \in Seq(Brackets), NEW t \in Tokens
    PROVE  Opened(t) \in Seq(Brackets)
<1>1. CASE t \in {"[", "{"}
  <2>1. Opened(t) \in {Append(open, "array"), Append(open, "object")}
    BY <1>1 DEF Opened
  <2> QED
    BY <2>1 DEF Brackets
<1>2. CASE t \in {"]", "}"}
  <2>1. \/ Opened(t) = Below(open) /\ open # << >>
        \/ Opened(t) = <<"crossed">>
    BY <1>2 DEF Opened
  <2>2. <<"crossed">> \in Seq(Brackets)
    BY DEF Brackets
  <2> QED
    BY <2>1, <2>2, BelowBrackets
<1>3. CASE t \notin {"[", "{", "]", "}"}
  BY <1>3 DEF Opened
<1> QED
  BY <1>1, <1>2, <1>3

(* The innermost open bracket is the innermost call's.                     *)
LEMMA OpenTop ==
    ASSUME NEW frames \in Seq(Frames), frames # << >>
    PROVE  /\ KindsOf(frames) # << >>
           /\ Top(KindsOf(frames)) = Top(frames).kind
           /\ Below(KindsOf(frames)) = KindsOf(Below(frames))
<1>1. Len(frames) \in 1..Len(frames) /\ Len(KindsOf(frames)) = Len(frames)
  BY DEF KindsOf
<1>2. KindsOf(frames) # << >> /\ Top(KindsOf(frames)) = Top(frames).kind
  BY <1>1 DEF Top, KindsOf
<1>3. Below(KindsOf(frames)) = [i \in 1..Len(frames) - 1 |-> frames[i].kind]
  BY <1>1 DEF Below, KindsOf
<1>4. KindsOf(Below(frames)) = [i \in 1..Len(frames) - 1 |-> frames[i].kind]
  BY BelowFrames DEF KindsOf
<1> QED
  BY <1>2, <1>3, <1>4

LEMMA OpenPushed ==
    ASSUME NEW frames \in Seq(Frames), NEW frame \in Frames
    PROVE  KindsOf(Append(frames, frame)) = Append(KindsOf(frames), frame.kind)
BY DEF KindsOf

(* While the parser runs every outcome but a throw keeps what is held.     *)
LEMMA OutcomeHeld ==
    ASSUME ParserOK, open \in Seq(Brackets), Held, fate \in {"parsing", "returned"},
           NEW t \in Tokens, Outcome(t), ~Throws, open' = Opened(t), before' = before
    PROVE  ParserOK' /\ Held' /\ fate' \in {"parsing", "returned"}
<1>1. CASE t \notin {"[", "]", "{", "}"} /\ SameKinds
  <2>1. open' = open
    BY <1>1 DEF Opened
  <2>2. Arrays(stack') = Arrays(stack)
    BY <1>1, ArraysOfKinds DEF SameKinds, ParserOK
  <2> QED
    BY <1>1, <2>1, <2>2 DEF SameKinds, ParserOK, Held
<1>2. CASE t = "[" /\ Pushes("array")
  <2>1. open' = Append(open, "array")
    BY <1>2 DEF Opened
  <2>2. Arrays(stack') = Arrays(stack) + 1 /\ stack' \in Seq(Frames)
    BY <1>2, ArraysPushed, NewFrame DEF Pushes, ParserOK
  <2>3. KindsOf(stack') = Append(KindsOf(stack), "array")
    BY <1>2, OpenPushed, NewFrame DEF Pushes, ParserOK
  <2>4. depth' = before' + empties' + Arrays(stack') /\ depth' \in Nat
    <3>1. /\ depth' = depth + 1 /\ empties' = empties /\ depth \in Nat /\ empties \in Nat
          /\ before \in Nat /\ Arrays(stack) \in Nat
          /\ depth = before + empties + Arrays(stack)
      BY <1>2, ArraysFinite DEF Pushes, ParserOK, Held
    <3> QED
      BY <2>2, <3>1
  <2> QED
    BY <1>2, <2>1, <2>2, <2>3, <2>4 DEF Pushes, ParserOK, Held
<1>3. CASE t = "{" /\ Pushes("object")
  <2>1. open' = Append(open, "object")
    BY <1>3 DEF Opened
  <2>2. Arrays(stack') = Arrays(stack) /\ stack' \in Seq(Frames)
    <3>1. stack' = Append(stack, Frame("object")) /\ stack \in Seq(Frames)
      BY <1>3 DEF Pushes, ParserOK
    <3>2. Frame("object") \in Frames /\ Frame("object").kind # "array"
      BY NewFrame
    <3>3. Arrays(stack') = Arrays(stack) + 0
      BY <3>1, <3>2, ArraysPushed
    <3> QED
      BY <3>1, <3>2, <3>3, ArraysFinite
  <2>3. KindsOf(stack') = Append(KindsOf(stack), "object")
    BY <1>3, OpenPushed, NewFrame DEF Pushes, ParserOK
  <2>4. depth' = before' + empties' + Arrays(stack') /\ depth' \in Nat
    BY <1>3, <2>2 DEF Pushes, ParserOK, Held
  <2> QED
    BY <1>3, <2>1, <2>2, <2>3, <2>4 DEF Pushes, ParserOK, Held
<1>4. ASSUME NEW kind \in {"array", "object"}, t = Matching(kind), Pops(kind)
      PROVE  ParserOK' /\ Held' /\ fate' \in {"parsing", "returned"}
  <2>1. /\ stack # << >> /\ stack \in Seq(Frames) /\ Top(stack).kind = kind
        /\ Below(stack) \in Seq(Frames) /\ stack' \in Seq(Frames)
    BY <1>4, BelowFrames DEF Pops, ParserOK
  <2>2. open # << >> /\ Top(open) = kind /\ Below(open) = KindsOf(Below(stack))
    BY <2>1, OpenTop DEF Held
  <2>3. open' = KindsOf(stack')
    BY <1>4, <2>2 DEF Opened, Matching, Pops
  <2>4. Arrays(stack') = Arrays(Below(stack))
    BY <1>4, <2>1, BelowFrames, ArraysOfKinds DEF Pops
  <2>5. /\ Arrays(stack') \in Nat /\ Arrays(stack) \in Nat
        /\ kind = "array" => Arrays(stack) = Arrays(stack') + 1
        /\ kind = "object" => Arrays(stack) = Arrays(stack')
    BY <2>1, <2>4, ArraysPopped, ArraysFinite
  <2>6. depth' = before + empties' + Arrays(stack')
    <3>1. /\ before \in Nat /\ depth \in Nat /\ empties \in Nat
          /\ depth = before + empties + Arrays(stack)
      BY DEF Held, ParserOK
    <3>2. CASE kind = "array" /\ depth' = depth - 1 /\ empties' = empties
      <4>1. Arrays(stack) = Arrays(stack') + 1
        BY <2>5, <3>2
      <4> QED
        BY <2>5, <3>1, <3>2, <4>1
    <3>3. CASE kind = "array" /\ depth' = depth /\ empties' = empties + 1
      <4>1. Arrays(stack) = Arrays(stack') + 1
        BY <2>5, <3>3
      <4> QED
        BY <2>5, <3>1, <3>3, <4>1
    <3>4. CASE kind = "object" /\ depth' = depth /\ empties' = empties
      BY <2>5, <3>1, <3>4
    <3> QED
      BY <1>4, <3>2, <3>3, <3>4 DEF Pops
  <2>7. empties' \in Nat
    <3>1. empties \in Nat /\ empties' \in {empties, empties + 1}
      BY <1>4 DEF Pops, ParserOK
    <3> QED
      BY <3>1
  <2>8. depth' \in Nat
    <3>1. before \in Nat
      BY DEF ParserOK
    <3> QED
      BY <2>5, <2>6, <2>7, <3>1
  <2>9. ParserOK'
    BY <1>4, <2>1, <2>7, <2>8 DEF Pops, ParserOK
  <2> QED
    BY <1>4, <2>3, <2>6, <2>9 DEF Pops, Held
<1> QED
  BY <1>1, <1>2, <1>3, <1>4 DEF Outcome, Matching

LEMMA ParseStep ==
    ASSUME IInv, parse
    PROVE  IInv'
<1> DEFINE t == Head(tokens)
<1>1. /\ t \in Tokens /\ tokens' \in Seq(Tokens) /\ fate \in {"parsing", "returned"}
      /\ Outcome(t) /\ open' = Opened(t) /\ UNCHANGED <<number, last, before>>
  <2>1. /\ tokens \in Seq(Tokens) /\ tokens # << >> /\ ParserOK
        /\ fate \in {"parsing", "returned"} /\ parseToken(t)
        /\ open' = Opened(t) /\ tokens' = Tail(tokens) /\ UNCHANGED <<number, last, before>>
    BY Types DEF IInv, parse
  <2>2. t \in Tokens /\ tokens' \in Seq(Tokens)
    BY <2>1
  <2> QED
    BY <2>1, <2>2, parseTokenStep
<1>2. open' \in Seq(Brackets)
  BY <1>1, Types, OpenedType DEF IInv
<1>3. ParserOK /\ Held
  BY <1>1, Types DEF IInv, DepthSpent, Running, Nested, Held, KindsOf
<1>4. CASE Throws
  <2>1. ParserOK' /\ fate' \in {"refused", "too deep"}
    <3>1. depth \in Nat /\ before \in Nat
      BY <1>3 DEF ParserOK
    <3>2. depth' \in {depth, depth + 1, before}
      BY <1>4 DEF Throws
    <3>3. depth' \in Nat
      BY <3>1, <3>2
    <3> QED
      BY <1>1, <1>3, <1>4, <3>3 DEF Throws, ParserOK
  <2>2. DepthSpent'
    BY <1>1, <1>3, <1>4, ArraysFinite
       DEF Throws, ParserOK, Held, DepthSpent, Running
  <2>3. Nested'
    BY <2>1 DEF Nested
  <2>4. TypeOK'
    BY <1>1, <1>2, <2>1, Types, Zenon DEF IInv, TypeOK, ParserOK, Brackets
  <2> QED
    BY <2>2, <2>3, <2>4 DEF IInv
<1>5. CASE ~Throws
  <2>1. ParserOK' /\ Held' /\ fate' \in {"parsing", "returned"}
    BY <1>1, <1>3, <1>5, Types, OutcomeHeld DEF IInv
  <2>2. DepthSpent' /\ Nested'
    BY <2>1 DEF DepthSpent, Running, Nested, Held, KindsOf
  <2>3. TypeOK'
    BY <1>1, <1>2, <2>1, Types, Zenon DEF IInv, TypeOK, ParserOK, Brackets
  <2> QED
    BY <2>2, <2>3 DEF IInv
<1> QED
  BY <1>4, <1>5

(* The lexer does not touch the calls.                                     *)
LEMMA lexStep ==
    ASSUME IInv, NEW piece \in Pieces, lex(piece)
    PROVE  IInv'
<1>1. CASE Rejects
  <2>1. fate' = "refused" /\ depth' = before
        /\ UNCHANGED <<tokens, number, last, stack, stored, empties, open, before>>
    BY <1>1 DEF Rejects, lexer
  <2>2. TypeOK'
    BY <2>1, Zenon DEF IInv, TypeOK
  <2> QED
    BY <2>1, <2>2 DEF IInv, DepthSpent, Running, Nested
<1>2. ASSUME NEW sequence \in {<<piece>>, <<"number", "number">>, << >>}, Lexes(piece, sequence),
             sequence = <<piece>> => piece \in Tokens
      PROVE  IInv'
  <2>1. /\ tokens' = sequence /\ number' = (piece \in {"number", "exponent"})
        /\ last' = IF sequence = << >> THEN last ELSE Top(sequence)
        /\ UNCHANGED <<stack, depth, fate, stored, empties, open, before>>
    BY <1>2 DEF Lexes, parser
  <2>2. sequence \in Seq(Tokens)
    <3>1. "number" \in Tokens
      BY DEF Tokens, Scalars
    <3>2. CASE sequence = <<piece>> /\ piece \in Tokens
      BY <3>2
    <3>3. CASE sequence = <<"number", "number">>
      BY <3>1, <3>3
    <3>4. CASE sequence = << >>
      BY <3>4
    <3> QED
      BY <1>2, <3>2, <3>3, <3>4
  <2>3. sequence # << >> => Top(sequence) \in Tokens
    BY <2>2 DEF Top
  <2>4. last' \in Tokens \cup {None}
    BY <2>1, <2>3 DEF IInv, TypeOK
  <2>5. number' \in BOOLEAN
    BY <2>1
  <2>6. TypeOK'
    BY <2>1, <2>2, <2>4, <2>5, Zenon DEF IInv, TypeOK
  <2>7. Arrays(stack') = Arrays(stack)
    BY <2>1
  <2> QED
    BY <2>1, <2>6, <2>7 DEF IInv, DepthSpent, Running, Nested
<1>3. Kept \subseteq Tokens
  BY DEF Kept, Tokens
<1> QED
  BY <1>1, <1>2, <1>3 DEF lex

LEMMA EndStep ==
    ASSUME IInv, End
    PROVE  IInv'
<1>1. /\ UNCHANGED <<tokens, number, last, stack, stored, empties, open, before>>
      /\ fate \in {"parsing", "returned"}
      /\ fate' \in {"refused", "accepted", "behind"}
      /\ depth' \in {before, depth}
  BY DEF End, lexer
<1>2. depth' \in Nat
  BY <1>1, Types DEF IInv, ParserOK
<1>3. TypeOK'
  BY <1>1, <1>2, Zenon DEF IInv, TypeOK
<1> QED
  BY <1>1, <1>3 DEF IInv, DepthSpent, Running, Nested

(* A parser that has nothing open has spent what earlier texts have left.  *)
LEMMA Fresh ==
    ASSUME stack = << >>, open = << >>, depth \in Nat, before = depth, empties = 0,
           fate = "parsing"
    PROVE  DepthSpent /\ Nested
BY ArraysEmpty DEF DepthSpent, Nested, Running

LEMMA AgainStep ==
    ASSUME IInv, Again
    PROVE  IInv'
<1>1. /\ before' = depth /\ depth' = depth /\ depth \in Nat
      /\ tokens' = << >> /\ number' = FALSE /\ last' = None
      /\ stack' = << >> /\ fate' = "parsing" /\ stored' = Nowhere /\ empties' = 0 /\ open' = << >>
  BY Types DEF IInv, ParserOK, Again
<1>2. << >> \in Seq(Tokens) /\ << >> \in Seq(Frames) /\ << >> \in Seq({"array", "object", "crossed"})
  OBVIOUS
<1>3. Nowhere \in Places /\ 0 \in Nat
  BY DEF Nowhere, Places
<1>4. TypeOK'
  BY <1>1, <1>2, <1>3, Zenon DEF TypeOK
<1>5. (DepthSpent /\ Nested)'
  BY <1>1, ArraysEmpty DEF DepthSpent, Nested, Running
<1> QED
  BY <1>4, <1>5 DEF IInv

LEMMA InitHolds == Init => IInv
<1> SUFFICES ASSUME Init PROVE IInv
  OBVIOUS
<1>1. << >> \in Seq(Tokens) /\ << >> \in Seq(Frames) /\ << >> \in Seq({"array", "object", "crossed"})
  OBVIOUS
<1>2. Nowhere \in Places /\ 0 \in Nat
  BY DEF Nowhere, Places
<1>3. TypeOK
  BY <1>1, <1>2, Zenon DEF Init, TypeOK
<1> QED
  BY <1>3, Fresh DEF Init, IInv

LEMMA NextHolds == IInv /\ [Next]_vars => IInv'
<1> SUFFICES ASSUME IInv, [Next]_vars PROVE IInv'
  OBVIOUS
<1>1. ASSUME NEW piece \in Pieces, lex(piece) PROVE IInv'
  BY <1>1, lexStep
<1>2. CASE parse
  BY <1>2, ParseStep
<1>3. CASE End
  BY <1>3, EndStep
<1>4. CASE Again
  BY <1>4, AgainStep
<1>5. CASE UNCHANGED vars
  <2>1. TypeOK'
    BY <1>5, Zenon DEF vars, lexer, parser, IInv, TypeOK
  <2> QED
    BY <1>5, <2>1 DEF vars, lexer, parser, IInv, DepthSpent, Nested, Running
<1> QED
  BY <1>1, <1>2, <1>3, <1>4, <1>5 DEF Next

LEMMA Inductive == Spec => []IInv
BY InitHolds, NextHolds, PTL DEF Spec

(* The types are kept: no depth is below zero and every value of an object *)
(* has a string as its key (parseObject, parseKeyValuePair).               *)
THEOREM TypeCorrect == Spec => []TypeOK
<1>1. IInv => TypeOK
  BY DEF IInv
<1> QED
  BY <1>1, Inductive, PTL

(* A parser's depth is what its nested and its empty arrays and the texts  *)
(* before have taken, so nothing else makes a text too deep (parseArray).  *)
THEOREM DepthIsSpent == Spec => []DepthSpent
<1>1. IInv => DepthSpent
  BY DEF IInv
<1> QED
  BY <1>1, Inductive, PTL

(* The calls under way are the open brackets, whatever the text, so every  *)
(* accepted text is nested well (parseValue, parseArray, parseObject).     *)
THEOREM NestedWell == Spec => []Nested
<1>1. IInv => Nested
  BY DEF IInv
<1> QED
  BY <1>1, Inductive, PTL

-----------------------------------------------------------------------------
(* JSON's grammar and the calls of the parser, side by side                *)

(* The key under which a call puts a value that comes now.                 *)
Owner(f) == IF f.kind = "array" THEN None ELSE IF f.at = "value" THEN f.own ELSE f.first

(* A value is under way, and it belongs where the call will put it.        *)
Waits(g, f) == g.kind = f.kind /\ g.at = "more" /\ g.key = Owner(f)

Outer(g, s, n) == \A i \in 1..n : Waits(g[i], s[i])

(* The call can go on with a value.                                        *)
TakesValue(f) == f.kind = "array" \/ f.at \in {"loop", "value"}

(* What JSON expects is how far the innermost call is.                     *)
Matches(g, f) ==
    /\ g.kind = f.kind /\ (f.kind = "array" => g.key = None)
    /\ \/ g.at = "first" /\ f.at = "first"
       \/ g.at = "more" /\ f.at = "loop"
       \/ g.at = "value" /\ f.kind = "array" /\ f.at = "comma"
       \/ g.at = "value" /\ f.kind = "object" /\ f.at \in {"loop", "value"} /\ g.key = Owner(f)
       \/ g.at = "key" /\ f.kind = "object" /\ f.at = "key"
       \/ g.at = "colon" /\ f.kind = "object" /\ f.at = "colon" /\ g.key = f.first
       \/ g.at = "colon" /\ f.kind = "object" /\ f.at = "separator" /\ g.key = f.own

Aligned(g, s) ==
    /\ s # << >> /\ Len(g) = Len(s)
    /\ Matches(Top(g), Top(s)) /\ Outer(g, s, Len(s) - 1)

Stored == ~split => stored = belongs

(* All tokens are parsed.                                                  *)
Parsed ==
    \/ fate = "too deep"
    \/ /\ verdict = "begin" /\ fate = "parsing"
       /\ grammar = << >> /\ stack = << >> /\ ~number /\ Stored
    \/ /\ verdict = "prefix" /\ fate = "parsing" /\ Aligned(grammar, stack) /\ Stored
       /\ number => Top(grammar).at = "more"
    \/ /\ verdict = "complete" /\ fate \in {"returned", "accepted"}
       /\ grammar = << >> /\ last \in {"]", "}"} /\ ~number /\ Stored

(* The next token is what JSON has just allowed, and the calls have not    *)
(* seen it yet.                                                            *)
OpensNext(kind) ==
    /\ verdict = "prefix" /\ ~number /\ Stored
    /\ Len(grammar) = Len(stack) + 1 /\ Top(grammar) = Expected(kind)
    /\ Outer(grammar, stack, Len(stack)) /\ (stack # << >> => TakesValue(Top(stack)))

ValueNext ==
    /\ verdict = "prefix"
    /\ stack # << >> /\ Len(grammar) = Len(stack) /\ Outer(grammar, stack, Len(stack))
    /\ TakesValue(Top(stack))
    /\ ~split => belongs = Put(Top(stack))

(* The exponent of a number is a number of its own.                        *)
RestNext ==
    /\ verdict = "prefix" /\ split /\ Aligned(grammar, stack) /\ Top(grammar).at = "more"

InObject ==
    /\ verdict = "prefix" /\ ~number /\ Stored
    /\ stack # << >> /\ Len(grammar) = Len(stack) /\ Outer(grammar, stack, Len(stack) - 1)
    /\ Top(stack).kind = "object" /\ Top(grammar).kind = "object"

KeyNext(t) ==
    /\ InObject
    /\ Top(stack).at \in {"first", "key"}
    /\ Top(grammar).at = "colon" /\ Top(grammar).key = t

ColonNext ==
    /\ InObject
    /\ Top(stack).at \in {"colon", "separator"} /\ Top(grammar).at = "value"
    /\ Top(grammar).key = IF Top(stack).at = "colon" THEN Top(stack).first ELSE Top(stack).own

CommaNext ==
    /\ verdict = "prefix" /\ ~number /\ Stored
    /\ stack # << >> /\ Len(grammar) = Len(stack) /\ Outer(grammar, stack, Len(stack) - 1)
    /\ Top(stack).at = "loop" /\ Top(grammar).kind = Top(stack).kind
    /\ Top(grammar).at = IF Top(stack).kind = "array" THEN "value" ELSE "key"
    /\ Top(stack).kind = "array" => Top(grammar).key = None

CloseNext(t) ==
    /\ stack # << >> /\ Len(grammar) = Len(stack) - 1 /\ Outer(grammar, stack, Len(stack) - 1)
    /\ Top(stack).at \in {"first", "loop"} /\ t = Matching(Top(stack).kind)
    /\ ~number /\ last = t
    /\ verdict = IF Len(stack) = 1 THEN "complete" ELSE "prefix"
    /\ ~split => belongs = IF Len(stack) = 1 THEN stored ELSE Put(Top(Below(stack)))

Pending(t) ==
    \/ t = "[" /\ OpensNext("array")
    \/ t = "{" /\ OpensNext("object")
    \/ t \in Strings \cup {"number", "literal"} /\ ValueNext
    \/ t = "number" /\ RestNext
    \/ t \in Strings /\ KeyNext(t)
    \/ t = ":" /\ ColonNext
    \/ t = "," /\ CommaNext
    \/ CloseNext(t)

InStep ==
    \/ tokens = << >> /\ Parsed
    \/ \E t \in Tokens : tokens = <<t>> /\ fate = "parsing" /\ Pending(t)
    \/ tokens = <<"number", "number">> /\ fate = "parsing" /\ split /\ ValueNext

GrammarInv ==
    /\ grammar \in Seq(Expectations)
    /\ verdict \in {"begin", "prefix", "complete", "invalid"} /\ split \in BOOLEAN
    /\ verdict = "invalid" /\ Running => grammar = << >>
    /\ verdict # "invalid" => InStep

LEMMA LastElement ==
    ASSUME NEW S, NEW q \in Seq(S), q # << >>
    PROVE  /\ Top(q) \in S /\ Len(q) \in Nat /\ Len(q) >= 1
           /\ \A i \in 1..Len(q) - 1 : q[i] \in S
BY DEF Top

LEMMA WithoutLast ==
    ASSUME NEW S, NEW q \in Seq(S), q # << >>
    PROVE  /\ Below(q) \in Seq(S) /\ Len(Below(q)) = Len(q) - 1
           /\ \A i \in 1..Len(q) - 1 : Below(q)[i] = q[i]
<1>1. Len(q) \in Nat \ {0} /\ \A i \in 1..Len(q) : q[i] \in S
  OBVIOUS
<1>2. Len(Below(q)) = Len(q) - 1
  <2>1. Len(q) - 1 \in 0..Len(q)
    BY <1>1
  <2>2. Len(SubSeq(q, 1, Len(q) - 1)) = Len(q) - 1
    BY <2>1, PrefixLength
  <2> QED
    BY <2>2 DEF Below
<1>3. Below(q) \in Seq(S)
  BY DEF Below
<1>4. \A i \in 1..Len(q) - 1 : Below(q)[i] = q[i]
  BY <1>1 DEF Below
<1> QED
  BY <1>2, <1>3, <1>4

LEMMA MovedGrammar ==
    ASSUME NEW g \in Seq(Expectations), g # << >>,
           NEW at \in {"first", "more", "value", "key", "colon"}, NEW r, r = Moved(g, at)
    PROVE  /\ r \in Seq(Expectations) /\ Len(r) = Len(g) /\ r # << >>
           /\ Top(r) \in Expectations
           /\ Top(r).kind = Top(g).kind /\ Top(r).key = Top(g).key /\ Top(r).at = at
           /\ \A i \in 1..Len(g) - 1 : r[i] = g[i]
<1>1. PICK f : f = [g[Len(g)] EXCEPT !.at = at]
  OBVIOUS
<1>6. Len(g) \in 1..Len(g)
  OBVIOUS
<1>2. g[Len(g)] \in Expectations
  BY LastElement DEF Top
<1>3. f \in Expectations /\ f.kind = g[Len(g)].kind /\ f.key = g[Len(g)].key /\ f.at = at
  BY <1>1, <1>2 DEF Expectations
<1>4. r = [g EXCEPT ![Len(g)] = f]
  BY <1>6, <1>1 DEF Moved
<1>5. r \in Seq(Expectations) /\ Len(r) = Len(g) /\ r # << >> /\ Top(r) = f
      /\ \A i \in 1..Len(g) - 1 : r[i] = g[i]
  <2>1. f \in Expectations
    BY <1>3
  <2>2. PICK q : q = [g EXCEPT ![Len(g)] = f]
    OBVIOUS
  <2>3. q \in Seq(Expectations) /\ Len(q) = Len(g)
    BY <2>1, <2>2
  <2>4. q[Len(g)] = f /\ \A i \in 1..Len(g) - 1 : q[i] = g[i]
    BY <1>6, <2>2
  <2>5. q # << >> /\ Top(q) = f
    BY <1>6, <2>3, <2>4 DEF Top
  <2> QED
    BY <1>4, <2>2, <2>3, <2>4, <2>5
<1> QED
  BY <1>3, <1>5 DEF Top

LEMMA MovedStack ==
    ASSUME NEW s \in Seq(Frames), s # << >>,
           NEW at \in {"first", "loop", "comma", "colon", "key", "separator", "value"},
           NEW r, r = Moved(s, at)
    PROVE  /\ r \in Seq(Frames) /\ Len(r) = Len(s) /\ r # << >>
           /\ Top(r) \in Frames
           /\ Top(r).kind = Top(s).kind /\ Top(r).first = Top(s).first
           /\ Top(r).own = Top(s).own /\ Top(r).at = at
           /\ \A i \in 1..Len(s) - 1 : r[i] = s[i]
<1>1. PICK f : f = [s[Len(s)] EXCEPT !.at = at]
  OBVIOUS
<1>6. Len(s) \in 1..Len(s)
  OBVIOUS
<1>2. s[Len(s)] \in Frames
  BY LastElement DEF Top
<1>3. f \in Frames /\ f.kind = s[Len(s)].kind /\ f.first = s[Len(s)].first
      /\ f.own = s[Len(s)].own /\ f.at = at
  BY <1>1, <1>2 DEF Frames
<1>4. r = [s EXCEPT ![Len(s)] = f]
  BY <1>6, <1>1 DEF Moved
<1>5. r \in Seq(Frames) /\ Len(r) = Len(s) /\ r # << >> /\ Top(r) = f
      /\ \A i \in 1..Len(s) - 1 : r[i] = s[i]
  <2>1. f \in Frames
    BY <1>3
  <2>2. PICK q : q = [s EXCEPT ![Len(s)] = f]
    OBVIOUS
  <2>3. q \in Seq(Frames) /\ Len(q) = Len(s)
    BY <2>1, <2>2
  <2>4. q[Len(s)] = f /\ \A i \in 1..Len(s) - 1 : q[i] = s[i]
    BY <1>6, <2>2
  <2>5. q # << >> /\ Top(q) = f
    BY <1>6, <2>3, <2>4 DEF Top
  <2> QED
    BY <1>4, <2>2, <2>3, <2>4, <2>5
<1> QED
  BY <1>3, <1>5 DEF Top

LEMMA PutOwner ==
    ASSUME NEW f \in Frames
    PROVE  Put(f) = PutInto(f.kind, Owner(f), stored)
BY DEF Put, Owner, Frames

(* The frames that JSON has for a text are none of None's.                 *)
LEMMA GrammarFrames ==
    ASSUME grammar \in Seq(Expectations)
    PROVE  /\ grammar # << >> => Top(grammar) \in Expectations /\ Top(grammar) # None
           /\ More \in Seq(Expectations) /\ Len(More) = Len(grammar)
           /\ grammar # << >> => Below(grammar) \in Seq(Expectations)
           /\ Len(grammar) > 1 => Top(Below(grammar)) \in Expectations
<1>1. grammar # << >> => Top(grammar) \in Expectations /\ Top(grammar) # None
  BY LastElement, NoneAssumption
<1>2. More \in Seq(Expectations) /\ Len(More) = Len(grammar)
  BY MovedGrammar DEF More
<1>3. grammar # << >> => Below(grammar) \in Seq(Expectations) /\ Len(Below(grammar)) = Len(grammar) - 1
  BY WithoutLast
<1>4. Len(grammar) > 1 => Top(Below(grammar)) \in Expectations
  <2>1. Len(grammar) > 1 => Below(grammar) # << >>
    BY <1>3
  <2> QED
    BY <1>3, <2>1, LastElement
<1> QED
  BY <1>1, <1>2, <1>3, <1>4

Kind(piece) == IF piece = "[" THEN "array" ELSE "object"

Values == Strings \cup {"number", "exponent", "literal"}

(* What JSON allows, and where it puts a value.                            *)
Allowed(piece) ==
    \/ piece = "space" /\ UNCHANGED reference
    \/ /\ piece \in {"[", "{"} /\ (AtValue \/ verdict = "begin")
       /\ grammar' = Append(More, Expected(Kind(piece))) /\ verdict' = "prefix"
       /\ UNCHANGED <<belongs, split>>
    \/ /\ piece \in Values /\ AtValue
       /\ grammar' = Moved(grammar, "more") /\ verdict' = "prefix"
       /\ belongs' = PutInto(Top(grammar).kind, Top(grammar).key, belongs)
       /\ split' = (split \/ piece = "exponent")
    \/ /\ piece \in Strings /\ AtKey
       /\ grammar' = [grammar EXCEPT ![Len(grammar)] = [@ EXCEPT !.at = "colon", !.key = piece]]
       /\ verdict' = "prefix" /\ UNCHANGED <<belongs, split>>
    \/ /\ piece = ":" /\ grammar # << >> /\ Top(grammar).at = "colon"
       /\ grammar' = Moved(grammar, "value") /\ verdict' = "prefix" /\ UNCHANGED <<belongs, split>>
    \/ /\ piece = "," /\ grammar # << >> /\ Top(grammar).at = "more"
       /\ grammar' = Moved(grammar, IF Top(grammar).kind = "array" THEN "value" ELSE "key")
       /\ verdict' = "prefix" /\ UNCHANGED <<belongs, split>>
    \/ /\ Closes(piece) /\ grammar' = Below(grammar)
       /\ verdict' = IF Len(grammar) = 1 THEN "complete" ELSE "prefix"
       /\ belongs' = IF Len(grammar) = 1 THEN belongs
                     ELSE PutInto(Top(Below(grammar)).kind, Top(Below(grammar)).key, belongs)
       /\ UNCHANGED split

LEMMA JSONAllows ==
    ASSUME NEW piece \in Pieces, grammar \in Seq(Expectations), JSON(piece), split \in BOOLEAN,
           verdict' # "invalid"
    PROVE  Allowed(piece) /\ Behind(piece) # None /\ grammar' = Behind(piece)
<1>1. Behind(piece) # None /\ grammar' = Behind(piece)
  BY DEF JSON
<1>2. Closes(piece) => piece \in {"]", "}"} /\ grammar # << >>
  BY DEF Closes, Matching
<1>3. piece \in Values => piece \notin {"space", "[", "]", "{", "}", ":", ",", "junk", "broken"}
  BY StringsAssumption DEF Values
<1>4. AtValue \/ AtKey => grammar # << >>
  BY DEF AtValue, AtKey
<1>5. ~(AtValue /\ AtKey)
  BY DEF AtValue, AtKey
<1>6. /\ verdict' = IF Closes(piece) /\ Len(grammar) = 1 THEN "complete"
                    ELSE IF piece # "space" THEN "prefix" ELSE verdict
      /\ belongs' = IF Completes(piece) = None THEN belongs
                    ELSE PutInto(Completes(piece).kind, Completes(piece).key, belongs)
      /\ split' = (split \/ piece = "exponent")
  BY <1>1 DEF JSON
<1>7. CASE piece = "space"
  <2>1. Behind(piece) = grammar
    BY <1>2, <1>3, <1>7 DEF Behind, Values
  <2>2. Completes(piece) = None /\ ~Closes(piece)
    BY <1>2, <1>3, <1>7 DEF Completes, Values
  <2>3. split' = split
    BY <1>6, <1>7
  <2> QED
    BY <1>1, <1>6, <1>7, <2>1, <2>2, <2>3 DEF Allowed, reference
<1>8. CASE piece \in {"[", "{"}
  <2>1. AtValue \/ verdict = "begin"
    BY <1>1, <1>2, <1>3, <1>8 DEF Behind, Values
  <2>2. Behind(piece) = Append(More, Expected(Kind(piece)))
    BY <1>2, <1>3, <1>8, <2>1 DEF Behind, Kind, Values
  <2>3. Completes(piece) = None /\ ~Closes(piece)
    BY <1>2, <1>3, <1>8 DEF Completes, Values
  <2>4. split' = split
    BY <1>6, <1>8
  <2> QED
    BY <1>1, <1>6, <1>8, <2>1, <2>2, <2>3, <2>4 DEF Allowed
<1>9. CASE piece \in Values /\ AtValue
  <2>1. Behind(piece) = More /\ More = Moved(grammar, "more")
    BY <1>2, <1>3, <1>4, <1>5, <1>9 DEF Behind, Values, More
  <2>2. Completes(piece) = Top(grammar) /\ Completes(piece) # None /\ ~Closes(piece)
    BY <1>2, <1>3, <1>4, <1>9, GrammarFrames DEF Completes, Values
  <2> QED
    BY <1>1, <1>3, <1>6, <1>9, <2>1, <2>2 DEF Allowed
<1>10. CASE piece \in Values /\ ~AtValue
  <2>1. piece \in Strings /\ AtKey
    BY <1>1, <1>2, <1>3, <1>10 DEF Behind, Values
  <2>2. Behind(piece) =
           [grammar EXCEPT ![Len(grammar)] = [@ EXCEPT !.at = "colon", !.key = piece]]
    BY <1>2, <1>3, <1>5, <1>10, <2>1 DEF Behind, Values
  <2>3. Completes(piece) = None /\ ~Closes(piece)
    BY <1>2, <1>3, <1>10 DEF Completes, Values
  <2>4. split' = split
    BY <1>6, <2>1, StringsAssumption
  <2> QED
    BY <1>1, <1>3, <1>6, <1>10, <2>1, <2>2, <2>3, <2>4 DEF Allowed
<1>11. CASE piece = ":"
  <2>1. grammar # << >> /\ Top(grammar).at = "colon"
    BY <1>1, <1>2, <1>3, <1>11 DEF Behind, Values
  <2>2. Behind(piece) = Moved(grammar, "value")
    BY <1>2, <1>3, <1>11, <2>1 DEF Behind, Values
  <2>3. Completes(piece) = None /\ ~Closes(piece)
    BY <1>2, <1>3, <1>11 DEF Completes, Values
  <2>4. split' = split
    BY <1>6, <1>11
  <2> QED
    BY <1>1, <1>6, <1>11, <2>1, <2>2, <2>3, <2>4 DEF Allowed
<1>12. CASE piece = ","
  <2>1. grammar # << >> /\ Top(grammar).at = "more"
    BY <1>1, <1>2, <1>3, <1>12 DEF Behind, Values
  <2>2. Behind(piece) = Moved(grammar, IF Top(grammar).kind = "array" THEN "value" ELSE "key")
    BY <1>2, <1>3, <1>12, <2>1 DEF Behind, Values
  <2>3. Completes(piece) = None /\ ~Closes(piece)
    BY <1>2, <1>3, <1>12 DEF Completes, Values
  <2>4. split' = split
    BY <1>6, <1>12
  <2> QED
    BY <1>1, <1>6, <1>12, <2>1, <2>2, <2>3, <2>4 DEF Allowed
<1>13. CASE piece \in {"]", "}"}
  <2>1. Closes(piece)
    BY <1>1, <1>3, <1>13 DEF Behind, Values
  <2>2. Behind(piece) = Below(grammar)
    BY <1>3, <1>13, <2>1 DEF Behind, Values
  <2>3. Len(grammar) \in Nat /\ Len(grammar) >= 1
    BY <1>2, <2>1, LastElement
  <2>4. Completes(piece) = IF Len(grammar) = 1 THEN None ELSE Top(Below(grammar))
    <3>1. ~(piece \in Values)
      BY <1>3, <1>13
    <3>2. CASE Len(grammar) = 1
      BY <3>1, <3>2 DEF Completes, Values
    <3>3. CASE Len(grammar) > 1
      <4>1. Len(grammar) # 1
        <5>1. PICK n \in Nat : n = Len(grammar)
          BY <2>3
        <5>2. n > 1 => n # 1
          OBVIOUS
        <5> QED
          BY <3>3, <5>1, <5>2, Zenon
      <4>2. Completes(piece) = Top(Below(grammar))
        BY <2>1, <3>1, <3>3 DEF Completes, Values
      <4> QED
        BY <4>1, <4>2
    <3> QED
      BY <2>3, <3>2, <3>3
  <2>5. Len(grammar) # 1 => Completes(piece) # None
    BY <2>3, <2>4, GrammarFrames, NoneAssumption
  <2>6. split' = split
    BY <1>6, <1>13
  <2> QED
    BY <1>1, <1>6, <1>13, <2>1, <2>2, <2>4, <2>5, <2>6 DEF Allowed
<1>14. piece \notin {"junk", "broken"}
  BY <1>1, <1>2, <1>3 DEF Behind, Values
<1> QED
  BY <1>1, <1>7, <1>8, <1>9, <1>10, <1>11, <1>12, <1>13, <1>14
     DEF Pieces, Tokens, Scalars, Values

(* A number is followed by what its array or object goes on with.          *)
LEMMA BehindNumber ==
    ASSUME Parsed, number, fate \in {"parsing", "returned"},
           grammar \in Seq(Expectations), stack \in Seq(Frames)
    PROVE  /\ verdict = "prefix" /\ grammar # << >> /\ Top(grammar).at = "more"
           /\ ~AtValue /\ ~AtKey
<1>1. verdict = "prefix" /\ Aligned(grammar, stack) /\ Top(grammar).at = "more"
  BY DEF Parsed
<1>2. grammar # << >>
  BY <1>1 DEF Aligned
<1> QED
  BY <1>1, <1>2 DEF AtValue, AtKey

(* The lexer makes tokens of all that JSON allows.                         *)
LEMMA LexGives ==
    ASSUME TypeOK, GrammarInv, NEW piece \in Pieces, lex(piece), verdict' # "invalid"
    PROVE  /\ Parsed /\ tokens = << >> /\ fate \in {"parsing", "returned"}
           /\ Allowed(piece) /\ UNCHANGED <<stack, depth, fate, stored, before>>
           /\ number => piece \in {"space", ","} \/ Closes(piece)
           /\ number' = (piece \in {"number", "exponent"})
           /\ \/ piece = "space" /\ tokens' = << >> /\ last' = last
              \/ piece = "exponent" /\ tokens' = <<"number", "number">>
              \/ /\ piece \notin {"space", "exponent"} /\ piece \in Tokens
                 /\ tokens' = <<piece>> /\ last' = piece
<1>1. /\ tokens = << >> /\ fate \in {"parsing", "returned"} /\ JSON(piece)
      /\ number => piece \notin {"number", "exponent"}
  BY DEF lex
<1>2. verdict # "invalid"
  <2>1. SUFFICES ASSUME verdict = "invalid" PROVE FALSE
    OBVIOUS
  <2>2. grammar = << >>
    BY <1>1, <2>1 DEF GrammarInv, Running
  <2>3. Allowed(piece)
    BY <1>1, JSONAllows DEF GrammarInv
  <2> QED
    BY <2>1, <2>2, <2>3 DEF Allowed, AtValue, AtKey, Closes, reference
<1>3. Parsed
  <2>1. InStep
    BY <1>2 DEF GrammarInv
  <2>2. \A t \in Tokens : tokens # <<t>>
    BY <1>1
  <2>3. tokens # <<"number", "number">>
    BY <1>1
  <2> QED
    BY <2>1, <2>2, <2>3 DEF InStep
<1>4. Allowed(piece) /\ Behind(piece) # None
  BY <1>1, JSONAllows DEF GrammarInv
<1>5. number => /\ verdict = "prefix" /\ grammar # << >> /\ Top(grammar).at = "more"
                /\ ~AtValue /\ ~AtKey
  BY <1>1, <1>3, BehindNumber DEF GrammarInv, TypeOK
<1>6. number => piece \in {"space", ","} \/ Closes(piece)
  BY <1>4, <1>5 DEF Allowed
<1>7. Closes(piece) => piece \in {"]", "}"}
  BY DEF Closes, Matching
<1>8. /\ "space" \notin Tokens /\ "exponent" \notin Tokens /\ "junk" \notin Tokens
      /\ piece \in Tokens => piece \notin {"space", "exponent"}
  BY StringsAssumption DEF Tokens, Scalars
<1>9. piece # "junk"
  BY <1>4, <1>7, StringsAssumption DEF Allowed, Values
<1>10. \/ ~number /\ piece \in Tokens /\ Lexes(piece, <<piece>>)
       \/ ~number /\ piece = "exponent" /\ Lexes(piece, <<"number", "number">>)
       \/ ~number /\ piece = "space" /\ Lexes(piece, << >>)
       \/ number /\ piece \in Kept /\ Lexes(piece, <<piece>>)
       \/ number /\ piece \in {"space", "[", "{", "}", ",", ":", "junk"} \ Kept /\ Lexes(piece, << >>)
  BY <1>6, <1>7, <1>9, StringsAssumption DEF lex
<1>11. \/ piece \in Tokens /\ Lexes(piece, <<piece>>)
       \/ piece = "exponent" /\ Lexes(piece, <<"number", "number">>)
       \/ piece = "space" /\ Lexes(piece, << >>)
  <2>1. Kept \subseteq Tokens /\ {",", "]", "}"} = Kept
    BY DEF Kept, Tokens
  <2> QED
    BY <1>6, <1>7, <1>10, <2>1
<1>12. /\ number' = (piece \in {"number", "exponent"})
       /\ UNCHANGED <<stack, depth, fate, stored, before>>
  BY <1>11 DEF Lexes, parser
<1>13. Top(<<piece>>) = piece
  BY DEF Top
<1>14. \/ piece = "space" /\ tokens' = << >> /\ last' = last
       \/ piece = "exponent" /\ tokens' = <<"number", "number">>
       \/ /\ piece \notin {"space", "exponent"} /\ piece \in Tokens
          /\ tokens' = <<piece>> /\ last' = piece
  BY <1>8, <1>11, <1>13 DEF Lexes
<1> QED
  BY <1>1, <1>3, <1>4, <1>6, <1>12, <1>14

Keyed(g, k) == [g EXCEPT ![Len(g)] = [@ EXCEPT !.at = "colon", !.key = k]]

LEMMA KeyedGrammar ==
    ASSUME NEW g \in Seq(Expectations), g # << >>, NEW k \in Strings,
           NEW r, r = Keyed(g, k)
    PROVE  /\ r \in Seq(Expectations) /\ Len(r) = Len(g) /\ r # << >>
           /\ Top(r).kind = Top(g).kind /\ Top(r).key = k /\ Top(r).at = "colon"
           /\ \A i \in 1..Len(g) - 1 : r[i] = g[i]
<1>1. Len(g) \in 1..Len(g)
  OBVIOUS
<1>2. PICK f : f = [g[Len(g)] EXCEPT !.at = "colon", !.key = k]
  OBVIOUS
<1>3. g[Len(g)] \in Expectations
  BY LastElement DEF Top
<1>4. f \in Expectations /\ f.kind = g[Len(g)].kind /\ f.key = k /\ f.at = "colon"
  BY <1>2, <1>3 DEF Expectations
<1>5. r = [g EXCEPT ![Len(g)] = f]
  BY <1>1, <1>2 DEF Keyed
<1>6. PICK q : q = [g EXCEPT ![Len(g)] = f]
  OBVIOUS
<1>7. q \in Seq(Expectations) /\ Len(q) = Len(g)
  BY <1>4, <1>6
<1>8. q[Len(g)] = f /\ \A i \in 1..Len(g) - 1 : q[i] = g[i]
  BY <1>1, <1>6
<1>9. q # << >> /\ Top(q) = f
  BY <1>1, <1>7, <1>8 DEF Top
<1> QED
  BY <1>4, <1>5, <1>6, <1>7, <1>8, <1>9 DEF Top

(* Where JSON has a value, the call knows its place.                       *)
LEMMA MoreWaits ==
    ASSUME NEW g \in Seq(Expectations), NEW s \in Seq(Frames), Aligned(g, s),
           \/ Top(g).at = "value"
           \/ Top(g).at = "first" /\ Top(g).kind = "array",
           NEW r, r = Moved(g, "more")
    PROVE  /\ g # << >> /\ Len(g) = Len(s) /\ s # << >> /\ TakesValue(Top(s))
           /\ Top(g).kind = Top(s).kind /\ Top(g).key = Owner(Top(s))
           /\ r \in Seq(Expectations) /\ Len(r) = Len(s) /\ Outer(r, s, Len(s))
<1>1. /\ s # << >> /\ Len(g) = Len(s) /\ Matches(Top(g), Top(s)) /\ Outer(g, s, Len(s) - 1)
  BY DEF Aligned
<1>2. g # << >>
  BY <1>1
<1>3. TakesValue(Top(s)) /\ Top(g).kind = Top(s).kind /\ Top(g).key = Owner(Top(s))
  BY <1>1 DEF Matches, TakesValue, Owner
<1>4. /\ r \in Seq(Expectations) /\ Len(r) = Len(g)
      /\ Top(r).kind = Top(g).kind /\ Top(r).key = Top(g).key /\ Top(r).at = "more"
      /\ \A i \in 1..Len(g) - 1 : r[i] = g[i]
  BY <1>2, MovedGrammar
<1>5. PICK n \in Nat : n = Len(s) /\ n >= 1
  BY <1>1, LastElement
<1>6. ASSUME NEW i \in 1..n PROVE Waits(r[i], s[i])
  <2>1. CASE i = n
    BY <1>1, <1>3, <1>4, <1>5, <2>1 DEF Waits, Top
  <2>2. CASE i # n
    <3>1. i \in 1..n - 1
      BY <1>5, <2>2
    <3> QED
      BY <1>1, <1>4, <1>5, <3>1 DEF Outer
  <2> QED
    BY <2>1, <2>2
<1>7. Outer(r, s, Len(s))
  BY <1>5, <1>6 DEF Outer
<1> QED
  BY <1>1, <1>2, <1>3, <1>4, <1>7

(* What is left below the innermost bracket.                               *)
LEMMA BelowOuter ==
    ASSUME NEW g \in Seq(Expectations), NEW s \in Seq(Frames), Len(g) = Len(s), s # << >>,
           Outer(g, s, Len(s) - 1), Len(s) # 1
    PROVE  /\ Top(Below(g)).kind = Top(Below(s)).kind
           /\ Top(Below(g)).key = Owner(Top(Below(s)))
           /\ Top(Below(s)) \in Frames
<1>1. PICK n \in Nat : n = Len(s) /\ n >= 2
  <2>1. PICK n \in Nat : n = Len(s) /\ n >= 1
    BY LastElement
  <2>2. n # 1
    BY <2>1
  <2> QED
    BY <2>1, <2>2
<1>2. g # << >>
  BY <1>1
<1>3. /\ Len(Below(g)) = n - 1 /\ Len(Below(s)) = n - 1 /\ n - 1 \in 1..n - 1
      /\ Below(g)[n - 1] = g[n - 1] /\ Below(s)[n - 1] = s[n - 1]
  BY <1>1, <1>2, WithoutLast
<1>4. Top(Below(g)) = g[n - 1] /\ Top(Below(s)) = s[n - 1]
  BY <1>3 DEF Top
<1>5. s[n - 1] \in Frames
  BY <1>1, <1>3, LastElement
<1>6. Waits(g[n - 1], s[n - 1])
  BY <1>1, <1>3 DEF Outer
<1> QED
  BY <1>4, <1>5, <1>6 DEF Waits

(* What the lexer makes of an allowed piece is pending.                    *)
LEMMA LexInStep ==
    ASSUME TypeOK, GrammarInv, NEW piece \in Pieces, lex(piece), verdict' # "invalid"
    PROVE  /\ grammar' \in Seq(Expectations) /\ verdict' \in {"begin", "prefix", "complete"}
           /\ split' \in BOOLEAN /\ InStep'
<1>1. /\ Parsed /\ tokens = << >> /\ fate \in {"parsing", "returned"}
      /\ Allowed(piece) /\ UNCHANGED <<stack, depth, fate, stored, before>>
      /\ number => piece \in {"space", ","} \/ Closes(piece)
      /\ number' = (piece \in {"number", "exponent"})
      /\ \/ piece = "space" /\ tokens' = << >> /\ last' = last
         \/ piece = "exponent" /\ tokens' = <<"number", "number">>
         \/ /\ piece \notin {"space", "exponent"} /\ piece \in Tokens
            /\ tokens' = <<piece>> /\ last' = piece
  BY LexGives
<1>2. /\ grammar \in Seq(Expectations) /\ stack \in Seq(Frames) /\ split \in BOOLEAN
      /\ verdict \in {"begin", "prefix", "complete", "invalid"}
  BY DEF GrammarInv, TypeOK
<1>3. grammar # << >> => /\ verdict = "prefix" /\ fate = "parsing"
                         /\ Aligned(grammar, stack) /\ Stored
  BY <1>1 DEF Parsed
<1>4. AtValue \/ AtKey => grammar # << >>
  BY DEF AtValue, AtKey
<1>5. Closes(piece) => piece \in {"]", "}"} /\ grammar # << >>
  BY DEF Closes, Matching
<1>6. grammar # << >> => /\ stack # << >> /\ Len(grammar) = Len(stack)
                         /\ Matches(Top(grammar), Top(stack))
                         /\ Outer(grammar, stack, Len(stack) - 1)
                         /\ Len(stack) \in Nat /\ Len(stack) >= 1
                         /\ Top(stack) \in Frames
  BY <1>2, <1>3, LastElement DEF Aligned
<1>7. SUFFICES ASSUME piece # "space"
               PROVE  /\ grammar' \in Seq(Expectations)
                      /\ verdict' \in {"begin", "prefix", "complete"}
                      /\ split' \in BOOLEAN /\ InStep'
  <2>1. CASE piece = "space"
    <3>1. UNCHANGED reference /\ tokens' = << >> /\ last' = last /\ ~number'
      <4>1. UNCHANGED reference
        BY <1>1, <1>5, <2>1, StringsAssumption DEF Allowed, Values
      <4>2. tokens' = << >> /\ last' = last
        BY <1>1, <2>1
      <4>3. ~number'
        BY <1>1, <2>1
      <4> QED
        BY <4>1, <4>2, <4>3
    <3>2. Parsed'
      BY <1>1, <3>1 DEF Parsed, reference, Stored
    <3> QED
      BY <1>2, <3>1, <3>2 DEF InStep, reference
  <2> QED
    BY <2>1
<1>8. \A i \in 1..Len(stack) : stack'[i] = stack[i]
  BY <1>1
<1>9. CASE piece \in {"[", "{"}
  <2>1. /\ AtValue \/ verdict = "begin"
        /\ grammar' = Append(More, Expected(Kind(piece))) /\ verdict' = "prefix"
        /\ UNCHANGED <<belongs, split>>
    BY <1>1, <1>5, <1>9, StringsAssumption DEF Allowed, Values
  <2>2. /\ tokens' = <<piece>> /\ piece \in Tokens /\ ~number'
    BY <1>1, <1>9
  <2>3. Expected(Kind(piece)) \in Expectations
    BY DEF Expected, Expectations, Kind
  <2>4. /\ More \in Seq(Expectations) /\ Len(More) = Len(stack) /\ Outer(More, stack, Len(stack))
        /\ fate = "parsing" /\ Stored /\ (stack # << >> => TakesValue(Top(stack)))
    <3>1. CASE AtValue
      <4>1. Top(grammar).at = "value" \/ (Top(grammar).at = "first" /\ Top(grammar).kind = "array")
        BY <3>1 DEF AtValue
      <4>2. More = Moved(grammar, "more")
        BY <1>4, <3>1 DEF More
      <4> QED
        BY <1>2, <1>3, <1>4, <3>1, <4>1, <4>2, MoreWaits
    <3>2. CASE verdict = "begin"
      <4>1. grammar = << >> /\ stack = << >> /\ Stored /\ fate = "parsing"
        BY <1>1, <3>2 DEF Parsed
      <4>2. More = << >>
        BY <4>1 DEF More
      <4> QED
        BY <4>1, <4>2 DEF Outer
    <3> QED
      BY <2>1, <3>1, <3>2
  <2>5. PICK r \in Seq(Expectations) : r = More
    BY <2>4
  <2>6. PICK n \in Nat : n = Len(stack)
    BY <1>2
  <2>7. /\ grammar' \in Seq(Expectations) /\ Len(grammar') = n + 1
        /\ grammar'[n + 1] = Expected(Kind(piece)) /\ \A i \in 1..n : grammar'[i] = r[i]
    BY <2>1, <2>3, <2>4, <2>5, <2>6
  <2>8. Top(grammar') = Expected(Kind(piece))
    BY <2>5, <2>6, <2>7 DEF Top
  <2>9. Outer(grammar', stack', Len(stack'))
    BY <1>1, <2>4, <2>5, <2>6, <2>7 DEF Outer
  <2>10. OpensNext(Kind(piece))'
    BY <1>1, <2>1, <2>2, <2>4, <2>5, <2>6, <2>7, <2>8, <2>9 DEF OpensNext, Stored
  <2>11. Pending(piece)'
    BY <1>9, <2>10 DEF Pending, Kind
  <2>12. fate' = "parsing"
    BY <1>1, <2>4
  <2> QED
    BY <1>2, <2>1, <2>2, <2>7, <2>11, <2>12 DEF InStep
<1>10. CASE piece \in Values /\ AtValue
  <2>1. /\ grammar' = Moved(grammar, "more") /\ verdict' = "prefix"
        /\ belongs' = PutInto(Top(grammar).kind, Top(grammar).key, belongs)
        /\ split' = (split \/ piece = "exponent")
    <3>1. ~(piece \in Strings /\ AtKey)
      BY <1>10 DEF AtValue, AtKey
    <3> QED
      BY <1>1, <1>5, <1>7, <1>10, <3>1, StringsAssumption DEF Allowed, Values
  <2>2. Top(grammar).at = "value" \/ (Top(grammar).at = "first" /\ Top(grammar).kind = "array")
    BY <1>10 DEF AtValue
  <2>3. /\ Len(grammar) = Len(stack) /\ stack # << >> /\ TakesValue(Top(stack))
        /\ Top(grammar).kind = Top(stack).kind /\ Top(grammar).key = Owner(Top(stack))
        /\ grammar' \in Seq(Expectations) /\ Len(grammar') = Len(stack)
        /\ Outer(grammar', stack, Len(stack))
    BY <1>2, <1>3, <1>4, <1>10, <2>1, <2>2, MoreWaits
  <2>4. ~split' => belongs' = Put(Top(stack))
    BY <1>3, <1>4, <1>6, <1>10, <2>1, <2>3, PutOwner DEF Stored
  <2>5. Put(Top(stack))' = Put(Top(stack))
    BY <1>1 DEF Put
  <2>6. ValueNext'
    BY <1>1, <2>1, <2>3, <2>4, <2>5 DEF ValueNext
  <2>7. fate' = "parsing"
    BY <1>1, <1>3, <1>4, <1>10
  <2>8. split' \in BOOLEAN
    BY <1>2, <2>1
  <2>9. CASE piece = "exponent"
    <3>1. tokens' = <<"number", "number">> /\ split'
      BY <1>1, <2>1, <2>9, StringsAssumption DEF Tokens, Scalars
    <3> QED
      BY <2>1, <2>3, <2>6, <2>7, <2>8, <3>1 DEF InStep
  <2>10. CASE piece # "exponent"
    <3>1. tokens' = <<piece>> /\ piece \in Tokens /\ piece \in Strings \cup {"number", "literal"}
      BY <1>1, <1>7, <1>10, <2>10 DEF Values
    <3>2. Pending(piece)'
      BY <2>6, <3>1 DEF Pending
    <3> QED
      BY <2>1, <2>3, <2>7, <2>8, <3>1, <3>2 DEF InStep
  <2> QED
    BY <2>9, <2>10
<1>11. CASE piece \in Strings /\ AtKey
  <2>1. /\ grammar' = [grammar EXCEPT ![Len(grammar)] = [@ EXCEPT !.at = "colon", !.key = piece]]
        /\ verdict' = "prefix" /\ UNCHANGED <<belongs, split>>
    <3>1. ~AtValue
      BY <1>11 DEF AtValue, AtKey
    <3> QED
      BY <1>1, <1>5, <1>7, <1>11, <3>1, StringsAssumption DEF Allowed, Values
  <2>2. Top(grammar).at = "key" \/ (Top(grammar).at = "first" /\ Top(grammar).kind = "object")
    BY <1>11 DEF AtKey
  <2>3. /\ grammar' \in Seq(Expectations) /\ Len(grammar') = Len(grammar)
        /\ Top(grammar').kind = Top(grammar).kind /\ Top(grammar').key = piece
        /\ Top(grammar').at = "colon"
        /\ \A i \in 1..Len(grammar) - 1 : grammar'[i] = grammar[i]
    <3>1. PICK r : r = grammar'
      OBVIOUS
    <3>2. r = Keyed(grammar, piece) /\ grammar # << >> /\ piece \in Strings
      BY <1>4, <1>11, <2>1, <3>1 DEF Keyed
    <3>3. /\ r \in Seq(Expectations) /\ Len(r) = Len(grammar) /\ r # << >>
          /\ Top(r).kind = Top(grammar).kind /\ Top(r).key = piece /\ Top(r).at = "colon"
          /\ \A i \in 1..Len(grammar) - 1 : r[i] = grammar[i]
      BY <1>2, <3>2, KeyedGrammar
    <3> QED
      BY <3>1, <3>3
  <2>4. Top(stack).kind = "object" /\ Top(grammar).kind = "object" /\ Top(stack).at \in {"first", "key"}
    BY <1>4, <1>6, <1>11, <2>2 DEF Matches
  <2>5. Outer(grammar', stack', Len(stack') - 1)
    BY <1>1, <1>4, <1>6, <1>11, <2>3 DEF Outer
  <2>6. piece # "number" /\ piece # "exponent" /\ piece \in Tokens /\ tokens' = <<piece>>
    BY <1>1, <1>7, <1>11, StringsAssumption
  <2>7. ~number'
    BY <1>1, <2>6
  <2>8. InObject'
    BY <1>1, <1>3, <1>4, <1>6, <1>11, <2>1, <2>3, <2>4, <2>5, <2>7 DEF InObject, Stored
  <2>9. Pending(piece)'
    BY <1>1, <1>11, <2>3, <2>4, <2>8 DEF Pending, KeyNext
  <2>10. fate' = "parsing"
    BY <1>1, <1>3, <1>4, <1>11
  <2> QED
    BY <1>2, <2>1, <2>3, <2>6, <2>9, <2>10 DEF InStep
<1>12. CASE piece = ":" /\ grammar # << >> /\ Top(grammar).at = "colon"
  <2>1. /\ grammar' = Moved(grammar, "value") /\ verdict' = "prefix"
        /\ UNCHANGED <<belongs, split>>
    BY <1>1, <1>5, <1>12, StringsAssumption DEF Allowed, Values
  <2>2. /\ grammar' \in Seq(Expectations) /\ Len(grammar') = Len(grammar)
        /\ Top(grammar').kind = Top(grammar).kind /\ Top(grammar').key = Top(grammar).key
        /\ Top(grammar').at = "value"
        /\ \A i \in 1..Len(grammar) - 1 : grammar'[i] = grammar[i]
    BY <1>2, <1>12, <2>1, MovedGrammar
  <2>3. /\ Top(stack).kind = "object" /\ Top(grammar).kind = "object"
        /\ \/ Top(stack).at = "colon" /\ Top(grammar).key = Top(stack).first
           \/ Top(stack).at = "separator" /\ Top(grammar).key = Top(stack).own
    BY <1>6, <1>12 DEF Matches
  <2>4. Outer(grammar', stack', Len(stack') - 1)
    BY <1>1, <1>6, <1>12, <2>2 DEF Outer
  <2>5. ~number' /\ piece \in Tokens /\ tokens' = <<piece>>
    BY <1>1, <1>12
  <2>6. InObject'
    BY <1>1, <1>3, <1>6, <1>12, <2>1, <2>2, <2>3, <2>4, <2>5 DEF InObject, Stored
  <2>7. ColonNext'
    BY <1>1, <2>2, <2>3, <2>6 DEF ColonNext
  <2>8. Pending(piece)' /\ fate' = "parsing"
    BY <1>1, <1>3, <1>12, <2>7 DEF Pending
  <2> QED
    BY <1>2, <2>1, <2>2, <2>5, <2>8 DEF InStep
<1>13. CASE piece = "," /\ grammar # << >> /\ Top(grammar).at = "more"
  <2>1. /\ grammar' = Moved(grammar, IF Top(grammar).kind = "array" THEN "value" ELSE "key")
        /\ verdict' = "prefix" /\ UNCHANGED <<belongs, split>>
    BY <1>1, <1>5, <1>13, StringsAssumption DEF Allowed, Values
  <2>2. PICK w \in {"value", "key"} : w = IF Top(grammar).kind = "array" THEN "value" ELSE "key"
    OBVIOUS
  <2>3. /\ grammar' \in Seq(Expectations) /\ Len(grammar') = Len(grammar)
        /\ Top(grammar').kind = Top(grammar).kind /\ Top(grammar').key = Top(grammar).key
        /\ Top(grammar').at = w
        /\ \A i \in 1..Len(grammar) - 1 : grammar'[i] = grammar[i]
    <3>1. grammar' = Moved(grammar, w) /\ grammar # << >>
      BY <1>13, <2>1, <2>2
    <3> QED
      BY <1>2, <3>1, MovedGrammar
  <2>4. /\ Top(stack).at = "loop" /\ Top(grammar).kind = Top(stack).kind
        /\ Top(stack).kind = "array" => Top(grammar).key = None
    BY <1>6, <1>13 DEF Matches
  <2>5. Outer(grammar', stack', Len(stack') - 1)
    BY <1>1, <1>6, <1>13, <2>3 DEF Outer
  <2>6. ~number' /\ piece \in Tokens /\ tokens' = <<piece>>
    BY <1>1, <1>13
  <2>7. CommaNext'
    BY <1>1, <1>3, <1>6, <1>13, <2>1, <2>2, <2>3, <2>4, <2>5, <2>6 DEF CommaNext, Stored
  <2>8. Pending(piece)' /\ fate' = "parsing"
    BY <1>1, <1>3, <1>13, <2>7 DEF Pending
  <2> QED
    BY <1>2, <2>1, <2>3, <2>6, <2>8 DEF InStep
<1>14. CASE Closes(piece)
  <2>1. /\ grammar' = Below(grammar)
        /\ verdict' = IF Len(grammar) = 1 THEN "complete" ELSE "prefix"
        /\ belongs' = IF Len(grammar) = 1 THEN belongs
                      ELSE PutInto(Top(Below(grammar)).kind, Top(Below(grammar)).key, belongs)
        /\ UNCHANGED split
    BY <1>1, <1>5, <1>14, StringsAssumption DEF Allowed, Values
  <2>2. /\ Top(grammar).at \in {"first", "more"} /\ piece = Matching(Top(grammar).kind)
    BY <1>14 DEF Closes
  <2>3. /\ grammar' \in Seq(Expectations) /\ Len(grammar') = Len(grammar) - 1
        /\ \A i \in 1..Len(grammar) - 1 : grammar'[i] = grammar[i]
    BY <1>2, <1>5, <1>14, <2>1, WithoutLast
  <2>4. Top(stack).at \in {"first", "loop"} /\ piece = Matching(Top(stack).kind)
    BY <1>5, <1>6, <1>14, <2>2 DEF Matches
  <2>5. Outer(grammar', stack', Len(stack') - 1)
    BY <1>1, <1>5, <1>6, <1>14, <2>3 DEF Outer
  <2>6. ~number' /\ piece \in Tokens /\ tokens' = <<piece>> /\ last' = piece
    BY <1>1, <1>5, <1>14
  <2>7. ~split' => belongs' = IF Len(stack) = 1 THEN stored ELSE Put(Top(Below(stack)))
    <3>1. ~split' => stored = belongs
      BY <1>3, <1>5, <1>14, <2>1 DEF Stored
    <3>2. CASE Len(stack) = 1
      BY <1>5, <1>6, <1>14, <2>1, <3>1, <3>2
    <3>3. CASE Len(stack) # 1
      <4>1. /\ Top(Below(grammar)).kind = Top(Below(stack)).kind
            /\ Top(Below(grammar)).key = Owner(Top(Below(stack)))
            /\ Top(Below(stack)) \in Frames
        BY <1>2, <1>5, <1>6, <1>14, <3>3, BelowOuter
      <4> QED
        BY <1>5, <1>6, <1>14, <2>1, <3>1, <3>3, <4>1, PutOwner
    <3> QED
      BY <3>2, <3>3
  <2>8. Put(Top(Below(stack)))' = Put(Top(Below(stack)))
    BY <1>1 DEF Put
  <2>9. CloseNext(piece)'
    BY <1>1, <1>5, <1>6, <1>14, <2>1, <2>3, <2>4, <2>5, <2>6, <2>7, <2>8 DEF CloseNext
  <2>10. Pending(piece)' /\ fate' = "parsing"
    BY <1>1, <1>3, <1>5, <1>14, <2>9 DEF Pending
  <2> QED
    BY <1>2, <2>1, <2>3, <2>6, <2>10 DEF InStep
<1> QED
  BY <1>1, <1>7, <1>9, <1>10, <1>11, <1>12, <1>13, <1>14 DEF Allowed

LEMMA TopKind ==
    ASSUME NEW s \in Seq(Frames), s # << >>
    PROVE  Top(s).kind \in {"array", "object"}
<1>1. Top(s) \in Frames
  BY LastElement
<1> QED
  BY <1>1 DEF Frames

(* Only the innermost call has gone on.                                    *)
LEMMA AlignedStill ==
    ASSUME NEW g, NEW s \in Seq(Frames), s # << >>, Len(g) = Len(s), Outer(g, s, Len(s) - 1),
           NEW q \in Seq(Frames), Len(q) = Len(s), \A i \in 1..Len(s) - 1 : q[i] = s[i],
           Matches(Top(g), Top(q))
    PROVE  Aligned(g, q)
<1>1. q # << >>
  <2>1. Len(s) \in Nat /\ Len(s) >= 1
    BY LastElement
  <2> QED
    BY <2>1
<1>2. Outer(g, q, Len(q) - 1)
  BY DEF Outer
<1> QED
  BY <1>1, <1>2 DEF Aligned

(* A value is put where JSON has it.                                       *)
LEMMA ValueIsPut ==
    ASSUME stack \in Seq(Frames), stack # << >>, TakesValue(Top(stack)), fate = "parsing",
           NEW t \in Strings \cup {"number", "literal"}, parseToken(t)
    PROVE  stack' = Moved(stack, "loop") /\ stored' = Put(Top(stack)) /\ fate' = fate
<1>1. t \in Scalars /\ t \notin {"[", "]", "{", "}", ",", ":"}
  BY StringsAssumption DEF Scalars
<1>2. parseValue(t)
  <2>1. Top(stack).kind = "array" => parseValue(t)
    BY <1>1 DEF parseToken, parseArray
  <2>2. Top(stack).kind = "object" => parseValue(t)
    BY <1>1 DEF parseToken, parseObject, parseKeyValuePair, TakesValue, At
  <2>3. Top(stack).kind \in {"array", "object"}
    BY TopKind
  <2> QED
    BY <2>1, <2>2, <2>3
<1> QED
  BY <1>1, <1>2 DEF parseValue, Return

(* The tokens by name.                                                     *)
Opens(t) == t \in {"[", "{"}

Comma == ","

LEMMA BracketOpens ==
    ASSUME stack \in Seq(Frames), stack # << >> => TakesValue(Top(stack)), fate = "parsing",
           NEW t, Opens(t), parseToken(t)
    PROVE  \/ fate' = "too deep"
           \/ stack' = Append(stack, Frame(Kind(t))) /\ stored' = stored /\ fate' = fate
<1>1. t \in {"[", "{"} /\ t \notin Scalars
  BY StringsAssumption DEF Scalars, Opens
<1>2. (t = "[" /\ OpenArray) \/ (t = "{" /\ OpenObject)
  <2>1. CASE stack = << >>
    BY <1>1, <2>1 DEF parseToken
  <2>2. CASE stack # << >>
    <3>1. Top(stack).kind = "array" => parseValue(t)
      BY <1>1, <2>2 DEF parseToken, parseArray
    <3>2. Top(stack).kind = "object" => parseValue(t)
      BY <1>1, <2>2, StringsAssumption
         DEF parseToken, parseObject, parseKeyValuePair, TakesValue, At, isValidString
    <3>3. Top(stack).kind \in {"array", "object"}
      BY <2>2, TopKind
    <3>4. parseValue(t)
      BY <3>1, <3>2, <3>3
    <3> QED
      BY <1>1, <3>4 DEF parseValue
  <2> QED
    BY <2>1, <2>2
<1>3. CASE t = "[" /\ OpenArray
  BY <1>3 DEF OpenArray, Throw, Kind
<1>4. CASE t = "{" /\ OpenObject
  BY <1>4 DEF OpenObject, Kind
<1> QED
  BY <1>2, <1>3, <1>4

KeyRead(s, k) ==
    IF Top(s).at = "first"
    THEN [s EXCEPT ![Len(s)].at = "colon", ![Len(s)].first = k]
    ELSE [s EXCEPT ![Len(s)].at = "separator", ![Len(s)].own = k]

LEMMA KeyedStack ==
    ASSUME NEW s \in Seq(Frames), s # << >>, NEW k \in Strings, Top(s).at \in {"first", "key"},
           NEW r, r = KeyRead(s, k)
    PROVE  /\ r \in Seq(Frames) /\ Len(r) = Len(s) /\ Top(r).kind = Top(s).kind
           /\ \/ Top(r).at = "colon" /\ Top(r).first = k
              \/ Top(r).at = "separator" /\ Top(r).own = k
           /\ \A i \in 1..Len(s) - 1 : r[i] = s[i]
<1>1. Len(s) \in 1..Len(s) /\ s[Len(s)] \in Frames
  BY LastElement DEF Top
<1>2. PICK f : f = IF Top(s).at = "first"
                   THEN [s[Len(s)] EXCEPT !.at = "colon", !.first = k]
                   ELSE [s[Len(s)] EXCEPT !.at = "separator", !.own = k]
  OBVIOUS
<1>3. /\ f \in Frames /\ f.kind = s[Len(s)].kind
      /\ \/ f.at = "colon" /\ f.first = k
         \/ f.at = "separator" /\ f.own = k
  BY <1>1, <1>2 DEF Frames
<1>4. r = [s EXCEPT ![Len(s)] = f]
  BY <1>1, <1>2 DEF KeyRead
<1>5. PICK q : q = [s EXCEPT ![Len(s)] = f]
  OBVIOUS
<1>6. q \in Seq(Frames) /\ Len(q) = Len(s)
  BY <1>3, <1>5
<1>7. q[Len(s)] = f /\ \A i \in 1..Len(s) - 1 : q[i] = s[i]
  BY <1>1, <1>5
<1>8. Top(q) = f
  BY <1>6, <1>7 DEF Top
<1> QED
  BY <1>3, <1>4, <1>5, <1>6, <1>7, <1>8 DEF Top

LEMMA KeyIsRead ==
    ASSUME stack \in Seq(Frames), stack # << >>, Top(stack).kind = "object",
           Top(stack).at \in {"first", "key"}, fate = "parsing", NEW t \in Strings, parseToken(t)
    PROVE  stack' = KeyRead(stack, t) /\ stored' = stored /\ fate' = fate
<1>1. t \notin {"[", "]", "{", "}", ",", ":"}
  BY StringsAssumption
<1>2. parseObject(t)
  BY DEF parseToken
<1>3. CASE Top(stack).at = "first"
  BY <1>1, <1>2, <1>3 DEF parseObject, parseKeyValuePair, At, isValidString, KeyRead
<1>4. CASE Top(stack).at = "key"
  BY <1>1, <1>2, <1>4 DEF parseObject, parseKeyValuePair, At, isValidString, KeyRead
<1> QED
  BY <1>3, <1>4

LEMMA ColonIsRead ==
    ASSUME stack \in Seq(Frames), stack # << >>, Top(stack).kind = "object",
           Top(stack).at \in {"colon", "separator"}, fate = "parsing", parseToken(":")
    PROVE  /\ stack' = Moved(stack, IF Top(stack).at = "colon" THEN "loop" ELSE "value")
           /\ stored' = stored /\ fate' = fate
<1>1. ":" \notin Strings
  BY StringsAssumption
<1>2. parseObject(":")
  BY DEF parseToken
<1>3. CASE Top(stack).at = "colon"
  BY <1>1, <1>2, <1>3 DEF parseObject, parseKeyValuePair, At, isValidString
<1>4. CASE Top(stack).at = "separator"
  BY <1>1, <1>2, <1>4 DEF parseObject, parseKeyValuePair, At, isValidString
<1> QED
  BY <1>3, <1>4

LEMMA CommaIsRead ==
    ASSUME stack \in Seq(Frames), stack # << >>, Top(stack).at = "loop", fate = "parsing",
           parseToken(Comma)
    PROVE  /\ stack' = Moved(stack, IF Top(stack).kind = "array" THEN "comma" ELSE "key")
           /\ stored' = stored /\ fate' = fate
<1>1. "," \notin Strings
  BY StringsAssumption
<1>2. CASE Top(stack).kind = "array"
  BY <1>1, <1>2 DEF Comma, parseToken, parseArray, At
<1>3. CASE Top(stack).kind = "object"
  BY <1>1, <1>3 DEF Comma, parseToken, parseObject, parseKeyValuePair, At, isValidString
<1>4. Top(stack).kind \in {"array", "object"}
  BY TopKind
<1> QED
  BY <1>2, <1>3, <1>4

LEMMA BracketCloses ==
    ASSUME stack \in Seq(Frames), stack # << >>, Top(stack).at \in {"first", "loop"},
           fate = "parsing", NEW t, t = Matching(Top(stack).kind), parseToken(t)
    PROVE  Return(Below(stack))
<1>1. t \notin Strings /\ Top(stack).kind \in {"array", "object"}
  BY StringsAssumption, TopKind DEF Matching
<1>2. CASE Top(stack).kind = "array"
  BY <1>1, <1>2 DEF parseToken, parseArray, At, Matching
<1>3. CASE Top(stack).kind = "object"
  BY <1>1, <1>3 DEF parseToken, parseObject, parseKeyValuePair, At, isValidString, Matching
<1> QED
  BY <1>1, <1>2, <1>3

LEMMA ValueStep ==
    ASSUME TypeOK, grammar \in Seq(Expectations), fate = "parsing", UNCHANGED <<number, reference>>,
           NEW t \in Strings \cup {"number", "literal"}, parseToken(t), ValueNext
    PROVE  /\ fate' = "parsing" /\ verdict' = "prefix" /\ Aligned(grammar', stack')
           /\ Top(grammar').at = "more" /\ Stored' /\ split' = split
<1>1. /\ stack \in Seq(Frames) /\ stack # << >> /\ Len(grammar) = Len(stack)
      /\ Outer(grammar, stack, Len(stack)) /\ TakesValue(Top(stack)) /\ verdict = "prefix"
      /\ ~split => belongs = Put(Top(stack))
  BY DEF TypeOK, ValueNext
<1>2. stack' = Moved(stack, "loop") /\ stored' = Put(Top(stack)) /\ fate' = fate
  BY <1>1, ValueIsPut
<1>3. /\ stack' \in Seq(Frames) /\ Len(stack') = Len(stack)
      /\ Top(stack').kind = Top(stack).kind /\ Top(stack').at = "loop"
      /\ \A i \in 1..Len(stack) - 1 : stack'[i] = stack[i]
  BY <1>1, <1>2, MovedStack
<1>4. PICK n \in Nat : n = Len(stack) /\ n >= 1
  BY <1>1, LastElement
<1>5. Waits(Top(grammar), Top(stack)) /\ Outer(grammar, stack, Len(stack) - 1)
  BY <1>1, <1>4 DEF Outer, Top
<1>6. Matches(Top(grammar), Top(stack'))
  BY <1>3, <1>5 DEF Waits, Matches, Owner
<1>7. Aligned(grammar, stack')
  BY <1>1, <1>3, <1>5, <1>6, AlignedStill
<1>8. UNCHANGED <<grammar, verdict, belongs, split>>
  BY DEF reference
<1>9. Top(grammar).at = "more"
  BY <1>5 DEF Waits
<1> QED
  BY <1>1, <1>2, <1>7, <1>8, <1>9 DEF Stored

LEMMA RestStep ==
    ASSUME TypeOK, grammar \in Seq(Expectations), fate = "parsing", UNCHANGED <<number, reference>>,
           parseToken("number"), RestNext
    PROVE  /\ fate' = "parsing" /\ verdict' = "prefix" /\ Aligned(grammar', stack')
           /\ Top(grammar').at = "more" /\ Stored'
<1>1. /\ stack \in Seq(Frames) /\ stack # << >> /\ Len(grammar) = Len(stack)
      /\ Outer(grammar, stack, Len(stack) - 1) /\ Matches(Top(grammar), Top(stack))
      /\ verdict = "prefix" /\ split /\ Top(grammar).at = "more"
  BY DEF TypeOK, RestNext, Aligned
<1>2. Top(stack).at = "loop"
  BY <1>1 DEF Matches
<1>3. stack' = Moved(stack, "loop") /\ fate' = fate
  BY <1>1, <1>2, ValueIsPut DEF TakesValue
<1>4. /\ stack' \in Seq(Frames) /\ Len(stack') = Len(stack)
      /\ Top(stack').kind = Top(stack).kind /\ Top(stack').at = "loop"
      /\ \A i \in 1..Len(stack) - 1 : stack'[i] = stack[i]
  BY <1>1, <1>3, MovedStack
<1>5. Matches(Top(grammar), Top(stack'))
  BY <1>1, <1>4 DEF Matches
<1>6. Aligned(grammar, stack')
  BY <1>1, <1>4, <1>5, AlignedStill
<1>7. UNCHANGED <<grammar, verdict, belongs, split>>
  BY DEF reference
<1> QED
  BY <1>1, <1>3, <1>6, <1>7 DEF Stored

LEMMA OpenStep ==
    ASSUME TypeOK, grammar \in Seq(Expectations), fate = "parsing", UNCHANGED reference, ~number',
           NEW t, Opens(t), parseToken(t), OpensNext(Kind(t))
    PROVE  Parsed'
<1>1. /\ stack \in Seq(Frames) /\ Len(grammar) = Len(stack) + 1
      /\ Top(grammar) = Expected(Kind(t)) /\ Outer(grammar, stack, Len(stack))
      /\ stack # << >> => TakesValue(Top(stack))
      /\ verdict = "prefix" /\ Stored
  BY DEF TypeOK, OpensNext
<1>2. \/ fate' = "too deep"
      \/ stack' = Append(stack, Frame(Kind(t))) /\ stored' = stored /\ fate' = fate
  BY <1>1, BracketOpens
<1>3. CASE fate' = "too deep"
  BY <1>3 DEF Parsed
<1>4. CASE stack' = Append(stack, Frame(Kind(t))) /\ stored' = stored /\ fate' = fate
  <2>1. Frame(Kind(t)) \in Frames /\ Kind(t) \in {"array", "object"}
    BY NewFrame DEF Kind
  <2>2. PICK n \in Nat : n = Len(stack)
    <3>1. stack \in Seq(Frames)
      BY <1>1
    <3> QED
      BY <3>1
  <2>3. PICK q : q = stack'
    OBVIOUS
  <2>4. q \in Seq(Frames) /\ Len(q) = n + 1 /\ q[n + 1] = Frame(Kind(t))
        /\ \A i \in 1..n : q[i] = stack[i]
    <3>1. stack \in Seq(Frames)
      BY <1>1
    <3>2. PICK f \in Frames : f = Frame(Kind(t))
      BY <2>1
    <3>3. q = Append(stack, f)
      BY <1>4, <2>3, <3>2
    <3>4. q \in Seq(Frames) /\ Len(q) = n + 1 /\ q[n + 1] = f
          /\ \A i \in 1..n : q[i] = stack[i]
      BY <2>2, <3>1, <3>3
    <3> QED
      BY <3>2, <3>4
  <2>5. q # << >> /\ Top(q) = Frame(Kind(t)) /\ Len(q) - 1 = n
    <3>1. n + 1 # 0 /\ n + 1 - 1 = n
      OBVIOUS
    <3>2. Len(<< >>) = 0
      OBVIOUS
    <3> QED
      BY <2>4, <3>1, <3>2 DEF Top
  <2>6. Matches(Top(grammar), Top(q))
    <3>1. PICK k \in {"array", "object"} : k = Kind(t)
      BY <2>1
    <3>2. /\ Expected(k).kind = k /\ Expected(k).at = "first" /\ Expected(k).key = None
          /\ Frame(k).kind = k /\ Frame(k).at = "first"
      BY DEF Expected, Frame
    <3>3. Top(grammar) = Expected(k) /\ Top(q) = Frame(k)
      BY <1>1, <2>5, <3>1
    <3> QED
      BY <3>2, <3>3 DEF Matches
  <2>7. Outer(grammar, q, n)
    BY <1>1, <2>2, <2>4 DEF Outer
  <2>8. Aligned(grammar, q)
    BY <1>1, <2>2, <2>4, <2>5, <2>6, <2>7 DEF Aligned
  <2>9. UNCHANGED <<grammar, verdict, belongs, split>>
    BY DEF reference
  <2>10. Aligned(grammar', stack')
    BY <2>3, <2>8, <2>9
  <2> QED
    BY <1>1, <1>4, <2>9, <2>10 DEF Parsed, Stored
<1> QED
  BY <1>2, <1>3, <1>4

(* A token that is no value moves the innermost call.                      *)
LEMMA MoveAligned ==
    ASSUME TypeOK, grammar \in Seq(Expectations), fate = "parsing", UNCHANGED reference, ~number',
           verdict = "prefix", Stored,
           stack # << >>, Len(grammar) = Len(stack), Outer(grammar, stack, Len(stack) - 1),
           stack' \in Seq(Frames), Len(stack') = Len(stack),
           \A i \in 1..Len(stack) - 1 : stack'[i] = stack[i],
           Matches(Top(grammar), Top(stack')), stored' = stored, fate' = fate
    PROVE  Parsed'
<1>1. stack \in Seq(Frames)
  BY DEF TypeOK
<1>2. PICK q : q = stack'
  OBVIOUS
<1>3. Aligned(grammar, q)
  BY <1>1, <1>2, AlignedStill
<1>4. UNCHANGED <<grammar, verdict, belongs, split>>
  BY DEF reference
<1>5. Aligned(grammar', stack')
  BY <1>2, <1>3, <1>4
<1> QED
  BY <1>4, <1>5 DEF Parsed, Stored

LEMMA KeyParsed ==
    ASSUME TypeOK, grammar \in Seq(Expectations), fate = "parsing", UNCHANGED reference, ~number',
           NEW k \in Strings, parseToken(k), KeyNext(k)
    PROVE  Parsed'
<1>1. /\ stack \in Seq(Frames) /\ stack # << >> /\ Len(grammar) = Len(stack)
      /\ Outer(grammar, stack, Len(stack) - 1)
      /\ Top(stack).kind = "object" /\ Top(grammar).kind = "object"
      /\ Top(stack).at \in {"first", "key"}
      /\ Top(grammar).at = "colon" /\ Top(grammar).key = k
      /\ verdict = "prefix" /\ Stored
  BY DEF TypeOK, KeyNext, InObject
<1>2. stack' = KeyRead(stack, k) /\ stored' = stored /\ fate' = fate
  BY <1>1, KeyIsRead
<1>3. /\ stack' \in Seq(Frames) /\ Len(stack') = Len(stack) /\ Top(stack').kind = Top(stack).kind
      /\ \/ (Top(stack').at = "colon" /\ Top(stack').first = k)
         \/ (Top(stack').at = "separator" /\ Top(stack').own = k)
      /\ \A i \in 1..Len(stack) - 1 : stack'[i] = stack[i]
  BY <1>1, <1>2, KeyedStack
<1>4. Matches(Top(grammar), Top(stack'))
  BY <1>1, <1>3 DEF Matches
<1>5. /\ stack # << >> /\ Len(grammar) = Len(stack) /\ Outer(grammar, stack, Len(stack) - 1)
      /\ stack' \in Seq(Frames) /\ Len(stack') = Len(stack)
      /\ \A i \in 1..Len(stack) - 1 : stack'[i] = stack[i]
      /\ verdict = "prefix" /\ Stored /\ stored' = stored /\ fate' = fate
  BY <1>1, <1>2, <1>3
<1> QED
  BY <1>4, <1>5, MoveAligned

LEMMA ColonStep ==
    ASSUME TypeOK, grammar \in Seq(Expectations), fate = "parsing", UNCHANGED reference, ~number',
           parseToken(":"), ColonNext
    PROVE  Parsed'
<1>1. /\ stack \in Seq(Frames) /\ stack # << >> /\ Len(grammar) = Len(stack)
      /\ Outer(grammar, stack, Len(stack) - 1)
      /\ Top(stack).kind = "object" /\ Top(grammar).kind = "object"
      /\ Top(stack).at \in {"colon", "separator"} /\ Top(grammar).at = "value"
      /\ Top(grammar).key = IF Top(stack).at = "colon" THEN Top(stack).first ELSE Top(stack).own
      /\ verdict = "prefix" /\ Stored
  BY DEF TypeOK, ColonNext, InObject
<1>2. PICK w \in {"loop", "value"} : w = IF Top(stack).at = "colon" THEN "loop" ELSE "value"
  OBVIOUS
<1>3. stack' = Moved(stack, w) /\ stored' = stored /\ fate' = fate
  BY <1>1, <1>2, ColonIsRead
<1>4. /\ stack' \in Seq(Frames) /\ Len(stack') = Len(stack)
      /\ Top(stack').kind = Top(stack).kind /\ Top(stack').first = Top(stack).first
      /\ Top(stack').own = Top(stack).own /\ Top(stack').at = w
      /\ \A i \in 1..Len(stack) - 1 : stack'[i] = stack[i]
  BY <1>1, <1>3, MovedStack
<1>5. Matches(Top(grammar), Top(stack'))
  BY <1>1, <1>2, <1>4 DEF Matches, Owner
<1> QED
  BY <1>1, <1>3, <1>4, <1>5, MoveAligned

LEMMA CommaStep ==
    ASSUME TypeOK, grammar \in Seq(Expectations), fate = "parsing", UNCHANGED reference, ~number',
           parseToken(Comma), CommaNext
    PROVE  Parsed'
<1>1. /\ stack \in Seq(Frames) /\ stack # << >> /\ Len(grammar) = Len(stack)
      /\ Outer(grammar, stack, Len(stack) - 1)
      /\ Top(stack).at = "loop" /\ Top(grammar).kind = Top(stack).kind
      /\ Top(grammar).at = IF Top(stack).kind = "array" THEN "value" ELSE "key"
      /\ Top(stack).kind = "array" => Top(grammar).key = None
      /\ verdict = "prefix" /\ Stored
  BY DEF TypeOK, CommaNext
<1>2. Top(stack).kind \in {"array", "object"}
  BY <1>1, TopKind
<1>3. PICK w \in {"comma", "key"} : w = IF Top(stack).kind = "array" THEN "comma" ELSE "key"
  OBVIOUS
<1>4. stack' = Moved(stack, w) /\ stored' = stored /\ fate' = fate
  BY <1>1, <1>3, CommaIsRead
<1>5. /\ stack' \in Seq(Frames) /\ Len(stack') = Len(stack)
      /\ Top(stack').kind = Top(stack).kind /\ Top(stack').at = w
      /\ \A i \in 1..Len(stack) - 1 : stack'[i] = stack[i]
  <2>1. stack \in Seq(Frames) /\ stack # << >> /\ stack' = Moved(stack, w)
    BY <1>1, <1>4
  <2> QED
    BY <2>1, MovedStack
<1>6. Matches(Top(grammar), Top(stack'))
  BY <1>1, <1>2, <1>3, <1>5 DEF Matches
<1> QED
  BY <1>1, <1>4, <1>5, <1>6, MoveAligned

LEMMA CloseStep ==
    ASSUME TypeOK, grammar \in Seq(Expectations), fate = "parsing",
           UNCHANGED reference, last' = last, ~number', NEW t \in Tokens, parseToken(t), CloseNext(t)
    PROVE  Parsed'
<1>1. /\ stack \in Seq(Frames) /\ stack # << >> /\ Len(grammar) = Len(stack) - 1
      /\ Outer(grammar, stack, Len(stack) - 1)
      /\ Top(stack).at \in {"first", "loop"} /\ t = Matching(Top(stack).kind)
      /\ last = t
      /\ verdict = IF Len(stack) = 1 THEN "complete" ELSE "prefix"
      /\ ~split => belongs = IF Len(stack) = 1 THEN stored ELSE Put(Top(Below(stack)))
  BY DEF TypeOK, CloseNext
<1>2. Return(Below(stack))
  BY <1>1, BracketCloses
<1>3. PICK n \in Nat : n = Len(stack) /\ n >= 1
  BY <1>1, LastElement
<1>4. PICK b \in Seq(Frames) : b = Below(stack)
  BY <1>1, WithoutLast
<1>5. Len(b) = n - 1 /\ \A i \in 1..n - 1 : b[i] = stack[i]
  BY <1>1, <1>3, <1>4, WithoutLast
<1>6. UNCHANGED <<grammar, verdict, belongs, split, last>>
  BY DEF reference
<1>7. CASE n = 1
  <2>1. b = << >> /\ grammar = << >>
    BY <1>1, <1>3, <1>5, <1>7
  <2>2. stack' = << >> /\ fate' = "returned" /\ stored' = stored
    BY <1>2, <1>4, <2>1 DEF Return
  <2>3. verdict = "complete" /\ (~split => stored = belongs) /\ last \in {"]", "}"}
    BY <1>1, <1>3, <1>7 DEF Matching
  <2>4. verdict' = "complete" /\ grammar' = << >> /\ last' \in {"]", "}"}
    BY <1>6, <2>1, <2>3
  <2>5. Stored'
    BY <1>6, <2>2, <2>3 DEF Stored
  <2> QED
    BY <2>2, <2>4, <2>5 DEF Parsed
<1>8. CASE n # 1
  <2>1. n - 1 \in Nat /\ n - 1 >= 1 /\ n - 1 \in 1..n - 1
    BY <1>3, <1>8
  <2>2. b # << >> /\ Top(b) = stack[n - 1]
    BY <1>5, <2>1 DEF Top
  <2>3. stack' = Moved(b, "loop") /\ stored' = Put(Top(b)) /\ fate' = fate
    BY <1>2, <1>4, <2>2 DEF Return
  <2>4. /\ stack' \in Seq(Frames) /\ Len(stack') = Len(b)
        /\ Top(stack').kind = Top(b).kind /\ Top(stack').at = "loop"
        /\ \A i \in 1..Len(b) - 1 : stack'[i] = b[i]
    BY <2>2, <2>3, MovedStack
  <2>5. Top(grammar) = grammar[n - 1] /\ Waits(grammar[n - 1], stack[n - 1])
    BY <1>1, <1>3, <2>1 DEF Top, Outer
  <2>6. Matches(Top(grammar), Top(stack')) /\ Top(grammar).at = "more"
    BY <2>2, <2>4, <2>5 DEF Waits, Matches, Owner
  <2>7. Outer(grammar, b, Len(b) - 1) /\ Len(grammar) = Len(b)
    BY <1>1, <1>3, <1>5 DEF Outer
  <2>8. PICK q : q = stack'
    OBVIOUS
  <2>9. Aligned(grammar, q)
    BY <2>2, <2>4, <2>6, <2>7, <2>8, AlignedStill
  <2>10. Aligned(grammar', stack')
    BY <1>6, <2>8, <2>9
  <2>11. verdict = "prefix" /\ (~split => belongs = Put(Top(b)))
    BY <1>1, <1>3, <1>4, <1>8
  <2> QED
    BY <1>1, <1>6, <2>3, <2>10, <2>11 DEF Parsed, Stored
<1> QED
  BY <1>7, <1>8

(* What is pending is parsed as JSON has it.                               *)
LEMMA ParseInStep ==
    ASSUME TypeOK, GrammarInv, parse, verdict # "invalid"
    PROVE  InStep'
<1>1. /\ tokens # << >> /\ parseToken(Head(tokens)) /\ tokens' = Tail(tokens)
      /\ UNCHANGED <<number, last, reference>> /\ grammar \in Seq(Expectations)
  BY DEF parse, GrammarInv
<1>2. \/ \E t \in Tokens : tokens = <<t>> /\ fate = "parsing" /\ Pending(t)
      \/ tokens = <<"number", "number">> /\ fate = "parsing" /\ split /\ ValueNext
  BY <1>1 DEF GrammarInv, InStep
<1>3. ASSUME NEW t \in Tokens, tokens = <<t>>, fate = "parsing", Pending(t)
      PROVE  InStep'
  <2>1. parseToken(t) /\ tokens' = << >>
    <3>1. Head(<<t>>) = t /\ Tail(<<t>>) = << >>
      OBVIOUS
    <3> QED
      BY <1>1, <1>3, <3>1
  <2>11. UNCHANGED reference /\ last' = last /\ grammar \in Seq(Expectations)
    BY <1>1
  <2>12. UNCHANGED <<number, reference>>
    BY <1>1
  <2>13. ~number => ~number'
    BY <1>1, Zenon
  <2>10. SUFFICES Parsed'
    BY <2>1 DEF InStep
  <2>2. CASE t = "[" /\ OpensNext("array")
    <3>1. ~number'
      BY <2>2, <2>13 DEF OpensNext
    <3>2. Opens(t) /\ OpensNext(Kind(t))
      BY <2>2 DEF Opens, Kind
    <3> QED
      BY <1>3, <2>1, <2>11, <3>1, <3>2, OpenStep
  <2>3. CASE t = "{" /\ OpensNext("object")
    <3>1. ~number'
      BY <2>3, <2>13 DEF OpensNext
    <3>2. Opens(t) /\ OpensNext(Kind(t))
      BY <2>3 DEF Opens, Kind
    <3> QED
      BY <1>3, <2>1, <2>11, <3>1, <3>2, OpenStep
  <2>4. CASE t \in Strings \cup {"number", "literal"} /\ ValueNext
    <3>1. /\ fate' = "parsing" /\ verdict' = "prefix" /\ Aligned(grammar', stack')
          /\ Top(grammar').at = "more" /\ Stored'
      BY <1>3, <2>1, <2>11, <2>12, <2>4, ValueStep
    <3> QED
      BY <3>1 DEF Parsed
  <2>5. CASE t = "number" /\ RestNext
    <3>1. /\ fate' = "parsing" /\ verdict' = "prefix" /\ Aligned(grammar', stack')
          /\ Top(grammar').at = "more" /\ Stored'
      BY <1>3, <2>1, <2>11, <2>12, <2>5, RestStep
    <3> QED
      BY <3>1 DEF Parsed
  <2>6. CASE t \in Strings /\ KeyNext(t)
    <3>1. ~number'
      BY <2>6, <2>13 DEF KeyNext, InObject
    <3>2. t \in Strings /\ KeyNext(t) /\ fate = "parsing"
      BY <1>3, <2>6
    <3> QED
      BY <2>1, <2>11, <3>1, <3>2, KeyParsed
  <2>7. CASE t = ":" /\ ColonNext
    <3>1. ~number'
      BY <2>7, <2>13 DEF ColonNext, InObject
    <3> QED
      BY <1>3, <2>1, <2>11, <2>7, <3>1, ColonStep, Zenon
  <2>8. CASE t = "," /\ CommaNext
    <3>1. ~number'
      BY <2>8, <2>13 DEF CommaNext
    <3> QED
      BY <1>3, <2>1, <2>11, <2>8, <3>1, CommaStep, Zenon DEF Comma
  <2>9. CASE CloseNext(t)
    <3>1. ~number'
      BY <2>9, <2>13 DEF CloseNext
    <3>2. fate = "parsing"
      BY <1>3
    <3> QED
      BY <2>1, <2>9, <2>11, <3>1, <3>2, CloseStep
  <2> QED
    BY <1>3, <2>2, <2>3, <2>4, <2>5, <2>6, <2>7, <2>8, <2>9 DEF Pending
<1>4. ASSUME tokens = <<"number", "number">>, fate = "parsing", split, ValueNext
      PROVE  InStep'
  <2>1. parseToken("number") /\ tokens' = <<"number">>
    BY <1>1, <1>4
  <2>2. /\ fate' = "parsing" /\ verdict' = "prefix" /\ Aligned(grammar', stack')
        /\ Top(grammar').at = "more" /\ split' = split
    BY <1>1, <1>4, <2>1, ValueStep
  <2>3. Pending("number")'
    BY <1>4, <2>2 DEF Pending, RestNext
  <2>4. "number" \in Tokens
    BY DEF Tokens, Scalars
  <2> QED
    BY <2>1, <2>2, <2>3, <2>4 DEF InStep
<1> QED
  BY <1>2, <1>3, <1>4

-----------------------------------------------------------------------------
LEMMA GrammarInit == Init => GrammarInv
<1> SUFFICES ASSUME Init PROVE GrammarInv
  OBVIOUS
<1>1. << >> \in Seq(Expectations)
  OBVIOUS
<1>2. InStep
  BY DEF Init, InStep, Parsed, Stored
<1> QED
  BY <1>1, <1>2 DEF Init, GrammarInv

LEMMA GrammarLex ==
    ASSUME TypeOK, GrammarInv, NEW piece \in Pieces, lex(piece)
    PROVE  GrammarInv'
<1>1. CASE verdict' # "invalid"
  <2>1. /\ grammar' \in Seq(Expectations) /\ verdict' \in {"begin", "prefix", "complete"}
        /\ split' \in BOOLEAN /\ InStep'
    BY <1>1, LexInStep
  <2> QED
    BY <1>1, <2>1 DEF GrammarInv
<1>2. CASE verdict' = "invalid"
  <2>1. JSON(piece) /\ split \in BOOLEAN /\ grammar \in Seq(Expectations)
    BY DEF lex, GrammarInv
  <2>2. split' \in BOOLEAN
    <3>1. split' = (split \/ piece = "exponent")
      BY <2>1 DEF JSON
    <3> QED
      BY <2>1, <3>1
  <2>3. grammar' = << >>
    <3>1. CASE Behind(piece) = None
      BY <2>1, <3>1 DEF JSON
    <3>2. CASE Behind(piece) # None
      <4>1. verdict' = verdict /\ piece = "space" /\ grammar' = Behind(piece)
        BY <1>2, <2>1, <3>2 DEF JSON
      <4>2. ~Closes("space") /\ "space" \notin Strings
        BY StringsAssumption DEF Closes, Matching
      <4>3. Behind(piece) = grammar
        BY <4>1, <4>2 DEF Behind
      <4>4. grammar = << >>
        BY <1>2, <4>1 DEF GrammarInv, lex, Running
      <4> QED
        BY <4>1, <4>3, <4>4
    <3> QED
      BY <3>1, <3>2
  <2>4. << >> \in Seq(Expectations)
    OBVIOUS
  <2> QED
    BY <1>2, <2>2, <2>3, <2>4 DEF GrammarInv
<1> QED
  BY <1>1, <1>2

LEMMA GrammarStep ==
    ASSUME TypeOK, GrammarInv, [Next]_vars
    PROVE  GrammarInv'
<1>1. ASSUME NEW piece \in Pieces, lex(piece) PROVE GrammarInv'
  BY <1>1, GrammarLex
<1>2. CASE parse
  <2>1. UNCHANGED <<grammar, verdict, split>> /\ Running
    BY <1>2 DEF parse, reference, Running
  <2>2. verdict # "invalid" => InStep'
    BY <1>2, ParseInStep
  <2> QED
    BY <2>1, <2>2 DEF GrammarInv
<1>3. CASE End
  <2>1. /\ tokens = << >> /\ fate \in {"parsing", "returned"}
        /\ verdict' = (IF verdict = "complete" THEN verdict ELSE "invalid")
        /\ UNCHANGED <<tokens, number, last, stored, grammar, belongs, split>>
    BY <1>3 DEF End, lexer
  <2>2. CASE verdict = "complete"
    <3>1. \A t \in Tokens : tokens # <<t>>
      BY <2>1
    <3>2. tokens # <<"number", "number">>
      BY <2>1
    <3>3. Parsed
      BY <2>2, <3>1, <3>2 DEF GrammarInv, InStep
    <3>4. /\ fate = "returned" /\ grammar = << >> /\ last \in {"]", "}"} /\ ~number /\ Stored
      BY <2>1, <2>2, <3>3 DEF Parsed
    <3>5. fate' = "accepted"
      BY <1>3, <3>4 DEF End
    <3>6. Parsed'
      BY <2>1, <2>2, <3>4, <3>5 DEF Parsed, Stored
    <3> QED
      BY <2>1, <2>2, <3>6 DEF GrammarInv, InStep
  <2>3. CASE verdict # "complete"
    <3>1. fate' \notin {"parsing", "returned"}
      BY <1>3 DEF End
    <3> QED
      BY <2>1, <2>3, <3>1 DEF GrammarInv, Running
  <2> QED
    BY <2>2, <2>3
<1>4. CASE Again
  <2>1. << >> \in Seq(Expectations)
    OBVIOUS
  <2>2. /\ tokens' = << >> /\ ~number' /\ stack' = << >> /\ fate' = "parsing" /\ stored' = belongs'
        /\ grammar' = << >> /\ verdict' = "begin" /\ split' = FALSE
    BY <1>4 DEF Again
  <2>3. InStep'
    BY <2>2 DEF InStep, Parsed, Stored
  <2> QED
    BY <2>1, <2>2, <2>3 DEF GrammarInv
<1>5. CASE UNCHANGED vars
  <2>1. /\ UNCHANGED <<tokens, number, last, stack, fate, stored, grammar, verdict, belongs, split>>
    BY <1>5 DEF vars, lexer, parser, reference
  <2>2. InStep' = InStep
    BY <2>1 DEF InStep, Parsed, Stored, Pending, OpensNext, ValueNext, RestNext, InObject,
                KeyNext, ColonNext, CommaNext, CloseNext, Put
  <2> QED
    BY <2>1, <2>2 DEF GrammarInv, Running
<1> QED
  BY <1>1, <1>2, <1>3, <1>4, <1>5 DEF Next

LEMMA GrammarHolds == Spec => []GrammarInv
<1>1. GrammarInv /\ TypeOK /\ [Next]_vars => GrammarInv'
  BY GrammarStep
<1> QED
  BY <1>1, GrammarInit, TypeCorrect, PTL DEF Spec

(* Between two pieces of a JSON text no token is left over: the text is as *)
(* far in the calls as it is in the grammar.                               *)
LEMMA BetweenPieces ==
    ASSUME GrammarInv, tokens = << >>, verdict # "invalid"
    PROVE  Parsed
<1>1. \A t \in Tokens : tokens # <<t>>
  OBVIOUS
<1>2. tokens # <<"number", "number">>
  OBVIOUS
<1> QED
  BY <1>1, <1>2 DEF GrammarInv, InStep

(* Every JSON text is accepted unless it is too deep, however it is        *)
(* nested, and none is refused before its end (Lexer::lex and parser).     *)
THEOREM ValidAreAccepted == Spec => []ValidAccepted
<1>1. GrammarInv => ValidAccepted
  <2> SUFFICES ASSUME GrammarInv, tokens = << >>
               PROVE  /\ verdict # "invalid" => fate \notin {"refused", "behind"}
                      /\ verdict = "complete" => fate # "parsing"
    BY DEF ValidAccepted
  <2> QED
    BY BetweenPieces DEF Parsed
<1> QED
  BY <1>1, GrammarHolds, PTL

(* The parser puts every value of a JSON text where the grammar has it,    *)
(* once, for any strings as keys and texts of any length                   *)
(* (parseArray, parseObject).                                              *)
THEOREM TreesAreSame == Spec => []SameTree
<1>1. GrammarInv => SameTree
  <2> SUFFICES ASSUME GrammarInv, tokens = << >>, verdict \in {"prefix", "complete"}, ~split,
                      fate \in {"parsing", "returned", "accepted"}
               PROVE  stored = belongs
    BY DEF SameTree
  <2> QED
    BY BetweenPieces DEF Parsed, Stored
<1> QED
  BY <1>1, GrammarHolds, PTL

=============================================================================
