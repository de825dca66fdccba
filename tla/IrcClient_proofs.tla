------------------------- MODULE IrcClient_proofs --------------------------
(* The channels of the client are those of the server, up to its own PARTs *)
(* that are on the way or lost, for any users, channels and numbers of     *)
(* tries, lines and inputs.                                                *)
EXTENDS IrcClient, SequenceTheorems, TLAPS

USE DEF Start, Head_, Colon, Text, LF

-----------------------------------------------------------------------------
(* Lines and reads *)

LEMMA LineTypes ==
    ASSUME NEW type \in Types, NEW user \in Others \cup {Me},
           NEW channel \in Channels \cup {NoChannel}
    PROVE  Line(type, user, channel) \in Lines
BY DEF Line, Lines

LEMMA KnownLines ==
    /\ Ping \in Lines /\ Shown \in Lines
    /\ \A c \in Channels : OwnPart(c) \in Lines
BY LineTypes DEF Ping, Shown, OwnPart, Types

LEMMA CommandTypes ==
    ASSUME NEW cmd \in {"USER", "NICK", "PONG", "WRONG", "JOIN", "PART", "PRIVMSG"},
           NEW channel \in Channels \cup {NoChannel}
    PROVE  Command(cmd, channel) \in Commands
BY DEF Command, Commands

(* Only a line that was not cut becomes a command.                         *)
LEMMA CommandsAreWhole ==
    ASSUME NEW line \in Lines, "command" \in parse(line)
    PROVE  line.from = Start
<1>1. line.from \in 0..4
  BY DEF Lines
<1>2. CASE Refused(line)
  <2>1. parse(line) = {"invalid"}
    BY <1>2, <1>1 DEF parse, Refused
  <2> QED
    BY <2>1
<1>3. CASE line.from = 1
  <2>1. parse(line) = {"abort"}
    BY <1>3 DEF parse, Refused
  <2> QED
    BY <2>1
<1>4. CASE line.from = 2
  <2>1. parse(line) = {"abort"} \cup {o \in {"invalid"} : line.type = "TEXT"}
    BY <1>4 DEF parse, Refused
  <2> QED
    BY <2>1
<1> QED
  BY <1>1, <1>2, <1>3, <1>4 DEF Refused

LEMMA ReadBounds ==
    ASSUME wire \in Seq(Lines), NEW r \in Reads
    PROVE  /\ r.whole \in 0..Len(wire) /\ r.to \in 0..4
           /\ Cut(r) => r.whole + 1 \in 1..Len(wire)
           /\ ~Cut(r) => r.whole > 0
BY DEF Reads, Cut

LEMMA NewHead ==
    ASSUME NEW S, NEW s \in Seq(S), Len(s) > 0, NEW x \in S
    PROVE  /\ <<x>> \o Tail(s) \in Seq(S) /\ Len(<<x>> \o Tail(s)) = Len(s)
           /\ (<<x>> \o Tail(s))[1] = x
           /\ \A k \in 2..Len(s) : (<<x>> \o Tail(s))[k] = s[k]
<1>1. s # << >>
  OBVIOUS
<1>2. /\ Tail(s) \in Seq(S) /\ Len(Tail(s)) = Len(s) - 1
      /\ \A i \in 1..Len(Tail(s)) : Tail(s)[i] = s[i + 1]
  BY <1>1, HeadTailProperties
<1> DEFINE t == Tail(s)
<1> HIDE DEF t
<1>3. <<x>> \in Seq(S) /\ Len(<<x>>) = 1 /\ <<x>>[1] = x
  OBVIOUS
<1>4. /\ <<x>> \o t \in Seq(S) /\ Len(<<x>> \o t) = 1 + Len(t)
      /\ \A i \in 1..1 + Len(t) :
            (<<x>> \o t)[i] = IF i <= 1 THEN <<x>>[i] ELSE t[i - 1]
  BY <1>2, <1>3, ConcatProperties DEF t
<1>5. Len(s) \in Nat
  OBVIOUS
<1>6. (<<x>> \o t)[1] = x
  BY <1>2, <1>3, <1>4, <1>5 DEF t
<1>7. ASSUME NEW k \in 2..Len(s)
      PROVE  (<<x>> \o t)[k] = s[k]
  <2>1. k \in 1..1 + Len(t) /\ ~(k <= 1) /\ k - 1 \in 1..Len(t) /\ k - 1 + 1 = k
    BY <1>2, <1>5, <1>7 DEF t
  <2>2. (<<x>> \o t)[k] = t[k - 1] /\ t[k - 1] = s[k - 1 + 1]
    BY <1>2, <1>4, <2>1 DEF t
  <2> QED
    BY <2>1, <2>2
<1> QED
  BY <1>2, <1>4, <1>5, <1>6, <1>7 DEF t

LEMMA Rest ==
    ASSUME NEW S, NEW s \in Seq(S), NEW m \in 0..Len(s)
    PROVE  LET rest == SubSeq(s, m + 1, Len(s)) IN
           /\ rest \in Seq(S) /\ Len(rest) = Len(s) - m
           /\ \A k \in 1..Len(s) - m : rest[k] = s[m + k]
<1>1. m + 1 \in Int /\ Len(s) \in Int /\ \A i \in m + 1..Len(s) : s[i] \in S
  OBVIOUS
<1> DEFINE rest == SubSeq(s, m + 1, Len(s))
<1>2. /\ rest \in Seq(S)
      /\ Len(rest) = IF m + 1 <= Len(s) THEN Len(s) - (m + 1) + 1 ELSE 0
      /\ \A i \in 1..Len(s) - (m + 1) + 1 : rest[i] = s[m + 1 + i - 1]
  BY ONLY <1>1, SubSeqProperties
<1> HIDE DEF rest
<1>3. rest \in Seq(S) /\ Len(rest) = Len(s) - m /\ \A k \in 1..Len(s) - m : rest[k] = s[m + k]
  BY <1>1, <1>2
<1> QED
  BY <1>3 DEF rest

(* What a read leaves keeps its order; only the line it cuts changes, and  *)
(* that in where it begins.                                                *)
LEMMA UnreadLines ==
    ASSUME wire \in Seq(Lines), NEW r \in Reads
    PROVE  /\ Unread(r) \in Seq(Lines)
           /\ Len(Unread(r)) = Len(wire) - r.whole
           /\ \A k \in 1..Len(wire) - r.whole :
                 Unread(r)[k] = IF k = 1 /\ Cut(r)
                                THEN [wire[r.whole + 1] EXCEPT !.from = r.to]
                                ELSE wire[r.whole + k]
<1> DEFINE n == Len(wire)
           rest == SubSeq(wire, r.whole + 1, n)
           first == [Head(rest) EXCEPT !.from = r.to]
<1>1. n \in Nat /\ r.whole \in 0..n /\ r.to \in 0..4 /\ (Cut(r) => r.whole + 1 \in 1..n)
  BY ReadBounds
<1>2. /\ rest \in Seq(Lines) /\ Len(rest) = n - r.whole
      /\ \A k \in 1..n - r.whole : rest[k] = wire[r.whole + k]
  BY <1>1, Rest
<1>3. Unread(r) = IF Cut(r) THEN <<first>> \o Tail(rest) ELSE rest
  BY DEF Unread
<1>4. Len(wire) = n
  OBVIOUS
<1> HIDE DEF n, rest
<1>5. CASE ~Cut(r)
  BY <1>1, <1>2, <1>3, <1>4, <1>5
<1>6. CASE Cut(r)
  <2>1. n - r.whole \in Nat \ {0}
    BY <1>1, <1>6
  <2>2. rest # << >> /\ Len(rest) > 0
    BY <1>2, <2>1
  <2>3. Head(rest) = wire[r.whole + 1]
    <3>1. Head(rest) = rest[1]
      BY <1>2, <2>2, HeadTailProperties
    <3> QED
      BY <1>2, <2>1, <3>1
  <2>4. first \in Lines
    <3>1. Head(rest) \in Lines
      BY <1>2, <2>2, HeadTailProperties
    <3> QED
      BY <1>1, <3>1 DEF Lines
  <2>5. Unread(r) = <<first>> \o Tail(rest)
    BY <1>3, <1>6
  <2>6. /\ Unread(r) \in Seq(Lines) /\ Len(Unread(r)) = Len(rest)
        /\ Unread(r)[1] = first
        /\ \A k \in 2..Len(rest) : Unread(r)[k] = rest[k]
    <3> HIDE DEF first
    <3> QED
      BY <1>2, <2>2, <2>4, <2>5, NewHead
  <2>7. ASSUME NEW k \in 1..n - r.whole, k # 1
        PROVE  Unread(r)[k] = wire[r.whole + k]
    BY <1>1, <1>2, <2>6, <2>7
  <2>8. Unread(r)[1] = [wire[r.whole + 1] EXCEPT !.from = r.to]
    BY <2>3, <2>6
  <2> QED
    BY <1>2, <1>4, <1>6, <2>6, <2>7, <2>8
<1> QED
  BY <1>5, <1>6

LEMMA WholeLines ==
    ASSUME wire \in Seq(Lines), NEW r \in Reads
    PROVE  /\ Whole(r) \in Seq(Lines) /\ Len(Whole(r)) = r.whole
           /\ \A k \in 1..r.whole : Whole(r)[k] = wire[k]
<1>1. Len(wire) \in Nat /\ r.whole \in 0..Len(wire)
  BY ReadBounds
<1>2. \A i \in 1..r.whole : wire[i] \in Lines
  BY <1>1
<1> QED
  BY <1>1, <1>2, SubSeqProperties DEF Whole

LEMMA GluedLine ==
    ASSUME NEW line \in Lines
    PROVE  /\ Glued(line) \in Lines
           /\ Glued(line).type # "TEXT" => Glued(line) = line
           /\ line.type # "PING" => Glued(line) = line
BY DEF Glued, Lines, Types

(* Splitting drops at most what is left of a first line, and keeps the     *)
(* order of the others; of these it changes at most a PING.                *)
LEMMA SplitLines ==
    ASSUME NEW chunk \in Seq(Lines)
    PROVE  \E d \in {0, 1} :
              /\ splitByCrlf(chunk) \in Seq(Lines)
              /\ d <= Len(chunk) /\ Len(splitByCrlf(chunk)) = Len(chunk) - d
              /\ d = 1 => chunk[1].from = LF
              /\ \A k \in 1..Len(chunk) - d :
                    /\ splitByCrlf(chunk)[k].type # "TEXT"
                          => splitByCrlf(chunk)[k] = chunk[k + d]
                    /\ chunk[k + d].type # "PING"
                          => splitByCrlf(chunk)[k] = chunk[k + d]
<1> DEFINE n == Len(chunk)
           split == [i \in 1..n - 1 |-> IF i = 1 THEN Glued(chunk[2]) ELSE chunk[i + 1]]
<1>1. n \in Nat /\ \A i \in 1..n : chunk[i] \in Lines
  OBVIOUS
<1>2. CASE chunk # << >> /\ Head(chunk).from = LF
  <2>1. n \in Nat \ {0} /\ chunk[1].from = LF
    BY <1>2
  <2>2. splitByCrlf(chunk) = split
    BY <1>2 DEF splitByCrlf
  <2>3. \A i \in 1..n - 1 : /\ chunk[i + 1] \in Lines
                            /\ split[i] = Glued(chunk[i + 1]) \/ split[i] = chunk[i + 1]
    BY <1>1, <2>1
  <2>4. \A i \in 1..n - 1 : /\ split[i] \in Lines
                            /\ split[i].type # "TEXT" => split[i] = chunk[i + 1]
                            /\ chunk[i + 1].type # "PING" => split[i] = chunk[i + 1]
    BY <2>3, GluedLine
  <2>5. split \in Seq(Lines) /\ Len(split) = n - 1
    <3>1. n - 1 \in Nat /\ split \in [1..n - 1 -> Lines]
      BY <2>1, <2>4
    <3> HIDE DEF split
    <3> QED
      BY <3>1
  <2> HIDE DEF split
  <2> QED
    BY <2>1, <2>2, <2>4, <2>5
<1>3. CASE ~(chunk # << >> /\ Head(chunk).from = LF)
  <2>1. splitByCrlf(chunk) = chunk
    BY <1>3 DEF splitByCrlf
  <2> QED
    BY <1>1, <2>1
<1> QED
  BY <1>2, <1>3

-----------------------------------------------------------------------------
(* Types *)

(* What is joined has a name, on either side.                              *)
Named ==
    /\ \A i \in 1..Len(wire) : wire[i].type = "JOIN" => wire[i].channel \in Channels
    /\ \A i \in 1..Len(lines) : lines[i].type = "JOIN" => lines[i].channel \in Channels
    /\ \A i \in 1..Len(outbox) : outbox[i].cmd = "JOIN" => outbox[i].channel \in Channels

Typed == TypeOK /\ Named

LEMMA Sent ==
    ASSUME Typed, NEW line \in Lines, Sends(line),
           line.type = "JOIN" => line.channel \in Channels
    PROVE  /\ wire' \in Seq(Lines) /\ Len(wire') = Len(wire) + 1
           /\ \A i \in 1..Len(wire) : wire'[i] = wire[i]
           /\ wire'[Len(wire) + 1] = line
           /\ \A i \in 1..Len(wire') : wire'[i].type = "JOIN" => wire'[i].channel \in Channels
<1>1. wire \in Seq(Lines) /\ wire' = Append(wire, line) /\ Len(wire) \in Nat
  BY DEF Typed, TypeOK, Sends
<1>2. /\ wire' \in Seq(Lines) /\ Len(wire') = Len(wire) + 1
      /\ \A i \in 1..Len(wire) : wire'[i] = wire[i]
      /\ wire'[Len(wire) + 1] = line
  BY <1>1, AppendProperties
<1>3. ASSUME NEW i \in 1..Len(wire'), wire'[i].type = "JOIN"
      PROVE  wire'[i].channel \in Channels
  <2>1. i \in 1..Len(wire) \/ i = Len(wire) + 1
    BY <1>1, <1>2
  <2> QED
    BY <1>2, <1>3, <2>1 DEF Typed, Named
<1> QED
  BY <1>2, <1>3

LEMMA Commanded ==
    ASSUME Typed, NEW command \in Commands, outbox' = Append(outbox, command),
           command.cmd = "JOIN" => command.channel \in Channels
    PROVE  /\ outbox' \in Seq(Commands) /\ Len(outbox') = Len(outbox) + 1
           /\ \A i \in 1..Len(outbox) : outbox'[i] = outbox[i]
           /\ outbox'[Len(outbox) + 1] = command
           /\ \A i \in 1..Len(outbox') :
                 outbox'[i].cmd = "JOIN" => outbox'[i].channel \in Channels
<1>1. outbox \in Seq(Commands) /\ Len(outbox) \in Nat
  BY DEF Typed, TypeOK
<1>2. /\ outbox' \in Seq(Commands) /\ Len(outbox') = Len(outbox) + 1
      /\ \A i \in 1..Len(outbox) : outbox'[i] = outbox[i]
      /\ outbox'[Len(outbox) + 1] = command
  BY <1>1, AppendProperties
<1>3. ASSUME NEW i \in 1..Len(outbox'), outbox'[i].cmd = "JOIN"
      PROVE  outbox'[i].channel \in Channels
  <2>1. i \in 1..Len(outbox) \/ i = Len(outbox) + 1
    BY <1>1, <1>2
  <2> QED
    BY <1>2, <1>3, <2>1 DEF Typed, Named
<1> QED
  BY <1>2, <1>3

LEMMA UnreadTyped ==
    ASSUME Typed, NEW r \in Reads, wire' = Unread(r)
    PROVE  /\ wire' \in Seq(Lines)
           /\ \A k \in 1..Len(wire') :
                 /\ r.whole + k \in 1..Len(wire)
                 /\ wire'[k].type = wire[r.whole + k].type
                 /\ wire'[k].channel = wire[r.whole + k].channel
                 /\ wire'[k].from = Start => wire'[k] = wire[r.whole + k]
           /\ \A k \in 1..Len(wire') : wire'[k].type = "JOIN" => wire'[k].channel \in Channels
<1>1. wire \in Seq(Lines) /\ Len(wire) \in Nat /\ r.whole \in 0..Len(wire)
  BY ReadBounds DEF Typed, TypeOK
<1>2. wire' \in Seq(Lines) /\ Len(wire') = Len(wire) - r.whole
  BY <1>1, UnreadLines
<1>3. ASSUME NEW k \in 1..Len(wire')
      PROVE  /\ r.whole + k \in 1..Len(wire)
             /\ wire'[k].type = wire[r.whole + k].type
             /\ wire'[k].channel = wire[r.whole + k].channel
             /\ wire'[k].from = Start => wire'[k] = wire[r.whole + k]
  <2>1. r.whole + k \in 1..Len(wire) /\ k \in 1..Len(wire) - r.whole
    BY <1>1, <1>2, <1>3
  <2>2. wire'[k] = IF k = 1 /\ Cut(r)
                   THEN [wire[r.whole + 1] EXCEPT !.from = r.to] ELSE wire[r.whole + k]
    BY <1>1, <2>1, UnreadLines
  <2>3. CASE k = 1 /\ Cut(r)
    <3>1. wire[r.whole + 1] \in Lines
      BY <1>1, <2>1, <2>3
    <3>2. /\ wire'[k].type = wire[r.whole + 1].type
          /\ wire'[k].channel = wire[r.whole + 1].channel /\ wire'[k].from = r.to
      BY <2>2, <2>3, <3>1 DEF Lines
    <3> QED
      BY <2>1, <2>3, <3>2 DEF Cut
  <2> QED
    BY <2>1, <2>2, <2>3
<1>4. ASSUME NEW k \in 1..Len(wire'), wire'[k].type = "JOIN"
      PROVE  wire'[k].channel \in Channels
  BY <1>3, <1>4 DEF Typed, Named
<1> QED
  BY <1>2, <1>3, <1>4

LEMMA TypedInit == Init => Typed
<1> SUFFICES ASSUME Init PROVE Typed
  OBVIOUS
<1>1. lines \in Seq(Lines) /\ wire \in Seq(Lines) /\ outbox \in Seq(Commands)
  BY DEF Init
<1>2. Len(wire) = 0 /\ Len(lines) = 0 /\ Len(outbox) = 0
  BY DEF Init
<1>3. tries \in 0..maxTries /\ sent \in 0..MaxSent /\ typed \in 0..MaxTyped
  BY BoundsAssumption DEF Init
<1>4. TypeOK
  BY <1>1, <1>3 DEF Init, TypeOK
<1>5. Named
  BY <1>2 DEF Named
<1> QED
  BY <1>4, <1>5 DEF Typed

LEMMA TypedConnect == ASSUME Typed, connect PROVE Typed'
<1>1. Sends(Shown) /\ Shown \in Lines /\ Shown.type # "JOIN"
  BY KnownLines DEF connect, Sends, Shown, Line
<1>2. /\ wire' \in Seq(Lines)
      /\ \A i \in 1..Len(wire') : wire'[i].type = "JOIN" => wire'[i].channel \in Channels
  BY <1>1, Sent
<1>3. TypeOK'
  BY <1>2 DEF Typed, TypeOK, connect, shared, server
<1>4. Named'
  BY <1>2 DEF Typed, Named, connect, shared, server
<1> QED
  BY <1>3, <1>4 DEF Typed

LEMMA TypedGreeted == ASSUME Typed, NEW r \in Reads, Greeted(r) PROVE Typed'
<1> DEFINE command == Command("USER", NoChannel)
<1>1. /\ wire' \in Seq(Lines)
      /\ \A i \in 1..Len(wire') : wire'[i].type = "JOIN" => wire'[i].channel \in Channels
  BY UnreadTyped DEF Greeted
<1>2. /\ outbox' \in Seq(Commands)
      /\ \A i \in 1..Len(outbox') :
            outbox'[i].cmd = "JOIN" => outbox'[i].channel \in Channels
  <2>1. command \in Commands /\ command.cmd # "JOIN" /\ outbox' = Append(outbox, command)
    BY CommandTypes DEF Greeted, Command
  <2> HIDE DEF command
  <2> QED
    BY <2>1, Commanded
<1>3. tries' \in 0..maxTries
  BY BoundsAssumption DEF Greeted
<1>4. TypeOK'
  BY <1>1, <1>2, <1>3 DEF Typed, TypeOK, Greeted, shared, server
<1>5. Named'
  BY <1>1, <1>2 DEF Typed, Named, Greeted, shared, server
<1> QED
  BY <1>4, <1>5 DEF Typed

LEMMA TypedRegisters == ASSUME Typed, NEW r \in Reads, Registers(r) PROVE Typed'
<1>1. /\ wire' \in Seq(Lines)
      /\ \A i \in 1..Len(wire') : wire'[i].type = "JOIN" => wire'[i].channel \in Channels
  BY UnreadTyped DEF Registers
<1>2. /\ outbox' \in Seq(Commands)
      /\ \A i \in 1..Len(outbox') :
            outbox'[i].cmd = "JOIN" => outbox'[i].channel \in Channels
  <2>1. CASE outbox' = outbox
    BY <2>1 DEF Typed, TypeOK, Named
  <2>2. CASE outbox' = Append(outbox, Command("PONG", NoChannel))
    BY <2>2, CommandTypes, Commanded DEF Command
  <2>3. CASE outbox' = Append(outbox, Command("WRONG", NoChannel))
    BY <2>3, CommandTypes, Commanded DEF Command
  <2> QED
    BY <2>1, <2>2, <2>3 DEF Registers
<1>3. tries' \in 0..maxTries
  BY BoundsAssumption DEF Typed, TypeOK, Registers, LookAgain
<1>4. pc' \in {"register", "dead", "poll"}
  BY DEF Registers
<1>5. TypeOK'
  BY <1>1, <1>2, <1>3, <1>4 DEF Typed, TypeOK, Registers, shared, server
<1>6. Named'
  BY <1>1, <1>2 DEF Typed, Named, Registers, shared, server
<1> QED
  BY <1>5, <1>6 DEF Typed

(* One read on the poll loop: where the lines of the wire go, d places     *)
(* ahead of where they stood, and which of them are recorded as lost.      *)
LEMMA ReadKeeps ==
    ASSUME Typed, NEW r \in Reads, handleServerReply(r)
    PROVE  \E d \in {0, 1} :
              /\ lines' \in Seq(Lines) /\ Len(lines') = r.whole - d
              /\ \A i \in 1..Len(lines') :
                    /\ i + d \in 1..Len(wire)
                    /\ lines'[i].type = "JOIN" => lines'[i] = wire[i + d]
              /\ \A c \in Channels, j \in 1..Len(wire) :
                    wire[j] = OwnPart(c) =>
                       \/ OwnPart(c) \in lost'
                       \/ j - d \in 1..Len(lines') /\ lines'[j - d] = OwnPart(c)
                       \/ /\ j - r.whole \in 1..Len(wire')
                          /\ wire'[j - r.whole] = OwnPart(c)
<1>1. /\ wire \in Seq(Lines) /\ Len(wire) \in Nat
      /\ r.whole \in 0..Len(wire) /\ r.to \in 0..4
  BY ReadBounds DEF Typed, TypeOK
<1>2. /\ Whole(r) \in Seq(Lines) /\ Len(Whole(r)) = r.whole
      /\ \A k \in 1..r.whole : Whole(r)[k] = wire[k]
  BY <1>1, WholeLines
<1>3. PICK d \in {0, 1} :
         /\ lines' \in Seq(Lines)
         /\ d <= r.whole /\ Len(lines') = r.whole - d
         /\ d = 1 => Whole(r)[1].from = 4
         /\ \A k \in 1..r.whole - d :
               /\ lines'[k].type # "TEXT" => lines'[k] = Whole(r)[k + d]
               /\ Whole(r)[k + d].type # "PING" => lines'[k] = Whole(r)[k + d]
  <2>1. lines' = splitByCrlf(Whole(r))
    BY DEF handleServerReply
  <2> QED
    BY <1>2, <2>1, SplitLines
<1>4. ASSUME NEW i \in 1..Len(lines')
      PROVE  /\ i + d \in 1..Len(wire)
             /\ lines'[i].type = "JOIN" => lines'[i] = wire[i + d]
  <2>1. i \in 1..r.whole - d /\ i + d \in 1..r.whole /\ i + d \in 1..Len(wire)
    BY <1>1, <1>3, <1>4
  <2> QED
    BY <1>2, <1>3, <2>1
<1>5. ASSUME NEW c \in Channels, NEW j \in 1..Len(wire), wire[j] = OwnPart(c)
      PROVE  \/ OwnPart(c) \in lost'
             \/ j - d \in 1..Len(lines') /\ lines'[j - d] = OwnPart(c)
             \/ j - r.whole \in 1..Len(wire') /\ wire'[j - r.whole] = OwnPart(c)
  <2>1. OwnPart(c).type = "PART" /\ OwnPart(c).from = 0 /\ OwnPart(c) \in Lines
    BY KnownLines DEF OwnPart, Line
  <2>2. CASE j <= r.whole
    <3>1. Whole(r)[j] = OwnPart(c)
      BY <1>2, <1>5, <2>2
    <3>2. j - d \in 1..r.whole - d
      BY <1>1, <1>2, <1>3, <2>1, <2>2, <3>1
    <3>3. j - d + d = j
      BY <1>1
    <3>4. lines'[j - d] = OwnPart(c)
      BY <1>3, <2>1, <3>1, <3>2, <3>3
    <3> QED
      BY <1>3, <3>2, <3>4
  <2>3. CASE j > r.whole
    <3>1. j - r.whole \in 1..Len(wire) - r.whole /\ r.whole + (j - r.whole) = j
      BY <1>1, <2>3
    <3>2. /\ Len(wire') = Len(wire) - r.whole
          /\ wire'[j - r.whole] = IF j - r.whole = 1 /\ Cut(r)
                                  THEN [wire[r.whole + 1] EXCEPT !.from = r.to]
                                  ELSE wire[r.whole + (j - r.whole)]
      BY <1>1, <3>1, UnreadLines DEF handleServerReply
    <3>3. CASE j - r.whole = 1 /\ Cut(r)
      <4>1. Torn(r) = OwnPart(c)
        BY <1>1, <1>5, <3>1, <3>3 DEF Torn
      <4>2. OwnPart(c) = [Torn(r) EXCEPT !.from = Start]
        BY <2>1, <4>1 DEF OwnPart, Line
      <4>3. OwnPart(c) \in Losses(r)
        BY <3>3, <4>2 DEF Losses, Loses
      <4> QED
        BY <4>3 DEF handleServerReply
    <3>4. CASE ~(j - r.whole = 1 /\ Cut(r))
      BY <1>5, <3>1, <3>2, <3>4
    <3> QED
      BY <3>3, <3>4
  <2> QED
    BY <1>1, <2>2, <2>3
<1> QED
  BY <1>3, <1>4, <1>5

LEMMA TypedReply == ASSUME Typed, NEW r \in Reads, handleServerReply(r) PROVE Typed'
<1>1. /\ wire' \in Seq(Lines)
      /\ \A i \in 1..Len(wire') : wire'[i].type = "JOIN" => wire'[i].channel \in Channels
  BY UnreadTyped DEF handleServerReply
<1>2. PICK d \in {0, 1} :
         /\ lines' \in Seq(Lines) /\ Len(lines') = r.whole - d
         /\ \A i \in 1..Len(lines') :
               /\ i + d \in 1..Len(wire)
               /\ lines'[i].type = "JOIN" => lines'[i] = wire[i + d]
  BY ReadKeeps
<1>3. \A i \in 1..Len(lines') : lines'[i].type = "JOIN" => lines'[i].channel \in Channels
  BY <1>2 DEF Typed, Named
<1>4. lost' \subseteq {Ping} \cup {OwnPart(c) : c \in Channels}
  BY DEF Typed, TypeOK, handleServerReply, Losses
<1>5. TypeOK'
  BY <1>1, <1>2, <1>4 DEF Typed, TypeOK, handleServerReply, shared, server
<1>6. Named'
  BY <1>1, <1>3 DEF Typed, Named, handleServerReply, shared, server
<1> QED
  BY <1>5, <1>6 DEF Typed

(* The lines still to be executed, without the first of them.              *)
LEMMA RestOfLines ==
    ASSUME Typed, lines # << >>
    PROVE  /\ Head(lines) = lines[1] /\ Head(lines) \in Lines
           /\ Tail(lines) \in Seq(Lines) /\ Len(lines) \in Nat \ {0}
           /\ Len(Tail(lines)) = Len(lines) - 1
           /\ \A i \in 1..Len(lines) - 1 :
                 i + 1 \in 1..Len(lines) /\ Tail(lines)[i] = lines[i + 1]
           /\ Head(lines).type = "JOIN" => Head(lines).channel \in Channels
           /\ Head(lines).channel \in Channels \cup {NoChannel}
<1>1. lines \in Seq(Lines)
  BY DEF Typed, TypeOK
<1>2. /\ Head(lines) \in Lines /\ Tail(lines) \in Seq(Lines)
      /\ Len(Tail(lines)) = Len(lines) - 1
      /\ \A i \in 1..Len(Tail(lines)) : Tail(lines)[i] = lines[i + 1]
  BY <1>1, HeadTailProperties
<1>3. Len(lines) \in Nat \ {0} /\ Head(lines) = lines[1]
  BY <1>1
<1>4. Head(lines).type = "JOIN" => Head(lines).channel \in Channels
  BY <1>3 DEF Typed, Named
<1> QED
  BY <1>2, <1>3, <1>4 DEF Lines

LEMMA TypedExecute == ASSUME Typed, execute PROVE Typed'
<1> DEFINE line == Head(lines)
<1>1. PICK outcome \in parse(line) :
         /\ IF outcome = "abort"
            THEN pc' = "dead" /\ UNCHANGED lines
            ELSE lines' = Tail(lines) /\ UNCHANGED pc
         /\ IF outcome = "command" /\ line.type \in {"JOIN", "PART"}
            THEN name' = CurrentAfter(line) /\ channels' = ListedAfter(line)
            ELSE UNCHANGED shared
         /\ IF outcome = "command" /\ line.type = "PING"
            THEN outbox' = Append(outbox, Command("PONG", NoChannel))
            ELSE UNCHANGED outbox
  BY DEF execute
<1>2. /\ line \in Lines /\ line.channel \in Channels \cup {NoChannel}
      /\ line.type = "JOIN" => line.channel \in Channels
  BY RestOfLines DEF execute
<1>3. /\ lines' \in Seq(Lines)
      /\ \A i \in 1..Len(lines') : lines'[i].type = "JOIN" => lines'[i].channel \in Channels
  <2>1. CASE lines' = lines
    BY <2>1 DEF Typed, TypeOK, Named
  <2>2. CASE lines' = Tail(lines)
    BY <2>2, RestOfLines DEF Typed, Named, execute
  <2> QED
    BY <1>1, <2>1, <2>2
<1>4. name' \in Channels \cup {NoChannel} /\ channels' \subseteq Channels
  BY <1>1, <1>2 DEF Typed, TypeOK, shared, CurrentAfter, ListedAfter
<1>5. /\ outbox' \in Seq(Commands)
      /\ \A i \in 1..Len(outbox') :
            outbox'[i].cmd = "JOIN" => outbox'[i].channel \in Channels
  <2>1. CASE outbox' = outbox
    BY <2>1 DEF Typed, TypeOK, Named
  <2>2. CASE outbox' = Append(outbox, Command("PONG", NoChannel))
    BY <2>2, CommandTypes, Commanded DEF Command
  <2> QED
    BY <1>1, <2>1, <2>2
<1>6. pc' \in {"poll", "dead"}
  BY <1>1 DEF execute
<1>7. TypeOK'
  BY <1>3, <1>4, <1>5, <1>6 DEF Typed, TypeOK, execute, server
<1>8. Named'
  BY <1>3, <1>5 DEF Typed, Named, execute, server
<1> QED
  BY <1>7, <1>8 DEF Typed

LEMMA TypedDies == ASSUME Typed, Dies PROVE Typed'
<1>1. TypeOK'
  BY DEF Typed, TypeOK, Dies, shared, server
<1>2. Named'
  BY DEF Typed, Named, Dies, shared, server
<1> QED
  BY <1>1, <1>2 DEF Typed

(* What the user types is at most one command, and never one that the     *)
(* network thread sends.                                                   *)
LEMMA InputCommands ==
    ASSUME NEW input \in Inputs, NEW channel \in Channels \cup {NoChannel}
    PROVE  \/ createIrcCommand(input, channel) = << >>
           \/ \E command \in Commands :
                 /\ createIrcCommand(input, channel) = <<command>>
                 /\ command.cmd # "PONG"
                 /\ command.cmd = "JOIN" => command.channel \in Channels
<1>1. CASE input.word = "/join"
  <2>1. input.channel \in Channels
    BY <1>1 DEF Inputs
  <2>2. createIrcCommand(input, channel) = <<Command("JOIN", input.channel)>>
    BY <1>1 DEF createIrcCommand
  <2> QED
    BY <2>1, <2>2, CommandTypes DEF Command
<1>2. CASE input.word = "/part"
  <2>1. input.channel \in Channels
    BY <1>2 DEF Inputs
  <2>2. createIrcCommand(input, channel) = <<Command("PART", input.channel)>>
    BY <1>2 DEF createIrcCommand
  <2> QED
    BY <2>1, <2>2, CommandTypes DEF Command
<1>3. CASE input.word = "/nick"
  <2>1. createIrcCommand(input, channel) = <<Command("NICK", NoChannel)>>
    BY <1>3 DEF createIrcCommand
  <2> QED
    BY <2>1, CommandTypes DEF Command
<1>4. CASE input.word = "text"
  <2>1. createIrcCommand(input, channel) = <<Command("PRIVMSG", channel)>>
    BY <1>4 DEF createIrcCommand
  <2> QED
    BY <2>1, CommandTypes DEF Command
<1>5. CASE input.word \notin {"/join", "/part", "/nick", "text"}
  BY <1>5 DEF createIrcCommand
<1> QED
  BY <1>1, <1>2, <1>3, <1>4, <1>5

LEMMA TypedInput == ASSUME Typed, NEW input \in Inputs, uiCmd(input) PROVE Typed'
<1>1. name \in Channels \cup {NoChannel} /\ outbox \in Seq(Commands)
  BY DEF Typed, TypeOK
<1>2. /\ outbox' \in Seq(Commands)
      /\ \A i \in 1..Len(outbox') :
            outbox'[i].cmd = "JOIN" => outbox'[i].channel \in Channels
  <2>1. CASE outbox' = outbox
    BY <2>1 DEF Typed, TypeOK, Named
  <2>2. CASE outbox' = outbox \o createIrcCommand(input, name)
             /\ createIrcCommand(input, name) # << >>
    <3>1. PICK command \in Commands :
             /\ createIrcCommand(input, name) = <<command>>
             /\ command.cmd = "JOIN" => command.channel \in Channels
      BY <1>1, <2>2, InputCommands
    <3>2. outbox' = Append(outbox, command)
      BY <1>1, <2>2, <3>1, AppendIsConcat
    <3> QED
      BY <3>1, <3>2, Commanded
  <2> QED
    BY <2>1, <2>2 DEF uiCmd
<1>3. typed' \in 0..MaxTyped
  BY BoundsAssumption DEF Typed, TypeOK, uiCmd
<1>4. pc' \in {pc, "dead"}
  BY DEF uiCmd
<1>5. TypeOK'
  BY <1>2, <1>3, <1>4 DEF Typed, TypeOK, uiCmd, shared, server
<1>6. Named'
  BY <1>2 DEF Typed, Named, uiCmd, shared, server
<1> QED
  BY <1>5, <1>6 DEF Typed

LEMMA FirstCommand ==
    ASSUME Typed, outbox # << >>, outbox' = Tail(outbox)
    PROVE  /\ outbox' \in Seq(Commands) /\ Len(outbox) \in Nat \ {0}
           /\ Head(outbox) = outbox[1] /\ Head(outbox) \in Commands
           /\ Len(outbox') = Len(outbox) - 1
           /\ \A i \in 1..Len(outbox') :
                 i + 1 \in 1..Len(outbox) /\ outbox'[i] = outbox[i + 1]
           /\ \A i \in 1..Len(outbox') :
                 outbox'[i].cmd = "JOIN" => outbox'[i].channel \in Channels
           /\ Head(outbox).cmd = "JOIN" => Head(outbox).channel \in Channels
<1>1. outbox \in Seq(Commands) /\ Len(outbox) \in Nat \ {0}
  BY DEF Typed, TypeOK
<1>2. /\ Head(outbox) \in Commands /\ outbox' \in Seq(Commands)
      /\ Len(outbox') = Len(outbox) - 1
      /\ \A i \in 1..Len(outbox') : outbox'[i] = outbox[i + 1]
  BY <1>1, HeadTailProperties
<1>3. Head(outbox) = outbox[1]
  BY <1>1
<1>4. \A i \in 1..Len(outbox') : i + 1 \in 1..Len(outbox)
  BY <1>1, <1>2
<1> QED
  BY <1>1, <1>2, <1>3, <1>4 DEF Typed, Named

(* How the server answers a command: with a line that speaks of no own     *)
(* PART, or by taking the client into a channel or out of one.             *)
LEMMA Answers ==
    ASSUME Typed, serve
    PROVE  \/ UNCHANGED <<wire, member>>
           \/ \E line \in {Ping, Shown} : Sends(line) /\ UNCHANGED member
           \/ \E c \in Channels : /\ session = "registered"
                                  /\ member' = member \cup {c}
                                  /\ Sends(Line("JOIN", Me, c))
           \/ \E c \in member : /\ session = "registered"
                                /\ member' = member \ {c} /\ Sends(OwnPart(c))
<1>1. Head(outbox).cmd = "JOIN" => Head(outbox).channel \in Channels
  BY FirstCommand DEF serve
<1> QED
  BY <1>1 DEF serve, OwnPart

LEMMA TypedServe == ASSUME Typed, serve PROVE Typed'
<1>1. /\ outbox' \in Seq(Commands)
      /\ \A i \in 1..Len(outbox') :
            outbox'[i].cmd = "JOIN" => outbox'[i].channel \in Channels
  BY FirstCommand DEF serve
<1>2. /\ wire' \in Seq(Lines) /\ member' \subseteq Channels
      /\ \A i \in 1..Len(wire') : wire'[i].type = "JOIN" => wire'[i].channel \in Channels
  <2>1. CASE UNCHANGED <<wire, member>>
    BY <2>1 DEF Typed, TypeOK, Named
  <2>2. ASSUME NEW line \in {Ping, Shown}, Sends(line), UNCHANGED member
        PROVE  /\ wire' \in Seq(Lines) /\ member' \subseteq Channels
               /\ \A i \in 1..Len(wire') :
                     wire'[i].type = "JOIN" => wire'[i].channel \in Channels
    <3>1. line \in Lines /\ line.type # "JOIN"
      BY KnownLines DEF Ping, Shown, Line
    <3> QED
      BY <2>2, <3>1, Sent DEF Typed, TypeOK
  <2>3. ASSUME NEW c \in Channels, member' = member \cup {c}, Sends(Line("JOIN", Me, c))
        PROVE  /\ wire' \in Seq(Lines) /\ member' \subseteq Channels
               /\ \A i \in 1..Len(wire') :
                     wire'[i].type = "JOIN" => wire'[i].channel \in Channels
    <3>1. Line("JOIN", Me, c) \in Lines /\ Line("JOIN", Me, c).channel \in Channels
      BY LineTypes DEF Types, Line
    <3> QED
      BY <2>3, <3>1, Sent DEF Typed, TypeOK
  <2>4. ASSUME NEW c \in member, member' = member \ {c}, Sends(OwnPart(c))
        PROVE  /\ wire' \in Seq(Lines) /\ member' \subseteq Channels
               /\ \A i \in 1..Len(wire') :
                     wire'[i].type = "JOIN" => wire'[i].channel \in Channels
    <3>1. c \in Channels /\ member' \subseteq Channels
      BY <2>4 DEF Typed, TypeOK
    <3>2. OwnPart(c) \in Lines /\ OwnPart(c).type # "JOIN"
      BY <3>1, KnownLines DEF OwnPart, Line
    <3> QED
      BY <2>4, <3>1, <3>2, Sent
  <2> QED
    BY <2>1, <2>2, <2>3, <2>4, Answers
<1>3. session' \in {"none", "asked", "registered", "closed"} /\ pinged' \in BOOLEAN
  <2>1. session' \in {session, "asked", "registered"}
    BY DEF serve
  <2>2. pinged' = pinged \/ pinged' = FALSE
    BY DEF serve
  <2> QED
    BY <2>1, <2>2 DEF Typed, TypeOK
<1>4. TypeOK'
  BY <1>1, <1>2, <1>3 DEF Typed, TypeOK, serve, shared, network
<1>5. Named'
  BY <1>1, <1>2 DEF Typed, Named, serve, shared, network
<1> QED
  BY <1>4, <1>5 DEF Typed

LEMMA TypedUnasked ==
    ASSUME Typed, NEW line \in Lines, Unasked(line), pinged' \in BOOLEAN,
           line.type = "JOIN" => line.channel \in Channels
    PROVE  Typed'
<1>1. /\ wire' \in Seq(Lines)
      /\ \A i \in 1..Len(wire') : wire'[i].type = "JOIN" => wire'[i].channel \in Channels
  BY Sent DEF Unasked
<1>2. sent' \in 0..MaxSent
  BY BoundsAssumption DEF Typed, TypeOK, Unasked
<1>3. TypeOK'
  BY <1>1, <1>2 DEF Typed, TypeOK, Unasked, shared, network
<1>4. Named'
  BY <1>1 DEF Typed, Named, Unasked, shared, network
<1> QED
  BY <1>3, <1>4 DEF Typed

LEMMA TypedPings == ASSUME Typed, Pings PROVE Typed'
<1>1. Ping \in Lines /\ Ping.type # "JOIN" /\ Unasked(Ping) /\ pinged' \in BOOLEAN
  BY KnownLines DEF Ping, Line, Pings
<1> QED
  BY <1>1, TypedUnasked

LEMMA TypedTalks == ASSUME Typed, Talks PROVE Typed'
<1>1. Shown \in Lines /\ Shown.type # "JOIN" /\ Unasked(Shown) /\ pinged' \in BOOLEAN
  BY KnownLines DEF Shown, Line, Talks, Typed, TypeOK
<1> QED
  BY <1>1, TypedUnasked

LEMMA TypedHappens ==
    ASSUME Typed, NEW type \in {"JOIN", "PART"}, NEW user \in Others,
           NEW channel \in Channels, Happens(type, user, channel)
    PROVE  Typed'
<1>1. Line(type, user, channel) \in Lines /\ Line(type, user, channel).channel \in Channels
  BY LineTypes DEF Types, Line
<1>2. Unasked(Line(type, user, channel)) /\ pinged' \in BOOLEAN
  BY DEF Happens, Typed, TypeOK
<1> QED
  BY <1>1, <1>2, TypedUnasked

LEMMA TypedHangsUp == ASSUME Typed, HangsUp PROVE Typed'
<1>1. TypeOK'
  BY DEF Typed, TypeOK, HangsUp, shared, network
<1>2. Named'
  BY DEF Typed, Named, HangsUp, shared, network
<1> QED
  BY <1>1, <1>2 DEF Typed

LEMMA TypedNext == Typed /\ [Next]_vars => Typed'
<1> SUFFICES ASSUME Typed, [Next]_vars PROVE Typed'
  OBVIOUS
<1>1. CASE connect
  BY <1>1, TypedConnect
<1>2. CASE \E r \in Reads : Greeted(r) \/ Registers(r) \/ handleServerReply(r)
  BY <1>2, TypedGreeted, TypedRegisters, TypedReply
<1>3. CASE execute
  BY <1>3, TypedExecute
<1>4. CASE EndOfStream \/ Race
  BY <1>4, TypedDies DEF EndOfStream, Race
<1>5. CASE \E input \in Inputs : uiCmd(input)
  BY <1>5, TypedInput
<1>6. CASE serve
  BY <1>6, TypedServe
<1>7. CASE Pings \/ Talks \/ HangsUp
  BY <1>7, TypedPings, TypedTalks, TypedHangsUp
<1>8. CASE \E type \in {"JOIN", "PART"}, user \in Others, channel \in Channels :
              Happens(type, user, channel)
  BY <1>8, TypedHappens
<1>9. CASE UNCHANGED vars
  <2>1. TypeOK'
    BY <1>9 DEF Typed, TypeOK, vars, network, shared, server
  <2>2. Named'
    BY <1>9 DEF Typed, Named, vars, network, shared, server
  <2> QED
    BY <2>1, <2>2 DEF Typed
<1> QED
  BY <1>1, <1>2, <1>3, <1>4, <1>5, <1>6, <1>7, <1>8, <1>9 DEF Next, Network

(* Every variable keeps its type, for any users and channels: the client   *)
(* and the server only join what has a name (IrcClient, Tui).              *)
THEOREM TypeCorrect == Spec => []TypeOK
<1>1. Typed => TypeOK
  BY DEF Typed
<1> QED
  BY <1>1, TypedInit, TypedNext, PTL DEF Spec

-----------------------------------------------------------------------------
(* The channels *)

Known(c) == c \in member \/ OwnPart(c) \in lost

PartBehind(s, i, c) == \E j \in i..Len(s) : s[j] = OwnPart(c)

Joins(line, c) == line.type = "JOIN" /\ line.from = Start /\ line.channel = c

(* What the client has of a channel and the JOINs that are on their way to *)
(* it stand before an own PART, unless the server has the client in it.    *)
ListedKnown(c) ==
    c \in channels \cup {name} =>
        Known(c) \/ PartBehind(lines, 1, c) \/ PartBehind(wire, 1, c)

LinesKnown(c) ==
    \A i \in 1..Len(lines) :
        Joins(lines[i], c) =>
            Known(c) \/ PartBehind(lines, i, c) \/ PartBehind(wire, 1, c)

WireKnown(c) ==
    \A i \in 1..Len(wire) : Joins(wire[i], c) => Known(c) \/ PartBehind(wire, i, c)

ChannelKnown(c) == ListedKnown(c) /\ LinesKnown(c) /\ WireKnown(c)

(* Before the registration nothing is joined, so that what connect() reads *)
(* and drops is neither a JOIN nor a PART.                                 *)
Unregistered ==
    pc \in {"socket", "greeting", "register"} =>
        /\ session # "registered"
        /\ member = {} /\ channels = {} /\ name = NoChannel /\ lines = << >>
        /\ \A i \in 1..Len(outbox) : outbox[i].cmd # "PONG"
        /\ \A i \in 1..Len(wire) : wire[i].type # "JOIN"

ChannelsKnown ==
    /\ Unregistered
    /\ \A c \in Channels : ChannelKnown(c)
    /\ CurrentIsListed

LEMMA ChannelsInit == Init => ChannelsKnown
<1> SUFFICES ASSUME Init PROVE ChannelsKnown
  OBVIOUS
<1>1. Len(wire) = 0 /\ Len(lines) = 0 /\ Len(outbox) = 0
  BY DEF Init
<1>2. Unregistered
  BY <1>1 DEF Init, Unregistered
<1>3. \A c \in Channels : ChannelKnown(c)
  BY <1>1, NamesAssumption
     DEF Init, ChannelKnown, ListedKnown, LinesKnown, WireKnown
<1>4. CurrentIsListed
  BY DEF Init, CurrentIsListed
<1> QED
  BY <1>2, <1>3, <1>4 DEF ChannelsKnown

(* A step that neither reads nor sends a line, nor takes the client out of *)
(* a channel.                                                              *)
LEMMA StillKnown ==
    ASSUME ChannelsKnown, UNCHANGED <<wire, lines, shared>>,
           member \subseteq member', lost \subseteq lost'
    PROVE  CurrentIsListed' /\ \A c \in Channels : ChannelKnown(c)'
<1>1. \A c : Known(c) => Known(c)'
  BY DEF Known
<1>2. \A c, i : /\ PartBehind(lines, i, c)' = PartBehind(lines, i, c)
                /\ PartBehind(wire, i, c)' = PartBehind(wire, i, c)
  BY DEF PartBehind
<1>3. \A c \in Channels : ChannelKnown(c)
  BY DEF ChannelsKnown
<1>4. ASSUME NEW c \in Channels
      PROVE  ListedKnown(c)' /\ LinesKnown(c)' /\ WireKnown(c)'
  <2>1. ListedKnown(c)'
    BY <1>1, <1>2, <1>3 DEF ChannelKnown, ListedKnown, shared
  <2>2. LinesKnown(c)'
    BY <1>1, <1>2, <1>3 DEF ChannelKnown, LinesKnown, Joins
  <2>3. WireKnown(c)'
    BY <1>1, <1>2, <1>3 DEF ChannelKnown, WireKnown, Joins
  <2> QED
    BY <2>1, <2>2, <2>3
<1>5. CurrentIsListed'
  BY DEF ChannelsKnown, CurrentIsListed, shared
<1> QED
  BY <1>4, <1>5 DEF ChannelKnown

(* A line is sent: the server has the client in the channel of a JOIN, and *)
(* takes it out of one only with an own PART.                              *)
LEMMA SentKnown ==
    ASSUME Typed, ChannelsKnown, NEW line \in Lines, Sends(line),
           line.type = "JOIN" => line.channel \in member',
           \A c \in member : c \in member' \/ line = OwnPart(c),
           member' \subseteq Channels, UNCHANGED <<lines, shared, lost>>
    PROVE  CurrentIsListed' /\ \A c \in Channels : ChannelKnown(c)'
<1> DEFINE n == Len(wire)
<1>1. /\ n \in Nat /\ Len(wire') = n + 1 /\ wire'[n + 1] = line
      /\ \A i \in 1..n : wire'[i] = wire[i]
  BY Sent DEF Typed, TypeOK
<1> HIDE DEF n
<1>2. \A c : Known(c) => Known(c)' \/ line = OwnPart(c)
  BY DEF Known
<1>3. ASSUME NEW c, NEW i \in 1..n + 1,
             Known(c) \/ PartBehind(wire, i, c) \/ line = OwnPart(c)
      PROVE  Known(c)' \/ PartBehind(wire, i, c)'
  <2>1. CASE line = OwnPart(c)
    <3>1. n + 1 \in i..Len(wire')
      BY <1>1
    <3> QED
      BY <1>1, <2>1, <3>1 DEF PartBehind, OwnPart, Line
  <2>2. CASE PartBehind(wire, i, c)
    <3>1. PICK j \in i..n : wire[j] = OwnPart(c)
      BY <2>2 DEF PartBehind, n
    <3>2. j \in i..Len(wire') /\ wire'[j] = OwnPart(c)
      BY <1>1, <3>1
    <3> QED
      BY <3>2 DEF PartBehind, OwnPart, Line
  <2> QED
    BY <1>2, <1>3, <2>1, <2>2
<1>4. \A c, i : PartBehind(lines, i, c)' = PartBehind(lines, i, c)
  BY DEF PartBehind
<1>5. \A c \in Channels : ChannelKnown(c)
  BY DEF ChannelsKnown
<1>6. 1 \in 1..n + 1
  BY <1>1
<1>7. ASSUME NEW c \in Channels
      PROVE  ListedKnown(c)' /\ LinesKnown(c)' /\ WireKnown(c)'
  <2>1. ListedKnown(c)'
    BY <1>3, <1>4, <1>5, <1>6 DEF ChannelKnown, ListedKnown, shared
  <2>2. LinesKnown(c)'
    BY <1>3, <1>4, <1>5, <1>6 DEF ChannelKnown, LinesKnown, Joins
  <2>3. ASSUME NEW i \in 1..Len(wire'), Joins(wire'[i], c)
        PROVE  Known(c)' \/ PartBehind(wire, i, c)'
    <3>1. CASE i \in 1..n
      <4>1. Joins(wire[i], c)
        BY <1>1, <2>3, <3>1 DEF Joins
      <4>2. Known(c) \/ PartBehind(wire, i, c)
        BY <1>5, <3>1, <4>1 DEF ChannelKnown, WireKnown, n
      <4>3. i \in 1..n + 1
        BY <1>1, <2>3
      <4> QED
        BY <1>3, <4>2, <4>3
    <3>2. CASE i = n + 1
      BY <1>1, <2>3, <3>2 DEF Joins, Known
    <3> QED
      BY <1>1, <2>3, <3>1, <3>2
  <2>4. WireKnown(c)'
    BY <2>3 DEF WireKnown, Joins
  <2> QED
    BY <2>1, <2>2, <2>4
<1>8. CurrentIsListed'
  BY DEF ChannelsKnown, CurrentIsListed, shared
<1> QED
  BY <1>7, <1>8 DEF ChannelKnown

(* The lines behind a JOIN or PART stay there when a read takes them.      *)
LEMMA ReadKnown ==
    ASSUME Typed, ChannelsKnown, NEW r \in Reads, handleServerReply(r)
    PROVE  CurrentIsListed' /\ \A c \in Channels : ChannelKnown(c)'
<1>1. PICK d \in {0, 1} :
         /\ lines' \in Seq(Lines) /\ Len(lines') = r.whole - d
         /\ \A i \in 1..Len(lines') :
               /\ i + d \in 1..Len(wire)
               /\ lines'[i].type = "JOIN" => lines'[i] = wire[i + d]
         /\ \A c \in Channels, j \in 1..Len(wire) :
               wire[j] = OwnPart(c) =>
                  \/ OwnPart(c) \in lost'
                  \/ j - d \in 1..Len(lines') /\ lines'[j - d] = OwnPart(c)
                  \/ /\ j - r.whole \in 1..Len(wire')
                     /\ wire'[j - r.whole] = OwnPart(c)
  BY ReadKeeps
<1>2. /\ wire' \in Seq(Lines)
      /\ \A k \in 1..Len(wire') :
            /\ r.whole + k \in 1..Len(wire)
            /\ wire'[k].from = Start => wire'[k] = wire[r.whole + k]
  BY UnreadTyped DEF handleServerReply
<1>3. /\ Len(wire) \in Nat /\ r.whole \in 0..Len(wire)
      /\ Len(wire') \in Nat /\ Len(lines') \in Nat
  BY <1>1, <1>2, ReadBounds DEF Typed, TypeOK
<1>4. \A c \in Channels : ChannelKnown(c)
  BY DEF ChannelsKnown
<1>5. \A c : Known(c) => Known(c)'
  BY DEF Known, handleServerReply, server
<1>6. ASSUME NEW c \in Channels, NEW i \in 1..Len(wire), PartBehind(wire, i, c)
      PROVE  \/ Known(c)'
             \/ \E j \in i..Len(wire) :
                   j - d \in 1..Len(lines') /\ lines'[j - d] = OwnPart(c)
             \/ \E j \in i..Len(wire) :
                   j - r.whole \in 1..Len(wire') /\ wire'[j - r.whole] = OwnPart(c)
  <2>1. PICK j \in i..Len(wire) : wire[j] = OwnPart(c)
    BY <1>6 DEF PartBehind
  <2>2. j \in 1..Len(wire)
    BY <1>3, <2>1
  <2>3. OwnPart(c)' = OwnPart(c)
    BY DEF OwnPart, Line
  <2> QED
    BY <1>1, <2>1, <2>2, <2>3 DEF Known
<1>7. ASSUME NEW c \in Channels
      PROVE  ListedKnown(c)' /\ LinesKnown(c)' /\ WireKnown(c)'
  <2> DEFINE InLines(i) == \E j \in i..Len(lines') : lines'[j] = OwnPart(c)
             InWire(i) == \E j \in i..Len(wire') : wire'[j] = OwnPart(c)
  <2>1. \A i : PartBehind(lines, i, c)' = InLines(i) /\ PartBehind(wire, i, c)' = InWire(i)
    BY DEF PartBehind, OwnPart, Line
  <2>2. ASSUME NEW i \in 1..Len(wire), NEW a \in Nat \ {0}, a + d <= i,
               PartBehind(wire, i, c)
        PROVE  Known(c)' \/ InLines(a) \/ InWire(1)
    <3>1. CASE \E j \in i..Len(wire) :
                  j - d \in 1..Len(lines') /\ lines'[j - d] = OwnPart(c)
      <4>1. PICK j \in i..Len(wire) :
                  j - d \in 1..Len(lines') /\ lines'[j - d] = OwnPart(c)
        BY <3>1
      <4>2. j - d \in a..Len(lines')
        BY <1>3, <2>2, <4>1
      <4> QED
        BY <4>1, <4>2
    <3> QED
      BY <1>6, <2>2, <3>1
  <2>3. ListedKnown(c)'
    <3>1. lines = << >> /\ UNCHANGED shared
      BY DEF handleServerReply
    <3>2. SUFFICES ASSUME c \in channels \cup {name}
                   PROVE  Known(c)' \/ InLines(1) \/ InWire(1)
      BY <2>1, <3>1 DEF ListedKnown, shared
    <3>3. Known(c) \/ PartBehind(wire, 1, c)
      BY <1>4, <3>1, <3>2 DEF ChannelKnown, ListedKnown, PartBehind
    <3>4. ASSUME PartBehind(wire, 1, c)
          PROVE  Known(c)' \/ InLines(1) \/ InWire(1)
      <4>1. PICK j \in 1..Len(wire) : wire[j] = OwnPart(c)
        BY <3>4 DEF PartBehind
      <4>2. \/ OwnPart(c) \in lost'
            \/ j - d \in 1..Len(lines') /\ lines'[j - d] = OwnPart(c)
            \/ j - r.whole \in 1..Len(wire') /\ wire'[j - r.whole] = OwnPart(c)
        BY <1>1, <4>1
      <4> QED
        BY <4>2 DEF Known, OwnPart, Line
    <3> QED
      BY <1>5, <3>3, <3>4
  <2>4. ASSUME NEW i \in 1..Len(lines'), Joins(lines'[i], c)
        PROVE  Known(c)' \/ InLines(i) \/ InWire(1)
    <3>1. i + d \in 1..Len(wire) /\ Joins(wire[i + d], c)
      BY <1>1, <2>4 DEF Joins
    <3>2. Known(c) \/ PartBehind(wire, i + d, c)
      BY <1>4, <3>1 DEF ChannelKnown, WireKnown
    <3>3. i \in Nat \ {0} /\ i + d <= i + d
      BY <1>3, <2>4
    <3> QED
      BY <1>5, <2>2, <3>1, <3>2, <3>3
  <2>5. ASSUME NEW k \in 1..Len(wire'), Joins(wire'[k], c)
        PROVE  Known(c)' \/ InWire(k)
    <3>1. r.whole + k \in 1..Len(wire) /\ Joins(wire[r.whole + k], c)
      BY <1>2, <2>5 DEF Joins
    <3>2. Known(c) \/ PartBehind(wire, r.whole + k, c)
      BY <1>4, <3>1 DEF ChannelKnown, WireKnown
    <3>3. \A j \in r.whole + k..Len(wire) : ~(j - d \in 1..Len(lines'))
      BY <1>1, <1>3, <2>5
    <3>4. CASE PartBehind(wire, r.whole + k, c)
      <4>1. \/ Known(c)'
            \/ \E j \in r.whole + k..Len(wire) :
                  j - r.whole \in 1..Len(wire') /\ wire'[j - r.whole] = OwnPart(c)
        BY <1>6, <3>1, <3>3, <3>4
      <4>2. \A j \in r.whole + k..Len(wire) :
               j - r.whole \in 1..Len(wire') => j - r.whole \in k..Len(wire')
        BY <1>3, <2>5
      <4> QED
        BY <4>1, <4>2
    <3> QED
      BY <1>5, <3>2, <3>4
  <2> HIDE DEF InLines, InWire
  <2>6. LinesKnown(c)'
    BY <2>1, <2>4 DEF LinesKnown, Joins
  <2>7. WireKnown(c)'
    BY <2>1, <2>5 DEF WireKnown, Joins
  <2> QED
    BY <2>3, <2>6, <2>7
<1>8. CurrentIsListed'
  BY DEF ChannelsKnown, CurrentIsListed, shared, handleServerReply
<1> QED
  BY <1>7, <1>8 DEF ChannelKnown

(* An own PART is executed as one, and then the channel is gone; every     *)
(* other line leaves the PARTs behind it where they are.                   *)
LEMMA ExecuteKnown ==
    ASSUME Typed, ChannelsKnown, execute
    PROVE  CurrentIsListed' /\ \A c \in Channels : ChannelKnown(c)'
<1> DEFINE line == Head(lines)
<1>1. PICK outcome \in parse(line) :
         /\ IF outcome = "abort"
            THEN pc' = "dead" /\ UNCHANGED lines
            ELSE lines' = Tail(lines) /\ UNCHANGED pc
         /\ IF outcome = "command" /\ line.type \in {"JOIN", "PART"}
            THEN name' = CurrentAfter(line) /\ channels' = ListedAfter(line)
            ELSE UNCHANGED shared
  BY DEF execute
<1>2. /\ line = lines[1] /\ line \in Lines /\ Len(lines) \in Nat \ {0}
      /\ Len(Tail(lines)) = Len(lines) - 1
      /\ \A i \in 1..Len(lines) - 1 :
            i + 1 \in 1..Len(lines) /\ Tail(lines)[i] = lines[i + 1]
      /\ line.type = "JOIN" => line.channel \in Channels
  BY RestOfLines DEF execute
<1>3. UNCHANGED <<wire, member, lost>>
  BY DEF execute, server
<1>4. outcome = "command" => line.from = Start
  BY <1>1, <1>2, CommandsAreWhole
<1>5. ASSUME line.from = Start
      PROVE  outcome = "command"
  <2>1. parse(line) = {"command"}
    BY <1>5 DEF parse, Refused
  <2> QED
    BY <1>1, <2>1
<1>6. \A c \in Channels : ChannelKnown(c)
  BY DEF ChannelsKnown
<1>7. \A c : Known(c)' = Known(c) /\ \A i : PartBehind(wire, i, c)' = PartBehind(wire, i, c)
  BY <1>3 DEF Known, PartBehind
<1> HIDE DEF line
<1>8. CASE outcome = "abort"
  <2>1. UNCHANGED <<wire, lines, shared>> /\ member \subseteq member' /\ lost \subseteq lost'
    BY <1>1, <1>3, <1>8
  <2> QED
    BY <2>1, StillKnown
<1>9. CASE outcome # "abort"
  <2>1. /\ lines' = Tail(lines) /\ Len(lines') = Len(lines) - 1 /\ Len(lines') \in Nat
        /\ \A i \in 1..Len(lines') : i + 1 \in 1..Len(lines) /\ lines'[i] = lines[i + 1]
    <3>1. lines' = Tail(lines)
      BY <1>1, <1>9
    <3>2. Len(lines') = Len(lines) - 1 /\ Len(lines') \in Nat
      BY <1>2, <3>1
    <3> QED
      BY <1>2, <3>1, <3>2
  <2>2. ASSUME NEW c, NEW i \in Nat \ {0}, PartBehind(lines, i + 1, c)
        PROVE  PartBehind(lines, i, c)'
    <3>1. PICK j \in i + 1..Len(lines) : lines[j] = OwnPart(c)
      BY <2>2 DEF PartBehind
    <3>2. j - 1 \in i..Len(lines') /\ j - 1 \in 1..Len(lines') /\ j - 1 + 1 = j
      BY <1>2, <2>1, <2>2
    <3>3. lines'[j - 1] = OwnPart(c)
      BY <2>1, <3>1, <3>2
    <3> QED
      BY <3>2, <3>3 DEF PartBehind, OwnPart, Line
  <2>3. ASSUME NEW c, PartBehind(lines, 1, c), line # OwnPart(c)
        PROVE  PartBehind(lines, 1, c)'
    <3>1. PICK j \in 1..Len(lines) : lines[j] = OwnPart(c)
      BY <2>3 DEF PartBehind
    <3>2. j \in 1 + 1..Len(lines)
      BY <1>2, <2>3, <3>1
    <3>3. PartBehind(lines, 1 + 1, c)
      BY <3>1, <3>2 DEF PartBehind
    <3> QED
      BY <2>2, <3>3
  <2>4. ASSUME NEW c \in Channels
        PROVE  ListedKnown(c)'
    <3> DEFINE OnTheWay == PartBehind(lines, 1, c)' \/ PartBehind(wire, 1, c)'
    <3>1. ListedKnown(c) /\ LinesKnown(c)
      BY <1>6 DEF ChannelKnown
    <3>2. SUFFICES ASSUME c \in channels' \cup {name'}
                   PROVE  Known(c)' \/ OnTheWay
      BY DEF ListedKnown
    <3> HIDE DEF OnTheWay
    <3>3. c # NoChannel
      BY NamesAssumption
    <3>4. CASE Joins(line, c)
      <4>1. Known(c) \/ PartBehind(lines, 1, c) \/ PartBehind(wire, 1, c)
        BY <1>2, <3>1, <3>4 DEF LinesKnown
      <4>2. line # OwnPart(c)
        BY <3>4 DEF Joins, OwnPart, Line
      <4> QED
        BY <1>7, <2>3, <4>1, <4>2 DEF OnTheWay
    <3>5. CASE ~Joins(line, c)
      <4>1. c \in channels \cup {name} /\ line # OwnPart(c)
        <5>1. CASE outcome = "command" /\ line.type = "JOIN"
          BY <1>1, <1>4, <3>2, <3>5, <5>1
             DEF Joins, CurrentAfter, ListedAfter, OwnPart, Line
        <5>2. CASE outcome = "command" /\ line.type = "PART"
          BY <1>1, <3>2, <3>3, <5>2 DEF CurrentAfter, ListedAfter, OwnPart, Line
        <5>3. CASE ~(outcome = "command" /\ line.type \in {"JOIN", "PART"})
          BY <1>1, <1>5, <3>2, <5>3 DEF shared, OwnPart, Line
        <5> QED
          BY <5>1, <5>2, <5>3
      <4>2. Known(c) \/ PartBehind(lines, 1, c) \/ PartBehind(wire, 1, c)
        BY <3>1, <4>1 DEF ListedKnown
      <4> QED
        BY <1>7, <2>3, <4>1, <4>2 DEF OnTheWay
    <3> QED
      BY <3>4, <3>5
  <2>5. ASSUME NEW c \in Channels
        PROVE  LinesKnown(c)'
    <3>1. ASSUME NEW i \in 1..Len(lines'), Joins(lines'[i], c)
          PROVE  Known(c)' \/ PartBehind(lines, i, c)' \/ PartBehind(wire, 1, c)'
      <4>1. i + 1 \in 1..Len(lines) /\ Joins(lines[i + 1], c) /\ i \in Nat \ {0}
        BY <2>1, <3>1
      <4>2. Known(c) \/ PartBehind(lines, i + 1, c) \/ PartBehind(wire, 1, c)
        BY <1>6, <4>1 DEF ChannelKnown, LinesKnown
      <4> QED
        BY <1>7, <2>2, <4>1, <4>2
    <3> QED
      BY <3>1 DEF LinesKnown, Joins
  <2>6. ASSUME NEW c \in Channels
        PROVE  WireKnown(c)'
    BY <1>3, <1>6, <1>7 DEF ChannelKnown, WireKnown, Joins
  <2>7. CurrentIsListed'
    BY <1>1 DEF ChannelsKnown, CurrentIsListed, CurrentAfter, ListedAfter, shared
  <2> QED
    BY <2>4, <2>5, <2>6, <2>7 DEF ChannelKnown
<1> QED
  BY <1>8, <1>9

(* connect() reads and drops what has no channel in it.                    *)
LEMMA ConnectingKnown ==
    ASSUME Typed, ChannelsKnown, NEW r \in Reads, Greeted(r) \/ Registers(r)
    PROVE  ChannelsKnown'
<1>1. /\ session # "registered" /\ member = {} /\ channels = {} /\ name = NoChannel
      /\ lines = << >>
      /\ \A i \in 1..Len(outbox) : outbox[i].cmd # "PONG"
      /\ \A i \in 1..Len(wire) : wire[i].type # "JOIN"
  BY DEF ChannelsKnown, Unregistered, Greeted, Registers
<1>2. \A k \in 1..Len(wire') : wire'[k].type # "JOIN"
  BY <1>1, UnreadTyped DEF Greeted, Registers
<1>3. UNCHANGED <<session, member, channels, name, lines>>
  BY DEF Greeted, Registers, shared, server
<1>4. ASSUME NEW c \in Channels
      PROVE  ListedKnown(c)' /\ LinesKnown(c)' /\ WireKnown(c)'
  BY <1>1, <1>2, <1>3, NamesAssumption DEF ListedKnown, LinesKnown, WireKnown, Joins
<1>5. CurrentIsListed'
  BY <1>1, <1>3 DEF CurrentIsListed
<1>6. Unregistered'
  <2>1. SUFFICES ASSUME pc' \in {"socket", "greeting", "register"}
                 PROVE  \A i \in 1..Len(outbox') : outbox'[i].cmd # "PONG"
    BY <1>1, <1>2, <1>3 DEF Unregistered
  <2>2. CASE Greeted(r)
    <3>1. /\ Len(outbox) \in Nat /\ Len(outbox') = Len(outbox) + 1
          /\ \A i \in 1..Len(outbox) : outbox'[i] = outbox[i]
          /\ outbox'[Len(outbox) + 1].cmd = "USER"
      BY <2>2, CommandTypes, Commanded DEF Greeted, Command, Typed, TypeOK
    <3> QED
      BY <1>1, <3>1
  <2>3. CASE Registers(r)
    BY <1>1, <2>1, <2>3 DEF Registers
  <2> QED
    BY <2>2, <2>3
<1> QED
  BY <1>4, <1>5, <1>6 DEF ChannelsKnown, ChannelKnown

LEMMA ServeKnown ==
    ASSUME Typed, ChannelsKnown, serve
    PROVE  ChannelsKnown'
<1>1. CurrentIsListed' /\ \A c \in Channels : ChannelKnown(c)'
  <2>1. UNCHANGED <<lines, shared, lost>> /\ member \subseteq Channels
    BY DEF serve, network, Typed, TypeOK
  <2>2. CASE UNCHANGED <<wire, member>>
    BY <2>1, <2>2, StillKnown
  <2>3. ASSUME NEW line \in {Ping, Shown}, Sends(line), UNCHANGED member
        PROVE  CurrentIsListed' /\ \A b \in Channels : ChannelKnown(b)'
    <3>1. line \in Lines /\ line.type # "JOIN"
      BY KnownLines DEF Ping, Shown, Line
    <3> QED
      BY <2>1, <2>3, <3>1, SentKnown
  <2>4. ASSUME NEW c \in Channels, member' = member \cup {c}, Sends(Line("JOIN", Me, c))
        PROVE  CurrentIsListed' /\ \A b \in Channels : ChannelKnown(b)'
    <3>1. Line("JOIN", Me, c) \in Lines /\ Line("JOIN", Me, c).channel \in member'
      BY <2>4, LineTypes DEF Types, Line
    <3> QED
      BY <2>1, <2>4, <3>1, SentKnown
  <2>5. ASSUME NEW c \in member, member' = member \ {c}, Sends(OwnPart(c))
        PROVE  CurrentIsListed' /\ \A b \in Channels : ChannelKnown(b)'
    <3>1. OwnPart(c) \in Lines /\ OwnPart(c).type # "JOIN"
      BY <2>1, <2>5, KnownLines DEF OwnPart, Line
    <3>2. \A b \in member : b \in member' \/ OwnPart(c) = OwnPart(b)
      BY <2>5
    <3> QED
      BY <2>1, <2>5, <3>1, <3>2, SentKnown
  <2> QED
    BY <2>2, <2>3, <2>4, <2>5, Answers
<1>2. Unregistered'
  <2>1. SUFFICES ASSUME pc \in {"socket", "greeting", "register"}
                 PROVE  /\ session' # "registered" /\ member' = {}
                        /\ \A i \in 1..Len(outbox') : outbox'[i].cmd # "PONG"
                        /\ \A i \in 1..Len(wire') : wire'[i].type # "JOIN"
    BY DEF Unregistered, ChannelsKnown, serve, network, shared
  <2>2. /\ session # "registered" /\ member = {}
        /\ \A i \in 1..Len(outbox) : outbox[i].cmd # "PONG"
        /\ \A i \in 1..Len(wire) : wire[i].type # "JOIN"
    BY <2>1 DEF ChannelsKnown, Unregistered
  <2>3. \A i \in 1..Len(outbox') : outbox'[i].cmd # "PONG"
    BY <2>2, FirstCommand DEF serve
  <2>4. Head(outbox).cmd # "PONG"
    <3>1. 1 \in 1..Len(outbox) /\ Head(outbox) = outbox[1]
      BY FirstCommand DEF serve
    <3> QED
      BY <2>2, <3>1
  <2>5. session' # "registered"
    BY <2>2, <2>4 DEF serve
  <2>6. UNCHANGED <<wire, member>> \/ \E line \in {Ping, Shown} : Sends(line) /\ UNCHANGED member
    BY <2>2, Answers
  <2>7. ASSUME NEW line \in {Ping, Shown}, Sends(line)
        PROVE  \A i \in 1..Len(wire') : wire'[i].type # "JOIN"
    <3>1. line \in Lines /\ line.type # "JOIN"
      BY KnownLines DEF Ping, Shown, Line
    <3>2. /\ Len(wire') = Len(wire) + 1 /\ wire'[Len(wire) + 1] = line
          /\ \A i \in 1..Len(wire) : wire'[i] = wire[i]
      BY <2>7, <3>1, Sent
    <3>3. Len(wire) \in Nat
      BY DEF Typed, TypeOK
    <3> QED
      BY <2>2, <3>1, <3>2, <3>3
  <2> QED
    BY <2>2, <2>3, <2>5, <2>6, <2>7
<1> QED
  BY <1>1, <1>2 DEF ChannelsKnown

LEMMA UnaskedKnown ==
    ASSUME Typed, ChannelsKnown, NEW line \in Lines, Unasked(line),
           line.type = "JOIN" => line.channel \in member
    PROVE  ChannelsKnown'
<1>1. Sends(line) /\ UNCHANGED <<pc, lines, shared, lost, member>> /\ member \subseteq Channels
  BY DEF Unasked, network, Typed, TypeOK
<1>2. CurrentIsListed' /\ \A c \in Channels : ChannelKnown(c)'
  BY <1>1, SentKnown
<1>3. Unregistered'
  BY <1>1 DEF ChannelsKnown, Unregistered, Unasked
<1> QED
  BY <1>2, <1>3 DEF ChannelsKnown

(* The other steps change neither a channel nor a line, but the last of    *)
(* these sends one that is neither a JOIN nor a PART.                      *)
LEMMA OthersKnown ==
    ASSUME Typed, ChannelsKnown,
           \/ Dies \/ HangsUp \/ connect \/ UNCHANGED vars
           \/ \E input \in Inputs : uiCmd(input)
    PROVE  ChannelsKnown'
<1>1. CASE Dies
  <2>1. CurrentIsListed' /\ \A c \in Channels : ChannelKnown(c)'
    BY <1>1, StillKnown DEF Dies, server
  <2>2. Unregistered'
    BY <1>1 DEF Dies, Unregistered
  <2> QED
    BY <2>1, <2>2 DEF ChannelsKnown
<1>2. CASE HangsUp
  <2>1. CurrentIsListed' /\ \A c \in Channels : ChannelKnown(c)'
    BY <1>2, StillKnown DEF HangsUp, network
  <2>2. Unregistered'
    BY <1>2 DEF HangsUp, ChannelsKnown, Unregistered, network, shared
  <2> QED
    BY <2>1, <2>2 DEF ChannelsKnown
<1>3. CASE connect
  <2>1. /\ Sends(Shown) /\ Shown \in Lines /\ Shown.type # "JOIN"
        /\ UNCHANGED <<lines, shared, lost, member>> /\ member \subseteq Channels
    BY <1>3, KnownLines DEF connect, server, Sends, Shown, Line, Typed, TypeOK
  <2>2. CurrentIsListed' /\ \A c \in Channels : ChannelKnown(c)'
    BY <2>1, SentKnown
  <2>3. /\ Len(wire) \in Nat /\ Len(wire') = Len(wire) + 1 /\ wire'[Len(wire) + 1] = Shown
        /\ \A i \in 1..Len(wire) : wire'[i] = wire[i]
    BY <2>1, Sent DEF Typed, TypeOK
  <2>4. Unregistered
    BY DEF ChannelsKnown
  <2>5. \A i \in 1..Len(wire') : wire'[i].type # "JOIN"
    BY <1>3, <2>1, <2>3, <2>4 DEF Unregistered, connect
  <2>6. Unregistered'
    BY <1>3, <2>4, <2>5 DEF Unregistered, connect, shared, server
  <2> QED
    BY <2>2, <2>6 DEF ChannelsKnown
<1>4. CASE UNCHANGED vars
  <2>1. CurrentIsListed' /\ \A c \in Channels : ChannelKnown(c)'
    BY <1>4, StillKnown DEF vars, network, server
  <2>2. Unregistered'
    BY <1>4 DEF vars, ChannelsKnown, Unregistered, network, server, shared
  <2> QED
    BY <2>1, <2>2 DEF ChannelsKnown
<1>5. ASSUME NEW input \in Inputs, uiCmd(input)
      PROVE  ChannelsKnown'
  <2>1. CurrentIsListed' /\ \A c \in Channels : ChannelKnown(c)'
    BY <1>5, StillKnown DEF uiCmd, server
  <2>2. /\ UNCHANGED <<lines, shared, wire, session, member>> /\ pc' \in {pc, "dead"}
        /\ outbox' = outbox \/ outbox' = outbox \o createIrcCommand(input, name)
    BY <1>5 DEF uiCmd, server
  <2>3. ASSUME \A i \in 1..Len(outbox) : outbox[i].cmd # "PONG"
        PROVE  \A i \in 1..Len(outbox') : outbox'[i].cmd # "PONG"
    <3>1. outbox \in Seq(Commands) /\ name \in Channels \cup {NoChannel}
      BY DEF Typed, TypeOK
    <3>2. CASE outbox' = outbox \o createIrcCommand(input, name)
               /\ createIrcCommand(input, name) # << >>
      <4>1. PICK command \in Commands :
               /\ createIrcCommand(input, name) = <<command>> /\ command.cmd # "PONG"
        BY <3>1, <3>2, InputCommands
      <4>2. outbox' = Append(outbox, command)
        BY <3>1, <3>2, <4>1, AppendIsConcat
      <4>3. /\ Len(outbox) \in Nat /\ Len(outbox') = Len(outbox) + 1
            /\ outbox'[Len(outbox) + 1] = command
            /\ \A i \in 1..Len(outbox) : outbox'[i] = outbox[i]
        BY <3>1, <4>2, AppendProperties
      <4> QED
        BY <2>3, <4>1, <4>3
    <3>3. CASE outbox' = outbox
      BY <2>3, <3>3
    <3> QED
      BY <1>5, <3>2, <3>3 DEF uiCmd
  <2>4. Unregistered'
    BY <2>2, <2>3 DEF ChannelsKnown, Unregistered, shared
  <2> QED
    BY <2>1, <2>4 DEF ChannelsKnown
<1> QED
  BY <1>1, <1>2, <1>3, <1>4, <1>5

LEMMA ChannelsNext == Typed /\ ChannelsKnown /\ [Next]_vars => ChannelsKnown'
<1> SUFFICES ASSUME Typed, ChannelsKnown, [Next]_vars PROVE ChannelsKnown'
  OBVIOUS
<1>1. ASSUME NEW r \in Reads, Greeted(r) \/ Registers(r)
      PROVE  ChannelsKnown'
  BY <1>1, ConnectingKnown
<1>2. ASSUME NEW r \in Reads, handleServerReply(r)
      PROVE  ChannelsKnown'
  BY <1>2, ReadKnown DEF handleServerReply, ChannelsKnown, Unregistered
<1>3. CASE execute
  <2>1. Unregistered'
    BY <1>3 DEF execute, Unregistered
  <2> QED
    BY <1>3, <2>1, ExecuteKnown DEF ChannelsKnown
<1>4. CASE connect \/ EndOfStream \/ Race \/ HangsUp \/ UNCHANGED vars
  BY <1>4, OthersKnown DEF EndOfStream, Race
<1>5. CASE \E input \in Inputs : uiCmd(input)
  BY <1>5, OthersKnown
<1>6. CASE serve
  BY <1>6, ServeKnown
<1>7. CASE Pings \/ Talks
  <2>1. Ping \in Lines /\ Shown \in Lines /\ Ping.type # "JOIN" /\ Shown.type # "JOIN"
    BY KnownLines DEF Ping, Shown, Line
  <2> QED
    BY <1>7, <2>1, UnaskedKnown DEF Pings, Talks
<1>8. ASSUME NEW type \in {"JOIN", "PART"}, NEW user \in Others, NEW channel \in Channels,
             Happens(type, user, channel)
      PROVE  ChannelsKnown'
  <2>1. Line(type, user, channel) \in Lines /\ Line(type, user, channel).channel \in member
    BY <1>8, LineTypes DEF Types, Line, Happens
  <2> QED
    BY <1>8, <2>1, UnaskedKnown DEF Happens
<1> QED
  BY <1>1, <1>2, <1>3, <1>4, <1>5, <1>6, <1>7, <1>8 DEF Next, Network

LEMMA AlwaysKnown == Spec => [](Typed /\ ChannelsKnown)
BY TypedInit, TypedNext, ChannelsInit, ChannelsNext, PTL DEF Spec

LEMMA KnownIsNotStale == Typed /\ ChannelsKnown => NoStaleChannel
<1> SUFFICES ASSUME Typed, ChannelsKnown,
                    NEW c \in channels \cup ({name} \ {NoChannel})
             PROVE  \/ c \in member \/ OwnPart(c) \in lost
                    \/ Contains(wire \o lines, OwnPart(c))
  BY DEF NoStaleChannel
<1>1. /\ wire \in Seq(Lines) /\ lines \in Seq(Lines) /\ c \in Channels
      /\ Len(wire) \in Nat /\ Len(lines) \in Nat
  BY DEF Typed, TypeOK
<1>2. /\ Len(wire \o lines) = Len(wire) + Len(lines)
      /\ \A i \in 1..Len(wire) + Len(lines) :
            (wire \o lines)[i] = IF i <= Len(wire) THEN wire[i] ELSE lines[i - Len(wire)]
  BY <1>1, ConcatProperties
<1> DEFINE both == wire \o lines
<1> HIDE DEF both
<1>3. ASSUME NEW i \in 1..Len(wire), wire[i] = OwnPart(c)
      PROVE  \E j \in 1..Len(both) : both[j] = OwnPart(c)
  <2>1. i \in 1..Len(both) /\ both[i] = wire[i]
    BY <1>1, <1>2 DEF both
  <2> QED
    BY <1>3, <2>1
<1>4. ASSUME NEW i \in 1..Len(lines), lines[i] = OwnPart(c)
      PROVE  \E j \in 1..Len(both) : both[j] = OwnPart(c)
  <2>1. Len(wire) + i \in 1..Len(both) /\ both[Len(wire) + i] = lines[i]
    BY <1>1, <1>2 DEF both
  <2> QED
    BY <1>4, <2>1
<1>5. Known(c) \/ PartBehind(lines, 1, c) \/ PartBehind(wire, 1, c)
  BY <1>1 DEF ChannelsKnown, ChannelKnown, ListedKnown
<1>6. Known(c) \/ \E j \in 1..Len(both) : both[j] = OwnPart(c)
  BY <1>3, <1>4, <1>5 DEF PartBehind
<1> QED
  BY <1>6 DEF Known, Contains, both

(* What the client takes for its channels is what the server has it in,    *)
(* up to an own PART on the way or lost to a cut read, however many lines  *)
(* a read takes and wherever it ends (execute(JoinMessage),                *)
(* execute(PartMessage), splitByCrlf).                                     *)
THEOREM NeverStale == Spec => []NoStaleChannel
BY AlwaysKnown, KnownIsNotStale, PTL

(* The current channel is in the list of the screen, whoever joins and     *)
(* leaves (IrcClient::setChannelName, Tui::addChannel).                    *)
THEOREM CurrentListed == Spec => []CurrentIsListed
<1>1. ChannelsKnown => CurrentIsListed
  BY DEF ChannelsKnown
<1> QED
  BY <1>1, AlwaysKnown, PTL

=============================================================================
