----------------------------- MODULE IrcClient ------------------------------
(***************************************************************************)
(* The IRC client (ccirc): the network thread, which registers with the    *)
(* server and then executes what it reads (IrcClient::connect, startPoll,  *)
(* handleServerReply), and the thread of the screen, which sends what the  *)
(* user types (IrcClient::uiCmd).  They share the current channel without  *)
(* a lock.  A read ends wherever TCP cuts the stream, and the client keeps *)
(* nothing of a line between two reads; a line on the wire therefore has   *)
(* the position of its first byte that was not read yet.                   *)
(***************************************************************************)
EXTENDS Integers, Sequences, SequencesExt

CONSTANTS
    Me,        \* the nick of the client
    Others,    \* the other users of the server
    Channels,
    NoChannel, \* the empty name
    maxTries,  \* reads in which connect() looks for the PING (5 in the code)
    MaxSent,   \* bound: lines the server sends of its own accord
    MaxTyped   \* bound: inputs of the user

ASSUME NamesAssumption == Me \notin Others /\ NoChannel \notin Channels

ASSUME BoundsAssumption == maxTries \in Nat \ {0} /\ MaxSent \in Nat /\ MaxTyped \in Nat

VARIABLES
    pc,       \* the network thread, or "dead": both threads are gone
    tries,    \* maxTries of connect()
    lines,    \* of the last read, the lines not executed yet
    name,     \* currentChannel.name
    channels, \* Tui::channels; a name in it twice is removed as one
    wire,     \* the lines on the way to the client
    outbox,   \* the commands on the way to the server
    session,  \* what the server takes the client for
    member,   \* the channels in which the server has the client
    pinged,   \* the server waits for a PONG
    sent, typed,
    lost      \* history: the PING and own PARTs that a cut read lost

shared == <<name, channels>>
network == <<pc, tries, lines>>
server == <<session, member, pinged, sent>>
vars == <<network, shared, wire, outbox, server, typed, lost>>

-----------------------------------------------------------------------------
(* Lines of the protocol.  TEXT stands for all the lines that only reach   *)
(* the screen: PRIVMSG, NOTICE, MODE, NICK, 353 and the other numbers.     *)
Types == {"PING", "JOIN", "PART", "TEXT"}

(* Where the unread rest of a line begins: at its first byte; before the   *)
(* ':' of its last parameter; at that ':'; behind it; at its '\n'.         *)
Start == 0
Head_ == 1
Colon == 2
Text == 3
LF == 4

Line(type, user, channel) ==
    [type |-> type, user |-> user, channel |-> channel, from |-> Start]

Ping == Line("PING", Me, NoChannel)
OwnPart(c) == Line("PART", Me, c)
Shown == Line("TEXT", Me, NoChannel)

Lines ==
    [type : Types, user : Others \cup {Me}, channel : Channels \cup {NoChannel}, from : Start..LF]

Command(cmd, channel) == [cmd |-> cmd, channel |-> channel]

Commands ==
    [cmd : {"USER", "NICK", "PONG", "WRONG", "JOIN", "PART", "PRIVMSG"},
     channel : Channels \cup {NoChannel}]

(* Type invariant. *)
TypeOK ==
    /\ pc \in {"socket", "greeting", "register", "poll", "dead"}
    /\ tries \in 0..maxTries
    /\ lines \in Seq(Lines) /\ wire \in Seq(Lines)
    /\ name \in Channels \cup {NoChannel} /\ channels \subseteq Channels
    /\ outbox \in Seq(Commands)
    /\ session \in {"none", "asked", "registered", "closed"}
    /\ member \subseteq Channels /\ pinged \in BOOLEAN
    /\ sent \in 0..MaxSent /\ typed \in 0..MaxTyped
    /\ lost \subseteq {Ping} \cup {OwnPart(c) : c \in Channels}

-----------------------------------------------------------------------------
(* read(): some lines, and possibly the beginning of the next one          *)
Reads ==
    {r \in [whole : 0..Len(wire), to : Start..LF] :
        IF r.to = Start
        THEN r.whole > 0
        ELSE /\ r.whole < Len(wire)
             /\ LET from == wire[r.whole + 1].from
                IN  r.to > from \/ (r.to = from /\ from \in {Head_, Text})}

Whole(r) == SubSeq(wire, 1, r.whole)

Cut(r) == r.to # Start

Torn(r) == wire[r.whole + 1]

Unread(r) ==
    LET rest == SubSeq(wire, r.whole + 1, Len(wire))
    IN  IF Cut(r) THEN <<[Head(rest) EXCEPT !.from = r.to]>> \o Tail(rest) ELSE rest

(* "PING" with a '\n' before it is no PING (toMessageType), while an       *)
(* origin is found behind one (parseOrigin).                               *)
Glued(line) == IF line.type = "PING" THEN [line EXCEPT !.type = "TEXT"] ELSE line

(* Mutant: the first line of a read is taken for all of it. *)
FirstLineOnly(chunk) == IF chunk = << >> THEN chunk ELSE <<Head(chunk)>>

(* The complete lines of a read; a '\n' left over by the last one is glued *)
(* to the first of them.                                                   *)
splitByCrlf(chunk) ==
    IF chunk # << >> /\ Head(chunk).from = LF
    THEN [i \in 1..Len(chunk) - 1 |-> IF i = 1 THEN Glued(chunk[2]) ELSE chunk[i + 1]]
    ELSE chunk

(* A line without a ':' is refused.                                        *)
Refused(line) == line.from >= Text

(* What becomes of a line.  parseOrigin asserts a ':' in the first word; a *)
(* last parameter on its own is a command only from three words on, and    *)
(* then an unknown one.                                                    *)
parse(line) ==
    CASE Refused(line) -> {"invalid"}
      [] line.from = Start -> {"command"}
      [] line.from = Head_ -> {"abort"}
      [] line.from = Colon -> {"abort"} \cup {o \in {"invalid"} : line.type = "TEXT"}

-----------------------------------------------------------------------------
(* The network thread                                                      *)
Dies ==
    /\ pc' = "dead"
    /\ UNCHANGED <<tries, lines, shared, wire, outbox, server, typed, lost>>

(* The server greets a connection.                                         *)
connect ==
    /\ pc = "socket"
    /\ pc' = "greeting"
    /\ wire' = Append(wire, Shown)
    /\ UNCHANGED <<tries, lines, shared, outbox, server, typed, lost>>

(* What is read before the registration is dropped.                        *)
Greeted(r) ==
    /\ pc = "greeting"
    /\ pc' = "register" /\ tries' = maxTries
    /\ wire' = Unread(r)
    /\ outbox' = Append(outbox, Command("USER", NoChannel))
    /\ UNCHANGED <<lines, shared, server, typed, lost>>

(* "PING :" is in what was read.                                           *)
FindsPing(r) ==
    \/ \E i \in 1..r.whole : wire[i].type = "PING" /\ wire[i].from = Start
    \/ Cut(r) /\ Torn(r).type = "PING" /\ Torn(r).from = Start /\ r.to > Colon

WithColon(r) == SelectSeq(Whole(r), LAMBDA line : line.from < Text)

(* Mutant: the loop is left a try too late. *)
LookOnceMore == tries >= 0

LookAgain == tries > 1

(* The answer is all that follows the first ':', whosever line it is in,   *)
(* and asserts when there is no end of a line behind it.                   *)
Registers(r) ==
    /\ pc = "register"
    /\ wire' = Unread(r)
    /\ IF ~FindsPing(r) /\ LookAgain
       THEN tries' = tries - 1 /\ UNCHANGED <<pc, outbox>>
       ELSE IF WithColon(r) = << >>
       THEN pc' = "dead" /\ UNCHANGED <<tries, outbox>>
       ELSE /\ LET answer == IF Head(WithColon(r)).type = "PING" THEN "PONG" ELSE "WRONG"
               IN  outbox' = Append(outbox, Command(answer, NoChannel))
            /\ pc' = "poll" /\ tries' = 0
    /\ UNCHANGED <<lines, shared, server, typed, lost>>

(* A PING that is glued to a '\n', or a line the read has a part of.       *)
Loses(r, line) ==
    \/ line = Ping /\ r.whole > 1 /\ wire[1].from = LF /\ wire[2] = Ping
    \/ Cut(r) /\ line = [Torn(r) EXCEPT !.from = Start]

Losses(r) == {line \in {Ping} \cup {OwnPart(c) : c \in Channels} : Loses(r, line)}

handleServerReply(r) ==
    /\ pc = "poll" /\ lines = << >>
    /\ wire' = Unread(r)
    /\ lines' = splitByCrlf(Whole(r))
    /\ lost' = lost \cup Losses(r)
    /\ UNCHANGED <<pc, tries, shared, outbox, server, typed>>

(* Behind the end of the stream splitByCrlf runs out of its buffer, and    *)
(* the assertions of connect() fail.                                       *)
EndOfStream ==
    /\ pc \notin {"socket", "dead"} /\ lines = << >>
    /\ wire = << >> /\ session = "closed"
    /\ Dies

(* Mutant: the channel remains current when it is left. *)
KeepsName(line) == IF line.type = "JOIN" THEN line.channel ELSE name

CurrentAfter(line) == IF line.type = "JOIN" THEN line.channel ELSE NoChannel

(* Mutant: the channel is left in the list of the screen. *)
KeepsListed(line) ==
    IF line.type = "JOIN" THEN channels \cup {line.channel} ELSE channels

ListedAfter(line) ==
    IF line.type = "JOIN" THEN channels \cup {line.channel} ELSE channels \ {line.channel}

(* A JOIN or PART counts, whoever of the channel it is about.              *)
execute ==
    /\ pc = "poll" /\ lines # << >>
    /\ LET line == Head(lines)
       IN  \E outcome \in parse(line) :
              /\ IF outcome = "abort"
                 THEN pc' = "dead" /\ UNCHANGED lines
                 ELSE lines' = Tail(lines) /\ UNCHANGED pc
              /\ IF outcome = "command" /\ line.type \in {"JOIN", "PART"}
                 THEN name' = CurrentAfter(line) /\ channels' = ListedAfter(line)
                 ELSE UNCHANGED shared
              /\ IF outcome = "command" /\ line.type = "PING"
                 THEN outbox' = Append(outbox, Command("PONG", NoChannel))
                 ELSE UNCHANGED outbox
    /\ UNCHANGED <<tries, wire, server, typed, lost>>

Network ==
    \/ connect \/ execute \/ EndOfStream
    \/ \E r \in Reads : Greeted(r) \/ Registers(r) \/ handleServerReply(r)

-----------------------------------------------------------------------------
(* The thread of the screen.  Inputs: the commands with and without their  *)
(* argument, /nick, and plain text.                                        *)
Inputs ==
    [word : {"/join", "/part"}, channel : Channels]
        \cup [word : {"/nick", "short", "text"}, channel : {NoChannel}]

createIrcCommand(input, channel) ==
    CASE input.word = "/join" -> <<Command("JOIN", input.channel)>>
      [] input.word = "/part" -> <<Command("PART", input.channel)>>
      [] input.word = "/nick" -> <<Command("NICK", NoChannel)>>
      [] input.word = "text" -> <<Command("PRIVMSG", channel)>>
      [] OTHER -> << >>

(* Neither a descriptor that is no connection nor an empty command passes  *)
(* the assertion on what send() returns.                                   *)
uiCmd(input) ==
    /\ pc # "dead" /\ typed < MaxTyped
    /\ typed' = typed + 1
    /\ LET ircCmd == createIrcCommand(input, name)
       IN  IF pc = "socket" \/ ircCmd = << >>
           THEN pc' = "dead" /\ UNCHANGED outbox
           ELSE outbox' = outbox \o ircCmd /\ UNCHANGED pc
    /\ UNCHANGED <<tries, lines, shared, wire, server, lost>>

(* The screen reads the current channel and the lists of the screen while  *)
(* the network thread executes a line: undefined, and taken to be the end  *)
(* when it is not one of the orders of the two.                            *)
Race ==
    /\ pc = "poll" /\ lines # << >>
    /\ Dies

-----------------------------------------------------------------------------
(* The server                                                              *)
Sends(line) == wire' = Append(wire, line)

serve ==
    /\ session # "closed" /\ outbox # << >>
    /\ outbox' = Tail(outbox)
    /\ LET command == Head(outbox)
           channel == command.channel
       IN  \/ /\ command.cmd = "USER"
              /\ session' = "asked" /\ Sends(Ping) /\ UNCHANGED <<member, pinged>>
           \/ /\ command.cmd = "PONG" /\ session = "asked"
              /\ session' = "registered" /\ Sends(Shown) /\ UNCHANGED <<member, pinged>>
           \/ /\ command.cmd = "PONG" /\ session = "registered"
              /\ pinged' = FALSE /\ UNCHANGED <<wire, session, member>>
           \/ /\ command.cmd = "WRONG"
              /\ UNCHANGED <<wire, session, member, pinged>>
           \/ /\ command.cmd = "JOIN" /\ session = "registered" /\ channel \notin member
              /\ member' = member \cup {channel}
              /\ Sends(Line("JOIN", Me, channel)) /\ UNCHANGED <<session, pinged>>
           \/ /\ command.cmd = "PART" /\ session = "registered" /\ channel \in member
              /\ member' = member \ {channel}
              /\ Sends(Line("PART", Me, channel)) /\ UNCHANGED <<session, pinged>>
           \/ /\ command.cmd = "PRIVMSG" /\ session = "registered" /\ channel \in member
              /\ UNCHANGED <<wire, session, member, pinged>>
           \/ /\ \/ command.cmd = "NICK"
                 \/ command.cmd \in {"JOIN", "PART", "PRIVMSG"} /\ session # "registered"
                 \/ command.cmd \in {"PART", "PRIVMSG"} /\ channel \notin member
              /\ Sends(Shown) /\ UNCHANGED <<session, member, pinged>>
           \/ /\ command.cmd = "JOIN" /\ channel \in member
              /\ UNCHANGED <<wire, session, member, pinged>>
    /\ UNCHANGED <<network, shared, sent, typed, lost>>

Unasked(line) ==
    /\ session = "registered" /\ sent < MaxSent
    /\ sent' = sent + 1
    /\ Sends(line)
    /\ UNCHANGED <<network, shared, outbox, session, member, typed, lost>>

Pings == ~pinged /\ pinged' = TRUE /\ Unasked(Ping)

Happens(type, user, channel) ==
    channel \in member /\ Unasked(Line(type, user, channel)) /\ UNCHANGED pinged

Talks == Unasked(Shown) /\ UNCHANGED pinged

HangsUp ==
    /\ session \in {"asked", "registered"}
    /\ session' = "closed"
    /\ UNCHANGED <<network, shared, wire, outbox, member, pinged, sent, typed, lost>>

-----------------------------------------------------------------------------
Init ==
    /\ pc = "socket" /\ tries = 0 /\ lines = << >>
    /\ name = NoChannel /\ channels = {}
    /\ wire = << >> /\ outbox = << >>
    /\ session = "none" /\ member = {} /\ pinged = FALSE
    /\ sent = 0 /\ typed = 0
    /\ lost = {}

Next ==
    \/ Network
    \/ \E input \in Inputs : uiCmd(input)
    \/ Race
    \/ serve \/ Pings \/ Talks \/ HangsUp
    \/ \E type \in {"JOIN", "PART"}, user \in Others, channel \in Channels :
          Happens(type, user, channel)

Spec == Init /\ [][Next]_vars

(* The network thread polls without end, and the server works off what it  *)
(* is sent.                                                                *)
FairSpec == Spec /\ WF_vars(Network) /\ WF_vars(serve)

-----------------------------------------------------------------------------
(* The client keeps its own idea of where it is, from the lines of         *)
(* everybody: as long as its own PART is not lost to a cut read, neither   *)
(* the current channel nor the list of the screen has a channel in which   *)
(* the server does not have the client, or has not just had it             *)
(* (execute(JoinMessage), execute(PartMessage), IrcClient::uiCmd).         *)
NoStaleChannel ==
    \A c \in channels \cup ({name} \ {NoChannel}) :
        c \in member \/ OwnPart(c) \in lost \/ Contains(wire \o lines, OwnPart(c))

(* A text is typed into a channel that is in the list of the screen,       *)
(* although every user's PART empties and removes, and every user's JOIN   *)
(* sets and adds (IrcClient::setChannelName, Tui::addChannel).             *)
CurrentIsListed == name # NoChannel => name \in channels

(* A PING the server sends is answered in the end, among all the lines     *)
(* with which it comes in one read, unless a read cut it or a '\n' was     *)
(* glued to it (IrcClient::handleServerReply).                             *)
PingAnswered ==
    pinged ~> (~pinged \/ Ping \in lost \/ pc = "dead" \/ session = "closed")

=============================================================================
