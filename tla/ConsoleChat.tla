------------------------------ MODULE ConsoleChat ------------------------------
(***************************************************************************)
(* The two programs chat and client, from console to console.  chat is the  *)
(* ChatServer actor and one ChatSession actor per connection, all in one    *)
(* thread; its server.rs has the handlers of module ChatServer.  client is  *)
(* a process per user: a thread that reads the console, and the actor       *)
(* ChatClient.  A line passes the client's mailbox, a TCP stream, the       *)
(* session, the server's mailbox, the hearer's session and its stream.      *)
(*                                                                         *)
(* Frames are whole.  The actors of chat cannot fail one by one, so that    *)
(* serverUp stays TRUE and a reply always comes.  Ping frames are left out: *)
(* a session can find a client late only when that client has stopped       *)
(* pinging, and then does in the end (module Heartbeat has the times).      *)
(***************************************************************************)
EXTENDS ChatSessions, Selection

CONSTANTS
    Typists,       \* bound: consoles at which somebody types
    Quitters       \* bound: consoles that may be killed or cut off

ASSUME ConsolesAssumption ==
    WsConns = {} /\ Typists \subseteq Conns /\ Quitters \subseteq Conns

VARIABLES
    checking,      \* sessions whose run_later is armed
    process,       \* of each client: not started, up, cut off, or ended
    pinging,       \* clients whose run_later is armed
    outages,       \* clients that have been cut off (bound: once each)
    commands,      \* per client: lines in the mailbox of ChatClient
    toServer,      \* requests on their way to the session
    toClient,      \* responses on their way to the client
    lines,         \* number of lines read from consoles
    typed,         \* history: the lines of each console
    printed        \* history: what each console shows, notices apart

sessionVars == <<phase, sid, room, checking>>
clientVars == <<process, pinging, outages, commands, lines, typed, printed>>
wires == <<toServer, toClient>>
vars == <<serverVars, sessionVars, clientVars, wires>>

\* Commands, and the requests they become.  A line that is no command is said;
\* so is an empty line, and every read after the end of the console's input.
List == [cmd |-> "list"]
JoinRoom(r) == [cmd |-> "join", room |-> r]
Say(n) == [cmd |-> "say", n |-> n]
\* "/join" without a name, or a command that is not known.
Mistake == [cmd |-> "mistake"]

QuestionLines == {List} \cup {JoinRoom(r) : r \in Rooms}
Requests == QuestionLines \cup {Say(n) : n \in 1..MaxRequests}

Text(t) == [kind |-> "message", text |-> t]
Joined(r) == [kind |-> "joined", room |-> r]
RoomList(names) == [kind |-> "rooms", names |-> names]

AnswerResponses == [kind : {"joined"}, room : Rooms] \cup [kind : {"rooms"}, names : SUBSET Rooms]

Responses ==
    [kind : {"message"}, text : Texts] \cup AnswerResponses

TypeOK ==
    /\ ChatTypeOK
    /\ serverUp
    /\ checking \subseteq Conns
    /\ process \in [Conns -> {"none", "up", "cut", "over"}]
    /\ pinging \subseteq Conns
    /\ outages \subseteq Quitters
    /\ commands \in [Conns -> Seq(Requests \cup {Mistake})]
    /\ toServer \in [Conns -> Seq(Requests)]
    /\ toClient \in [Conns -> Seq(Responses)]
    /\ lines \in 0..MaxRequests
    /\ typed \in [Conns -> Seq(Requests \cup {Mistake})]
    /\ printed \in [Conns -> Seq(Responses)]

Init ==
    /\ ChatInit
    /\ checking = {}
    /\ process = [c \in Conns |-> "none"]
    /\ pinging = {}
    /\ outages = {}
    /\ commands = [c \in Conns |-> <<>>]
    /\ toServer = [c \in Conns |-> <<>>]
    /\ toClient = [c \in Conns |-> <<>>]
    /\ lines = 0
    /\ typed = [c \in Conns |-> <<>>]
    /\ printed = [c \in Conns |-> <<>>]

-----------------------------------------------------------------------------
(* client *)

\* The connection is there before the server has accepted it; started() arms
\* the first ping.
ConsoleStarts(c) ==
    /\ process[c] = "none"
    /\ process' = [process EXCEPT ![c] = "up"]
    /\ pinging' = pinging \cup {c}
    /\ UNCHANGED <<serverVars, sessionVars, wires, outages, commands, lines, typed, printed>>

\* act.hb(ctx): the closure that has run arms the next one.
PingsAgain(c) == pinging' = pinging \cup {c}

ClientPings(c) ==
    /\ process[c] = "up"
    /\ c \in pinging
    /\ PingsAgain(c)
    /\ UNCHANGED <<serverVars, sessionVars, wires, process, outages, commands, lines, typed, printed>>

\* The thread that reads the console.
ReadLine(c, line) ==
    /\ c \in Typists
    /\ process[c] = "up"
    /\ lines < MaxRequests
    /\ lines' = lines + 1
    /\ typed' = [typed EXCEPT ![c] = Append(@, line)]
    /\ commands' = [commands EXCEPT ![c] = Append(@, line)]
    /\ UNCHANGED <<serverVars, sessionVars, wires, process, pinging, outages, printed>>

SomeLine(c) ==
    \E line \in {List, Say(lines + 1), Mistake} \cup {JoinRoom(r) : r \in Rooms} :
        ReadLine(c, line)

\* framed.write() of what the line asks for; a mistake is only complained of.
RequestsWith(c, line) ==
    IF line = Mistake THEN toServer[c] ELSE Append(toServer[c], line)

\* The handler of ClientCommand.
HandleCommand(c) ==
    /\ process[c] = "up"
    /\ commands[c] # <<>>
    /\ toServer' = [toServer EXCEPT ![c] = RequestsWith(c, Head(commands[c]))]
    /\ commands' = [commands EXCEPT ![c] = Tail(@)]
    /\ UNCHANGED <<serverVars, sessionVars, toClient, process, pinging, outages, lines, typed,
                   printed>>

IsNotice(response) == response.kind = "message" /\ response.text \in Notices

\* The handler of ChatResponse.
Show(c) ==
    /\ process[c] = "up"
    /\ toClient[c] # <<>>
    /\ printed' = IF IsNotice(Head(toClient[c])) THEN printed
                  ELSE [printed EXCEPT ![c] = Append(@, Head(toClient[c]))]
    /\ toClient' = [toClient EXCEPT ![c] = Tail(@)]
    /\ UNCHANGED <<serverVars, sessionVars, toServer, process, pinging, outages, commands, lines,
                   typed>>

\* The stream has ended: stopping() ends the process.
Disconnected(c) ==
    /\ process[c] = "up"
    /\ phase[c] = "stopped" /\ toClient[c] = <<>>
    /\ process' = [process EXCEPT ![c] = "over"]
    /\ UNCHANGED <<serverVars, sessionVars, wires, pinging, outages, commands, lines, typed, printed>>

\* The user ends the process, and the system closes its connection: the lines it
\* has not handled are lost, and perhaps some of its last requests.
Kill(c) ==
    /\ c \in Quitters
    /\ process[c] = "up"
    /\ process' = [process EXCEPT ![c] = "over"]
    /\ \E n \in 0..Len(toServer[c]) : toServer' = [toServer EXCEPT ![c] = SubSeq(@, 1, n)]
    /\ toClient' = [toClient EXCEPT ![c] = <<>>]
    /\ commands' = [commands EXCEPT ![c] = <<>>]
    /\ UNCHANGED <<serverVars, sessionVars, pinging, outages, lines, typed, printed>>

\* The network, or the client's machine, stops without a word; it may come back.
CutOff(c) ==
    /\ c \in Quitters \ outages
    /\ process[c] = "up"
    /\ process' = [process EXCEPT ![c] = "cut"]
    /\ outages' = outages \cup {c}
    /\ UNCHANGED <<serverVars, sessionVars, wires, pinging, commands, lines, typed, printed>>

ComeBack(c) ==
    /\ process[c] = "cut"
    /\ process' = [process EXCEPT ![c] = "up"]
    /\ UNCHANGED <<serverVars, sessionVars, wires, pinging, outages, commands, lines, typed,
                   printed>>

-----------------------------------------------------------------------------
(* chat: the sessions *)

\* What is written for a client that has ended is lost.
Respond(c, r) ==
    toClient' = IF process[c] = "over" THEN toClient ELSE [toClient EXCEPT ![c] = Append(@, r)]
Registry == <<sessions, rooms, issued, serverUp>>

\* The handler of TcpConnect creates the session; started() arms the first check,
\* sends Connect and waits.
Accept(c) ==
    /\ phase[c] = "absent"
    /\ process[c] # "none"
    /\ Goto(c, "connecting")
    /\ checking' = checking \cup {c}
    /\ open' = open \cup {c}
    /\ Post(Connect(c))
    /\ UNCHANGED <<Registry, mailbox, reply, sid, room, clientVars, wires>>

TakeId(c) ==
    /\ phase[c] = "connecting"
    /\ reply[c].type = "Id"
    /\ sid' = [sid EXCEPT ![c] = reply[c].id]
    /\ reply' = [reply EXCEPT ![c] = NoReply]
    /\ Goto(c, "running")
    /\ UNCHANGED <<Registry, inbox, open, mailbox, room, checking, clientVars, wires>>

\* The next request that has arrived.
Request(c, cmd) ==
    /\ phase[c] = "running"
    /\ toServer[c] # <<>>
    /\ Head(toServer[c]).cmd = cmd
    /\ toServer' = [toServer EXCEPT ![c] = Tail(@)]
    /\ UNCHANGED <<Registry, open, mailbox, reply, sid, checking, clientVars>>

\* Variant: no ctx.wait().
ListWithoutWait(c) ==
    Request(c, "list") /\ Post(ListRooms(c)) /\ UNCHANGED <<phase, room, toClient>>

SessionList(c) ==
    /\ Request(c, "list")
    /\ Post(ListRooms(c))
    /\ Goto(c, "listing")
    /\ UNCHANGED <<room, toClient>>

\* Variant: the room is announced, but the field is not set.
JoinKeepsRoom(c) ==
    /\ Request(c, "join")
    /\ Post(Join(sid[c], Head(toServer[c]).room))
    /\ Respond(c, Joined(Head(toServer[c]).room))
    /\ UNCHANGED <<phase, room>>

SessionJoin(c) ==
    /\ Request(c, "join")
    /\ room' = [room EXCEPT ![c] = Head(toServer[c]).room]
    /\ Post(Join(sid[c], Head(toServer[c]).room))
    /\ Respond(c, Joined(Head(toServer[c]).room))
    /\ UNCHANGED phase

SessionMessage(c) ==
    /\ Request(c, "say")
    /\ Post(Message(sid[c], Said(c, Head(toServer[c]).n), room[c]))
    /\ UNCHANGED <<phase, room, toClient>>

\* The rooms are there: the wait of List ends.
TakeRooms(c) ==
    /\ phase[c] = "listing"
    /\ reply[c].type = "Rooms"
    /\ Respond(c, RoomList(reply[c].names))
    /\ reply' = [reply EXCEPT ![c] = NoReply]
    /\ Goto(c, "running")
    /\ UNCHANGED <<Registry, inbox, open, mailbox, sid, room, checking, clientVars, toServer>>

\* The handler of Message: a text for the peer.
Deliver(c) ==
    /\ phase[c] = "running"
    /\ mailbox[c] # <<>>
    /\ Respond(c, Text(Head(mailbox[c])))
    /\ mailbox' = [mailbox EXCEPT ![c] = Tail(@)]
    /\ UNCHANGED <<Registry, inbox, open, reply, sessionVars, clientVars, toServer>>

\* Variant: the next check is not armed.
ChecksOnce(c) == checking' = checking \ {c}

\* act.hb(ctx), whatever the check has found.
ChecksAgain(c) == checking' = checking \cup {c}

Check(c) ==
    /\ phase[c] = "running"
    /\ c \in checking
    /\ ChecksAgain(c)
    /\ UNCHANGED <<Registry, open, mailbox, reply, sid, room, clientVars, wires>>

PeerInTime(c) == Check(c) /\ UNCHANGED <<inbox, phase>>

\* Only a peer that pings no more is late.
PeerLate(c) ==
    /\ process[c] # "up" \/ c \notin pinging
    /\ Check(c)
    /\ Post(Disconnect(sid[c]))
    /\ Goto(c, "stopping")

\* The client's process has ended, and its requests have been handled.
StreamEnds(c) ==
    /\ phase[c] = "running"
    /\ process[c] = "over" /\ toServer[c] = <<>>
    /\ Goto(c, "stopping")
    /\ UNCHANGED <<serverVars, sid, room, checking, clientVars, wires>>

\* stopping(), and the end of the actor: what is in its mailbox, in its timers and
\* in the stream is dropped, of what it has written perhaps a part.
Stop(c) ==
    /\ phase[c] = "stopping"
    /\ Post(Disconnect(sid[c]))
    /\ Goto(c, "stopped")
    /\ open' = open \ {c}
    /\ mailbox' = [mailbox EXCEPT ![c] = <<>>]
    /\ checking' = checking \ {c}
    /\ toServer' = [toServer EXCEPT ![c] = <<>>]
    /\ \E n \in 0..Len(toClient[c]) : toClient' = [toClient EXCEPT ![c] = SubSeq(@, 1, n)]
    /\ UNCHANGED <<Registry, reply, sid, room, clientVars>>

-----------------------------------------------------------------------------
\* The handlers of chat/src/server.rs are those of ChatServer.
Server == Serve /\ UNCHANGED <<sessionVars, clientVars, wires>>

Session(c) ==
    \/ Accept(c)
    \/ TakeId(c)
    \/ SessionList(c)
    \/ SessionJoin(c)
    \/ SessionMessage(c)
    \/ TakeRooms(c)
    \/ Deliver(c)
    \/ PeerInTime(c)
    \/ PeerLate(c)
    \/ StreamEnds(c)
    \/ Stop(c)

Client(c) == ClientPings(c) \/ HandleCommand(c) \/ Show(c) \/ Disconnected(c)

User(c) == ConsoleStarts(c) \/ SomeLine(c) \/ Kill(c) \/ CutOff(c) \/ ComeBack(c)

Next == Server \/ \E c \in Conns : Session(c) \/ Client(c) \/ User(c)

Spec == Init /\ [][Next]_vars

\* The event loops poll whatever has something to do, timers fire, and who does
\* not ping is late in the end.  Users do as they like.
FairSpec ==
    /\ Spec
    /\ WF_vars(Server)
    /\ \A c \in Conns : WF_vars(Session(c)) /\ WF_vars(Client(c))

-----------------------------------------------------------------------------
(* Properties *)

\* The room a user is in who starts in room start and enters the first k lines.
RoomAfter(line, k, start) ==
    LET joins == {i \in 1..k : line[i].cmd = "join"}
    IN  IF joins = {} THEN start
        ELSE line[CHOOSE i \in joins : \A j \in joins : j <= i].room

\* The room a console's line is said in: that of the last join typed before it.
RoomOfLine(c, n) ==
    LET k == CHOOSE i \in DOMAIN typed[c] : typed[c][i] = Say(n)
    IN  RoomAfter(typed[c], k - 1, Main)

RoomsEntered(c) ==
    {Main} \cup {typed[c][i].room : i \in {j \in DOMAIN typed[c] : typed[c][j].cmd = "join"}}

\* From console to console: a user is shown what others have typed, and never
\* what it typed itself; each other user's lines once and in the order typed; and
\* only lines said in a room that the hearer has entered, although rooms are
\* changed in four places at four times (client main.rs, session.rs, server.rs).
HeardAsTyped ==
    \A c \in Conns :
        LET said == {i \in DOMAIN printed[c] : printed[c][i].kind = "message"}
            text(i) == printed[c][i].text
        IN  /\ \A i \in said :
                  /\ text(i).from # c
                  /\ RoomOfLine(text(i).from, text(i).n) \in RoomsEntered(c)
            /\ \A i, j \in said :
                  i < j /\ text(i).from = text(j).from => text(i).n < text(j).n

Questions(c) == Only(typed[c], QuestionLines)
Answers(c) == Only(printed[c], AnswerResponses)

\* Requests carry no number: a user takes the next answer for that to its oldest
\* question.  It is; and a list has the rooms the user joined before it asked,
\* although Joined is written before the server knows (handlers of List and Join in
\* session.rs, of ListRooms and Join in server.rs).
AnswersInTurn ==
    \A c \in Conns :
        LET q == Questions(c)
            a == Answers(c)
        IN  /\ Len(a) <= Len(q)
            /\ \A i \in DOMAIN a :
                  IF q[i].cmd = "join" THEN a[i] = Joined(q[i].room)
                  ELSE /\ a[i].kind = "rooms"
                       /\ \A j \in 1..(i - 1) : q[j].cmd = "join" => q[j].room \in a[i].names

\* A client that is never cut off is kept for as long as it runs: each run_later arms
\* the next one, on both sides (hb of client main.rs and session.rs), and nothing
\* else ends a session.
RunningIsKept ==
    \A c \in Conns \ outages :
        process[c] = "up" => phase[c] \notin {"stopping", "stopped"}

\* A client that ended, or does not come back, is forgotten by the server, also when
\* its session was waiting or had not been accepted (hb, stopping, Disconnect).
GoneIsForgotten ==
    \A c \in Conns :
        process[c] \in {"cut", "over"} ~>
            \/ process[c] = "up"
            \/ phase[c] = "stopped" /\ \A id \in DOMAIN sessions : sessions[id] # c

\* A client whose session has ended while it was cut off ends when it comes back: its
\* user does not type to nobody (stopping of client main.rs).
DroppedEnds == \A c \in Conns : phase[c] = "stopped" ~> process[c] # "up"

\* Client and session end together, though neither tells the other: no session ends
\* under a client that runs and can be reached, and each ends after the other has.
EndsTogether == []RunningIsKept /\ GoneIsForgotten /\ DroppedEnds

\* Every question is answered on the console that asked, if it keeps running, and
\* whatever is said in the meantime (ctx.wait() in List of session.rs).
QuestionsAreAnswered ==
    \A c \in Conns :
        Len(Questions(c)) > Len(Answers(c)) ~>
            Len(Questions(c)) = Len(Answers(c)) \/ process[c] # "up"

=============================================================================
