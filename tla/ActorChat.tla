------------------------------- MODULE ActorChat -------------------------------
(***************************************************************************)
(* The chat of actor_ws_tcp_chat: the ChatServer actor, one ChatSession     *)
(* actor per TCP connection (session.rs) and one WsChatSession actor per    *)
(* websocket (main.rs).  The server runs in an arbiter (thread) of its own; *)
(* sessions and server exchange messages through their mailboxes only.      *)
(*                                                                         *)
(* Time is left out here: a heartbeat may find the peer late at any moment  *)
(* (module Heartbeat says when it does), and the Ping frames, which only    *)
(* move the heartbeat, are not modelled.                                    *)
(***************************************************************************)
EXTENDS ChatSessions

CONSTANTS
    ServerMayFail,   \* bound: whether the server's thread may die
    Quitters         \* bound: connections that may end before the server does

\* The places of a peer that is in no room (see PlaceOf).
ASSUME PlacesAssumption == "outside" \notin Rooms /\ "gone" \notin Rooms
ASSUME FailAssumption == ServerMayFail \in BOOLEAN /\ Quitters \subseteq Conns

VARIABLES
    asked,        \* number of requests the peers have made
    received,     \* chat texts written to the peer, in order
    answered      \* Joined and Rooms answers written to the peer, in order

sessionVars == <<phase, sid, room, asked, received, answered>>
vars == <<sessions, rooms, issued, serverUp, inbox, open, mailbox, reply,
          phase, sid, room, asked, received, answered>>

Joined(r) == [type |-> "Joined", room |-> r]
RoomList(names) == [type |-> "Rooms", names |-> names]
Answers == [type : {"Joined"}, room : Rooms] \cup [type : {"Rooms"}, names : SUBSET Rooms]

TypeOK ==
    /\ ChatTypeOK
    /\ asked \in 0..MaxRequests
    /\ received \in [Conns -> Seq(Texts)]
    /\ answered \in [Conns -> Seq(Answers)]

Init ==
    /\ ChatInit
    /\ asked = 0
    /\ received = [c \in Conns |-> <<>>]
    /\ answered = [c \in Conns |-> <<>>]

-----------------------------------------------------------------------------
(* What session actors do to the shared state *)

\* Variant: the session goes on without its id, too.
WaitNot(c, p) == Goto(c, "running")

\* Variant: the list of rooms is asked for without ctx.wait().
WaitForIdOnly(c, p) == IF p = "listing" THEN UNCHANGED phase ELSE Goto(c, p)

\* ctx.wait(): nothing is handled until the reply is there.
Wait(c, p) == Goto(c, p)

\* ctx.stop()
StopActor(c) == Goto(c, "stopping")

\* Variant: the wait goes on when no reply can come.
WaitForEver(c) == FALSE

\* The wait ends with an error: the server, and with it the reply, is gone.
WaitFails(c) == ~serverUp /\ reply[c] = NoReply

\* Variant: the server is not told.
LeaveSilently(c) == UNCHANGED inbox

NotifyServer(c) == Post(Disconnect(sid[c]))

\* One more request of a peer; its number tells what is said apart.
Ask ==
    /\ asked < MaxRequests
    /\ asked' = asked + 1

Answer(c, a) == answered' = [answered EXCEPT ![c] = Append(@, a)]

-----------------------------------------------------------------------------
(* Start: started() sends Connect and waits for the id *)

\* A new actor has a mailbox; started() posts Connect and waits.
Start(c) ==
    /\ phase[c] = "absent"
    /\ Wait(c, "connecting")
    /\ open' = open \cup {c}
    /\ Post(Connect(c))
    /\ ServerUnchanged
    /\ UNCHANGED <<mailbox, reply, sid, room, asked, received, answered>>

TcpStarted(c) == c \in TcpConns /\ Start(c)
WsStarted(c) == c \in WsConns /\ Start(c)

\* The reply arrives: the session has its id.
StoreId(c) ==
    /\ phase[c] = "connecting"
    /\ reply[c].type = "Id"
    /\ sid' = [sid EXCEPT ![c] = reply[c].id]
    /\ reply' = [reply EXCEPT ![c] = NoReply]
    /\ Goto(c, "running")
    /\ ServerUnchanged
    /\ UNCHANGED <<inbox, open, mailbox, room, asked, received, answered>>

\* No reply can come any more: the wait ends with an error and ctx.stop().
GiveUp(c) ==
    /\ phase[c] = "connecting"
    /\ WaitFails(c)
    /\ StopActor(c)
    /\ ServerUnchanged
    /\ UNCHANGED <<inbox, open, mailbox, reply, sid, room, asked, received, answered>>

TcpConnectReply(c) == c \in TcpConns /\ (StoreId(c) \/ GiveUp(c))
WsConnectReply(c) == c \in WsConns /\ (StoreId(c) \/ GiveUp(c))

-----------------------------------------------------------------------------
(* Requests of a TCP peer *)

\* The room field changes and the peer is told at once, before the server
\* has seen the Join.
TcpJoin(c, name) ==
    /\ c \in TcpConns
    /\ phase[c] = "running"
    /\ Ask
    /\ room' = [room EXCEPT ![c] = name]
    /\ Post(Join(sid[c], name))
    /\ Answer(c, Joined(name))
    /\ ServerUnchanged
    /\ UNCHANGED <<open, mailbox, reply, phase, sid, received>>

Speak(c) ==
    /\ phase[c] = "running"
    /\ Ask
    /\ Post(Message(sid[c], Said(c, asked + 1), room[c]))
    /\ ServerUnchanged
    /\ UNCHANGED <<open, mailbox, reply, phase, sid, room, received, answered>>

TcpMessage(c) == c \in TcpConns /\ Speak(c)

\* A text frame, or a binary frame, which is announced as "binary".  The
\* commands are commented out: whatever is typed is said in the room.
WsText(c) == c \in WsConns /\ Speak(c)

TcpList(c) ==
    /\ c \in TcpConns
    /\ phase[c] = "running"
    /\ Ask
    /\ Post(ListRooms(c))
    /\ Wait(c, "listing")
    /\ ServerUnchanged
    /\ UNCHANGED <<open, mailbox, reply, sid, room, received, answered>>

WriteRooms(c) ==
    /\ phase[c] = "listing"
    /\ reply[c].type = "Rooms"
    /\ Answer(c, RoomList(reply[c].names))
    /\ reply' = [reply EXCEPT ![c] = NoReply]
    /\ Goto(c, "running")
    /\ ServerUnchanged
    /\ UNCHANGED <<inbox, open, mailbox, sid, room, asked, received>>

\* "Something is wrong" is printed; the session goes on without an answer.
SkipRooms(c) ==
    /\ phase[c] = "listing"
    /\ WaitFails(c)
    /\ Goto(c, "running")
    /\ ServerUnchanged
    /\ UNCHANGED <<inbox, open, mailbox, reply, sid, room, asked, received, answered>>

TcpListReply(c) == c \in TcpConns /\ (WriteRooms(c) \/ SkipRooms(c))

-----------------------------------------------------------------------------
(* Texts from the server, heartbeat, end *)

Deliver(c) ==
    /\ phase[c] = "running"
    /\ mailbox[c] # <<>>
    /\ received' = [received EXCEPT ![c] = Append(@, Head(mailbox[c]))]
    /\ mailbox' = [mailbox EXCEPT ![c] = Tail(@)]
    /\ ServerUnchanged
    /\ UNCHANGED <<inbox, open, reply, phase, sid, room, asked, answered>>

TcpDeliver(c) == c \in TcpConns /\ Deliver(c)
WsDeliver(c) == c \in WsConns /\ Deliver(c)

\* The heartbeat finds the peer late: Disconnect is posted, and the actor
\* is told to stop.  stopping() will post a second Disconnect.
DropPeer(c) ==
    /\ phase[c] = "running"
    /\ c \in Quitters
    /\ NotifyServer(c)
    /\ StopActor(c)
    /\ ServerUnchanged
    /\ UNCHANGED <<open, mailbox, reply, sid, room, asked, received, answered>>

TcpHeartbeatFails(c) == c \in TcpConns /\ DropPeer(c)
WsHeartbeatFails(c) == c \in WsConns /\ DropPeer(c)

\* ctx.stop() because the peer's stream is over.
StreamEnds(c) ==
    /\ phase[c] = "running"
    /\ c \in Quitters
    /\ StopActor(c)
    /\ ServerUnchanged
    /\ UNCHANGED <<inbox, open, mailbox, reply, sid, room, asked, received, answered>>

\* End of file, a frame that does not decode, a failed write.
TcpStreamEnds(c) == c \in TcpConns /\ StreamEnds(c)
\* A Close frame, or the end of the stream.
WsClose(c) == c \in WsConns /\ StreamEnds(c)

\* stopping(): Disconnect is posted and the actor ends, with its mailbox.
Stop(c) ==
    /\ phase[c] = "stopping"
    /\ NotifyServer(c)
    /\ Goto(c, "stopped")
    /\ open' = open \ {c}
    /\ mailbox' = [mailbox EXCEPT ![c] = <<>>]
    /\ ServerUnchanged
    /\ UNCHANGED <<reply, sid, room, asked, received, answered>>

TcpStopping(c) == c \in TcpConns /\ Stop(c)
WsStopping(c) == c \in WsConns /\ Stop(c)

-----------------------------------------------------------------------------
\* A peer comes, asks for something or goes: nothing makes it do so.
Peer(c) ==
    \/ TcpStarted(c)
    \/ WsStarted(c)
    \/ \E name \in Rooms : TcpJoin(c, name)
    \/ TcpMessage(c)
    \/ TcpList(c)
    \/ WsText(c)
    \/ TcpHeartbeatFails(c)
    \/ WsHeartbeatFails(c)
    \/ TcpStreamEnds(c)
    \/ WsClose(c)

\* What the actix runtime polls a session for until it is done.
Session(c) ==
    \/ TcpConnectReply(c)
    \/ WsConnectReply(c)
    \/ TcpListReply(c)
    \/ TcpDeliver(c)
    \/ WsDeliver(c)
    \/ TcpStopping(c)
    \/ WsStopping(c)

Server == Serve /\ UNCHANGED sessionVars
Failure == ServerMayFail /\ ServerFails /\ UNCHANGED sessionVars

Next ==
    \/ Server
    \/ Failure
    \/ \E c \in Conns : Peer(c) \/ Session(c)

Spec == Init /\ [][Next]_vars

\* Arbiters poll every actor that has something to do; peers may be silent
\* and the server need not die.
Fairness ==
    /\ WF_vars(Server)
    /\ \A c \in Conns : WF_vars(Session(c))

FairSpec == Spec /\ Fairness

-----------------------------------------------------------------------------
(* Properties *)

\* Everything on its way to, or already written to, the peer of c.
Feed(c) == received[c] \o mailbox[c]

\* A registered session is a member of exactly one room, in every state
\* between handlers (server.rs, handlers of Connect and Join).
OneRoomEach ==
    \A id \in DOMAIN sessions : \E r \in DOMAIN rooms : RoomsOf(id) = {r}

\* The room a session believes it is in, and puts in its Message, is the room
\* the server has it in when that Message is handled, although the session
\* changes its field before the server has seen the Join (session.rs, Join).
SpokenInOwnRoom ==
    inbox # <<>> /\ Head(inbox).type = "Message" =>
        RoomsOf(Head(inbox).id) = {Head(inbox).room}

\* The texts of one sender reach every hearer in the order they were sent,
\* each at most once, and never reach the sender itself (skip_id of
\* send_message, through both mailboxes).
SenderOrder ==
    \A c \in Conns :
        LET f == Feed(c)
        IN  \A i, j \in DOMAIN f :
                f[i].what = "Said" /\ f[j].what = "Said" /\ f[i].from = f[j].from =>
                    /\ f[i].from # c
                    /\ i < j => f[i].n < f[j].n

\* Two peers that both hear two texts hear them in the same order: the server
\* posts a text to all members before it handles the next message.
CommonOrder ==
    \A c, d \in Conns :
        LET f == Feed(c)
            g == Feed(d)
        IN  \A i, j \in DOMAIN f :
                i < j /\ f[i].what = "Said" /\ f[j].what = "Said" =>
                    ~ \E k, l \in DOMAIN g : k < l /\ g[k] = f[j] /\ g[l] = f[i]

\* After the peer was told "joined", every room list it gets has that room,
\* although the Joined answer is written before the server handles the Join;
\* and a room once listed is listed ever after (rooms are never removed).
ListSeesJoins ==
    \A c \in Conns : \A i, j \in DOMAIN answered[c] :
        LET a == answered[c][i]
            b == answered[c][j]
        IN  i < j /\ b.type = "Rooms" =>
                IF a.type = "Joined" THEN a.room \in b.names ELSE a.names \subseteq b.names

\* The inductive invariant.
IInv == TypeOK /\ TalkInv

\* A session whose actor has ended does not stay registered: one of its
\* Disconnects is handled, unless the server is dead.
StoppedIsUnregistered ==
    \A c \in Conns :
        phase[c] = "stopped" ~> (~serverUp \/ sid[c] \notin DOMAIN sessions)

\* ctx.wait() ends: a session that has asked the server for its id or for the
\* rooms handles events again, or learns that the server is dead.
WaitEnds ==
    \A c \in Conns :
        phase[c] \in {"connecting", "listing"} ~> phase[c] \notin {"connecting", "listing"}

\* The server is about to handle a text that c, in the same room, is to hear.
Addressed(c, t) ==
    /\ inbox # <<>>
    /\ Head(inbox).type = "Message"
    /\ Head(inbox).text = t
    /\ t.from # c
    /\ \E id \in DOMAIN sessions :
          sessions[id] = c /\ id \in rooms[Head(inbox).room]

\* A text said in a room is written to each other member of the room, unless
\* that member's connection or the server ends first.
TextIsHeard ==
    \A c \in Conns, t \in SaidTexts :
        Addressed(c, t) ~>
            \/ ~serverUp
            \/ phase[c] \in {"stopping", "stopped"}
            \/ \E i \in DOMAIN received[c] : received[c][i] = t

\* The abstract chat.  A peer is in the room the server has it in; its feed is
\* what was written to it and what waits in its session's mailbox.
PlaceOf(c) ==
    IF \E id \in DOMAIN sessions : sessions[id] = c
    THEN CHOOSE r \in DOMAIN rooms :
            \E id \in rooms[r] : id \in DOMAIN sessions /\ sessions[id] = c
    ELSE IF sid[c] = NoId THEN "outside" ELSE "gone"

Chat == INSTANCE RoomChat WITH
            Outside <- "outside", Gone <- "gone",
            place <- [c \in Conns |-> PlaceOf(c)],
            hears <- open,
            feed <- [c \in Conns |-> Feed(c)]

\* Two mailboxes, replies and repeated Disconnects together look like the
\* chat in which every request takes effect at one instant.
ImplementsRoomChat == Chat!Spec

=============================================================================
