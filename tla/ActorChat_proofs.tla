--------------------------- MODULE ActorChat_proofs ---------------------------
(***************************************************************************)
(* Theorems about ActorChat, for every set of connections, rooms and ids,   *)
(* every bound on the requests, and a server that may or may not die: its   *)
(* types, registry and replies, the rooms, the lists of rooms, who hears    *)
(* which texts and in which order; and that ActorChat implements RoomChat:  *)
(* every step of the actors is one action of the chat without actors, or is *)
(* invisible to it.                                                         *)
(***************************************************************************)
EXTENDS ActorChat, ChatSessions_proofs

-----------------------------------------------------------------------------
(* Type correctness *)

LEMMA InitType == Init => TypeOK
BY InitTalk, RequestsAssumption DEF Init, TalkInv, TypeOK

\* The server is that of ChatSessions.
LEMMA ServerIsStep == Server => ServerStep /\ UNCHANGED <<asked, received, answered>>
BY DEF Server, ServerStep, sessionVars

LEMMA FailureType == ASSUME TypeOK, Failure PROVE TypeOK'
BY EmptySeq DEF TypeOK, ChatTypeOK, Failure, ServerFails, sessionVars

\* What a peer says is a message.
LEMMA SaidMessage ==
    ASSUME TypeOK, NEW c \in Conns, asked < MaxRequests, sid[c] \in Ids
    PROVE  Message(sid[c], Said(c, asked + 1), room[c]) \in Messages
<1>1. asked + 1 \in 1..MaxRequests
  BY RequestsAssumption DEF TypeOK
<1> QED BY <1>1, PostedMessages DEF TypeOK

LEMMA SessionType ==
    ASSUME TypeOK, HasId, NEW c \in Conns, Peer(c) \/ Session(c)
    PROVE  TypeOK'
<1> USE DEF TypeOK, ChatTypeOK
<1>0. \A m \in Messages : Post(m) => inbox' \in Seq(Messages)
  BY PostAdds
<1>1. CASE Start(c)
  BY <1>0, <1>1, PostedMessages DEF Start, Wait, Goto, Phases, ServerUnchanged
<1>2. CASE StoreId(c)
  <2>1. reply[c].id \in Ids
    BY <1>2, ReplyKinds DEF StoreId
  <2> QED BY <1>2, <2>1 DEF StoreId, Goto, Phases, ServerUnchanged, Replies
<1>3. CASE GiveUp(c)
  BY <1>3 DEF GiveUp, WaitFails, StopActor, Goto, Phases, ServerUnchanged
<1>4. ASSUME NEW name \in Rooms, TcpJoin(c, name) PROVE TypeOK'
  <2>1. Joined(name) \in Answers
    BY DEF Joined, Answers
  <2>2. answered' \in [Conns -> Seq(Answers)]
    BY <1>4, <2>1, AppendProperties DEF TcpJoin, Answer
  <2>3. Join(sid[c], name) \in Messages
    BY <1>4, PostedMessages DEF TcpJoin, HasId
  <2>4. inbox' \in Seq(Messages)
    BY <1>0, <1>4, <2>3 DEF TcpJoin
  <2>5. asked' \in 0..MaxRequests
    BY <1>4, RequestsAssumption DEF TcpJoin, Ask
  <2>6. room' \in [Conns -> Rooms]
    BY <1>4 DEF TcpJoin
  <2> QED BY <1>4, <2>2, <2>4, <2>5, <2>6 DEF TcpJoin, ServerUnchanged
<1>5. CASE Speak(c)
  <2>1. Message(sid[c], Said(c, asked + 1), room[c]) \in Messages
    BY <1>5, SaidMessage DEF Speak, Ask, HasId
  <2>2. inbox' \in Seq(Messages)
    BY <1>0, <1>5, <2>1 DEF Speak
  <2> QED BY <1>5, <2>2, RequestsAssumption DEF Speak, Ask, ServerUnchanged
<1>6. CASE TcpList(c)
  BY <1>0, <1>6, PostedMessages, RequestsAssumption
     DEF TcpList, Ask, Wait, Goto, Phases, ServerUnchanged
<1>7. CASE WriteRooms(c)
  <2>1. RoomList(reply[c].names) \in Answers
    BY <1>7, ReplyKinds DEF WriteRooms, RoomList, Answers
  <2>2. answered' \in [Conns -> Seq(Answers)]
    BY <1>7, <2>1, AppendProperties DEF WriteRooms, Answer
  <2> QED BY <1>7, <2>2 DEF WriteRooms, Goto, Phases, ServerUnchanged, Replies
<1>8. CASE SkipRooms(c)
  BY <1>8 DEF SkipRooms, WaitFails, Goto, Phases, ServerUnchanged
<1>9. CASE Deliver(c)
  <2>1. Head(mailbox[c]) \in Texts /\ Tail(mailbox[c]) \in Seq(Texts)
    BY <1>9, HeadTailProperties DEF Deliver
  <2>2. received' \in [Conns -> Seq(Texts)]
    BY <1>9, <2>1, AppendProperties DEF Deliver
  <2> QED BY <1>9, <2>1, <2>2 DEF Deliver, ServerUnchanged
<1>10. CASE DropPeer(c)
  BY <1>0, <1>10, PostedMessages DEF DropPeer, NotifyServer, StopActor, Goto, Phases, ServerUnchanged
<1>11. CASE StreamEnds(c)
  BY <1>11 DEF StreamEnds, StopActor, Goto, Phases, ServerUnchanged
<1>12. CASE Stop(c)
  <2>1. mailbox' \in [Conns -> Seq(Texts)]
    BY <1>12, EmptySeq DEF Stop
  <2> QED BY <1>0, <1>12, <2>1, PostedMessages DEF Stop, NotifyServer, Goto, Phases, ServerUnchanged
<1> QED BY <1>1, <1>2, <1>3, <1>4, <1>5, <1>6, <1>7, <1>8, <1>9, <1>10, <1>11, <1>12
        DEF Peer, Session, TcpStarted, WsStarted, TcpConnectReply, WsConnectReply,
            TcpMessage, WsText, TcpListReply, TcpDeliver, WsDeliver, TcpHeartbeatFails,
            WsHeartbeatFails, TcpStreamEnds, WsClose, TcpStopping, WsStopping

-----------------------------------------------------------------------------
(* What the registry, the replies and the mailbox look like after each kind  *)
(* of step, for the invariants below.                                        *)

LEMMA FailureTalk == ASSUME IInv, Failure PROVE Talk' /\ RoomMembersRegistered'
<1>1. inbox' = <<>> /\ DOMAIN inbox' = {}
  BY DEF Failure, ServerFails
<1> QED BY <1>1 DEF IInv, TalkInv, Failure, ServerFails, sessionVars, Talk, RepliesMatch, IdsOwned,
           OneQuestion, DisconnectIsLast, RoomMembersRegistered

-----------------------------------------------------------------------------
(* Steps of sessions *)

\* The kinds of steps of a session.
LEMMA SessionSteps ==
    ASSUME NEW c \in Conns, Peer(c) \/ Session(c)
    PROVE  \/ Start(c) \/ StoreId(c) \/ GiveUp(c)
           \/ \E name \in Rooms : TcpJoin(c, name)
           \/ Speak(c) \/ TcpList(c) \/ WriteRooms(c) \/ SkipRooms(c)
           \/ Deliver(c) \/ DropPeer(c) \/ StreamEnds(c) \/ Stop(c)
BY DEF Peer, Session, TcpStarted, WsStarted, TcpConnectReply, WsConnectReply,
       TcpMessage, WsText, TcpListReply, TcpDeliver, WsDeliver, TcpHeartbeatFails,
       WsHeartbeatFails, TcpStreamEnds, WsClose, TcpStopping, WsStopping

\* A wait ends because the server is dead.
LEMMA FailedTalk ==
    ASSUME IInv, NEW c \in Conns, GiveUp(c) \/ SkipRooms(c) PROVE Talk'
<1>1. /\ phase \in [Conns -> Phases]
      /\ sid \in [Conns -> Ids \cup {NoId}] /\ reply \in [Conns -> Replies]
  BY DEF IInv, TypeOK, ChatTypeOK
<1>2. UNCHANGED <<inbox, sessions, issued, serverUp>>
  BY DEF GiveUp, SkipRooms, ServerUnchanged
<1>3. /\ inbox = <<>> /\ DOMAIN inbox = {} /\ UNCHANGED <<sid, reply>>
      /\ phase[c] = "connecting" => phase' = [phase EXCEPT ![c] = "stopping"]
      /\ phase[c] = "listing" => phase' = [phase EXCEPT ![c] = "running"]
      /\ phase[c] \in {"connecting", "listing"} /\ reply[c] = NoReply
  BY DEF GiveUp, SkipRooms, WaitFails, StopActor, Goto, IInv, TalkInv, OneQuestion
<1>4. RepliesMatch' /\ IdsOwned'
  BY <1>1, <1>2, <1>3 DEF IInv, TalkInv, RepliesMatch, IdsOwned, NoReply
<1> QED BY <1>2, <1>3, <1>4 DEF Talk, OneQuestion, DisconnectIsLast

LEMMA SessionTalk == ASSUME IInv, NEW c \in Conns, Peer(c) \/ Session(c) PROVE Talk'
<1>1. CASE Start(c)
  BY <1>1, StartTalk DEF IInv, Start, Wait, ServerUnchanged
<1>2. ASSUME NEW name \in Rooms, TcpJoin(c, name) PROVE Talk'
  <2>1. sid[c] \in Ids
    BY <1>2, IdsHeld DEF TcpJoin, HasId, IInv, TalkInv
  <2>2. Join(sid[c], name) \in Messages
    BY <2>1, PostedMessages DEF IInv, TalkInv
  <2> QED BY <1>2, <2>2, SayTalk DEF IInv, TcpJoin, Join, ServerUnchanged
<1>3. CASE Speak(c)
  <2>1. sid[c] \in Ids
    BY <1>3, IdsHeld DEF Speak, HasId, IInv, TalkInv
  <2>2. Message(sid[c], Said(c, asked + 1), room[c]) \in Messages
    BY <1>3, <2>1, SaidMessage DEF IInv, Speak, Ask
  <2> QED BY <1>3, <2>2, SayTalk DEF IInv, Speak, Message, ServerUnchanged
<1>4. CASE TcpList(c)
  BY <1>4, ListTalk DEF IInv, TcpList, Wait, ServerUnchanged
<1>5. CASE DropPeer(c)
  BY <1>5, LeaveTalk DEF IInv, DropPeer, NotifyServer, StopActor, Goto, ServerUnchanged
<1>6. CASE Stop(c)
  BY <1>6, LeaveTalk DEF IInv, Stop, NotifyServer, Goto, ServerUnchanged
<1>7. CASE StoreId(c)
  BY <1>7, IdTalk DEF IInv, StoreId, ServerUnchanged
<1>8. CASE GiveUp(c) \/ SkipRooms(c)
  BY <1>8, FailedTalk
<1>9. CASE WriteRooms(c)
  BY <1>9, RoomsTalk DEF IInv, WriteRooms, ServerUnchanged
<1>10. CASE Deliver(c)
  BY <1>10, QuietTalk DEF IInv, Deliver, ServerUnchanged
<1>11. CASE StreamEnds(c)
  BY <1>11, EndTalk DEF IInv, StreamEnds, StopActor, ServerUnchanged
<1> QED BY <1>1, <1>2, <1>3, <1>4, <1>5, <1>6, <1>7, <1>8, <1>9, <1>10, <1>11, SessionSteps

LEMMA SessionRooms ==
    ASSUME IInv, NEW c \in Conns, Peer(c) \/ Session(c) PROVE RoomMembersRegistered'
<1>1. UNCHANGED <<sessions, rooms>>
  BY DEF Peer, Session, TcpStarted, WsStarted, TcpConnectReply, WsConnectReply,
         TcpMessage, WsText, TcpListReply, TcpDeliver, WsDeliver, TcpHeartbeatFails,
         WsHeartbeatFails, TcpStreamEnds, WsClose, TcpStopping, WsStopping,
         Start, StoreId, GiveUp, TcpJoin, Speak, TcpList, WriteRooms, SkipRooms, Deliver,
         DropPeer, StreamEnds, Stop, ServerUnchanged
<1> QED BY <1>1 DEF IInv, TalkInv, RoomMembersRegistered

-----------------------------------------------------------------------------
(* Theorems: types, registry, replies *)

\* IInv is inductive: no order of requests, replies, deliveries, heartbeats,
\* ends and deaths of the server leads out of it.
THEOREM Invariance == Spec => []IInv
<1>1. Init => IInv
  BY InitType, InitTalk DEF Init, IInv
<1>2. IInv /\ [Next]_vars => IInv'
  <2> SUFFICES ASSUME IInv, [Next]_vars PROVE IInv'
    OBVIOUS
  <2>1. TypeOK /\ HasId /\ TalkInv
    BY IdsHeld DEF IInv, TalkInv
  <2>2. CASE Server
    BY <2>1, <2>2, ServerIsStep, ServerTalk DEF IInv, TypeOK, TalkInv
  <2>3. CASE Failure
    BY <2>1, <2>3, FailureType, FailureTalk DEF IInv, TalkInv, Talk, TypeOK
  <2>4. ASSUME NEW c \in Conns, Peer(c) \/ Session(c) PROVE IInv'
    <3>1. Talk' /\ RoomMembersRegistered' /\ TypeOK'
      BY <2>1, <2>4, SessionType, SessionTalk, SessionRooms
    <3> QED BY <3>1 DEF IInv, TalkInv, Talk, TypeOK
  <2>5. CASE UNCHANGED vars
    BY <2>5 DEF IInv, TalkInv, TypeOK, ChatTypeOK, RoomMembersRegistered, RepliesMatch, IdsOwned, OneQuestion,
                DisconnectIsLast, vars
  <2> QED BY <2>2, <2>3, <2>4, <2>5 DEF Next
<1> QED BY <1>1, <1>2, PTL DEF Spec

\* The state of server, sessions and mailboxes keeps its types (server.rs,
\* session.rs, main.rs).
THEOREM TypeCorrect == Spec => []TypeOK
BY Invariance, PTL DEF IInv, TalkInv

\* No room ever lists the id of a session that is not registered: nothing a
\* session posts can overtake, or follow, its Disconnect (server.rs,
\* Disconnect and Join).
THEOREM NoGhosts == Spec => []RoomMembersRegistered
BY Invariance, PTL DEF IInv, TalkInv

\* A session that waits in ctx.wait() gets the reply to its own question.
THEOREM RepliesAreForTheAsker == Spec => []RepliesMatch
BY Invariance, PTL DEF IInv, TalkInv

-----------------------------------------------------------------------------
(* What every step does to the server's mailbox *)

-----------------------------------------------------------------------------
(* The room a registered session is in *)

\* The Joins of id that the server handles before message number i.
JoinsBefore(i, id) ==
    {j \in DOMAIN inbox : j < i /\ inbox[j].type = "Join" /\ inbox[j].id = id}

\* When the server comes to message number i, id is a member of room r: the
\* last Join on the way says so, or the server has it there now.
InRoomAt(i, id, r) ==
    \/ \E j \in JoinsBefore(i, id) :
          inbox[j].name = r /\ \A k \in JoinsBefore(i, id) : k <= j
    \/ JoinsBefore(i, id) = {} /\ r \in DOMAIN rooms /\ id \in rooms[r]

\* Every Message names the room its sender is in when it is handled; and the
\* room field of a session is where the server will have it once all that is
\* in the mailbox is handled.
MessagesAgree ==
    \A i \in DOMAIN inbox :
        inbox[i].type = "Message" => InRoomAt(i, inbox[i].id, inbox[i].room)

FieldsAgree ==
    \A c \in Conns :
        /\ phase[c] \in {"absent", "connecting"} => room[c] = Main
        /\ serverUp /\ Active(c) => InRoomAt(Len(inbox) + 1, sid[c], room[c])
        /\ serverUp /\ reply[c].type = "Id" => InRoomAt(Len(inbox) + 1, reply[c].id, Main)

RoomInv == OneRoomEach /\ MessagesAgree /\ FieldsAgree

\* A handled message leaves an id where it was to be: its Join puts it there,
\* and nothing else moves it.
LEMMA TakenRooms ==
    ASSUME Taken, NEW id, NEW i \in Nat \ {0}, NEW r, InRoomAt(i + 1, id, r),
           inbox[1].type = "Join" /\ inbox[1].id = id =>
              inbox[1].name \in DOMAIN rooms' /\ id \in rooms'[inbox[1].name],
           ~ (inbox[1].type = "Join" /\ inbox[1].id = id) =>
              \A s \in DOMAIN rooms : id \in rooms[s] => s \in DOMAIN rooms' /\ id \in rooms'[s]
    PROVE  InRoomAt(i, id, r)'
<1>1. ASSUME NEW k \in JoinsBefore(i, id)'
      PROVE  k \in Nat \ {0} /\ k + 1 \in JoinsBefore(i + 1, id)
  BY <1>1 DEF Taken, JoinsBefore
<1>2. ASSUME NEW k \in JoinsBefore(i + 1, id), k # 1
      PROVE  k \in Nat /\ k - 1 \in JoinsBefore(i, id)' /\ inbox'[k - 1] = inbox[k]
  BY <1>2 DEF Taken, JoinsBefore
<1>3. ASSUME NEW j \in JoinsBefore(i + 1, id), inbox[j].name = r, j # 1,
             \A k \in JoinsBefore(i + 1, id) : k <= j
      PROVE  InRoomAt(i, id, r)'
  <2>1. j - 1 \in JoinsBefore(i, id)' /\ inbox'[j - 1].name = r /\ j \in Nat
    BY <1>2, <1>3
  <2>2. ASSUME NEW k \in JoinsBefore(i, id)' PROVE k <= j - 1
    BY <1>1, <1>3, <2>1
  <2> QED BY <2>1, <2>2 DEF InRoomAt
<1>4. ASSUME 1 \in JoinsBefore(i + 1, id), inbox[1].name = r,
             \A k \in JoinsBefore(i + 1, id) : k <= 1
      PROVE  InRoomAt(i, id, r)'
  <2>1. JoinsBefore(i, id)' = {}
    BY <1>1, <1>4
  <2>2. inbox[1].type = "Join" /\ inbox[1].id = id
    BY <1>4 DEF JoinsBefore
  <2> QED BY <1>4, <2>1, <2>2 DEF InRoomAt
<1>5. ASSUME JoinsBefore(i + 1, id) = {}, r \in DOMAIN rooms, id \in rooms[r]
      PROVE  InRoomAt(i, id, r)'
  <2>1. JoinsBefore(i, id)' = {}
    BY <1>1, <1>5
  <2>2. ~ (inbox[1].type = "Join" /\ inbox[1].id = id)
    BY <1>5 DEF JoinsBefore, Taken
  <2> QED BY <1>5, <2>1, <2>2 DEF InRoomAt
<1> QED BY <1>3, <1>4, <1>5 DEF InRoomAt

\* A posted message changes nothing for those ahead of it, and moves at most
\* the id it is a Join of.
LEMMA AddedRooms ==
    ASSUME NEW m, Added(m), UNCHANGED rooms, NEW id, NEW r, NEW n, n = Len(inbox)
    PROVE  /\ \A i \in Nat : i <= n + 1 /\ InRoomAt(i, id, r) => InRoomAt(i, id, r)'
           /\ ~ (m.type = "Join" /\ m.id = id) /\ InRoomAt(n + 1, id, r) =>
                 InRoomAt(n + 2, id, r)'
           /\ m.type = "Join" /\ m.id = id /\ m.name = r => InRoomAt(n + 2, id, r)'
<1>1. ASSUME NEW i \in Nat, i <= n + 1 PROVE JoinsBefore(i, id)' = JoinsBefore(i, id)
  BY <1>1 DEF Added, JoinsBefore
<1>2. \A i \in Nat : \A j \in JoinsBefore(i, id) : inbox'[j] = inbox[j]
  BY DEF Added, JoinsBefore
<1>3. \A i \in Nat : i <= n + 1 /\ InRoomAt(i, id, r) => InRoomAt(i, id, r)'
  BY <1>1, <1>2 DEF InRoomAt
<1>4. n \in Nat
  BY DEF Added
<1>5. ASSUME ~ (m.type = "Join" /\ m.id = id), InRoomAt(n + 1, id, r)
      PROVE  InRoomAt(n + 2, id, r)'
  <2>1. JoinsBefore(n + 2, id)' = JoinsBefore(n + 1, id)
    BY <1>5 DEF Added, JoinsBefore
  <2> QED BY <1>2, <1>4, <1>5, <2>1 DEF InRoomAt
<1>6. ASSUME m.type = "Join", m.id = id, m.name = r PROVE InRoomAt(n + 2, id, r)'
  <2>1. n + 1 \in JoinsBefore(n + 2, id)' /\ inbox'[n + 1].name = r
    BY <1>6 DEF Added, JoinsBefore
  <2>2. \A k \in JoinsBefore(n + 2, id)' : k <= n + 1
    BY DEF Added, JoinsBefore
  <2> QED BY <2>1, <2>2 DEF InRoomAt
<1> QED BY <1>3, <1>5, <1>6

LEMMA InitRoomInv == Init => RoomInv
BY DEF Init, ServerInit, RoomInv, OneRoomEach, MessagesAgree, FieldsAgree, NoReply, Active,
   ChatInit

\* A registered session is in one room after each handler.
LEMMA ServerOneRoom == ASSUME IInv, OneRoomEach, Server PROVE OneRoomEach'
<1>1. TypeOK /\ RoomMembersRegistered /\ DOMAIN sessions \subseteq issued
  BY DEF IInv, TalkInv, IdsOwned
<1>2. inbox[1] = Head(inbox) /\ 1 \in DOMAIN inbox
  BY <1>1, ServerTakes DEF Server, Taken, TypeOK
<1>3. CASE HandleConnect
  <2>1. PICK id \in Ids \ issued :
          sessions' = Register(id, Head(inbox).conn) /\ rooms' = WithMember(rooms, id, Main)
    BY <1>3 DEF HandleConnect, OnConnect
  <2>2. /\ DOMAIN rooms' = DOMAIN rooms /\ Main \in DOMAIN rooms
        /\ \A r \in DOMAIN rooms : rooms'[r] = rooms[r] \cup (IF r = Main THEN {id} ELSE {})
        /\ DOMAIN sessions' = DOMAIN sessions \cup {id}
    BY <1>1, <2>1 DEF WithMember, Register, TypeOK, ChatTypeOK
  <2>3. \A r \in DOMAIN rooms : id \notin rooms[r]
    BY <1>1, <2>1 DEF RoomMembersRegistered
  <2>4. RoomsOf(id)' = {Main}
    BY <2>2, <2>3 DEF RoomsOf
  <2>5. ASSUME NEW d \in DOMAIN sessions PROVE RoomsOf(d)' = RoomsOf(d)
    <3>1. d # id
      BY <1>1, <2>1
    <3> QED BY <2>2, <3>1 DEF RoomsOf
  <2> QED BY <2>2, <2>4, <2>5 DEF OneRoomEach
<1>4. CASE HandleDisconnect
  <2> DEFINE id == Head(inbox).id
  <2>1. CASE DisconnectUnknown(id)
    BY <2>1 DEF DisconnectUnknown, OneRoomEach, RoomsOf
  <2>2. CASE DisconnectRegistered(id)
    <3>1. /\ DOMAIN rooms' = DOMAIN rooms
          /\ \A r \in DOMAIN rooms : rooms'[r] = rooms[r] \ {id}
          /\ DOMAIN sessions' = DOMAIN sessions \ {id}
      BY <2>2 DEF DisconnectRegistered, WithoutMember, Unregister
    <3>2. \A d \in DOMAIN sessions' : RoomsOf(d)' = RoomsOf(d)
      BY <3>1 DEF RoomsOf
    <3> QED BY <3>1, <3>2 DEF OneRoomEach
  <2> QED BY <1>4, <2>1, <2>2 DEF HandleDisconnect, OnDisconnect
<1>5. CASE HandleMessage \/ HandleListRooms
  BY <1>5 DEF HandleMessage, HandleListRooms, OnMessage, OnListRooms, OneRoomEach, RoomsOf
<1>6. CASE HandleJoin
  <2>0. PICK id, name : id = Head(inbox).id /\ name = Head(inbox).name
    OBVIOUS
  <2>1. /\ DOMAIN rooms' = DOMAIN rooms \cup {name} /\ UNCHANGED sessions
        /\ \A r \in DOMAIN rooms' : \A d :
              d \in rooms'[r] <=>
                 \/ d = id /\ r = name
                 \/ d # id /\ r \in DOMAIN rooms /\ d \in rooms[r]
    BY <1>6, <2>0 DEF HandleJoin, OnJoin, WithMember, WithoutMember
  <2>2. RoomsOf(id)' = {name}
    BY <2>1 DEF RoomsOf
  <2>3. \A d \in DOMAIN sessions : d # id => RoomsOf(d)' = RoomsOf(d)
    BY <2>1 DEF RoomsOf
  <2> QED BY <2>1, <2>2, <2>3 DEF OneRoomEach
<1> QED BY <1>3, <1>4, <1>5, <1>6 DEF Server, Serve

\* A handler moves a registered id only when it handles its Join, or takes it
\* out of the registry.
LEMMA ServerMoves ==
    ASSUME IInv, Server, NEW id \in DOMAIN sessions,
           ~ (inbox[1].type = "Disconnect" /\ inbox[1].id = id)
    PROVE  /\ inbox[1].type = "Join" /\ inbox[1].id = id =>
                 inbox[1].name \in DOMAIN rooms' /\ id \in rooms'[inbox[1].name]
           /\ ~ (inbox[1].type = "Join" /\ inbox[1].id = id) =>
                 \A r \in DOMAIN rooms :
                    id \in rooms[r] => r \in DOMAIN rooms' /\ id \in rooms'[r]
<1>1. inbox[1] = Head(inbox)
  BY ServerTakes DEF Server, IInv, TalkInv
<1>2. CASE HandleConnect
  BY <1>1, <1>2 DEF HandleConnect, OnConnect, Consume, WithMember
<1>3. CASE HandleDisconnect
  BY <1>1, <1>3 DEF HandleDisconnect, OnDisconnect, Consume, DisconnectRegistered,
                    DisconnectUnknown, WithoutMember
<1>4. CASE HandleMessage \/ HandleListRooms
  BY <1>1, <1>4 DEF HandleMessage, HandleListRooms, OnMessage, OnListRooms, Consume
<1>5. CASE HandleJoin
  BY <1>1, <1>5 DEF HandleJoin, OnJoin, Consume, WithMember, WithoutMember
<1> QED BY <1>2, <1>3, <1>4, <1>5 DEF Server, Serve

LEMMA ServerRoomInv == ASSUME IInv, RoomInv, Server PROVE RoomInv'
<1>1. /\ TypeOK /\ Taken /\ UNCHANGED <<phase, sid, room, serverUp>>
  BY ServerTakes DEF IInv, TalkInv, Server, sessionVars, Serve, HandleConnect, HandleDisconnect,
                     HandleMessage, HandleListRooms, HandleJoin, Consume
<1>2. ASSUME NEW i \in Nat \ {0}, NEW id \in DOMAIN sessions, NEW r, InRoomAt(i + 1, id, r),
             ~ (inbox[1].type = "Disconnect" /\ inbox[1].id = id)
      PROVE  InRoomAt(i, id, r)'
  BY <1>1, <1>2, ServerMoves, TakenRooms
<1>3. OneRoomEach'
  BY ServerOneRoom DEF RoomInv
<1>4. MessagesAgree'
  <2> SUFFICES ASSUME NEW i \in DOMAIN inbox', inbox'[i].type = "Message"
               PROVE  InRoomAt(i, inbox[i].id, inbox[i].room)'
    BY DEF MessagesAgree
  <2>1. /\ i \in Nat \ {0} /\ i + 1 \in DOMAIN inbox /\ inbox'[i] = inbox[i + 1]
        /\ 1 \in DOMAIN inbox
    BY <1>1 DEF Taken
  <2>2. /\ inbox[i + 1].id \in DOMAIN sessions
        /\ ~ (inbox[1].type = "Disconnect" /\ inbox[1].id = inbox[i + 1].id)
    BY <2>1 DEF IInv, TalkInv, DisconnectIsLast
  <2>3. InRoomAt(i + 1, inbox[i + 1].id, inbox[i + 1].room)
    BY <2>1 DEF RoomInv, MessagesAgree
  <2>4. PICK id, r : id = inbox[i + 1].id /\ r = inbox[i + 1].room
    OBVIOUS
  <2>5. InRoomAt(i, id, r)'
    BY <1>2, <2>1, <2>2, <2>3, <2>4
  <2> QED BY <2>1, <2>4, <2>5 DEF InRoomAt, JoinsBefore
<1>5. FieldsAgree'
  <2>1. PICK n \in Nat \ {0} : n = Len(inbox) /\ Len(inbox') = n - 1
    BY <1>1 DEF Taken
  <2> SUFFICES ASSUME NEW c \in Conns, serverUp
               PROVE  /\ Active(c) => InRoomAt(n, sid[c], room[c])'
                      /\ reply'[c].type = "Id" => InRoomAt(n, reply[c].id, Main)'
    BY <1>1, <2>1 DEF RoomInv, FieldsAgree, Active, InRoomAt, JoinsBefore
  <2>2. ASSUME Active(c) PROVE InRoomAt(n, sid[c], room[c])'
    <3>1. /\ sid[c] \in DOMAIN sessions
          /\ ~ (inbox[1].type = "Disconnect" /\ inbox[1].id = sid[c])
      BY <1>1, <2>2 DEF IInv, TalkInv, IdsOwned, DisconnectIsLast, Active, Taken
    <3>2. PICK id, r : id = sid[c] /\ r = room[c]
      OBVIOUS
    <3>3. InRoomAt(n, id, r)'
      BY <1>2, <2>1, <2>2, <3>1, <3>2 DEF RoomInv, FieldsAgree
    <3> QED BY <1>1, <3>2, <3>3 DEF InRoomAt, JoinsBefore
  <2>3. ASSUME reply'[c] = reply[c], reply[c].type = "Id" PROVE InRoomAt(n, reply[c].id, Main)'
    <3>1. /\ reply[c].id \in DOMAIN sessions
          /\ ~ (inbox[1].type = "Disconnect" /\ inbox[1].id = reply[c].id)
      <4>1. reply[c].id \in DOMAIN sessions
        BY <2>3 DEF IInv, TalkInv, IdsOwned
      <4>2. 1 \in DOMAIN inbox
        BY <1>1 DEF Taken
      <4>3. inbox[1].type = "Disconnect" => inbox[1].id # reply[c].id
        BY <2>3, <4>2 DEF IInv, TalkInv, DisconnectIsLast
      <4> QED BY <4>1, <4>3
    <3>2. PICK id : id = reply[c].id
      OBVIOUS
    <3>3. InRoomAt(n, id, Main)'
      BY <1>2, <2>1, <2>3, <3>1, <3>2 DEF RoomInv, FieldsAgree
    <3> QED BY <2>3, <3>2, <3>3 DEF InRoomAt, JoinsBefore
  <2>4. ASSUME reply'[c] # reply[c], reply'[c].type = "Id"
        PROVE  InRoomAt(n, reply[c].id, Main)'
    <3>1. PICK id \in Ids \ issued :
            /\ rooms' = WithMember(rooms, id, Main)
            /\ reply' = [reply EXCEPT ![Head(inbox).conn] = IdReply(id)]
      BY <2>4 DEF Server, Serve, HandleConnect, HandleDisconnect, HandleMessage,
                  HandleListRooms, HandleJoin, OnConnect, OnDisconnect, DisconnectRegistered,
                  DisconnectUnknown, OnMessage, OnListRooms, RoomsReply, OnJoin, IInv, TalkInv, TypeOK, ChatTypeOK
    <3>2. reply'[c].id = id
      BY <1>1, <2>4, <3>1 DEF IdReply, TypeOK, ChatTypeOK
    <3>3. \A j \in DOMAIN inbox' : inbox'[j].type = "Join" => inbox'[j].id # id
      BY <1>1, <3>1 DEF Taken, IInv, TalkInv, DisconnectIsLast, IdsOwned
    <3>4. Main \in DOMAIN rooms' /\ id \in rooms'[Main]
      BY <3>1 DEF WithMember
    <3> QED BY <3>2, <3>3, <3>4 DEF InRoomAt, JoinsBefore
  <2> QED BY <2>2, <2>3, <2>4
<1> QED BY <1>3, <1>4, <1>5 DEF RoomInv

\* What all steps of a session leave alone.
LEMMA SessionKeeps ==
    ASSUME NEW c \in Conns, Peer(c) \/ Session(c)
    PROVE  UNCHANGED <<sessions, rooms, issued, serverUp>>
BY SessionSteps
   DEF Start, StoreId, GiveUp, TcpJoin, Speak, TcpList, WriteRooms, SkipRooms, Deliver,
       DropPeer, StreamEnds, Stop, ServerUnchanged

\* A step that posts nothing and moves nobody; a session may learn its id.
LEMMA QuietFields ==
    ASSUME FieldsAgree, serverUp, UNCHANGED <<inbox, rooms, room, serverUp>>,
           \A d \in Conns :
              /\ Active(d)' =>
                    \/ Active(d) /\ sid'[d] = sid[d]
                    \/ reply[d].type = "Id" /\ sid'[d] = reply[d].id /\ room[d] = Main
              /\ reply'[d].type = "Id" => reply'[d] = reply[d]
              /\ phase'[d] \in {"absent", "connecting"} => room'[d] = Main
    PROVE  FieldsAgree'
BY DEF FieldsAgree, InRoomAt, JoinsBefore

\* A posted message that is no Join.
LEMMA PostedFields ==
    ASSUME FieldsAgree, NEW m, Added(m), m.type # "Join",
           UNCHANGED <<rooms, room, sid, reply, serverUp>>,
           \A d \in Conns :
              /\ Active(d)' => Active(d)
              /\ phase'[d] \in {"absent", "connecting"} => room'[d] = Main
    PROVE  FieldsAgree'
<1>1. PICK n \in Nat : n = Len(inbox) /\ Len(inbox') = n + 1
  BY DEF Added
<1>2. \A id, r : InRoomAt(n + 1, id, r) => InRoomAt(n + 2, id, r)'
  BY <1>1, AddedRooms
<1>3. ASSUME NEW d \in Conns, Active(d), serverUp PROVE InRoomAt(n + 2, sid[d], room[d])'
  <2>1. PICK id, r : id = sid[d] /\ r = room[d]
    OBVIOUS
  <2>2. InRoomAt(n + 2, id, r)'
    BY <1>1, <1>2, <1>3, <2>1 DEF FieldsAgree
  <2> QED BY <2>1, <2>2 DEF InRoomAt, JoinsBefore
<1>4. ASSUME NEW d \in Conns, reply[d].type = "Id", serverUp
      PROVE  InRoomAt(n + 2, reply[d].id, Main)'
  <2>1. PICK id : id = reply[d].id
    OBVIOUS
  <2>2. InRoomAt(n + 2, id, Main)'
    BY <1>1, <1>2, <1>4, <2>1 DEF FieldsAgree
  <2> QED BY <2>1, <2>2 DEF InRoomAt, JoinsBefore
<1>5. Len(inbox') + 1 = n + 2
  BY <1>1
<1> QED BY <1>3, <1>4, <1>5 DEF FieldsAgree, InRoomAt, JoinsBefore

\* A posted message that is no Message, or one that names the sender's room.
LEMMA PostedMessagesAgree ==
    ASSUME MessagesAgree, NEW m, Added(m), UNCHANGED rooms,
           m.type = "Message" => InRoomAt(Len(inbox) + 1, m.id, m.room)
    PROVE  MessagesAgree'
<1> SUFFICES ASSUME NEW i \in DOMAIN inbox', inbox'[i].type = "Message"
             PROVE  InRoomAt(i, inbox[i].id, inbox[i].room)'
  BY DEF MessagesAgree
<1>1. PICK n \in Nat : n = Len(inbox)
  BY DEF Added
<1>2. PICK id, r : id = inbox'[i].id /\ r = inbox'[i].room
  OBVIOUS
<1>3. i \in Nat /\ i <= n + 1 /\ InRoomAt(i, id, r)
  BY <1>1, <1>2 DEF Added, MessagesAgree
<1>4. InRoomAt(i, id, r)'
  BY <1>1, <1>3, AddedRooms
<1> QED BY <1>2, <1>4 DEF InRoomAt, JoinsBefore

\* The Join of a session moves its own id only.
LEMMA JoinFields ==
    ASSUME IInv, FieldsAgree, serverUp, NEW c \in Conns, NEW name \in Rooms, TcpJoin(c, name)
    PROVE  FieldsAgree' /\ Added(Join(sid[c], name))
<1>1. /\ phase[c] = "running" /\ room' = [room EXCEPT ![c] = name]
      /\ Post(Join(sid[c], name))
      /\ UNCHANGED <<rooms, phase, sid, reply, serverUp>>
  BY DEF TcpJoin, ServerUnchanged
<1>2. PICK m : m = Join(sid[c], name)
  OBVIOUS
<1>3. m.type = "Join" /\ m.id = sid[c] /\ m.name = name
  BY <1>2 DEF Join
<1>4. Added(m)
  <2>1. sid[c] \in Ids
    BY <1>1, IdsHeld DEF HasId, IInv, TalkInv
  <2> QED BY <1>1, <1>2, <2>1, PostAppends, PostedMessages DEF IInv, TalkInv, TypeOK, ChatTypeOK
<1>5. PICK n \in Nat : n = Len(inbox) /\ Len(inbox') = n + 1
  BY <1>4 DEF Added
<1>6. \A id, r :
         /\ id # sid[c] /\ InRoomAt(n + 1, id, r) => InRoomAt(n + 2, id, r)'
         /\ id = sid[c] /\ r = name => InRoomAt(n + 2, id, r)'
  BY <1>1, <1>3, <1>4, <1>5, AddedRooms
<1>7. \A d \in Conns :
         /\ d # c /\ Active(d) => sid[d] # sid[c]
         /\ reply[d].type = "Id" => reply[d].id # sid[c]
  BY <1>1, OwnId DEF IInv
<1>8. ASSUME NEW d \in Conns, Active(d) PROVE InRoomAt(n + 2, sid[d], room[d])'
  <2>1. PICK id, r : id = sid[d] /\ r = room'[d]
    OBVIOUS
  <2>2. room'[c] = name /\ (d # c => room'[d] = room[d])
    BY <1>1 DEF IInv, TalkInv, TypeOK, ChatTypeOK
  <2>3. InRoomAt(n + 2, id, r)'
    BY <1>5, <1>6, <1>7, <1>8, <2>1, <2>2 DEF FieldsAgree
  <2> QED BY <1>1, <2>1, <2>3 DEF InRoomAt, JoinsBefore
<1>9. ASSUME NEW d \in Conns, reply[d].type = "Id"
      PROVE  InRoomAt(n + 2, reply[d].id, Main)'
  <2>1. PICK id : id = reply[d].id
    OBVIOUS
  <2>2. InRoomAt(n + 2, id, Main)'
    BY <1>5, <1>6, <1>7, <1>9, <2>1 DEF FieldsAgree
  <2> QED BY <1>1, <2>1, <2>2 DEF InRoomAt, JoinsBefore
<1>10. Len(inbox') + 1 = n + 2
  BY <1>5
<1>11. \A d \in Conns : phase'[d] \in {"absent", "connecting"} => room'[d] = Main
  BY <1>1 DEF FieldsAgree, IInv, TalkInv, TypeOK, ChatTypeOK
<1> QED BY <1>1, <1>2, <1>4, <1>8, <1>9, <1>10, <1>11
        DEF FieldsAgree, Active, InRoomAt, JoinsBefore

\* A session that has no id yet has not left Main.
LEMMA NewcomersInMain ==
    ASSUME IInv, FieldsAgree, NEW c \in Conns, Peer(c) \/ Session(c)
    PROVE  \A d \in Conns : phase'[d] \in {"absent", "connecting"} => room'[d] = Main
BY SessionSteps
   DEF Start, StoreId, GiveUp, TcpJoin, Speak, TcpList, WriteRooms, SkipRooms, Deliver,
       DropPeer, StreamEnds, Stop, ServerUnchanged, Wait, Goto, StopActor, FieldsAgree,
       IInv, TalkInv, TypeOK, ChatTypeOK

LEMMA SessionRoomInv ==
    ASSUME IInv, RoomInv, NEW c \in Conns, Peer(c) \/ Session(c)
    PROVE  RoomInv'
<1>1. /\ UNCHANGED <<sessions, rooms, issued, serverUp>>
      /\ \A d \in Conns : phase'[d] \in {"absent", "connecting"} => room'[d] = Main
  BY SessionKeeps, NewcomersInMain DEF RoomInv
<1>2. /\ inbox \in Seq(Messages) /\ phase \in [Conns -> Phases]
      /\ sid \in [Conns -> Ids \cup {NoId}] /\ reply \in [Conns -> Replies] /\ TypeOK
  BY DEF IInv, TalkInv, TypeOK, ChatTypeOK
<1>3. OneRoomEach'
  BY <1>1 DEF RoomInv, OneRoomEach, RoomsOf
<1>4. CASE ~serverUp
  <2>1. inbox = <<>>
    BY <1>4 DEF IInv, TalkInv, OneQuestion
  <2>2. inbox' = <<>> /\ DOMAIN inbox' = {}
    BY <1>4, <2>1, SessionSteps
       DEF Start, StoreId, GiveUp, TcpJoin, Speak, TcpList, WriteRooms, SkipRooms, Deliver,
           DropPeer, StreamEnds, Stop, Post, NotifyServer
  <2> QED BY <1>1, <1>3, <1>4, <2>2 DEF RoomInv, MessagesAgree, FieldsAgree
<1>5. CASE serverUp /\ UNCHANGED inbox
  <2>1. MessagesAgree'
    BY <1>1, <1>5 DEF RoomInv, MessagesAgree, InRoomAt, JoinsBefore
  <2>2. CASE StoreId(c)
    <3>1. /\ reply[c].type = "Id" /\ reply[c] # NoReply /\ room[c] = Main
          /\ sid' = [sid EXCEPT ![c] = reply[c].id]
          /\ reply' = [reply EXCEPT ![c] = NoReply]
          /\ phase' = [phase EXCEPT ![c] = "running"] /\ UNCHANGED room
      BY <2>2 DEF StoreId, Goto, RoomInv, FieldsAgree, NoReply
    <3>2. FieldsAgree'
      BY <1>1, <1>2, <1>5, <3>1, QuietFields DEF RoomInv, Active, NoReply
    <3> QED BY <1>3, <2>1, <3>2 DEF RoomInv
  <2>3. CASE Deliver(c) \/ StreamEnds(c)
    <3>1. FieldsAgree'
      BY <1>1, <1>2, <1>5, <2>3, QuietFields
         DEF RoomInv, Active, Deliver, StreamEnds, StopActor, Goto
    <3> QED BY <1>3, <2>1, <3>1 DEF RoomInv
  <2>4. CASE WriteRooms(c)
    <3>1. FieldsAgree'
      BY <1>1, <1>2, <1>5, <2>4, QuietFields DEF RoomInv, Active, WriteRooms, Goto, NoReply
    <3> QED BY <1>3, <2>1, <3>1 DEF RoomInv
  <2>5. ASSUME NEW m \in Messages, Post(m) PROVE FALSE
    <3>1. Len(inbox') = Len(inbox) + 1 /\ Len(inbox) \in Nat
      BY <1>2, <1>5, <2>5, PostAppends DEF Added
    <3> QED BY <1>5, <3>1
  <2>6. ASSUME NEW name \in Rooms, TcpJoin(c, name) PROVE FALSE
    BY <1>2, <2>5, <2>6, IdsHeld, PostedMessages DEF TcpJoin, HasId, IInv, TalkInv
  <2>7. ~ Speak(c)
    BY <1>2, <2>5, IdsHeld, PostedMessages, SaidMessage DEF Speak, Ask, HasId, IInv, TalkInv,
       TypeOK
  <2>8. ~ (Start(c) \/ TcpList(c) \/ DropPeer(c) \/ Stop(c))
    BY <1>2, <2>5, PostedMessages DEF Start, TcpList, DropPeer, Stop, NotifyServer, TypeOK
  <2>9. ~ (GiveUp(c) \/ SkipRooms(c))
    BY <1>5 DEF GiveUp, SkipRooms, WaitFails
  <2> QED BY <2>2, <2>3, <2>4, <2>6, <2>7, <2>8, <2>9, SessionSteps
<1>6. CASE serverUp /\ ~ UNCHANGED inbox
  <2>1. CASE Start(c) \/ TcpList(c) \/ DropPeer(c) \/ Stop(c)
    <3>1. PICK m \in {Connect(c), ListRooms(c), Disconnect(sid[c])} : Post(m)
      BY <2>1 DEF Start, TcpList, DropPeer, Stop, NotifyServer
    <3>2. m \in Messages /\ m.type \notin {"Join", "Message"} /\ Added(m)
      <4>1. m \in Messages
        BY <1>2, <3>1, PostedMessages DEF TypeOK
      <4>2. m.type \notin {"Join", "Message"}
        BY <3>1 DEF Connect, ListRooms, Disconnect
      <4> QED BY <1>2, <1>6, <3>1, <4>1, <4>2, PostAppends
    <3>3. MessagesAgree'
      BY <1>1, <3>2, PostedMessagesAgree DEF RoomInv
    <3>4. UNCHANGED <<room, sid, reply>> /\ \A d \in Conns : Active(d)' => Active(d)
      BY <1>2, <2>1 DEF Start, TcpList, DropPeer, Stop, Wait, StopActor, Goto, Active
    <3>5. FieldsAgree'
      BY <1>1, <3>2, <3>4, PostedFields DEF RoomInv
    <3> QED BY <1>3, <3>3, <3>5 DEF RoomInv
  <2>2. CASE Speak(c)
    <3>1. PICK m : m = Message(sid[c], Said(c, asked + 1), room[c])
      OBVIOUS
    <3>2. sid[c] \in Ids /\ asked < MaxRequests /\ Post(m)
          /\ UNCHANGED <<phase, room, sid, reply>> /\ Active(c)
      BY <1>2, <2>2, <3>1, IdsHeld DEF Speak, Ask, HasId, IInv, TalkInv, Active
    <3>3. m \in Messages /\ m.type = "Message" /\ m.id = sid[c] /\ m.room = room[c] /\ Added(m)
      BY <1>2, <1>6, <3>1, <3>2, PostedMessages, PostAppends, SaidMessage DEF Message, IInv,
         TypeOK
    <3>4. MessagesAgree'
      BY <1>1, <1>6, <3>2, <3>3, PostedMessagesAgree DEF RoomInv, FieldsAgree
    <3>5. FieldsAgree'
      BY <1>1, <3>2, <3>3, PostedFields DEF RoomInv, Active
    <3> QED BY <1>3, <3>4, <3>5 DEF RoomInv
  <2>3. ASSUME NEW name \in Rooms, TcpJoin(c, name) PROVE RoomInv'
    <3>1. FieldsAgree' /\ Added(Join(sid[c], name))
      BY <1>6, <2>3, JoinFields DEF RoomInv
    <3>2. MessagesAgree'
      BY <1>1, <3>1, PostedMessagesAgree DEF RoomInv, Join
    <3> QED BY <1>3, <3>1, <3>2 DEF RoomInv
  <2>4. ~ (StoreId(c) \/ GiveUp(c) \/ WriteRooms(c) \/ SkipRooms(c) \/ Deliver(c) \/ StreamEnds(c))
    BY <1>6 DEF StoreId, GiveUp, WriteRooms, SkipRooms, Deliver, StreamEnds
  <2> QED BY <2>1, <2>2, <2>3, <2>4, SessionSteps
<1> QED BY <1>4, <1>5, <1>6

LEMMA FailureRoomInv == ASSUME RoomInv, Failure PROVE RoomInv'
<1>1. DOMAIN inbox' = {} /\ ~serverUp' /\ UNCHANGED <<sessions, rooms, phase, room>>
  BY DEF Failure, ServerFails, sessionVars
<1> QED BY <1>1 DEF RoomInv, OneRoomEach, RoomsOf, MessagesAgree, FieldsAgree

LEMMA RoomsStep == ASSUME IInv, RoomInv, [Next]_vars PROVE RoomInv'
<1>1. CASE UNCHANGED vars
  BY <1>1 DEF vars, RoomInv, OneRoomEach, RoomsOf, MessagesAgree, FieldsAgree, Active,
              InRoomAt, JoinsBefore
<1> QED BY <1>1, ServerRoomInv, SessionRoomInv, FailureRoomInv DEF Next

THEOREM RoomInvariance == Spec => []RoomInv
BY InitRoomInv, RoomsStep, Invariance, PTL DEF Spec

\* A registered session is in exactly one room, whatever is on its way to the
\* server (server.rs, handlers of Connect, Join and Disconnect).
THEOREM AlwaysInOneRoom == Spec => []OneRoomEach
BY RoomInvariance, PTL DEF RoomInv

\* A text is handled while its sender is in the room the sender believes to be
\* in: the room field, changed before the server has seen the Join, is never
\* ahead of the Join it was posted behind (session.rs, Join and Message).
THEOREM TextsSpokenInOwnRoom == Spec => []SpokenInOwnRoom
<1>1. IInv /\ RoomInv => SpokenInOwnRoom
  <2> SUFFICES ASSUME IInv, RoomInv, inbox # <<>>, Head(inbox).type = "Message"
               PROVE  RoomsOf(Head(inbox).id) = {Head(inbox).room}
    BY DEF SpokenInOwnRoom
  <2>1. inbox \in Seq(Messages) /\ 1 \in DOMAIN inbox /\ inbox[1] = Head(inbox)
        /\ DOMAIN inbox \subseteq Nat \ {0}
    BY EmptySeq, LenProperties DEF IInv, TalkInv, TypeOK, ChatTypeOK
  <2>2. Head(inbox).id \in DOMAIN sessions
    BY <2>1 DEF IInv, TalkInv, DisconnectIsLast
  <2>3. InRoomAt(1, Head(inbox).id, Head(inbox).room)
    BY <2>1 DEF RoomInv, MessagesAgree
  <2>4. JoinsBefore(1, Head(inbox).id) = {}
    BY <2>1 DEF JoinsBefore
  <2>5. Head(inbox).room \in RoomsOf(Head(inbox).id)
    BY <2>3, <2>4 DEF InRoomAt, RoomsOf
  <2> QED BY <2>2, <2>5 DEF RoomInv, OneRoomEach
<1> QED BY <1>1, Invariance, RoomInvariance, PTL

-----------------------------------------------------------------------------
(* What room lists show *)

\* The list names shows what the answer a has told the peer of rooms.
Shows(names, a) == IF a.type = "Joined" THEN a.room \in names ELSE a.names \subseteq names

\* What a peer was told of rooms is true, or will be when the server has
\* handled what is ahead of the peer's next question.
Known(c, a) ==
    \/ Shows(DOMAIN rooms, a)
    \/ a.type = "Joined" /\ (serverUp => JoinAhead(c, a.room))

AnswersKnown == \A c \in Conns : \A i \in DOMAIN answered[c] : Known(c, answered[c][i])

\* A list on its way to a peer shows all that the peer was told before.
RepliesShow ==
    \A c \in Conns :
        reply[c].type = "Rooms" =>
            /\ reply[c].names \subseteq DOMAIN rooms
            /\ \A i \in DOMAIN answered[c] : Shows(reply[c].names, answered[c][i])

ListInv == ListSeesJoins /\ AnswersKnown /\ RepliesShow

\* One answer more.
LEMMA AnswerAdds ==
    ASSUME TypeOK, NEW c \in Conns, NEW a \in Answers, Answer(c, a)
    PROVE  /\ \A d \in Conns : d # c => answered'[d] = answered[d]
           /\ \A i \in DOMAIN answered[c] : i \in DOMAIN answered'[c] /\ i \in Nat
           /\ \A i \in DOMAIN answered'[c] :
                 \/ i \in DOMAIN answered[c] /\ answered'[c][i] = answered[c][i]
                 \/ /\ i \in Nat /\ answered'[c][i] = a
                    /\ \A j \in DOMAIN answered'[c] : j # i => j < i /\ j \in DOMAIN answered[c]
<1>1. answered[c] \in Seq(Answers) /\ answered' = [answered EXCEPT ![c] = Append(@, a)]
      /\ answered \in [Conns -> Seq(Answers)]
  BY DEF TypeOK, ChatTypeOK, Answer
<1>2. PICK n \in Nat : n = Len(answered[c]) /\ DOMAIN answered[c] = 1..n
  BY <1>1, LenProperties
<1>3. answered'[c] = Append(answered[c], a)
  BY <1>1
<1>4. /\ answered'[c] \in Seq(Answers) /\ Len(answered'[c]) = n + 1
      /\ \A i \in 1..n : answered'[c][i] = answered[c][i]
      /\ answered'[c][n + 1] = a
  BY <1>1, <1>2, <1>3, AppendProperties
<1>5. DOMAIN answered'[c] = 1..(n + 1)
  BY <1>4, LenProperties
<1> QED BY <1>1, <1>2, <1>4, <1>5

LEMMA InitListInv == Init => ListInv
BY DEF Init, ServerInit, ListInv, ListSeesJoins, AnswersKnown, RepliesShow, NoReply, ChatInit


\* Rooms are never removed, and a handled Join has made its room.
LEMMA ServerListInv == ASSUME IInv, ListInv, Server PROVE ListInv'
<1>1. /\ TalkInv /\ ServerStep /\ UNCHANGED <<answered, serverUp>> /\ inbox # <<>>
  BY ServerIsStep DEF IInv, ServerStep, Serve, HandleConnect, HandleDisconnect,
                      HandleMessage, HandleListRooms, HandleJoin, Consume
<1>2. serverUp
  BY <1>1 DEF TalkInv, OneQuestion
<1>3. /\ DOMAIN rooms \subseteq DOMAIN rooms'
      /\ \A c, r : JoinAhead(c, r) => r \in DOMAIN rooms' \/ JoinAhead(c, r)'
  BY <1>1, RoomsGrow
<1>4. AnswersKnown'
  BY <1>1, <1>2, <1>3 DEF ListInv, AnswersKnown, Known, Shows, JoinAhead
<1>5. RepliesShow'
  <2> SUFFICES ASSUME NEW c \in Conns, reply'[c].type = "Rooms"
               PROVE  /\ reply'[c].names \subseteq DOMAIN rooms'
                      /\ \A i \in DOMAIN answered[c] : Shows(reply'[c].names, answered[c][i])
    BY <1>1 DEF RepliesShow, Shows
  <2>1. CASE reply'[c] = reply[c]
    BY <1>3, <2>1 DEF ListInv, RepliesShow
  <2>2. CASE reply'[c] # reply[c]
    <3>1. reply'[c].names = DOMAIN rooms /\ \A r : ~ JoinAhead(c, r)
      BY <1>1, <2>2, ListReplied
    <3>2. \A i \in DOMAIN answered[c] : Shows(DOMAIN rooms, answered[c][i])
      BY <1>2, <3>1 DEF ListInv, AnswersKnown, Known
    <3> QED BY <1>3, <3>1, <3>2
  <2> QED BY <2>1, <2>2
<1>6. ListSeesJoins'
  BY <1>1 DEF ListInv, ListSeesJoins
<1> QED BY <1>4, <1>5, <1>6 DEF ListInv

\* A session adds at most one message, at the end.
LEMMA SessionPosts ==
    ASSUME IInv, serverUp, NEW c \in Conns, Peer(c) \/ Session(c)
    PROVE  UNCHANGED inbox \/ \E m \in Messages : Added(m)
<1>1. inbox \in Seq(Messages) /\ TypeOK /\ HasId
  BY IdsHeld DEF IInv, TalkInv, TypeOK, ChatTypeOK
<1>2. \A m \in Messages : Post(m) => Added(m)
  BY <1>1, PostAppends
<1>3. CASE Start(c) \/ TcpList(c) \/ DropPeer(c) \/ Stop(c)
  BY <1>1, <1>2, <1>3, PostedMessages DEF Start, TcpList, DropPeer, Stop, NotifyServer, TypeOK
<1>4. CASE Speak(c)
  BY <1>1, <1>2, <1>4, SaidMessage DEF Speak, Ask, HasId
<1>5. ASSUME NEW name \in Rooms, TcpJoin(c, name) PROVE \E m \in Messages : Added(m)
  BY <1>1, <1>2, <1>5, PostedMessages DEF TcpJoin, HasId, TypeOK
<1>6. CASE StoreId(c) \/ GiveUp(c) \/ WriteRooms(c) \/ SkipRooms(c) \/ Deliver(c) \/ StreamEnds(c)
  BY <1>6 DEF StoreId, GiveUp, WriteRooms, SkipRooms, Deliver, StreamEnds
<1> QED BY <1>3, <1>4, <1>5, <1>6, SessionSteps


\* What a peer was told stays known, whatever is posted.
LEMMA SessionKnown ==
    ASSUME IInv, NEW c \in Conns, Peer(c) \/ Session(c)
    PROVE  \A d, a : Known(d, a) => Known(d, a)'
<1>1. UNCHANGED <<rooms, serverUp>>
  BY SessionKeeps
<1>2. ASSUME serverUp, NEW d, NEW r, JoinAhead(d, r) PROVE JoinAhead(d, r)'
  <2>1. CASE UNCHANGED inbox
    BY <1>2, <2>1 DEF JoinAhead, ListRooms
  <2> QED BY <1>2, <2>1, AheadKept, SessionPosts
<1> QED BY <1>1, <1>2 DEF Known, Shows

LEMMA SessionListInv ==
    ASSUME IInv, ListInv, NEW c \in Conns, Peer(c) \/ Session(c)
    PROVE  ListInv'
<1>1. UNCHANGED <<rooms, serverUp>> /\ TypeOK
  BY SessionKeeps DEF IInv, TalkInv
<1>2. CASE UNCHANGED answered
  <2>1. ASSUME NEW d \in Conns, reply'[d].type = "Rooms" PROVE reply'[d] = reply[d]
    <3>1. UNCHANGED reply \/ reply' = [reply EXCEPT ![c] = NoReply]
      BY SessionSteps
         DEF Start, StoreId, GiveUp, TcpJoin, Speak, TcpList, WriteRooms, SkipRooms, Deliver,
             DropPeer, StreamEnds, Stop
    <3> QED BY <1>1, <2>1, <3>1 DEF NoReply, TypeOK, ChatTypeOK
  <2>2. ListSeesJoins' /\ RepliesShow'
    BY <1>1, <1>2, <2>1 DEF ListInv, ListSeesJoins, RepliesShow, Shows
  <2>3. AnswersKnown'
    <3> SUFFICES ASSUME NEW d \in Conns, NEW i \in DOMAIN answered[d]
                 PROVE  Known(d, answered[d][i])'
      BY <1>2 DEF AnswersKnown
    <3>1. PICK a : a = answered[d][i]
      OBVIOUS
    <3>2. Known(d, a)'
      BY <3>1, SessionKnown DEF ListInv, AnswersKnown
    <3> QED BY <1>2, <3>1, <3>2
  <2> QED BY <2>2, <2>3 DEF ListInv
<1>3. ASSUME NEW a \in Answers, Answer(c, a), NEW names,
             Known(c, a)',
             a.type = "Rooms" => \A i \in DOMAIN answered[c] : Shows(a.names, answered[c][i]),
             \A d \in Conns : reply'[d].type = "Rooms" => d # c /\ reply'[d] = reply[d]
      PROVE  ListInv'
  <2>1. /\ \A d \in Conns : d # c => answered'[d] = answered[d]
        /\ \A i \in DOMAIN answered[c] : i \in DOMAIN answered'[c] /\ i \in Nat
        /\ \A i \in DOMAIN answered'[c] :
              \/ i \in DOMAIN answered[c] /\ answered'[c][i] = answered[c][i]
              \/ /\ i \in Nat /\ answered'[c][i] = a
                 /\ \A j \in DOMAIN answered'[c] : j # i => j < i /\ j \in DOMAIN answered[c]
    BY <1>1, <1>3, AnswerAdds
  <2>2. RepliesShow'
    BY <1>1, <1>3, <2>1 DEF ListInv, RepliesShow, Shows
  <2>3. AnswersKnown'
    <3> SUFFICES ASSUME NEW d \in Conns, NEW i \in DOMAIN answered'[d]
                 PROVE  Known(d, answered[d][i])'
      BY DEF AnswersKnown
    <3>1. PICK b : b = answered'[d][i]
      OBVIOUS
    <3>2. Known(d, b)'
      <4>1. CASE i \in DOMAIN answered[d] /\ answered'[d][i] = answered[d][i]
        BY <3>1, <4>1, SessionKnown DEF ListInv, AnswersKnown
      <4>2. CASE d = c /\ b = a
        BY <1>3, <4>2
      <4> QED BY <2>1, <3>1, <4>1, <4>2
    <3> QED BY <3>1, <3>2 DEF Known, Shows, JoinAhead, ListRooms
  <2>4. ASSUME NEW d \in Conns, NEW i \in DOMAIN answered'[d], NEW j \in DOMAIN answered'[d],
               i < j, answered'[d][j].type = "Rooms"
        PROVE  Shows(answered'[d][j].names, answered'[d][i])
    <3>1. CASE i \in DOMAIN answered[d] /\ j \in DOMAIN answered[d]
               /\ answered'[d][i] = answered[d][i] /\ answered'[d][j] = answered[d][j]
      BY <2>4, <3>1 DEF ListInv, ListSeesJoins, Shows
    <3>2. CASE d = c /\ answered'[d][j] = a /\ i \in DOMAIN answered[d]
               /\ answered'[d][i] = answered[d][i]
      BY <1>3, <2>4, <3>2
    <3>3. i \in DOMAIN answered[d] /\ answered'[d][i] = answered[d][i]
      <4>1. CASE d # c
        BY <2>1, <4>1
      <4>2. CASE d = c
        BY <2>1, <2>4, <4>2
      <4> QED BY <4>1, <4>2
    <3>4. \/ j \in DOMAIN answered[d] /\ answered'[d][j] = answered[d][j]
          \/ d = c /\ answered'[d][j] = a
      BY <2>1
    <3> QED BY <3>1, <3>2, <3>3, <3>4
  <2>5. ListSeesJoins'
    BY <2>4 DEF ListSeesJoins, Shows
  <2> QED BY <2>2, <2>3, <2>5 DEF ListInv
<1>4. ASSUME NEW name \in Rooms, TcpJoin(c, name) PROVE ListInv'
  <2>1. PICK a : a = Joined(name)
    OBVIOUS
  <2>2. a \in Answers /\ a.type = "Joined" /\ a.room = name /\ Answer(c, a)
    BY <1>4, <2>1 DEF Joined, Answers, TcpJoin
  <2>3. \A d \in Conns : reply'[d].type = "Rooms" => d # c /\ reply'[d] = reply[d]
    BY <1>4 DEF TcpJoin, IInv, TalkInv, RepliesMatch, NoReply
  <2>4. ASSUME serverUp PROVE JoinAhead(c, name)'
    <3>1. Join(sid[c], name) \in Messages
      BY <1>1, <1>4, IdsHeld, PostedMessages DEF TcpJoin, HasId, IInv, TalkInv, TypeOK
    <3>2. Added(Join(sid[c], name))
      BY <1>1, <1>4, <2>4, <3>1, PostAppends DEF TcpJoin, TypeOK, ChatTypeOK
    <3> QED BY <1>4, <3>2, AheadPosted DEF TcpJoin, IInv
  <2>5. Known(c, a)'
    BY <1>1, <2>2, <2>4 DEF Known, JoinAhead, ListRooms
  <2> QED BY <1>3, <2>2, <2>3, <2>5
<1>5. CASE WriteRooms(c)
  <2>1. PICK a : a = RoomList(reply[c].names)
    OBVIOUS
  <2>2. a.type = "Rooms" /\ a.names = reply[c].names /\ Answer(c, a)
        /\ reply' = [reply EXCEPT ![c] = NoReply] /\ reply[c].type = "Rooms"
    BY <1>5, <2>1 DEF RoomList, WriteRooms
  <2>3. a \in Answers
    BY <1>1, <2>1, <2>2, ReplyKinds DEF RoomList, Answers, TypeOK, ChatTypeOK
  <2>4. \A d \in Conns : reply'[d].type = "Rooms" => d # c /\ reply'[d] = reply[d]
    BY <1>1, <2>2 DEF NoReply, TypeOK, ChatTypeOK
  <2>5. Known(c, a)'
    BY <1>1, <2>2 DEF Known, Shows, ListInv, RepliesShow
  <2>6. \A i \in DOMAIN answered[c] : Shows(a.names, answered[c][i])
    BY <2>2 DEF ListInv, RepliesShow
  <2> QED BY <1>3, <2>2, <2>3, <2>4, <2>5, <2>6
<1>6. CASE Start(c) \/ StoreId(c) \/ GiveUp(c) \/ Speak(c) \/ TcpList(c) \/ SkipRooms(c)
           \/ Deliver(c) \/ DropPeer(c) \/ StreamEnds(c) \/ Stop(c)
  BY <1>2, <1>6 DEF Start, StoreId, GiveUp, Speak, TcpList, SkipRooms, Deliver, DropPeer,
                    StreamEnds, Stop
<1> QED BY <1>4, <1>5, <1>6, SessionSteps

\* A dead server promises nothing more.
LEMMA FailureListInv == ASSUME ListInv, Failure PROVE ListInv'
<1>1. UNCHANGED <<rooms, reply, answered>> /\ ~serverUp'
  BY DEF Failure, ServerFails, sessionVars
<1> QED BY <1>1 DEF ListInv, ListSeesJoins, AnswersKnown, Known, RepliesShow, Shows

LEMMA ListStep == ASSUME IInv, ListInv, [Next]_vars PROVE ListInv'
<1>1. CASE UNCHANGED vars
  BY <1>1 DEF vars, ListInv, ListSeesJoins, AnswersKnown, Known, RepliesShow, Shows,
              JoinAhead, ListRooms
<1> QED BY <1>1, ServerListInv, SessionListInv, FailureListInv DEF Next

THEOREM ListInvariance == Spec => []ListInv
BY InitListInv, ListStep, Invariance, PTL DEF Spec

\* Every list a peer gets has the rooms it was told it joined, and the rooms
\* of every list before (server.rs, ListRooms; session.rs, Join and List).
THEOREM ListsSeeJoins == Spec => []ListSeesJoins
BY ListInvariance, PTL DEF ListInv

-----------------------------------------------------------------------------
(* One id for each session *)

LEMMA SessionOneSession ==
    ASSUME IInv, OneSession, NEW c \in Conns, Peer(c) \/ Session(c)
    PROVE  OneSession'
<1>1. UNCHANGED sessions /\ phase \in [Conns -> Phases] /\ TalkInv
  BY SessionKeeps DEF IInv, TypeOK, ChatTypeOK
<1>2. CASE StoreId(c)
  BY <1>1, <1>2, IdOneSession DEF StoreId
<1>3. CASE WriteRooms(c)
  BY <1>1, <1>3, RoomsOneSession DEF WriteRooms
<1>4. ASSUME UNCHANGED <<sid, reply>>,
             \A d \in Conns : phase'[d] \in {"absent", "connecting"} =>
                 phase[d] \in {"absent", "connecting"}
      PROVE  OneSession'
  BY <1>1, <1>4, QuietOneSession
<1>5. CASE Start(c) \/ GiveUp(c) \/ TcpList(c) \/ SkipRooms(c) \/ DropPeer(c)
           \/ StreamEnds(c) \/ Stop(c)
  BY <1>1, <1>4, <1>5 DEF Start, GiveUp, TcpList, SkipRooms, DropPeer, StreamEnds, Stop,
                          Wait, StopActor, Goto
<1>6. CASE Speak(c) \/ Deliver(c) \/ \E name \in Rooms : TcpJoin(c, name)
  BY <1>4, <1>6 DEF Speak, Deliver, TcpJoin
<1> QED BY <1>2, <1>3, <1>5, <1>6, SessionSteps

LEMMA OneSessionStep == ASSUME IInv, OneSession, [Next]_vars PROVE OneSession'
<1>1. CASE UNCHANGED vars
  BY <1>1 DEF vars, OneSession, IdReply
<1>2. CASE Failure
  BY <1>2 DEF Failure, ServerFails, sessionVars, OneSession, IdReply
<1> QED BY <1>1, <1>2, SessionOneSession, ServerIsStep, ServerOneSession DEF Next, IInv

-----------------------------------------------------------------------------
(* What SendMessage adds to a mailbox *)

-----------------------------------------------------------------------------
(* What a step does to the feed of a peer *)

\* f2 is a beginning of f, or f with some texts of T at its end.
Continues(f, f2, T) ==
    /\ f \in Seq(Texts) /\ f2 \in Seq(Texts)
    /\ \A k \in DOMAIN f2 :
          \/ k \in DOMAIN f /\ f2[k] = f[k]
          \/ k \notin DOMAIN f /\ f2[k] \in T

\* New texts in the mailbox are new texts of the feed.
LEMMA FeedExtended ==
    ASSUME NEW r \in Seq(Texts), NEW f \in Seq(Texts), NEW f2, NEW T, Extends(f, f2, T)
    PROVE  Continues(r \o f, r \o f2, T) /\ Len(r \o f2) = Len(r \o f) + (Len(f2) - Len(f))
<1>1. f2 \in Seq(Texts) /\ Len(r) \in Nat /\ Len(f) \in Nat /\ Len(f2) \in Nat
      /\ Len(f) <= Len(f2)
  BY LenProperties DEF Extends
<1>2. /\ r \o f \in Seq(Texts) /\ Len(r \o f) = Len(r) + Len(f)
      /\ \A i \in 1..Len(r) + Len(f) : (r \o f)[i] = IF i <= Len(r) THEN r[i] ELSE f[i - Len(r)]
  BY ConcatProperties
<1>3. /\ r \o f2 \in Seq(Texts) /\ Len(r \o f2) = Len(r) + Len(f2)
      /\ \A i \in 1..Len(r) + Len(f2) : (r \o f2)[i] = IF i <= Len(r) THEN r[i] ELSE f2[i - Len(r)]
  BY <1>1, ConcatProperties
<1>4. DOMAIN (r \o f) = 1..Len(r) + Len(f) /\ DOMAIN (r \o f2) = 1..Len(r) + Len(f2)
  BY <1>2, <1>3, LenProperties
<1>5. ASSUME NEW k \in DOMAIN (r \o f2)
      PROVE  \/ k \in DOMAIN (r \o f) /\ (r \o f2)[k] = (r \o f)[k]
             \/ k \notin DOMAIN (r \o f) /\ (r \o f2)[k] \in T
  <2>1. CASE k <= Len(r)
    BY <1>1, <1>2, <1>3, <1>4, <2>1
  <2>2. CASE ~ (k <= Len(r)) /\ k <= Len(r) + Len(f)
    <3>1. k - Len(r) \in 1..Len(f) /\ k \in 1..Len(r) + Len(f) /\ k \in 1..Len(r) + Len(f2)
      BY <1>1, <1>4, <2>2
    <3>2. f2[k - Len(r)] = f[k - Len(r)]
      BY <3>1 DEF Extends
    <3> QED BY <1>2, <1>3, <1>4, <2>2, <3>1, <3>2
  <2>3. CASE ~ (k <= Len(r) + Len(f))
    <3>1. k - Len(r) \in (Len(f) + 1)..Len(f2) /\ ~ (k <= Len(r)) /\ k \in 1..Len(r) + Len(f2)
      BY <1>1, <1>4, <2>3
    <3>2. f2[k - Len(r)] \in T
      BY <3>1 DEF Extends
    <3> QED BY <1>1, <1>3, <1>4, <2>3, <3>1, <3>2
  <2> QED BY <2>1, <2>2, <2>3
<1> QED BY <1>1, <1>2, <1>3, <1>5 DEF Continues

\* Delivering a text moves it from the mailbox to the peer: the feed is the
\* same.
LEMMA FeedDelivered ==
    ASSUME NEW r \in Seq(Texts), NEW f \in Seq(Texts), f # <<>>
    PROVE  Append(r, Head(f)) \o Tail(f) = r \o f
<1>1. /\ Head(f) \in Texts /\ Tail(f) \in Seq(Texts)
      /\ Len(Tail(f)) = Len(f) - 1 /\ \A i \in 1..Len(Tail(f)) : Tail(f)[i] = f[i + 1]
  BY HeadTailProperties
<1>2. Len(r) \in Nat /\ Len(f) \in Nat \ {0} /\ f[1] = Head(f)
  BY LenProperties, EmptySeq
<1>3. PICK a : a = Append(r, Head(f))
  OBVIOUS
<1>4. /\ a \in Seq(Texts) /\ Len(a) = Len(r) + 1
      /\ \A i \in 1..Len(r) : a[i] = r[i]
      /\ a[Len(r) + 1] = Head(f)
  BY <1>1, <1>3, AppendProperties
<1>5. PICK g : g = Tail(f)
  OBVIOUS
<1>6. /\ a \o g \in Seq(Texts) /\ Len(a \o g) = Len(a) + Len(g)
      /\ \A i \in 1..Len(a) + Len(g) : (a \o g)[i] = IF i <= Len(a) THEN a[i] ELSE g[i - Len(a)]
  BY <1>1, <1>4, <1>5, ConcatProperties
<1>7. /\ r \o f \in Seq(Texts) /\ Len(r \o f) = Len(r) + Len(f)
      /\ \A i \in 1..Len(r) + Len(f) : (r \o f)[i] = IF i <= Len(r) THEN r[i] ELSE f[i - Len(r)]
  BY ConcatProperties
<1>8. Len(a \o g) = Len(r \o f)
  BY <1>1, <1>2, <1>4, <1>5, <1>6, <1>7
<1>9. ASSUME NEW i \in 1..Len(r \o f) PROVE (a \o g)[i] = (r \o f)[i]
  <2>1. CASE i <= Len(r)
    BY <1>1, <1>2, <1>4, <1>5, <1>6, <1>7, <2>1
  <2>2. CASE i = Len(r) + 1
    <3>1. (a \o g)[i] = Head(f)
      BY <1>1, <1>2, <1>4, <1>5, <1>6, <1>7, <2>2
    <3>2. (r \o f)[i] = f[1]
      <4>1. ~ (i <= Len(r)) /\ i - Len(r) = 1
        BY <1>2, <2>2
      <4> QED BY <1>2, <1>7, <4>1
    <3> QED BY <1>2, <3>1, <3>2
  <2>3. CASE i > Len(r) + 1
    <3>1. /\ ~ (i <= Len(a)) /\ i \in 1..Len(a) + Len(g) /\ i - Len(a) \in 1..Len(Tail(f))
          /\ ~ (i <= Len(r)) /\ i \in 1..Len(r) + Len(f) /\ i - Len(a) + 1 = i - Len(r)
      BY <1>1, <1>2, <1>4, <1>5, <1>7, <2>3
    <3>2. g[i - Len(a)] = f[i - Len(r)]
      BY <1>1, <1>5, <3>1
    <3> QED BY <1>6, <1>7, <3>1, <3>2
  <2>4. i \in Nat /\ Len(r) \in Nat
    BY <1>2, <1>7
  <2>5. i <= Len(r) \/ i = Len(r) + 1 \/ i > Len(r) + 1
    BY <2>4
  <2> QED BY <2>1, <2>2, <2>3, <2>5
<1>10. a \o g = r \o f
  BY <1>6, <1>7, <1>8, <1>9, SeqEqual
<1> QED BY <1>3, <1>5, <1>10

\* What waits in the mailbox when the session ends is lost.
LEMMA FeedCut ==
    ASSUME NEW r \in Seq(Texts), NEW f \in Seq(Texts)
    PROVE  Continues(r \o f, r \o <<>>, {})
<1>1. r \o <<>> = r
  BY ConcatEmptySeq
<1>2. Len(r) \in Nat /\ Len(f) \in Nat /\ DOMAIN r = 1..Len(r)
  BY LenProperties
<1>3. /\ r \o f \in Seq(Texts) /\ Len(r \o f) = Len(r) + Len(f)
      /\ \A i \in 1..Len(r) + Len(f) : (r \o f)[i] = IF i <= Len(r) THEN r[i] ELSE f[i - Len(r)]
  BY ConcatProperties
<1>4. DOMAIN (r \o f) = 1..Len(r) + Len(f)
  BY <1>3, LenProperties
<1> QED BY <1>1, <1>2, <1>3, <1>4 DEF Continues

LEMMA FeedOfMailbox ==
    ASSUME TypeOK, NEW c \in Conns, UNCHANGED received, NEW T,
           Extends(mailbox[c], mailbox'[c], T)
    PROVE  /\ Continues(Feed(c), Feed(c)', T)
           /\ Len(Feed(c)') = Len(Feed(c)) + (Len(mailbox'[c]) - Len(mailbox[c]))
BY FeedExtended DEF TypeOK, ChatTypeOK, Feed

\* Only a Message brings a text of a peer.
LEMMA ServerNotices ==
    ASSUME IInv, OneSession, Server, inbox[1].type # "Message", NEW c \in Conns
    PROVE  Continues(Feed(c), Feed(c)', Notices)
<1>1. TypeOK /\ UNCHANGED received /\ ServerStep /\ TalkInv
  BY ServerIsStep DEF IInv, Server, sessionVars
<1>2. Extends(mailbox[c], mailbox'[c], Notices)
  BY <1>1, MailboxNotices
<1> QED BY <1>1, <1>2, FeedOfMailbox

\* A Message brings its text, at most once, and not to the speaker.
LEMMA ServerSays ==
    ASSUME IInv, OneSession, Server, inbox[1].type = "Message", NEW c \in Conns
    PROVE  /\ Continues(Feed(c), Feed(c)', {inbox[1].text})
           /\ Len(Feed(c)') <= Len(Feed(c)) + 1
           /\ sessions[inbox[1].id] = c => Len(Feed(c)') = Len(Feed(c))
<1>1. /\ TypeOK /\ mailbox \in [Conns -> Seq(Texts)] /\ UNCHANGED received
      /\ inbox[1] = Head(inbox) /\ inbox[1] \in Messages /\ 1 \in DOMAIN inbox
  BY ServerTakes DEF IInv, TalkInv, TypeOK, ChatTypeOK, Server, sessionVars, Taken
<1>2. PICK id, text, r : id = inbox[1].id /\ text = inbox[1].text /\ r = inbox[1].room
  OBVIOUS
<1>3. mailbox' = SendMessage(mailbox, rooms, {r} \cap DOMAIN rooms, text, id)
  BY <1>1, <1>2 DEF Server, Serve, HandleConnect, HandleDisconnect, HandleListRooms,
                    HandleJoin, HandleMessage, Consume, OnMessage
<1>4. text \in Texts /\ id \in DOMAIN sessions /\ IsFiniteSet({r} \cap DOMAIN rooms)
  <2>1. text \in Texts
    BY <1>1, <1>2 DEF Messages, Texts
  <2>2. id \in DOMAIN sessions
    BY <1>1, <1>2 DEF IInv, TalkInv, DisconnectIsLast
  <2>3. {r} \cap DOMAIN rooms \in SUBSET {r}
    OBVIOUS
  <2> QED BY <2>1, <2>2, <2>3, FS_Singleton, FS_Subset
<1>5. PICK rs, after :
        /\ rs = {r} \cap DOMAIN rooms
        /\ after = SendMessage(mailbox, rooms, rs, text, id)[c] /\ mailbox'[c] = after
  BY <1>3
<1>6. Len(mailbox'[c]) <= Len(mailbox[c]) + 1 /\ Extends(mailbox[c], mailbox'[c], {text})
  BY <1>1, <1>4, <1>5, SendMessageExtends, SendMessageOnce DEF IInv
<1>7. sessions[id] = c => Len(mailbox'[c]) = Len(mailbox[c])
  <2>1. sessions[id] = c => OnlyId(c, id)
    BY <1>4, RegisteredOnce DEF OnlyId, IInv
  <2> QED BY <1>1, <1>4, <1>5, <2>1, SendMessageSkips DEF IInv
<1>8. /\ Continues(Feed(c), Feed(c)', {text})
      /\ Len(Feed(c)') = Len(Feed(c)) + (Len(mailbox'[c]) - Len(mailbox[c]))
  BY <1>1, <1>6, FeedOfMailbox
<1>9. Len(mailbox[c]) \in Nat /\ Len(mailbox'[c]) \in Nat /\ Len(Feed(c)) \in Nat
  BY <1>1, <1>6, <1>8, LenProperties DEF Extends, Continues
<1>10. Len(Feed(c)') <= Len(Feed(c)) + 1
  <2>1. PICK k \in Nat, m \in Nat, n \in Nat :
          k = Len(Feed(c)) /\ m = Len(mailbox[c]) /\ n = Len(mailbox'[c])
    BY <1>9
  <2>2. n <= m + 1 /\ Len(Feed(c)') = k + (n - m)
    BY <1>6, <1>8, <2>1
  <2>3. k + (n - m) <= k + 1
    BY <2>2
  <2> QED BY <2>1, <2>2, <2>3
<1>11. sessions[id] = c => Len(Feed(c)') = Len(Feed(c))
  BY <1>7, <1>8, <1>9
<1> QED BY <1>2, <1>8, <1>10, <1>11

\* A session adds nothing to its feed, nor to anybody's.
LEMMA SessionFeeds ==
    ASSUME IInv, NEW c \in Conns, Peer(c) \/ Session(c), NEW d \in Conns
    PROVE  Continues(Feed(d), Feed(d)', {})
<1>1. /\ received \in [Conns -> Seq(Texts)] /\ mailbox \in [Conns -> Seq(Texts)]
      /\ Feed(d) \in Seq(Texts)
  BY ConcatProperties DEF IInv, TalkInv, TypeOK, ChatTypeOK, Feed
<1>2. ASSUME Feed(d)' = Feed(d) PROVE Continues(Feed(d), Feed(d)', {})
  BY <1>1, <1>2 DEF Continues
<1>3. CASE Deliver(c)
  <2>1. CASE d = c
    <3>1. /\ mailbox[c] # <<>> /\ received'[c] = Append(received[c], Head(mailbox[c]))
          /\ mailbox'[c] = Tail(mailbox[c])
      BY <1>1, <1>3 DEF Deliver
    <3>2. Append(received[c], Head(mailbox[c])) \o Tail(mailbox[c]) = received[c] \o mailbox[c]
      BY <1>1, <3>1, FeedDelivered
    <3>3. Feed(d)' = Feed(d)
      BY <2>1, <3>1, <3>2 DEF Feed
    <3> QED BY <1>2, <3>3
  <2>2. CASE d # c
    <3>1. Feed(d)' = Feed(d)
      BY <1>1, <1>3, <2>2 DEF Deliver, Feed
    <3> QED BY <1>2, <3>1
  <2> QED BY <2>1, <2>2
<1>4. CASE Stop(c)
  <2>1. CASE d = c
    <3>1. received'[c] = received[c] /\ mailbox'[c] = <<>>
      BY <1>1, <1>4 DEF Stop
    <3> QED BY <1>1, <2>1, <3>1, FeedCut DEF Feed
  <2>2. CASE d # c
    <3>1. Feed(d)' = Feed(d)
      BY <1>1, <1>4, <2>2 DEF Stop, Feed
    <3> QED BY <1>2, <3>1
  <2> QED BY <2>1, <2>2
<1>5. CASE UNCHANGED <<mailbox, received>>
  <2>1. Feed(d)' = Feed(d)
    BY <1>5 DEF Feed
  <2> QED BY <1>2, <2>1
<1> QED BY <1>3, <1>4, <1>5, SessionSteps
        DEF Start, StoreId, GiveUp, TcpJoin, Speak, TcpList, WriteRooms, SkipRooms,
            DropPeer, StreamEnds

-----------------------------------------------------------------------------
(* The order of texts *)

\* Texts are numbered as they are said, and stay in that order in the server's
\* mailbox, each under an id of its sender.
TextsInOrder ==
    \A i \in DOMAIN inbox :
        inbox[i].type = "Message" =>
            /\ inbox[i].text.n <= asked
            /\ sessions[inbox[i].id] = inbox[i].text.from
            /\ \A j \in DOMAIN inbox :
                  j < i /\ inbox[j].type = "Message" => inbox[j].text.n < inbox[i].text.n

\* Text number k of the feed f is of a peer.
IsSaid(f, k) == f[k].what = "Said"

\* A feed has the texts of peers in the order of their numbers, all of them
\* older than what the server has still to handle, and none of the peer's own.
Increasing(f) ==
    \A i, j \in DOMAIN f : i < j /\ IsSaid(f, i) /\ IsSaid(f, j) => f[i].n < f[j].n

Older(c, f) ==
    \A k \in DOMAIN f :
        IsSaid(f, k) =>
            /\ f[k].from # c /\ f[k].n <= asked
            /\ \A i \in DOMAIN inbox : inbox[i].type = "Message" => f[k].n < inbox[i].text.n

FeedsInOrder == \A c \in Conns : Increasing(Feed(c)) /\ Older(c, Feed(c))

OrderInv == OneSession /\ TextsInOrder /\ FeedsInOrder

LEMMA SaidHasNumber ==
    ASSUME NEW f \in Seq(Texts), NEW k \in DOMAIN f
    PROVE  /\ IsSaid(f, k) => f[k].n \in Nat /\ f[k] \in SaidTexts
           /\ f[k] \in Notices => ~ IsSaid(f, k)
           /\ k \in Nat \ {0} /\ k <= Len(f) /\ DOMAIN f = 1..Len(f) /\ Len(f) \in Nat
<1>1. k \in Nat \ {0} /\ k <= Len(f) /\ DOMAIN f = 1..Len(f) /\ Len(f) \in Nat /\ f[k] \in Texts
  BY LenProperties
<1>2. f[k] \in Notices => ~ IsSaid(f, k)
  BY DEF Notices, IsSaid, SomeoneJoined, SomeoneConnected, SomeoneDisconnected
<1>3. f[k] \in SaidTexts => f[k].n \in Nat
  BY RequestsAssumption DEF SaidTexts
<1> QED BY <1>1, <1>2, <1>3 DEF Texts

\* A feed to which no text of a peer was added stays in order.
LEMMA StillIncreasing ==
    ASSUME NEW f, NEW f2, Continues(f, f2, Notices) \/ Continues(f, f2, {}), Increasing(f)
    PROVE  /\ Increasing(f2)
           /\ \A k \in DOMAIN f2 : IsSaid(f2, k) => k \in DOMAIN f /\ f2[k] = f[k] /\ IsSaid(f, k)
<1>1. f \in Seq(Texts) /\ f2 \in Seq(Texts)
  BY DEF Continues
<1>2. ASSUME NEW k \in DOMAIN f2, IsSaid(f2, k)
      PROVE  k \in DOMAIN f /\ f2[k] = f[k] /\ IsSaid(f, k)
  <2>1. k \in DOMAIN f /\ f2[k] = f[k]
    BY <1>1, <1>2, SaidHasNumber DEF Continues
  <2> QED BY <1>2, <2>1 DEF IsSaid
<1> QED BY <1>2 DEF Increasing

\* One text, younger than all, at the end.
LEMMA YoungestLast ==
    ASSUME NEW f, NEW f2, NEW t \in SaidTexts, Continues(f, f2, {t}), Len(f2) <= Len(f) + 1,
           Increasing(f), \A k \in DOMAIN f : IsSaid(f, k) => f[k].n < t.n
    PROVE  /\ Increasing(f2)
           /\ \A k \in DOMAIN f2 : IsSaid(f2, k) =>
                 \/ k \in DOMAIN f /\ f2[k] = f[k] /\ IsSaid(f, k)
                 \/ k \notin DOMAIN f /\ f2[k] = t
<1>1. f \in Seq(Texts) /\ f2 \in Seq(Texts)
  BY DEF Continues
<1>2. ASSUME NEW k \in DOMAIN f2, IsSaid(f2, k)
      PROVE  \/ k \in DOMAIN f /\ f2[k] = f[k] /\ IsSaid(f, k)
             \/ k \notin DOMAIN f /\ f2[k] = t
  BY <1>2 DEF Continues, IsSaid
<1>3. ASSUME NEW i \in DOMAIN f2, NEW j \in DOMAIN f2, i < j, IsSaid(f2, i), IsSaid(f2, j)
      PROVE  f2[i].n < f2[j].n
  <2>1. i \in DOMAIN f /\ f2[i] = f[i] /\ IsSaid(f, i)
    <3>1. /\ i \in Nat \ {0} /\ j \in Nat \ {0} /\ j <= Len(f2) /\ Len(f2) \in Nat
          /\ DOMAIN f = 1..Len(f) /\ Len(f) \in Nat
      BY <1>1, SaidHasNumber, LenProperties
    <3>2. i \in 1..Len(f)
      BY <1>3, <3>1
    <3> QED BY <1>2, <1>3, <3>1, <3>2
  <2>2. CASE j \in DOMAIN f /\ f2[j] = f[j] /\ IsSaid(f, j)
    BY <1>3, <2>1, <2>2 DEF Increasing
  <2>3. CASE f2[j] = t
    BY <2>1, <2>3
  <2> QED BY <1>2, <1>3, <2>2, <2>3
<1> QED BY <1>2, <1>3 DEF Increasing

\* Feeds that hear nothing new of peers stay in order while only younger texts
\* are posted.
LEMMA QuietFeeds ==
    ASSUME FeedsInOrder, asked \in Nat, asked' \in Nat, asked <= asked',
           \A c \in Conns :
              Continues(Feed(c), Feed(c)', Notices) \/ Continues(Feed(c), Feed(c)', {}),
           \A i \in DOMAIN inbox' : inbox'[i].type = "Message" =>
              \/ \E j \in DOMAIN inbox : inbox[j] = inbox'[i]
              \/ inbox'[i].text.n = asked + 1
    PROVE  FeedsInOrder'
<1> SUFFICES ASSUME NEW c \in Conns PROVE Increasing(Feed(c)') /\ Older(c, Feed(c))'
  BY DEF FeedsInOrder, Increasing, IsSaid
<1>1. PICK f, f2 : f = Feed(c) /\ f2 = Feed(c)'
  OBVIOUS
<1>2. /\ Increasing(f2)
      /\ \A k \in DOMAIN f2 : IsSaid(f2, k) => k \in DOMAIN f /\ f2[k] = f[k] /\ IsSaid(f, k)
  BY <1>1, StillIncreasing DEF FeedsInOrder
<1>3. ASSUME NEW k \in DOMAIN f2, IsSaid(f2, k)
      PROVE  /\ f2[k].from # c /\ f2[k].n <= asked'
             /\ \A i \in DOMAIN inbox' :
                   inbox'[i].type = "Message" => f2[k].n < inbox'[i].text.n
  <2>1. k \in DOMAIN f /\ f2[k] = f[k] /\ IsSaid(f, k)
    BY <1>2, <1>3
  <2>2. f[k].n \in Nat
    BY <1>1, <2>1, SaidHasNumber DEF Continues
  <2>3. /\ f[k].from # c /\ f[k].n <= asked
        /\ \A i \in DOMAIN inbox : inbox[i].type = "Message" => f[k].n < inbox[i].text.n
    BY <1>1, <2>1 DEF FeedsInOrder, Older
  <2>4. f2[k].n <= asked' /\ f2[k].n < asked + 1
    BY <2>1, <2>2, <2>3
  <2> QED BY <2>1, <2>3, <2>4
<1>4. Older(c, f2)'
  BY <1>3 DEF Older, IsSaid
<1> QED BY <1>1, <1>2, <1>4 DEF Older, IsSaid

LEMMA MessageText ==
    ASSUME inbox \in Seq(Messages), NEW i \in DOMAIN inbox, inbox[i].type = "Message"
    PROVE  inbox[i].text \in SaidTexts /\ inbox[i].text.n \in Nat
<1>1. inbox[i] \in Messages
  BY ElementOfSeq, LenProperties
<1>2. inbox[i].text \in SaidTexts
  BY <1>1 DEF Messages
<1> QED BY <1>2, RequestsAssumption DEF SaidTexts

LEMMA InitOrderInv == Init => OrderInv
<1> SUFFICES ASSUME Init PROVE OrderInv
  OBVIOUS
<1>1. \A c \in Conns : Feed(c) = <<>> /\ DOMAIN Feed(c) = {}
  <2>1. \A c \in Conns : Feed(c) = <<>> \o <<>>
    BY DEF Init, Feed, ChatInit
  <2>2. <<>> \o <<>> = <<>>
    BY EmptySeq, ConcatEmptySeq
  <2> QED BY <2>1, <2>2
<1>2. DOMAIN inbox = {}
  BY DEF Init, ServerInit, ChatInit
<1>3. Init => OneSession
  BY InitOneSession DEF Init
<1> QED BY <1>1, <1>2, <1>3
        DEF OrderInv, TextsInOrder, FeedsInOrder, Increasing, Older

LEMMA ServerOrderInv == ASSUME IInv, OrderInv, Server PROVE OrderInv'
<1>1. /\ TypeOK /\ Taken /\ inbox \in Seq(Messages) /\ UNCHANGED asked /\ asked \in Nat
      /\ inbox[1] \in Messages /\ inbox[1] = Head(inbox)
  BY ServerTakes, RequestsAssumption DEF IInv, TalkInv, TypeOK, ChatTypeOK, Server, sessionVars
<1>2. OneSession'
  BY ServerOneSession, ServerIsStep DEF OrderInv, IInv
<1>3. \A i \in DOMAIN inbox' :
         /\ i \in Nat /\ i + 1 \in DOMAIN inbox /\ inbox'[i] = inbox[i + 1]
         /\ i + 1 > 1 /\ 1 \in DOMAIN inbox
  BY <1>1 DEF Taken
<1>4. TextsInOrder'
  <2>1. \A id \in DOMAIN sessions \cap DOMAIN sessions' : sessions'[id] = sessions[id]
    <3>1. CASE HandleConnect
      BY <3>1 DEF HandleConnect, OnConnect, Register, IInv, TalkInv, IdsOwned
    <3>2. CASE HandleDisconnect
      BY <3>2 DEF HandleDisconnect, OnDisconnect, DisconnectRegistered, DisconnectUnknown,
                  Unregister
    <3>3. CASE HandleMessage \/ HandleListRooms \/ HandleJoin
      BY <3>3 DEF HandleMessage, HandleListRooms, HandleJoin, OnMessage, OnListRooms, OnJoin
    <3> QED BY <3>1, <3>2, <3>3 DEF Server, Serve
  <2>2. DisconnectIsLast'
    BY HandleConnectTalk, HandleDisconnectTalk, HandleOtherTalk, ServerIsStep DEF Server, Serve,
       Talk, IInv
  <2>3. \A i \in DOMAIN inbox' : inbox'[i].type = "Message" =>
           inbox'[i].id \in DOMAIN sessions \cap DOMAIN sessions'
    BY <1>3, <2>2 DEF DisconnectIsLast, IInv, TalkInv
  <2>4. ASSUME NEW i \in DOMAIN inbox', inbox'[i].type = "Message",
               NEW j \in DOMAIN inbox', inbox'[j].type = "Message", j < i
        PROVE  inbox'[j].text.n < inbox'[i].text.n
    <3>1. j + 1 < i + 1
      BY <1>3, <2>4
    <3> QED BY <1>3, <2>4, <3>1 DEF OrderInv, TextsInOrder
  <2> QED BY <1>1, <1>3, <2>1, <2>3, <2>4 DEF OrderInv, TextsInOrder
<1>5. CASE inbox[1].type # "Message"
  <2>1. \A c \in Conns : Continues(Feed(c), Feed(c)', Notices)
    BY <1>5, ServerNotices DEF OrderInv
  <2>2. FeedsInOrder'
    BY <1>1, <1>3, <2>1, QuietFeeds DEF OrderInv
  <2> QED BY <1>2, <1>4, <2>2 DEF OrderInv
<1>6. CASE inbox[1].type = "Message"
  <2>1. PICK t \in SaidTexts : t = inbox[1].text /\ t.n \in Nat
    BY <1>1, <1>6, MessageText DEF Taken
  <2>2. t.n <= asked /\ sessions[inbox[1].id] = t.from
        /\ \A i \in DOMAIN inbox' : inbox'[i].type = "Message" => t.n < inbox'[i].text.n
    BY <1>3, <1>1, <1>6, <2>1 DEF OrderInv, TextsInOrder, Taken
  <2>3. ASSUME NEW c \in Conns PROVE Increasing(Feed(c)') /\ Older(c, Feed(c))'
    <3>1. PICK f, f2 : f = Feed(c) /\ f2 = Feed(c)'
      OBVIOUS
    <3>2. Continues(f, f2, {t}) /\ Len(f2) <= Len(f) + 1
          /\ (t.from = c => Len(f2) = Len(f))
      BY <1>6, <2>1, <2>2, <3>1, ServerSays DEF OrderInv
    <3>3. /\ Increasing(f)
          /\ \A k \in DOMAIN f : IsSaid(f, k) =>
                /\ f[k].from # c /\ f[k].n <= asked
                /\ \A i \in DOMAIN inbox : inbox[i].type = "Message" => f[k].n < inbox[i].text.n
      BY <3>1 DEF OrderInv, FeedsInOrder, Older
    <3>4. \A k \in DOMAIN f : IsSaid(f, k) => f[k].n < t.n
      BY <1>1, <1>6, <2>1, <3>3 DEF Taken
    <3>5. /\ Increasing(f2)
          /\ \A k \in DOMAIN f2 : IsSaid(f2, k) =>
                \/ k \in DOMAIN f /\ f2[k] = f[k] /\ IsSaid(f, k)
                \/ k \notin DOMAIN f /\ f2[k] = t
      BY <3>2, <3>3, <3>4, YoungestLast
    <3>6. ASSUME NEW k \in DOMAIN f2, k \notin DOMAIN f PROVE t.from # c
      <4>1. /\ DOMAIN f = 1..Len(f) /\ k \in 1..Len(f2)
        BY <3>2, LenProperties DEF Continues
      <4> QED BY <3>2, <3>6, <4>1
    <3>7. ASSUME NEW k \in DOMAIN f2, IsSaid(f2, k)
          PROVE  /\ f2[k].from # c /\ f2[k].n <= asked'
                 /\ \A i \in DOMAIN inbox' :
                       inbox'[i].type = "Message" => f2[k].n < inbox'[i].text.n
      <4>1. CASE k \in DOMAIN f /\ f2[k] = f[k] /\ IsSaid(f, k)
        BY <1>1, <1>3, <3>3, <4>1
      <4>2. CASE k \notin DOMAIN f /\ f2[k] = t
        BY <1>1, <2>2, <3>6, <4>2
      <4> QED BY <3>5, <3>7, <4>1, <4>2
    <3>8. Older(c, f2)'
      BY <3>7 DEF Older, IsSaid
    <3> QED BY <3>1, <3>5, <3>8 DEF Older, IsSaid
  <2>4. FeedsInOrder'
    BY <2>3 DEF FeedsInOrder, Increasing, IsSaid
  <2> QED BY <1>2, <1>4, <2>4 DEF OrderInv
<1> QED BY <1>5, <1>6

\* A peer's text is numbered above all others when it is posted.
LEMMA SessionTexts ==
    ASSUME IInv, TextsInOrder, NEW c \in Conns, Peer(c) \/ Session(c)
    PROVE  /\ TextsInOrder'
           /\ asked \in Nat /\ asked' \in Nat /\ asked <= asked'
           /\ \A i \in DOMAIN inbox' : inbox'[i].type = "Message" =>
                 \/ \E j \in DOMAIN inbox : inbox[j] = inbox'[i]
                 \/ inbox'[i].text.n = asked + 1
<1>1. /\ TypeOK /\ inbox \in Seq(Messages) /\ UNCHANGED <<sessions, serverUp>> /\ asked \in Nat
  BY SessionKeeps, RequestsAssumption DEF IInv, TalkInv, TypeOK, ChatTypeOK
<1>2. asked' = asked \/ asked' = asked + 1
  BY SessionSteps
     DEF Start, StoreId, GiveUp, TcpJoin, Speak, TcpList, WriteRooms, SkipRooms, Deliver,
         DropPeer, StreamEnds, Stop, Ask
<1>3. asked' \in Nat /\ asked <= asked'
  BY <1>1, <1>2
<1>4. ASSUME inbox' = inbox
      PROVE  TextsInOrder' /\ \A i \in DOMAIN inbox' : \E j \in DOMAIN inbox : inbox[j] = inbox'[i]
  <2>1. \A i \in DOMAIN inbox : inbox[i].type = "Message" => inbox[i].text.n \in Nat
    BY <1>1, MessageText
  <2> QED BY <1>1, <1>3, <1>4, <2>1 DEF TextsInOrder
<1>5. ASSUME NEW m, Added(m),
             m.type = "Message" =>
                /\ m.text.n = asked + 1 /\ asked' = asked + 1
                /\ sessions[m.id] = m.text.from
      PROVE  /\ TextsInOrder'
             /\ \A i \in DOMAIN inbox' : inbox'[i].type = "Message" =>
                   \/ \E j \in DOMAIN inbox : inbox[j] = inbox'[i]
                   \/ inbox'[i].text.n = asked + 1
  <2>1. \A i \in DOMAIN inbox' :
           \/ i \in DOMAIN inbox /\ inbox'[i] = inbox[i]
           \/ inbox'[i] = m /\ i = Len(inbox) + 1
    BY <1>5 DEF Added
  <2>2. \A i \in DOMAIN inbox : inbox[i].type = "Message" => inbox[i].text.n \in Nat
    BY <1>1, MessageText
  <2>3. ASSUME NEW i \in DOMAIN inbox', inbox'[i].type = "Message"
        PROVE  /\ inbox'[i].text.n <= asked'
               /\ sessions[inbox'[i].id] = inbox'[i].text.from
               /\ \A j \in DOMAIN inbox' : j < i /\ inbox'[j].type = "Message" =>
                     inbox'[j].text.n < inbox'[i].text.n
    <3>1. CASE i \in DOMAIN inbox /\ inbox'[i] = inbox[i]
      <4>1. \A j \in DOMAIN inbox' : j < i => j \in DOMAIN inbox /\ inbox'[j] = inbox[j]
        BY <1>5, <2>1, <3>1 DEF Added
      <4> QED BY <1>1, <1>3, <2>2, <2>3, <3>1, <4>1 DEF TextsInOrder
    <3>2. CASE inbox'[i] = m /\ i = Len(inbox) + 1
      <4>1. \A j \in DOMAIN inbox' : j < i => j \in DOMAIN inbox /\ inbox'[j] = inbox[j]
        BY <1>5, <2>1, <3>2 DEF Added
      <4>2. m.type = "Message" /\ m.text.n = asked + 1 /\ asked' = asked + 1
        BY <1>5, <2>3, <3>2
      <4>3. \A j \in DOMAIN inbox : inbox[j].type = "Message" => inbox[j].text.n < asked + 1
        BY <1>1, <2>2 DEF TextsInOrder
      <4> QED BY <1>1, <1>5, <3>2, <4>1, <4>2, <4>3
    <3> QED BY <2>1, <3>1, <3>2
  <2>4. TextsInOrder'
    BY <1>1, <2>3 DEF TextsInOrder
  <2> QED BY <1>5, <2>1, <2>4
<1>6. CASE inbox' = inbox
  BY <1>1, <1>3, <1>4, <1>6
<1>7. CASE ~serverUp
  <2>1. inbox' = inbox
    BY <1>7, SessionSteps
       DEF Start, StoreId, GiveUp, TcpJoin, Speak, TcpList, WriteRooms, SkipRooms, Deliver,
           DropPeer, StreamEnds, Stop, Post, NotifyServer
  <2> QED BY <1>6, <2>1
<1>8. CASE serverUp
  <2>1. \A m \in Messages : Post(m) => Added(m)
    BY <1>1, <1>8, PostAppends
  <2>2. CASE Speak(c)
    <3>1. PICK m : m = Message(sid[c], Said(c, asked + 1), room[c])
      OBVIOUS
    <3>2. Post(m) /\ sid[c] \in Ids /\ asked < MaxRequests /\ asked' = asked + 1
          /\ phase[c] = "running"
      BY <2>2, <3>1, IdsHeld DEF Speak, Ask, HasId, IInv, TalkInv
    <3>3. m \in Messages
      BY <1>1, <3>1, <3>2, PostedMessages, SaidMessage DEF IInv, TypeOK
    <3>4. m.text.n = asked + 1 /\ m.text.from = c /\ m.id = sid[c]
      BY <3>1 DEF Message, Said
    <3>5. sessions[m.id] = c
      BY <3>2, <3>4 DEF IInv, TalkInv, IdsOwned
    <3> QED BY <1>1, <1>3, <1>5, <2>1, <3>2, <3>3, <3>4, <3>5
  <2>3. ASSUME NEW m \in Messages, Post(m), m.type # "Message"
        PROVE  /\ TextsInOrder'
               /\ \A i \in DOMAIN inbox' : inbox'[i].type = "Message" =>
                     \/ \E j \in DOMAIN inbox : inbox[j] = inbox'[i]
                     \/ inbox'[i].text.n = asked + 1
    BY <1>5, <2>1, <2>3
  <2>4. CASE Start(c)
    BY <1>1, <1>3, <2>3, <2>4, PostedMessages DEF Start, Connect, TypeOK
  <2>5. CASE TcpList(c)
    BY <1>1, <1>3, <2>3, <2>5, PostedMessages DEF TcpList, ListRooms, TypeOK
  <2>6. CASE DropPeer(c) \/ Stop(c)
    BY <1>1, <1>3, <2>3, <2>6, PostedMessages DEF DropPeer, Stop, NotifyServer, Disconnect, TypeOK
  <2>7. ASSUME NEW name \in Rooms, TcpJoin(c, name)
        PROVE  /\ TextsInOrder'
               /\ \A i \in DOMAIN inbox' : inbox'[i].type = "Message" =>
                     \/ \E j \in DOMAIN inbox : inbox[j] = inbox'[i]
                     \/ inbox'[i].text.n = asked + 1
    <3>1. PICK m : m = Join(sid[c], name)
      OBVIOUS
    <3>2. Post(m) /\ sid[c] \in Ids /\ m.type # "Message"
      BY <2>7, <3>1, IdsHeld DEF TcpJoin, HasId, IInv, TalkInv, Join
    <3>3. m \in Messages
      BY <1>1, <3>1, <3>2, PostedMessages DEF TypeOK
    <3> QED BY <2>3, <3>2, <3>3
  <2>8. CASE StoreId(c) \/ GiveUp(c) \/ WriteRooms(c) \/ SkipRooms(c) \/ Deliver(c) \/ StreamEnds(c)
    BY <1>6, <2>8 DEF StoreId, GiveUp, WriteRooms, SkipRooms, Deliver, StreamEnds
  <2> QED BY <1>1, <1>3, <2>2, <2>4, <2>5, <2>6, <2>7, <2>8, SessionSteps
<1> QED BY <1>7, <1>8

LEMMA OrderStep == ASSUME IInv, OrderInv, [Next]_vars PROVE OrderInv'
<1>1. OneSession'
  BY OneSessionStep DEF OrderInv
<1>2. ASSUME NEW c \in Conns, Peer(c) \/ Session(c) PROVE OrderInv'
  <2>1. \A d \in Conns : Continues(Feed(d), Feed(d)', {})
    BY <1>2, SessionFeeds
  <2>2. TextsInOrder' /\ FeedsInOrder'
    BY <1>2, <2>1, SessionTexts, QuietFeeds DEF OrderInv
  <2> QED BY <1>1, <2>2 DEF OrderInv
<1>3. CASE Failure
  <2>1. DOMAIN inbox' = {} /\ UNCHANGED <<asked, received, mailbox>>
    BY <1>3 DEF Failure, ServerFails, sessionVars
  <2> QED BY <1>1, <2>1, ZenonT(30)
      DEF OrderInv, TextsInOrder, FeedsInOrder, Increasing, Older, IsSaid, Feed
<1>4. CASE UNCHANGED vars
  BY <1>1, <1>4, ZenonT(90)
     DEF vars, OrderInv, TextsInOrder, FeedsInOrder, Increasing, Older, IsSaid, Feed
<1> QED BY <1>2, <1>3, <1>4, ServerOrderInv DEF Next

-----------------------------------------------------------------------------
(* Theorems: the order of texts *)

THEOREM OrderInvariance == Spec => []OrderInv
BY InitOrderInv, OrderStep, Invariance, PTL DEF Spec

\* The texts of a sender reach every hearer in the order they were said, each
\* at most once, and never the sender itself (send_message with skip_id).
THEOREM SendersInOrder == Spec => []SenderOrder
<1>1. FeedsInOrder => SenderOrder
  BY DEF FeedsInOrder, SenderOrder, Increasing, Older, IsSaid
<1> QED BY <1>1, OrderInvariance, PTL DEF OrderInv

\* Two peers that hear the same two texts hear them in the same order: the
\* server posts a text to all members before it handles the next message.
THEOREM SameOrderForAll == Spec => []CommonOrder
<1>1. ASSUME TypeOK, FeedsInOrder, NEW c \in Conns, NEW d \in Conns,
             NEW i \in DOMAIN Feed(c), NEW j \in DOMAIN Feed(c),
             i < j, IsSaid(Feed(c), i), IsSaid(Feed(c), j),
             NEW k \in DOMAIN Feed(d), NEW l \in DOMAIN Feed(d),
             k < l, Feed(d)[k] = Feed(c)[j], Feed(d)[l] = Feed(c)[i]
      PROVE  FALSE
  <2>1. Feed(c) \in Seq(Texts) /\ Feed(d) \in Seq(Texts)
    BY <1>1, ConcatProperties DEF TypeOK, ChatTypeOK, Feed
  <2>2. Feed(c)[i].n < Feed(c)[j].n
    BY <1>1 DEF FeedsInOrder, Increasing
  <2>3. Feed(d)[k].n < Feed(d)[l].n
    BY <1>1 DEF FeedsInOrder, Increasing, IsSaid
  <2>4. Feed(c)[i].n \in Nat /\ Feed(c)[j].n \in Nat
    BY <1>1, <2>1, SaidHasNumber
  <2> QED BY <1>1, <2>2, <2>3, <2>4
<1>2. TypeOK /\ FeedsInOrder => CommonOrder
  BY <1>1 DEF CommonOrder, IsSaid
<1> QED BY <1>2, OrderInvariance, TypeCorrect, PTL DEF OrderInv

-----------------------------------------------------------------------------
(* The refinement of RoomChat: what the steps are matched under *)

\* A session's mailbox is live from its start to its end.
LiveMailboxes ==
    \A c \in Conns : c \in open <=> phase[c] \notin {"absent", "stopped"}

\* What the steps are matched under.
ChatInv == IInv /\ RoomInv /\ OrderInv /\ LiveMailboxes

LEMMA LiveMailboxesStep == ASSUME IInv, LiveMailboxes, [Next]_vars PROVE LiveMailboxes'
<1> USE DEF LiveMailboxes
<1>1. phase \in [Conns -> Phases]
  BY DEF IInv, TalkInv, TypeOK, ChatTypeOK
<1>2. ASSUME UNCHANGED <<phase, open>> PROVE LiveMailboxes'
  BY <1>2
<1>3. CASE Server \/ Failure \/ UNCHANGED vars
  BY <1>2, <1>3 DEF Server, Failure, ServerFails, sessionVars, vars, Serve, HandleConnect,
     HandleDisconnect, HandleMessage, HandleListRooms, HandleJoin, Consume
<1>4. ASSUME NEW c \in Conns, Peer(c) \/ Session(c) PROVE LiveMailboxes'
  <2>1. CASE Start(c)
    BY <1>1, <2>1 DEF Start, Wait, Goto
  <2>2. CASE Stop(c)
    BY <1>1, <2>2 DEF Stop, Goto
  <2>3. CASE StoreId(c) \/ GiveUp(c) \/ TcpList(c) \/ WriteRooms(c) \/ SkipRooms(c)
             \/ DropPeer(c) \/ StreamEnds(c)
    BY <1>1, <2>3 DEF StoreId, GiveUp, TcpList, WriteRooms, SkipRooms, DropPeer, StreamEnds,
                      Wait, StopActor, Goto
  <2>4. CASE Speak(c) \/ Deliver(c) \/ \E name \in Rooms : TcpJoin(c, name)
    BY <1>2, <2>4 DEF Speak, Deliver, TcpJoin
  <2> QED BY <1>4, <2>1, <2>2, <2>3, <2>4, SessionSteps
<1> QED BY <1>3, <1>4 DEF Next

LEMMA InitChatInv == Init => ChatInv
<1>1. Init => LiveMailboxes
  BY DEF Init, LiveMailboxes, ChatInit
<1>2. Init => IInv
  BY InitType, InitTalk DEF Init, IInv
<1> QED BY <1>1, <1>2, InitRoomInv, InitOrderInv DEF ChatInv

-----------------------------------------------------------------------------
(* Where a peer is *)

\* d has an id that is a member of room r.
InRoom(d, r) ==
    \E id \in DOMAIN sessions : sessions[id] = d /\ r \in DOMAIN rooms /\ id \in rooms[r]

Registered(d) == \E id \in DOMAIN sessions : sessions[id] = d

\* A registered peer is in the room its one id is in, any other in none.
PlacesOfPeers ==
    \A d \in Conns :
        /\ \A r : InRoom(d, r) => PlaceOf(d) = r /\ r \in Rooms
        /\ \A r \in Rooms : PlaceOf(d) = r => InRoom(d, r)
        /\ Registered(d) => InRoom(d, PlaceOf(d))
        /\ ~Registered(d) => PlaceOf(d) = (IF sid[d] = NoId THEN "outside" ELSE "gone")

LEMMA PlaceIsRoom == ChatInv => PlacesOfPeers
<1> SUFFICES ASSUME ChatInv, NEW d \in Conns
             PROVE  /\ \A r : InRoom(d, r) => PlaceOf(d) = r /\ r \in Rooms
                    /\ \A r \in Rooms : PlaceOf(d) = r => InRoom(d, r)
                    /\ Registered(d) => InRoom(d, PlaceOf(d))
                    /\ ~Registered(d) =>
                          PlaceOf(d) = (IF sid[d] = NoId THEN "outside" ELSE "gone")
  BY DEF PlacesOfPeers
<1> DEFINE P(r) == r \in DOMAIN rooms /\ \E id \in rooms[r] : id \in DOMAIN sessions /\ sessions[id] = d
<1>1. ASSUME NEW q, InRoom(d, q) PROVE PlaceOf(d) = q /\ q \in Rooms
  <2>1. P(q) /\ Registered(d) /\ q \in Rooms
    BY <1>1 DEF InRoom, Registered, ChatInv, IInv, TalkInv, TypeOK, ChatTypeOK
  <2>2. ASSUME NEW r, P(r) PROVE r = q
    <3>1. PICK a \in DOMAIN sessions : sessions[a] = d /\ a \in rooms[r] /\ r \in DOMAIN rooms
      BY <2>2
    <3>2. PICK b \in DOMAIN sessions : sessions[b] = d /\ b \in rooms[q] /\ q \in DOMAIN rooms
      BY <2>1
    <3>3. a = b
      BY <3>1, <3>2, RegisteredOnce DEF ChatInv, OrderInv, IInv
    <3>4. r \in RoomsOf(a) /\ q \in RoomsOf(a)
      BY <3>1, <3>2, <3>3 DEF RoomsOf
    <3> QED BY <3>1, <3>4 DEF ChatInv, RoomInv, OneRoomEach
  <2>3. (CHOOSE r : P(r)) = q
    <3> HIDE DEF P
    <3>1. P(CHOOSE r : P(r))
      BY <2>1
    <3> QED BY <2>2, <3>1
  <2>4. PlaceOf(d) = CHOOSE r : P(r)
    BY <2>1 DEF PlaceOf, Registered
  <2> QED BY <2>1, <2>3, <2>4
<1>2. Registered(d) => \E r : InRoom(d, r)
  BY DEF Registered, InRoom, ChatInv, RoomInv, OneRoomEach, RoomsOf
<1>3. ~Registered(d) => PlaceOf(d) = (IF sid[d] = NoId THEN "outside" ELSE "gone")
  BY DEF Registered, PlaceOf
<1>4. "outside" \notin Rooms /\ "gone" \notin Rooms
  BY PlacesAssumption
<1> QED BY <1>1, <1>2, <1>3, <1>4

LEMMA PlaceIsRoomNext == ChatInv' => PlacesOfPeers'
BY PlaceIsRoom, PTL

\* A peer whose id, room and field are left alone stays where it is.
LEMMA PlaceKept ==
    ASSUME PlacesOfPeers, PlacesOfPeers', NEW d \in Conns, sid'[d] = sid[d],
           \A r : InRoom(d, r) => InRoom(d, r)',
           Registered(d)' => Registered(d)
    PROVE  PlaceOf(d)' = PlaceOf(d)
<1>1. CASE Registered(d)
  <2>1. PICK r : InRoom(d, r)
    BY <1>1 DEF PlacesOfPeers
  <2>2. InRoom(d, r)'
    BY <2>1
  <2> QED BY <2>1, <2>2 DEF PlacesOfPeers, InRoom
<1>2. CASE ~Registered(d)
  BY <1>2 DEF Registered, PlacesOfPeers
<1> QED BY <1>1, <1>2

-----------------------------------------------------------------------------
(* Who is told *)

\* What one more text in a mailbox is to the feed.
LEMMA FeedAppended ==
    ASSUME NEW r \in Seq(Texts), NEW f \in Seq(Texts), NEW t \in Texts
    PROVE  r \o Append(f, t) = Append(r \o f, t)
<1>1. \A x, y, z \in Seq(Texts) : (x \o y) \o z = x \o (y \o z)
  BY ConcatAssociative
<1>2. <<t>> \in Seq(Texts)
  OBVIOUS
<1>3. Append(f, t) = f \o <<t>>
  BY AppendIsConcat
<1>4. r \o f \in Seq(Texts)
  BY ConcatProperties
<1>5. Append(r \o f, t) = (r \o f) \o <<t>>
  BY <1>4, AppendIsConcat
<1>6. (r \o f) \o <<t>> = r \o (f \o <<t>>)
  BY <1>1, <1>2, Zenon
<1> QED BY <1>3, <1>5, <1>6

\* The members of room r apart from c, whose id is left out in one of two ways:
\* it is taken out of the rooms before, or skipped.
LEMMA Members ==
    ASSUME ChatInv, NEW id \in DOMAIN sessions, NEW d \in Conns, NEW r, NEW ms, NEW skip,
           \/ ms = WithoutMember(id) /\ skip \in {id, NoId}
           \/ ms = rooms /\ skip = id
    PROVE  IsMember(d, ms, {r} \cap DOMAIN rooms, skip) <=> d # sessions[id] /\ InRoom(d, r)
<1>1. \A i \in DOMAIN sessions : sessions[i] = sessions[id] => i = id
  BY RegisteredOnce DEF ChatInv, OrderInv, IInv
<1>2. NoId \notin DOMAIN sessions
  BY IdsAssumption DEF ChatInv, IInv, TalkInv, TypeOK, ChatTypeOK
<1>3. \A q \in DOMAIN rooms : \A i : i # id => (i \in ms[q] <=> i \in rooms[q])
  BY DEF WithoutMember
<1>4. ASSUME IsMember(d, ms, {r} \cap DOMAIN rooms, skip) PROVE d # sessions[id] /\ InRoom(d, r)
  <2>1. PICK i \in DOMAIN sessions \ {skip} :
          sessions[i] = d /\ r \in DOMAIN rooms /\ i \in ms[r]
    BY <1>4 DEF IsMember
  <2>2. i # id
    BY <2>1 DEF WithoutMember
  <2> QED BY <1>1, <1>3, <2>1, <2>2 DEF InRoom
<1>5. ASSUME d # sessions[id], InRoom(d, r) PROVE IsMember(d, ms, {r} \cap DOMAIN rooms, skip)
  <2>1. PICK i \in DOMAIN sessions : sessions[i] = d /\ r \in DOMAIN rooms /\ i \in rooms[r]
    BY <1>5 DEF InRoom
  <2>2. i # id /\ i # skip
    BY <1>2, <1>5, <2>1
  <2> QED BY <1>3, <2>1, <2>2 DEF IsMember
<1> QED BY <1>4, <1>5

\* A mailbox that gets a text, or none, as its feed does.
LEMMA FeedTold ==
    ASSUME TypeOK, UNCHANGED received, NEW d \in Conns, NEW text \in Texts, NEW told \in BOOLEAN,
           mailbox'[d] = IF told THEN WithText(mailbox[d], text) ELSE mailbox[d]
    PROVE  Feed(d)' = IF told THEN WithText(Feed(d), text) ELSE Feed(d)
<1>1. received[d] \in Seq(Texts) /\ received'[d] = received[d] /\ mailbox[d] \in Seq(Texts)
  BY DEF TypeOK, ChatTypeOK
<1>2. PICK r \in Seq(Texts), f \in Seq(Texts) : r = received[d] /\ f = mailbox[d]
  BY <1>1
<1>3. r \o WithText(f, text) = WithText(r \o f, text)
  BY FeedAppended DEF WithText
<1> QED BY <1>1, <1>2, <1>3 DEF Feed

-----------------------------------------------------------------------------
(* The handlers of the server *)

LEMMA ServerFrame ==
    ASSUME ChatInv, ChatInv', Server
    PROVE  /\ TypeOK /\ UNCHANGED <<received, sid, phase, open>>
           /\ mailbox \in [Conns -> Seq(Texts)]
           /\ inbox[1] = Head(inbox) /\ 1 \in DOMAIN inbox /\ inbox[1] \in Messages
           /\ PlacesOfPeers /\ PlacesOfPeers' /\ IInv /\ OneSession
<1>1. TypeOK /\ Serve /\ UNCHANGED <<received, sid, phase>>
  BY DEF ChatInv, IInv, TalkInv, Server, sessionVars
<1>2. UNCHANGED open
  BY <1>1 DEF Serve, HandleConnect, HandleDisconnect, HandleMessage, HandleListRooms,
              HandleJoin, Consume
<1>3. inbox[1] = Head(inbox) /\ 1 \in DOMAIN inbox /\ inbox[1] \in Messages
  BY <1>1, ServerTakes DEF Taken, TypeOK
<1> QED BY <1>1, <1>2, <1>3, PlaceIsRoom, PlaceIsRoomNext DEF TypeOK, ChatTypeOK, ChatInv, OrderInv

\* Connect: the peer arrives in the main room.
LEMMA ConnectArrives ==
    ASSUME ChatInv, ChatInv', Server, HandleConnect
    PROVE  \E c \in Conns : Chat!Arrive(c)
<1>1. /\ TypeOK /\ UNCHANGED <<received, sid, phase, open>>
      /\ mailbox \in [Conns -> Seq(Texts)]
      /\ inbox[1] = Head(inbox) /\ 1 \in DOMAIN inbox /\ inbox[1] \in Messages
      /\ PlacesOfPeers /\ PlacesOfPeers' /\ IInv /\ OneSession
  BY ServerFrame
<1>2. PICK c \in Conns : c = Head(inbox).conn /\ inbox[1].type = "Connect"
  BY <1>1, MessageKinds DEF HandleConnect, Consume
<1>3. phase[c] = "connecting" /\ reply[c] = NoReply /\ sid[c] = NoId /\ c \in open
  BY <1>1, <1>2 DEF IInv, TalkInv, OneQuestion, OneSession, ChatInv, LiveMailboxes
<1>4. ~Registered(c)
  <2>1. \A id \in DOMAIN sessions : id # NoId /\ NoReply # IdReply(id)
    BY <1>1, IdsAssumption DEF TypeOK, ChatTypeOK, IdReply, NoReply
  <2> QED BY <1>1, <1>3, <2>1 DEF Registered, OneSession
<1>5. PICK id \in Ids \ issued :
        /\ mailbox' = SendMessage(mailbox, rooms, {Main}, SomeoneJoined, NoId)
        /\ sessions' = Register(id, c)
        /\ rooms' = WithMember(rooms, id, Main)
  BY <1>2 DEF HandleConnect, OnConnect
<1>6. id \notin DOMAIN sessions
  BY <1>1, <1>5 DEF IInv, TalkInv, IdsOwned
<1>7. InRoom(c, Main)'
  BY <1>5 DEF InRoom, Register, WithMember
<1>8. PlaceOf(c)' = Main /\ PlaceOf(c) = "outside"
  BY <1>1, <1>3, <1>4, <1>7 DEF PlacesOfPeers
<1>9. ASSUME NEW d \in Conns, d # c PROVE PlaceOf(d)' = PlaceOf(d)
  <2>1. \A r : InRoom(d, r) => InRoom(d, r)'
    BY <1>5, <1>6, <1>9 DEF InRoom, Register, WithMember
  <2>2. Registered(d)' => Registered(d)
    BY <1>5, <1>9 DEF Registered, Register
  <2> QED BY <1>1, <2>1, <2>2, PlaceKept
<1>10. ASSUME NEW d \in Conns
       PROVE  Feed(d)' = IF d \in open /\ d # c /\ PlaceOf(d) = Main
                         THEN WithText(Feed(d), SomeoneJoined) ELSE Feed(d)
  <2>1. PICK told \in BOOLEAN : told <=> d \in open /\ IsMember(d, rooms, {Main}, NoId)
    OBVIOUS
  <2>2. mailbox'[d] = IF told THEN WithText(mailbox[d], SomeoneJoined) ELSE mailbox[d]
    <3>1. SomeoneJoined \in Texts
      BY DEF Texts, Notices
    <3>2. PICK rs, after : /\ rs = {Main} /\ mailbox'[d] = after
                           /\ after = SendMessage(mailbox, rooms, rs, SomeoneJoined, NoId)[d]
                           /\ IsFiniteSet(rs) /\ AtMostOne(rs)
      BY <1>5, FS_Singleton DEF AtMostOne
    <3> QED BY <1>1, <2>1, <3>1, <3>2, SendMessageTo DEF IInv
  <2>3. IsMember(d, rooms, {Main}, NoId) <=> InRoom(d, Main)
    <3>1. Main \in DOMAIN rooms /\ NoId \notin DOMAIN sessions
      BY <1>1, IdsAssumption DEF TypeOK, ChatTypeOK
    <3> QED BY <3>1 DEF IsMember, InRoom
  <2>4. InRoom(d, Main) <=> PlaceOf(d) = Main
    BY <1>1, RoomsAssumption DEF PlacesOfPeers
  <2>5. d = c => ~InRoom(d, Main)
    BY <1>4 DEF InRoom, Registered
  <2>6. SomeoneJoined \in Texts
    BY DEF Texts, Notices
  <2>7. Feed(d)' = IF told THEN WithText(Feed(d), SomeoneJoined) ELSE Feed(d)
    BY <1>1, <2>2, <2>6, FeedTold
  <2> QED BY <2>1, <2>3, <2>4, <2>5, <2>7
<1> QED BY <1>1, <1>3, <1>8, <1>9, <1>10
        DEF Chat!Arrive, Chat!Tell, Chat!Others, Chat!SomeoneJoined, SomeoneJoined, WithText

\* The room of a registered id is the place of its session.
LEMMA RoomOfId ==
    ASSUME ChatInv, NEW id \in DOMAIN sessions
    PROVE  \E c \in Conns, r \in Rooms :
              /\ c = sessions[id] /\ r \in DOMAIN rooms
              /\ RoomsOf(id) = {r} /\ PlaceOf(c) = r
<1>1. PICK c \in Conns : c = sessions[id]
  BY DEF ChatInv, IInv, TalkInv, TypeOK, ChatTypeOK
<1>2. PICK r \in DOMAIN rooms : RoomsOf(id) = {r}
  BY DEF ChatInv, RoomInv, OneRoomEach
<1>3. InRoom(c, r)
  BY <1>1, <1>2 DEF InRoom, RoomsOf
<1>4. PlaceOf(c) = r /\ r \in Rooms
  BY <1>1, <1>3, PlaceIsRoom DEF PlacesOfPeers
<1> QED BY <1>1, <1>2, <1>4

\* What one SendMessage to room r does to the mailbox of d, when the sender's
\* id is skipped or is in no room.
LEMMA SentToRoom ==
    ASSUME ChatInv, NEW id \in DOMAIN sessions, NEW r \in Rooms, NEW d \in Conns,
           NEW ms, NEW skip,
           \/ ms = WithoutMember(id) /\ skip \in {id, NoId}
           \/ ms = rooms /\ skip = id,
           NEW box \in [Conns -> Seq(Texts)], NEW text \in Texts,
           NEW rs, rs = {r} \cap DOMAIN rooms,
           NEW after, after = SendMessage(box, ms, rs, text, skip)[d]
    PROVE  after = IF d \in open /\ d # sessions[id] /\ PlaceOf(d) = r
                   THEN WithText(box[d], text) ELSE box[d]
<1>1. IsFiniteSet(rs) /\ AtMostOne(rs)
  <2>1. rs \in SUBSET {r}
    OBVIOUS
  <2> QED BY <2>1, FS_Singleton, FS_Subset DEF AtMostOne
<1>2. after = IF d \in open /\ IsMember(d, ms, rs, skip) THEN WithText(box[d], text) ELSE box[d]
  BY <1>1, SendMessageTo DEF ChatInv, OrderInv, IInv
<1>3. IsMember(d, ms, rs, skip) <=> d # sessions[id] /\ InRoom(d, r)
  BY Members
<1>4. InRoom(d, r) <=> PlaceOf(d) = r
  BY PlaceIsRoom DEF PlacesOfPeers
<1> QED BY <1>2, <1>3, <1>4

\* The Disconnect of a registered id: the peer leaves.
LEMMA DisconnectLeaves ==
    ASSUME ChatInv, ChatInv', Server, HandleDisconnect, Head(inbox).id \in DOMAIN sessions
    PROVE  \E c \in Conns : Chat!Leave(c)
<1>1. /\ TypeOK /\ UNCHANGED <<received, sid, phase, open>>
      /\ mailbox \in [Conns -> Seq(Texts)]
      /\ inbox[1] = Head(inbox) /\ 1 \in DOMAIN inbox /\ inbox[1] \in Messages
      /\ PlacesOfPeers /\ PlacesOfPeers' /\ IInv /\ OneSession
  BY ServerFrame
<1>2. PICK id \in DOMAIN sessions : id = Head(inbox).id /\ inbox[1].type = "Disconnect"
  BY <1>1 DEF HandleDisconnect, Consume
<1>3. PICK c \in Conns, r \in Rooms :
        c = sessions[id] /\ r \in DOMAIN rooms /\ RoomsOf(id) = {r} /\ PlaceOf(c) = r
  BY RoomOfId
<1>4. /\ sessions' = Unregister(id) /\ rooms' = WithoutMember(id)
      /\ mailbox' = SendMessage(mailbox, WithoutMember(id), RoomsOf(id), SomeoneDisconnected, NoId)
  BY <1>2 DEF HandleDisconnect, OnDisconnect, DisconnectRegistered, DisconnectUnknown
<1>5. \A i \in DOMAIN sessions : sessions[i] = c => i = id
  BY <1>1, <1>3, RegisteredOnce DEF IInv
<1>6. PlaceOf(c)' = "gone"
  <2>1. ~Registered(c)'
    BY <1>4, <1>5 DEF Registered, Unregister
  <2>2. id # NoId
    BY <1>1, IdsAssumption DEF TypeOK, ChatTypeOK
  <2>3. reply[c].type = "Id" => reply[c].id # id
    BY <1>1, <1>2 DEF IInv, TalkInv, DisconnectIsLast
  <2>4. sid[c] = id
    <3>1. IdReply(id).type = "Id" /\ IdReply(id).id = id
      BY DEF IdReply
    <3>2. sid[c] = id \/ reply[c] = IdReply(id)
      BY <1>1, <1>3 DEF OneSession
    <3> QED BY <2>3, <3>1, <3>2
  <2> QED BY <1>1, <2>1, <2>2, <2>4 DEF PlacesOfPeers
<1>7. ASSUME NEW d \in Conns, d # c PROVE PlaceOf(d)' = PlaceOf(d)
  <2>1. \A q : InRoom(d, q) => InRoom(d, q)'
    BY <1>3, <1>4, <1>7 DEF InRoom, Unregister, WithoutMember
  <2>2. Registered(d)' => Registered(d)
    BY <1>4 DEF Registered, Unregister
  <2> QED BY <1>1, <2>1, <2>2, PlaceKept
<1>8. ASSUME NEW d \in Conns
      PROVE  Feed(d)' = IF d \in open /\ d # c /\ PlaceOf(d) = r
                        THEN WithText(Feed(d), SomeoneDisconnected) ELSE Feed(d)
  <2>1. PICK told \in BOOLEAN : told <=> d \in open /\ d # c /\ PlaceOf(d) = r
    OBVIOUS
  <2>2. SomeoneDisconnected \in Texts
    BY DEF Texts, Notices
  <2>3. PICK ms, rs, after :
          /\ ms = WithoutMember(id) /\ rs = {r} \cap DOMAIN rooms /\ after = mailbox'[d]
          /\ after = SendMessage(mailbox, ms, rs, SomeoneDisconnected, NoId)[d]
    <3>1. RoomsOf(id) = {r} \cap DOMAIN rooms
      BY <1>3
    <3> QED BY <1>4, <3>1
  <2>4. after = IF d \in open /\ d # c /\ PlaceOf(d) = r
                THEN WithText(mailbox[d], SomeoneDisconnected) ELSE mailbox[d]
    BY <1>1, <1>3, <2>2, <2>3, SentToRoom
  <2> QED BY <1>1, <2>1, <2>2, <2>3, <2>4, FeedTold
<1> QED BY <1>1, <1>3, <1>6, <1>7, <1>8
        DEF Chat!Leave, Chat!Tell, Chat!Others, Chat!SomeoneDisconnected, SomeoneDisconnected,
            WithText

\* A Message: the peer says something in the room it is in.
LEMMA MessageSays ==
    ASSUME ChatInv, ChatInv', Server, HandleMessage
    PROVE  \E c \in Conns, n \in 1..MaxRequests : Chat!Say(c, n)
<1>1. /\ TypeOK /\ UNCHANGED <<received, sid, phase, open>>
      /\ mailbox \in [Conns -> Seq(Texts)]
      /\ inbox[1] = Head(inbox) /\ 1 \in DOMAIN inbox /\ inbox[1] \in Messages
      /\ PlacesOfPeers /\ PlacesOfPeers' /\ IInv /\ OneSession
  BY ServerFrame
<1>2. inbox[1].type = "Message"
  BY <1>1 DEF HandleMessage, Consume
<1>3. PICK id \in DOMAIN sessions, t \in SaidTexts, q \in Rooms :
        id = inbox[1].id /\ t = inbox[1].text /\ q = inbox[1].room
  BY <1>1, <1>2 DEF IInv, TalkInv, DisconnectIsLast, Messages
<1>4. PICK c \in Conns, r \in Rooms :
        c = sessions[id] /\ r \in DOMAIN rooms /\ RoomsOf(id) = {r} /\ PlaceOf(c) = r
  BY RoomOfId
<1>5. q = r
  <2>1. InRoomAt(1, id, q)
    BY <1>1, <1>2, <1>3 DEF ChatInv, RoomInv, MessagesAgree
  <2>2. JoinsBefore(1, id) = {}
    <3>1. \A j \in DOMAIN inbox : j \in Nat \ {0}
      BY <1>1, LenProperties DEF TypeOK, ChatTypeOK
    <3> QED BY <3>1 DEF JoinsBefore
  <2>3. q \in RoomsOf(id)
    BY <2>1, <2>2 DEF InRoomAt, RoomsOf
  <2> QED BY <1>4, <2>3
<1>6. t = Said(c, t.n) /\ t.n \in 1..MaxRequests
  <2>1. t.from = c
    BY <1>1, <1>2, <1>3, <1>4 DEF ChatInv, OrderInv, TextsInOrder
  <2> QED BY <2>1 DEF SaidTexts, Said
<1>7. /\ UNCHANGED <<sessions, rooms>>
      /\ mailbox' = SendMessage(mailbox, rooms, {r} \cap DOMAIN rooms, t, id)
  BY <1>1, <1>3, <1>5 DEF HandleMessage, OnMessage
<1>8. ASSUME NEW d \in Conns PROVE PlaceOf(d)' = PlaceOf(d)
  BY <1>1, <1>7 DEF PlaceOf
<1>9. ASSUME NEW d \in Conns
      PROVE  Feed(d)' = IF d \in open /\ d # c /\ PlaceOf(d) = r
                        THEN WithText(Feed(d), t) ELSE Feed(d)
  <2>1. PICK told \in BOOLEAN : told <=> d \in open /\ d # c /\ PlaceOf(d) = r
    OBVIOUS
  <2>2. t \in Texts
    BY DEF Texts
  <2>3. PICK rs, after :
          /\ rs = {r} \cap DOMAIN rooms /\ after = mailbox'[d]
          /\ after = SendMessage(mailbox, rooms, rs, t, id)[d]
    BY <1>7
  <2>4. after = IF d \in open /\ d # c /\ PlaceOf(d) = r THEN WithText(mailbox[d], t)
                ELSE mailbox[d]
    BY <1>1, <1>4, <2>2, <2>3, SentToRoom
  <2> QED BY <1>1, <2>1, <2>2, <2>3, <2>4, FeedTold
<1>10. Chat!Said(c, t.n) = t
  BY <1>6 DEF Chat!Said, Said
<1>11. Chat!Say(c, t.n)
  BY <1>1, <1>4, <1>8, <1>9, <1>10 DEF Chat!Say, Chat!Tell, Chat!Others, WithText
<1> QED BY <1>6, <1>11

\* A Join: the peer moves, or is announced as if it did.
LEMMA JoinMoves ==
    ASSUME ChatInv, ChatInv', Server, HandleJoin
    PROVE  \E c \in Conns, r \in Rooms : Chat!Move(c, r)
<1>1. /\ TypeOK /\ UNCHANGED <<received, sid, phase, open>>
      /\ mailbox \in [Conns -> Seq(Texts)]
      /\ inbox[1] = Head(inbox) /\ 1 \in DOMAIN inbox /\ inbox[1] \in Messages
      /\ PlacesOfPeers /\ PlacesOfPeers' /\ IInv /\ OneSession
  BY ServerFrame
<1>2. inbox[1].type = "Join"
  BY <1>1 DEF HandleJoin, Consume
<1>3. PICK id \in DOMAIN sessions, name \in Rooms : id = inbox[1].id /\ name = inbox[1].name
  BY <1>1, <1>2 DEF IInv, TalkInv, DisconnectIsLast, Messages
<1>4. PICK c \in Conns, r \in Rooms :
        c = sessions[id] /\ r \in DOMAIN rooms /\ RoomsOf(id) = {r} /\ PlaceOf(c) = r
  BY RoomOfId
<1>5. PICK old, rs, told :
        /\ old = WithoutMember(id) /\ rs = {r} \cap DOMAIN rooms
        /\ told = SendMessage(mailbox, old, rs, SomeoneDisconnected, NoId)
        /\ mailbox' = SendMessage(told, old, {name} \cap DOMAIN rooms, SomeoneConnected, id)
        /\ UNCHANGED sessions /\ rooms' = WithMember(old, id, name)
  <2>1. RoomsOf(id) = {r} \cap DOMAIN rooms /\ DOMAIN WithoutMember(id) = DOMAIN rooms
    BY <1>4 DEF WithoutMember
  <2> QED BY <1>1, <1>3, <2>1 DEF HandleJoin, OnJoin
<1>6. InRoom(c, name)'
  BY <1>4, <1>5 DEF InRoom, WithMember
<1>7. PlaceOf(c)' = name
  BY <1>1, <1>6 DEF PlacesOfPeers
<1>8. \A i \in DOMAIN sessions : sessions[i] = c => i = id
  BY <1>1, <1>4, RegisteredOnce DEF IInv
<1>9. ASSUME NEW d \in Conns, d # c PROVE PlaceOf(d)' = PlaceOf(d)
  <2>1. \A q : InRoom(d, q) => InRoom(d, q)'
    BY <1>4, <1>5, <1>9 DEF InRoom, WithMember, WithoutMember
  <2>2. Registered(d)' => Registered(d)
    BY <1>5 DEF Registered
  <2> QED BY <1>1, <2>1, <2>2, PlaceKept
<1>10. SomeoneDisconnected \in Texts /\ SomeoneConnected \in Texts
  BY DEF Texts, Notices
<1>11. told \in [Conns -> Seq(Texts)]
  <2>1. IsFiniteSet(DOMAIN sessions) /\ IsFiniteSet(rs)
    <3>1. rs \in SUBSET {r}
      BY <1>5
    <3> QED BY <1>1, <3>1, IdsAssumption, FS_Singleton, FS_Subset DEF TypeOK, ChatTypeOK
  <2> QED BY <1>1, <1>5, <1>10, <2>1, SendMessageType
<1>12. ASSUME NEW d \in Conns
       PROVE  told[d] = IF d \in open /\ d # c /\ PlaceOf(d) = r
                        THEN WithText(mailbox[d], SomeoneDisconnected) ELSE mailbox[d]
  <2>1. PICK after : after = told[d] /\ after = SendMessage(mailbox, old, rs, SomeoneDisconnected, NoId)[d]
    BY <1>5
  <2> QED BY <1>1, <1>4, <1>5, <1>10, <2>1, SentToRoom
<1>13. ASSUME NEW d \in Conns
       PROVE  mailbox'[d] = IF d \in open /\ d # c /\ PlaceOf(d) = name
                            THEN WithText(told[d], SomeoneConnected) ELSE told[d]
  <2>1. PICK qs, after : /\ qs = {name} \cap DOMAIN rooms /\ after = mailbox'[d]
                         /\ after = SendMessage(told, old, qs, SomeoneConnected, id)[d]
    BY <1>5
  <2>2. old = WithoutMember(id) /\ id \in {id, NoId}
    BY <1>5
  <2>3. after = IF d \in open /\ d # c /\ PlaceOf(d) = name THEN WithText(told[d], SomeoneConnected)
                ELSE told[d]
    BY <1>4, <1>10, <1>11, <2>1, <2>2, SentToRoom
  <2> QED BY <2>1, <2>3
<1>14. ASSUME NEW d \in Conns
       PROVE  received[d] \o told[d] = IF d \in open /\ d # c /\ PlaceOf(d) = r
                                       THEN WithText(Feed(d), SomeoneDisconnected) ELSE Feed(d)
  <2>1. PICK x \in Seq(Texts), f \in Seq(Texts) : x = received[d] /\ f = mailbox[d]
    BY <1>1 DEF TypeOK, ChatTypeOK
  <2>2. x \o WithText(f, SomeoneDisconnected) = WithText(x \o f, SomeoneDisconnected)
    BY <1>10, FeedAppended DEF WithText
  <2> QED BY <1>12, <2>1, <2>2 DEF Feed
<1>15. ASSUME NEW d \in Conns
       PROVE  Feed(d)' = IF d \in open /\ d # c /\ PlaceOf(d) = name
                         THEN WithText(received[d] \o told[d], SomeoneConnected)
                         ELSE received[d] \o told[d]
  <2>1. PICK x \in Seq(Texts), f \in Seq(Texts) : x = received[d] /\ f = told[d]
    BY <1>1, <1>11 DEF TypeOK, ChatTypeOK
  <2>2. x \o WithText(f, SomeoneConnected) = WithText(x \o f, SomeoneConnected)
    BY <1>10, FeedAppended DEF WithText
  <2> QED BY <1>1, <1>13, <2>1, <2>2 DEF Feed
<1>16. Chat!Move(c, name)
  BY <1>1, <1>4, <1>7, <1>9, <1>14, <1>15
     DEF Chat!Move, Chat!Tell, Chat!Others, Chat!SomeoneDisconnected, SomeoneDisconnected,
         Chat!SomeoneConnected, SomeoneConnected, WithText
<1> QED BY <1>16

\* A request for the list, or the second Disconnect of a session: nothing is
\* seen of it.
LEMMA ServerHides ==
    ASSUME ChatInv, Server, \/ HandleListRooms
                            \/ HandleDisconnect /\ Head(inbox).id \notin DOMAIN sessions
    PROVE  UNCHANGED Chat!chatVars
<1>1. UNCHANGED <<sessions, rooms, mailbox, open, sid, received>>
  BY DEF Server, sessionVars, HandleListRooms, OnListRooms, HandleDisconnect, OnDisconnect,
         DisconnectRegistered, DisconnectUnknown, Consume
<1>2. \A d : PlaceOf(d)' = PlaceOf(d) /\ Feed(d)' = Feed(d)
  BY <1>1 DEF PlaceOf, Feed
<1> QED BY <1>1, <1>2 DEF Chat!chatVars

-----------------------------------------------------------------------------
(* The steps of the sessions *)

\* No session moves a peer: what it learns is where the server has it already.
LEMMA SessionPlaces ==
    ASSUME ChatInv, NEW c \in Conns, Peer(c) \/ Session(c), NEW d \in Conns
    PROVE  PlaceOf(d)' = PlaceOf(d)
<1>1. UNCHANGED <<sessions, rooms>> /\ sid \in [Conns -> Ids \cup {NoId}]
  BY SessionKeeps DEF ChatInv, IInv, TalkInv, TypeOK, ChatTypeOK
<1>2. Registered(d) => PlaceOf(d)' = PlaceOf(d)
  BY <1>1 DEF Registered, PlaceOf
<1>3. sid'[d] = sid[d] => PlaceOf(d)' = PlaceOf(d)
  BY <1>1 DEF PlaceOf
<1>4. CASE StoreId(c)
  <2>1. CASE d = c
    <3>1. reply[c].id \in DOMAIN sessions /\ sessions[reply[c].id] = c
      BY <1>4 DEF StoreId, ChatInv, IInv, TalkInv, IdsOwned
    <3> QED BY <1>2, <2>1, <3>1 DEF Registered
  <2>2. CASE d # c
    BY <1>1, <1>3, <1>4, <2>2 DEF StoreId
  <2> QED BY <2>1, <2>2
<1>5. CASE ~StoreId(c)
  <2>1. UNCHANGED sid
    BY <1>5, SessionSteps
       DEF Start, GiveUp, TcpJoin, Speak, TcpList, WriteRooms, SkipRooms, Deliver, DropPeer,
           StreamEnds, Stop
  <2> QED BY <1>3, <2>1
<1> QED BY <1>4, <1>5

\* A session starts: the connection is open.
LEMMA StartOpens ==
    ASSUME ChatInv, NEW c \in Conns, Peer(c) \/ Session(c), Start(c)
    PROVE  Chat!Open(c)
<1>1. \A d \in Conns : PlaceOf(d)' = PlaceOf(d) /\ Feed(d)' = Feed(d)
  BY SessionPlaces DEF Start, Feed
<1>2. c \notin open /\ open' = open \cup {c} /\ phase[c] = "absent"
  BY DEF Start, ChatInv, LiveMailboxes
<1>3. sid[c] = NoId /\ reply[c] = NoReply
  BY <1>2 DEF ChatInv, OrderInv, OneSession, IInv, TalkInv, RepliesMatch
<1>4. ~Registered(c)
  <2>1. \A id \in DOMAIN sessions : id # NoId /\ NoReply # IdReply(id)
    BY IdsAssumption DEF ChatInv, IInv, TalkInv, TypeOK, ChatTypeOK, IdReply, NoReply
  <2> QED BY <1>3, <2>1 DEF Registered, ChatInv, OrderInv, OneSession
<1>5. PlaceOf(c) = "outside"
  BY <1>3, <1>4, PlaceIsRoom DEF PlacesOfPeers
<1> QED BY <1>1, <1>2, <1>5 DEF Chat!Open

\* The beginning of a feed that has been written is what is left of it.
LEMMA WrittenIsBeginning ==
    ASSUME NEW r \in Seq(Texts), NEW f \in Seq(Texts)
    PROVE  /\ Len(r) \in 0..Len(r \o f)
           /\ SubSeq(r \o f, 1, Len(r)) = r
<1>1. /\ Len(r) \in Nat /\ Len(f) \in Nat /\ r \o f \in Seq(Texts)
      /\ Len(r \o f) = Len(r) + Len(f)
      /\ \A i \in 1..Len(r) + Len(f) : (r \o f)[i] = IF i <= Len(r) THEN r[i] ELSE f[i - Len(r)]
  BY ConcatProperties, LenProperties
<1>2. PICK g : g = r \o f
  OBVIOUS
<1>3. PICK n \in Nat : n = Len(r) /\ \A i \in 1..n : g[i] = r[i] /\ r[i] \in Texts
  BY <1>1, <1>2, ElementOfSeq
<1>4. /\ SubSeq(g, 1, n) \in Seq(Texts)
      /\ Len(SubSeq(g, 1, n)) = IF 1 <= n THEN n - 1 + 1 ELSE 0
      /\ \A i \in 1..(n - 1 + 1) : SubSeq(g, 1, n)[i] = g[1 + i - 1]
  BY <1>3, SubSeqProperties
<1>5. PICK h \in Seq(Texts) : /\ h = SubSeq(g, 1, n) /\ Len(h) = n
                              /\ \A i \in 1..n : h[i] = r[i]
  <2>1. Len(SubSeq(g, 1, n)) = n
    BY <1>4
  <2>2. ASSUME NEW i \in 1..n PROVE SubSeq(g, 1, n)[i] = r[i]
    <3>1. i \in 1..(n - 1 + 1) /\ 1 + i - 1 = i
      OBVIOUS
    <3> QED BY <1>3, <1>4, <3>1
  <2> QED BY <1>4, <2>1, <2>2
<1>6. h = r
  BY <1>3, <1>5, SeqEqual
<1> QED BY <1>1, <1>2, <1>3, <1>5, <1>6

\* A session ends: the peer hears no more, and what was in the mailbox is lost.
LEMMA StopHangs ==
    ASSUME ChatInv, NEW c \in Conns, Peer(c) \/ Session(c), Stop(c)
    PROVE  Chat!Hang(c)
<1>1. /\ received \in [Conns -> Seq(Texts)] /\ mailbox \in [Conns -> Seq(Texts)]
      /\ UNCHANGED received /\ mailbox' = [mailbox EXCEPT ![c] = <<>>]
      /\ phase[c] = "stopping" /\ open' = open \ {c}
  BY DEF Stop, ChatInv, IInv, TalkInv, TypeOK, ChatTypeOK
<1>2. c \in open
  BY <1>1 DEF ChatInv, LiveMailboxes
<1>3. \A d \in Conns : d # c => Feed(d)' = Feed(d)
  BY <1>1 DEF Feed
<1>4. PICK r \in Seq(Texts), f \in Seq(Texts) : r = received[c] /\ f = mailbox[c]
  BY <1>1
<1>5. Feed(c)' = r
  <2>1. r \o <<>> = r
    BY ConcatEmptySeq
  <2> QED BY <1>1, <1>4, <2>1 DEF Feed
<1>6. PICK k \in 0..Len(Feed(c)) : SubSeq(Feed(c), 1, k) = r
  BY <1>4, WrittenIsBeginning DEF Feed
<1>7. \A d \in Conns : PlaceOf(d)' = PlaceOf(d)
  BY SessionPlaces
<1>8. [d \in Conns |-> Feed(d)'] =
         [[d \in Conns |-> Feed(d)] EXCEPT ![c] = SubSeq(@, 1, k)]
  BY <1>3, <1>5, <1>6
<1> QED BY <1>1, <1>2, <1>6, <1>7, <1>8 DEF Chat!Hang

\* Whatever else a session does is not seen.
LEMMA SessionHides ==
    ASSUME ChatInv, NEW c \in Conns, Peer(c) \/ Session(c), ~Start(c), ~Stop(c)
    PROVE  UNCHANGED Chat!chatVars
<1>1. \A d \in Conns : PlaceOf(d)' = PlaceOf(d)
  BY SessionPlaces
<1>2. UNCHANGED open
  BY SessionSteps
     DEF StoreId, GiveUp, TcpJoin, Speak, TcpList, WriteRooms, SkipRooms, Deliver, DropPeer,
         StreamEnds
<1>3. CASE ~Deliver(c)
  <2>1. UNCHANGED <<received, mailbox>>
    BY <1>3, SessionSteps
       DEF StoreId, GiveUp, TcpJoin, Speak, TcpList, WriteRooms, SkipRooms, DropPeer, StreamEnds
  <2>2. \A d \in Conns : Feed(d)' = Feed(d)
    BY <2>1 DEF Feed
  <2> QED BY <1>1, <1>2, <2>2 DEF Chat!chatVars
<1>4. CASE Deliver(c)
  <2>1. /\ received \in [Conns -> Seq(Texts)] /\ mailbox \in [Conns -> Seq(Texts)]
        /\ mailbox[c] # <<>>
        /\ received' = [received EXCEPT ![c] = Append(@, Head(mailbox[c]))]
        /\ mailbox' = [mailbox EXCEPT ![c] = Tail(@)]
    BY <1>4 DEF Deliver, ChatInv, IInv, TalkInv, TypeOK, ChatTypeOK
  <2>2. Append(received[c], Head(mailbox[c])) \o Tail(mailbox[c]) = received[c] \o mailbox[c]
    BY <2>1, FeedDelivered
  <2>3. \A d \in Conns : Feed(d)' = Feed(d)
    BY <2>1, <2>2 DEF Feed
  <2> QED BY <1>1, <1>2, <2>3 DEF Chat!chatVars
<1> QED BY <1>3, <1>4

-----------------------------------------------------------------------------
(* Theorem: the refinement *)

LEMMA ChatInvStep == ASSUME ChatInv, IInv', [Next]_vars PROVE ChatInv'
BY RoomsStep, OrderStep, LiveMailboxesStep DEF ChatInv

THEOREM ChatInvariance == Spec => []ChatInv
BY InitChatInv, ChatInvStep, Invariance, PTL DEF Spec

LEMMA InitImplements == Init => Chat!Init
<1> SUFFICES ASSUME Init PROVE Chat!Init
  OBVIOUS
<1>1. \A c \in Conns : PlaceOf(c) = "outside"
  BY DEF Init, ServerInit, PlaceOf, ChatInit
<1>2. \A c \in Conns : Feed(c) = <<>>
  <2>1. <<>> \o <<>> = <<>>
    BY EmptySeq, ConcatEmptySeq
  <2> QED BY <2>1 DEF Init, Feed, ChatInit
<1> QED BY <1>1, <1>2 DEF Chat!Init, Init, ChatInit

\* Each step is a step of the chat, or is not seen.
LEMMA StepImplementsChat ==
    ASSUME ChatInv, ChatInv', [Next]_vars
    PROVE  [Chat!Next]_(Chat!chatVars)
<1>1. CASE Server
  BY <1>1, ConnectArrives, DisconnectLeaves, MessageSays, JoinMoves, ServerHides
     DEF Server, Serve, Chat!Next
<1>2. CASE Failure \/ UNCHANGED vars
  <2>1. UNCHANGED <<sessions, rooms, mailbox, open, sid, received>>
    BY <1>2 DEF Failure, ServerFails, sessionVars, vars
  <2>2. \A d : PlaceOf(d)' = PlaceOf(d) /\ Feed(d)' = Feed(d)
    BY <2>1 DEF PlaceOf, Feed
  <2> QED BY <2>1, <2>2 DEF Chat!chatVars
<1>3. ASSUME NEW c \in Conns, Peer(c) \/ Session(c) PROVE [Chat!Next]_(Chat!chatVars)
  BY <1>3, StartOpens, StopHangs, SessionHides DEF Chat!Next
<1> QED BY <1>1, <1>2, <1>3 DEF Next

\* The chat of two mailboxes, replies and repeated Disconnects, with a server
\* that may die, looks like the chat in which every request takes effect at
\* one instant (server.rs, session.rs and main.rs of actor_ws_tcp_chat).
THEOREM ActorsImplementChat == Spec => ImplementsRoomChat
BY InitImplements, StepImplementsChat, ChatInvariance, PTL DEF Spec, ImplementsRoomChat, Chat!Spec

===============================================================================
