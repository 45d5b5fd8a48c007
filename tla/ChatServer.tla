------------------------------ MODULE ChatServer ------------------------------
(***************************************************************************)
(* The ChatServer actor of actor_ws_tcp_chat/src/server.rs: the registry   *)
(* of sessions and rooms, its single mailbox, and one action per message   *)
(* it handles.  An actor handles one message at a time, to the end, in     *)
(* the order of its mailbox, so each handler is one action that consumes   *)
(* Head(inbox).                                                            *)
(*                                                                         *)
(* The session actors it serves are the values Conns: a connection names   *)
(* the session actor created for it, and the Recipient that the session    *)
(* registers.                                                              *)
(***************************************************************************)
EXTENDS Naturals, Sequences, FiniteSets

CONSTANTS
    TcpConns,      \* connections accepted by TcpServer (session.rs)
    WsConns,       \* connections accepted by the websocket route (main.rs)
    Rooms,         \* room names that are ever used
    Main,          \* the room every session starts in
    Ids,           \* values rng.gen::<usize>() may return
    NoId,          \* the literal 0: a session not yet registered, "skip nobody"
    MaxRequests    \* bound: requests the peers make, in all

Conns == TcpConns \cup WsConns

ASSUME ConnsAssumption == TcpConns \cap WsConns = {}
ASSUME RoomsAssumption == Main \in Rooms /\ IsFiniteSet(Rooms)
\* A 64-bit random id is never 0 and (see issued) never repeats.
ASSUME IdsAssumption == NoId \notin Ids /\ IsFiniteSet(Ids)
ASSUME RequestsAssumption == MaxRequests \in Nat

VARIABLES
    sessions,      \* registered id -> the session's Recipient
    rooms,         \* room name -> ids of its members
    issued,        \* every id handed out so far
    serverUp,      \* the server's arbiter thread is alive
    inbox,         \* the server's mailbox
    open,          \* connections whose session actor has a live mailbox
    mailbox,       \* per connection: texts posted to its session actor
    reply          \* per connection: the resolved reply of a pending send()

serverVars == <<sessions, rooms, issued, serverUp, inbox, open, mailbox, reply>>

-----------------------------------------------------------------------------
(* Messages *)

\* The texts that reach peers.  A peer's own text is told apart by who sent
\* it and by its number; the server's three notices are constants.
Said(c, n) == [what |-> "Said", from |-> c, n |-> n]
SomeoneJoined == [what |-> "SomeoneJoined"]
SomeoneConnected == [what |-> "SomeoneConnected"]
SomeoneDisconnected == [what |-> "SomeoneDisconnected"]

SaidTexts == [what : {"Said"}, from : Conns, n : 1..MaxRequests]
Notices == {SomeoneJoined, SomeoneConnected, SomeoneDisconnected}
Texts == SaidTexts \cup Notices

Connect(c) == [type |-> "Connect", conn |-> c]
Disconnect(id) == [type |-> "Disconnect", id |-> id]
Message(id, text, room) ==
    [type |-> "Message", id |-> id, text |-> text, room |-> room]
ListRooms(c) == [type |-> "ListRooms", conn |-> c]
Join(id, name) == [type |-> "Join", id |-> id, name |-> name]

Messages ==
    [type : {"Connect"}, conn : Conns]
        \cup [type : {"Disconnect"}, id : Ids \cup {NoId}]
        \cup [type : {"Message"}, id : Ids, text : SaidTexts, room : Rooms]
        \cup [type : {"ListRooms"}, conn : Conns]
        \cup [type : {"Join"}, id : Ids, name : Rooms]

NoReply == [type |-> "None"]
IdReply(id) == [type |-> "Id", id |-> id]
RoomsReply(names) == [type |-> "Rooms", names |-> names]

Replies ==
    {NoReply} \cup [type : {"Id"}, id : Ids]
              \cup [type : {"Rooms"}, names : SUBSET Rooms]

-----------------------------------------------------------------------------
ServerInit ==
    /\ sessions = [id \in {} |-> Main]
    /\ rooms = [r \in {Main} |-> {}]
    /\ issued = {}
    /\ serverUp = TRUE
    /\ inbox = <<>>

\* Variant: skip_id is ignored.
CopiesToAll(c, ms, rs, skip) ==
    Cardinality({m \in rs \X DOMAIN sessions : m[2] \in ms[m[1]] /\ sessions[m[2]] = c})

\* How many memberships <<room, id>> of the rooms rs, skip left out, belong to
\* recipient c: send_message makes one do_send for each of them.
Copies(c, ms, rs, skip) ==
    Cardinality({m \in rs \X (DOMAIN sessions \ {skip}) :
                    m[2] \in ms[m[1]] /\ sessions[m[2]] = c})

\* Variant: what is said waits behind what the same peer said before, and in front of
\* all the rest.
SendMessageBySender(box, ms, rs, text, skip) ==
    [c \in Conns |->
        LET own == {i \in DOMAIN box[c] : text.what = "Said" /\ box[c][i].what = "Said"
                                            /\ box[c][i].from = text.from}
            k == CHOOSE n \in own \cup {0} : \A i \in own : i <= n
        IN  IF c \in open
            THEN SubSeq(box[c], 1, k) \o [i \in 1..Copies(c, ms, rs, skip) |-> text]
                     \o SubSeq(box[c], k + 1, Len(box[c]))
            ELSE box[c]]

\* Variant: a recipient that has something in its mailbox is skipped.
SendMessageIdle(box, ms, rs, text, skip) ==
    [c \in Conns |->
        IF c \in open /\ box[c] = <<>>
        THEN [i \in 1..Copies(c, ms, rs, skip) |-> text]
        ELSE box[c]]

\* send_message for each room of rs, whose members are ms[r].  do_send to a
\* recipient whose actor has stopped is an error that is ignored.
SendMessage(box, ms, rs, text, skip) ==
    [c \in Conns |->
        IF c \in open
        THEN box[c] \o [i \in 1..Copies(c, ms, rs, skip) |-> text]
        ELSE box[c]]

\* The rooms id is taken out of, and the room map without it.
RoomsOf(id) == {r \in DOMAIN rooms : id \in rooms[r]}
\* Variant: the rooms keep the member.
WithoutMemberKept(id) == rooms
WithoutMember(id) == [r \in DOMAIN rooms |-> rooms[r] \ {id}]

\* Insert id in room name, which is created when it does not exist.
WithMember(ms, id, name) ==
    [r \in DOMAIN ms \cup {name} |->
        (IF r \in DOMAIN ms THEN ms[r] ELSE {})
            \cup (IF r = name THEN {id} ELSE {})]

Register(id, c) ==
    [i \in DOMAIN sessions \cup {id} |-> IF i = id THEN c ELSE sessions[i]]
Unregister(id) == [i \in DOMAIN sessions \ {id} |-> sessions[i]]

-----------------------------------------------------------------------------
(* Handlers: what each message does to the registry and the mailboxes.     *)
(* Handle consumes the message from the head of the mailbox.               *)

\* Variant: the newcomer is registered first, and told of itself.
OnConnectThenTell(c) ==
    \E id \in Ids \ issued :
        /\ mailbox' = [SendMessage(mailbox, rooms, {Main}, SomeoneJoined, NoId)
                          EXCEPT ![c] = Append(@, SomeoneJoined)]
        /\ sessions' = Register(id, c)
        /\ rooms' = WithMember(rooms, id, Main)
        /\ issued' = issued \cup {id}
        /\ reply' = [reply EXCEPT ![c] = IdReply(id)]

\* The members of Main are told before the newcomer is registered, so the
\* newcomer is not told of itself.
OnConnect(c) ==
    \E id \in Ids \ issued :
        /\ mailbox' = SendMessage(mailbox, rooms, {Main}, SomeoneJoined, NoId)
        /\ sessions' = Register(id, c)
        /\ rooms' = WithMember(rooms, id, Main)
        /\ issued' = issued \cup {id}
        /\ reply' = [reply EXCEPT ![c] = IdReply(id)]

\* Variant: the rooms are not cleaned up.
DisconnectSessionOnly(id) ==
    /\ id \in DOMAIN sessions
    /\ sessions' = Unregister(id)
    /\ UNCHANGED <<rooms, mailbox, issued, reply>>

\* Only the first Disconnect of an id finds it registered; a later one, or
\* the Disconnect of a session that never got an id, changes nothing.
DisconnectRegistered(id) ==
    /\ id \in DOMAIN sessions
    /\ sessions' = Unregister(id)
    /\ rooms' = WithoutMember(id)
    /\ mailbox' = SendMessage(mailbox, WithoutMember(id), RoomsOf(id),
                              SomeoneDisconnected, NoId)
    /\ UNCHANGED <<issued, reply>>

DisconnectUnknown(id) ==
    /\ id \notin DOMAIN sessions
    /\ UNCHANGED <<sessions, rooms, mailbox, issued, reply>>

OnDisconnect(id) == DisconnectRegistered(id) \/ DisconnectUnknown(id)

\* The text goes to the room the message names, if that room exists.
OnMessage(id, text, room) ==
    /\ mailbox' = SendMessage(mailbox, rooms, {room} \cap DOMAIN rooms, text, id)
    /\ UNCHANGED <<sessions, rooms, issued, reply>>

\* Variant: empty rooms are not listed.
OnListRoomsNonEmpty(c) ==
    /\ reply' = [reply EXCEPT ![c] = RoomsReply({r \in DOMAIN rooms : rooms[r] # {}})]
    /\ UNCHANGED <<sessions, rooms, mailbox, issued>>

OnListRooms(c) ==
    /\ reply' = [reply EXCEPT ![c] = RoomsReply(DOMAIN rooms)]
    /\ UNCHANGED <<sessions, rooms, mailbox, issued>>

\* Out of every room, with a notice to who stays there; then a notice to the
\* members of the new room, and in.
OnJoin(id, name) ==
    LET old == WithoutMember(id)
        told == SendMessage(mailbox, old, RoomsOf(id), SomeoneDisconnected, NoId)
    IN  /\ mailbox' = SendMessage(told, old, {name} \cap DOMAIN old,
                                  SomeoneConnected, id)
        /\ rooms' = WithMember(old, id, name)
        /\ UNCHANGED <<sessions, issued, reply>>

Consume(type) ==
    /\ inbox # <<>>
    /\ Head(inbox).type = type
    /\ inbox' = Tail(inbox)
    /\ UNCHANGED <<serverUp, open>>

HandleConnect == Consume("Connect") /\ OnConnect(Head(inbox).conn)
HandleDisconnect == Consume("Disconnect") /\ OnDisconnect(Head(inbox).id)
HandleMessage ==
    /\ Consume("Message")
    /\ OnMessage(Head(inbox).id, Head(inbox).text, Head(inbox).room)
HandleListRooms == Consume("ListRooms") /\ OnListRooms(Head(inbox).conn)
HandleJoin == Consume("Join") /\ OnJoin(Head(inbox).id, Head(inbox).name)

Serve ==
    \/ HandleConnect
    \/ HandleDisconnect
    \/ HandleMessage
    \/ HandleListRooms
    \/ HandleJoin

\* The server's thread dies (a panic inside a handler unwinds its arbiter).
\* What is in its mailbox is dropped; replies it already gave still arrive.
ServerFails ==
    /\ serverUp
    /\ serverUp' = FALSE
    /\ inbox' = <<>>
    /\ UNCHANGED <<sessions, rooms, issued, open, mailbox, reply>>

=============================================================================
