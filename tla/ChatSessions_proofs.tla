--------------------------- MODULE ChatSessions_proofs ---------------------------
(***************************************************************************)
(* Lemmas about ChatSessions: what the handlers of the server, and what a   *)
(* session posts to it, do to the invariants of the conversation.  They are *)
(* about single steps; ActorChat_proofs and ConsoleChat_proofs show that    *)
(* the steps of their chats are such steps.                                 *)
(***************************************************************************)
EXTENDS ChatSessions, FiniteSetTheorems, SequenceTheorems, TLAPS

\* The server handles a message; the sessions do nothing.
ServerStep == Serve /\ UNCHANGED <<phase, sid, room>>

-----------------------------------------------------------------------------
(* Lemmas about the operators of the handlers *)

\* Texts stay texts whatever is sent to whom.
LEMMA SendMessageType ==
    ASSUME NEW box \in [Conns -> Seq(Texts)],
           NEW ms, NEW rs, IsFiniteSet(rs), IsFiniteSet(DOMAIN sessions),
           NEW text \in Texts, NEW skip
    PROVE  SendMessage(box, ms, rs, text, skip) \in [Conns -> Seq(Texts)]
<1>1. ASSUME NEW c \in Conns PROVE Copies(c, ms, rs, skip) \in Nat
  <2>1. IsFiniteSet(DOMAIN sessions \ {skip})
    BY FS_Subset
  <2>2. IsFiniteSet(rs \X (DOMAIN sessions \ {skip}))
    BY <2>1, FS_Product
  <2>3. {p \in rs \X (DOMAIN sessions \ {skip}) : p[2] \in ms[p[1]] /\ sessions[p[2]] = c}
           \in SUBSET (rs \X (DOMAIN sessions \ {skip}))
    OBVIOUS
  <2> QED BY <2>2, <2>3, FS_Subset, FS_CardinalityType DEF Copies
<1>2. ASSUME NEW c \in Conns
      PROVE  box[c] \o [i \in 1..Copies(c, ms, rs, skip) |-> text] \in Seq(Texts)
  <2>1. [i \in 1..Copies(c, ms, rs, skip) |-> text] \in Seq(Texts)
    BY <1>1, SeqDef
  <2> QED BY <2>1, ConcatProperties
<1> QED BY <1>2 DEF SendMessage

\* Taking the head of the mailbox moves every other message one place ahead.
LEMMA ConsumeShifts ==
    ASSUME inbox \in Seq(Messages), NEW type, Consume(type)
    PROVE  /\ 1 \in DOMAIN inbox
           /\ inbox[1] = Head(inbox)
           /\ Head(inbox) \in Messages
           /\ Head(inbox).type = type
           /\ inbox' \in Seq(Messages)
           /\ \A i \in DOMAIN inbox' :
                 i \in Nat \ {0} /\ i + 1 \in DOMAIN inbox /\ inbox'[i] = inbox[i + 1]
<1> USE DEF Consume
<1>1. inbox # <<>> OBVIOUS
<1>2. Len(inbox) \in Nat \ {0} /\ DOMAIN inbox = 1..Len(inbox)
  BY <1>1, EmptySeq, LenProperties
<1>3. Head(inbox) \in Messages /\ Tail(inbox) \in Seq(Messages)
      /\ Len(Tail(inbox)) = Len(inbox) - 1
      /\ \A i \in 1..Len(Tail(inbox)) : Tail(inbox)[i] = inbox[i + 1]
  BY <1>1, HeadTailProperties
<1>4. DOMAIN Tail(inbox) = 1..Len(Tail(inbox))
  BY <1>3, LenProperties
<1>5. Head(inbox) = inbox[1]
  BY <1>1
<1> QED BY <1>2, <1>3, <1>4, <1>5

\* Posting keeps every message in its place and adds at most the new one.
LEMMA PostAdds ==
    ASSUME inbox \in Seq(Messages), NEW m \in Messages, Post(m)
    PROVE  /\ inbox' \in Seq(Messages)
           /\ DOMAIN inbox \subseteq Nat
           /\ \A i \in DOMAIN inbox' :
                 \/ i \in DOMAIN inbox /\ inbox'[i] = inbox[i]
                 \/ /\ i \in Nat /\ i \notin DOMAIN inbox
                    /\ \A j \in DOMAIN inbox : j < i
                    /\ inbox'[i] = m
           /\ \A i, j \in DOMAIN inbox' :
                 i \notin DOMAIN inbox /\ j \notin DOMAIN inbox => i = j
<1>1. DOMAIN inbox = 1..Len(inbox) /\ Len(inbox) \in Nat
  BY LenProperties
<1>2. CASE ~serverUp
  BY <1>1, <1>2 DEF Post
<1>3. CASE serverUp
  <2>1. inbox' = Append(inbox, m)
    BY <1>3 DEF Post
  <2>2. /\ inbox' \in Seq(Messages)
        /\ Len(inbox') = Len(inbox) + 1
        /\ \A i \in 1..Len(inbox) : inbox'[i] = inbox[i]
        /\ inbox'[Len(inbox) + 1] = m
    BY <2>1, AppendProperties
  <2>3. DOMAIN inbox' = 1..(Len(inbox) + 1)
    BY <2>2, LenProperties
  <2> QED BY <1>1, <2>2, <2>3
<1> QED BY <1>2, <1>3

\* What the type of a message says of the rest of it.
LEMMA MessageKinds ==
    ASSUME NEW m \in Messages
    PROVE  /\ m.type \in {"Connect", "ListRooms"} => m.conn \in Conns
           /\ m.type \in {"Join", "Message"} => m.id \in Ids
           /\ m.type = "Disconnect" => m.id \in Ids \cup {NoId}
BY DEF Messages

-----------------------------------------------------------------------------
(* Type correctness *)

LEMMA OnConnectType ==
    ASSUME ChatTypeOK, NEW c \in Conns, OnConnect(c)
    PROVE  /\ DOMAIN sessions' \subseteq Ids /\ sessions' \in [DOMAIN sessions' -> Conns]
           /\ DOMAIN rooms' \subseteq Rooms /\ Main \in DOMAIN rooms'
           /\ rooms' \in [DOMAIN rooms' -> SUBSET Ids]
           /\ issued' \subseteq Ids
           /\ mailbox' \in [Conns -> Seq(Texts)]
           /\ reply' \in [Conns -> Replies]
<1> USE DEF ChatTypeOK
<1>1. IsFiniteSet(DOMAIN sessions) /\ IsFiniteSet({Main})
  BY IdsAssumption, FS_Subset, FS_Singleton
<1>2. PICK id \in Ids \ issued :
        /\ mailbox' = SendMessage(mailbox, rooms, {Main}, SomeoneJoined, NoId)
        /\ sessions' = Register(id, c)
        /\ rooms' = WithMember(rooms, id, Main)
        /\ issued' = issued \cup {id}
        /\ reply' = [reply EXCEPT ![c] = IdReply(id)]
  BY DEF OnConnect
<1>3. SomeoneJoined \in Texts
  BY DEF Texts, Notices
<1>4. mailbox' \in [Conns -> Seq(Texts)]
  BY <1>1, <1>2, <1>3, SendMessageType
<1>5. DOMAIN sessions' \subseteq Ids /\ sessions' \in [DOMAIN sessions' -> Conns]
  BY <1>2 DEF Register
<1>6. /\ DOMAIN rooms' \subseteq Rooms /\ Main \in DOMAIN rooms'
      /\ rooms' \in [DOMAIN rooms' -> SUBSET Ids]
  BY <1>2, RoomsAssumption DEF WithMember
<1>7. IdReply(id) \in Replies
  BY <1>2 DEF IdReply, Replies
<1> QED BY <1>2, <1>4, <1>5, <1>6, <1>7

LEMMA OnDisconnectType ==
    ASSUME ChatTypeOK, NEW id, OnDisconnect(id)
    PROVE  /\ DOMAIN sessions' \subseteq Ids /\ sessions' \in [DOMAIN sessions' -> Conns]
           /\ DOMAIN rooms' \subseteq Rooms /\ Main \in DOMAIN rooms'
           /\ rooms' \in [DOMAIN rooms' -> SUBSET Ids]
           /\ mailbox' \in [Conns -> Seq(Texts)]
           /\ UNCHANGED <<issued, reply>>
<1> USE DEF ChatTypeOK
<1>1. CASE DisconnectUnknown(id)
  BY <1>1 DEF DisconnectUnknown
<1>2. CASE DisconnectRegistered(id)
  <2>1. IsFiniteSet(DOMAIN sessions) /\ IsFiniteSet(RoomsOf(id))
    <3>1. IsFiniteSet(DOMAIN rooms)
      BY RoomsAssumption, FS_Subset
    <3> QED BY <3>1, IdsAssumption, FS_Subset DEF RoomsOf
  <2>2. SomeoneDisconnected \in Texts
    BY DEF Texts, Notices
  <2>3. mailbox' \in [Conns -> Seq(Texts)]
    BY <1>2, <2>1, <2>2, SendMessageType DEF DisconnectRegistered
  <2> QED BY <1>2, <2>3 DEF DisconnectRegistered, Unregister, WithoutMember
<1> QED BY <1>1, <1>2 DEF OnDisconnect

LEMMA OnMessageType ==
    ASSUME ChatTypeOK, NEW id, NEW text \in SaidTexts, NEW r \in Rooms, OnMessage(id, text, r)
    PROVE  /\ mailbox' \in [Conns -> Seq(Texts)]
           /\ UNCHANGED <<sessions, rooms, issued, reply>>
<1>1. IsFiniteSet(DOMAIN sessions) /\ IsFiniteSet({r} \cap DOMAIN rooms)
  BY IdsAssumption, FS_Subset, FS_Singleton DEF ChatTypeOK
<1> QED BY <1>1, SendMessageType DEF OnMessage, ChatTypeOK, Texts

LEMMA OnListRoomsType ==
    ASSUME ChatTypeOK, NEW c \in Conns, OnListRooms(c)
    PROVE  /\ reply' \in [Conns -> Replies]
           /\ UNCHANGED <<sessions, rooms, mailbox, issued>>
<1>1. RoomsReply(DOMAIN rooms) \in Replies
  BY DEF ChatTypeOK, RoomsReply, Replies
<1> QED BY <1>1 DEF OnListRooms, ChatTypeOK

LEMMA OnJoinType ==
    ASSUME ChatTypeOK, NEW id \in Ids, NEW name \in Rooms, OnJoin(id, name)
    PROVE  /\ DOMAIN rooms' \subseteq Rooms /\ Main \in DOMAIN rooms'
           /\ rooms' \in [DOMAIN rooms' -> SUBSET Ids]
           /\ mailbox' \in [Conns -> Seq(Texts)]
           /\ UNCHANGED <<sessions, issued, reply>>
<1> USE DEF ChatTypeOK
<1> DEFINE old == WithoutMember(id)
           told == SendMessage(mailbox, old, RoomsOf(id), SomeoneDisconnected, NoId)
<1>1. IsFiniteSet(DOMAIN sessions) /\ IsFiniteSet(RoomsOf(id))
      /\ IsFiniteSet({name} \cap DOMAIN old)
  <2>1. IsFiniteSet(DOMAIN rooms)
    BY RoomsAssumption, FS_Subset
  <2>2. IsFiniteSet({name} \cap DOMAIN old)
    BY FS_Singleton, FS_Subset
  <2> QED BY <2>1, <2>2, IdsAssumption, FS_Subset DEF RoomsOf
<1>2. SomeoneDisconnected \in Texts /\ SomeoneConnected \in Texts
  BY DEF Texts, Notices
<1>3. told \in [Conns -> Seq(Texts)]
  BY <1>1, <1>2, SendMessageType
<1>4. mailbox' = SendMessage(told, old, {name} \cap DOMAIN old, SomeoneConnected, id)
  BY DEF OnJoin
<1>5. mailbox' \in [Conns -> Seq(Texts)]
  <2> HIDE DEF told, old
  <2> QED BY <1>1, <1>2, <1>3, <1>4, SendMessageType
<1>6. rooms' = WithMember(old, id, name) /\ UNCHANGED <<sessions, issued, reply>>
  BY DEF OnJoin
<1>7. /\ DOMAIN rooms' \subseteq Rooms /\ Main \in DOMAIN rooms'
      /\ rooms' \in [DOMAIN rooms' -> SUBSET Ids]
  BY <1>6 DEF WithMember, WithoutMember
<1> QED BY <1>5, <1>6, <1>7

\* The handlers keep the types.
LEMMA ServerType == ASSUME ChatTypeOK, ServerStep PROVE ChatTypeOK'
<1>1. inbox \in Seq(Messages) /\ open \subseteq Conns /\ serverUp \in BOOLEAN
  BY DEF ChatTypeOK
<1>2. UNCHANGED <<phase, sid, room>> /\ Serve
  BY DEF ServerStep
<1>3. CASE HandleConnect
  <2>1. inbox' \in Seq(Messages) /\ Head(inbox).conn \in Conns
        /\ UNCHANGED <<serverUp, open>>
    BY <1>1, <1>3, ConsumeShifts DEF HandleConnect, Messages, Consume
  <2> QED BY <1>1, <1>2, <1>3, <2>1, OnConnectType DEF HandleConnect, ChatTypeOK
<1>4. CASE HandleDisconnect
  <2>1. inbox' \in Seq(Messages) /\ UNCHANGED <<serverUp, open>>
    BY <1>1, <1>4, ConsumeShifts DEF HandleDisconnect, Consume
  <2> QED BY <1>1, <1>2, <1>4, <2>1, OnDisconnectType
          DEF HandleDisconnect, ChatTypeOK
<1>5. CASE HandleMessage
  <2>1. inbox' \in Seq(Messages) /\ UNCHANGED <<serverUp, open>>
        /\ Head(inbox).text \in SaidTexts /\ Head(inbox).room \in Rooms
    BY <1>1, <1>5, ConsumeShifts DEF HandleMessage, Messages, Consume
  <2> QED BY <1>1, <1>2, <1>5, <2>1, OnMessageType DEF HandleMessage, ChatTypeOK
<1>6. CASE HandleListRooms
  <2>1. inbox' \in Seq(Messages) /\ Head(inbox).conn \in Conns
        /\ UNCHANGED <<serverUp, open>>
    BY <1>1, <1>6, ConsumeShifts DEF HandleListRooms, Messages, Consume
  <2> QED BY <1>1, <1>2, <1>6, <2>1, OnListRoomsType DEF HandleListRooms, ChatTypeOK
<1>7. CASE HandleJoin
  <2>1. inbox' \in Seq(Messages) /\ UNCHANGED <<serverUp, open>>
        /\ Head(inbox).id \in Ids /\ Head(inbox).name \in Rooms
    BY <1>1, <1>7, ConsumeShifts DEF HandleJoin, Messages, Consume
  <2> QED BY <1>1, <1>2, <1>7, <2>1, OnJoinType DEF HandleJoin, ChatTypeOK
<1> QED BY <1>2, <1>3, <1>4, <1>5, <1>6, <1>7 DEF Serve

\* The messages sessions post.
LEMMA PostedMessages ==
    ASSUME ChatTypeOK, NEW c \in Conns
    PROVE  /\ Connect(c) \in Messages
           /\ ListRooms(c) \in Messages
           /\ Disconnect(sid[c]) \in Messages
           /\ \A r \in Rooms : sid[c] \in Ids => Join(sid[c], r) \in Messages
           /\ \A n \in 1..MaxRequests :
                 sid[c] \in Ids => Message(sid[c], Said(c, n), room[c]) \in Messages
<1>1. \A n \in 1..MaxRequests : Said(c, n) \in SaidTexts
  BY DEF Said, SaidTexts
<1> QED BY <1>1 DEF ChatTypeOK, Messages, Connect, ListRooms, Disconnect, Join, Message

\* What the type of a reply says of the rest of it.
LEMMA ReplyKinds ==
    ASSUME NEW r \in Replies
    PROVE  /\ r.type = "Id" => r.id \in Ids
           /\ r.type = "Rooms" => r.names \in SUBSET Rooms
<1>1. CASE r = NoReply
  <2>1. r.type = "None"
    BY <1>1 DEF NoReply
  <2> QED BY <2>1
<1>2. CASE r \in [type : {"Id"}, id : Ids]
  BY <1>2
<1>3. CASE r \in [type : {"Rooms"}, names : SUBSET Rooms]
  BY <1>3
<1> QED BY <1>1, <1>2, <1>3 DEF Replies

\* A session that handles events has an id of its own.
HasId == \A c \in Conns : phase[c] \in {"running", "listing"} => sid[c] \in Ids

-----------------------------------------------------------------------------
(* What the registry, the replies and the mailbox look like after a message  *)
(* is handled                                                               *)

\* The parts of the inductive invariant besides the types and the rooms.
Talk == RepliesMatch /\ IdsOwned /\ OneQuestion /\ DisconnectIsLast

LEMMA IdsHeld == ASSUME ChatTypeOK, IdsOwned PROVE HasId
BY IdsAssumption DEF ChatTypeOK, IdsOwned, HasId

LEMMA InitTalk == ChatInit => TalkInv
<1> SUFFICES ASSUME ChatInit PROVE TalkInv
  OBVIOUS
<1>1. ChatTypeOK
  BY RoomsAssumption DEF ChatInit, ServerInit, ChatTypeOK, Replies, NoReply, Phases
<1>2. RoomMembersRegistered
  BY DEF ChatInit, ServerInit, RoomMembersRegistered
<1>3. inbox = <<>> /\ DOMAIN inbox = {}
  BY DEF ChatInit, ServerInit
<1>4. RepliesMatch /\ IdsOwned
  BY IdsAssumption DEF ChatInit, ServerInit, RepliesMatch, IdsOwned, NoReply
<1>5. OneQuestion /\ DisconnectIsLast
  BY <1>3 DEF OneQuestion, DisconnectIsLast
<1> QED BY <1>1, <1>2, <1>4, <1>5 DEF TalkInv

\* Rooms hold registered ids only.
LEMMA ServerRooms == ASSUME TalkInv, ServerStep PROVE RoomMembersRegistered'
<1> USE DEF RoomMembersRegistered
<1>1. inbox \in Seq(Messages)
  BY DEF TalkInv, ChatTypeOK
<1>2. CASE HandleConnect
  BY <1>2 DEF HandleConnect, OnConnect, Register, WithMember, TalkInv, ChatTypeOK
<1>3. CASE HandleDisconnect
  BY <1>3 DEF HandleDisconnect, OnDisconnect, DisconnectRegistered, DisconnectUnknown,
              Unregister, WithoutMember, TalkInv, ChatTypeOK
<1>4. CASE HandleMessage \/ HandleListRooms
  BY <1>4 DEF HandleMessage, OnMessage, HandleListRooms, OnListRooms, TalkInv
<1>5. CASE HandleJoin
  <2>1. Head(inbox).id \in DOMAIN sessions
    BY <1>1, <1>5, ConsumeShifts DEF HandleJoin, TalkInv, DisconnectIsLast
  <2> QED BY <1>5, <2>1 DEF HandleJoin, OnJoin, WithMember, WithoutMember, TalkInv
<1> QED BY <1>2, <1>3, <1>4, <1>5 DEF ServerStep, Serve

\* The mailbox without its head.
Shifted ==
    /\ inbox # <<>>
    /\ \A i \in DOMAIN inbox' :
          i \in Nat \ {0} /\ i + 1 \in DOMAIN inbox /\ inbox'[i] = inbox[i + 1]

\* A message that leaves the mailbox takes nothing with it that the others
\* rely on.
LEMMA ShiftedQuestions ==
    ASSUME OneQuestion, Shifted, UNCHANGED <<phase, serverUp>>,
           \A i \in DOMAIN inbox' :
              inbox'[i].type \in {"Connect", "ListRooms"} =>
                 reply'[inbox'[i].conn] = reply[inbox'[i].conn]
    PROVE  OneQuestion'
<1>1. serverUp'
  BY DEF OneQuestion, Shifted
<1> SUFFICES ASSUME NEW i \in DOMAIN inbox', inbox'[i].type \in {"Connect", "ListRooms"}
             PROVE  /\ phase'[inbox'[i].conn] =
                          IF inbox'[i].type = "Connect" THEN "connecting" ELSE "listing"
                    /\ reply'[inbox'[i].conn] = NoReply
                    /\ \A j \in DOMAIN inbox' :
                          inbox'[j].type \in {"Connect", "ListRooms"}
                             /\ inbox'[j].conn = inbox'[i].conn => i = j
  BY <1>1 DEF OneQuestion
<1>2. i + 1 \in DOMAIN inbox /\ inbox'[i] = inbox[i + 1] /\ i \in Nat
  BY DEF Shifted
<1>3. ASSUME NEW j \in DOMAIN inbox', inbox'[j].type \in {"Connect", "ListRooms"},
             inbox'[j].conn = inbox'[i].conn
      PROVE  i = j
  <2>1. j + 1 \in DOMAIN inbox /\ inbox'[j] = inbox[j + 1] /\ j \in Nat
    BY DEF Shifted
  <2>2. i + 1 = j + 1
    BY <1>2, <1>3, <2>1 DEF OneQuestion
  <2> QED BY <1>2, <2>1, <2>2
<1> QED BY <1>2, <1>3 DEF OneQuestion

LEMMA ShiftedDisconnects ==
    ASSUME DisconnectIsLast, Shifted, UNCHANGED <<phase, sid>>, issued \subseteq issued',
           \A d \in Conns : reply'[d].type = "Id" =>
              \/ reply'[d] = reply[d]
              \/ reply'[d].id \notin issued \cup {NoId},
           \A i \in DOMAIN inbox' :
              inbox'[i].type \in {"Join", "Message"} => inbox'[i].id \in DOMAIN sessions'
    PROVE  DisconnectIsLast'
<1> SUFFICES ASSUME NEW i \in DOMAIN inbox' PROVE
        /\ inbox'[i].type = "Disconnect" =>
              /\ inbox'[i].id \in issued' \cup {NoId}
              /\ \A c \in Conns :
                    /\ phase'[c] \in {"running", "listing"} => sid'[c] # inbox'[i].id
                    /\ reply'[c].type = "Id" => reply'[c].id # inbox'[i].id
        /\ inbox'[i].type \in {"Join", "Message"} =>
              \A j \in DOMAIN inbox' :
                 j < i /\ inbox'[j].type = "Disconnect" => inbox'[j].id # inbox'[i].id
  BY DEF DisconnectIsLast
<1>1. i + 1 \in DOMAIN inbox /\ inbox'[i] = inbox[i + 1] /\ i \in Nat
  BY DEF Shifted
<1>2. \A j \in DOMAIN inbox' :
         j + 1 \in DOMAIN inbox /\ inbox'[j] = inbox[j + 1] /\ (j < i => j + 1 < i + 1)
  BY <1>1 DEF Shifted
<1>3. inbox'[i].type = "Disconnect" =>
         /\ inbox'[i].id \in issued' \cup {NoId}
         /\ \A c \in Conns :
               /\ phase'[c] \in {"running", "listing"} => sid'[c] # inbox'[i].id
               /\ reply'[c].type = "Id" => reply'[c].id # inbox'[i].id
  BY <1>1 DEF DisconnectIsLast
<1>4. inbox'[i].type \in {"Join", "Message"} =>
         \A j \in DOMAIN inbox' :
            j < i /\ inbox'[j].type = "Disconnect" => inbox'[j].id # inbox'[i].id
  BY <1>1, <1>2 DEF DisconnectIsLast
<1> QED BY <1>3, <1>4

LEMMA HandleConnectTalk == ASSUME TalkInv, ServerStep, HandleConnect PROVE Talk'
<1> DEFINE c == Head(inbox).conn
<1>1. /\ inbox \in Seq(Messages) /\ ChatTypeOK /\ UNCHANGED <<phase, sid, serverUp>>
  BY DEF TalkInv, ChatTypeOK, ServerStep, HandleConnect, Consume
<1>2. /\ 1 \in DOMAIN inbox /\ inbox[1].type = "Connect" /\ inbox[1].conn = c
      /\ c \in Conns /\ inbox # <<>>
      /\ \A i \in DOMAIN inbox' :
            i \in Nat \ {0} /\ i + 1 \in DOMAIN inbox /\ inbox'[i] = inbox[i + 1]
  BY <1>1, ConsumeShifts DEF HandleConnect, Messages, Consume
<1>3. phase[c] = "connecting" /\ reply[c] = NoReply
  BY <1>2 DEF TalkInv, OneQuestion
<1>4. PICK id \in Ids \ issued :
        /\ sessions' = Register(id, c)
        /\ issued' = issued \cup {id}
        /\ reply' = [reply EXCEPT ![c] = IdReply(id)]
  BY DEF HandleConnect, OnConnect
<1>5. RepliesMatch'
  BY <1>1, <1>3, <1>4 DEF TalkInv, RepliesMatch, IdReply, ChatTypeOK
<1>6. IdsOwned'
  BY <1>1, <1>2, <1>4, IdsAssumption DEF TalkInv, IdsOwned, Register, IdReply, ChatTypeOK
<1>7. OneQuestion'
  <2>1. \A i \in DOMAIN inbox' :
           inbox'[i].type \in {"Connect", "ListRooms"} =>
              inbox'[i].conn # c /\ inbox'[i].conn \in Conns
    BY <1>1, <1>2, ElementOfSeq, LenProperties, MessageKinds DEF TalkInv, OneQuestion
  <2> QED BY <1>1, <1>2, <1>4, <2>1, ShiftedQuestions DEF TalkInv, Shifted, ChatTypeOK
<1>8. DisconnectIsLast'
  <2>1. \A d \in Conns : reply'[d] = reply[d] \/ reply'[d].id \notin issued \cup {NoId}
    BY <1>1, <1>4, IdsAssumption DEF IdReply, ChatTypeOK
  <2>2. \A i \in DOMAIN inbox' :
           inbox'[i].type \in {"Join", "Message"} => inbox'[i].id \in DOMAIN sessions'
    BY <1>2, <1>4 DEF TalkInv, DisconnectIsLast, Register
  <2> QED BY <1>1, <1>2, <1>4, <2>1, <2>2, ShiftedDisconnects DEF TalkInv, Shifted
<1> QED BY <1>5, <1>6, <1>7, <1>8 DEF Talk

LEMMA HandleDisconnectTalk == ASSUME TalkInv, ServerStep, HandleDisconnect PROVE Talk'
<1> DEFINE id == Head(inbox).id
<1>1. /\ inbox \in Seq(Messages) /\ ChatTypeOK
      /\ UNCHANGED <<phase, sid, serverUp, reply, issued>>
  BY DEF TalkInv, ChatTypeOK, ServerStep, HandleDisconnect, Consume, OnDisconnect,
         DisconnectRegistered, DisconnectUnknown
<1>2. /\ 1 \in DOMAIN inbox /\ inbox[1].type = "Disconnect" /\ inbox[1].id = id
      /\ inbox # <<>>
      /\ \A i \in DOMAIN inbox' :
            i \in Nat \ {0} /\ i + 1 \in DOMAIN inbox /\ inbox'[i] = inbox[i + 1]
  BY <1>1, ConsumeShifts DEF HandleDisconnect, Consume
<1>3. DOMAIN inbox \subseteq Nat \ {0}
  BY <1>1, LenProperties
<1>4. /\ DOMAIN sessions' = DOMAIN sessions \ {id}
      /\ \A i \in DOMAIN sessions' : sessions'[i] = sessions[i]
  BY <1>1 DEF HandleDisconnect, OnDisconnect, DisconnectRegistered, DisconnectUnknown,
              Unregister, ChatTypeOK
<1>5. RepliesMatch'
  BY <1>1 DEF TalkInv, RepliesMatch
<1>6. \A c \in Conns :
         /\ phase[c] \in {"running", "listing"} => sid[c] # id
         /\ reply[c].type = "Id" => reply[c].id # id
  BY <1>2 DEF TalkInv, DisconnectIsLast
<1>7. IdsOwned'
  BY <1>1, <1>4, <1>6 DEF TalkInv, IdsOwned
<1>8. OneQuestion'
  BY <1>1, <1>2, ShiftedQuestions DEF TalkInv, Shifted
<1>9. DisconnectIsLast'
  <2>1. \A i \in DOMAIN inbox' :
           inbox'[i].type \in {"Join", "Message"} => inbox'[i].id # id
    BY <1>2 DEF TalkInv, DisconnectIsLast
  <2>2. \A i \in DOMAIN inbox' :
           inbox'[i].type \in {"Join", "Message"} => inbox'[i].id \in DOMAIN sessions'
    BY <1>2, <1>4, <2>1 DEF TalkInv, DisconnectIsLast
  <2> QED BY <1>1, <1>2, <2>2, ShiftedDisconnects DEF TalkInv, Shifted
<1> QED BY <1>5, <1>7, <1>8, <1>9 DEF Talk

LEMMA HandleOtherTalk ==
    ASSUME TalkInv, ServerStep, HandleMessage \/ HandleListRooms \/ HandleJoin
    PROVE  Talk'
<1>1. /\ inbox \in Seq(Messages) /\ ChatTypeOK
      /\ UNCHANGED <<phase, sid, serverUp, sessions, issued>>
  BY DEF TalkInv, ChatTypeOK, ServerStep, HandleMessage, OnMessage, HandleListRooms,
         OnListRooms, HandleJoin, OnJoin, Consume
<1>2. /\ 1 \in DOMAIN inbox /\ inbox # <<>>
      /\ inbox[1] = Head(inbox) /\ Head(inbox) \in Messages
      /\ \A i \in DOMAIN inbox' :
            i \in Nat \ {0} /\ i + 1 \in DOMAIN inbox /\ inbox'[i] = inbox[i + 1]
  BY <1>1, ConsumeShifts DEF HandleMessage, HandleListRooms, HandleJoin, Consume
<1>3. \A i \in DOMAIN inbox' :
         inbox'[i].type \in {"Join", "Message"} => inbox'[i].id \in DOMAIN sessions'
  BY <1>1, <1>2 DEF TalkInv, DisconnectIsLast
<1>4. CASE HandleMessage \/ HandleJoin
  <2>1. UNCHANGED reply
    BY <1>4 DEF HandleMessage, OnMessage, HandleJoin, OnJoin
  <2>2. RepliesMatch' /\ IdsOwned'
    BY <1>1, <2>1 DEF TalkInv, RepliesMatch, IdsOwned
  <2>3. OneQuestion'
    BY <1>1, <1>2, <2>1, ShiftedQuestions DEF TalkInv, Shifted
  <2>4. DisconnectIsLast'
    BY <1>1, <1>2, <1>3, <2>1, ShiftedDisconnects DEF TalkInv, Shifted
  <2> QED BY <2>2, <2>3, <2>4 DEF Talk
<1>5. CASE HandleListRooms
  <2> DEFINE c == Head(inbox).conn
  <2>1. inbox[1].type = "ListRooms" /\ c \in Conns
        /\ reply' = [reply EXCEPT ![c] = RoomsReply(DOMAIN rooms)]
    BY <1>2, <1>5 DEF HandleListRooms, OnListRooms, Consume, Messages
  <2>2. phase[c] = "listing" /\ reply[c] = NoReply
    BY <1>2, <2>1 DEF TalkInv, OneQuestion
  <2>3. \A i \in DOMAIN inbox' :
           inbox'[i].type \in {"Connect", "ListRooms"} =>
              inbox'[i].conn # c /\ inbox'[i].conn \in Conns
    BY <1>1, <1>2, <2>1, ElementOfSeq, LenProperties, MessageKinds DEF TalkInv, OneQuestion
  <2>4. \A d \in Conns : reply'[d].type = "Id" => reply'[d] = reply[d] /\ reply[d].type = "Id"
    BY <1>1, <2>1 DEF RoomsReply, ChatTypeOK
  <2>5. RepliesMatch' /\ IdsOwned'
    BY <1>1, <2>1, <2>2, <2>4 DEF TalkInv, RepliesMatch, IdsOwned, RoomsReply, ChatTypeOK
  <2>6. OneQuestion'
    BY <1>1, <1>2, <2>1, <2>3, ShiftedQuestions DEF TalkInv, Shifted, ChatTypeOK
  <2>7. DisconnectIsLast'
    BY <1>1, <1>2, <1>3, <2>4, ShiftedDisconnects DEF TalkInv, Shifted
  <2> QED BY <2>5, <2>6, <2>7 DEF Talk
<1> QED BY <1>4, <1>5

\* No message that is handled breaks the conversation.
LEMMA ServerTalk == ASSUME TalkInv, ServerStep PROVE TalkInv'
<1>1. ChatTypeOK' /\ RoomMembersRegistered'
  BY ServerType, ServerRooms DEF TalkInv
<1>2. Talk'
  BY HandleConnectTalk, HandleDisconnectTalk, HandleOtherTalk DEF ServerStep, Serve
<1> QED BY <1>1, <1>2 DEF TalkInv, Talk

-----------------------------------------------------------------------------
(* ... and after a session has done something *)

Question(m) == m.type \in {"Connect", "ListRooms"}

Active(c) == phase[c] \in {"running", "listing"}

\* A question is posted by a session that has none in the mailbox.
LEMMA PostedQuestion ==
    ASSUME inbox \in Seq(Messages), OneQuestion, NEW c \in Conns,
           NEW m \in {Connect(c), ListRooms(c)}, m \in Messages, Post(m),
           \A i \in DOMAIN inbox : Question(inbox[i]) => inbox[i].conn # c,
           \A d \in Conns \ {c} : phase'[d] = phase[d],
           phase'[c] = IF m.type = "Connect" THEN "connecting" ELSE "listing",
           reply[c] = NoReply, UNCHANGED <<reply, serverUp>>
    PROVE  OneQuestion'
<1>1. m.conn = c /\ Question(m)
  BY DEF Connect, ListRooms, Question
<1>2. serverUp' \/ inbox' = <<>>
  BY DEF OneQuestion, Post
<1>3. \A i \in DOMAIN inbox : Question(inbox[i]) => inbox[i].conn \in Conns
  BY MessageKinds, ElementOfSeq, LenProperties DEF Question
<1>4. /\ \A i \in DOMAIN inbox' :
            \/ i \in DOMAIN inbox /\ inbox'[i] = inbox[i]
            \/ i \notin DOMAIN inbox /\ inbox'[i] = m
      /\ \A i, j \in DOMAIN inbox' :
            i \notin DOMAIN inbox /\ j \notin DOMAIN inbox => i = j
  BY PostAdds
<1>5. ASSUME NEW i \in DOMAIN inbox', Question(inbox'[i])
      PROVE  /\ phase'[inbox'[i].conn] =
                   IF inbox'[i].type = "Connect" THEN "connecting" ELSE "listing"
             /\ reply'[inbox'[i].conn] = NoReply
             /\ \A j \in DOMAIN inbox' :
                   Question(inbox'[j]) /\ inbox'[j].conn = inbox'[i].conn => i = j
  <2>1. CASE i \in DOMAIN inbox /\ inbox'[i] = inbox[i]
    BY <1>1, <1>3, <1>4, <1>5, <2>1 DEF OneQuestion, Question
  <2>2. CASE i \notin DOMAIN inbox /\ inbox'[i] = m
    BY <1>1, <1>4, <1>5, <2>2
  <2> QED BY <1>4, <2>1, <2>2
<1> QED BY <1>2, <1>5 DEF OneQuestion, Question

\* Anything else is posted by a session that waits for nothing.
LEMMA PostedStatement ==
    ASSUME inbox \in Seq(Messages), OneQuestion, NEW c \in Conns,
           NEW m \in Messages, ~Question(m), Post(m),
           \A d \in Conns \ {c} : phase'[d] = phase[d],
           phase[c] \notin {"connecting", "listing"}, UNCHANGED <<reply, serverUp>>
    PROVE  OneQuestion'
<1>1. serverUp' \/ inbox' = <<>>
  BY DEF OneQuestion, Post
<1>2. \A i \in DOMAIN inbox : Question(inbox[i]) => inbox[i].conn \in Conns \ {c}
  BY MessageKinds, ElementOfSeq, LenProperties DEF Question, OneQuestion
<1>3. \A i \in DOMAIN inbox' :
         Question(inbox'[i]) => i \in DOMAIN inbox /\ inbox'[i] = inbox[i]
  BY PostAdds
<1> QED BY <1>1, <1>2, <1>3 DEF OneQuestion, Question

\* Who posts Disconnect asks nothing more; who posts Join or Message has not
\* posted Disconnect.
LEMMA PostedDisconnects ==
    ASSUME inbox \in Seq(Messages), DisconnectIsLast, NEW m \in Messages, Post(m),
           UNCHANGED <<sid, sessions, issued, reply>>,
           \A d \in Conns : Active(d)' => Active(d),
           m.type = "Disconnect" =>
              /\ m.id \in issued \cup {NoId}
              /\ \A d \in Conns :
                    /\ Active(d)' => sid[d] # m.id
                    /\ reply[d].type = "Id" => reply[d].id # m.id,
           m.type \in {"Join", "Message"} =>
              /\ m.id \in DOMAIN sessions
              /\ \A j \in DOMAIN inbox :
                    inbox[j].type = "Disconnect" => inbox[j].id # m.id
    PROVE  DisconnectIsLast'
<1>1. \A i \in DOMAIN inbox' :
         \/ i \in DOMAIN inbox /\ inbox'[i] = inbox[i]
         \/ i \notin DOMAIN inbox /\ (\A j \in DOMAIN inbox : j < i)
               /\ i \in Nat /\ inbox'[i] = m
  BY PostAdds
<1>2. DOMAIN inbox \subseteq Nat
  BY LenProperties
<1> SUFFICES ASSUME NEW i \in DOMAIN inbox' PROVE
        /\ inbox'[i].type = "Disconnect" =>
              /\ inbox'[i].id \in issued' \cup {NoId}
              /\ \A c \in Conns :
                    /\ phase'[c] \in {"running", "listing"} => sid'[c] # inbox'[i].id
                    /\ reply'[c].type = "Id" => reply'[c].id # inbox'[i].id
        /\ inbox'[i].type \in {"Join", "Message"} =>
              /\ inbox'[i].id \in DOMAIN sessions'
              /\ \A j \in DOMAIN inbox' :
                    j < i /\ inbox'[j].type = "Disconnect" => inbox'[j].id # inbox'[i].id
  BY DEF DisconnectIsLast
<1>3. CASE i \in DOMAIN inbox /\ inbox'[i] = inbox[i]
  <2>1. \A j \in DOMAIN inbox' : j < i => j \in DOMAIN inbox /\ inbox'[j] = inbox[j]
    BY <1>1, <1>2, <1>3
  <2> QED BY <1>3, <2>1 DEF DisconnectIsLast, Active
<1>4. CASE i \notin DOMAIN inbox /\ i \in Nat /\ inbox'[i] = m
  <2>1. \A j \in DOMAIN inbox' : j < i => j \in DOMAIN inbox /\ inbox'[j] = inbox[j]
    <3>1. ASSUME NEW j \in DOMAIN inbox', j < i, j \notin DOMAIN inbox PROVE FALSE
      <4>1. i = j
        BY <1>4, <3>1, PostAdds
      <4> QED BY <1>4, <3>1, <4>1
    <3> QED BY <1>1, <3>1
  <2> QED BY <1>4, <2>1 DEF Active
<1> QED BY <1>1, <1>3, <1>4

\* The id a leaving session puts in its Disconnect is nobody else's.
LEMMA OwnId ==
    ASSUME TalkInv, NEW c \in Conns, phase[c] # "connecting"
    PROVE  \A d \in Conns :
              /\ d # c /\ Active(d) => sid[d] # sid[c]
              /\ reply[d].type = "Id" => reply[d].id # sid[c]
<1>1. reply[c].type # "Id"
  BY DEF TalkInv, RepliesMatch, NoReply
<1> QED BY <1>1 DEF TalkInv, IdsOwned, Active

\* started(): Connect is posted.
LEMMA StartTalk ==
    ASSUME TalkInv, NEW c \in Conns, phase[c] = "absent", Goto(c, "connecting"),
           Post(Connect(c)), UNCHANGED <<sid, sessions, issued, reply, serverUp>>
    PROVE  Talk'
<1>1. inbox \in Seq(Messages) /\ phase \in [Conns -> Phases] /\ Connect(c) \in Messages
  BY PostedMessages DEF TalkInv, ChatTypeOK
<1>2. phase' = [phase EXCEPT ![c] = "connecting"] /\ phase[c] = "absent"
      /\ UNCHANGED <<sid, sessions, issued, reply, serverUp>> /\ Post(Connect(c))
  BY DEF Goto
<1>3. RepliesMatch' /\ IdsOwned'
  BY <1>1, <1>2 DEF TalkInv, RepliesMatch, IdsOwned, NoReply
<1>4. OneQuestion'
  <2>1. \A i \in DOMAIN inbox : Question(inbox[i]) => inbox[i].conn # c
    BY <1>2 DEF TalkInv, OneQuestion, Question
  <2>2. reply[c] = NoReply
    BY <1>2 DEF TalkInv, RepliesMatch
  <2> QED BY <1>1, <1>2, <2>1, <2>2, PostedQuestion DEF TalkInv, Connect
<1>5. DisconnectIsLast'
  BY <1>1, <1>2, PostedDisconnects DEF TalkInv, Connect, Active
<1> QED BY <1>3, <1>4, <1>5 DEF Talk

\* List: ListRooms is posted.
LEMMA ListTalk ==
    ASSUME TalkInv, NEW c \in Conns, phase[c] = "running", Goto(c, "listing"),
           Post(ListRooms(c)), UNCHANGED <<sid, sessions, issued, reply, serverUp>>
    PROVE  Talk'
<1>1. inbox \in Seq(Messages) /\ phase \in [Conns -> Phases] /\ ListRooms(c) \in Messages
  BY PostedMessages DEF TalkInv, ChatTypeOK
<1>2. phase' = [phase EXCEPT ![c] = "listing"] /\ phase[c] = "running"
      /\ UNCHANGED <<sid, sessions, issued, reply, serverUp>> /\ Post(ListRooms(c))
  BY DEF Goto
<1>3. RepliesMatch' /\ IdsOwned'
  BY <1>1, <1>2 DEF TalkInv, RepliesMatch, IdsOwned, NoReply
<1>4. OneQuestion'
  <2>1. \A i \in DOMAIN inbox : Question(inbox[i]) => inbox[i].conn # c
    BY <1>2 DEF TalkInv, OneQuestion, Question
  <2>2. reply[c] = NoReply
    BY <1>2 DEF TalkInv, RepliesMatch
  <2> QED BY <1>1, <1>2, <2>1, <2>2, PostedQuestion DEF TalkInv, ListRooms
<1>5. DisconnectIsLast'
  BY <1>1, <1>2, PostedDisconnects DEF TalkInv, ListRooms, Active
<1> QED BY <1>3, <1>4, <1>5 DEF Talk

\* Join and Message are posted with the id of a registered session.
LEMMA SayTalk ==
    ASSUME TalkInv, NEW c \in Conns, phase[c] = "running",
           NEW m \in Messages, m.type \in {"Join", "Message"}, m.id = sid[c], Post(m),
           UNCHANGED <<phase, sid, sessions, issued, reply, serverUp>>
    PROVE  Talk'
<1>1. inbox \in Seq(Messages) /\ ~Question(m)
  BY DEF TalkInv, ChatTypeOK, Question
<1>2. RepliesMatch' /\ IdsOwned'
  BY DEF TalkInv, RepliesMatch, IdsOwned
<1>3. OneQuestion'
  BY <1>1, PostedStatement DEF TalkInv
<1>4. DisconnectIsLast'
  <2>1. m.id \in DOMAIN sessions
    BY DEF TalkInv, IdsOwned
  <2>2. \A j \in DOMAIN inbox : inbox[j].type = "Disconnect" => inbox[j].id # m.id
    BY DEF TalkInv, DisconnectIsLast
  <2> QED BY <1>1, <2>1, <2>2, PostedDisconnects DEF TalkInv, Active
<1> QED BY <1>2, <1>3, <1>4 DEF Talk

LEMMA LeaveTalk ==
    ASSUME TalkInv, NEW c \in Conns, NEW p \in {"stopping", "stopped"},
           phase[c] \in {"running", "stopping"}, phase' = [phase EXCEPT ![c] = p],
           Post(Disconnect(sid[c])), UNCHANGED <<sid, sessions, issued, reply, serverUp>>
    PROVE  Talk'
<1> DEFINE m == Disconnect(sid[c])
<1>1. inbox \in Seq(Messages) /\ phase \in [Conns -> Phases] /\ m \in Messages
      /\ m.type = "Disconnect" /\ m.id = sid[c]
  BY PostedMessages DEF TalkInv, ChatTypeOK, Disconnect
<1>2. RepliesMatch' /\ IdsOwned'
  BY <1>1 DEF TalkInv, RepliesMatch, IdsOwned, NoReply
<1>3. OneQuestion'
  BY <1>1, PostedStatement DEF TalkInv, Question
<1>4. DisconnectIsLast'
  <2>1. \A d \in Conns : Active(d)' => Active(d) /\ d # c
    BY <1>1 DEF Active
  <2>2. \A d \in Conns :
           /\ Active(d)' => sid[d] # sid[c]
           /\ reply[d].type = "Id" => reply[d].id # sid[c]
    BY <2>1, OwnId
  <2>3. sid[c] \in issued \cup {NoId}
    BY DEF TalkInv, IdsOwned
  <2> HIDE DEF m
  <2> QED BY <1>1, <2>1, <2>2, <2>3, PostedDisconnects DEF TalkInv, m
<1> QED BY <1>2, <1>3, <1>4 DEF Talk

\* The id is there.
LEMMA IdTalk ==
    ASSUME TalkInv, NEW c \in Conns, phase[c] = "connecting", Goto(c, "running"),
           reply[c].type = "Id", reply' = [reply EXCEPT ![c] = NoReply],
           sid' = [sid EXCEPT ![c] = reply[c].id],
           UNCHANGED <<inbox, sessions, issued, serverUp>>
    PROVE  Talk'
<1>1. /\ inbox \in Seq(Messages) /\ phase \in [Conns -> Phases]
      /\ sid \in [Conns -> Ids \cup {NoId}] /\ reply \in [Conns -> Replies]
  BY DEF TalkInv, ChatTypeOK
<1>2. phase' = [phase EXCEPT ![c] = "running"] /\ reply[c] # NoReply
  BY DEF Goto, NoReply
<1>3. RepliesMatch' /\ IdsOwned'
  BY <1>1, <1>2 DEF TalkInv, RepliesMatch, IdsOwned, NoReply
<1>4. OneQuestion'
  BY <1>1, <1>2 DEF TalkInv, OneQuestion
<1>5. DisconnectIsLast'
  BY <1>1, <1>2 DEF TalkInv, DisconnectIsLast, NoReply
<1> QED BY <1>3, <1>4, <1>5 DEF Talk

\* The list of rooms is there.
LEMMA RoomsTalk ==
    ASSUME TalkInv, NEW c \in Conns, phase[c] = "listing", Goto(c, "running"),
           reply[c].type = "Rooms", reply' = [reply EXCEPT ![c] = NoReply],
           UNCHANGED <<inbox, sid, sessions, issued, serverUp>>
    PROVE  Talk'
<1>1. /\ inbox \in Seq(Messages) /\ phase \in [Conns -> Phases]
      /\ sid \in [Conns -> Ids \cup {NoId}] /\ reply \in [Conns -> Replies]
  BY DEF TalkInv, ChatTypeOK
<1>2. phase' = [phase EXCEPT ![c] = "running"] /\ reply[c] # NoReply
  BY DEF Goto, NoReply
<1>3. RepliesMatch' /\ IdsOwned'
  BY <1>1, <1>2 DEF TalkInv, RepliesMatch, IdsOwned, NoReply
<1>4. OneQuestion'
  BY <1>1, <1>2 DEF TalkInv, OneQuestion
<1>5. DisconnectIsLast'
  BY <1>1, <1>2 DEF TalkInv, DisconnectIsLast, NoReply
<1> QED BY <1>3, <1>4, <1>5 DEF Talk

\* The session ends without a word, for now.
LEMMA EndTalk ==
    ASSUME TalkInv, NEW c \in Conns, phase[c] = "running", Goto(c, "stopping"),
           UNCHANGED <<inbox, sid, reply, sessions, issued, serverUp>>
    PROVE  Talk'
<1>1. /\ inbox \in Seq(Messages) /\ phase \in [Conns -> Phases]
      /\ sid \in [Conns -> Ids \cup {NoId}] /\ reply \in [Conns -> Replies]
  BY DEF TalkInv, ChatTypeOK
<1>2. phase' = [phase EXCEPT ![c] = "stopping"]
  BY DEF Goto
<1>3. RepliesMatch' /\ IdsOwned'
  BY <1>1, <1>2 DEF TalkInv, RepliesMatch, IdsOwned, NoReply
<1>4. OneQuestion'
  BY <1>1, <1>2 DEF TalkInv, OneQuestion
<1>5. DisconnectIsLast'
  BY <1>1, <1>2 DEF TalkInv, DisconnectIsLast
<1> QED BY <1>3, <1>4, <1>5 DEF Talk

\* What leaves the conversation alone.
LEMMA QuietTalk ==
    ASSUME TalkInv, UNCHANGED <<inbox, phase, sid, reply, sessions, issued, serverUp>>
    PROVE  Talk'
BY DEF TalkInv, Talk, RepliesMatch, IdsOwned, OneQuestion, DisconnectIsLast

-----------------------------------------------------------------------------
(* The server's mailbox, place by place *)

\* The mailbox without its head, place by place.
Taken ==
    /\ 1 \in DOMAIN inbox /\ DOMAIN inbox \subseteq Nat \ {0}
    /\ DOMAIN inbox' \subseteq Nat \ {0}
    /\ Len(inbox) \in Nat \ {0} /\ Len(inbox') = Len(inbox) - 1
    /\ \A i \in DOMAIN inbox' : i + 1 \in DOMAIN inbox /\ inbox'[i] = inbox[i + 1]
    /\ \A i \in DOMAIN inbox : i # 1 => i - 1 \in DOMAIN inbox' /\ inbox'[i - 1] = inbox[i]

\* A handler takes the head of the mailbox and nothing else.
LEMMA ServerTakes ==
    ASSUME ChatTypeOK, Serve
    PROVE  Taken /\ inbox[1] = Head(inbox) /\ inbox[1] \in Messages
<1>1. inbox # <<>> /\ inbox' = Tail(inbox) /\ inbox \in Seq(Messages)
  BY DEF ChatTypeOK, Serve, HandleConnect, HandleDisconnect, HandleMessage, HandleListRooms,
         HandleJoin, Consume
<1>2. /\ Len(inbox) \in Nat \ {0} /\ DOMAIN inbox = 1..Len(inbox)
      /\ Head(inbox) = inbox[1] /\ inbox[1] \in Messages
  BY <1>1, EmptySeq, LenProperties
<1>3. /\ inbox' \in Seq(Messages) /\ Len(inbox') = Len(inbox) - 1
      /\ \A i \in 1..Len(inbox') : inbox'[i] = inbox[i + 1]
  BY <1>1, HeadTailProperties
<1>4. DOMAIN inbox' = 1..(Len(inbox) - 1)
  BY <1>3, LenProperties
<1> QED BY <1>2, <1>3, <1>4 DEF Taken

\* The mailbox with one message more at its end, place by place.
Added(m) ==
    /\ DOMAIN inbox \subseteq Nat \ {0}
    /\ Len(inbox) \in Nat /\ Len(inbox') = Len(inbox) + 1
    /\ \A i \in DOMAIN inbox : i <= Len(inbox)
    /\ DOMAIN inbox' = DOMAIN inbox \cup {Len(inbox) + 1}
    /\ \A i \in DOMAIN inbox : inbox'[i] = inbox[i]
    /\ inbox'[Len(inbox) + 1] = m

\* Posting to a living server adds the message at the end.
LEMMA PostAppends ==
    ASSUME inbox \in Seq(Messages), NEW m \in Messages, serverUp, Post(m)
    PROVE  Added(m)
<1>1. inbox' = Append(inbox, m)
  BY DEF Post
<1>2. DOMAIN inbox = 1..Len(inbox) /\ Len(inbox) \in Nat
  BY LenProperties
<1>3. /\ inbox' \in Seq(Messages) /\ Len(inbox') = Len(inbox) + 1
      /\ \A i \in 1..Len(inbox) : inbox'[i] = inbox[i]
      /\ inbox'[Len(inbox) + 1] = m
  BY <1>1, AppendProperties
<1>4. DOMAIN inbox' = 1..(Len(inbox) + 1)
  BY <1>3, LenProperties
<1> QED BY <1>2, <1>3, <1>4 DEF Added

-----------------------------------------------------------------------------
(* One id for each session *)

\* A registered id is in its session's field, or on its way there; a session
\* that has not got its id has none.
OneSession ==
    /\ \A id \in DOMAIN sessions :
          sid[sessions[id]] = id \/ reply[sessions[id]] = IdReply(id)
    /\ \A c \in Conns : phase[c] \in {"absent", "connecting"} => sid[c] = NoId

\* No recipient is registered twice.
LEMMA RegisteredOnce ==
    ASSUME TalkInv, OneSession, NEW a \in DOMAIN sessions, NEW b \in DOMAIN sessions,
           sessions[a] = sessions[b]
    PROVE  a = b
<1>1. PICK c \in Conns : c = sessions[a]
  BY DEF TalkInv, ChatTypeOK
<1>2. a # NoId /\ b # NoId
  BY IdsAssumption DEF TalkInv, ChatTypeOK
<1>3. ASSUME NEW id, reply[c] = IdReply(id) PROVE sid[c] = NoId
  <2>1. reply[c].type = "Id" /\ reply[c] # NoReply
    BY <1>3 DEF IdReply, NoReply
  <2>2. phase[c] = "connecting"
    BY <2>1 DEF TalkInv, RepliesMatch
  <2> QED BY <2>2 DEF OneSession
<1>4. CASE sid[c] = a \/ sid[c] = b
  BY <1>1, <1>2, <1>3, <1>4 DEF OneSession
<1>5. CASE reply[c] = IdReply(a) /\ reply[c] = IdReply(b)
  <2>1. reply[c].id = a /\ reply[c].id = b
    BY <1>5 DEF IdReply
  <2> QED BY <2>1
<1> QED BY <1>1, <1>4, <1>5 DEF OneSession

LEMMA InitOneSession == ChatInit => OneSession
BY DEF ChatInit, ServerInit, OneSession

LEMMA ServerOneSession == ASSUME TalkInv, OneSession, ServerStep PROVE OneSession'
<1>1. /\ ChatTypeOK /\ UNCHANGED <<phase, sid>> /\ Taken /\ inbox[1] = Head(inbox)
      /\ inbox[1] \in Messages
  BY ServerTakes DEF ServerStep, TalkInv
<1>2. CASE UNCHANGED reply /\ DOMAIN sessions' \subseteq DOMAIN sessions
           /\ \A id \in DOMAIN sessions' : sessions'[id] = sessions[id]
  BY <1>1, <1>2 DEF OneSession
<1>3. CASE HandleMessage \/ HandleJoin \/ HandleDisconnect
  BY <1>2, <1>3 DEF HandleMessage, HandleJoin, HandleDisconnect, OnMessage, OnJoin,
                    OnDisconnect, DisconnectRegistered, DisconnectUnknown, Unregister
<1>4. CASE HandleConnect \/ HandleListRooms
  <2>1. PICK c \in Conns : c = Head(inbox).conn
    BY <1>1, <1>4, MessageKinds DEF HandleConnect, HandleListRooms, Consume
  <2>2. /\ phase[c] = IF inbox[1].type = "Connect" THEN "connecting" ELSE "listing"
        /\ reply[c] = NoReply
    BY <1>1, <1>4, <2>1 DEF HandleConnect, HandleListRooms, Consume, TalkInv, OneQuestion, Taken
  <2>3. \A id : reply[c] # IdReply(id)
    BY <2>2 DEF IdReply, NoReply
  <2>4. CASE HandleConnect
    <3>1. PICK id \in Ids \ issued :
            sessions' = Register(id, c) /\ reply' = [reply EXCEPT ![c] = IdReply(id)]
      BY <2>1, <2>4 DEF HandleConnect, OnConnect
    <3>2. sid[c] = NoId
      BY <1>1, <2>2, <2>4 DEF HandleConnect, Consume, OneSession
    <3>3. \A d \in DOMAIN sessions : d # NoId /\ sessions[d] \in Conns
      BY <1>1, IdsAssumption DEF ChatTypeOK
    <3>4. \A d \in DOMAIN sessions : sessions[d] # c
      BY <2>3, <3>2, <3>3 DEF OneSession
    <3>5. /\ DOMAIN sessions' = DOMAIN sessions \cup {id} /\ sessions'[id] = c
          /\ \A d \in DOMAIN sessions : d # id => sessions'[d] = sessions[d]
      BY <3>1 DEF Register
    <3>6. reply'[c] = IdReply(id) /\ \A d \in Conns : d # c => reply'[d] = reply[d]
      BY <1>1, <3>1 DEF ChatTypeOK
    <3>7. ASSUME NEW d \in DOMAIN sessions'
          PROVE  sid'[sessions'[d]] = d \/ reply'[sessions'[d]] = IdReply(d)
      <4>1. CASE d = id
        BY <3>5, <3>6, <4>1
      <4>2. CASE d # id
        BY <1>1, <3>3, <3>4, <3>5, <3>6, <4>2 DEF OneSession
      <4> QED BY <4>1, <4>2
    <3> QED BY <1>1, <3>7 DEF OneSession, IdReply
  <2>5. CASE HandleListRooms
    <3>1. UNCHANGED sessions /\ \A d \in Conns : d # c => reply'[d] = reply[d]
      BY <1>1, <2>1, <2>5 DEF HandleListRooms, OnListRooms, ChatTypeOK
    <3> QED BY <1>1, <2>3, <3>1 DEF OneSession, ChatTypeOK, IdReply
  <2> QED BY <1>4, <2>4, <2>5
<1> QED BY <1>3, <1>4 DEF ServerStep, Serve

\* A session takes its id.
LEMMA IdOneSession ==
    ASSUME TalkInv, OneSession, NEW c \in Conns, phase[c] = "connecting", Goto(c, "running"),
           reply' = [reply EXCEPT ![c] = NoReply], sid' = [sid EXCEPT ![c] = reply[c].id],
           UNCHANGED sessions
    PROVE  OneSession'
<1>1. /\ phase \in [Conns -> Phases]
      /\ sid \in [Conns -> Ids \cup {NoId}] /\ reply \in [Conns -> Replies]
      /\ sessions \in [DOMAIN sessions -> Conns]
      /\ phase' = [phase EXCEPT ![c] = "running"]
  BY DEF TalkInv, ChatTypeOK, Goto
<1>2. ASSUME NEW id \in DOMAIN sessions, sessions[id] = c PROVE sid'[c] = id
  <2>1. sid[c] = NoId /\ id # NoId
    BY IdsAssumption DEF OneSession, TalkInv, ChatTypeOK
  <2>2. reply[c] = IdReply(id)
    BY <1>2, <2>1 DEF OneSession
  <2> QED BY <1>1, <2>2 DEF IdReply
<1>3. \A d \in Conns : d # c => sid'[d] = sid[d] /\ reply'[d] = reply[d] /\ phase'[d] = phase[d]
  BY <1>1
<1>4. phase'[c] = "running"
  BY <1>1
<1> QED BY <1>1, <1>2, <1>3, <1>4 DEF OneSession, IdReply

\* A session takes the list of rooms.
LEMMA RoomsOneSession ==
    ASSUME TalkInv, OneSession, NEW c \in Conns, Goto(c, "running"), phase[c] = "listing",
           reply[c].type = "Rooms", reply' = [reply EXCEPT ![c] = NoReply],
           UNCHANGED <<sid, sessions>>
    PROVE  OneSession'
<1>1. /\ phase' = [phase EXCEPT ![c] = "running"] /\ phase \in [Conns -> Phases]
      /\ reply \in [Conns -> Replies] /\ sessions \in [DOMAIN sessions -> Conns]
  BY DEF Goto, TalkInv, ChatTypeOK
<1>2. \A id : reply[c] # IdReply(id)
  BY DEF IdReply
<1> QED BY <1>1, <1>2 DEF OneSession, IdReply

\* Whatever else a session does.
LEMMA QuietOneSession ==
    ASSUME TalkInv, OneSession, UNCHANGED <<sid, reply, sessions>>,
           \A d \in Conns : phase'[d] \in {"absent", "connecting"} =>
               phase[d] \in {"absent", "connecting"}
    PROVE  OneSession'
BY DEF TalkInv, ChatTypeOK, OneSession, IdReply

-----------------------------------------------------------------------------
(* What SendMessage adds to a mailbox *)

\* f2 is f with some texts of T at its end.
Extends(f, f2, T) ==
    /\ f2 \in Seq(Texts)
    /\ Len(f) <= Len(f2)
    /\ \A k \in 1..Len(f) : f2[k] = f[k]
    /\ \A k \in (Len(f) + 1)..Len(f2) : f2[k] \in T

LEMMA ExtendsTwice ==
    ASSUME NEW f \in Seq(Texts), NEW g, NEW h, NEW T, Extends(f, g, T), Extends(g, h, T)
    PROVE  Extends(f, h, T)
<1>1. PICK k \in Nat, m \in Nat, n \in Nat : k = Len(f) /\ m = Len(g) /\ n = Len(h)
  BY LenProperties DEF Extends
<1>2. /\ h \in Seq(Texts) /\ k <= m /\ m <= n
      /\ \A i \in 1..k : g[i] = f[i]
      /\ \A i \in 1..m : h[i] = g[i]
      /\ \A i \in (k + 1)..m : g[i] \in T
      /\ \A i \in (m + 1)..n : h[i] \in T
  BY <1>1 DEF Extends
<1>3. k <= n
  BY <1>2
<1>4. ASSUME NEW i \in 1..k PROVE h[i] = f[i]
  <2>1. i \in 1..m
    BY <1>2
  <2> QED BY <1>2, <2>1, Zenon
<1>5. ASSUME NEW i \in (k + 1)..n PROVE h[i] \in T
  <2>1. i \in (k + 1)..m \/ i \in (m + 1)..n
    BY <1>2
  <2>2. i \in (k + 1)..m => i \in 1..m
    OBVIOUS
  <2> QED BY <1>2, <2>1, <2>2, Zenon
<1>6. /\ h \in Seq(Texts)
      /\ k <= n
      /\ \A i \in 1..k : h[i] = f[i]
      /\ \A i \in (k + 1)..n : h[i] \in T
  BY <1>2, <1>3, <1>4, <1>5, Zenon
<1> QED BY <1>1, <1>6, Zenon DEF Extends

LEMMA ExtendsBy ==
    ASSUME NEW f \in Seq(Texts), NEW text \in Texts, NEW n \in Nat
    PROVE  /\ Extends(f, f \o [i \in 1..n |-> text], {text})
           /\ Len(f \o [i \in 1..n |-> text]) = Len(f) + n
<1> DEFINE g == [i \in 1..n |-> text]
<1>1. g \in Seq(Texts) /\ Len(g) = n
  <2>1. g \in Seq(Texts)
    BY SeqDef
  <2>2. DOMAIN g = 1..n
    OBVIOUS
  <2> QED BY <2>1, <2>2, LenProperties
<1>2. \A i \in 1..n : g[i] = text
  OBVIOUS
<1>3. Len(f) \in Nat
  BY LenProperties
<1> HIDE DEF g
<1>4. /\ f \o g \in Seq(Texts) /\ Len(f \o g) = Len(f) + Len(g)
      /\ \A i \in 1..Len(f) + Len(g) :
            (f \o g)[i] = IF i <= Len(f) THEN f[i] ELSE g[i - Len(f)]
  BY <1>1, ConcatProperties
<1>5. Extends(f, f \o g, {text})
  <2>1. \A i \in 1..Len(f) : (f \o g)[i] = f[i]
    BY <1>1, <1>3, <1>4
  <2>2. ASSUME NEW i \in (Len(f) + 1)..Len(f \o g) PROVE (f \o g)[i] \in {text}
    <3>1. i \in 1..Len(f) + Len(g) /\ ~ (i <= Len(f)) /\ i - Len(f) \in 1..n
      BY <1>1, <1>3, <1>4, <2>2
    <3> QED BY <1>2, <1>4, <3>1
  <2> QED BY <1>1, <1>3, <1>4, <2>1, <2>2 DEF Extends
<1> QED BY <1>1, <1>4, <1>5 DEF g

\* No id but skip is registered for c.
OnlyId(c, skip) == \A id \in DOMAIN sessions : sessions[id] = c => id = skip

\* A copy for each membership, so none for who is not to hear it, and at most
\* one if the text goes to one room.
LEMMA CopiesCount ==
    ASSUME TalkInv, OneSession, NEW ms, NEW rs, IsFiniteSet(rs), NEW skip, NEW c \in Conns
    PROVE  /\ Copies(c, ms, rs, skip) \in Nat
           /\ OnlyId(c, skip) =>
                 Copies(c, ms, rs, skip) = 0
           /\ \A r : rs \subseteq {r} => Copies(c, ms, rs, skip) <= 1
<1> DEFINE S == {m \in rs \X (DOMAIN sessions \ {skip}) : m[2] \in ms[m[1]] /\ sessions[m[2]] = c}
<1>1. IsFiniteSet(S)
  <2>1. IsFiniteSet(DOMAIN sessions \ {skip})
    BY IdsAssumption, FS_Subset DEF TalkInv, ChatTypeOK
  <2>2. IsFiniteSet(rs \X (DOMAIN sessions \ {skip}))
    BY <2>1, FS_Product
  <2>3. S \in SUBSET (rs \X (DOMAIN sessions \ {skip}))
    OBVIOUS
  <2> QED BY <2>2, <2>3, FS_Subset
<1>2. Copies(c, ms, rs, skip) = Cardinality(S)
  BY DEF Copies
<1>3. ASSUME OnlyId(c, skip) PROVE S = {}
  BY <1>3 DEF OnlyId
<1>4. ASSUME NEW r, rs \subseteq {r} PROVE Cardinality(S) <= 1
  <2>1. CASE S = {}
    BY <2>1, FS_EmptySet
  <2>2. ASSUME NEW x \in S PROVE S = {x}
    <3>1. ASSUME NEW y \in S PROVE y = x
      <4>1. /\ x = <<r, x[2]>> /\ y = <<r, y[2]>>
            /\ x[2] \in DOMAIN sessions /\ y[2] \in DOMAIN sessions
            /\ sessions[x[2]] = c /\ sessions[y[2]] = c
        BY <1>4
      <4>2. x[2] = y[2]
        BY <4>1, RegisteredOnce
      <4> QED BY <4>1, <4>2
    <3> QED BY <3>1
  <2>3. ASSUME NEW x \in S PROVE Cardinality(S) = 1
    BY <2>2, FS_Singleton
  <2> QED BY <2>1, <2>3
<1>5. Cardinality(S) \in Nat
  BY <1>1, FS_CardinalityType
<1>6. S = {} => Cardinality(S) = 0
  BY FS_EmptySet
<1> QED BY <1>2, <1>3, <1>4, <1>5, <1>6

\* Every mailbox gets n copies of the text at its end.
LEMMA SendMessageExtends ==
    ASSUME TalkInv, OneSession, NEW box \in [Conns -> Seq(Texts)], NEW ms,
           NEW rs, IsFiniteSet(rs), NEW text \in Texts, NEW skip, NEW c \in Conns,
           NEW after, after = SendMessage(box, ms, rs, text, skip)[c]
    PROVE  Extends(box[c], after, {text})
<1>1. box[c] \in Seq(Texts) /\ Len(box[c]) \in Nat
  BY LenProperties
<1>2. CASE c \in open
  <2>1. PICK n \in Nat : n = Copies(c, ms, rs, skip)
    BY CopiesCount
  <2>2. after = box[c] \o [i \in 1..n |-> text]
    BY <1>2, <2>1 DEF SendMessage
  <2> QED BY <1>1, <2>2, ExtendsBy
<1>3. CASE c \notin open
  <2>1. after = box[c]
    BY <1>3 DEF SendMessage
  <2> QED BY <1>1, <2>1 DEF Extends
<1> QED BY <1>2, <1>3

\* None when the session's only id is skipped.
LEMMA SendMessageSkips ==
    ASSUME TalkInv, OneSession, NEW box \in [Conns -> Seq(Texts)], NEW ms,
           NEW rs, IsFiniteSet(rs), NEW text \in Texts, NEW skip, NEW c \in Conns,
           NEW after, after = SendMessage(box, ms, rs, text, skip)[c], OnlyId(c, skip)
    PROVE  after = box[c]
<1>1. Copies(c, ms, rs, skip) = 0
  BY CopiesCount
<1>2. box[c] \in Seq(Texts)
  OBVIOUS
<1>3. CASE c \in open
  <2>1. PICK g : g = [i \in 1..Copies(c, ms, rs, skip) |-> text]
    OBVIOUS
  <2>2. g = <<>>
    BY <1>1, <2>1
  <2>3. after = box[c] \o g
    BY <1>3, <2>1 DEF SendMessage
  <2> QED BY <1>2, <2>2, <2>3, ConcatEmptySeq
<1>4. CASE c \notin open
  BY <1>4 DEF SendMessage
<1> QED BY <1>3, <1>4

\* At most one when the text goes to one room.
LEMMA SendMessageOnce ==
    ASSUME TalkInv, OneSession, NEW box \in [Conns -> Seq(Texts)], NEW ms,
           NEW rs, IsFiniteSet(rs), NEW text \in Texts, NEW skip, NEW c \in Conns,
           NEW r, rs \subseteq {r},
           NEW after, after = SendMessage(box, ms, rs, text, skip)[c]
    PROVE  Len(after) <= Len(box[c]) + 1
<1>1. box[c] \in Seq(Texts) /\ Len(box[c]) \in Nat
  BY LenProperties
<1>2. CASE c \in open
  <2>1. PICK n \in Nat : n = Copies(c, ms, rs, skip) /\ n <= 1
    BY CopiesCount
  <2>2. after = box[c] \o [i \in 1..n |-> text]
    BY <1>2, <2>1 DEF SendMessage
  <2>3. Len(after) = Len(box[c]) + n
    BY <1>1, <2>2, ExtendsBy
  <2> QED BY <1>1, <2>1, <2>3
<1>3. CASE c \notin open
  BY <1>1, <1>3 DEF SendMessage
<1> QED BY <1>2, <1>3

\* A notice is told after all that was told before.
LEMMA NoticesExtend ==
    ASSUME TalkInv, OneSession, NEW box \in [Conns -> Seq(Texts)], NEW ms,
           NEW rs, IsFiniteSet(rs), NEW text \in Notices, NEW skip
    PROVE  /\ SendMessage(box, ms, rs, text, skip) \in [Conns -> Seq(Texts)]
           /\ \A c \in Conns :
                 Extends(box[c], SendMessage(box, ms, rs, text, skip)[c], Notices)
<1>1. text \in Texts
  BY DEF Texts
<1>2. IsFiniteSet(DOMAIN sessions)
  BY IdsAssumption, FS_Subset DEF TalkInv, ChatTypeOK
<1>3. SendMessage(box, ms, rs, text, skip) \in [Conns -> Seq(Texts)]
  BY <1>1, <1>2, SendMessageType
<1>4. ASSUME NEW c \in Conns
      PROVE  Extends(box[c], SendMessage(box, ms, rs, text, skip)[c], {text})
  BY <1>1, SendMessageExtends
<1>5. ASSUME NEW f, NEW f2, Extends(f, f2, {text}) PROVE Extends(f, f2, Notices)
  BY <1>5 DEF Extends
<1> QED BY <1>3, <1>4, <1>5

\* Only a Message brings a text of a peer.
LEMMA MailboxNotices ==
    ASSUME TalkInv, OneSession, ServerStep, inbox[1].type # "Message", NEW c \in Conns
    PROVE  Extends(mailbox[c], mailbox'[c], Notices)
<1>1. /\ ChatTypeOK /\ mailbox \in [Conns -> Seq(Texts)]
      /\ inbox[1] = Head(inbox)
  BY ServerTakes DEF TalkInv, ChatTypeOK, ServerStep
<1>2. /\ SomeoneJoined \in Notices /\ SomeoneConnected \in Notices
      /\ SomeoneDisconnected \in Notices
  BY DEF Notices
<1>3. \A r, id : /\ IsFiniteSet({r}) /\ IsFiniteSet({r} \cap DOMAIN rooms)
                 /\ IsFiniteSet(RoomsOf(id))
  <2>1. IsFiniteSet(DOMAIN rooms)
    BY <1>1, RoomsAssumption, FS_Subset DEF ChatTypeOK
  <2>2. \A id : RoomsOf(id) \in SUBSET DOMAIN rooms
    BY DEF RoomsOf
  <2>3. \A r : {r} \cap DOMAIN rooms \in SUBSET {r} /\ IsFiniteSet({r})
    BY FS_Singleton
  <2> QED BY <2>1, <2>2, <2>3, FS_Subset
<1>4. CASE HandleConnect
  <2>1. mailbox' = SendMessage(mailbox, rooms, {Main}, SomeoneJoined, NoId)
    BY <1>4 DEF HandleConnect, OnConnect
  <2> QED BY <1>1, <1>2, <1>3, <2>1, NoticesExtend
<1>5. CASE HandleDisconnect
  <2>1. PICK id : id = Head(inbox).id
    OBVIOUS
  <2>2. \/ UNCHANGED mailbox
        \/ mailbox' = SendMessage(mailbox, WithoutMember(id), RoomsOf(id),
                                  SomeoneDisconnected, NoId)
    BY <1>5, <2>1 DEF HandleDisconnect, OnDisconnect, DisconnectRegistered, DisconnectUnknown
  <2>3. CASE UNCHANGED mailbox
    BY <1>1, <2>3, LenProperties DEF Extends
  <2>4. CASE ~ UNCHANGED mailbox
    BY <1>1, <1>2, <1>3, <2>2, <2>4, NoticesExtend
  <2> QED BY <2>3, <2>4
<1>6. CASE HandleJoin
  <2>1. PICK id, name, old : id = Head(inbox).id /\ name = Head(inbox).name
                             /\ old = WithoutMember(id)
    OBVIOUS
  <2>2. PICK told : told = SendMessage(mailbox, old, RoomsOf(id), SomeoneDisconnected, NoId)
    OBVIOUS
  <2>3. mailbox' = SendMessage(told, old, {name} \cap DOMAIN rooms, SomeoneConnected, id)
    BY <1>6, <2>1, <2>2 DEF HandleJoin, OnJoin, WithoutMember
  <2>4. told \in [Conns -> Seq(Texts)] /\ Extends(mailbox[c], told[c], Notices)
    BY <1>1, <1>2, <1>3, <2>2, NoticesExtend
  <2>5. Extends(told[c], mailbox'[c], Notices)
    BY <1>2, <1>3, <2>3, <2>4, NoticesExtend
  <2> QED BY <1>1, <2>4, <2>5, ExtendsTwice
<1>7. CASE HandleListRooms
  BY <1>1, <1>7, LenProperties DEF HandleListRooms, OnListRooms, Extends
<1>8. ~ HandleMessage
  BY <1>1 DEF HandleMessage, Consume
<1> QED BY <1>4, <1>5, <1>6, <1>7, <1>8 DEF ServerStep, Serve

\* d has an id other than skip in one of the rooms rs.
IsMember(d, ms, rs, skip) ==
    \E id \in DOMAIN sessions \ {skip} : sessions[id] = d /\ \E r \in rs : id \in ms[r]

\* f and then t.
WithText(f, t) == Append(f, t)

AtMostOne(rs) == \E r : rs \subseteq {r}

\* A text for one room reaches each recipient that is to hear it, once.
LEMMA SendMessageTo ==
    ASSUME TalkInv, OneSession, NEW box \in [Conns -> Seq(Texts)], NEW ms,
           NEW rs, IsFiniteSet(rs), NEW text \in Texts, NEW skip, NEW d \in Conns,
           AtMostOne(rs), NEW after, after = SendMessage(box, ms, rs, text, skip)[d]
    PROVE  after = IF d \in open /\ IsMember(d, ms, rs, skip) THEN WithText(box[d], text)
                   ELSE box[d]
<1> DEFINE S == {m \in rs \X (DOMAIN sessions \ {skip}) : m[2] \in ms[m[1]] /\ sessions[m[2]] = d}
<1>1. PICK n \in Nat : n = Copies(d, ms, rs, skip) /\ n <= 1
  BY CopiesCount DEF AtMostOne
<1>2. n = Cardinality(S) /\ IsFiniteSet(S)
  <2>1. IsFiniteSet(rs \X (DOMAIN sessions \ {skip}))
    BY IdsAssumption, FS_Subset, FS_Product DEF TalkInv, ChatTypeOK
  <2>2. S \in SUBSET (rs \X (DOMAIN sessions \ {skip}))
    OBVIOUS
  <2> QED BY <1>1, <2>1, <2>2, FS_Subset DEF Copies
<1>3. IsMember(d, ms, rs, skip) <=> S # {}
  <2>1. ASSUME NEW id \in DOMAIN sessions \ {skip}, sessions[id] = d, NEW q \in rs, id \in ms[q]
        PROVE  <<q, id>> \in S
    BY <2>1
  <2>2. ASSUME NEW m \in S PROVE IsMember(d, ms, rs, skip)
    <3>1. m[1] \in rs /\ m[2] \in DOMAIN sessions \ {skip} /\ m[2] \in ms[m[1]] /\ sessions[m[2]] = d
      OBVIOUS
    <3> QED BY <3>1 DEF IsMember
  <2> QED BY <2>1, <2>2 DEF IsMember
<1>4. n = 0 <=> S = {}
  <2> HIDE DEF S
  <2> QED BY <1>2, FS_EmptySet
<1>5. CASE d \in open
  <2>1. PICK g : g = [i \in 1..n |-> text]
    OBVIOUS
  <2>2. after = box[d] \o g
    BY <1>1, <1>5, <2>1 DEF SendMessage
  <2>3. box[d] \in Seq(Texts)
    OBVIOUS
  <2>4. CASE n = 0
    <3>1. g = <<>>
      BY <2>1, <2>4
    <3>2. after = box[d]
      BY <2>2, <2>3, <3>1, ConcatEmptySeq
    <3> QED BY <1>3, <1>4, <2>4, <3>2
  <2>5. CASE n = 1
    <3>1. g = <<text>>
      BY <2>1, <2>5
    <3>2. after = Append(box[d], text)
      BY <2>2, <2>3, <3>1, AppendIsConcat
    <3>3. after = WithText(box[d], text)
      BY <3>2 DEF WithText
    <3> QED BY <1>3, <1>4, <1>5, <2>5, <3>3
  <2> QED BY <1>1, <2>4, <2>5
<1>6. CASE d \notin open
  BY <1>6 DEF SendMessage
<1> QED BY <1>5, <1>6

\* c is a member of the room of m, and not its speaker.
Hears(c, m) ==
    /\ c # sessions[m.id] /\ m.room \in DOMAIN rooms
    /\ \E id \in DOMAIN sessions : sessions[id] = c /\ id \in rooms[m.room]

\* A Message brings its text to the members of its room, once to each, and not
\* to the speaker.
LEMMA MailboxSays ==
    ASSUME TalkInv, OneSession, ServerStep, inbox[1].type = "Message", NEW c \in Conns
    PROVE  /\ inbox[1].text \in SaidTexts /\ inbox[1].id \in DOMAIN sessions
           /\ \/ mailbox'[c] = mailbox[c]
              \/ mailbox'[c] = Append(mailbox[c], inbox[1].text) /\ Hears(c, inbox[1])
<1>1. /\ ChatTypeOK /\ mailbox \in [Conns -> Seq(Texts)]
      /\ inbox[1] = Head(inbox) /\ inbox[1] \in Messages /\ 1 \in DOMAIN inbox
  BY ServerTakes DEF TalkInv, ChatTypeOK, ServerStep, Taken
<1>2. PICK id, text, r : id = inbox[1].id /\ text = inbox[1].text /\ r = inbox[1].room
  OBVIOUS
<1>3. PICK rs : rs = {r} \cap DOMAIN rooms
  OBVIOUS
<1>4. mailbox' = SendMessage(mailbox, rooms, rs, text, id)
  BY <1>1, <1>2, <1>3 DEF ServerStep, Serve, HandleConnect, HandleDisconnect,
                          HandleListRooms, HandleJoin, HandleMessage, Consume, OnMessage
<1>5. text \in SaidTexts /\ text \in Texts /\ id \in DOMAIN sessions
  <2>1. text \in SaidTexts
    BY <1>1, <1>2 DEF Messages
  <2>2. id \in DOMAIN sessions
    BY <1>1, <1>2 DEF TalkInv, DisconnectIsLast
  <2> QED BY <2>1, <2>2 DEF Texts
<1>6. IsFiniteSet(rs) /\ AtMostOne(rs)
  <2>1. rs \in SUBSET {r}
    BY <1>3
  <2> QED BY <2>1, FS_Singleton, FS_Subset DEF AtMostOne
<1>7. PICK after : after = SendMessage(mailbox, rooms, rs, text, id)[c] /\ mailbox'[c] = after
  BY <1>4
<1>8. after = IF c \in open /\ IsMember(c, rooms, rs, id) THEN WithText(mailbox[c], text)
              ELSE mailbox[c]
  BY <1>1, <1>5, <1>6, <1>7, SendMessageTo
<1>9. ASSUME IsMember(c, rooms, rs, id) PROVE Hears(c, inbox[1])
  BY <1>2, <1>3, <1>5, <1>9, RegisteredOnce DEF IsMember, Hears
<1>10. \/ mailbox'[c] = mailbox[c]
       \/ mailbox'[c] = Append(mailbox[c], text) /\ IsMember(c, rooms, rs, id)
  BY <1>7, <1>8 DEF WithText
<1> QED BY <1>2, <1>5, <1>9, <1>10

-----------------------------------------------------------------------------
(* What room lists show *)

\* A Join that creates r is on its way, ahead of any question for a list that
\* c has asked.
JoinAhead(c, r) ==
    \E j \in DOMAIN inbox :
        /\ inbox[j].type = "Join" /\ inbox[j].name = r
        /\ \A k \in DOMAIN inbox : inbox[k] = ListRooms(c) => j < k

\* Rooms are never removed, and a handled Join has made its room.
LEMMA RoomsGrow ==
    ASSUME TalkInv, ServerStep
    PROVE  /\ DOMAIN rooms \subseteq DOMAIN rooms'
           /\ \A c, r : JoinAhead(c, r) => r \in DOMAIN rooms' \/ JoinAhead(c, r)'
<1>1. Taken /\ inbox[1] = Head(inbox)
  BY ServerTakes DEF TalkInv, ServerStep
<1>2. /\ DOMAIN rooms \subseteq DOMAIN rooms'
      /\ inbox[1].type = "Join" => inbox[1].name \in DOMAIN rooms'
  BY <1>1 DEF ServerStep, Serve, HandleConnect, HandleDisconnect, HandleMessage,
              HandleListRooms, HandleJoin, Consume, OnConnect, OnDisconnect,
              DisconnectRegistered, DisconnectUnknown, OnMessage, OnListRooms, OnJoin,
              WithMember, WithoutMember
<1>3. ASSUME NEW c, NEW r, JoinAhead(c, r) PROVE r \in DOMAIN rooms' \/ JoinAhead(c, r)'
  <2>1. PICK j \in DOMAIN inbox :
          /\ inbox[j].type = "Join" /\ inbox[j].name = r
          /\ \A k \in DOMAIN inbox : inbox[k] = ListRooms(c) => j < k
    BY <1>3 DEF JoinAhead
  <2>2. CASE j = 1
    BY <1>2, <2>1, <2>2
  <2>3. CASE j # 1
    <3>1. j \in Nat /\ j - 1 \in DOMAIN inbox' /\ inbox'[j - 1] = inbox[j]
      BY <1>1, <2>3 DEF Taken
    <3>2. ASSUME NEW k \in DOMAIN inbox', inbox'[k] = ListRooms(c) PROVE j - 1 < k
      <4>1. k \in Nat /\ k + 1 \in DOMAIN inbox /\ inbox[k + 1] = ListRooms(c)
        BY <1>1, <3>2 DEF Taken
      <4> QED BY <2>1, <3>1, <4>1
    <3> QED BY <2>1, <3>1, <3>2 DEF JoinAhead, ListRooms
  <2> QED BY <2>2, <2>3
<1> QED BY <1>2, <1>3

\* A list that is replied has every room there is; and no Join is ahead of the
\* question for it.
LEMMA ListReplied ==
    ASSUME TalkInv, ServerStep, NEW c \in Conns, reply'[c].type = "Rooms",
           reply'[c] # reply[c]
    PROVE  /\ reply'[c].names = DOMAIN rooms
           /\ \A r : ~ JoinAhead(c, r)
           /\ phase[c] = "listing"
<1>1. /\ Taken /\ inbox[1] = Head(inbox) /\ inbox[1] \in Messages
      /\ reply \in [Conns -> Replies] /\ 1 \in DOMAIN inbox
  BY ServerTakes DEF TalkInv, ChatTypeOK, ServerStep, Taken
<1>2. ~ (HandleDisconnect \/ HandleMessage \/ HandleJoin)
  BY DEF HandleDisconnect, HandleMessage, HandleJoin, OnDisconnect,
         DisconnectRegistered, DisconnectUnknown, OnMessage, OnJoin
<1>3. ASSUME HandleConnect PROVE FALSE
  <2>1. PICK id : reply' = [reply EXCEPT ![Head(inbox).conn] = IdReply(id)]
    BY <1>3 DEF HandleConnect, OnConnect
  <2>2. reply'[c] = IdReply(id)
    BY <1>1, <2>1
  <2> QED BY <2>2 DEF IdReply
<1>4. HandleListRooms
  BY <1>2, <1>3 DEF ServerStep, Serve
<1>5. Head(inbox).conn = c /\ reply'[c] = RoomsReply(DOMAIN rooms)
  BY <1>1, <1>4 DEF HandleListRooms, OnListRooms
<1>6. inbox[1].type = "ListRooms" /\ inbox[1].conn = c
  BY <1>1, <1>4, <1>5 DEF HandleListRooms, Consume
<1>7. inbox[1] = ListRooms(c)
  <2>1. inbox[1] \in [type : {"ListRooms"}, conn : Conns]
    BY <1>1, <1>6 DEF Messages
  <2> QED BY <1>6, <2>1 DEF ListRooms
<1>8. phase[c] = "listing"
  BY <1>1, <1>6 DEF TalkInv, OneQuestion
<1>9. \A r : ~ JoinAhead(c, r)
  BY <1>1, <1>7, SMTT(30) DEF JoinAhead, Taken
<1> QED BY <1>5, <1>8, <1>9 DEF RoomsReply

\* What is posted does not overtake a Join.
LEMMA AheadKept ==
    ASSUME NEW m, Added(m), NEW c, NEW r, JoinAhead(c, r)
    PROVE  JoinAhead(c, r)'
<1>1. PICK j \in DOMAIN inbox :
        /\ inbox[j].type = "Join" /\ inbox[j].name = r
        /\ \A k \in DOMAIN inbox : inbox[k] = ListRooms(c) => j < k
  BY DEF JoinAhead
<1>2. j \in DOMAIN inbox' /\ inbox'[j] = inbox[j]
  BY DEF Added
<1>3. \A k \in DOMAIN inbox' : inbox'[k] = ListRooms(c) => j < k
  BY <1>1 DEF Added
<1> QED BY <1>1, <1>2, <1>3 DEF JoinAhead, ListRooms

\* A Join posted by a session that has no question in the mailbox is ahead of
\* the next one.
LEMMA AheadPosted ==
    ASSUME TalkInv, NEW c \in Conns, phase[c] = "running", NEW id, NEW r, Added(Join(id, r))
    PROVE  JoinAhead(c, r)'
<1>1. PICK m : m = Join(id, r) /\ m.type = "Join" /\ m.name = r
  BY DEF Join
<1>2. \A k \in DOMAIN inbox : inbox[k] # ListRooms(c)
  BY DEF TalkInv, OneQuestion, ListRooms
<1>3. m # ListRooms(c)
  BY <1>1 DEF ListRooms
<1>4. PICK n : n = Len(inbox) + 1 /\ n \in DOMAIN inbox' /\ inbox'[n] = m
  BY <1>1 DEF Added
<1>5. \A k \in DOMAIN inbox' : inbox'[k] # ListRooms(c)
  BY <1>1, <1>2, <1>3 DEF Added
<1> QED BY <1>1, <1>4, <1>5 DEF JoinAhead, ListRooms

===============================================================================
