--------------------------- MODULE ConsoleChat_proofs ---------------------------
(***************************************************************************)
(* Proofs about ConsoleChat.  The conversation of a session with the server *)
(* is that of ChatSessions_proofs; what is shown here is that the sessions  *)
(* of chat converse so, and what follows for the two consoles.              *)
(***************************************************************************)
EXTENDS ConsoleChat, ChatSessions_proofs, Selection_proofs

-----------------------------------------------------------------------------
(* Types *)

LEMMA InitType == Init => TypeOK /\ TalkInv /\ OneSession
<1> SUFFICES ASSUME Init PROVE TypeOK /\ TalkInv /\ OneSession
  OBVIOUS
<1>1. TalkInv /\ OneSession /\ serverUp
  BY InitTalk, InitOneSession DEF Init, ChatInit, ServerInit
<1>2. /\ \A S : [c \in Conns |-> <<>>] \in [Conns -> Seq(S)]
      /\ 0 \in 0..MaxRequests
  BY EmptySeq, RequestsAssumption
<1> QED BY <1>1, <1>2 DEF Init, TalkInv, TypeOK

\* The server is that of ChatSessions.
LEMMA ServerIsStep == Server => ServerStep /\ UNCHANGED <<checking, clientVars, wires>>
BY DEF Server, ServerStep, sessionVars

LEMMA ServerKeepsType == ASSUME TypeOK, Server PROVE TypeOK'
<1>1. ChatTypeOK' /\ UNCHANGED <<checking, clientVars, wires>>
  BY ServerIsStep, ServerType DEF TypeOK
<1>2. UNCHANGED serverUp
  BY DEF Server, Serve, HandleConnect, HandleDisconnect, HandleMessage, HandleListRooms,
         HandleJoin, Consume
<1> QED BY <1>1, <1>2 DEF TypeOK, clientVars, wires

\* What is at the head of a wire or a mailbox, and what stays behind it.
LEMMA TakeHead ==
    ASSUME NEW S, NEW s \in Seq(S), s # <<>>
    PROVE  Head(s) \in S /\ Tail(s) \in Seq(S)
BY HeadTailProperties

\* Requests by what they ask.
LEMMA RequestKinds ==
    ASSUME NEW line \in Requests
    PROVE  /\ line.cmd \in {"list", "join", "say"}
           /\ line.cmd = "list" => line = List
           /\ line.cmd = "join" => line.room \in Rooms /\ line = JoinRoom(line.room)
           /\ line.cmd = "say" => line.n \in 1..MaxRequests /\ line = Say(line.n)
           /\ line \in QuestionLines <=> line.cmd # "say"
<1>1. CASE line = List
  <2>1. line.cmd = "list"
    BY <1>1 DEF List
  <2> QED BY <1>1, <2>1 DEF QuestionLines
<1>2. ASSUME NEW r \in Rooms, line = JoinRoom(r)
      PROVE  line.cmd = "join" /\ line.room = r /\ line \in QuestionLines
  BY <1>2 DEF JoinRoom, QuestionLines
<1>3. ASSUME NEW n \in 1..MaxRequests, line = Say(n)
      PROVE  line.cmd = "say" /\ line.n = n /\ line \notin QuestionLines
  <2>1. line.cmd = "say" /\ line.n = n
    BY <1>3 DEF Say
  <2>2. List.cmd = "list" /\ \A r : JoinRoom(r).cmd = "join"
    BY DEF List, JoinRoom
  <2> QED BY <2>1, <2>2 DEF QuestionLines
<1> QED BY <1>1, <1>2, <1>3 DEF Requests, QuestionLines

\* A mistake is none of the requests, and no room.
LEMMA MistakeIsNone ==
    /\ Mistake \notin Requests /\ Mistake.cmd = "mistake"
    /\ Mistake \notin QuestionLines
<1>1. Mistake.cmd = "mistake"
  BY DEF Mistake
<1> QED BY <1>1, RequestKinds DEF Requests

\* A wire or mailbox that is taken from, added to or cut keeps its type.
LEMMA WireTypes ==
    ASSUME NEW S, NEW w \in [Conns -> Seq(S)], NEW c \in Conns
    PROVE  /\ \A x \in S : [w EXCEPT ![c] = Append(@, x)] \in [Conns -> Seq(S)]
           /\ w[c] # <<>> => [w EXCEPT ![c] = Tail(@)] \in [Conns -> Seq(S)]
           /\ \A n \in 0..Len(w[c]) : [w EXCEPT ![c] = SubSeq(@, 1, n)] \in [Conns -> Seq(S)]
           /\ [w EXCEPT ![c] = <<>>] \in [Conns -> Seq(S)]
<1>1. w[c] \in Seq(S)
  OBVIOUS
<1>2. \A x \in S : Append(w[c], x) \in Seq(S)
  BY <1>1, AppendProperties
<1>3. w[c] # <<>> => Tail(w[c]) \in Seq(S)
  BY <1>1, HeadTailProperties
<1>4. \A n \in 0..Len(w[c]) : SubSeq(w[c], 1, n) \in Seq(S)
  BY <1>1, CutInTwo
<1>5. <<>> \in Seq(S)
  BY EmptySeq
<1> QED BY <1>2, <1>3, <1>4, <1>5

\* What the session writes is a response, wherever it ends up.
LEMMA RespondType ==
    ASSUME TypeOK, NEW c \in Conns, NEW r \in Responses, Respond(c, r)
    PROVE  toClient' \in [Conns -> Seq(Responses)]
BY WireTypes DEF TypeOK, Respond

LEMMA ClientKeepsType ==
    ASSUME TypeOK, NEW c \in Conns, Client(c) \/ User(c)
    PROVE  TypeOK' /\ UNCHANGED <<serverVars, sessionVars>>
<1> USE DEF TypeOK
<1>1. UNCHANGED <<serverVars, sessionVars>>
  BY DEF Client, User, ClientPings, HandleCommand, Show, Disconnected, ConsoleStarts, SomeLine,
         ReadLine, Kill, CutOff, ComeBack
<1>2. ChatTypeOK' /\ serverUp' /\ checking' \subseteq Conns
  BY <1>1 DEF serverVars, sessionVars, ChatTypeOK
<1>3. CASE ClientPings(c) \/ Disconnected(c) \/ ConsoleStarts(c) \/ CutOff(c) \/ ComeBack(c)
  BY <1>2, <1>3 DEF ClientPings, PingsAgain, Disconnected, ConsoleStarts, CutOff, ComeBack, wires
<1>4. CASE HandleCommand(c)
  <2>1. Head(commands[c]) \in Requests \cup {Mistake}
    BY <1>4, TakeHead DEF HandleCommand
  <2>2. RequestsWith(c, Head(commands[c])) \in Seq(Requests)
    BY <2>1, AppendProperties DEF RequestsWith
  <2>3. commands' \in [Conns -> Seq(Requests \cup {Mistake})]
    BY <1>4, WireTypes DEF HandleCommand
  <2> QED BY <1>2, <1>4, <2>2, <2>3 DEF HandleCommand
<1>5. CASE Show(c)
  <2>1. Head(toClient[c]) \in Responses
    BY <1>5, TakeHead DEF Show
  <2>2. toClient' \in [Conns -> Seq(Responses)] /\ printed' \in [Conns -> Seq(Responses)]
    BY <1>5, <2>1, WireTypes DEF Show
  <2> QED BY <1>2, <1>5, <2>2 DEF Show
<1>6. ASSUME NEW line \in {List, Say(lines + 1), Mistake} \cup {JoinRoom(r) : r \in Rooms},
             ReadLine(c, line)
      PROVE  TypeOK'
  <2>1. lines' \in 0..MaxRequests /\ lines + 1 \in 1..MaxRequests
    BY <1>6, RequestsAssumption DEF ReadLine
  <2>2. line \in Requests \cup {Mistake}
    BY <1>6, <2>1 DEF Requests, QuestionLines
  <2>3. /\ commands' \in [Conns -> Seq(Requests \cup {Mistake})]
        /\ typed' \in [Conns -> Seq(Requests \cup {Mistake})]
    BY <1>6, <2>2, WireTypes DEF ReadLine
  <2> QED BY <1>2, <1>6, <2>1, <2>3 DEF ReadLine, wires
<1>7. CASE Kill(c)
  <2>1. /\ toServer' \in [Conns -> Seq(Requests)] /\ toClient' \in [Conns -> Seq(Responses)]
        /\ commands' \in [Conns -> Seq(Requests \cup {Mistake})]
    BY <1>7, WireTypes DEF Kill
  <2> QED BY <1>2, <1>7, <2>1 DEF Kill
<1> QED BY <1>1, <1>3, <1>4, <1>5, <1>6, <1>7 DEF Client, User, SomeLine

\* What no session touches.
LEMMA SessionKeeps ==
    ASSUME NEW c \in Conns, Session(c)
    PROVE  UNCHANGED <<Registry, clientVars>>
BY DEF Session, Accept, TakeId, Request, SessionList, SessionJoin, SessionMessage, TakeRooms,
       Deliver, Check, PeerInTime, PeerLate, StreamEnds, Stop, serverVars, Registry

\* What a request is, and how the wire is without it.
LEMMA RequestType ==
    ASSUME TypeOK, NEW c \in Conns, NEW cmd, Request(c, cmd)
    PROVE  /\ Head(toServer[c]) \in Requests /\ Head(toServer[c]).cmd = cmd
           /\ toServer' \in [Conns -> Seq(Requests)]
BY TakeHead, WireTypes DEF TypeOK, Request

\* A post of a message leaves a mailbox of messages.
LEMMA PostType ==
    ASSUME TypeOK, NEW m \in Messages, Post(m) PROVE inbox' \in Seq(Messages)
BY PostAdds DEF TypeOK, ChatTypeOK

LEMMA SessionKeepsType ==
    ASSUME TypeOK, IdsOwned, NEW c \in Conns, Session(c) PROVE TypeOK'
<1> USE DEF TypeOK, ChatTypeOK
<1>1. UNCHANGED <<Registry, clientVars>> /\ HasId
  BY SessionKeeps, IdsHeld
<1>2. /\ DOMAIN sessions' \subseteq Ids /\ sessions' \in [DOMAIN sessions' -> Conns]
      /\ DOMAIN rooms' \subseteq Rooms /\ Main \in DOMAIN rooms'
      /\ rooms' \in [DOMAIN rooms' -> SUBSET Ids]
      /\ issued' \subseteq Ids /\ serverUp'
      /\ process' \in [Conns -> {"none", "up", "cut", "over"}]
      /\ pinging' \subseteq Conns /\ outages' \subseteq Quitters
      /\ commands' \in [Conns -> Seq(Requests \cup {Mistake})]
      /\ lines' \in 0..MaxRequests
      /\ typed' \in [Conns -> Seq(Requests \cup {Mistake})]
      /\ printed' \in [Conns -> Seq(Responses)]
  BY <1>1 DEF Registry, clientVars
<1>3. CASE Accept(c)
  <2>1. inbox' \in Seq(Messages)
    BY <1>3, PostType, PostedMessages DEF Accept
  <2> QED BY <1>2, <1>3, <2>1 DEF Accept, Goto, Phases, wires
<1>4. CASE TakeId(c)
  <2>1. reply[c].id \in Ids /\ NoReply \in Replies
    BY <1>4, ReplyKinds DEF TakeId, Replies
  <2> QED BY <1>2, <1>4, <2>1 DEF TakeId, Goto, Phases, wires
<1>5. CASE SessionList(c)
  <2>1. inbox' \in Seq(Messages) /\ toServer' \in [Conns -> Seq(Requests)]
    BY <1>5, PostType, PostedMessages, RequestType DEF SessionList
  <2> QED BY <1>2, <1>5, <2>1 DEF SessionList, Request, Goto, Phases
<1>6. CASE SessionJoin(c)
  <2>1. Head(toServer[c]).room \in Rooms /\ toServer' \in [Conns -> Seq(Requests)]
    BY <1>6, RequestType, RequestKinds DEF SessionJoin
  <2>2. inbox' \in Seq(Messages)
    BY <1>1, <1>6, <2>1, PostType, PostedMessages DEF SessionJoin, Request, HasId
  <2>3. Joined(Head(toServer[c]).room) \in Responses
    BY <2>1 DEF Joined, Responses, AnswerResponses
  <2>4. toClient' \in [Conns -> Seq(Responses)]
    BY <1>6, <2>3, RespondType DEF SessionJoin
  <2> QED BY <1>2, <1>6, <2>1, <2>2, <2>4 DEF SessionJoin, Request
<1>7. CASE SessionMessage(c)
  <2>1. Head(toServer[c]).n \in 1..MaxRequests /\ toServer' \in [Conns -> Seq(Requests)]
    BY <1>7, RequestType, RequestKinds DEF SessionMessage
  <2>2. inbox' \in Seq(Messages)
    BY <1>1, <1>7, <2>1, PostType, PostedMessages DEF SessionMessage, Request, HasId
  <2> QED BY <1>2, <1>7, <2>1, <2>2 DEF SessionMessage, Request
<1>8. CASE TakeRooms(c)
  <2>1. reply[c].names \in SUBSET Rooms /\ NoReply \in Replies
    BY <1>8, ReplyKinds DEF TakeRooms, Replies
  <2>2. RoomList(reply[c].names) \in Responses
    BY <2>1 DEF RoomList, Responses, AnswerResponses
  <2>3. toClient' \in [Conns -> Seq(Responses)]
    BY <1>8, <2>2, RespondType DEF TakeRooms
  <2> QED BY <1>2, <1>8, <2>1, <2>3 DEF TakeRooms, Goto, Phases
<1>9. CASE Deliver(c)
  <2>1. Head(mailbox[c]) \in Texts /\ mailbox' \in [Conns -> Seq(Texts)]
    BY <1>9, TakeHead, WireTypes DEF Deliver
  <2>2. Text(Head(mailbox[c])) \in Responses
    BY <2>1 DEF Text, Responses
  <2>3. toClient' \in [Conns -> Seq(Responses)]
    BY <1>9, <2>2, RespondType DEF Deliver
  <2> QED BY <1>2, <1>9, <2>1, <2>3 DEF Deliver, sessionVars
<1>10. CASE PeerInTime(c) \/ PeerLate(c)
  <2>1. inbox' \in Seq(Messages)
    BY <1>10, PostType, PostedMessages DEF PeerInTime, PeerLate
  <2> QED BY <1>2, <1>10, <2>1 DEF PeerInTime, PeerLate, Check, ChecksAgain, Goto, Phases, wires
<1>11. CASE StreamEnds(c)
  BY <1>2, <1>11 DEF StreamEnds, Goto, Phases, serverVars, wires
<1>12. CASE Stop(c)
  <2>1. inbox' \in Seq(Messages)
    BY <1>12, PostType, PostedMessages DEF Stop
  <2>2. /\ toServer' \in [Conns -> Seq(Requests)] /\ toClient' \in [Conns -> Seq(Responses)]
        /\ mailbox' \in [Conns -> Seq(Texts)]
    BY <1>12, WireTypes DEF Stop
  <2> QED BY <1>2, <1>12, <2>1, <2>2 DEF Stop, Goto, Phases
<1> QED BY <1>3, <1>4, <1>5, <1>6, <1>7, <1>8, <1>9, <1>10, <1>11, <1>12 DEF Session

-----------------------------------------------------------------------------
(* The conversation *)

\* What the session does is what ChatSessions_proofs is about.
LEMMA SessionTalk == ASSUME TypeOK, TalkInv, NEW c \in Conns, Session(c) PROVE Talk'
<1>1. UNCHANGED Registry /\ HasId
  BY SessionKeeps, IdsHeld DEF TalkInv
<1> USE <1>1 DEF Registry
<1>2. CASE Accept(c)
  BY <1>2, StartTalk DEF Accept
<1>3. CASE TakeId(c)
  BY <1>3, IdTalk DEF TakeId
<1>4. CASE SessionList(c)
  BY <1>4, ListTalk DEF SessionList, Request
<1>5. CASE SessionJoin(c)
  <2>1. Head(toServer[c]).room \in Rooms
    BY <1>5, RequestType, RequestKinds DEF SessionJoin
  <2>2. PICK m \in Messages : m = Join(sid[c], Head(toServer[c]).room)
    BY <1>5, <2>1, PostedMessages DEF SessionJoin, Request, HasId, TalkInv
  <2>3. m.type = "Join" /\ m.id = sid[c]
    BY <2>2 DEF Join
  <2> QED BY <1>5, <2>2, <2>3, SayTalk DEF SessionJoin, Request
<1>6. CASE SessionMessage(c)
  <2>1. Head(toServer[c]).n \in 1..MaxRequests
    BY <1>6, RequestType, RequestKinds DEF SessionMessage
  <2>2. PICK m \in Messages : m = Message(sid[c], Said(c, Head(toServer[c]).n), room[c])
    BY <1>6, <2>1, PostedMessages DEF SessionMessage, Request, HasId, TalkInv
  <2>3. m.type = "Message" /\ m.id = sid[c]
    BY <2>2 DEF Message
  <2> QED BY <1>6, <2>2, <2>3, SayTalk DEF SessionMessage, Request
<1>7. CASE TakeRooms(c)
  BY <1>7, RoomsTalk DEF TakeRooms
<1>8. CASE Deliver(c) \/ PeerInTime(c)
  BY <1>8, QuietTalk DEF Deliver, PeerInTime, Check, sessionVars
<1>9. CASE PeerLate(c)
  BY <1>9, LeaveTalk DEF PeerLate, Check, Goto
<1>10. CASE StreamEnds(c)
  BY <1>10, EndTalk DEF StreamEnds, serverVars
<1>11. CASE Stop(c)
  BY <1>11, LeaveTalk DEF Stop, Goto
<1> QED BY <1>2, <1>3, <1>4, <1>5, <1>6, <1>7, <1>8, <1>9, <1>10, <1>11 DEF Session

\* A session registers once.
LEMMA SessionOneSession ==
    ASSUME TypeOK, TalkInv, OneSession, NEW c \in Conns, Session(c) PROVE OneSession'
<1>1. UNCHANGED sessions /\ phase \in [Conns -> Phases]
  BY SessionKeeps DEF Registry, TypeOK, ChatTypeOK
<1>2. CASE TakeId(c)
  BY <1>1, <1>2, IdOneSession DEF TakeId
<1>3. CASE TakeRooms(c)
  BY <1>1, <1>3, RoomsOneSession DEF TakeRooms
<1>4. CASE Accept(c) \/ SessionList(c) \/ PeerLate(c) \/ StreamEnds(c) \/ Stop(c)
  <2>1. UNCHANGED <<sid, reply>>
    BY <1>4 DEF Accept, SessionList, Request, PeerLate, Check, StreamEnds, Stop, serverVars
  <2>2. \A d \in Conns : phase'[d] \in {"absent", "connecting"} =>
            phase[d] \in {"absent", "connecting"}
    BY <1>1, <1>4 DEF Accept, SessionList, PeerLate, StreamEnds, Stop, Goto
  <2> QED BY <1>1, <2>1, <2>2, QuietOneSession
<1>5. CASE SessionJoin(c) \/ SessionMessage(c) \/ Deliver(c) \/ PeerInTime(c)
  <2>1. UNCHANGED <<sid, reply, phase>>
    BY <1>5 DEF SessionJoin, SessionMessage, Request, Deliver, PeerInTime, Check, sessionVars
  <2> QED BY <1>1, <2>1, QuietOneSession
<1> QED BY <1>2, <1>3, <1>4, <1>5 DEF Session

\* The invariant the rest builds on.
Conversing == TypeOK /\ TalkInv /\ OneSession

LEMMA ConversingStep == ASSUME Conversing, [Next]_vars PROVE Conversing'
<1> USE DEF Conversing
<1>1. CASE Server
  BY <1>1, ServerKeepsType, ServerIsStep, ServerTalk, ServerOneSession
<1>2. ASSUME NEW c \in Conns, Session(c) PROVE Conversing'
  <2>1. TypeOK' /\ Talk' /\ OneSession'
    BY <1>2, SessionKeepsType, SessionTalk, SessionOneSession DEF TalkInv
  <2>2. RoomMembersRegistered'
    BY <1>2, SessionKeeps DEF TalkInv, RoomMembersRegistered, Registry
  <2> QED BY <2>1, <2>2 DEF TalkInv, Talk, TypeOK
<1>3. ASSUME NEW c \in Conns, Client(c) \/ User(c) PROVE Conversing'
  <2>1. TypeOK' /\ UNCHANGED <<serverVars, sessionVars>>
    BY <1>3, ClientKeepsType
  <2>2. Talk' /\ RoomMembersRegistered' /\ OneSession'
    BY <2>1, QuietTalk, QuietOneSession
       DEF serverVars, sessionVars, TalkInv, RoomMembersRegistered
  <2> QED BY <2>1, <2>2 DEF TalkInv, Talk, TypeOK
<1>4. CASE UNCHANGED vars
  <2>1. UNCHANGED <<serverVars, sessionVars, clientVars, wires>>
    BY <1>4 DEF vars
  <2>2. TypeOK'
    BY <2>1 DEF TypeOK, ChatTypeOK, serverVars, sessionVars, clientVars, wires
  <2>3. Talk' /\ RoomMembersRegistered' /\ OneSession'
    BY <2>1, QuietTalk, QuietOneSession
       DEF serverVars, sessionVars, TalkInv, RoomMembersRegistered
  <2> QED BY <2>2, <2>3 DEF TalkInv, Talk, TypeOK
<1> QED BY <1>1, <1>2, <1>3, <1>4 DEF Next

THEOREM Invariance == Spec => []Conversing
<1>1. Init => Conversing
  BY InitType DEF Conversing
<1> QED BY <1>1, ConversingStep, PTL DEF Spec

\* The types of chat and client hold, and the server of chat is always there.
THEOREM ConsoleTypes == Spec => []TypeOK
BY Invariance, PTL DEF Conversing

-----------------------------------------------------------------------------
(* Answers in turn: what a user has asked is what has been answered, followed *)
(* by what still waits on the way                                           *)

\* The answer a to the question q.
Fits(a, q) == IF q.cmd = "join" THEN a = Joined(q.room) ELSE a.kind = "rooms"

\* Of the questions asked, the first are those that are answered; the others,
\* when nothing is lost, are those that wait.
InTurn(asked, given, waiting, lossless) ==
    \E done, rest \in Seq(QuestionLines) :
        /\ asked = done \o rest
        /\ Len(done) = Len(given)
        /\ \A i \in 1..Len(given) : Fits(given[i], done[i])
        /\ lossless => rest = waiting

LEMMA QuestionsRegroup ==
    \A x, y, z \in Seq(QuestionLines) : x \o (y \o z) = (x \o y) \o z
BY Regroup

\* One more question, that waits.
LEMMA TurnAsk ==
    ASSUME NEW asked, NEW given, NEW waiting, NEW lossless, InTurn(asked, given, waiting, lossless),
           NEW q \in QuestionLines
    PROVE  InTurn(Append(asked, q), given, Append(waiting, q), lossless)
<1>1. PICK done \in Seq(QuestionLines), rest \in Seq(QuestionLines) :
        /\ asked = done \o rest
        /\ Len(done) = Len(given)
        /\ \A i \in 1..Len(given) : Fits(given[i], done[i])
        /\ lossless => rest = waiting
  BY DEF InTurn
<1>2. PICK more \in Seq(QuestionLines) : more = Append(rest, q)
  BY AppendProperties
<1>3. Append(asked, q) = done \o more
  <2>1. PICK one \in Seq(QuestionLines) : one = <<q>>
    BY Single
  <2>2. asked \in Seq(QuestionLines)
    BY <1>1, ConcatProperties
  <2>3. Append(asked, q) = asked \o one /\ more = rest \o one
    BY <1>2, <2>1, <2>2, AppendIsConcat
  <2>4. done \o (rest \o one) = (done \o rest) \o one
    BY Regroup
  <2> QED BY <1>1, <2>3, <2>4
<1> QED BY <1>1, <1>2, <1>3 DEF InTurn

\* The first of those that wait is answered.
LEMMA TurnAnswer ==
    ASSUME NEW asked, NEW given, NEW S, given \in Seq(S), NEW waiting \in Seq(QuestionLines),
           NEW q \in QuestionLines, InTurn(asked, given, <<q>> \o waiting, TRUE),
           NEW a \in S, Fits(a, q)
    PROVE  InTurn(asked, Append(given, a), waiting, TRUE)
<1>1. PICK done \in Seq(QuestionLines), rest \in Seq(QuestionLines) :
        /\ asked = done \o rest
        /\ Len(done) = Len(given)
        /\ \A i \in 1..Len(given) : Fits(given[i], done[i])
        /\ rest = <<q>> \o waiting
  BY DEF InTurn
<1>2. PICK more \in Seq(QuestionLines) : more = Append(done, q)
  BY AppendProperties
<1>3. asked = more \o waiting
  <2>1. <<q>> \in Seq(QuestionLines)
    BY Single
  <2>2. more = done \o <<q>>
    BY <1>2, AppendIsConcat
  <2> QED BY <1>1, <2>1, <2>2, Regroup
<1>4. PICK n \in Nat : n = Len(given) /\ n = Len(done)
  BY <1>1, LenProperties
<1>5. Len(more) = n + 1 /\ more[n + 1] = q /\ \A i \in 1..n : more[i] = done[i]
  BY <1>2, <1>4, AppendProperties
<1>6. PICK all \in Seq(S) : all = Append(given, a)
  BY AppendProperties
<1>7. Len(all) = n + 1 /\ all[n + 1] = a /\ \A i \in 1..n : all[i] = given[i]
  <2>1. /\ Len(Append(given, a)) = Len(given) + 1 /\ Append(given, a)[Len(given) + 1] = a
        /\ \A i \in 1..Len(given) : Append(given, a)[i] = given[i]
    BY AppendProperties
  <2> QED BY <1>4, <1>6, <2>1
<1>8. \A i \in 1..(n + 1) : Fits(all[i], more[i])
  <2> SUFFICES ASSUME NEW i \in 1..(n + 1) PROVE Fits(all[i], more[i])
    OBVIOUS
  <2>1. CASE i = n + 1
    BY <1>5, <1>7, <2>1
  <2>2. CASE i # n + 1
    <3>1. i \in 1..n
      BY <2>2
    <3> QED BY <1>1, <1>4, <1>5, <1>7, <3>1
  <2> QED BY <2>1, <2>2
<1> QED BY <1>3, <1>5, <1>6, <1>7, <1>8 DEF InTurn

\* Whatever is lost on the way, what is answered was asked.
LEMMA TurnLoss ==
    ASSUME NEW asked, NEW given, NEW waiting, NEW lossless, InTurn(asked, given, waiting, lossless),
           NEW other
    PROVE  InTurn(asked, given, other, FALSE)
BY DEF InTurn

\* The last answers are lost.
LEMMA TurnCut ==
    ASSUME NEW asked, NEW kept \in Seq(AnswerResponses), NEW lost \in Seq(AnswerResponses),
           NEW waiting, NEW lossless, InTurn(asked, kept \o lost, waiting, lossless), NEW other
    PROVE  InTurn(asked, kept, other, FALSE)
<1> DEFINE given == kept \o lost
<1>1. PICK done \in Seq(QuestionLines), rest \in Seq(QuestionLines) :
        /\ asked = done \o rest
        /\ Len(done) = Len(given)
        /\ \A i \in 1..Len(given) : Fits(given[i], done[i])
  BY DEF InTurn
<1>2. PICK m \in Nat, l \in Nat : m = Len(kept) /\ l = Len(lost)
  BY LenProperties
<1>3. /\ Len(given) = m + l /\ Len(done) = m + l
      /\ \A i \in 1..m : given[i] = kept[i]
  BY <1>1, <1>2, ConcatProperties
<1>4. m \in 0..Len(done)
  BY <1>3
<1>5. PICK first \in Seq(QuestionLines), second \in Seq(QuestionLines) :
        first = SubSeq(done, 1, m) /\ first \o second = done
  <2>1. /\ SubSeq(done, 1, m) \in Seq(QuestionLines)
        /\ SubSeq(done, m + 1, Len(done)) \in Seq(QuestionLines)
        /\ SubSeq(done, 1, m) \o SubSeq(done, m + 1, Len(done)) = done
    BY <1>4, CutInTwo
  <2> QED BY <2>1
<1>6. Len(first) = m /\ \A i \in 1..m : first[i] = done[i]
  <2>1. \A i \in 1..m : done[i] \in QuestionLines
    BY <1>3, ElementOfSeq
  <2> QED BY <1>5, <2>1, SubSeqProperties
<1>7. PICK other2 \in Seq(QuestionLines) :
        other2 = second \o rest /\ asked = first \o other2
  <2>1. second \o rest \in Seq(QuestionLines)
    BY ConcatProperties
  <2>2. first \o (second \o rest) = (first \o second) \o rest
    BY QuestionsRegroup, Zenon
  <2> QED BY <1>1, <1>5, <2>1, <2>2
<1>8. \A i \in 1..m : Fits(kept[i], first[i])
  BY <1>1, <1>2, <1>3, <1>6
<1> QED BY <1>2, <1>6, <1>7, <1>8 DEF InTurn

\* Nothing is lost as long as the client runs and the session has not stopped.
Live(c) == process[c] # "over" /\ phase[c] # "stopped"

\* The questions that wait: the one the session waits for, those on the wire, and
\* those the client has not handled.
Asking(c) == IF phase[c] = "listing" THEN <<List>> ELSE <<>>
Awaited(c) == (Asking(c) \o Only(toServer[c], QuestionLines)) \o Only(commands[c], QuestionLines)

\* The answers that are shown, or on their way.
Given(c) == Only(printed[c], AnswerResponses) \o Only(toClient[c], AnswerResponses)

TurnAt(c) == InTurn(Questions(c), Given(c), Awaited(c), Live(c))

LEMMA OnlyIn ==
    ASSUME NEW S, NEW s \in Seq(S), NEW T PROVE Only(s, T) \in Seq(T)
<1>1. Only(s, T) \in Seq(S \cap T)
  BY OnlyType
<1> QED BY <1>1, SeqMonotonic

LEMMA TurnTypes ==
    ASSUME TypeOK, NEW c \in Conns
    PROVE  /\ Questions(c) \in Seq(QuestionLines) /\ Asking(c) \in Seq(QuestionLines)
           /\ Only(toServer[c], QuestionLines) \in Seq(QuestionLines)
           /\ Only(commands[c], QuestionLines) \in Seq(QuestionLines)
           /\ Only(printed[c], AnswerResponses) \in Seq(AnswerResponses)
           /\ Only(toClient[c], AnswerResponses) \in Seq(AnswerResponses)
           /\ Given(c) \in Seq(AnswerResponses)
<1>1. /\ toServer[c] \in Seq(Requests) /\ commands[c] \in Seq(Requests \cup {Mistake})
      /\ typed[c] \in Seq(Requests \cup {Mistake})
      /\ printed[c] \in Seq(Responses) /\ toClient[c] \in Seq(Responses)
  BY DEF TypeOK
<1>2. Asking(c) \in Seq(QuestionLines)
  <2>1. List \in QuestionLines
    BY DEF QuestionLines
  <2> QED BY <2>1, Single, EmptySeq DEF Asking
<1>3. /\ Only(printed[c], AnswerResponses) \in Seq(AnswerResponses)
      /\ Only(toClient[c], AnswerResponses) \in Seq(AnswerResponses)
  BY <1>1, OnlyIn
<1> QED BY <1>1, <1>2, <1>3, OnlyIn, ConcatProperties DEF Questions, Given

\* What a user types or a session reads, without its first line.
LEMMA FirstQuestion ==
    ASSUME NEW S, NEW s \in Seq(S), s # <<>>, NEW T
    PROVE  /\ Only(Tail(s), T) \in Seq(T)
           /\ Head(s) \notin T => Only(s, T) = Only(Tail(s), T)
           /\ Head(s) \in T => Only(s, T) = <<Head(s)>> \o Only(Tail(s), T)
<1>1. Tail(s) \in Seq(S)
  BY HeadTailProperties
<1>2. Only(Tail(s), T) \in Seq(T)
  BY <1>1, OnlyIn
<1> QED BY <1>2, OnlyHead

\* A console where nothing is asked, answered or passed on.
LEMMA TurnKept ==
    ASSUME NEW c \in Conns, TurnAt(c), Live(c)' => Live(c), Asking(c)' = Asking(c),
           toServer'[c] = toServer[c], commands'[c] = commands[c], typed'[c] = typed[c],
           printed'[c] = printed[c], toClient'[c] = toClient[c]
    PROVE  TurnAt(c)'
<1>1. Questions(c)' = Questions(c) /\ Given(c)' = Given(c) /\ Awaited(c)' = Awaited(c)
  BY DEF Questions, Given, Awaited
<1>2. PICK q, g, a : q = Questions(c) /\ g = Given(c) /\ a = Awaited(c)
  OBVIOUS
<1>3. PICK live, more : live = Live(c) /\ more = Live(c)'
  OBVIOUS
<1>4. InTurn(q, g, a, live)
  BY <1>2, <1>3 DEF TurnAt
<1>5. InTurn(q, g, a, more)
  BY <1>3, <1>4 DEF InTurn
<1> QED BY <1>1, <1>2, <1>3, <1>5 DEF TurnAt

\* A line is typed: it is the last of what waits.
LEMMA TypedTurn ==
    ASSUME TypeOK, NEW c \in Conns, TurnAt(c), NEW line \in Requests \cup {Mistake},
           ReadLine(c, line)
    PROVE  TurnAt(c)'
<1>1. /\ typed[c] \in Seq(Requests \cup {Mistake}) /\ typed'[c] = Append(typed[c], line)
      /\ commands[c] \in Seq(Requests \cup {Mistake}) /\ commands'[c] = Append(commands[c], line)
      /\ UNCHANGED <<phase, process, printed, toClient, toServer>>
  BY DEF ReadLine, TypeOK, sessionVars, wires
<1>2. PICK q, g, live, asking, sent, kept :
        /\ q = Questions(c) /\ g = Given(c) /\ live = Live(c) /\ asking = Asking(c)
        /\ sent = Only(toServer[c], QuestionLines) /\ kept = Only(commands[c], QuestionLines)
  OBVIOUS
<1>3. InTurn(q, g, (asking \o sent) \o kept, live)
  BY <1>2 DEF TurnAt, Awaited
<1>4. /\ g = Given(c)' /\ live = Live(c)' /\ asking = Asking(c)'
      /\ sent = Only(toServer'[c], QuestionLines)
  BY <1>1, <1>2 DEF Given, Live, Asking
<1>5. /\ Questions(c)' = IF line \in QuestionLines THEN Append(q, line) ELSE q
      /\ Only(commands'[c], QuestionLines) = IF line \in QuestionLines THEN Append(kept, line) ELSE kept
  <2>1. \A s \in Seq(Requests \cup {Mistake}) :
           Only(Append(s, line), QuestionLines) =
               IF line \in QuestionLines THEN Append(Only(s, QuestionLines), line)
               ELSE Only(s, QuestionLines)
    BY OnlyAppend
  <2> QED BY <1>1, <1>2, <2>1 DEF Questions
<1>6. CASE line \notin QuestionLines
  BY <1>3, <1>4, <1>5, <1>6 DEF TurnAt, Awaited
<1>7. CASE line \in QuestionLines
  <2>1. asking \in Seq(QuestionLines) /\ sent \in Seq(QuestionLines) /\ kept \in Seq(QuestionLines)
    BY <1>2, TurnTypes
  <2>2. PICK front \in Seq(QuestionLines), one \in Seq(QuestionLines) :
          front = asking \o sent /\ one = <<line>>
    BY <1>7, <2>1, ConcatProperties, Single
  <2>3. front \o kept \in Seq(QuestionLines)
    BY <2>1, ConcatProperties
  <2>4. Append(front \o kept, line) = (front \o kept) \o one /\ Append(kept, line) = kept \o one
    BY <1>7, <2>1, <2>2, <2>3, AppendIsConcat
  <2>5. front \o Append(kept, line) = Append(front \o kept, line)
    <3>1. front \o (kept \o one) = (front \o kept) \o one
      BY <2>1, QuestionsRegroup, SMTT(30)
    <3> QED BY <2>4, <3>1, Zenon
  <2>6. InTurn(Append(q, line), g, Append(front \o kept, line), live)
    BY <1>3, <1>7, <2>2, TurnAsk
  <2> QED BY <1>4, <1>5, <1>7, <2>2, <2>5, <2>6 DEF TurnAt, Awaited
<1> QED BY <1>6, <1>7

\* The client passes a line on: it waits further ahead.
LEMMA PassedTurn ==
    ASSUME TypeOK, NEW c \in Conns, TurnAt(c), HandleCommand(c) PROVE TurnAt(c)'
<1>1. /\ commands[c] \in Seq(Requests \cup {Mistake}) /\ commands[c] # <<>>
      /\ toServer[c] \in Seq(Requests)
      /\ toServer'[c] = RequestsWith(c, Head(commands[c])) /\ commands'[c] = Tail(commands[c])
      /\ UNCHANGED <<phase, process, printed, toClient, typed>>
  BY DEF HandleCommand, TypeOK, sessionVars
<1>2. PICK h \in Requests \cup {Mistake} : h = Head(commands[c])
  BY <1>1, HeadTailProperties
<1>3. PICK asking, sent, kept, rest :
        /\ asking = Asking(c)
        /\ sent = Only(toServer[c], QuestionLines) /\ kept = Only(commands[c], QuestionLines)
        /\ rest = Only(Tail(commands[c]), QuestionLines)
  OBVIOUS
<1>4. /\ asking \in Seq(QuestionLines) /\ sent \in Seq(QuestionLines)
      /\ rest \in Seq(QuestionLines)
      /\ h \notin QuestionLines => kept = rest
      /\ h \in QuestionLines => kept = <<h>> \o rest
  BY <1>1, <1>2, <1>3, TurnTypes, FirstQuestion
<1>5. Only(toServer'[c], QuestionLines) = IF h \in QuestionLines THEN Append(sent, h) ELSE sent
  <2>1. CASE h = Mistake
    BY <1>1, <1>2, <1>3, <2>1, MistakeIsNone DEF RequestsWith
  <2>2. CASE h # Mistake
    <3>1. Only(Append(toServer[c], h), QuestionLines) =
              IF h \in QuestionLines THEN Append(Only(toServer[c], QuestionLines), h)
              ELSE Only(toServer[c], QuestionLines)
      BY <1>1, <2>2, OnlyAppend
    <3> QED BY <1>1, <1>2, <1>3, <2>2, <3>1 DEF RequestsWith
  <2> QED BY <2>1, <2>2
<1>6. Awaited(c)' = Awaited(c)
  <2>1. Awaited(c) = (asking \o sent) \o kept
    BY <1>3 DEF Awaited
  <2>2. Awaited(c)' = (asking \o (IF h \in QuestionLines THEN Append(sent, h) ELSE sent)) \o rest
    BY <1>1, <1>3, <1>5 DEF Awaited, Asking
  <2>3. CASE h \notin QuestionLines
    BY <1>4, <2>1, <2>2, <2>3
  <2>4. CASE h \in QuestionLines
    <3>1. PICK one \in Seq(QuestionLines) : one = <<h>> /\ Append(sent, h) = sent \o one
      BY <1>4, <2>4, AppendIsConcat, Single
    <3>2. PICK front \in Seq(QuestionLines) : front = asking \o sent
      BY <1>4, ConcatProperties
    <3>3. asking \o (sent \o one) = front \o one
      BY <1>4, <3>2, QuestionsRegroup
    <3>4. (front \o one) \o rest = front \o (one \o rest)
      BY <1>4, QuestionsRegroup
    <3> QED BY <1>4, <2>1, <2>2, <2>4, <3>1, <3>2, <3>3, <3>4
  <2> QED BY <2>3, <2>4
<1>7. Questions(c)' = Questions(c) /\ Given(c)' = Given(c) /\ Live(c)' = Live(c)
  BY <1>1 DEF Questions, Given, Live
<1> QED BY <1>6, <1>7 DEF TurnAt

\* What is shown was on its way; notices are no answers.
LEMMA ShownGiven ==
    ASSUME TypeOK, NEW c \in Conns, Show(c) PROVE Given(c)' = Given(c)
<1>1. /\ toClient[c] \in Seq(Responses) /\ toClient[c] # <<>> /\ printed[c] \in Seq(Responses)
      /\ toClient'[c] = Tail(toClient[c])
      /\ printed'[c] = IF IsNotice(Head(toClient[c])) THEN printed[c]
                       ELSE Append(printed[c], Head(toClient[c]))
  BY DEF Show, TypeOK
<1>2. PICK h \in Responses : h = Head(toClient[c])
  BY <1>1, HeadTailProperties
<1>3. PICK shown, coming, rest :
        /\ shown = Only(printed[c], AnswerResponses) /\ coming = Only(toClient[c], AnswerResponses)
        /\ rest = Only(Tail(toClient[c]), AnswerResponses)
  OBVIOUS
<1>4. /\ shown \in Seq(AnswerResponses) /\ rest \in Seq(AnswerResponses)
      /\ h \notin AnswerResponses => coming = rest
      /\ h \in AnswerResponses => coming = <<h>> \o rest
  BY <1>1, <1>2, <1>3, TurnTypes, FirstQuestion
<1>5. h \in AnswerResponses => ~ IsNotice(h)
  BY DEF AnswerResponses, IsNotice
<1>6. Only(printed'[c], AnswerResponses) = IF h \in AnswerResponses THEN Append(shown, h) ELSE shown
  <2>1. Only(Append(printed[c], h), AnswerResponses) =
            IF h \in AnswerResponses THEN Append(Only(printed[c], AnswerResponses), h)
            ELSE Only(printed[c], AnswerResponses)
    BY <1>1, OnlyAppend
  <2>2. CASE IsNotice(h)
    BY <1>1, <1>2, <1>3, <1>5, <2>2
  <2>3. CASE ~ IsNotice(h)
    BY <1>1, <1>2, <1>3, <2>1, <2>3
  <2> QED BY <2>2, <2>3
<1> QED
  <2>1. Given(c) = shown \o coming
    BY <1>3 DEF Given
  <2>2. Given(c)' = (IF h \in AnswerResponses THEN Append(shown, h) ELSE shown) \o rest
    BY <1>1, <1>3, <1>6 DEF Given
  <2>3. CASE h \notin AnswerResponses
    BY <1>4, <2>1, <2>2, <2>3
  <2>4. CASE h \in AnswerResponses
    <3>1. PICK one \in Seq(AnswerResponses) : one = <<h>> /\ Append(shown, h) = shown \o one
      BY <1>4, <2>4, AppendIsConcat, Single
    <3>2. (shown \o one) \o rest = shown \o (one \o rest)
      BY <1>4, Regroup
    <3> QED BY <1>4, <2>1, <2>2, <2>4, <3>1, <3>2
  <2> QED BY <2>3, <2>4

LEMMA ShownTurn ==
    ASSUME TypeOK, NEW c \in Conns, TurnAt(c), Show(c) PROVE TurnAt(c)'
<1>1. UNCHANGED <<phase, process, typed, commands, toServer>>
  BY DEF Show, sessionVars
<1>2. Given(c)' = Given(c)
  BY ShownGiven
<1>3. Questions(c)' = Questions(c) /\ Awaited(c)' = Awaited(c) /\ Live(c)' = Live(c)
  BY <1>1 DEF Questions, Awaited, Asking, Live
<1> QED BY <1>2, <1>3 DEF TurnAt

\* The last of the answers on their way are lost, with the client or the session.
LEMMA LostGiven ==
    ASSUME TypeOK, NEW c \in Conns, UNCHANGED printed,
           NEW n \in 0..Len(toClient[c]), toClient'[c] = SubSeq(toClient[c], 1, n)
    PROVE  \E kept, lost \in Seq(AnswerResponses) : Given(c)' = kept /\ Given(c) = kept \o lost
<1>1. toClient[c] \in Seq(Responses)
  BY DEF TypeOK
<1>2. PICK first, second \in Seq(Responses) :
        first = SubSeq(toClient[c], 1, n) /\ toClient[c] = first \o second
  <2>1. /\ SubSeq(toClient[c], 1, n) \in Seq(Responses)
        /\ SubSeq(toClient[c], n + 1, Len(toClient[c])) \in Seq(Responses)
        /\ SubSeq(toClient[c], 1, n) \o SubSeq(toClient[c], n + 1, Len(toClient[c])) = toClient[c]
    BY <1>1, CutInTwo
  <2> QED BY <2>1
<1>3. PICK shown, kept, lost \in Seq(AnswerResponses) :
        /\ shown = Only(printed[c], AnswerResponses) /\ kept = Only(first, AnswerResponses)
        /\ lost = Only(second, AnswerResponses)
        /\ Only(toClient[c], AnswerResponses) = kept \o lost
  <2>1. Only(first \o second, AnswerResponses) =
            Only(first, AnswerResponses) \o Only(second, AnswerResponses)
    BY OnlyConcat
  <2>2. /\ Only(first, AnswerResponses) \in Seq(AnswerResponses)
        /\ Only(second, AnswerResponses) \in Seq(AnswerResponses)
    BY OnlyIn
  <2> QED BY <1>2, <2>1, <2>2, TurnTypes
<1>4. Given(c) = (shown \o kept) \o lost
  <2>1. shown \o (kept \o lost) = (shown \o kept) \o lost
    BY Regroup, SMTT(30)
  <2> QED BY <1>3, <2>1 DEF Given
<1>5. Given(c)' = shown \o kept /\ shown \o kept \in Seq(AnswerResponses)
  BY <1>2, <1>3, ConcatProperties DEF Given
<1> QED BY <1>4, <1>5

LEMMA LostTurn ==
    ASSUME TypeOK, NEW c \in Conns, TurnAt(c), UNCHANGED <<typed, printed>>, ~ Live(c)',
           NEW n \in 0..Len(toClient[c]), toClient'[c] = SubSeq(toClient[c], 1, n)
    PROVE  TurnAt(c)'
<1>1. PICK kept, lost \in Seq(AnswerResponses) : Given(c)' = kept /\ Given(c) = kept \o lost
  BY LostGiven
<1>2. Questions(c)' = Questions(c)
  BY DEF Questions
<1>3. PICK q, w, live, v, more :
        /\ q = Questions(c) /\ w = Awaited(c) /\ live = Live(c) /\ v = Awaited(c)'
        /\ more = Live(c)' /\ ~ more
  OBVIOUS
<1>4. InTurn(q, kept \o lost, w, live)
  BY <1>1, <1>3 DEF TurnAt
<1>5. InTurn(q, kept, v, FALSE)
  BY <1>4, TurnCut
<1>6. InTurn(q, kept, v, more)
  BY <1>3, <1>5 DEF InTurn
<1> QED BY <1>1, <1>2, <1>3, <1>6 DEF TurnAt

\* The session takes a question from the wire.
LEMMA WireTurn ==
    ASSUME TypeOK, NEW c \in Conns, phase[c] = "running", NEW cmd, Request(c, cmd)
    PROVE  /\ Head(toServer[c]) \in Requests /\ Head(toServer[c]).cmd = cmd
           /\ Asking(c) = <<>> /\ process' = process
           /\ Only(toServer'[c], QuestionLines) \in Seq(QuestionLines)
           /\ UNCHANGED <<typed, printed, commands>>
           /\ Head(toServer[c]) \notin QuestionLines =>
                 Only(toServer[c], QuestionLines) = Only(toServer'[c], QuestionLines)
           /\ Head(toServer[c]) \in QuestionLines =>
                 Only(toServer[c], QuestionLines)
                     = <<Head(toServer[c])>> \o Only(toServer'[c], QuestionLines)
<1>1. /\ toServer[c] \in Seq(Requests) /\ toServer[c] # <<>> /\ toServer'[c] = Tail(toServer[c])
      /\ UNCHANGED <<process, typed, printed, commands>>
  BY DEF TypeOK, Request, clientVars
<1>2. Asking(c) = <<>>
  BY DEF Asking
<1> QED BY <1>1, <1>2, RequestType, FirstQuestion

\* The rooms are asked for: the question has left the wire, and the session waits.
LEMMA ListedTurn ==
    ASSUME TypeOK, NEW c \in Conns, TurnAt(c), SessionList(c) PROVE TurnAt(c)'
<1>1. PICK h \in Requests : h = Head(toServer[c])
  BY WireTurn DEF SessionList, Request
<1>2. h = List /\ h \in QuestionLines
  BY <1>1, WireTurn, RequestKinds DEF SessionList, Request
<1>3. PICK sent, rest, kept \in Seq(QuestionLines) :
        /\ sent = Only(toServer[c], QuestionLines) /\ rest = Only(toServer'[c], QuestionLines)
        /\ kept = Only(commands[c], QuestionLines) /\ sent = <<h>> \o rest
  BY <1>1, <1>2, WireTurn, TurnTypes DEF SessionList, Request
<1>4. Asking(c) = <<>> /\ Asking(c)' = <<List>>
  BY WireTurn DEF SessionList, Request, Goto, TypeOK, ChatTypeOK, Asking
<1>5. Awaited(c)' = Awaited(c)
  <2>1. Awaited(c) = (<<>> \o sent) \o kept
    BY <1>3, <1>4 DEF Awaited
  <2>2. Awaited(c)' = (<<h>> \o rest) \o kept
    BY <1>2, <1>3, <1>4, WireTurn DEF Awaited, SessionList, Request
  <2>3. <<>> \o sent = sent
    BY ConcatEmptySeq
  <2> QED BY <1>3, <2>1, <2>2, <2>3
<1>6. Questions(c)' = Questions(c) /\ Given(c)' = Given(c)
  BY WireTurn DEF SessionList, Request, Questions, Given
<1>7. Live(c)' = Live(c)
  BY WireTurn DEF SessionList, Request, Live, Goto, TypeOK, ChatTypeOK
<1> QED BY <1>5, <1>6, <1>7 DEF TurnAt

\* What is said is neither a question nor an answer.
LEMMA SaidTurn ==
    ASSUME TypeOK, NEW c \in Conns, TurnAt(c), SessionMessage(c) PROVE TurnAt(c)'
<1>1. PICK h \in Requests : h = Head(toServer[c]) /\ h \notin QuestionLines
  BY WireTurn, RequestKinds DEF SessionMessage, Request
<1>2. Awaited(c)' = Awaited(c)
  BY <1>1, WireTurn DEF SessionMessage, Request, Awaited, Asking
<1>3. Questions(c)' = Questions(c) /\ Given(c)' = Given(c) /\ Live(c)' = Live(c)
  BY WireTurn DEF SessionMessage, Request, Questions, Given, Live
<1> QED BY <1>2, <1>3 DEF TurnAt

\* A text for the peer is no answer.
LEMMA DeliveredGiven ==
    ASSUME TypeOK, NEW c \in Conns, Deliver(c) PROVE Given(c)' = Given(c)
<1>1. UNCHANGED printed /\ toClient[c] \in Seq(Responses)
  BY DEF Deliver, clientVars, TypeOK
<1>2. PICK r \in Responses : r = Text(Head(mailbox[c])) /\ r \notin AnswerResponses
  <2>1. PICK t \in Texts : t = Head(mailbox[c])
    BY TakeHead DEF Deliver, TypeOK, ChatTypeOK
  <2>2. Text(t) \in Responses /\ Text(t).kind = "message"
    BY DEF Text, Responses
  <2>3. \A a \in AnswerResponses : a.kind # "message"
    BY DEF AnswerResponses
  <2> QED BY <2>1, <2>2, <2>3
<1>3. Only(Append(toClient[c], r), AnswerResponses) = Only(toClient[c], AnswerResponses)
  BY <1>1, <1>2, OnlyAppend
<1>4. toClient'[c] \in {toClient[c], Append(toClient[c], r)}
  BY <1>2 DEF Deliver, Respond, TypeOK
<1> QED BY <1>1, <1>3, <1>4 DEF Given

LEMMA DeliveredTurn ==
    ASSUME TypeOK, NEW c \in Conns, TurnAt(c), Deliver(c) PROVE TurnAt(c)'
<1>1. UNCHANGED <<phase, process, typed, commands, toServer>>
  BY DEF Deliver, sessionVars, clientVars
<1>2. Given(c)' = Given(c)
  BY DeliveredGiven
<1>3. Questions(c)' = Questions(c) /\ Awaited(c)' = Awaited(c) /\ Live(c)' = Live(c)
  BY <1>1 DEF Questions, Awaited, Asking, Live
<1> QED BY <1>2, <1>3 DEF TurnAt

\* An answer is written.  If the client has ended it is lost.
LEMMA AnsweredGiven ==
    ASSUME TypeOK, NEW c \in Conns, NEW a \in AnswerResponses, Respond(c, a), UNCHANGED printed
    PROVE  Given(c)' = IF process[c] = "over" THEN Given(c) ELSE Append(Given(c), a)
<1>1. CASE process[c] = "over"
  BY <1>1 DEF Given, Respond
<1>2. CASE process[c] # "over"
  <2>1. toClient'[c] = Append(toClient[c], a) /\ toClient[c] \in Seq(Responses) /\ a \in Responses
    BY <1>2 DEF Respond, TypeOK, Responses
  <2>2. PICK shown, coming \in Seq(AnswerResponses) :
          shown = Only(printed[c], AnswerResponses) /\ coming = Only(toClient[c], AnswerResponses)
    BY TurnTypes
  <2>3. Only(Append(toClient[c], a), AnswerResponses) = Append(coming, a)
    BY <2>1, <2>2, OnlyAppend
  <2>4. PICK given \in Seq(AnswerResponses) : given = Given(c) /\ given = shown \o coming
    BY <2>2, TurnTypes DEF Given
  <2>5. Given(c)' = shown \o Append(coming, a)
    BY <2>1, <2>2, <2>3 DEF Given
  <2>6. PICK one \in Seq(AnswerResponses) : one = <<a>>
    BY Single
  <2>7. Append(coming, a) = coming \o one /\ Append(given, a) = given \o one
    BY <2>6, AppendIsConcat
  <2>8. shown \o (coming \o one) = (shown \o coming) \o one
    BY Regroup
  <2> QED BY <1>2, <2>4, <2>5, <2>7, <2>8
<1> QED BY <1>1, <1>2

LEMMA AnsweredTurn ==
    ASSUME TypeOK, NEW c \in Conns, TurnAt(c), NEW q \in QuestionLines,
           NEW rest \in Seq(QuestionLines), NEW kept \in Seq(QuestionLines),
           Awaited(c) = (<<q>> \o rest) \o kept, Awaited(c)' = rest \o kept,
           NEW a \in AnswerResponses, Fits(a, q), Respond(c, a),
           phase[c] # "stopped", phase'[c] # "stopped",
           UNCHANGED <<typed, printed, process>>
    PROVE  TurnAt(c)'
<1>1. PICK asked, given, waiting :
        asked = Questions(c) /\ given = Given(c) /\ waiting = rest \o kept
  OBVIOUS
<1>2. waiting \in Seq(QuestionLines) /\ given \in Seq(AnswerResponses)
  BY <1>1, ConcatProperties, TurnTypes
<1>3. Questions(c)' = asked /\ Live(c)' = Live(c) /\ Live(c) \in BOOLEAN
  BY <1>1 DEF Questions, Live
<1>4. Awaited(c) = <<q>> \o waiting
  <2>1. PICK one \in Seq(QuestionLines) : one = <<q>>
    BY Single
  <2>2. one \o (rest \o kept) = (one \o rest) \o kept
    BY QuestionsRegroup
  <2> QED BY <1>1, <2>1, <2>2
<1>5. InTurn(asked, given, <<q>> \o waiting, Live(c))
  BY <1>1, <1>4 DEF TurnAt
<1>6. CASE process[c] = "over"
  <2>1. Given(c)' = given
    BY <1>1, <1>6, AnsweredGiven
  <2>2. Live(c) = FALSE
    BY <1>6 DEF Live
  <2>3. InTurn(asked, given, waiting, FALSE)
    BY <1>5, <2>2, TurnLoss
  <2> QED BY <1>1, <1>3, <2>1, <2>2, <2>3 DEF TurnAt
<1>7. CASE process[c] # "over"
  <2>1. Given(c)' = Append(given, a)
    BY <1>1, <1>7, AnsweredGiven
  <2>2. Live(c) = TRUE
    BY <1>7 DEF Live
  <2>3. InTurn(asked, Append(given, a), waiting, TRUE)
    BY <1>2, <1>5, <2>2, TurnAnswer
  <2> QED BY <1>1, <1>3, <2>1, <2>2, <2>3 DEF TurnAt
<1> QED BY <1>6, <1>7

\* A join is answered at once.
LEMMA JoinedTurn ==
    ASSUME TypeOK, NEW c \in Conns, TurnAt(c), SessionJoin(c) PROVE TurnAt(c)'
<1>1. PICK h \in Requests : h = Head(toServer[c])
  BY WireTurn DEF SessionJoin, Request
<1>2. h.cmd = "join" /\ h \in QuestionLines /\ h.room \in Rooms
  BY <1>1, WireTurn, RequestKinds DEF SessionJoin, Request
<1>3. PICK sent, rest, kept \in Seq(QuestionLines) :
        /\ sent = Only(toServer[c], QuestionLines) /\ rest = Only(toServer'[c], QuestionLines)
        /\ kept = Only(commands[c], QuestionLines) /\ sent = <<h>> \o rest
  BY <1>1, <1>2, WireTurn, TurnTypes DEF SessionJoin, Request
<1>4. /\ Asking(c) = <<>> /\ Asking(c)' = <<>>
      /\ UNCHANGED <<typed, printed, process, commands, phase>> /\ phase[c] # "stopped"
  BY WireTurn DEF SessionJoin, Request, Asking
<1>5. <<>> \o sent = sent /\ <<>> \o rest = rest
  BY ConcatEmptySeq
<1>6. Awaited(c) = (<<h>> \o rest) \o kept /\ Awaited(c)' = rest \o kept
  BY <1>3, <1>4, <1>5 DEF Awaited
<1>7. PICK a \in AnswerResponses : a = Joined(h.room)
  BY <1>2 DEF Joined, AnswerResponses
<1>8. Fits(a, h) /\ Respond(c, a)
  BY <1>1, <1>2, <1>7 DEF Fits, SessionJoin
<1> QED BY <1>2, <1>4, <1>6, <1>8, AnsweredTurn

\* The rooms are written: the session waits no more.
LEMMA RoomsTurn ==
    ASSUME TypeOK, NEW c \in Conns, TurnAt(c), TakeRooms(c) PROVE TurnAt(c)'
<1>1. /\ UNCHANGED <<typed, printed, process, commands, toServer>>
      /\ phase[c] = "listing" /\ phase'[c] = "running"
  BY DEF TakeRooms, clientVars, Goto, TypeOK, ChatTypeOK
<1>2. PICK q \in QuestionLines : q = List /\ q.cmd = "list"
  <2>1. List \in QuestionLines /\ List.cmd = "list"
    BY DEF QuestionLines, List
  <2> QED BY <2>1
<1>3. PICK sent, kept \in Seq(QuestionLines) :
        /\ sent = Only(toServer[c], QuestionLines) /\ kept = Only(commands[c], QuestionLines)
  BY TurnTypes
<1>4. Asking(c) = <<q>> /\ Asking(c)' = <<>>
  BY <1>1, <1>2 DEF Asking
<1>5. <<>> \o sent = sent
  BY ConcatEmptySeq
<1>6. Awaited(c) = (<<q>> \o sent) \o kept /\ Awaited(c)' = sent \o kept
  BY <1>1, <1>3, <1>4, <1>5 DEF Awaited
<1>7. PICK a \in AnswerResponses : a = RoomList(reply[c].names) /\ a.kind = "rooms"
  <2>1. PICK names \in SUBSET Rooms : names = reply[c].names
    BY ReplyKinds DEF TakeRooms, TypeOK, ChatTypeOK
  <2>2. RoomList(names) \in AnswerResponses /\ RoomList(names).kind = "rooms"
    BY DEF RoomList, AnswerResponses
  <2> QED BY <2>1, <2>2
<1>8. Fits(a, q) /\ Respond(c, a)
  BY <1>2, <1>7 DEF Fits, TakeRooms
<1> QED BY <1>1, <1>6, <1>8, AnsweredTurn

\* A step of one console leaves the others alone.
LEMMA Elsewhere ==
    ASSUME TypeOK, NEW c \in Conns, Session(c) \/ Client(c) \/ User(c), NEW d \in Conns, d # c
    PROVE  /\ phase'[d] = phase[d] /\ process'[d] = process[d]
           /\ sid'[d] = sid[d] /\ room'[d] = room[d]
           /\ toServer'[d] = toServer[d] /\ toClient'[d] = toClient[d]
           /\ commands'[d] = commands[d] /\ typed'[d] = typed[d] /\ printed'[d] = printed[d]
           /\ mailbox'[d] = mailbox[d] /\ reply'[d] = reply[d]
<1> USE DEF TypeOK, ChatTypeOK
<1>1. CASE Client(c)
  BY <1>1 DEF Client, ClientPings, HandleCommand, Show, Disconnected, serverVars, sessionVars, wires
<1>2. CASE User(c)
  <2>1. CASE SomeLine(c)
    BY <2>1 DEF SomeLine, ReadLine, serverVars, sessionVars, wires
  <2>2. CASE Kill(c)
    BY <2>2 DEF Kill, serverVars, sessionVars
  <2> QED BY <1>2, <2>1, <2>2 DEF User, ConsoleStarts, CutOff, ComeBack, serverVars, sessionVars,
                                  wires
<1>3. CASE Accept(c) \/ TakeId(c) \/ StreamEnds(c) \/ PeerInTime(c) \/ PeerLate(c) \/ Stop(c)
  <2>1. UNCHANGED clientVars
    BY <1>3, SessionKeeps DEF Session
  <2>2. CASE Stop(c)
    BY <2>1, <2>2 DEF Stop, Goto, clientVars
  <2>3. CASE Accept(c) \/ TakeId(c)
    BY <2>1, <2>3 DEF Accept, TakeId, Goto, clientVars, wires
  <2>4. CASE StreamEnds(c)
    BY <2>1, <2>4 DEF StreamEnds, Goto, serverVars, clientVars, wires
  <2>5. CASE PeerInTime(c) \/ PeerLate(c)
    BY <2>1, <2>5 DEF PeerInTime, PeerLate, Check, Goto, clientVars, wires
  <2> QED BY <1>3, <2>2, <2>3, <2>4, <2>5
<1>4. CASE SessionList(c) \/ SessionJoin(c) \/ SessionMessage(c)
  BY <1>4, SMTT(30) DEF SessionList, SessionJoin, SessionMessage, Request, Respond, Goto, clientVars
<1>5. CASE TakeRooms(c) \/ Deliver(c)
  BY <1>5, SMTT(30) DEF TakeRooms, Deliver, Respond, Goto, clientVars, sessionVars
<1> QED BY <1>1, <1>2, <1>3, <1>4, <1>5 DEF Session

TurnInv == \A c \in Conns : TurnAt(c)

LEMMA InitTurn == Init => TurnInv
<1> SUFFICES ASSUME Init, NEW c \in Conns PROVE TurnAt(c)
  BY DEF TurnInv
<1>1. /\ typed[c] = <<>> /\ printed[c] = <<>> /\ toClient[c] = <<>> /\ toServer[c] = <<>>
      /\ commands[c] = <<>> /\ phase[c] = "absent"
  BY DEF Init, ChatInit
<1>2. PICK none \in Seq(QuestionLines) : none = <<>> /\ Len(none) = 0
  BY EmptySeq
<1>3. \A T : Only(<<>>, T) = <<>>
  BY OnlyEmpty
<1>4. <<>> \o <<>> = <<>>
  BY EmptySeq, ConcatEmptySeq
<1>5. Questions(c) = none /\ Given(c) = none /\ Awaited(c) = none
  BY <1>1, <1>2, <1>3, <1>4 DEF Questions, Given, Awaited, Asking
<1>6. PICK live : live = Live(c)
  OBVIOUS
<1>7. InTurn(none, none, none, live)
  <2>1. none = none \o none /\ \A i \in 1..Len(none) : FALSE
    BY <1>2, <1>4
  <2>2. /\ none = none \o none /\ Len(none) = Len(none)
        /\ \A i \in 1..Len(none) : Fits(none[i], none[i])
        /\ live => none = none
    BY <2>1
  <2> QED BY <2>2 DEF InTurn
<1> QED BY <1>5, <1>6, <1>7 DEF TurnAt

\* Nothing of the session's end, or of its waiting for the id, is an answer.
LEMMA QuietTurn ==
    ASSUME TypeOK, NEW c \in Conns, TurnAt(c),
           \/ Accept(c) \/ TakeId(c) \/ PeerInTime(c) \/ PeerLate(c) \/ StreamEnds(c)
           \/ ClientPings(c) \/ Disconnected(c) \/ ConsoleStarts(c) \/ CutOff(c) \/ ComeBack(c)
    PROVE  TurnAt(c)'
<1>1. UNCHANGED <<toServer, toClient, commands, typed, printed>>
  BY DEF Accept, TakeId, PeerInTime, PeerLate, Check, StreamEnds, ClientPings, Disconnected,
         ConsoleStarts, CutOff, ComeBack, wires, clientVars
<1>2. Asking(c)' = Asking(c)
  BY DEF Accept, TakeId, PeerInTime, PeerLate, Check, StreamEnds, ClientPings, Disconnected,
         ConsoleStarts, CutOff, ComeBack, sessionVars, Goto, TypeOK, ChatTypeOK, Asking
<1>3. Live(c)' => Live(c)
  BY DEF Accept, TakeId, PeerInTime, PeerLate, Check, StreamEnds, ClientPings, Disconnected,
         ConsoleStarts, CutOff, ComeBack, sessionVars, clientVars, Goto, TypeOK, ChatTypeOK, Live
<1> QED BY <1>1, <1>2, <1>3, TurnKept

LEMMA TurnStep == ASSUME TypeOK, TurnInv, [Next]_vars PROVE TurnInv'
<1>1. ASSUME NEW c \in Conns, Session(c) PROVE TurnAt(c)'
  <2>1. TurnAt(c)
    BY DEF TurnInv
  <2>2. CASE Stop(c)
    <3>1. UNCHANGED <<typed, printed>> /\ ~ Live(c)'
      BY <2>2 DEF Stop, clientVars, Goto, TypeOK, ChatTypeOK, Live
    <3>2. PICK n \in 0..Len(toClient[c]) : toClient'[c] = SubSeq(toClient[c], 1, n)
      BY <2>2 DEF Stop, TypeOK
    <3> QED BY <2>1, <3>1, <3>2, LostTurn
  <2> QED BY <1>1, <2>1, <2>2, QuietTurn, ListedTurn, JoinedTurn, SaidTurn, RoomsTurn,
             DeliveredTurn DEF Session
<1>2. ASSUME NEW c \in Conns, Client(c) PROVE TurnAt(c)'
  BY <1>2, QuietTurn, PassedTurn, ShownTurn DEF Client, TurnInv
<1>3. ASSUME NEW c \in Conns, User(c) PROVE TurnAt(c)'
  <2>1. TurnAt(c)
    BY DEF TurnInv
  <2>2. CASE Kill(c)
    <3>1. UNCHANGED <<typed, printed>> /\ ~ Live(c)' /\ toClient'[c] = <<>>
      BY <2>2 DEF Kill, TypeOK, Live
    <3>2. 0 \in 0..Len(toClient[c]) /\ SubSeq(toClient[c], 1, 0) = <<>>
      BY LenProperties, SubSeqEmpty DEF TypeOK
    <3> QED BY <2>1, <3>1, <3>2, LostTurn
  <2>3. ASSUME NEW line \in {List, Say(lines + 1), Mistake} \cup {JoinRoom(r) : r \in Rooms},
               ReadLine(c, line)
        PROVE  TurnAt(c)'
    <3>1. lines + 1 \in 1..MaxRequests
      BY <2>3, RequestsAssumption DEF ReadLine, TypeOK
    <3>2. line \in Requests \cup {Mistake}
      BY <2>3, <3>1 DEF Requests, QuestionLines
    <3> QED BY <2>1, <2>3, <3>2, TypedTurn
  <2> QED BY <1>3, <2>1, <2>2, <2>3, QuietTurn DEF User, SomeLine
<1>4. ASSUME NEW c \in Conns, Session(c) \/ Client(c) \/ User(c) PROVE TurnInv'
  <2> SUFFICES ASSUME NEW d \in Conns PROVE TurnAt(d)'
    BY DEF TurnInv
  <2>1. CASE d = c
    BY <1>1, <1>2, <1>3, <1>4, <2>1
  <2>2. CASE d # c
    <3>1. /\ phase'[d] = phase[d] /\ process'[d] = process[d]
          /\ toServer'[d] = toServer[d] /\ toClient'[d] = toClient[d]
          /\ commands'[d] = commands[d] /\ typed'[d] = typed[d] /\ printed'[d] = printed[d]
      BY <1>4, <2>2, Elsewhere
    <3> QED BY <3>1, TurnKept DEF TurnInv, Live, Asking
  <2> QED BY <2>1, <2>2
<1>5. CASE Server \/ UNCHANGED vars
  <2>1. UNCHANGED <<phase, process, toServer, toClient, commands, typed, printed>>
    BY <1>5 DEF Server, vars, sessionVars, clientVars, wires
  <2> SUFFICES ASSUME NEW d \in Conns PROVE TurnAt(d)'
    BY DEF TurnInv
  <2> QED BY <2>1, TurnKept DEF TurnInv, Live, Asking
<1> QED BY <1>4, <1>5 DEF Next

-----------------------------------------------------------------------------
(* A list has the rooms that were joined before it                           *)

\* Every room that the answers g say was joined is one of names.
JoinsIn(g, names) == \A i \in DOMAIN g : g[i].kind = "joined" => g[i].room \in names

\* Each list among the answers g has the rooms joined before it.
ListsShow(g) ==
    \A k \in DOMAIN g : g[k].kind = "rooms" =>
        \A i \in 1..(k - 1) : g[i].kind = "joined" => g[i].room \in g[k].names

\* The rooms that a list asked for by c from now on will have.
Settled(c) == DOMAIN rooms \cup {r \in Rooms : JoinAhead(c, r)}

SeenAt(c) ==
    /\ JoinsIn(Given(c), Settled(c))
    /\ reply[c].type = "Rooms" => JoinsIn(Given(c), reply[c].names)
    /\ ListsShow(Given(c))

SeenInv == \A c \in Conns : SeenAt(c)

\* A session adds at most one message, at the end.
LEMMA SessionPosts ==
    ASSUME TypeOK, TalkInv, NEW c \in Conns, Session(c)
    PROVE  UNCHANGED inbox \/ \E m \in Messages : Added(m)
<1>1. inbox \in Seq(Messages) /\ serverUp /\ HasId
  BY IdsHeld DEF TypeOK, ChatTypeOK, TalkInv
<1>2. \A m \in Messages : Post(m) => Added(m)
  BY <1>1, PostAppends
<1>3. CASE Accept(c) \/ SessionList(c) \/ PeerLate(c) \/ Stop(c)
  BY <1>2, <1>3, PostedMessages DEF Accept, SessionList, PeerLate, Stop, TypeOK
<1>4. CASE SessionJoin(c)
  <2>1. Head(toServer[c]).room \in Rooms
    BY <1>4, RequestType, RequestKinds DEF SessionJoin
  <2> QED BY <1>1, <1>2, <1>4, <2>1, PostedMessages DEF SessionJoin, Request, HasId, TypeOK
<1>5. CASE SessionMessage(c)
  <2>1. Head(toServer[c]).n \in 1..MaxRequests
    BY <1>5, RequestType, RequestKinds DEF SessionMessage
  <2> QED BY <1>1, <1>2, <1>5, <2>1, PostedMessages DEF SessionMessage, Request, HasId, TypeOK
<1>6. CASE TakeId(c) \/ TakeRooms(c) \/ Deliver(c) \/ PeerInTime(c) \/ StreamEnds(c)
  BY <1>6 DEF TakeId, TakeRooms, Deliver, PeerInTime, StreamEnds, serverVars
<1> QED BY <1>3, <1>4, <1>5, <1>6 DEF Session

\* What will be listed stays so.
LEMMA SettledGrows ==
    ASSUME Conversing, [Next]_vars, NEW c PROVE Settled(c) \subseteq Settled(c)'
<1>1. CASE Server
  BY <1>1, ServerIsStep, RoomsGrow DEF Conversing, Settled
<1>2. ASSUME NEW d \in Conns, Session(d) PROVE Settled(c) \subseteq Settled(c)'
  <2>1. UNCHANGED rooms
    BY <1>2, SessionKeeps DEF Registry
  <2>2. CASE UNCHANGED inbox
    BY <2>1, <2>2 DEF Settled, JoinAhead, ListRooms
  <2>3. ASSUME NEW m \in Messages, Added(m) PROVE Settled(c) \subseteq Settled(c)'
    BY <2>1, <2>3, AheadKept DEF Settled
  <2> QED BY <1>2, <2>2, <2>3, SessionPosts DEF Conversing
<1>3. CASE UNCHANGED vars \/ \E d \in Conns : Client(d) \/ User(d)
  <2>1. UNCHANGED <<rooms, inbox>>
    BY <1>3, ClientKeepsType DEF Conversing, vars, serverVars
  <2> QED BY <2>1 DEF Settled, JoinAhead, ListRooms
<1> QED BY <1>1, <1>2, <1>3 DEF Next

\* What is added at the end of the answers.
LEMMA JoinsAppend ==
    ASSUME NEW S, NEW g \in Seq(S), NEW a \in S, NEW names, JoinsIn(g, names),
           a.kind = "joined" => a.room \in names
    PROVE  JoinsIn(Append(g, a), names)
<1>1. PICK h \in Seq(S), n \in Nat : h = Append(g, a) /\ n = Len(g)
  BY AppendProperties, LenProperties
<1>2. Len(h) = n + 1 /\ h[n + 1] = a /\ \A i \in 1..n : h[i] = g[i]
  BY <1>1, AppendProperties
<1>3. DOMAIN h = 1..(n + 1) /\ DOMAIN g = 1..n
  BY <1>1, <1>2, LenProperties
<1>4. JoinsIn(h, names)
  BY <1>2, <1>3 DEF JoinsIn
<1> QED BY <1>1, <1>4

LEMMA ListsAppend ==
    ASSUME NEW S, NEW g \in Seq(S), NEW a \in S, ListsShow(g),
           a.kind = "rooms" => JoinsIn(g, a.names)
    PROVE  ListsShow(Append(g, a))
<1>1. PICK h \in Seq(S), n \in Nat : h = Append(g, a) /\ n = Len(g)
  BY AppendProperties, LenProperties
<1>2. Len(h) = n + 1 /\ h[n + 1] = a /\ \A i \in 1..n : h[i] = g[i]
  BY <1>1, AppendProperties
<1>3. DOMAIN h = 1..(n + 1) /\ DOMAIN g = 1..n
  BY <1>1, <1>2, LenProperties
<1>4. ASSUME NEW k \in 1..(n + 1), h[k].kind = "rooms", NEW i \in 1..(k - 1), h[i].kind = "joined"
      PROVE  h[i].room \in h[k].names
  <2>1. i \in 1..n /\ h[i] = g[i]
    BY <1>2
  <2>2. CASE k = n + 1
    BY <1>2, <1>3, <1>4, <2>1, <2>2 DEF JoinsIn
  <2>3. CASE k # n + 1
    <3>1. k \in 1..n /\ h[k] = g[k]
      BY <1>2, <2>3
    <3> QED BY <1>3, <1>4, <2>1, <3>1 DEF ListsShow
  <2> QED BY <2>2, <2>3
<1>5. ListsShow(h)
  BY <1>3, <1>4 DEF ListsShow
<1> QED BY <1>1, <1>5

\* What is lost at the end of the answers.
LEMMA SeenCut ==
    ASSUME NEW S, NEW g \in Seq(S), NEW l \in Seq(S)
    PROVE  /\ \A names : JoinsIn(g \o l, names) => JoinsIn(g, names)
           /\ ListsShow(g \o l) => ListsShow(g)
<1>1. PICK h \in Seq(S), m \in Nat, n \in Nat :
        h = g \o l /\ m = Len(g) /\ n = Len(l) /\ Len(h) = m + n
  <2>1. g \o l \in Seq(S) /\ Len(g \o l) = Len(g) + Len(l)
    BY ConcatProperties
  <2>2. Len(g) \in Nat /\ Len(l) \in Nat
    BY LenProperties
  <2> QED BY <2>1, <2>2
<1>2. \A i \in 1..m : h[i] = g[i]
  BY <1>1, ConcatProperties
<1>3. DOMAIN h = 1..(m + n) /\ DOMAIN g = 1..m
  BY <1>1, LenProperties
<1>4. \A names : JoinsIn(h, names) => JoinsIn(g, names)
  BY <1>2, <1>3 DEF JoinsIn
<1>5. ListsShow(h) => ListsShow(g)
  <2> SUFFICES ASSUME ListsShow(h), NEW k \in 1..m, g[k].kind = "rooms",
                      NEW i \in 1..(k - 1), g[i].kind = "joined"
               PROVE  g[i].room \in g[k].names
    BY <1>3 DEF ListsShow
  <2>1. i \in 1..m /\ k \in DOMAIN h /\ h[i] = g[i] /\ h[k] = g[k]
    BY <1>2, <1>3
  <2> QED BY <2>1 DEF ListsShow
<1> QED BY <1>1, <1>4, <1>5

LEMMA InitSeen == Init => SeenInv
<1> SUFFICES ASSUME Init, NEW c \in Conns PROVE SeenAt(c)
  BY DEF SeenInv
<1>1. printed[c] = <<>> /\ toClient[c] = <<>> /\ reply[c].type # "Rooms"
  BY DEF Init, ChatInit, NoReply
<1>2. <<>> \o <<>> = <<>> /\ DOMAIN <<>> = {}
  BY EmptySeq, ConcatEmptySeq
<1>3. Given(c) = <<>>
  BY <1>1, <1>2, OnlyEmpty DEF Given
<1> QED BY <1>1, <1>2, <1>3 DEF SeenAt, JoinsIn, ListsShow

\* Where no answer is written and no reply comes, nothing is unlearnt.
LEMMA SeenKept ==
    ASSUME Conversing, [Next]_vars, NEW c \in Conns, SeenAt(c), Given(c)' = Given(c),
           reply'[c] = reply[c] \/ reply'[c] = NoReply
    PROVE  SeenAt(c)'
<1>1. PICK g, more : g = Given(c) /\ more = Settled(c)'
  OBVIOUS
<1>2. JoinsIn(g, more)
  BY <1>1, SettledGrows DEF SeenAt, JoinsIn
<1>3. reply'[c].type = "Rooms" => JoinsIn(g, reply'[c].names)
  BY <1>1 DEF SeenAt, NoReply
<1>4. ListsShow(g)
  BY <1>1 DEF SeenAt
<1> QED BY <1>1, <1>2, <1>3, <1>4 DEF SeenAt

\* A join that is answered is ahead of what the session asks next.
LEMMA JoinedSeen ==
    ASSUME Conversing, [Next]_vars, NEW c \in Conns, SeenAt(c), SessionJoin(c)
    PROVE  SeenAt(c)'
<1>0. PICK more : more = Settled(c)'
  OBVIOUS
<1>1. PICK r \in Rooms : r = Head(toServer[c]).room
  BY RequestType, RequestKinds DEF SessionJoin, Conversing
<1>2. PICK g \in Seq(AnswerResponses) : g = Given(c)
  BY TurnTypes DEF Conversing
<1>3. reply[c] = NoReply /\ reply'[c] = NoReply
  BY DEF SessionJoin, Request, Conversing, TalkInv, RepliesMatch
<1>4. JoinsIn(g, more) /\ ListsShow(g)
  BY <1>0, <1>2, SettledGrows DEF SeenAt, JoinsIn
<1>5. r \in more
  <2>1. phase[c] = "running" /\ Post(Join(sid[c], r)) /\ serverUp /\ inbox \in Seq(Messages)
    BY <1>1 DEF SessionJoin, Request, Conversing, TypeOK, ChatTypeOK
  <2>2. sid[c] \in Ids
    BY <2>1, IdsHeld DEF Conversing, TalkInv, HasId
  <2>3. Join(sid[c], r) \in Messages
    BY <2>2, PostedMessages DEF Conversing, TypeOK
  <2>4. Added(Join(sid[c], r))
    BY <2>1, <2>3, PostAppends
  <2>5. JoinAhead(c, r)'
    BY <2>1, <2>4, AheadPosted DEF Conversing
  <2> QED BY <1>0, <2>5 DEF Settled
<1>6. PICK a \in AnswerResponses : a = Joined(r) /\ a.kind = "joined" /\ a.room = r
  <2>1. Joined(r) \in AnswerResponses /\ Joined(r).kind = "joined" /\ Joined(r).room = r
    BY DEF Joined, AnswerResponses
  <2> QED BY <2>1
<1>7. Given(c)' = g \/ Given(c)' = Append(g, a)
  BY <1>1, <1>2, <1>6, AnsweredGiven DEF SessionJoin, Request, clientVars, Conversing
<1>8. JoinsIn(Append(g, a), more) /\ ListsShow(Append(g, a))
  BY <1>4, <1>5, <1>6, JoinsAppend, ListsAppend
<1>9. PICK h : h = Given(c)'
  OBVIOUS
<1>10. JoinsIn(h, more) /\ ListsShow(h)
  BY <1>4, <1>7, <1>8, <1>9
<1> QED BY <1>0, <1>2, <1>3, <1>9, <1>10 DEF SeenAt, NoReply

\* A list that is written has the rooms joined before it.
LEMMA RoomsSeen ==
    ASSUME Conversing, [Next]_vars, NEW c \in Conns, SeenAt(c), TakeRooms(c)
    PROVE  SeenAt(c)'
<1>0. PICK more : more = Settled(c)'
  OBVIOUS
<1>1. PICK names \in SUBSET Rooms : names = reply[c].names
  BY ReplyKinds DEF TakeRooms, Conversing, TypeOK, ChatTypeOK
<1>2. PICK g \in Seq(AnswerResponses) : g = Given(c)
  BY TurnTypes DEF Conversing
<1>3. reply'[c] = NoReply
  BY DEF TakeRooms, Conversing, TypeOK, ChatTypeOK
<1>4. JoinsIn(g, more) /\ ListsShow(g) /\ JoinsIn(g, names)
  BY <1>0, <1>1, <1>2, SettledGrows DEF SeenAt, JoinsIn, TakeRooms
<1>5. PICK a \in AnswerResponses : a = RoomList(names) /\ a.kind = "rooms" /\ a.names = names
  <2>1. /\ RoomList(names) \in AnswerResponses
        /\ RoomList(names).kind = "rooms" /\ RoomList(names).names = names
    BY DEF RoomList, AnswerResponses
  <2> QED BY <2>1
<1>6. Given(c)' = g \/ Given(c)' = Append(g, a)
  BY <1>1, <1>2, <1>5, AnsweredGiven DEF TakeRooms, clientVars, Conversing
<1>7. JoinsIn(Append(g, a), more) /\ ListsShow(Append(g, a))
  BY <1>4, <1>5, JoinsAppend, ListsAppend
<1>8. PICK h : h = Given(c)'
  OBVIOUS
<1>9. JoinsIn(h, more) /\ ListsShow(h)
  BY <1>4, <1>6, <1>7, <1>8
<1> QED BY <1>0, <1>2, <1>3, <1>8, <1>9 DEF SeenAt, NoReply

\* The server replies with the rooms there are.
LEMMA ServedSeen ==
    ASSUME Conversing, [Next]_vars, NEW c \in Conns, SeenAt(c), Server
    PROVE  SeenAt(c)'
<1>1. PICK g, more : g = Given(c) /\ g = Given(c)' /\ more = Settled(c)'
  BY DEF Server, clientVars, wires, Given
<1>2. JoinsIn(g, more) /\ ListsShow(g) /\ JoinsIn(g, Settled(c))
  BY <1>1, SettledGrows DEF SeenAt, JoinsIn
<1>3. ASSUME reply'[c].type = "Rooms" PROVE JoinsIn(g, reply'[c].names)
  <2>1. CASE reply'[c] = reply[c]
    BY <1>1, <1>3, <2>1 DEF SeenAt
  <2>2. CASE reply'[c] # reply[c]
    <3>1. reply'[c].names = DOMAIN rooms /\ \A r : ~ JoinAhead(c, r)
      BY <1>3, <2>2, ServerIsStep, ListReplied DEF Conversing
    <3> QED BY <1>2, <3>1 DEF Settled, JoinsIn
  <2> QED BY <2>1, <2>2
<1> QED BY <1>1, <1>2, <1>3 DEF SeenAt

\* Answers that are lost take nothing with them.
LEMMA LostSeen ==
    ASSUME Conversing, [Next]_vars, NEW c \in Conns, SeenAt(c), UNCHANGED printed,
           NEW n \in 0..Len(toClient[c]), toClient'[c] = SubSeq(toClient[c], 1, n),
           reply'[c] = reply[c]
    PROVE  SeenAt(c)'
<1>1. PICK g, l \in Seq(AnswerResponses) : Given(c)' = g /\ Given(c) = g \o l
  BY LostGiven DEF Conversing
<1>2. PICK all, more : all = g \o l /\ more = Settled(c)'
  OBVIOUS
<1>3. /\ JoinsIn(all, more) /\ ListsShow(all)
      /\ reply[c].type = "Rooms" => JoinsIn(all, reply[c].names)
  BY <1>1, <1>2, SettledGrows DEF SeenAt, JoinsIn
<1>4. /\ JoinsIn(g, more) /\ ListsShow(g)
      /\ reply[c].type = "Rooms" => JoinsIn(g, reply[c].names)
  BY <1>2, <1>3, SeenCut
<1> QED BY <1>1, <1>2, <1>4 DEF SeenAt

\* What a session does keeps the lists right.
LEMMA SessionSeen ==
    ASSUME Conversing, [Next]_vars, NEW c \in Conns, SeenAt(c), Session(c)
    PROVE  SeenAt(c)'
<1>1. reply \in [Conns -> Replies] /\ toClient \in [Conns -> Seq(Responses)] /\ UNCHANGED printed
  BY SessionKeeps DEF Conversing, TypeOK, ChatTypeOK, clientVars
<1>2. CASE Accept(c) \/ SessionList(c) \/ SessionMessage(c) \/ PeerInTime(c) \/ PeerLate(c)
           \/ StreamEnds(c)
  <2>1. UNCHANGED <<toClient, reply>>
    BY <1>2 DEF Accept, SessionList, SessionMessage, Request, PeerInTime, PeerLate, Check,
                StreamEnds, wires, serverVars
  <2>2. Given(c)' = Given(c)
    BY <1>1, <2>1 DEF Given
  <2> QED BY <2>1, <2>2, SeenKept
<1>3. CASE TakeId(c)
  <2>1. UNCHANGED toClient /\ reply'[c] = NoReply
    BY <1>1, <1>3 DEF TakeId, wires
  <2>2. Given(c)' = Given(c)
    BY <1>1, <2>1 DEF Given
  <2> QED BY <2>1, <2>2, SeenKept
<1>4. CASE Deliver(c)
  <2>1. reply'[c] = reply[c]
    BY <1>4 DEF Deliver
  <2>2. Given(c)' = Given(c)
    BY <1>4, DeliveredGiven DEF Conversing
  <2> QED BY <2>1, <2>2, SeenKept
<1>5. CASE Stop(c)
  <2>1. reply'[c] = reply[c]
    BY <1>5 DEF Stop
  <2>2. PICK n \in 0..Len(toClient[c]) : toClient'[c] = SubSeq(toClient[c], 1, n)
    BY <1>1, <1>5 DEF Stop
  <2> QED BY <1>1, <2>1, <2>2, LostSeen
<1> QED BY <1>2, <1>3, <1>4, <1>5, JoinedSeen, RoomsSeen DEF Session

\* So does what the client and its user do.
LEMMA ClientSeen ==
    ASSUME Conversing, [Next]_vars, NEW c \in Conns, SeenAt(c), Client(c) \/ User(c)
    PROVE  SeenAt(c)'
<1>1. UNCHANGED reply /\ toClient \in [Conns -> Seq(Responses)]
  BY ClientKeepsType DEF Conversing, TypeOK, serverVars
<1>2. CASE Show(c)
  <2>1. Given(c)' = Given(c)
    BY <1>2, ShownGiven DEF Conversing
  <2> QED BY <1>1, <2>1, SeenKept
<1>3. CASE Kill(c)
  <2>1. UNCHANGED printed /\ toClient'[c] = <<>>
    BY <1>1, <1>3 DEF Kill
  <2>2. 0 \in 0..Len(toClient[c]) /\ SubSeq(toClient[c], 1, 0) = <<>>
    BY <1>1, LenProperties, SubSeqEmpty
  <2> QED BY <1>1, <2>1, <2>2, LostSeen
<1>4. CASE ClientPings(c) \/ HandleCommand(c) \/ Disconnected(c) \/ ConsoleStarts(c) \/ SomeLine(c)
           \/ CutOff(c) \/ ComeBack(c)
  <2>1. UNCHANGED <<printed, toClient>>
    BY <1>4 DEF ClientPings, HandleCommand, Disconnected, ConsoleStarts, SomeLine, ReadLine, CutOff,
                ComeBack, wires
  <2>2. Given(c)' = Given(c)
    BY <2>1 DEF Given
  <2> QED BY <1>1, <2>2, SeenKept
<1> QED BY <1>2, <1>3, <1>4 DEF Client, User

LEMMA SeenStep == ASSUME Conversing, SeenInv, [Next]_vars PROVE SeenInv'
<1> SUFFICES ASSUME NEW d \in Conns PROVE SeenAt(d)'
  BY DEF SeenInv
<1>1. SeenAt(d)
  BY DEF SeenInv
<1>2. CASE Server
  BY <1>1, <1>2, ServedSeen
<1>3. CASE UNCHANGED vars
  <2>1. UNCHANGED <<printed, toClient, reply>>
    BY <1>3 DEF vars, clientVars, wires, serverVars
  <2>2. Given(d)' = Given(d)
    BY <2>1 DEF Given
  <2> QED BY <1>1, <2>1, <2>2, SeenKept
<1>4. ASSUME NEW c \in Conns, Session(c) \/ Client(c) \/ User(c) PROVE SeenAt(d)'
  <2>1. CASE d = c
    BY <1>1, <1>4, <2>1, SessionSeen, ClientSeen
  <2>2. CASE d # c
    <3>1. toClient'[d] = toClient[d] /\ printed'[d] = printed[d] /\ reply'[d] = reply[d]
      BY <1>4, <2>2, Elsewhere DEF Conversing
    <3>2. Given(d)' = Given(d)
      BY <3>1 DEF Given
    <3> QED BY <1>1, <3>1, <3>2, SeenKept
  <2> QED BY <2>1, <2>2
<1> QED BY <1>2, <1>3, <1>4 DEF Next

-----------------------------------------------------------------------------
(* The answers that are shown *)

\* What is shown are the first of the answers given.
LEMMA ShownAnswers ==
    ASSUME TypeOK, NEW c \in Conns, TurnAt(c), SeenAt(c)
    PROVE  InTurn(Questions(c), Answers(c), <<>>, FALSE) /\ ListsShow(Answers(c))
<1>1. PICK kept, lost \in Seq(AnswerResponses) :
        kept = Answers(c) /\ lost = Only(toClient[c], AnswerResponses)
  BY TurnTypes DEF Answers
<1>2. PICK q, w, live : q = Questions(c) /\ w = Awaited(c) /\ live = Live(c)
  OBVIOUS
<1>3. InTurn(q, kept \o lost, w, live) /\ ListsShow(kept \o lost)
  BY <1>1, <1>2 DEF TurnAt, SeenAt, Given, Answers
<1>4. InTurn(q, kept, <<>>, FALSE)
  BY <1>3, TurnCut
<1>5. ListsShow(kept)
  BY <1>3, SeenCut
<1> QED BY <1>1, <1>2, <1>4, <1>5

LEMMA TurnMeansInTurn == ASSUME TypeOK, TurnInv, SeenInv PROVE AnswersInTurn
<1> SUFFICES ASSUME NEW c \in Conns, NEW q, q = Questions(c), NEW a, a = Answers(c)
             PROVE  /\ Len(a) <= Len(q)
                    /\ \A i \in DOMAIN a :
                          IF q[i].cmd = "join" THEN a[i] = Joined(q[i].room)
                          ELSE /\ a[i].kind = "rooms"
                               /\ \A j \in 1..(i - 1) : q[j].cmd = "join" => q[j].room \in a[i].names
  BY DEF AnswersInTurn
<1>1. InTurn(q, a, <<>>, FALSE) /\ ListsShow(a) /\ a \in Seq(AnswerResponses)
  BY ShownAnswers, TurnTypes DEF TurnInv, SeenInv, Answers
<1>2. PICK done \in Seq(QuestionLines), rest \in Seq(QuestionLines) :
        /\ q = done \o rest
        /\ Len(done) = Len(a)
        /\ \A i \in 1..Len(a) : Fits(a[i], done[i])
  BY <1>1 DEF InTurn
<1>3. PICK n \in Nat, m \in Nat : n = Len(a) /\ n = Len(done) /\ m = Len(rest)
  BY <1>1, <1>2, LenProperties
<1>4. Len(q) = n + m /\ DOMAIN a = 1..n /\ \A i \in 1..n : q[i] = done[i]
  <2>1. Len(q) = Len(done) + Len(rest) /\ \A i \in 1..Len(done) : q[i] = done[i]
    BY <1>2, ConcatProperties
  <2>2. DOMAIN a = 1..Len(a)
    BY <1>1, LenProperties
  <2> QED BY <1>3, <2>1, <2>2
<1>5. \A i \in 1..n : Fits(a[i], q[i])
  BY <1>2, <1>3, <1>4
<1>6. ASSUME NEW i \in 1..n
      PROVE  IF q[i].cmd = "join" THEN a[i] = Joined(q[i].room)
             ELSE /\ a[i].kind = "rooms"
                  /\ \A j \in 1..(i - 1) : q[j].cmd = "join" => q[j].room \in a[i].names
  <2>1. CASE q[i].cmd = "join"
    BY <1>5, <2>1 DEF Fits
  <2>2. CASE q[i].cmd # "join"
    <3>1. a[i].kind = "rooms"
      BY <1>5, <2>2 DEF Fits
    <3>2. ASSUME NEW j \in 1..(i - 1), q[j].cmd = "join" PROVE q[j].room \in a[i].names
      <4>1. j \in 1..n /\ a[j] = Joined(q[j].room)
        BY <1>5, <3>2 DEF Fits
      <4>2. a[j].kind = "joined" /\ a[j].room = q[j].room
        BY <4>1 DEF Joined
      <4> QED BY <1>1, <1>4, <3>1, <4>2 DEF ListsShow
    <3> QED BY <2>2, <3>1, <3>2
  <2> QED BY <2>1, <2>2
<1> QED BY <1>3, <1>4, <1>6

\* A user takes the next answer for that to its oldest question, and is right; and
\* a list has the rooms the user joined before it asked.
THEOREM AnswersTurn == Spec => []AnswersInTurn
<1> DEFINE I == Conversing /\ TurnInv /\ SeenInv
<1>1. Init => I
  BY InitType, InitTurn, InitSeen DEF Conversing
<1>2. I /\ [Next]_vars => I'
  BY ConversingStep, TurnStep, SeenStep DEF Conversing
<1>3. I => AnswersInTurn
  BY TurnMeansInTurn DEF Conversing
<1> QED BY <1>1, <1>2, <1>3, PTL DEF Spec

-----------------------------------------------------------------------------
(* Lines in the order typed.  A line has a number, and is in one form on the *)
(* console and the wire, in another in the server's mailbox, and so on: e[n] *)
(* are the forms of line n.                                                 *)

\* The lines that s has.
Numbers(s, e) == {n \in DOMAIN e : \E i \in DOMAIN s : s[i] \in e[n]}

\* They are in order, each once.
InOrder(s, e) ==
    \A i, j \in DOMAIN s : i < j =>
        \A m, n \in DOMAIN e : s[i] \in e[m] /\ s[j] \in e[n] => m < n

\* What is left of s is in order.
Fewer(s, left, e) == InOrder(left, e) /\ Numbers(left, e) \subseteq Numbers(s, e)

LEMMA FewerSame == ASSUME NEW s, NEW e, InOrder(s, e) PROVE Fewer(s, s, e)
BY DEF Fewer

LEMMA FewerNone == ASSUME NEW s, NEW e PROVE Fewer(s, <<>>, e)
<1>1. DOMAIN <<>> = {}
  BY EmptySeq
<1> QED BY <1>1 DEF Fewer, InOrder, Numbers

\* Where each place of t is one of s, in the same order, what s has is all that t has.
LEMMA FewerPlaces ==
    ASSUME NEW s, NEW t, NEW e, InOrder(s, e), NEW p,
           \A i \in DOMAIN t : p[i] \in DOMAIN s /\ t[i] = s[p[i]],
           \A i, j \in DOMAIN t : i < j => p[i] < p[j]
    PROVE  Fewer(s, t, e)
<1>1. InOrder(t, e)
  BY DEF InOrder
<1>2. Numbers(t, e) \subseteq Numbers(s, e)
  BY DEF Numbers
<1> QED BY <1>1, <1>2 DEF Fewer

LEMMA FewerCut ==
    ASSUME NEW S, NEW s \in Seq(S), NEW n \in 0..Len(s), NEW e, InOrder(s, e)
    PROVE  Fewer(s, SubSeq(s, 1, n), e)
<1>1. PICK t \in Seq(S) : t = SubSeq(s, 1, n)
  BY CutInTwo
<1>2. Len(s) \in Nat /\ DOMAIN s = 1..Len(s)
  BY LenProperties
<1>3. \A i \in 1..n : s[i] \in S
  BY <1>2, ElementOfSeq
<1>4. Len(t) = n /\ DOMAIN t = 1..n /\ \A i \in 1..n : t[i] = s[i]
  BY <1>1, <1>2, <1>3, SubSeqProperties, LenProperties
<1>5. PICK p : p = [i \in 1..n |-> i]
  OBVIOUS
<1>6. Fewer(s, t, e)
  BY <1>2, <1>4, <1>5, FewerPlaces
<1> QED BY <1>1, <1>6

\* The head is taken: it was the first of its lines.
LEMMA FewerTail ==
    ASSUME NEW S, NEW s \in Seq(S), s # <<>>, NEW e, InOrder(s, e)
    PROVE  /\ Fewer(s, Tail(s), e)
           /\ \A n \in DOMAIN e : Head(s) \in e[n] =>
                 n \in Numbers(s, e) /\ \A m \in Numbers(Tail(s), e) : n < m
<1>1. PICK t \in Seq(S), k \in Nat, h \in S :
        t = Tail(s) /\ k = Len(t) /\ h = Head(s)
  BY HeadTailProperties, LenProperties
<1>2. /\ Len(s) = k + 1 /\ DOMAIN s = 1..(k + 1) /\ DOMAIN t = 1..k /\ h = s[1]
      /\ \A i \in 1..k : t[i] = s[i + 1]
  BY <1>1, HeadTailProperties, LenProperties
<1>3. PICK p : p = [i \in 1..k |-> i + 1]
  OBVIOUS
<1>4. Fewer(s, t, e)
  BY <1>2, <1>3, FewerPlaces, SMTT(30)
<1>5. ASSUME NEW n \in DOMAIN e, h \in e[n]
      PROVE  n \in Numbers(s, e) /\ \A m \in Numbers(t, e) : n < m
  <2>1. n \in Numbers(s, e)
    BY <1>2, <1>5 DEF Numbers
  <2>2. ASSUME NEW m \in Numbers(t, e) PROVE n < m
    <3>1. PICK i \in 1..k : t[i] \in e[m]
      BY <1>2, <2>2 DEF Numbers
    <3>2. 1 < i + 1 /\ 1 \in DOMAIN s /\ i + 1 \in DOMAIN s /\ s[i + 1] \in e[m] /\ m \in DOMAIN e
      BY <1>2, <2>2, <3>1 DEF Numbers
    <3> QED BY <1>2, <1>5, <3>2 DEF InOrder
  <2> QED BY <2>1, <2>2
<1> QED BY <1>1, <1>4, <1>5

\* One more at the end, whose number is higher.
LEMMA OneMore ==
    ASSUME NEW S, NEW s \in Seq(S), NEW x \in S, NEW e, InOrder(s, e),
           \A n \in DOMAIN e : x \in e[n] => \A m \in Numbers(s, e) : m < n
    PROVE  /\ InOrder(Append(s, x), e)
           /\ Numbers(Append(s, x), e) = Numbers(s, e) \cup {n \in DOMAIN e : x \in e[n]}
<1>1. PICK t \in Seq(S), k \in Nat : t = Append(s, x) /\ k = Len(s)
  BY AppendProperties, LenProperties
<1>2. /\ DOMAIN s = 1..k /\ DOMAIN t = 1..(k + 1) /\ t[k + 1] = x
      /\ \A i \in 1..k : t[i] = s[i]
  BY <1>1, AppendProperties, LenProperties
<1>3. ASSUME NEW i \in 1..(k + 1), NEW j \in 1..(k + 1), i < j, NEW m \in DOMAIN e, NEW n \in DOMAIN e,
             t[i] \in e[m], t[j] \in e[n]
      PROVE  m < n
  <2>1. i \in 1..k /\ s[i] \in e[m]
    BY <1>2, <1>3
  <2>2. CASE j = k + 1
    BY <1>2, <1>3, <2>1, <2>2 DEF Numbers
  <2>3. CASE j # k + 1
    <3>1. j \in 1..k /\ s[j] \in e[n]
      BY <1>2, <1>3, <2>3
    <3> QED BY <1>2, <1>3, <2>1, <3>1 DEF InOrder
  <2> QED BY <2>2, <2>3
<1>4. InOrder(t, e)
  BY <1>2, <1>3 DEF InOrder
<1>5. Numbers(t, e) = Numbers(s, e) \cup {n \in DOMAIN e : x \in e[n]}
  <2>1. ASSUME NEW n \in DOMAIN e
        PROVE  n \in Numbers(t, e) <=> n \in Numbers(s, e) \/ x \in e[n]
    <3>1. ASSUME NEW i \in 1..(k + 1), t[i] \in e[n] PROVE n \in Numbers(s, e) \/ x \in e[n]
      <4>1. i = k + 1 \/ i \in 1..k
        OBVIOUS
      <4> QED BY <1>2, <3>1, <4>1 DEF Numbers
    <3>2. ASSUME n \in Numbers(s, e) PROVE n \in Numbers(t, e)
      <4>1. PICK i \in 1..k : s[i] \in e[n]
        BY <1>2, <3>2 DEF Numbers
      <4>2. i \in 1..(k + 1) /\ t[i] = s[i]
        BY <1>2
      <4> QED BY <1>2, <4>1, <4>2 DEF Numbers
    <3>3. x \in e[n] => n \in Numbers(t, e)
      BY <1>2 DEF Numbers
    <3> QED BY <1>2, <3>1, <3>2, <3>3 DEF Numbers
  <2> QED BY <2>1 DEF Numbers
<1> QED BY <1>1, <1>4, <1>5

\* What has no number changes nothing.
LEMMA FewerOther ==
    ASSUME NEW S, NEW s \in Seq(S), NEW x \in S, NEW e, InOrder(s, e),
           \A n \in DOMAIN e : x \notin e[n]
    PROVE  Fewer(s, Append(s, x), e)
BY OneMore DEF Fewer

LEMMA FewerExtended ==
    ASSUME NEW s \in Seq(Texts), NEW t, NEW T, Extends(s, t, T), NEW e, InOrder(s, e),
           \A n \in DOMAIN e, x \in T : x \notin e[n]
    PROVE  Fewer(s, t, e)
<1>1. PICK k \in Nat, l \in Nat : k = Len(s) /\ l = Len(t)
  BY LenProperties DEF Extends
<1>2. /\ DOMAIN s = 1..k /\ DOMAIN t = 1..l /\ k <= l
      /\ \A i \in 1..k : t[i] = s[i]
      /\ \A i \in (k + 1)..l : t[i] \in T
  BY <1>1, LenProperties DEF Extends
<1>3. ASSUME NEW i \in 1..l, NEW n \in DOMAIN e, t[i] \in e[n] PROVE i \in 1..k /\ s[i] \in e[n]
  <2>1. i \in 1..k \/ i \in (k + 1)..l
    OBVIOUS
  <2> QED BY <1>2, <1>3, <2>1
<1>4. InOrder(t, e)
  BY <1>2, <1>3 DEF InOrder
<1>5. Numbers(t, e) \subseteq Numbers(s, e)
  BY <1>2, <1>3 DEF Numbers
<1> QED BY <1>4, <1>5 DEF Fewer

-----------------------------------------------------------------------------
(* The way of a line from f's console to c's: six queues                    *)

\* The forms of f's lines: in the client and on the wire, in the server's mailbox,
\* in the hearer's, and behind it.
Asks == [n \in 1..MaxRequests |-> {Say(n)}]
Posts(f) == [n \in 1..MaxRequests |-> {m \in Messages : m.type = "Message" /\ m.text = Said(f, n)}]
Tells(f) == [n \in 1..MaxRequests |-> {Said(f, n)}]
Shows(f) == [n \in 1..MaxRequests |-> {Text(Said(f, n))}]

Way(c, f) ==
    [k \in 1..6 |->
        IF k = 1 THEN Numbers(printed[c], Shows(f))
        ELSE IF k = 2 THEN Numbers(toClient[c], Shows(f))
        ELSE IF k = 3 THEN Numbers(mailbox[c], Tells(f))
        ELSE IF k = 4 THEN Numbers(inbox, Posts(f))
        ELSE IF k = 5 THEN Numbers(toServer[f], Asks)
        ELSE Numbers(commands[f], Asks)]

\* Lines that are further on have the lower numbers.
Ahead(w) == \A j, k \in 1..6 : j < k => \A m \in w[j], n \in w[k] : m < n

\* In order in each queue, and from queue to queue.
InLine(c, f) ==
    /\ InOrder(printed[c], Shows(f)) /\ InOrder(toClient[c], Shows(f))
    /\ InOrder(mailbox[c], Tells(f)) /\ InOrder(inbox, Posts(f))
    /\ InOrder(toServer[f], Asks) /\ InOrder(commands[f], Asks)
    /\ Ahead(Way(c, f))
    /\ \A k \in 1..6 : Way(c, f)[k] \subseteq Numbers(typed[f], Asks)

\* What is typed at f has the numbers read from the consoles.
TypedInOrder(f) == InOrder(typed[f], Asks) /\ Numbers(typed[f], Asks) \subseteq 1..lines

LineInv == \A f \in Conns : TypedInOrder(f) /\ \A c \in Conns : InLine(c, f)

LEMMA FormDomains ==
    ASSUME NEW f
    PROVE  /\ DOMAIN Asks = 1..MaxRequests /\ DOMAIN Posts(f) = 1..MaxRequests
           /\ DOMAIN Tells(f) = 1..MaxRequests /\ DOMAIN Shows(f) = 1..MaxRequests
BY DEF Asks, Posts, Tells, Shows

\* Which line a form is of.
LEMMA Forms ==
    ASSUME NEW f, NEW n \in 1..MaxRequests
    PROVE  /\ \A x : x \in Asks[n] <=> x = Say(n)
           /\ \A x : x \in Tells(f)[n] <=> x = Said(f, n)
           /\ \A x : x \in Shows(f)[n] <=> x = Text(Said(f, n))
           /\ \A x : x \in Posts(f)[n] <=>
                        x \in Messages /\ x.type = "Message" /\ x.text = Said(f, n)
BY DEF Asks, Posts, Tells, Shows

\* The queues, in the order of the way.
LEMMA WayPlaces ==
    ASSUME NEW c, NEW f, NEW w, w = Way(c, f)
    PROVE  /\ w[1] = Numbers(printed[c], Shows(f)) /\ w[2] = Numbers(toClient[c], Shows(f))
           /\ w[3] = Numbers(mailbox[c], Tells(f)) /\ w[4] = Numbers(inbox, Posts(f))
           /\ w[5] = Numbers(toServer[f], Asks) /\ w[6] = Numbers(commands[f], Asks)
BY DEF Way

LEMMA WayPlacesNext ==
    ASSUME NEW c \in Conns, NEW f \in Conns, NEW w, w = Way(c, f)'
    PROVE  /\ w[1] = Numbers(printed'[c], Shows(f)) /\ w[2] = Numbers(toClient'[c], Shows(f))
           /\ w[3] = Numbers(mailbox'[c], Tells(f)) /\ w[4] = Numbers(inbox', Posts(f))
           /\ w[5] = Numbers(toServer'[f], Asks) /\ w[6] = Numbers(commands'[f], Asks)
BY DEF Way, Numbers, Shows, Tells, Posts, Asks, Messages, Text, Said, Say

\* Nothing goes further: at most lines are lost.
LEMMA LineKept ==
    ASSUME NEW c \in Conns, NEW f \in Conns, InLine(c, f),
           Fewer(printed[c], printed'[c], Shows(f)), Fewer(toClient[c], toClient'[c], Shows(f)),
           Fewer(mailbox[c], mailbox'[c], Tells(f)), Fewer(inbox, inbox', Posts(f)),
           Fewer(toServer[f], toServer'[f], Asks), Fewer(commands[f], commands'[f], Asks),
           Numbers(typed[f], Asks) \subseteq Numbers(typed'[f], Asks)
    PROVE  InLine(c, f)'
<1>1. PICK w, v : w = Way(c, f) /\ v = Way(c, f)'
  OBVIOUS
<1>2. \A k \in 1..6 : v[k] \subseteq w[k]
  <2>1. /\ v[1] \subseteq w[1] /\ v[2] \subseteq w[2] /\ v[3] \subseteq w[3]
        /\ v[4] \subseteq w[4] /\ v[5] \subseteq w[5] /\ v[6] \subseteq w[6]
    BY <1>1, WayPlaces, WayPlacesNext DEF Fewer
  <2>2. \A k \in 1..6 : k \in {1, 2, 3, 4, 5, 6}
    OBVIOUS
  <2> QED BY <2>1, <2>2
<1>3. Ahead(v)
  BY <1>1, <1>2 DEF InLine, Ahead
<1>4. \A k \in 1..6 : v[k] \subseteq Numbers(typed'[f], Asks)
  BY <1>1, <1>2 DEF InLine
<1>5. /\ InOrder(printed'[c], Shows(f)) /\ InOrder(toClient'[c], Shows(f))
      /\ InOrder(mailbox'[c], Tells(f)) /\ InOrder(inbox', Posts(f))
      /\ InOrder(toServer'[f], Asks) /\ InOrder(commands'[f], Asks)
  BY DEF Fewer
<1>6. /\ Shows(f)' = Shows(f) /\ Tells(f)' = Tells(f) /\ Posts(f)' = Posts(f) /\ Asks' = Asks
  BY DEF Shows, Tells, Posts, Asks, Messages, Text, Said, Say
<1> QED BY <1>1, <1>3, <1>4, <1>5, <1>6 DEF InLine, InOrder, Numbers

\* A line goes from queue k + 1 to queue k, or is the newest, in the last.
LEMMA LineMoves ==
    ASSUME NEW c \in Conns, NEW f \in Conns, InLine(c, f),
           InOrder(printed'[c], Shows(f)), InOrder(toClient'[c], Shows(f)),
           InOrder(mailbox'[c], Tells(f)), InOrder(inbox', Posts(f)),
           InOrder(toServer'[f], Asks), InOrder(commands'[f], Asks),
           NEW w, w = Way(c, f), NEW v, v = Way(c, f)',
           NEW k \in 1..6, NEW n \in Numbers(typed'[f], Asks),
           v[k] \subseteq w[k] \cup {n}, \A j \in 1..6 : j # k => v[j] \subseteq w[j],
           \A j \in 1..6 : j < k => \A m \in w[j] : m < n,
           \A j \in 1..6 : k < j => \A m \in v[j] : n < m,
           Numbers(typed[f], Asks) \subseteq Numbers(typed'[f], Asks)
    PROVE  InLine(c, f)'
<1>1. Ahead(v)
  <2> SUFFICES ASSUME NEW i \in 1..6, NEW j \in 1..6, i < j, NEW m \in v[i], NEW l \in v[j]
               PROVE  m < l
    BY DEF Ahead
  <2>1. CASE i = k /\ m = n
    BY <2>1
  <2>2. CASE j = k /\ l = n
    <3>1. m \in w[i]
      BY <2>2
    <3> QED BY <2>2, <3>1
  <2>3. CASE ~ (i = k /\ m = n) /\ ~ (j = k /\ l = n)
    <3>1. m \in w[i] /\ l \in w[j]
      BY <2>3
    <3> QED BY <3>1 DEF InLine, Ahead
  <2> QED BY <2>1, <2>2, <2>3
<1>2. \A j \in 1..6 : v[j] \subseteq Numbers(typed'[f], Asks)
  BY DEF InLine
<1>3. /\ Shows(f)' = Shows(f) /\ Tells(f)' = Tells(f) /\ Posts(f)' = Posts(f) /\ Asks' = Asks
  BY DEF Shows, Tells, Posts, Asks, Messages, Text, Said, Say
<1> QED BY <1>1, <1>2, <1>3 DEF InLine, InOrder, Numbers

\* The hearer's queues, the server's mailbox, and the sender's.
HearerKeeps(c, f) ==
    /\ Fewer(printed[c], printed'[c], Shows(f)) /\ Fewer(toClient[c], toClient'[c], Shows(f))
    /\ Fewer(mailbox[c], mailbox'[c], Tells(f))
MailKeeps(f) == Fewer(inbox, inbox', Posts(f))
SenderKeeps(f) ==
    /\ Fewer(toServer[f], toServer'[f], Asks) /\ Fewer(commands[f], commands'[f], Asks)
    /\ Numbers(typed[f], Asks) \subseteq Numbers(typed'[f], Asks)

LEMMA AllKeep ==
    ASSUME NEW c \in Conns, NEW f \in Conns, InLine(c, f),
           HearerKeeps(c, f), MailKeeps(f), SenderKeeps(f)
    PROVE  InLine(c, f)'
BY LineKept DEF HearerKeeps, MailKeeps, SenderKeeps

\* What is not touched is kept.
LEMMA UntouchedKeeps ==
    ASSUME NEW c \in Conns, NEW f \in Conns, InLine(c, f)
    PROVE  /\ printed'[c] = printed[c] /\ toClient'[c] = toClient[c] /\ mailbox'[c] = mailbox[c]
                 => HearerKeeps(c, f)
           /\ UNCHANGED inbox => MailKeeps(f)
           /\ toServer'[f] = toServer[f] /\ commands'[f] = commands[f] /\ typed'[f] = typed[f]
                 => SenderKeeps(f)
BY FewerSame DEF HearerKeeps, MailKeeps, SenderKeeps, InLine

\* What is posted without being a line of f.
LEMMA PostKeeps ==
    ASSUME TypeOK, NEW c \in Conns, NEW f \in Conns, InLine(c, f), NEW m \in Messages, Post(m),
           m.type = "Message" => \A n \in 1..MaxRequests : m.text # Said(f, n)
    PROVE  MailKeeps(f)
<1>1. inbox \in Seq(Messages) /\ inbox' = Append(inbox, m)
  BY DEF TypeOK, ChatTypeOK, Post
<1>2. \A n \in DOMAIN Posts(f) : m \notin Posts(f)[n]
  <2> SUFFICES ASSUME NEW n \in 1..MaxRequests, m \in Posts(f)[n] PROVE FALSE
    BY FormDomains
  <2> QED BY Forms
<1>3. InOrder(inbox, Posts(f))
  BY DEF InLine
<1> QED BY <1>1, <1>2, <1>3, FewerOther DEF MailKeeps

\* The number of a text is its own.
LEMMA SaidOnce ==
    ASSUME NEW c, NEW f, NEW m, NEW n, Said(c, m) = Said(f, n) PROVE c = f /\ m = n
BY DEF Said

LEMMA ShownOnce ==
    ASSUME NEW t, NEW f, NEW n, Text(t) = Text(Said(f, n)) PROVE t = Said(f, n)
BY DEF Text

LEMMA TypedKeeps ==
    ASSUME NEW f \in Conns, TypedInOrder(f), typed'[f] = typed[f], lines \in Nat, lines' \in Nat,
           lines <= lines'
    PROVE  TypedInOrder(f)'
<1>1. 1..lines \subseteq 1..lines'
  OBVIOUS
<1>2. Asks' = Asks
  BY DEF Asks, Say
<1> QED BY <1>1, <1>2 DEF TypedInOrder, InOrder, Numbers

LEMMA InitLines == Init => LineInv
<1> SUFFICES ASSUME Init, NEW f \in Conns, NEW c \in Conns PROVE TypedInOrder(f) /\ InLine(c, f)
  BY DEF LineInv
<1>1. /\ typed[f] = <<>> /\ commands[f] = <<>> /\ toServer[f] = <<>> /\ inbox = <<>>
      /\ mailbox[c] = <<>> /\ toClient[c] = <<>> /\ printed[c] = <<>>
  BY DEF Init, ChatInit, ServerInit
<1>2. \A e : InOrder(<<>>, e) /\ Numbers(<<>>, e) = {}
  <2>1. DOMAIN <<>> = {}
    BY EmptySeq
  <2> QED BY <2>1 DEF InOrder, Numbers
<1>3. PICK w : w = Way(c, f)
  OBVIOUS
<1>4. \A k \in 1..6 : w[k] = {}
  <2>1. w[1] = {} /\ w[2] = {} /\ w[3] = {} /\ w[4] = {} /\ w[5] = {} /\ w[6] = {}
    BY <1>1, <1>2, <1>3, WayPlaces
  <2>2. \A k \in 1..6 : k \in {1, 2, 3, 4, 5, 6}
    OBVIOUS
  <2> QED BY <2>1, <2>2
<1>5. Ahead(w) /\ \A k \in 1..6 : w[k] \subseteq Numbers(typed[f], Asks)
  BY <1>4 DEF Ahead
<1> QED BY <1>1, <1>2, <1>3, <1>5 DEF InLine, TypedInOrder

\* A line is typed.
LEMMA TypedLines ==
    ASSUME TypeOK, LineInv, NEW c \in Conns,
           NEW line \in {List, Say(lines + 1), Mistake} \cup {JoinRoom(r) : r \in Rooms},
           ReadLine(c, line)
    PROVE  LineInv'
<1>1. /\ typed[c] \in Seq(Requests \cup {Mistake}) /\ typed'[c] = Append(typed[c], line)
      /\ commands[c] \in Seq(Requests \cup {Mistake}) /\ commands'[c] = Append(commands[c], line)
      /\ lines \in Nat /\ lines' = lines + 1 /\ lines + 1 \in 1..MaxRequests
      /\ UNCHANGED <<printed, toClient, mailbox, inbox, toServer>>
      /\ \A d \in Conns : d # c => typed'[d] = typed[d] /\ commands'[d] = commands[d]
  BY RequestsAssumption DEF ReadLine, TypeOK, serverVars, wires
<1>2. line \in Requests \cup {Mistake}
  BY <1>1 DEF Requests, QuestionLines
<1>3. ASSUME NEW n \in 1..MaxRequests, line = Say(n) PROVE n = lines + 1
  <2>1. line.cmd = "say" /\ line.n = n
    BY <1>3 DEF Say
  <2> QED BY <2>1 DEF List, Mistake, JoinRoom, Say
<1>4. \A n \in DOMAIN Asks : line \in Asks[n] => n = lines + 1
  BY <1>3, FormDomains, Forms
<1>5. /\ InOrder(typed[c], Asks) /\ Numbers(typed[c], Asks) \subseteq 1..lines
      /\ \A d \in Conns : InLine(d, c)
  BY DEF LineInv, TypedInOrder
<1>6. /\ InOrder(typed'[c], Asks)
      /\ Numbers(typed'[c], Asks) = Numbers(typed[c], Asks) \cup {n \in DOMAIN Asks : line \in Asks[n]}
  <2>1. \A n \in DOMAIN Asks : line \in Asks[n] => \A m \in Numbers(typed[c], Asks) : m < n
    BY <1>1, <1>4, <1>5
  <2>2. PICK T \in Seq(Requests \cup {Mistake}) : T = typed[c]
    BY <1>1, <1>2 DEF TypeOK
  <2>3. InOrder(T, Asks) /\ \A n \in DOMAIN Asks : line \in Asks[n] => \A m \in Numbers(T, Asks) : m < n
    BY <1>5, <2>1, <2>2
  <2>4. line \in Requests \cup {Mistake} /\ typed'[c] = Append(T, line)
    BY <1>1, <1>2, <2>2
  <2>5. /\ InOrder(Append(T, line), Asks)
        /\ Numbers(Append(T, line), Asks) = Numbers(T, Asks) \cup {n \in DOMAIN Asks : line \in Asks[n]}
    BY <2>3, <2>4, OneMore
  <2> QED BY <2>2, <2>4, <2>5
<1>7. TypedInOrder(c)'
  <2>1. Numbers(typed'[c], Asks) \subseteq 1..(lines + 1)
    BY <1>1, <1>4, <1>5, <1>6
  <2>2. Asks' = Asks
    BY DEF Asks, Say
  <2> QED BY <1>1, <1>6, <2>1, <2>2 DEF TypedInOrder, InOrder, Numbers
<1>8. ASSUME NEW d \in Conns PROVE InLine(d, c)'
  <2>1. PICK w, v : w = Way(d, c) /\ v = Way(d, c)'
    OBVIOUS
  <2>2. /\ w[1] = v[1] /\ w[2] = v[2] /\ w[3] = v[3] /\ w[4] = v[4] /\ w[5] = v[5]
        /\ w[6] = Numbers(commands[c], Asks) /\ v[6] = Numbers(commands'[c], Asks)
    <3>1. /\ w[1] = Numbers(printed[d], Shows(c)) /\ w[2] = Numbers(toClient[d], Shows(c))
          /\ w[3] = Numbers(mailbox[d], Tells(c)) /\ w[4] = Numbers(inbox, Posts(c))
          /\ w[5] = Numbers(toServer[c], Asks) /\ w[6] = Numbers(commands[c], Asks)
      BY <2>1, WayPlaces
    <3>2. /\ v[1] = Numbers(printed'[d], Shows(c)) /\ v[2] = Numbers(toClient'[d], Shows(c))
          /\ v[3] = Numbers(mailbox'[d], Tells(c)) /\ v[4] = Numbers(inbox', Posts(c))
          /\ v[5] = Numbers(toServer'[c], Asks) /\ v[6] = Numbers(commands'[c], Asks)
      BY <2>1, WayPlacesNext
    <3> QED BY <1>1, <3>1, <3>2
  <2>3. InLine(d, c) /\ \A k \in 1..6 : w[k] \subseteq Numbers(typed[c], Asks)
    BY <1>5, <2>1 DEF InLine
  <2>4. /\ InOrder(commands'[c], Asks)
        /\ v[6] = w[6] \cup {n \in DOMAIN Asks : line \in Asks[n]}
    <3>1. \A n \in DOMAIN Asks : line \in Asks[n] => \A m \in Numbers(commands[c], Asks) : m < n
      BY <1>1, <1>4, <1>5, <2>2, <2>3
    <3>2. InOrder(commands[c], Asks)
      BY <2>3 DEF InLine
    <3>3. PICK s \in Seq(Requests \cup {Mistake}) : s = commands[c]
      BY <1>1
    <3>4. /\ InOrder(Append(s, line), Asks)
          /\ Numbers(Append(s, line), Asks) = Numbers(s, Asks) \cup {n \in DOMAIN Asks : line \in Asks[n]}
      BY <1>2, <3>1, <3>2, <3>3, OneMore
    <3> QED BY <1>1, <2>2, <3>3, <3>4
  <2>5. CASE \A n \in DOMAIN Asks : line \notin Asks[n]
    <3>1. Fewer(commands[c], commands'[c], Asks)
      BY <2>2, <2>4, <2>5 DEF Fewer
    <3>2. HearerKeeps(d, c) /\ MailKeeps(c)
      BY <1>1, <2>3, UntouchedKeeps
    <3>3. SenderKeeps(c)
      BY <1>1, <1>6, <2>3, <3>1, FewerSame DEF SenderKeeps, InLine
    <3> QED BY <2>3, <3>2, <3>3, AllKeep
  <2>6. ASSUME NEW n \in DOMAIN Asks, line \in Asks[n] PROVE InLine(d, c)'
    <3>1. n = lines + 1 /\ n \in Numbers(typed'[c], Asks)
      BY <1>4, <1>6, <2>6
    <3>2. v[6] \subseteq w[6] \cup {n} /\ \A j \in 1..6 : j # 6 => v[j] \subseteq w[j]
      <4>1. v[6] \subseteq w[6] \cup {n}
        BY <1>4, <2>4, <3>1
      <4>2. \A j \in 1..6 : j \in {1, 2, 3, 4, 5, 6}
        OBVIOUS
      <4> QED BY <2>2, <4>1, <4>2
    <3>3. \A j \in 1..6 : \A m \in w[j] : m < n
      BY <1>1, <1>5, <2>3, <3>1
    <3>4. \A j \in 1..6 : ~ (6 < j)
      OBVIOUS
    <3>5. /\ InOrder(printed'[d], Shows(c)) /\ InOrder(toClient'[d], Shows(c))
          /\ InOrder(mailbox'[d], Tells(c)) /\ InOrder(inbox', Posts(c))
          /\ InOrder(toServer'[c], Asks)
      BY <1>1, <2>3 DEF InLine
    <3> QED BY <1>6, <2>1, <2>3, <2>4, <3>1, <3>2, <3>3, <3>4, <3>5, LineMoves
  <2> QED BY <2>5, <2>6
<1>9. ASSUME NEW f \in Conns, f # c, NEW d \in Conns PROVE TypedInOrder(f)' /\ InLine(d, f)'
  <2>1. TypedInOrder(f) /\ InLine(d, f)
    BY DEF LineInv
  <2>2. HearerKeeps(d, f) /\ MailKeeps(f) /\ SenderKeeps(f)
    BY <1>1, <1>9, <2>1, UntouchedKeeps
  <2> QED BY <1>1, <1>9, <2>1, <2>2, AllKeep, TypedKeeps
<1> QED BY <1>7, <1>8, <1>9 DEF LineInv

\* The head of queue k + 1 goes to the end of queue k.
LEMMA LinePasses ==
    ASSUME NEW c \in Conns, NEW f \in Conns, InLine(c, f), typed'[f] = typed[f],
           InOrder(printed'[c], Shows(f)), InOrder(toClient'[c], Shows(f)),
           InOrder(mailbox'[c], Tells(f)), InOrder(inbox', Posts(f)),
           InOrder(toServer'[f], Asks), InOrder(commands'[f], Asks),
           NEW w, w = Way(c, f), NEW v, v = Way(c, f)',
           NEW k \in 1..5, NEW n \in w[k + 1],
           v[k] \subseteq w[k] \cup {n}, \A j \in 1..6 : j # k => v[j] \subseteq w[j],
           \A m \in v[k + 1] : n < m
    PROVE  InLine(c, f)'
<1>1. k \in 1..6 /\ k + 1 \in 1..6 /\ \A j \in 1..6 : k < j => j = k + 1 \/ k + 1 < j
  OBVIOUS
<1>2. n \in Numbers(typed'[f], Asks)
  BY <1>1 DEF InLine
<1>3. \A j \in 1..6 : j < k => \A m \in w[j] : m < n
  <2> SUFFICES ASSUME NEW j \in 1..6, j < k, NEW m \in w[j] PROVE m < n
    OBVIOUS
  <2>1. j < k + 1
    OBVIOUS
  <2> QED BY <1>1, <2>1 DEF InLine, Ahead
<1>4. \A j \in 1..6 : k < j => \A m \in v[j] : n < m
  <2> SUFFICES ASSUME NEW j \in 1..6, k < j, NEW m \in v[j] PROVE n < m
    OBVIOUS
  <2>1. CASE j = k + 1
    BY <2>1
  <2>2. CASE k + 1 < j
    <3>1. m \in w[j]
      BY <2>2
    <3> QED BY <1>1, <2>2, <3>1 DEF InLine, Ahead
  <2> QED BY <1>1, <2>1, <2>2
<1> QED BY <1>1, <1>2, <1>3, <1>4, LineMoves

\* Line n goes to the end.
LEMMA EndJoins ==
    ASSUME NEW S, NEW s \in Seq(S), NEW x \in S, NEW e, InOrder(s, e), NEW n,
           \A m \in DOMAIN e : x \in e[m] => m = n, \A m \in Numbers(s, e) : m < n
    PROVE  InOrder(Append(s, x), e) /\ Numbers(Append(s, x), e) \subseteq Numbers(s, e) \cup {n}
<1>1. \A m \in DOMAIN e : x \in e[m] => \A l \in Numbers(s, e) : l < m
  OBVIOUS
<1> QED BY <1>1, OneMore

\* The client passes its oldest line on.
LEMMA PassedLine ==
    ASSUME TypeOK, NEW c \in Conns, NEW d \in Conns, InLine(d, c), HandleCommand(c)
    PROVE  InLine(d, c)'
<1>1. PICK s \in Seq(Requests \cup {Mistake}) : s = commands[c]
  BY DEF TypeOK
<1>2. PICK t \in Seq(Requests) : t = toServer[c]
  BY DEF TypeOK
<1>3. PICK h \in Requests \cup {Mistake} : h = Head(s)
  BY <1>1, TakeHead DEF HandleCommand
<1>4. /\ s # <<>> /\ commands'[c] = Tail(s)
      /\ toServer'[c] = IF h = Mistake THEN t ELSE Append(t, h)
      /\ UNCHANGED <<printed, toClient, mailbox, inbox, typed>>
  BY <1>1, <1>2, <1>3 DEF HandleCommand, RequestsWith, TypeOK, serverVars
<1>5. InOrder(s, Asks) /\ InOrder(t, Asks)
  BY <1>1, <1>2 DEF InLine
<1>6. CASE \A n \in DOMAIN Asks : h \notin Asks[n]
  <2>1. Fewer(t, toServer'[c], Asks)
    <3>1. CASE h = Mistake
      BY <1>4, <1>5, <3>1, FewerSame
    <3>2. CASE h # Mistake
      <4>1. h \in Requests
        BY <3>2
      <4> QED BY <1>4, <1>5, <1>6, <3>2, <4>1, FewerOther
    <3> QED BY <3>1, <3>2
  <2>2. Fewer(s, Tail(s), Asks)
    BY <1>4, <1>5, FewerTail
  <2>3. SenderKeeps(c)
    BY <1>1, <1>2, <1>4, <2>1, <2>2 DEF SenderKeeps
  <2>4. HearerKeeps(d, c) /\ MailKeeps(c)
    BY <1>4, UntouchedKeeps
  <2> QED BY <2>3, <2>4, AllKeep
<1>7. ASSUME NEW n \in 1..MaxRequests, h \in Asks[n] PROVE InLine(d, c)'
  <2>1. h = Say(n) /\ h # Mistake /\ \A m \in 1..MaxRequests : h \in Asks[m] => m = n
    <3>1. h = Say(n)
      BY <1>7, Forms
    <3>2. h.cmd = "say" /\ h.n = n /\ \A m : Say(m).n = m
      BY <3>1 DEF Say
    <3>3. h # Mistake
      BY <3>2, MistakeIsNone
    <3>4. \A m \in 1..MaxRequests : h \in Asks[m] => h = Say(m)
      BY Forms
    <3> QED BY <3>1, <3>2, <3>3, <3>4
  <2>2. h \in Requests /\ toServer'[c] = Append(t, h)
    BY <1>4, <2>1
  <2>3. PICK w, v : w = Way(d, c) /\ v = Way(d, c)'
    OBVIOUS
  <2>4. /\ w[1] = v[1] /\ w[2] = v[2] /\ w[3] = v[3] /\ w[4] = v[4]
        /\ w[5] = Numbers(t, Asks) /\ w[6] = Numbers(s, Asks)
        /\ v[5] = Numbers(Append(t, h), Asks) /\ v[6] = Numbers(Tail(s), Asks)
    <3>1. /\ w[1] = Numbers(printed[d], Shows(c)) /\ w[2] = Numbers(toClient[d], Shows(c))
          /\ w[3] = Numbers(mailbox[d], Tells(c)) /\ w[4] = Numbers(inbox, Posts(c))
          /\ w[5] = Numbers(t, Asks) /\ w[6] = Numbers(s, Asks)
      BY <1>1, <1>2, <2>3, WayPlaces
    <3>2. /\ v[1] = Numbers(printed'[d], Shows(c)) /\ v[2] = Numbers(toClient'[d], Shows(c))
          /\ v[3] = Numbers(mailbox'[d], Tells(c)) /\ v[4] = Numbers(inbox', Posts(c))
          /\ v[5] = Numbers(toServer'[c], Asks) /\ v[6] = Numbers(commands'[c], Asks)
      BY <2>3, WayPlacesNext
    <3> QED BY <1>4, <2>2, <3>1, <3>2
  <2>5. \A m \in Numbers(t, Asks), l \in Numbers(s, Asks) : m < l
    BY <2>3, <2>4 DEF InLine, Ahead
  <2>6. /\ InOrder(Tail(s), Asks) /\ InOrder(Append(t, h), Asks)
        /\ n \in w[6] /\ (\A m \in v[6] : n < m)
        /\ v[5] \subseteq w[5] \cup {n} /\ v[6] \subseteq w[6]
    <3>1. n \in DOMAIN Asks /\ \A m \in DOMAIN Asks : h \in Asks[m] => m = n
      BY <2>1, FormDomains
    <3>2. /\ Fewer(s, Tail(s), Asks)
          /\ n \in Numbers(s, Asks) /\ \A m \in Numbers(Tail(s), Asks) : n < m
      BY <1>3, <1>4, <1>5, <1>7, <3>1, FewerTail
    <3>3. \A m \in Numbers(t, Asks) : m < n
      BY <2>5, <3>2
    <3>4. /\ InOrder(Append(t, h), Asks)
          /\ Numbers(Append(t, h), Asks) \subseteq Numbers(t, Asks) \cup {n}
      BY <1>2, <1>5, <2>2, <3>1, <3>3, EndJoins
    <3> QED BY <2>4, <3>2, <3>4 DEF Fewer
  <2>7. \A j \in 1..6 : j # 5 => v[j] \subseteq w[j]
    <3>1. \A j \in 1..6 : j \in {1, 2, 3, 4, 5, 6}
      OBVIOUS
    <3> QED BY <2>4, <2>6, <3>1
  <2>8. /\ InOrder(printed'[d], Shows(c)) /\ InOrder(toClient'[d], Shows(c))
        /\ InOrder(mailbox'[d], Tells(c)) /\ InOrder(inbox', Posts(c))
        /\ InOrder(toServer'[c], Asks) /\ InOrder(commands'[c], Asks)
    BY <1>4, <2>2, <2>6 DEF InLine
  <2>9. 5 \in 1..5 /\ 5 + 1 = 6
    OBVIOUS
  <2> QED BY <1>4, <2>3, <2>6, <2>7, <2>8, <2>9, LinePasses
<1> QED BY <1>6, <1>7, FormDomains

\* The session says a line for its user.
LEMMA SaidLine ==
    ASSUME TypeOK, IdsOwned, NEW c \in Conns, NEW d \in Conns, InLine(d, c), SessionMessage(c)
    PROVE  InLine(d, c)'
<1>1. PICK s \in Seq(Requests) : s = toServer[c]
  BY DEF TypeOK
<1>2. PICK t \in Seq(Messages) : t = inbox
  BY DEF TypeOK, ChatTypeOK
<1>3. PICK h \in Requests : h = Head(s)
  BY <1>1, TakeHead DEF SessionMessage, Request
<1>4. PICK n \in 1..MaxRequests : h = Say(n) /\ h.n = n
  BY <1>1, <1>3, RequestKinds DEF SessionMessage, Request
<1>5. PICK x \in Messages : x = Message(sid[c], Said(c, n), room[c])
  BY <1>4, IdsHeld, PostedMessages DEF HasId, SessionMessage, Request, TypeOK, ChatTypeOK
<1>6. /\ s # <<>> /\ toServer'[c] = Tail(s) /\ inbox' = Append(t, x)
      /\ UNCHANGED <<printed, toClient, mailbox, commands, typed>>
  BY <1>1, <1>2, <1>3, <1>4, <1>5
     DEF SessionMessage, Request, Post, TypeOK, clientVars
<1>7. InOrder(s, Asks) /\ InOrder(t, Posts(c))
  BY <1>1, <1>2 DEF InLine
<1>8. h \in Asks[n] /\ x \in Posts(c)[n] /\ \A m \in 1..MaxRequests : x \in Posts(c)[m] => m = n
  <2>1. x.type = "Message" /\ x.text = Said(c, n)
    BY <1>5 DEF Message
  <2> QED BY <1>4, <2>1, Forms, SaidOnce
<1>9. PICK w, v : w = Way(d, c) /\ v = Way(d, c)'
  OBVIOUS
<1>10. /\ w[1] = v[1] /\ w[2] = v[2] /\ w[3] = v[3] /\ w[6] = v[6]
       /\ w[4] = Numbers(t, Posts(c)) /\ w[5] = Numbers(s, Asks)
       /\ v[4] = Numbers(Append(t, x), Posts(c)) /\ v[5] = Numbers(Tail(s), Asks)
  <2>1. /\ w[1] = Numbers(printed[d], Shows(c)) /\ w[2] = Numbers(toClient[d], Shows(c))
        /\ w[3] = Numbers(mailbox[d], Tells(c)) /\ w[4] = Numbers(t, Posts(c))
        /\ w[5] = Numbers(s, Asks) /\ w[6] = Numbers(commands[c], Asks)
    BY <1>1, <1>2, <1>9, WayPlaces
  <2>2. /\ v[1] = Numbers(printed'[d], Shows(c)) /\ v[2] = Numbers(toClient'[d], Shows(c))
        /\ v[3] = Numbers(mailbox'[d], Tells(c)) /\ v[4] = Numbers(inbox', Posts(c))
        /\ v[5] = Numbers(toServer'[c], Asks) /\ v[6] = Numbers(commands'[c], Asks)
    BY <1>9, WayPlacesNext
  <2> QED BY <1>6, <2>1, <2>2
<1>11. \A m \in Numbers(t, Posts(c)), l \in Numbers(s, Asks) : m < l
  BY <1>9, <1>10 DEF InLine, Ahead
<1>12. /\ InOrder(Tail(s), Asks) /\ InOrder(Append(t, x), Posts(c))
       /\ n \in w[5] /\ (\A m \in v[5] : n < m)
       /\ v[4] \subseteq w[4] \cup {n} /\ v[5] \subseteq w[5]
  <2>1. /\ DOMAIN Asks = DOMAIN Posts(c)
        /\ n \in DOMAIN Asks /\ \A m \in DOMAIN Asks : x \in Posts(c)[m] => m = n
    BY <1>8, FormDomains
  <2>2. /\ Fewer(s, Tail(s), Asks)
        /\ n \in Numbers(s, Asks) /\ \A m \in Numbers(Tail(s), Asks) : n < m
    BY <1>3, <1>6, <1>7, <1>8, <2>1, FewerTail
  <2>3. \A m \in Numbers(t, Posts(c)) : m < n
    BY <1>11, <2>2
  <2>4. /\ InOrder(Append(t, x), Posts(c))
        /\ Numbers(Append(t, x), Posts(c)) \subseteq Numbers(t, Posts(c)) \cup {n}
    <3>1. \A m \in DOMAIN Posts(c) : x \in Posts(c)[m] => m = n
      BY <2>1
    <3>2. t \in Seq(Messages) /\ x \in Messages /\ InOrder(t, Posts(c))
      BY <1>2, <1>5, <1>7
    <3> QED BY <2>3, <3>1, <3>2, EndJoins
  <2> QED BY <1>10, <2>2, <2>4 DEF Fewer
<1>13. \A j \in 1..6 : j # 4 => v[j] \subseteq w[j]
  <2>1. \A j \in 1..6 : j \in {1, 2, 3, 4, 5, 6}
    OBVIOUS
  <2> QED BY <1>10, <1>12, <2>1
<1>14. /\ InOrder(printed'[d], Shows(c)) /\ InOrder(toClient'[d], Shows(c))
       /\ InOrder(mailbox'[d], Tells(c)) /\ InOrder(inbox', Posts(c))
       /\ InOrder(toServer'[c], Asks) /\ InOrder(commands'[c], Asks)
  BY <1>6, <1>12 DEF InLine
<1>15. 4 \in 1..5 /\ 4 + 1 = 5
  OBVIOUS
<1> QED BY <1>6, <1>9, <1>12, <1>13, <1>14, <1>15, LinePasses

\* The hearer's client shows the oldest response.
LEMMA ShownLine ==
    ASSUME TypeOK, NEW c \in Conns, NEW f \in Conns, InLine(c, f), Show(c)
    PROVE  InLine(c, f)'
<1>1. PICK s \in Seq(Responses) : s = toClient[c]
  BY DEF TypeOK
<1>2. PICK t \in Seq(Responses) : t = printed[c]
  BY DEF TypeOK
<1>3. PICK h \in Responses : h = Head(s)
  BY <1>1, TakeHead DEF Show
<1>4. /\ s # <<>> /\ toClient'[c] = Tail(s)
      /\ printed'[c] = IF IsNotice(h) THEN t ELSE Append(t, h)
      /\ UNCHANGED <<mailbox, inbox, toServer, commands, typed>>
  BY <1>1, <1>2, <1>3 DEF Show, TypeOK, serverVars
<1>5. InOrder(s, Shows(f)) /\ InOrder(t, Shows(f))
  BY <1>1, <1>2 DEF InLine
<1>6. CASE \A n \in DOMAIN Shows(f) : h \notin Shows(f)[n]
  <2>1. Fewer(t, printed'[c], Shows(f))
    <3>1. Fewer(t, t, Shows(f)) /\ Fewer(t, Append(t, h), Shows(f))
      BY <1>5, <1>6, FewerSame, FewerOther
    <3> QED BY <1>4, <3>1
  <2>2. Fewer(s, Tail(s), Shows(f)) /\ Fewer(mailbox[c], mailbox'[c], Tells(f))
    BY <1>4, <1>5, FewerTail, FewerSame DEF InLine
  <2>3. HearerKeeps(c, f)
    BY <1>1, <1>2, <1>4, <2>1, <2>2 DEF HearerKeeps
  <2>4. SenderKeeps(f) /\ MailKeeps(f)
    BY <1>4, UntouchedKeeps
  <2> QED BY <2>3, <2>4, AllKeep
<1>7. ASSUME NEW n \in 1..MaxRequests, h \in Shows(f)[n] PROVE InLine(c, f)'
  <2>1. ~ IsNotice(h) /\ \A m \in 1..MaxRequests : h \in Shows(f)[m] => m = n
    <3>1. h = Text(Said(f, n)) /\ h.text = Said(f, n) /\ h.text.what = "Said"
      BY <1>7, Forms DEF Text, Said
    <3>2. ~ IsNotice(h)
      BY <3>1 DEF IsNotice, Notices, SomeoneJoined, SomeoneConnected, SomeoneDisconnected
    <3> QED BY <3>1, <3>2, Forms, ShownOnce, SaidOnce
  <2>2. printed'[c] = Append(t, h)
    BY <1>4, <2>1
  <2>3. PICK w, v : w = Way(c, f) /\ v = Way(c, f)'
    OBVIOUS
  <2>4. /\ w[3] = v[3] /\ w[4] = v[4] /\ w[5] = v[5] /\ w[6] = v[6]
        /\ w[1] = Numbers(t, Shows(f)) /\ w[2] = Numbers(s, Shows(f))
        /\ v[1] = Numbers(Append(t, h), Shows(f)) /\ v[2] = Numbers(Tail(s), Shows(f))
    <3>1. /\ w[1] = Numbers(t, Shows(f)) /\ w[2] = Numbers(s, Shows(f))
          /\ w[3] = Numbers(mailbox[c], Tells(f)) /\ w[4] = Numbers(inbox, Posts(f))
          /\ w[5] = Numbers(toServer[f], Asks) /\ w[6] = Numbers(commands[f], Asks)
      BY <1>1, <1>2, <2>3, WayPlaces
    <3>2. /\ v[1] = Numbers(printed'[c], Shows(f)) /\ v[2] = Numbers(toClient'[c], Shows(f))
          /\ v[3] = Numbers(mailbox'[c], Tells(f)) /\ v[4] = Numbers(inbox', Posts(f))
          /\ v[5] = Numbers(toServer'[f], Asks) /\ v[6] = Numbers(commands'[f], Asks)
      BY <2>3, WayPlacesNext
    <3> QED BY <1>4, <2>2, <3>1, <3>2
  <2>5. \A m \in Numbers(t, Shows(f)), l \in Numbers(s, Shows(f)) : m < l
    BY <2>3, <2>4 DEF InLine, Ahead
  <2>6. /\ InOrder(Tail(s), Shows(f)) /\ InOrder(Append(t, h), Shows(f))
        /\ n \in w[2] /\ (\A m \in v[2] : n < m)
        /\ v[1] \subseteq w[1] \cup {n} /\ v[2] \subseteq w[2]
    <3>1. n \in DOMAIN Shows(f) /\ \A m \in DOMAIN Shows(f) : h \in Shows(f)[m] => m = n
      BY <2>1, FormDomains
    <3>2. /\ Fewer(s, Tail(s), Shows(f))
          /\ n \in Numbers(s, Shows(f)) /\ \A m \in Numbers(Tail(s), Shows(f)) : n < m
      BY <1>3, <1>4, <1>5, <1>7, <3>1, FewerTail
    <3>3. \A m \in Numbers(t, Shows(f)) : m < n
      BY <2>5, <3>2
    <3>4. /\ InOrder(Append(t, h), Shows(f))
          /\ Numbers(Append(t, h), Shows(f)) \subseteq Numbers(t, Shows(f)) \cup {n}
      <4>1. \A m \in DOMAIN Shows(f) : h \in Shows(f)[m] => m = n
        BY <3>1
      <4>2. InOrder(t, Shows(f))
        BY <1>5
      <4> QED BY <3>3, <4>1, <4>2, EndJoins
    <3> QED BY <2>4, <3>2, <3>4 DEF Fewer
  <2>7. \A j \in 1..6 : j # 1 => v[j] \subseteq w[j]
    <3>1. \A j \in 1..6 : j \in {1, 2, 3, 4, 5, 6}
      OBVIOUS
    <3> QED BY <2>4, <2>6, <3>1
  <2>8. /\ InOrder(printed'[c], Shows(f)) /\ InOrder(toClient'[c], Shows(f))
        /\ InOrder(mailbox'[c], Tells(f)) /\ InOrder(inbox', Posts(f))
        /\ InOrder(toServer'[f], Asks) /\ InOrder(commands'[f], Asks)
    BY <1>4, <2>2, <2>6 DEF InLine
  <2>9. 1 \in 1..5 /\ 1 + 1 = 2
    OBVIOUS
  <2> QED BY <1>4, <2>3, <2>6, <2>7, <2>8, <2>9, LinePasses
<1> QED BY <1>6, <1>7, FormDomains

\* The hearer's session writes the oldest text.
LEMMA DeliveredLine ==
    ASSUME TypeOK, NEW c \in Conns, NEW f \in Conns, InLine(c, f), Deliver(c)
    PROVE  InLine(c, f)'
<1>1. PICK s \in Seq(Texts) : s = mailbox[c]
  BY DEF TypeOK, ChatTypeOK
<1>2. PICK t \in Seq(Responses) : t = toClient[c]
  BY DEF TypeOK
<1>3. PICK h \in Texts : h = Head(s)
  BY <1>1, TakeHead DEF Deliver
<1>4. PICK x \in Responses : x = Text(h)
  BY DEF Text, Responses
<1>5. /\ s # <<>> /\ mailbox'[c] = Tail(s)
      /\ toClient'[c] = IF process[c] = "over" THEN t ELSE Append(t, x)
      /\ UNCHANGED <<printed, inbox, toServer, commands, typed>>
  BY <1>1, <1>2, <1>3, <1>4 DEF Deliver, Respond, TypeOK, ChatTypeOK, clientVars
<1>6. InOrder(s, Tells(f)) /\ InOrder(t, Shows(f))
  BY <1>1, <1>2 DEF InLine
<1>7. CASE process[c] = "over" \/ \A n \in DOMAIN Shows(f) : x \notin Shows(f)[n]
  <2>1. Fewer(t, toClient'[c], Shows(f))
    <3>1. CASE process[c] = "over"
      BY <1>5, <1>6, <3>1, FewerSame
    <3>2. CASE process[c] # "over"
      BY <1>5, <1>6, <1>7, <3>2, FewerOther
    <3> QED BY <3>1, <3>2
  <2>2. Fewer(s, Tail(s), Tells(f)) /\ Fewer(printed[c], printed'[c], Shows(f))
    BY <1>5, <1>6, FewerTail, FewerSame DEF InLine
  <2>3. HearerKeeps(c, f)
    BY <1>1, <1>2, <1>5, <2>1, <2>2 DEF HearerKeeps
  <2>4. SenderKeeps(f) /\ MailKeeps(f)
    BY <1>5, UntouchedKeeps
  <2> QED BY <2>3, <2>4, AllKeep
<1>8. ASSUME NEW n \in 1..MaxRequests, x \in Shows(f)[n], process[c] # "over" PROVE InLine(c, f)'
  <2>1. h \in Tells(f)[n] /\ \A m \in 1..MaxRequests : x \in Shows(f)[m] => m = n
    BY <1>4, <1>8, Forms, ShownOnce, SaidOnce
  <2>2. toClient'[c] = Append(t, x)
    BY <1>5, <1>8
  <2>3. PICK w, v : w = Way(c, f) /\ v = Way(c, f)'
    OBVIOUS
  <2>4. /\ w[1] = v[1] /\ w[4] = v[4] /\ w[5] = v[5] /\ w[6] = v[6]
        /\ w[2] = Numbers(t, Shows(f)) /\ w[3] = Numbers(s, Tells(f))
        /\ v[2] = Numbers(Append(t, x), Shows(f)) /\ v[3] = Numbers(Tail(s), Tells(f))
    <3>1. /\ w[1] = Numbers(printed[c], Shows(f)) /\ w[2] = Numbers(t, Shows(f))
          /\ w[3] = Numbers(s, Tells(f)) /\ w[4] = Numbers(inbox, Posts(f))
          /\ w[5] = Numbers(toServer[f], Asks) /\ w[6] = Numbers(commands[f], Asks)
      BY <1>1, <1>2, <2>3, WayPlaces
    <3>2. /\ v[1] = Numbers(printed'[c], Shows(f)) /\ v[2] = Numbers(toClient'[c], Shows(f))
          /\ v[3] = Numbers(mailbox'[c], Tells(f)) /\ v[4] = Numbers(inbox', Posts(f))
          /\ v[5] = Numbers(toServer'[f], Asks) /\ v[6] = Numbers(commands'[f], Asks)
      BY <2>3, WayPlacesNext
    <3> QED BY <1>5, <2>2, <3>1, <3>2
  <2>5. \A m \in Numbers(t, Shows(f)), l \in Numbers(s, Tells(f)) : m < l
    BY <2>3, <2>4 DEF InLine, Ahead
  <2>6. /\ InOrder(Tail(s), Tells(f)) /\ InOrder(Append(t, x), Shows(f))
        /\ n \in w[3] /\ (\A m \in v[3] : n < m)
        /\ v[2] \subseteq w[2] \cup {n} /\ v[3] \subseteq w[3]
    <3>1. /\ DOMAIN Tells(f) = DOMAIN Shows(f)
          /\ n \in DOMAIN Tells(f) /\ \A m \in DOMAIN Tells(f) : x \in Shows(f)[m] => m = n
      BY <2>1, FormDomains
    <3>2. /\ Fewer(s, Tail(s), Tells(f))
          /\ n \in Numbers(s, Tells(f)) /\ \A m \in Numbers(Tail(s), Tells(f)) : n < m
      BY <1>3, <1>5, <1>6, <2>1, <3>1, FewerTail
    <3>3. \A m \in Numbers(t, Shows(f)) : m < n
      BY <2>5, <3>2
    <3>4. /\ InOrder(Append(t, x), Shows(f))
          /\ Numbers(Append(t, x), Shows(f)) \subseteq Numbers(t, Shows(f)) \cup {n}
      <4>1. \A m \in DOMAIN Shows(f) : x \in Shows(f)[m] => m = n
        BY <3>1
      <4>2. InOrder(t, Shows(f))
        BY <1>6
      <4> QED BY <3>3, <4>1, <4>2, EndJoins
    <3> QED BY <2>4, <3>2, <3>4 DEF Fewer
  <2>7. \A j \in 1..6 : j # 2 => v[j] \subseteq w[j]
    <3>1. \A j \in 1..6 : j \in {1, 2, 3, 4, 5, 6}
      OBVIOUS
    <3> QED BY <2>4, <2>6, <3>1
  <2>8. /\ InOrder(printed'[c], Shows(f)) /\ InOrder(toClient'[c], Shows(f))
        /\ InOrder(mailbox'[c], Tells(f)) /\ InOrder(inbox', Posts(f))
        /\ InOrder(toServer'[f], Asks) /\ InOrder(commands'[f], Asks)
    BY <1>5, <2>2, <2>6 DEF InLine
  <2>9. 2 \in 1..5 /\ 2 + 1 = 3
    OBVIOUS
  <2> QED BY <1>5, <2>3, <2>6, <2>7, <2>8, <2>9, LinePasses
<1> QED BY <1>7, <1>8, FormDomains

\* The server tells a line to the hearers, or somebody else's line, or a notice.
LEMMA ServedLine ==
    ASSUME Conversing, NEW c \in Conns, NEW f \in Conns, InLine(c, f), Server
    PROVE  InLine(c, f)'
<1>1. PICK s \in Seq(Messages) : s = inbox
  BY DEF Conversing, TypeOK, ChatTypeOK
<1>2. PICK t \in Seq(Texts) : t = mailbox[c]
  BY DEF Conversing, TypeOK, ChatTypeOK
<1>3. /\ ServerStep /\ TalkInv /\ OneSession
      /\ UNCHANGED <<printed, toClient, toServer, commands, typed>>
  BY ServerIsStep DEF Conversing, clientVars, wires
<1>4. PICK h \in Messages : h = Head(s) /\ h = inbox[1]
  BY <1>1, <1>3, ServerTakes DEF ServerStep, TalkInv
<1>5. s # <<>> /\ inbox' = Tail(s)
  BY <1>1 DEF Server, Serve, HandleConnect, HandleDisconnect, HandleMessage, HandleListRooms,
              HandleJoin, Consume
<1>6. InOrder(s, Posts(f)) /\ InOrder(t, Tells(f))
  BY <1>1, <1>2 DEF InLine
<1>7. MailKeeps(f)
  BY <1>1, <1>5, <1>6, FewerTail DEF MailKeeps
<1>8. SenderKeeps(f)
  BY <1>3, UntouchedKeeps
<1>9. Fewer(printed[c], printed'[c], Shows(f)) /\ Fewer(toClient[c], toClient'[c], Shows(f))
  BY <1>3, FewerSame DEF InLine
<1>10. CASE Fewer(t, mailbox'[c], Tells(f))
  <2>1. HearerKeeps(c, f)
    BY <1>2, <1>9, <1>10 DEF HearerKeeps
  <2> QED BY <1>7, <1>8, <2>1, AllKeep
<1>11. CASE h.type # "Message"
  <2>1. Extends(t, mailbox'[c], Notices)
    BY <1>2, <1>3, <1>4, <1>11, MailboxNotices
  <2>2. \A n \in DOMAIN Tells(f), x \in Notices : x \notin Tells(f)[n]
    <3> SUFFICES ASSUME NEW n \in 1..MaxRequests, NEW x \in Notices, x \in Tells(f)[n] PROVE FALSE
      BY FormDomains
    <3>0. x = Said(f, n)
      BY Forms
    <3>1. x.what = "Said"
      BY <3>0 DEF Said
    <3> QED BY <3>1 DEF Notices, SomeoneJoined, SomeoneConnected, SomeoneDisconnected
  <2> QED BY <1>6, <1>10, <2>1, <2>2, FewerExtended
<1>12. CASE h.type = "Message"
  <2>1. PICK x : x = h.text
    OBVIOUS
  <2>2. x \in SaidTexts /\ x \in Texts /\ mailbox'[c] \in {t, Append(t, x)}
    <3>1. ServerStep /\ TalkInv /\ OneSession /\ inbox[1].type = "Message"
      BY <1>3, <1>4, <1>12
    <3>2. /\ inbox[1].text \in SaidTexts
          /\ mailbox'[c] = mailbox[c] \/ mailbox'[c] = Append(mailbox[c], inbox[1].text)
      BY <3>1, MailboxSays
    <3> QED BY <1>2, <1>4, <2>1, <3>2 DEF Texts
  <2>3. CASE mailbox'[c] = t
    BY <1>6, <1>10, <2>3, FewerSame
  <2>4. CASE mailbox'[c] = Append(t, x) /\ \A n \in DOMAIN Tells(f) : x \notin Tells(f)[n]
    BY <1>6, <1>10, <2>2, <2>4, FewerOther
  <2>5. ASSUME mailbox'[c] = Append(t, x), NEW n \in 1..MaxRequests, x \in Tells(f)[n]
        PROVE  InLine(c, f)'
    <3>1. h \in Posts(f)[n] /\ \A m \in 1..MaxRequests : x \in Tells(f)[m] => m = n
      BY <1>12, <2>1, <2>5, Forms, SaidOnce
    <3>2. PICK w, v : w = Way(c, f) /\ v = Way(c, f)'
      OBVIOUS
    <3>3. /\ w[1] = v[1] /\ w[2] = v[2] /\ w[5] = v[5] /\ w[6] = v[6]
          /\ w[3] = Numbers(t, Tells(f)) /\ w[4] = Numbers(s, Posts(f))
          /\ v[3] = Numbers(Append(t, x), Tells(f)) /\ v[4] = Numbers(Tail(s), Posts(f))
      <4>1. /\ w[1] = Numbers(printed[c], Shows(f)) /\ w[2] = Numbers(toClient[c], Shows(f))
            /\ w[3] = Numbers(t, Tells(f)) /\ w[4] = Numbers(s, Posts(f))
            /\ w[5] = Numbers(toServer[f], Asks) /\ w[6] = Numbers(commands[f], Asks)
        BY <1>1, <1>2, <3>2, WayPlaces
      <4>2. /\ v[1] = Numbers(printed'[c], Shows(f)) /\ v[2] = Numbers(toClient'[c], Shows(f))
            /\ v[3] = Numbers(mailbox'[c], Tells(f)) /\ v[4] = Numbers(inbox', Posts(f))
            /\ v[5] = Numbers(toServer'[f], Asks) /\ v[6] = Numbers(commands'[f], Asks)
        BY <3>2, WayPlacesNext
      <4> QED BY <1>3, <1>5, <2>5, <4>1, <4>2
    <3>4. \A m \in Numbers(t, Tells(f)), l \in Numbers(s, Posts(f)) : m < l
      BY <3>2, <3>3 DEF InLine, Ahead
    <3>5. /\ InOrder(Tail(s), Posts(f)) /\ InOrder(Append(t, x), Tells(f))
          /\ n \in w[4] /\ (\A m \in v[4] : n < m)
          /\ v[3] \subseteq w[3] \cup {n} /\ v[4] \subseteq w[4]
      <4>1. /\ DOMAIN Posts(f) = DOMAIN Tells(f)
            /\ n \in DOMAIN Posts(f) /\ \A m \in DOMAIN Posts(f) : x \in Tells(f)[m] => m = n
        BY <3>1, FormDomains
      <4>2. /\ Fewer(s, Tail(s), Posts(f))
            /\ n \in Numbers(s, Posts(f)) /\ \A m \in Numbers(Tail(s), Posts(f)) : n < m
        BY <1>4, <1>5, <1>6, <3>1, <4>1, FewerTail
      <4>3. \A m \in Numbers(t, Tells(f)) : m < n
        BY <3>4, <4>2
      <4>4. /\ InOrder(Append(t, x), Tells(f))
            /\ Numbers(Append(t, x), Tells(f)) \subseteq Numbers(t, Tells(f)) \cup {n}
        BY <1>6, <2>2, <4>1, <4>3, EndJoins
      <4> QED BY <3>3, <4>2, <4>4 DEF Fewer
    <3>6. \A j \in 1..6 : j # 3 => v[j] \subseteq w[j]
      <4>1. \A j \in 1..6 : j \in {1, 2, 3, 4, 5, 6}
        OBVIOUS
      <4> QED BY <3>3, <3>5, <4>1
    <3>7. /\ InOrder(printed'[c], Shows(f)) /\ InOrder(toClient'[c], Shows(f))
          /\ InOrder(mailbox'[c], Tells(f)) /\ InOrder(inbox', Posts(f))
          /\ InOrder(toServer'[f], Asks) /\ InOrder(commands'[f], Asks)
      BY <1>3, <1>5, <2>5, <3>5 DEF InLine
    <3>8. 3 \in 1..5 /\ 3 + 1 = 4
      OBVIOUS
    <3> QED BY <1>3, <3>2, <3>5, <3>6, <3>7, <3>8, LinePasses
  <2> QED BY <2>2, <2>3, <2>4, <2>5, FormDomains
<1> QED BY <1>11, <1>12

\* A response that is no text is nobody's line.
LEMMA AnswerKeeps ==
    ASSUME TypeOK, NEW c \in Conns, NEW f \in Conns, InLine(c, f),
           NEW r \in Responses, r.kind # "message", Respond(c, r),
           printed'[c] = printed[c], mailbox'[c] = mailbox[c]
    PROVE  HearerKeeps(c, f)
<1>1. PICK t \in Seq(Responses) : t = toClient[c]
  BY DEF TypeOK
<1>2. toClient'[c] = t \/ toClient'[c] = Append(t, r)
  BY <1>1 DEF Respond, TypeOK
<1>3. InOrder(t, Shows(f)) /\ InOrder(printed[c], Shows(f)) /\ InOrder(mailbox[c], Tells(f))
  BY <1>1 DEF InLine
<1>4. \A n \in DOMAIN Shows(f) : r \notin Shows(f)[n]
  <2>1. \A x : Text(x).kind = "message"
    BY DEF Text
  <2>2. \A n \in 1..MaxRequests : r \in Shows(f)[n] => r = Text(Said(f, n))
    BY Forms
  <2> QED BY <2>1, <2>2, FormDomains
<1>5. Fewer(t, t, Shows(f)) /\ Fewer(t, Append(t, r), Shows(f))
  BY <1>3, <1>4, FewerSame, FewerOther
<1> QED BY <1>1, <1>2, <1>3, <1>5, FewerSame DEF HearerKeeps

\* A request is taken from the wire, and is not passed on.
LEMMA TakenKeeps ==
    ASSUME TypeOK, NEW c \in Conns, NEW d \in Conns, InLine(d, c), NEW cmd, Request(c, cmd)
    PROVE  SenderKeeps(c)
<1>1. PICK s \in Seq(Requests) : s = toServer[c]
  BY DEF TypeOK
<1>2. s # <<>> /\ toServer'[c] = Tail(s) /\ UNCHANGED <<commands, typed>>
  BY <1>1 DEF Request, TypeOK, clientVars
<1>3. InOrder(s, Asks) /\ InOrder(commands[c], Asks)
  BY <1>1 DEF InLine
<1> QED BY <1>1, <1>2, <1>3, FewerTail, FewerSame DEF SenderKeeps

\* What the sessions post is nobody's line, except what they say.
LEMMA ClaimKeeps ==
    ASSUME TypeOK, NEW c \in Conns, NEW f \in Conns, InLine(c, f), NEW m \in Messages, Post(m),
           m.type # "Message"
    PROVE  MailKeeps(f)
BY PostKeeps

\* What a session does keeps the lines, but for those it says or delivers.
LEMMA SessionLines ==
    ASSUME TypeOK, IdsOwned, NEW c \in Conns, Session(c), ~ SessionMessage(c), ~ Deliver(c),
           NEW d \in Conns, NEW f \in Conns, InLine(d, f), InLine(c, f), InLine(d, c), InLine(c, c)
    PROVE  /\ MailKeeps(f)
           /\ d = c => HearerKeeps(d, f)
           /\ f = c => SenderKeeps(f)
<1>1. UNCHANGED clientVars
  BY SessionKeeps
<1>2. CASE Accept(c)
  <2>1. PICK m \in Messages : m = Connect(c) /\ Post(m)
    <3>1. Connect(c) \in Messages
      BY PostedMessages DEF TypeOK
    <3> QED BY <1>2, <3>1 DEF Accept
  <2>2. MailKeeps(f)
    <3>1. m.type = "Connect"
      BY <2>1 DEF Connect
    <3> QED BY <2>1, <3>1, ClaimKeeps
  <2> QED BY <1>1, <1>2, <2>2, UntouchedKeeps DEF Accept, wires, clientVars
<1>3. CASE TakeId(c) \/ StreamEnds(c) \/ PeerInTime(c)
  <2>1. UNCHANGED <<inbox, mailbox, toServer, toClient>>
    BY <1>3 DEF TakeId, StreamEnds, PeerInTime, Check, serverVars, wires
  <2> QED BY <1>1, <2>1, UntouchedKeeps DEF clientVars
<1>4. CASE SessionList(c)
  <2>1. PICK m \in Messages : m = ListRooms(c) /\ Post(m)
    <3>1. ListRooms(c) \in Messages
      BY PostedMessages DEF TypeOK
    <3> QED BY <1>4, <3>1 DEF SessionList
  <2>2. MailKeeps(f)
    <3>1. m.type = "ListRooms"
      BY <2>1 DEF ListRooms
    <3> QED BY <2>1, <3>1, ClaimKeeps
  <2>3. Request(c, "list") /\ UNCHANGED <<mailbox, toClient>>
    BY <1>4 DEF SessionList, Request
  <2> QED BY <1>1, <2>2, <2>3, TakenKeeps, UntouchedKeeps DEF clientVars
<1>5. CASE SessionJoin(c)
  <2>1. PICK r \in Rooms : r = Head(toServer[c]).room
    BY <1>5, RequestType, RequestKinds DEF SessionJoin
  <2>2. PICK m \in Messages : m = Join(sid[c], r) /\ Post(m)
    BY <1>5, <2>1, IdsHeld, PostedMessages DEF SessionJoin, Request, HasId, TypeOK
  <2>3. MailKeeps(f)
    <3>1. m.type = "Join"
      BY <2>2 DEF Join
    <3> QED BY <2>2, <3>1, ClaimKeeps
  <2>4. PICK x \in Responses : x = Joined(r) /\ x.kind # "message"
    <3>1. Joined(r) \in Responses /\ Joined(r).kind # "message"
      BY DEF Joined, Responses, AnswerResponses
    <3> QED BY <3>1
  <2>5. Request(c, "join") /\ UNCHANGED mailbox /\ Respond(c, x)
    BY <1>5, <2>1, <2>4 DEF SessionJoin, Request
  <2>6. d = c => HearerKeeps(d, f)
    BY <1>1, <2>4, <2>5, AnswerKeeps DEF clientVars
  <2> QED BY <2>3, <2>5, <2>6, TakenKeeps
<1>6. CASE TakeRooms(c)
  <2>1. reply[c].names \in SUBSET Rooms
    BY <1>6, ReplyKinds DEF TakeRooms, Replies, TypeOK, ChatTypeOK
  <2>2. PICK x \in Responses : x = RoomList(reply[c].names) /\ x.kind # "message"
    <3>1. /\ RoomList(reply[c].names) \in Responses
          /\ RoomList(reply[c].names).kind # "message"
      BY <2>1 DEF RoomList, Responses, AnswerResponses
    <3> QED BY <3>1
  <2>3. Respond(c, x) /\ UNCHANGED <<inbox, mailbox, toServer>>
    BY <1>6, <2>2 DEF TakeRooms
  <2>4. d = c => HearerKeeps(d, f)
    BY <1>1, <2>2, <2>3, AnswerKeeps DEF clientVars
  <2> QED BY <1>1, <2>3, <2>4, UntouchedKeeps DEF clientVars
<1>7. CASE PeerLate(c) \/ Stop(c)
  <2>1. PICK m \in Messages : m = Disconnect(sid[c]) /\ Post(m)
    BY <1>7, PostedMessages DEF PeerLate, Stop, TypeOK, ChatTypeOK
  <2>2. MailKeeps(f)
    <3>1. m.type = "Disconnect"
      BY <2>1 DEF Disconnect
    <3> QED BY <2>1, <3>1, ClaimKeeps
  <2>3. CASE PeerLate(c)
    BY <1>1, <2>2, <2>3, UntouchedKeeps DEF PeerLate, Check, wires, clientVars
  <2>4. CASE Stop(c)
    <3>1. PICK s \in Seq(Responses) : s = toClient[c]
      BY DEF TypeOK
    <3>2. PICK n \in 0..Len(s) : toClient'[c] = SubSeq(s, 1, n)
      BY <2>4, <3>1 DEF Stop, TypeOK
    <3>3. mailbox'[c] = <<>> /\ toServer'[c] = <<>>
      BY <2>4 DEF Stop, TypeOK, ChatTypeOK
    <3>4. d = c => HearerKeeps(d, f)
      <4>1. InOrder(s, Shows(f)) /\ InOrder(printed[c], Shows(f))
        BY <3>1 DEF InLine
      <4>2. Fewer(s, SubSeq(s, 1, n), Shows(f))
        BY <4>1, FewerCut
      <4> QED BY <1>1, <3>1, <3>2, <3>3, <4>1, <4>2, FewerSame, FewerNone DEF HearerKeeps, clientVars
    <3>5. f = c => SenderKeeps(f)
      BY <1>1, <3>3, FewerSame, FewerNone DEF SenderKeeps, clientVars, InLine
    <3> QED BY <2>2, <3>4, <3>5
  <2> QED BY <1>7, <2>3, <2>4
<1> QED BY <1>2, <1>3, <1>4, <1>5, <1>6, <1>7 DEF Session

\* What a client and its user do, but for what is typed, passed on and shown.
LEMMA ClientLines ==
    ASSUME TypeOK, NEW c \in Conns, Client(c) \/ User(c), ~ HandleCommand(c), ~ Show(c), ~ SomeLine(c),
           NEW d \in Conns, NEW f \in Conns, InLine(d, f)
    PROVE  /\ MailKeeps(f)
           /\ d = c => HearerKeeps(d, f)
           /\ f = c => SenderKeeps(f)
<1>1. UNCHANGED <<inbox, mailbox>>
  BY ClientKeepsType DEF serverVars
<1>2. CASE Kill(c)
  <2>1. PICK s \in Seq(Requests) : s = toServer[c]
    BY DEF TypeOK
  <2>2. PICK n \in 0..Len(s) : toServer'[c] = SubSeq(s, 1, n)
    BY <1>2, <2>1 DEF Kill, TypeOK
  <2>3. toClient'[c] = <<>> /\ commands'[c] = <<>> /\ UNCHANGED <<typed, printed>>
    BY <1>2 DEF Kill, TypeOK
  <2>4. d = c => HearerKeeps(d, f)
    BY <1>1, <2>3, FewerSame, FewerNone DEF HearerKeeps, InLine
  <2>5. f = c => SenderKeeps(f)
    <3>1. ASSUME f = c PROVE SenderKeeps(f)
      <4>1. InOrder(s, Asks)
        BY <2>1, <3>1 DEF InLine
      <4>2. Fewer(s, SubSeq(s, 1, n), Asks)
        BY <4>1, FewerCut
      <4> QED BY <2>1, <2>2, <2>3, <3>1, <4>2, FewerNone DEF SenderKeeps
    <3> QED BY <3>1
  <2> QED BY <1>1, <2>4, <2>5, UntouchedKeeps
<1>3. CASE ClientPings(c) \/ Disconnected(c) \/ ConsoleStarts(c) \/ CutOff(c) \/ ComeBack(c)
  <2>1. UNCHANGED <<toServer, toClient, commands, typed, printed>>
    BY <1>3 DEF ClientPings, Disconnected, ConsoleStarts, CutOff, ComeBack, wires
  <2> QED BY <1>1, <2>1, UntouchedKeeps
<1> QED BY <1>2, <1>3 DEF Client, User

\* What is typed changes in no other step.
LEMMA TypedStays ==
    ASSUME TypeOK, [Next]_vars, \A c \in Conns : ~ SomeLine(c) PROVE UNCHANGED <<typed, lines>>
<1>1. CASE Server
  BY <1>1 DEF Server, clientVars
<1>2. ASSUME NEW c \in Conns, Session(c) PROVE UNCHANGED <<typed, lines>>
  BY <1>2, SessionKeeps DEF clientVars
<1>3. ASSUME NEW c \in Conns, Client(c) \/ User(c) PROVE UNCHANGED <<typed, lines>>
  BY <1>3 DEF Client, User, ClientPings, HandleCommand, Show, Disconnected, ConsoleStarts, Kill,
              CutOff, ComeBack
<1>4. CASE UNCHANGED vars
  BY <1>4 DEF vars, clientVars
<1> QED BY <1>1, <1>2, <1>3, <1>4 DEF Next

LEMMA LinesStep == ASSUME Conversing, LineInv, [Next]_vars PROVE LineInv'
<1>1. CASE \E c \in Conns : SomeLine(c)
  BY <1>1, TypedLines DEF SomeLine, Conversing
<1>2. CASE \A c \in Conns : ~ SomeLine(c)
  <2> SUFFICES ASSUME NEW f \in Conns, NEW d \in Conns PROVE TypedInOrder(f)' /\ InLine(d, f)'
    BY DEF LineInv
  <2>1. UNCHANGED <<typed, lines>> /\ lines \in Nat /\ TypeOK
    <3>1. TypeOK
      BY DEF Conversing
    <3>2. lines \in Nat
      BY <3>1, RequestsAssumption DEF TypeOK
    <3> QED BY <1>2, <3>1, <3>2, TypedStays
  <2>2. TypedInOrder(f)'
    BY <2>1, TypedKeeps DEF LineInv
  <2>3. InLine(d, f) /\ \A c \in Conns : InLine(c, f) /\ InLine(d, c) /\ InLine(c, c)
    BY DEF LineInv
  <2>4. ASSUME NEW c \in Conns, Session(c) \/ Client(c) \/ User(c) PROVE InLine(d, f)'
    <3>1. /\ d # c => printed'[d] = printed[d] /\ toClient'[d] = toClient[d] /\ mailbox'[d] = mailbox[d]
          /\ f # c => toServer'[f] = toServer[f] /\ commands'[f] = commands[f] /\ typed'[f] = typed[f]
      BY <2>1, <2>4, Elsewhere
    <3>2. (d # c => HearerKeeps(d, f)) /\ (f # c => SenderKeeps(f))
      BY <2>3, <3>1, UntouchedKeeps
    <3>3. CASE HandleCommand(c)
      <4>1. CASE f = c
        BY <2>1, <2>3, <3>3, <4>1, PassedLine
      <4>2. CASE f # c
        <5>1. UNCHANGED <<inbox, printed, toClient, mailbox>>
          BY <3>3 DEF HandleCommand, serverVars
        <5> QED BY <2>3, <3>2, <4>2, <5>1, UntouchedKeeps, AllKeep
      <4> QED BY <4>1, <4>2
    <3>4. CASE Show(c)
      <4>1. CASE d = c
        BY <2>1, <2>3, <3>4, <4>1, ShownLine
      <4>2. CASE d # c
        <5>1. UNCHANGED <<inbox, toServer, commands, typed>>
          BY <3>4 DEF Show, serverVars
        <5> QED BY <2>3, <3>2, <4>2, <5>1, UntouchedKeeps, AllKeep
      <4> QED BY <4>1, <4>2
    <3>5. CASE Deliver(c)
      <4>1. CASE d = c
        BY <2>1, <2>3, <3>5, <4>1, DeliveredLine
      <4>2. CASE d # c
        <5>1. UNCHANGED <<inbox, toServer, commands, typed>>
          BY <3>5 DEF Deliver, clientVars
        <5> QED BY <2>3, <3>2, <4>2, <5>1, UntouchedKeeps, AllKeep
      <4> QED BY <4>1, <4>2
    <3>6. CASE SessionMessage(c)
      <4>1. CASE f = c
        BY <2>1, <2>3, <3>6, <4>1, SaidLine DEF Conversing, TalkInv
      <4>2. CASE f # c
        <5>1. UNCHANGED <<printed, toClient, mailbox>>
          BY <3>6 DEF SessionMessage, Request, clientVars
        <5>2. PICK n \in 1..MaxRequests : n = Head(toServer[c]).n
          BY <2>1, <3>6, RequestType, RequestKinds DEF SessionMessage
        <5>3. PICK m \in Messages : m = Message(sid[c], Said(c, n), room[c]) /\ Post(m)
          BY <2>1, <3>6, <5>2, IdsHeld, PostedMessages
             DEF HasId, SessionMessage, Request, TypeOK, ChatTypeOK, Conversing, TalkInv
        <5>4. \A k \in 1..MaxRequests : m.text # Said(f, k)
          <6>1. m.text = Said(c, n)
            BY <5>3 DEF Message
          <6> QED BY <4>2, <6>1, SaidOnce
        <5>5. MailKeeps(f)
          BY <2>1, <2>3, <5>3, <5>4, PostKeeps
        <5> QED BY <2>3, <3>2, <4>2, <5>1, <5>5, UntouchedKeeps, AllKeep
      <4> QED BY <4>1, <4>2
    <3>7. CASE Session(c) /\ ~ SessionMessage(c) /\ ~ Deliver(c)
      <4>1. MailKeeps(f) /\ (d = c => HearerKeeps(d, f)) /\ (f = c => SenderKeeps(f))
        BY <2>1, <2>3, <3>7, SessionLines DEF Conversing, TalkInv
      <4> QED BY <2>3, <3>2, <4>1, AllKeep
    <3>8. CASE (Client(c) \/ User(c)) /\ ~ HandleCommand(c) /\ ~ Show(c)
      <4>1. MailKeeps(f) /\ (d = c => HearerKeeps(d, f)) /\ (f = c => SenderKeeps(f))
        BY <1>2, <2>1, <2>3, <3>8, ClientLines
      <4> QED BY <2>3, <3>2, <4>1, AllKeep
    <3> QED BY <2>4, <3>3, <3>4, <3>5, <3>6, <3>7, <3>8
  <2>5. CASE Server
    <3>1. InLine(d, f)
      BY <2>3
    <3> QED BY <2>2, <2>5, <3>1, ServedLine
  <2>6. CASE UNCHANGED vars
    <3>1. UNCHANGED <<inbox, mailbox, toServer, toClient, commands, typed, printed>>
      BY <2>6 DEF vars, serverVars, clientVars, wires
    <3>2. HearerKeeps(d, f) /\ MailKeeps(f) /\ SenderKeeps(f)
      BY <2>3, <3>1, UntouchedKeeps
    <3> QED BY <2>2, <2>3, <3>2, AllKeep
  <2> QED BY <2>2, <2>4, <2>5, <2>6 DEF Next
<1> QED BY <1>1, <1>2

-----------------------------------------------------------------------------
(* The room a user is in                                                     *)

LEMMA AtFirst == ASSUME NEW l, NEW s PROVE RoomAfter(l, 0, s) = s
<1>1. {i \in 1..0 : l[i].cmd = "join"} = {}
  OBVIOUS
<1> QED BY <1>1 DEF RoomAfter

LEMMA OneFurther ==
    ASSUME NEW l, NEW k \in Nat, NEW s
    PROVE  RoomAfter(l, k + 1, s) =
              IF l[k + 1].cmd = "join" THEN l[k + 1].room ELSE RoomAfter(l, k, s)
<1>1. PICK J, K : /\ J = {i \in 1..k : l[i].cmd = "join"}
                  /\ K = {i \in 1..(k + 1) : l[i].cmd = "join"}
  OBVIOUS
<1>2. PICK m : m = CHOOSE i \in K : \A j \in K : j <= i
  OBVIOUS
<1>3. RoomAfter(l, k + 1, s) = IF K = {} THEN s ELSE l[m].room
  BY <1>1, <1>2 DEF RoomAfter
<1>4. CASE l[k + 1].cmd = "join"
  <2>1. k + 1 \in K /\ \A j \in K : j <= k + 1
    BY <1>1, <1>4
  <2>2. m \in K /\ \A j \in K : j <= m
    BY <1>2, <2>1
  <2>3. m = k + 1
    BY <1>1, <2>1, <2>2
  <2> QED BY <1>3, <1>4, <2>1, <2>3
<1>5. CASE l[k + 1].cmd # "join"
  <2>1. J = K
    <3>1. \A i \in 1..(k + 1) : i = k + 1 \/ i \in 1..k
      OBVIOUS
    <3>2. \A i \in 1..k : i \in 1..(k + 1)
      OBVIOUS
    <3> QED BY <1>1, <1>5, <3>1, <3>2
  <2>2. PICK p : p = CHOOSE i \in J : \A j \in J : j <= i
    OBVIOUS
  <2>3. RoomAfter(l, k, s) = IF J = {} THEN s ELSE l[p].room
    BY <1>1, <2>2 DEF RoomAfter
  <2>4. p = m
    BY <1>2, <2>1, <2>2
  <2> QED BY <1>3, <1>5, <2>1, <2>3, <2>4
<1> QED BY <1>4, <1>5

\* The room depends on the lines entered.
LEMMA SameRoom ==
    ASSUME NEW l, NEW t, NEW k \in Nat, NEW s, \A i \in 1..k : l[i] = t[i]
    PROVE  RoomAfter(l, k, s) = RoomAfter(t, k, s)
<1>1. PICK N : N = {n \in Nat : n <= k => RoomAfter(l, n, s) = RoomAfter(t, n, s)}
  OBVIOUS
<1>2. 0 \in N
  BY <1>1, AtFirst
<1>3. ASSUME NEW n \in Nat, n \in N PROVE n + 1 \in N
  <2> SUFFICES ASSUME n + 1 <= k PROVE RoomAfter(l, n + 1, s) = RoomAfter(t, n + 1, s)
    BY <1>1
  <2>1. RoomAfter(l, n, s) = RoomAfter(t, n, s) /\ l[n + 1] = t[n + 1]
    BY <1>1, <1>3
  <2> QED BY <2>1, OneFurther
<1>4. Nat \subseteq N
  BY <1>2, <1>3, SetInduction
<1> QED BY <1>1, <1>4

\* Without the first line, from where that line leads.
LEMMA TailRoom ==
    ASSUME NEW S, NEW q \in Seq(S), q # <<>>, NEW s, NEW k \in 0..Len(Tail(q))
    PROVE  RoomAfter(Tail(q), k, RoomAfter(q, 1, s)) = RoomAfter(q, k + 1, s)
<1>1. PICK t, m, r : t = Tail(q) /\ m = Len(t) /\ r = RoomAfter(q, 1, s)
  OBVIOUS
<1>2. m \in Nat /\ k \in Nat /\ k <= m /\ \A i \in 1..m : t[i] = q[i + 1]
  BY <1>1, HeadTailProperties, LenProperties
<1>3. PICK N : N = {n \in Nat : n <= m => RoomAfter(t, n, r) = RoomAfter(q, n + 1, s)}
  OBVIOUS
<1>4. 0 \in N
  BY <1>1, <1>3, AtFirst
<1>5. ASSUME NEW n \in Nat, n \in N PROVE n + 1 \in N
  <2> SUFFICES ASSUME n + 1 <= m PROVE RoomAfter(t, n + 1, r) = RoomAfter(q, (n + 1) + 1, s)
    BY <1>3
  <2>1. RoomAfter(t, n, r) = RoomAfter(q, n + 1, s) /\ t[n + 1] = q[(n + 1) + 1]
    BY <1>2, <1>3, <1>5
  <2> QED BY <2>1, OneFurther
<1>6. Nat \subseteq N
  BY <1>4, <1>5, SetInduction
<1> QED BY <1>1, <1>2, <1>3, <1>6

\* The room that line n of the lines T is said in.
SaidIn(T, n) == LET k == CHOOSE i \in DOMAIN T : T[i] = Say(n) IN RoomAfter(T, k - 1, Main)

LEMMA SaidInIs == ASSUME NEW c, NEW n PROVE RoomOfLine(c, n) = SaidIn(typed[c], n)
BY DEF RoomOfLine, SaidIn

LEMMA SaidAt ==
    ASSUME NEW S, NEW T \in Seq(S), InOrder(T, Asks), NEW n \in 1..MaxRequests,
           NEW i \in DOMAIN T, T[i] = Say(n)
    PROVE  SaidIn(T, n) = RoomAfter(T, i - 1, Main)
<1>1. PICK k : k = CHOOSE j \in DOMAIN T : T[j] = Say(n)
  OBVIOUS
<1>2. k \in DOMAIN T /\ T[k] = Say(n)
  BY <1>1
<1>3. DOMAIN T = 1..Len(T) /\ Len(T) \in Nat
  BY LenProperties
<1>4. T[i] \in Asks[n] /\ T[k] \in Asks[n] /\ n \in DOMAIN Asks
  BY <1>2, Forms, FormDomains
<1>5. ~ (i < k) /\ ~ (k < i)
  BY <1>2, <1>4 DEF InOrder
<1>6. k = i
  BY <1>2, <1>3, <1>5
<1> QED BY <1>1, <1>6 DEF SaidIn

\* What is typed later does not change it.
LEMMA SaidStays ==
    ASSUME NEW S, NEW T \in Seq(S), NEW x \in S, InOrder(T, Asks), InOrder(Append(T, x), Asks),
           NEW n \in Numbers(T, Asks)
    PROVE  SaidIn(Append(T, x), n) = SaidIn(T, n)
<1>1. PICK U \in Seq(S), m \in Nat : U = Append(T, x) /\ m = Len(T)
  BY AppendProperties, LenProperties
<1>2. DOMAIN T = 1..m /\ DOMAIN U = 1..(m + 1) /\ \A i \in 1..m : U[i] = T[i]
  BY <1>1, AppendProperties, LenProperties
<1>3. n \in 1..MaxRequests /\ \E i \in DOMAIN T : T[i] \in Asks[n]
  BY FormDomains DEF Numbers
<1>4. PICK i \in 1..m : T[i] = Say(n)
  BY <1>2, <1>3, Forms
<1>5. i \in DOMAIN T /\ i \in DOMAIN U /\ U[i] = Say(n) /\ i - 1 \in Nat
  BY <1>2, <1>4
<1>6. SaidIn(T, n) = RoomAfter(T, i - 1, Main) /\ SaidIn(U, n) = RoomAfter(U, i - 1, Main)
  BY <1>1, <1>3, <1>4, <1>5, SaidAt
<1>7. \A j \in 1..(i - 1) : T[j] = U[j]
  BY <1>2, <1>4
<1>8. RoomAfter(T, i - 1, Main) = RoomAfter(U, i - 1, Main)
  BY <1>5, <1>7, SameRoom
<1> QED BY <1>1, <1>6, <1>8

\* The lines that wait in q, of one who has typed T and is in room start, will be
\* said in the rooms they were typed for.
Tracks(q, start, T) ==
    \A i \in DOMAIN q : q[i].cmd = "say" => RoomAfter(q, i - 1, start) = SaidIn(T, q[i].n)

\* Where the line x leads from room r.
Leads(x, r) == IF x.cmd = "join" THEN x.room ELSE r

LEMMA TracksTail ==
    ASSUME NEW S, NEW q \in Seq(S), q # <<>>, NEW start, NEW T, Tracks(q, start, T),
           NEW h, h = Head(q), NEW next, next = Leads(h, start)
    PROVE  /\ Tracks(Tail(q), next, T)
           /\ RoomAfter(Tail(q), Len(Tail(q)), next) = RoomAfter(q, Len(q), start)
           /\ h.cmd = "say" => start = SaidIn(T, h.n)
<1>1. PICK t \in Seq(S), m \in Nat : t = Tail(q) /\ m = Len(t)
  BY HeadTailProperties, LenProperties
<1>2. /\ DOMAIN q = 1..(m + 1) /\ Len(q) = m + 1 /\ DOMAIN t = 1..m /\ h = q[1]
      /\ \A i \in 1..m : t[i] = q[i + 1]
  BY <1>1, HeadTailProperties, LenProperties
<1>3. next = RoomAfter(q, 1, start)
  <2>1. RoomAfter(q, 0 + 1, start) = IF q[0 + 1].cmd = "join" THEN q[0 + 1].room
                                     ELSE RoomAfter(q, 0, start)
    BY OneFurther
  <2>2. 0 + 1 = 1
    OBVIOUS
  <2> QED BY <1>2, <2>1, <2>2, AtFirst DEF Leads
<1>4. \A k \in 0..m : RoomAfter(t, k, next) = RoomAfter(q, k + 1, start)
  BY <1>1, <1>3, TailRoom
<1>5. Tracks(t, next, T)
  <2> SUFFICES ASSUME NEW i \in 1..m, t[i].cmd = "say"
               PROVE  RoomAfter(t, i - 1, next) = SaidIn(T, t[i].n)
    BY <1>2 DEF Tracks
  <2>1. i + 1 \in 1..(m + 1) /\ i - 1 \in 0..m /\ (i - 1) + 1 = i /\ (i + 1) - 1 = i
    OBVIOUS
  <2>2. RoomAfter(q, (i + 1) - 1, start) = SaidIn(T, q[i + 1].n)
    BY <1>2, <2>1 DEF Tracks
  <2>3. RoomAfter(t, i - 1, next) = RoomAfter(q, (i - 1) + 1, start)
    BY <1>4, <2>1
  <2> QED BY <1>2, <2>1, <2>2, <2>3
<1>6. RoomAfter(t, m, next) = RoomAfter(q, m + 1, start)
  BY <1>4
<1>7. ASSUME h.cmd = "say" PROVE start = SaidIn(T, h.n)
  <2>1. 1 \in DOMAIN q /\ 1 - 1 = 0
    BY <1>2
  <2>2. RoomAfter(q, 1 - 1, start) = SaidIn(T, q[1].n)
    BY <1>2, <1>7, <2>1 DEF Tracks
  <2> QED BY <1>2, <2>1, <2>2, AtFirst
<1> QED BY <1>1, <1>2, <1>5, <1>6, <1>7

LEMMA TracksAppend ==
    ASSUME NEW S, NEW q \in Seq(S), NEW x \in S, NEW start, NEW T, Tracks(q, start, T),
           x.cmd = "say" => RoomAfter(q, Len(q), start) = SaidIn(T, x.n)
    PROVE  /\ Tracks(Append(q, x), start, T)
           /\ RoomAfter(Append(q, x), Len(Append(q, x)), start) =
                 Leads(x, RoomAfter(q, Len(q), start))
<1>1. PICK t \in Seq(S), m \in Nat : t = Append(q, x) /\ m = Len(q)
  BY AppendProperties, LenProperties
<1>2. /\ DOMAIN q = 1..m /\ DOMAIN t = 1..(m + 1) /\ Len(t) = m + 1 /\ t[m + 1] = x
      /\ \A i \in 1..m : t[i] = q[i]
  BY <1>1, AppendProperties, LenProperties
<1>3. \A k \in 0..m : RoomAfter(t, k, start) = RoomAfter(q, k, start)
  <2> SUFFICES ASSUME NEW k \in 0..m PROVE RoomAfter(t, k, start) = RoomAfter(q, k, start)
    OBVIOUS
  <2>1. \A i \in 1..k : t[i] = q[i]
    BY <1>2
  <2> QED BY <2>1, SameRoom
<1>4. Tracks(t, start, T)
  <2> SUFFICES ASSUME NEW i \in 1..(m + 1), t[i].cmd = "say"
               PROVE  RoomAfter(t, i - 1, start) = SaidIn(T, t[i].n)
    BY <1>2 DEF Tracks
  <2>1. CASE i = m + 1
    <3>1. i - 1 = m /\ m \in 0..m /\ t[i] = x
      BY <1>2, <2>1
    <3>2. RoomAfter(q, m, start) = SaidIn(T, x.n)
      BY <1>1, <3>1
    <3> QED BY <1>3, <3>1, <3>2
  <2>2. CASE i # m + 1
    <3>1. i \in 1..m /\ i - 1 \in 0..m
      BY <2>2
    <3>2. RoomAfter(q, i - 1, start) = SaidIn(T, q[i].n)
      BY <1>2, <3>1 DEF Tracks
    <3> QED BY <1>2, <1>3, <3>1, <3>2
  <2> QED BY <2>1, <2>2
<1>5. RoomAfter(t, m + 1, start) = Leads(x, RoomAfter(q, m, start))
  <2>1. m \in 0..m
    OBVIOUS
  <2> QED BY <1>2, <1>3, <2>1, OneFurther DEF Leads
<1> QED BY <1>1, <1>2, <1>4, <1>5

LEMMA TracksCut ==
    ASSUME NEW S, NEW q \in Seq(S), NEW start, NEW T, Tracks(q, start, T), NEW n \in 0..Len(q)
    PROVE  Tracks(SubSeq(q, 1, n), start, T)
<1>1. PICK t \in Seq(S) : t = SubSeq(q, 1, n)
  BY CutInTwo
<1>2. Len(q) \in Nat /\ DOMAIN q = 1..Len(q)
  BY LenProperties
<1>3. \A i \in 1..n : q[i] \in S
  BY <1>2, ElementOfSeq
<1>4. DOMAIN t = 1..n /\ \A i \in 1..n : t[i] = q[i]
  BY <1>1, <1>2, <1>3, SubSeqProperties, LenProperties
<1>5. Tracks(t, start, T)
  <2> SUFFICES ASSUME NEW i \in 1..n, t[i].cmd = "say"
               PROVE  RoomAfter(t, i - 1, start) = SaidIn(T, t[i].n)
    BY <1>4 DEF Tracks
  <2>1. i \in DOMAIN q /\ i - 1 \in Nat /\ \A j \in 1..(i - 1) : t[j] = q[j]
    BY <1>2, <1>4
  <2>2. RoomAfter(t, i - 1, start) = RoomAfter(q, i - 1, start)
    BY <2>1, SameRoom
  <2> QED BY <1>4, <2>1, <2>2 DEF Tracks
<1> QED BY <1>1, <1>5

LEMMA TracksNone == ASSUME NEW start, NEW T PROVE Tracks(<<>>, start, T)
<1>1. DOMAIN <<>> = {}
  BY EmptySeq
<1> QED BY <1>1 DEF Tracks

\* The session in phase p, with field r and the requests q, of a client in state s with
\* the lines l, whose user has typed T: unless lines have been lost, all that waits is
\* for the rooms it was typed for, and the last of it leads where the user is.
Fit(p, s, r, q, l, T) ==
    p # "stopped" =>
        LET now == RoomAfter(q, Len(q), r)
        IN  /\ Tracks(q, r, T) /\ Tracks(l, now, T)
            /\ s # "over" => RoomAfter(l, Len(l), now) = RoomAfter(T, Len(T), Main)

RoomFits(c) == Fit(phase[c], process[c], room[c], toServer[c], commands[c], typed[c])

\* The rooms entered with the lines T.
Entered(T) == {Main} \cup {T[i].room : i \in {j \in DOMAIN T : T[j].cmd = "join"}}

\* Requests for no other rooms than R.
RequestsIn(R) == {x \in Requests \cup {Mistake} : x.cmd = "join" => x.room \in R}

\* A user's session, and what waits for it, is in rooms the user has entered.
Within(r, q, l, T) ==
    r \in Entered(T) /\ q \in Seq(RequestsIn(Entered(T))) /\ l \in Seq(RequestsIn(Entered(T)))
RoomWithin(c) == Within(room[c], toServer[c], commands[c], typed[c])

\* A line that c may hear when T has been typed: another's, said in a room c has entered.
HeardBy(c, t, T) ==
    t \in SaidTexts =>
        /\ t.from # c /\ t.n \in Numbers(T[t.from], Asks)
        /\ SaidIn(T[t.from], t.n) \in Entered(T[c])
TextsFor(c, T) == {t \in Texts : HeardBy(c, t, T)}
ResponsesFor(c, T) == {r \in Responses : r.kind = "message" => HeardBy(c, r.text, T)}
PrintedFor(c, T) == {r \in ResponsesFor(c, T) : ~ IsNotice(r)}

Hearing(c, m, w, p, T) ==
    m \in Seq(TextsFor(c, T)) /\ w \in Seq(ResponsesFor(c, T)) /\ p \in Seq(PrintedFor(c, T))
Heard(c) == Hearing(c, mailbox[c], toClient[c], printed[c], typed)

\* Messages in the server's mailbox are from who says so, for the right room.
MailFits(m, S, T) ==
    /\ m.type = "Message" =>
          LET f == m.text.from
          IN  /\ S[m.id] = f /\ m.text.n \in Numbers(T[f], Asks)
              /\ m.room = SaidIn(T[f], m.text.n)
    /\ m.type = "Join" => m.name \in Entered(T[S[m.id]])
Mails(S, T) == {m \in Messages : MailFits(m, S, T)}
MailInv == inbox \in Seq(Mails(sessions, typed))

\* A room's members have entered it.
MembersEntered(ms, S, T) == \A r \in DOMAIN ms : \A id \in ms[r] : r \in Entered(T[S[id]])
Members == MembersEntered(rooms, sessions, typed)

RoomInv ==
    /\ \A c \in Conns : RoomFits(c) /\ RoomWithin(c) /\ Heard(c)
    /\ MailInv /\ Members

LEMMA RoomsNext ==
    ASSUME NEW c \in Conns
    PROVE  /\ RoomFits(c)' <=>
                Fit(phase'[c], process'[c], room'[c], toServer'[c], commands'[c], typed'[c])
           /\ RoomWithin(c)' <=> Within(room'[c], toServer'[c], commands'[c], typed'[c])
           /\ Heard(c)' <=> Hearing(c, mailbox'[c], toClient'[c], printed'[c], typed')
BY DEF RoomFits, RoomWithin, Heard

LEMMA MailNext ==
    /\ MailInv' <=> inbox' \in Seq(Mails(sessions', typed'))
    /\ Members' <=> MembersEntered(rooms', sessions', typed')
BY DEF MailInv, Members

LEMMA EnteredIs == ASSUME NEW c PROVE RoomsEntered(c) = Entered(typed[c])
BY DEF RoomsEntered, Entered

LEMMA SeqWithin ==
    ASSUME NEW S, NEW s \in Seq(S), NEW P, \A i \in DOMAIN s : s[i] \in P PROVE s \in Seq(P)
<1>1. PICK n \in Nat : n = Len(s) /\ s \in [1..n -> S]
  BY LenProperties
<1>2. s \in [1..n -> P]
  BY <1>1
<1> QED BY <1>2

\* U has all that T has.
Grown(T, U) ==
    /\ Entered(T) \subseteq Entered(U)
    /\ \A n \in Numbers(T, Asks) : n \in Numbers(U, Asks) /\ SaidIn(U, n) = SaidIn(T, n)

LEMMA GrownSame == ASSUME NEW T PROVE Grown(T, T)
BY DEF Grown

LEMMA GrownAppend ==
    ASSUME NEW S, NEW T \in Seq(S), NEW x \in S, InOrder(T, Asks), InOrder(Append(T, x), Asks)
    PROVE  Grown(T, Append(T, x)) /\ (x.cmd = "join" => x.room \in Entered(Append(T, x)))
<1>1. PICK U \in Seq(S), m \in Nat : U = Append(T, x) /\ m = Len(T)
  BY AppendProperties, LenProperties
<1>2. DOMAIN T = 1..m /\ DOMAIN U = 1..(m + 1) /\ U[m + 1] = x /\ \A i \in 1..m : U[i] = T[i]
  BY <1>1, AppendProperties, LenProperties
<1>3. \A i \in DOMAIN T : i \in DOMAIN U /\ U[i] = T[i]
  BY <1>2
<1>4. Entered(T) \subseteq Entered(U)
  BY <1>3 DEF Entered
<1>5. x.cmd = "join" => x.room \in Entered(U)
  BY <1>2 DEF Entered
<1>6. \A n \in Numbers(T, Asks) : n \in Numbers(U, Asks)
  BY <1>3 DEF Numbers
<1>7. \A n \in Numbers(T, Asks) : SaidIn(U, n) = SaidIn(T, n)
  BY <1>1, SaidStays
<1> QED BY <1>1, <1>4, <1>5, <1>6, <1>7 DEF Grown

\* Who has heard a line still may when more is typed.
LEMMA HearingGrows ==
    ASSUME NEW T, NEW U, \A f \in Conns : Grown(T[f], U[f]), NEW c \in Conns,
           NEW m, NEW w, NEW p, Hearing(c, m, w, p, T)
    PROVE  Hearing(c, m, w, p, U)
<1>1. ASSUME NEW t, HeardBy(c, t, T) PROVE HeardBy(c, t, U)
  <2> SUFFICES ASSUME t \in SaidTexts
               PROVE  /\ t.from # c /\ t.n \in Numbers(U[t.from], Asks)
                      /\ SaidIn(U[t.from], t.n) \in Entered(U[c])
    BY DEF HeardBy
  <2>1. PICK f \in Conns, n \in 1..MaxRequests : f = t.from /\ n = t.n
    BY DEF SaidTexts
  <2>2. f # c /\ n \in Numbers(T[f], Asks) /\ SaidIn(T[f], n) \in Entered(T[c])
    BY <1>1, <2>1 DEF HeardBy
  <2>3. Grown(T[f], U[f]) /\ Grown(T[c], U[c])
    OBVIOUS
  <2>4. n \in Numbers(U[f], Asks) /\ SaidIn(U[f], n) \in Entered(U[c])
    BY <2>2, <2>3 DEF Grown
  <2> QED BY <2>1, <2>2, <2>4
<1>2. TextsFor(c, T) \subseteq TextsFor(c, U) /\ ResponsesFor(c, T) \subseteq ResponsesFor(c, U)
  BY <1>1 DEF TextsFor, ResponsesFor
<1>3. PrintedFor(c, T) \subseteq PrintedFor(c, U)
  BY <1>2 DEF PrintedFor
<1> QED BY <1>2, <1>3, SeqMonotonic DEF Hearing

LEMMA WithinGrows ==
    ASSUME NEW T, NEW U, Grown(T, U), NEW r, NEW q, NEW l, Within(r, q, l, T)
    PROVE  Within(r, q, l, U)
<1>1. RequestsIn(Entered(T)) \subseteq RequestsIn(Entered(U))
  BY DEF RequestsIn, Grown
<1> QED BY <1>1, SeqMonotonic DEF Within, Grown

\* A message that fits still does, when its sender is still registered.
LEMMA MailStays ==
    ASSUME NEW m \in Messages, NEW S, NEW Z, NEW T, NEW U, MailFits(m, S, T),
           m.type \in {"Join", "Message"} => S[m.id] \in Conns /\ Z[m.id] = S[m.id],
           \A f \in Conns : Grown(T[f], U[f])
    PROVE  MailFits(m, Z, U)
<1>1. CASE m.type = "Message"
  <2>1. PICK f \in Conns, n \in 1..MaxRequests : f = m.text.from /\ n = m.text.n
    BY <1>1 DEF Messages, SaidTexts
  <2>2. S[m.id] = f /\ n \in Numbers(T[f], Asks) /\ m.room = SaidIn(T[f], n)
    BY <1>1, <2>1 DEF MailFits
  <2>3. Z[m.id] = f /\ n \in Numbers(U[f], Asks) /\ m.room = SaidIn(U[f], n)
    BY <1>1, <2>2 DEF Grown
  <2> QED BY <1>1, <2>1, <2>3 DEF MailFits
<1>2. CASE m.type = "Join"
  <2>1. PICK f \in Conns : f = S[m.id] /\ f = Z[m.id]
    BY <1>2
  <2>2. m.name \in Entered(T[f])
    BY <1>2, <2>1 DEF MailFits
  <2>3. m.name \in Entered(U[f])
    BY <2>2 DEF Grown
  <2> QED BY <1>2, <2>1, <2>3 DEF MailFits
<1>3. CASE m.type \notin {"Join", "Message"}
  BY <1>3 DEF MailFits
<1> QED BY <1>1, <1>2, <1>3

\* Every number said in q is one of its lines.
LEMMA SayNumbers ==
    ASSUME NEW q \in Seq(Requests \cup {Mistake}), NEW i \in DOMAIN q, q[i].cmd = "say"
    PROVE  q[i].n \in Numbers(q, Asks)
<1>1. PICK x \in Requests \cup {Mistake} : x = q[i]
  BY LenProperties, ElementOfSeq
<1>2. x \in Requests
  BY <1>1, MistakeIsNone
<1>3. x.n \in 1..MaxRequests /\ x = Say(x.n)
  BY <1>1, <1>2, RequestKinds
<1>4. x \in Asks[x.n]
  BY <1>3, Forms
<1> QED BY <1>1, <1>3, <1>4, FormDomains DEF Numbers

LEMMA TracksGrows ==
    ASSUME NEW q \in Seq(Requests \cup {Mistake}), NEW start, NEW T, NEW U, Grown(T, U),
           Tracks(q, start, T), Numbers(q, Asks) \subseteq Numbers(T, Asks)
    PROVE  Tracks(q, start, U)
<1> SUFFICES ASSUME NEW i \in DOMAIN q, q[i].cmd = "say"
             PROVE  RoomAfter(q, i - 1, start) = SaidIn(U, q[i].n)
  BY DEF Tracks
<1>1. PICK n : n = q[i].n
  OBVIOUS
<1>2. n \in Numbers(T, Asks)
  BY <1>1, SayNumbers
<1>3. RoomAfter(q, i - 1, start) = SaidIn(T, n)
  BY <1>1 DEF Tracks
<1> QED BY <1>1, <1>2, <1>3 DEF Grown

\* Where a line leads that is entered after others.
LEMMA RoomAppend ==
    ASSUME NEW S, NEW q \in Seq(S), NEW x \in S, NEW s
    PROVE  /\ RoomAfter(Append(q, x), Len(q), s) = RoomAfter(q, Len(q), s)
           /\ RoomAfter(Append(q, x), Len(Append(q, x)), s) = Leads(x, RoomAfter(q, Len(q), s))
<1>1. PICK t \in Seq(S), m \in Nat : t = Append(q, x) /\ m = Len(q)
  BY AppendProperties, LenProperties
<1>2. Len(t) = m + 1 /\ t[m + 1] = x /\ \A i \in 1..m : t[i] = q[i]
  BY <1>1, AppendProperties, LenProperties
<1>3. RoomAfter(t, m, s) = RoomAfter(q, m, s)
  BY <1>2, SameRoom
<1>4. RoomAfter(t, m + 1, s) = Leads(x, RoomAfter(q, m, s))
  BY <1>2, <1>3, OneFurther DEF Leads
<1> QED BY <1>1, <1>2, <1>3, <1>4

\* The numbers of c's lines that wait are those of typed ones.
LEMMA WaitingNumbers ==
    ASSUME LineInv, NEW c \in Conns
    PROVE  /\ Numbers(toServer[c], Asks) \subseteq Numbers(typed[c], Asks)
           /\ Numbers(commands[c], Asks) \subseteq Numbers(typed[c], Asks)
<1>1. InLine(c, c)
  BY DEF LineInv
<1>2. PICK w : w = Way(c, c)
  OBVIOUS
<1>3. w[5] \subseteq Numbers(typed[c], Asks) /\ w[6] \subseteq Numbers(typed[c], Asks)
  BY <1>1, <1>2 DEF InLine
<1> QED BY <1>2, <1>3, WayPlaces

\* A line is typed: it waits behind the others, for the room the user is in.
LEMMA TypedFit ==
    ASSUME NEW T \in Seq(Requests \cup {Mistake}), NEW q \in Seq(Requests \cup {Mistake}),
           NEW l \in Seq(Requests \cup {Mistake}), NEW x \in Requests \cup {Mistake},
           InOrder(T, Asks), InOrder(Append(T, x), Asks),
           Numbers(q, Asks) \subseteq Numbers(T, Asks), Numbers(l, Asks) \subseteq Numbers(T, Asks),
           NEW p, NEW s, s # "over", NEW r, Fit(p, s, r, q, l, T)
    PROVE  Fit(p, s, r, q, Append(l, x), Append(T, x))
<1>1. PICK U \in Seq(Requests \cup {Mistake}), k \in Seq(Requests \cup {Mistake}), m \in Nat :
        U = Append(T, x) /\ k = Append(l, x) /\ m = Len(T)
  BY AppendProperties, LenProperties
<1> SUFFICES ASSUME p # "stopped" PROVE Fit(p, s, r, q, k, U)
  BY <1>1 DEF Fit
<1>2. PICK now, here : now = RoomAfter(q, Len(q), r) /\ here = RoomAfter(l, Len(l), now)
  OBVIOUS
<1>3. Tracks(q, r, T) /\ Tracks(l, now, T) /\ here = RoomAfter(T, m, Main)
  BY <1>1, <1>2 DEF Fit
<1>4. Grown(T, U)
  BY <1>1, GrownAppend
<1>5. Tracks(q, r, U) /\ Tracks(l, now, U)
  BY <1>3, <1>4, TracksGrows
<1>6. RoomAfter(U, m, Main) = here /\ RoomAfter(U, Len(U), Main) = Leads(x, here)
  BY <1>1, <1>3, RoomAppend
<1>7. ASSUME x.cmd = "say" PROVE here = SaidIn(U, x.n)
  <2>1. x \in Requests
    BY <1>7, MistakeIsNone
  <2>2. PICK n \in 1..MaxRequests : n = x.n /\ x = Say(n)
    BY <1>7, <2>1, RequestKinds
  <2>3. m + 1 \in DOMAIN U /\ U[m + 1] = x /\ (m + 1) - 1 = m
    BY <1>1, AppendProperties, LenProperties
  <2>4. SaidIn(U, n) = RoomAfter(U, (m + 1) - 1, Main)
    BY <1>1, <2>2, <2>3, SaidAt
  <2> QED BY <1>6, <2>2, <2>3, <2>4
<1>8. Tracks(k, now, U) /\ RoomAfter(k, Len(k), now) = Leads(x, here)
  BY <1>1, <1>2, <1>5, <1>7, TracksAppend
<1> QED BY <1>2, <1>5, <1>6, <1>8 DEF Fit

LEMMA TypedRooms ==
    ASSUME Conversing, LineInv, LineInv', RoomInv, NEW c \in Conns,
           NEW line \in Requests \cup {Mistake}, ReadLine(c, line)
    PROVE  RoomInv'
<1>1. TypeOK /\ TalkInv
  BY DEF Conversing
<1>2. PICK T \in Seq(Requests \cup {Mistake}), l \in Seq(Requests \cup {Mistake}) :
        T = typed[c] /\ l = commands[c]
  BY <1>1 DEF TypeOK
<1>3. PICK q \in Seq(Requests \cup {Mistake}) : q = toServer[c]
  <2>1. toServer[c] \in Seq(Requests)
    BY <1>1 DEF TypeOK
  <2>2. toServer[c] \in Seq(Requests \cup {Mistake})
    BY <2>1, SeqMonotonic
  <2> QED BY <2>2
<1>4. /\ process[c] = "up" /\ typed'[c] = Append(T, line) /\ commands'[c] = Append(l, line)
      /\ UNCHANGED <<inbox, sessions, rooms, mailbox, phase, room, process, toServer, toClient, printed>>
      /\ \A d \in Conns : d # c => typed'[d] = typed[d] /\ commands'[d] = commands[d]
  BY <1>1, <1>2 DEF ReadLine, TypeOK, serverVars, sessionVars, wires
<1>5. InOrder(T, Asks) /\ InOrder(Append(T, line), Asks)
  <2>1. TypedInOrder(c) /\ TypedInOrder(c)'
    BY DEF LineInv
  <2>2. Asks' = Asks
    BY DEF Asks, Say
  <2> QED BY <1>2, <1>4, <2>1, <2>2 DEF TypedInOrder, InOrder
<1>6. PICK U : U = typed'
  OBVIOUS
<1>7. Grown(T, U[c]) /\ (line.cmd = "join" => line.room \in Entered(U[c]))
  BY <1>4, <1>5, <1>6, GrownAppend
<1>8. \A f \in Conns : Grown(typed[f], U[f])
  BY <1>2, <1>4, <1>6, <1>7, GrownSame
<1>9. ASSUME NEW d \in Conns PROVE RoomFits(d)' /\ RoomWithin(d)' /\ Heard(d)'
  <2>1. RoomFits(d) /\ RoomWithin(d) /\ Heard(d)
    BY DEF RoomInv
  <2>2. Hearing(d, mailbox'[d], toClient'[d], printed'[d], U)
    BY <1>4, <1>8, <2>1, HearingGrows DEF Heard
  <2>3. CASE d = c
    <3>1. Fit(phase[c], process[c], room[c], q, l, T)
      BY <1>2, <1>3, <2>1, <2>3 DEF RoomFits
    <3>2. Numbers(q, Asks) \subseteq Numbers(T, Asks) /\ Numbers(l, Asks) \subseteq Numbers(T, Asks)
      BY <1>2, <1>3, WaitingNumbers
    <3>3. process[c] # "over"
      BY <1>4
    <3>4. Fit(phase[c], process[c], room[c], q, Append(l, line), Append(T, line))
      BY <1>5, <3>1, <3>2, <3>3, TypedFit
    <3>5. Within(room[c], q, l, U[c])
      BY <1>2, <1>3, <1>7, <2>1, <2>3, WithinGrows DEF RoomWithin
    <3>6. line \in RequestsIn(Entered(U[c]))
      BY <1>7 DEF RequestsIn
    <3>7. Within(room[c], q, Append(l, line), U[c])
      BY <3>5, <3>6, AppendProperties DEF Within
    <3> QED BY <1>3, <1>4, <1>6, <2>2, <2>3, <3>4, <3>7, RoomsNext
  <2>4. CASE d # c
    <3>1. /\ Fit(phase'[d], process'[d], room'[d], toServer'[d], commands'[d], typed'[d])
          /\ Within(room'[d], toServer'[d], commands'[d], typed'[d])
      BY <1>4, <2>1, <2>4 DEF RoomFits, RoomWithin
    <3> QED BY <1>6, <2>2, <3>1, RoomsNext
  <2> QED BY <2>3, <2>4
<1>10. MailInv'
  <2>1. PICK s \in Seq(Mails(sessions, typed)) : s = inbox
    BY DEF RoomInv, MailInv
  <2>2. ASSUME NEW i \in DOMAIN s PROVE s[i] \in Mails(sessions, U)
    <3>1. PICK m \in Messages : m = s[i] /\ MailFits(m, sessions, typed)
      BY <2>1, LenProperties, ElementOfSeq DEF Mails
    <3>2. m.type \in {"Join", "Message"} => m.id \in DOMAIN sessions
      BY <1>1, <2>1, <3>1 DEF TalkInv, DisconnectIsLast
    <3>3. m.type \in {"Join", "Message"} => sessions[m.id] \in Conns
      BY <1>1, <3>2 DEF TypeOK, ChatTypeOK
    <3>4. MailFits(m, sessions, U)
      BY <1>8, <3>1, <3>3, MailStays
    <3> QED BY <3>1, <3>4 DEF Mails
  <2>3. s \in Seq(Mails(sessions, U))
    BY <2>2, SeqWithin
  <2> QED BY <1>4, <1>6, <2>1, <2>3, MailNext
<1>11. Members'
  <2>1. ASSUME NEW r \in DOMAIN rooms, NEW id \in rooms[r] PROVE r \in Entered(U[sessions[id]])
    <3>1. PICK f \in Conns : f = sessions[id]
      BY <1>1 DEF TalkInv, RoomMembersRegistered, TypeOK, ChatTypeOK
    <3>2. r \in Entered(typed[f])
      BY <3>1 DEF RoomInv, Members, MembersEntered
    <3>3. Grown(typed[f], U[f])
      BY <1>8
    <3> QED BY <3>1, <3>2, <3>3 DEF Grown
  <2>2. MembersEntered(rooms, sessions, U)
    BY <2>1 DEF MembersEntered
  <2> QED BY <1>4, <1>6, <2>2, MailNext
<1> QED BY <1>9, <1>10, <1>11 DEF RoomInv

LEMMA InitRooms == Init => RoomInv
<1> SUFFICES ASSUME Init PROVE RoomInv
  OBVIOUS
<1>1. Main \in Entered(<<>>) /\ \A S : <<>> \in Seq(S)
  BY EmptySeq DEF Entered
<1>2. inbox = <<>> /\ rooms = [r \in {Main} |-> {}]
  BY DEF Init, ChatInit, ServerInit
<1>3. MailInv /\ Members
  BY <1>1, <1>2 DEF MailInv, Members, MembersEntered
<1>4. ASSUME NEW c \in Conns PROVE RoomFits(c) /\ RoomWithin(c) /\ Heard(c)
  <2>1. /\ typed[c] = <<>> /\ commands[c] = <<>> /\ toServer[c] = <<>>
        /\ mailbox[c] = <<>> /\ toClient[c] = <<>> /\ printed[c] = <<>> /\ room[c] = Main
    BY DEF Init, ChatInit
  <2>2. \A r : RoomAfter(<<>>, Len(<<>>), r) = r
    <3>1. Len(<<>>) = 0
      BY EmptySeq
    <3> QED BY <3>1, AtFirst
  <2>3. RoomFits(c)
    BY <2>1, <2>2, TracksNone DEF RoomFits, Fit
  <2> QED BY <1>1, <2>1, <2>3 DEF RoomWithin, Within, Heard, Hearing
<1> QED BY <1>3, <1>4 DEF RoomInv

\* A registered id keeps its session while it is registered.
LEMMA SessionsKept ==
    ASSUME TalkInv, ServerStep, NEW id \in DOMAIN sessions, id \in DOMAIN sessions'
    PROVE  sessions'[id] = sessions[id]
<1>1. DOMAIN sessions \subseteq issued
  BY DEF TalkInv, IdsOwned
<1>2. CASE HandleConnect
  <2>1. PICK new \in Ids \ issued : sessions' = Register(new, Head(inbox).conn)
    BY <1>2 DEF HandleConnect, OnConnect
  <2> QED BY <1>1, <2>1 DEF Register
<1>3. CASE HandleDisconnect
  BY <1>3 DEF HandleDisconnect, OnDisconnect, DisconnectRegistered, DisconnectUnknown, Unregister
<1>4. CASE HandleMessage \/ HandleListRooms \/ HandleJoin
  BY <1>4 DEF HandleMessage, OnMessage, HandleListRooms, OnListRooms, HandleJoin, OnJoin
<1> QED BY <1>2, <1>3, <1>4 DEF ServerStep, Serve

\* Who is a member after a step was one before, or has connected or joined.
LEMMA MembersStep ==
    ASSUME TalkInv, ServerStep, NEW T, MembersEntered(rooms, sessions, T),
           MailFits(inbox[1], sessions, T), RoomMembersRegistered', Main \in Rooms
    PROVE  MembersEntered(rooms', sessions', T)
<1>1. inbox[1] = Head(inbox) /\ inbox[1] \in Messages /\ RoomMembersRegistered
  BY ServerTakes DEF TalkInv, ServerStep
<1>2. ASSUME NEW r \in DOMAIN rooms', NEW id \in rooms'[r], r \in DOMAIN rooms, id \in rooms[r]
      PROVE  r \in Entered(T[sessions'[id]])
  <2>1. id \in DOMAIN sessions /\ id \in DOMAIN sessions'
    BY <1>1, <1>2 DEF RoomMembersRegistered
  <2>2. sessions'[id] = sessions[id]
    BY <2>1, SessionsKept
  <2> QED BY <1>2, <2>2 DEF MembersEntered
<1>3. ASSUME NEW r \in DOMAIN rooms', NEW id \in rooms'[r], ~ (r \in DOMAIN rooms /\ id \in rooms[r])
      PROVE  r \in Entered(T[sessions'[id]])
  <2>1. CASE HandleConnect
    <3>1. PICK new : rooms' = WithMember(rooms, new, Main)
      BY <2>1 DEF HandleConnect, OnConnect
    <3>2. r = Main
      BY <1>3, <3>1 DEF WithMember
    <3> QED BY <3>2 DEF Entered
  <2>2. CASE HandleJoin
    <3>1. PICK m : m = inbox[1]
      OBVIOUS
    <3>2. m.type = "Join" /\ UNCHANGED sessions /\ rooms' = WithMember(WithoutMember(m.id), m.id, m.name)
      BY <1>1, <2>2, <3>1 DEF HandleJoin, Consume, OnJoin
    <3>3. r = m.name /\ id = m.id
      BY <1>3, <3>2 DEF WithMember, WithoutMember
    <3> QED BY <3>1, <3>2, <3>3 DEF MailFits
  <2>3. CASE HandleDisconnect
    BY <1>3, <2>3 DEF HandleDisconnect, OnDisconnect, DisconnectRegistered, DisconnectUnknown,
                      WithoutMember
  <2>4. CASE HandleMessage \/ HandleListRooms
    BY <1>3, <2>4 DEF HandleMessage, OnMessage, HandleListRooms, OnListRooms
  <2> QED BY <2>1, <2>2, <2>3, <2>4 DEF ServerStep, Serve
<1> QED BY <1>2, <1>3 DEF MembersEntered

\* What the server tells a hearer.
LEMMA ToldHears ==
    ASSUME Conversing, RoomInv, Server, NEW c \in Conns
    PROVE  mailbox'[c] \in Seq(TextsFor(c, typed))
<1>1. ServerStep /\ TalkInv /\ OneSession /\ ChatTypeOK
  BY ServerIsStep DEF Conversing, TalkInv
<1>2. PICK s \in Seq(TextsFor(c, typed)) : s = mailbox[c]
  BY DEF RoomInv, Heard, Hearing
<1>3. CASE inbox[1].type = "Message"
  <2>1. PICK m \in Messages : m = inbox[1] /\ MailFits(m, sessions, typed)
    <3>1. inbox[1] = Head(inbox) /\ inbox # <<>>
      BY <1>1, ServerTakes DEF ServerStep, Serve, HandleConnect, HandleDisconnect, HandleMessage,
                               HandleListRooms, HandleJoin, Consume
    <3>2. inbox \in Seq(Mails(sessions, typed))
      BY DEF RoomInv, MailInv
    <3>3. Head(inbox) \in Mails(sessions, typed)
      BY <3>1, <3>2, TakeHead
    <3> QED BY <3>1, <3>3 DEF Mails
  <2>2. /\ m.type = "Message" /\ m.text \in SaidTexts
        /\ \/ mailbox'[c] = s
           \/ mailbox'[c] = Append(s, m.text) /\ Hears(c, m)
    BY <1>1, <1>2, <1>3, <2>1, MailboxSays
  <2>3. ASSUME Hears(c, m) PROVE m.text \in TextsFor(c, typed)
    <3>1. PICK f \in Conns, n \in 1..MaxRequests : f = m.text.from /\ n = m.text.n
      BY <2>2 DEF SaidTexts
    <3>2. sessions[m.id] = f /\ n \in Numbers(typed[f], Asks) /\ m.room = SaidIn(typed[f], n)
      BY <2>1, <2>2, <3>1 DEF MailFits
    <3>3. f # c
      BY <2>3, <3>2 DEF Hears
    <3>4. PICK id \in DOMAIN sessions : sessions[id] = c /\ id \in rooms[m.room] /\ m.room \in DOMAIN rooms
      BY <2>3 DEF Hears
    <3>5. m.room \in Entered(typed[c])
      BY <3>4 DEF RoomInv, Members, MembersEntered
    <3>6. HeardBy(c, m.text, typed)
      BY <3>1, <3>2, <3>3, <3>5 DEF HeardBy
    <3> QED BY <2>2, <3>6 DEF TextsFor, Texts
  <2>4. CASE mailbox'[c] = s
    BY <2>4
  <2>5. CASE mailbox'[c] = Append(s, m.text) /\ Hears(c, m)
    <3>1. Append(s, m.text) \in Seq(TextsFor(c, typed))
      BY <2>3, <2>5, AppendProperties
    <3> QED BY <2>5, <3>1
  <2> QED BY <2>2, <2>4, <2>5
<1>4. CASE inbox[1].type # "Message"
  <2>1. Extends(mailbox[c], mailbox'[c], Notices)
    BY <1>1, <1>4, MailboxNotices
  <2>2. PICK t \in Seq(Texts), k \in Nat, l \in Nat : t = mailbox'[c] /\ k = Len(s) /\ l = Len(t)
    <3>1. mailbox'[c] \in Seq(Texts)
      BY <1>1, ServerType DEF ChatTypeOK
    <3> QED BY <1>2, <3>1, LenProperties
  <2>3. /\ DOMAIN s = 1..k /\ DOMAIN t = 1..l
        /\ \A i \in 1..k : t[i] = s[i]
        /\ \A i \in (k + 1)..l : t[i] \in Notices
    BY <1>2, <2>1, <2>2, LenProperties DEF Extends
  <2>4. ASSUME NEW x \in Notices PROVE x \in TextsFor(c, typed)
    <3>1. x \in Texts /\ x.what # "Said"
      BY DEF Texts, Notices, SomeoneJoined, SomeoneConnected, SomeoneDisconnected
    <3>2. x \notin SaidTexts
      BY <3>1 DEF SaidTexts
    <3> QED BY <3>1, <3>2 DEF TextsFor, HeardBy
  <2>5. ASSUME NEW i \in 1..l PROVE t[i] \in TextsFor(c, typed)
    <3>1. i \in 1..k \/ i \in (k + 1)..l
      BY <2>5
    <3>2. CASE i \in 1..k
      BY <1>2, <2>2, <2>3, <3>2, ElementOfSeq
    <3>3. CASE i \in (k + 1)..l
      BY <2>3, <2>4, <3>3
    <3> QED BY <3>1, <3>2, <3>3
  <2>6. t \in Seq(TextsFor(c, typed))
    BY <2>3, <2>5, SeqWithin
  <2> QED BY <2>2, <2>6
<1> QED BY <1>3, <1>4

LEMMA ServedRooms == ASSUME Conversing, Conversing', RoomInv, Server PROVE RoomInv'
<1>1. /\ ServerStep /\ TalkInv /\ ChatTypeOK
      /\ UNCHANGED <<phase, sid, room, process, toServer, toClient, commands, typed, printed>>
  BY ServerIsStep DEF Conversing, TalkInv, ServerStep, clientVars, wires
<1>2. ASSUME NEW d \in Conns PROVE RoomFits(d)' /\ RoomWithin(d)' /\ Heard(d)'
  <2>1. RoomFits(d) /\ RoomWithin(d) /\ Heard(d)
    BY DEF RoomInv
  <2>2. Hearing(d, mailbox'[d], toClient'[d], printed'[d], typed')
    BY <1>1, <2>1, ToldHears DEF Heard, Hearing
  <2>3. /\ Fit(phase'[d], process'[d], room'[d], toServer'[d], commands'[d], typed'[d])
        /\ Within(room'[d], toServer'[d], commands'[d], typed'[d])
    BY <1>1, <2>1 DEF RoomFits, RoomWithin
  <2> QED BY <2>2, <2>3, RoomsNext
<1>3. PICK s \in Seq(Mails(sessions, typed)) : s = inbox
  BY DEF RoomInv, MailInv
<1>4. s # <<>> /\ inbox' = Tail(s) /\ inbox[1] = Head(s)
  BY <1>1, <1>3, ServerTakes DEF ServerStep, Serve, HandleConnect, HandleDisconnect, HandleMessage,
                           HandleListRooms, HandleJoin, Consume
<1>5. MailInv'
  <2>1. PICK t \in Seq(Mails(sessions, typed)) : t = inbox'
    BY <1>4, TakeHead
  <2>2. ASSUME NEW i \in DOMAIN t PROVE t[i] \in Mails(sessions', typed)
    <3>1. PICK m \in Messages : m = t[i] /\ MailFits(m, sessions, typed)
      BY LenProperties, ElementOfSeq DEF Mails
    <3>2. PICK j \in DOMAIN inbox : inbox[j] = m
      BY <1>1, <2>1, <3>1, ServerTakes DEF ServerStep, Taken
    <3>3. ASSUME m.type \in {"Join", "Message"}
          PROVE  sessions[m.id] \in Conns /\ sessions'[m.id] = sessions[m.id]
      <4>1. m.id \in DOMAIN sessions
        BY <1>1, <3>2, <3>3 DEF TalkInv, DisconnectIsLast
      <4>2. DisconnectIsLast'
        BY DEF Conversing, TalkInv
      <4>3. m.id \in DOMAIN sessions'
        BY <2>1, <3>1, <3>3, <4>2 DEF DisconnectIsLast
      <4> QED BY <1>1, <4>1, <4>3, SessionsKept DEF ChatTypeOK
    <3>4. \A f \in Conns : Grown(typed[f], typed[f])
      BY GrownSame
    <3>5. MailFits(m, sessions', typed)
      BY <3>1, <3>3, <3>4, MailStays
    <3> QED BY <3>1, <3>5 DEF Mails
  <2>3. t \in Seq(Mails(sessions', typed))
    BY <2>2, SeqWithin
  <2> QED BY <1>1, <2>1, <2>3, MailNext
<1>6. Members'
  <2>1. Head(s) \in Mails(sessions, typed)
    BY <1>4, TakeHead
  <2>2. MailFits(inbox[1], sessions, typed)
    BY <1>4, <2>1 DEF Mails
  <2>3. MembersEntered(rooms, sessions, typed) /\ RoomMembersRegistered' /\ Main \in Rooms
    BY RoomsAssumption DEF RoomInv, Members, Conversing, TalkInv
  <2>4. MembersEntered(rooms', sessions', typed)
    BY <1>1, <2>2, <2>3, MembersStep
  <2> QED BY <1>1, <2>4, MailNext
<1> QED BY <1>2, <1>5, <1>6 DEF RoomInv

\* A step of one console or session, when what belongs to it fits afterwards.
LEMMA OthersRooms ==
    ASSUME TypeOK, RoomInv, NEW c \in Conns, Session(c) \/ Client(c) \/ User(c),
           UNCHANGED <<sessions, rooms, typed>>,
           RoomFits(c)', RoomWithin(c)', Heard(c)', MailInv'
    PROVE  RoomInv'
<1>1. ASSUME NEW d \in Conns PROVE RoomFits(d)' /\ RoomWithin(d)' /\ Heard(d)'
  <2>1. CASE d = c
    BY <2>1
  <2>2. CASE d # c
    <3>1. RoomFits(d) /\ RoomWithin(d) /\ Heard(d)
      BY DEF RoomInv
    <3>2. /\ phase'[d] = phase[d] /\ process'[d] = process[d] /\ room'[d] = room[d]
          /\ toServer'[d] = toServer[d] /\ toClient'[d] = toClient[d]
          /\ commands'[d] = commands[d] /\ printed'[d] = printed[d] /\ mailbox'[d] = mailbox[d]
      BY <2>2, Elsewhere
    <3>3. /\ Fit(phase'[d], process'[d], room'[d], toServer'[d], commands'[d], typed'[d])
          /\ Within(room'[d], toServer'[d], commands'[d], typed'[d])
          /\ Hearing(d, mailbox'[d], toClient'[d], printed'[d], typed')
      BY <3>1, <3>2 DEF RoomFits, RoomWithin, Heard
    <3> QED BY <3>3, RoomsNext
  <2> QED BY <2>1, <2>2
<1>2. Members'
  BY DEF RoomInv, Members
<1> QED BY <1>1, <1>2 DEF RoomInv

LEMMA PostedMail ==
    ASSUME MailInv, NEW m \in Messages, Post(m), MailFits(m, sessions, typed),
           UNCHANGED <<sessions, typed>>
    PROVE  MailInv'
<1>1. PICK s \in Seq(Mails(sessions, typed)) : s = inbox
  BY DEF MailInv
<1>2. m \in Mails(sessions, typed)
  BY DEF Mails
<1>3. Append(s, m) \in Seq(Mails(sessions, typed))
  BY <1>2, AppendProperties
<1>4. inbox' = s \/ inbox' = Append(s, m)
  BY <1>1 DEF Post
<1>5. inbox' \in Seq(Mails(sessions', typed'))
  BY <1>3, <1>4
<1> QED BY <1>5, MailNext

\* A session takes what is first in the stream, and is then where that leads.
LEMMA FitTail ==
    ASSUME NEW q \in Seq(Requests), q # <<>>, NEW p, p # "stopped", NEW s, NEW r, NEW l, NEW T,
           Fit(p, s, r, q, l, T)
    PROVE  /\ Fit(p, s, Leads(Head(q), r), Tail(q), l, T)
           /\ Head(q).cmd = "say" => r = SaidIn(T, Head(q).n)
<1>1. PICK now, h, next : now = RoomAfter(q, Len(q), r) /\ h = Head(q) /\ next = Leads(h, r)
  OBVIOUS
<1>2. /\ Tracks(q, r, T) /\ Tracks(l, now, T)
      /\ s # "over" => RoomAfter(l, Len(l), now) = RoomAfter(T, Len(T), Main)
  BY <1>1 DEF Fit
<1>3. /\ Tracks(Tail(q), next, T) /\ RoomAfter(Tail(q), Len(Tail(q)), next) = now
      /\ h.cmd = "say" => r = SaidIn(T, h.n)
  BY <1>1, <1>2, TracksTail
<1>4. PICK t : t = Tail(q)
  OBVIOUS
<1>5. Fit(p, s, next, t, l, T)
  BY <1>2, <1>3, <1>4 DEF Fit
<1> QED BY <1>1, <1>3, <1>4, <1>5

LEMMA WithinTail ==
    ASSUME NEW r, NEW q, q # <<>>, NEW l, NEW T, Within(r, q, l, T), NEW h, h = Head(q)
    PROVE  Within(Leads(h, r), Tail(q), l, T) /\ (h.cmd = "join" => h.room \in Entered(T))
<1>1. PICK t \in Seq(RequestsIn(Entered(T))) : t = q
  BY DEF Within
<1>2. h \in RequestsIn(Entered(T)) /\ Tail(t) \in Seq(RequestsIn(Entered(T)))
  BY <1>1, TakeHead
<1>3. h.cmd = "join" => h.room \in Entered(T)
  BY <1>2 DEF RequestsIn
<1>4. Leads(h, r) \in Entered(T)
  BY <1>3 DEF Leads, Within
<1> QED BY <1>1, <1>2, <1>3, <1>4 DEF Within

LEMMA AskedRooms ==
    ASSUME TypeOK, RoomInv, NEW c \in Conns, NEW cmd, Request(c, cmd),
           NEW h \in Requests, h = Head(toServer[c]), room'[c] = Leads(h, room[c])
    PROVE  /\ RoomFits(c)' /\ RoomWithin(c)'
           /\ h.cmd = "say" => room[c] = SaidIn(typed[c], h.n)
           /\ h.cmd = "join" => h.room \in Entered(typed[c])
<1>1. PICK q \in Seq(Requests) : q = toServer[c]
  BY DEF TypeOK
<1>2. /\ q # <<>> /\ h = Head(q) /\ toServer'[c] = Tail(q) /\ phase[c] # "stopped"
      /\ UNCHANGED <<process, commands, typed>>
  BY <1>1 DEF Request, TypeOK, clientVars
<1>3. PICK next : next = Leads(h, room[c])
  OBVIOUS
<1>4. /\ Fit(phase[c], process[c], room[c], q, commands[c], typed[c])
      /\ Within(room[c], q, commands[c], typed[c])
  BY <1>1 DEF RoomInv, RoomFits, RoomWithin
<1>5. PICK p, s, r, l, T, z :
        p = phase[c] /\ s = process[c] /\ r = room[c] /\ l = commands[c] /\ T = typed[c] /\ z = phase'[c]
  OBVIOUS
<1>6. /\ Fit(p, s, r, q, l, T) /\ p # "stopped" /\ next = Leads(h, r)
      /\ q # <<>> /\ h = Head(q)
  BY <1>2, <1>3, <1>4, <1>5
<1>7. Fit(z, s, next, Tail(q), l, T) /\ (h.cmd = "say" => r = SaidIn(T, h.n))
  <2>1. /\ Fit(p, s, Leads(Head(q), r), Tail(q), l, T)
        /\ Head(q).cmd = "say" => r = SaidIn(T, Head(q).n)
    BY <1>6, FitTail
  <2>2. PICK t : t = Tail(q)
    OBVIOUS
  <2>3. Fit(p, s, next, t, l, T)
    BY <1>6, <2>1, <2>2
  <2>4. Fit(z, s, next, t, l, T)
    BY <1>6, <2>3 DEF Fit
  <2> QED BY <1>6, <2>1, <2>2, <2>4
<1>8. Within(next, Tail(q), l, T) /\ (h.cmd = "join" => h.room \in Entered(T))
  BY <1>2, <1>3, <1>4, <1>5, WithinTail
<1>9. /\ Fit(phase'[c], process'[c], room'[c], toServer'[c], commands'[c], typed'[c])
      /\ Within(room'[c], toServer'[c], commands'[c], typed'[c])
  BY <1>2, <1>3, <1>5, <1>7, <1>8
<1> QED BY <1>5, <1>7, <1>8, <1>9, RoomsNext

\* What is written for a client is nobody's line, or one that it may hear.
LEMMA AnswerHeard ==
    ASSUME TypeOK, NEW c \in Conns, Heard(c), NEW r \in Responses, Respond(c, r),
           r.kind = "message" => HeardBy(c, r.text, typed)
    PROVE  toClient'[c] \in Seq(ResponsesFor(c, typed))
<1>1. PICK t \in Seq(ResponsesFor(c, typed)) : t = toClient[c]
  BY DEF Heard, Hearing
<1>2. r \in ResponsesFor(c, typed)
  BY DEF ResponsesFor
<1>3. Append(t, r) \in Seq(ResponsesFor(c, typed))
  BY <1>2, AppendProperties
<1>4. toClient'[c] = t \/ toClient'[c] = Append(t, r)
  BY <1>1 DEF Respond, TypeOK
<1> QED BY <1>3, <1>4

\* A session that waits, checks or ends has everything where it was.
LEMMA KeptRooms ==
    ASSUME TypeOK, RoomInv, NEW c \in Conns,
           phase[c] = "stopped" => phase'[c] = "stopped",
           process[c] = "over" => process'[c] = "over",
           UNCHANGED <<room, toServer, commands, typed>>
    PROVE  RoomFits(c)' /\ RoomWithin(c)'
<1>1. /\ Fit(phase[c], process[c], room[c], toServer[c], commands[c], typed[c])
      /\ Within(room[c], toServer[c], commands[c], typed[c])
  BY DEF RoomInv, RoomFits, RoomWithin
<1>2. PICK p, z, s, y : p = phase[c] /\ z = phase'[c] /\ s = process[c] /\ y = process'[c]
  OBVIOUS
<1>3. Fit(p, s, room[c], toServer[c], commands[c], typed[c])
  BY <1>1, <1>2
<1>4. (p = "stopped" => z = "stopped") /\ (s = "over" => y = "over")
  BY <1>2
<1>5. Fit(z, y, room[c], toServer[c], commands[c], typed[c])
  BY <1>3, <1>4 DEF Fit
<1> QED BY <1>1, <1>2, <1>5, RoomsNext

LEMMA KeptHeard ==
    ASSUME RoomInv, NEW c \in Conns, UNCHANGED <<mailbox, toClient, printed, typed>> PROVE Heard(c)'
<1>1. Hearing(c, mailbox[c], toClient[c], printed[c], typed)
  BY DEF RoomInv, Heard
<1> QED BY <1>1, RoomsNext

LEMMA KeptMail == ASSUME RoomInv, UNCHANGED <<inbox, sessions, typed>> PROVE MailInv'
BY DEF RoomInv, MailInv

\* The session asks the server for its rooms, or says what room it is in.
LEMMA PassedRooms ==
    ASSUME Conversing, RoomInv, NEW c \in Conns, SessionList(c) \/ SessionJoin(c) PROVE RoomInv'
<1>1. TypeOK /\ IdsOwned /\ UNCHANGED <<Registry, clientVars>>
  BY SessionKeeps DEF Conversing, TalkInv, Session
<1>2. PICK h \in Requests : h = Head(toServer[c])
  BY <1>1, RequestType DEF SessionList, SessionJoin
<1>3. CASE SessionList(c)
  <2>1. h.cmd = "list" /\ Request(c, "list") /\ UNCHANGED <<room, toClient, mailbox>>
    BY <1>2, <1>3 DEF SessionList, Request
  <2>2. room'[c] = Leads(h, room[c])
    BY <2>1 DEF Leads
  <2>3. RoomFits(c)' /\ RoomWithin(c)'
    BY <1>1, <1>2, <2>1, <2>2, AskedRooms
  <2>4. Heard(c)'
    BY <1>1, <2>1, KeptHeard DEF clientVars
  <2>5. MailInv'
    <3>1. PICK m \in Messages : m = ListRooms(c) /\ Post(m)
      BY <1>1, <1>3, PostedMessages DEF SessionList, TypeOK
    <3>2. m.type = "ListRooms"
      BY <3>1 DEF ListRooms
    <3>3. MailFits(m, sessions, typed)
      BY <3>2 DEF MailFits
    <3> QED BY <1>1, <3>1, <3>3, PostedMail DEF RoomInv, Registry, clientVars
  <2> QED BY <1>1, <1>3, <2>3, <2>4, <2>5, OthersRooms DEF Session, Registry, clientVars
<1>4. CASE SessionJoin(c)
  <2>1. PICK r \in Rooms : r = h.room
    BY <1>2, <1>4, RequestKinds DEF SessionJoin, Request
  <2>2. /\ h.cmd = "join" /\ Request(c, "join") /\ room'[c] = r /\ UNCHANGED mailbox
        /\ Post(Join(sid[c], r)) /\ Respond(c, Joined(r))
    BY <1>1, <1>2, <1>4, <2>1 DEF SessionJoin, Request, TypeOK, ChatTypeOK
  <2>3. room'[c] = Leads(h, room[c])
    BY <2>1, <2>2 DEF Leads
  <2>4. RoomFits(c)' /\ RoomWithin(c)' /\ r \in Entered(typed[c])
    BY <1>1, <1>2, <2>1, <2>2, <2>3, AskedRooms
  <2>5. Heard(c)'
    <3>1. PICK x \in Responses : x = Joined(r) /\ x.kind # "message"
      <4>1. Joined(r) \in Responses /\ Joined(r).kind # "message"
        BY DEF Joined, Responses, AnswerResponses
      <4> QED BY <4>1
    <3>2. Heard(c)
      BY DEF RoomInv
    <3>3. toClient'[c] \in Seq(ResponsesFor(c, typed))
      BY <1>1, <2>2, <3>1, <3>2, AnswerHeard
    <3>4. Hearing(c, mailbox'[c], toClient'[c], printed'[c], typed')
      BY <1>1, <2>2, <3>2, <3>3 DEF Heard, Hearing, clientVars
    <3> QED BY <3>4, RoomsNext
  <2>6. MailInv'
    <3>1. PICK m \in Messages : m = Join(sid[c], r) /\ Post(m)
      BY <1>1, <2>2, IdsHeld, PostedMessages DEF HasId, Request, TypeOK
    <3>2. m.type = "Join" /\ m.id = sid[c] /\ m.name = r
      BY <3>1 DEF Join
    <3>3. sessions[m.id] = c
      BY <1>1, <2>2, <3>2 DEF IdsOwned, Request
    <3>4. MailFits(m, sessions, typed)
      BY <2>4, <3>2, <3>3 DEF MailFits
    <3> QED BY <1>1, <3>1, <3>4, PostedMail DEF RoomInv, Registry, clientVars
  <2> QED BY <1>1, <1>4, <2>4, <2>5, <2>6, OthersRooms DEF Session, Registry, clientVars
<1> QED BY <1>3, <1>4

\* What the session says is for the room that its user was in when it was typed.
LEMMA SaidRooms ==
    ASSUME Conversing, LineInv, RoomInv, NEW c \in Conns, SessionMessage(c) PROVE RoomInv'
<1>1. TypeOK /\ IdsOwned /\ UNCHANGED <<Registry, clientVars>>
  BY SessionKeeps DEF Conversing, TalkInv, Session
<1>2. PICK h \in Requests : h = Head(toServer[c])
  BY <1>1, RequestType DEF SessionMessage
<1>3. PICK n \in 1..MaxRequests : n = h.n
  BY <1>2, RequestKinds DEF SessionMessage, Request
<1>4. /\ h.cmd = "say" /\ Request(c, "say") /\ UNCHANGED <<room, toClient, mailbox>>
      /\ Post(Message(sid[c], Said(c, n), room[c]))
  BY <1>2, <1>3 DEF SessionMessage, Request
<1>5. room'[c] = Leads(h, room[c])
  BY <1>4 DEF Leads
<1>6. RoomFits(c)' /\ RoomWithin(c)' /\ room[c] = SaidIn(typed[c], n)
  BY <1>1, <1>2, <1>3, <1>4, <1>5, AskedRooms
<1>7. Heard(c)'
  BY <1>1, <1>4, KeptHeard DEF clientVars
<1>8. n \in Numbers(typed[c], Asks)
  <2>1. PICK q \in Seq(Requests) : q = toServer[c]
    BY <1>1 DEF TypeOK
  <2>2. PICK s \in Seq(Requests \cup {Mistake}) : s = q
    BY SeqMonotonic
  <2>3. 1 \in DOMAIN s /\ s[1] = h
    BY <1>2, <1>4, <2>1, <2>2, HeadTailProperties, LenProperties, EmptySeq DEF Request
  <2>4. n \in Numbers(s, Asks)
    BY <1>3, <1>4, <2>3, SayNumbers
  <2> QED BY <2>1, <2>2, <2>4, WaitingNumbers
<1>9. MailInv'
  <2>1. PICK m \in Messages : m = Message(sid[c], Said(c, n), room[c]) /\ Post(m)
    BY <1>1, <1>4, IdsHeld, PostedMessages DEF HasId, Request, TypeOK
  <2>2. /\ m.type = "Message" /\ m.id = sid[c] /\ m.room = room[c]
        /\ m.text.from = c /\ m.text.n = n
    BY <2>1 DEF Message, Said
  <2>3. sessions[m.id] = c
    BY <1>1, <1>4, <2>2 DEF IdsOwned, Request
  <2>4. MailFits(m, sessions, typed)
    BY <1>6, <1>8, <2>2, <2>3 DEF MailFits
  <2> QED BY <1>1, <2>1, <2>4, PostedMail DEF RoomInv, Registry, clientVars
<1> QED BY <1>1, <1>6, <1>7, <1>9, OthersRooms DEF Session, Registry, clientVars

\* A line on its way to a hearer goes one place further.
LEMMA DeliveredRooms ==
    ASSUME Conversing, RoomInv, NEW c \in Conns, Deliver(c) PROVE RoomInv'
<1>1. TypeOK /\ UNCHANGED <<Registry, clientVars>>
  BY SessionKeeps DEF Conversing, TalkInv, Session
<1>2. PICK s \in Seq(TextsFor(c, typed)) : s = mailbox[c]
  BY DEF RoomInv, Heard, Hearing
<1>3. /\ s # <<>> /\ mailbox'[c] = Tail(s) /\ Respond(c, Text(Head(s)))
      /\ UNCHANGED <<inbox, sessionVars, toServer>>
  BY <1>1, <1>2 DEF Deliver, TypeOK, ChatTypeOK
<1>4. PICK h \in Texts : h = Head(s) /\ HeardBy(c, h, typed)
  BY <1>2, <1>3, TakeHead DEF TextsFor
<1>5. RoomFits(c)' /\ RoomWithin(c)'
  BY <1>1, <1>3, KeptRooms DEF sessionVars, clientVars
<1>6. Heard(c)'
  <2>1. PICK x \in Responses : x = Text(h) /\ x.text = h
    <3>1. Text(h) \in Responses /\ Text(h).text = h
      BY DEF Text, Responses
    <3> QED BY <3>1
  <2>2. Heard(c)
    BY DEF RoomInv
  <2>3. toClient'[c] \in Seq(ResponsesFor(c, typed))
    BY <1>1, <1>3, <1>4, <2>1, <2>2, AnswerHeard
  <2>4. Tail(s) \in Seq(TextsFor(c, typed))
    BY <1>3, TakeHead
  <2>5. Hearing(c, mailbox'[c], toClient'[c], printed'[c], typed')
    BY <1>1, <1>3, <2>2, <2>3, <2>4 DEF Heard, Hearing, clientVars
  <2> QED BY <2>5, RoomsNext
<1>7. MailInv'
  BY <1>1, <1>3, KeptMail DEF Registry, clientVars
<1> QED BY <1>1, <1>5, <1>6, <1>7, OthersRooms DEF Session, Registry, clientVars

\* The rest of what a session does: it starts, waits, checks and ends.
LEMMA SessionRooms ==
    ASSUME Conversing, RoomInv, NEW c \in Conns, Session(c),
           ~ SessionList(c), ~ SessionJoin(c), ~ SessionMessage(c), ~ Deliver(c)
    PROVE  RoomInv'
<1>1. TypeOK /\ UNCHANGED <<Registry, clientVars>>
  BY SessionKeeps DEF Conversing, TalkInv
<1>2. CASE Accept(c) \/ PeerLate(c)
  <2>1. PICK m \in Messages : (m = Connect(c) \/ m = Disconnect(sid[c])) /\ Post(m)
    BY <1>1, <1>2, PostedMessages DEF Accept, PeerLate, TypeOK
  <2>2. m.type \notin {"Join", "Message"}
    BY <2>1 DEF Connect, Disconnect
  <2>3. MailFits(m, sessions, typed)
    BY <2>2 DEF MailFits
  <2>4. MailInv'
    BY <1>1, <2>1, <2>3, PostedMail DEF RoomInv, Registry, clientVars
  <2>5. phase[c] # "stopped" /\ UNCHANGED <<room, mailbox, wires>>
    BY <1>2 DEF Accept, PeerLate, Check
  <2>6. RoomFits(c)' /\ RoomWithin(c)'
    BY <1>1, <2>5, KeptRooms DEF wires, clientVars
  <2>7. Heard(c)'
    BY <1>1, <2>5, KeptHeard DEF wires, clientVars
  <2> QED BY <1>1, <2>4, <2>6, <2>7, OthersRooms DEF Registry, clientVars
<1>3. CASE TakeId(c) \/ PeerInTime(c) \/ StreamEnds(c)
  <2>1. phase[c] # "stopped" /\ UNCHANGED <<inbox, room, mailbox, wires>>
    BY <1>3 DEF TakeId, PeerInTime, Check, StreamEnds, serverVars
  <2>2. RoomFits(c)' /\ RoomWithin(c)'
    BY <1>1, <2>1, KeptRooms DEF wires, clientVars
  <2>3. Heard(c)'
    BY <1>1, <2>1, KeptHeard DEF wires, clientVars
  <2>4. MailInv'
    BY <1>1, <2>1, KeptMail DEF Registry, clientVars
  <2> QED BY <1>1, <2>2, <2>3, <2>4, OthersRooms DEF Registry, clientVars
<1>4. CASE TakeRooms(c)
  <2>1. PICK names \in SUBSET Rooms : names = reply[c].names
    BY <1>1, <1>4, ReplyKinds DEF TakeRooms, Replies, TypeOK, ChatTypeOK
  <2>2. PICK x \in Responses : x = RoomList(names) /\ x.kind # "message"
    <3>1. RoomList(names) \in Responses /\ RoomList(names).kind # "message"
      BY DEF RoomList, Responses, AnswerResponses
    <3> QED BY <3>1
  <2>3. phase[c] # "stopped" /\ Respond(c, x) /\ UNCHANGED <<inbox, room, mailbox, toServer>>
    BY <1>4, <2>1, <2>2 DEF TakeRooms
  <2>4. RoomFits(c)' /\ RoomWithin(c)'
    BY <1>1, <2>3, KeptRooms DEF clientVars
  <2>5. Heard(c)'
    <3>1. Heard(c)
      BY DEF RoomInv
    <3>2. toClient'[c] \in Seq(ResponsesFor(c, typed))
      BY <1>1, <2>2, <2>3, <3>1, AnswerHeard
    <3>3. Hearing(c, mailbox'[c], toClient'[c], printed'[c], typed')
      BY <1>1, <2>3, <3>1, <3>2 DEF Heard, Hearing, clientVars
    <3> QED BY <3>3, RoomsNext
  <2>6. MailInv'
    BY <1>1, <2>3, KeptMail DEF Registry, clientVars
  <2> QED BY <1>1, <2>4, <2>5, <2>6, OthersRooms DEF Registry, clientVars
<1>5. CASE Stop(c)
  <2>1. PICK m \in Messages : m = Disconnect(sid[c]) /\ Post(m)
    BY <1>1, <1>5, PostedMessages DEF Stop, TypeOK
  <2>2. m.type \notin {"Join", "Message"}
    BY <2>1 DEF Disconnect
  <2>3. MailFits(m, sessions, typed)
    BY <2>2 DEF MailFits
  <2>4. MailInv'
    BY <1>1, <2>1, <2>3, PostedMail DEF RoomInv, Registry, clientVars
  <2>5. /\ phase'[c] = "stopped" /\ mailbox'[c] = <<>> /\ toServer'[c] = <<>>
        /\ UNCHANGED <<room, commands, typed, printed>>
    BY <1>1, <1>5 DEF Stop, Goto, TypeOK, ChatTypeOK, clientVars
  <2>6. RoomFits(c)'
    <3>1. Fit(phase'[c], process'[c], room'[c], toServer'[c], commands'[c], typed'[c])
      BY <2>5 DEF Fit
    <3> QED BY <3>1, RoomsNext
  <2>7. RoomWithin(c)'
    <3>1. Within(room[c], toServer[c], commands[c], typed[c])
      BY DEF RoomInv, RoomWithin
    <3>2. Within(room'[c], toServer'[c], commands'[c], typed'[c])
      BY <2>5, <3>1, EmptySeq DEF Within
    <3> QED BY <3>2, RoomsNext
  <2>8. Heard(c)'
    <3>1. PICK s \in Seq(ResponsesFor(c, typed)) : s = toClient[c]
      BY DEF RoomInv, Heard, Hearing
    <3>2. PICK n \in 0..Len(s) : toClient'[c] = SubSeq(s, 1, n)
      BY <1>1, <1>5, <3>1 DEF Stop, TypeOK
    <3>3. SubSeq(s, 1, n) \in Seq(ResponsesFor(c, typed))
      BY CutInTwo
    <3>4. printed[c] \in Seq(PrintedFor(c, typed))
      BY DEF RoomInv, Heard, Hearing
    <3>5. Hearing(c, mailbox'[c], toClient'[c], printed'[c], typed')
      BY <2>5, <3>2, <3>3, <3>4, EmptySeq DEF Hearing
    <3> QED BY <3>5, RoomsNext
  <2> QED BY <1>1, <2>4, <2>6, <2>7, <2>8, OthersRooms DEF Registry, clientVars
<1> QED BY <1>2, <1>3, <1>4, <1>5 DEF Session

\* The client passes a line on: it was typed for the room that all before it leads to.
LEMMA FitPassed ==
    ASSUME NEW q \in Seq(Requests), NEW l \in Seq(Requests \cup {Mistake}), l # <<>>,
           NEW p, NEW s, NEW r, NEW T, Fit(p, s, r, q, l, T)
    PROVE  /\ Head(l) = Mistake => Fit(p, s, r, q, Tail(l), T)
           /\ Head(l) # Mistake => Fit(p, s, r, Append(q, Head(l)), Tail(l), T)
<1> SUFFICES ASSUME p # "stopped"
             PROVE  /\ Head(l) = Mistake => Fit(p, s, r, q, Tail(l), T)
                    /\ Head(l) # Mistake => Fit(p, s, r, Append(q, Head(l)), Tail(l), T)
  BY DEF Fit
<1>1. PICK now, h, next :
        /\ now = RoomAfter(q, Len(q), r) /\ h = Head(l) /\ next = Leads(h, now)
        /\ h \in Requests \cup {Mistake}
  BY TakeHead
<1>2. /\ Tracks(q, r, T) /\ Tracks(l, now, T)
      /\ s # "over" => RoomAfter(l, Len(l), now) = RoomAfter(T, Len(T), Main)
  BY <1>1 DEF Fit
<1>3. PICK k : k = Tail(l)
  OBVIOUS
<1>4. /\ Tracks(k, next, T) /\ RoomAfter(k, Len(k), next) = RoomAfter(l, Len(l), now)
      /\ h.cmd = "say" => now = SaidIn(T, h.n)
  BY <1>1, <1>2, <1>3, TracksTail
<1>5. ASSUME h = Mistake PROVE Fit(p, s, r, q, k, T)
  <2>1. next = now
    BY <1>1, <1>5, MistakeIsNone DEF Leads
  <2> QED BY <1>1, <1>2, <1>4, <2>1 DEF Fit
<1>6. ASSUME h # Mistake PROVE Fit(p, s, r, Append(q, h), k, T)
  <2>1. h \in Requests
    BY <1>1, <1>6
  <2>2. PICK u : u = Append(q, h)
    OBVIOUS
  <2>3. Tracks(u, r, T) /\ RoomAfter(u, Len(u), r) = next
    BY <1>1, <1>2, <1>4, <2>1, <2>2, TracksAppend
  <2>4. Fit(p, s, r, u, k, T)
    BY <1>2, <1>4, <2>3 DEF Fit
  <2> QED BY <2>2, <2>4
<1> QED BY <1>1, <1>3, <1>5, <1>6

LEMMA WithinPassed ==
    ASSUME NEW r, NEW q, NEW l, l # <<>>, NEW T, Within(r, q, l, T)
    PROVE  Within(r, q, Tail(l), T) /\ Within(r, Append(q, Head(l)), Tail(l), T)
<1>1. PICK k \in Seq(RequestsIn(Entered(T))) : k = l
  BY DEF Within
<1>2. PICK u \in Seq(RequestsIn(Entered(T))) : u = q
  BY DEF Within
<1>3. Head(k) \in RequestsIn(Entered(T)) /\ Tail(k) \in Seq(RequestsIn(Entered(T)))
  BY <1>1, TakeHead
<1>4. Append(u, Head(k)) \in Seq(RequestsIn(Entered(T)))
  BY <1>3, AppendProperties
<1> QED BY <1>1, <1>2, <1>3, <1>4 DEF Within

LEMMA HandedRooms ==
    ASSUME Conversing, RoomInv, NEW c \in Conns, HandleCommand(c) PROVE RoomInv'
<1>1. /\ TypeOK
      /\ UNCHANGED <<inbox, sessions, rooms, mailbox, phase, room, process, toClient, typed, printed>>
  BY DEF Conversing, HandleCommand, serverVars, sessionVars
<1>2. PICK l \in Seq(Requests \cup {Mistake}) : l = commands[c]
  BY <1>1 DEF TypeOK
<1>3. PICK q \in Seq(Requests) : q = toServer[c]
  BY <1>1 DEF TypeOK
<1>4. /\ l # <<>> /\ commands'[c] = Tail(l)
      /\ toServer'[c] = IF Head(l) = Mistake THEN q ELSE Append(q, Head(l))
  BY <1>1, <1>2, <1>3 DEF HandleCommand, RequestsWith, TypeOK
<1>5. PICK p, s, r, T : p = phase[c] /\ s = process[c] /\ r = room[c] /\ T = typed[c]
  OBVIOUS
<1>6. Fit(p, s, r, q, l, T) /\ Within(r, q, l, T)
  BY <1>2, <1>3, <1>5 DEF RoomInv, RoomFits, RoomWithin
<1>7. Fit(p, s, r, toServer'[c], commands'[c], T)
  <2>1. /\ Head(l) = Mistake => Fit(p, s, r, q, Tail(l), T)
        /\ Head(l) # Mistake => Fit(p, s, r, Append(q, Head(l)), Tail(l), T)
    BY <1>4, <1>6, FitPassed
  <2> QED BY <1>4, <2>1
<1>8. Within(r, toServer'[c], commands'[c], T)
  <2>1. Within(r, q, Tail(l), T) /\ Within(r, Append(q, Head(l)), Tail(l), T)
    BY <1>4, <1>6, WithinPassed
  <2> QED BY <1>4, <2>1
<1>9. RoomFits(c)' /\ RoomWithin(c)'
  BY <1>1, <1>5, <1>7, <1>8, RoomsNext
<1>10. Heard(c)' /\ MailInv'
  BY <1>1, KeptHeard, KeptMail
<1> QED BY <1>1, <1>9, <1>10, OthersRooms DEF Client

\* The client shows what is no notice.
LEMMA ShownRooms ==
    ASSUME Conversing, RoomInv, NEW c \in Conns, Show(c) PROVE RoomInv'
<1>1. /\ TypeOK
      /\ UNCHANGED <<inbox, sessions, rooms, mailbox, phase, room, process, toServer, commands, typed>>
  BY DEF Conversing, Show, serverVars, sessionVars
<1>2. PICK s \in Seq(ResponsesFor(c, typed)) : s = toClient[c]
  BY DEF RoomInv, Heard, Hearing
<1>3. PICK t \in Seq(PrintedFor(c, typed)) : t = printed[c]
  BY DEF RoomInv, Heard, Hearing
<1>4. /\ s # <<>> /\ toClient'[c] = Tail(s)
      /\ printed'[c] = IF IsNotice(Head(s)) THEN t ELSE Append(t, Head(s))
  BY <1>1, <1>2, <1>3 DEF Show, TypeOK
<1>5. Head(s) \in ResponsesFor(c, typed) /\ Tail(s) \in Seq(ResponsesFor(c, typed))
  BY <1>4, TakeHead
<1>6. printed'[c] \in Seq(PrintedFor(c, typed))
  <2>1. CASE IsNotice(Head(s))
    BY <1>4, <2>1
  <2>2. CASE ~ IsNotice(Head(s))
    <3>1. Head(s) \in PrintedFor(c, typed)
      BY <1>5, <2>2 DEF PrintedFor
    <3>2. Append(t, Head(s)) \in Seq(PrintedFor(c, typed))
      BY <3>1, AppendProperties
    <3> QED BY <1>4, <2>2, <3>2
  <2> QED BY <2>1, <2>2
<1>7. Heard(c)'
  <2>1. mailbox[c] \in Seq(TextsFor(c, typed))
    BY DEF RoomInv, Heard, Hearing
  <2>2. Hearing(c, mailbox'[c], toClient'[c], printed'[c], typed')
    BY <1>1, <1>4, <1>5, <1>6, <2>1 DEF Hearing
  <2> QED BY <2>2, RoomsNext
<1>8. RoomFits(c)' /\ RoomWithin(c)' /\ MailInv'
  BY <1>1, KeptRooms, KeptMail
<1> QED BY <1>1, <1>7, <1>8, OthersRooms DEF Client

\* The client ends, with what has not been sent.
LEMMA KilledRooms ==
    ASSUME Conversing, RoomInv, NEW c \in Conns, Kill(c) PROVE RoomInv'
<1>1. TypeOK /\ UNCHANGED <<inbox, sessions, rooms, mailbox, phase, room, typed, printed>>
  BY DEF Conversing, Kill, serverVars, sessionVars
<1>2. PICK q \in Seq(Requests) : q = toServer[c]
  BY <1>1 DEF TypeOK
<1>3. PICK n \in 0..Len(q) : toServer'[c] = SubSeq(q, 1, n)
  BY <1>1, <1>2 DEF Kill, TypeOK
<1>4. toClient'[c] = <<>> /\ commands'[c] = <<>> /\ process'[c] = "over"
  BY <1>1 DEF Kill, TypeOK
<1>5. PICK t \in Seq(Requests) : t = SubSeq(q, 1, n)
  BY CutInTwo
<1>6. RoomFits(c)'
  <2>1. PICK p, r, T : p = phase[c] /\ r = room[c] /\ T = typed[c]
    OBVIOUS
  <2>2. p # "stopped" => Tracks(q, r, T)
    BY <1>2, <2>1 DEF RoomInv, RoomFits, Fit
  <2>3. p # "stopped" => Tracks(t, r, T)
    BY <1>5, <2>2, TracksCut
  <2>4. Fit(p, "over", r, t, <<>>, T)
    BY <2>3, TracksNone DEF Fit
  <2>5. Fit(phase'[c], process'[c], room'[c], toServer'[c], commands'[c], typed'[c])
    BY <1>1, <1>3, <1>4, <1>5, <2>1, <2>4
  <2> QED BY <2>5, RoomsNext
<1>7. RoomWithin(c)'
  <2>1. PICK u \in Seq(RequestsIn(Entered(typed[c]))) : u = q
    BY <1>2 DEF RoomInv, RoomWithin, Within
  <2>2. SubSeq(u, 1, n) \in Seq(RequestsIn(Entered(typed[c])))
    BY <2>1, CutInTwo
  <2>3. room[c] \in Entered(typed[c])
    BY DEF RoomInv, RoomWithin, Within
  <2>4. Within(room'[c], toServer'[c], commands'[c], typed'[c])
    BY <1>1, <1>3, <1>4, <2>1, <2>2, <2>3, EmptySeq DEF Within
  <2> QED BY <2>4, RoomsNext
<1>8. Heard(c)'
  <2>1. mailbox[c] \in Seq(TextsFor(c, typed)) /\ printed[c] \in Seq(PrintedFor(c, typed))
    BY DEF RoomInv, Heard, Hearing
  <2>2. Hearing(c, mailbox'[c], toClient'[c], printed'[c], typed')
    BY <1>1, <1>4, <2>1, EmptySeq DEF Hearing
  <2> QED BY <2>2, RoomsNext
<1>9. MailInv'
  BY <1>1, KeptMail
<1> QED BY <1>1, <1>6, <1>7, <1>8, <1>9, OthersRooms DEF User

\* The rest of what clients and users do.
LEMMA ClientRooms ==
    ASSUME Conversing, RoomInv, NEW c \in Conns,
           ClientPings(c) \/ Disconnected(c) \/ ConsoleStarts(c) \/ CutOff(c) \/ ComeBack(c)
    PROVE  RoomInv'
<1>1. /\ TypeOK
      /\ UNCHANGED <<inbox, sessions, rooms, mailbox, phase, room, toServer, toClient, commands, typed, printed>>
  BY DEF Conversing, ClientPings, Disconnected, ConsoleStarts, CutOff, ComeBack, serverVars, sessionVars,
         wires
<1>2. process[c] # "over" /\ (phase[c] = "stopped" => phase'[c] = "stopped")
  BY <1>1 DEF ClientPings, Disconnected, ConsoleStarts, CutOff, ComeBack
<1>3. RoomFits(c)' /\ RoomWithin(c)'
  BY <1>1, <1>2, KeptRooms
<1>4. Heard(c)' /\ MailInv'
  BY <1>1, KeptHeard, KeptMail
<1> QED BY <1>1, <1>3, <1>4, OthersRooms DEF Client, User

LEMMA RoomsStep ==
    ASSUME Conversing, Conversing', LineInv, LineInv', RoomInv, [Next]_vars PROVE RoomInv'
<1>1. CASE Server
  BY <1>1, ServedRooms
<1>2. ASSUME NEW c \in Conns, Session(c) PROVE RoomInv'
  BY <1>2, PassedRooms, SaidRooms, DeliveredRooms, SessionRooms
<1>3. ASSUME NEW c \in Conns, Client(c) \/ User(c), ~ SomeLine(c) PROVE RoomInv'
  BY <1>3, HandedRooms, ShownRooms, KilledRooms, ClientRooms DEF Client, User
<1>4. ASSUME NEW c \in Conns, SomeLine(c) PROVE RoomInv'
  <2>1. lines \in Nat /\ lines < MaxRequests
    BY <1>4, RequestsAssumption DEF SomeLine, ReadLine, Conversing, TypeOK
  <2>2. lines + 1 \in 1..MaxRequests
    BY <2>1, RequestsAssumption
  <2>3. PICK line \in Requests \cup {Mistake} : ReadLine(c, line)
    BY <1>4, <2>2 DEF SomeLine, Requests, QuestionLines
  <2> QED BY <2>3, TypedRooms
<1>5. CASE UNCHANGED vars
  <2>1. UNCHANGED <<sessions, rooms, inbox, mailbox, phase, process, room, toServer, toClient, commands,
                    typed, printed>>
    BY <1>5 DEF vars, serverVars, sessionVars, clientVars, wires
  <2>2. ASSUME NEW c \in Conns PROVE RoomFits(c)' /\ RoomWithin(c)' /\ Heard(c)'
    BY <2>1, KeptHeard DEF RoomInv, RoomFits, RoomWithin
  <2>3. MailInv' /\ Members'
    BY <2>1 DEF RoomInv, MailInv, Members
  <2> QED BY <2>2, <2>3 DEF RoomInv
<1> QED BY <1>1, <1>2, <1>3, <1>4, <1>5 DEF Next

-----------------------------------------------------------------------------
(* What the consoles show *)

LEMMA LinesAreHeard == ASSUME Conversing, LineInv, RoomInv PROVE HeardAsTyped
<1> SUFFICES ASSUME NEW c \in Conns
             PROVE  LET said == {i \in DOMAIN printed[c] : printed[c][i].kind = "message"}
                        text(i) == printed[c][i].text
                    IN  /\ \A i \in said :
                              /\ text(i).from # c
                              /\ RoomOfLine(text(i).from, text(i).n) \in RoomsEntered(c)
                        /\ \A i, j \in said :
                              i < j /\ text(i).from = text(j).from => text(i).n < text(j).n
  BY DEF HeardAsTyped
<1>1. PICK s \in Seq(PrintedFor(c, typed)) : s = printed[c]
  BY DEF RoomInv, Heard, Hearing
<1>2. DOMAIN s = 1..Len(s) /\ Len(s) \in Nat
  BY LenProperties
<1>3. ASSUME NEW i \in DOMAIN s, s[i].kind = "message"
      PROVE  /\ s[i].text \in SaidTexts /\ HeardBy(c, s[i].text, typed)
             /\ s[i] = Text(s[i].text)
  <2>1. PICK r \in PrintedFor(c, typed) : r = s[i]
    BY <1>2, ElementOfSeq
  <2>2. r \in Responses /\ r.kind = "message" /\ HeardBy(c, r.text, typed) /\ r.text \notin Notices
    BY <1>3, <2>1 DEF PrintedFor, ResponsesFor, IsNotice
  <2>3. r \in [kind : {"message"}, text : Texts]
    BY <2>2 DEF Responses, AnswerResponses
  <2>4. r.text \in Texts /\ r = Text(r.text)
    BY <2>3 DEF Text
  <2> QED BY <2>1, <2>2, <2>4 DEF Texts
<1>4. ASSUME NEW i \in DOMAIN s, s[i].kind = "message"
      PROVE  /\ s[i].text.from # c
             /\ RoomOfLine(s[i].text.from, s[i].text.n) \in RoomsEntered(c)
  <2>1. PICK f, n : f = s[i].text.from /\ n = s[i].text.n
    OBVIOUS
  <2>2. f # c /\ SaidIn(typed[f], n) \in Entered(typed[c])
    BY <1>3, <1>4, <2>1 DEF HeardBy
  <2>3. RoomOfLine(f, n) = SaidIn(typed[f], n) /\ RoomsEntered(c) = Entered(typed[c])
    BY SaidInIs, EnteredIs
  <2> QED BY <2>1, <2>2, <2>3
<1>5. ASSUME NEW i \in DOMAIN s, NEW j \in DOMAIN s, s[i].kind = "message", s[j].kind = "message",
             i < j, s[i].text.from = s[j].text.from
      PROVE  s[i].text.n < s[j].text.n
  <2>1. PICK f \in Conns, n \in 1..MaxRequests : s[i].text = Said(f, n)
    BY <1>3, <1>5 DEF SaidTexts, Said
  <2>2. PICK m \in 1..MaxRequests, g \in Conns : s[j].text = Said(g, m)
    BY <1>3, <1>5 DEF SaidTexts, Said
  <2>3. f = g /\ s[i].text.n = n /\ s[j].text.n = m
    BY <1>5, <2>1, <2>2 DEF Said
  <2>4. s[i] = Text(Said(f, n)) /\ s[j] = Text(Said(f, m))
    BY <1>3, <1>5, <2>1, <2>2, <2>3
  <2>5. s[i] \in Shows(f)[n] /\ s[j] \in Shows(f)[m] /\ n \in DOMAIN Shows(f) /\ m \in DOMAIN Shows(f)
    BY <2>4, Forms, FormDomains
  <2>6. InOrder(s, Shows(f))
    BY <1>1 DEF LineInv, InLine
  <2>7. n < m
    BY <1>5, <2>5, <2>6 DEF InOrder
  <2> QED BY <2>3, <2>7
<1> QED BY <1>1, <1>4, <1>5

\* From console to console: a user is shown what others have typed, each one's lines once
\* and in the order typed, and only lines said in a room that the user has entered.
THEOREM TypedIsHeard == Spec => []HeardAsTyped
<1> DEFINE I == Conversing /\ LineInv /\ RoomInv
<1>1. Init => I
  BY InitType, InitLines, InitRooms DEF Conversing
<1>2. I /\ [Next]_vars => I'
  <2> SUFFICES ASSUME I, [Next]_vars PROVE I'
    OBVIOUS
  <2>1. Conversing' /\ LineInv'
    BY ConversingStep, LinesStep
  <2> QED BY <2>1, RoomsStep
<1>3. I => HeardAsTyped
  BY LinesAreHeard
<1> QED BY <1>1, <1>2, <1>3, PTL DEF Spec
=============================================================================
