------------------------------ MODULE ChatSessions ------------------------------
(***************************************************************************)
(* The ChatServer actor and the session actors it serves: the fields of a   *)
(* session, how it posts to the server, and the facts about the             *)
(* conversation between them that make it safe.  What a session does, and   *)
(* when, is in the modules that extend this one (ActorChat for              *)
(* actor_ws_tcp_chat, ConsoleChat for chat and client).                     *)
(***************************************************************************)
EXTENDS ChatServer

VARIABLES
    phase,        \* where each session actor is in its life
    sid,          \* the session's field id
    room          \* the session's field room

\* connecting and listing: a send() is in progress and ctx.wait() keeps the
\* actor from handling anything else.  stopping: ctx.stop() has been called.
Phases == {"absent", "connecting", "running", "listing", "stopping", "stopped"}

ChatTypeOK ==
    /\ DOMAIN sessions \subseteq Ids
    /\ sessions \in [DOMAIN sessions -> Conns]
    /\ DOMAIN rooms \subseteq Rooms
    /\ Main \in DOMAIN rooms
    /\ rooms \in [DOMAIN rooms -> SUBSET Ids]
    /\ issued \subseteq Ids
    /\ serverUp \in BOOLEAN
    /\ inbox \in Seq(Messages)
    /\ open \subseteq Conns
    /\ mailbox \in [Conns -> Seq(Texts)]
    /\ reply \in [Conns -> Replies]
    /\ phase \in [Conns -> Phases]
    /\ sid \in [Conns -> Ids \cup {NoId}]
    /\ room \in [Conns -> Rooms]

ChatInit ==
    /\ ServerInit
    /\ open = {}
    /\ mailbox = [c \in Conns |-> <<>>]
    /\ reply = [c \in Conns |-> NoReply]
    /\ phase = [c \in Conns |-> "absent"]
    /\ sid = [c \in Conns |-> NoId]
    /\ room = [c \in Conns |-> Main]

\* Variant: the mailbox is a stack.
PostFront(m) == inbox' = IF serverUp THEN <<m>> \o inbox ELSE inbox

\* do_send or send to the server: an error that is ignored, or that the
\* sender awaits, once the server is gone.
Post(m) == inbox' = IF serverUp THEN Append(inbox, m) ELSE inbox

Goto(c, p) == phase' = [phase EXCEPT ![c] = p]

ServerUnchanged == UNCHANGED <<sessions, rooms, issued, serverUp>>

-----------------------------------------------------------------------------
(* The conversation *)

\* No ghosts: a room never lists an id that is not registered.  A Join or a
\* Message handled after the Disconnect of its session would leave the dead
\* id in a room for ever, because Disconnect cleans up only once
\* (server.rs, handlers of Disconnect and Join).
RoomMembersRegistered ==
    \A r \in DOMAIN rooms : rooms[r] \subseteq DOMAIN sessions

\* A waiting session only ever finds the kind of reply it waits for, and
\* nothing is left over when it does not wait (the ctx.wait() of started and
\* of List in session.rs and main.rs).
RepliesMatch ==
    \A c \in Conns :
        /\ phase[c] = "connecting" => reply[c].type \in {"None", "Id"}
        /\ phase[c] = "listing" => reply[c].type \in {"None", "Rooms"}
        /\ phase[c] \notin {"connecting", "listing"} => reply[c] = NoReply

\* The facts that make RoomMembersRegistered inductive.

\* An id belongs to one session for ever, and is registered while its session
\* handles events.
IdsOwned ==
    /\ DOMAIN sessions \subseteq issued
    /\ \A c \in Conns :
          /\ sid[c] \in issued \cup {NoId}
          /\ sid[c] \in DOMAIN sessions => sessions[sid[c]] = c
          /\ phase[c] \in {"running", "listing"} => sid[c] \in DOMAIN sessions
          /\ reply[c].type = "Id" =>
                reply[c].id \in DOMAIN sessions /\ sessions[reply[c].id] = c

\* The session asks one question at a time: while Connect or ListRooms is in
\* the mailbox its sender waits, without a reply, and asks nothing else.  A
\* dead server has no mailbox.
OneQuestion ==
    /\ serverUp \/ inbox = <<>>
    /\ \A i \in DOMAIN inbox :
          inbox[i].type \in {"Connect", "ListRooms"} =>
              /\ phase[inbox[i].conn] =
                     IF inbox[i].type = "Connect" THEN "connecting" ELSE "listing"
              /\ reply[inbox[i].conn] = NoReply
              /\ \A j \in DOMAIN inbox :
                    inbox[j].type \in {"Connect", "ListRooms"}
                        /\ inbox[j].conn = inbox[i].conn => i = j

\* Disconnect is the last word: its sender asks nothing any more, and no Join
\* or Message of its id is behind it.
DisconnectIsLast ==
    \A i \in DOMAIN inbox :
        /\ inbox[i].type = "Disconnect" =>
              /\ inbox[i].id \in issued \cup {NoId}
              /\ \A c \in Conns :
                    /\ phase[c] \in {"running", "listing"} => sid[c] # inbox[i].id
                    /\ reply[c].type = "Id" => reply[c].id # inbox[i].id
        /\ inbox[i].type \in {"Join", "Message"} =>
              /\ inbox[i].id \in DOMAIN sessions
              /\ \A j \in DOMAIN inbox :
                    j < i /\ inbox[j].type = "Disconnect" => inbox[j].id # inbox[i].id

\* The inductive invariant.
TalkInv ==
    /\ ChatTypeOK
    /\ RoomMembersRegistered
    /\ RepliesMatch
    /\ IdsOwned
    /\ OneQuestion
    /\ DisconnectIsLast

=============================================================================
