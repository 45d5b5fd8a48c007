------------------------------- MODULE RoomChat -------------------------------
(***************************************************************************)
(* What the chat promises, without actors, mailboxes, ids or replies: a    *)
(* peer is in one room at a time; what it says is heard by exactly the     *)
(* other peers that are in its room at that moment and can still hear; who *)
(* is in a room is told of every arrival and departure, once.  Each of     *)
(* these things happens at one instant.                                    *)
(*                                                                         *)
(* The public surface it abstracts is server.rs with both kinds of         *)
(* sessions; ActorChat is shown to implement it.                           *)
(***************************************************************************)
EXTENDS Naturals, Sequences

\* Outside and Gone are no rooms (the module that instantiates this one
\* assumes it).
CONSTANTS Conns, Rooms, Main, Outside, Gone, MaxRequests

VARIABLES
    place,        \* the room each peer is in; Outside before, Gone after
    hears,        \* peers whose connection still carries texts to them
    feed          \* what each peer has heard or is still to hear, in order

chatVars == <<place, hears, feed>>

Said(c, n) == [what |-> "Said", from |-> c, n |-> n]
SomeoneJoined == [what |-> "SomeoneJoined"]
SomeoneConnected == [what |-> "SomeoneConnected"]
SomeoneDisconnected == [what |-> "SomeoneDisconnected"]

Others(c, r) == {d \in Conns \ {c} : place[d] = r}

Tell(f, ds, text) ==
    [d \in Conns |-> IF d \in ds \cap hears THEN Append(f[d], text) ELSE f[d]]

Init ==
    /\ place = [c \in Conns |-> Outside]
    /\ hears = {}
    /\ feed = [c \in Conns |-> <<>>]

\* A connection is open; its peer is not in the chat yet.
Open(c) ==
    /\ c \notin hears
    /\ place[c] = Outside
    /\ hears' = hears \cup {c}
    /\ UNCHANGED <<place, feed>>

Arrive(c) ==
    /\ place[c] = Outside
    /\ c \in hears
    /\ place' = [place EXCEPT ![c] = Main]
    /\ feed' = Tell(feed, Others(c, Main), SomeoneJoined)
    /\ UNCHANGED hears

\* Moving to the room one is in already is announced as leaving and entering.
Move(c, r) ==
    /\ place[c] \in Rooms
    /\ place' = [place EXCEPT ![c] = r]
    /\ feed' = Tell(Tell(feed, Others(c, place[c]), SomeoneDisconnected),
                    Others(c, r), SomeoneConnected)
    /\ UNCHANGED hears

Say(c, n) ==
    /\ place[c] \in Rooms
    /\ feed' = Tell(feed, Others(c, place[c]), Said(c, n))
    /\ UNCHANGED <<place, hears>>

Leave(c) ==
    /\ place[c] \in Rooms
    /\ place' = [place EXCEPT ![c] = Gone]
    /\ feed' = Tell(feed, Others(c, place[c]), SomeoneDisconnected)
    /\ UNCHANGED hears

\* The connection ends: what had not reached the peer is lost.  The peer may
\* stay in its room for a while, deaf.
Hang(c) ==
    /\ c \in hears
    /\ hears' = hears \ {c}
    /\ \E k \in 0..Len(feed[c]) : feed' = [feed EXCEPT ![c] = SubSeq(@, 1, k)]
    /\ UNCHANGED place

Next ==
    \E c \in Conns :
        \/ Open(c) \/ Arrive(c) \/ Leave(c) \/ Hang(c)
        \/ \E r \in Rooms : Move(c, r)
        \/ \E n \in 1..MaxRequests : Say(c, n)

Spec == Init /\ [][Next]_chatVars

=============================================================================
