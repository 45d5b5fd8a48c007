------------------------------- MODULE PeerChat -------------------------------
(***************************************************************************)
(* The telnet chat of chatnew/src/main.rs: one task per connection, polled  *)
(* by the worker threads of a tokio runtime, and a map of senders under a   *)
(* mutex that all tasks share.                                              *)
(*                                                                         *)
(* A task that is polled runs through the steps of Peer::poll (drain, flush,*)
(* read) while other threads run theirs; it sleeps when it returns NotReady *)
(* and is polled again when something it looked at in vain has changed.     *)
(* Lines are whole; the rest of a line that its sender never ends is not    *)
(* modelled.                                                                *)
(***************************************************************************)
EXTENDS Naturals, Sequences, FiniteSets

CONSTANTS
    Conns,          \* connections
    Addrs,          \* socket addresses of clients
    NoAddr,         \* before a connection is made
    LinesPerTick,   \* LINES_PER_TICK: 10 in the code
    MaxLines,       \* bound: lines a client sends, the first one its name
    Talkers,        \* bound: connections whose client sends more than its name
    Leavers,        \* bound: connections whose client may close or reset them
    SockCap,        \* bound: lines the kernel holds for a client that does not read
    AddressReuse    \* whether an address may come back before its old peer is dropped

ASSUME ConstantsAssumption ==
    /\ LinesPerTick \in Nat \ {0} /\ MaxLines \in Nat \ {0} /\ SockCap \in Nat \ {0}
    /\ AddressReuse \in BOOLEAN /\ NoAddr \notin Addrs

VARIABLES
    peers,          \* Shared.peers: address -> the connection whose Tx it holds
    life,           \* each connection's task
    pc,             \* where a task is in poll
    notified,       \* tasks that are to be polled (again)
    addr,           \* the address a connection came from
    link,           \* what the client has done to the connection
    sent,           \* number of lines the client has sent
    input,          \* lines the task has not taken from its socket and rd
    rx,             \* lines in the channel to the peer
    wr,             \* lines in the write buffer
    heard,          \* lines written to the socket
    unread,         \* how many of them the client has not read
    waits           \* what a sleeping task is to be woken for

vars == <<peers, life, pc, notified, addr, link, sent, input, rx, wr, heard, unread,
          waits>>

clientVars == <<addr, link, sent>>

\* naming: the future that reads the first line.  dropping: the Peer has
\* completed and its drop() is about to run.  removed: drop() has run, the
\* fields (rx, the socket) are still there.
Lives == {"none", "naming", "joined", "dropping", "removed", "gone"}
Line(c, n) == [from |-> c, n |-> n]
Lines == [from : Conns, n : 1..MaxLines]

TypeOK ==
    /\ DOMAIN peers \subseteq Addrs /\ peers \in [DOMAIN peers -> Conns]
    /\ life \in [Conns -> Lives]
    /\ pc \in [Conns -> {"sleep", "drain", "flush", "read"}]
    /\ notified \subseteq Conns
    /\ addr \in [Conns -> Addrs \cup {NoAddr}]
    /\ link \in [Conns -> {"open", "fin", "reset"}]
    /\ sent \in [Conns -> 0..MaxLines]
    /\ input \in [Conns -> Seq(1..MaxLines)]
    /\ rx \in [Conns -> Seq(Lines)]
    /\ wr \in [Conns -> Seq(Lines)]
    /\ heard \in [Conns -> Seq(Lines)]
    /\ unread \in [Conns -> 0..SockCap]
    /\ waits \in [Conns -> SUBSET {"rx", "readable", "writable"}]

Init ==
    /\ peers = [a \in {} |-> a]
    /\ life = [c \in Conns |-> "none"]
    /\ pc = [c \in Conns |-> "sleep"]
    /\ notified = {}
    /\ addr = [c \in Conns |-> NoAddr]
    /\ link = [c \in Conns |-> "open"]
    /\ sent = [c \in Conns |-> 0]
    /\ input = [c \in Conns |-> <<>>]
    /\ rx = [c \in Conns |-> <<>>]
    /\ wr = [c \in Conns |-> <<>>]
    /\ heard = [c \in Conns |-> <<>>]
    /\ unread = [c \in Conns |-> 0]
    /\ waits = [c \in Conns |-> {}]

-----------------------------------------------------------------------------
(* Waking *)

\* The tasks of cs that wait for what are woken, and wait for it no more.
Wake(cs, what) ==
    LET woken == {c \in cs : what \in waits[c]}
    IN  /\ notified' = notified \cup woken
        /\ waits' = [c \in Conns |-> IF c \in woken THEN waits[c] \ {what} ELSE waits[c]]

Await(c, what) == waits' = [waits EXCEPT ![c] = @ \cup {what}]

Goto(c, p) == pc' = [pc EXCEPT ![c] = p]

\* The connections whose Tx the map has: their rx does not end.
Reachable == {peers[a] : a \in DOMAIN peers}

-----------------------------------------------------------------------------
(* Clients and the network *)

\* A client connects from a free address; process() spawns a task for it.
\* The address of a connection that was reset is free at once for the
\* client's kernel, even when the server has not noticed the reset.
Free(a) ==
    \A d \in Conns :
        addr[d] = a =>
            \/ life[d] = "gone"
            \/ AddressReuse /\ link[d] = "reset"

Arrives(c, a) ==
    /\ life[c] = "none"
    /\ Free(a)
    /\ life' = [life EXCEPT ![c] = "naming"]
    /\ addr' = [addr EXCEPT ![c] = a]
    /\ notified' = notified \cup {c}
    /\ UNCHANGED <<peers, pc, link, sent, input, rx, wr, heard, unread, waits>>

Connected(c) == life[c] \notin {"none", "gone"}

ClientSends(c) ==
    /\ Connected(c)
    /\ link[c] = "open"
    /\ sent[c] < IF c \in Talkers THEN MaxLines ELSE 1
    /\ sent' = [sent EXCEPT ![c] = @ + 1]
    /\ input' = [input EXCEPT ![c] = Append(@, sent[c] + 1)]
    /\ Wake({c}, "readable")
    /\ UNCHANGED <<peers, life, pc, addr, link, rx, wr, heard, unread>>

\* The client reads: there is room in the socket again.
ClientReads(c) ==
    /\ Connected(c)
    /\ unread[c] > 0
    /\ unread' = [unread EXCEPT ![c] = 0]
    /\ Wake({c}, "writable")
    /\ UNCHANGED <<peers, life, pc, addr, link, sent, input, rx, wr, heard>>

\* End of file after all that was sent.
ClientCloses(c) ==
    /\ Connected(c)
    /\ link[c] = "open" /\ c \in Leavers
    /\ link' = [link EXCEPT ![c] = "fin"]
    /\ Wake({c}, "readable")
    /\ UNCHANGED <<peers, life, pc, addr, sent, input, rx, wr, heard, unread>>

\* A reset: whatever the task does with the socket next is an error, which
\* loses what it had not taken yet.
ClientResets(c) ==
    /\ Connected(c)
    /\ link[c] # "reset" /\ c \in Leavers
    /\ link' = [link EXCEPT ![c] = "reset"]
    /\ input' = [input EXCEPT ![c] = <<>>]
    /\ notified' = IF waits[c] \cap {"readable", "writable"} # {}
                   THEN notified \cup {c} ELSE notified
    /\ waits' = [waits EXCEPT ![c] = @ \ {"readable", "writable"}]
    /\ UNCHANGED <<peers, life, pc, addr, sent, rx, wr, heard, unread>>

-----------------------------------------------------------------------------
(* process(): the first line is the name *)

\* The map with a Tx of c at its address.
Entered(c) == [a \in DOMAIN peers \cup {addr[c]} |-> IF a = addr[c] THEN c ELSE peers[a]]

\* The line is there: Peer::new puts a new Tx in the map, in the place of any
\* Tx that has the same address, and the Peer is polled at once.
TakeName(c) ==
    /\ life[c] = "naming" /\ c \in notified
    /\ link[c] # "reset" /\ input[c] # <<>>
    /\ input' = [input EXCEPT ![c] = Tail(@)]
    /\ peers' = Entered(c)
    /\ life' = [life EXCEPT ![c] = "joined"]
    /\ Goto(c, "drain")
    /\ notified' = (notified \ {c}) \cup
          {d \in Conns : addr[c] \in DOMAIN peers /\ d = peers[addr[c]] /\ "rx" \in waits[d]}
    /\ UNCHANGED <<clientVars, rx, wr, heard, unread, waits>>

\* The client has left, in order or not, without a name.  (A reset before
\* peer_addr() is asked for panics there, before the map is touched.)
LeaveNameless(c) ==
    /\ life[c] = "naming" /\ c \in notified
    /\ link[c] = "reset" \/ (link[c] = "fin" /\ input[c] = <<>>)
    /\ life' = [life EXCEPT ![c] = "gone"]
    /\ notified' = notified \ {c}
    /\ UNCHANGED <<peers, pc, clientVars, input, rx, wr, heard, unread, waits>>

AwaitName(c) ==
    /\ life[c] = "naming" /\ c \in notified
    /\ link[c] = "open" /\ input[c] = <<>>
    /\ notified' = notified \ {c}
    /\ Await(c, "readable")
    /\ UNCHANGED <<peers, life, pc, clientVars, input, rx, wr, heard, unread>>

Naming(c) == TakeName(c) \/ LeaveNameless(c) \/ AwaitName(c)

-----------------------------------------------------------------------------
(* Peer::poll *)

PollStarts(c) ==
    /\ life[c] = "joined" /\ pc[c] = "sleep" /\ c \in notified
    /\ notified' = notified \ {c}
    /\ Goto(c, "drain")
    /\ UNCHANGED <<peers, life, clientVars, input, rx, wr, heard, unread, waits>>

\* Variant: the task does not notify itself when the limit is hit.
TickUsedUpForgotten(n) == FALSE

\* The last of the LINES_PER_TICK looks at rx found a line.
TickUsedUp(n) == n = LinesPerTick

\* At most LinesPerTick lines move from rx to wr.  The other threads can only
\* append to rx, so that all the looks happen at the time of the last one.  If
\* the last one found nothing the task waits for rx, unless rx has ended; if
\* it found a line, the task notifies itself.
Drain(c) ==
    LET n == IF Len(rx[c]) < LinesPerTick THEN Len(rx[c]) ELSE LinesPerTick IN
    /\ life[c] = "joined" /\ pc[c] = "drain"
    /\ wr' = [wr EXCEPT ![c] = @ \o SubSeq(rx[c], 1, n)]
    /\ rx' = [rx EXCEPT ![c] = SubSeq(@, n + 1, Len(@))]
    /\ notified' = IF TickUsedUp(n) THEN notified \cup {c} ELSE notified
    /\ waits' = IF n = LinesPerTick \/ c \notin Reachable THEN waits
                ELSE [waits EXCEPT ![c] = @ \cup {"rx"}]
    /\ Goto(c, "flush")
    /\ UNCHANGED <<peers, life, clientVars, input, heard, unread>>

\* The number of buffered lines that the socket takes.
Written(c) ==
    LET room == SockCap - unread[c]
    IN  IF Len(wr[c]) < room THEN Len(wr[c]) ELSE room

\* As much as the socket takes is written; the rest waits for it.
Flush(c) ==
    LET n == Written(c)
    IN  /\ life[c] = "joined" /\ pc[c] = "flush"
        /\ link[c] # "reset" \/ wr[c] = <<>>
        /\ heard' = [heard EXCEPT ![c] = @ \o SubSeq(wr[c], 1, n)]
        /\ unread' = [unread EXCEPT ![c] = @ + n]
        /\ wr' = [wr EXCEPT ![c] = SubSeq(@, n + 1, Len(@))]
        /\ waits' = IF n < Len(wr[c]) THEN [waits EXCEPT ![c] = @ \cup {"writable"}] ELSE waits
        /\ Goto(c, "read")
        /\ UNCHANGED <<peers, life, notified, clientVars, input, rx>>

\* Whom a line of c is sent to, under the lock.
OtherAddresses(c) == DOMAIN peers \ {addr[c]}

\* Variant: the channel is a stack.
BroadcastOnTop(c) ==
    LET others == {peers[a] : a \in OtherAddresses(c)} IN
    /\ life[c] = "joined" /\ pc[c] = "read"
    /\ link[c] # "reset" /\ input[c] # <<>>
    /\ input' = [input EXCEPT ![c] = Tail(@)]
    /\ rx' = [d \in Conns |->
                IF d \in others THEN <<Line(c, Head(input[c]))>> \o rx[d] ELSE rx[d]]
    /\ Wake(others, "rx")
    /\ UNCHANGED <<peers, life, pc, clientVars, wr, heard, unread>>

\* A line, sent to everybody else in the map at once.
Broadcast(c) ==
    LET others == {peers[a] : a \in OtherAddresses(c)} IN
    /\ life[c] = "joined" /\ pc[c] = "read"
    /\ link[c] # "reset" /\ input[c] # <<>>
    /\ input' = [input EXCEPT ![c] = Tail(@)]
    /\ rx' = [d \in Conns |->
                IF d \in others THEN Append(rx[d], Line(c, Head(input[c]))) ELSE rx[d]]
    /\ Wake(others, "rx")
    /\ UNCHANGED <<peers, life, pc, clientVars, wr, heard, unread>>

\* Nothing more to read for now: NotReady.
ReadSleeps(c) ==
    /\ life[c] = "joined" /\ pc[c] = "read"
    /\ link[c] = "open" /\ input[c] = <<>>
    /\ Await(c, "readable")
    /\ Goto(c, "sleep")
    /\ UNCHANGED <<peers, life, notified, clientVars, input, rx, wr, heard, unread>>

\* Variant: the end of file is not told from an empty line.
CompletesOnError(c) ==
    /\ life[c] = "joined"
    /\ pc[c] \in {"flush", "read"} /\ link[c] = "reset"
    /\ pc[c] = "flush" => wr[c] # <<>>
    /\ life' = [life EXCEPT ![c] = "dropping"]
    /\ Goto(c, "sleep")
    /\ UNCHANGED <<peers, notified, clientVars, input, rx, wr, heard, unread, waits>>

\* End of file once all lines are read, or an error of a write or a read.
Completes(c) ==
    /\ life[c] = "joined"
    /\ \/ pc[c] = "read" /\ link[c] = "fin" /\ input[c] = <<>>
       \/ pc[c] \in {"flush", "read"} /\ link[c] = "reset"
             /\ (pc[c] = "flush" => wr[c] # <<>>)
    /\ life' = [life EXCEPT ![c] = "dropping"]
    /\ Goto(c, "sleep")
    /\ UNCHANGED <<peers, notified, clientVars, input, rx, wr, heard, unread, waits>>

\* Variant: the entry stays in the map.
DropKeeps(c) ==
    /\ life[c] = "dropping"
    /\ life' = [life EXCEPT ![c] = "removed"]
    /\ UNCHANGED <<peers, pc, notified, clientVars, input, rx, wr, heard, unread, waits>>

\* drop() takes the entry of the address out of the map, whoever's Tx it
\* holds by then; that one's rx ends.
DropRemoves(c) ==
    /\ life[c] = "dropping"
    /\ peers' = [a \in DOMAIN peers \ {addr[c]} |-> peers[a]]
    /\ life' = [life EXCEPT ![c] = "removed"]
    /\ Wake({d \in Conns : addr[c] \in DOMAIN peers /\ d = peers[addr[c]]}, "rx")
    /\ UNCHANGED <<pc, clientVars, input, rx, wr, heard, unread>>

\* Then the fields: rx, with what is in it, and the socket.
DropFields(c) ==
    /\ life[c] = "removed"
    /\ life' = [life EXCEPT ![c] = "gone"]
    /\ rx' = [rx EXCEPT ![c] = <<>>]
    /\ wr' = [wr EXCEPT ![c] = <<>>]
    /\ UNCHANGED <<peers, pc, notified, clientVars, input, heard, unread, waits>>

Task(c) ==
    \/ Naming(c) \/ PollStarts(c) \/ Drain(c) \/ Flush(c) \/ Broadcast(c)
    \/ ReadSleeps(c) \/ Completes(c) \/ DropRemoves(c) \/ DropFields(c)

Client(c) ==
    \/ \E a \in Addrs : Arrives(c, a)
    \/ ClientSends(c)
    \/ ClientReads(c)
    \/ ClientCloses(c)
    \/ ClientResets(c)

Next == \E c \in Conns : Task(c) \/ Client(c)

Spec == Init /\ [][Next]_vars

\* The runtime polls every task that is notified, to the end of its poll.
FairSpec == Spec /\ \A c \in Conns : WF_vars(Task(c))

-----------------------------------------------------------------------------
(* Properties *)

\* The unwrap() of unbounded_send: every Tx in the map has its rx, also when a
\* Peer is dropped by another thread while a line is sent (drop() takes the Tx
\* out before the fields go).
RxOutlivesTx == \A a \in DOMAIN peers : life[peers[a]] \in {"joined", "dropping"}

\* "For all connected clients they'll all join the same room and see everyone
\* else's messages": a peer's Tx is in the map as long as the peer runs.
EveryoneIsReachable == \A c \in Conns : life[c] = "joined" => c \in Reachable

\* The map and the peers that run fit, both ways, through every poll and drop (Peer::new,
\* Peer::poll, Drop of Peer).
MapFitsPeers == RxOutlivesTx /\ EveryoneIsReachable

\* No lost wake-up: a peer whose task sleeps, and is not to be polled again,
\* has nothing to do: no line in rx, none to read, none that the socket would
\* take, and its client is there (the contract of NotReady in Peer::poll).
SleepersAreDone ==
    \A c \in Conns :
        life[c] = "joined" /\ pc[c] = "sleep" /\ c \notin notified =>
            /\ rx[c] = <<>> /\ input[c] = <<>> /\ link[c] = "open"
            /\ wr[c] # <<>> => unread[c] = SockCap

\* All that a client was sent or will be.
Feed(c) == heard[c] \o wr[c] \o rx[c]

\* Everybody sees the same conversation: two clients that get two lines get
\* them in the same order, nobody gets a line twice or a line of its own.
SameConversation ==
    \A c, d \in Conns :
        LET f == Feed(c)
            g == Feed(d)
        IN  \A i, j \in DOMAIN f : i < j =>
                /\ f[i] # f[j] /\ f[i].from # c /\ f[j].from # c
                /\ ~ \E k, l \in DOMAIN g : k < l /\ g[k] = f[j] /\ g[l] = f[i]

\* A line that is sent is read, or its sender is reset.
LinesAreRead == \A c \in Conns : input[c] # <<>> ~> input[c] = <<>>

\* A line that is broadcast does not stay in the channel.
ChannelIsDrained == \A c \in Conns : rx[c] # <<>> ~> rx[c] = <<>>

\* Lines go on: from the client's socket into the channels, and out of each channel
\* to the writer, however the polls fall (the NotReady of the read, the limit of
\* LINES_PER_TICK in Peer::poll).
LinesMoveOn == LinesAreRead /\ ChannelIsDrained

\* A client that has left is forgotten.
LeaversAreDropped ==
    \A c \in Conns : link[c] # "open" ~> life[c] = "gone"

=============================================================================
