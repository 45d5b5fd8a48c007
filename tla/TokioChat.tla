------------------------------ MODULE TokioChat ------------------------------
(***************************************************************************)
(* The line chat of tokio_chat/src/main.rs: one thread, one event loop, one  *)
(* task per connection, which is the select of a half that reads lines and a *)
(* half that writes what comes through the connection's channel.            *)
(*                                                                         *)
(* The thread polls one task at a time.  A poll reads all that has come and  *)
(* puts it in the channels of the map, then writes what its own channel has  *)
(* and the socket takes; when either half ends, so does the task.           *)
(***************************************************************************)
EXTENDS Naturals, Sequences, Selection

CONSTANTS
    Conns,          \* connections
    Addrs,          \* socket addresses of clients
    NoConn,         \* no entry in the map
    NoAddr,         \* before a connection is made
    MaxLines,       \* bound: lines sent by all clients together
    SockCap         \* bound: lines the kernel holds for a client that does not read

ASSUME ConstantsAssumption ==
    MaxLines \in Nat /\ SockCap \in Nat /\ NoConn \notin Conns /\ NoAddr \notin Addrs

VARIABLES
    connections,    \* address -> the connection whose tx the map holds
    backlog,        \* connections the listener has not handed over
    task,           \* each connection's task
    addr,           \* the address a connection came from
    link,           \* what the client has done to the connection
    sent,           \* lines sent
    sock,           \* lines that have come and were not read
    rx,             \* what is in the channel
    heard,          \* what was written to the socket
    unread,         \* how much of it the client has not read
    panicked,       \* an unwrap() has failed: the event loop is gone
    said,           \* history: the lines in the order they were read
    since,          \* history: how many of them before a connection was accepted
    reused          \* history: an address came back before its old task had ended

clientVars == <<addr, link, sent>>
vars == <<connections, backlog, task, clientVars, sock, rx, heard, unread, panicked,
          said, since, reused>>

\* The n-th line of a client; utf8 tells whether String::from_utf8 takes it.
Lines == [from : Conns, n : 1..MaxLines, utf8 : BOOLEAN]
Texts == {l \in Lines : l.utf8}
Garbage == Lines \ Texts

\* "You didn't send valid UTF-8."
Complaint == [from |-> NoConn, n |-> 0, utf8 |-> TRUE]

TypeOK ==
    /\ connections \in [Addrs -> Conns \cup {NoConn}]
    /\ backlog \in Seq(Conns)
    /\ task \in [Conns -> {"none", "backlog", "open", "done"}]
    /\ addr \in [Conns -> Addrs \cup {NoAddr}]
    /\ link \in [Conns -> {"open", "fin", "reset"}]
    /\ sent \in 0..MaxLines
    /\ sock \in [Conns -> Seq(Lines)]
    /\ rx \in [Conns -> Seq(Lines \cup {Complaint})]
    /\ heard \in [Conns -> Seq(Lines \cup {Complaint})]
    /\ unread \in [Conns -> 0..SockCap]
    /\ panicked \in BOOLEAN
    /\ said \in Seq(Lines)
    /\ since \in [Conns -> Nat]
    /\ reused \in BOOLEAN

Init ==
    /\ connections = [a \in Addrs |-> NoConn]
    /\ backlog = <<>>
    /\ task = [c \in Conns |-> "none"]
    /\ addr = [c \in Conns |-> NoAddr]
    /\ link = [c \in Conns |-> "open"]
    /\ sent = 0
    /\ sock = [c \in Conns |-> <<>>]
    /\ rx = [c \in Conns |-> <<>>]
    /\ heard = [c \in Conns |-> <<>>]
    /\ unread = [c \in Conns |-> 0]
    /\ panicked = FALSE
    /\ said = <<>>
    /\ since = [c \in Conns |-> 0]
    /\ reused = FALSE

-----------------------------------------------------------------------------
(* Clients and the network *)

\* An address is free when the server's socket is gone, or, for the kernel of a
\* client that has reset its connection, at once.
Users(a) == {d \in Conns : addr[d] = a /\ task[d] # "done"}

Connect(c, a) ==
    /\ task[c] = "none"
    /\ \A d \in Users(a) : link[d] = "reset"
    /\ reused' = (reused \/ Users(a) # {})
    /\ task' = [task EXCEPT ![c] = "backlog"]
    /\ addr' = [addr EXCEPT ![c] = a]
    /\ backlog' = Append(backlog, c)
    /\ UNCHANGED <<connections, link, sent, sock, rx, heard, unread, said, since>>

Connected(c) == task[c] \in {"backlog", "open"}

Send(c) ==
    /\ Connected(c) /\ link[c] = "open"
    /\ sent < MaxLines
    /\ sent' = sent + 1
    /\ \E utf8 \in BOOLEAN :
          sock' = [sock EXCEPT ![c] = Append(@, [from |-> c, n |-> sent + 1, utf8 |-> utf8])]
    /\ UNCHANGED <<connections, backlog, task, addr, link, rx, heard, unread, said, since, reused>>

\* In order, after all that was sent; or with a reset, which may discard what
\* the server has not read.
Leave(c) ==
    /\ Connected(c) /\ link[c] = "open"
    /\ \/ link' = [link EXCEPT ![c] = "fin"] /\ UNCHANGED sock
       \/ link' = [link EXCEPT ![c] = "reset"] /\ sock' \in {sock, [sock EXCEPT ![c] = <<>>]}
    /\ UNCHANGED <<connections, backlog, task, addr, sent, rx, heard, unread, said, since, reused>>

ClientReads(c) ==
    /\ unread[c] > 0 /\ link[c] = "open"
    /\ unread' = [unread EXCEPT ![c] = 0]
    /\ UNCHANGED <<connections, backlog, task, clientVars, sock, rx, heard, said, since,
                   reused>>

-----------------------------------------------------------------------------
(* The event loop *)

\* incoming().for_each(): a channel, its tx in the map in the place of any tx
\* that has the same address, and a task.
Accept ==
    /\ backlog # <<>>
    /\ LET c == Head(backlog)
       IN  /\ connections' = [connections EXCEPT ![addr[c]] = c]
           /\ task' = [task EXCEPT ![c] = "open"]
           /\ since' = [since EXCEPT ![c] = Len(said)]
    /\ backlog' = Tail(backlog)
    /\ UNCHANGED <<clientVars, sock, rx, heard, unread, said, reused>>

\* The only tx of a connection is the one in the map.
TxDropped(c) == connections[addr[c]] # c

\* Something for the task to do: a line, an end, room to write.
Ready(c) ==
    \/ sock[c] # <<>>
    \/ link[c] # "open"
    \/ rx[c] # <<>> /\ unread[c] < SockCap
    \/ rx[c] = <<>> /\ TxDropped(c)

\* The connections whose tx a line of c goes to.  Variant: the sender's, too.
EveryEntry(c) == {connections[a] : a \in Addrs} \ {NoConn}

OtherEntries(c) == {connections[a] : a \in Addrs \ {addr[c]}} \ {NoConn}

\* The reading half gives a line that is no text a complaint, in the channel
\* that the map has for the sender's address.
Channels(c) ==
    [d \in Conns |->
        rx[d] \o (IF d \in OtherEntries(c) THEN Only(sock[c], Texts) ELSE <<>>)
              \o (IF d = connections[addr[c]]
                  THEN [i \in 1..Len(Only(sock[c], Garbage)) |-> Complaint]
                  ELSE <<>>)]

\* get_mut(&addr).unwrap(), and the unwrap() of a send to a receiver that is gone.
UnwrapFails(c) ==
    \/ /\ \E i \in DOMAIN sock[c] : sock[c][i] \in Garbage
       /\ \/ connections[addr[c]] = NoConn
          \/ task[connections[addr[c]]] = "done"
    \/ /\ \E i \in DOMAIN sock[c] : sock[c][i] \in Texts
       /\ \E d \in OtherEntries(c) : task[d] = "done"

\* Variant: the entry stays in the map.
Forgotten(c) == connections

\* connections.remove(&addr): whatever entry has the address.
Removed(c) == [connections EXCEPT ![addr[c]] = NoConn]

\* The reading half has come to the end of the lines; the other half is
\* dropped with all that is in the channel.
ReaderEnds(c) ==
    /\ link[c] # "open"
    /\ task' = [task EXCEPT ![c] = "done"]
    /\ connections' = Removed(c)
    /\ rx' = [Channels(c) EXCEPT ![c] = <<>>]
    /\ UNCHANGED <<heard, unread>>

\* How many of n messages the socket takes.
Takes(c, n) == IF n < SockCap - unread[c] THEN n ELSE SockCap - unread[c]

\* The reading half waits for more.  The other one writes while the socket
\* takes it, and ends if it has written all and there is no tx any more.
WriterRuns(c) ==
    LET all == Channels(c)[c]
        n == Takes(c, Len(all))
        ends == n = Len(all) /\ TxDropped(c)
    IN  /\ link[c] = "open"
        /\ heard' = [heard EXCEPT ![c] = @ \o SubSeq(all, 1, n)]
        /\ unread' = [unread EXCEPT ![c] = @ + n]
        /\ rx' = [Channels(c) EXCEPT ![c] = SubSeq(all, n + 1, Len(all))]
        /\ task' = IF ends THEN [task EXCEPT ![c] = "done"] ELSE task
        /\ connections' = IF ends THEN Removed(c) ELSE connections

\* One poll of c's task.  After a panic nothing runs, and what the poll has done
\* by then does not matter.
Poll(c) ==
    /\ task[c] = "open"
    /\ Ready(c)
    /\ ReaderEnds(c) \/ WriterRuns(c)
    /\ panicked' = UnwrapFails(c)
    /\ sock' = [sock EXCEPT ![c] = <<>>]
    /\ said' = said \o sock[c]
    /\ UNCHANGED <<backlog, clientVars, since, reused>>

Outside(c) == (\E a \in Addrs : Connect(c, a)) \/ Send(c) \/ Leave(c) \/ ClientReads(c)

Next ==
    /\ ~panicked
    /\ \/ \E c \in Conns : Outside(c) /\ UNCHANGED panicked
       \/ Accept /\ UNCHANGED panicked
       \/ \E c \in Conns : Poll(c)

Spec == Init /\ [][Next]_vars

-----------------------------------------------------------------------------
(* Properties *)

\* A line from a connection's own address that is no text, or a text from another.
Mine(c) == {l \in Lines : l \in Texts <=> addr[l.from] # addr[c]}

\* Lines as a client gets to see them.
Shown(lines) == [i \in 1..Len(lines) |-> IF lines[i] \in Texts THEN lines[i] ELSE Complaint]

\* What c is owed: the texts from other addresses since it came, in the order
\* they were read, and a complaint at the place of each line from its own that is
\* no text.
Owed(c) == Shown(Only(SubSeq(said, since[c] + 1, Len(said)), Mine(c)))

\* Everybody in the room hears all the others say, in the one order in which it
\* was read, once and from nobody else, as long as no address comes back too
\* early; then still everybody whom the map has ("they'll all join the same room
\* and see everyone else's messages").
HearsTheRoom ==
    \A c \in Conns :
        task[c] = "open" /\ ~panicked /\ (~reused \/ ~TxDropped(c)) =>
            heard[c] \o rx[c] = Owed(c)

\* The unwrap()s on the map and on its senders never fail, unless an address
\* comes back too early: an entry is there as long as its task, and no longer.
UnwrapsSucceed == panicked => reused

=============================================================================
