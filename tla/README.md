# Verification of rust_demo

`rust_demo` is a collection of small Rust programs around one theme: chat servers
built with different runtimes (actix, tokio, ws-rs), their protocols, and a
library of data-structure exercises. This directory holds TLA+ models of the
programs that have state worth checking, TLC configurations for small
instances, and TLAPS proofs of the results that hold for every instance.

Every definition is translated from the Rust source; `PROJECT.json` gives the
lines of each one ("map"), the runs with their properties, for each property a
mutant of the model that breaks it, the hazards of the code, and the disagreements
between code and comments that came up.

## 1. Inventory

| Component | State it keeps | Operations | What is hard | What makes it correct |
|---|---|---|---|---|
| `actor_ws_tcp_chat/src/server.rs`, the ChatServer actor | `sessions: id -> Recipient`, `rooms: name -> set of ids`, a generator of ids; a mailbox | handlers of Connect, Disconnect, Message, ListRooms, Join; `send_message` | requests of many sessions interleave in one mailbox; repeated and late messages; its thread may die | no dead id stays in a room; a session is in one room; texts go to the right room, once, in one order |
| `…/src/session.rs`, a ChatSession actor per TCP connection | `id`, `room`, `hb`, framed writer, mailbox | started, stopping, List, Join, Message, Ping, delivery, `hb` | `ctx.wait()`; the room field runs ahead of the server; two Disconnects; the heartbeat races late pings | waits end, replies go to their question, a stopped session is unregistered |
| `…/src/main.rs`, a WsChatSession actor per websocket | `id`, `hb`, `room`, `name` | started, stopping, Text, Binary, Ping/Pong, Close, `hb` | as above, and an own ping every 5 s with a timeout of 10 s | an answering browser is kept, a silent one dropped |
| `…/src/client.rs`, console client | framed writer | commands, `hb` every second, printing answers | punctuality of its pings | the server does not drop it |
| `…/src/codec.rs` | the bytes not yet decoded | encode, decode | partial reads; a length of 16 bits | what is decoded is what was encoded |
| `chatnew/src/main.rs`, telnet chat (tokio) | `Shared.peers: addr -> Tx` under a mutex; per task `rd`, `wr`, `rx` | `process`, `Peer::poll`, `Drop` | tasks on several threads; wake-ups; the order of drop; addresses that come back | no lost wake-up; no send to a dropped receiver; everybody hears everybody |
| `tokio_chat/src/main.rs`, line chat (tokio-core) | `connections: addr -> Tx` | insert, read loop, write loop, removal when either half ends | the two halves end at different times; addresses that come back | as above |
| `ws_chat/src/main.rs`, chat with history (ws-rs) | `message_log`, `users`, `nick`; the file `message_log` | on_open (backlog), on_message (message, join), on_close, the SAVE and PING timers, start from the file | the file is written in place; restart; who may use a name; timers that are not set again | one user per name; who opens sees the last messages; what was saved survives |
| `chat/src`, the older server | as `actor_ws_tcp_chat`, without websocket, all in one thread | the same handlers of the server; sessions whose `hb` arms a `run_later` again each time | who ends whom: neither side tells the other when it goes; a wait holds up everything else | a client that runs is kept, one that has gone is forgotten |
| `client/src/main.rs`, the older console client | the mailbox of `ChatClient` | a thread that reads lines; commands; answers printed; `hb` every second; the end of the process | a line passes six queues; answers carry no number; the network fails without a word | a user hears what was typed for its room, in order, and its questions are answered in turn |
| `actor_chat` | as `chat` | the handlers of `chat`, for actix 0.7 | the same | the same |
| `libfun` | stacks, stack with minimum, queue, quicksort | push, pop, sort | empty inputs, equal elements | the usual ones |
| `websocket/src/main.rs` | a count of connections | open, message, close | ids drawn from the count | the count is right; when ids may coincide |
| `tcp_echo/src/main.rs` | a read buffer per connection | decode, echo, encode | lines in pieces; an invalid or unended line ends the connection | the peer gets its own bytes back |
| `mysql_demo` | none: a table in a database | a few queries, each once | — | — |
| `redis_demo`, `websocket_client`, `hello_world`, `my_library`, `iron_demo`, `sapper_demo`, `client_test`, `static` | none, or that of a library | one call each | — | — |

`chat` and `client` are two programs that belong together. `client/src` also has a
`server.rs` and a `session.rs`, but its `main.rs` names only `mod codec`, so that they
are not compiled. The client of `actor_chat` uses `ClientChatCodec`, which its
`codec.rs` has commented out: it does not build.

How the parts of `actor_ws_tcp_chat` interact: `main` starts the ChatServer in an
arbiter (a thread) of its own, the TcpServer in a second one, and the websocket
routes in the HTTP workers. A session actor lives in the arbiter that accepted its
connection. Session and server share nothing; a session posts Connect, Join,
Message, ListRooms and Disconnect to the server's mailbox, and the server posts
texts to the Recipients of the sessions. `send()` returns a future; a session waits
for it with `ctx.wait()`, and handles no frame, no text and no timer in the
meantime.

## 2. Modules

| Module | Models | State and actions |
|---|---|---|
| `ChatServer` | server.rs | the fields of `ChatServer`, its mailbox `inbox`, the sessions' mailboxes, and `reply`, the resolved future of a pending `send()`. `On…` is what a handler does; `Handle…` takes the head of the mailbox and does it. `ServerFails` is the end of the server's thread |
| `ChatSessions` | what the sessions of `actor_ws_tcp_chat` and of `chat` share | `phase` is where a session is in its life (a pending `ctx.wait()` is a phase of its own), `sid` and `room` are its fields `id` and `room`; `Post` is a message to the server; and the invariant `TalkInv` of the conversation of sessions and server |
| `ChatSessions_proofs` | | TLAPS lemmas: what each handler of the server, and each thing that a session may do, leaves true; what `SendMessage` adds to a mailbox |
| `ActorChat` | session.rs, main.rs, and their composition with `ChatServer` | extends `ChatSessions`; `received` and `answered` are what was written to the peer |
| `RoomChat` | the abstract specification | a chat in which arriving, moving, saying, leaving take effect at one instant |
| `MCActorChat` | | instances for TLC |
| `ActorChat_proofs` | | TLAPS proofs: types, registry, replies, rooms, lists of rooms, the order of texts, the refinement of `RoomChat` |
| `Heartbeat` | `hb` of session.rs and main.rs, `hb` of client.rs, the handling of Ping and Pong | clocks as ages, in whole time units; `kind` says which of the two sessions it is |
| `ConsoleChat`, `MCConsoleChat` | `chat` (main.rs, session.rs, with `ChatServer` for server.rs) and `client`, composed | extends `ChatSessions`; `phase`, `sid`, `room`, `checking` are a session, `process`, `pinging`, `commands` a client, `toServer` and `toClient` the two directions of the stream; `typed` and `printed` are what the users see. One action per handler, timer and closure of either program, and for users, kills, cuts of the network and their end |
| `ConsoleChat_proofs` | | TLAPS proofs: types, answers in turn, lines heard as they were typed |
| `PeerChat`, `MCPeerChat` | chatnew | per task where it is in `poll`, what it waits for, its buffers; the shared map; the clients |
| `PeerChat_proofs` | | TLAPS proofs |
| `TokioChat` | tokio_chat | the map, the channels, what came and what was written; a poll of a task is one action (one thread) |
| `TokioChat_proofs` | | TLAPS proofs |
| `WsChat`, `MCWsChat` | ws_chat | `log`, `users`, `nick`, the event loop's `queue`, the file as cells; one action per handler and timer, and the restart |
| `WsChat_proofs` | | TLAPS proofs |
| `Selection`, `Selection_proofs` | | `Only(s, T)`, the elements of a sequence that are in a set, as a recursive function, and what can be said about it; `WsChat`, `TokioChat` and `ConsoleChat` use it where a queue is filtered or a part of a history is selected |
| `ChatCodec` | codec.rs | the bytes under way and in the decoder's buffer |
| `StackWithMin` | the abstract specification of the stacks with a minimum | |
| `MinStack` | `Min` of libfun/src/stack | the list of values and the list of minima |
| `QuickSort` | libfun/src/sort/qsort.rs | the slice and the calls that have not returned, each with its local variables |
| `TcpEcho` | tcp_echo | one connection: the bytes written, the buffer of `decode`, what is encoded and what has gone out |
| `ConnCount` | websocket/src/main.rs | the shared count and the `client_id` of each handler |
| `Parts_proofs` | | TLAPS proofs about `Heartbeat`, `ChatCodec`, `MinStack`, `ConnCount` and `TcpEcho`, a section each |
| `MCParts` | | the small components in one run: a behaviour is one of the component that `part` names, while the others stay where they begin. Their fairness is that of their own specifications |

`RoomChat` and `StackWithMin` are abstract specifications: `ActorChat` and `MinStack`
instantiate them with a refinement mapping (`ImplementsRoomChat`,
`ImplementsStackWithMin`).

### Abstractions

* A text is who said it and its number; a name of a room, an id, an address is a
  model value. `rng.gen::<usize>()` is a fresh value other than 0: 64 bits of
  randomness collide with another id, or with the literal 0 that stands for "no id"
  and "skip nobody", with a probability the model neglects.
* In `ActorChat` time is left out: `TcpHeartbeatFails` and `WsHeartbeatFails` may
  happen whenever a session handles events, and `Heartbeat` says when they do. The
  Ping frames, which only move the heartbeat, are in `Heartbeat` alone.
* A session that waits does not see its peer's stream, timer or mailbox
  (`AsyncContext::wait`); that is why only `running` sessions act.
* The server's thread dies at a moment of its own choosing. What it had answered
  still arrives; what was in its mailbox is lost and the senders' futures fail.
* `PeerChat` works with whole lines. The steps of `Peer::poll` (drain the channel,
  flush, read) are separate actions, because other threads run between them; the
  drain of up to `LINES_PER_TICK` lines is one action, since other threads can
  only append to the channel and the drain is then the same as one at its last look.
* A reset connection loses what the task had not read (in `TokioChat`: may lose it).
  In `PeerChat`, `AddressReuse` says whether the client's kernel may use an address
  again while the server's old task has not yet been polled; in `TokioChat` it may,
  and `reused` remembers that it did.
* `TokioChat`: lines are whole, and either text or not. `tokio_chat` runs on one
  thread, so that a poll (read all, then write what the socket takes) is one step. A
  failed `unwrap()` ends the process: `panicked`.
* `WsChat`: log entries are numbered in the order they are pushed. The ten minutes of
  on_open are the boundary `old`, which moves up at any time. The file is a sequence of
  cells, an entry each and the closing bracket; a save writes over it from the start
  and does not shorten it. That a write of the file fails is `SaveFails` (with any part
  written); that the process dies in a write is `RestartAfterTornSave`. A file that
  cannot be opened is an error returned to ws-rs, and left out. `Savers` bounds whose timers fire. Left out: the PING timer,
  which changes nothing, and a full queue of ws-rs.
* `ChatCodec`: a byte of a JSON text is known by its message and its place, and a
  part of a text does not parse. The two codecs have the same encode and decode.
* `ConsoleChat`: frames are whole (`ChatCodec` has the framing), and Ping frames are left
  out. In their place `checking` and `pinging` say whose `run_later` is armed: a session may
  find its client late only if that client pings no more, because it has ended, is cut off,
  or has not armed its timer. A killed process loses any suffix of what it has sent; a
  stopped session loses its timers, its mailbox, its requests, and any suffix of what it
  has written. The actors of `chat` share one thread, so that the server does not fail
  without them. The server's notices are shown and not kept in `printed`.
* `TcpEcho`: a byte is a character, the newline, or one that is not valid UTF-8 where it
  stands. What tokio_proto and `Framed` do (reads when there is no line, `decode_eof`,
  an error that drops the connection) is modelled from how they are used.
* `ConnCount`: connections are numbered in the order they open; the library calls
  on_close once for each on_open. `on_message` changes nothing.
* `MinStack`, `QuickSort`: values are integers; that the code compares by a key of the
  element (`get_val`, `Ord`) makes no difference to the steps. A slice is not empty:
  `len() - 1` underflows otherwise.

## 3. Runs

Each run checks one question on an instance small enough to be explored completely.

| Run | Instance | Shows |
|---|---|---|
| `chat_tcp` | 2 TCP sessions, 2 rooms, 3 requests, either may leave, server may die | `TypeOK`; no ghosts in rooms (`RoomMembersRegistered`); one room each (`OneRoomEach`); a Message names the room the server has its sender in (`SpokenInOwnRoom`); replies match questions (`RepliesMatch`); a list of rooms has every room joined before (`ListSeesJoins`) |
| `chat_order` | 2 TCP and 2 websocket sessions, 2 rooms, 2 requests | `SenderOrder`, `CommonOrder`: each hearer gets a sender's texts in order and never its own; two hearers agree on the order, also on that of texts of two senders |
| `chat_live` | 1 TCP and 1 websocket session, 2 requests, either may leave, server may die | `ImplementsRoomChat`: the detailed system implements `RoomChat` under the mapping `PlaceOf`, `open`, `Feed`; under fairness waits end, stopped sessions are unregistered, a text is heard by those it is for |
| `peer_safe` | 4 connections, a name each, a line from two of them; the other two may leave while not all have come | no lost wake-up (`SleepersAreDone`), no failing `unwrap` on a send and everybody reachable (`MapFitsPeers`), one conversation (`SameConversation`) |
| `peer_live` | 2 connections, 3 lines, both may leave, addresses may come back early | lines are read and channels drained (`LinesMoveOn`), leavers forgotten (`LeaversAreDropped`) |
| `tokio` | 3 connections from 2 addresses, 2 lines | `HearsTheRoom`: what a connection was sent is what the others have said since it came, in the order it was read; `UnwrapsSucceed`: only an address that comes back too early makes an `unwrap` fail |
| `ws_feed` | 2 connections, 1 name, 3 entries, the timers of both, and any of their writes may fail | one holder of a name; what is said after a connection has opened reaches it once, in order; an entry is saved by any connection whose own writes do not fail, whatever those of the other one do, and an open connection loses its timer only with a write of its own that fails (`EntriesAreSaved`) |
| `ws_file` | 1 connection that comes and goes, 5 entries in chunks of 2, torn and failing writes | the backlog is complete; the file is never a mixture of two histories; only a write that is cut short loses what was saved |
| `ws_refused` (violation) | 2 connections, 2 names | a name that its holder gave up by joining under another one is refused as existing |
| `console_safe` | 2 consoles, 2 rooms, 3 lines | `HeardAsTyped`: what a console shows was typed at another one, once, in order, for a room the hearer has entered; `AnswersInTurn`: the answers fit the questions in turn, and a list has every room joined before it was asked for |
| `console_live` | 2 consoles, 1 line, one of which may be killed, or cut off and come back | `EndsTogether`: no session ends under a client that runs and can be reached, a client that has gone is forgotten, one that was dropped while it was cut off ends; `QuestionsAreAnswered` |
| `parts` | the heartbeat with the code's times in seconds and pings as late as they may be for a peer that is kept | `SilentAtMost`, `SilentIsDropped`, `PunctualIsKept`: a silent peer is dropped, at the latest one check after the timeout; a punctual one is not |
| | the codec with bytes of 2 values, texts below, at and above what two of them hold | `DecodedAsSent`, `OnlyOversizeFails`, `AllDecoded`: what is decoded is what was encoded, up to the first oversize text or the death of the sender |
| | slices of up to 4 elements of 4 values, a stack of 3 | `ImplementsStackWithMin`: the minimum is that of the stack; `Sorts`: sorting gives the elements in order, and ends if no two are equal |
| | 5 bytes to echo, 5 connections to count | `OwnBytesOnly`, `LinesAreAnswered`: the peer gets its own bytes back, up to a line that is invalid or not ended; `CountsTheLive`: the count is right, and two clients share an id only after an older one has left |

`ConsoleChat`, `PeerChat`, `WsChat`, `TokioChat` and `ChatCodec` state a type invariant
(`TypeOK`, `CodecTypeOK`) that their runs do not list, as their other invariants say more;
it is proved, like those of `Heartbeat` and `MinStack`.

Why the bounds are enough: what can go wrong in the actor chat is an order of
messages of at most two sessions about one or two rooms, with a Disconnect or the
server's death between them; three requests allow join-say-list, join-join-list and
say-join-say with either order of two peers. Two hearers
that agree on the order of two senders take four sessions, which is why `chat_order` has
two of each kind; the texts are then one of each sender, or two of one, in a room that the
others are in from the start, and `Quitters` is empty, as a session that leaves only hears
no more. In `PeerChat` the limit of lines per tick is
1 instead of 10 and the socket takes one line, so that both limits are hit with two
lines. Two that speak and two that hear both are again four connections. For that crowd
`CrowdSpec` has a bound of its own: nobody leaves when all four are there, so that leaving is
explored among up to three; and each client has an address of its own, which makes no
difference while none comes back. In `ws_feed` the entries do not get old (`FeedSpec`): a
shorter backlog repeats less of what is under way, and what gets old is in `ws_file`. In `TokioChat` three
connections are a speaker, a hearer and one that comes back. `WsChat` needs two
connections for a name that is taken and for news that is under way when one opens; five
entries in chunks of two are two whole chunks and a part of a third. `ConsoleChat` needs two
users to be heard by each other, and three lines for a text in a room that both have entered, or
a list after two joins. (With two lines and a user who may be killed or cut off the same
invariants hold as well; that only ends sequences early, and with three lines there are
too many states.) For the liveness properties one line is enough, because they are
about a single question and about the end of a client, with one of the users free to leave
in the middle of it. Five bytes are two lines and a rest, in any pieces. `ChatCodec` with
bytes of two values has the limit of the length at four bytes instead of 65536.
Four elements are enough for the pivot to be at either end and in the middle of a
part, with a part on both sides.

### Disagreements and remarks

* `ws_refused` is a finding of `PROJECT.json`.
* In chatnew and tokio_chat, the map is keyed by the client's address, and the end of a
  connection removes whatever entry has its address. A client that resets its
  connection and comes back from the same address before the server has seen the
  reset loses its entry to the end of the old connection: in chatnew it stays and hears
  nobody (`EveryoneIsReachable` fails with `AddressReuse = TRUE`); in tokio_chat its
  task ends, and if it sends a line that is no text first, the `unwrap` at main.rs:102
  ends the server (`UnwrapsSucceed` without its condition fails).
  No property states that a client that comes back so early is served well, because it
  is not: those hazards are listed without one.
* ws_chat: a write of the file that fails logs an error and does not set the timer again
  (main.rs:181), so that a connection whose write has failed saves nothing for the rest of
  its life. `EntriesAreSaved` says what is left: the timers of the others.
* The comment on `hb` in actor_ws_tcp_chat/src/main.rs says it pings every second; the
  interval is five. The comment at chatnew/src/main.rs:180 wants at most
  `LINES_PER_TICK` lines from the client in a tick; the limit is on the channel.
* At the end of the console's input `read_line` returns `Ok(0)`: the older client goes on
  reading and says empty lines to its room without end (client/src/main.rs:42); that of
  `actor_ws_tcp_chat` drops them, and spins.
* A client that was cut off and dropped ends as soon as it can be reached again, and what
  its user has typed in the meantime is lost (`DroppedEnds`).
* tcp_echo: an invalid line, or a last line without a newline, takes the answers to earlier
  lines with it that have not gone out yet.
* `quicksort` does not end on `[2, 2]`, and underflows on an empty slice.

### Fairness

* `ActorChat!Fairness`: weak fairness of the server and of each session's own steps
  (taking a reply, delivering a text, stopping): an arbiter polls every actor that
  has something to do. Nothing makes a peer speak or leave, and the server need not
  die, so that these have none.
* `ConsoleChat!FairSpec`: the event loops of both programs poll whatever has something to
  do, and a timer that is armed fires; so that a client that does not ping is late in
  the end. Users, kills and the network are free.
* `Heartbeat!HbFairSpec`: timers fire, what arrived is handled, time passes.
* `PeerChat!FairSpec`: the runtime polls every notified task to the end of its poll.
  Clients are free.
* `WsChat!FairSpec`, and `FeedSpec` of `ws_feed`: the event loop hands out its signals and
  fires its timers. Whether a write then succeeds is open.
* `ChatCodec!CodecFairSpec`: bytes that are under way arrive, and FramedRead decodes what
  has arrived.
* `TcpEcho!EchoFairSpec`: the event loop goes on as long as the connection has something to
  do.
* `QuickSort!SortSpec`: a function that is running goes on.

Deadlock is not checked where the system may come to rest: all peers gone and
all requests made.

## 4. Proofs

The two chats with actors have one server and one way of talking to it, which is why
the proof of their conversation is one: `ChatSessions_proofs` shows that `TalkInv` survives
each handler of the server, and each of the few things a session may do with its phase,
its id, its replies and the server's mailbox (`StartTalk`, `ListTalk`, `SayTalk`, `LeaveTalk`, …).
`ActorChat_proofs` and `ConsoleChat_proofs` show of each of their actions which of these it is.

`ActorChat_proofs` proves, for any set of connections, rooms, ids and any number of
requests, with or without failures:

* `TypeCorrect`, `NoGhosts` (`[]RoomMembersRegistered`) and `RepliesAreForTheAsker`
  (`[]RepliesMatch`), all from `Invariance` (`[]IInv`; `IInv` is `TalkInv` and the types of the
  module's own variables).

`RoomMembersRegistered` is not inductive: Join inserts the id it is given without
asking whether it is registered. `TalkInv` adds why it is: a Message or Join in the
mailbox has a registered id and no Disconnect of that id in front of it
(`DisconnectIsLast`), because its sender posts nothing after a Disconnect; a session
that handles events has a registered id (`IdsOwned`); and the id comes with the one
reply to the one question a session can have open (`OneQuestion`). The proof has a
lemma per action; lemmas about sequences (elements of a tail and of an appended
sequence) and about the operators on the maps are stated once and cited.

The invariants about rooms, lists and orders rest on `IInv`:

* `AlwaysInOneRoom` (`[]OneRoomEach`) and `TextsSpokenInOwnRoom` (`[]SpokenInOwnRoom`) from
  `RoomInv`. A session changes its field `room` before the server has seen the Join, so
  that neither the field nor the registry can be compared with a Message directly. `RoomInv`
  says where the server *will* have a session at each place of the mailbox: in the room of
  the last Join of its id before that place, or else where it is now. That room is the
  one each Message there names, and the field's at the end of the mailbox.
* `ListsSeeJoins` (`[]ListSeesJoins`) from `ListInv`: a room that was answered is in the map,
  or its Join is in the mailbox in front of any question that comes later.
* `SendersInOrder` (`[]SenderOrder`) and `SameOrderForAll` (`[]CommonOrder`) from `OrderInv`: a
  session has one id, so that it gets one copy of a text; the numbers in the mailbox are
  above all that were posted before; what two peers were posted agrees in order.

`ActorsImplementChat` (`ImplementsRoomChat`) is the refinement:
under the conjunction of the invariants above each step of the actors is one action of
`RoomChat`, or leaves its variables as they are.

* The place of a peer is the one room its one id is in (`OneRoomEach`, `OneSession`), so that a
  `SendMessage` to a room is one text for each peer the abstract chat tells (`SentToRoom`),
  and `skip_id`, or the id's removal before the notice, is the abstract "others".
* Connect is `Arrive`, because a session that waits for its id is in no room yet, and its
  mailbox is live (`LiveMailboxes`). The first Disconnect of an id is `Leave`, because by then
  the session has stored the id. The second is invisible. A Message is `Say` in the peer's own
  room, which is what `RoomInv` is for. A Join is `Move`, with both notices at once.
* That a session stores its id, or gives up, or is told the rooms, is invisible; so is a
  delivery, which moves a text from one part of the feed to the other; its stop is `Hang`.

`ConsoleChat_proofs` proves, for any users, rooms and number of lines, with users that are
killed or cut off at any time:

* `ConsoleTypes` (`[]TypeOK`) from `Invariance` (`[]Conversing`, the types with `TalkInv`);
* `AnswersTurn` (`[]AnswersInTurn`). What is printed says nothing by itself: the questions and
  answers under way have to be counted in. `TurnInv` says that the questions a user has
  typed are those that were answered, each fitting its answer, followed by those that wait: the
  one the session waits for (`phase` is `listing`), those on the wire, those in the client's
  mailbox. Answered are the ones printed and on their way back. Whatever step moves a question
  or an answer leaves the concatenation as it is, or moves its border by one. Once the client
  has ended or its session has stopped, questions and answers are lost, and what is left
  says only that the answers are those to the first questions. `SeenInv` says that the rooms
  whose joins were answered are in every list that follows: they are in the map, or their Join
  is in the server's mailbox in front of any ListRooms that the session posts from now on, or
  the list that has come is already right;
* `TypedIsHeard` (`[]HeardAsTyped`), in two parts. *Once and in order*: `InLine(d, f)` is about
  six sequences, from what hearer d prints back over its stream, its session's mailbox, the
  server's mailbox, f's stream and f's mailbox to what f types. In each the numbers of f's lines
  increase, and all numbers in one are below those in the ones further back. A line moves from
  the head of one to the end of the next (`LinePasses`), and that two of them may belong to
  the same step, or the line to somebody else, or be lost on the way, takes away numbers only
  (`Fewer`). The server adds a line once to a mailbox, because a session is in one room at most
  once and has one id. *In the right room*: a command changes the room at the console first, then
  in the client's mailbox, the stream, the session's field, and last at the server.
  `RoomFits` therefore reads the two queues of commands that wait as a program that begins in
  the session's room: where it leads at the place of each line is the room that line was typed
  in (`Tracks`), and its end is where the user is now. A session that takes the head of a queue
  moves the beginning along (`TracksTail`), a client that passes a line on moves it from one
  to the other. Hence the room in a Message is the one the line was typed in (`MailInv`), the
  members of a room have all entered it (`Members`), and what a mailbox or a stream
  holds for a hearer was said in such a room, by somebody else (`Heard`). After a kill only the
  lines that are left need to fit. TLC checked both parts as invariants of an instance with two
  users, one of whom may be killed or cut off, before they were proved.

`Parts_proofs`, on `Heartbeat`, proves for all intervals, timeouts, periods and delays:

* `SilentPeerBound` (`[]SilentAtMost`): `hb` is never older than the timeout plus the
  time since the last check while the session is up;
* `PunctualPeerStays` (`[]PunctualIsKept`), over TCP and over a websocket, from
  `HbFollowsPings`, which relates the age of `hb` to the pings under way.

On `MinStack`, for all values and depths:

* `MinimaAlwaysMatch`: the invariant `StackInv`, that each node of the second list is
  the minimum of its value and those below; a push is the case of a new first node and
  the case of the nodes that move down by one, a pop that of the nodes that move up;
* `MinStackImplements`: the refinement of `StackWithMin`, step by step under that
  invariant.

On `ConnCount`, for any number of connections:

* `CountIsRight` (`[]CountsTheLive`), from `IdsInv`: an id is more than the number of older
  connections that are live, and at most the number of its own. If no older one has left,
  the first of two clients has the highest id it can have, and the second a higher one.

On `TcpEcho`, for any bytes in any pieces:

* `EchoesOwnBytes` (`[]OwnBytesOnly`) from `EchoInv`: the bytes
  that were read are those echoed, those of answers that have not gone out, and the buffer, one
  behind the other; and the first two end at the end of a line, with no invalid line in
  them. A decoded line moves that border up to the first newline of the buffer.

On `ChatCodec`, for any lengths, any number of messages and any number of values of a byte:

* `DecodesWhatWasSent` (`[]DecodedAsSent`) and `OnlyOversizeStops` (`[]OnlyOversizeFails`), from
  `CodecInv`: as long as nothing has failed there are places in the stream (the decoder's
  buffer and the bytes under way, as one) at which the frames of the messages that are not
  decoded begin, one after the other, and a stream that is shorter than they are has been
  cut. An encoded message is one place more, a decoded one moves the others up by the
  length of its frame. That a length below the limit comes out as it went in, and one above
  as a smaller one, is `CutLength`.

`PeerChat_proofs` proves, for any set of connections and addresses and any limits:

* `MapOfPeers` (`[]MapFitsPeers`) under `AddressReuse = FALSE`, as in the run: without it the
  property is false (see the remarks above). `MapInv`: entries fit the addresses, the
  addresses of peers that are there differ, and each has its entry;
* `NoLostWakeUp` (`[]SleepersAreDone`), with any `AddressReuse`. What a sleeping peer has
  nothing of is not inductive by itself: `WakeInv` says for each place in `poll` what the
  task has registered for by then, and that whatever came since has notified it;
* `OneConversation` (`[]SameConversation`), with any `AddressReuse`: each line that was not read
  yet is in nobody's feed, and a broadcast appends it to the feeds of all that hear it.

`WsChat_proofs` proves, for any connections, names, length of a chunk and bounds:

* `UniqueNames` (`[]NamesUnique`);
* `NoMixedHistories` (`[]FileIsBeginning`) and `SavedIsKept` (`SavesSurvive`, an action property)
  from `FileInv`: whatever ends in a closing bracket has a beginning of the log before
  it. A torn write over a longer file keeps that, because the file's old end and
  the new beginning are of one log;
* `FullBacklog` (`[]BacklogIsFull`): the arithmetic of `chunks(50).rev().take(2)` for every
  length of the log and of a chunk;
* `NewsReachesOnce` (`[]NewsOnce`), with `Numbered`: the log, the file and the queue have no
  numbers above `pushed`. Each action's effect on what a connection has heard and will
  hear is a lemma about `Only`.

`TokioChat_proofs` proves, for any connections, addresses and bounds:

* `UnwrapsNeverFail` (`[]UnwrapsSucceed`) from `MapInv`: as long as no address has come back too
  early, a task that runs has its entry, and entries are of tasks that run;
* `EverybodyHears` (`[]HearsTheRoom`), from `MapInv` and where each line comes from.

`Selection_proofs` has the lemmas about `Only` that `WsChat_proofs`, `TokioChat_proofs` and
`ConsoleChat_proofs` need (of an appended or
concatenated sequence, of a selection from a selection, of a head that is taken), and the
least element that `Parts_proofs` takes for the end of a line. `Only` is
defined by a recursive function; that the function is defined, and everything about it, is by
induction. An induction rule with a predicate as its parameter cannot be used by the
provers that are at hand; `SetInduction` and `SeqInduction` state the same of a *set* of numbers or
sequences, from the theorem that a set of natural numbers that is not empty has a least
element, and can be.

The assumptions are the named ASSUMEs of the modules, which TLC evaluates in every run,
and the hypothesis of `MapOfPeers`. Only model-checked:
`QuickSort`; and all liveness properties, for TLAPS has no rules
for fairness and ENABLED.

## 5. Plan

1. (done) The core: `ChatServer`, `ActorChat`, `RoomChat`, `Heartbeat`, first proofs.
2. (done) `PeerChat`.
3. (done) `WsChat`.
4. (done) `ChatCodec`.
5. (done) `TokioChat`.
6. (done) `MinStack`, `StackWithMin`, `QuickSort`.
7. (done) `ConsoleChat`, `TcpEcho`, `ConnCount`.
8. (done) Proofs: the safety of `ActorChat` and the refinement of `RoomChat`; the safety of `PeerChat`, `WsChat`, `TokioChat`, `ChatCodec`, and
   the small components; `ConsoleChat`.
9. The proof that is left: the safety part of `Sorts`.

## 6. Not modelled

* The actix, tokio and ws-rs runtimes, except for what the programs rely on: one
  message at a time, first in first out, `wait`, wake-ups.
* Static files, the HTML page, the Erlang and PHP test clients: no state of their own.
* `actor_chat`, whose handlers are those of `chat` line for line; and the queue of ws-rs when it
  is full, which only the library's settings decide.
* `mysql_demo`: its functions are called once each, from one thread; the state is in the
  database.
* `hello_world`, `my_library`, `iron_demo`, `sapper_demo`, `websocket_client`, `redis_demo`,
  and `learn`, `string`, `time`, `glib` of libfun: one call each, or printing.
