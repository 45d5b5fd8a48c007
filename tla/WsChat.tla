-------------------------------- MODULE WsChat --------------------------------
(***************************************************************************)
(* The chat with a history of ws_chat/src/main.rs: one event loop (ws-rs)   *)
(* that calls one handler at a time; a log of messages and a set of names   *)
(* that all handlers share; a file that every connection's timer writes the *)
(* whole log to, in place, and that the next start reads.                   *)
(*                                                                         *)
(* send() and broadcast() put a signal in the queue of the event loop,      *)
(* which hands it to the connections that are open by then.  Log entries    *)
(* are numbered in the order they are pushed.                               *)
(***************************************************************************)
EXTENDS Naturals, Sequences, SequencesExt, Selection

CONSTANTS
    Conns,          \* connections; one that has closed may be opened anew
    Names,          \* nicks
    NoName,         \* nick: None
    Chunk,          \* length of a chunk of the log: 50 in the code
    MaxLog,         \* bound: entries ever pushed
    MaxQueue,       \* bound: signals in the event loop's queue
    Savers,         \* bound: connections that stay for SAVE_TIME
    TornWrites,     \* bound: whether the process may die in the middle of a save
    SavesMayFail    \* bound: whether a write may fail (the disk is full)

\* The addressee of a broadcast.
All == "ALL"

ASSUME ConstantsAssumption ==
    /\ Chunk \in Nat \ {0} /\ MaxLog \in Nat /\ MaxQueue \in Nat /\ Savers \subseteq Conns
    /\ NoName \notin Names /\ All \notin Conns
    /\ TornWrites \in BOOLEAN /\ SavesMayFail \in BOOLEAN

VARIABLES
    live,         \* open connections
    nick,         \* each handler's nick
    users,        \* names that are taken
    log,          \* message_log
    old,          \* entries up to this one were sent ten minutes ago or more
    file,         \* the cells of the file: an entry each, and the closing bracket
    armed,        \* connections with a SAVE timer
    queue,        \* signals of the event loop
    heard,        \* entries each connection was handed since it opened
    opened,       \* number of the last entry when a connection opened
    pushed        \* number of the last entry

vars == <<live, nick, users, log, old, file, armed, queue, heard, opened, pushed>>

Entries == 1..MaxLog
End == 0
NameTaken == 0
Unparsed == MaxLog + 1
Errors == {NameTaken, Unparsed}
Signal(to, n) == [to |-> to, n |-> n]
Signals == [to : Conns \cup {All}, n : Entries \cup Errors]

TypeOK ==
    /\ live \subseteq Conns
    /\ nick \in [Conns -> Names \cup {NoName}]
    /\ users \subseteq Names
    /\ log \in Seq(Entries)
    /\ old \in 0..MaxLog
    /\ file \in Seq(Entries \cup {End})
    /\ armed \subseteq live
    /\ queue \in Seq(Signals)
    /\ heard \in [Conns -> Seq(Entries)]
    /\ opened \in [Conns -> 0..MaxLog]
    /\ pushed \in 0..MaxLog

Init ==
    /\ live = {}
    /\ nick = [c \in Conns |-> NoName]
    /\ users = {}
    /\ log = <<>>
    /\ old = 0
    /\ file = <<>>
    /\ armed = {}
    /\ queue = <<>>
    /\ heard = [c \in Conns |-> <<>>]
    /\ opened = [c \in Conns |-> 0]
    /\ pushed = 0

-----------------------------------------------------------------------------
\* Room for n signals, a bound of the model.
Fits(n) == Len(queue) + n <= MaxQueue

\* A new entry: pushed to the log and broadcast.
Publish ==
    /\ pushed < MaxLog
    /\ Fits(1)
    /\ pushed' = pushed + 1
    /\ log' = Append(log, pushed + 1)
    /\ queue' = Append(queue, Signal(All, pushed + 1))

\* An error goes to the one connection that caused it.
Complain(c, error) ==
    /\ Fits(1)
    /\ queue' = Append(queue, Signal(c, error))
    /\ UNCHANGED <<log, pushed>>

\* Variant: only the last chunk, which may be short.
LastChunk(l) ==
    LET chunks == (Len(l) + Chunk - 1) \div Chunk
    IN  SubSeq(l, IF chunks > 1 THEN (chunks - 1) * Chunk + 1 ELSE 1, Len(l))

\* chunks(50).rev().take(2), in the order of the log.
LastTwoChunks(l) ==
    LET chunks == (Len(l) + Chunk - 1) \div Chunk
    IN  SubSeq(l, IF chunks > 2 THEN (chunks - 2) * Chunk + 1 ELSE 1, Len(l))

\* What a newcomer is sent: nothing that is ten minutes old.
Backlog == Only(LastTwoChunks(log), (old + 1)..MaxLog)

OnOpen(c) ==
    /\ c \notin live
    /\ Fits(Len(Backlog))
    /\ live' = live \cup {c}
    /\ armed' = armed \cup {c}
    /\ queue' = queue \o [i \in 1..Len(Backlog) |-> Signal(c, Backlog[i])]
    /\ heard' = [heard EXCEPT ![c] = <<>>]
    /\ opened' = [opened EXCEPT ![c] = pushed]
    /\ UNCHANGED <<nick, users, log, old, file, pushed>>

\* A Message is logged and broadcast, whoever it says it is from.
OnChat(c) ==
    /\ c \in live
    /\ Publish
    /\ UNCHANGED <<live, nick, users, old, file, armed, heard, opened>>

\* Variant: the set of users is not looked at.
NeverInUse(name) == FALSE

\* users.contains()
InUse(name) == name \in users

\* A Join of a name that is taken.
Refuse(c, name) ==
    /\ c \in live
    /\ InUse(name)
    /\ Complain(c, NameTaken)
    /\ UNCHANGED <<live, nick, users, old, file, armed, heard, opened>>

\* What does not parse.
OnGarbage(c) ==
    /\ c \in live
    /\ Complain(c, Unparsed)
    /\ UNCHANGED <<live, nick, users, old, file, armed, heard, opened>>

\* A connection may join again under another name; the first stays taken.
Welcome(c, name) ==
    /\ c \in live
    /\ ~InUse(name)
    /\ users' = users \cup {name}
    /\ nick' = [nick EXCEPT ![c] = name]
    /\ Publish
    /\ UNCHANGED <<live, old, file, armed, heard, opened>>

OnJoin(c, name) == Refuse(c, name) \/ Welcome(c, name)

\* What is left in the queue when c is gone.
WithoutSignalsTo(c) == Only(queue, {s \in Signals : s.to # c})

\* The event loop forgets the connection, its timers and signals.
Forget(c) ==
    /\ live' = live \ {c}
    /\ armed' = armed \ {c}
    /\ nick' = [nick EXCEPT ![c] = NoName]
    /\ heard' = [heard EXCEPT ![c] = <<>>]
    /\ opened' = [opened EXCEPT ![c] = 0]
    /\ UNCHANGED <<old, file>>

\* Variant: the others are not told.
CloseSilently(c) ==
    /\ c \in live /\ nick[c] # NoName
    /\ users' = users \ {nick[c]}
    /\ pushed < MaxLog
    /\ pushed' = pushed + 1
    /\ log' = Append(log, pushed + 1)
    /\ queue' = WithoutSignalsTo(c)
    /\ Forget(c)

\* A leave message is logged and broadcast, and the name is free again.
CloseNamed(c) ==
    /\ c \in live /\ nick[c] # NoName
    /\ users' = users \ {nick[c]}
    /\ pushed < MaxLog
    /\ pushed' = pushed + 1
    /\ log' = Append(log, pushed + 1)
    /\ queue' = Append(WithoutSignalsTo(c), Signal(All, pushed + 1))
    /\ Forget(c)

CloseNameless(c) ==
    /\ c \in live /\ nick[c] = NoName
    /\ queue' = WithoutSignalsTo(c)
    /\ Forget(c)
    /\ UNCHANGED <<users, log, pushed>>

OnClose(c) == CloseNamed(c) \/ CloseNameless(c)

-----------------------------------------------------------------------------
(* The file *)

\* The log as it is written: its entries and the closing bracket.
Cells == Append(log, End)

\* The first k cells are written over the file, which is not truncated.
WriteOver(k) ==
    [i \in 1..(IF Len(file) < k THEN k ELSE Len(file)) |->
        IF i <= k THEN Cells[i] ELSE file[i]]

\* Variant: the timer is not set again.
Disarm(c) == armed' = armed \ {c}

\* timeout(SAVE_TIME, SAVE)
Rearm(c) == armed' = armed

Save(c) ==
    /\ c \in armed
    /\ file' = WriteOver(Len(Cells))
    /\ Rearm(c)
    /\ UNCHANGED <<live, nick, users, log, old, queue, heard, opened, pushed>>

\* The error is logged; this connection's timer is not set again.
SaveFails(c) ==
    /\ SavesMayFail
    /\ c \in armed
    /\ \E k \in 0..Len(log) : file' = WriteOver(k)
    /\ armed' = armed \ {c}
    /\ UNCHANGED <<live, nick, users, log, old, queue, heard, opened, pushed>>

OnTimeout(c) == c \in Savers /\ (Save(c) \/ SaveFails(c))

\* A file is read if it is one bracketed list and nothing behind it.
Parses(f) ==
    f # <<>> /\ \A i \in DOMAIN f : f[i] = End <=> i = Len(f)

\* from_reader(...).unwrap_or(an empty log)
Loaded(f) == IF Parses(f) THEN Front(f) ELSE <<>>

\* Variant: a new process starts with an empty log.
StartLogEmpty(f) == <<>>

StartLog(f) == Loaded(f)

\* The process dies and main runs anew.
StartFrom(f) ==
    /\ live' = {}
    /\ nick' = [c \in Conns |-> NoName]
    /\ users' = {}
    /\ log' = StartLog(f)
    /\ file' = f
    /\ armed' = {}
    /\ queue' = <<>>
    /\ heard' = [c \in Conns |-> <<>>]
    /\ opened' = [c \in Conns |-> 0]
    /\ UNCHANGED <<old, pushed>>

Restart == StartFrom(file)

RestartAfterTornSave ==
    /\ TornWrites
    /\ armed \cap Savers # {}
    /\ \E k \in 0..Len(log) : StartFrom(WriteOver(k))

-----------------------------------------------------------------------------
(* The event loop hands out a signal; time passes *)

\* The connections that hear a signal; errors are no part of the conversation.
Reaches(s) == IF s.n \in Errors THEN {} ELSE IF s.to = All THEN live ELSE {s.to}

Dispatch ==
    /\ queue # <<>>
    /\ queue' = Tail(queue)
    /\ heard' = [c \in Conns |->
                    IF c \in Reaches(Head(queue)) THEN Append(heard[c], Head(queue).n)
                    ELSE heard[c]]
    /\ UNCHANGED <<live, nick, users, log, old, file, armed, opened, pushed>>

Age ==
    /\ old' \in (old + 1)..pushed
    /\ UNCHANGED <<live, nick, users, log, file, armed, queue, heard, opened, pushed>>

Handlers(c) ==
    \/ OnOpen(c)
    \/ OnChat(c)
    \/ OnGarbage(c)
    \/ \E name \in Names : OnJoin(c, name)
    \/ OnClose(c)

Next ==
    \/ \E c \in Conns : Handlers(c) \/ OnTimeout(c)
    \/ Dispatch
    \/ Restart
    \/ RestartAfterTornSave
    \/ Age

Spec == Init /\ [][Next]_vars

\* The loop runs: signals are handed out and timers fire.  Nobody has to come,
\* speak or go.
FairSpec == Spec /\ WF_vars(Dispatch) /\ \A c \in Conns : WF_vars(OnTimeout(c))

-----------------------------------------------------------------------------
(* Properties *)

\* Two connections never have the same nick, and a nick is taken as long as its
\* connection is open (join and on_close).
NamesUnique ==
    \A c \in Conns :
        nick[c] # NoName =>
            /\ nick[c] \in users
            /\ \A d \in Conns \ {c} : nick[d] # nick[c]

\* The entries that signals carry.
Carried(signals) == [i \in 1..Len(signals) |-> signals[i].n]

\* The signals that bring entries to a connection.
News(c) == [to : {All, c}, n : Entries]

\* What a connection has got, and what is on its way to it.
Feed(c) == heard[c] \o Carried(Only(queue, News(c)))

\* Whatever is pushed after a connection has opened reaches it once, in order,
\* whatever the backlog it was sent, and the broadcasts that were under way when
\* it opened, repeat (on_open, on_message, on_close).
NewsOnce ==
    \A c \in live :
        Only(Feed(c), (opened[c] + 1)..MaxLog)
            = [i \in 1..(pushed - opened[c]) |-> opened[c] + i]

\* A newcomer is sent all of the last Chunk entries that are not old: "We take
\* two chunks because one chunk might not be a full 50".
BacklogIsFull ==
    \A i \in DOMAIN log :
        i > Len(log) - Chunk /\ log[i] > old =>
            \E j \in DOMAIN Backlog : Backlog[j] = log[i]

\* Histories are not mixed: what a new process would read from the file, also
\* after torn saves and over their remains, is a beginning of the log.
FileIsBeginning == IsPrefix(Loaded(file), log)

\* What was saved stays in the file, through all saves and restarts; only a
\* write that is cut short can take it away (on_timeout, main).
SavesSurvive ==
    [][\/ RestartAfterTornSave \/ \E c \in Conns : SaveFails(c)
       \/ IsPrefix(Loaded(file), Loaded(file'))]_vars

\* An entry gets into the file as long as one connection that is open has its timer,
\* whatever writes of other connections fail or come between; and an open connection
\* loses its timer only with a write of its own that fails (on_open, on_timeout).
EntriesAreSaved ==
    /\ \A c \in Savers, n \in Entries :
          c \in armed /\ (\E i \in DOMAIN log : log[i] = n) ~>
              \/ \E i \in DOMAIN file : file[i] = n
              \/ c \notin armed
    /\ [][\A c \in Conns : c \in live' /\ c \notin armed' =>
              c \in live \ armed \/ SaveFails(c)]_vars

\* "A user by that name already exists.": a refused name is some open
\* connection's nick.
RefusalsAreTrue ==
    [][\A c \in Conns, name \in Names :
          Refuse(c, name) => \E d \in live : nick[d] = name]_vars

=============================================================================
