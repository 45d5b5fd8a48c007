---------------------------- MODULE TokioChat_proofs ----------------------------
(***************************************************************************)
(* Theorems about TokioChat, for any number of connections, addresses and    *)
(* lines: when the unwrap()s succeed, and that everybody hears the room.     *)
(***************************************************************************)
EXTENDS TokioChat, Selection_proofs

-----------------------------------------------------------------------------
(* Steps and types *)

Items == Lines \cup {Complaint}

\* What Next can do, action by action.
LEMMA Steps ==
    ASSUME NEW P, [Next]_vars, UNCHANGED vars => P,
           \A c \in Conns :
               /\ \A a \in Addrs : Connect(c, a) /\ UNCHANGED panicked => P
               /\ Send(c) /\ UNCHANGED panicked => P
               /\ Leave(c) /\ UNCHANGED panicked => P
               /\ ClientReads(c) /\ UNCHANGED panicked => P
               /\ ~panicked /\ Poll(c) => P,
           Accept /\ UNCHANGED panicked => P
    PROVE  P
BY DEF Next, Outside

LEMMA SomeComplaints ==
    ASSUME NEW s, Len(s) \in Nat
    PROVE  [i \in 1..Len(s) |-> Complaint] \in Seq(Items)
<1>1. PICK n \in Nat : n = Len(s)
  OBVIOUS
<1>2. [i \in 1..n |-> Complaint] \in [1..n -> Items]
  BY DEF Items
<1> QED BY <1>1, <1>2, SeqDef

\* What a poll of c puts in the channel of d.
Given(c, d) ==
    (IF d \in OtherEntries(c) THEN Only(sock[c], Texts) ELSE <<>>)
        \o (IF d = connections[addr[c]]
            THEN [i \in 1..Len(Only(sock[c], Garbage)) |-> Complaint]
            ELSE <<>>)

LEMMA GivenProperties ==
    ASSUME TypeOK, NEW c \in Conns, NEW d \in Conns
    PROVE  /\ Given(c, d) \in Seq(Items)
           /\ Channels(c)[d] = rx[d] \o Given(c, d)
           /\ Channels(c)[d] \in Seq(Items)
<1>1. PICK x \in Seq(Items) :
        x = IF d \in OtherEntries(c) THEN Only(sock[c], Texts) ELSE <<>>
  <2>1. sock[c] \in Seq(Lines)
    BY DEF TypeOK
  <2>2. Only(sock[c], Texts) \in Seq(Lines \cap Texts)
    BY <2>1, OnlyType
  <2>3. Lines \cap Texts \subseteq Items
    BY DEF Items
  <2>4. Only(sock[c], Texts) \in Seq(Items)
    BY <2>2, <2>3, SeqMonotonic
  <2> QED BY <2>4, EmptySeq
<1>2. PICK y \in Seq(Items) :
        y = IF d = connections[addr[c]]
            THEN [i \in 1..Len(Only(sock[c], Garbage)) |-> Complaint]
            ELSE <<>>
  <2>1. sock[c] \in Seq(Lines)
    BY DEF TypeOK
  <2>2. Only(sock[c], Garbage) \in Seq(Lines \cap Garbage)
    BY <2>1, OnlyType
  <2>3. Len(Only(sock[c], Garbage)) \in Nat
    BY <2>2, LenProperties
  <2> QED BY <2>3, SomeComplaints, EmptySeq
<1>3. PICK r \in Seq(Items) : r = rx[d]
  BY DEF TypeOK, Items
<1>4. Channels(c)[d] = (r \o x) \o y
  BY <1>1, <1>2, <1>3 DEF Channels
<1>5. PICK g \in Seq(Items) : g = x \o y
  BY ConcatProperties
<1>6. r \o (x \o y) = (r \o x) \o y
  BY Regroup, SMTT(30)
<1>7. Given(c, d) = g
  BY <1>1, <1>2, <1>5 DEF Given
<1>8. r \o g \in Seq(Items)
  BY ConcatProperties
<1> QED BY <1>3, <1>4, <1>5, <1>6, <1>7, <1>8

LEMMA ChannelsType ==
    ASSUME TypeOK, NEW c \in Conns PROVE Channels(c) \in [Conns -> Seq(Items)]
<1>1. \A d \in Conns : Channels(c)[d] \in Seq(Items)
  BY GivenProperties
<1>2. PICK f : f = Channels(c)
  OBVIOUS
<1>3. DOMAIN f = Conns /\ f = [d \in Conns |-> f[d]]
  BY <1>2 DEF Channels
<1> QED BY <1>1, <1>2, <1>3

\* How much of the channel a poll writes.
LEMMA TakesProperties ==
    ASSUME TypeOK, NEW c \in Conns, NEW n \in Nat
    PROVE  Takes(c, n) \in 0..n /\ unread[c] + Takes(c, n) \in 0..SockCap
<1>1. unread[c] \in 0..SockCap
  BY DEF TypeOK
<1> QED BY <1>1, ConstantsAssumption DEF Takes

\* A poll that goes on reading moves what it writes from the channel to the client.
LEMMA WriterMoves ==
    ASSUME TypeOK, NEW c \in Conns, WriterRuns(c)
    PROVE  /\ heard' \in [Conns -> Seq(Items)] /\ rx' \in [Conns -> Seq(Items)]
           /\ unread' \in [Conns -> 0..SockCap]
           /\ heard'[c] \o rx'[c] = heard[c] \o Channels(c)[c]
           /\ \A d \in Conns \ {c} : heard'[d] = heard[d] /\ rx'[d] = Channels(c)[d]
           /\ \/ task' = task /\ connections' = connections
              \/ /\ task' = [task EXCEPT ![c] = "done"] /\ connections' = Removed(c)
                 /\ TxDropped(c)
<1>1. PICK all \in Seq(Items) : all = Channels(c)[c]
  BY GivenProperties
<1>2. PICK h \in Seq(Items) : h = heard[c]
  BY DEF TypeOK, Items
<1>3. PICK n \in 0..Len(all) : n = Takes(c, Len(all)) /\ unread[c] + n \in 0..SockCap
  BY TakesProperties, LenProperties
<1>4. PICK a \in Seq(Items), b \in Seq(Items) :
          a = SubSeq(all, 1, n) /\ b = SubSeq(all, n + 1, Len(all)) /\ a \o b = all
  <2>1. /\ SubSeq(all, 1, n) \in Seq(Items) /\ SubSeq(all, n + 1, Len(all)) \in Seq(Items)
        /\ SubSeq(all, 1, n) \o SubSeq(all, n + 1, Len(all)) = all
    BY CutInTwo
  <2> QED BY <2>1
<1>5. PICK ha \in Seq(Items) : ha = h \o a
  BY ConcatProperties
<1>6. /\ heard' = [heard EXCEPT ![c] = h \o a]
      /\ rx' = [Channels(c) EXCEPT ![c] = b]
      /\ unread' = [unread EXCEPT ![c] = unread[c] + n]
  BY <1>1, <1>2, <1>3, <1>4 DEF WriterRuns
<1>7. Channels(c) \in [Conns -> Seq(Items)] /\ heard \in [Conns -> Seq(Items)]
  BY ChannelsType DEF TypeOK, Items
<1>8. h \o (a \o b) = (h \o a) \o b
  BY Regroup, SMTT(30)
<1>9. /\ heard' \in [Conns -> Seq(Items)] /\ heard'[c] = ha
      /\ \A d \in Conns \ {c} : heard'[d] = heard[d]
  BY <1>5, <1>6, <1>7
<1>10. /\ rx' \in [Conns -> Seq(Items)] /\ rx'[c] = b
       /\ \A d \in Conns \ {c} : rx'[d] = Channels(c)[d]
  BY <1>6, <1>7
<1>11. unread' \in [Conns -> 0..SockCap]
  BY <1>3, <1>6 DEF TypeOK
<1>12. \/ task' = task /\ connections' = connections
       \/ task' = [task EXCEPT ![c] = "done"] /\ connections' = Removed(c) /\ TxDropped(c)
  BY DEF WriterRuns
<1> QED BY <1>1, <1>2, <1>4, <1>5, <1>8, <1>9, <1>10, <1>11, <1>12

\* What a poll does to the others, and to its own task.
LEMMA PollMoves ==
    ASSUME TypeOK, NEW c \in Conns, Poll(c)
    PROVE  /\ heard' \in [Conns -> Seq(Items)] /\ rx' \in [Conns -> Seq(Items)]
           /\ unread' \in [Conns -> 0..SockCap]
           /\ \A d \in Conns : task'[d] = "open" =>
                 heard'[d] \o rx'[d] = heard[d] \o Channels(c)[d]
           /\ \A d \in Conns \ {c} : heard'[d] = heard[d] /\ rx'[d] = Channels(c)[d]
           /\ \/ task' = task /\ connections' = connections
              \/ task' = [task EXCEPT ![c] = "done"] /\ connections' = Removed(c)
<1>1. CASE ReaderEnds(c)
  <2>1. Channels(c) \in [Conns -> Seq(Items)] /\ heard \in [Conns -> Seq(Items)]
    BY ChannelsType DEF TypeOK, Items
  <2>2. /\ rx' \in [Conns -> Seq(Items)] /\ heard' = heard
        /\ \A d \in Conns \ {c} : rx'[d] = Channels(c)[d]
    BY <1>1, <2>1, EmptySeq DEF ReaderEnds
  <2>3. task' = [task EXCEPT ![c] = "done"] /\ connections' = Removed(c) /\ task'[c] # "open"
    BY <1>1 DEF ReaderEnds, TypeOK
  <2> QED BY <1>1, <2>1, <2>2, <2>3 DEF ReaderEnds, TypeOK
<1>2. CASE WriterRuns(c)
  BY <1>2, WriterMoves
<1> QED BY <1>1, <1>2 DEF Poll

LEMMA InitTypeOK == Init => TypeOK
<1>1. <<>> \in Seq(Conns) /\ <<>> \in Seq(Lines) /\ <<>> \in Seq(Lines \cup {Complaint})
  BY EmptySeq
<1> SUFFICES ASSUME Init PROVE TypeOK
  OBVIOUS
<1>2. /\ connections \in [Addrs -> Conns \cup {NoConn}]
      /\ task \in [Conns -> {"none", "backlog", "open", "done"}]
      /\ addr \in [Conns -> Addrs \cup {NoAddr}]
      /\ link \in [Conns -> {"open", "fin", "reset"}]
  BY DEF Init
<1>3. unread \in [Conns -> 0..SockCap] /\ since \in [Conns -> Nat] /\ sent \in 0..MaxLines
  BY ConstantsAssumption DEF Init
<1>4. /\ sock \in [Conns -> Seq(Lines)]
      /\ rx \in [Conns -> Seq(Lines \cup {Complaint})]
      /\ heard \in [Conns -> Seq(Lines \cup {Complaint})]
  BY <1>1 DEF Init
<1> QED BY <1>1, <1>2, <1>3, <1>4 DEF Init, TypeOK

LEMMA TypeOKStep == ASSUME TypeOK, [Next]_vars PROVE TypeOK'
<1>1. CASE UNCHANGED vars
  BY <1>1 DEF vars, clientVars, TypeOK
<1>2. ASSUME NEW c \in Conns, NEW a \in Addrs, Connect(c, a), UNCHANGED panicked PROVE TypeOK'
  <2>1. backlog' \in Seq(Conns)
    BY <1>2, AppendProperties DEF Connect, TypeOK
  <2>2. reused' \in BOOLEAN
    BY <1>2, Zenon DEF Connect
  <2>3. task' \in [Conns -> {"none", "backlog", "open", "done"}]
        /\ addr' \in [Conns -> Addrs \cup {NoAddr}]
    BY <1>2 DEF Connect, TypeOK
  <2> QED BY <1>2, <2>1, <2>2, <2>3 DEF Connect, TypeOK
<1>3. ASSUME NEW c \in Conns, Send(c), UNCHANGED panicked PROVE TypeOK'
  <2>1. PICK utf8 \in BOOLEAN :
          sock' = [sock EXCEPT ![c] = Append(sock[c], [from |-> c, n |-> sent + 1, utf8 |-> utf8])]
    BY <1>3 DEF Send
  <2>2. [from |-> c, n |-> sent + 1, utf8 |-> utf8] \in Lines /\ sent' \in 0..MaxLines
    BY <1>3, ConstantsAssumption DEF Send, TypeOK, Lines
  <2>3. sock' \in [Conns -> Seq(Lines)]
    BY <2>1, <2>2, AppendProperties DEF TypeOK
  <2> QED BY <1>3, <2>2, <2>3 DEF Send, TypeOK
<1>4. ASSUME NEW c \in Conns, Leave(c), UNCHANGED panicked PROVE TypeOK'
  <2>1. sock' \in [Conns -> Seq(Lines)]
    <3>1. sock \in [Conns -> Seq(Lines)] /\ <<>> \in Seq(Lines)
      BY EmptySeq DEF TypeOK
    <3>2. [sock EXCEPT ![c] = <<>>] \in [Conns -> Seq(Lines)]
      BY <3>1
    <3> QED BY <1>4, <3>1, <3>2 DEF Leave
  <2>2. link' \in [Conns -> {"open", "fin", "reset"}]
    BY <1>4 DEF Leave, TypeOK
  <2> QED BY <1>4, <2>1, <2>2 DEF Leave, TypeOK
<1>5. ASSUME NEW c \in Conns, ClientReads(c), UNCHANGED panicked PROVE TypeOK'
  <2>1. unread' \in [Conns -> 0..SockCap]
    BY <1>5, ConstantsAssumption DEF ClientReads, TypeOK
  <2> QED BY <1>5, <2>1 DEF ClientReads, clientVars, TypeOK
<1>6. CASE Accept /\ UNCHANGED panicked
  <2>1. PICK c \in Conns : c = Head(backlog)
    BY <1>6, HeadTailProperties DEF Accept, TypeOK
  <2>2. backlog' \in Seq(Conns)
    BY <1>6, HeadTailProperties DEF Accept, TypeOK
  <2>3. Len(said) \in Nat
    BY LenProperties DEF TypeOK
  <2>4. /\ connections' \in [Addrs -> Conns \cup {NoConn}]
        /\ task' \in [Conns -> {"none", "backlog", "open", "done"}]
        /\ since' \in [Conns -> Nat]
    BY <1>6, <2>1, <2>3 DEF Accept, TypeOK
  <2> QED BY <1>6, <2>2, <2>4 DEF Accept, clientVars, TypeOK
<1>7. ASSUME NEW c \in Conns, Poll(c) PROVE TypeOK'
  <2>1. /\ heard' \in [Conns -> Seq(Items)] /\ rx' \in [Conns -> Seq(Items)]
        /\ unread' \in [Conns -> 0..SockCap]
    BY <1>7, PollMoves
  <2>2. Removed(c) \in [Addrs -> Conns \cup {NoConn}]
    BY DEF Removed, TypeOK
  <2>3. /\ connections' \in [Addrs -> Conns \cup {NoConn}]
        /\ task' \in [Conns -> {"none", "backlog", "open", "done"}]
    <3>1. \/ task' = task /\ connections' = connections
          \/ task' = [task EXCEPT ![c] = "done"] /\ connections' = Removed(c)
      BY <1>7, PollMoves
    <3> QED BY <2>2, <3>1 DEF TypeOK
  <2>4. sock' \in [Conns -> Seq(Lines)]
    BY <1>7, EmptySeq DEF Poll, TypeOK
  <2>5. said' \in Seq(Lines)
    <3>1. PICK s \in Seq(Lines) : s = sock[c]
      BY DEF TypeOK
    <3> QED BY <1>7, <3>1, ConcatProperties DEF Poll, TypeOK
  <2>6. panicked' \in BOOLEAN
    BY <1>7, Zenon DEF Poll, UnwrapFails
  <2> QED BY <1>7, <2>1, <2>3, <2>4, <2>5, <2>6 DEF Poll, clientVars, Items, TypeOK
<1> QED BY <1>1, <1>2, <1>3, <1>4, <1>5, <1>6, <1>7, Steps, Zenon

\* The types are right in every state; TypeOK is inductive as it stands.
THEOREM TypeCorrectness == Spec => []TypeOK
<1> QED BY InitTypeOK, TypeOKStep, PTL DEF Spec

-----------------------------------------------------------------------------
(* The map *)

\* Whoever has come has an address.
Addressed == \A c \in Conns : task[c] # "none" => addr[c] \in Addrs

\* The listener has each connection that waits once.
Waiting ==
    /\ \A i \in 1..Len(backlog) : task[backlog[i]] = "backlog"
    /\ \A i, j \in 1..Len(backlog) : backlog[i] = backlog[j] => i = j

\* An entry is that of a task that runs, and of a client with its address.
EntriesOpen ==
    \A a \in Addrs : connections[a] # NoConn =>
        task[connections[a]] = "open" /\ addr[connections[a]] = a

\* As long as no address has come back too early, no two tasks that run, or will,
\* share one, and each that runs has its entry.
Present(c) == task[c] \in {"backlog", "open"}

AddressesDiffer ==
    ~reused => \A c, d \in Conns :
        Present(c) /\ Present(d) /\ addr[c] = addr[d] => c = d

EntriesThere ==
    ~reused => \A c \in Conns : task[c] = "open" => connections[addr[c]] = c

MapInv == Addressed /\ Waiting /\ EntriesOpen /\ AddressesDiffer /\ EntriesThere

LEMMA InitMapInv == Init => MapInv
<1>1. Len(<<>>) = 0
  OBVIOUS
<1> QED BY <1>1, ConstantsAssumption
      DEF Init, MapInv, Addressed, Waiting, EntriesOpen, AddressesDiffer, EntriesThere, Present

LEMMA MapInvStep == ASSUME TypeOK, MapInv, [Next]_vars PROVE MapInv'
<1>1. CASE UNCHANGED <<connections, backlog, task, addr, reused>>
  BY <1>1 DEF MapInv, Addressed, Waiting, EntriesOpen, AddressesDiffer, EntriesThere, Present
<1>2. ASSUME NEW c \in Conns, NEW a \in Addrs, Connect(c, a) PROVE MapInv'
  <2>1. /\ task[c] = "none" /\ connections' = connections
        /\ \A d \in Conns : task'[d] = IF d = c THEN "backlog" ELSE task[d]
        /\ \A d \in Conns : addr'[d] = IF d = c THEN a ELSE addr[d]
        /\ backlog' = Append(backlog, c)
    BY <1>2 DEF Connect, TypeOK
  <2>2. PICK n \in Nat : n = Len(backlog) /\ \A i \in 1..n : backlog[i] \in Conns
    BY LenProperties, ElementOfSeq DEF TypeOK
  <2>3. PICK b \in Seq(Conns) : b = Append(backlog, c)
    BY AppendProperties DEF TypeOK
  <2>4. Len(b) = n + 1 /\ b[n + 1] = c /\ \A i \in 1..n : b[i] = backlog[i]
    BY <2>2, <2>3, AppendProperties DEF TypeOK
  <2>5. \A i \in 1..n : backlog[i] # c
    BY <2>1, <2>2 DEF MapInv, Waiting
  <2>6. Waiting'
    <3>1. ASSUME NEW i \in 1..(n + 1) PROVE task'[b[i]] = "backlog"
      BY <2>1, <2>2, <2>4, <2>5, <3>1 DEF MapInv, Waiting
    <3>2. ASSUME NEW i \in 1..(n + 1), NEW j \in 1..(n + 1), b[i] = b[j] PROVE i = j
      BY <2>2, <2>4, <2>5, <3>2 DEF MapInv, Waiting
    <3> QED BY <2>1, <2>3, <2>4, <3>1, <3>2 DEF Waiting
  <2>7. Addressed' /\ EntriesOpen'
    <3>1. Addressed'
      BY <2>1 DEF MapInv, Addressed
    <3>2. ASSUME NEW e \in Addrs, connections[e] # NoConn
          PROVE  task'[connections[e]] = "open" /\ addr'[connections[e]] = e
      <4>1. connections[e] \in Conns /\ task[connections[e]] = "open" /\ addr[connections[e]] = e
        BY <3>2 DEF MapInv, EntriesOpen, TypeOK
      <4>2. connections[e] # c
        BY <2>1, <4>1
      <4> QED BY <2>1, <4>1, <4>2
    <3> QED BY <2>1, <3>1, <3>2 DEF EntriesOpen
  <2>8. AddressesDiffer' /\ EntriesThere'
    <3> SUFFICES ASSUME ~reused' PROVE /\ \A d, e \in Conns : Present(d)' /\ Present(e)' /\ addr'[d] = addr'[e] => d = e
                                       /\ \A d \in Conns : task'[d] = "open" => connections'[addr'[d]] = d
      BY DEF AddressesDiffer, EntriesThere
    <3>1. ~reused /\ \A d \in Conns : ~(addr[d] = a /\ task[d] # "done")
      BY <1>2 DEF Connect, Users
    <3>2. \A d, e \in Conns : Present(d) /\ Present(e) /\ addr[d] = addr[e] => d = e
      BY <3>1 DEF MapInv, AddressesDiffer
    <3>3. \A d \in Conns : Present(d)' <=> (d = c \/ Present(d))
      BY <2>1 DEF Present
    <3>4. \A d \in Conns : Present(d) => task[d] # "done" /\ addr[d] # a
      BY <3>1 DEF Present
    <3>5. \A d, e \in Conns : Present(d)' /\ Present(e)' /\ addr'[d] = addr'[e] => d = e
      BY <2>1, <3>2, <3>3, <3>4
    <3>6. \A d \in Conns : task'[d] = "open" => connections'[addr'[d]] = d
      BY <2>1, <3>1 DEF MapInv, EntriesThere
    <3> QED BY <3>5, <3>6
  <2> QED BY <2>6, <2>7, <2>8 DEF MapInv
<1>3. CASE Accept
  <2>1. PICK n \in Nat : n = Len(backlog) /\ n # 0 /\ \A i \in 1..n : backlog[i] \in Conns
    BY <1>3, EmptySeq, ElementOfSeq DEF Accept, TypeOK
  <2>2. PICK c \in Conns, b \in Seq(Conns) : c = Head(backlog) /\ b = Tail(backlog) /\ c = backlog[1]
    <3>1. Head(backlog) \in Conns /\ Tail(backlog) \in Seq(Conns) /\ Head(backlog) = backlog[1]
      BY <1>3, HeadTailProperties DEF Accept, TypeOK
    <3> QED BY <3>1
  <2>3. Len(b) = n - 1 /\ \A i \in 1..(n - 1) : b[i] = backlog[i + 1]
    BY <1>3, <2>1, <2>2, HeadTailProperties DEF Accept, TypeOK
  <2>4. task[c] = "backlog" /\ \A i \in 1..n : i # 1 => backlog[i] # c
    BY <2>1, <2>2 DEF MapInv, Waiting
  <2>5. addr[c] \in Addrs /\ addr' = addr /\ reused' = reused /\ backlog' = b
    BY <1>3, <2>2, <2>4 DEF Accept, clientVars, MapInv, Addressed
  <2>6. /\ \A a \in Addrs : connections'[a] = IF a = addr[c] THEN c ELSE connections[a]
        /\ \A d \in Conns : task'[d] = IF d = c THEN "open" ELSE task[d]
    BY <1>3, <2>2 DEF Accept, TypeOK
  <2>7. Waiting'
    <3>1. \A i \in 1..(n - 1) : i + 1 \in 1..n /\ i + 1 # 1
      BY <2>1
    <3>2. ASSUME NEW i \in 1..(n - 1) PROVE task'[b[i]] = "backlog"
      BY <2>1, <2>3, <2>4, <2>6, <3>1 DEF MapInv, Waiting
    <3>3. ASSUME NEW i \in 1..(n - 1), NEW j \in 1..(n - 1), b[i] = b[j] PROVE i = j
      <4>1. backlog[i + 1] = backlog[j + 1]
        BY <2>3, <3>3
      <4>2. i + 1 = j + 1
        BY <2>1, <3>1, <4>1 DEF MapInv, Waiting
      <4> QED BY <4>2
    <3> QED BY <2>3, <2>5, <3>2, <3>3 DEF Waiting
  <2>8. Addressed'
    BY <2>4, <2>5, <2>6 DEF MapInv, Addressed
  <2>9. EntriesOpen'
    <3>1. \A a \in Addrs : connections[a] # NoConn => connections[a] \in Conns
      BY DEF TypeOK
    <3> QED BY <2>4, <2>5, <2>6, <3>1, ConstantsAssumption DEF MapInv, EntriesOpen
  <2>10. AddressesDiffer'
    <3>1. \A d \in Conns : Present(d)' <=> Present(d)
      BY <2>4, <2>6 DEF Present
    <3> QED BY <2>5, <3>1 DEF MapInv, AddressesDiffer
  <2>11. EntriesThere'
    <3> SUFFICES ASSUME ~reused, NEW d \in Conns, task'[d] = "open"
                 PROVE  connections'[addr[d]] = d
      BY <2>5 DEF EntriesThere
    <3>1. CASE d = c
      BY <2>5, <2>6, <3>1
    <3>2. CASE d # c
      <4>1. task[d] = "open" /\ Present(d) /\ Present(c)
        BY <2>4, <2>6, <3>2 DEF Present
      <4>2. addr[d] # addr[c] /\ addr[d] \in Addrs /\ connections[addr[d]] = d
        BY <3>2, <4>1 DEF MapInv, AddressesDiffer, Addressed, EntriesThere
      <4> QED BY <2>6, <4>2
    <3> QED BY <3>1, <3>2
  <2> QED BY <2>7, <2>8, <2>9, <2>10, <2>11 DEF MapInv
<1>4. ASSUME NEW c \in Conns, Poll(c) PROVE MapInv'
  <2>1. task[c] = "open" /\ UNCHANGED <<backlog, addr, reused>>
    BY <1>4 DEF Poll, clientVars
  <2>2. CASE task' = task /\ connections' = connections
    BY <1>1, <2>1, <2>2
  <2>3. CASE task' = [task EXCEPT ![c] = "done"] /\ connections' = Removed(c)
    <3>1. /\ \A d \in Conns : task'[d] = IF d = c THEN "done" ELSE task[d]
          /\ \A a \in Addrs : connections'[a] = IF a = addr[c] THEN NoConn ELSE connections[a]
      BY <2>3 DEF Removed, TypeOK
    <3>2. PICK n \in Nat : n = Len(backlog) /\ \A i \in 1..n : backlog[i] \in Conns
      BY LenProperties, ElementOfSeq DEF TypeOK
    <3>3. Waiting'
      BY <2>1, <3>1, <3>2 DEF MapInv, Waiting
    <3>4. Addressed' /\ AddressesDiffer'
      BY <2>1, <3>1 DEF MapInv, Addressed, AddressesDiffer, Present
    <3>5. EntriesOpen'
      <4> SUFFICES ASSUME NEW a \in Addrs, connections'[a] # NoConn
                   PROVE  task'[connections'[a]] = "open" /\ addr[connections'[a]] = a
        BY <2>1 DEF EntriesOpen
      <4>1. a # addr[c] /\ connections'[a] = connections[a] /\ connections[a] \in Conns
        BY <3>1 DEF TypeOK
      <4>2. task[connections[a]] = "open" /\ addr[connections[a]] = a
        BY <4>1 DEF MapInv, EntriesOpen
      <4> QED BY <3>1, <4>1, <4>2
    <3>6. EntriesThere'
      <4> SUFFICES ASSUME ~reused, NEW d \in Conns, task'[d] = "open"
                   PROVE  connections'[addr[d]] = d
        BY <2>1 DEF EntriesThere
      <4>1. d # c /\ task[d] = "open" /\ Present(d) /\ Present(c)
        BY <2>1, <3>1 DEF Present
      <4>2. addr[d] # addr[c] /\ addr[d] \in Addrs /\ connections[addr[d]] = d
        BY <4>1 DEF MapInv, AddressesDiffer, Addressed, EntriesThere
      <4> QED BY <3>1, <4>2
    <3> QED BY <3>3, <3>4, <3>5, <3>6 DEF MapInv
  <2> QED BY <1>4, <2>2, <2>3, PollMoves
<1>5. \/ UNCHANGED vars
      \/ \E c \in Conns : Send(c) \/ Leave(c) \/ ClientReads(c)
      => UNCHANGED <<connections, backlog, task, addr, reused>>
  BY DEF vars, clientVars, Send, Leave, ClientReads
<1> QED BY <1>1, <1>2, <1>3, <1>4, <1>5, Steps, Zenon

LEMMA UnwrapsStep == ASSUME TypeOK, MapInv, UnwrapsSucceed, [Next]_vars PROVE UnwrapsSucceed'
<1>1. CASE UNCHANGED panicked
  <2>1. reused => reused'
    BY Steps, Zenon DEF vars, clientVars, Connect, Send, Leave, ClientReads, Accept, Poll
  <2> QED BY <1>1, <2>1 DEF UnwrapsSucceed
<1>2. ASSUME NEW c \in Conns, Poll(c) PROVE UnwrapsSucceed'
  <2> SUFFICES ASSUME ~reused PROVE ~UnwrapFails(c)
    BY <1>2 DEF Poll, UnwrapsSucceed
  <2>1. task[c] = "open" /\ connections[addr[c]] = c
    BY <1>2 DEF Poll, MapInv, EntriesThere
  <2>2. \A d \in OtherEntries(c) : task[d] = "open"
    BY DEF OtherEntries, MapInv, EntriesOpen
  <2> QED BY <2>1, <2>2, ConstantsAssumption DEF UnwrapFails
<1> QED BY <1>1, <1>2, Steps, Zenon DEF vars

\* The unwrap()s on the map and on its senders never fail, unless an address comes
\* back before its old task has ended.  The induction needs all of MapInv: that
\* each task that runs has its entry follows from the removal by address only
\* because no two of them share one.
THEOREM UnwrapsNeverFail == Spec => []UnwrapsSucceed
<1>1. Init => UnwrapsSucceed
  BY DEF Init, UnwrapsSucceed
<1>2. TypeOK /\ MapInv /\ [Next]_vars => MapInv'
  BY MapInvStep
<1>3. TypeOK /\ MapInv /\ UnwrapsSucceed /\ [Next]_vars => UnwrapsSucceed'
  BY UnwrapsStep
<1> QED BY <1>1, <1>2, <1>3, InitMapInv, TypeCorrectness, PTL DEF Spec

-----------------------------------------------------------------------------
(* What everybody hears *)

LEMMA ShownProperties ==
    ASSUME NEW S \in SUBSET Lines, NEW s \in Seq(S)
    PROVE  /\ Shown(s) \in Seq(Items) /\ Len(Shown(s)) = Len(s)
           /\ \A i \in 1..Len(s) :
                 Shown(s)[i] = IF s[i] \in Texts THEN s[i] ELSE Complaint
<1>1. PICK n \in Nat : n = Len(s)
  BY LenProperties
<1>2. \A i \in 1..n : s[i] \in S
  BY <1>1, ElementOfSeq
<1>3. PICK g : g = [i \in 1..n |-> IF s[i] \in Texts THEN s[i] ELSE Complaint]
  OBVIOUS
<1>4. g \in [1..n -> Items]
  BY <1>2, <1>3 DEF Items
<1>5. g \in Seq(Items) /\ Len(g) = n
  BY <1>4, SeqDef
<1> QED BY <1>1, <1>3, <1>5 DEF Shown

LEMMA ShownConcat ==
    ASSUME NEW s \in Seq(Lines), NEW t \in Seq(Lines)
    PROVE  Shown(s \o t) = Shown(s) \o Shown(t)
<1>1. PICK st \in Seq(Lines) : st = s \o t
  BY ConcatProperties
<1>2. PICK n \in Nat, m \in Nat : n = Len(s) /\ m = Len(t)
  BY LenProperties
<1>3. PICK a \in Seq(Items), b \in Seq(Items), ab \in Seq(Items) :
          a = Shown(s) /\ b = Shown(t) /\ ab = Shown(st)
  BY ShownProperties
<1>4. Len(st) = n + m /\ \A i \in 1..(n + m) : st[i] = IF i <= n THEN s[i] ELSE t[i - n]
  BY <1>1, <1>2, ConcatProperties
<1>5. /\ Len(a) = n /\ \A i \in 1..n : a[i] = IF s[i] \in Texts THEN s[i] ELSE Complaint
      /\ Len(b) = m /\ \A i \in 1..m : b[i] = IF t[i] \in Texts THEN t[i] ELSE Complaint
      /\ Len(ab) = n + m
      /\ \A i \in 1..(n + m) : ab[i] = IF st[i] \in Texts THEN st[i] ELSE Complaint
  BY <1>2, <1>3, <1>4, ShownProperties, ZenonT(30)
<1>6. PICK c \in Seq(Items) : c = a \o b
  BY ConcatProperties
<1>7. Len(c) = n + m /\ \A i \in 1..(n + m) : c[i] = IF i <= n THEN a[i] ELSE b[i - n]
  <2>1. Len(a) = n /\ Len(b) = m
    BY <1>5
  <2>2. Len(c) = Len(a) + Len(b)
    BY <1>6, ConcatProperties
  <2>3. \A i \in 1..Len(a) + Len(b) : c[i] = IF i <= Len(a) THEN a[i] ELSE b[i - Len(a)]
    BY <1>6, ConcatProperties
  <2> QED BY <2>1, <2>2, <2>3
<1>8. ASSUME NEW i \in 1..(n + m) PROVE ab[i] = c[i]
  <2>1. CASE i <= n
    <3>1. i \in 1..n
      BY <2>1
    <3>2. st[i] = s[i] /\ c[i] = a[i]
      BY <1>4, <1>7, <2>1
    <3> QED BY <1>5, <3>1, <3>2
  <2>2. CASE ~(i <= n)
    <3>1. i - n \in 1..m
      BY <2>2
    <3>2. st[i] = t[i - n] /\ c[i] = b[i - n]
      BY <1>4, <1>7, <2>2
    <3> QED BY <1>5, <3>1, <3>2
  <2> QED BY <2>1, <2>2
<1> QED BY <1>1, <1>3, <1>5, <1>6, <1>7, <1>8, SeqEqual

\* Texts are shown as they are, garbage as that many complaints.
LEMMA ShownTexts ==
    ASSUME NEW s \in Seq(Lines) PROVE Shown(Only(s, Texts)) = Only(s, Texts)
<1>1. Only(s, Texts) \in Seq(Lines \cap Texts)
  BY OnlyType
<1>2. PICK S \in SUBSET Lines : S = Texts
  BY DEF Texts
<1>3. PICK o \in Seq(S) : o = Only(s, Texts)
  <2>1. Lines \cap Texts = S
    BY <1>2
  <2> QED BY <1>1, <2>1
<1>4. PICK g \in Seq(Items) : g = Shown(o)
  BY ShownProperties
<1>5. Len(g) = Len(o) /\ \A i \in 1..Len(o) : g[i] = IF o[i] \in Texts THEN o[i] ELSE Complaint
  BY <1>4, ShownProperties
<1>6. \A i \in 1..Len(o) : o[i] \in Texts
  BY <1>2, ElementOfSeq
<1>7. o \in Seq(Items)
  <2>1. S \subseteq Items
    BY DEF Items
  <2> QED BY <2>1, SeqMonotonic
<1>8. g = o
  BY <1>5, <1>6, <1>7, SeqEqual
<1> QED BY <1>3, <1>4, <1>8

LEMMA ShownGarbage ==
    ASSUME NEW s \in Seq(Lines)
    PROVE  Shown(Only(s, Garbage)) = [i \in 1..Len(Only(s, Garbage)) |-> Complaint]
<1>1. Only(s, Garbage) \in Seq(Lines \cap Garbage)
  BY OnlyType
<1>2. PICK S : S = Lines \cap Garbage /\ \A l \in S : l \notin Texts
  <2>1. \A l \in Lines \cap Garbage : l \notin Texts
    BY DEF Garbage
  <2> QED BY <2>1
<1>3. PICK o \in Seq(S) : o = Only(s, Garbage)
  BY <1>1, <1>2
<1>4. \A i \in 1..Len(o) : o[i] \notin Texts
  BY <1>2, ElementOfSeq
<1> QED BY <1>3, <1>4 DEF Shown

\* Lines come from the connection they are read from, which has an address.
Known == {l \in Lines : task[l.from] # "none"}

Sourced ==
    /\ \A c \in Conns : sock[c] \in Seq({l \in Known : l.from = c})
    /\ said \in Seq(Known)
    /\ \A c \in Conns : since[c] <= Len(said)
    /\ \A c \in Conns : task[c] \in {"none", "backlog"} => rx[c] = <<>> /\ heard[c] = <<>>

LEMMA InitSourced == Init => Sourced
<1>1. (\A S : <<>> \in Seq(S)) /\ Len(<<>>) = 0
  BY EmptySeq
<1> QED BY <1>1 DEF Init, Sourced

\* To somebody whom the map has, a poll of c gives just what it is owed.
LEMMA GivenIsOwed ==
    ASSUME TypeOK, MapInv, Sourced, NEW c \in Conns, task[c] = "open",
           NEW d \in Conns, task[d] = "open", connections[addr[d]] = d
    PROVE  Given(c, d) = Shown(Only(sock[c], Mine(d)))
<1>1. PICK s \in Seq(Lines), F \in SUBSET Lines :
        s = sock[c] /\ s \in Seq(F) /\ \A l \in F : l.from = c
  <2>1. sock[c] \in Seq({l \in Known : l.from = c}) /\ sock[c] \in Seq(Lines)
    BY DEF Sourced, TypeOK
  <2>2. {l \in Known : l.from = c} \in SUBSET Lines
    BY DEF Known
  <2> QED BY <2>1, <2>2
<1>2. addr[c] \in Addrs /\ addr[d] \in Addrs
  BY DEF MapInv, Addressed
<1>3. \A a \in Addrs : connections[a] = d => a = addr[d]
  BY ConstantsAssumption DEF MapInv, EntriesOpen
<1>4. Only(s, Texts) \in Seq(Items) /\ [i \in 1..Len(Only(s, Garbage)) |-> Complaint] \in Seq(Items)
  <2>1. Only(s, Texts) \in Seq(Lines \cap Texts) /\ Only(s, Garbage) \in Seq(Lines \cap Garbage)
    BY OnlyType
  <2>2. Lines \cap Texts \subseteq Items
    BY DEF Items
  <2> QED BY <2>1, <2>2, SeqMonotonic, LenProperties, SomeComplaints
<1>5. CASE addr[c] = addr[d]
  <2>1. d \notin OtherEntries(c) /\ d = connections[addr[c]]
    BY <1>3, <1>5 DEF OtherEntries
  <2>2. Given(c, d) = [i \in 1..Len(Only(s, Garbage)) |-> Complaint]
    <3>1. PICK g \in Seq(Items) : g = [i \in 1..Len(Only(s, Garbage)) |-> Complaint]
      BY <1>4
    <3>2. <<>> \o g = g
      BY ConcatEmptySeq
    <3> QED BY <1>1, <2>1, <3>1, <3>2 DEF Given
  <2>3. \A l \in F : l \in Mine(d) <=> l \in Garbage
    BY <1>1, <1>5 DEF Mine, Garbage
  <2>4. Only(s, Mine(d)) = Only(s, Garbage)
    BY <1>1, <2>3, OnlySame
  <2> QED BY <1>1, <2>2, <2>4, ShownGarbage
<1>6. CASE addr[c] # addr[d]
  <2>1. d \in OtherEntries(c) /\ d # connections[addr[c]]
    BY <1>2, <1>3, <1>6, ConstantsAssumption DEF OtherEntries
  <2>2. Given(c, d) = Only(s, Texts)
    <3>1. PICK g \in Seq(Items) : g = Only(s, Texts)
      BY <1>4
    <3>2. g \o <<>> = g
      BY ConcatEmptySeq
    <3> QED BY <1>1, <2>1, <3>1, <3>2 DEF Given
  <2>3. \A l \in F : l \in Mine(d) <=> l \in Texts
    BY <1>1, <1>6 DEF Mine
  <2>4. Only(s, Mine(d)) = Only(s, Texts)
    BY <1>1, <2>3, OnlySame
  <2> QED BY <1>1, <2>2, <2>4, ShownTexts
<1> QED BY <1>5, <1>6

LEMMA SourcedStep == ASSUME TypeOK, MapInv, Sourced, [Next]_vars PROVE Sourced'
<1>1. PICK K \in SUBSET Lines : K = Known
  BY DEF Known
<1>2. PICK L : L = Known'
  OBVIOUS
<1>3. /\ said \in Seq(K) /\ sock \in [Conns -> Seq(Lines)]
      /\ \A c \in Conns : sock[c] \in Seq({l \in K : l.from = c})
      /\ \A c \in Conns : since[c] <= Len(said) /\ since[c] \in Nat
      /\ Len(said) \in Nat
  BY <1>1, LenProperties DEF Sourced, TypeOK
\* Who is known stays known.
<1>4. ASSUME \A c \in Conns : task[c] # "none" => task'[c] # "none"
      PROVE  /\ K \subseteq L /\ said \in Seq(L)
             /\ \A c \in Conns : sock[c] \in Seq({l \in L : l.from = c})
  <2>1. K \subseteq L
    BY <1>1, <1>2, <1>4 DEF Known, Lines
  <2>2. said \in Seq(L)
    BY <1>3, <2>1, SeqMonotonic
  <2>3. ASSUME NEW c \in Conns PROVE sock[c] \in Seq({l \in L : l.from = c})
    <3>1. {l \in K : l.from = c} \subseteq {l \in L : l.from = c}
      BY <2>1
    <3> QED BY <1>3, <3>1, SeqMonotonic
  <2> QED BY <2>1, <2>2, <2>3
<1>5. ASSUME UNCHANGED <<task, sock, said, since, rx, heard>> PROVE Sourced'
  BY <1>5 DEF Sourced, Known
<1>6. ASSUME NEW c \in Conns, NEW a \in Addrs, Connect(c, a) PROVE Sourced'
  <2>1. /\ task[c] = "none" /\ \A d \in Conns : task'[d] = IF d = c THEN "backlog" ELSE task[d]
        /\ UNCHANGED <<sock, said, since, rx, heard>>
    BY <1>6 DEF Connect, TypeOK
  <2>2. said' \in Seq(L) /\ \A d \in Conns : sock'[d] \in Seq({l \in L : l.from = d})
    BY <1>4, <2>1
  <2>3. \A d \in Conns : since'[d] <= Len(said')
    BY <1>3, <2>1
  <2>4. \A d \in Conns : task'[d] \in {"none", "backlog"} => rx'[d] = <<>> /\ heard'[d] = <<>>
    BY <2>1 DEF Sourced
  <2> QED BY <1>2, <2>2, <2>3, <2>4 DEF Sourced
<1>7. ASSUME NEW c \in Conns, Send(c) PROVE Sourced'
  <2>1. PICK utf8 \in BOOLEAN :
          sock' = [sock EXCEPT ![c] = Append(sock[c], [from |-> c, n |-> sent + 1, utf8 |-> utf8])]
    BY <1>7 DEF Send
  <2>2. PICK e : e = [from |-> c, n |-> sent + 1, utf8 |-> utf8]
    OBVIOUS
  <2>3. e \in Lines /\ e.from = c /\ task[c] # "none"
    BY <1>7, <2>2, ConstantsAssumption DEF Send, Connected, TypeOK, Lines
  <2>4. UNCHANGED <<task, said, since, rx, heard>> /\ L = K
    BY <1>1, <1>2, <1>7 DEF Send, Known
  <2>5. PICK F : F = {l \in K : l.from = c} /\ e \in F
    BY <1>1, <2>3 DEF Known
  <2>6. PICK s \in Seq(F) : s = sock[c]
    BY <1>3, <2>5
  <2>7. Append(s, e) \in Seq(F)
    BY <2>5, AppendProperties
  <2>8. \A d \in Conns : sock'[d] = IF d = c THEN Append(s, e) ELSE sock[d]
    BY <1>3, <2>1, <2>2, <2>6
  <2>9. \A d \in Conns : sock'[d] \in Seq({l \in L : l.from = d})
    BY <1>3, <2>4, <2>5, <2>7, <2>8
  <2> QED BY <1>1, <1>2, <2>4, <2>9 DEF Sourced
<1>8. ASSUME NEW c \in Conns, Leave(c) PROVE Sourced'
  <2>1. UNCHANGED <<task, said, since, rx, heard>> /\ L = K
    BY <1>1, <1>2, <1>8 DEF Leave, Known
  <2>2. \A d \in Conns : sock'[d] = sock[d] \/ sock'[d] = <<>>
    <3>1. sock' = sock \/ sock' = [sock EXCEPT ![c] = <<>>]
      BY <1>8 DEF Leave
    <3> QED BY <1>3, <3>1
  <2>3. \A d \in Conns : sock'[d] \in Seq({l \in L : l.from = d})
    BY <1>3, <2>1, <2>2, EmptySeq
  <2> QED BY <1>1, <1>2, <2>1, <2>3 DEF Sourced
<1>9. CASE Accept
  <2>1. Len(backlog) \in Nat \ {0} /\ Head(backlog) = backlog[1]
    BY <1>9, EmptySeq DEF Accept, TypeOK
  <2>2. PICK c \in Conns : c = Head(backlog) /\ task[c] = "backlog"
    <3>1. Head(backlog) \in Conns /\ task[backlog[1]] = "backlog"
      BY <1>9, <2>1, HeadTailProperties DEF Accept, TypeOK, MapInv, Waiting
    <3> QED BY <2>1, <3>1
  <2>3. /\ \A d \in Conns : task'[d] = IF d = c THEN "open" ELSE task[d]
        /\ \A d \in Conns : since'[d] = IF d = c THEN Len(said) ELSE since[d]
        /\ UNCHANGED <<sock, said, rx, heard>>
    BY <1>9, <2>2 DEF Accept, TypeOK
  <2>4. said' \in Seq(L) /\ \A d \in Conns : sock'[d] \in Seq({l \in L : l.from = d})
    BY <1>4, <2>3
  <2>5. \A d \in Conns : since'[d] <= Len(said')
    BY <1>3, <2>3
  <2>6. \A d \in Conns : task'[d] \in {"none", "backlog"} => rx'[d] = <<>> /\ heard'[d] = <<>>
    BY <2>3 DEF Sourced
  <2> QED BY <1>2, <2>4, <2>5, <2>6 DEF Sourced
<1>10. ASSUME NEW c \in Conns, Poll(c) PROVE Sourced'
  <2>1. /\ task[c] = "open" /\ since' = since /\ said' = said \o sock[c]
        /\ \A d \in Conns : sock'[d] = IF d = c THEN <<>> ELSE sock[d]
    BY <1>3, <1>10 DEF Poll
  <2>2. /\ \A d \in Conns : task'[d] = IF d = c THEN task'[c] ELSE task[d]
        /\ task'[c] \in {"open", "done"}
    <3>1. task' = task \/ task' = [task EXCEPT ![c] = "done"]
      BY <1>10, PollMoves
    <3> QED BY <2>1, <3>1 DEF TypeOK
  <2>3. /\ K \subseteq L /\ said \in Seq(L)
        /\ \A d \in Conns : sock[d] \in Seq({l \in L : l.from = d})
    BY <1>4, <2>2
  <2>4. PICK s \in Seq(L) : s = sock[c]
    <3>1. {l \in L : l.from = c} \subseteq L
      OBVIOUS
    <3>2. sock[c] \in Seq(L)
      BY <2>3, <3>1, SeqMonotonic
    <3> QED BY <3>2
  <2>5. said' \in Seq(L) /\ Len(said') = Len(said) + Len(s) /\ Len(s) \in Nat
    BY <2>1, <2>3, <2>4, ConcatProperties, LenProperties
  <2>6. \A d \in Conns : since'[d] <= Len(said')
    BY <1>3, <2>1, <2>5
  <2>7. \A d \in Conns : sock'[d] \in Seq({l \in L : l.from = d})
    BY <2>1, <2>3, EmptySeq
  <2>8. ASSUME NEW d \in Conns, task'[d] \in {"none", "backlog"}
        PROVE  rx'[d] = <<>> /\ heard'[d] = <<>>
    <3>1. d # c /\ task[d] = task'[d] /\ rx[d] = <<>> /\ heard[d] = <<>>
      BY <2>2, <2>8 DEF Sourced
    <3>2. \A a \in Addrs : connections[a] # d
      BY <2>8, <3>1, ConstantsAssumption DEF MapInv, EntriesOpen
    <3>3. d \notin OtherEntries(c) /\ d # connections[addr[c]]
      <4>1. addr[c] \in Addrs
        BY <2>1 DEF MapInv, Addressed
      <4> QED BY <3>2, <4>1 DEF OtherEntries
    <3>4. Given(c, d) = <<>> \o <<>>
      BY <3>3 DEF Given
    <3>5. Channels(c)[d] = <<>> \o (<<>> \o <<>>)
      BY <3>1, <3>4, GivenProperties
    <3>6. \A e : e = <<>> => e \o e = e
      OBVIOUS
    <3> QED BY <1>10, <3>1, <3>5, <3>6, PollMoves
  <2> QED BY <1>2, <2>5, <2>6, <2>7, <2>8 DEF Sourced
<1>11. \/ UNCHANGED vars
       \/ \E c \in Conns : ClientReads(c)
       => UNCHANGED <<task, sock, said, since, rx, heard>>
  BY DEF vars, clientVars, ClientReads
<1> QED BY <1>5, <1>6, <1>7, <1>8, <1>9, <1>10, <1>11, Steps, Zenon

LEMMA ItemsRegroup == \A a, b, c \in Seq(Items) : a \o (b \o c) = (a \o b) \o c
BY Regroup, SMTT(30)

\* Whoever runs and is in the map was so before, or has just been accepted.
LEMMA HearsAfterPoll ==
    ASSUME TypeOK, MapInv, Sourced, HearsTheRoom, ~panicked, NEW c \in Conns, Poll(c),
           NEW d \in Conns, task'[d] = "open", ~reused \/ connections'[addr[d]] = d
    PROVE  heard'[d] \o rx'[d] = Owed(d)'
<1>1. task[c] = "open" /\ said' = said \o sock[c] /\ UNCHANGED <<addr, since, reused>>
  BY DEF Poll, clientVars
<1>2. task[d] = "open"
  <2>1. task' = task \/ task' = [task EXCEPT ![c] = "done"]
    BY PollMoves
  <2> QED BY <1>1, <2>1 DEF TypeOK
<1>3. addr[d] \in Addrs /\ addr[c] \in Addrs
  BY <1>1, <1>2 DEF MapInv, Addressed
<1>4. connections[addr[d]] = d
  <2>1. connections' = connections \/ connections' = Removed(c)
    BY PollMoves
  <2>2. connections'[addr[d]] = d => connections[addr[d]] = d
    BY <1>3, <2>1, ConstantsAssumption DEF Removed, TypeOK
  <2> QED BY <1>2, <2>2 DEF MapInv, EntriesThere
<1>5. PICK h \in Seq(Items), r \in Seq(Items), s \in Seq(Lines), sd \in Seq(Lines) :
        h = heard[d] /\ r = rx[d] /\ s = sock[c] /\ sd = said
  BY DEF TypeOK, Items
<1>6. PICK k \in 0..Len(sd) : k = since[d]
  <2>1. since[d] \in Nat /\ since[d] <= Len(sd) /\ Len(sd) \in Nat
    BY <1>5, LenProperties DEF TypeOK, Sourced
  <2> QED BY <2>1
<1>7. PICK M : M = Mine(d)
  OBVIOUS
<1>8. PICK old \in Seq(Lines) : old = SubSeq(sd, k + 1, Len(sd))
  <2>1. SubSeq(sd, k + 1, Len(sd)) \in Seq(Lines)
    BY CutInTwo
  <2> QED BY <2>1
<1>9. SubSeq(sd \o s, k + 1, Len(sd \o s)) = old \o s
  BY <1>8, RestOfConcat
<1>10. Only(old \o s, M) = Only(old, M) \o Only(s, M)
  BY OnlyConcat
<1>11. PICK x \in Seq(Lines), y \in Seq(Lines) : x = Only(old, M) /\ y = Only(s, M)
  <2>1. Only(old, M) \in Seq(Lines \cap M) /\ Only(s, M) \in Seq(Lines \cap M)
    BY OnlyType
  <2>2. Only(old, M) \in Seq(Lines) /\ Only(s, M) \in Seq(Lines)
    BY <2>1, SeqMonotonic
  <2> QED BY <2>2
<1>12. Owed(d)' = Shown(x) \o Shown(y)
  <2>1. Owed(d)' = Shown(Only(SubSeq(sd \o s, k + 1, Len(sd \o s)), M))
    BY <1>1, <1>5, <1>6, <1>7 DEF Owed, Mine, Shown
  <2>2. Shown(x \o y) = Shown(x) \o Shown(y)
    BY ShownConcat
  <2> QED BY <1>9, <1>10, <1>11, <2>1, <2>2
<1>13. Shown(x) = h \o r
  <2>1. Owed(d) = Shown(x)
    BY <1>5, <1>6, <1>7, <1>8, <1>11 DEF Owed
  <2>2. ~TxDropped(d)
    BY <1>4 DEF TxDropped
  <2> QED BY <1>2, <1>5, <2>1, <2>2 DEF HearsTheRoom
<1>14. PICK g \in Seq(Items) : g = Shown(y)
  BY <1>11, ShownProperties
<1>15. Given(c, d) = g
  BY <1>1, <1>2, <1>4, <1>5, <1>7, <1>11, <1>14, GivenIsOwed
<1>16. h \o (r \o g) = (h \o r) \o g
  <2>1. h \in Seq(Items) /\ r \in Seq(Items) /\ g \in Seq(Items)
    BY <1>5
  <2> QED BY <2>1, ItemsRegroup, Zenon
<1>17. heard'[d] \o rx'[d] = h \o (r \o g)
  BY <1>5, <1>15, PollMoves, GivenProperties
<1> QED BY <1>12, <1>13, <1>14, <1>16, <1>17

LEMMA HearsStep ==
    ASSUME TypeOK, MapInv, Sourced, HearsTheRoom, [Next]_vars
    PROVE  HearsTheRoom'
<1>1. CASE UNCHANGED <<task, addr, connections, reused, panicked, heard, rx, said, since>>
  BY <1>1 DEF HearsTheRoom, TxDropped, Owed, Mine
<1>2. ASSUME NEW c \in Conns, NEW a \in Addrs, Connect(c, a), UNCHANGED panicked
      PROVE  HearsTheRoom'
  <2>1. /\ task[c] = "none" /\ \A d \in Conns : task'[d] = IF d = c THEN "backlog" ELSE task[d]
        /\ \A d \in Conns : addr'[d] = IF d = c THEN a ELSE addr[d]
        /\ UNCHANGED <<connections, said, since, rx, heard, panicked>>
        /\ reused => reused'
    BY <1>2 DEF Connect, TypeOK
  <2> SUFFICES ASSUME NEW d \in Conns, task'[d] = "open", ~panicked,
                      ~reused' \/ connections[addr'[d]] = d
               PROVE  heard[d] \o rx[d] = Owed(d)'
    BY <2>1 DEF HearsTheRoom, TxDropped
  <2>2. d # c /\ task[d] = "open" /\ addr'[d] = addr[d]
    BY <2>1
  <2>3. heard[d] \o rx[d] = Owed(d)
    BY <2>1, <2>2 DEF HearsTheRoom, TxDropped
  <2>4. PICK K \in SUBSET Lines : K = Known
    BY DEF Known
  <2>5. PICK s \in Seq(K) : s = SubSeq(said, since[d] + 1, Len(said))
    <3>1. said \in Seq(K) /\ since[d] \in Nat /\ since[d] <= Len(said) /\ Len(said) \in Nat
      BY <2>4, LenProperties DEF Sourced, TypeOK
    <3>2. PICK sd \in Seq(K) : sd = said
      BY <3>1
    <3>3. PICK k \in 0..Len(sd) : k = since[d]
      BY <3>1, <3>2
    <3>4. SubSeq(sd, k + 1, Len(sd)) \in Seq(K)
      BY CutInTwo
    <3> QED BY <3>2, <3>3, <3>4
  <2>6. PICK M : M = Mine(d)
    OBVIOUS
  <2>7. PICK N : N = Mine(d)'
    OBVIOUS
  <2>8. \A l \in K : l \in M <=> l \in N
    <3>1. \A l \in K : l.from \in Conns /\ task[l.from] # "none" /\ addr'[l.from] = addr[l.from]
      BY <2>1, <2>4 DEF Known, Lines
    <3> QED BY <2>2, <2>6, <2>7, <3>1 DEF Mine
  <2>9. Only(s, M) = Only(s, N)
    BY <2>8, OnlySame
  <2>10. Owed(d) = Shown(Only(s, M)) /\ Owed(d)' = Shown(Only(s, N))
    BY <2>1, <2>5, <2>6, <2>7 DEF Owed, Shown
  <2> QED BY <2>3, <2>9, <2>10
<1>3. CASE Accept /\ UNCHANGED panicked
  <2>1. Head(backlog) = backlog[1] /\ Len(backlog) \in Nat \ {0}
    BY <1>3, EmptySeq DEF Accept, TypeOK
  <2>2. PICK c \in Conns : c = Head(backlog) /\ task[c] = "backlog"
    <3>1. Head(backlog) \in Conns /\ task[backlog[1]] = "backlog"
      BY <1>3, <2>1, HeadTailProperties DEF Accept, TypeOK, MapInv, Waiting
    <3> QED BY <2>1, <3>1
  <2>3. /\ \A d \in Conns : task'[d] = IF d = c THEN "open" ELSE task[d]
        /\ \A d \in Conns : since'[d] = IF d = c THEN Len(said) ELSE since[d]
        /\ \A a \in Addrs : connections'[a] = IF a = addr[c] THEN c ELSE connections[a]
        /\ UNCHANGED <<addr, said, rx, heard, panicked, reused>>
    BY <1>3, <2>2 DEF Accept, clientVars, TypeOK
  <2> SUFFICES ASSUME NEW d \in Conns, task'[d] = "open", ~panicked,
                      ~reused \/ connections'[addr[d]] = d
               PROVE  heard[d] \o rx[d] = Owed(d)'
    BY <2>3 DEF HearsTheRoom, TxDropped
  <2>4. CASE d = c
    <3>1. heard[d] = <<>> /\ rx[d] = <<>>
      BY <2>2, <2>4 DEF Sourced
    <3>2. SubSeq(said, Len(said) + 1, Len(said)) = <<>>
      <4>1. Len(said) \in Nat
        BY LenProperties DEF TypeOK
      <4> QED BY <4>1, SubSeqEmpty
    <3>3. PICK M : M = Mine(d)'
      OBVIOUS
    <3>4. Owed(d)' = Shown(Only(SubSeq(said, Len(said) + 1, Len(said)), M))
      BY <2>3, <2>4, <3>3 DEF Owed, Shown
    <3>5. Shown(<<>>) = <<>>
      <4>1. Len(<<>>) = 0 /\ 1..0 = {}
        OBVIOUS
      <4> QED BY <4>1 DEF Shown
    <3>6. Owed(d)' = <<>>
      BY <3>2, <3>4, <3>5, OnlyEmpty
    <3>7. \A e : e = <<>> => e \o e = e
      OBVIOUS
    <3> QED BY <3>1, <3>6, <3>7
  <2>5. CASE d # c
    <3>1. task[d] = "open" /\ addr[d] \in Addrs
      BY <2>3, <2>5 DEF MapInv, Addressed
    <3>2. ~reused \/ connections[addr[d]] = d
      BY <2>3, <2>5, <3>1
    <3>3. heard[d] \o rx[d] = Owed(d)
      BY <3>1, <3>2 DEF HearsTheRoom, TxDropped
    <3>4. Owed(d)' = Owed(d)
      BY <2>3, <2>5 DEF Owed, Mine, Shown
    <3> QED BY <3>3, <3>4
  <2> QED BY <2>4, <2>5
<1>4. ASSUME NEW c \in Conns, ~panicked, Poll(c) PROVE HearsTheRoom'
  <2>1. UNCHANGED <<addr, reused>>
    BY <1>4 DEF Poll, clientVars
  <2>2. ASSUME NEW d \in Conns, task'[d] = "open", ~reused \/ connections'[addr[d]] = d
        PROVE  heard'[d] \o rx'[d] = Owed(d)'
    BY <1>4, <2>2, HearsAfterPoll
  <2> QED BY <2>1, <2>2 DEF HearsTheRoom, TxDropped
<1>5. \/ UNCHANGED vars
      \/ \E c \in Conns : (Send(c) \/ Leave(c) \/ ClientReads(c)) /\ UNCHANGED panicked
      => UNCHANGED <<task, addr, connections, reused, panicked, heard, rx, said, since>>
  BY DEF vars, clientVars, Send, Leave, ClientReads
<1> QED BY <1>1, <1>2, <1>3, <1>4, <1>5, Steps, Zenon

\* Everybody in the room hears all the others say, once and in the order in which it
\* was read, and of its own lines the complaints: also whoever's address has come
\* back, as long as the map has it.  Inductive with the types, the map and where
\* each line comes from.
THEOREM EverybodyHears == Spec => []HearsTheRoom
<1>1. Init => HearsTheRoom
  BY DEF Init, HearsTheRoom
<1>2. TypeOK /\ MapInv /\ [Next]_vars => MapInv'
  BY MapInvStep
<1>3. TypeOK /\ MapInv /\ Sourced /\ [Next]_vars => Sourced'
  BY SourcedStep
<1>4. TypeOK /\ MapInv /\ Sourced /\ HearsTheRoom /\ [Next]_vars => HearsTheRoom'
  BY HearsStep
<1> QED BY <1>1, <1>2, <1>3, <1>4, InitMapInv, InitSourced, TypeCorrectness, PTL DEF Spec

=============================================================================
