---------------------------- MODULE PeerChat_proofs ----------------------------
(***************************************************************************)
(* Theorems about PeerChat, for any number of connections, addresses and    *)
(* lines: the map of senders fits the peers that run, no wake-up is lost,   *)
(* and all clients see one conversation.                                    *)
(***************************************************************************)
EXTENDS PeerChat, SequenceTheorems, TLAPS

-----------------------------------------------------------------------------
(* Types *)

\* What Next can do, action by action.
LEMMA Steps ==
    ASSUME NEW P, [Next]_vars, UNCHANGED vars => P,
           \A c \in Conns :
               /\ \A a \in Addrs : Arrives(c, a) => P
               /\ ClientSends(c) => P
               /\ ClientReads(c) => P
               /\ ClientCloses(c) => P
               /\ ClientResets(c) => P
               /\ TakeName(c) => P
               /\ LeaveNameless(c) => P
               /\ AwaitName(c) => P
               /\ PollStarts(c) => P
               /\ Drain(c) => P
               /\ Flush(c) => P
               /\ Broadcast(c) => P
               /\ ReadSleeps(c) => P
               /\ Completes(c) => P
               /\ DropRemoves(c) => P
               /\ DropFields(c) => P
    PROVE  P
BY DEF Next, Task, Client, Naming

\* Waking touches the two variables of the runtime only.
LEMMA WakeTypes ==
    ASSUME TypeOK, NEW cs \in SUBSET Conns, NEW what, Wake(cs, what)
    PROVE  /\ notified' \subseteq Conns
           /\ waits' \in [Conns -> SUBSET {"rx", "readable", "writable"}]
BY DEF TypeOK, Wake

LEMMA AwaitTypes ==
    ASSUME TypeOK, NEW c \in Conns, NEW what \in {"rx", "readable", "writable"}, Await(c, what)
    PROVE  waits' \in [Conns -> SUBSET {"rx", "readable", "writable"}]
BY DEF TypeOK, Await

\* What Drain and Flush move, and what they leave.
LEMMA Cut ==
    ASSUME NEW S, NEW s \in Seq(S), NEW n \in 0..Len(s)
    PROVE  /\ SubSeq(s, 1, n) \in Seq(S) /\ Len(SubSeq(s, 1, n)) = n
           /\ \A i \in 1..n : SubSeq(s, 1, n)[i] = s[i]
           /\ SubSeq(s, n + 1, Len(s)) \in Seq(S) /\ Len(SubSeq(s, n + 1, Len(s))) = Len(s) - n
           /\ \A i \in 1..(Len(s) - n) : SubSeq(s, n + 1, Len(s))[i] = s[n + i]
<1>1. Len(s) \in Nat /\ \A i \in 1..Len(s) : s[i] \in S
  BY LenProperties, ElementOfSeq
<1>2. n \in Nat /\ n <= Len(s) /\ \A i \in n + 1 .. Len(s) : s[i] \in S
  BY <1>1
<1>3. \A i \in 1..n : s[i] \in S
  BY <1>1
<1>4. /\ SubSeq(s, 1, n) \in Seq(S)
      /\ Len(SubSeq(s, 1, n)) = IF 1 <= n THEN n - 1 + 1 ELSE 0
      /\ \A i \in 1..(n - 1 + 1) : SubSeq(s, 1, n)[i] = s[1 + i - 1]
  BY <1>2, <1>3, SubSeqProperties
<1>5. /\ SubSeq(s, n + 1, Len(s)) \in Seq(S)
      /\ Len(SubSeq(s, n + 1, Len(s))) = IF n + 1 <= Len(s) THEN Len(s) - (n + 1) + 1 ELSE 0
      /\ \A i \in 1..(Len(s) - (n + 1) + 1) : SubSeq(s, n + 1, Len(s))[i] = s[(n + 1) + i - 1]
  BY <1>1, <1>2, SubSeqProperties
<1> QED BY <1>1, <1>2, <1>4, <1>5

\* The number of lines Drain takes.
Taken(c) == IF Len(rx[c]) < LinesPerTick THEN Len(rx[c]) ELSE LinesPerTick

LEMMA Amounts ==
    ASSUME TypeOK, NEW c \in Conns
    PROVE  /\ Taken(c) \in 0..Len(rx[c]) /\ Written(c) \in 0..Len(wr[c])
           /\ unread[c] + Written(c) \in 0..SockCap
           /\ Written(c) < Len(wr[c]) => unread[c] + Written(c) = SockCap
           /\ Taken(c) # LinesPerTick => Taken(c) = Len(rx[c])
<1>1. Len(rx[c]) \in Nat /\ Len(wr[c]) \in Nat /\ unread[c] \in 0..SockCap
  BY DEF TypeOK
<1> QED BY <1>1, ConstantsAssumption, SMTT(30) DEF Taken, Written

\* Whoever has come, and nobody else, has an address: TypeOK alone does not show
\* that the map's new entry has one.
Addressed == \A c \in Conns : addr[c] \in Addrs <=> life[c] # "none"

LEMMA InitTypeOK == Init => TypeOK /\ Addressed
<1>1. <<>> \in Seq(1..MaxLines) /\ <<>> \in Seq(Lines)
  BY EmptySeq
<1>2. \A f : f = [a \in {} |-> a] => DOMAIN f = {} /\ f \in [{} -> Conns]
  OBVIOUS
<1> QED BY <1>1, <1>2, ConstantsAssumption DEF Init, TypeOK, Lives, Addressed

LEMMA TypeOKStep == ASSUME TypeOK, Addressed, [Next]_vars PROVE TypeOK'
<1> SUFFICES ASSUME NEW c \in Conns PROVE
        /\ \A a \in Addrs : Arrives(c, a) => TypeOK'
        /\ ClientSends(c) => TypeOK'
        /\ ClientReads(c) => TypeOK'
        /\ ClientCloses(c) => TypeOK'
        /\ ClientResets(c) => TypeOK'
        /\ TakeName(c) => TypeOK'
        /\ LeaveNameless(c) => TypeOK'
        /\ AwaitName(c) => TypeOK'
        /\ PollStarts(c) => TypeOK'
        /\ Drain(c) => TypeOK'
        /\ Flush(c) => TypeOK'
        /\ Broadcast(c) => TypeOK'
        /\ ReadSleeps(c) => TypeOK'
        /\ Completes(c) => TypeOK'
        /\ DropRemoves(c) => TypeOK'
        /\ DropFields(c) => TypeOK'
  <2>1. UNCHANGED vars => TypeOK'
    BY DEF vars, TypeOK
  <2> QED BY <2>1, Steps, Zenon
<1>1. ASSUME NEW a \in Addrs, Arrives(c, a) PROVE TypeOK'
  BY <1>1 DEF Arrives, TypeOK, Lives
<1>2. CASE ClientSends(c)
  <2>1. sent[c] + 1 \in 1..MaxLines
    BY <1>2, ConstantsAssumption DEF ClientSends, TypeOK
  <2>2. input' \in [Conns -> Seq(1..MaxLines)] /\ sent' \in [Conns -> 0..MaxLines]
    BY <1>2, <2>1 DEF ClientSends, TypeOK
  <2> QED BY <1>2, <2>2, WakeTypes DEF ClientSends, TypeOK
<1>3. CASE ClientReads(c)
  <2>1. unread' \in [Conns -> 0..SockCap]
    BY <1>3, ConstantsAssumption DEF ClientReads, TypeOK
  <2> QED BY <1>3, <2>1, WakeTypes, ZenonT(30) DEF ClientReads, TypeOK
<1>4. CASE ClientCloses(c)
  BY <1>4, WakeTypes DEF ClientCloses, TypeOK
<1>5. CASE ClientResets(c)
  BY <1>5, EmptySeq DEF ClientResets, TypeOK
<1>6. CASE TakeName(c)
  <2>1. input' \in [Conns -> Seq(1..MaxLines)]
    BY <1>6, HeadTailProperties DEF TakeName, TypeOK
  <2>2. addr[c] \in Addrs
    BY <1>6 DEF TakeName, Addressed
  <2> QED BY <1>6, <2>1, <2>2 DEF TakeName, TypeOK, Lives, clientVars, Goto, Entered
<1>7. CASE LeaveNameless(c)
  BY <1>7 DEF LeaveNameless, TypeOK, Lives, clientVars
<1>8. CASE AwaitName(c)
  BY <1>8, AwaitTypes DEF AwaitName, TypeOK, clientVars
<1>9. CASE PollStarts(c)
  BY <1>9 DEF PollStarts, TypeOK, clientVars, Goto
<1>10. CASE Drain(c)
  <2>1. PICK n : n = Taken(c)
    OBVIOUS
  <2>2. /\ rx[c] \in Seq(Lines) /\ wr[c] \in Seq(Lines) /\ n \in 0..Len(rx[c])
        /\ wr' = [wr EXCEPT ![c] = @ \o SubSeq(rx[c], 1, n)]
        /\ rx' = [rx EXCEPT ![c] = SubSeq(@, n + 1, Len(@))]
    BY <1>10, <2>1, Amounts DEF Drain, TypeOK, Taken
  <2>3. wr[c] \o SubSeq(rx[c], 1, n) \in Seq(Lines) /\ SubSeq(rx[c], n + 1, Len(rx[c])) \in Seq(Lines)
    BY <2>2, Cut, ConcatProperties
  <2>4. wr' \in [Conns -> Seq(Lines)] /\ rx' \in [Conns -> Seq(Lines)]
    BY <2>2, <2>3 DEF TypeOK
  <2> QED BY <1>10, <2>4 DEF Drain, TypeOK, clientVars, Goto
<1>11. CASE Flush(c)
  <2>1. PICK n : n = Written(c)
    OBVIOUS
  <2>2. /\ heard[c] \in Seq(Lines) /\ wr[c] \in Seq(Lines) /\ n \in 0..Len(wr[c])
        /\ unread[c] + n \in 0..SockCap
        /\ heard' = [heard EXCEPT ![c] = @ \o SubSeq(wr[c], 1, n)]
        /\ unread' = [unread EXCEPT ![c] = @ + n]
        /\ wr' = [wr EXCEPT ![c] = SubSeq(@, n + 1, Len(@))]
    BY <1>11, <2>1, Amounts DEF Flush, TypeOK
  <2>3. heard[c] \o SubSeq(wr[c], 1, n) \in Seq(Lines) /\ SubSeq(wr[c], n + 1, Len(wr[c])) \in Seq(Lines)
    BY <2>2, Cut, ConcatProperties
  <2>4. /\ wr' \in [Conns -> Seq(Lines)] /\ heard' \in [Conns -> Seq(Lines)]
        /\ unread' \in [Conns -> 0..SockCap]
    BY <2>2, <2>3 DEF TypeOK
  <2> QED BY <1>11, <2>4 DEF Flush, TypeOK, clientVars, Goto
<1>12. CASE Broadcast(c)
  <2>1. PICK l : l = Line(c, Head(input[c]))
    OBVIOUS
  <2>2. l \in Lines /\ Tail(input[c]) \in Seq(1..MaxLines)
    BY <1>12, <2>1, HeadTailProperties DEF Broadcast, TypeOK, Line, Lines
  <2>3. PICK others \in SUBSET Conns : others = {peers[a] : a \in OtherAddresses(c)}
    <3>1. \A a \in OtherAddresses(c) : peers[a] \in Conns
      BY DEF TypeOK, OtherAddresses
    <3> QED BY <3>1
  <2>4. /\ input' = [input EXCEPT ![c] = Tail(@)]
        /\ rx' = [d \in Conns |-> IF d \in others THEN Append(rx[d], l) ELSE rx[d]]
        /\ Wake(others, "rx")
    BY <1>12, <2>1, <2>3 DEF Broadcast
  <2>5. input' \in [Conns -> Seq(1..MaxLines)] /\ rx' \in [Conns -> Seq(Lines)]
    BY <2>2, <2>4 DEF TypeOK
  <2> QED BY <1>12, <2>4, <2>5, WakeTypes DEF Broadcast, TypeOK, clientVars
<1>13. CASE ReadSleeps(c)
  BY <1>13, AwaitTypes DEF ReadSleeps, TypeOK, clientVars, Goto
<1>14. CASE Completes(c)
  BY <1>14 DEF Completes, TypeOK, Lives, clientVars, Goto
<1>15. CASE DropRemoves(c)
  <2>1. PICK cs \in SUBSET Conns :
            cs = {d \in Conns : addr[c] \in DOMAIN peers /\ d = peers[addr[c]]}
    OBVIOUS
  <2>2. Wake(cs, "rx")
    BY <1>15, <2>1 DEF DropRemoves
  <2> QED BY <1>15, <2>2, WakeTypes DEF DropRemoves, TypeOK, Lives, clientVars
<1>16. CASE DropFields(c)
  BY <1>16, EmptySeq DEF DropFields, TypeOK, Lives, clientVars
<1> QED BY <1>1, <1>2, <1>3, <1>4, <1>5, <1>6, <1>7, <1>8, <1>9, <1>10, <1>11, <1>12, <1>13,
           <1>14, <1>15, <1>16

LEMMA AddressedStep == ASSUME TypeOK, Addressed, [Next]_vars PROVE Addressed'
<1>1. CASE \E c \in Conns, a \in Addrs : Arrives(c, a)
  BY <1>1 DEF Arrives, TypeOK, Addressed
<1>2. CASE UNCHANGED addr /\ \A c \in Conns : life[c] = "none" <=> life'[c] = "none"
  BY <1>2 DEF Addressed
<1>3. CASE UNCHANGED vars
  BY <1>2, <1>3 DEF vars
<1>4. ASSUME NEW c \in Conns,
             \/ ClientSends(c) \/ ClientReads(c) \/ ClientCloses(c) \/ ClientResets(c)
             \/ Naming(c) \/ PollStarts(c) \/ Drain(c) \/ Flush(c) \/ Broadcast(c)
             \/ ReadSleeps(c) \/ Completes(c) \/ DropRemoves(c) \/ DropFields(c)
      PROVE  Addressed'
  <2>1. /\ UNCHANGED addr
        /\ \/ UNCHANGED life
           \/ /\ life[c] # "none"
              /\ \E l \in Lives \ {"none"} : life' = [life EXCEPT ![c] = l]
    BY <1>4 DEF ClientSends, ClientReads, ClientCloses, ClientResets, Naming, TakeName,
                LeaveNameless, AwaitName, PollStarts, Drain, Flush, Broadcast, ReadSleeps,
                Completes, DropRemoves, DropFields, clientVars, Lives
  <2> QED BY <1>2, <2>1 DEF TypeOK
<1> QED BY <1>1, <1>3, <1>4 DEF Next, Task, Client

\* TypeOK of every reachable state.
THEOREM TypeCorrectness == Spec => []TypeOK
<1>1. Init => TypeOK /\ Addressed
  BY InitTypeOK
<1>2. TypeOK /\ Addressed /\ [Next]_vars => TypeOK' /\ Addressed'
  BY TypeOKStep, AddressedStep
<1> QED BY <1>1, <1>2, PTL DEF Spec

-----------------------------------------------------------------------------
(* The map and the peers *)

\* An entry is of a connection from its address.
EntriesFit == \A a \in DOMAIN peers : addr[peers[a]] = a

\* The entry of a connection's address is its own.
InMap(c) == addr[c] \in DOMAIN peers /\ peers[addr[c]] = c

\* What drop() relies on: no two connections that the server still has come from
\* one address, so that each removes its own entry.
AddressesDiffer ==
    \A c, d \in Conns : Connected(c) /\ Connected(d) /\ addr[c] = addr[d] => c = d

\* The peers that are in the map are those between Peer::new and drop().
PeersInMap == \A c \in Conns : life[c] \in {"joined", "dropping"} <=> InMap(c)

Typed == TypeOK /\ Addressed
MapInv == EntriesFit /\ AddressesDiffer /\ PeersInMap

LEMMA TypedStep == ASSUME Typed, [Next]_vars PROVE Typed'
BY TypeOKStep, AddressedStep DEF Typed

LEMMA InitEntriesFit == Init => EntriesFit
<1>1. \A f : f = [a \in {} |-> a] => DOMAIN f = {}
  OBVIOUS
<1> QED BY <1>1 DEF Init, EntriesFit

\* The map and the addresses change in three actions only.
LEMMA MapKept ==
    ASSUME Typed, NEW c \in Conns,
           \/ ClientSends(c) \/ ClientReads(c) \/ ClientCloses(c) \/ ClientResets(c)
           \/ LeaveNameless(c) \/ AwaitName(c) \/ PollStarts(c) \/ Drain(c) \/ Flush(c)
           \/ Broadcast(c) \/ ReadSleeps(c) \/ Completes(c) \/ DropFields(c)
    PROVE  /\ UNCHANGED <<peers, addr>>
           /\ \A d \in Conns : d # c => life'[d] = life[d]
           /\ \/ UNCHANGED life
              \/ life[c] = "naming" /\ life'[c] = "gone"
              \/ life[c] = "joined" /\ life'[c] = "dropping"
              \/ life[c] = "removed" /\ life'[c] = "gone"
BY DEF ClientSends, ClientReads, ClientCloses, ClientResets, LeaveNameless, AwaitName,
       PollStarts, Drain, Flush, Broadcast, ReadSleeps, Completes, DropFields, clientVars,
       Typed, TypeOK

\* Next by what it does to the map.
LEMMA MapSteps ==
    ASSUME NEW P, [Next]_vars, UNCHANGED vars => P,
           \A c \in Conns :
               /\ \A a \in Addrs : Arrives(c, a) => P
               /\ TakeName(c) => P
               /\ DropRemoves(c) => P
               /\ \/ ClientSends(c) \/ ClientReads(c) \/ ClientCloses(c) \/ ClientResets(c)
                  \/ LeaveNameless(c) \/ AwaitName(c) \/ PollStarts(c) \/ Drain(c) \/ Flush(c)
                  \/ Broadcast(c) \/ ReadSleeps(c) \/ Completes(c) \/ DropFields(c)
                  => P
    PROVE  P
BY DEF Next, Task, Client, Naming

LEMMA EntriesFitStep == ASSUME Typed, EntriesFit, [Next]_vars PROVE EntriesFit'
<1> SUFFICES ASSUME NEW c \in Conns PROVE
        /\ \A a \in Addrs : Arrives(c, a) => EntriesFit'
        /\ TakeName(c) => EntriesFit'
        /\ DropRemoves(c) => EntriesFit'
        /\ \/ ClientSends(c) \/ ClientReads(c) \/ ClientCloses(c) \/ ClientResets(c)
           \/ LeaveNameless(c) \/ AwaitName(c) \/ PollStarts(c) \/ Drain(c) \/ Flush(c)
           \/ Broadcast(c) \/ ReadSleeps(c) \/ Completes(c) \/ DropFields(c)
           => EntriesFit'
  <2>1. UNCHANGED vars => EntriesFit'
    BY DEF vars, EntriesFit
  <2> QED BY <2>1, MapSteps, Zenon
<1>1. ASSUME NEW a \in Addrs, Arrives(c, a) PROVE EntriesFit'
  <2>1. /\ life[c] = "none" /\ UNCHANGED peers /\ addr' = [addr EXCEPT ![c] = a]
        /\ addr[c] \notin Addrs /\ DOMAIN peers \subseteq Addrs
        /\ \A b \in DOMAIN peers : peers[b] \in Conns
    BY <1>1 DEF Arrives, Typed, TypeOK, Addressed
  <2>2. \A b \in DOMAIN peers : peers[b] # c
    BY <2>1 DEF EntriesFit
  <2> QED BY <2>1, <2>2 DEF EntriesFit, Typed, TypeOK
<1>2. CASE TakeName(c)
  BY <1>2 DEF TakeName, Entered, EntriesFit, clientVars
<1>3. CASE DropRemoves(c)
  BY <1>3 DEF DropRemoves, EntriesFit, clientVars
<1> QED BY <1>1, <1>2, <1>3, MapKept DEF EntriesFit

LEMMA AddressesDifferStep ==
    ASSUME Typed, AddressesDiffer, AddressReuse = FALSE, [Next]_vars PROVE AddressesDiffer'
<1> SUFFICES ASSUME NEW c \in Conns PROVE
        /\ \A a \in Addrs : Arrives(c, a) => AddressesDiffer'
        /\ TakeName(c) => AddressesDiffer'
        /\ DropRemoves(c) => AddressesDiffer'
        /\ \/ ClientSends(c) \/ ClientReads(c) \/ ClientCloses(c) \/ ClientResets(c)
           \/ LeaveNameless(c) \/ AwaitName(c) \/ PollStarts(c) \/ Drain(c) \/ Flush(c)
           \/ Broadcast(c) \/ ReadSleeps(c) \/ Completes(c) \/ DropFields(c)
           => AddressesDiffer'
  <2>1. UNCHANGED vars => AddressesDiffer'
    BY DEF vars, AddressesDiffer, Connected
  <2> QED BY <2>1, MapSteps, Zenon
<1>1. ASSUME NEW a \in Addrs, Arrives(c, a) PROVE AddressesDiffer'
  <2>1. /\ life[c] = "none" /\ life' = [life EXCEPT ![c] = "naming"]
        /\ addr' = [addr EXCEPT ![c] = a]
        /\ \A d \in Conns : addr[d] = a => life[d] = "gone"
    BY <1>1 DEF Arrives, Free
  <2>2. addr'[c] = a /\ \A d \in Conns : d # c => addr'[d] = addr[d] /\ life'[d] = life[d]
    BY <2>1 DEF Typed, TypeOK
  <2> QED BY <2>1, <2>2 DEF AddressesDiffer, Connected
<1>2. ASSUME UNCHANGED addr, \A d \in Conns : Connected(d)' => Connected(d)
      PROVE  AddressesDiffer'
  BY <1>2 DEF AddressesDiffer
<1>3. CASE TakeName(c) \/ DropRemoves(c)
  <2>1. UNCHANGED addr /\ \A d \in Conns : Connected(d)' => Connected(d)
    BY <1>3 DEF TakeName, DropRemoves, Connected, clientVars, Typed, TypeOK
  <2> QED BY <1>2, <2>1
<1>4. CASE \/ ClientSends(c) \/ ClientReads(c) \/ ClientCloses(c) \/ ClientResets(c)
           \/ LeaveNameless(c) \/ AwaitName(c) \/ PollStarts(c) \/ Drain(c) \/ Flush(c)
           \/ Broadcast(c) \/ ReadSleeps(c) \/ Completes(c) \/ DropFields(c)
  <2>1. /\ UNCHANGED addr
        /\ \A d \in Conns : life'[d] = life[d] \/ (life[d] # "none" /\ life[d] # "gone")
    BY <1>4, MapKept
  <2> QED BY <1>2, <2>1 DEF Connected
<1> QED BY <1>1, <1>3, <1>4

LEMMA PeersInMapStep ==
    ASSUME Typed, MapInv, [Next]_vars PROVE PeersInMap'
<1> SUFFICES ASSUME NEW c \in Conns PROVE
        /\ \A a \in Addrs : Arrives(c, a) => PeersInMap'
        /\ TakeName(c) => PeersInMap'
        /\ DropRemoves(c) => PeersInMap'
        /\ \/ ClientSends(c) \/ ClientReads(c) \/ ClientCloses(c) \/ ClientResets(c)
           \/ LeaveNameless(c) \/ AwaitName(c) \/ PollStarts(c) \/ Drain(c) \/ Flush(c)
           \/ Broadcast(c) \/ ReadSleeps(c) \/ Completes(c) \/ DropFields(c)
           => PeersInMap'
  <2>1. UNCHANGED vars => PeersInMap'
    BY DEF vars, MapInv, PeersInMap, InMap
  <2> QED BY <2>1, MapSteps, Zenon
<1>1. ASSUME NEW a \in Addrs, Arrives(c, a) PROVE PeersInMap'
  <2>1. /\ life[c] = "none" /\ life' = [life EXCEPT ![c] = "naming"]
        /\ addr' = [addr EXCEPT ![c] = a] /\ UNCHANGED peers
    BY <1>1 DEF Arrives
  <2>2. addr'[c] = a /\ \A d \in Conns : d # c => addr'[d] = addr[d] /\ life'[d] = life[d]
    BY <2>1 DEF Typed, TypeOK
  <2>3. addr[c] \notin Addrs
    BY <2>1 DEF Typed, Addressed
  <2>4. \A b \in DOMAIN peers : peers[b] # c
    BY <2>3 DEF MapInv, EntriesFit, Typed, TypeOK
  <2>5. life'[c] = "naming" /\ ~InMap(c)'
    BY <2>1, <2>4 DEF Typed, TypeOK, InMap
  <2> QED BY <2>1, <2>2, <2>5 DEF MapInv, PeersInMap, InMap
<1>2. CASE TakeName(c)
  <2>1. /\ life[c] = "naming" /\ life' = [life EXCEPT ![c] = "joined"] /\ UNCHANGED addr
        /\ peers' = Entered(c)
    BY <1>2 DEF TakeName, clientVars
  <2>2. life'[c] = "joined" /\ InMap(c)'
    BY <2>1 DEF Typed, TypeOK, InMap, Entered
  <2>3. ASSUME NEW d \in Conns, d # c PROVE life'[d] \in {"joined", "dropping"} <=> InMap(d)'
    <3>1. life'[d] = life[d]
      BY <2>1, <2>3 DEF Typed, TypeOK
    <3>2. CASE addr[d] = addr[c]
      <4>1. ~Connected(d)
        BY <2>1, <2>3, <3>2 DEF MapInv, AddressesDiffer, Connected
      <4>2. ~InMap(d)'
        BY <2>1, <2>3, <3>2 DEF InMap, Entered
      <4> QED BY <3>1, <4>1, <4>2 DEF Connected
    <3>3. CASE addr[d] # addr[c]
      <4>1. InMap(d)' <=> InMap(d)
        BY <2>1, <3>3 DEF InMap, Entered
      <4> QED BY <3>1, <4>1 DEF MapInv, PeersInMap
    <3> QED BY <3>2, <3>3
  <2> QED BY <2>2, <2>3 DEF PeersInMap
<1>3. CASE DropRemoves(c)
  <2>1. /\ life[c] = "dropping" /\ life' = [life EXCEPT ![c] = "removed"] /\ UNCHANGED addr
        /\ peers' = [a \in DOMAIN peers \ {addr[c]} |-> peers[a]]
    BY <1>3 DEF DropRemoves, clientVars
  <2>2. life'[c] = "removed" /\ ~InMap(c)'
    BY <2>1 DEF Typed, TypeOK, InMap
  <2>3. ASSUME NEW d \in Conns, d # c PROVE life'[d] \in {"joined", "dropping"} <=> InMap(d)'
    <3>1. life'[d] = life[d]
      BY <2>1, <2>3 DEF Typed, TypeOK
    <3>2. CASE addr[d] = addr[c]
      <4>1. ~Connected(d)
        BY <2>1, <2>3, <3>2 DEF MapInv, AddressesDiffer, Connected
      <4>2. ~InMap(d)'
        BY <2>1, <3>2 DEF InMap
      <4> QED BY <3>1, <4>1, <4>2 DEF Connected
    <3>3. CASE addr[d] # addr[c]
      <4>1. InMap(d)' <=> InMap(d)
        BY <2>1, <3>3 DEF InMap
      <4> QED BY <3>1, <4>1 DEF MapInv, PeersInMap
    <3> QED BY <3>2, <3>3
  <2> QED BY <2>2, <2>3 DEF PeersInMap
<1>4. CASE \/ ClientSends(c) \/ ClientReads(c) \/ ClientCloses(c) \/ ClientResets(c)
           \/ LeaveNameless(c) \/ AwaitName(c) \/ PollStarts(c) \/ Drain(c) \/ Flush(c)
           \/ Broadcast(c) \/ ReadSleeps(c) \/ Completes(c) \/ DropFields(c)
  <2>1. /\ UNCHANGED <<peers, addr>>
        /\ \A d \in Conns : life'[d] \in {"joined", "dropping"}
                <=> life[d] \in {"joined", "dropping"}
    BY <1>4, MapKept
  <2> QED BY <2>1 DEF MapInv, PeersInMap, InMap
<1> QED BY <1>1, <1>2, <1>3, <1>4

LEMMA MapInvariance == AddressReuse = FALSE /\ Spec => [](Typed /\ MapInv)
<1> SUFFICES ASSUME AddressReuse = FALSE PROVE Spec => [](Typed /\ MapInv)
  OBVIOUS
<1>1. Init => Typed /\ MapInv
  <2>1. ASSUME Init PROVE DOMAIN peers = {} /\ \A c \in Conns : life[c] = "none"
    <3>1. \A f : f = [a \in {} |-> a] => DOMAIN f = {}
      OBVIOUS
    <3> QED BY <2>1, <3>1 DEF Init
  <2> QED BY <2>1, InitTypeOK, InitEntriesFit
          DEF Typed, MapInv, AddressesDiffer, Connected, PeersInMap, InMap
<1>2. Typed /\ MapInv /\ [Next]_vars => Typed' /\ MapInv'
  BY TypedStep, EntriesFitStep, AddressesDifferStep, PeersInMapStep DEF MapInv
<1> QED BY <1>1, <1>2, PTL DEF Spec

\* The entries of Shared.peers are of the peers that are between Peer::new and
\* drop(), and all of these have one, as long as no address comes back before its
\* old peer has been dropped: a send never meets a receiver that is gone.
THEOREM MapOfPeers == AddressReuse = FALSE /\ Spec => []MapFitsPeers
<1>1. Typed /\ MapInv => MapFitsPeers
  <2>1. ASSUME Typed, MapInv, NEW a \in DOMAIN peers PROVE life[peers[a]] \in {"joined", "dropping"}
    <3>1. peers[a] \in Conns /\ InMap(peers[a])
      BY <2>1 DEF MapInv, EntriesFit, InMap, Typed, TypeOK
    <3> QED BY <2>1, <3>1 DEF MapInv, PeersInMap
  <2>2. ASSUME Typed, MapInv, NEW c \in Conns, life[c] = "joined" PROVE c \in Reachable
    BY <2>2 DEF MapInv, PeersInMap, InMap, Reachable
  <2> QED BY <2>1, <2>2 DEF MapFitsPeers, RxOutlivesTx, EveryoneIsReachable
<1> QED BY <1>1, MapInvariance, PTL

-----------------------------------------------------------------------------
(* Wake-ups *)

Asleep(c) == life[c] = "joined" /\ c \notin notified

\* A peer that is not to be polled waits for all that could give it something to
\* do, from the step of its poll on that has looked for it in vain; rx it need not
\* wait for when no Tx is left.
Awaits(c) ==
    /\ Asleep(c) /\ pc[c] # "drain" => rx[c] = <<>> /\ (c \in Reachable => "rx" \in waits[c])
    /\ Asleep(c) /\ pc[c] \in {"read", "sleep"} /\ wr[c] # <<>> =>
          unread[c] = SockCap /\ "writable" \in waits[c]
    /\ Asleep(c) /\ pc[c] = "sleep" =>
          input[c] = <<>> /\ link[c] = "open" /\ "readable" \in waits[c]

WakeInv == \A c \in Conns : Awaits(c)

\* A peer that a step does nothing to.
LEMMA StillAwaits ==
    ASSUME NEW d \in Conns, Awaits(d),
           life'[d] = life[d], pc'[d] = pc[d], link'[d] = link[d], input'[d] = input[d],
           rx'[d] = rx[d], wr'[d] = wr[d], unread'[d] = unread[d],
           d \in notified => d \in notified',
           d \notin notified' => waits'[d] = waits[d],
           d \in Reachable' => d \in Reachable
    PROVE  Awaits(d)'
BY DEF Awaits, Asleep

\* Whom a Wake concerns is to be polled; the others wait as before.
LEMMA WakeWakes ==
    ASSUME Typed, NEW cs \in SUBSET Conns, NEW what, Wake(cs, what)
    PROVE  /\ notified \subseteq notified'
           /\ \A d \in cs : what \in waits[d] => d \in notified'
           /\ \A d \in Conns : d \notin notified' => waits'[d] = waits[d]
BY DEF Wake, Typed, TypeOK

\* What the client does.
LEMMA ClientWakes ==
    ASSUME Typed, WakeInv, NEW c \in Conns,
           ClientSends(c) \/ ClientReads(c) \/ ClientCloses(c) \/ ClientResets(c)
    PROVE  WakeInv'
<1>1. /\ UNCHANGED <<peers, life, pc, rx, wr>> /\ Reachable' = Reachable
      /\ \A d \in Conns : d # c =>
            link'[d] = link[d] /\ input'[d] = input[d] /\ unread'[d] = unread[d]
  BY DEF ClientSends, ClientReads, ClientCloses, ClientResets, Typed, TypeOK, Reachable
<1>2. /\ notified \subseteq notified'
      /\ \A d \in Conns : d # c \/ ~ClientResets(c) =>
            (d \notin notified' => waits'[d] = waits[d])
  <2>1. CASE ClientResets(c)
    BY <2>1 DEF ClientResets, Typed, TypeOK
  <2>2. CASE ~ClientResets(c)
    BY <2>2, WakeWakes DEF ClientSends, ClientReads, ClientCloses
  <2> QED BY <2>1, <2>2
<1>3. \A d \in Conns : d # c => Awaits(d)'
  BY <1>1, <1>2, StillAwaits DEF WakeInv
<1>4. CASE ClientSends(c) \/ ClientCloses(c)
  <2>1. "readable" \in waits[c] => c \in notified'
    BY <1>4, WakeWakes DEF ClientSends, ClientCloses
  <2>2. UNCHANGED unread
    BY <1>4 DEF ClientSends, ClientCloses
  <2>3. c \notin notified' => waits'[c] = waits[c] /\ c \notin notified
    <3>1. ~ClientResets(c)
      BY <1>4, <1>1 DEF ClientSends, ClientCloses, ClientResets, Typed, TypeOK
    <3> QED BY <1>2, <3>1
  <2>4. Awaits(c)'
    BY <1>1, <2>1, <2>2, <2>3 DEF WakeInv, Awaits, Asleep
  <2> QED BY <1>3, <2>4 DEF WakeInv
<1>5. CASE ClientReads(c)
  <2>1. "writable" \in waits[c] => c \in notified'
    BY <1>5, WakeWakes DEF ClientReads
  <2>2. UNCHANGED <<link, input>>
    BY <1>5 DEF ClientReads
  <2>3. c \notin notified' => waits'[c] = waits[c] /\ c \notin notified
    BY <1>5, WakeWakes DEF ClientReads
  <2>4. Awaits(c)'
    BY <1>1, <2>1, <2>2, <2>3 DEF WakeInv, Awaits, Asleep
  <2> QED BY <1>3, <2>4 DEF WakeInv
<1>6. CASE ClientResets(c)
  <2>1. "readable" \in waits[c] \/ "writable" \in waits[c] => c \in notified'
    BY <1>6 DEF ClientResets
  <2>2. UNCHANGED unread /\ ("rx" \in waits[c] => "rx" \in waits'[c])
    BY <1>6 DEF ClientResets, Typed, TypeOK
  <2>3. c \notin notified' => c \notin notified
    BY <1>2
  <2>4. Awaits(c)'
    BY <1>1, <2>1, <2>2, <2>3 DEF WakeInv, Awaits, Asleep
  <2> QED BY <1>3, <2>4 DEF WakeInv
<1> QED BY <1>4, <1>5, <1>6

\* Coming and going: before and after the polls there is nothing to wait for.
LEMMA ComingsWake ==
    ASSUME Typed, WakeInv, NEW c \in Conns,
           \/ \E a \in Addrs : Arrives(c, a)
           \/ LeaveNameless(c) \/ AwaitName(c) \/ TakeName(c)
           \/ Completes(c) \/ DropRemoves(c) \/ DropFields(c)
    PROVE  WakeInv'
<1>1. /\ UNCHANGED <<link, unread>>
      /\ \A d \in Conns : d # c =>
            life'[d] = life[d] /\ pc'[d] = pc[d] /\ input'[d] = input[d] /\ rx'[d] = rx[d]
            /\ wr'[d] = wr[d]
  BY DEF Arrives, LeaveNameless, AwaitName, TakeName, Completes, DropRemoves, DropFields, Goto,
         clientVars, Typed, TypeOK
<1>2. \A d \in Conns : d # c =>
          /\ d \in notified => d \in notified'
          /\ d \notin notified' => waits'[d] = waits[d]
  <2>1. CASE DropRemoves(c)
    <3>1. PICK cs \in SUBSET Conns :
              cs = {d \in Conns : addr[c] \in DOMAIN peers /\ d = peers[addr[c]]}
      OBVIOUS
    <3>2. Wake(cs, "rx")
      BY <2>1, <3>1 DEF DropRemoves
    <3> QED BY <3>2, WakeWakes
  <2>2. CASE ~DropRemoves(c)
    BY <2>2 DEF Arrives, LeaveNameless, AwaitName, Await, TakeName, Completes, DropFields,
                clientVars, Typed, TypeOK
  <2> QED BY <2>1, <2>2
<1>3. \A d \in Conns : d # c => (d \in Reachable' => d \in Reachable)
  <2>1. CASE TakeName(c)
    BY <2>1 DEF TakeName, Entered, Reachable
  <2>2. CASE DropRemoves(c)
    BY <2>2 DEF DropRemoves, Reachable
  <2>3. CASE ~TakeName(c) /\ ~DropRemoves(c)
    BY <2>3 DEF Arrives, LeaveNameless, AwaitName, Completes, DropFields, Reachable
  <2> QED BY <2>1, <2>2, <2>3
<1>4. \A d \in Conns : d # c => Awaits(d)'
  BY <1>1, <1>2, <1>3, StillAwaits DEF WakeInv
<1>5. life'[c] # "joined" \/ pc'[c] = "drain"
  BY DEF Arrives, LeaveNameless, AwaitName, TakeName, Completes, DropRemoves, DropFields, Goto,
         Typed, TypeOK
<1>6. Awaits(c)'
  BY <1>5 DEF Awaits, Asleep
<1> QED BY <1>4, <1>6 DEF WakeInv

\* The poll of a peer.
LEMMA PollWakes ==
    ASSUME Typed, WakeInv, NEW c \in Conns,
           PollStarts(c) \/ Drain(c) \/ Flush(c) \/ ReadSleeps(c)
    PROVE  WakeInv'
<1>1. /\ UNCHANGED <<peers, life, link, input>> /\ Reachable' = Reachable
      /\ \A d \in Conns : d # c =>
            /\ pc'[d] = pc[d] /\ rx'[d] = rx[d] /\ wr'[d] = wr[d] /\ unread'[d] = unread[d]
            /\ waits'[d] = waits[d] /\ (d \in notified' <=> d \in notified)
  <2>1. UNCHANGED <<peers, life, link, input>> /\ Reachable' = Reachable
    BY DEF PollStarts, Drain, Flush, ReadSleeps, clientVars, Reachable
  <2>2. CASE PollStarts(c)
    BY <2>1, <2>2 DEF PollStarts, Goto, clientVars, Typed, TypeOK
  <2>3. CASE Drain(c)
    BY <2>1, <2>3 DEF Drain, Goto, clientVars, Typed, TypeOK
  <2>4. CASE Flush(c)
    BY <2>1, <2>4 DEF Flush, Goto, clientVars, Typed, TypeOK
  <2>5. CASE ReadSleeps(c)
    BY <2>1, <2>5 DEF ReadSleeps, Goto, Await, clientVars, Typed, TypeOK
  <2> QED BY <2>1, <2>2, <2>3, <2>4, <2>5
<1>2. \A d \in Conns : d # c => Awaits(d)'
  BY <1>1, StillAwaits DEF WakeInv
<1>3. CASE PollStarts(c)
  <2>1. pc'[c] = "drain"
    BY <1>3 DEF PollStarts, Goto, Typed, TypeOK
  <2>2. Awaits(c)'
    BY <2>1 DEF Awaits
  <2> QED BY <1>2, <2>2 DEF WakeInv
<1>4. CASE Drain(c)
  <2>1. PICK n : n = Taken(c)
    OBVIOUS
  <2>2. /\ pc'[c] = "flush" /\ rx'[c] = SubSeq(rx[c], n + 1, Len(rx[c]))
        /\ n = LinesPerTick => c \in notified'
        /\ n # LinesPerTick /\ c \in Reachable => "rx" \in waits'[c]
        /\ n # LinesPerTick => n = Len(rx[c])
    <3>1. /\ Goto(c, "flush") /\ rx' = [rx EXCEPT ![c] = SubSeq(@, n + 1, Len(@))]
          /\ n = LinesPerTick => c \in notified'
          /\ n # LinesPerTick /\ c \in Reachable => waits' = [waits EXCEPT ![c] = @ \cup {"rx"}]
      BY <1>4, <2>1 DEF Drain, Taken, TickUsedUp
    <3>2. n # LinesPerTick => n = Len(rx[c])
      BY <2>1, Amounts DEF Typed
    <3>3. pc'[c] = "flush" /\ rx'[c] = SubSeq(rx[c], n + 1, Len(rx[c]))
      BY <3>1 DEF Goto, Typed, TypeOK
    <3>4. n # LinesPerTick /\ c \in Reachable => "rx" \in waits'[c]
      BY <3>1 DEF Typed, TypeOK
    <3> QED BY <3>1, <3>2, <3>3, <3>4
  <2>3. n # LinesPerTick => rx'[c] = <<>>
    <3>1. Len(rx[c]) \in Nat
      BY LenProperties DEF Typed, TypeOK
    <3> QED BY <2>2, <3>1, SubSeqEmpty
  <2>4. Awaits(c)'
    BY <1>1, <2>2, <2>3 DEF Awaits, Asleep
  <2> QED BY <1>2, <2>4 DEF WakeInv
<1>5. CASE Flush(c)
  <2>1. PICK n : n = Written(c)
    OBVIOUS
  <2>2. /\ pc[c] = "flush" /\ pc'[c] = "read" /\ wr'[c] = SubSeq(wr[c], n + 1, Len(wr[c]))
        /\ unread'[c] = unread[c] + n /\ UNCHANGED <<rx, notified>>
        /\ n < Len(wr[c]) => "writable" \in waits'[c]
        /\ "rx" \in waits[c] => "rx" \in waits'[c]
    BY <1>5, <2>1 DEF Flush, Goto, Typed, TypeOK
  <2>3. /\ Len(wr[c]) \in Nat /\ n \in 0..Len(wr[c])
        /\ n < Len(wr[c]) => unread[c] + n = SockCap
    BY <2>1, Amounts, LenProperties DEF Typed, TypeOK
  <2>4. n = Len(wr[c]) => wr'[c] = <<>>
    BY <2>2, <2>3, SubSeqEmpty
  <2>5. wr'[c] # <<>> => unread'[c] = SockCap /\ "writable" \in waits'[c]
    BY <2>2, <2>3, <2>4
  <2>6. Awaits(c)'
    BY <1>1, <2>2, <2>5 DEF WakeInv, Awaits, Asleep
  <2> QED BY <1>2, <2>6 DEF WakeInv
<1>6. CASE ReadSleeps(c)
  <2>1. /\ pc[c] = "read" /\ pc'[c] = "sleep" /\ link[c] = "open" /\ input[c] = <<>>
        /\ waits'[c] = waits[c] \cup {"readable"} /\ UNCHANGED <<notified, rx, wr, unread>>
    BY <1>6 DEF ReadSleeps, Goto, Await, Typed, TypeOK
  <2>2. Awaits(c)'
    BY <1>1, <2>1 DEF WakeInv, Awaits, Asleep
  <2> QED BY <1>2, <2>2 DEF WakeInv
<1> QED BY <1>3, <1>4, <1>5, <1>6

\* A line wakes those it is sent to.
LEMMA BroadcastWakes ==
    ASSUME Typed, WakeInv, NEW c \in Conns, Broadcast(c)
    PROVE  WakeInv'
<1>1. PICK others : others = {peers[a] : a \in OtherAddresses(c)}
  OBVIOUS
<1>2. others \subseteq Reachable /\ others \in SUBSET Conns
  <2>1. others \subseteq Reachable
    BY <1>1 DEF Reachable, OtherAddresses
  <2>2. \A a \in DOMAIN peers : peers[a] \in Conns
    BY DEF Typed, TypeOK
  <2> QED BY <2>1, <2>2 DEF Reachable
<1>3. /\ pc[c] = "read" /\ UNCHANGED <<peers, life, pc, link, wr, unread>>
      /\ Wake(others, "rx") /\ input' = [input EXCEPT ![c] = Tail(@)]
      /\ \A d \in Conns \ others : rx'[d] = rx[d]
  BY <1>1 DEF Broadcast, clientVars
<1>4. Reachable' = Reachable /\ \A d \in Conns : d # c => input'[d] = input[d]
  BY <1>3 DEF Reachable, Typed, TypeOK
<1>5. /\ notified \subseteq notified'
      /\ \A d \in others : "rx" \in waits[d] => d \in notified'
      /\ \A d \in Conns : d \notin notified' => waits'[d] = waits[d]
  BY <1>2, <1>3, WakeWakes
<1>6. ASSUME NEW d \in Conns PROVE Awaits(d)'
  <2>1. CASE d \in others
    <3>1. Asleep(d) /\ pc[d] # "drain" => d \in notified'
      BY <1>2, <1>5, <2>1 DEF WakeInv, Awaits
    <3>2. Asleep(d)' => Asleep(d)
      BY <1>3, <1>5 DEF Asleep
    <3>3. Asleep(d)' => pc'[d] = "drain" /\ pc[d] = "drain"
      BY <1>3, <3>1, <3>2 DEF Asleep
    <3> QED BY <3>3 DEF Awaits
  <2>2. CASE d \notin others
    BY <1>3, <1>4, <1>5, <2>2 DEF WakeInv, Awaits, Asleep
  <2> QED BY <2>1, <2>2
<1> QED BY <1>6 DEF WakeInv

LEMMA WakeInvStep == ASSUME Typed, WakeInv, [Next]_vars PROVE WakeInv'
<1>1. CASE UNCHANGED vars
  BY <1>1 DEF vars, WakeInv, Awaits, Asleep, Reachable
<1>2. CASE \E c \in Conns : Client(c)
  BY <1>2, ClientWakes, ComingsWake DEF Client
<1>3. CASE \E c \in Conns : Task(c)
  BY <1>3, ComingsWake, PollWakes, BroadcastWakes DEF Task, Naming
<1> QED BY <1>1, <1>2, <1>3 DEF Next

\* No wake-up is lost, whatever the threads, the clients and the kernel do between
\* the looks of a poll and its NotReady, and also when addresses are used again: a
\* peer that nobody will poll has nothing to do.
THEOREM NoLostWakeUp == Spec => []SleepersAreDone
<1>1. Init => Typed /\ WakeInv
  BY InitTypeOK DEF Init, Typed, WakeInv, Awaits, Asleep
<1>2. Typed /\ WakeInv /\ [Next]_vars => Typed' /\ WakeInv'
  BY TypedStep, WakeInvStep
<1>3. WakeInv => SleepersAreDone
  BY DEF WakeInv, Awaits, Asleep, SleepersAreDone
<1> QED BY <1>1, <1>2, <1>3, PTL DEF Spec

-----------------------------------------------------------------------------
(* One conversation *)

\* A client's lines wait to be read in the order it has sent them.
InputInOrder ==
    \A c \in Conns : \A i \in DOMAIN input[c] :
        /\ input[c][i] <= sent[c]
        /\ \A j \in DOMAIN input[c] : i < j => input[c][i] < input[c][j]

\* What a client was sent, or will be, is of others, and was read before whatever
\* of its sender still waits.
FeedsFresh ==
    \A c \in Conns : \A i \in DOMAIN Feed(c) :
        /\ Feed(c)[i].from # c
        /\ Feed(c)[i].n <= sent[Feed(c)[i].from]
        /\ \A j \in DOMAIN input[Feed(c)[i].from] : Feed(c)[i].n < input[Feed(c)[i].from][j]

ConversationInv == EntriesFit /\ InputInOrder /\ FeedsFresh /\ SameConversation

LEMMA FeedTypes ==
    ASSUME Typed, NEW c \in Conns
    PROVE  /\ Feed(c) \in Seq(Lines) /\ Len(Feed(c)) \in Nat /\ DOMAIN Feed(c) = 1..Len(Feed(c))
           /\ \A i \in DOMAIN Feed(c) : Feed(c)[i] \in Lines
<1>1. Feed(c) \in Seq(Lines)
  BY ConcatProperties DEF Typed, TypeOK, Feed
<1> QED BY <1>1, LenProperties, ElementOfSeq

\* What is cut in two and put together again.
LEMMA Halves ==
    ASSUME NEW S, NEW s \in Seq(S), NEW n \in 0..Len(s)
    PROVE  s = SubSeq(s, 1, n) \o SubSeq(s, n + 1, Len(s))
<1>1. Len(s) \in Nat
  BY LenProperties
<1>2. 1 \in 1..Len(s) + 1 /\ n \in (1 - 1)..Len(s) /\ Len(s) \in n..Len(s)
  BY <1>1
<1>3. SubSeq(s, 1, n) \o SubSeq(s, n + 1, Len(s)) = SubSeq(s, 1, Len(s))
  BY <1>2, ConcatAdjacentSubSeq
<1> QED BY <1>3, SubSeqFull

LEMMA Regroup ==
    ASSUME NEW S, NEW s \in Seq(S), NEW t \in Seq(S), NEW u \in Seq(S)
    PROVE  s \o (t \o u) = (s \o t) \o u
BY ConcatAssociative

\* The steps of a peer that move lines keep its feed as it is.
LEMMA DrainKeepsFeed ==
    ASSUME Typed, NEW c \in Conns, Drain(c), NEW d \in Conns PROVE Feed(d)' = Feed(d)
<1>1. PICK n : n = Taken(c)
  OBVIOUS
<1>2. /\ UNCHANGED heard
      /\ wr' = [wr EXCEPT ![c] = @ \o SubSeq(rx[c], 1, n)]
      /\ rx' = [rx EXCEPT ![c] = SubSeq(@, n + 1, Len(@))]
  BY <1>1 DEF Drain, Taken
<1>3. n \in 0..Len(rx[c])
  BY <1>1, Amounts DEF Typed
<1>4. CASE d # c
  BY <1>2, <1>4 DEF Feed, Typed, TypeOK
<1>5. CASE d = c
  <2>1. PICK h \in Seq(Lines), w \in Seq(Lines), r \in Seq(Lines) :
            h = heard[c] /\ w = wr[c] /\ r = rx[c]
    BY DEF Typed, TypeOK
  <2>2. PICK a \in Seq(Lines), b \in Seq(Lines) :
            a = SubSeq(r, 1, n) /\ b = SubSeq(r, n + 1, Len(r))
    BY <1>3, <2>1, Cut
  <2>3. r = a \o b
    <3>1. n \in 0..Len(r)
      BY <1>3, <2>1
    <3> QED BY <2>2, <3>1, Halves
  <2>4. PICK hw \in Seq(Lines) : hw = h \o w
    BY ConcatProperties
  <2>5. h \o (w \o a) = hw \o a
    <3>1. h \o (w \o a) = (h \o w) \o a
      BY Regroup, SMTT(30)
    <3> QED BY <2>4, <3>1
  <2>6. hw \o (a \o b) = (hw \o a) \o b
    BY Regroup, SMTT(30)
  <2>7. wr'[c] = w \o a /\ rx'[c] = b /\ heard'[c] = h
    <3>1. wr'[c] = wr[c] \o SubSeq(rx[c], 1, n) /\ rx'[c] = SubSeq(rx[c], n + 1, Len(rx[c]))
      BY <1>2 DEF Typed, TypeOK
    <3> QED BY <1>2, <2>1, <2>2, <3>1
  <2> QED BY <1>5, <2>1, <2>3, <2>4, <2>5, <2>6, <2>7 DEF Feed
<1> QED BY <1>4, <1>5

LEMMA FlushKeepsFeed ==
    ASSUME Typed, NEW c \in Conns, Flush(c), NEW d \in Conns PROVE Feed(d)' = Feed(d)
<1>1. PICK n : n = Written(c)
  OBVIOUS
<1>2. /\ UNCHANGED rx
      /\ heard' = [heard EXCEPT ![c] = @ \o SubSeq(wr[c], 1, n)]
      /\ wr' = [wr EXCEPT ![c] = SubSeq(@, n + 1, Len(@))]
  BY <1>1 DEF Flush
<1>3. n \in 0..Len(wr[c])
  BY <1>1, Amounts DEF Typed
<1>4. CASE d # c
  BY <1>2, <1>4 DEF Feed, Typed, TypeOK
<1>5. CASE d = c
  <2>1. PICK h \in Seq(Lines), w \in Seq(Lines) : h = heard[c] /\ w = wr[c]
    BY DEF Typed, TypeOK
  <2>2. PICK a \in Seq(Lines), b \in Seq(Lines) :
            a = SubSeq(w, 1, n) /\ b = SubSeq(w, n + 1, Len(w))
    BY <1>3, <2>1, Cut
  <2>3. w = a \o b
    BY <1>3, <2>1, <2>2, Halves
  <2>4. h \o (a \o b) = (h \o a) \o b
    BY Regroup, SMTT(30)
  <2>5. heard'[c] = h \o a /\ wr'[c] = b /\ rx'[c] = rx[c]
    BY <1>2, <2>1, <2>2 DEF Typed, TypeOK
  <2> QED BY <1>5, <2>1, <2>3, <2>4, <2>5 DEF Feed
<1> QED BY <1>4, <1>5

\* Every step but that of a line makes no feed longer, and changes nothing in it.
LEMMA FeedsDoNotGrow ==
    ASSUME Typed, [Next]_vars, \A c \in Conns : ~Broadcast(c), NEW d \in Conns
    PROVE  /\ DOMAIN (Feed(d)') \subseteq DOMAIN Feed(d)
           /\ \A i \in DOMAIN (Feed(d)') : Feed(d)'[i] = Feed(d)[i]
<1>1. CASE UNCHANGED <<heard, wr, rx>>
  BY <1>1 DEF Feed
<1>2. CASE UNCHANGED vars
  BY <1>1, <1>2 DEF vars
<1>3. ASSUME NEW c \in Conns, Drain(c) \/ Flush(c)
      PROVE  Feed(d)' = Feed(d)
  BY <1>3, DrainKeepsFeed, FlushKeepsFeed
<1>4. ASSUME NEW c \in Conns, DropFields(c)
      PROVE  /\ DOMAIN (Feed(d)') \subseteq DOMAIN Feed(d)
             /\ \A i \in DOMAIN (Feed(d)') : Feed(d)'[i] = Feed(d)[i]
  <2>1. /\ UNCHANGED heard /\ rx' = [rx EXCEPT ![c] = <<>>] /\ wr' = [wr EXCEPT ![c] = <<>>]
    BY <1>4 DEF DropFields
  <2>2. CASE d # c
    BY <2>1, <2>2 DEF Feed, Typed, TypeOK
  <2>3. CASE d = c
    <3>1. rx'[c] = <<>> /\ wr'[c] = <<>>
      BY <2>1 DEF Typed, TypeOK
    <3>2. PICK h \in Seq(Lines), w \in Seq(Lines), r \in Seq(Lines) :
              h = heard[c] /\ w = wr[c] /\ r = rx[c]
      BY DEF Typed, TypeOK
    <3>3. Feed(d)' = h
      <4>1. (h \o <<>>) \o <<>> = h
        BY ConcatEmptySeq
      <4> QED BY <2>1, <2>3, <3>1, <3>2, <4>1 DEF Feed
    <3>4. PICK rest \in Seq(Lines) : rest = w \o r
      BY ConcatProperties
    <3>5. Feed(d) = h \o rest
      <4>1. h \o rest = (h \o w) \o r
        BY <3>4, Regroup, SMTT(30)
      <4> QED BY <2>3, <3>2, <4>1 DEF Feed
    <3>6. Len(h) \in Nat /\ Len(rest) \in Nat /\ DOMAIN h = 1..Len(h)
      BY LenProperties
    <3>7. Len(Feed(d)) = Len(h) + Len(rest)
      BY <3>5, ConcatProperties
    <3>8. \A i \in 1..Len(h) + Len(rest) : i <= Len(h) => (h \o rest)[i] = h[i]
      BY ConcatProperties
    <3> QED BY <3>3, <3>5, <3>6, <3>7, <3>8, FeedTypes
  <2> QED BY <2>2, <2>3
<1>5. ASSUME NEW c \in Conns, Client(c) \/ Naming(c) \/ PollStarts(c) \/ ReadSleeps(c)
                              \/ Completes(c) \/ DropRemoves(c)
      PROVE  UNCHANGED <<heard, wr, rx>>
  BY <1>5 DEF Client, Arrives, ClientSends, ClientReads, ClientCloses, ClientResets, Naming,
              TakeName, LeaveNameless, AwaitName, PollStarts, ReadSleeps, Completes, DropRemoves
<1> QED BY <1>1, <1>2, <1>3, <1>4, <1>5 DEF Next, Task

\* A line is new to everybody it is sent to, and its sender is not one of them.
LEMMA BroadcastAppends ==
    ASSUME Typed, ConversationInv, NEW c \in Conns, Broadcast(c)
    PROVE  \E l \in Lines :
              /\ l.from = c /\ l.n = Head(input[c])
              /\ Feed(c)' = Feed(c)
              /\ \A d \in Conns : Feed(d)' \in {Feed(d), Append(Feed(d), l)}
<1>1. PICK l, others : l = Line(c, Head(input[c])) /\ others = {peers[a] : a \in OtherAddresses(c)}
  OBVIOUS
<1>2. input[c] \in Seq(1..MaxLines) /\ input[c] # <<>>
  BY DEF Broadcast, Typed, TypeOK
<1>3. Head(input[c]) \in 1..MaxLines
  BY <1>2, HeadTailProperties
<1>4. l \in Lines /\ l.from = c /\ l.n = Head(input[c])
  BY <1>1, <1>3 DEF Line, Lines
<1>5. c \notin others
  BY <1>1 DEF OtherAddresses, ConversationInv, EntriesFit
<1>6. /\ rx' = [d \in Conns |-> IF d \in others THEN Append(rx[d], l) ELSE rx[d]]
      /\ UNCHANGED <<heard, wr>>
  BY <1>1 DEF Broadcast
<1>7. ASSUME NEW d \in Conns, d \notin others PROVE Feed(d)' = Feed(d)
  BY <1>6, <1>7 DEF Feed
<1>8. ASSUME NEW d \in Conns, d \in others PROVE Feed(d)' = Append(Feed(d), l)
  <2>1. PICK h \in Seq(Lines), w \in Seq(Lines), r \in Seq(Lines) :
            h = heard[d] /\ w = wr[d] /\ r = rx[d]
    BY DEF Typed, TypeOK
  <2>2. PICK hw \in Seq(Lines) : hw = h \o w
    BY ConcatProperties
  <2>3. <<l>> \in Seq(Lines)
    BY <1>4
  <2>4. hw \o Append(r, l) = Append(hw \o r, l)
    <3>1. Append(r, l) = r \o <<l>> /\ hw \o r \in Seq(Lines)
      BY <1>4, AppendIsConcat, ConcatProperties
    <3>2. hw \o (r \o <<l>>) = (hw \o r) \o <<l>>
      BY <2>3, Regroup, SMTT(30)
    <3> QED BY <1>4, <3>1, <3>2, AppendIsConcat
  <2>5. rx'[d] = Append(r, l) /\ heard'[d] = h /\ wr'[d] = w
    BY <1>6, <1>8, <2>1
  <2> QED BY <2>1, <2>2, <2>4, <2>5 DEF Feed
<1> QED BY <1>4, <1>5, <1>7, <1>8

\* Nothing but the client adds to what waits to be read; it goes from the front.
LEMMA InputMoves ==
    ASSUME Typed, [Next]_vars, \A c \in Conns : ~ClientSends(c), NEW d \in Conns
    PROVE  /\ UNCHANGED sent
           /\ \E k \in Nat : \A j \in DOMAIN (input'[d]) :
                 j + k \in DOMAIN input[d] /\ input'[d][j] = input[d][j + k]
<1>1. /\ input[d] \in Seq(1..MaxLines) /\ Len(input[d]) \in Nat
      /\ DOMAIN input[d] = 1..Len(input[d])
  BY LenProperties DEF Typed, TypeOK
<1>2. CASE UNCHANGED <<sent, input>>
  <2>1. \A j \in DOMAIN input[d] : j + 0 = j
    BY <1>1
  <2>2. \A j \in DOMAIN (input'[d]) : j + 0 \in DOMAIN input[d] /\ input'[d][j] = input[d][j + 0]
    BY <1>2, <2>1
  <2> QED BY <1>2, <2>2
<1>3. CASE UNCHANGED vars
  BY <1>2, <1>3 DEF vars
<1>4. ASSUME NEW c \in Conns, TakeName(c) \/ Broadcast(c)
      PROVE  /\ UNCHANGED sent
             /\ \E k \in Nat : \A j \in DOMAIN (input'[d]) :
                   j + k \in DOMAIN input[d] /\ input'[d][j] = input[d][j + k]
  <2>1. UNCHANGED sent /\ input[c] # <<>> /\ input' = [input EXCEPT ![c] = Tail(@)]
    BY <1>4 DEF TakeName, Broadcast, clientVars
  <2>2. CASE d # c
    <3>1. input'[d] = input[d] /\ \A j \in DOMAIN input[d] : j + 0 = j
      BY <1>1, <2>1, <2>2 DEF Typed, TypeOK
    <3>2. \A j \in DOMAIN (input'[d]) : j + 0 \in DOMAIN input[d] /\ input'[d][j] = input[d][j + 0]
      BY <3>1
    <3> QED BY <2>1, <3>2
  <2>3. CASE d = c
    <3>1. input'[d] = Tail(input[d]) /\ input[d] # <<>>
      BY <2>1, <2>3 DEF Typed, TypeOK
    <3>2. /\ Tail(input[d]) \in Seq(1..MaxLines) /\ Len(Tail(input[d])) = Len(input[d]) - 1
          /\ \A j \in 1..Len(Tail(input[d])) : Tail(input[d])[j] = input[d][j + 1]
      BY <1>1, <3>1, HeadTailProperties
    <3>3. DOMAIN Tail(input[d]) = 1..Len(Tail(input[d]))
      BY <3>2, LenProperties
    <3>4. \A j \in DOMAIN (input'[d]) : j + 1 \in DOMAIN input[d] /\ input'[d][j] = input[d][j + 1]
      BY <1>1, <3>1, <3>2, <3>3
    <3> QED BY <2>1, <3>4
  <2> QED BY <2>2, <2>3
<1>5. ASSUME NEW c \in Conns, ClientResets(c)
      PROVE  /\ UNCHANGED sent
             /\ \E k \in Nat : \A j \in DOMAIN (input'[d]) :
                   j + k \in DOMAIN input[d] /\ input'[d][j] = input[d][j + k]
  <2>1. UNCHANGED sent /\ input' = [input EXCEPT ![c] = <<>>]
    BY <1>5 DEF ClientResets
  <2>2. input'[d] = input[d] \/ DOMAIN (input'[d]) = {}
    BY <2>1 DEF Typed, TypeOK
  <2>3. \A j \in DOMAIN input[d] : j + 0 = j
    BY <1>1
  <2>4. \A j \in DOMAIN (input'[d]) : j + 0 \in DOMAIN input[d] /\ input'[d][j] = input[d][j + 0]
    BY <2>2, <2>3
  <2> QED BY <2>1, <2>4
<1>6. ASSUME NEW c \in Conns,
             \/ \E a \in Addrs : Arrives(c, a)
             \/ ClientReads(c) \/ ClientCloses(c) \/ LeaveNameless(c) \/ AwaitName(c)
             \/ PollStarts(c) \/ Drain(c) \/ Flush(c) \/ ReadSleeps(c) \/ Completes(c)
             \/ DropRemoves(c) \/ DropFields(c)
      PROVE  UNCHANGED <<sent, input>>
  BY <1>6 DEF Arrives, ClientReads, ClientCloses, LeaveNameless, AwaitName, PollStarts, Drain,
              Flush, ReadSleeps, Completes, DropRemoves, DropFields, clientVars
<1> QED BY <1>2, <1>3, <1>4, <1>5, <1>6 DEF Next, Task, Client, Naming

LEMMA InputTypes ==
    ASSUME Typed, NEW c \in Conns
    PROVE  /\ DOMAIN input[c] \subseteq Nat \ {0} /\ sent[c] \in Nat
           /\ \A i \in DOMAIN input[c] : input[c][i] \in Nat
<1>1. input[c] \in Seq(1..MaxLines) /\ sent[c] \in 0..MaxLines /\ MaxLines \in Nat
  BY ConstantsAssumption DEF Typed, TypeOK
<1>2. DOMAIN input[c] = 1..Len(input[c]) /\ Len(input[c]) \in Nat
  BY <1>1, LenProperties
<1>3. \A i \in 1..Len(input[c]) : input[c][i] \in 1..MaxLines
  BY <1>1, ElementOfSeq
<1> QED BY <1>1, <1>2, <1>3

\* What a client sends goes to the end of what waits.
LEMMA SendAppends ==
    ASSUME Typed, NEW c \in Conns, ClientSends(c)
    PROVE  /\ sent'[c] = sent[c] + 1 /\ \A d \in Conns : d # c => sent'[d] = sent[d]
           /\ \A d \in Conns : d # c => input'[d] = input[d]
           /\ \A j \in DOMAIN (input'[c]) :
                 \/ j \in DOMAIN input[c] /\ input'[c][j] = input[c][j]
                 \/ /\ \A i \in DOMAIN input[c] : i < j
                    /\ input'[c][j] = sent[c] + 1
                    /\ \A i \in DOMAIN (input'[c]) : i <= j
<1>1. /\ sent' = [sent EXCEPT ![c] = @ + 1]
      /\ input' = [input EXCEPT ![c] = Append(@, sent[c] + 1)]
  BY DEF ClientSends
<1>2. input[c] \in Seq(Nat) /\ sent[c] + 1 \in Nat
  <2>1. PICK s \in Seq(1..MaxLines) : s = input[c]
    BY DEF Typed, TypeOK
  <2>2. 1..MaxLines \subseteq Nat /\ sent[c] \in Nat
    BY InputTypes DEF Typed, TypeOK
  <2>3. s \in Seq(Nat)
    BY <2>2, SeqMonotonic
  <2> QED BY <2>1, <2>2, <2>3
<1>3. /\ Append(input[c], sent[c] + 1) \in Seq(Nat)
      /\ Len(Append(input[c], sent[c] + 1)) = Len(input[c]) + 1
      /\ \A i \in 1..Len(input[c]) : Append(input[c], sent[c] + 1)[i] = input[c][i]
      /\ Append(input[c], sent[c] + 1)[Len(input[c]) + 1] = sent[c] + 1
  BY <1>2, AppendProperties
<1>4. /\ Len(input[c]) \in Nat /\ DOMAIN input[c] = 1..Len(input[c])
      /\ DOMAIN Append(input[c], sent[c] + 1) = 1..(Len(input[c]) + 1)
  BY <1>2, <1>3, LenProperties
<1>5. input'[c] = Append(input[c], sent[c] + 1) /\ sent'[c] = sent[c] + 1
  BY <1>1 DEF Typed, TypeOK
<1>6. \A d \in Conns : d # c => sent'[d] = sent[d] /\ input'[d] = input[d]
  BY <1>1 DEF Typed, TypeOK
<1>7. ASSUME NEW j \in DOMAIN (input'[c])
      PROVE  \/ j \in DOMAIN input[c] /\ input'[c][j] = input[c][j]
             \/ /\ \A i \in DOMAIN input[c] : i < j
                /\ input'[c][j] = sent[c] + 1
                /\ \A i \in DOMAIN (input'[c]) : i <= j
  <2>1. PICK n \in Nat : n = Len(input[c])
    BY <1>4
  <2>2. DOMAIN (input'[c]) = 1..(n + 1) /\ DOMAIN input[c] = 1..n
    BY <1>4, <1>5, <2>1
  <2>3. CASE j \in 1..n
    BY <1>3, <1>5, <2>1, <2>2, <2>3
  <2>4. CASE j \notin 1..n
    <3>1. j = n + 1
      BY <1>7, <2>1, <2>2, <2>4
    <3>2. input'[c][j] = sent[c] + 1
      BY <1>3, <1>5, <2>1, <3>1
    <3> QED BY <2>1, <2>2, <3>1, <3>2
  <2> QED BY <2>3, <2>4
<1> QED BY <1>5, <1>6, <1>7

LEMMA InputPlaces ==
    ASSUME Typed, [Next]_vars, NEW c \in Conns PROVE DOMAIN (input'[c]) \subseteq Nat
<1>1. PICK s \in Seq(1..MaxLines) : s = input'[c]
  BY TypedStep DEF Typed, TypeOK
<1>2. DOMAIN s = 1..Len(s) /\ Len(s) \in Nat
  BY LenProperties
<1> QED BY <1>1, <1>2

LEMMA InputInOrderStep == ASSUME Typed, InputInOrder, [Next]_vars PROVE InputInOrder'
<1>1. CASE \A c \in Conns : ~ClientSends(c)
  <2>1. ASSUME NEW d \in Conns, NEW i \in DOMAIN (input'[d])
        PROVE  /\ input'[d][i] <= sent'[d]
               /\ \A j \in DOMAIN (input'[d]) : i < j => input'[d][i] < input'[d][j]
    <3>1. PICK k \in Nat : \A j \in DOMAIN (input'[d]) :
              j + k \in DOMAIN input[d] /\ input'[d][j] = input[d][j + k]
      BY <1>1, InputMoves
    <3>2. UNCHANGED sent
      BY <1>1, InputMoves
    <3>3. DOMAIN (input'[d]) \subseteq Nat
      BY InputPlaces
    <3>4. input'[d][i] <= sent'[d]
      BY <3>1, <3>2 DEF InputInOrder
    <3>5. ASSUME NEW j \in DOMAIN (input'[d]), i < j PROVE input'[d][i] < input'[d][j]
      <4>1. i + k < j + k
        BY <3>3, <3>5
      <4> QED BY <3>1, <4>1 DEF InputInOrder
    <3> QED BY <3>4, <3>5
  <2> QED BY <2>1 DEF InputInOrder
<1>2. ASSUME NEW c \in Conns, ClientSends(c) PROVE InputInOrder'
  <2>1. \A d \in Conns : d # c => input'[d] = input[d] /\ sent'[d] = sent[d]
    BY <1>2, SendAppends
  <2>2. /\ sent'[c] = sent[c] + 1 /\ sent[c] \in Nat
        /\ \A i \in DOMAIN input[c] : input[c][i] \in Nat
        /\ DOMAIN (input'[c]) \subseteq Nat /\ DOMAIN input[c] \subseteq Nat
    BY <1>2, SendAppends, InputTypes, InputPlaces
  <2>3. ASSUME NEW i \in DOMAIN (input'[c])
        PROVE  /\ input'[c][i] <= sent'[c]
               /\ \A j \in DOMAIN (input'[c]) : i < j => input'[c][i] < input'[c][j]
    <3>1. CASE i \in DOMAIN input[c] /\ input'[c][i] = input[c][i]
      <4>1. input[c][i] <= sent[c] /\ input[c][i] \in Nat
        BY <2>2, <3>1 DEF InputInOrder
      <4>2. ASSUME NEW j \in DOMAIN (input'[c]), i < j PROVE input'[c][i] < input'[c][j]
        <5>1. CASE j \in DOMAIN input[c] /\ input'[c][j] = input[c][j]
          BY <3>1, <4>2, <5>1 DEF InputInOrder
        <5>2. CASE input'[c][j] = sent[c] + 1
          BY <2>2, <3>1, <4>1, <5>2
        <5> QED BY <1>2, <5>1, <5>2, SendAppends
      <4> QED BY <2>2, <3>1, <4>1, <4>2
    <3>2. CASE input'[c][i] = sent[c] + 1 /\ \A j \in DOMAIN (input'[c]) : j <= i
      BY <2>2, <3>2
    <3> QED BY <1>2, <3>1, <3>2, SendAppends
  <2> QED BY <2>1, <2>3 DEF InputInOrder
<1> QED BY <1>1, <1>2

\* The lines of a feed, and what waits, when nothing is broadcast.
LEMMA FeedsFreshQuiet ==
    ASSUME Typed, ConversationInv, [Next]_vars, \A c \in Conns : ~Broadcast(c)
    PROVE  FeedsFresh'
<1>1. ASSUME NEW d \in Conns, NEW i \in DOMAIN (Feed(d)'), NEW l, l = Feed(d)'[i]
      PROVE  /\ l.from # d /\ l.n <= sent'[l.from]
             /\ \A j \in DOMAIN (input'[l.from]) : l.n < input'[l.from][j]
  <2>1. i \in DOMAIN Feed(d) /\ l = Feed(d)[i]
    BY <1>1, FeedsDoNotGrow
  <2>2. l \in Lines
    BY <2>1, FeedTypes
  <2>3. PICK s \in Conns : s = l.from
    BY <2>2 DEF Lines
  <2>4. l.n \in Nat
    BY <2>2, ConstantsAssumption DEF Lines
  <2>5. /\ l.from # d /\ l.n <= sent[s]
        /\ \A j \in DOMAIN input[s] : l.n < input[s][j]
    BY <2>1, <2>3 DEF ConversationInv, FeedsFresh
  <2>6. CASE \A c \in Conns : ~ClientSends(c)
    <3>1. UNCHANGED sent
      BY <2>6, InputMoves
    <3>2. PICK k \in Nat : \A j \in DOMAIN (input'[s]) :
              j + k \in DOMAIN input[s] /\ input'[s][j] = input[s][j + k]
      BY <2>6, InputMoves
    <3> QED BY <2>3, <2>5, <3>1, <3>2
  <2>7. ASSUME NEW c \in Conns, ClientSends(c)
        PROVE  l.n <= sent'[s] /\ \A j \in DOMAIN (input'[s]) : l.n < input'[s][j]
    <3>1. CASE s # c
      BY <2>5, <2>7, <3>1, SendAppends
    <3>2. CASE s = c
      <4>1. sent'[s] = sent[s] + 1 /\ sent[s] \in Nat
        BY <2>7, <3>2, SendAppends, InputTypes
      <4>2. l.n <= sent[s] + 1 /\ l.n < sent[s] + 1
        BY <2>4, <2>5, <4>1
      <4>3. \A j \in DOMAIN (input'[s]) :
                (j \in DOMAIN input[s] /\ input'[s][j] = input[s][j]) \/ input'[s][j] = sent[s] + 1
        BY <2>7, <3>2, SendAppends
      <4> QED BY <2>5, <4>1, <4>2, <4>3
    <3> QED BY <3>1, <3>2
  <2> QED BY <2>3, <2>5, <2>6, <2>7
<1> QED BY <1>1 DEF FeedsFresh

\* A line that is read is in nobody's feed yet.
LEMMA ReadLineIsNew ==
    ASSUME Typed, ConversationInv, NEW c \in Conns, input[c] # <<>>, NEW l,
           l.from = c, l.n = Head(input[c])
    PROVE  /\ \A d \in Conns : \A i \in DOMAIN Feed(d) : Feed(d)[i] # l
           /\ 1 \in DOMAIN input[c] /\ Head(input[c]) = input[c][1]
           /\ input[c][1] \in Nat /\ input[c][1] <= sent[c]
           /\ \A j \in DOMAIN input[c] : 1 < j => input[c][1] < input[c][j]
<1>1. /\ input[c] \in Seq(1..MaxLines) /\ Len(input[c]) \in Nat
      /\ DOMAIN input[c] = 1..Len(input[c])
  BY LenProperties DEF Typed, TypeOK
<1>2. Len(input[c]) # 0
  BY <1>1, EmptySeq
<1>3. 1 \in DOMAIN input[c] /\ Head(input[c]) = input[c][1]
  BY <1>1, <1>2
<1>4. input[c][1] \in Nat
  BY <1>3, InputTypes
<1>5. ASSUME NEW d \in Conns, NEW i \in DOMAIN Feed(d), Feed(d)[i] = l PROVE FALSE
  <2>1. l.n < input[c][1]
    BY <1>3, <1>5 DEF ConversationInv, FeedsFresh
  <2> QED BY <1>3, <1>4, <2>1
<1> QED BY <1>3, <1>4, <1>5 DEF ConversationInv, InputInOrder

LEMMA FeedsFreshBroadcast ==
    ASSUME Typed, ConversationInv, [Next]_vars, NEW c \in Conns, Broadcast(c)
    PROVE  FeedsFresh'
<1>1. PICK l \in Lines :
          /\ l.from = c /\ l.n = Head(input[c])
          /\ Feed(c)' = Feed(c)
          /\ \A d \in Conns : Feed(d)' \in {Feed(d), Append(Feed(d), l)}
  BY BroadcastAppends
<1>2. input[c] # <<>> /\ input' = [input EXCEPT ![c] = Tail(@)] /\ UNCHANGED sent
  BY DEF Broadcast, clientVars
<1>3. /\ 1 \in DOMAIN input[c] /\ l.n = input[c][1]
      /\ l.n \in Nat /\ l.n <= sent[c]
      /\ \A j \in DOMAIN input[c] : 1 < j => l.n < input[c][j]
  BY <1>1, <1>2, ReadLineIsNew
<1>4. ASSUME NEW s \in Conns, NEW j \in DOMAIN (input'[s])
      PROVE  \E i \in DOMAIN input[s] : input'[s][j] = input[s][i] /\ (s = c => 1 < i)
  <2>1. CASE s # c
    BY <1>2, <1>4, <2>1 DEF Typed, TypeOK
  <2>2. CASE s = c
    <3>1. input[s] \in Seq(1..MaxLines) /\ input[s] # <<>> /\ input'[s] = Tail(input[s])
      BY <1>2, <2>2 DEF Typed, TypeOK
    <3>2. /\ Tail(input[s]) \in Seq(1..MaxLines) /\ Len(Tail(input[s])) = Len(input[s]) - 1
          /\ \A i \in 1..Len(Tail(input[s])) : Tail(input[s])[i] = input[s][i + 1]
      BY <3>1, HeadTailProperties
    <3>3. /\ DOMAIN Tail(input[s]) = 1..Len(Tail(input[s])) /\ Len(input[s]) \in Nat
          /\ DOMAIN input[s] = 1..Len(input[s])
      BY <3>1, <3>2, LenProperties
    <3>4. j + 1 \in DOMAIN input[s] /\ 1 < j + 1 /\ input'[s][j] = input[s][j + 1]
      BY <1>4, <3>1, <3>2, <3>3
    <3> QED BY <3>4
  <2> QED BY <2>1, <2>2
<1>5. ASSUME NEW d \in Conns, NEW i \in DOMAIN (Feed(d)'), NEW k, k = Feed(d)'[i]
      PROVE  /\ k.from # d /\ k.n <= sent'[k.from]
             /\ \A j \in DOMAIN (input'[k.from]) : k.n < input'[k.from][j]
  <2>1. Feed(d) \in Seq(Lines) /\ Len(Feed(d)) \in Nat /\ DOMAIN Feed(d) = 1..Len(Feed(d))
    BY FeedTypes
  <2>2. CASE i \in DOMAIN Feed(d) /\ k = Feed(d)[i]
    <3>1. PICK s \in Conns : s = k.from
      BY <2>2, FeedTypes DEF Lines
    <3>2. k.from # d /\ k.n <= sent[s] /\ \A j \in DOMAIN input[s] : k.n < input[s][j]
      BY <2>2, <3>1 DEF ConversationInv, FeedsFresh
    <3>3. \A j \in DOMAIN (input'[s]) : k.n < input'[s][j]
      BY <1>4, <3>2
    <3> QED BY <1>2, <3>1, <3>2, <3>3
  <2>3. CASE k = l /\ d # c
    <3>1. \A j \in DOMAIN (input'[c]) : l.n < input'[c][j]
      BY <1>3, <1>4
    <3> QED BY <1>1, <1>2, <1>3, <2>3, <3>1
  <2>4. CASE Feed(d)' = Feed(d)
    BY <1>5, <2>2, <2>4
  <2>5. CASE Feed(d)' = Append(Feed(d), l) /\ d # c
    <3>1. /\ Append(Feed(d), l) \in Seq(Lines) /\ Len(Append(Feed(d), l)) = Len(Feed(d)) + 1
          /\ \A j \in 1..Len(Feed(d)) : Append(Feed(d), l)[j] = Feed(d)[j]
          /\ Append(Feed(d), l)[Len(Feed(d)) + 1] = l
      BY <2>1, AppendProperties
    <3>2. DOMAIN Append(Feed(d), l) = 1..(Len(Feed(d)) + 1)
      BY <3>1, LenProperties
    <3>3. i \in 1..Len(Feed(d)) \/ i = Len(Feed(d)) + 1
      BY <1>5, <2>1, <2>5, <3>2
    <3> QED BY <1>5, <2>1, <2>2, <2>3, <2>5, <3>1, <3>3
  <2> QED BY <1>1, <2>4, <2>5
<1> QED BY <1>5 DEF FeedsFresh

LEMMA LastOfAppend ==
    ASSUME NEW S, NEW s \in Seq(S), NEW e \in S, NEW i \in DOMAIN Append(s, e)
    PROVE  /\ i \in Nat
           /\ \/ i \in DOMAIN s /\ Append(s, e)[i] = s[i]
              \/ Append(s, e)[i] = e /\ \A j \in DOMAIN Append(s, e) : j <= i
<1>1. /\ Append(s, e) \in Seq(S) /\ Len(Append(s, e)) = Len(s) + 1
      /\ \A j \in 1..Len(s) : Append(s, e)[j] = s[j]
      /\ Append(s, e)[Len(s) + 1] = e
  BY AppendProperties
<1>2. /\ DOMAIN Append(s, e) = 1..(Len(s) + 1) /\ DOMAIN s = 1..Len(s)
      /\ Len(s) \in Nat
  BY <1>1, LenProperties
<1>3. i \in 1..Len(s) \/ i = Len(s) + 1
  BY <1>2
<1> QED BY <1>1, <1>2, <1>3

\* A new line comes last in every feed that gets it.
LEMMA BroadcastInOrder ==
    ASSUME Typed, ConversationInv, NEW c \in Conns, Broadcast(c)
    PROVE  SameConversation'
<1>1. PICK l \in Lines :
          /\ l.from = c /\ l.n = Head(input[c])
          /\ Feed(c)' = Feed(c)
          /\ \A d \in Conns : Feed(d)' \in {Feed(d), Append(Feed(d), l)}
  BY BroadcastAppends
<1>2. \A d \in Conns : \A i \in DOMAIN Feed(d) : Feed(d)[i] # l
  BY <1>1, ReadLineIsNew DEF Broadcast
<1>3. ASSUME NEW d \in Conns, NEW i \in DOMAIN (Feed(d)')
      PROVE  /\ i \in Nat
             /\ \/ i \in DOMAIN Feed(d) /\ Feed(d)'[i] = Feed(d)[i]
                \/ /\ Feed(d)'[i] = l /\ d # c
                   /\ \A j \in DOMAIN (Feed(d)') : j <= i
  <2>1. Feed(d) \in Seq(Lines) /\ Len(Feed(d)) \in Nat /\ DOMAIN Feed(d) = 1..Len(Feed(d))
    BY FeedTypes
  <2>2. CASE Feed(d)' = Feed(d)
    BY <1>3, <2>1, <2>2
  <2>3. CASE Feed(d)' = Append(Feed(d), l) /\ d # c
    <3>1. PICK f \in Seq(Lines) : f = Feed(d)
      BY <2>1
    <3>2. i \in DOMAIN Append(f, l)
      BY <1>3, <2>3, <3>1
    <3>3. /\ i \in Nat
          /\ \/ i \in DOMAIN f /\ Append(f, l)[i] = f[i]
             \/ Append(f, l)[i] = l /\ \A j \in DOMAIN Append(f, l) : j <= i
      BY <3>2, LastOfAppend
    <3> QED BY <2>3, <3>1, <3>3
  <2>4. Feed(d)' = Feed(d) \/ (Feed(d)' = Append(Feed(d), l) /\ d # c)
    <3>1. Feed(d)' = Feed(d) \/ Feed(d)' = Append(Feed(d), l)
      BY <1>1
    <3>2. d = c => Feed(d)' = Feed(d)
      BY <1>1
    <3> QED BY <3>1, <3>2
  <2> QED BY <2>2, <2>3, <2>4
<1>4. ASSUME NEW d \in Conns, NEW i \in DOMAIN (Feed(d)'), NEW j \in DOMAIN (Feed(d)'), i < j
      PROVE  /\ i \in DOMAIN Feed(d) /\ Feed(d)'[i] = Feed(d)[i]
             /\ Feed(d)'[i] # l
             /\ Feed(d)'[j] = l \/ (j \in DOMAIN Feed(d) /\ Feed(d)'[j] = Feed(d)[j])
  <2>1. ~(j <= i)
    <3>1. i \in Nat /\ j \in Nat
      BY <1>3
    <3> QED BY <1>4, <3>1
  <2>2. i \in DOMAIN Feed(d) /\ Feed(d)'[i] = Feed(d)[i]
    BY <1>3, <2>1
  <2>3. Feed(d)'[j] = l \/ (j \in DOMAIN Feed(d) /\ Feed(d)'[j] = Feed(d)[j])
    BY <1>3
  <2> QED BY <1>2, <2>2, <2>3
<1>5. ASSUME NEW a \in Conns, NEW b \in Conns,
             NEW i \in DOMAIN (Feed(a)'), NEW j \in DOMAIN (Feed(a)'), i < j
      PROVE  /\ Feed(a)'[i] # Feed(a)'[j] /\ Feed(a)'[i].from # a /\ Feed(a)'[j].from # a
             /\ ~ \E k, m \in DOMAIN (Feed(b)') :
                    k < m /\ Feed(b)'[k] = Feed(a)'[j] /\ Feed(b)'[m] = Feed(a)'[i]
  <2>1. i \in DOMAIN Feed(a) /\ Feed(a)'[i] = Feed(a)[i] /\ Feed(a)'[i] # l
    BY <1>4, <1>5
  <2>2. Feed(a)'[i].from # a
    BY <2>1 DEF ConversationInv, FeedsFresh
  <2>3. CASE Feed(a)'[j] = l
    <3>1. l.from # a
      BY <1>1, <1>2, <1>3, <1>5, <2>3
    <3>2. ASSUME NEW k \in DOMAIN (Feed(b)'), NEW m \in DOMAIN (Feed(b)'), k < m
          PROVE  Feed(b)'[k] # l
      BY <1>4, <3>2
    <3> QED BY <2>1, <2>2, <2>3, <3>1, <3>2
  <2>4. CASE j \in DOMAIN Feed(a) /\ Feed(a)'[j] = Feed(a)[j]
    <3>1. Feed(a)[i] # Feed(a)[j] /\ Feed(a)[j].from # a
      BY <1>5, <2>1, <2>4 DEF ConversationInv, SameConversation
    <3>2. ASSUME NEW k \in DOMAIN (Feed(b)'), NEW m \in DOMAIN (Feed(b)'), k < m,
                 Feed(b)'[k] = Feed(a)[j], Feed(b)'[m] = Feed(a)[i]
          PROVE  FALSE
      <4>1. k \in DOMAIN Feed(b) /\ Feed(b)'[k] = Feed(b)[k]
        BY <1>4, <3>2
      <4>2. m \in DOMAIN Feed(b) /\ Feed(b)'[m] = Feed(b)[m]
        BY <1>4, <2>1, <3>2
      <4>3. \A x, y \in DOMAIN Feed(b) :
                x < y => ~(Feed(b)[x] = Feed(a)[j] /\ Feed(b)[y] = Feed(a)[i])
        BY <1>5, <2>1, <2>4 DEF ConversationInv, SameConversation
      <4> QED BY <3>2, <4>1, <4>2, <4>3
    <3> QED BY <2>1, <2>2, <2>4, <3>1, <3>2
  <2> QED BY <1>4, <1>5, <2>3, <2>4
<1> QED BY <1>5 DEF SameConversation

LEMMA ConversationStep ==
    ASSUME Typed, ConversationInv, [Next]_vars PROVE ConversationInv'
<1>1. EntriesFit' /\ InputInOrder'
  BY EntriesFitStep, InputInOrderStep DEF ConversationInv
<1>2. CASE \A c \in Conns : ~Broadcast(c)
  <2>1. FeedsFresh'
    BY <1>2, FeedsFreshQuiet
  <2>2. ASSUME NEW a \in Conns, NEW b \in Conns,
               NEW i \in DOMAIN (Feed(a)'), NEW j \in DOMAIN (Feed(a)'), i < j
        PROVE  /\ Feed(a)'[i] # Feed(a)'[j] /\ Feed(a)'[i].from # a /\ Feed(a)'[j].from # a
               /\ ~ \E k, m \in DOMAIN (Feed(b)') :
                      k < m /\ Feed(b)'[k] = Feed(a)'[j] /\ Feed(b)'[m] = Feed(a)'[i]
    <3>1. /\ i \in DOMAIN Feed(a) /\ j \in DOMAIN Feed(a)
          /\ Feed(a)'[i] = Feed(a)[i] /\ Feed(a)'[j] = Feed(a)[j]
      BY <1>2, <2>2, FeedsDoNotGrow
    <3>2. \A k \in DOMAIN (Feed(b)') : k \in DOMAIN Feed(b) /\ Feed(b)'[k] = Feed(b)[k]
      BY <1>2, FeedsDoNotGrow
    <3> QED BY <2>2, <3>1, <3>2 DEF ConversationInv, SameConversation
  <2>3. SameConversation'
    BY <2>2 DEF SameConversation
  <2> QED BY <1>1, <2>1, <2>3 DEF ConversationInv
<1>3. CASE \E c \in Conns : Broadcast(c)
  BY <1>1, <1>3, FeedsFreshBroadcast, BroadcastInOrder DEF ConversationInv
<1> QED BY <1>2, <1>3

\* Any two clients that are sent, or will be sent, two lines have them in one order,
\* nobody has a line twice or one of its own: for any number of peers and lines, and
\* also when addresses come back too early.
THEOREM OneConversation == Spec => []SameConversation
<1>1. Init => Typed /\ ConversationInv
  <2>1. Init => Typed /\ EntriesFit
    BY InitTypeOK, InitEntriesFit DEF Typed
  <2>2. ASSUME Init, NEW c \in Conns PROVE DOMAIN Feed(c) = {} /\ DOMAIN input[c] = {}
    <3>1. heard[c] = <<>> /\ wr[c] = <<>> /\ rx[c] = <<>> /\ input[c] = <<>>
      BY <2>2 DEF Init
    <3>2. (<<>> \o <<>>) \o <<>> = <<>>
      BY EmptySeq, ConcatEmptySeq
    <3> QED BY <3>1, <3>2 DEF Feed
  <2>3. Init => InputInOrder /\ FeedsFresh /\ SameConversation
    BY <2>2 DEF InputInOrder, FeedsFresh, SameConversation
  <2> QED BY <2>1, <2>3 DEF ConversationInv
<1>2. Typed /\ ConversationInv /\ [Next]_vars => Typed' /\ ConversationInv'
  BY TypedStep, ConversationStep
<1>3. ConversationInv => SameConversation
  BY DEF ConversationInv
<1> QED BY <1>1, <1>2, <1>3, PTL DEF Spec

=============================================================================
