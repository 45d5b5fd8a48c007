----------------------------- MODULE WsChat_proofs -----------------------------
(***************************************************************************)
(* Theorems about WsChat, for any number of connections, names and entries,  *)
(* any length of the chunks and any saves and crashes: who has a name, what   *)
(* a connection hears, what a newcomer is sent and what is in the file.      *)
(***************************************************************************)
EXTENDS WsChat, Selection_proofs

-----------------------------------------------------------------------------
(* Steps and types *)

\* What a process may find in the file when it starts.
Found(f) == f = file \/ \E k \in 0..Len(log) : f = WriteOver(k)

\* What Next can do, action by action.
LEMMA Steps ==
    ASSUME NEW P, [Next]_vars, UNCHANGED vars => P,
           \A c \in Conns :
               /\ OnOpen(c) => P
               /\ OnChat(c) => P
               /\ OnGarbage(c) => P
               /\ \A name \in Names : (Refuse(c, name) => P) /\ (Welcome(c, name) => P)
               /\ CloseNamed(c) => P
               /\ CloseNameless(c) => P
               /\ Save(c) => P
               /\ SaveFails(c) => P,
           Dispatch => P,
           \A f : Found(f) /\ StartFrom(f) => P,
           Age => P
    PROVE  P
BY DEF Next, Handlers, OnJoin, OnClose, OnTimeout, Restart, RestartAfterTornSave, Found

\* What a write makes of the file.
LEMMA WriteOverProperties ==
    ASSUME NEW S, log \in Seq(S), file \in Seq(S \cup {End}), NEW k \in 0..(Len(log) + 1)
    PROVE  /\ WriteOver(k) \in Seq(S \cup {End})
           /\ Len(WriteOver(k)) = IF Len(file) < k THEN k ELSE Len(file)
           /\ \A i \in 1..Len(WriteOver(k)) :
                 WriteOver(k)[i] = IF i <= k THEN Cells[i] ELSE file[i]
           /\ \A i \in 1..Len(log) : Cells[i] = log[i] /\ log[i] \in S
           /\ Len(Cells) = Len(log) + 1 /\ Cells[Len(log) + 1] = End
<1>1. PICK R : R = S \cup {End}
  OBVIOUS
<1>2. PICK l \in Seq(S), n \in Nat : l = log /\ n = Len(log)
  BY LenProperties
<1>3. l \in Seq(R) /\ End \in R
  BY <1>1, SeqMonotonic
<1>4. PICK cells \in Seq(R) : cells = Cells
  BY <1>2, <1>3, AppendProperties DEF Cells
<1>5. Len(cells) = n + 1 /\ cells[n + 1] = End /\ \A i \in 1..n : cells[i] = l[i]
  BY <1>2, <1>3, <1>4, AppendProperties DEF Cells
<1>6. \A i \in 1..(n + 1) : cells[i] \in R
  BY <1>4, <1>5, ElementOfSeq
<1>7. PICK f \in Seq(R), m \in Nat : f = file /\ m = Len(file)
  BY <1>1, LenProperties
<1>8. \A i \in 1..m : f[i] \in R
  BY <1>7, ElementOfSeq
<1>9. PICK w \in Nat : w = IF m < k THEN k ELSE m
  BY <1>2
<1>10. PICK g : g = [i \in 1..w |-> IF i <= k THEN cells[i] ELSE f[i]]
  OBVIOUS
<1>11. \A i \in 1..w : g[i] \in R
  <2>1. ASSUME NEW i \in 1..w PROVE g[i] \in R
    <3>1. CASE i <= k
      BY <1>2, <1>6, <1>10, <3>1
    <3>2. CASE ~(i <= k)
      BY <1>2, <1>8, <1>9, <1>10, <3>2
    <3> QED BY <3>1, <3>2
  <2> QED BY <2>1
<1>12. g \in [1..w -> R]
  BY <1>10, <1>11
<1>13. g \in Seq(R) /\ Len(g) = w
  BY <1>12, SeqDef
<1>14. WriteOver(k) = g
  BY <1>4, <1>7, <1>9, <1>10 DEF WriteOver
<1>15. \A i \in 1..n : l[i] \in S
  BY <1>2, ElementOfSeq
<1> QED BY <1>1, <1>2, <1>4, <1>5, <1>7, <1>9, <1>10, <1>13, <1>14, <1>15

LEMMA LoadedProperties ==
    ASSUME NEW S, End \notin S, NEW f \in Seq(S \cup {End})
    PROVE  /\ Loaded(f) \in Seq(S)
           /\ Parses(f) => /\ Len(f) \in Nat \ {0} /\ f[Len(f)] = End
                           /\ Len(Loaded(f)) = Len(f) - 1
                           /\ \A i \in 1..(Len(f) - 1) : Loaded(f)[i] = f[i]
           /\ ~Parses(f) => Loaded(f) = <<>>
<1>1. PICK n \in Nat : n = Len(f) /\ DOMAIN f = 1..n
  BY LenProperties
<1>2. \A i \in 1..n : f[i] \in S \cup {End}
  BY <1>1, ElementOfSeq
<1>3. CASE Parses(f)
  <2>1. n # 0 /\ f[n] = End /\ \A i \in 1..(n - 1) : f[i] # End
    BY <1>1, <1>3, EmptySeq DEF Parses
  <2>2. n - 1 \in Nat /\ \A i \in 1..(n - 1) : f[i] \in S
    BY <1>2, <2>1
  <2>3. /\ SubSeq(f, 1, n - 1) \in Seq(S)
        /\ Len(SubSeq(f, 1, n - 1)) = IF 1 <= n - 1 THEN n - 1 - 1 + 1 ELSE 0
        /\ \A i \in 1..(n - 1 - 1 + 1) : SubSeq(f, 1, n - 1)[i] = f[1 + i - 1]
    BY <2>2, SubSeqProperties
  <2>4. Loaded(f) = SubSeq(f, 1, n - 1)
    BY <1>1, <1>3 DEF Loaded, Front
  <2> QED BY <1>1, <1>3, <2>1, <2>2, <2>3, <2>4
<1>4. CASE ~Parses(f)
  BY <1>4, EmptySeq DEF Loaded
<1> QED BY <1>3, <1>4

LEMMA EndIsNoEntry == End \notin Entries /\ Entries \cap Errors = {}
BY ConstantsAssumption DEF End, Entries, Errors, NameTaken, Unparsed

LEMMA FoundType == ASSUME TypeOK, NEW f, Found(f) PROVE f \in Seq(Entries \cup {End})
<1>1. Len(log) \in Nat /\ \A k \in 0..Len(log) : k \in 0..(Len(log) + 1)
  BY LenProperties DEF TypeOK
<1>2. ASSUME NEW k \in 0..Len(log) PROVE WriteOver(k) \in Seq(Entries \cup {End})
  BY <1>1, WriteOverProperties DEF TypeOK
<1> QED BY <1>2 DEF TypeOK, Found

\* The signals of a backlog.
LEMMA SignalsOf ==
    ASSUME NEW to \in Conns, NEW S \in SUBSET Entries, NEW b \in Seq(S)
    PROVE  /\ [i \in 1..Len(b) |-> Signal(to, b[i])] \in Seq([to : {to}, n : S])
           /\ Len([i \in 1..Len(b) |-> Signal(to, b[i])]) = Len(b)
<1>1. Len(b) \in Nat /\ \A i \in 1..Len(b) : b[i] \in S
  BY LenProperties, ElementOfSeq
<1>2. \A i \in 1..Len(b) : Signal(to, b[i]) \in [to : {to}, n : S]
  BY <1>1 DEF Signal
<1>3. [i \in 1..Len(b) |-> Signal(to, b[i])] \in [1..Len(b) -> [to : {to}, n : S]]
  BY <1>2
<1> QED BY <1>1, <1>3, SeqDef

\* The last two chunks are the end of the log; all of its last Chunk entries are
\* there.
LEMMA LastTwoChunksProperties ==
    ASSUME NEW S, NEW l \in Seq(S)
    PROVE  /\ LastTwoChunks(l) \in Seq(S)
           /\ \A i \in 1..Len(l) :
                 i > Len(l) - Chunk =>
                    \E j \in DOMAIN LastTwoChunks(l) : LastTwoChunks(l)[j] = l[i]
<1>1. PICK n \in Nat : n = Len(l)
  BY LenProperties
<1>2. PICK q \in Int : q = (n + Chunk - 1) \div Chunk
  BY ConstantsAssumption
<1>3. Chunk * q <= n + Chunk - 1 /\ n + Chunk - 1 < Chunk * q + Chunk
  BY <1>2, ConstantsAssumption
<1>4. PICK first \in Int : first = IF q > 2 THEN (q - 2) * Chunk + 1 ELSE 1
  BY ConstantsAssumption
<1>5. 1 <= first /\ first <= (IF n - Chunk + 1 > 1 THEN n - Chunk + 1 ELSE 1)
  <2>1. CASE q > 2
    <3>1. (q - 2) * Chunk = Chunk * q - Chunk - Chunk
      BY ConstantsAssumption
    <3>2. Chunk * q >= Chunk * 3
      BY <2>1, ConstantsAssumption
    <3> QED BY <1>3, <1>4, <2>1, <3>1, <3>2, ConstantsAssumption
  <2>2. CASE ~(q > 2)
    BY <1>4, <2>2, ConstantsAssumption
  <2> QED BY <2>1, <2>2
<1>6. LastTwoChunks(l) = SubSeq(l, first, n)
  BY <1>1, <1>2, <1>4 DEF LastTwoChunks
<1>7. \A i \in first..n : l[i] \in S
  BY <1>1, <1>5, ElementOfSeq
<1>8. PICK b \in Seq(S) : b = SubSeq(l, first, n)
  <2>1. n \in Int /\ SubSeq(l, first, n) \in Seq(S)
    BY <1>7, SubSeqProperties
  <2> QED BY <2>1
<1>9. /\ Len(b) = IF first <= n THEN n - first + 1 ELSE 0
      /\ \A i \in 1..(n - first + 1) : b[i] = l[first + i - 1]
  BY <1>7, <1>8, SubSeqProperties
<1>10. ASSUME NEW i \in 1..n, i > n - Chunk PROVE \E j \in DOMAIN b : b[j] = l[i]
  <2>1. first <= i /\ first <= n
    BY <1>5, <1>10, ConstantsAssumption
  <2>2. i - first + 1 \in 1..(n - first + 1) /\ first + (i - first + 1) - 1 = i
    BY <2>1
  <2>3. i - first + 1 \in DOMAIN b
    BY <1>8, <1>9, <2>1, <2>2, LenProperties
  <2> QED BY <1>9, <2>2, <2>3
<1> QED BY <1>1, <1>6, <1>8, <1>10

LEMMA BacklogType ==
    ASSUME NEW S \in SUBSET Entries, log \in Seq(S)
    PROVE  Backlog \in Seq(S)
<1>1. PICK l \in Seq(S) : l = LastTwoChunks(log)
  BY LastTwoChunksProperties
<1>2. Only(l, (old + 1)..MaxLog) \in Seq(S \cap ((old + 1)..MaxLog))
  BY OnlyType
<1> QED BY <1>1, <1>2, SeqMonotonic DEF Backlog

\* Without the signals to one connection the queue is still one.
LEMMA WithoutSignalsType ==
    ASSUME NEW c, NEW Q, queue \in Seq(Q)
    PROVE  WithoutSignalsTo(c) \in Seq(Q)
<1>1. PICK T : T = {s \in Signals : s.to # c}
  OBVIOUS
<1>2. Only(queue, T) \in Seq(Q \cap T)
  BY OnlyType
<1> QED BY <1>1, <1>2, SeqMonotonic DEF WithoutSignalsTo

LEMMA InitTypeOK == Init => TypeOK
<1>1. <<>> \in Seq(Entries) /\ <<>> \in Seq(Entries \cup {End}) /\ <<>> \in Seq(Signals)
  BY EmptySeq
<1> QED BY <1>1, ConstantsAssumption DEF Init, TypeOK

LEMMA PublishTypes ==
    ASSUME TypeOK, Publish
    PROVE  log' \in Seq(Entries) /\ queue' \in Seq(Signals) /\ pushed' \in 0..MaxLog
<1>1. pushed + 1 \in Entries /\ pushed' = pushed + 1
  BY ConstantsAssumption DEF Publish, TypeOK, Entries
<1>2. Signal(All, pushed + 1) \in Signals
  BY <1>1 DEF Signals, Signal
<1>3. log' \in Seq(Entries) /\ queue' \in Seq(Signals)
  BY <1>1, <1>2, AppendProperties DEF Publish, TypeOK
<1> QED BY <1>1, <1>3 DEF Entries

LEMMA ComplainTypes ==
    ASSUME TypeOK, NEW c \in Conns, NEW error \in Errors, Complain(c, error)
    PROVE  queue' \in Seq(Signals)
<1>1. Signal(c, error) \in Signals
  BY DEF Signals, Signal
<1> QED BY <1>1, AppendProperties DEF Complain, TypeOK

LEMMA TypeOKStep == ASSUME TypeOK, [Next]_vars PROVE TypeOK'
<1>1. CASE UNCHANGED vars
  BY <1>1 DEF vars, TypeOK
<1>2. ASSUME NEW c \in Conns, OnOpen(c) PROVE TypeOK'
  <2>1. PICK b \in Seq(Entries) : b = Backlog
    BY BacklogType DEF TypeOK
  <2>2. PICK s : s = [i \in 1..Len(b) |-> Signal(c, b[i])]
    OBVIOUS
  <2>3. s \in Seq(Signals)
    <3>1. s \in Seq([to : {c}, n : Entries])
      BY <2>2, SignalsOf
    <3>2. [to : {c}, n : Entries] \subseteq Signals
      BY DEF Signals
    <3> QED BY <3>1, <3>2, SeqMonotonic
  <2>4. queue' = queue \o s
    BY <1>2, <2>1, <2>2 DEF OnOpen
  <2>5. queue' \in Seq(Signals)
    BY <2>3, <2>4, ConcatProperties DEF TypeOK
  <2>6. heard' \in [Conns -> Seq(Entries)] /\ opened' \in [Conns -> 0..MaxLog]
    BY <1>2, EmptySeq DEF OnOpen, TypeOK
  <2> QED BY <1>2, <2>5, <2>6 DEF OnOpen, TypeOK
<1>3. ASSUME NEW c \in Conns, OnChat(c) PROVE TypeOK'
  BY <1>3, PublishTypes DEF OnChat, TypeOK
<1>4. ASSUME NEW c \in Conns, OnGarbage(c) PROVE TypeOK'
  <2>1. Unparsed \in Errors
    BY DEF Errors
  <2> QED BY <1>4, <2>1, ComplainTypes DEF OnGarbage, Complain, TypeOK
<1>5. ASSUME NEW c \in Conns, NEW name \in Names, Refuse(c, name) PROVE TypeOK'
  <2>1. NameTaken \in Errors
    BY DEF Errors
  <2> QED BY <1>5, <2>1, ComplainTypes DEF Refuse, Complain, TypeOK
<1>6. ASSUME NEW c \in Conns, NEW name \in Names, Welcome(c, name) PROVE TypeOK'
  <2>1. nick' \in [Conns -> Names \cup {NoName}] /\ users' \subseteq Names
    BY <1>6 DEF Welcome, TypeOK
  <2> QED BY <1>6, <2>1, PublishTypes DEF Welcome, TypeOK
<1>7. ASSUME NEW c \in Conns, Forget(c)
      PROVE  /\ live' \subseteq Conns /\ armed' \subseteq live'
             /\ nick' \in [Conns -> Names \cup {NoName}]
             /\ heard' \in [Conns -> Seq(Entries)] /\ opened' \in [Conns -> 0..MaxLog]
             /\ old' \in 0..MaxLog /\ file' \in Seq(Entries \cup {End})
  BY <1>7, EmptySeq, ConstantsAssumption DEF Forget, TypeOK
<1>8. ASSUME NEW c \in Conns, CloseNamed(c) PROVE TypeOK'
  <2>1. pushed + 1 \in Entries /\ pushed' = pushed + 1
    BY <1>8, ConstantsAssumption DEF CloseNamed, TypeOK, Entries
  <2>2. Signal(All, pushed + 1) \in Signals
    BY <2>1 DEF Signals, Signal
  <2>3. log' \in Seq(Entries)
    BY <1>8, <2>1, AppendProperties DEF CloseNamed, TypeOK
  <2>4. queue' \in Seq(Signals)
    <3>1. PICK q \in Seq(Signals) : q = WithoutSignalsTo(c)
      BY WithoutSignalsType DEF TypeOK
    <3> QED BY <1>8, <2>2, <3>1, AppendProperties DEF CloseNamed
  <2>5. users' \subseteq Names /\ pushed' \in 0..MaxLog
    BY <1>8, <2>1 DEF CloseNamed, TypeOK, Entries
  <2> QED BY <1>7, <1>8, <2>3, <2>4, <2>5 DEF CloseNamed, TypeOK
<1>9. ASSUME NEW c \in Conns, CloseNameless(c) PROVE TypeOK'
  <2>1. queue' \in Seq(Signals)
    BY <1>9, WithoutSignalsType DEF CloseNameless, TypeOK
  <2> QED BY <1>7, <1>9, <2>1 DEF CloseNameless, TypeOK
<1>10. ASSUME NEW c \in Conns, Save(c) PROVE TypeOK'
  <2>1. Len(log) \in Nat /\ Len(Cells) = Len(log) + 1
    <3>1. Len(log) \in Nat /\ 0 \in 0..(Len(log) + 1)
      BY LenProperties DEF TypeOK
    <3> QED BY <3>1, WriteOverProperties DEF TypeOK
  <2>2. Len(Cells) \in 0..(Len(log) + 1)
    BY <2>1
  <2>3. file' \in Seq(Entries \cup {End})
    BY <1>10, <2>2, WriteOverProperties DEF Save, TypeOK
  <2> QED BY <1>10, <2>3 DEF Save, Rearm, TypeOK
<1>11. ASSUME NEW c \in Conns, SaveFails(c) PROVE TypeOK'
  <2>1. file' \in Seq(Entries \cup {End})
    <3>1. Found(file')
      BY <1>11 DEF SaveFails, Found
    <3> QED BY <3>1, FoundType
  <2>2. armed' \subseteq live'
    BY <1>11 DEF SaveFails, TypeOK
  <2> QED BY <1>11, <2>1, <2>2 DEF SaveFails, TypeOK
<1>12. CASE Dispatch
  <2>1. queue' \in Seq(Signals) /\ Head(queue) \in Signals
    BY <1>12, HeadTailProperties DEF Dispatch, TypeOK
  <2>2. ASSUME NEW c \in Conns, c \in Reaches(Head(queue)) PROVE Head(queue).n \in Entries
    BY <2>1, <2>2 DEF Reaches, Signals
  <2>3. \A c \in Conns : heard'[c] \in Seq(Entries)
    BY <1>12, <2>2, AppendProperties DEF Dispatch, TypeOK
  <2>4. heard' \in [Conns -> Seq(Entries)]
    BY <1>12, <2>3 DEF Dispatch
  <2> QED BY <1>12, <2>1, <2>4 DEF Dispatch, TypeOK
<1>13. ASSUME NEW f, Found(f), StartFrom(f) PROVE TypeOK'
  <2>1. f \in Seq(Entries \cup {End})
    BY <1>13, FoundType
  <2>2. log' \in Seq(Entries)
    BY <1>13, <2>1, LoadedProperties, EndIsNoEntry DEF StartFrom, StartLog
  <2>3. heard' \in [Conns -> Seq(Entries)] /\ queue' \in Seq(Signals)
    BY <1>13, EmptySeq DEF StartFrom
  <2>4. opened' \in [Conns -> 0..MaxLog] /\ nick' \in [Conns -> Names \cup {NoName}]
    BY <1>13, ConstantsAssumption DEF StartFrom
  <2> QED BY <1>13, <2>1, <2>2, <2>3, <2>4 DEF StartFrom, TypeOK
<1>14. CASE Age
  <2>1. old' \in 0..MaxLog
    BY <1>14, ConstantsAssumption DEF Age, TypeOK
  <2> QED BY <1>14, <2>1 DEF Age, TypeOK
<1> QED
  BY <1>1, <1>2, <1>3, <1>4, <1>5, <1>6, <1>8, <1>9, <1>10, <1>11, <1>12, <1>13, <1>14, Steps,
     Zenon

\* The types are right in every state; TypeOK is inductive as it stands.
THEOREM TypeCorrectness == Spec => []TypeOK
<1> QED BY InitTypeOK, TypeOKStep, PTL DEF Spec

-----------------------------------------------------------------------------
(* Names *)

LEMMA NamesStep == ASSUME TypeOK, NamesUnique, [Next]_vars PROVE NamesUnique'
<1>1. CASE UNCHANGED <<nick, users>>
  BY <1>1 DEF NamesUnique
<1>2. ASSUME NEW c \in Conns, NEW name \in Names, Welcome(c, name) PROVE NamesUnique'
  <2>1. /\ users' = users \cup {name} /\ name \notin users /\ name # NoName
        /\ \A d \in Conns : nick'[d] = IF d = c THEN name ELSE nick[d]
    BY <1>2, ConstantsAssumption DEF Welcome, InUse, TypeOK
  <2> QED BY <2>1 DEF NamesUnique
<1>3. ASSUME NEW c \in Conns, CloseNamed(c) PROVE NamesUnique'
  <2>1. /\ users' = users \ {nick[c]} /\ nick[c] # NoName
        /\ \A d \in Conns : nick'[d] = IF d = c THEN NoName ELSE nick[d]
    BY <1>3 DEF CloseNamed, Forget, TypeOK
  <2> QED BY <2>1 DEF NamesUnique
<1>4. ASSUME NEW c \in Conns, CloseNameless(c) PROVE NamesUnique'
  <2>1. /\ users' = users
        /\ \A d \in Conns : nick'[d] = IF d = c THEN NoName ELSE nick[d]
    BY <1>4 DEF CloseNameless, Forget, TypeOK
  <2> QED BY <2>1 DEF NamesUnique
<1>5. ASSUME NEW f, StartFrom(f) PROVE NamesUnique'
  BY <1>5 DEF StartFrom, NamesUnique
<1>6. \/ UNCHANGED vars \/ Dispatch \/ Age
      \/ \E c \in Conns : \/ OnOpen(c) \/ OnChat(c) \/ OnGarbage(c) \/ Save(c) \/ SaveFails(c)
                         \/ \E name \in Names : Refuse(c, name)
      => UNCHANGED <<nick, users>>
  BY DEF vars, Dispatch, Age, OnOpen, OnChat, OnGarbage, Save, SaveFails, Refuse
<1> QED BY <1>1, <1>2, <1>3, <1>4, <1>5, <1>6, Steps, Zenon

\* No two connections have the same nick, and the nick of an open connection is
\* taken: on_close can free it without freeing another's.  Inductive with the
\* types.
THEOREM UniqueNames == Spec => []NamesUnique
<1>1. Init => NamesUnique
  BY DEF Init, NamesUnique
<1>2. TypeOK /\ NamesUnique /\ [Next]_vars => NamesUnique'
  BY NamesStep
<1> QED BY <1>1, <1>2, TypeCorrectness, PTL DEF Spec

-----------------------------------------------------------------------------
(* The file *)

\* A file that ends with the closing bracket holds, before it, a beginning of
\* the log.  A torn or failed save leaves a file that ends otherwise, or one that
\* the bracket of an earlier save ends: then what it overwrote was the same.
Faithful(f, l) ==
    Len(f) # 0 /\ f[Len(f)] = End =>
        /\ Len(f) - 1 <= Len(l)
        /\ \A i \in 1..(Len(f) - 1) : f[i] = l[i]

FileInv == Faithful(file, log)

\* Whatever a write leaves is faithful.
LEMMA WritesAreFaithful ==
    ASSUME TypeOK, FileInv, NEW k \in 0..(Len(log) + 1)
    PROVE  Faithful(WriteOver(k), log)
<1>1. PICK n \in Nat, l \in Seq(Entries) : l = log /\ n = Len(l)
  BY LenProperties DEF TypeOK
<1>2. PICK f \in Seq(Entries \cup {End}), m \in Nat : f = file /\ m = Len(f)
  BY LenProperties DEF TypeOK
<1>3. PICK w : w = WriteOver(k)
  OBVIOUS
<1>4. /\ Len(w) = (IF m < k THEN k ELSE m)
      /\ \A i \in 1..Len(w) : w[i] = IF i <= k THEN Cells[i] ELSE f[i]
      /\ \A i \in 1..n : Cells[i] = l[i] /\ l[i] \in Entries
  BY <1>1, <1>2, <1>3, WriteOverProperties DEF TypeOK
<1>5. Len(f) # 0 /\ f[Len(f)] = End =>
         Len(f) - 1 <= n /\ \A i \in 1..(Len(f) - 1) : f[i] = l[i]
  BY <1>1, <1>2 DEF FileInv, Faithful
<1>6. ASSUME Len(w) # 0, w[Len(w)] = End
      PROVE  Len(w) - 1 <= n /\ \A i \in 1..(Len(w) - 1) : w[i] = l[i]
  <2>1. CASE m < k
    <3>1. Len(w) = k /\ k - 1 <= n /\ \A i \in 1..(k - 1) : i \in 1..n /\ i \in 1..k /\ i <= k
      BY <1>1, <1>4, <2>1
    <3> QED BY <1>4, <3>1
  <2>2. CASE k = m
    <3>1. Len(w) = k /\ k - 1 <= n /\ \A i \in 1..(k - 1) : i \in 1..n /\ i \in 1..k /\ i <= k
      BY <1>1, <1>4, <2>2
    <3> QED BY <1>4, <3>1
  <2>3. CASE k < m
    <3>1. Len(w) = m /\ m \in 1..Len(w) /\ ~(m <= k)
      BY <1>1, <1>2, <1>4, <2>3
    <3>2. f[m] = End
      BY <1>4, <1>6, <3>1
    <3>3. m - 1 <= n /\ \A i \in 1..(m - 1) : f[i] = l[i]
      BY <1>2, <1>5, <2>3, <3>2
    <3>4. \A i \in 1..(m - 1) : i \in 1..n /\ i \in 1..Len(w)
      BY <1>1, <3>1, <3>3
    <3> QED BY <1>4, <3>1, <3>3, <3>4
  <2> QED BY <1>1, <1>2, <2>1, <2>2, <2>3
<1> QED BY <1>1, <1>3, <1>6 DEF Faithful

LEMMA FoundIsFaithful == ASSUME TypeOK, FileInv, NEW f, Found(f) PROVE Faithful(f, log)
<1>1. Len(log) \in Nat /\ \A k \in 0..Len(log) : k \in 0..(Len(log) + 1)
  BY LenProperties DEF TypeOK
<1>2. ASSUME NEW k \in 0..Len(log) PROVE Faithful(WriteOver(k), log)
  BY <1>1, WritesAreFaithful
<1> QED BY <1>2 DEF Found, FileInv

\* A faithful file is parsed, unless it ends otherwise, and gives a beginning of
\* the log.
LEMMA FaithfulLoads ==
    ASSUME NEW l \in Seq(Entries), NEW f \in Seq(Entries \cup {End}), Faithful(f, l)
    PROVE  /\ Len(Loaded(f)) <= Len(l)
           /\ \A i \in 1..Len(Loaded(f)) : Loaded(f)[i] = l[i]
           /\ Len(f) # 0 /\ f[Len(f)] = End => Parses(f)
<1>1. PICK n \in Nat, m \in Nat : n = Len(l) /\ m = Len(f) /\ DOMAIN f = 1..m
  BY LenProperties
<1>2. \A i \in 1..n : l[i] # End
  BY <1>1, ElementOfSeq, EndIsNoEntry
<1>3. Parses(f) => Len(f) \in Nat \ {0} /\ f[Len(f)] = End /\ Len(Loaded(f)) = Len(f) - 1
                   /\ \A i \in 1..(Len(f) - 1) : Loaded(f)[i] = f[i]
  BY LoadedProperties, EndIsNoEntry
<1>4. ~Parses(f) => Loaded(f) = <<>>
  BY LoadedProperties, EndIsNoEntry
<1>5. ASSUME Len(f) # 0, f[Len(f)] = End PROVE Parses(f)
  <2>1. m - 1 <= n /\ \A i \in 1..(m - 1) : f[i] = l[i]
    BY <1>1, <1>5 DEF Faithful
  <2>2. \A i \in 1..m : i # m => i \in 1..(m - 1) /\ i \in 1..n
    BY <1>1, <2>1
  <2>3. f # <<>> /\ \A i \in 1..m : f[i] = End <=> i = m
    BY <1>1, <1>2, <1>5, <2>1, <2>2
  <2> QED BY <1>1, <2>3 DEF Parses
<1>6. CASE Parses(f)
  BY <1>1, <1>3, <1>5, <1>6 DEF Faithful
<1>7. CASE ~Parses(f)
  <2>1. Len(Loaded(f)) = 0
    BY <1>4, <1>7
  <2> QED BY <1>1, <1>5, <2>1
<1> QED BY <1>6, <1>7

LEMMA FaithfulAppend ==
    ASSUME NEW l \in Seq(Entries), NEW f \in Seq(Entries \cup {End}), Faithful(f, l),
           NEW e \in Entries
    PROVE  Faithful(f, Append(l, e))
<1>1. PICK n \in Nat, m \in Nat : n = Len(l) /\ m = Len(f)
  BY LenProperties
<1>2. Len(Append(l, e)) = n + 1 /\ \A i \in 1..n : Append(l, e)[i] = l[i]
  BY <1>1, AppendProperties
<1> SUFFICES ASSUME m # 0, f[m] = End
             PROVE  m - 1 <= n + 1 /\ \A i \in 1..(m - 1) : f[i] = Append(l, e)[i]
  BY <1>1, <1>2 DEF Faithful
<1>3. m - 1 <= n /\ \A i \in 1..(m - 1) : f[i] = l[i] /\ i \in 1..n
  BY <1>1 DEF Faithful
<1> QED BY <1>2, <1>3

\* A new process: what it could not read is no beginning of its empty log, and
\* does not end with the closing bracket.
LEMMA StartIsFaithful ==
    ASSUME TypeOK, FileInv, NEW f, Found(f)
    PROVE  Faithful(f, Loaded(f))
<1>1. PICK l \in Seq(Entries) : l = log
  BY DEF TypeOK
<1>2. f \in Seq(Entries \cup {End}) /\ Faithful(f, l)
  BY <1>1, FoundType, FoundIsFaithful
<1>3. PICK m \in Nat : m = Len(f)
  BY <1>2, LenProperties
<1>4. m # 0 /\ f[m] = End => Parses(f)
  BY <1>2, <1>3, FaithfulLoads
<1>5. Parses(f) => Len(Loaded(f)) = m - 1 /\ \A i \in 1..(m - 1) : Loaded(f)[i] = f[i]
  BY <1>2, <1>3, LoadedProperties, EndIsNoEntry
<1> QED BY <1>3, <1>4, <1>5 DEF Faithful

LEMMA FileInvStep == ASSUME TypeOK, FileInv, [Next]_vars PROVE FileInv'
<1>1. CASE UNCHANGED <<file, log>>
  BY <1>1 DEF FileInv
<1>2. ASSUME NEW e \in Entries, log' = Append(log, e), file' = file PROVE FileInv'
  <2>1. PICK l \in Seq(Entries), f \in Seq(Entries \cup {End}) : l = log /\ f = file
    BY DEF TypeOK
  <2>2. Faithful(f, Append(l, e))
    BY <2>1, FaithfulAppend DEF FileInv
  <2> QED BY <1>2, <2>1, <2>2 DEF FileInv
<1>3. Publish \/ (\E c \in Conns : CloseNamed(c)) =>
          \E e \in Entries : log' = Append(log, e)
  BY ConstantsAssumption DEF Publish, CloseNamed, Entries, TypeOK
<1>4. ASSUME NEW k \in 0..(Len(log) + 1), file' = WriteOver(k), log' = log PROVE FileInv'
  <2>1. Faithful(WriteOver(k), log)
    BY WritesAreFaithful
  <2> QED BY <1>4, <2>1 DEF FileInv
<1>5. ASSUME NEW c \in Conns, OnChat(c) PROVE FileInv'
  BY <1>2, <1>3, <1>5 DEF OnChat
<1>6. ASSUME NEW c \in Conns, NEW name \in Names, Welcome(c, name) PROVE FileInv'
  BY <1>2, <1>3, <1>6 DEF Welcome
<1>7. ASSUME NEW c \in Conns, CloseNamed(c) PROVE FileInv'
  BY <1>2, <1>3, <1>7 DEF CloseNamed, Forget
<1>8. ASSUME NEW c \in Conns, Save(c) PROVE FileInv'
  <2>1. Len(Cells) \in 0..(Len(log) + 1)
    <3>1. Len(log) \in Nat /\ 0 \in 0..(Len(log) + 1)
      BY LenProperties DEF TypeOK
    <3>2. Len(Cells) = Len(log) + 1
      BY <3>1, WriteOverProperties DEF TypeOK
    <3> QED BY <3>1, <3>2
  <2> QED BY <1>4, <1>8, <2>1 DEF Save
<1>9. ASSUME NEW c \in Conns, SaveFails(c) PROVE FileInv'
  <2>1. PICK k \in 0..Len(log) : file' = WriteOver(k)
    BY <1>9 DEF SaveFails
  <2>2. k \in 0..(Len(log) + 1)
    BY LenProperties DEF TypeOK
  <2> QED BY <1>4, <1>9, <2>1, <2>2 DEF SaveFails
<1>10. ASSUME NEW f, Found(f), StartFrom(f) PROVE FileInv'
  BY <1>10, StartIsFaithful DEF StartFrom, StartLog, FileInv
<1>11. \/ UNCHANGED vars \/ Dispatch \/ Age
       \/ \E c \in Conns : \/ OnOpen(c) \/ OnGarbage(c) \/ CloseNameless(c)
                          \/ \E name \in Names : Refuse(c, name)
       => UNCHANGED <<file, log>>
  BY DEF vars, Dispatch, Age, OnOpen, OnGarbage, CloseNameless, Refuse, Complain, Forget
<1> QED BY <1>1, <1>5, <1>6, <1>7, <1>8, <1>9, <1>10, <1>11, Steps, Zenon

\* FileInv is inductive with the types.  FileIsBeginning alone is not: it says
\* nothing of a file that does not parse, which the next save may turn into one
\* that does.
THEOREM FileInvariance == Spec => [](TypeOK /\ FileInv)
<1>1. Init => FileInv
  BY EmptySeq DEF Init, FileInv, Faithful
<1>2. TypeOK /\ FileInv /\ [Next]_vars => FileInv'
  BY FileInvStep
<1> QED BY <1>1, <1>2, TypeCorrectness, PTL DEF Spec

LEMMA PrefixByElements ==
    ASSUME NEW S, NEW s \in Seq(S), NEW t \in Seq(S),
           Len(s) <= Len(t), \A i \in 1..Len(s) : s[i] = t[i]
    PROVE  IsPrefix(s, t)
<1>1. PICK n \in Nat, m \in Nat : n = Len(s) /\ m = Len(t)
  BY LenProperties
<1>2. \A i \in 1..n : s[i] \in S /\ t[i] \in S
  BY <1>1, ElementOfSeq
<1>3. PICK u \in Seq(S) : u = SubSeq(s, 1, n)
  <2>1. SubSeq(s, 1, n) \in Seq(S)
    BY <1>2, SubSeqProperties
  <2> QED BY <2>1
<1>4. PICK v \in Seq(S) : v = SubSeq(t, 1, n)
  <2>1. SubSeq(t, 1, n) \in Seq(S)
    BY <1>2, SubSeqProperties
  <2> QED BY <2>1
<1>5. Len(u) = n /\ \A i \in 1..n : u[i] = s[1 + i - 1]
  BY <1>2, <1>3, SubSeqProperties
<1>6. Len(v) = n /\ \A i \in 1..n : v[i] = t[1 + i - 1]
  BY <1>2, <1>4, SubSeqProperties
<1>7. u = v
  BY <1>1, <1>5, <1>6, SeqEqual
<1> QED BY <1>1, <1>3, <1>4, <1>7 DEF IsPrefix

\* Histories are not mixed: what the next process would read is a beginning of
\* the log, also after torn saves and over their remains (on_timeout, main).
THEOREM NoMixedHistories == Spec => []FileIsBeginning
<1>1. ASSUME TypeOK, FileInv PROVE FileIsBeginning
  <2>1. PICK l \in Seq(Entries), f \in Seq(Entries \cup {End}) : l = log /\ f = file
    BY <1>1 DEF TypeOK
  <2>2. PICK s \in Seq(Entries) : s = Loaded(f)
    BY LoadedProperties, EndIsNoEntry
  <2>3. Len(s) <= Len(l) /\ \A i \in 1..Len(s) : s[i] = l[i]
    BY <1>1, <2>1, <2>2, FaithfulLoads DEF FileInv
  <2> QED BY <2>1, <2>2, <2>3, PrefixByElements DEF FileIsBeginning
<1> QED BY <1>1, FileInvariance, PTL

\* Only a save writes to the file in the middle of a process.
LEMMA WhoWrites ==
    ASSUME [Next]_vars
    PROVE  \/ file' = file
           \/ RestartAfterTornSave
           \/ \E c \in Conns : SaveFails(c)
           \/ \E c \in Conns : Save(c)
BY DEF Next, Handlers, OnOpen, OnChat, OnGarbage, OnJoin, Refuse, Welcome, OnClose, CloseNamed,
       CloseNameless, Forget, OnTimeout, Dispatch, Restart, StartFrom, Age, vars

\* A save that is not cut short writes all that the file had, and the rest.
LEMMA SaveKeeps ==
    ASSUME TypeOK, FileInv, NEW c \in Conns, Save(c)
    PROVE  IsPrefix(Loaded(file), Loaded(file'))
<1>1. PICK n \in Nat, l \in Seq(Entries) : l = log /\ n = Len(l)
  BY LenProperties DEF TypeOK
<1>2. PICK f \in Seq(Entries \cup {End}), m \in Nat : f = file /\ m = Len(f)
  BY LenProperties DEF TypeOK
<1>3. PICK s \in Seq(Entries) : s = Loaded(f)
  BY LoadedProperties, EndIsNoEntry
<1>4. n + 1 \in 0..(Len(log) + 1) /\ Len(Cells) = n + 1
  <2>1. n + 1 \in 0..(Len(log) + 1)
    BY <1>1
  <2> QED BY <1>1, <2>1, WriteOverProperties DEF TypeOK
<1>5. PICK g \in Seq(Entries \cup {End}) : g = WriteOver(n + 1) /\ g = file'
  <2>1. WriteOver(n + 1) \in Seq(Entries \cup {End})
    BY <1>4, WriteOverProperties DEF TypeOK
  <2> QED BY <1>4, <2>1, Save(c) DEF Save
<1>6. PICK r \in Seq(Entries) : r = Loaded(g)
  BY LoadedProperties, EndIsNoEntry
<1>7. CASE Parses(f)
  <2>1. /\ m \in Nat \ {0} /\ f[m] = End /\ Len(s) = m - 1
        /\ \A i \in 1..(m - 1) : s[i] = f[i]
    BY <1>2, <1>3, <1>7, LoadedProperties, EndIsNoEntry
  <2>2. m - 1 <= n /\ \A i \in 1..(m - 1) : f[i] = l[i]
    BY <1>1, <1>2, <2>1 DEF FileInv, Faithful
  <2>3. /\ Len(g) = (IF m < n + 1 THEN n + 1 ELSE m)
        /\ \A i \in 1..Len(g) : g[i] = IF i <= n + 1 THEN Cells[i] ELSE f[i]
        /\ \A i \in 1..n : Cells[i] = l[i]
        /\ Cells[n + 1] = End
    BY <1>1, <1>2, <1>4, <1>5, WriteOverProperties DEF TypeOK
  <2>4. Len(g) = n + 1
    <3>1. m < n + 1 \/ m = n + 1
      BY <2>2
    <3>2. Len(g) = IF m < n + 1 THEN n + 1 ELSE m
      BY <2>3
    <3> QED BY <3>1, <3>2
  <2>5. g[n + 1] = End /\ \A i \in 1..n : g[i] = l[i]
    <3>1. n + 1 \in 1..(n + 1) /\ \A i \in 1..n : i \in 1..(n + 1) /\ i <= n + 1
      OBVIOUS
    <3> QED BY <2>3, <2>4, <3>1
  <2>6. Parses(g)
    <3>1. Len(g) - 1 = n /\ Len(g) # 0 /\ g[Len(g)] = End
      BY <2>4, <2>5
    <3>2. Faithful(g, l)
      BY <1>1, <2>5, <3>1 DEF Faithful
    <3> QED BY <3>1, <3>2, FaithfulLoads
  <2>7. Len(r) = n /\ \A i \in 1..n : r[i] = g[i]
    <3>1. Len(g) - 1 = n
      BY <2>4
    <3> QED BY <1>6, <2>6, <3>1, LoadedProperties, EndIsNoEntry
  <2>8. Len(s) <= Len(r) /\ \A i \in 1..Len(s) : i \in 1..n
    BY <2>1, <2>2, <2>7
  <2>9. \A i \in 1..Len(s) : s[i] = r[i]
    BY <2>1, <2>2, <2>5, <2>7, <2>8
  <2> QED BY <1>2, <1>3, <1>5, <1>6, <2>8, <2>9, PrefixByElements
<1>8. CASE ~Parses(f)
  <2>1. s = <<>> /\ Len(s) = 0 /\ Len(r) \in Nat
    BY <1>3, <1>6, <1>8, LoadedProperties, EndIsNoEntry, EmptySeq, LenProperties
  <2>2. Len(s) <= Len(r) /\ \A i \in 1..Len(s) : s[i] = r[i]
    BY <2>1
  <2> QED BY <1>2, <1>3, <1>5, <1>6, <2>2, PrefixByElements
<1> QED BY <1>7, <1>8

\* What was saved stays in the file, whatever is saved after it and however often
\* the process starts anew: only a write that is cut short can take it away.
THEOREM SavedIsKept == Spec => SavesSurvive
<1>1. ASSUME TypeOK, FileInv, [Next]_vars
      PROVE  [\/ RestartAfterTornSave \/ \E c \in Conns : SaveFails(c)
              \/ IsPrefix(Loaded(file), Loaded(file'))]_vars
  <2>1. CASE file' = file
    <3>1. PICK s \in Seq(Entries) : s = Loaded(file)
      BY <1>1, LoadedProperties, EndIsNoEntry DEF TypeOK
    <3>2. IsPrefix(s, s)
      BY PrefixByElements, LenProperties
    <3> QED BY <2>1, <3>1, <3>2
  <2>2. ASSUME NEW c \in Conns, Save(c) PROVE IsPrefix(Loaded(file), Loaded(file'))
    BY <1>1, <2>2, SaveKeeps
  <2> QED BY <1>1, <2>1, <2>2, WhoWrites
<1> QED BY <1>1, FileInvariance, PTL DEF Spec, SavesSurvive

-----------------------------------------------------------------------------
(* What a newcomer is sent *)

\* A newcomer is sent all of the last Chunk entries that are not old: two chunks
\* from the end hold them, wherever the last chunk begins (on_open).  It holds of
\* any log, so the types are all that it needs.
THEOREM FullBacklog == Spec => []BacklogIsFull
<1>1. ASSUME TypeOK PROVE BacklogIsFull
  <2>1. PICK l \in Seq(Entries), n \in Nat : l = log /\ n = Len(l) /\ DOMAIN l = 1..n
    BY <1>1, LenProperties DEF TypeOK
  <2>2. PICK b \in Seq(Entries) : b = LastTwoChunks(l)
    BY LastTwoChunksProperties
  <2> SUFFICES ASSUME NEW i \in 1..n, i > n - Chunk, l[i] > old
               PROVE  \E j \in DOMAIN Backlog : Backlog[j] = l[i]
    BY <2>1 DEF BacklogIsFull
  <2>3. PICK j \in DOMAIN b : b[j] = l[i]
    BY <2>1, <2>2, LastTwoChunksProperties
  <2>4. l[i] \in (old + 1)..MaxLog
    <3>1. l[i] \in 1..MaxLog
      BY <2>1, ElementOfSeq DEF Entries
    <3> QED BY <1>1, <3>1, ConstantsAssumption DEF TypeOK
  <2>5. \E k \in DOMAIN Only(b, (old + 1)..MaxLog) : Only(b, (old + 1)..MaxLog)[k] = b[j]
    BY <2>3, <2>4, OnlyKeeps
  <2> QED BY <2>1, <2>2, <2>3, <2>5 DEF Backlog
<1> QED BY <1>1, TypeCorrectness, PTL

-----------------------------------------------------------------------------
(* What a connection hears *)

LEMMA CarriedProperties ==
    ASSUME NEW R, NEW S, \A r \in R : r.n \in S, NEW s \in Seq(R)
    PROVE  /\ Carried(s) \in Seq(S) /\ Len(Carried(s)) = Len(s)
           /\ \A i \in 1..Len(s) : Carried(s)[i] = s[i].n
<1>1. PICK n \in Nat : n = Len(s)
  BY LenProperties
<1>2. \A i \in 1..n : s[i] \in R
  BY <1>1, ElementOfSeq
<1>3. PICK g : g = [i \in 1..n |-> s[i].n]
  OBVIOUS
<1>4. g \in [1..n -> S]
  BY <1>2, <1>3
<1>5. g \in Seq(S) /\ Len(g) = n
  BY <1>4, SeqDef
<1> QED BY <1>1, <1>3, <1>5 DEF Carried

LEMMA CarriedConcat ==
    ASSUME NEW R, NEW S, \A r \in R : r.n \in S, NEW s \in Seq(R), NEW t \in Seq(R)
    PROVE  Carried(s \o t) = Carried(s) \o Carried(t)
<1>1. PICK st \in Seq(R) : st = s \o t
  BY ConcatProperties
<1>2. PICK n \in Nat, m \in Nat : n = Len(s) /\ m = Len(t)
  BY LenProperties
<1>3. PICK a \in Seq(S), b \in Seq(S), ab \in Seq(S) :
          a = Carried(s) /\ b = Carried(t) /\ ab = Carried(st)
  BY CarriedProperties
<1>4. Len(st) = n + m /\ \A i \in 1..(n + m) : st[i] = IF i <= n THEN s[i] ELSE t[i - n]
  BY <1>1, <1>2, ConcatProperties
<1>5. /\ Len(a) = n /\ \A i \in 1..n : a[i] = s[i].n
      /\ Len(b) = m /\ \A i \in 1..m : b[i] = t[i].n
      /\ Len(ab) = n + m /\ \A i \in 1..(n + m) : ab[i] = st[i].n
  BY <1>2, <1>3, <1>4, CarriedProperties
<1>6. PICK c \in Seq(S) : c = a \o b
  BY ConcatProperties
<1>7. Len(c) = n + m /\ \A i \in 1..(n + m) : c[i] = IF i <= n THEN a[i] ELSE b[i - n]
  BY <1>5, <1>6, ConcatProperties, ZenonT(30)
<1>8. ASSUME NEW i \in 1..(n + m) PROVE ab[i] = c[i]
  <2>1. CASE i <= n
    <3>1. i \in 1..n
      BY <2>1
    <3>2. st[i] = s[i] /\ c[i] = a[i]
      BY <1>4, <1>7, <2>1
    <3> QED BY <1>5, <3>1, <3>2
  <2>2. CASE ~(i <= n)
    <3>1. i - n \in 1..m
      BY <2>2
    <3> QED BY <1>4, <1>5, <1>7, <2>2, <3>1, SMTT(30)
  <2> QED BY <2>1, <2>2
<1> QED BY <1>1, <1>3, <1>5, <1>6, <1>7, <1>8, SeqEqual

NewsCarried == [to : Conns \cup {All}, n : Entries]

LEMMA NewsCarryEntries == \A s \in NewsCarried : s.n \in Entries
BY DEF NewsCarried

\* What a connection that has heard h will have heard when it has all of q.
FeedOf(h, q, c) == h \o Carried(Only(q, News(c)))

LEMMA NewsTypes ==
    ASSUME NEW q \in Seq(Signals), NEW c \in Conns
    PROVE  /\ Only(q, News(c)) \in Seq(NewsCarried)
           /\ Carried(Only(q, News(c))) \in Seq(Entries)
<1>1. Only(q, News(c)) \in Seq(Signals \cap News(c))
  BY OnlyType
<1>2. Signals \cap News(c) \subseteq NewsCarried
  BY DEF Signals, News, NewsCarried
<1>3. Only(q, News(c)) \in Seq(NewsCarried)
  BY <1>1, <1>2, SeqMonotonic
<1> QED BY <1>3, NewsCarryEntries, CarriedProperties

\* A signal at the end of the queue, or at its front, that brings c an entry.
LEMMA FeedAppend ==
    ASSUME NEW h \in Seq(Entries), NEW q \in Seq(Signals), NEW c \in Conns,
           NEW s \in Signals
    PROVE  FeedOf(h, Append(q, s), c)
               = IF s \in News(c) THEN Append(FeedOf(h, q, c), s.n) ELSE FeedOf(h, q, c)
<1>1. PICK T : T = NewsCarried /\ \A r \in T : r.n \in Entries
  BY NewsCarryEntries
<1>2. PICK o \in Seq(T) : o = Only(q, News(c))
  BY <1>1, NewsTypes
<1>3. Only(Append(q, s), News(c)) = IF s \in News(c) THEN Append(o, s) ELSE o
  BY <1>2, OnlyAppend
<1>4. ASSUME s \in News(c) PROVE h \o Carried(Append(o, s)) = Append(h \o Carried(o), s.n)
  <2>1. s \in T /\ s.n \in Entries
    BY <1>1, <1>4 DEF News, NewsCarried
  <2>2. PICK y \in Seq(T) : y = <<s>> /\ Append(o, s) = o \o y
    BY <2>1, Single, AppendIsConcat
  <2>3. PICK a \in Seq(Entries), b \in Seq(Entries) : a = Carried(o) /\ b = Carried(y)
    BY <1>1, CarriedProperties
  <2>4. Carried(Append(o, s)) = a \o b
    BY <1>1, <2>2, <2>3, CarriedConcat
  <2>5. b = <<s.n>>
    BY <1>1, <2>2, <2>3 DEF Carried
  <2>6. PICK x \in Seq(Entries) : x = h \o a
    BY ConcatProperties
  <2>7. h \o (a \o b) = (h \o a) \o b
    BY Regroup, SMTT(30)
  <2>8. Append(x, s.n) = x \o b
    BY <2>1, <2>5, AppendIsConcat
  <2> QED BY <2>3, <2>4, <2>6, <2>7, <2>8
<1> QED BY <1>2, <1>3, <1>4 DEF FeedOf

LEMMA FeedHead ==
    ASSUME NEW h \in Seq(Entries), NEW q \in Seq(Signals), q # <<>>, NEW c \in Conns
    PROVE  FeedOf(h, q, c) = IF Head(q) \in News(c)
                             THEN FeedOf(Append(h, Head(q).n), Tail(q), c)
                             ELSE FeedOf(h, Tail(q), c)
<1>1. PICK T : T = NewsCarried /\ \A r \in T : r.n \in Entries
  BY NewsCarryEntries
<1>2. PICK s \in Signals, r \in Seq(Signals) : s = Head(q) /\ r = Tail(q)
  BY HeadTailProperties
<1>3. PICK o \in Seq(T) : o = Only(r, News(c))
  BY <1>1, NewsTypes
<1>4. Only(q, News(c)) = IF s \in News(c) THEN <<s>> \o o ELSE o
  BY <1>2, <1>3, OnlyHead
<1>5. ASSUME s \in News(c) PROVE h \o Carried(<<s>> \o o) = Append(h, s.n) \o Carried(o)
  <2>1. s \in T /\ s.n \in Entries
    BY <1>1, <1>5 DEF News, NewsCarried
  <2>2. PICK y \in Seq(T) : y = <<s>>
    BY <2>1, Single
  <2>3. PICK a \in Seq(Entries), b \in Seq(Entries) : a = Carried(o) /\ b = Carried(y)
    BY <1>1, CarriedProperties
  <2>4. Carried(<<s>> \o o) = b \o a
    BY <1>1, <2>2, <2>3, CarriedConcat
  <2>5. b = <<s.n>>
    BY <1>1, <2>2, <2>3 DEF Carried
  <2>6. h \o (b \o a) = (h \o b) \o a
    BY Regroup, SMTT(30)
  <2>7. Append(h, s.n) = h \o b
    BY <2>1, <2>5, AppendIsConcat
  <2> QED BY <2>3, <2>4, <2>6, <2>7
<1> QED BY <1>2, <1>3, <1>4, <1>5 DEF FeedOf

\* Everything in the log, in the file, on its way and heard has a number that was
\* given.
Carriers(m) == [to : Conns \cup {All}, n : (1..m) \cup Errors]

Numbered ==
    /\ log \in Seq(1..pushed)
    /\ file \in Seq((1..pushed) \cup {End})
    /\ queue \in Seq(Carriers(pushed))
    /\ opened \in [Conns -> 0..pushed]

LEMMA InitNumbered == Init => Numbered
<1>1. <<>> \in Seq(1..0) /\ <<>> \in Seq((1..0) \cup {End}) /\ <<>> \in Seq(Carriers(0))
  BY EmptySeq
<1> QED BY <1>1 DEF Init, Numbered

\* What is numbered stays so when a number is given.
LEMMA NextNumber ==
    ASSUME NEW m \in Nat, NEW k \in Nat, k = m + 1, k \in Entries
    PROVE  /\ \A l \in Seq(1..m) : l \in Seq(1..k) /\ Append(l, k) \in Seq(1..k)
           /\ \A f \in Seq((1..m) \cup {End}) : f \in Seq((1..k) \cup {End})
           /\ \A q \in Seq(Carriers(m)) :
                 q \in Seq(Carriers(k)) /\ Append(q, Signal(All, k)) \in Seq(Carriers(k))
<1>1. /\ 1..m \subseteq 1..k /\ (1..m) \cup {End} \subseteq (1..k) \cup {End}
      /\ k \in 1..k
  OBVIOUS
<1>2. Carriers(m) \subseteq Carriers(k) /\ Signal(All, k) \in Carriers(k)
  BY <1>1 DEF Carriers, Signal
<1>3. ASSUME NEW l \in Seq(1..m) PROVE l \in Seq(1..k) /\ Append(l, k) \in Seq(1..k)
  <2>1. l \in Seq(1..k)
    BY <1>1, SeqMonotonic
  <2> QED BY <1>1, <2>1, AppendProperties
<1>4. ASSUME NEW f \in Seq((1..m) \cup {End}) PROVE f \in Seq((1..k) \cup {End})
  BY <1>1, SeqMonotonic
<1>5. ASSUME NEW q \in Seq(Carriers(m))
      PROVE  q \in Seq(Carriers(k)) /\ Append(q, Signal(All, k)) \in Seq(Carriers(k))
  <2>1. q \in Seq(Carriers(k))
    BY <1>2, SeqMonotonic
  <2> QED BY <1>2, <2>1, AppendProperties
<1> QED BY <1>3, <1>4, <1>5

LEMMA NumberedStep == ASSUME TypeOK, Numbered, [Next]_vars PROVE Numbered'
<1>1. CASE UNCHANGED <<log, file, queue, opened, pushed>>
  BY <1>1 DEF Numbered
<1>2. PICK m \in Nat : m = pushed /\ m <= MaxLog
  BY ConstantsAssumption DEF TypeOK
<1>3. ASSUME pushed < MaxLog, NEW q \in Seq(Carriers(m)), pushed' = pushed + 1,
             log' = Append(log, pushed + 1), queue' = Append(q, Signal(All, pushed + 1)),
             file' = file, NEW c \in Conns, opened' \in {opened, [opened EXCEPT ![c] = 0]}
      PROVE  Numbered'
  <2>1. PICK k \in Nat : k = m + 1 /\ k = pushed'
    BY <1>2, <1>3
  <2>2. k \in Entries
    BY <1>2, <1>3, <2>1, ConstantsAssumption DEF Entries
  <2>3. PICK l \in Seq(1..m), f \in Seq((1..m) \cup {End}) : l = log /\ f = file
    BY <1>2 DEF Numbered
  <2>4. /\ Append(l, k) \in Seq(1..k) /\ f \in Seq((1..k) \cup {End})
        /\ Append(q, Signal(All, k)) \in Seq(Carriers(k))
    BY <2>1, <2>2, NextNumber
  <2>5. opened' \in [Conns -> 0..k]
    <3>1. opened \in [Conns -> 0..k]
      BY <1>2, <2>1 DEF Numbered
    <3>2. [opened EXCEPT ![c] = 0] \in [Conns -> 0..k]
      BY <3>1
    <3> QED BY <1>3, <3>1, <3>2
  <2> QED BY <1>2, <1>3, <2>1, <2>3, <2>4, <2>5 DEF Numbered
<1>4. ASSUME NEW c \in Conns, OnOpen(c) PROVE Numbered'
  <2>1. PICK b \in Seq(1..m) : b = Backlog
    <3>1. 1..m \subseteq Entries
      BY <1>2, ConstantsAssumption DEF Entries
    <3> QED BY <1>2, <3>1, BacklogType DEF Numbered
  <2>2. PICK s : s = [i \in 1..Len(b) |-> Signal(c, b[i])]
    OBVIOUS
  <2>3. s \in Seq(Carriers(m))
    <3>1. s \in Seq([to : {c}, n : 1..m])
      <4>1. 1..m \subseteq Entries
        BY <1>2, ConstantsAssumption DEF Entries
      <4> QED BY <2>2, <4>1, SignalsOf
    <3>2. [to : {c}, n : 1..m] \subseteq Carriers(m)
      BY DEF Carriers
    <3> QED BY <3>1, <3>2, SeqMonotonic
  <2>4. queue' = queue \o s
    BY <1>4, <2>1, <2>2 DEF OnOpen
  <2>5. queue' \in Seq(Carriers(m))
    BY <1>2, <2>3, <2>4, ConcatProperties DEF Numbered
  <2>6. opened' \in [Conns -> 0..m]
    BY <1>2, <1>4 DEF OnOpen, Numbered
  <2> QED BY <1>2, <1>4, <2>5, <2>6 DEF OnOpen, Numbered
<1>5. ASSUME NEW c \in Conns, Publish, UNCHANGED <<file, opened>> PROVE Numbered'
  BY <1>2, <1>3, <1>5 DEF Publish, Numbered
<1>6. ASSUME NEW c \in Conns, NEW e \in Errors, Complain(c, e), UNCHANGED <<file, opened>>
      PROVE  Numbered'
  <2>1. Signal(c, e) \in Carriers(m)
    BY DEF Signal, Carriers
  <2>2. queue' \in Seq(Carriers(m))
    BY <1>2, <1>6, <2>1, AppendProperties DEF Complain, Numbered
  <2> QED BY <1>2, <1>6, <2>2 DEF Complain, Numbered
<1>7. ASSUME NEW c \in Conns, OnChat(c) PROVE Numbered'
  BY <1>5, <1>7 DEF OnChat
<1>8. ASSUME NEW c \in Conns, OnGarbage(c) PROVE Numbered'
  BY <1>6, <1>8 DEF OnGarbage, Errors
<1>9. ASSUME NEW c \in Conns, NEW name \in Names, Refuse(c, name) PROVE Numbered'
  BY <1>6, <1>9 DEF Refuse, Errors
<1>10. ASSUME NEW c \in Conns, NEW name \in Names, Welcome(c, name) PROVE Numbered'
  BY <1>5, <1>10 DEF Welcome
<1>11. ASSUME NEW c \in Conns, CloseNamed(c) PROVE Numbered'
  <2>1. PICK q \in Seq(Carriers(m)) : q = WithoutSignalsTo(c)
    BY <1>2, WithoutSignalsType DEF Numbered
  <2> QED BY <1>3, <1>11, <2>1 DEF CloseNamed, Forget
<1>12. ASSUME NEW c \in Conns, CloseNameless(c) PROVE Numbered'
  <2>1. queue' \in Seq(Carriers(m))
    BY <1>2, <1>12, WithoutSignalsType DEF CloseNameless, Numbered
  <2>2. opened' \in [Conns -> 0..m]
    BY <1>2, <1>12 DEF CloseNameless, Forget, Numbered
  <2> QED BY <1>2, <1>12, <2>1, <2>2 DEF CloseNameless, Forget, Numbered
<1>13. ASSUME NEW f, Found(f) PROVE f \in Seq((1..m) \cup {End})
  <2>1. Len(log) \in Nat /\ \A k \in 0..Len(log) : k \in 0..(Len(log) + 1)
    BY LenProperties DEF TypeOK
  <2>2. ASSUME NEW k \in 0..Len(log) PROVE WriteOver(k) \in Seq((1..m) \cup {End})
    BY <1>2, <2>1, WriteOverProperties DEF Numbered
  <2> QED BY <1>2, <1>13, <2>2 DEF Found, Numbered
<1>14. ASSUME NEW c \in Conns, Save(c) PROVE Numbered'
  <2>1. Len(log) \in Nat /\ 0 \in 0..(Len(log) + 1)
    BY LenProperties DEF TypeOK
  <2>2. Len(Cells) \in 0..(Len(log) + 1)
    <3>1. Len(Cells) = Len(log) + 1
      BY <2>1, WriteOverProperties DEF TypeOK
    <3> QED BY <2>1, <3>1
  <2>3. file' \in Seq((1..m) \cup {End})
    BY <1>2, <1>14, <2>2, WriteOverProperties DEF Save, Numbered
  <2> QED BY <1>2, <1>14, <2>3 DEF Save, Numbered
<1>15. ASSUME NEW c \in Conns, SaveFails(c) PROVE Numbered'
  <2>1. Found(file')
    BY <1>15 DEF SaveFails, Found
  <2> QED BY <1>2, <1>13, <1>15, <2>1 DEF SaveFails, Numbered
<1>16. CASE Dispatch
  <2>1. queue' \in Seq(Carriers(m))
    BY <1>2, <1>16, HeadTailProperties DEF Dispatch, Numbered
  <2> QED BY <1>2, <1>16, <2>1 DEF Dispatch, Numbered
<1>17. ASSUME NEW f, Found(f), StartFrom(f) PROVE Numbered'
  <2>1. End \notin 1..m
    BY DEF End
  <2>2. log' \in Seq(1..m) /\ file' \in Seq((1..m) \cup {End})
    BY <1>13, <1>17, <2>1, LoadedProperties DEF StartFrom, StartLog
  <2>3. queue' \in Seq(Carriers(m)) /\ opened' \in [Conns -> 0..m]
    BY <1>17, EmptySeq DEF StartFrom
  <2> QED BY <1>2, <1>17, <2>2, <2>3 DEF StartFrom, Numbered
<1>18. UNCHANGED vars \/ Age => UNCHANGED <<log, file, queue, opened, pushed>>
  BY DEF vars, Age
<1> QED
  BY <1>1, <1>4, <1>7, <1>8, <1>9, <1>10, <1>11, <1>12, <1>14, <1>15, <1>16, <1>17, <1>18, Steps,
     Zenon

LEMMA FeedOfType ==
    ASSUME NEW h \in Seq(Entries), NEW q \in Seq(Signals), NEW c \in Conns
    PROVE  FeedOf(h, q, c) \in Seq(Entries)
<1>1. PICK s \in Seq(Entries) : s = Carried(Only(q, News(c)))
  BY NewsTypes
<1> QED BY <1>1, ConcatProperties DEF FeedOf

LEMMA NoticeIsNews ==
    ASSUME NEW k \in Entries, NEW c \in Conns
    PROVE  Signal(All, k) \in Signals /\ Signal(All, k) \in News(c) /\ Signal(All, k).n = k
BY DEF Signal, Signals, News

\* The signals to another connection bring c nothing.
LEMMA FeedWithout ==
    ASSUME TypeOK, NEW c \in Conns, NEW d \in Conns, d # c
    PROVE  FeedOf(heard[d], WithoutSignalsTo(c), d) = FeedOf(heard[d], queue, d)
<1>1. PICK T : T = {s \in Signals : s.to # c}
  OBVIOUS
<1>2. PICK U : U = News(d) /\ \A s \in Signals : s \in U => s \in T
  BY <1>1, ConstantsAssumption DEF News
<1>3. Only(Only(queue, T), U) = Only(queue, U \cap T)
  BY OnlyTwice DEF TypeOK
<1>4. Only(queue, U \cap T) = Only(queue, U)
  <2>1. \A s \in Signals : s \in U \cap T <=> s \in U
    BY <1>2
  <2> QED BY <2>1, OnlySame DEF TypeOK
<1> QED BY <1>1, <1>2, <1>3, <1>4 DEF FeedOf, WithoutSignalsTo

\* The numbers after a, as far as b.
UpTo(a, b) == [i \in 1..(b - a) |-> a + i]

LEMMA UpToNone == ASSUME NEW a \in Nat PROVE UpTo(a, a) = <<>>
<1>1. 1..(a - a) = {}
  OBVIOUS
<1> QED BY <1>1 DEF UpTo

LEMMA UpToGrows ==
    ASSUME NEW a \in Nat, NEW b \in Nat, a <= b
    PROVE  UpTo(a, b + 1) = Append(UpTo(a, b), b + 1)
<1>1. PICK n \in Nat : n = b - a /\ (b + 1) - a = n + 1 /\ a + (n + 1) = b + 1
  OBVIOUS
<1>2. PICK s : s = [i \in 1..n |-> a + i]
  OBVIOUS
<1>3. PICK t : t = [i \in 1..(n + 1) |-> a + i]
  OBVIOUS
<1>4. s \in [1..n -> Nat] /\ t \in [1..(n + 1) -> Nat]
  BY <1>2, <1>3
<1>5. s \in Seq(Nat) /\ Len(s) = n /\ t \in Seq(Nat) /\ Len(t) = n + 1
  BY <1>4, SeqDef
<1>6. PICK r \in Seq(Nat) : r = Append(s, b + 1)
  <2>1. PICK k \in Nat : k = b + 1
    OBVIOUS
  <2>2. Append(s, k) \in Seq(Nat)
    BY <1>5, AppendProperties
  <2> QED BY <2>1, <2>2
<1>7. Len(r) = n + 1 /\ r[n + 1] = b + 1 /\ \A i \in 1..n : r[i] = s[i]
  BY <1>5, <1>6, AppendProperties
<1>8. ASSUME NEW i \in 1..(n + 1) PROVE t[i] = r[i]
  <2>1. CASE i = n + 1
    BY <1>1, <1>3, <1>7, <2>1
  <2>2. CASE i \in 1..n
    BY <1>2, <1>3, <1>7, <2>2
  <2> QED BY <2>1, <2>2
<1>9. t = r
  BY <1>5, <1>6, <1>7, <1>8, SeqEqual
<1> QED BY <1>1, <1>2, <1>3, <1>6, <1>9 DEF UpTo

\* A feed has, after number a, just the numbers as far as b.
HasNews(feed, a, b) == Only(feed, (a + 1)..MaxLog) = UpTo(a, b)

LEMMA NewsGrow ==
    ASSUME NEW feed \in Seq(Entries), NEW a \in Nat, NEW b \in Nat, a <= b, b < MaxLog,
           HasNews(feed, a, b)
    PROVE  HasNews(Append(feed, b + 1), a, b + 1)
<1>0. PICK T : T = (a + 1)..MaxLog
  OBVIOUS
<1>1. PICK k \in Entries : k = b + 1 /\ k \in T
  BY <1>0, ConstantsAssumption DEF Entries
<1>2. Only(Append(feed, k), T) = Append(Only(feed, T), k)
  BY <1>1, OnlyAppend
<1> QED BY <1>0, <1>1, <1>2, UpToGrows DEF HasNews

LEMMA NewsByFeeds == NewsOnce <=> \A c \in live : HasNews(FeedOf(heard[c], queue, c), opened[c], pushed)
BY DEF NewsOnce, HasNews, FeedOf, Feed, UpTo

LEMMA NewsByFeedsNext ==
    ASSUME \A c \in live' : HasNews(FeedOf(heard'[c], queue', c), opened'[c], pushed')
    PROVE  NewsOnce'
BY DEF NewsOnce, HasNews, FeedOf, Feed, UpTo, News, Carried

\* A newcomer's backlog, and all that was on its way before it came, is old news.
LEMMA OldNews ==
    ASSUME TypeOK, Numbered, NEW c \in Conns, NEW s \in Seq(Carriers(pushed)),
           s \in Seq(Signals)
    PROVE  HasNews(FeedOf(<<>>, s, c), pushed, pushed)
<1>1. PICK m \in Nat : m = pushed
  BY DEF TypeOK
<1>2. PICK R : R = Carriers(m) \cap News(c)
  OBVIOUS
<1>3. PICK o \in Seq(R) : o = Only(s, News(c))
  BY <1>1, <1>2, OnlyType
<1>4. \A r \in R : r.n \in 1..m
  BY <1>2, EndIsNoEntry DEF Carriers, News
<1>5. PICK k \in Seq(1..m) : k = Carried(o)
  BY <1>4, CarriedProperties
<1>6. FeedOf(<<>>, s, c) = k
  BY <1>3, <1>5, ConcatEmptySeq DEF FeedOf
<1>7. Only(k, (m + 1)..MaxLog) = <<>>
  <2>1. (1..m) \cap ((m + 1)..MaxLog) = {}
    BY ConstantsAssumption
  <2> QED BY <2>1, OnlyNone
<1> QED BY <1>1, <1>6, <1>7, UpToNone DEF HasNews

LEMMA NewsStep == ASSUME TypeOK, Numbered, NewsOnce, [Next]_vars PROVE NewsOnce'
<1>1. PICK m \in Nat : m = pushed /\ m <= MaxLog
  BY ConstantsAssumption DEF TypeOK
<1>2. ASSUME NEW d \in live
      PROVE  /\ d \in Conns /\ heard[d] \in Seq(Entries)
             /\ opened[d] \in Nat /\ opened[d] <= m
             /\ HasNews(FeedOf(heard[d], queue, d), opened[d], m)
  <2>1. HasNews(FeedOf(heard[d], queue, d), opened[d], m)
    BY <1>1, NewsByFeeds
  <2> QED BY <1>1, <2>1 DEF TypeOK, Numbered
<1>3. ASSUME live' = live, UNCHANGED <<heard, opened, pushed, queue>> PROVE NewsOnce'
  BY <1>1, <1>2, <1>3, NewsByFeedsNext
\* A number is given: every feed that is left gets it.
<1>4. ASSUME NEW q \in Seq(Signals), pushed < MaxLog, pushed' = pushed + 1,
             queue' = Append(q, Signal(All, pushed + 1)), live' \subseteq live,
             \A d \in live' : /\ heard'[d] = heard[d] /\ opened'[d] = opened[d]
                              /\ FeedOf(heard[d], q, d) = FeedOf(heard[d], queue, d)
      PROVE  NewsOnce'
  <2>1. PICK k \in Entries : k = m + 1
    BY <1>1, <1>4, ConstantsAssumption DEF Entries
  <2> SUFFICES ASSUME NEW d \in live'
               PROVE  HasNews(FeedOf(heard[d], Append(q, Signal(All, k)), d), opened[d], m + 1)
    BY <1>1, <1>4, <2>1, NewsByFeedsNext
  <2>2. PICK feed \in Seq(Entries) : feed = FeedOf(heard[d], q, d)
    BY <1>2, <1>4, FeedOfType
  <2>3. HasNews(feed, opened[d], m)
    BY <1>2, <1>4, <2>2
  <2>4. FeedOf(heard[d], Append(q, Signal(All, k)), d) = Append(feed, m + 1)
    <3>1. PICK g \in Signals : g = Signal(All, k) /\ g \in News(d) /\ g.n = k
      BY <1>2, <1>4, NoticeIsNews
    <3>2. FeedOf(heard[d], Append(q, g), d) = Append(feed, g.n)
      BY <1>2, <1>4, <2>2, <3>1, FeedAppend
    <3> QED BY <2>1, <3>1, <3>2
  <2> QED BY <1>1, <1>2, <1>4, <2>3, <2>4, NewsGrow
<1>5. ASSUME NEW c \in Conns, OnOpen(c) PROVE NewsOnce'
  <2>1. PICK b \in Seq(1..m) : b = Backlog
    <3>1. 1..m \subseteq Entries
      BY <1>1, ConstantsAssumption DEF Entries
    <3> QED BY <1>1, <3>1, BacklogType DEF Numbered
  <2>2. PICK s : s = [i \in 1..Len(b) |-> Signal(c, b[i])]
    OBVIOUS
  <2>3. PICK One : One = [to : {c}, n : 1..m] /\ s \in Seq(One)
    <3>1. 1..m \subseteq Entries
      BY <1>1, ConstantsAssumption DEF Entries
    <3>2. s \in Seq([to : {c}, n : 1..m])
      BY <2>2, <3>1, SignalsOf
    <3> QED BY <3>2
  <2>4. One \subseteq Carriers(m) /\ One \subseteq Signals
    <3>1. 1..m \subseteq Entries
      BY <1>1, ConstantsAssumption DEF Entries
    <3> QED BY <2>3, <3>1 DEF Carriers, Signals
  <2>5. s \in Seq(Carriers(m)) /\ s \in Seq(Signals)
    BY <2>3, <2>4, SeqMonotonic
  <2>6. PICK q \in Seq(Signals) : q = queue /\ q \in Seq(Carriers(m))
    BY <1>1 DEF TypeOK, Numbered
  <2>7. PICK qs : qs = q \o s /\ qs \in Seq(Carriers(m)) /\ qs \in Seq(Signals)
    BY <2>5, <2>6, ConcatProperties
  <2>8. /\ live' = live \cup {c} /\ queue' = qs /\ pushed' = m
        /\ \A d \in Conns : heard'[d] = IF d = c THEN <<>> ELSE heard[d]
        /\ \A d \in Conns : opened'[d] = IF d = c THEN m ELSE opened[d]
    BY <1>1, <1>5, <2>1, <2>2, <2>6, <2>7 DEF OnOpen, TypeOK
  <2>9. HasNews(FeedOf(<<>>, qs, c), m, m)
    BY <1>1, <2>7, OldNews
  <2>10. ASSUME NEW d \in live, d # c PROVE HasNews(FeedOf(heard[d], qs, d), opened[d], m)
    <3>1. One \cap News(d) = {}
      BY <1>2, <2>3, <2>10, ConstantsAssumption DEF News
    <3>2. Only(s, News(d)) = <<>>
      BY <2>3, <3>1, OnlyNone
    <3>3. PICK o \in Seq(Signals \cap News(d)) : o = Only(q, News(d))
      BY <2>6, OnlyType
    <3>4. Only(qs, News(d)) = o \o <<>>
      <4>1. PICK N : N = News(d)
        OBVIOUS
      <4>2. Only(q \o s, N) = Only(q, N) \o Only(s, N)
        BY <2>5, OnlyConcat
      <4> QED BY <2>7, <3>2, <3>3, <4>1, <4>2
    <3>5. Only(qs, News(d)) = Only(queue, News(d))
      BY <2>6, <3>3, <3>4, ConcatEmptySeq
    <3>6. FeedOf(heard[d], qs, d) = FeedOf(heard[d], queue, d)
      BY <3>5 DEF FeedOf
    <3> QED BY <1>2, <3>6
  <2>11. ASSUME NEW d \in live' PROVE HasNews(FeedOf(heard'[d], queue', d), opened'[d], pushed')
    <3>1. CASE d = c
      BY <2>8, <2>9, <3>1
    <3>2. CASE d # c
      <4>1. d \in live /\ d \in Conns
        BY <1>2, <2>8, <2>11, <3>2
      <4> QED BY <2>8, <2>10, <3>2, <4>1
    <3> QED BY <3>1, <3>2
  <2> QED BY <2>11, NewsByFeedsNext
<1>6. ASSUME Publish, live' = live, UNCHANGED <<heard, opened>> PROVE NewsOnce'
  BY <1>4, <1>6 DEF Publish, TypeOK
<1>7. ASSUME NEW c \in Conns, NEW e \in Errors, Complain(c, e), live' = live,
             UNCHANGED <<heard, opened>>
      PROVE  NewsOnce'
  <2>1. Signal(c, e) \in Signals /\ \A d \in Conns : Signal(c, e) \notin News(d)
    BY EndIsNoEntry DEF Signal, Signals, News
  <2>2. ASSUME NEW d \in live
        PROVE  FeedOf(heard[d], Append(queue, Signal(c, e)), d) = FeedOf(heard[d], queue, d)
    BY <1>2, <2>1, FeedAppend DEF TypeOK
  <2> QED BY <1>1, <1>2, <1>7, <2>2, NewsByFeedsNext DEF Complain
<1>8. ASSUME NEW c \in Conns, Forget(c)
      PROVE  /\ live' = live \ {c}
             /\ \A d \in live' : /\ d \in live /\ heard'[d] = heard[d] /\ opened'[d] = opened[d]
                                  /\ FeedOf(heard[d], WithoutSignalsTo(c), d)
                                         = FeedOf(heard[d], queue, d)
  <2>1. /\ live' = live \ {c}
        /\ \A d \in live' : d \in live /\ heard'[d] = heard[d] /\ opened'[d] = opened[d]
    BY <1>2, <1>8 DEF Forget, TypeOK
  <2>2. ASSUME NEW d \in live'
        PROVE  FeedOf(heard[d], WithoutSignalsTo(c), d) = FeedOf(heard[d], queue, d)
    BY <1>2, <2>1, <2>2, FeedWithout
  <2> QED BY <2>1, <2>2
<1>9. ASSUME NEW c \in Conns, CloseNamed(c) PROVE NewsOnce'
  <2>1. PICK q \in Seq(Signals) : q = WithoutSignalsTo(c)
    BY WithoutSignalsType DEF TypeOK
  <2>2. /\ pushed < MaxLog /\ pushed' = pushed + 1 /\ Forget(c)
        /\ queue' = Append(q, Signal(All, pushed + 1))
    BY <1>9, <2>1 DEF CloseNamed
  <2>3. /\ live' \subseteq live
        /\ \A d \in live' : /\ heard'[d] = heard[d] /\ opened'[d] = opened[d]
                             /\ FeedOf(heard[d], q, d) = FeedOf(heard[d], queue, d)
    BY <1>8, <2>1, <2>2
  <2> QED BY <1>4, <2>2, <2>3
<1>10. ASSUME NEW c \in Conns, CloseNameless(c) PROVE NewsOnce'
  <2>1. Forget(c) /\ queue' = WithoutSignalsTo(c) /\ pushed' = m
    BY <1>1, <1>10 DEF CloseNameless
  <2>2. ASSUME NEW d \in live' PROVE HasNews(FeedOf(heard'[d], queue', d), opened'[d], pushed')
    BY <1>2, <1>8, <2>1, <2>2
  <2> QED BY <2>2, NewsByFeedsNext
<1>11. CASE Dispatch
  <2>1. PICK s \in Signals, r \in Seq(Signals) :
            s = Head(queue) /\ r = Tail(queue) /\ queue # <<>> /\ queue' = r
    BY <1>11, HeadTailProperties DEF Dispatch, TypeOK
  <2>2. ASSUME NEW d \in live
        PROVE  heard'[d] = IF s \in News(d) THEN Append(heard[d], s.n) ELSE heard[d]
    <3>1. heard'[d] = IF d \in Reaches(s) THEN Append(heard[d], s.n) ELSE heard[d]
      BY <1>2, <1>11, <2>1 DEF Dispatch
    <3>2. d \in Reaches(s) <=> s \in News(d)
      BY <1>2, <2>1, EndIsNoEntry, ConstantsAssumption DEF Reaches, News, Signals
    <3> QED BY <3>1, <3>2
  <2>3. ASSUME NEW d \in live PROVE FeedOf(heard'[d], r, d) = FeedOf(heard[d], queue, d)
    <3>1. FeedOf(heard[d], queue, d) = IF s \in News(d) THEN FeedOf(Append(heard[d], s.n), r, d)
                                      ELSE FeedOf(heard[d], r, d)
      BY <1>2, <2>1, FeedHead DEF TypeOK
    <3> QED BY <2>2, <3>1
  <2>4. live' = live /\ opened' = opened /\ pushed' = m
    BY <1>1, <1>11 DEF Dispatch
  <2> QED BY <1>2, <2>1, <2>3, <2>4, NewsByFeedsNext
<1>12. ASSUME NEW f, StartFrom(f) PROVE NewsOnce'
  BY <1>12 DEF StartFrom, NewsOnce
<1>13. ASSUME NEW c \in Conns, OnChat(c) PROVE NewsOnce'
  BY <1>6, <1>13 DEF OnChat
<1>14. ASSUME NEW c \in Conns, OnGarbage(c) PROVE NewsOnce'
  BY <1>7, <1>14 DEF OnGarbage, Errors
<1>15. ASSUME NEW c \in Conns, NEW name \in Names, Refuse(c, name) PROVE NewsOnce'
  BY <1>7, <1>15 DEF Refuse, Errors
<1>16. ASSUME NEW c \in Conns, NEW name \in Names, Welcome(c, name) PROVE NewsOnce'
  BY <1>6, <1>16 DEF Welcome
<1>17. UNCHANGED vars \/ Age \/ (\E c \in Conns : Save(c) \/ SaveFails(c))
       => live' = live /\ UNCHANGED <<heard, opened, pushed, queue>>
  BY DEF vars, Age, Save, SaveFails
<1> QED
  BY <1>3, <1>5, <1>9, <1>10, <1>11, <1>12, <1>13, <1>14, <1>15, <1>16, <1>17, Steps, Zenon

\* Whatever is pushed after a connection has opened reaches it once and in order,
\* whatever the backlog and the broadcasts under way repeat.  Inductive with the
\* types and with the numbers of all that is in the log, in the file and under way.
THEOREM NewsReachesOnce == Spec => []NewsOnce
<1>1. Init => NewsOnce
  BY DEF Init, NewsOnce
<1>2. TypeOK /\ Numbered /\ [Next]_vars => Numbered'
  BY NumberedStep
<1>3. TypeOK /\ Numbered /\ NewsOnce /\ [Next]_vars => NewsOnce'
  BY NewsStep
<1> QED BY <1>1, <1>2, <1>3, InitNumbered, TypeCorrectness, PTL DEF Spec

=============================================================================
