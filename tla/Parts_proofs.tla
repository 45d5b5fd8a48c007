------------------------------ MODULE Parts_proofs ------------------------------
(***************************************************************************)
(* Theorems about the small components, each by itself.  Names of theorems   *)
(* and invariants tell which one they are about.                            *)
(***************************************************************************)
EXTENDS Heartbeat, ChatCodec, MinStack, TcpEcho, ConnCount, Selection_proofs, FiniteSetTheorems

-----------------------------------------------------------------------------
(* Heartbeat, for every interval, timeout, period and delay *)

\* The inductive invariant: the types and the age of hb.
AgeInv ==
    /\ HbTypeOK
    /\ SilentAtMost
    /\ HbFollowsPings
    /\ PunctualIsKept

\* The times of a session are those of its kind, for good.
LEMMA TimesOfKind ==
    /\ Interval \in Nat \ {0} /\ Delay \in Nat
    /\ Timeout \in Nat /\ Period \in Nat \ {0}
    /\ kind' = kind => Interval' = Interval /\ Delay' = Delay
BY TimesAssumption DEF Interval, Delay

LEMMA InitAge == HbInit => AgeInv
<1> SUFFICES ASSUME HbInit PROVE AgeInv
  OBVIOUS
<1> USE TimesOfKind DEF HbInit
<1>1. up \in BOOLEAN /\ falls \in BOOLEAN /\ flight \in Seq(0..Delay)
  BY EmptySeq
<1>2. age \in 0..(Timeout + Interval) /\ timer \in 0..Interval /\ clock \in 0..Period
  OBVIOUS
<1> QED BY <1>1, <1>2 DEF AgeInv, HbTypeOK, SilentAtMost, HbFollowsPings, SinceLastPing, PingPeriod, PunctualIsKept

\* What a pass of time does to the pings under way.
LEMMA OneUnitOlder ==
    ASSUME HbTypeOK, \A i \in DOMAIN flight : flight[i] < Delay,
           flight' = [i \in 1..Len(flight) |-> flight[i] + 1]
    PROVE  /\ flight' \in Seq(0..Delay)
           /\ flight' = <<>> <=> flight = <<>>
           /\ flight # <<>> => Head(flight') = Head(flight) + 1
<1> USE TimesOfKind DEF HbTypeOK
<1>1. Len(flight) \in Nat /\ DOMAIN flight = 1..Len(flight)
  BY LenProperties
<1>2. \A i \in 1..Len(flight) : flight[i] \in 0..Delay /\ flight[i] + 1 \in 0..Delay
  BY <1>1, ElementOfSeq
<1>3. flight' \in [1..Len(flight) -> 0..Delay]
  BY <1>2
<1>4. flight' \in Seq(0..Delay)
  BY <1>1, <1>3, SeqDef
<1>5. Len(flight') = Len(flight)
  BY <1>1, <1>3, <1>4, LenProperties
<1>6. flight' = <<>> <=> flight = <<>>
  BY <1>4, <1>5, EmptySeq
<1>7. ASSUME flight # <<>> PROVE Head(flight') = Head(flight) + 1
  <2>1. Len(flight) \in Nat \ {0}
    BY <1>7, EmptySeq
  <2>2. flight'[1] = flight[1] + 1
    BY <2>1
  <2> QED BY <1>6, <1>7, <2>2
<1> QED BY <1>4, <1>6, <1>7

LEMMA PeerIsInTime ==
    ASSUME AgeInv, up, PingPeriod + Delay <= Timeout, ~falls
    PROVE  ~Late
<1>1. age <= SinceLastPing \/ (flight # <<>> /\ age <= Head(flight) + PingPeriod)
  BY DEF AgeInv, HbFollowsPings
<1>2. flight # <<>> => Head(flight) \in 0..Delay
  BY HeadTailProperties DEF AgeInv, HbTypeOK
<1>3. SinceLastPing \in 0..PingPeriod
  BY TimesOfKind DEF AgeInv, HbTypeOK, SinceLastPing, PingPeriod
<1>4. age \in Nat /\ PingPeriod \in Nat /\ Delay \in Nat /\ Timeout \in Nat
  BY TimesOfKind DEF AgeInv, HbTypeOK, PingPeriod
<1> QED BY <1>1, <1>2, <1>3, <1>4 DEF Late

LEMMA CheckAge == ASSUME AgeInv, TcpCheck \/ WsCheck PROVE AgeInv'
<1> USE TimesOfKind DEF AgeInv, HbTypeOK
<1>1. UNCHANGED <<kind, age, falls, clock>> /\ timer' = 0 /\ timer' \in 0..Interval
  BY DEF TcpCheck, WsCheck
<1>2. up' \in BOOLEAN /\ (up' => ~Late)
  BY DEF TcpCheck, WsCheck
<1>3. flight' \in Seq(0..Delay)
  BY AppendProperties, SMTT(30) DEF TcpCheck, WsCheck
<1>4. SilentAtMost'
  BY <1>1, <1>2 DEF Late, SilentAtMost
<1>5. HbFollowsPings'
  <2>1. CASE TcpCheck
    BY <1>1, <2>1 DEF TcpCheck, HbFollowsPings, SinceLastPing, PingPeriod
  <2>2. CASE WsCheck /\ up' /\ ~falls
    <3>1. flight' = Append(flight, 0) /\ timer = Interval /\ kind = "ws" /\ up
      BY <1>2, <2>2 DEF WsCheck
    <3>2. flight' # <<>> /\ Head(flight') = IF flight = <<>> THEN 0 ELSE Head(flight)
      BY <3>1, AppendProperties, HeadTailAppend
    <3> QED BY <1>1, <2>2, <3>1, <3>2 DEF HbFollowsPings, SinceLastPing, PingPeriod
  <2>3. CASE ~up' \/ falls
    BY <1>1, <2>3 DEF HbFollowsPings
  <2> QED BY <2>1, <2>2, <2>3
<1>6. PunctualIsKept'
  <2>1. ASSUME PingPeriod + Delay <= Timeout, ~falls PROVE up'
    BY <2>1, PeerIsInTime DEF TcpCheck, WsCheck
  <2> QED BY <1>1, <2>1 DEF PunctualIsKept, PingPeriod
<1> QED BY <1>1, <1>2, <1>3, <1>4, <1>5, <1>6

LEMMA PingAge == ASSUME AgeInv, HandlePing PROVE AgeInv'
<1> USE TimesOfKind DEF AgeInv, HbTypeOK, HandlePing
<1>1. flight' \in Seq(0..Delay)
  BY HeadTailProperties
<1>2. flight' # <<>> => Head(flight') \in 0..Delay
  BY <1>1, HeadTailProperties
<1>3. SinceLastPing \in Nat /\ PingPeriod \in Nat
  BY DEF SinceLastPing, PingPeriod
<1>4. SinceLastPing' = SinceLastPing /\ PingPeriod' = PingPeriod
  BY DEF SinceLastPing, PingPeriod
<1>5. HbFollowsPings'
  BY <1>2, <1>3, <1>4, SMTT(30) DEF HbFollowsPings
<1> QED BY <1>1, <1>5 DEF SilentAtMost, PunctualIsKept

LEMMA ClientAge == ASSUME AgeInv, TcpClientPings PROVE AgeInv'
<1> USE TimesOfKind DEF AgeInv, HbTypeOK, TcpClientPings
<1>1. flight' \in Seq(0..Delay) /\ flight' # <<>>
  BY AppendProperties
<1>2. Head(flight') = IF flight = <<>> THEN 0 ELSE Head(flight)
  BY HeadTailAppend
<1>3. HbFollowsPings'
  BY <1>1, <1>2 DEF HbFollowsPings, SinceLastPing, PingPeriod
<1> QED BY <1>1, <1>3 DEF SilentAtMost, PunctualIsKept, PingPeriod

LEMMA FallAge == ASSUME AgeInv, PeerFalls PROVE AgeInv'
BY EmptySeq, TimesOfKind
DEF AgeInv, HbTypeOK, PeerFalls, SilentAtMost, HbFollowsPings, PunctualIsKept, PingPeriod

LEMMA TickAge == ASSUME AgeInv, Tick PROVE AgeInv'
<1> USE TimesOfKind DEF AgeInv, HbTypeOK, Tick
<1>1. /\ flight' \in Seq(0..Delay)
      /\ flight' = <<>> <=> flight = <<>>
      /\ flight # <<>> => Head(flight') = Head(flight) + 1
  BY OneUnitOlder
<1>2. flight # <<>> => Head(flight) \in 0..Delay
  BY HeadTailProperties
<1>3. age \in Nat /\ timer \in Nat /\ clock \in Nat
  OBVIOUS
<1>4. SilentAtMost'
  BY <1>3 DEF SilentAtMost
<1>5. age' \in 0..(Timeout + Interval) /\ timer' \in 0..Interval /\ clock' \in 0..Period
  BY <1>3 DEF SilentAtMost
<1>6. HbFollowsPings'
  BY <1>1, <1>2, <1>3 DEF HbFollowsPings, SinceLastPing, PingPeriod
<1> QED BY <1>1, <1>4, <1>5, <1>6 DEF PunctualIsKept, PingPeriod

THEOREM AgeInvariance == HbSpec => []AgeInv
<1>1. AgeInv /\ [HbNext]_hbVars => AgeInv'
  <2>1. AgeInv /\ HbNext => AgeInv'
    BY CheckAge, PingAge, ClientAge, FallAge, TickAge DEF HbNext, TcpHandlePing, WsHandlePong
  <2>2. AgeInv /\ UNCHANGED hbVars => AgeInv'
    BY TimesOfKind DEF AgeInv, HbTypeOK, SilentAtMost, HbFollowsPings, SinceLastPing, PingPeriod,
                       PunctualIsKept, hbVars
  <2> QED BY <2>1, <2>2
<1> QED BY InitAge, <1>1, PTL DEF HbSpec

\* The age of hb is bounded by the timeout and one interval while the session
\* runs: a silent peer is found out at the first check after the timeout
\* (session.rs and main.rs, hb).
THEOREM SilentPeerBound == HbSpec => []SilentAtMost
BY AgeInvariance, PTL DEF AgeInv

\* Whatever the times are, a TCP client whose period and delay fit in the
\* timeout is not dropped, nor is a browser for which the session's interval and
\* the way there and back do (hb in client.rs, session.rs and main.rs).
THEOREM PunctualPeerStays == HbSpec => []PunctualIsKept
BY AgeInvariance, PTL DEF AgeInv

-----------------------------------------------------------------------------
(* MinStack, for all values and all depths *)

StackInv == StackTypeOK /\ MinimaMatch

\* What a new node does to a list of nodes.
LEMMA PushedProperties ==
    ASSUME NEW S, NEW s \in Seq(S), NEW v \in S
    PROVE  /\ Pushed(s, v) \in Seq(S) \ {<<>>}
           /\ Len(Pushed(s, v)) = Len(s) + 1
           /\ Pushed(s, v)[1] = v
           /\ \A i \in 1..Len(s) : Pushed(s, v)[i + 1] = s[i]
<1>1. <<v>> \in Seq(S) /\ Len(<<v>>) = 1 /\ <<v>>[1] = v
  OBVIOUS
<1>2. Len(s) \in Nat
  BY LenProperties
<1> QED BY <1>1, <1>2, ConcatProperties, EmptySeq DEF Pushed

\* What taking the first node does.
LEMMA TailOfNodes ==
    ASSUME NEW S, NEW s \in Seq(S), s # <<>>
    PROVE  /\ Tail(s) \in Seq(S)
           /\ Head(s) = s[1] /\ Head(s) \in S
           /\ Len(s) \in Nat \ {0}
           /\ Len(Tail(s)) = Len(s) - 1
           /\ \A i \in 1..(Len(s) - 1) : Tail(s)[i] = s[i + 1]
<1>1. Len(s) \in Nat \ {0}
  BY LenProperties, EmptySeq
<1> QED BY <1>1, HeadTailProperties

LEMMA InitMinima == StackInit => StackInv
BY EmptySeq DEF StackInit, StackInv, StackTypeOK, MinimaMatch

\* The minimum of a longer stack is the new value or the minimum before.
LEMMA PushMinima ==
    ASSUME StackInv, NEW v \in Values, Push(v)
    PROVE  StackInv'
<1> DEFINE m == IF minTop = <<>> \/ v <= Head(minTop) THEN v ELSE Head(minTop)
<1>1. top \in Seq(Values) /\ minTop \in Seq(Values) /\ Len(minTop) = Len(top) /\ Len(top) \in Nat
  BY LenProperties DEF StackInv, StackTypeOK, MinimaMatch
<1>2. top' = Pushed(top, v) /\ minTop' = Pushed(minTop, m) /\ popped' = popped
  BY DEF Push, NewMinTop
<1>3. minTop # <<>> => Head(minTop) = minTop[1] /\ Head(minTop) \in Values /\ Len(top) >= 1
  BY <1>1, TailOfNodes
<1>4. m \in Values
  BY <1>3
<1> HIDE DEF m
<1>5. /\ Pushed(top, v) \in Seq(Values) /\ Len(Pushed(top, v)) = Len(top) + 1
      /\ Pushed(top, v)[1] = v
      /\ \A i \in 1..Len(top) : Pushed(top, v)[i + 1] = top[i]
  BY <1>1, PushedProperties
<1>6. \A w \in Values :
         /\ Pushed(minTop, w) \in Seq(Values) /\ Len(Pushed(minTop, w)) = Len(minTop) + 1
         /\ Pushed(minTop, w)[1] = w
         /\ \A i \in 1..Len(minTop) : Pushed(minTop, w)[i + 1] = minTop[i]
  <2>1. minTop \in Seq(Values)
    BY <1>1
  <2> QED BY <2>1, PushedProperties
<1>7. /\ top' \in Seq(Values) /\ Len(top') = Len(top) + 1 /\ top'[1] = v
      /\ \A i \in 1..Len(top) : top'[i + 1] = top[i]
  BY <1>2, <1>5
<1>8. /\ minTop' \in Seq(Values) /\ Len(minTop') = Len(top) + 1 /\ minTop'[1] = m
      /\ \A i \in 1..Len(top) : minTop'[i + 1] = minTop[i]
  BY <1>1, <1>2, <1>4, <1>6
<1>9. \A i \in 1..Len(top) : minTop[i] \in Int /\ top[i] \in Int
  BY <1>1, ElementOfSeq, StackAssumption
<1>10. /\ \E j \in 1..Len(top') : minTop'[1] = top'[j]
      /\ \A j \in 1..Len(top') : minTop'[1] <= top'[j]
  <2>1. m = v \/ (minTop # <<>> /\ m = minTop[1] /\ Len(top) >= 1)
    BY <1>3 DEF m
  <2>2. m <= v /\ (minTop # <<>> => m <= minTop[1])
    <3>1. v \in Int /\ (minTop # <<>> => Head(minTop) \in Int)
      BY <1>3, StackAssumption
    <3> QED BY <1>3, <3>1 DEF m
  <2>3. Len(top) >= 1 => minTop # <<>>
    BY <1>1, EmptySeq
  <2>4. \A j \in 1..Len(top) : m <= top[j]
    <3> TAKE j \in 1..Len(top)
    <3>1. minTop[1] <= top[j] /\ m <= minTop[1] /\ minTop[1] \in Int /\ top[j] \in Int
      BY <2>2, <2>3, <1>1, <1>9 DEF StackInv, MinimaMatch
    <3>2. m \in Int
      BY <1>4, StackAssumption
    <3> QED BY <3>1, <3>2
  <2>5. \A j \in 1..(Len(top) + 1) : m <= top'[j]
    <3> TAKE j \in 1..(Len(top) + 1)
    <3>1. CASE j = 1
      BY <3>1, <2>2, <1>7
    <3>2. CASE j # 1
      <4>1. j - 1 \in 1..Len(top) /\ top'[(j - 1) + 1] = top[j - 1] /\ (j - 1) + 1 = j
        BY <3>2, <1>1, <1>7
      <4> QED BY <4>1, <2>4
    <3> QED BY <3>1, <3>2
  <2>6. \E j \in 1..(Len(top) + 1) : m = top'[j]
    <3>1. CASE m = v
      BY <3>1, <1>1, <1>7
    <3>2. CASE m # v
      <4>1. PICK k \in 1..Len(top) : minTop[1] = top[k]
        BY <3>2, <2>1, <1>1 DEF StackInv, MinimaMatch
      <4>2. k + 1 \in 1..(Len(top) + 1) /\ top'[k + 1] = m
        BY <4>1, <3>2, <2>1, <1>1, <1>7
      <4> QED BY <4>2
    <3> QED BY <3>1, <3>2
  <2> QED BY <2>5, <2>6, <1>7, <1>8
<1>11. ASSUME NEW i \in 2..Len(top')
      PROVE  /\ \E j \in i..Len(top') : minTop'[i] = top'[j]
             /\ \A j \in i..Len(top') : minTop'[i] <= top'[j]
  <2>1. i - 1 \in 1..Len(top) /\ (i - 1) + 1 = i /\ minTop'[i] = minTop[i - 1]
    BY <1>1, <1>7, <1>8
  <2>2. PICK k \in (i - 1)..Len(top) : minTop[i - 1] = top[k]
    BY <2>1 DEF StackInv, MinimaMatch
  <2>3. k \in 1..Len(top) /\ k + 1 \in i..Len(top') /\ top'[k + 1] = top[k]
    BY <2>1, <2>2, <1>1, <1>7
  <2>4. ASSUME NEW j \in i..Len(top') PROVE minTop'[i] <= top'[j]
    <3>1. j - 1 \in (i - 1)..Len(top) /\ j - 1 \in 1..Len(top) /\ (j - 1) + 1 = j
      BY <2>1, <1>1, <1>7
    <3>2. minTop[i - 1] <= top[j - 1]
      BY <2>1, <3>1 DEF StackInv, MinimaMatch
    <3> QED BY <2>1, <3>1, <3>2, <1>7
  <2> QED BY <2>1, <2>2, <2>3, <2>4
<1>12. MinimaMatch'
  <2>1. ASSUME NEW i \in 1..Len(top')
        PROVE  /\ \E j \in i..Len(top') : minTop'[i] = top'[j]
               /\ \A j \in i..Len(top') : minTop'[i] <= top'[j]
    <3>1. CASE i = 1
      BY <1>10, <3>1
    <3>2. CASE i # 1
      BY <1>11, <3>2
    <3> QED BY <3>1, <3>2
  <2> QED BY <2>1, <1>7, <1>8 DEF MinimaMatch
<1> QED BY <1>2, <1>7, <1>8, <1>12 DEF StackInv, StackTypeOK

\* Both stacks lose their first node, or both are empty.
LEMMA PopMinima == ASSUME StackInv, Pop PROVE StackInv'
<1>1. top \in Seq(Values) /\ minTop \in Seq(Values) /\ Len(minTop) = Len(top) /\ Len(top) \in Nat
  BY LenProperties DEF StackInv, StackTypeOK, MinimaMatch
<1>2. top = <<>> <=> minTop = <<>>
  BY <1>1, EmptySeq
<1>3. CASE top = <<>>
  BY <1>2, <1>3 DEF Pop, Popped, First, StackInv, StackTypeOK, MinimaMatch
<1>4. CASE top # <<>>
  <2>1. /\ top' \in Seq(Values) /\ Len(top') = Len(top) - 1 /\ Head(top) \in Values
        /\ \A i \in 1..(Len(top) - 1) : top'[i] = top[i + 1]
    BY <1>1, <1>4, TailOfNodes DEF Pop, Popped
  <2>2. /\ minTop' \in Seq(Values) /\ Len(minTop') = Len(top) - 1 /\ Head(minTop) \in Values
        /\ \A i \in 1..(Len(top) - 1) : minTop'[i] = minTop[i + 1]
    BY <1>1, <1>2, <1>4, TailOfNodes DEF Pop, Popped
  <2>3. ASSUME NEW i \in 1..Len(top')
        PROVE  /\ \E j \in i..Len(top') : minTop'[i] = top'[j]
               /\ \A j \in i..Len(top') : minTop'[i] <= top'[j]
    <3>1. i + 1 \in 1..Len(top) /\ minTop'[i] = minTop[i + 1]
      BY <1>1, <2>1, <2>2
    <3>2. PICK k \in (i + 1)..Len(top) : minTop[i + 1] = top[k]
      BY <3>1 DEF StackInv, MinimaMatch
    <3>3. k - 1 \in i..Len(top') /\ k - 1 \in 1..(Len(top) - 1) /\ (k - 1) + 1 = k
      BY <1>1, <2>1, <3>2
    <3>4. ASSUME NEW j \in i..Len(top') PROVE minTop'[i] <= top'[j]
      <4>1. j + 1 \in (i + 1)..Len(top) /\ j \in 1..(Len(top) - 1)
        BY <1>1, <2>1
      <4> QED BY <3>1, <4>1, <2>1 DEF StackInv, MinimaMatch
    <3> QED BY <3>1, <3>2, <3>3, <3>4, <2>1
  <2>4. popped' \in [val : Values \cup {None}, min : Values \cup {None}]
    BY <1>2, <1>4, <2>1, <2>2 DEF Pop, First
  <2> QED BY <2>1, <2>2, <2>3, <2>4 DEF StackInv, StackTypeOK, MinimaMatch
<1> QED BY <1>3, <1>4

\* Each minimum is that of its value and those below it, after any calls (push
\* and pop of Min in get_min.rs).
THEOREM MinimaAlwaysMatch == StackSpec => []StackInv
<1>1. StackInv /\ [StackNext]_stackVars => StackInv'
  <2>1. StackInv /\ StackNext => StackInv'
    BY PushMinima, PopMinima DEF StackNext
  <2>2. StackInv /\ UNCHANGED stackVars => StackInv'
    BY DEF StackInv, StackTypeOK, MinimaMatch, stackVars
  <2> QED BY <2>1, <2>2
<1> QED BY InitMinima, <1>1, PTL DEF StackSpec

-----------------------------------------------------------------------------
(* Refinement *)

\* The node on top of the minima is the least of all values.
LEMMA TopIsLeast ==
    ASSUME StackInv, top # <<>>
    PROVE  /\ minTop # <<>>
           /\ Head(minTop) = Abstract!Least(Abstract!Elements(top))
<1>1. /\ top \in Seq(Values) /\ minTop \in Seq(Values)
      /\ Len(minTop) = Len(top) /\ Len(top) \in Nat \ {0}
  BY TailOfNodes DEF StackInv, StackTypeOK, MinimaMatch
<1>2. minTop # <<>> /\ Head(minTop) = minTop[1]
  BY <1>1, TailOfNodes, EmptySeq
<1> DEFINE S == Abstract!Elements(top)
<1>3. S = {top[i] : i \in 1..Len(top)} /\ S \subseteq Int
  BY <1>1, ElementOfSeq, LenProperties, StackAssumption DEF Abstract!Elements
<1>4. minTop[1] \in S /\ \A n \in S : minTop[1] <= n
  BY <1>1, <1>3 DEF StackInv, MinimaMatch
<1>5. ASSUME NEW m \in S, \A n \in S : m <= n PROVE m = minTop[1]
  <2>1. m <= minTop[1] /\ minTop[1] <= m
    BY <1>4, <1>5
  <2>2. m \in Int /\ minTop[1] \in Int
    BY <1>3, <1>4
  <2> QED BY <2>1, <2>2
<1> QED BY <1>2, <1>4, <1>5 DEF Abstract!Least

\* Every step of the two stacks is a step of the stack with a minimum.
LEMMA StepImplements ==
    ASSUME StackInv, StackNext
    PROVE  Abstract!Next
<1>1. ASSUME NEW v \in Values, Push(v) PROVE Abstract!Push(v)
  BY <1>1 DEF Push, Pushed, Abstract!Push
<1>2. CASE Pop
  <2>1. CASE top = <<>>
    <3>1. minTop = <<>>
      BY <2>1, LenProperties, EmptySeq DEF StackInv, StackTypeOK, MinimaMatch
    <3> QED BY <1>2, <2>1, <3>1 DEF Pop, First, Popped, Abstract!Pop, Abstract!Next
  <2>2. CASE top # <<>>
    BY <1>2, <2>2, TopIsLeast DEF Pop, First, Popped, Abstract!Pop, Abstract!Next
  <2> QED BY <2>1, <2>2
<1> QED BY <1>1, <1>2 DEF StackNext, Abstract!Next

\* The two stacks of Min implement the stack whose pop returns the least of all
\* values on it (push and pop in get_min.rs).
THEOREM MinStackImplements == StackSpec => ImplementsStackWithMin
<1>1. StackInit => Abstract!Init
  BY DEF StackInit, Abstract!Init
<1>2. StackInv /\ [StackNext]_stackVars => [Abstract!Next]_(Abstract!vars)
  BY StepImplements DEF stackVars, Abstract!vars
<1> QED BY <1>1, <1>2, MinimaAlwaysMatch, PTL DEF StackSpec, ImplementsStackWithMin, Abstract!Spec

-----------------------------------------------------------------------------
(* ConnCount, for any number of connections *)

\* The live connections that are older than c.
Older(c) == live \cap 1..(c - 1)

CountTypeOK ==
    /\ opened \in Nat
    /\ live \subseteq 1..opened
    /\ clientId \in [1..opened -> Nat]
    /\ count \in Nat

\* The inductive invariant.  An id is at least one more than the number of older
\* connections that are still live, for they were live when it was given, and at most the
\* number of its connection.
IdsInv ==
    /\ CountTypeOK
    /\ IsFiniteSet(live) /\ count = Cardinality(live)
    /\ \A c \in live : clientId[c] <= c /\ Cardinality(Older(c)) < clientId[c]

LEMMA OlderFinite == ASSUME IsFiniteSet(live), NEW c PROVE IsFiniteSet(Older(c))
BY FS_Subset DEF Older

LEMMA InitIds == CountInit => IdsInv
<1> SUFFICES ASSUME CountInit PROVE IdsInv
  OBVIOUS
<1>1. clientId \in [1..opened -> Nat]
  BY DEF CountInit
<1> QED BY <1>1, FS_EmptySet DEF CountInit, IdsInv, CountTypeOK

LEMMA OpenIds == ASSUME IdsInv, OnOpen PROVE IdsInv'
<1> DEFINE new == opened + 1
<1> USE DEF IdsInv, CountTypeOK, OnOpen
<1>1. new \in Nat /\ new \notin live /\ \A c \in live : c \in 1..opened
  OBVIOUS
<1>2. IsFiniteSet(live') /\ Cardinality(live') = count + 1
  BY <1>1, FS_AddElement
<1>3. CountTypeOK'
  OBVIOUS
<1>4. live' \cap 1..opened = live
  <2>1. live' = live \cup {new} /\ new \notin 1..opened /\ live \subseteq 1..opened
    OBVIOUS
  <2> HIDE DEF new, IdsInv, CountTypeOK, OnOpen
  <2> QED BY <2>1
<1>5. \A c \in live : Older(c)' = Older(c) /\ clientId'[c] = clientId[c]
  BY <1>1 DEF Older
<1>6. clientId'[new] = count + 1
  BY <1>1
<1>7. count <= opened
  <2>1. IsFiniteSet(1..opened) /\ Cardinality(1..opened) = opened
    BY FS_Interval
  <2>2. live \in SUBSET (1..opened)
    OBVIOUS
  <2>3. Cardinality(live) <= Cardinality(1..opened)
    BY <2>1, <2>2, FS_Subset, Zenon
  <2> QED BY <2>1, <2>3
<1>8. ASSUME NEW c \in live' PROVE clientId'[c] <= c /\ Cardinality(Older(c)') < clientId'[c]
  <2>1. CASE c = new
    <3>1. Older(c)' = live
      BY <1>4, <2>1 DEF Older
    <3> QED BY <1>6, <1>7, <2>1, <3>1
  <2>2. CASE c \in live
    BY <1>5, <2>2
  <2> QED BY <2>1, <2>2
<1> QED BY <1>2, <1>3, <1>8

LEMMA CloseIds == ASSUME IdsInv, NEW d \in live, OnClose(d) PROVE IdsInv'
<1> USE DEF IdsInv, CountTypeOK, OnClose
<1>1. IsFiniteSet(live') /\ Cardinality(live') = count - 1 /\ Cardinality(live) > 0
  <2>1. /\ IsFiniteSet(live \ {d})
        /\ Cardinality(live \ {d}) = Cardinality(live) - 1
    BY FS_RemoveElement
  <2>2. Cardinality(live) # 0
    BY FS_EmptySet
  <2> QED BY <2>1, <2>2
<1>2. CountTypeOK'
  BY <1>1
<1>3. ASSUME NEW c \in live' PROVE clientId'[c] <= c /\ Cardinality(Older(c)') < clientId'[c]
  <2>1. Older(c)' \subseteq Older(c)
    BY DEF Older
  <2>2. /\ Cardinality(Older(c)') <= Cardinality(Older(c))
        /\ Cardinality(Older(c)') \in Nat /\ Cardinality(Older(c)) \in Nat
    BY <2>1, OlderFinite, FS_Subset, FS_CardinalityType
  <2>3. c \in live /\ clientId[c] \in Nat
    OBVIOUS
  <2> QED BY <2>2, <2>3
<1> QED BY <1>1, <1>2, <1>3

THEOREM IdsInvariance == CountSpec => []IdsInv
<1>1. IdsInv /\ [CountNext]_countVars => IdsInv'
  <2>1. IdsInv /\ CountNext => IdsInv'
    BY OpenIds, CloseIds DEF CountNext
  <2>2. IdsInv /\ UNCHANGED countVars => IdsInv'
    BY DEF IdsInv, CountTypeOK, Older, countVars
  <2> QED BY <2>1, <2>2
<1> QED BY InitIds, <1>1, PTL DEF CountSpec

\* If two live clients share an id, and everybody older than the first were live, the first
\* would have the highest id it can have, and the second a higher one.
LEMMA SharedIdNeedsGap ==
    ASSUME IdsInv, NEW c \in live, NEW d \in live, c < d, 1..(c - 1) \subseteq live
    PROVE  clientId[c] # clientId[d]
<1> USE DEF IdsInv, CountTypeOK
<1>1. c \in Nat \ {0} /\ d \in Nat
  OBVIOUS
<1>2. 1..c \subseteq Older(d)
  BY <1>1 DEF Older
<1>3. Cardinality(1..c) = c
  BY <1>1, FS_Interval
<1>4. c <= Cardinality(Older(d)) /\ Cardinality(Older(d)) \in Nat
  BY <1>2, <1>3, OlderFinite, FS_Subset, FS_CardinalityType
<1>5. clientId[c] \in Nat /\ clientId[d] \in Nat /\ clientId[c] <= c
  OBVIOUS
<1> QED BY <1>1, <1>4, <1>5

\* The count is that of the live connections, and two live clients share an id only when one
\* older than both has left (on_open and on_close of websocket/src/main.rs).
THEOREM CountIsRight == CountSpec => []CountsTheLive
<1>1. IdsInv => CountsTheLive
  <2> SUFFICES ASSUME IdsInv,
                      NEW c \in live, NEW d \in live, c < d, clientId[c] = clientId[d]
               PROVE  \E b \in 1..(c - 1) : b \notin live
    BY DEF CountsTheLive, IdsInv
  <2> QED BY SharedIdNeedsGap
<1> QED BY <1>1, IdsInvariance, PTL

-----------------------------------------------------------------------------
(* ChatCodec, for any lengths, any number of messages and any base *)

\* What is between the sender and what is decoded: the decoder's buffer and the
\* bytes under way.
StreamLength == Len(src) + Len(wire)
StreamByte(i) == IF i <= Len(src) THEN src[i] ELSE wire[i - Len(src)]

\* The first message that is not decoded, and the bytes of message m.
NextMessage == Len(decoded) + 1
FrameByte(m, i) == IF i <= 2 THEN Header(sent[m])[i] ELSE Byte(Base - 1, m, i - 2)

\* The stream is the frames of the messages that are not decoded, one after the other:
\* that of message m begins at pos[m].  Only a death cuts the end off.
Frames(pos) ==
    /\ pos[NextMessage] = 1
    /\ \A m \in NextMessage..Len(sent) : pos[m + 1] = pos[m] + 2 + sent[m]
    /\ \A j, k \in NextMessage..(Len(sent) + 1) : j <= k => pos[j] <= pos[k]
    /\ \A m \in NextMessage..Len(sent) : \A i \in 1..(sent[m] + 2) :
          pos[m] + i - 1 <= StreamLength => StreamByte(pos[m] + i - 1) = FrameByte(m, i)
    /\ IF end = "cut" THEN StreamLength < pos[Len(sent) + 1] - 1
                      ELSE StreamLength = pos[Len(sent) + 1] - 1

InFrames == \E pos \in [NextMessage..(Len(sent) + 1) -> Nat] : Frames(pos)

\* The inductive invariant: as long as nothing has failed, the decoder is at the
\* beginning of a frame, and that is the frame of the next message.
CodecInv ==
    /\ CodecTypeOK
    /\ DecodedAsSent
    /\ OnlyOversizeFails
    /\ Len(decoded) <= Len(sent)
    /\ ~failed => InFrames

\* What two bytes hold of a length.
LEMMA CutLength ==
    ASSUME NEW x \in Nat
    PROVE  /\ Limit \in Nat \ {0}
           /\ x % Limit \in Nat /\ x % Limit <= x /\ x % Limit < Limit
           /\ x < Limit => x % Limit = x
           /\ (x % Limit) \div Base \in 0..(Base - 1)
           /\ (x % Limit) % Base \in 0..(Base - 1)
           /\ Base * ((x % Limit) \div Base) + ((x % Limit) % Base) = x % Limit
<1>1. Base \in Nat /\ Base >= 2
  BY ConstantsAssumption
<1>2. PICK b \in Nat : b = Base /\ b >= 2
  BY <1>1
<1>3. PICK l \in Nat : l = b * b
  OBVIOUS
<1>4. Limit = l /\ l # 0
  <2>1. b * b # 0
    BY <1>2
  <2> QED BY <2>1, <1>2, <1>3 DEF Limit
<1>5. PICK r \in Nat : r = x % l
  BY <1>4
<1>6. r <= x /\ r < l /\ (x < l => r = x)
  <2>1. PICK q \in Nat : q = x \div l
    BY <1>4
  <2>2. x = l * q + r /\ r < l
    BY <2>1, <1>4, <1>5
  <2>3. l * q >= 0 /\ (q = 0 \/ l * q >= l)
    BY <1>4, <2>1
  <2> QED BY <2>2, <2>3
<1>7. PICK h \in Nat : h = r \div b
  BY <1>2
<1>8. PICK t \in Nat : t = r % b
  BY <1>2
<1>9. r = b * h + t /\ t < b
  BY <1>2, <1>7, <1>8
<1>10. h < b
  <2>1. SUFFICES ASSUME h >= b PROVE FALSE
    BY <1>2
  <2>2. PICK k \in Nat : k = h - b
    BY <2>1, <1>2
  <2>3. h = b + k
    BY <2>2, <1>2
  <2>4. b * h = b * b + b * k /\ b * k >= 0
    BY <2>3
  <2>5. b * h + t >= b * b
    BY <2>4
  <2> QED BY <2>5, <1>9, <1>6, <1>3
<1> QED BY <1>1, <1>2, <1>4, <1>5, <1>6, <1>7, <1>8, <1>9, <1>10

\* A piece of a sequence.
LEMMA Piece ==
    ASSUME NEW S, NEW s \in Seq(S), NEW m \in Nat \ {0}, NEW n \in Nat, n <= Len(s)
    PROVE  /\ SubSeq(s, m, n) \in Seq(S)
           /\ Len(SubSeq(s, m, n)) = IF m <= n THEN n - m + 1 ELSE 0
           /\ \A i \in 1..(n - m + 1) : SubSeq(s, m, n)[i] = s[m + i - 1]
<1>1. \A i \in m..n : s[i] \in S
  BY ElementOfSeq
<1> QED BY <1>1, SubSeqProperties

LEMMA BytesRegroup == \A r, s, t \in Seq(Bytes) : (r \o s) \o t = r \o (s \o t)
BY ConcatAssociative

\* The length of a frame, and its text.
LEMMA HeaderBytes ==
    ASSUME NEW length \in Nat
    PROVE  Header(length) \in Seq(Bytes) /\ Len(Header(length)) = 2
<1>1. PICK c \in Nat : c = length % Limit
  BY CutLength
<1>2. c \div Base \in 0..(Base - 1) /\ c % Base \in 0..(Base - 1) /\ 0 \in 0..MaxMessages
  BY <1>1, CutLength, ConstantsAssumption
<1>3. PICK u \in Bytes : u = Byte(c \div Base, 0, 1)
  BY <1>2 DEF Byte, Bytes
<1>4. PICK v \in Bytes : v = Byte(c % Base, 0, 2)
  BY <1>2 DEF Byte, Bytes
<1>5. Header(length) = <<u, v>>
  BY <1>1, <1>3, <1>4 DEF Header
<1> QED BY <1>5

LEMMA TextBytes ==
    ASSUME NEW length \in Nat, NEW m \in 0..MaxMessages
    PROVE  /\ Text(m, length) \in Seq(Bytes) /\ Len(Text(m, length)) = length
           /\ \A i \in 1..length : Text(m, length)[i] = Byte(Base - 1, m, i)
<1>1. \A i \in 1..length : Byte(Base - 1, m, i) \in Bytes
  BY ConstantsAssumption DEF Byte, Bytes
<1>2. Text(m, length) \in [1..length -> Bytes]
  BY <1>1 DEF Text
<1>3. Text(m, length) \in Seq(Bytes)
  BY <1>2, IsASeq
<1>4. Len(Text(m, length)) = length
  BY <1>2, <1>3, LenProperties
<1> QED BY <1>3, <1>4 DEF Text

\* The frame of a new message.
LEMMA NewFrame ==
    ASSUME NEW length \in Nat, NEW m \in 0..MaxMessages
    PROVE  \E f \in Seq(Bytes) :
              /\ f = Header(length) \o Text(m, length)
              /\ Len(f) = length + 2
              /\ \A i \in 1..(length + 2) :
                    f[i] = IF i <= 2 THEN Header(length)[i] ELSE Byte(Base - 1, m, i - 2)
<1>1. PICK h \in Seq(Bytes) : h = Header(length) /\ Len(h) = 2
  BY HeaderBytes
<1>2. PICK t \in Seq(Bytes) : t = Text(m, length) /\ Len(t) = length
                              /\ \A i \in 1..length : t[i] = Byte(Base - 1, m, i)
  BY TextBytes
<1>3. PICK f \in Seq(Bytes) : f = h \o t
  BY ConcatProperties
<1>4. Len(f) = Len(h) + Len(t)
  BY <1>3, ConcatProperties
<1>5. \A i \in 1..(Len(h) + Len(t)) : f[i] = IF i <= Len(h) THEN h[i] ELSE t[i - Len(h)]
  BY <1>3, ConcatProperties
<1>6. Len(f) = length + 2
  BY <1>1, <1>2, <1>4
<1>7. ASSUME NEW i \in 1..(length + 2)
      PROVE  f[i] = IF i <= 2 THEN h[i] ELSE Byte(Base - 1, m, i - 2)
  <2>1. i \in 1..(Len(h) + Len(t)) /\ (i <= Len(h) <=> i <= 2) /\ i - Len(h) = i - 2
    BY <1>1, <1>2
  <2>2. f[i] = IF i <= 2 THEN h[i] ELSE t[i - 2]
    BY <1>5, <2>1, Zenon
  <2>3. i > 2 => i - 2 \in 1..length
    OBVIOUS
  <2> QED BY <2>2, <2>3, <1>2
<1> QED BY <1>1, <1>2, <1>3, <1>6, <1>7

LEMMA InitFrames == CodecInit => CodecInv
<1> SUFFICES ASSUME CodecInit PROVE CodecInv
  OBVIOUS
<1>1. CodecTypeOK
  <2>1. \A S : <<>> \in Seq(S) /\ Len(<<>>) = 0
    BY EmptySeq
  <2>2. MaxMessages \in Nat
    BY ConstantsAssumption
  <2>3. \A S : <<>> \in Seq(S)
    BY <2>1
  <2>4. Len(<<>>) <= MaxMessages
    BY <2>1, <2>2
  <2> QED BY <2>3, <2>4 DEF CodecInit, CodecTypeOK
<1>2. /\ Len(decoded) = 0 /\ Len(sent) = 0 /\ Len(src) = 0 /\ Len(wire) = 0
      /\ decoded = <<>> /\ end = "none" /\ failed = FALSE
  BY EmptySeq DEF CodecInit
<1>3. InFrames
  <2>1. [m \in {1} |-> 1] \in [NextMessage..(Len(sent) + 1) -> Nat]
    BY <1>2 DEF NextMessage
  <2>2. Frames([m \in {1} |-> 1])
    BY <1>2 DEF Frames, NextMessage, StreamLength
  <2> QED BY <2>1, <2>2 DEF InFrames
<1> QED BY <1>1, <1>2, <1>3 DEF CodecInv, DecodedAsSent, OnlyOversizeFails

LEMMA EncodeFrames ==
    ASSUME CodecInv, NEW length \in Lengths, Encode(length)
    PROVE  CodecInv'
<1>0. /\ end = "none" /\ Len(sent) < MaxMessages
      /\ sent' = Append(sent, length)
      /\ wire' = wire \o Header(length) \o Text(Len(sent) + 1, length)
      /\ end' = end /\ src' = src /\ decoded' = decoded /\ failed' = failed
  BY DEF Encode
<1>1. length \in Nat \ {0} /\ MaxMessages \in Nat
  BY ConstantsAssumption
<1>2. PICK n \in Nat : n = Len(sent) /\ n < MaxMessages
  BY <1>0, LenProperties DEF CodecInv, CodecTypeOK
<1>3. PICK d \in Nat : d = Len(decoded) /\ d <= n
  BY <1>2, LenProperties DEF CodecInv, CodecTypeOK
<1>4. /\ sent' \in Seq(Lengths) /\ Len(sent') = n + 1 /\ sent'[n + 1] = length
      /\ \A m \in 1..n : sent'[m] = sent[m]
  BY <1>0, <1>2, AppendProperties DEF CodecInv, CodecTypeOK
<1>5. PICK z \in [1..(n + 1) -> Nat] : z = sent'
  <2>1. \A m \in 1..(n + 1) : sent'[m] \in Nat
    BY <1>4, ElementOfSeq, ConstantsAssumption
  <2>2. sent' \in [1..(n + 1) -> Lengths]
    BY <1>4, LenProperties
  <2> QED BY <2>1, <2>2
<1>6. PICK f \in Seq(Bytes) :
        /\ f = Header(length) \o Text(n + 1, length)
        /\ Len(f) = length + 2
        /\ \A i \in 1..(length + 2) :
              f[i] = IF i <= 2 THEN Header(length)[i] ELSE Byte(Base - 1, n + 1, i - 2)
  <2>1. n + 1 \in 0..MaxMessages
    BY <1>1, <1>2
  <2> QED BY <2>1, <1>1, NewFrame
<1>7. PICK a \in Nat : a = Len(src)
  BY LenProperties DEF CodecInv, CodecTypeOK
<1>8. PICK w \in Nat : w = Len(wire)
  BY LenProperties DEF CodecInv, CodecTypeOK
<1>9. wire' = wire \o f
  <2>1. PICK h \in Seq(Bytes) : h = Header(length)
    BY <1>1, HeaderBytes
  <2>2. PICK t \in Seq(Bytes) : t = Text(n + 1, length)
    <3>1. n + 1 \in 0..MaxMessages
      BY <1>1, <1>2
    <3> QED BY <3>1, <1>1, TextBytes
  <2>3. wire \in Seq(Bytes)
    BY DEF CodecInv, CodecTypeOK
  <2>4. (wire \o h) \o t = wire \o (h \o t)
    BY <2>3, BytesRegroup, Zenon
  <2> QED BY <2>1, <2>2, <2>4, <1>0, <1>2, <1>6
<1>10. /\ wire' \in Seq(Bytes) /\ Len(wire') = w + length + 2
       /\ \A i \in 1..w : wire'[i] = wire[i]
       /\ \A i \in 1..(length + 2) : wire'[w + i] = f[i]
  <2>1. wire \in Seq(Bytes)
    BY DEF CodecInv, CodecTypeOK
  <2>2. PICK v \in Seq(Bytes) : v = wire'
    BY <1>9, <2>1, ConcatProperties
  <2>3. /\ Len(v) = Len(wire) + Len(f)
        /\ \A i \in 1..(Len(wire) + Len(f)) :
              v[i] = IF i <= Len(wire) THEN wire[i] ELSE f[i - Len(wire)]
    BY <1>9, <2>1, <2>2, ConcatProperties
  <2>4. Len(v) = w + length + 2
    <3>1. Len(v) = Len(wire) + Len(f) /\ Len(f) = length + 2
      BY <2>3, <1>6
    <3> QED BY <3>1, <1>1, <1>8
  <2>5. \A i \in 1..w : i \in 1..(Len(wire) + Len(f)) /\ i <= Len(wire)
    BY <1>1, <1>6, <1>8
  <2>6. \A i \in 1..w : v[i] = wire[i]
    BY <2>3, <2>5, Zenon
  <2>7. \A i \in 1..(length + 2) : /\ w + i \in 1..(Len(wire) + Len(f))
                                  /\ ~(w + i <= Len(wire)) /\ (w + i) - Len(wire) = i
    BY <1>1, <1>6, <1>8
  <2>8. \A i \in 1..(length + 2) : v[w + i] = f[i]
    BY <2>3, <2>7, Zenon
  <2> QED BY <2>2, <2>4, <2>6, <2>8
<1>11. CodecTypeOK'
  BY <1>0, <1>1, <1>2, <1>4, <1>10 DEF CodecInv, CodecTypeOK
<1>12. DecodedAsSent' /\ (Len(decoded) <= Len(sent))'
  BY <1>0, <1>2, <1>3, <1>4 DEF CodecInv, DecodedAsSent
<1>13. OnlyOversizeFails'
  <2>1. \A m \in DOMAIN sent : m \in DOMAIN sent' /\ sent'[m] = sent[m]
    BY <1>2, <1>4, LenProperties DEF CodecInv, CodecTypeOK
  <2> QED BY <2>1, <1>0, <1>2, <1>3, <1>4 DEF CodecInv, OnlyOversizeFails, Oversize, Limit
<1>14. (~failed => InFrames)'
  <2> SUFFICES ASSUME ~failed PROVE InFrames'
    BY <1>0
  <2>1. PICK pos \in [(d + 1)..(n + 1) -> Nat] : Frames(pos)
    BY <1>0, <1>2, <1>3 DEF CodecInv, InFrames, NextMessage
  <2>2. /\ pos[d + 1] = 1
        /\ \A m \in (d + 1)..n : pos[m + 1] = pos[m] + 2 + sent[m]
        /\ \A j, k \in (d + 1)..(n + 1) : j <= k => pos[j] <= pos[k]
        /\ \A m \in (d + 1)..n : \A i \in 1..(sent[m] + 2) :
              pos[m] + i - 1 <= a + w => StreamByte(pos[m] + i - 1) = FrameByte(m, i)
        /\ a + w = pos[n + 1] - 1
    BY <2>1, <1>0, <1>2, <1>3, <1>7, <1>8 DEF Frames, NextMessage, StreamLength
  <2>3. PICK p \in [(d + 1)..(n + 2) -> Nat] :
           /\ p[n + 2] = a + w + length + 3
           /\ \A k \in (d + 1)..(n + 1) : p[k] = pos[k]
    <3>1. PICK p : p = [k \in (d + 1)..(n + 2) |-> IF k = n + 2 THEN a + w + length + 3 ELSE pos[k]]
      OBVIOUS
    <3>2. p \in [(d + 1)..(n + 2) -> Nat]
      BY <3>1, <1>1
    <3>3. \A k \in (d + 1)..(n + 1) : k \in (d + 1)..(n + 2) /\ k # n + 2
      OBVIOUS
    <3>4. n + 2 \in (d + 1)..(n + 2)
      BY <1>3
    <3> QED BY <3>1, <3>2, <3>3, <3>4
  <2>4. p[d + 1] = 1
    BY <2>2, <2>3, <1>3
  <2>5. \A m \in (d + 1)..(n + 1) : p[m + 1] = p[m] + 2 + z[m]
    <3> SUFFICES ASSUME NEW m \in (d + 1)..(n + 1) PROVE p[m + 1] = p[m] + 2 + z[m]
      OBVIOUS
    <3>1. CASE m = n + 1
      <4>1. p[m] = pos[n + 1] /\ pos[n + 1] \in Nat
        BY <3>1, <2>3, <1>3
      <4>2. p[m + 1] = a + w + length + 3 /\ z[m] = length
        <5>1. m + 1 = n + 2
          BY <3>1
        <5> QED BY <3>1, <5>1, <2>3, <1>4, <1>5
      <4>3. pos[n + 1] = a + w + 1
        BY <4>1, <2>2, SMTT(30)
      <4>4. p[m] = a + w + 1
        BY <4>1, <4>3
      <4> QED BY <4>2, <4>4, <1>1
    <3>2. CASE m # n + 1
      <4>1. m \in (d + 1)..n /\ m + 1 \in (d + 1)..(n + 1) /\ z[m] = sent[m]
        BY <3>2, <1>4, <1>5
      <4> QED BY <4>1, <2>2, <2>3
    <3> QED BY <3>1, <3>2
  <2>6. \A j, k \in (d + 1)..(n + 2) : j <= k => p[j] <= p[k]
    <3> SUFFICES ASSUME NEW j \in (d + 1)..(n + 2), NEW k \in (d + 1)..(n + 2), j <= k
                 PROVE p[j] <= p[k]
      OBVIOUS
    <3>1. CASE k = n + 2 /\ j # n + 2
      <4>1. j \in (d + 1)..(n + 1) /\ n + 1 \in (d + 1)..(n + 1)
        BY <3>1, <1>3
      <4>2. p[j] = pos[j] /\ pos[j] <= pos[n + 1] /\ pos[j] \in Nat /\ pos[n + 1] \in Nat
        BY <4>1, <2>2, <2>3, SMTT(30)
      <4> QED BY <4>2, <3>1, <2>2, <2>3, <1>1
    <3>2. CASE k # n + 2
      <4>1. j \in (d + 1)..(n + 1) /\ k \in (d + 1)..(n + 1)
        BY <3>2
      <4> QED BY <4>1, <2>2, <2>3
    <3>3. CASE j = k
      BY <3>3
    <3> QED BY <3>1, <3>2, <3>3
  <2>7. ASSUME NEW i \in 1..(length + 2)
        PROVE  StreamByte(p[n + 1] + i - 1)' = FrameByte(n + 1, i)'
    <3>1. p[n + 1] = pos[n + 1] /\ pos[n + 1] = a + w + 1 /\ i \in Nat
      <4>1. n + 1 \in (d + 1)..(n + 1)
        BY <1>3
      <4>2. pos[n + 1] \in Nat
        BY <4>1
      <4> QED BY <4>1, <4>2, <2>2, <2>3, <1>1
    <3>2. PICK x \in Nat : x = p[n + 1] + i - 1 /\ x = a + w + i
      BY <3>1
    <3>3. StreamByte(x)' = wire'[w + i]
      <4>1. ~(x <= a) /\ x - a = w + i
        BY <3>1, <3>2, <1>1, SMTT(30)
      <4> QED BY <4>1, <1>0, <1>7 DEF StreamByte
    <3>4. FrameByte(n + 1, i)' = f[i]
      BY <1>4, <1>6 DEF FrameByte
    <3> QED BY <3>2, <3>3, <3>4, <1>10
  <2>8. ASSUME NEW m \in (d + 1)..n, NEW l \in Nat, l = sent[m], NEW i \in 1..(l + 2)
        PROVE  StreamByte(p[m] + i - 1)' = FrameByte(m, i)'
    <3>1. /\ m \in (d + 1)..(n + 1) /\ m + 1 \in (d + 1)..(n + 1)
          /\ d + 1 \in (d + 1)..(n + 1) /\ n + 1 \in (d + 1)..(n + 1)
          /\ d + 1 <= m /\ m + 1 <= n + 1 /\ m \in 1..n
      BY <1>3
    <3>2. PICK k \in Nat : k = pos[m] /\ k = p[m] /\ 1 <= k
      BY <3>1, <2>2, <2>3
    <3>3. pos[m + 1] = k + 2 + l
      BY <3>2, <2>2, <2>8
    <3>4. pos[m + 1] <= pos[n + 1] /\ pos[n + 1] \in Nat
      BY <3>1, <2>2
    <3>5. k + 2 + l <= a + w + 1
      <4>1. PICK y \in Nat : y = pos[n + 1]
        BY <3>4
      <4>2. a + w = y - 1
        BY <4>1, <2>2
      <4>3. k + 2 + l <= y
        BY <4>1, <3>3, <3>4
      <4> QED BY <4>2, <4>3
    <3>6. PICK x \in Nat \ {0} : x = k + i - 1 /\ x <= a + w
      <4>1. i \in Nat /\ 1 <= i /\ i <= l + 2
        OBVIOUS
      <4>2. 1 <= k
        BY <3>2
      <4>3. k + i - 1 \in Nat \ {0}
        BY <4>1, <4>2
      <4>4. k + i - 1 <= a + w
        BY <4>1, <4>2, <3>5
      <4> QED BY <4>3, <4>4
    <3>7. StreamByte(x)' = StreamByte(x)
      <4>1. CASE x <= a
        BY <4>1, <1>0, <1>7 DEF StreamByte
      <4>2. CASE x > a
        <5>1. x - a \in 1..w /\ ~(x <= a)
          BY <4>2, <3>6
        <5>2. wire'[x - a] = wire[x - a]
          BY <5>1, <1>10
        <5> QED BY <5>1, <5>2, <1>0, <1>7 DEF StreamByte
      <4> QED BY <4>1, <4>2
    <3>8. FrameByte(m, i)' = FrameByte(m, i)
      BY <3>1, <1>4 DEF FrameByte
    <3>9. StreamByte(x) = FrameByte(m, i)
      BY <3>2, <3>6, <2>2, <2>8
    <3> QED BY <3>2, <3>6, <3>7, <3>8, <3>9
  <2>9. ASSUME NEW m \in (d + 1)..(n + 1), NEW i \in 1..(sent'[m] + 2)
        PROVE  StreamByte(p[m] + i - 1)' = FrameByte(m, i)'
    <3>1. CASE m = n + 1
      BY <3>1, <1>4, <2>7
    <3>2. CASE m # n + 1
      <4>1. m \in (d + 1)..n /\ m \in 1..n /\ m \in 1..(n + 1)
        BY <3>2
      <4>2. PICK l \in Nat : l = sent[m] /\ l = sent'[m]
        BY <4>1, <1>4, <1>5
      <4> QED BY <4>1, <4>2, <2>8
    <3> QED BY <3>1, <3>2
  <2>10. StreamLength' = p[n + 2] - 1 /\ end' # "cut"
    <3>1. Len(src') = a /\ Len(wire') = w + length + 2
      BY <1>0, <1>7, <1>10
    <3>2. StreamLength' = Len(src') + Len(wire')
      BY DEF StreamLength
    <3> QED BY <3>1, <3>2, <2>3, <1>0, <1>1
  <2>11. NextMessage' = d + 1 /\ Len(sent') = n + 1
    BY <1>0, <1>3, <1>4 DEF NextMessage
  <2>12. (n + 1) + 1 = n + 2
    OBVIOUS
  <2>13. Frames(p)'
    BY <2>4, <2>5, <2>6, <2>9, <2>10, <2>11, <2>12, <1>5 DEF Frames
  <2> QED BY <2>3, <2>11, <2>12, <2>13 DEF InFrames
<1> QED BY <1>11, <1>12, <1>13, <1>14 DEF CodecInv

\* Bytes that move on or are cut off at the end leave the frames in their places.
LEMMA SameFrames ==
    ASSUME CodecInv, ~failed, sent' = sent, decoded' = decoded,
           NEW x \in Nat, x = StreamLength, NEW y \in Nat, y = StreamLength', y <= x,
           \A i \in 1..y : StreamByte(i)' = StreamByte(i),
           IF end' = "cut" THEN end = "cut" \/ y < x ELSE end # "cut" /\ y = x
    PROVE  InFrames'
<1>1. PICK n \in Nat : n = Len(sent)
  BY LenProperties DEF CodecInv, CodecTypeOK
<1>2. PICK d \in Nat : d = Len(decoded) /\ d <= n
  BY <1>1, LenProperties DEF CodecInv, CodecTypeOK
<1>3. PICK pos \in [(d + 1)..(n + 1) -> Nat] : Frames(pos)
  BY <1>1, <1>2 DEF CodecInv, InFrames, NextMessage
<1>4. /\ pos[d + 1] = 1
      /\ \A m \in (d + 1)..n : pos[m + 1] = pos[m] + 2 + sent[m]
      /\ \A j, k \in (d + 1)..(n + 1) : j <= k => pos[j] <= pos[k]
      /\ \A m \in (d + 1)..n : \A i \in 1..(sent[m] + 2) :
            pos[m] + i - 1 <= x => StreamByte(pos[m] + i - 1) = FrameByte(m, i)
      /\ IF end = "cut" THEN x < pos[n + 1] - 1 ELSE x = pos[n + 1] - 1
  BY <1>1, <1>2, <1>3 DEF Frames, NextMessage
<1>5. PICK e \in Nat : e = pos[n + 1]
  <2>1. n + 1 \in (d + 1)..(n + 1)
    BY <1>2
  <2> QED BY <2>1
<1>6. IF end' = "cut" THEN y < e - 1 ELSE y = e - 1
  <2>1. IF end = "cut" THEN x < e - 1 ELSE x = e - 1
    BY <1>4, <1>5
  <2> QED BY <2>1
<1>7. ASSUME NEW m \in (d + 1)..n, NEW l \in Nat, l = sent[m], NEW i \in 1..(l + 2),
             pos[m] + i - 1 <= y
      PROVE  StreamByte(pos[m] + i - 1)' = FrameByte(m, i)'
  <2>1. m \in (d + 1)..(n + 1) /\ d + 1 \in (d + 1)..(n + 1) /\ d + 1 <= m
    BY <1>2
  <2>2. PICK k \in Nat : k = pos[m] /\ 1 <= k
    BY <2>1, <1>4
  <2>3. 1 <= k
    BY <2>2
  <2>4. PICK j \in Nat : j = k + i - 1 /\ 1 <= j
    BY <2>3
  <2>5. j = pos[m] + i - 1
    BY <2>2, <2>4
  <2>6. j \in 1..y /\ j <= x
    BY <2>4, <2>5, <1>7
  <2>7. StreamByte(j) = FrameByte(m, i)
    BY <2>5, <2>6, <1>4, <1>7
  <2>8. FrameByte(m, i)' = FrameByte(m, i)
    BY DEF FrameByte
  <2> QED BY <2>5, <2>6, <2>7, <2>8
<1>8. ASSUME NEW m \in (d + 1)..n, NEW i \in 1..(sent[m] + 2), pos[m] + i - 1 <= y
      PROVE  StreamByte(pos[m] + i - 1)' = FrameByte(m, i)'
  <2>1. PICK l \in Nat : l = sent[m]
    <3>1. m \in 1..n
      BY <1>2
    <3>2. sent[m] \in Lengths
      BY <3>1, <1>1, ElementOfSeq DEF CodecInv, CodecTypeOK
    <3> QED BY <3>2, ConstantsAssumption
  <2> QED BY <2>1, <1>7, <1>8
<1>9. NextMessage' = d + 1 /\ Len(sent') = n /\ StreamLength' = y
  BY <1>1, <1>2 DEF NextMessage
<1>10. Frames(pos)'
  BY <1>4, <1>5, <1>6, <1>8, <1>9 DEF Frames
<1> QED BY <1>3, <1>9, <1>10 DEF InFrames

LEMMA ReceiveFrames == ASSUME CodecInv, Receive PROVE CodecInv'
<1>0. /\ ~failed /\ end' = end /\ sent' = sent /\ decoded' = decoded /\ failed' = failed
  BY DEF Receive
<1>1. PICK a \in Nat : a = Len(src)
  BY LenProperties DEF CodecInv, CodecTypeOK
<1>2. PICK w \in Nat : w = Len(wire)
  BY LenProperties DEF CodecInv, CodecTypeOK
<1>3. PICK k \in 1..w : src' = src \o SubSeq(wire, 1, k) /\ wire' = SubSeq(wire, k + 1, Len(wire))
  BY <1>2 DEF Receive
<1>4. src \in Seq(Bytes) /\ wire \in Seq(Bytes)
  BY DEF CodecInv, CodecTypeOK
<1>5. PICK t \in Seq(Bytes) : t = SubSeq(wire, 1, k) /\ Len(t) = k /\ \A i \in 1..k : t[i] = wire[i]
  <2>1. 1 \in Nat \ {0} /\ k \in Nat /\ k <= Len(wire) /\ k - 1 + 1 = k
        /\ (IF 1 <= k THEN k - 1 + 1 ELSE 0) = k /\ \A i \in 1..k : 1 + i - 1 = i
    BY <1>2
  <2>2. PICK t : t = SubSeq(wire, 1, k)
    OBVIOUS
  <2>3. t \in Seq(Bytes) /\ Len(t) = k /\ \A i \in 1..k : t[i] = wire[i]
    BY <2>1, <2>2, <1>4, Piece
  <2> QED BY <2>2, <2>3
<1>6. /\ src' \in Seq(Bytes) /\ Len(src') = a + k
      /\ \A i \in 1..a : src'[i] = src[i]
      /\ \A i \in 1..k : src'[a + i] = wire[i]
  <2>1. src' \in Seq(Bytes) /\ Len(src') = Len(src) + Len(t)
        /\ \A i \in 1..(Len(src) + Len(t)) :
              src'[i] = IF i <= Len(src) THEN src[i] ELSE t[i - Len(src)]
    BY <1>3, <1>4, <1>5, ConcatProperties
  <2>2. \A i \in 1..a : i \in 1..(Len(src) + Len(t)) /\ i <= Len(src)
    BY <1>1, <1>5
  <2>3. \A i \in 1..k : /\ a + i \in 1..(Len(src) + Len(t))
                        /\ ~(a + i <= Len(src)) /\ (a + i) - Len(src) = i
    BY <1>1, <1>5
  <2>4. \A i \in 1..a : src'[i] = src[i]
    BY <2>1, <2>2, Zenon
  <2>5. \A i \in 1..k : src'[a + i] = t[i]
    BY <2>1, <2>3, Zenon
  <2>6. Len(src) + Len(t) = a + k
    BY <1>1, <1>5
  <2> QED BY <2>1, <2>4, <2>5, <2>6, <1>5
<1>7. /\ wire' \in Seq(Bytes) /\ Len(wire') = w - k
      /\ \A i \in 1..(w - k) : wire'[i] = wire[k + i]
  <2>1. k + 1 \in Nat \ {0} /\ Len(wire) \in Nat /\ Len(wire) <= Len(wire)
    BY <1>2
  <2>2. PICK h \in Nat : h = k + 1
    BY <2>1
  <2>3. /\ wire' \in Seq(Bytes) /\ Len(wire') = (IF h <= w THEN w - h + 1 ELSE 0)
        /\ \A i \in 1..(w - h + 1) : wire'[i] = wire[h + i - 1]
    BY <2>1, <2>2, <1>2, <1>3, <1>4, Piece
  <2>4. w - h + 1 = w - k /\ (IF h <= w THEN w - h + 1 ELSE 0) = w - k
        /\ \A i \in 1..(w - k) : h + i - 1 = k + i
    BY <2>2
  <2> QED BY <2>3, <2>4
<1>8. StreamLength = a + w /\ StreamLength' = a + w
  BY <1>1, <1>2, <1>6, <1>7 DEF StreamLength
<1>9. ASSUME NEW i \in 1..(a + w) PROVE StreamByte(i)' = StreamByte(i)
  <2>1. CASE i <= a
    <3>1. i \in 1..a /\ i <= a + k
      BY <2>1
    <3>2. StreamByte(i)' = src'[i] /\ StreamByte(i) = src[i]
      BY <2>1, <3>1, <1>1, <1>6 DEF StreamByte
    <3> QED BY <3>1, <3>2, <1>6
  <2>2. CASE i > a /\ i <= a + k
    <3>1. PICK j \in 1..k : j = i - a /\ i = a + j /\ ~(i <= a)
      BY <2>2
    <3>2. StreamByte(i)' = src'[a + j] /\ StreamByte(i) = wire[j]
      BY <2>2, <3>1, <1>1, <1>6 DEF StreamByte
    <3> QED BY <3>2, <1>6
  <2>3. CASE i > a + k
    <3>1. PICK j \in 1..(w - k) : j = i - (a + k) /\ k + j = i - a /\ ~(i <= a) /\ ~(i <= a + k)
      BY <2>3
    <3>2. StreamByte(i)' = wire'[j] /\ StreamByte(i) = wire[k + j]
      BY <3>1, <1>1, <1>6 DEF StreamByte
    <3> QED BY <3>2, <1>7
  <2> QED BY <2>1, <2>2, <2>3
<1>10. InFrames'
  <2>1. PICK x \in Nat : x = a + w
    OBVIOUS
  <2> QED BY <2>1, <1>0, <1>8, <1>9, SameFrames
<1>11. CodecTypeOK' /\ DecodedAsSent' /\ OnlyOversizeFails' /\ (Len(decoded) <= Len(sent))'
  BY <1>0, <1>6, <1>7 DEF CodecInv, CodecTypeOK, DecodedAsSent, OnlyOversizeFails
<1> QED BY <1>10, <1>11 DEF CodecInv

LEMMA EndFrames == ASSUME CodecInv, Shut \/ CutOff PROVE CodecInv'
<1>0. /\ end = "none" /\ end' \in {"shut", "cut"}
      /\ src' = src /\ sent' = sent /\ decoded' = decoded /\ failed' = failed
  BY DEF Shut, CutOff
<1>1. PICK a \in Nat : a = Len(src)
  BY LenProperties DEF CodecInv, CodecTypeOK
<1>2. PICK w \in Nat : w = Len(wire)
  BY LenProperties DEF CodecInv, CodecTypeOK
<1>3. wire \in Seq(Bytes)
  BY DEF CodecInv, CodecTypeOK
<1>4. PICK v \in Nat : /\ v = Len(wire') /\ v <= w /\ wire' \in Seq(Bytes)
                       /\ \A i \in 1..v : wire'[i] = wire[i]
                       /\ IF end' = "cut" THEN v < w ELSE v = w
  <2>1. CASE Shut
    BY <2>1, <1>2, <1>3 DEF Shut
  <2>2. CASE CutOff
    <3>1. PICK k \in 0..(w - 1) : wire' = SubSeq(wire, 1, k)
      BY <2>2, <1>2 DEF CutOff
    <3>2. 1 \in Nat \ {0} /\ k \in Nat /\ k <= Len(wire) /\ k - 1 + 1 = k
          /\ (IF 1 <= k THEN k - 1 + 1 ELSE 0) = k /\ \A i \in 1..k : 1 + i - 1 = i
      BY <1>2, <3>1
    <3>3. wire' \in Seq(Bytes) /\ Len(wire') = k /\ \A i \in 1..k : wire'[i] = wire[i]
      BY <3>1, <3>2, <1>3, Piece
    <3>4. end' = "cut"
      BY <2>2 DEF CutOff
    <3>5. k < w
      OBVIOUS
    <3> QED BY <3>3, <3>4, <3>5
  <2> QED BY <2>1, <2>2
<1>5. StreamLength = a + w /\ StreamLength' = a + v
  BY <1>0, <1>1, <1>2, <1>4 DEF StreamLength
<1>6. ASSUME NEW i \in 1..(a + v) PROVE StreamByte(i)' = StreamByte(i)
  <2>1. CASE i <= a
    BY <2>1, <1>0, <1>1 DEF StreamByte
  <2>2. CASE i > a
    <3>1. i - a \in 1..v /\ ~(i <= a)
      BY <2>2
    <3> QED BY <3>1, <1>0, <1>1, <1>4 DEF StreamByte
  <2> QED BY <2>1, <2>2
<1>7. (~failed => InFrames)'
  <2>1. PICK x \in Nat : x = a + w
    OBVIOUS
  <2>2. PICK y \in Nat : y = a + v /\ y <= x /\ (IF end' = "cut" THEN y < x ELSE y = x)
    <3>1. v <= w /\ IF end' = "cut" THEN v < w ELSE v = w
      BY <1>4
    <3> QED BY <3>1, <2>1
  <2> QED BY <2>1, <2>2, <1>0, <1>5, <1>6, SameFrames
<1>8. CodecTypeOK' /\ DecodedAsSent' /\ OnlyOversizeFails' /\ (Len(decoded) <= Len(sent))'
  BY <1>0, <1>4 DEF CodecInv, CodecTypeOK, DecodedAsSent, OnlyOversizeFails
<1> QED BY <1>7, <1>8 DEF CodecInv

\* What is in the decoder's buffer is the beginning of the next frame.
LEMMA FirstFrame ==
    ASSUME CodecInv, ~failed,
           NEW d \in Nat, d = Len(decoded), NEW n \in Nat, n = Len(sent),
           NEW a \in Nat, a = Len(src), a # 0
    PROVE  /\ d + 1 \in 1..n
           /\ \E l \in Nat :
                 /\ l = sent[d + 1]
                 /\ \A i \in 1..(l + 2) : i <= a => src[i] = FrameByte(d + 1, i)
                 /\ end # "cut" => a + Len(wire) >= l + 2
<1>1. PICK w \in Nat : w = Len(wire)
  BY LenProperties DEF CodecInv, CodecTypeOK
<1>2. d <= n
  BY DEF CodecInv
<1>3. PICK pos \in [(d + 1)..(n + 1) -> Nat] : Frames(pos)
  BY DEF CodecInv, InFrames, NextMessage
<1>4. /\ pos[d + 1] = 1
      /\ \A m \in (d + 1)..n : pos[m + 1] = pos[m] + 2 + sent[m]
      /\ \A j, k \in (d + 1)..(n + 1) : j <= k => pos[j] <= pos[k]
      /\ \A m \in (d + 1)..n : \A i \in 1..(sent[m] + 2) :
            pos[m] + i - 1 <= a + w => StreamByte(pos[m] + i - 1) = FrameByte(m, i)
      /\ IF end = "cut" THEN a + w < pos[n + 1] - 1 ELSE a + w = pos[n + 1] - 1
  BY <1>1, <1>3 DEF Frames, NextMessage, StreamLength
<1>5. d # n
  <2> SUFFICES ASSUME d = n PROVE FALSE
    OBVIOUS
  <2>1. pos[n + 1] = 1
    BY <1>4
  <2>2. IF end = "cut" THEN a + w < 1 - 1 ELSE a + w = 1 - 1
    BY <2>1, <1>4
  <2> QED BY <2>2
<1>6. d + 1 \in 1..n /\ d + 1 \in (d + 1)..n
  BY <1>2, <1>5
<1>7. PICK l \in Nat : l = sent[d + 1]
  <2>1. sent[d + 1] \in Lengths
    BY <1>6, ElementOfSeq DEF CodecInv, CodecTypeOK
  <2> QED BY <2>1, ConstantsAssumption
<1>8. ASSUME NEW i \in 1..(l + 2), i <= a PROVE src[i] = FrameByte(d + 1, i)
  <2>1. PICK j \in Nat : j = 1 + i - 1 /\ j = i
    OBVIOUS
  <2>2. j \in 1..(l + 2) /\ j <= a /\ j <= a + w /\ pos[d + 1] + j - 1 = j
    BY <2>1, <1>4, <1>8
  <2>3. StreamByte(j) = FrameByte(d + 1, j)
    BY <2>2, <1>4, <1>6, <1>7
  <2> QED BY <2>1, <2>2, <2>3 DEF StreamByte
<1>9. end # "cut" => a + w >= l + 2
  <2>1. d + 2 \in (d + 1)..(n + 1) /\ n + 1 \in (d + 1)..(n + 1) /\ d + 2 <= n + 1
        /\ (d + 1) + 1 = d + 2
    BY <1>6
  <2>2. PICK y \in Nat : y = pos[d + 2]
    BY <2>1
  <2>3. PICK z \in Nat : z = pos[n + 1]
    BY <2>1
  <2>4. y = 1 + 2 + l
    BY <2>1, <2>2, <1>4, <1>6, <1>7
  <2>5. y <= z
    BY <2>1, <2>2, <2>3, <1>4
  <2>6. end # "cut" => a + w = z - 1
    BY <2>3, <1>4
  <2> QED BY <2>4, <2>5, <2>6
<1> QED BY <1>1, <1>6, <1>7, <1>8, <1>9

\* The decoder reads the length of that frame, cut.
LEMMA SizeIsCut ==
    ASSUME NEW m, NEW l \in Nat, l = sent[m], src[1] = FrameByte(m, 1), src[2] = FrameByte(m, 2)
    PROVE  Size = l % Limit
<1>1. PICK c \in Nat : c = l % Limit
  BY CutLength
<1>2. src[1] = Byte(c \div Base, 0, 1) /\ src[2] = Byte(c % Base, 0, 2)
  BY <1>1 DEF FrameByte, Header
<1>3. Size = Base * (c \div Base) + (c % Base)
  BY <1>2 DEF Size, Byte
<1> QED BY <1>1, <1>3, CutLength

LEMMA EofFrames == ASSUME CodecInv, DecodeEof PROVE CodecInv'
<1>0. /\ ~failed /\ failed' = TRUE /\ end # "none" /\ wire = <<>> /\ src # <<>>
      /\ Len(src) >= 2 => ~Whole(Size)
      /\ UNCHANGED <<sent, wire, end, src, decoded>>
  BY DEF DecodeEof
<1>1. PICK n \in Nat : n = Len(sent)
  BY LenProperties DEF CodecInv, CodecTypeOK
<1>2. PICK d \in Nat : d = Len(decoded)
  BY LenProperties DEF CodecInv, CodecTypeOK
<1>3. PICK a \in Nat : a = Len(src) /\ a # 0
  BY <1>0, LenProperties, EmptySeq DEF CodecInv, CodecTypeOK
<1>4. PICK l \in Nat :
        /\ d + 1 \in 1..n /\ l = sent[d + 1]
        /\ \A i \in 1..(l + 2) : i <= a => src[i] = FrameByte(d + 1, i)
        /\ end # "cut" => a + Len(wire) >= l + 2
  BY <1>0, <1>1, <1>2, <1>3, FirstFrame
<1>5. end = "cut"
  <2> SUFFICES ASSUME end # "cut" PROVE FALSE
    OBVIOUS
  <2>1. a + 0 >= l + 2
    BY <1>0, <1>4, EmptySeq
  <2>2. a >= 2
    BY <2>1
  <2>3. src[1] = FrameByte(d + 1, 1) /\ src[2] = FrameByte(d + 1, 2)
    BY <2>2, <1>4
  <2>4. PICK c \in Nat : c = Size /\ c <= l
    <3>1. PICK c \in Nat : c = l % Limit /\ c <= l
      BY CutLength
    <3>2. l = sent[d + 1]
      BY <1>4
    <3>3. c = Size
      BY <2>3, <3>1, <3>2, SizeIsCut
    <3> QED BY <3>1, <3>3
  <2>5. ~(a >= c + 2)
    BY <2>2, <2>4, <1>0, <1>3 DEF Whole
  <2> QED BY <2>1, <2>4, <2>5
<1>6. OnlyOversizeFails'
  <2>1. d < n
    BY <1>4
  <2> QED BY <2>1, <1>0, <1>1, <1>2, <1>5 DEF OnlyOversizeFails
<1>7. CodecTypeOK' /\ DecodedAsSent' /\ (Len(decoded) <= Len(sent))'
  BY <1>0 DEF CodecInv, CodecTypeOK, DecodedAsSent
<1> QED BY <1>0, <1>6, <1>7 DEF CodecInv

\* A frame whose length was cut does not parse.
LEMMA DecodeOversize ==
    ASSUME CodecInv, Decode, NEW d \in Nat, d = Len(decoded),
           NEW l \in Nat, l = sent[d + 1], Oversize(l)
    PROVE  failed' = TRUE /\ decoded' = decoded
<1>0. ~failed /\ Len(src) >= 2 /\ Whole(Size)
  BY DEF Decode
<1>1. PICK n \in Nat : n = Len(sent)
  BY LenProperties DEF CodecInv, CodecTypeOK
<1>2. PICK a \in Nat : a = Len(src) /\ a >= 2
  BY <1>0, LenProperties DEF CodecInv, CodecTypeOK
<1>3. /\ d + 1 \in 1..n
      /\ \A i \in 1..(l + 2) : i <= a => src[i] = FrameByte(d + 1, i)
  <2>1. PICK k \in Nat :
          /\ d + 1 \in 1..n /\ k = sent[d + 1]
          /\ \A i \in 1..(k + 2) : i <= a => src[i] = FrameByte(d + 1, i)
    <3>1. a # 0
      BY <1>2
    <3> QED BY <3>1, <1>0, <1>1, <1>2, FirstFrame, ZenonT(30)
  <2>2. k = l
    BY <2>1
  <2> QED BY <2>1, <2>2
<1>4. PICK c \in Nat : c = Size /\ c < l /\ c + 2 <= a
  <2>1. src[1] = FrameByte(d + 1, 1) /\ src[2] = FrameByte(d + 1, 2)
    BY <1>2, <1>3
  <2>2. PICK c \in Nat : c = l % Limit
    BY CutLength
  <2>3. c = Size
    BY <2>1, <2>2, SizeIsCut
  <2>4. c < l
    <3>1. PICK b \in Nat : b = Limit
      BY CutLength
    <3>2. c < b
      BY <2>2, <3>1, CutLength
    <3>3. b <= l
      BY <3>1 DEF Oversize
    <3> QED BY <3>2, <3>3
  <2>5. c + 2 <= a
    BY <2>3, <1>0, <1>2 DEF Whole
  <2> QED BY <2>3, <2>4, <2>5
<1>5. PICK msg : msg = SubSeq(src, 3, c + 2)
  OBVIOUS
<1>6. msg \in Seq(Bytes) /\ Len(msg) = c /\ \A i \in 1..c : msg[i] = src[i + 2]
  <2>1. src \in Seq(Bytes) /\ 3 \in Nat \ {0} /\ c + 2 \in Nat /\ c + 2 <= Len(src)
    BY <1>2, <1>4 DEF CodecInv, CodecTypeOK
  <2>2. (IF 3 <= c + 2 THEN (c + 2) - 3 + 1 ELSE 0) = c /\ (c + 2) - 3 + 1 = c
        /\ \A i \in 1..c : 3 + i - 1 = i + 2
    OBVIOUS
  <2>3. /\ msg \in Seq(Bytes) /\ Len(msg) = (IF 3 <= c + 2 THEN (c + 2) - 3 + 1 ELSE 0)
        /\ \A i \in 1..((c + 2) - 3 + 1) : msg[i] = src[3 + i - 1]
    BY <2>1, <1>5, Piece
  <2> QED BY <2>2, <2>3
<1>7. ~Parses(msg)
  <2> SUFFICES ASSUME Parses(msg) PROVE FALSE
    OBVIOUS
  <2>1. msg # <<>> /\ Len(msg) = sent[msg[1].of]
    BY DEF Parses
  <2>2. c # 0
    BY <2>1, <1>6, EmptySeq
  <2>3. msg[1] = src[3] /\ 3 \in 1..(l + 2) /\ 3 <= a
    BY <2>2, <1>4, <1>6
  <2>4. msg[1] = Byte(Base - 1, d + 1, 1)
    <3>1. src[3] = FrameByte(d + 1, 3)
      BY <2>3, <1>3
    <3> QED BY <3>1, <2>3 DEF FrameByte
  <2>5. c = l
    BY <2>1, <2>4, <1>6 DEF Byte
  <2> QED BY <2>5, <1>4
<1> QED BY <1>4, <1>5, <1>7 DEF Decode

\* Any other frame does, and is that of the next message.
LEMMA DecodeFits ==
    ASSUME CodecInv, Decode, NEW d \in Nat, d = Len(decoded),
           NEW l \in Nat, l = sent[d + 1], ~Oversize(l)
    PROVE  /\ failed' = FALSE /\ decoded' = Append(decoded, d + 1)
           /\ src' = SubSeq(src, l + 3, Len(src)) /\ l + 2 <= Len(src)
<1>0. ~failed /\ Len(src) >= 2 /\ Whole(Size) /\ failed \in BOOLEAN
  BY DEF Decode, CodecInv, CodecTypeOK
<1>1. PICK n \in Nat : n = Len(sent)
  BY LenProperties DEF CodecInv, CodecTypeOK
<1>2. PICK a \in Nat : a = Len(src) /\ a >= 2
  BY <1>0, LenProperties DEF CodecInv, CodecTypeOK
<1>3. /\ d + 1 \in 1..n
      /\ \A i \in 1..(l + 2) : i <= a => src[i] = FrameByte(d + 1, i)
  <2>1. PICK k \in Nat :
          /\ d + 1 \in 1..n /\ k = sent[d + 1]
          /\ \A i \in 1..(k + 2) : i <= a => src[i] = FrameByte(d + 1, i)
    <3>1. a # 0
      BY <1>2
    <3> QED BY <3>1, <1>0, <1>1, <1>2, FirstFrame, ZenonT(30)
  <2>2. k = l
    BY <2>1
  <2> QED BY <2>1, <2>2
<1>4. l = Size /\ l + 2 <= a
  <2>1. src[1] = FrameByte(d + 1, 1) /\ src[2] = FrameByte(d + 1, 2)
    BY <1>2, <1>3
  <2>2. l < Limit
    <3>1. PICK b \in Nat : b = Limit
      BY CutLength
    <3> QED BY <3>1 DEF Oversize
  <2>3. l = Size
    <3>1. l % Limit = l
      BY <2>2, CutLength
    <3> QED BY <2>1, <3>1, SizeIsCut
  <2> QED BY <2>3, <1>0, <1>2 DEF Whole
<1>5. PICK msg : msg = SubSeq(src, 3, l + 2)
  OBVIOUS
<1>6. msg \in Seq(Bytes) /\ Len(msg) = l /\ \A i \in 1..l : msg[i] = src[i + 2]
  <2>1. src \in Seq(Bytes) /\ 3 \in Nat \ {0} /\ l + 2 \in Nat /\ l + 2 <= Len(src)
    BY <1>2, <1>4 DEF CodecInv, CodecTypeOK
  <2>2. (IF 3 <= l + 2 THEN (l + 2) - 3 + 1 ELSE 0) = l /\ (l + 2) - 3 + 1 = l
        /\ \A i \in 1..l : 3 + i - 1 = i + 2
    OBVIOUS
  <2>3. /\ msg \in Seq(Bytes) /\ Len(msg) = (IF 3 <= l + 2 THEN (l + 2) - 3 + 1 ELSE 0)
        /\ \A i \in 1..((l + 2) - 3 + 1) : msg[i] = src[3 + i - 1]
    BY <2>1, <1>5, Piece, SMTT(30)
  <2> QED BY <2>2, <2>3
<1>7. l # 0
  <2>1. sent[d + 1] \in Lengths
    BY <1>1, <1>3, ElementOfSeq DEF CodecInv, CodecTypeOK
  <2> QED BY <2>1, ConstantsAssumption
<1>8. \A i \in 1..l : msg[i] = Byte(Base - 1, d + 1, i)
  <2> SUFFICES ASSUME NEW i \in 1..l PROVE msg[i] = Byte(Base - 1, d + 1, i)
    OBVIOUS
  <2>1. PICK j \in 1..(l + 2) : j = i + 2 /\ j <= a /\ ~(j <= 2) /\ j - 2 = i
    <3>1. i + 2 <= a
      BY <1>4
    <3> QED BY <3>1
  <2>2. src[j] = FrameByte(d + 1, j)
    BY <2>1, <1>3
  <2> QED BY <2>1, <2>2, <1>6 DEF FrameByte
<1>9. Parses(msg) /\ msg[1].of = d + 1
  <2>1. 1 \in 1..l /\ DOMAIN msg = 1..l
    BY <1>6, <1>7, LenProperties
  <2>2. msg[1].of = d + 1
    <3>1. msg[1] = Byte(Base - 1, d + 1, 1)
      BY <2>1, <1>8
    <3> QED BY <3>1 DEF Byte
  <2>3. msg # <<>>
    BY <2>1, EmptySeq
  <2>4. \A i \in DOMAIN msg : msg[i].of = d + 1 /\ msg[i].at = i
    <3>1. \A i : Byte(Base - 1, d + 1, i).of = d + 1 /\ Byte(Base - 1, d + 1, i).at = i
      BY DEF Byte
    <3> QED BY <2>1, <3>1, <1>8
  <2> QED BY <2>2, <2>3, <2>4, <1>6 DEF Parses
<1> QED BY <1>0, <1>2, <1>4, <1>5, <1>9 DEF Decode, Rest

\* A step that takes the first frame, of s bytes, off the buffer.
TakesFrame(d, n, s, a, w) ==
    /\ d = Len(decoded) /\ n = Len(sent) /\ d + 1 \in 1..n /\ s = sent[d + 1] + 2
    /\ a = Len(src) /\ w = Len(wire) /\ s <= a
    /\ Len(decoded') = d + 1 /\ sent' = sent /\ wire' = wire /\ end' = end
    /\ Len(src') = a - s /\ \A i \in 1..(a - s) : src'[i] = src[i + s]

\* The frames that are left begin where the one that was decoded has ended.
LEMMA NextFrames ==
    ASSUME CodecInv, ~failed, NEW d \in Nat, NEW n \in Nat, NEW s \in Nat,
           NEW a \in Nat, NEW w \in Nat, TakesFrame(d, n, s, a, w)
    PROVE  InFrames'
<1>0. s <= a /\ d + 1 \in 1..n
  BY DEF TakesFrame
<1>1. /\ d = Len(decoded) /\ n = Len(sent) /\ s = sent[d + 1] + 2
      /\ a = Len(src) /\ w = Len(wire)
      /\ Len(decoded') = d + 1 /\ sent' = sent /\ wire' = wire /\ end' = end
      /\ Len(src') = a - s /\ \A i \in 1..(a - s) : src'[i] = src[i + s]
  BY DEF TakesFrame
<1>2. PICK pos \in [(d + 1)..(n + 1) -> Nat] : Frames(pos)
  BY <1>1 DEF CodecInv, InFrames, NextMessage
<1>3. /\ pos[d + 1] = 1
      /\ \A m \in (d + 1)..n : pos[m + 1] = pos[m] + 2 + sent[m]
      /\ \A j, k \in (d + 1)..(n + 1) : j <= k => pos[j] <= pos[k]
      /\ \A m \in (d + 1)..n : \A i \in 1..(sent[m] + 2) :
            pos[m] + i - 1 <= a + w => StreamByte(pos[m] + i - 1) = FrameByte(m, i)
      /\ IF end = "cut" THEN a + w < pos[n + 1] - 1 ELSE a + w = pos[n + 1] - 1
  BY <1>1, <1>2 DEF Frames, NextMessage, StreamLength
<1>4. /\ d + 1 \in (d + 1)..n /\ d + 2 \in (d + 1)..(n + 1) /\ (d + 1) + 1 = d + 2
      /\ n + 1 \in (d + 2)..(n + 1) /\ d + 2 \in (d + 2)..(n + 1)
      /\ \A m \in (d + 2)..(n + 1) : m \in (d + 1)..(n + 1) /\ d + 2 <= m
      /\ \A m \in (d + 2)..n : m \in (d + 1)..n /\ m \in (d + 2)..(n + 1)
                               /\ m + 1 \in (d + 2)..(n + 1) /\ m \in 1..n
  BY <1>0
<1>5. pos[d + 2] = 1 + s
  <2>1. PICK l \in Nat : l = sent[d + 1]
    <3>1. sent[d + 1] \in Lengths
      BY <1>1, <1>0, ElementOfSeq DEF CodecInv, CodecTypeOK
    <3> QED BY <3>1, ConstantsAssumption
  <2>2. pos[d + 2] = 1 + 2 + l
    BY <2>1, <1>3, <1>4
  <2>3. s = l + 2
    BY <2>1, <1>1
  <2> QED BY <2>2, <2>3
<1>6. \A m \in (d + 2)..(n + 1) : pos[m] \in Nat /\ 1 + s <= pos[m]
  BY <1>3, <1>4, <1>5
<1>7. PICK p \in [(d + 2)..(n + 1) -> Nat] : \A m \in (d + 2)..(n + 1) : pos[m] = p[m] + s
  <2>1. PICK p : p = [m \in (d + 2)..(n + 1) |-> pos[m] - s]
    OBVIOUS
  <2>2. \A m \in (d + 2)..(n + 1) : pos[m] - s \in Nat /\ pos[m] = (pos[m] - s) + s
    <3> SUFFICES ASSUME NEW m \in (d + 2)..(n + 1)
                 PROVE  pos[m] - s \in Nat /\ pos[m] = (pos[m] - s) + s
      OBVIOUS
    <3>1. PICK x \in Nat : x = pos[m] /\ 1 + s <= x
      BY <1>6
    <3>2. 1 + s <= x
      BY <3>1
    <3>3. x - s \in Nat /\ x = (x - s) + s
      BY <3>2
    <3> QED BY <3>1, <3>3
  <2>3. p \in [(d + 2)..(n + 1) -> Nat]
    BY <2>1, <2>2
  <2>4. \A m \in (d + 2)..(n + 1) : p[m] = pos[m] - s
    BY <2>1
  <2> QED BY <2>2, <2>3, <2>4
<1>8. p[d + 2] = 1
  <2>1. p[d + 2] \in Nat /\ p[d + 2] + s = 1 + s
    BY <1>4, <1>5, <1>7
  <2> QED BY <2>1, SMTT(30)
<1>9. ASSUME NEW m \in (d + 2)..n PROVE p[m + 1] = p[m] + 2 + sent[m]
  <2>1. PICK k \in Nat : k = sent[m]
    <3>1. sent[m] \in Lengths
      BY <1>1, <1>4, ElementOfSeq DEF CodecInv, CodecTypeOK
    <3> QED BY <3>1, ConstantsAssumption
  <2>2. PICK x \in Nat : x = p[m] /\ pos[m] = x + s
    BY <1>4, <1>7
  <2>3. PICK y \in Nat : y = p[m + 1] /\ pos[m + 1] = y + s
    BY <1>4, <1>7
  <2>4. y + s = x + s + 2 + k
    BY <2>1, <2>2, <2>3, <1>3, <1>4
  <2>5. y = x + 2 + k
    BY <2>4
  <2> QED BY <2>1, <2>2, <2>3, <2>5
<1>10. ASSUME NEW j \in (d + 2)..(n + 1), NEW k \in (d + 2)..(n + 1), j <= k
       PROVE  p[j] <= p[k]
  <2>1. PICK x \in Nat : x = p[j] /\ pos[j] = x + s
    BY <1>7
  <2>2. PICK y \in Nat : y = p[k] /\ pos[k] = y + s
    BY <1>7
  <2>3. x + s <= y + s
    <3>1. j \in (d + 1)..(n + 1) /\ k \in (d + 1)..(n + 1)
      BY <1>4
    <3>2. pos[j] <= pos[k]
      BY <3>1, <1>3, <1>10
    <3> QED BY <3>2, <2>1, <2>2
  <2>4. x <= y
    BY <2>3
  <2> QED BY <2>1, <2>2, <2>4
<1>11. StreamLength' + s = a + w /\ StreamLength' \in Nat
  <2>1. StreamLength' = (a - s) + w
    BY <1>1 DEF StreamLength
  <2> QED BY <2>1, <1>0
<1>12. PICK y \in Nat : y = StreamLength' /\ y + s = a + w
  BY <1>11
<1>13. ASSUME NEW i \in 1..y PROVE StreamByte(i)' = StreamByte(i + s)
  <2>1. CASE i <= a - s
    <3>1. i \in 1..(a - s) /\ i + s <= a
      BY <2>1, <1>0
    <3>2. StreamByte(i)' = src'[i]
      BY <3>1, <1>1 DEF StreamByte
    <3>3. StreamByte(i + s) = src[i + s]
      BY <3>1, <1>1 DEF StreamByte
    <3> QED BY <3>1, <3>2, <3>3, <1>1
  <2>2. CASE i > a - s
    <3>1. ~(i <= a - s) /\ ~(i + s <= a) /\ i - (a - s) = (i + s) - a
      BY <2>2, <1>0
    <3>2. StreamByte(i)' = wire[i - (a - s)]
      BY <3>1, <1>1 DEF StreamByte
    <3>3. StreamByte(i + s) = wire[(i + s) - a]
      BY <3>1, <1>1 DEF StreamByte
    <3> QED BY <3>1, <3>2, <3>3
  <2> QED BY <2>1, <2>2, <1>0
<1>14. ASSUME NEW m \in (d + 2)..n, NEW k \in Nat, k = sent[m], NEW i \in 1..(k + 2),
              NEW x \in Nat, x = p[m], x + i - 1 <= y
       PROVE  StreamByte(x + i - 1)' = FrameByte(m, i)'
  <2>1. 1 <= x
    <3>1. d + 2 \in (d + 2)..(n + 1) /\ m \in (d + 2)..(n + 1) /\ d + 2 <= m
      BY <1>4
    <3>2. p[d + 2] <= p[m]
      BY <3>1, <1>10
    <3>3. 1 <= p[m]
      BY <3>2, <1>8
    <3> QED BY <3>3, <1>14
  <2>2. PICK j \in 1..y : j = x + i - 1
    BY <2>1, <1>14
  <2>3. pos[m] = x + s
    BY <1>4, <1>7, <1>14
  <2>4. PICK g \in Nat : g = j + s /\ g <= a + w
    <3>1. y + s = a + w
      BY <1>12
    <3>2. j + s <= a + w
      BY <3>1
    <3> QED BY <3>2
  <2>5. pos[m] + i - 1 = g
    <3>1. (x + s) + i - 1 = g
      BY <2>2, <2>4
    <3> QED BY <3>1, <2>3
  <2>6. StreamByte(g) = FrameByte(m, i)
    BY <2>4, <2>5, <1>3, <1>4, <1>14
  <2>7. FrameByte(m, i)' = FrameByte(m, i)
    BY <1>1 DEF FrameByte
  <2> QED BY <2>2, <2>4, <2>6, <2>7, <1>13
<1>15. ASSUME NEW m \in (d + 2)..n, NEW i \in 1..(sent[m] + 2), p[m] + i - 1 <= y
       PROVE  StreamByte(p[m] + i - 1)' = FrameByte(m, i)'
  <2>1. PICK k \in Nat : k = sent[m]
    <3>1. sent[m] \in Lengths
      BY <1>1, <1>4, ElementOfSeq DEF CodecInv, CodecTypeOK
    <3> QED BY <3>1, ConstantsAssumption
  <2>2. PICK x \in Nat : x = p[m]
    BY <1>4
  <2> QED BY <2>1, <2>2, <1>14, <1>15
<1>16. IF end' = "cut" THEN y < p[n + 1] - 1 ELSE y = p[n + 1] - 1
  <2>1. PICK x \in Nat : x = p[n + 1] /\ pos[n + 1] = x + s
    BY <1>4, <1>7
  <2>2. IF end = "cut" THEN y + s < (x + s) - 1 ELSE y + s = (x + s) - 1
    BY <2>1, <1>3, <1>12
  <2>3. IF end = "cut" THEN y < x - 1 ELSE y = x - 1
    BY <2>2
  <2> QED BY <2>1, <2>3, <1>1
<1>17. NextMessage' = d + 2 /\ Len(sent') = n
  <2>1. NextMessage' = (d + 1) + 1
    BY <1>1 DEF NextMessage
  <2> QED BY <2>1, <1>1
<1>18. Frames(p)'
  <2>1. /\ p[NextMessage'] = 1 /\ \A m \in NextMessage'..Len(sent') : p[m + 1] = p[m] + 2 + sent'[m]
        /\ \A j, k \in NextMessage'..(Len(sent') + 1) : j <= k => p[j] <= p[k]
    BY <1>1, <1>8, <1>9, <1>10, <1>17
  <2>2. \A m \in NextMessage'..Len(sent') : \A i \in 1..(sent'[m] + 2) :
           p[m] + i - 1 <= StreamLength' => StreamByte(p[m] + i - 1)' = FrameByte(m, i)'
    BY <1>1, <1>12, <1>15, <1>17
  <2>3. IF end' = "cut" THEN StreamLength' < p[Len(sent') + 1] - 1
                        ELSE StreamLength' = p[Len(sent') + 1] - 1
    BY <1>12, <1>16, <1>17
  <2> QED BY <2>1, <2>2, <2>3 DEF Frames
<1> QED BY <1>7, <1>17, <1>18 DEF InFrames

LEMMA DecodeFrames == ASSUME CodecInv, Decode PROVE CodecInv'
<1>0. /\ ~failed /\ Len(src) >= 2 /\ Whole(Size) /\ src' = Rest(Size)
      /\ sent' = sent /\ wire' = wire /\ end' = end
  BY DEF Decode
<1>1. PICK n \in Nat : n = Len(sent) /\ n <= MaxMessages
  BY LenProperties DEF CodecInv, CodecTypeOK
<1>2. PICK d \in Nat : d = Len(decoded)
  BY LenProperties DEF CodecInv, CodecTypeOK
<1>3. PICK a \in Nat : a = Len(src) /\ a >= 2
  BY <1>0, LenProperties DEF CodecInv, CodecTypeOK
<1>4. PICK w \in Nat : w = Len(wire)
  BY LenProperties DEF CodecInv, CodecTypeOK
<1>5. d + 1 \in 1..n
  <2>1. a # 0
    BY <1>3
  <2> QED BY <2>1, <1>0, <1>1, <1>2, <1>3, FirstFrame
<1>6. PICK l \in Nat : l = sent[d + 1]
  <2>1. sent[d + 1] \in Lengths
    BY <1>1, <1>5, ElementOfSeq DEF CodecInv, CodecTypeOK
  <2> QED BY <2>1, ConstantsAssumption
<1>7. src \in Seq(Bytes) /\ decoded \in Seq(1..MaxMessages) /\ MaxMessages \in Nat
  BY ConstantsAssumption DEF CodecInv, CodecTypeOK
<1>8. CASE Oversize(l)
  <2>1. failed' = TRUE /\ decoded' = decoded
    BY <1>2, <1>6, <1>8, DecodeOversize
  <2>2. src' \in Seq(Bytes)
    <3>1. PICK u \in Nat : u = src[1].value
      <4>1. src[1] \in Bytes
        BY <1>3, <1>7, ElementOfSeq
      <4> QED BY <4>1 DEF Bytes
    <3>2. PICK v \in Nat : v = src[2].value
      <4>1. src[2] \in Bytes
        BY <1>3, <1>7, ElementOfSeq
      <4> QED BY <4>1 DEF Bytes
    <3>3. PICK b \in Nat : b = Base
      BY ConstantsAssumption
    <3>4. Size = b * u + v
      BY <3>1, <3>2, <3>3 DEF Size
    <3>5. b * u \in Nat
      OBVIOUS
    <3>6. PICK s \in Nat \ {0} : s = Size + 3
      BY <3>4, <3>5
    <3>7. SubSeq(src, s, a) \in Seq(Bytes)
      BY <1>3, <1>7, Piece
    <3> QED BY <3>6, <3>7, <1>0, <1>3 DEF Rest
  <2>3. OnlyOversizeFails'
    <3>1. d + 1 \in DOMAIN sent /\ d < d + 1
      BY <1>1, <1>5, LenProperties DEF CodecInv, CodecTypeOK
    <3>2. Oversize(sent[d + 1])
      BY <1>6, <1>8
    <3> QED BY <3>1, <3>2, <2>1, <1>0, <1>2 DEF OnlyOversizeFails, Oversize, Limit
  <2> QED BY <2>1, <2>2, <2>3, <1>0 DEF CodecInv, CodecTypeOK, DecodedAsSent
<1>9. CASE ~Oversize(l)
  <2>1. /\ failed' = FALSE /\ decoded' = Append(decoded, d + 1)
        /\ src' = SubSeq(src, l + 3, Len(src)) /\ l + 2 <= a
    BY <1>2, <1>3, <1>6, <1>9, DecodeFits
  <2>2. d + 1 \in 1..MaxMessages
    BY <1>1, <1>5, <1>7
  <2>3. /\ decoded' \in Seq(1..MaxMessages) /\ Len(decoded') = d + 1
        /\ decoded'[d + 1] = d + 1 /\ \A i \in 1..d : decoded'[i] = decoded[i]
    BY <2>1, <2>2, <1>2, <1>7, AppendProperties
  <2>4. DecodedAsSent'
    <3>1. DOMAIN decoded' = 1..(d + 1) /\ DOMAIN decoded = 1..d
      BY <2>3, <1>2, <1>7, LenProperties
    <3>2. \A i \in 1..(d + 1) : i = d + 1 \/ i \in 1..d
      OBVIOUS
    <3> QED BY <3>1, <3>2, <2>3 DEF CodecInv, DecodedAsSent
  <2>5. /\ src' \in Seq(Bytes) /\ Len(src') = a - (l + 2)
        /\ \A i \in 1..(a - (l + 2)) : src'[i] = src[i + (l + 2)]
    <3>1. PICK s \in Nat \ {0} : s = l + 3
      OBVIOUS
    <3>2. /\ src' \in Seq(Bytes) /\ Len(src') = (IF s <= a THEN a - s + 1 ELSE 0)
          /\ \A i \in 1..(a - s + 1) : src'[i] = src[s + i - 1]
      BY <3>1, <2>1, <1>3, <1>7, Piece
    <3>3. (IF s <= a THEN a - s + 1 ELSE 0) = a - (l + 2) /\ a - s + 1 = a - (l + 2)
          /\ \A i \in 1..(a - (l + 2)) : s + i - 1 = i + (l + 2)
      BY <3>1, <2>1
    <3> QED BY <3>2, <3>3
  <2>6. InFrames'
    <3>1. PICK s \in Nat : s = l + 2
      OBVIOUS
    <3>2. TakesFrame(d, n, s, a, w)
      BY <3>1, <2>1, <2>3, <2>5, <1>0, <1>1, <1>2, <1>3, <1>4, <1>5, <1>6 DEF TakesFrame
    <3> QED BY <3>2, <1>0, NextFrames
  <2>7. CodecTypeOK' /\ OnlyOversizeFails' /\ (Len(decoded) <= Len(sent))'
    <3>1. d + 1 <= n
      BY <1>5
    <3> QED BY <3>1, <2>1, <2>3, <2>5, <1>0, <1>1
            DEF CodecInv, CodecTypeOK, OnlyOversizeFails
  <2> QED BY <2>4, <2>6, <2>7 DEF CodecInv
<1> QED BY <1>8, <1>9

\* As long as nothing has failed, the decoder is at the beginning of the frame of the
\* next message, and there are only bytes of frames behind it (encode and decode
\* of codec.rs), for any lengths, any number of messages and any base.
THEOREM FramesInvariance == CodecSpec => []CodecInv
<1>1. CodecInv /\ [CodecNext]_codecVars => CodecInv'
  <2> SUFFICES ASSUME CodecInv, [CodecNext]_codecVars PROVE CodecInv'
    OBVIOUS
  <2>1. ASSUME NEW length \in Lengths, Encode(length) PROVE CodecInv'
    BY <2>1, EncodeFrames
  <2>2. CASE Shut \/ CutOff
    BY <2>2, EndFrames
  <2>3. CASE Receive
    BY <2>3, ReceiveFrames
  <2>4. CASE Decode
    BY <2>4, DecodeFrames
  <2>5. CASE DecodeEof
    BY <2>5, EofFrames
  <2>6. CASE UNCHANGED codecVars
    BY <2>6, ZenonT(30)
       DEF codecVars, CodecInv, CodecTypeOK, DecodedAsSent, OnlyOversizeFails, Oversize,
       InFrames, Frames, NextMessage, StreamLength, StreamByte, FrameByte, Limit
  <2> QED BY <2>1, <2>2, <2>3, <2>4, <2>5, <2>6 DEF CodecNext
<1> QED BY <1>1, InitFrames, PTL DEF CodecSpec

\* What is decoded is what was encoded: the messages in order, none left out, none
\* invented, none twice (decode of codec.rs).
THEOREM DecodesWhatWasSent == CodecSpec => []DecodedAsSent
<1>1. CodecInv => DecodedAsSent
  BY DEF CodecInv
<1> QED BY <1>1, FramesInvariance, PTL

\* Decoding fails only at a message whose length does not fit in two bytes, or when
\* its sender has died in the middle of one (the cast of encode in codec.rs).
THEOREM OnlyOversizeStops == CodecSpec => []OnlyOversizeFails
<1>1. CodecInv => OnlyOversizeFails
  BY DEF CodecInv
<1> QED BY <1>1, FramesInvariance, PTL

-----------------------------------------------------------------------------
(* TcpEcho, for any bytes in any pieces *)

EchoBytes == Chars \cup {NL}

EchoTypeOK ==
    /\ written \in Seq(EchoBytes) /\ finished \in BOOLEAN /\ taken \in 0..Len(written)
    /\ buf \in Seq(EchoBytes) /\ out \in Seq(EchoBytes) /\ echoed \in Seq(EchoBytes)
    /\ serving \in {"open", "closed", "dropped"}

\* The sequence s is the bytes of w behind the first k.
Behind(s, k, w) == \A i \in 1..Len(s) : s[i] = w[k + i]

\* w has whole, valid lines in its first k bytes, and nothing else.
LinesUpTo(k, w) == (k = 0 \/ w[k] = NL) /\ \A i \in 1..k : w[i] # "bad"

\* All echoed bytes belong to lines of w that are whole and valid.
Answered(n, w) == n = 0 \/ \E k \in 1..Len(w) : k >= n /\ w[k] = NL /\ \A i \in 1..k : w[i] # "bad"

\* Something in w is a reason to drop the connection, when nothing follows if ended.
Unfit(w, ended) ==
    \/ \E k \in 1..Len(w) : w[k] = NL /\ \E i \in 1..k : w[i] = "bad"
    \/ ended /\ w # <<>> /\ w[Len(w)] # NL

\* The bytes that were read are, one behind the other, those that went out, those that
\* wait to go out, and those in the buffer; the first two are whole and valid lines.
EchoInv ==
    /\ EchoTypeOK
    /\ Len(echoed) <= taken /\ Behind(echoed, 0, written) /\ Answered(Len(echoed), written)
    /\ serving # "dropped" =>
          /\ Len(echoed) + Len(out) + Len(buf) = taken
          /\ Behind(out, Len(echoed), written)
          /\ Behind(buf, Len(echoed) + Len(out), written)
          /\ LinesUpTo(Len(echoed) + Len(out), written)
    /\ serving = "dropped" => Unfit(written, finished)
    /\ serving = "closed" => finished /\ taken = Len(written) /\ buf = <<>> /\ out = <<>>

\* What lies between two places of a sequence.
LEMMA Cut ==
    ASSUME NEW S, NEW s \in Seq(S), NEW m \in Nat, NEW n \in Nat, m <= n, n <= Len(s)
    PROVE  /\ SubSeq(s, m + 1, n) \in Seq(S) /\ Len(SubSeq(s, m + 1, n)) = n - m
           /\ \A i \in 1..(n - m) : SubSeq(s, m + 1, n)[i] = s[m + i]
<1>1. PICK h \in Nat \ {0} : h = m + 1
  OBVIOUS
<1>2. PICK x : x = SubSeq(s, h, n)
  OBVIOUS
<1>3. /\ SubSeq(s, h, n) \in Seq(S)
      /\ Len(SubSeq(s, h, n)) = IF h <= n THEN n - h + 1 ELSE 0
      /\ \A i \in 1..(n - h + 1) : SubSeq(s, h, n)[i] = s[h + i - 1]
  BY Piece
<1>4. /\ x \in Seq(S)
      /\ Len(x) = IF h <= n THEN n - h + 1 ELSE 0
      /\ \A i \in 1..(n - h + 1) : x[i] = s[h + i - 1]
  BY <1>2, <1>3
<1>5. Len(x) = n - m
  BY <1>1, <1>4
<1>6. ASSUME NEW i \in 1..(n - m) PROVE x[i] = s[m + i]
  <2>1. i \in 1..(n - h + 1) /\ h + i - 1 = m + i
    BY <1>1
  <2> QED BY <1>4, <2>1
<1>7. x = SubSeq(s, m + 1, n)
  BY <1>1, <1>2
<1> QED BY <1>4, <1>5, <1>6, <1>7

\* One sequence behind another.
LEMMA Join ==
    ASSUME NEW S, NEW s \in Seq(S), NEW t \in Seq(S), NEW m \in Nat, NEW n \in Nat,
           m = Len(s), n = Len(t)
    PROVE  /\ s \o t \in Seq(S) /\ Len(s \o t) = m + n
           /\ \A i \in 1..m : (s \o t)[i] = s[i]
           /\ \A i \in 1..n : (s \o t)[m + i] = t[i]
<1>1. /\ s \o t \in Seq(S) /\ Len(s \o t) = Len(s) + Len(t)
      /\ \A i \in 1..(Len(s) + Len(t)) : (s \o t)[i] = IF i <= Len(s) THEN s[i] ELSE t[i - Len(s)]
  BY ConcatProperties
<1>2. PICK z : z = s \o t
  OBVIOUS
<1>3. \A i \in 1..(m + n) : z[i] = IF i <= m THEN s[i] ELSE t[i - m]
  BY <1>1, <1>2
<1>4. ASSUME NEW i \in 1..m PROVE z[i] = s[i]
  <2>1. i \in 1..(m + n) /\ i <= m
    OBVIOUS
  <2> QED BY <1>3, <2>1
<1>5. ASSUME NEW i \in 1..n PROVE z[m + i] = t[i]
  <2>1. m + i \in 1..(m + n) /\ ~ (m + i <= m) /\ (m + i) - m = i
    OBVIOUS
  <2>2. PICK j \in 1..(m + n) : j = m + i /\ ~ (j <= m) /\ j - m = i
    BY <2>1
  <2>3. z[j] = t[j - m]
    BY <1>3, <2>2
  <2> QED BY <2>2, <2>3
<1> QED BY <1>1, <1>2, <1>4, <1>5

LEMMA BehindCut ==
    ASSUME NEW S, NEW s \in Seq(S), NEW w, NEW a \in Nat, NEW m \in Nat, NEW n \in Nat,
           m <= n, n <= Len(s), Behind(s, a, w)
    PROVE  Behind(SubSeq(s, m + 1, n), a + m, w)
<1>1. PICK x : x = SubSeq(s, m + 1, n)
  OBVIOUS
<1>2. /\ SubSeq(s, m + 1, n) \in Seq(S) /\ Len(SubSeq(s, m + 1, n)) = n - m
      /\ \A i \in 1..(n - m) : SubSeq(s, m + 1, n)[i] = s[m + i]
  BY Cut
<1>3. Len(x) = n - m /\ \A i \in 1..(n - m) : x[i] = s[m + i]
  BY <1>1, <1>2
<1>4. \A i \in 1..Len(s) : s[i] = w[a + i]
  BY DEF Behind
<1>5. Len(s) \in Nat
  BY LenProperties
<1>6. ASSUME NEW i \in 1..(n - m) PROVE x[i] = w[(a + m) + i]
  <2>1. PICK j \in 1..Len(s) : j = m + i /\ a + j = (a + m) + i
    BY <1>5
  <2> QED BY <1>3, <1>4, <2>1
<1>7. Behind(x, a + m, w)
  BY <1>3, <1>6 DEF Behind
<1> QED BY <1>1, <1>7

LEMMA BehindJoin ==
    ASSUME NEW S, NEW s \in Seq(S), NEW t \in Seq(S), NEW w, NEW a \in Nat,
           Behind(s, a, w), Behind(t, a + Len(s), w)
    PROVE  Behind(s \o t, a, w)
<1>1. PICK m \in Nat, n \in Nat : m = Len(s) /\ n = Len(t)
  BY LenProperties
<1>2. PICK z : z = s \o t
  OBVIOUS
<1>3. /\ s \o t \in Seq(S) /\ Len(s \o t) = m + n
      /\ \A i \in 1..m : (s \o t)[i] = s[i]
      /\ \A i \in 1..n : (s \o t)[m + i] = t[i]
  BY <1>1, Join
<1>4. /\ Len(z) = m + n
      /\ \A i \in 1..m : z[i] = s[i]
      /\ \A i \in 1..n : z[m + i] = t[i]
  BY <1>2, <1>3
<1>5. /\ \A i \in 1..m : s[i] = w[a + i]
      /\ \A i \in 1..n : t[i] = w[(a + m) + i]
  BY <1>1 DEF Behind
<1>6. ASSUME NEW i \in 1..(m + n) PROVE z[i] = w[a + i]
  <2>1. CASE i <= m
    <3>1. i \in 1..m
      BY <2>1
    <3> QED BY <1>4, <1>5, <3>1
  <2>2. CASE i > m
    <3>1. PICK j \in 1..n : m + j = i /\ (a + m) + j = a + i
      BY <2>2
    <3>2. z[m + j] = w[(a + m) + j]
      BY <1>4, <1>5
    <3> QED BY <3>1, <3>2
  <2> QED BY <2>1, <2>2
<1>7. Behind(z, a, w)
  BY <1>4, <1>6 DEF Behind
<1> QED BY <1>2, <1>7

\* The first newline in the buffer.
LEMMA FirstLine ==
    ASSUME buf \in Seq(EchoBytes), HasLine
    PROVE  LineLength \in 0..(Len(buf) - 1) /\ buf[LineLength + 1] = NL
<1>1. PICK T : T = {i \in DOMAIN buf : buf[i] = NL}
  OBVIOUS
<1>2. T \in SUBSET Nat /\ T # {} /\ DOMAIN buf = 1..Len(buf) /\ Len(buf) \in Nat
  BY <1>1, LenProperties DEF HasLine, Contains
<1>3. \E x \in T : \A y \in T : x <= y
  BY <1>2, LeastNatural
<1>4. PICK x : x = Min(T)
  OBVIOUS
<1>5. x \in T
  BY <1>3, <1>4 DEF Min
<1>6. LineLength = x - 1
  BY <1>1, <1>4 DEF LineLength
<1>7. x \in 1..Len(buf) /\ buf[x] = NL
  BY <1>1, <1>2, <1>5
<1> QED BY <1>2, <1>6, <1>7

LEMMA InitEcho == EchoInit => EchoInv
<1> SUFFICES ASSUME EchoInit PROVE EchoInv
  OBVIOUS
<1>1. /\ written = <<>> /\ buf = <<>> /\ out = <<>> /\ echoed = <<>> /\ taken = 0
      /\ finished = FALSE /\ serving = "open"
  BY DEF EchoInit
<1>2. Len(<<>>) = 0 /\ <<>> \in Seq(EchoBytes)
  BY EmptySeq
<1>3. EchoTypeOK
  <2>1. finished \in BOOLEAN
    BY Zenon DEF EchoInit
  <2>2. taken \in 0..Len(written)
    BY <1>1, <1>2
  <2> QED BY <1>1, <1>2, <2>1, <2>2 DEF EchoTypeOK
<1>4. Behind(<<>>, 0, <<>>) /\ LinesUpTo(0, <<>>) /\ Answered(0, <<>>)
  BY <1>2 DEF Behind, LinesUpTo, Answered
<1> QED BY <1>1, <1>2, <1>3, <1>4 DEF EchoInv

\* The peer writes a byte more, or no more.
LEMMA WrittenEcho ==
    ASSUME EchoInv, (\E b \in EchoBytes : PeerWrites(b)) \/ PeerFinishes PROVE EchoInv'
<1>0. UNCHANGED <<taken, buf, out, echoed, serving>> /\ ~ finished /\ EchoTypeOK
  BY DEF PeerWrites, PeerFinishes, EchoInv
<1>1. CASE PeerFinishes
  <2>1. written' = written /\ finished' = TRUE
    BY <1>1 DEF PeerFinishes
  <2>2. Unfit(written, finished) => Unfit(written, TRUE)
    BY <1>0 DEF Unfit
  <2>3. EchoTypeOK'
    BY <1>0, <2>1 DEF EchoTypeOK
  <2> QED BY <1>0, <2>1, <2>2, <2>3 DEF EchoInv
<1>2. ASSUME NEW b \in EchoBytes, PeerWrites(b) PROVE EchoInv'
  <2>1. PICK w \in Seq(EchoBytes), v \in Seq(EchoBytes), m \in Nat :
          w = written /\ v = Append(w, b) /\ v = written' /\ m = Len(w)
    BY <1>0, <1>2, AppendProperties, LenProperties DEF PeerWrites, EchoTypeOK
  <2>2. /\ Len(v) = m + 1 /\ \A i \in 1..m : v[i] = w[i]
        /\ finished' = finished
    BY <1>2, <2>1, AppendProperties DEF PeerWrites
  <2>3. PICK t \in Nat, e \in Nat, o \in Nat, k \in Nat :
          t = taken /\ e = Len(echoed) /\ o = Len(out) /\ k = Len(buf) /\ t <= m
    BY <1>0, <2>1, LenProperties DEF EchoTypeOK
  <2>4. EchoTypeOK'
    BY <1>0, <2>1, <2>2, <2>3 DEF EchoTypeOK
  <2>5. e <= t /\ Behind(echoed, 0, w) /\ Answered(e, w)
    BY <2>1, <2>3 DEF EchoInv
  <2>6. Behind(echoed, 0, v)
    BY <2>2, <2>3, <2>5 DEF Behind
  <2>7. Answered(e, v)
    BY <2>1, <2>2, <2>5 DEF Answered
  <2>8. ASSUME serving # "dropped"
        PROVE  /\ e + o + k = t
               /\ Behind(out, e, v) /\ Behind(buf, e + o, v) /\ LinesUpTo(e + o, v)
    <3>1. /\ e + o + k = t
          /\ Behind(out, e, w) /\ Behind(buf, e + o, w) /\ LinesUpTo(e + o, w)
      BY <2>1, <2>3, <2>8 DEF EchoInv
    <3>2. Behind(out, e, v)
      BY <2>2, <2>3, <3>1 DEF Behind
    <3>3. Behind(buf, e + o, v)
      BY <2>2, <2>3, <3>1 DEF Behind
    <3>4. LinesUpTo(e + o, v)
      BY <2>2, <2>3, <3>1 DEF LinesUpTo
    <3> QED BY <3>1, <3>2, <3>3, <3>4
  <2>9. serving = "dropped" => Unfit(v, finished)
    <3>1. serving = "dropped" => Unfit(w, finished)
      BY <2>1 DEF EchoInv
    <3>2. Unfit(w, finished) => Unfit(v, finished)
      BY <1>0, <2>1, <2>2 DEF Unfit
    <3> QED BY <3>1, <3>2
  <2>10. serving # "closed"
    BY <1>0 DEF EchoInv
  <2> QED BY <1>0, <2>1, <2>2, <2>3, <2>4, <2>5, <2>6, <2>7, <2>8, <2>9, <2>10 DEF EchoInv
<1> QED BY <1>1, <1>2

\* Bytes go from the stream to the buffer.
LEMMA ReadEcho == ASSUME EchoInv, ReadMore PROVE EchoInv'
<1>1. PICK w \in Seq(EchoBytes), m \in Nat, t \in Nat :
        w = written /\ m = Len(w) /\ t = taken /\ t <= m
  BY LenProperties DEF EchoInv, EchoTypeOK
<1>2. PICK k \in (t + 1)..m : buf' = buf \o SubSeq(w, t + 1, k) /\ taken' = k
  BY <1>1 DEF ReadMore
<1>3. serving = "open" /\ UNCHANGED <<written, finished, out, echoed, serving>>
  BY DEF ReadMore
<1>4. PICK s \in Seq(EchoBytes), b \in Nat, o \in Nat, e \in Nat :
        s = buf /\ b = Len(s) /\ o = Len(out) /\ e = Len(echoed)
  BY LenProperties DEF EchoInv, EchoTypeOK
<1>5. PICK x \in Seq(EchoBytes) : x = SubSeq(w, t + 1, k) /\ Len(x) = k - t /\ Behind(x, t, w)
  <2>1. k \in Nat /\ t <= k /\ k <= Len(w)
    BY <1>1
  <2>2. /\ SubSeq(w, t + 1, k) \in Seq(EchoBytes) /\ Len(SubSeq(w, t + 1, k)) = k - t
        /\ \A i \in 1..(k - t) : SubSeq(w, t + 1, k)[i] = w[t + i]
    BY <2>1, Cut
  <2> QED BY <2>2 DEF Behind
<1>6. /\ e + o + b = t /\ Behind(out, e, w) /\ Behind(s, e + o, w) /\ LinesUpTo(e + o, w)
      /\ e <= t /\ Behind(echoed, 0, w) /\ Answered(e, w)
  BY <1>1, <1>3, <1>4 DEF EchoInv
<1>7. PICK y \in Seq(EchoBytes) : y = buf' /\ Len(y) = b + (k - t) /\ Behind(y, e + o, w)
  <2>1. PICK c \in Nat, d \in Nat : c = e + o /\ d = k - t
    BY <1>1
  <2>2. Behind(s, c, w) /\ Behind(x, c + Len(s), w)
    BY <1>4, <1>5, <1>6, <2>1
  <2>3. Behind(s \o x, c, w)
    BY <2>2, BehindJoin
  <2>4. b = Len(s) /\ d = Len(x)
    BY <1>4, <1>5, <2>1
  <2>5. s \o x \in Seq(EchoBytes) /\ Len(s \o x) = b + d
    BY <2>4, Join
  <2> QED BY <1>2, <1>4, <1>5, <2>1, <2>3, <2>5
<1>8. EchoTypeOK'
  <2>1. k \in 0..m
    OBVIOUS
  <2> QED BY <1>1, <1>2, <1>3, <1>7, <2>1 DEF EchoInv, EchoTypeOK
<1>9. e + o + Len(y) = k /\ e <= k
  BY <1>6, <1>7
<1> QED BY <1>1, <1>2, <1>3, <1>4, <1>6, <1>7, <1>8, <1>9 DEF EchoInv

\* A line is taken out of the buffer.
LEMMA LineEcho == ASSUME EchoInv, EchoLine PROVE EchoInv'
<1>1. PICK w \in Seq(EchoBytes), m \in Nat, t \in Nat :
        w = written /\ m = Len(w) /\ t = taken /\ t <= m
  BY LenProperties DEF EchoInv, EchoTypeOK
<1>2. PICK s \in Seq(EchoBytes), b \in Nat, g \in Seq(EchoBytes), o \in Nat, e \in Nat :
        s = buf /\ b = Len(s) /\ g = out /\ o = Len(g) /\ e = Len(echoed)
  BY LenProperties DEF EchoInv, EchoTypeOK
<1>3. serving = "open" /\ HasLine /\ UNCHANGED <<written, finished, taken, echoed>>
  BY DEF EchoLine
<1>4. PICK n \in Nat : n = LineLength /\ n + 1 <= b /\ s[n + 1] = NL
  BY <1>2, <1>3, FirstLine
<1>5. PICK line \in Seq(EchoBytes) :
        line = SubSeq(s, 1, n) /\ Len(line) = n /\ \A i \in 1..n : line[i] = s[i]
  <2>1. PICK z \in Nat : z = 0 /\ z <= n /\ n <= Len(s)
    BY <1>2, <1>4
  <2>2. /\ SubSeq(s, z + 1, n) \in Seq(EchoBytes) /\ Len(SubSeq(s, z + 1, n)) = n - z
        /\ \A i \in 1..(n - z) : SubSeq(s, z + 1, n)[i] = s[z + i]
    BY <2>1, Cut
  <2>3. z + 1 = 1 /\ n - z = n /\ \A i \in 1..n : z + i = i
    BY <2>1
  <2> QED BY <2>2, <2>3
<1>6. /\ e + o + b = t /\ Behind(g, e, w) /\ Behind(s, e + o, w) /\ LinesUpTo(e + o, w)
      /\ e <= t /\ Behind(echoed, 0, w) /\ Answered(e, w)
  BY <1>1, <1>2, <1>3 DEF EchoInv
<1>7. PICK c \in Nat : c = e + o
  OBVIOUS
<1>8. \A i \in 1..b : s[i] = w[c + i]
  BY <1>2, <1>6, <1>7 DEF Behind
<1>9. PICK z \in 1..m : z = c + (n + 1) /\ w[z] = NL
  <2>1. c + (n + 1) \in 1..m /\ n + 1 \in 1..b
    BY <1>1, <1>4, <1>6, <1>7
  <2>2. s[n + 1] = w[c + (n + 1)]
    BY <1>8, <2>1
  <2> QED BY <1>4, <2>1, <2>2
<1>10. PICK rest \in Seq(EchoBytes) :
        rest = SubSeq(s, n + 2, b) /\ Len(rest) = b - (n + 1) /\ Behind(rest, z, w)
  <2>1. PICK h \in Nat : h = n + 1 /\ h <= b /\ b <= Len(s)
    BY <1>2, <1>4
  <2>2. /\ SubSeq(s, h + 1, b) \in Seq(EchoBytes) /\ Len(SubSeq(s, h + 1, b)) = b - h
        /\ \A i \in 1..(b - h) : SubSeq(s, h + 1, b)[i] = s[h + i]
    BY <2>1, Cut
  <2>3. Behind(s, c, w)
    BY <1>6, <1>7
  <2>4. Behind(SubSeq(s, h + 1, b), c + h, w)
    BY <2>1, <2>3, BehindCut
  <2>5. h + 1 = n + 2 /\ c + h = z
    BY <1>9, <2>1
  <2> QED BY <2>1, <2>2, <2>4, <2>5
<1>11. buf' = rest
  BY <1>2, <1>4, <1>10 DEF EchoLine, RestOfBuf
<1>12. IF Contains(line, "bad") THEN Drop ELSE out' = g \o Append(line, NL) /\ UNCHANGED serving
  BY <1>2, <1>4, <1>5 DEF EchoLine, Encoded
<1>13. CASE Contains(line, "bad")
  <2>1. serving' = "dropped" /\ out' = <<>>
    BY <1>12, <1>13 DEF Drop
  <2>2. PICK i \in 1..n : line[i] = "bad"
    BY <1>5, <1>13 DEF Contains
  <2>3. c + i \in 1..z /\ i \in 1..b
    BY <1>4, <1>9
  <2>4. w[c + i] = "bad"
    BY <1>5, <1>8, <2>2, <2>3
  <2>5. Unfit(w, finished)
    BY <1>1, <1>9, <2>3, <2>4 DEF Unfit
  <2>6. EchoTypeOK'
    BY <1>3, <1>11, <2>1, EmptySeq DEF EchoInv, EchoTypeOK
  <2> QED BY <1>1, <1>2, <1>3, <1>6, <2>1, <2>5, <2>6 DEF EchoInv
<1>14. CASE ~ Contains(line, "bad")
  <2>1. out' = g \o Append(line, NL) /\ serving' = "open"
    BY <1>3, <1>12, <1>14
  <2>2. PICK x \in Seq(EchoBytes) : x = Append(line, NL) /\ Len(x) = n + 1 /\ Behind(x, c, w)
    <3>1. NL \in EchoBytes
      BY DEF EchoBytes
    <3>2. /\ Append(line, NL) \in Seq(EchoBytes) /\ Len(Append(line, NL)) = n + 1
          /\ \A i \in 1..n : Append(line, NL)[i] = line[i]
          /\ Append(line, NL)[n + 1] = NL
      BY <1>5, <3>1, AppendProperties
    <3>3. PICK x \in Seq(EchoBytes) :
            /\ x = Append(line, NL) /\ Len(x) = n + 1 /\ x[n + 1] = NL
            /\ \A i \in 1..n : x[i] = line[i]
      BY <3>2
    <3>4. ASSUME NEW i \in 1..(n + 1) PROVE x[i] = w[c + i]
      <4>1. CASE i = n + 1
        BY <1>9, <3>3, <4>1
      <4>2. CASE i # n + 1
        <5>1. i \in 1..n /\ i \in 1..b
          BY <1>4, <4>2
        <5> QED BY <1>5, <1>8, <3>3, <5>1
      <4> QED BY <4>1, <4>2
    <3> QED BY <3>3, <3>4 DEF Behind
  <2>3. PICK y \in Seq(EchoBytes) : y = out' /\ Len(y) = o + (n + 1) /\ Behind(y, e, w)
    <3>1. PICK d \in Nat : d = n + 1 /\ d = Len(x) /\ o = Len(g)
      BY <1>2, <2>2
    <3>5. o = Len(g) /\ d = Len(x)
      BY <3>1
    <3>2. g \o x \in Seq(EchoBytes) /\ Len(g \o x) = o + d
      BY <3>5, Join
    <3>3. Behind(g, e, w) /\ Behind(x, e + Len(g), w)
      BY <1>2, <1>6, <1>7, <2>2
    <3>4. Behind(g \o x, e, w)
      BY <3>3, BehindJoin
    <3> QED BY <2>1, <2>2, <3>1, <3>2, <3>4
  <2>4. LinesUpTo(z, w)
    <3> SUFFICES ASSUME NEW i \in 1..z PROVE w[i] # "bad"
      BY <1>9 DEF LinesUpTo
    <3>1. CASE i <= c
      <4>1. i \in 1..c
        BY <3>1
      <4> QED BY <1>6, <1>7, <4>1 DEF LinesUpTo
    <3>2. CASE i = z
      BY <1>9, <3>2 DEF NL
    <3>3. CASE i > c /\ i # z
      <4>1. PICK j \in 1..n : i = c + j /\ j \in 1..b
        BY <1>4, <1>9, <3>3
      <4>2. line[j] # "bad"
        BY <1>5, <1>14 DEF Contains
      <4>3. line[j] = s[j] /\ s[j] = w[c + j]
        BY <1>5, <1>8, <4>1
      <4> QED BY <4>1, <4>2, <4>3
    <3> QED BY <3>1, <3>2, <3>3
  <2>5. EchoTypeOK'
    BY <1>3, <1>11, <2>1, <2>3 DEF EchoInv, EchoTypeOK
  <2>6. e + Len(y) = z /\ z + Len(rest) = t
    BY <1>6, <1>7, <1>9, <1>10, <2>3
  <2> QED BY <1>1, <1>2, <1>3, <1>6, <1>10, <1>11, <2>1, <2>3, <2>4, <2>5, <2>6 DEF EchoInv
<1> QED BY <1>13, <1>14

\* What waits goes out, up to some place.
LEMMA FlushEcho == ASSUME EchoInv, Flush PROVE EchoInv'
<1>1. PICK w \in Seq(EchoBytes), m \in Nat, t \in Nat :
        w = written /\ m = Len(w) /\ t = taken /\ t <= m
  BY LenProperties DEF EchoInv, EchoTypeOK
<1>2. PICK b \in Nat, g \in Seq(EchoBytes), o \in Nat, h \in Seq(EchoBytes), e \in Nat :
        b = Len(buf) /\ g = out /\ o = Len(g) /\ h = echoed /\ e = Len(h)
  BY LenProperties DEF EchoInv, EchoTypeOK
<1>3. serving = "open" /\ UNCHANGED <<written, finished, taken, buf, serving>>
  BY DEF Flush
<1>4. PICK k \in 1..o : echoed' = h \o SubSeq(g, 1, k) /\ out' = SubSeq(g, k + 1, o)
  BY <1>2 DEF Flush
<1>5. /\ e + o + b = t /\ Behind(g, e, w) /\ Behind(buf, e + o, w) /\ LinesUpTo(e + o, w)
      /\ e <= t /\ Behind(h, 0, w)
  BY <1>1, <1>2, <1>3 DEF EchoInv
<1>6. PICK x \in Seq(EchoBytes) : x = SubSeq(g, 1, k) /\ Len(x) = k /\ Behind(x, e, w)
  <2>1. PICK z \in Nat : z = 0 /\ z <= k /\ k <= Len(g) /\ k \in Nat
    BY <1>2
  <2>2. z <= k /\ k <= Len(g) /\ k \in Nat
    BY <2>1
  <2>3. /\ SubSeq(g, z + 1, k) \in Seq(EchoBytes) /\ Len(SubSeq(g, z + 1, k)) = k - z
        /\ \A i \in 1..(k - z) : SubSeq(g, z + 1, k)[i] = g[z + i]
    BY <2>2, Cut
  <2>4. Behind(g, e, w)
    BY <1>5
  <2>5. Behind(SubSeq(g, z + 1, k), e + z, w)
    BY <2>2, <2>4, BehindCut
  <2>6. z + 1 = 1 /\ k - z = k /\ e + z = e
    BY <2>1
  <2> QED BY <2>3, <2>5, <2>6
<1>7. PICK r \in Seq(EchoBytes) : r = out' /\ Len(r) = o - k /\ Behind(r, e + k, w)
  <2>1. k <= o /\ o <= Len(g) /\ k \in Nat
    BY <1>2
  <2>2. /\ SubSeq(g, k + 1, o) \in Seq(EchoBytes) /\ Len(SubSeq(g, k + 1, o)) = o - k
        /\ \A i \in 1..(o - k) : SubSeq(g, k + 1, o)[i] = g[k + i]
    BY <2>1, Cut
  <2>3. Behind(g, e, w)
    BY <1>5
  <2>4. Behind(SubSeq(g, k + 1, o), e + k, w)
    BY <2>1, <2>3, BehindCut
  <2> QED BY <1>4, <2>2, <2>4
<1>8. PICK y \in Seq(EchoBytes) : y = echoed' /\ Len(y) = e + k /\ Behind(y, 0, w)
  <2>1. PICK z \in Nat : z = 0 /\ z + Len(h) = e
    BY <1>2
  <2>2. Behind(h, z, w) /\ Behind(x, z + Len(h), w)
    BY <1>5, <1>6, <2>1
  <2>3. Behind(h \o x, z, w)
    BY <2>2, BehindJoin
  <2>4. PICK d \in Nat : d = k /\ e = Len(h) /\ d = Len(x)
    BY <1>2, <1>6
  <2>5. e = Len(h) /\ d = Len(x)
    BY <2>4
  <2>6. h \o x \in Seq(EchoBytes) /\ Len(h \o x) = e + d
    BY <2>5, Join
  <2> QED BY <1>4, <1>6, <2>1, <2>3, <2>4, <2>6
<1>9. Answered(e + k, w)
  <2>1. PICK c \in Nat : c = e + o /\ c \in 1..m /\ e + k <= c
    BY <1>1, <1>5
  <2>2. w[c] = NL /\ \A i \in 1..c : w[i] # "bad"
    BY <1>5, <2>1 DEF LinesUpTo
  <2> QED BY <1>1, <2>1, <2>2 DEF Answered
<1>10. EchoTypeOK'
  BY <1>3, <1>7, <1>8 DEF EchoInv, EchoTypeOK
<1>11. (e + k) + (o - k) = e + o /\ e + k <= t
  BY <1>5
<1> QED BY <1>1, <1>2, <1>3, <1>5, <1>7, <1>8, <1>9, <1>10, <1>11 DEF EchoInv

\* The bytes end with a line that is not ended.
LEMMA UnterminatedEcho == ASSUME EchoInv, Unterminated PROVE EchoInv'
<1>1. PICK w \in Seq(EchoBytes), m \in Nat, s \in Seq(EchoBytes), b \in Nat, c \in Nat :
        w = written /\ m = Len(w) /\ s = buf /\ b = Len(s) /\ c = Len(echoed) + Len(out)
  BY LenProperties DEF EchoInv, EchoTypeOK
<1>2. /\ serving = "open" /\ finished /\ taken = m /\ ~ HasLine /\ s # <<>>
      /\ serving' = "dropped" /\ out' = <<>> /\ UNCHANGED <<written, finished, taken, buf, echoed>>
  BY <1>1 DEF Unterminated, AtEnd, Drop
<1>3. b # 0
  BY <1>1, <1>2, EmptySeq
<1>4. c + b = m /\ \A i \in 1..b : s[i] = w[c + i]
  BY <1>1, <1>2 DEF EchoInv, Behind
<1>5. s[b] # NL
  <2>1. b \in DOMAIN s
    BY <1>1, <1>3, LenProperties
  <2> QED BY <1>1, <1>2, <2>1 DEF HasLine, Contains
<1>6. w[m] # NL
  <2>1. b \in 1..b
    BY <1>3
  <2> QED BY <1>4, <1>5, <2>1
<1>7. w # <<>>
  BY <1>1, <1>3, <1>4, EmptySeq
<1>8. Unfit(w, finished)
  BY <1>1, <1>2, <1>6, <1>7 DEF Unfit
<1>9. EchoTypeOK'
  BY <1>2, EmptySeq DEF EchoInv, EchoTypeOK
<1> QED BY <1>1, <1>2, <1>8, <1>9 DEF EchoInv

\* Everything has gone out.
LEMMA CloseEcho == ASSUME EchoInv, CloseStream PROVE EchoInv'
<1>1. /\ serving = "open" /\ finished /\ taken = Len(written) /\ buf = <<>> /\ out = <<>>
      /\ serving' = "closed" /\ UNCHANGED <<written, finished, taken, buf, out, echoed>>
  BY DEF CloseStream, AtEnd
<1>2. EchoTypeOK'
  BY <1>1 DEF EchoInv, EchoTypeOK
<1> QED BY <1>1, <1>2 DEF EchoInv

LEMMA EchoStep == EchoInv /\ [EchoNext]_echoVars => EchoInv'
<1> SUFFICES ASSUME EchoInv, [EchoNext]_echoVars PROVE EchoInv'
  OBVIOUS
<1>1. CASE EchoNext
  <2>1. \/ (\E b \in EchoBytes : PeerWrites(b)) \/ PeerFinishes
        \/ ReadMore \/ EchoLine \/ Flush \/ Unterminated \/ CloseStream
    BY <1>1 DEF EchoNext, EchoServes, EchoBytes
  <2> QED BY <2>1, WrittenEcho, ReadEcho, LineEcho, FlushEcho, UnterminatedEcho, CloseEcho
<1>2. CASE UNCHANGED echoVars
  BY <1>2 DEF echoVars, EchoInv, EchoTypeOK
<1> QED BY <1>1, <1>2

\* What the invariant says is what the peer is promised.
LEMMA InvIsOwnBytes == ASSUME EchoInv PROVE OwnBytesOnly
<1>1. PICK w \in Seq(EchoBytes), m \in Nat, h \in Seq(EchoBytes), e \in Nat :
        w = written /\ m = Len(w) /\ h = echoed /\ e = Len(h)
  BY LenProperties DEF EchoInv, EchoTypeOK
<1>2. taken \in 0..m /\ e <= taken /\ Behind(h, 0, w) /\ Answered(e, w)
  BY <1>1 DEF EchoInv, EchoTypeOK
<1>3. DOMAIN w = 1..m
  BY <1>1, LenProperties
<1>4. \A i \in 1..e : h[i] = w[i]
  BY <1>1, <1>2 DEF Behind
<1>5. IsPrefix(h, w)
  <2>1. PICK z \in Nat : z = 0 /\ z <= e /\ e <= Len(w)
    BY <1>1, <1>2
  <2>2. z <= e /\ e <= Len(w)
    BY <2>1
  <2>3. /\ SubSeq(w, z + 1, e) \in Seq(EchoBytes) /\ Len(SubSeq(w, z + 1, e)) = e - z
        /\ \A i \in 1..(e - z) : SubSeq(w, z + 1, e)[i] = w[z + i]
    BY <2>2, Cut
  <2>4. PICK x \in Seq(EchoBytes) : x = SubSeq(w, 1, e) /\ Len(x) = e /\ \A i \in 1..e : x[i] = w[i]
    <3>1. z + 1 = 1 /\ e - z = e /\ \A i \in 1..e : z + i = i
      BY <2>1
    <3> QED BY <2>3, <3>1
  <2>5. Len(h) = Len(x) /\ \A i \in 1..Len(h) : h[i] = x[i]
    BY <1>1, <1>4, <2>4
  <2>6. h = x
    BY <2>5, SeqEqual
  <2> QED BY <1>1, <2>1, <2>4, <2>6 DEF IsPrefix
<1>6. h # <<>> => \E k \in WholeLines : k >= Len(h) /\ Valid(k)
  <2> SUFFICES ASSUME h # <<>> PROVE \E k \in WholeLines : k >= Len(h) /\ Valid(k)
    OBVIOUS
  <2>1. e # 0
    BY <1>1, EmptySeq
  <2>2. PICK k \in 1..m : k >= e /\ w[k] = NL /\ \A i \in 1..k : w[i] # "bad"
    BY <1>1, <1>2, <2>1 DEF Answered
  <2>3. k \in WholeLines /\ Valid(k)
    BY <1>1, <1>3, <2>2 DEF WholeLines, Valid
  <2> QED BY <1>1, <2>2, <2>3
<1>7. serving = "dropped" =>
        \/ \E k \in WholeLines : ~ Valid(k)
        \/ finished /\ w # <<>> /\ Last(w) # NL
  <2> SUFFICES ASSUME serving = "dropped"
               PROVE  \/ \E k \in WholeLines : ~ Valid(k)
                      \/ finished /\ w # <<>> /\ Last(w) # NL
    OBVIOUS
  <2>1. Unfit(w, finished)
    BY <1>1 DEF EchoInv
  <2>2. CASE \E k \in 1..m : w[k] = NL /\ \E i \in 1..k : w[i] = "bad"
    <3>1. PICK k \in 1..m : w[k] = NL /\ \E i \in 1..k : w[i] = "bad"
      BY <2>2
    <3>2. k \in WholeLines /\ ~ Valid(k)
      BY <1>1, <1>3, <3>1 DEF WholeLines, Valid
    <3> QED BY <3>2
  <2>3. CASE finished /\ w # <<>> /\ w[m] # NL
    BY <1>1, <2>3 DEF Last
  <2> QED BY <1>1, <2>1, <2>2, <2>3 DEF Unfit
<1>8. serving = "closed" => h = w
  <2> SUFFICES ASSUME serving = "closed" PROVE h = w
    OBVIOUS
  <2>1. taken = m /\ buf = <<>> /\ out = <<>>
    BY <1>1 DEF EchoInv
  <2>2. e = m
    BY <1>1, <2>1, EmptySeq DEF EchoInv
  <2>3. Len(h) = Len(w) /\ \A i \in 1..Len(h) : h[i] = w[i]
    BY <1>1, <1>4, <2>2
  <2> QED BY <2>3, SeqEqual
<1> QED BY <1>1, <1>5, <1>6, <1>7, <1>8 DEF OwnBytesOnly

\* However many bytes the peer writes and in whatever pieces they arrive, what it gets
\* back is a beginning of them, of whole and valid lines only; its connection is dropped
\* only for an invalid line or an unended one, and closed when all has been sent back
\* (LineCodec's decode and encode, Echo's call).
THEOREM EchoesOwnBytes == EchoSpec => []OwnBytesOnly
<1>1. EchoInit => EchoInv
  BY InitEcho
<1>2. EchoInv /\ [EchoNext]_echoVars => EchoInv'
  BY EchoStep
<1>3. EchoInv => OwnBytesOnly
  BY InvIsOwnBytes
<1> QED BY <1>1, <1>2, <1>3, PTL DEF EchoSpec

=============================================================================
