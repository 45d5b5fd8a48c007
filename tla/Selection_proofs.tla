--------------------------- MODULE Selection_proofs ---------------------------
EXTENDS Selection, SequenceTheorems, WellFoundedInduction, TLAPS

LEMMA LeastNatural ==
    ASSUME NEW T \in SUBSET Nat, T # {}
    PROVE \E n \in T : \A m \in T : n <= m
<1>1. \E x \in T : \A y \in T : ~(<<y, x>> \in OpToRel(<, Nat))
  BY NatLessThanWellFounded, WFMin, Zenon
<1>2. \A x, y \in T : <<y, x>> \in OpToRel(<, Nat) <=> y < x
  BY DEF OpToRel
<1>3. \A x, y \in T : ~(y < x) => x <= y
  OBVIOUS
<1> QED BY <1>1, <1>2, <1>3

\* Induction, over a set of numbers instead of a formula about them.
LEMMA SetInduction ==
    ASSUME NEW T, 0 \in T, \A n \in Nat : n \in T => n + 1 \in T
    PROVE  Nat \subseteq T
<1> SUFFICES ASSUME Nat \ T # {} PROVE FALSE
  OBVIOUS
<1>1. PICK n \in Nat \ T : \A m \in Nat \ T : n <= m
  BY LeastNatural
<1>2. n # 0 /\ n - 1 \in Nat /\ ~(n <= n - 1) /\ (n - 1) + 1 = n
  BY <1>1
<1>3. n - 1 \in T
  BY <1>1, <1>2
<1> QED BY <1>2, <1>3

\* f is what Only computes, for the first m elements of s.
Among(f, s, T, m) ==
    f = [i \in 0..m |-> IF i = 0 THEN <<>>
                        ELSE IF s[i] \in T THEN Append(f[i - 1], s[i])
                        ELSE f[i - 1]]

LEMMA AmongExists ==
    ASSUME NEW s, NEW T, NEW m \in Nat
    PROVE  \E f : Among(f, s, T, m)
<1>1. PICK N : N = {n \in Nat : \E f : Among(f, s, T, n)}
  OBVIOUS
<1>2. 0 \in N
  <2>1. PICK f : f = [i \in 0..0 |-> <<>>]
    OBVIOUS
  <2>2. Among(f, s, T, 0)
    BY <2>1 DEF Among
  <2> QED BY <1>1, <2>2
<1>3. ASSUME NEW n \in Nat, n \in N PROVE n + 1 \in N
  <2>1. PICK f : Among(f, s, T, n)
    BY <1>1, <1>3
  <2>2. PICK g : g = [i \in 0..(n + 1) |->
                        IF i <= n THEN f[i]
                        ELSE IF s[n + 1] \in T THEN Append(f[n], s[n + 1]) ELSE f[n]]
    OBVIOUS
  <2>3. ASSUME NEW i \in 0..(n + 1)
        PROVE  g[i] = IF i = 0 THEN <<>> ELSE IF s[i] \in T THEN Append(g[i - 1], s[i]) ELSE g[i - 1]
    <3>1. CASE i = 0
      BY <2>1, <2>2, <3>1 DEF Among
    <3>2. CASE i # 0 /\ i <= n
      <4>1. /\ i \in 0..n /\ i - 1 \in 0..n /\ g[i] = f[i] /\ g[i - 1] = f[i - 1]
        BY <2>2, <2>3, <3>2
      <4>2. f[i] = IF i = 0 THEN <<>> ELSE IF s[i] \in T THEN Append(f[i - 1], s[i]) ELSE f[i - 1]
        BY <2>1, <4>1 DEF Among
      <4> QED BY <3>2, <4>1, <4>2
    <3>3. CASE i = n + 1
      <4>1. i - 1 = n /\ i # 0 /\ ~(i <= n) /\ n \in 0..(n + 1) /\ n <= n
        BY <3>3
      <4>2. g[n] = f[n] /\ g[i] = IF s[n + 1] \in T THEN Append(f[n], s[n + 1]) ELSE f[n]
        BY <2>2, <2>3, <4>1
      <4> QED BY <3>3, <4>1, <4>2
    <3> QED BY <2>3, <3>1, <3>2, <3>3
  <2>4. Among(g, s, T, n + 1)
    <3>1. DOMAIN g = 0..(n + 1) /\ g = [i \in 0..(n + 1) |-> g[i]]
      BY <2>2
    <3> QED BY <2>3, <3>1 DEF Among
  <2> QED BY <1>1, <2>4
<1>4. Nat \subseteq N
  BY <1>2, <1>3, SetInduction
<1> QED BY <1>1, <1>4

\* It is the same for two sequences that begin alike.
LEMMA AmongAgree ==
    ASSUME NEW s, NEW t, NEW T, NEW m \in Nat, NEW n \in Nat, m <= n,
           \A i \in 1..m : s[i] = t[i],
           NEW f, Among(f, s, T, m), NEW g, Among(g, t, T, n)
    PROVE  f[m] = g[m]
<1>1. PICK N : N = {k \in Nat : k <= m => f[k] = g[k]}
  OBVIOUS
<1>2. 0 \in N
  <2>1. 0 \in 0..m /\ 0 \in 0..n
    OBVIOUS
  <2>2. f[0] = <<>> /\ g[0] = <<>>
    BY <2>1 DEF Among
  <2> QED BY <1>1, <2>2
<1>3. ASSUME NEW k \in Nat, k \in N PROVE k + 1 \in N
  <2> SUFFICES ASSUME k + 1 <= m PROVE f[k + 1] = g[k + 1]
    BY <1>1
  <2>1. k + 1 \in 0..m /\ k + 1 \in 0..n /\ k + 1 # 0 /\ (k + 1) - 1 = k /\ k + 1 \in 1..m /\ k <= m
    OBVIOUS
  <2>2. f[k] = g[k] /\ s[k + 1] = t[k + 1]
    BY <1>1, <1>3, <2>1
  <2>3. f[k + 1] = IF s[k + 1] \in T THEN Append(f[k], s[k + 1]) ELSE f[k]
    BY <2>1 DEF Among
  <2>4. g[k + 1] = IF t[k + 1] \in T THEN Append(g[k], t[k + 1]) ELSE g[k]
    BY <2>1 DEF Among
  <2> QED BY <2>2, <2>3, <2>4
<1>4. Nat \subseteq N
  BY <1>2, <1>3, SetInduction
<1> QED BY <1>1, <1>4

LEMMA OnlyIsAmong ==
    ASSUME NEW s, NEW T, Len(s) \in Nat
    PROVE  \E f : Among(f, s, T, Len(s)) /\ Only(s, T) = f[Len(s)]
<1>1. PICK f : Among(f, s, T, Len(s))
  BY AmongExists
<1>2. PICK g : g = CHOOSE h : h = [i \in 0..Len(s) |-> IF i = 0 THEN <<>>
                        ELSE IF s[i] \in T THEN Append(h[i - 1], s[i])
                        ELSE h[i - 1]]
  OBVIOUS
<1>3. Among(g, s, T, Len(s))
  BY <1>1, <1>2 DEF Among
<1>4. Only(s, T) = g[Len(s)]
  BY <1>2 DEF Only
<1> QED BY <1>3, <1>4

LEMMA OnlyEmpty == ASSUME NEW T PROVE Only(<<>>, T) = <<>>
<1>1. Len(<<>>) = 0
  OBVIOUS
<1>2. PICK f : Among(f, <<>>, T, 0) /\ Only(<<>>, T) = f[0]
  BY <1>1, OnlyIsAmong
<1>3. 0 \in 0..0
  OBVIOUS
<1> QED BY <1>2, <1>3 DEF Among

LEMMA OnlyAppend ==
    ASSUME NEW S, NEW s \in Seq(S), NEW e \in S, NEW T
    PROVE  Only(Append(s, e), T) = IF e \in T THEN Append(Only(s, T), e) ELSE Only(s, T)
<1>1. PICK n \in Nat : n = Len(s)
  BY LenProperties
<1>2. PICK t \in Seq(S) : t = Append(s, e)
  BY AppendProperties
<1>3. Len(t) = n + 1 /\ t[n + 1] = e /\ \A i \in 1..n : t[i] = s[i]
  BY <1>1, <1>2, AppendProperties
<1>4. PICK f : Among(f, s, T, n) /\ Only(s, T) = f[n]
  BY <1>1, OnlyIsAmong
<1>5. PICK g : Among(g, t, T, n + 1) /\ Only(t, T) = g[n + 1]
  BY <1>3, OnlyIsAmong
<1>6. f[n] = g[n]
  <2>1. n + 1 \in Nat /\ n <= n + 1 /\ \A i \in 1..n : s[i] = t[i]
    BY <1>3
  <2> QED BY <1>4, <1>5, <2>1, AmongAgree
<1>7. n + 1 \in 0..(n + 1) /\ n + 1 # 0 /\ (n + 1) - 1 = n
  OBVIOUS
<1>8. g[n + 1] = IF t[n + 1] \in T THEN Append(g[n], t[n + 1]) ELSE g[n]
  BY <1>5, <1>7 DEF Among
<1> QED BY <1>2, <1>3, <1>4, <1>5, <1>6, <1>8

\* Induction over sequences, over a set of them.
LEMMA SeqInduction ==
    ASSUME NEW S, NEW Q, <<>> \in Q,
           \A s \in Seq(S), e \in S : s \in Q => Append(s, e) \in Q
    PROVE  Seq(S) \subseteq Q
<1>1. PICK N : N = {n \in Nat : \A s \in Seq(S) : Len(s) = n => s \in Q}
  OBVIOUS
<1>2. 0 \in N
  BY <1>1, EmptySeq
<1>3. ASSUME NEW n \in Nat, n \in N PROVE n + 1 \in N
  <2>1. ASSUME NEW s \in Seq(S), Len(s) = n + 1 PROVE s \in Q
    <3>1. s # <<>>
      BY <2>1
    <3>2. PICK r \in Seq(S), e \in S : s = Append(r, e)
      BY <3>1, SequenceEmptyOrAppend
    <3>3. Len(s) = Len(r) + 1 /\ Len(r) \in Nat
      BY <3>2, AppendProperties, LenProperties
    <3>4. r \in Q
      BY <1>1, <1>3, <2>1, <3>3
    <3> QED BY <3>2, <3>4
  <2> QED BY <1>1, <2>1
<1>4. Nat \subseteq N
  BY <1>2, <1>3, SetInduction
<1> QED BY <1>1, <1>4, LenProperties

LEMMA Single ==
    ASSUME NEW S, NEW e \in S PROVE <<e>> \in Seq(S) /\ <<e>> = Append(<<>>, e)
<1>1. <<e>> = Append(<<>>, e)
  OBVIOUS
<1> QED BY <1>1, EmptySeq, AppendProperties

LEMMA OnlyType ==
    ASSUME NEW S, NEW s \in Seq(S), NEW T
    PROVE  Only(s, T) \in Seq(S \cap T)
<1>1. PICK Q : Q = {r \in Seq(S) : Only(r, T) \in Seq(S \cap T)}
  OBVIOUS
<1>2. <<>> \in Q
  BY <1>1, OnlyEmpty, EmptySeq
<1>3. ASSUME NEW r \in Seq(S), NEW e \in S, r \in Q PROVE Append(r, e) \in Q
  <2>1. Only(r, T) \in Seq(S \cap T) /\ Append(r, e) \in Seq(S)
    BY <1>1, <1>3, AppendProperties
  <2>2. e \in T => Append(Only(r, T), e) \in Seq(S \cap T)
    BY <2>1, AppendProperties
  <2>3. Only(Append(r, e), T) \in Seq(S \cap T)
    BY <2>1, <2>2, OnlyAppend
  <2> QED BY <1>1, <2>1, <2>3
<1>4. Seq(S) \subseteq Q
  BY <1>2, <1>3, SeqInduction
<1> QED BY <1>1, <1>4

LEMMA Regroup ==
    ASSUME NEW S, NEW a \in Seq(S), NEW b \in Seq(S), NEW c \in Seq(S)
    PROVE  a \o (b \o c) = (a \o b) \o c
  BY ConcatAssociative

LEMMA OnlyConcat ==
    ASSUME NEW S, NEW s \in Seq(S), NEW t \in Seq(S), NEW T
    PROVE  Only(s \o t, T) = Only(s, T) \o Only(t, T)
<1>1. PICK Q : Q = {r \in Seq(S) : Only(s \o r, T) = Only(s, T) \o Only(r, T)}
  OBVIOUS
<1>6. PICK R : R = S \cap T /\ \A r \in Seq(S) : Only(r, T) \in Seq(R)
  BY OnlyType
<1>2. PICK os \in Seq(R) : os = Only(s, T)
  BY <1>6
<1>3. <<>> \in Q
  <2>1. s \o <<>> = s /\ os \o <<>> = os
    BY ConcatEmptySeq
  <2> QED BY <1>1, <1>2, <2>1, OnlyEmpty, EmptySeq
<1>4. ASSUME NEW r \in Seq(S), NEW e \in S, r \in Q PROVE Append(r, e) \in Q
  <2>1. PICK v \in Seq(R) : v = Only(r, T)
    BY <1>6
  <2>2. PICK sr \in Seq(S) : sr = s \o r
    BY ConcatProperties
  <2>3. s \o Append(r, e) = Append(sr, e)
    <3>1. Append(r, e) = r \o <<e>> /\ Append(sr, e) = sr \o <<e>> /\ <<e>> \in Seq(S)
      BY AppendIsConcat
    <3>2. s \o (r \o <<e>>) = (s \o r) \o <<e>>
      BY <3>1, ConcatAssociative
    <3> QED BY <2>2, <3>1, <3>2
  <2>4. Only(sr, T) = os \o v
    BY <1>1, <1>2, <1>4, <2>1, <2>2
  <2>5. Only(Append(sr, e), T) = IF e \in T THEN Append(os \o v, e) ELSE os \o v
    BY <2>4, OnlyAppend
  <2>6. Only(Append(r, e), T) = IF e \in T THEN Append(v, e) ELSE v
    BY <2>1, OnlyAppend
  <2>7. ASSUME e \in T PROVE Append(os \o v, e) = os \o Append(v, e)
    <3>1. PICK x \in Seq(R) : x = os \o v
      BY ConcatProperties
    <3>2. e \in R
      BY <1>6, <2>7
    <3>3. Append(v, e) = v \o <<e>> /\ Append(x, e) = x \o <<e>>
      BY <3>2, AppendIsConcat
    <3>4. PICK y \in Seq(R) : y = <<e>>
      BY <3>2, Single
    <3>5. os \o (v \o y) = (os \o v) \o y
      BY Regroup, SMTT(30)
    <3> QED BY <3>1, <3>3, <3>4, <3>5
  <2>8. Only(s \o Append(r, e), T) = Only(s, T) \o Only(Append(r, e), T)
    BY <1>2, <2>3, <2>5, <2>6, <2>7
  <2> QED BY <1>1, <2>8, AppendProperties
<1>5. Seq(S) \subseteq Q
  BY <1>3, <1>4, SeqInduction
<1> QED BY <1>1, <1>5

\* The selection of a selection.
LEMMA OnlyTwice ==
    ASSUME NEW S, NEW s \in Seq(S), NEW T, NEW U
    PROVE  Only(Only(s, U), T) = Only(s, T \cap U)
<1>1. PICK Q : Q = {r \in Seq(S) : Only(Only(r, U), T) = Only(r, T \cap U)}
  OBVIOUS
<1>2. <<>> \in Q
  BY <1>1, OnlyEmpty, EmptySeq
<1>3. ASSUME NEW r \in Seq(S), NEW e \in S, r \in Q PROVE Append(r, e) \in Q
  <2>0. PICK R : R = S \cap U /\ Only(r, U) \in Seq(R)
    BY OnlyType
  <2>1. PICK u \in Seq(R) : u = Only(r, U)
    BY <2>0
  <2>2. Only(u, T) = Only(r, T \cap U)
    BY <1>1, <1>3, <2>1
  <2>3. Only(Append(r, e), T \cap U)
            = IF e \in T \cap U THEN Append(Only(r, T \cap U), e) ELSE Only(r, T \cap U)
    BY OnlyAppend
  <2>4. Only(Append(r, e), U) = IF e \in U THEN Append(u, e) ELSE u
    BY <2>1, OnlyAppend
  <2>5. ASSUME e \in U
        PROVE  Only(Append(u, e), T) = IF e \in T THEN Append(Only(u, T), e) ELSE Only(u, T)
    <3>1. e \in R
      BY <2>0, <2>5
    <3> QED BY <3>1, OnlyAppend
  <2>6. Only(Only(Append(r, e), U), T) = Only(Append(r, e), T \cap U)
    <3>1. CASE e \in U /\ e \in T
      BY <2>2, <2>3, <2>4, <2>5, <3>1
    <3>2. CASE e \in U /\ e \notin T
      BY <2>2, <2>3, <2>4, <2>5, <3>2
    <3>3. CASE e \notin U
      BY <2>1, <2>2, <2>3, <2>4, <3>3
    <3> QED BY <3>1, <3>2, <3>3
  <2> QED BY <1>1, <2>6, AppendProperties
<1>4. Seq(S) \subseteq Q
  BY <1>2, <1>3, SeqInduction
<1> QED BY <1>1, <1>4

\* Only what a sequence may have of the set matters.
LEMMA OnlySame ==
    ASSUME NEW S, NEW s \in Seq(S), NEW T, NEW U, \A e \in S : e \in T <=> e \in U
    PROVE  Only(s, T) = Only(s, U)
<1>1. PICK Q : Q = {r \in Seq(S) : Only(r, T) = Only(r, U)}
  OBVIOUS
<1>2. <<>> \in Q
  BY <1>1, OnlyEmpty, EmptySeq
<1>3. ASSUME NEW r \in Seq(S), NEW e \in S, r \in Q PROVE Append(r, e) \in Q
  <2>1. Only(r, T) = Only(r, U)
    BY <1>1, <1>3
  <2>2. /\ Only(Append(r, e), T) = IF e \in T THEN Append(Only(r, T), e) ELSE Only(r, T)
        /\ Only(Append(r, e), U) = IF e \in U THEN Append(Only(r, U), e) ELSE Only(r, U)
    BY OnlyAppend
  <2> QED BY <1>1, <2>1, <2>2, AppendProperties, SMTT(30)
<1>4. Seq(S) \subseteq Q
  BY <1>2, <1>3, SeqInduction
<1> QED BY <1>1, <1>4

LEMMA OnlyNone ==
    ASSUME NEW S, NEW s \in Seq(S), NEW T, S \cap T = {}
    PROVE  Only(s, T) = <<>>
<1>1. Only(s, T) \in Seq({})
  BY OnlyType
<1> QED BY <1>1, EmptySeq, LenProperties, ElementOfSeq

\* Nothing that is in the set is left out.
LEMMA OnlyKeeps ==
    ASSUME NEW S, NEW s \in Seq(S), NEW T, NEW i \in DOMAIN s, s[i] \in T
    PROVE  \E j \in DOMAIN Only(s, T) : Only(s, T)[j] = s[i]
<1>1. PICK Q : Q = {r \in Seq(S) : \A k \in DOMAIN r : r[k] \in T =>
                        \E j \in DOMAIN Only(r, T) : Only(r, T)[j] = r[k]}
  OBVIOUS
<1>2. <<>> \in Q
  BY <1>1, EmptySeq
<1>3. ASSUME NEW r \in Seq(S), NEW e \in S, r \in Q PROVE Append(r, e) \in Q
  <2>1. PICK n \in Nat, a \in Seq(S) : n = Len(r) /\ a = Append(r, e)
    BY LenProperties, AppendProperties
  <2>2. /\ DOMAIN r = 1..n /\ DOMAIN a = 1..(n + 1) /\ a[n + 1] = e
        /\ \A k \in 1..n : a[k] = r[k]
    BY <2>1, AppendProperties, LenProperties
  <2>3. PICK o \in Seq(S \cap T), m \in Nat : o = Only(r, T) /\ m = Len(o) /\ DOMAIN o = 1..m
    BY OnlyType, LenProperties
  <2>4. Only(a, T) = IF e \in T THEN Append(o, e) ELSE o
    BY <2>1, <2>3, OnlyAppend
  <2>5. ASSUME e \in T
        PROVE  /\ DOMAIN Append(o, e) = 1..(m + 1) /\ Append(o, e)[m + 1] = e
               /\ \A j \in 1..m : Append(o, e)[j] = o[j]
    <3>1. e \in S \cap T
      BY <2>5
    <3> QED BY <2>3, <3>1, AppendProperties, LenProperties
  <2>6. ASSUME NEW k \in 1..(n + 1), a[k] \in T
        PROVE  \E j \in DOMAIN Only(a, T) : Only(a, T)[j] = a[k]
    <3>1. CASE k = n + 1
      <4>1. m + 1 \in 1..(m + 1) /\ e \in T
        BY <2>2, <2>6, <3>1
      <4> QED BY <2>2, <2>4, <2>5, <3>1, <4>1
    <3>2. CASE k \in 1..n
      <4>1. PICK j \in 1..m : o[j] = a[k]
        BY <1>1, <1>3, <2>2, <2>3, <2>6, <3>2
      <4>2. j \in 1..(m + 1)
        OBVIOUS
      <4> QED BY <2>3, <2>4, <2>5, <4>1, <4>2
    <3>3. k = n + 1 \/ k \in 1..n
      BY <2>6
    <3> QED BY <3>1, <3>2, <3>3
  <2> QED BY <1>1, <2>1, <2>2, <2>6
<1>4. Seq(S) \subseteq Q
  BY <1>2, <1>3, SeqInduction
<1>5. s \in Q
  BY <1>4
<1> QED BY <1>1, <1>5

\* Selecting from the front.
LEMMA OnlyHead ==
    ASSUME NEW S, NEW s \in Seq(S), s # <<>>, NEW T
    PROVE  Only(s, T) = IF Head(s) \in T THEN <<Head(s)>> \o Only(Tail(s), T) ELSE Only(Tail(s), T)
<1>1. PICK h \in S, t \in Seq(S) : h = Head(s) /\ t = Tail(s)
  BY HeadTailProperties
<1>2. s = <<h>> \o t
  BY <1>1
<1>3. Only(s, T) = Only(<<h>>, T) \o Only(t, T)
  <2>1. PICK y \in Seq(S) : y = <<h>>
    BY Single
  <2>2. Only(y \o t, T) = Only(y, T) \o Only(t, T)
    BY OnlyConcat
  <2> QED BY <1>2, <2>1, <2>2
<1>4. Only(<<h>>, T) = IF h \in T THEN <<h>> ELSE <<>>
  <2>1. <<h>> = Append(<<>>, h) /\ <<>> \in Seq(S)
    BY EmptySeq
  <2>2. Only(Append(<<>>, h), T) = IF h \in T THEN Append(Only(<<>>, T), h) ELSE Only(<<>>, T)
    BY <2>1, OnlyAppend
  <2> QED BY <2>1, <2>2, OnlyEmpty
<1>5. PICK o \in Seq(S \cap T) : o = Only(t, T)
  BY OnlyType
<1>6. <<>> \o o = o
  BY ConcatEmptySeq
<1> QED BY <1>1, <1>3, <1>4, <1>5, <1>6

\* A sequence cut in two.
LEMMA CutInTwo ==
    ASSUME NEW S, NEW s \in Seq(S), NEW n \in 0..Len(s)
    PROVE  /\ SubSeq(s, 1, n) \in Seq(S) /\ SubSeq(s, n + 1, Len(s)) \in Seq(S)
           /\ SubSeq(s, 1, n) \o SubSeq(s, n + 1, Len(s)) = s
<1>1. PICK m \in Nat : m = Len(s) /\ n \in Nat /\ n <= m
  BY LenProperties
<1>2. \A i \in 1..m : s[i] \in S
  BY <1>1, ElementOfSeq
<1>3. (\A i \in 1..n : s[i] \in S) /\ (\A i \in (n + 1)..m : s[i] \in S)
  BY <1>1, <1>2
<1>4. PICK a \in Seq(S) : a = SubSeq(s, 1, n)
  <2>1. SubSeq(s, 1, n) \in Seq(S)
    BY <1>1, <1>3, SubSeqProperties
  <2> QED BY <2>1
<1>5. Len(a) = n /\ \A i \in 1..n : a[i] = s[i]
  <2>1. Len(a) = (IF 1 <= n THEN n - 1 + 1 ELSE 0) /\ \A i \in 1..(n - 1 + 1) : a[i] = s[1 + i - 1]
    BY <1>1, <1>3, <1>4, SubSeqProperties
  <2> QED BY <1>1, <2>1
<1>6. PICK k \in Nat : m = n + k
  <2>1. m - n \in Nat /\ m = n + (m - n)
    BY <1>1
  <2> QED BY <2>1
<1>7. PICK b \in Seq(S) : b = SubSeq(s, n + 1, m)
  <2>1. SubSeq(s, n + 1, m) \in Seq(S)
    BY <1>1, <1>3, SubSeqProperties
  <2> QED BY <2>1
<1>8. Len(b) = k /\ \A i \in 1..k : b[i] = s[n + i]
  <2>1. Len(b) = IF n + 1 <= m THEN m - (n + 1) + 1 ELSE 0
    BY <1>1, <1>3, <1>7, SubSeqProperties
  <2>2. \A i \in 1..(m - (n + 1) + 1) : b[i] = s[(n + 1) + i - 1]
    BY <1>1, <1>3, <1>7, SubSeqProperties
  <2>3. Len(b) = k
    BY <1>6, <2>1
  <2>4. \A i \in 1..k : i \in 1..(m - (n + 1) + 1) /\ (n + 1) + i - 1 = n + i
    BY <1>6
  <2> QED BY <2>2, <2>3, <2>4
<1>9. PICK c \in Seq(S) : c = a \o b
  BY ConcatProperties
<1>10. Len(c) = m /\ \A i \in 1..m : c[i] = IF i <= n THEN a[i] ELSE b[i - n]
  <2>1. /\ Len(c) = Len(a) + Len(b)
        /\ \A i \in 1..Len(a) + Len(b) : c[i] = IF i <= Len(a) THEN a[i] ELSE b[i - Len(a)]
    BY <1>9, ConcatProperties
  <2> QED BY <1>5, <1>6, <1>8, <2>1
<1>11. ASSUME NEW i \in 1..m PROVE c[i] = s[i]
  <2>1. CASE i <= n
    <3>1. i \in 1..n
      BY <2>1
    <3> QED BY <1>5, <1>10, <2>1, <3>1
  <2>2. CASE ~(i <= n)
    <3>1. i - n \in 1..k /\ n + (i - n) = i
      BY <1>6, <2>2
    <3>2. c[i] = b[i - n]
      BY <1>10, <2>2
    <3> QED BY <1>8, <3>1, <3>2
  <2> QED BY <2>1, <2>2
<1>12. c = s
  BY <1>1, <1>9, <1>10, <1>11, SeqEqual
<1> QED BY <1>1, <1>4, <1>7, <1>9, <1>12

\* What follows the first n elements, when more is added.
LEMMA RestOfConcat ==
    ASSUME NEW S, NEW s \in Seq(S), NEW t \in Seq(S), NEW n \in 0..Len(s)
    PROVE  SubSeq(s \o t, n + 1, Len(s \o t)) = SubSeq(s, n + 1, Len(s)) \o t
<1>1. PICK a \in Seq(S), b \in Seq(S) :
        a = SubSeq(s, 1, n) /\ b = SubSeq(s, n + 1, Len(s)) /\ a \o b = s
  <2>1. /\ SubSeq(s, 1, n) \in Seq(S) /\ SubSeq(s, n + 1, Len(s)) \in Seq(S)
        /\ SubSeq(s, 1, n) \o SubSeq(s, n + 1, Len(s)) = s
    BY CutInTwo
  <2> QED BY <2>1
<1>2. a \o (b \o t) = (a \o b) \o t
  BY Regroup, SMTT(30)
<1>3. PICK st \in Seq(S) : st = s \o t /\ Len(st) = Len(s) + Len(t) /\ n \in 0..Len(st)
                        /\ \A i \in 1..n : st[i] = s[i] /\ st[i] \in S /\ s[i] \in S
  <2>1. s \o t \in Seq(S) /\ Len(s \o t) = Len(s) + Len(t)
        /\ \A i \in 1..Len(s) + Len(t) : (s \o t)[i] = IF i <= Len(s) THEN s[i] ELSE t[i - Len(s)]
    BY ConcatProperties
  <2>2. Len(s) \in Nat /\ Len(t) \in Nat /\ n \in Nat /\ n <= Len(s)
    BY LenProperties
  <2>3. n \in 0..(Len(s) + Len(t)) /\ \A i \in 1..n : i \in 1..Len(s) + Len(t) /\ i \in 1..Len(s) /\ i <= Len(s)
    BY <2>2
  <2>4. \A i \in 1..Len(s) : s[i] \in S
    BY ElementOfSeq
  <2> QED BY <2>1, <2>3, <2>4
<1>4. PICK x \in Seq(S), y \in Seq(S) :
        x = SubSeq(st, 1, n) /\ y = SubSeq(st, n + 1, Len(st)) /\ x \o y = st
  <2>0. n \in 0..Len(st)
    BY <1>3
  <2>1. /\ SubSeq(st, 1, n) \in Seq(S) /\ SubSeq(st, n + 1, Len(st)) \in Seq(S)
        /\ SubSeq(st, 1, n) \o SubSeq(st, n + 1, Len(st)) = st
    BY <2>0, CutInTwo
  <2> QED BY <2>1
<1>5. x = a
  <2>1. n \in Nat /\ 1 \in Int /\ n \in Int
    OBVIOUS
  <2>2. Len(x) = (IF 1 <= n THEN n - 1 + 1 ELSE 0) /\ \A i \in 1..(n - 1 + 1) : x[i] = st[1 + i - 1]
    BY <1>3, <1>4, <2>1, SubSeqProperties
  <2>3. Len(a) = (IF 1 <= n THEN n - 1 + 1 ELSE 0) /\ \A i \in 1..(n - 1 + 1) : a[i] = s[1 + i - 1]
    BY <1>1, <1>3, <2>1, SubSeqProperties
  <2>4. Len(x) = n /\ Len(a) = n
    BY <2>1, <2>2, <2>3
  <2>5. \A i \in 1..n : x[i] = a[i]
    BY <1>3, <2>1, <2>2, <2>3
  <2> QED BY <2>4, <2>5, SeqEqual
<1>6. a \o y = (a \o b) \o t
  <2>1. a \o y = st /\ st = s \o t /\ a \o b = s
    BY <1>1, <1>3, <1>4, <1>5
  <2> QED BY <2>1
<1>7. PICK z \in Seq(S) : z = b \o t
  BY ConcatProperties
<1>8. a \o y = a \o z
  BY <1>6, <1>2, <1>7
<1>9. y = z
  <2>1. PICK k \in Nat : k = Len(a)
    BY LenProperties
  <2>2. PICK w \in Seq(S) : w = a \o y /\ w = a \o z
    BY <1>8, ConcatProperties
  <2>3. Len(y) \in Nat /\ Len(z) \in Nat /\ Len(w) = k + Len(y) /\ Len(w) = k + Len(z)
    BY <2>1, <2>2, ConcatProperties, LenProperties
  <2>4. Len(y) = Len(z)
    BY <2>1, <2>3
  <2>5. ASSUME NEW i \in 1..Len(y) PROVE y[i] = z[i]
    <3>1. k + i \in 1..k + Len(y) /\ k + i \in 1..k + Len(z) /\ ~(k + i <= k) /\ (k + i) - k = i
      BY <2>1, <2>3, <2>4, <2>5
    <3>2. \A j \in 1..Len(a) + Len(y) : w[j] = IF j <= Len(a) THEN a[j] ELSE y[j - Len(a)]
      BY <2>2, ConcatProperties, ZenonT(30)
    <3>3. \A j \in 1..Len(a) + Len(z) : w[j] = IF j <= Len(a) THEN a[j] ELSE z[j - Len(a)]
      BY <2>2, ConcatProperties
    <3>4. w[k + i] = y[i] /\ w[k + i] = z[i]
      BY <2>1, <3>1, <3>2, <3>3
    <3> QED BY <3>4
  <2> QED BY <2>4, <2>5, SeqEqual
<1> QED BY <1>1, <1>3, <1>4, <1>7, <1>9

=============================================================================
