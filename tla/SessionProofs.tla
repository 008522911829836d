--------------------------- MODULE SessionProofs ---------------------------
(***************************************************************************)
(* Theorems about Session for every number of handles and of requests,     *)
(* every set of operations and any number of crashes, checked by TLAPS:    *)
(* client and bridge agree on requests, handles and completions.           *)
(***************************************************************************)
EXTENDS Session, FoldLemmas

-----------------------------------------------------------------------------
(* Messages of a sequence, by a set they belong to.                        *)

NoneIn(s, M) == \A k \in 1 .. Len(s) : s[k] \notin M
AtMostOne(s, M) == \A j, k \in 1 .. Len(s) : s[j] \in M /\ s[k] \in M => j = k
\* Each one of B comes after one of A, and none of B after one of A.
Preceded(s, A, B) == \A k \in 1 .. Len(s) : s[k] \in B => \E j \in 1 .. k - 1 : s[j] \in A
NoneAfter(s, A, B) == \A j, k \in 1 .. Len(s) : j < k /\ s[j] \in A => s[k] \notin B

\* A message comes at the end.
LEMMA AppendKeeps ==
    ASSUME NEW X, NEW s \in Seq(X), NEW e \in X
    PROVE  /\ Append(s, e) \in Seq(X) /\ Append(s, e) # <<>>
           /\ \A M : /\ NoneIn(Append(s, e), M) <=> NoneIn(s, M) /\ e \notin M
                     /\ AtMostOne(Append(s, e), M) <=> AtMostOne(s, M) /\ (e \in M => NoneIn(s, M))
           /\ \A A, B : /\ Preceded(s, A, B) /\ (e \in B => ~ NoneIn(s, A)) => Preceded(Append(s, e), A, B)
                        /\ NoneAfter(s, A, B) /\ (e \in B => NoneIn(s, A)) => NoneAfter(Append(s, e), A, B)
<1> DEFINE t == Append(s, e)
<1>1. /\ t \in Seq(X) /\ t # <<>> /\ Len(t) = Len(s) + 1 /\ Len(s) \in Nat
      /\ \A k \in 1 .. Len(s) : t[k] = s[k]
      /\ t[Len(s) + 1] = e
  BY AppendProperties, LenProperties
<1> HIDE DEF t
<1>2. \A k \in 1 .. Len(t) : k \in 1 .. Len(s) \/ k = Len(s) + 1
  BY <1>1
<1>3. Len(s) + 1 \in 1 .. Len(t) /\ \A k \in 1 .. Len(s) : k \in 1 .. Len(t) /\ k < Len(s) + 1
  BY <1>1
<1>4. ASSUME NEW M PROVE NoneIn(t, M) <=> NoneIn(s, M) /\ e \notin M
  BY <1>1, <1>2, <1>3 DEF NoneIn
<1>5. ASSUME NEW M PROVE AtMostOne(t, M) <=> AtMostOne(s, M) /\ (e \in M => NoneIn(s, M))
  <2>1. ASSUME AtMostOne(t, M) PROVE AtMostOne(s, M) /\ (e \in M => NoneIn(s, M))
    <3>1. AtMostOne(s, M)
      BY <1>1, <1>3, <2>1 DEF AtMostOne
    <3>2. ASSUME e \in M, NEW k \in 1 .. Len(s), s[k] \in M PROVE FALSE
      <4>1. k = Len(s) + 1
        BY <1>1, <1>3, <2>1, <3>2 DEF AtMostOne
      <4> QED
        BY <1>3, <4>1, <1>1
    <3> QED
      BY <3>1, <3>2 DEF NoneIn
  <2>2. ASSUME AtMostOne(s, M), e \in M => NoneIn(s, M) PROVE AtMostOne(t, M)
    BY <1>1, <1>2, <2>2 DEF AtMostOne, NoneIn
  <2> QED
    BY <2>1, <2>2
<1>6. ASSUME NEW A, NEW B, Preceded(s, A, B), e \in B => ~ NoneIn(s, A) PROVE Preceded(t, A, B)
  <2> SUFFICES ASSUME NEW k \in 1 .. Len(t), t[k] \in B PROVE \E j \in 1 .. k - 1 : t[j] \in A
    BY DEF Preceded
  <2>1. CASE k \in 1 .. Len(s)
    <3>1. PICK j \in 1 .. k - 1 : s[j] \in A
      BY <1>1, <1>6, <2>1 DEF Preceded
    <3>2. j \in 1 .. Len(s)
      BY <1>1, <2>1
    <3> QED
      BY <1>1, <3>1, <3>2
  <2>2. CASE k = Len(s) + 1
    <3>1. PICK j \in 1 .. Len(s) : s[j] \in A
      BY <1>1, <1>6, <2>2 DEF NoneIn
    <3>2. j \in 1 .. k - 1
      BY <1>1, <2>2
    <3> QED
      BY <1>1, <3>1, <3>2
  <2> QED
    BY <1>2, <2>1, <2>2
<1>7. ASSUME NEW A, NEW B, NoneAfter(s, A, B), e \in B => NoneIn(s, A) PROVE NoneAfter(t, A, B)
  <2> SUFFICES ASSUME NEW j \in 1 .. Len(t), NEW k \in 1 .. Len(t), j < k, t[j] \in A PROVE t[k] \notin B
    BY DEF NoneAfter
  <2>1. j \in 1 .. Len(s)
    BY <1>1
  <2>2. CASE k \in 1 .. Len(s)
    BY <1>1, <1>7, <2>1, <2>2 DEF NoneAfter
  <2>3. CASE k = Len(s) + 1
    BY <1>1, <1>7, <2>1, <2>3 DEF NoneIn
  <2> QED
    BY <1>2, <2>2, <2>3
<1> QED
  BY <1>1, <1>4, <1>5, <1>6, <1>7 DEF t

\* The first message is taken.
LEMMA TailKeeps ==
    ASSUME NEW X, NEW s \in Seq(X), s # <<>>
    PROVE  /\ Tail(s) \in Seq(X) /\ Head(s) \in X
           /\ \A M : /\ NoneIn(s, M) => NoneIn(Tail(s), M) /\ Head(s) \notin M
                     /\ Head(s) \notin M /\ ~ NoneIn(s, M) => ~ NoneIn(Tail(s), M)
                     /\ AtMostOne(s, M) => AtMostOne(Tail(s), M) /\ (Head(s) \in M => NoneIn(Tail(s), M))
           /\ \A A, B : /\ Preceded(s, A, B) => (Head(s) \notin A => Preceded(Tail(s), A, B)) /\ Head(s) \notin B
                        /\ NoneAfter(s, A, B) => /\ NoneAfter(Tail(s), A, B)
                                                 /\ Head(s) \in A => NoneIn(Tail(s), B)
<1> DEFINE t == Tail(s)
<1>1. /\ t \in Seq(X) /\ Head(s) \in X /\ Len(t) = Len(s) - 1 /\ Len(s) \in Nat /\ Len(s) >= 1
      /\ \A k \in 1 .. Len(t) : t[k] = s[k + 1]
      /\ Head(s) = s[1]
  BY HeadTailProperties, LenProperties, EmptySeq
<1> HIDE DEF t
<1>2. 1 \in 1 .. Len(s) /\ \A k \in 1 .. Len(t) : k + 1 \in 1 .. Len(s) /\ k + 1 # 1 /\ 1 < k + 1
  BY <1>1
<1>3. \A k \in 1 .. Len(s) : k # 1 => k - 1 \in 1 .. Len(t) /\ t[k - 1] = s[k]
  <2> SUFFICES ASSUME NEW k \in 1 .. Len(s), k # 1 PROVE k - 1 \in 1 .. Len(t) /\ t[k - 1] = s[k]
    OBVIOUS
  <2>1. k - 1 \in 1 .. Len(t) /\ (k - 1) + 1 = k
    BY <1>1
  <2> QED
    BY <1>1, <2>1
<1>4. ASSUME NEW M, NoneIn(s, M) PROVE NoneIn(t, M) /\ Head(s) \notin M
  BY <1>1, <1>2, <1>4 DEF NoneIn
<1>5. ASSUME NEW M, Head(s) \notin M, ~ NoneIn(s, M) PROVE ~ NoneIn(t, M)
  BY <1>1, <1>3, <1>5 DEF NoneIn
<1>6. ASSUME NEW M, AtMostOne(s, M) PROVE AtMostOne(t, M) /\ (Head(s) \in M => NoneIn(t, M))
  <2>1. ASSUME NEW j \in 1 .. Len(t), NEW k \in 1 .. Len(t), t[j] \in M, t[k] \in M PROVE j = k
    <3>1. j + 1 = k + 1
      BY <1>1, <1>2, <1>6, <2>1 DEF AtMostOne
    <3> QED
      BY <1>1, <3>1
  <2>2. ASSUME NEW k \in 1 .. Len(t), Head(s) \in M, t[k] \in M PROVE FALSE
    BY <1>1, <1>2, <1>6, <2>2 DEF AtMostOne
  <2> QED
    BY <2>1, <2>2 DEF AtMostOne, NoneIn
<1>7. ASSUME NEW A, NEW B, Preceded(s, A, B) PROVE (Head(s) \notin A => Preceded(t, A, B)) /\ Head(s) \notin B
  <2>1. Head(s) \notin B
    BY <1>1, <1>2, <1>7 DEF Preceded
  <2>2. ASSUME Head(s) \notin A, NEW k \in 1 .. Len(t), t[k] \in B PROVE \E j \in 1 .. k - 1 : t[j] \in A
    <3>1. PICK j \in 1 .. (k + 1) - 1 : s[j] \in A
      BY <1>1, <1>2, <1>7, <2>2 DEF Preceded
    <3>2. j # 1 /\ j \in 1 .. Len(s) /\ j - 1 \in 1 .. k - 1
      BY <1>1, <2>2, <3>1
    <3> QED
      BY <1>3, <3>1, <3>2
  <2> QED
    BY <2>1, <2>2 DEF Preceded
<1>8. ASSUME NEW A, NEW B, NoneAfter(s, A, B) PROVE NoneAfter(t, A, B) /\ (Head(s) \in A => NoneIn(t, B))
  <2>1. ASSUME NEW j \in 1 .. Len(t), NEW k \in 1 .. Len(t), j < k, t[j] \in A PROVE t[k] \notin B
    <3>1. j + 1 < k + 1
      BY <1>1, <2>1
    <3> QED
      BY <1>1, <1>2, <1>8, <2>1, <3>1 DEF NoneAfter
  <2>2. ASSUME Head(s) \in A PROVE NoneIn(t, B)
    BY <1>1, <1>2, <1>8, <2>2 DEF NoneAfter, NoneIn
  <2> QED
    BY <2>1, <2>2 DEF NoneAfter
<1> QED
  BY <1>1, <1>4, <1>5, <1>6, <1>7, <1>8 DEF t

\* A message is taken out of the middle.
LEMMA RemoveKeeps ==
    ASSUME NEW X, NEW s \in Seq(X), NEW k \in 1 .. Len(s)
    PROVE  /\ RemoveAt(s, k) \in Seq(X)
           /\ \A M : /\ NoneIn(s, M) => NoneIn(RemoveAt(s, k), M)
                     /\ AtMostOne(s, M) => /\ AtMostOne(RemoveAt(s, k), M)
                                           /\ s[k] \in M => NoneIn(RemoveAt(s, k), M)
<1> DEFINE a == SubSeq(s, 1, k - 1)
           b == SubSeq(s, k + 1, Len(s))
           t == a \o b
           From(j) == IF j < k THEN j ELSE j + 1
<1>1. Len(s) \in Nat /\ k \in Nat /\ \A j \in 1 .. Len(s) : s[j] \in X
  BY LenProperties, ElementOfSeq
<1>2. a \in Seq(X) /\ Len(a) = k - 1 /\ \A j \in 1 .. k - 1 : a[j] = s[j]
  <2>1. \A j \in 1 .. k - 1 : s[j] \in X
    BY <1>1
  <2>2. /\ a \in Seq(X) /\ Len(a) = IF 1 <= k - 1 THEN k - 1 - 1 + 1 ELSE 0
        /\ \A j \in 1 .. k - 1 - 1 + 1 : a[j] = s[1 + j - 1]
    BY <1>1, <2>1, SubSeqProperties
  <2> HIDE DEF a
  <2> QED
    BY <1>1, <2>2
<1>3. b \in Seq(X) /\ Len(b) = Len(s) - k /\ \A j \in 1 .. Len(s) - k : b[j] = s[k + j]
  <2>1. \A j \in k + 1 .. Len(s) : s[j] \in X
    BY <1>1
  <2>2. /\ b \in Seq(X) /\ Len(b) = IF k + 1 <= Len(s) THEN Len(s) - (k + 1) + 1 ELSE 0
        /\ \A j \in 1 .. Len(s) - (k + 1) + 1 : b[j] = s[k + 1 + j - 1]
    BY <1>1, <2>1, SubSeqProperties
  <2> HIDE DEF b
  <2>3. Len(b) = Len(s) - k
    BY <1>1, <2>2
  <2>4. ASSUME NEW j \in 1 .. Len(s) - k PROVE b[j] = s[k + j]
    <3>1. j \in 1 .. Len(s) - (k + 1) + 1 /\ k + 1 + j - 1 = k + j
      BY <1>1
    <3> QED
      BY <2>2, <3>1
  <2> QED
    BY <2>2, <2>3, <2>4
<1> HIDE DEF a, b
<1>4. /\ t \in Seq(X) /\ Len(t) = Len(a) + Len(b)
      /\ \A j \in 1 .. Len(a) + Len(b) : t[j] = IF j <= Len(a) THEN a[j] ELSE b[j - Len(a)]
  BY <1>2, <1>3, ConcatProperties
<1> HIDE DEF t
<1>5. Len(t) = Len(s) - 1
  BY <1>1, <1>2, <1>3, <1>4
<1>6. ASSUME NEW j \in 1 .. Len(t) PROVE From(j) \in 1 .. Len(s) /\ From(j) # k /\ t[j] = s[From(j)]
  <2>1. CASE j < k
    BY SMTT(30), ZenonT(30), <1>1, <1>2, <1>4, <1>5, <2>1
  <2>2. CASE ~ j < k
    <3>1. j - (k - 1) \in 1 .. Len(s) - k /\ k + (j - (k - 1)) = j + 1
      BY <1>1, <1>5, <2>2
    <3>2. t[j] = b[j - (k - 1)]
      BY <1>1, <1>2, <1>4, <1>5, <2>2
    <3> QED
      BY <1>1, <1>3, <1>5, <2>2, <3>1, <3>2
  <2> QED
    BY <2>1, <2>2
<1>7. ASSUME NEW i \in 1 .. Len(t), NEW j \in 1 .. Len(t), From(i) = From(j) PROVE i = j
  BY <1>1, <1>5, <1>7
<1>8. RemoveAt(s, k) = t
  BY DEF RemoveAt, t, a, b
<1> HIDE DEF From
<1>9. ASSUME NEW M, NoneIn(s, M) PROVE NoneIn(t, M)
  BY <1>6, <1>9 DEF NoneIn
<1>10. ASSUME NEW M, AtMostOne(s, M) PROVE AtMostOne(t, M) /\ (s[k] \in M => NoneIn(t, M))
  <2>1. AtMostOne(t, M)
    BY <1>6, <1>7, <1>10 DEF AtMostOne
  <2>2. s[k] \in M => NoneIn(t, M)
    BY <1>6, <1>10 DEF AtMostOne, NoneIn
  <2> QED
    BY <2>1, <2>2
<1> QED
  BY <1>4, <1>8, <1>9, <1>10
\* What one keeps of a sequence.
Kept(s, i) == [k \in DOMAIN s |-> IF s[k].index = i THEN <<>> ELSE <<s[k]>>]

LEMMA KeptAppends ==
    ASSUME NEW X, NEW s \in Seq(X), NEW e \in X, NEW i
    PROVE  /\ Kept(s, i) \in Seq(Seq(X)) /\ Len(Kept(s, i)) = Len(s)
           /\ Kept(Append(s, e), i) = Append(Kept(s, i), IF e.index = i THEN <<>> ELSE <<e>>)
<1> DEFINE last == IF e.index = i THEN <<>> ELSE <<e>>
<1>1. ASSUME NEW r \in Seq(X)
      PROVE  /\ Kept(r, i) \in Seq(Seq(X)) /\ Len(Kept(r, i)) = Len(r)
             /\ \A k \in 1 .. Len(r) : Kept(r, i)[k] = IF r[k].index = i THEN <<>> ELSE <<r[k]>>
  <2>1. DOMAIN r = 1 .. Len(r) /\ Len(r) \in Nat /\ \A k \in 1 .. Len(r) : r[k] \in X
    BY LenProperties, ElementOfSeq
  <2>2. \A x \in X : <<>> \in Seq(X) /\ <<x>> \in Seq(X)
    OBVIOUS
  <2>3. Kept(r, i) \in [1 .. Len(r) -> Seq(X)]
    BY <2>1, <2>2 DEF Kept
  <2>4. Kept(r, i) \in Seq(Seq(X)) /\ Len(Kept(r, i)) = Len(r)
    <3> DEFINE f == Kept(r, i)
    <3> HIDE DEF f
    <3>1. f \in [1 .. Len(r) -> Seq(X)]
      BY <2>3 DEF f
    <3>2. f \in Seq(Seq(X)) /\ Len(f) = Len(r)
      BY <2>1, <3>1
    <3> QED
      BY <3>2 DEF f
  <2> QED
    BY <2>1, <2>4 DEF Kept
<1>2. last \in Seq(X)
  OBVIOUS
<1>3. Append(s, e) \in Seq(X) /\ Len(Append(s, e)) = Len(s) + 1 /\ Len(s) \in Nat
      /\ (\A k \in 1 .. Len(s) : Append(s, e)[k] = s[k]) /\ Append(s, e)[Len(s) + 1] = e
  BY AppendProperties, LenProperties
<1> DEFINE f == Kept(Append(s, e), i)
           g == Append(Kept(s, i), last)
<1>4. /\ f \in Seq(Seq(X)) /\ Len(f) = Len(s) + 1
      /\ \A k \in 1 .. Len(s) : f[k] = IF s[k].index = i THEN <<>> ELSE <<s[k]>>
      /\ f[Len(s) + 1] = last
  <2>1. /\ f \in Seq(Seq(X)) /\ Len(f) = Len(s) + 1
        /\ \A k \in 1 .. Len(s) + 1 : f[k] = IF Append(s, e)[k].index = i THEN <<>> ELSE <<Append(s, e)[k]>>
    BY <1>1, <1>3
  <2> HIDE DEF f
  <2>2. Len(s) + 1 \in 1 .. Len(s) + 1 /\ \A k \in 1 .. Len(s) : k \in 1 .. Len(s) + 1
    BY <1>3
  <2> QED
    BY <1>3, <2>1, <2>2
<1>5. /\ Kept(s, i) \in Seq(Seq(X)) /\ Len(Kept(s, i)) = Len(s)
      /\ \A k \in 1 .. Len(s) : Kept(s, i)[k] = IF s[k].index = i THEN <<>> ELSE <<s[k]>>
  BY <1>1
<1> HIDE DEF f, last
<1>6. /\ g \in Seq(Seq(X)) /\ Len(g) = Len(s) + 1
      /\ \A k \in 1 .. Len(s) : g[k] = Kept(s, i)[k]
      /\ g[Len(s) + 1] = last
  BY <1>2, <1>5, AppendProperties
<1> HIDE DEF g
<1>7. \A k \in 1 .. Len(f) : f[k] = g[k]
  <2> TAKE k \in 1 .. Len(f)
  <2>1. k \in 1 .. Len(s) \/ k = Len(s) + 1
    BY <1>3, <1>4
  <2> QED
    BY <1>4, <1>5, <1>6, <2>1
<1>8. f = g
  BY <1>4, <1>6, <1>7, SeqEqual
<1> QED
  BY <1>5, <1>8 DEF f, g, last

\* Messages of other indexes stay, those of this one go.
LEMMA FilterKeeps ==
    ASSUME NEW X, NEW i
    PROVE  \A s \in Seq(X) :
              /\ FlattenSeq(Kept(s, i)) \in Seq(X)
              /\ \A M : /\ (\A m \in M : m.index = i) => NoneIn(FlattenSeq(Kept(s, i)), M)
                        /\ NoneIn(s, M) => NoneIn(FlattenSeq(Kept(s, i)), M)
                        /\ AtMostOne(s, M) => AtMostOne(FlattenSeq(Kept(s, i)), M)
<1> DEFINE Good(s, t) ==
             /\ t \in Seq(X)
             /\ \A M : /\ (\A m \in M : m.index = i) => NoneIn(t, M)
                       /\ NoneIn(s, M) => NoneIn(t, M)
                       /\ AtMostOne(s, M) => AtMostOne(t, M)
           P == {s \in Seq(X) : Good(s, FlattenSeq(Kept(s, i)))}
<1>1. <<>> \in P
  <2>1. Kept(<<>>, i) = <<>>
    BY EmptySeq DEF Kept
  <2>2. FlattenSeq(Kept(<<>>, i)) = <<>>
    BY <2>1, EmptySeq, FlattenAppends
  <2>3. Good(<<>>, <<>>)
    BY EmptySeq DEF NoneIn, AtMostOne
  <2> QED
    BY <2>2, <2>3, EmptySeq
<1>2. ASSUME NEW s \in Seq(X), NEW e \in X, s \in P PROVE Append(s, e) \in P
  <2> DEFINE t == FlattenSeq(Kept(s, i))
             u == FlattenSeq(Kept(Append(s, e), i))
             last == IF e.index = i THEN <<>> ELSE <<e>>
  <2>1. Append(s, e) \in Seq(X) /\ Good(s, t)
    BY <1>2, AppendProperties
  <2>2. u = t \o last
    <3>1. Kept(s, i) \in Seq(Seq(X)) /\ Kept(Append(s, e), i) = Append(Kept(s, i), last) /\ last \in Seq(X)
      BY KeptAppends
    <3> HIDE DEF last
    <3> QED
      BY <3>1, FlattenAppends
  <2> HIDE DEF t, u
  <2>3. CASE e.index = i
    <3>1. u = t
      BY <2>1, <2>2, <2>3, ConcatEmptySeq
    <3>2. Good(Append(s, e), t)
      BY <2>1, AppendKeeps
    <3> QED
      BY <2>1, <3>1, <3>2 DEF u
  <2>4. CASE e.index # i
    <3>1. u = Append(t, e)
      BY <2>1, <2>2, <2>4, AppendIsConcat
    <3>2. Good(Append(s, e), Append(t, e))
      <4>1. Append(t, e) \in Seq(X)
        BY <2>1, AppendProperties
      <4>2. ASSUME NEW M, \A m \in M : m.index = i PROVE NoneIn(Append(t, e), M)
        <5>1. e \notin M /\ NoneIn(t, M)
          BY <2>1, <2>4, <4>2
        <5> QED
          BY <2>1, <5>1, AppendKeeps
      <4>3. ASSUME NEW M, NoneIn(Append(s, e), M) PROVE NoneIn(Append(t, e), M)
        BY <2>1, <4>3, AppendKeeps
      <4>4. ASSUME NEW M, AtMostOne(Append(s, e), M) PROVE AtMostOne(Append(t, e), M)
        BY <2>1, <4>4, AppendKeeps
      <4> QED
        BY <4>1, <4>2, <4>3, <4>4
    <3> QED
      BY <2>1, <3>1, <3>2 DEF u
  <2> QED
    BY <2>3, <2>4
<1>3. Seq(X) \subseteq P
  <2> HIDE DEF P
  <2> QED
    BY <1>1, <1>2, SequenceInduction
<1> QED
  BY <1>3

\* What the bridge writes: nothing, one message or two.
LEMMA Joined ==
    ASSUME NEW X, NEW s \in Seq(X), NEW a \in X, NEW b \in X
    PROVE  /\ s \o <<>> = s /\ s \o <<a>> = Append(s, a)
           /\ s \o (<<>> \o <<b>>) = Append(s, b)
           /\ s \o (<<a>> \o <<b>>) = Append(Append(s, a), b)
<1>1. /\ s \o <<>> = s /\ s \o <<a>> = Append(s, a) /\ s \o <<b>> = Append(s, b)
      /\ <<>> \o <<b>> = <<b>>
  BY ConcatEmptySeq, AppendIsConcat
<1>2. Append(s, a) \in Seq(X) /\ <<a>> \in Seq(X) /\ <<b>> \in Seq(X)
  BY AppendProperties
<1>3. Append(Append(s, a), b) = Append(s, a) \o <<b>>
  BY <1>2, AppendIsConcat
<1>4. (s \o <<a>>) \o <<b>> = s \o (<<a>> \o <<b>>)
  BY <1>2, ConcatAssociative
<1> QED
  BY <1>1, <1>3, <1>4
-----------------------------------------------------------------------------
(* What the state is made of.                                              *)

Outcomes == {"ok", "error"}
Handles == Ids \cup {NoId}
IndexRecords == [waiter : BOOLEAN, outcome : {"none", "ok", "error"}, emitted : BOOLEAN]
Bridges == [at : {"loop", "awaiting", "releasing", "exiting", "gone"}, index : Handles, id : Nat \cup {NoId}]
RequestFrames == [op : AllRequests, index : Handles, id : Nat]
Responses == [type : {"response"}, id : Nat, status : Outcomes, index : Handles]
Completions == [type : {"event"}, id : {NoId}, status : Outcomes, index : Ids]
Frames == Responses \cup Completions
Clients == [stage : {"idle", "requesting", "awaiting", "closing", "gone"},
            op : AllRequests \cup {"none", "await"}, index : Handles, id : Nat \cup {NoId}]

\* Handles that have been given out.
Given == 0 .. next_index_id - 1

BeamTypes ==
    /\ next_index_id \in 0 .. MaxIndexId + 1
    /\ indexes \in [DOMAIN indexes -> IndexRecords] /\ DOMAIN indexes \subseteq Given
    /\ bridge \in Bridges
    /\ coordinator \in [Ids -> {"none", "running", "finished", "stopping", "gone"}]
    /\ waiter \in [Ids -> {"none", "waiting", "answered", "down", "unheard"}]
    /\ crashes \in Nat

PipeTypes ==
    /\ requests \in Seq(RequestFrames) /\ frames \in Seq(Frames) /\ input_open \in BOOLEAN

ClientTypes ==
    /\ client \in Clients /\ next_request_id \in Nat /\ events \in Seq(Completions)
    /\ held \subseteq Given /\ awaited \subseteq Given /\ released \subseteq Given
    /\ client.stage = "requesting" => client.op \in AllRequests /\ client.id \in Nat
    /\ client.stage = "awaiting" => client.index \in Given

\* An index is complete when its waiter has been heard; a waiter belongs to an
\* index that is not, and has been answered by a traversal that ended or has lost
\* it to a crash; only an index of the bridge is traversed.
IndexesMatch ==
    /\ \A i \in DOMAIN indexes : /\ (indexes[i].emitted <=> ~ indexes[i].waiter)
                                 /\ ~ indexes[i].waiter => indexes[i].outcome \in Outcomes
    /\ \A i \in Ids : waiter[i] # "none" =>
          /\ i \in DOMAIN indexes /\ indexes[i].waiter
          /\ coordinator[i] \in {"running", "finished", "gone"}
          /\ coordinator[i] = "gone" => crashes > 0
          /\ waiter[i] = "answered" => coordinator[i] # "running"
          /\ waiter[i] \in {"down", "unheard"} => coordinator[i] = "gone"
    /\ \A i \in Ids : Running(i) => i \in DOMAIN indexes

\* The bridge waits for an index that it has, and has given up the one it releases.
BridgeWaits ==
    /\ bridge.at \in {"awaiting", "releasing"} => bridge.index \in DOMAIN indexes /\ bridge.id \in Nat
    /\ bridge.at = "awaiting" => indexes[bridge.index].waiter
    /\ bridge.at = "releasing" => ~ Running(bridge.index) /\ waiter[bridge.index] = "none"
    /\ bridge.at = "gone" => DOMAIN indexes = {}

BeamInv == BeamTypes /\ IndexesMatch /\ BridgeWaits

-----------------------------------------------------------------------------
(* What the two sides have said to each other.                             *)

CompletionsOf(i) == [type : {"event"}, id : {NoId}, status : Outcomes, index : {i}]
GoodAnswersFor(i) == [type : {"response"}, id : Nat, status : {"ok"}, index : {i}]

\* What the client waits for.
Expected == {m \in Responses : /\ m.id = client.id
                               /\ client.op \in {"start_scan", "release_index"} /\ m.status = "ok" => m.index \in Ids}
Requesting(op) == client.stage = "requesting" /\ client.op = op
Answered(op, i) == Requesting(op) /\ ~ NoneIn(frames, GoodAnswersFor(i))

\* Whose turn it is: nobody asked, or the request, the bridge or the answer has it.
NobodyAsked == client.stage # "requesting" /\ requests = <<>> /\ bridge.at \notin {"awaiting", "releasing"}
RequestIsOut == /\ client.stage = "requesting" /\ bridge.at \notin {"awaiting", "releasing"}
                /\ requests = <<[op |-> client.op, index |-> client.index, id |-> client.id]>>
                /\ NoneIn(frames, Responses)
BridgeIsBusy == /\ client.stage = "requesting" /\ requests = <<>> /\ NoneIn(frames, Responses)
                /\ bridge.id = client.id
                /\ \/ bridge.at = "awaiting" /\ client.op = "await_scan"
                   \/ bridge.at = "releasing" /\ client.op = "release_index"
AnswerIsOut == /\ client.stage = "requesting" /\ requests = <<>> /\ ~ NoneIn(frames, Responses)
               /\ bridge.at \notin {"awaiting", "releasing"}

AnswersAreExpected ==
    /\ client.stage \notin {"requesting", "gone"} => NoneIn(frames, Responses)
    /\ client.stage = "requesting" => /\ AtMostOne(frames, Responses)
                                      /\ NoneIn(frames, Responses \ Expected)
TurnIsClear ==
    /\ Up => NobodyAsked \/ RequestIsOut \/ BridgeIsBusy \/ AnswerIsOut
    /\ ~ input_open => client.stage \in {"closing", "gone"}
    /\ client.stage = "closing" => client.op = "shutdown"
    /\ bridge.at = "exiting" /\ client.stage # "gone" =>
          client.op = "shutdown" /\ client.stage \in {"requesting", "closing"}
    /\ bridge.at = "exiting" /\ client.stage = "requesting" => AnswerIsOut
TalkInv == result # "protocol" /\ AnswersAreExpected /\ TurnIsClear

\* Nothing has been said of the end of i, or it has, in one place.
Unsaid(i) == NoneIn(frames, CompletionsOf(i)) /\ NoneIn(events, CompletionsOf(i)) /\ i \notin awaited
SaidOnce(i) ==
    \/ AtMostOne(frames, CompletionsOf(i)) /\ NoneIn(events, CompletionsOf(i)) /\ i \notin awaited
    \/ NoneIn(frames, CompletionsOf(i)) /\ AtMostOne(events, CompletionsOf(i)) /\ i \notin awaited
    \/ NoneIn(frames, CompletionsOf(i)) /\ NoneIn(events, CompletionsOf(i))

CompletionsInv ==
    \A i \in Ids :
       /\ SaidOnce(i)
       /\ i \notin Given => Unsaid(i)
       /\ i \in DOMAIN indexes /\ ~ indexes[i].emitted => Unsaid(i)
       /\ i \in released => /\ i \notin DOMAIN indexes
                            /\ NoneIn(frames, CompletionsOf(i)) /\ NoneIn(events, CompletionsOf(i))

\* A completion is true of a traversal that has ended, after a crash if it says so.
UntrueOf(i) == {m \in CompletionsOf(i) : coordinator[i] = "running" \/ (m.status = "error" /\ crashes = 0)}
TruthInv ==
    \A i \in Ids : /\ NoneIn(frames, UntrueOf(i)) /\ NoneIn(events, UntrueOf(i))
                   /\ i \in awaited => coordinator[i] # "running"

\* The bridge has the indexes that the client holds and the one it is about to be
\* told of, but not the one it is about to hear released; nothing is said of an
\* index before its handle is, nor after its release.
HandlesInv ==
    /\ client.stage # "gone" => \A i \in DOMAIN indexes : i \in held \/ Answered("start_scan", i)
    /\ Up /\ bridge.at # "exiting" => \A i \in held : i \in DOMAIN indexes \/ Answered("release_index", i)
    /\ \A i \in Ids \ held :
          \/ NoneIn(frames, CompletionsOf(i))
          \/ Requesting("start_scan") /\ Preceded(frames, GoodAnswersFor(i), CompletionsOf(i))
    /\ \A i \in Ids : Answered("release_index", i) =>
          /\ i \in Given /\ i \notin DOMAIN indexes
          /\ NoneAfter(frames, GoodAnswersFor(i), CompletionsOf(i))
    /\ \A i \in Ids : Answered("start_scan", i) =>
          i \in Given /\ (Up /\ bridge.at # "exiting" => i \in DOMAIN indexes)

Inv == BeamInv /\ PipeTypes /\ ClientTypes /\ TalkInv /\ CompletionsInv /\ TruthInv /\ HandlesInv
-----------------------------------------------------------------------------
(* The bridge and the processes of its traversals.                         *)

\* What a step may do to them: handles are not reused, a completion that was pushed
\* stays so, no traversal starts again, and crashes are not forgotten.
BeamMoves ==
    /\ Given \subseteq Given'
    /\ \A i \in DOMAIN indexes' : \/ i \notin Given
                                  \/ i \in DOMAIN indexes /\ (indexes[i].emitted => indexes'[i].emitted)
    /\ \A i \in Ids : coordinator'[i] = "running" => coordinator[i] = "running" \/ i \notin Given
    /\ crashes > 0 => crashes' > 0

LEMMA BeamInitially == Init => BeamInv
<1> SUFFICES ASSUME Init PROVE BeamInv
  OBVIOUS
<1>1. /\ indexes = <<>> /\ next_index_id = 0 /\ bridge = Loop /\ crashes = 0
      /\ coordinator = [i \in Ids |-> "none"] /\ waiter = [i \in Ids |-> "none"]
  BY DEF Init
<1>2. DOMAIN indexes = {} /\ indexes \in [DOMAIN indexes -> IndexRecords]
  BY <1>1
<1>3. bridge \in Bridges /\ bridge.at = "loop"
  BY <1>1 DEF Loop, Bridges, Handles
<1>4. BeamTypes
  BY <1>1, <1>2, <1>3, IndexIdAssumption DEF BeamTypes
<1> QED
  BY <1>1, <1>2, <1>3, <1>4 DEF BeamInv, IndexesMatch, BridgeWaits, Running

LEMMA BeamSame == BeamInv /\ UNCHANGED <<beam, crashes>> => BeamInv' /\ BeamMoves
BY DEF BeamInv, BeamTypes, IndexesMatch, BridgeWaits, BeamMoves, beam, Given, Running

LEMMA BeamStarts == BeamInv /\ HandleStartScan => BeamInv' /\ BeamMoves
<1> SUFFICES ASSUME BeamInv, HandleStartScan PROVE BeamInv' /\ BeamMoves
  OBVIOUS
<1> DEFINE n == next_index_id
<1>1. bridge.at = "loop" /\ bridge' = bridge /\ crashes' = crashes
  BY DEF HandleStartScan, Asked, faults
<1>2. CASE UNCHANGED <<indexes, next_index_id, coordinator, waiter>>
  BY <1>1, <1>2, BeamSame DEF beam
<1>3. CASE /\ n <= MaxIndexId
           /\ indexes' = [i \in DOMAIN indexes \cup {n} |-> IF i = n THEN NewIndex ELSE indexes[i]]
           /\ next_index_id' = n + 1
           /\ coordinator' = [coordinator EXCEPT ![n] = "running"]
           /\ waiter' = [waiter EXCEPT ![n] = "waiting"]
  <2>1. BeamTypes /\ n \in Ids /\ n \notin Given /\ n \notin DOMAIN indexes
    BY <1>3, IndexIdAssumption DEF BeamInv, BeamTypes, Ids, Given
  <2>2. Given' = Given \cup {n} /\ n + 1 \in 0 .. MaxIndexId + 1
    BY <1>3, <2>1, IndexIdAssumption DEF BeamTypes, Given
  <2>3. /\ DOMAIN indexes' = DOMAIN indexes \cup {n} /\ indexes'[n] = NewIndex
        /\ \A i \in DOMAIN indexes : indexes'[i] = indexes[i]
    BY <1>3, <2>1
  <2>4. /\ coordinator'[n] = "running" /\ waiter'[n] = "waiting"
        /\ \A i \in Ids : i # n => coordinator'[i] = coordinator[i] /\ waiter'[i] = waiter[i]
    BY <1>3, <2>1 DEF BeamTypes
  <2>5. NewIndex \in IndexRecords
    BY DEF NewIndex, IndexRecords
  <2>6. BeamTypes'
    BY <1>1, <1>3, <2>1, <2>2, <2>3, <2>5 DEF BeamTypes
  <2>7. IndexesMatch'
    <3>1. IndexesMatch
      BY DEF BeamInv
    <3>2. ASSUME NEW i \in DOMAIN indexes'
          PROVE  /\ (indexes'[i].emitted <=> ~ indexes'[i].waiter)
                 /\ ~ indexes'[i].waiter => indexes'[i].outcome \in Outcomes
      <4>1. CASE i = n
        BY <2>3, <4>1 DEF NewIndex
      <4>2. CASE i # n
        <5>1. i \in DOMAIN indexes /\ indexes'[i] = indexes[i]
          BY <2>3, <4>2
        <5>2. /\ (indexes[i].emitted <=> ~ indexes[i].waiter)
              /\ ~ indexes[i].waiter => indexes[i].outcome \in Outcomes
          BY <3>1, <5>1, Zenon DEF IndexesMatch
        <5> QED
          BY <5>1, <5>2, Zenon
      <4> QED
        BY <4>1, <4>2
    <3>3. ASSUME NEW i \in Ids, waiter'[i] # "none"
          PROVE  /\ i \in DOMAIN indexes' /\ indexes'[i].waiter
                 /\ coordinator'[i] \in {"running", "finished", "gone"}
                 /\ coordinator'[i] = "gone" => crashes' > 0
                 /\ waiter'[i] = "answered" => coordinator'[i] # "running"
                 /\ waiter'[i] \in {"down", "unheard"} => coordinator'[i] = "gone"
      <4>1. CASE i = n
        BY <2>3, <2>4, <4>1 DEF NewIndex
      <4>2. CASE i # n
        <5>1. waiter[i] # "none" /\ waiter'[i] = waiter[i] /\ coordinator'[i] = coordinator[i]
          BY <2>4, <3>3, <4>2
        <5>2. i \in DOMAIN indexes /\ indexes'[i] = indexes[i]
          BY <2>3, <3>1, <5>1 DEF IndexesMatch
        <5> QED
          BY <1>1, <2>3, <3>1, <5>1, <5>2 DEF IndexesMatch
      <4> QED
        BY <4>1, <4>2
    <3>4. \A i \in Ids : Running(i)' => i \in DOMAIN indexes'
      BY <2>3, <2>4, <3>1 DEF IndexesMatch, Running
    <3> QED
      BY <3>2, <3>3, <3>4 DEF IndexesMatch
  <2>8. BridgeWaits'
    BY <1>1 DEF BridgeWaits
  <2>9. BeamMoves
    BY <1>1, <2>1, <2>2, <2>3, <2>4 DEF BeamMoves
  <2> QED
    BY <2>6, <2>7, <2>8, <2>9 DEF BeamInv
<1> QED
  BY <1>2, <1>3 DEF HandleStartScan, HandlesLeft

\* A waiter is heard, or an index is given back as it was.
LEMMA BeamHears ==
  ASSUME BeamInv, NEW i \in DOMAIN indexes, NEW outcome \in Outcomes,
         indexes' = [indexes EXCEPT ![i] = Heard(outcome)], waiter' = [waiter EXCEPT ![i] = "none"],
         bridge' \in Bridges, bridge'.at = "loop", UNCHANGED <<next_index_id, coordinator, crashes>>
  PROVE  BeamInv' /\ BeamMoves
<1>1. BeamTypes /\ i \in Ids
  BY IndexIdAssumption DEF BeamInv, BeamTypes, Given, Ids
<1>2. Heard(outcome) \in IndexRecords /\ ~ Heard(outcome).waiter /\ Heard(outcome).emitted
      /\ Heard(outcome).outcome = outcome
  BY DEF Heard, IndexRecords, Outcomes
<1>3. /\ DOMAIN indexes' = DOMAIN indexes /\ indexes'[i] = Heard(outcome)
      /\ indexes' \in [DOMAIN indexes -> IndexRecords]
      /\ \A j \in DOMAIN indexes : j # i => indexes'[j] = indexes[j]
  BY <1>1, <1>2 DEF BeamTypes
<1>4. waiter'[i] = "none" /\ \A j \in Ids : j # i => waiter'[j] = waiter[j]
  BY <1>1 DEF BeamTypes
<1>5. BeamTypes'
  BY <1>1, <1>3 DEF BeamTypes, Given
<1>6. IndexesMatch'
  BY <1>1, <1>2, <1>3, <1>4 DEF BeamInv, IndexesMatch, Running
<1>7. BridgeWaits'
  BY DEF BridgeWaits
<1>8. BeamMoves
  BY <1>2, <1>3 DEF BeamMoves, Given
<1> QED
  BY <1>5, <1>6, <1>7, <1>8 DEF BeamInv

LEMMA BeamAwaits == BeamInv /\ PipeTypes /\ HandleAwaitScan => BeamInv' /\ BeamMoves
<1> SUFFICES ASSUME BeamInv, PipeTypes, HandleAwaitScan PROVE BeamInv' /\ BeamMoves
  OBVIOUS
<1> DEFINE i == Head(requests).index
<1>1. UNCHANGED <<next_index_id, coordinator, waiter, crashes>> /\ bridge.at = "loop" /\ requests # <<>>
  BY DEF HandleAwaitScan, Asked, faults
<1>2. Head(requests) \in RequestFrames
  BY <1>1, TailKeeps DEF PipeTypes
<1>3. CASE UNCHANGED <<indexes, bridge>>
  BY <1>1, <1>3, BeamSame DEF beam
<1>4. CASE /\ i \in DOMAIN indexes /\ ~ indexes[i].waiter
           /\ indexes' = [indexes EXCEPT ![i].emitted = TRUE] /\ bridge' = bridge
  <2>1. indexes[i].emitted = TRUE /\ indexes \in [DOMAIN indexes -> IndexRecords]
    BY <1>4 DEF BeamInv, BeamTypes, IndexesMatch
  <2>2. indexes' = indexes
    BY SMTT(10), ZenonT(60), <1>4, <2>1 DEF IndexRecords
  <2> QED
    BY <1>1, <1>4, <2>2, BeamSame DEF beam
<1>5. CASE /\ i \in DOMAIN indexes /\ indexes[i].waiter
           /\ bridge' = [at |-> "awaiting", index |-> i, id |-> Head(requests).id] /\ indexes' = indexes
  <2>1. bridge' \in Bridges /\ bridge'.id \in Nat /\ bridge'.index = i /\ bridge'.at = "awaiting"
    BY <1>2, <1>5 DEF RequestFrames, Bridges
  <2>2. BeamTypes' /\ IndexesMatch' /\ BeamMoves
    BY <1>1, <1>5, <2>1 DEF BeamInv, BeamTypes, IndexesMatch, BeamMoves, Given, Running
  <2> QED
    BY <1>5, <2>1, <2>2 DEF BeamInv, BridgeWaits
<1> QED
  BY <1>3, <1>4, <1>5 DEF HandleAwaitScan

LEMMA BeamReturned == BeamInv /\ (AwaitReturned \/ \E i \in Ids : WaiterReply(i)) => BeamInv' /\ BeamMoves
<1> SUFFICES ASSUME BeamInv, AwaitReturned \/ \E i \in Ids : WaiterReply(i) PROVE BeamInv' /\ BeamMoves
  OBVIOUS
<1>1. CASE AwaitReturned
  <2> DEFINE outcome == IF waiter[bridge.index] = "answered" THEN "ok" ELSE "error"
  <2>1. /\ bridge.at = "awaiting"
        /\ indexes' = [indexes EXCEPT ![bridge.index] = Heard(outcome)]
        /\ waiter' = [waiter EXCEPT ![bridge.index] = "none"]
        /\ bridge' = Loop /\ UNCHANGED <<next_index_id, coordinator, crashes>>
    BY <1>1 DEF AwaitReturned, faults
  <2>2. bridge.index \in DOMAIN indexes /\ outcome \in Outcomes
    BY <2>1 DEF BeamInv, BridgeWaits, Outcomes
  <2> HIDE DEF outcome
  <2>3. bridge' \in Bridges /\ bridge'.at = "loop"
    BY <2>1 DEF Loop, Bridges, Handles
  <2> QED
    BY <2>1, <2>2, <2>3, BeamHears
<1>2. CASE \E i \in Ids : WaiterReply(i)
  <2>1. PICK i \in Ids : WaiterReply(i)
    BY <1>2
  <2>2. /\ bridge.at = "loop" /\ waiter[i] = "answered"
        /\ indexes' = [indexes EXCEPT ![i] = Heard("ok")] /\ waiter' = [waiter EXCEPT ![i] = "none"]
        /\ UNCHANGED <<next_index_id, bridge, coordinator, crashes>>
    BY <2>1 DEF WaiterReply, faults
  <2>3. i \in DOMAIN indexes /\ bridge' \in Bridges /\ "ok" \in Outcomes
    BY <2>2 DEF BeamInv, BeamTypes, IndexesMatch, Outcomes
  <2> QED
    BY <2>2, <2>3, BeamHears
<1> QED
  BY <1>1, <1>2
\* Steps of the bridge after which it only does something else.
LEMMA BeamTurns ==
  ASSUME BeamInv, bridge' \in Bridges, bridge'.at \in {"loop", "exiting"},
         UNCHANGED <<indexes, next_index_id, coordinator, waiter, crashes>>
  PROVE  BeamInv' /\ BeamMoves
<1>1. BeamTypes' /\ IndexesMatch' /\ BeamMoves
  BY DEF BeamInv, BeamTypes, IndexesMatch, BeamMoves, Given, Running
<1>2. BridgeWaits'
  BY DEF BridgeWaits
<1> QED
  BY <1>1, <1>2 DEF BeamInv

\* cleanup_index up to its wait.
LEMMA CleanupBegins ==
  ASSUME BeamInv, NEW i \in DOMAIN indexes, BeginCleanup(i)
  PROVE  /\ coordinator' \in [Ids -> {"none", "running", "finished", "stopping", "gone"}]
         /\ waiter' \in [Ids -> {"none", "waiting", "answered", "down", "unheard"}]
         /\ i \in Ids /\ waiter'[i] = "none" /\ coordinator'[i] \notin {"running", "finished"}
         /\ \A j \in Ids : j # i => waiter'[j] = waiter[j] /\ coordinator'[j] = coordinator[j]
<1>1. i \in Ids
  BY IndexIdAssumption DEF BeamInv, BeamTypes, Given, Ids
<1>2. /\ coordinator \in [Ids -> {"none", "running", "finished", "stopping", "gone"}]
      /\ waiter \in [Ids -> {"none", "waiting", "answered", "down", "unheard"}]
  BY DEF BeamInv, BeamTypes
<1> QED
  BY <1>1, <1>2 DEF BeginCleanup, Running

LEMMA BeamReleases == BeamInv /\ PipeTypes /\ HandleReleaseIndex => BeamInv' /\ BeamMoves
<1> SUFFICES ASSUME BeamInv, PipeTypes, HandleReleaseIndex PROVE BeamInv' /\ BeamMoves
  OBVIOUS
<1> DEFINE i == Head(requests).index
<1>1. UNCHANGED <<indexes, next_index_id, crashes>> /\ bridge.at = "loop" /\ requests # <<>>
  BY DEF HandleReleaseIndex, Asked, faults
<1>2. Head(requests) \in RequestFrames
  BY <1>1, TailKeeps DEF PipeTypes
<1>3. CASE UNCHANGED <<bridge, coordinator, waiter>>
  BY <1>1, <1>3, BeamSame DEF beam
<1>4. CASE /\ i \in DOMAIN indexes /\ BeginCleanup(i)
           /\ bridge' = [at |-> "releasing", index |-> i, id |-> Head(requests).id]
  <2>1. PICK c \in DOMAIN indexes : c = i
    BY <1>4
  <2>2. /\ coordinator' \in [Ids -> {"none", "running", "finished", "stopping", "gone"}]
        /\ waiter' \in [Ids -> {"none", "waiting", "answered", "down", "unheard"}]
        /\ c \in Ids /\ waiter'[c] = "none" /\ coordinator'[c] \notin {"running", "finished"}
        /\ \A j \in Ids : j # c => waiter'[j] = waiter[j] /\ coordinator'[j] = coordinator[j]
    BY <1>4, <2>1, CleanupBegins
  <2>3. bridge' \in Bridges /\ bridge'.id \in Nat /\ bridge'.index = c /\ bridge'.at = "releasing"
    BY <1>2, <1>4, <2>1 DEF RequestFrames, Bridges
  <2>4. BeamTypes'
    BY <1>1, <2>2, <2>3 DEF BeamInv, BeamTypes, Given
  <2>5. IndexesMatch' /\ BeamMoves
    BY <1>1, <2>2 DEF BeamInv, IndexesMatch, BeamMoves, Given, Running
  <2>6. BridgeWaits'
    BY <1>1, <2>2, <2>3 DEF BridgeWaits, Running
  <2> QED
    BY <2>4, <2>5, <2>6 DEF BeamInv
<1> QED
  BY <1>3, <1>4 DEF HandleReleaseIndex

\* An index leaves the bridge, its traversal and its waiter before it or with it.
LEMMA BeamForgets ==
  ASSUME BeamInv, NEW i \in DOMAIN indexes,
         indexes' = [j \in DOMAIN indexes \ {i} |-> indexes[j]],
         coordinator' \in [Ids -> {"none", "running", "finished", "stopping", "gone"}],
         waiter' \in [Ids -> {"none", "waiting", "answered", "down", "unheard"}],
         waiter'[i] = "none", coordinator'[i] \notin {"running", "finished"},
         \A j \in Ids : j # i => waiter'[j] = waiter[j] /\ coordinator'[j] = coordinator[j],
         bridge' \in Bridges, bridge'.at \in {"loop", "exiting"}, UNCHANGED <<next_index_id, crashes>>
  PROVE  BeamInv' /\ BeamMoves
<1>1. BeamTypes /\ IndexesMatch
  BY DEF BeamInv
<1>2. DOMAIN indexes' = DOMAIN indexes \ {i} /\ \A j \in DOMAIN indexes' : indexes'[j] = indexes[j]
  OBVIOUS
<1>3. indexes' \in [DOMAIN indexes' -> IndexRecords]
  BY <1>1, <1>2 DEF BeamTypes
<1>4. BeamTypes'
  BY <1>1, <1>2, <1>3 DEF BeamTypes, Given
<1>5. \A j \in DOMAIN indexes' : /\ indexes'[j].emitted <=> ~ indexes'[j].waiter
                                 /\ ~ indexes'[j].waiter => indexes'[j].outcome \in Outcomes
  BY <1>1, <1>2 DEF IndexesMatch
<1>6. ASSUME NEW j \in Ids, waiter'[j] # "none"
      PROVE  /\ j \in DOMAIN indexes' /\ indexes'[j].waiter
             /\ coordinator'[j] \in {"running", "finished", "gone"}
             /\ coordinator'[j] = "gone" => crashes' > 0
             /\ waiter'[j] = "answered" => coordinator'[j] # "running"
             /\ waiter'[j] \in {"down", "unheard"} => coordinator'[j] = "gone"
  <2>1. j # i /\ waiter'[j] = waiter[j] /\ coordinator'[j] = coordinator[j]
    BY <1>6
  <2>2. j \in DOMAIN indexes
    BY <1>1, <1>6, <2>1 DEF IndexesMatch
  <2>3. j \in DOMAIN indexes' /\ indexes'[j] = indexes[j]
    BY <1>2, <2>1, <2>2
  <2> QED
    BY <1>1, <1>6, <2>1, <2>3 DEF IndexesMatch
<1>7. \A j \in Ids : Running(j)' => j \in DOMAIN indexes'
  BY <1>1, <1>2 DEF IndexesMatch, Running
<1>8. IndexesMatch'
  BY <1>5, <1>6, <1>7 DEF IndexesMatch
<1>9. BridgeWaits'
  BY DEF BridgeWaits
<1>10. BeamMoves
  BY <1>2 DEF BeamMoves, Given
<1> QED
  BY <1>4, <1>8, <1>9, <1>10 DEF BeamInv

LEMMA BeamReleased == BeamInv /\ (Released \/ \E i \in Ids : CleanUp(i)) => BeamInv' /\ BeamMoves
<1> SUFFICES ASSUME BeamInv, Released \/ \E i \in Ids : CleanUp(i) PROVE BeamInv' /\ BeamMoves
  OBVIOUS
<1>1. CASE Released
  <2>1. /\ bridge.at = "releasing" /\ bridge' = Loop
        /\ indexes' = [j \in DOMAIN indexes \ {bridge.index} |-> indexes[j]]
        /\ UNCHANGED <<next_index_id, coordinator, waiter, crashes>>
    BY <1>1 DEF Released, faults
  <2>2. PICK i \in DOMAIN indexes : i = bridge.index
    BY <2>1 DEF BeamInv, BridgeWaits
  <2>3. i \in Ids /\ ~ Running(i)
    BY <2>1, <2>2, IndexIdAssumption DEF BeamInv, BeamTypes, BridgeWaits, Given, Ids
  <2>4. waiter[i] = "none"
    BY <2>1, <2>2 DEF BeamInv, BridgeWaits
  <2>5. bridge' \in Bridges /\ bridge'.at = "loop"
    BY <2>1 DEF Bridges, Handles, Loop
  <2>6. /\ coordinator' \in [Ids -> {"none", "running", "finished", "stopping", "gone"}]
        /\ waiter' \in [Ids -> {"none", "waiting", "answered", "down", "unheard"}]
    BY <2>1 DEF BeamInv, BeamTypes
  <2>7. indexes' = [j \in DOMAIN indexes \ {i} |-> indexes[j]]
    BY <2>1, <2>2
  <2> QED
    BY <2>1, <2>3, <2>4, <2>5, <2>6, <2>7, BeamForgets DEF Running
<1>2. CASE \E i \in Ids : CleanUp(i)
  <2>1. PICK i \in DOMAIN indexes : CleanUp(i)
    BY <1>2 DEF CleanUp
  <2>2. /\ bridge.at = "exiting" /\ BeginCleanup(i) /\ indexes' = [j \in DOMAIN indexes \ {i} |-> indexes[j]]
        /\ UNCHANGED <<next_index_id, bridge, crashes>>
    BY <2>1 DEF CleanUp, faults
  <2>3. bridge \in Bridges
    BY DEF BeamInv, BeamTypes
  <2> QED
    BY <2>2, <2>3, CleanupBegins, BeamForgets
<1> QED
  BY <1>1, <1>2

\* The virtual machine halts.
LEMMA BeamHalts == BeamInv /\ Halt /\ crashes' = crashes => BeamInv' /\ BeamMoves
<1> SUFFICES ASSUME BeamInv, Halt, crashes' = crashes PROVE BeamInv' /\ BeamMoves
  OBVIOUS
<1>1. BeamTypes
  BY DEF BeamInv
<1>2. DOMAIN indexes' = {} /\ indexes' \in [DOMAIN indexes' -> IndexRecords]
  BY DEF Halt
<1>3. bridge' \in Bridges /\ bridge'.at = "gone"
  BY DEF Halt, Gone, Loop, Bridges, Handles
<1>4. /\ coordinator' \in [Ids -> {"none", "running", "finished", "stopping", "gone"}]
      /\ waiter' \in [Ids -> {"none", "waiting", "answered", "down", "unheard"}]
      /\ \A i \in Ids : waiter'[i] = "none" /\ coordinator'[i] \in {"none", "gone"}
  BY DEF Halt
<1>5. BeamTypes'
  BY <1>1, <1>2, <1>3, <1>4 DEF BeamTypes, Halt, Given
<1> QED
  BY <1>2, <1>3, <1>4, <1>5 DEF BeamInv, IndexesMatch, BridgeWaits, BeamMoves, Halt, Given, Running

\* A traversal goes on, and its waiter.
LEMMA BeamTraverses ==
  ASSUME BeamInv, NEW i \in Ids, Traverse(i) \/ Crash(i) \/ WaiterReturns(i) \/ WaiterDown(i)
  PROVE  BeamInv' /\ BeamMoves
<1>1. BeamTypes /\ IndexesMatch /\ BridgeWaits
  BY DEF BeamInv
<1>2. UNCHANGED <<indexes, next_index_id, bridge>>
  BY DEF Traverse, Finish, Terminate, Crash, WaiterReturns, WaiterDown
<1>3. /\ coordinator \in [Ids -> {"none", "running", "finished", "stopping", "gone"}]
      /\ waiter \in [Ids -> {"none", "waiting", "answered", "down", "unheard"}] /\ crashes \in Nat
  BY <1>1 DEF BeamTypes
<1>4. /\ coordinator' \in [Ids -> {"none", "running", "finished", "stopping", "gone"}]
      /\ waiter' \in [Ids -> {"none", "waiting", "answered", "down", "unheard"}] /\ crashes' \in Nat
      /\ \A j \in Ids : j # i => coordinator'[j] = coordinator[j] /\ waiter'[j] = waiter[j]
      /\ crashes > 0 => crashes' > 0
  BY <1>3 DEF Traverse, Finish, Terminate, Crash, WaiterReturns, WaiterDown, faults
<1>5. /\ Running(i)' => Running(i) /\ (coordinator'[i] = "running" => coordinator[i] = "running")
      /\ coordinator[i] # "none" => coordinator'[i] # "none"
  BY <1>3 DEF Traverse, Finish, Terminate, Crash, WaiterReturns, WaiterDown, Running
<1>6. ASSUME waiter'[i] # "none"
      PROVE  /\ waiter[i] # "none"
             /\ coordinator'[i] \in {"running", "finished", "gone"}
             /\ coordinator'[i] = "gone" => crashes' > 0
             /\ waiter'[i] = "answered" => coordinator'[i] # "running"
             /\ waiter'[i] \in {"down", "unheard"} => coordinator'[i] = "gone"
  <2>1. waiter[i] # "none"
    BY <1>3, <1>6 DEF Traverse, Finish, Terminate, Crash, WaiterReturns, WaiterDown
  <2>2. /\ coordinator[i] \in {"running", "finished", "gone"}
        /\ coordinator[i] = "gone" => crashes > 0
        /\ waiter[i] = "answered" => coordinator[i] # "running"
        /\ waiter[i] \in {"down", "unheard"} => coordinator[i] = "gone"
    BY <1>1, <2>1 DEF IndexesMatch
  <2>3. CASE Traverse(i)
    BY <1>3, <2>1, <2>2, <2>3 DEF Traverse, Finish, Terminate, faults
  <2>4. CASE Crash(i)
    BY <1>3, <2>1, <2>2, <2>4 DEF Crash, Running
  <2>5. CASE WaiterReturns(i)
    BY <1>3, <2>1, <2>2, <2>5 DEF WaiterReturns, faults
  <2>6. CASE WaiterDown(i)
    BY <1>3, <2>1, <2>2, <2>6 DEF WaiterDown, faults
  <2> QED
    BY <2>3, <2>4, <2>5, <2>6
<1>7. BeamTypes'
  BY <1>1, <1>2, <1>4 DEF BeamTypes, Given
<1>8. IndexesMatch'
  <2>1. ASSUME NEW j \in Ids, waiter'[j] # "none"
        PROVE  /\ j \in DOMAIN indexes' /\ indexes'[j].waiter
               /\ coordinator'[j] \in {"running", "finished", "gone"}
               /\ coordinator'[j] = "gone" => crashes' > 0
               /\ waiter'[j] = "answered" => coordinator'[j] # "running"
               /\ waiter'[j] \in {"down", "unheard"} => coordinator'[j] = "gone"
    <3>1. CASE j = i
      BY <1>1, <1>2, <1>6, <2>1, <3>1 DEF IndexesMatch
    <3>2. CASE j # i
      <4>1. coordinator'[j] = coordinator[j] /\ waiter'[j] = waiter[j]
        BY <1>4, <3>2
      <4> QED
        BY <1>1, <1>2, <1>4, <2>1, <4>1 DEF IndexesMatch
    <3> QED
      BY <3>1, <3>2
  <2>2. ASSUME NEW j \in Ids, Running(j)' PROVE j \in DOMAIN indexes'
    <3>1. Running(j)
      BY <1>4, <1>5, <2>2 DEF Running
    <3> QED
      BY <1>1, <1>2, <3>1 DEF IndexesMatch
  <2> QED
    BY <1>1, <1>2, <2>1, <2>2 DEF IndexesMatch
<1>9. BridgeWaits'
  <2>1. bridge.at = "releasing" => ~ Running(bridge.index)' /\ waiter'[bridge.index] = "none"
    <3> SUFFICES ASSUME bridge.at = "releasing"
                 PROVE  coordinator'[bridge.index] \notin {"running", "finished"} /\ waiter'[bridge.index] = "none"
      BY <1>2 DEF Running
    <3>1. /\ bridge.index \in Ids /\ coordinator[bridge.index] \notin {"running", "finished"}
          /\ waiter[bridge.index] = "none"
      BY <1>1, IndexIdAssumption DEF BridgeWaits, BeamTypes, Given, Ids, Running
    <3> QED
      BY <1>4, <1>5, <1>6, <3>1 DEF Running
  <2> QED
    BY <1>1, <1>2, <2>1 DEF BridgeWaits, Running
<1>10. BeamMoves
  BY <1>2, <1>4, <1>5 DEF BeamMoves, Given, Running
<1> QED
  BY <1>7, <1>8, <1>9, <1>10 DEF BeamInv

LEMMA BeamStep == BeamInv /\ PipeTypes /\ [Next]_vars => BeamInv' /\ BeamMoves
<1> SUFFICES ASSUME BeamInv, PipeTypes, [Next]_vars PROVE BeamInv' /\ BeamMoves
  OBVIOUS
<1>1. CASE UNCHANGED <<beam, crashes>>
  BY <1>1, BeamSame
<1>2. CASE UNCHANGED vars
  BY <1>1, <1>2 DEF vars, faults
<1>3. CASE HandlePing \/ HandleIndexStatus \/ HandleRead
  BY <1>1, <1>3 DEF HandlePing, HandleIndexStatus, HandleRead, faults
<1>4. CASE HandleShutdown \/ EndOfInput
  <2>1. bridge' = Exiting /\ UNCHANGED <<indexes, next_index_id, coordinator, waiter, crashes>>
    BY <1>4 DEF HandleShutdown, EndOfInput, faults
  <2>2. bridge' \in Bridges /\ bridge'.at = "exiting"
    BY <2>1 DEF Exiting, Loop, Bridges, Handles
  <2> QED
    BY <2>1, <2>2, BeamTurns
<1>5. CASE Exit \/ KillBeam \/ Drop
  BY <1>5, BeamHalts DEF Exit, KillBeam, Drop, faults
<1>6. CASE Read \/ ClientDies
  BY <1>1, <1>6 DEF Read, ReadEvent, ReadResponse, TakeEvent, ReadAwaited, ReadEnd, ReadShutdown,
                    ChildExited, ShutdownFails, ClientDies, faults
<1>7. CASE \/ \E op \in Requests, i \in Ids \cup {NoId} : Request(op, i)
           \/ \E i \in Ids : Await(i)
  BY <1>1, <1>7 DEF Request, Await, faults
<1>8. CASE \E i \in Ids : Traverse(i) \/ Crash(i) \/ WaiterReturns(i) \/ WaiterDown(i)
  BY <1>8, BeamTraverses
<1> QED
  BY <1>2, <1>3, <1>4, <1>5, <1>6, <1>7, <1>8, BeamStarts, BeamAwaits, BeamReturned, BeamReleases, BeamReleased
     DEF Next, Serve
-----------------------------------------------------------------------------
(* The pipes and the client.                                               *)

LEMMA BeamHandles == BeamTypes => DOMAIN indexes \subseteq Given /\ Given \subseteq Ids
BY IndexIdAssumption DEF BeamTypes, Given, Ids

\* The bridge, idle, takes the first request.
Takes == bridge.at = "loop" /\ requests # <<>> /\ requests' = Tail(requests)

LEMMA TakenRequest ==
  ASSUME PipeTypes, Takes
  PROVE  /\ Head(requests) \in RequestFrames /\ requests' \in Seq(RequestFrames)
         /\ Head(requests).index \in Handles /\ Head(requests).id \in Nat
         /\ \A status \in Outcomes, i \in Handles : Response(Head(requests).id, status, i) \in Responses
<1>1. Head(requests) \in RequestFrames /\ requests' \in Seq(RequestFrames)
  BY TailKeeps DEF PipeTypes, Takes
<1> QED
  BY <1>1 DEF Response, Responses, RequestFrames

\* What a step writes to the client, if there is one.
Writes(m) == frames' = IF client.stage = "gone" THEN frames ELSE Append(frames, m)

LEMMA EmitWrites ==
  ASSUME PipeTypes
  PROVE  /\ \A m \in Frames : Emit(<<m>>) => Writes(m)
         /\ \A m, n \in Frames : Emit(<<m>> \o <<n>>) =>
               frames' = IF client.stage = "gone" THEN frames ELSE Append(Append(frames, m), n)
         /\ \A n \in Frames : Emit(<<>> \o <<n>>) => Writes(n)
         /\ Emit(<<>>) => frames' = frames
<1>1. frames \in Seq(Frames)
  BY DEF PipeTypes
<1>2. \A m, n \in Frames : /\ frames \o <<>> = frames /\ frames \o <<m>> = Append(frames, m)
                           /\ frames \o (<<>> \o <<n>>) = Append(frames, n)
                           /\ frames \o (<<m>> \o <<n>>) = Append(Append(frames, m), n)
  <2> SUFFICES ASSUME NEW m \in Frames, NEW n \in Frames
               PROVE  /\ frames \o <<>> = frames /\ frames \o <<m>> = Append(frames, m)
                      /\ frames \o (<<>> \o <<n>>) = Append(frames, n)
                      /\ frames \o (<<m>> \o <<n>>) = Append(Append(frames, m), n)
    OBVIOUS
  <2> QED
    BY <1>1, Joined
<1>3. frames \o <<>> = frames
  BY <1>1, ConcatEmptySeq
<1> QED
  BY <1>2, <1>3 DEF Emit, Writes

\* A request that is answered at once.
AnswersAtOnce == HandlePing \/ HandleStartScan \/ HandleIndexStatus \/ HandleRead \/ HandleShutdown

LEMMA LoopAnswers ==
  ASSUME BeamInv, PipeTypes, AnswersAtOnce
  PROVE  /\ Takes /\ UNCHANGED <<input_open, user, faults>>
         /\ Head(requests).op \notin {"await_scan", "release_index"}
         /\ \/ bridge' = bridge
            \/ bridge' = Exiting /\ Head(requests).op = "shutdown"
         /\ \E status \in Outcomes, i \in Handles :
               /\ Writes(Response(Head(requests).id, status, i))
               /\ \/ /\ Head(requests).op = "start_scan" /\ status = "ok" /\ i = next_index_id /\ i \in Ids
                     /\ next_index_id' = i + 1 /\ DOMAIN indexes' = DOMAIN indexes \cup {i}
                  \/ /\ Head(requests).op # "start_scan" \/ status = "error"
                     /\ UNCHANGED <<indexes, next_index_id>>
<1>1. /\ Takes /\ UNCHANGED <<input_open, user, faults>>
      /\ Head(requests).op \notin {"await_scan", "release_index"}
      /\ \/ bridge' = bridge
         \/ bridge' = Exiting /\ Head(requests).op = "shutdown"
  BY DEF beam, AnswersAtOnce, Takes, HandlePing, HandleStartScan, HandleIndexStatus, HandleRead, HandleShutdown, Asked, Take
<1>2. Head(requests).index \in Handles /\ NoId \in Handles
  BY <1>1, TakenRequest DEF Handles
<1>3. next_index_id <= MaxIndexId => next_index_id \in Handles /\ next_index_id \in Ids
  BY IndexIdAssumption DEF BeamInv, BeamTypes, Handles, Ids
<1> DEFINE Starts(status, i) ==
             /\ Head(requests).op = "start_scan" /\ status = "ok" /\ i = next_index_id /\ i \in Ids
             /\ next_index_id' = i + 1 /\ DOMAIN indexes' = DOMAIN indexes \cup {i}
           Same(status) == /\ Head(requests).op # "start_scan" \/ status = "error"
                           /\ UNCHANGED <<indexes, next_index_id>>
<1>4. \E status \in Outcomes, i \in Handles : Answer(status, i) /\ (Starts(status, i) \/ Same(status))
  <2>1. CASE HandlePing \/ HandleIndexStatus \/ HandleRead \/ HandleShutdown
    <3>1. Head(requests).op # "start_scan" /\ UNCHANGED <<indexes, next_index_id>>
      BY <2>1 DEF HandlePing, HandleIndexStatus, HandleRead, HandleShutdown, Asked, beam
    <3>2. \E status \in Outcomes, i \in Handles : Answer(status, i)
      BY <1>2, <2>1 DEF HandlePing, HandleIndexStatus, HandleRead, HandleShutdown, Outcomes
    <3> QED
      BY <3>1, <3>2
  <2>2. CASE HandleStartScan
    <3>1. CASE Answer("error", NoId) /\ UNCHANGED <<indexes, next_index_id>>
      <4>1. Same("error") /\ "error" \in Outcomes
        BY <3>1 DEF Outcomes
      <4> QED
        BY <1>2, <3>1, <4>1
    <3>2. CASE /\ next_index_id <= MaxIndexId
               /\ indexes' = [i \in DOMAIN indexes \cup {next_index_id} |->
                                 IF i = next_index_id THEN NewIndex ELSE indexes[i]]
               /\ next_index_id' = next_index_id + 1
               /\ Answer("ok", next_index_id)
      <4>1. Starts("ok", next_index_id) /\ "ok" \in Outcomes
        BY <1>3, <2>2, <3>2 DEF Outcomes, HandleStartScan, Asked
      <4> QED
        BY <1>3, <3>2, <4>1
    <3> QED
      BY <2>2, <3>1, <3>2 DEF HandleStartScan, HandlesLeft
  <2> QED
    BY <2>1, <2>2 DEF AnswersAtOnce
<1>5. PICK status \in Outcomes, i \in Handles : Answer(status, i) /\ (Starts(status, i) \/ Same(status))
  BY <1>4
<1>6. Response(Head(requests).id, status, i) \in Frames
  BY <1>1, TakenRequest DEF Frames
<1> QED
  BY <1>1, <1>5, <1>6, EmitWrites DEF Answer, Same, Starts

\* await_scan: answered at once, or not before the waiter is heard.
LEMMA AwaitAnswers ==
  ASSUME BeamInv, PipeTypes, HandleAwaitScan
  PROVE  /\ Takes /\ UNCHANGED <<next_index_id, input_open, user, faults>>
         /\ Head(requests).op = "await_scan" /\ DOMAIN indexes' = DOMAIN indexes
         /\ \/ /\ \E status \in Outcomes, i \in Handles : Writes(Response(Head(requests).id, status, i))
               /\ bridge' = bridge
            \/ /\ frames' = frames /\ Head(requests).index \in DOMAIN indexes
               /\ bridge' = [at |-> "awaiting", index |-> Head(requests).index, id |-> Head(requests).id]
<1> DEFINE i == Head(requests).index
           id == Head(requests).id
<1>1. /\ Takes /\ UNCHANGED <<next_index_id, input_open, user, faults>>
      /\ Head(requests).op = "await_scan" /\ DOMAIN indexes' = DOMAIN indexes
  BY DEF HandleAwaitScan, Takes, Asked, Take
<1>2. i \in Handles /\ \A status \in Outcomes : Response(id, status, i) \in Frames
  BY <1>1, TakenRequest DEF Frames
<1>3. CASE i \notin DOMAIN indexes /\ Answer("error", i) /\ UNCHANGED <<indexes, bridge>>
  BY <1>1, <1>2, <1>3, EmitWrites DEF Answer, Outcomes
<1>4. CASE /\ i \in DOMAIN indexes /\ ~ indexes[i].waiter
           /\ Emit(Completion(indexes[i], i) \o <<Response(id, indexes[i].outcome, i)>>)
           /\ UNCHANGED bridge
  <2>1. indexes[i].emitted /\ indexes[i].outcome \in Outcomes
    BY <1>4 DEF BeamInv, IndexesMatch
  <2>2. Completion(indexes[i], i) = <<>>
    BY <2>1 DEF Completion
  <2>3. Emit(<<>> \o <<Response(id, indexes[i].outcome, i)>>)
    BY <1>4, <2>2
  <2>4. Writes(Response(id, indexes[i].outcome, i))
    BY <1>2, <2>1, <2>3, EmitWrites
  <2> QED
    BY <1>1, <1>2, <1>4, <2>1, <2>4
<1>5. CASE /\ i \in DOMAIN indexes /\ UNCHANGED <<indexes, frames>>
           /\ bridge' = [at |-> "awaiting", index |-> i, id |-> id]
  BY <1>1, <1>5
<1> QED
  BY <1>3, <1>4, <1>5 DEF HandleAwaitScan

\* release_index: refused at once, or answered when the coordinator is gone.
LEMMA ReleaseAnswers ==
  ASSUME PipeTypes, HandleReleaseIndex
  PROVE  /\ Takes /\ UNCHANGED <<indexes, next_index_id, input_open, user, faults>>
         /\ Head(requests).op = "release_index"
         /\ \/ /\ Writes(Response(Head(requests).id, "error", Head(requests).index))
               /\ bridge' = bridge
            \/ /\ frames' = frames /\ Head(requests).index \in DOMAIN indexes
               /\ bridge' = [at |-> "releasing", index |-> Head(requests).index, id |-> Head(requests).id]
<1>1. /\ Takes /\ UNCHANGED <<indexes, next_index_id, input_open, user, faults>>
      /\ Head(requests).op = "release_index"
  BY DEF HandleReleaseIndex, Takes, Asked, Take
<1>2. Response(Head(requests).id, "error", Head(requests).index) \in Frames
  BY <1>1, TakenRequest DEF Frames, Outcomes
<1> QED
  BY <1>1, <1>2, EmitWrites DEF HandleReleaseIndex, Answer

LEMMA ReleaseEnds ==
  ASSUME BeamInv, PipeTypes, Released
  PROVE  /\ bridge.at = "releasing" /\ bridge.index \in DOMAIN indexes /\ bridge.index \in Ids
         /\ bridge' = Loop /\ DOMAIN indexes' = DOMAIN indexes \ {bridge.index}
         /\ Response(bridge.id, "ok", bridge.index) \in Responses /\ Writes(Response(bridge.id, "ok", bridge.index))
         /\ UNCHANGED <<next_index_id, requests, input_open, user, faults>>
<1>1. /\ bridge.at = "releasing" /\ bridge' = Loop /\ DOMAIN indexes' = DOMAIN indexes \ {bridge.index}
      /\ Emit(<<Response(bridge.id, "ok", bridge.index)>>)
      /\ UNCHANGED <<next_index_id, requests, input_open, user, faults>>
  BY DEF Released
<1>2. bridge.index \in DOMAIN indexes /\ bridge.index \in Ids /\ bridge.index \in Handles /\ bridge.id \in Nat
  BY <1>1, BeamHandles DEF BeamInv, BridgeWaits, Handles
<1>3. Response(bridge.id, "ok", bridge.index) \in Responses
  BY <1>2 DEF Response, Responses, Outcomes
<1>4. Writes(Response(bridge.id, "ok", bridge.index))
  BY <1>1, <1>3, EmitWrites DEF Frames
<1> QED
  BY <1>1, <1>2, <1>3, <1>4

\* A waiter is heard: its completion is pushed, for the first time.
Hears(i, outcome) ==
    /\ i \in DOMAIN indexes /\ ~ indexes[i].emitted /\ indexes'[i].emitted
    /\ DOMAIN indexes' = DOMAIN indexes /\ Event(i, outcome) \in Completions
    /\ coordinator[i] # "running" /\ (outcome = "error" => crashes > 0)
    /\ UNCHANGED <<next_index_id, coordinator, requests, input_open, user, faults>>

LEMMA HearingOf ==
  ASSUME BeamInv, NEW i \in DOMAIN indexes, indexes[i].waiter, waiter[i] \in {"answered", "down"},
         NEW outcome, outcome = IF waiter[i] = "answered" THEN "ok" ELSE "error",
         indexes' = [indexes EXCEPT ![i] = Heard(outcome)],
         UNCHANGED <<next_index_id, coordinator, requests, input_open, user, faults>>
  PROVE  /\ Hears(i, outcome)
         /\ Completion([indexes[i] EXCEPT !.outcome = outcome], i) = <<Event(i, outcome)>>
<1>1. i \in Ids /\ i \in Handles /\ outcome \in Outcomes
  BY BeamHandles DEF BeamInv, Handles, Outcomes
<1>2. ~ indexes[i].emitted /\ indexes[i] \in IndexRecords
  BY DEF BeamInv, BeamTypes, IndexesMatch
<1>3. coordinator[i] # "running" /\ (outcome = "error" => crashes > 0)
  BY <1>1 DEF BeamInv, IndexesMatch
<1>4. Heard(outcome).emitted
  BY DEF Heard
<1>5. Event(i, outcome) \in Completions
  BY <1>1 DEF Event, Completions
<1>6. Completion([indexes[i] EXCEPT !.outcome = outcome], i) = <<Event(i, outcome)>>
  <2> DEFINE r == [indexes[i] EXCEPT !.outcome = outcome]
  <2>1. ~ r.emitted /\ r.outcome = outcome
    BY <1>2 DEF IndexRecords
  <2> QED
    BY <2>1 DEF Completion
<1> QED
  BY <1>2, <1>3, <1>4, <1>5, <1>6 DEF Hears

LEMMA AwaitHears ==
  ASSUME BeamInv, PipeTypes, AwaitReturned
  PROVE  \E i \in Ids, outcome \in Outcomes :
            /\ Hears(i, outcome) /\ bridge.at = "awaiting" /\ bridge' = Loop
            /\ Response(bridge.id, outcome, i) \in Responses
            /\ frames' = IF client.stage = "gone" THEN frames
                         ELSE Append(Append(frames, Event(i, outcome)), Response(bridge.id, outcome, i))
<1> DEFINE o == IF waiter[bridge.index] = "answered" THEN "ok" ELSE "error"
<1>1. /\ bridge.at = "awaiting" /\ bridge' = Loop /\ waiter[bridge.index] \in {"answered", "down"}
      /\ Emit(Completion([indexes[bridge.index] EXCEPT !.outcome = o], bridge.index)
                \o <<Response(bridge.id, o, bridge.index)>>)
      /\ indexes' = [indexes EXCEPT ![bridge.index] = Heard(o)]
      /\ UNCHANGED <<next_index_id, coordinator, requests, input_open, user, faults>>
  BY DEF AwaitReturned
<1>2. bridge.index \in DOMAIN indexes /\ bridge.id \in Nat /\ indexes[bridge.index].waiter
  BY <1>1 DEF BeamInv, BridgeWaits
<1>3. PICK i \in DOMAIN indexes : i = bridge.index
  BY <1>2
<1>4. PICK outcome \in Outcomes : outcome = o
  BY DEF Outcomes
<1> HIDE DEF o
<1>5. i \in Ids
  BY BeamHandles DEF BeamInv
<1>6. /\ Hears(i, outcome)
      /\ Completion([indexes[i] EXCEPT !.outcome = outcome], i) = <<Event(i, outcome)>>
  BY <1>1, <1>2, <1>3, <1>4, HearingOf DEF o
<1>7. Response(bridge.id, outcome, i) \in Responses
  BY <1>2, <1>5 DEF Response, Responses, Handles
<1>8. Emit(<<Event(i, outcome)>> \o <<Response(bridge.id, outcome, i)>>)
  BY <1>1, <1>3, <1>4, <1>6
<1>9. frames' = IF client.stage = "gone" THEN frames
                ELSE Append(Append(frames, Event(i, outcome)), Response(bridge.id, outcome, i))
  BY <1>6, <1>7, <1>8, EmitWrites DEF Hears, Frames
<1> QED
  BY <1>1, <1>5, <1>6, <1>7, <1>9

LEMMA ReplyHears ==
  ASSUME BeamInv, PipeTypes, NEW i \in Ids, WaiterReply(i)
  PROVE  Hears(i, "ok") /\ bridge' = bridge /\ bridge.at = "loop" /\ Writes(Event(i, "ok"))
<1>1. /\ bridge.at = "loop" /\ waiter[i] = "answered" /\ bridge' = bridge
      /\ Emit(Completion([indexes[i] EXCEPT !.outcome = "ok"], i))
      /\ indexes' = [indexes EXCEPT ![i] = Heard("ok")]
      /\ UNCHANGED <<next_index_id, coordinator, requests, input_open, user, faults>>
  BY DEF WaiterReply
<1>2. i \in DOMAIN indexes /\ indexes[i].waiter
  BY <1>1 DEF BeamInv, IndexesMatch
<1>3. /\ Hears(i, "ok")
      /\ Completion([indexes[i] EXCEPT !.outcome = "ok"], i) = <<Event(i, "ok")>>
  BY <1>1, <1>2, HearingOf
<1> QED
  BY <1>1, <1>3, EmitWrites DEF Hears, Frames
\* Steps that only write, or lose what was written: neither the events that the
\* client has kept nor what it has used changes.
Quiet ==
    /\ UNCHANGED <<events, awaited, released>>
    /\ \/ frames' = frames \/ frames' = <<>>
       \/ \E r \in Responses : frames' = Append(frames, r)

\* A completion is pushed to a client that is there.
Pushes ==
    /\ client.stage # "gone" /\ UNCHANGED <<events, awaited, released>>
    /\ \E i \in Ids, outcome \in Outcomes :
          /\ Hears(i, outcome)
          /\ \/ frames' = Append(frames, Event(i, outcome))
             \/ \E r \in Responses : frames' = Append(Append(frames, Event(i, outcome)), r)

LEMMA StepsSpeak ==
  ASSUME BeamInv, PipeTypes, [Next]_vars
  PROVE  Quiet \/ Pushes \/ Read
<1>1. ASSUME NEW r \in Responses, Writes(r), UNCHANGED user PROVE Quiet
  BY <1>1 DEF Writes, Quiet, user
<1>2. CASE frames' = frames /\ UNCHANGED <<events, awaited, released>>
  BY <1>2 DEF Quiet
<1>3. CASE UNCHANGED vars
  BY <1>2, <1>3 DEF vars, user
<1>4. CASE AnswersAtOnce
  <2>1. Takes /\ UNCHANGED user /\ \E status \in Outcomes, i \in Handles : Writes(Response(Head(requests).id, status, i))
    BY <1>4, LoopAnswers
  <2> QED
    BY <1>1, <2>1, TakenRequest
<1>5. CASE HandleAwaitScan
  <2>1. /\ Takes /\ UNCHANGED user
        /\ \/ \E status \in Outcomes, i \in Handles : Writes(Response(Head(requests).id, status, i))
           \/ frames' = frames
    BY <1>5, AwaitAnswers
  <2> QED
    BY <1>1, <1>2, <2>1, TakenRequest DEF user
<1>6. CASE HandleReleaseIndex
  <2>1. /\ Takes /\ UNCHANGED user
        /\ \/ Writes(Response(Head(requests).id, "error", Head(requests).index))
           \/ frames' = frames
    BY <1>6, ReleaseAnswers
  <2> QED
    BY <1>1, <1>2, <2>1, TakenRequest DEF user, Outcomes
<1>7. CASE AwaitReturned
  <2>1. PICK i \in Ids, outcome \in Outcomes :
            /\ Hears(i, outcome) /\ Response(bridge.id, outcome, i) \in Responses
            /\ frames' = IF client.stage = "gone" THEN frames
                         ELSE Append(Append(frames, Event(i, outcome)), Response(bridge.id, outcome, i))
    BY <1>7, AwaitHears
  <2>2. UNCHANGED <<events, awaited, released>>
    BY <2>1 DEF Hears, user
  <2> QED
    BY <1>2, <2>1, <2>2 DEF Pushes
<1>8. CASE \E i \in Ids : WaiterReply(i)
  <2>1. PICK i \in Ids : WaiterReply(i)
    BY <1>8
  <2>2. Hears(i, "ok") /\ Writes(Event(i, "ok")) /\ "ok" \in Outcomes
    BY <2>1, ReplyHears DEF Outcomes
  <2>3. UNCHANGED <<events, awaited, released>>
    BY <2>2 DEF Hears, user
  <2> QED
    BY <1>2, <2>2, <2>3 DEF Pushes, Writes
<1>9. CASE Released
  <2>1. /\ Response(bridge.id, "ok", bridge.index) \in Responses /\ Writes(Response(bridge.id, "ok", bridge.index))
        /\ UNCHANGED user
    BY <1>9, ReleaseEnds
  <2> QED
    BY <1>1, <2>1
<1>10. CASE EndOfInput \/ Exit \/ (\E i \in Ids : CleanUp(i)) \/ KillBeam \/ Drop
  BY <1>2, <1>10 DEF EndOfInput, Exit, CleanUp, KillBeam, Drop, user
<1>11. CASE ClientDies
  BY <1>11 DEF ClientDies, Quiet
<1>12. CASE \/ \E op \in Requests, i \in Ids \cup {NoId} : Request(op, i)
            \/ \E i \in Ids : Await(i)
  BY <1>2, <1>12 DEF Request, Await
<1>13. CASE \E i \in Ids : Traverse(i) \/ Crash(i) \/ WaiterReturns(i) \/ WaiterDown(i)
  BY <1>2, <1>13 DEF Traverse, Finish, Terminate, Crash, WaiterReturns, WaiterDown, user
<1> QED
  BY <1>3, <1>4, <1>5, <1>6, <1>7, <1>8, <1>9, <1>10, <1>11, <1>12, <1>13 DEF Next, Serve, AnswersAtOnce

\* A frame that the client reads.
LEMMA FrameRead ==
  ASSUME PipeTypes, frames # <<>>
  PROVE  /\ Head(frames) \in Frames /\ Tail(frames) \in Seq(Frames)
         /\ Head(frames).type = "event" => Head(frames) \in Completions \ Responses
         /\ Head(frames).type # "event" => Head(frames) \in Responses \ Completions
<1>1. Head(frames) \in Frames /\ Tail(frames) \in Seq(Frames)
  BY TailKeeps DEF PipeTypes
<1> QED
  BY <1>1 DEF Frames, Completions, Responses

\* The response that the client reads is the only one, and the one it waits for.
LEMMA ResponseRead ==
  ASSUME PipeTypes, TalkInv, client.stage = "requesting", frames # <<>>, Head(frames).type = "response"
  PROVE  /\ Head(frames) \in Responses /\ Head(frames).id = client.id /\ NoneIn(Tail(frames), Responses)
         /\ \A op, i : Answered(op, i) <=> client.op = op /\ Head(frames) \in GoodAnswersFor(i)
         /\ Head(frames).status = "ok" /\ client.op \in {"start_scan", "release_index"} =>
               Head(frames).index \in Ids /\ Answered(client.op, Head(frames).index)
<1> DEFINE m == Head(frames)
<1>1. frames \in Seq(Frames) /\ m \in Responses
  BY FrameRead DEF PipeTypes, Frames, Completions
<1>2. AtMostOne(frames, Responses) /\ NoneIn(frames, Responses \ Expected)
  BY DEF TalkInv, AnswersAreExpected
<1>3. NoneIn(Tail(frames), Responses)
  BY <1>1, <1>2, TailKeeps
<1>4. m \notin Responses \ Expected
  BY <1>1, <1>2, TailKeeps
<1>5. m \in Expected
  BY <1>1, <1>4
<1>6. ASSUME NEW i PROVE ~ NoneIn(frames, GoodAnswersFor(i)) <=> m \in GoodAnswersFor(i)
  <2>1. m \in GoodAnswersFor(i) => ~ NoneIn(frames, GoodAnswersFor(i))
    BY <1>1, TailKeeps
  <2>2. ASSUME m \notin GoodAnswersFor(i), ~ NoneIn(frames, GoodAnswersFor(i)) PROVE FALSE
    <3>1. ~ NoneIn(Tail(frames), GoodAnswersFor(i))
      BY <1>1, <2>2, TailKeeps
    <3>2. PICK k \in 1 .. Len(Tail(frames)) : Tail(frames)[k] \in GoodAnswersFor(i)
      BY <3>1 DEF NoneIn
    <3>3. Tail(frames)[k] \in Frames
      BY <1>1, TailKeeps, ElementOfSeq
    <3>4. Tail(frames)[k] \in Responses
      BY <3>2, <3>3 DEF GoodAnswersFor, Frames, Completions
    <3> QED
      BY <1>3, <3>2, <3>4 DEF NoneIn
  <2> QED
    BY <2>1, <2>2
<1>7. m.id = client.id
  BY <1>5 DEF Expected
<1>8. ASSUME m.status = "ok", client.op \in {"start_scan", "release_index"}
      PROVE  m.index \in Ids /\ m \in GoodAnswersFor(m.index)
  BY <1>1, <1>5, <1>8 DEF Expected, Responses, GoodAnswersFor
<1> QED
  BY <1>1, <1>3, <1>6, <1>7, <1>8 DEF Answered, Requesting

LEMMA TypesStep ==
  ASSUME BeamInv, BeamInv', PipeTypes, ClientTypes, TalkInv, HandlesInv, [Next]_vars
  PROVE  PipeTypes' /\ ClientTypes'
<1>0. Given \subseteq Given'
  BY BeamStep DEF BeamMoves, PipeTypes
<1>1. frames' \in Seq(Frames)
  <2>1. frames \in Seq(Frames) /\ <<>> \in Seq(Frames) /\ (frames # <<>> => Tail(frames) \in Seq(Frames))
    BY FrameRead DEF PipeTypes
  <2>2. CASE Quiet
    <3>1. CASE \E r \in Responses : frames' = Append(frames, r)
      BY <2>1, <3>1, AppendProperties DEF Frames
    <3> QED
      BY <2>1, <2>2, <3>1 DEF Quiet
  <2>3. CASE Pushes
    <3>1. PICK i \in Ids, outcome \in Outcomes :
             /\ Hears(i, outcome)
             /\ \/ frames' = Append(frames, Event(i, outcome))
                \/ \E r \in Responses : frames' = Append(Append(frames, Event(i, outcome)), r)
      BY <2>3 DEF Pushes
    <3>2. Append(frames, Event(i, outcome)) \in Seq(Frames)
      BY <2>1, <3>1, AppendProperties DEF Hears, Frames
    <3> QED
      BY SMTT(30), ZenonT(30), <3>1, <3>2, AppendProperties DEF Frames
  <2>4. CASE Read
    BY <2>1, <2>4 DEF Read, ReadEvent, ReadResponse, TakeEvent, ReadAwaited, ReadEnd, ReadShutdown,
                      ChildExited, ShutdownFails, ReadFrame
  <2> QED
    BY <2>2, <2>3, <2>4, StepsSpeak
<1>2. requests' \in Seq(RequestFrames) /\ input_open' \in BOOLEAN
  <2>1. requests \in Seq(RequestFrames) /\ input_open \in BOOLEAN
    BY DEF PipeTypes
  <2>2. CASE UNCHANGED <<requests, input_open>>
    BY <2>1, <2>2
  <2>3. CASE Takes /\ input_open' = input_open
    BY <2>1, <2>3, TakenRequest
  <2>4. CASE AnswersAtOnce \/ HandleAwaitScan \/ HandleReleaseIndex
    BY <2>3, <2>4, LoopAnswers, AwaitAnswers, ReleaseAnswers
  <2>5. ASSUME NEW op \in Requests, NEW i \in Ids \cup {NoId}, Request(op, i) PROVE PipeTypes'
    <3>1. [op |-> op, index |-> i, id |-> next_request_id] \in RequestFrames
      BY RequestsAssumption DEF RequestFrames, Handles, ClientTypes
    <3>2. /\ requests' = Append(requests, [op |-> op, index |-> i, id |-> next_request_id])
          /\ input_open' = input_open
      BY <2>5 DEF Request
    <3> QED
      BY <1>1, <2>1, <3>1, <3>2, AppendProperties DEF PipeTypes
  <2>6. CASE Read \/ KillBeam \/ Drop \/ ClientDies
    BY <2>1, <2>6 DEF Read, ReadEvent, ReadResponse, TakeEvent, ReadAwaited, ReadEnd, ReadShutdown,
                      ChildExited, ShutdownFails, KillBeam, Drop, ClientDies
  <2>7. CASE AwaitReturned \/ Released \/ EndOfInput \/ Exit \/ \E i \in Ids : CleanUp(i)
    BY <2>2, <2>7 DEF AwaitReturned, Released, EndOfInput, Exit, CleanUp
  <2>8. CASE \E i \in Ids : WaiterReply(i) \/ WaiterDown(i) \/ Traverse(i) \/ Crash(i) \/ WaiterReturns(i)
    BY <2>2, <2>8 DEF Traverse, Finish, Terminate, Crash, WaiterReturns, WaiterDown, WaiterReply
  <2>9. CASE \E i \in Ids : Await(i)
    BY <2>2, <2>9 DEF Await
  <2> QED
    BY <2>2, <2>4, <2>5, <2>6, <2>7, <2>8, <2>9 DEF Next, Serve, AnswersAtOnce, vars, PipeTypes
<1>3. ClientTypes'
  <2>1. CASE UNCHANGED <<client, next_request_id, events, held, awaited, released>>
    BY <1>0, <2>1 DEF ClientTypes
  <2>2. CASE AnswersAtOnce \/ HandleAwaitScan \/ HandleReleaseIndex
    BY <2>1, <2>2, LoopAnswers, AwaitAnswers, ReleaseAnswers DEF user
  <2>3. CASE \/ AwaitReturned \/ Released \/ EndOfInput \/ Exit \/ \E i \in Ids : CleanUp(i)
             \/ KillBeam
             \/ \E i \in Ids : WaiterReply(i) \/ WaiterDown(i) \/ Traverse(i) \/ Crash(i) \/ WaiterReturns(i)
    BY SMTT(30), ZenonT(30), <2>1, <2>3 DEF AwaitReturned, Released, EndOfInput, Exit, CleanUp, KillBeam, Traverse, Finish, Terminate, Crash,
                      WaiterReturns, WaiterDown, WaiterReply, user
  <2>4. /\ Idle \in Clients /\ Idle.stage = "idle"
        /\ [Idle EXCEPT !.stage = "gone"] \in Clients /\ [Idle EXCEPT !.stage = "gone"].stage = "gone"
    BY DEF Idle, Clients, Handles
  <2>5. CASE Drop \/ ClientDies \/ ShutdownFails \/ ChildExited
    <3>1. Leave(result') /\ UNCHANGED <<next_request_id, events, held, awaited, released>>
      BY <2>5 DEF Drop, ClientDies, ShutdownFails, ChildExited, Leave
    <3> QED
      BY <1>0, <2>4, <3>1 DEF ClientTypes, Leave
  <2>6. ASSUME NEW op \in Requests, NEW i \in Ids \cup {NoId}, Request(op, i) PROVE ClientTypes'
    <3>1. /\ client' = [stage |-> "requesting", op |-> op, index |-> i, id |-> next_request_id]
          /\ next_request_id' = next_request_id + 1 /\ UNCHANGED <<events, held, awaited, released>>
      BY <2>6 DEF Request
    <3>2. /\ client' \in Clients /\ client'.stage = "requesting" /\ client'.op \in AllRequests /\ client'.id \in Nat
      BY <3>1, RequestsAssumption DEF Clients, Handles, ClientTypes
    <3> QED
      BY <1>0, <3>1, <3>2 DEF ClientTypes
  <2>7. ASSUME NEW i \in Ids, Await(i) PROVE ClientTypes'
    <3>1. /\ client' = [stage |-> "awaiting", op |-> "await", index |-> i, id |-> NoId] /\ i \in held
          /\ UNCHANGED <<next_request_id, events, held, awaited, released>>
      BY <2>7 DEF Await
    <3>2. client' \in Clients /\ client'.stage = "awaiting" /\ client'.index \in Given
      BY <3>1 DEF Clients, Handles, ClientTypes
    <3> QED
      BY <1>0, <3>1, <3>2 DEF ClientTypes
  <2>8. CASE ReadEvent
    <3>1. Head(frames) \in Completions /\ UNCHANGED <<client, next_request_id, held, awaited, released>>
          /\ events' = Append(events, Head(frames))
      BY <2>8, FrameRead DEF ReadEvent
    <3>2. events' \in Seq(Completions)
      BY <3>1, AppendProperties DEF ClientTypes
    <3> QED
      BY <1>0, <3>1, <3>2 DEF ClientTypes
  <2>9. CASE TakeEvent
    <3>1. PICK k \in DOMAIN events : events' = RemoveAt(events, k)
      BY <2>9 DEF TakeEvent
    <3>2. events \in Seq(Completions) /\ k \in 1 .. Len(events)
      BY LenProperties DEF ClientTypes
    <3>3. events' \in Seq(Completions)
      BY <3>1, <3>2, RemoveKeeps
    <3>4. /\ client.stage = "awaiting" /\ awaited' = awaited \cup {client.index}
          /\ client' = Idle /\ UNCHANGED <<next_request_id, held, released>>
      BY <2>9 DEF TakeEvent, Return
    <3> QED
      BY <1>0, <2>4, <3>3, <3>4 DEF ClientTypes
  <2>10. CASE ReadResponse
    <3> DEFINE m == Head(frames)
    <3>1. /\ frames # <<>> /\ m.type = "response" /\ client.stage = "requesting"
          /\ UNCHANGED <<next_request_id, awaited>>
      BY <2>10 DEF ReadResponse
    <3>2. /\ m.id = client.id
          /\ m.status = "ok" /\ client.op = "start_scan" => m.index \in Given
          /\ m.status = "ok" /\ client.op = "release_index" => m.index \in Given
      BY <3>1, ResponseRead DEF HandlesInv
    <3>3. /\ client' = Idle
          /\ \/ UNCHANGED <<events, held, released>>
             \/ m.status = "ok" /\ client.op = "start_scan" /\ held' = held \cup {m.index} /\ UNCHANGED <<events, released>>
             \/ /\ m.status = "ok" /\ client.op = "release_index" /\ held' = held \ {m.index}
                /\ events' = WithoutEventsOf(m.index) /\ released' = released \cup {m.index}
      BY <2>10, <3>2 DEF ReadResponse, Return
    <3>4. events' \in Seq(Completions)
      <4>1. events \in Seq(Completions)
        BY DEF ClientTypes
      <4>2. WithoutEventsOf(m.index) \in Seq(Completions)
        BY SMTT(30), ZenonT(30), <4>1, FilterKeeps DEF WithoutEventsOf, Kept
      <4> QED
        BY <3>3, <4>1, <4>2
    <3>5. held' \subseteq Given' /\ released' \subseteq Given'
      BY <1>0, <3>2, <3>3 DEF ClientTypes
    <3> QED
      BY <1>0, <2>4, <3>1, <3>3, <3>4, <3>5 DEF ClientTypes
  <2>11. CASE ReadAwaited
    <3>1. /\ client.stage = "awaiting" /\ awaited' \subseteq awaited \cup {client.index}
          /\ client' = Idle /\ UNCHANGED <<next_request_id, events, held, released>>
      BY <2>11 DEF ReadAwaited, Return
    <3> QED
      BY <1>0, <2>4, <3>1 DEF ClientTypes
  <2>12. CASE ReadEnd
    BY <1>0, <2>4, <2>12 DEF ReadEnd, Return, ClientTypes
  <2>13. CASE ReadShutdown
    <3>1. /\ client' = [client EXCEPT !.stage = "closing"]
          /\ UNCHANGED <<next_request_id, events, held, awaited, released>>
      BY <2>13 DEF ReadShutdown
    <3>2. client' \in Clients /\ client'.stage = "closing"
      BY <3>1 DEF ClientTypes, Clients
    <3> QED
      BY <1>0, <3>1, <3>2 DEF ClientTypes
  <2> QED
    BY <2>1, <2>2, <2>3, <2>5, <2>6, <2>7, <2>8, <2>9, <2>10, <2>11, <2>12, <2>13
       DEF Next, Serve, Read, AnswersAtOnce, vars, user
<1> QED
  BY <1>1, <1>2, <1>3 DEF PipeTypes
-----------------------------------------------------------------------------
(* Completions are pushed once, and are true.                              *)

\* Of what is said of the end of i nothing is added.
SaidBefore(i) ==
    /\ SaidOnce(i)' /\ (Unsaid(i) => Unsaid(i)')
    /\ \A M \in SUBSET CompletionsOf(i) :
          NoneIn(frames, M) /\ NoneIn(events, M) => NoneIn(frames', M) /\ NoneIn(events', M)
    /\ i \in awaited' => i \in awaited \/ ~ NoneIn(frames, CompletionsOf(i)) \/ ~ NoneIn(events, CompletionsOf(i))

\* It is said now, and truly.
SaidNow(i) ==
    /\ SaidOnce(i)' /\ i \in DOMAIN indexes /\ i \in DOMAIN indexes' /\ indexes'[i].emitted /\ i \notin awaited'
    /\ NoneIn(frames', UntrueOf(i)') /\ NoneIn(events', UntrueOf(i)')

LEMMA FewerIn ==
  ASSUME NEW s, NEW M, NEW N, NoneIn(s, M), N \subseteq M
  PROVE  NoneIn(s, N)
BY DEF NoneIn

LEMMA CompletionsStep ==
  ASSUME BeamInv, BeamInv', BeamMoves, ClientTypes, CompletionsInv, TruthInv,
         \A i \in Ids : SaidBefore(i) \/ SaidNow(i),
         \A i \in Ids : i \in released' => \/ i \in released
                                           \/ /\ i \notin DOMAIN indexes
                                              /\ NoneIn(frames', CompletionsOf(i)) /\ NoneIn(events', CompletionsOf(i))
                                              /\ i \in Given
  PROVE  CompletionsInv' /\ TruthInv'
<1>2. ASSUME NEW i \in Ids PROVE CompletionsOf(i)' = CompletionsOf(i) /\ UntrueOf(i) \subseteq CompletionsOf(i)
  BY DEF CompletionsOf, UntrueOf
<1>3. ASSUME NEW i \in Ids
      PROVE  /\ i \notin Given' => Unsaid(i)'
             /\ i \in DOMAIN indexes' /\ ~ indexes'[i].emitted => Unsaid(i)'
  <2>1. CASE SaidBefore(i)
    <3>1. i \notin Given => Unsaid(i)'
      BY <2>1 DEF CompletionsInv, SaidBefore
    <3>2. i \in DOMAIN indexes /\ ~ indexes[i].emitted => Unsaid(i)'
      BY <2>1 DEF CompletionsInv, SaidBefore
    <3>3. i \notin Given' => i \notin Given
      BY DEF BeamMoves
    <3>4. i \in DOMAIN indexes' /\ ~ indexes'[i].emitted => i \notin Given \/ (i \in DOMAIN indexes /\ ~ indexes[i].emitted)
      BY DEF BeamMoves
    <3> QED
      BY <3>1, <3>2, <3>3, <3>4
  <2>2. CASE SaidNow(i)
    <3>1. i \in Given /\ Given \subseteq Given'
      BY <2>2, BeamHandles DEF SaidNow, BeamInv, BeamMoves
    <3> QED
      BY <2>2, <3>1 DEF SaidNow
  <2> QED
    BY <2>1, <2>2
<1>4. ASSUME NEW i \in Ids, i \in released'
      PROVE  i \notin DOMAIN indexes' /\ NoneIn(frames', CompletionsOf(i)) /\ NoneIn(events', CompletionsOf(i))
  <2>1. i \notin DOMAIN indexes /\ i \in Given
    BY <1>4 DEF CompletionsInv, ClientTypes
  <2>2. i \notin DOMAIN indexes'
    BY <2>1 DEF BeamMoves
  <2>3. SaidBefore(i)
    BY <2>1 DEF SaidNow
  <2> QED
    BY <1>4, <2>2, <2>3 DEF CompletionsInv, SaidBefore
<1>5. CompletionsInv'
  BY <1>2, <1>3, <1>4 DEF CompletionsInv, SaidBefore, SaidNow
<1>6. ASSUME NEW i \in Ids
      PROVE  /\ NoneIn(frames', UntrueOf(i)') /\ NoneIn(events', UntrueOf(i)')
             /\ i \in awaited' => coordinator'[i] # "running"
  <2>1. CASE SaidNow(i)
    BY <2>1 DEF SaidNow
  <2>2. CASE SaidBefore(i) /\ i \notin Given
    <3>1. Unsaid(i)'
      BY <2>2 DEF CompletionsInv, SaidBefore
    <3>2. UntrueOf(i)' \subseteq CompletionsOf(i)
      BY DEF UntrueOf, CompletionsOf
    <3> QED
      BY <1>2, <3>1, <3>2, FewerIn DEF Unsaid
  <2>3. CASE SaidBefore(i) /\ i \in Given
    <3>1. /\ coordinator'[i] = "running" => coordinator[i] = "running"
          /\ crashes' = 0 => crashes = 0
      BY <2>3 DEF BeamMoves, BeamInv, BeamTypes
    <3>2. UntrueOf(i)' \subseteq UntrueOf(i) /\ UntrueOf(i) \subseteq CompletionsOf(i)
      BY <3>1 DEF UntrueOf, CompletionsOf
    <3>3. NoneIn(frames, UntrueOf(i)) /\ NoneIn(events, UntrueOf(i))
      BY DEF TruthInv
    <3>4. NoneIn(frames', UntrueOf(i)) /\ NoneIn(events', UntrueOf(i))
      BY <2>3, <3>2, <3>3 DEF SaidBefore
    <3>5. NoneIn(frames', UntrueOf(i)') /\ NoneIn(events', UntrueOf(i)')
      BY <3>2, <3>4, FewerIn
    <3>6. coordinator[i] = "running" => UntrueOf(i) = CompletionsOf(i)
      BY DEF UntrueOf
    <3>7. ASSUME i \in awaited' PROVE coordinator[i] # "running"
      BY <2>3, <3>3, <3>6, <3>7 DEF SaidBefore, TruthInv
    <3> QED
      BY <3>1, <3>5, <3>7
  <2> QED
    BY <2>1, <2>2, <2>3
<1> QED
  BY <1>5, <1>6 DEF TruthInv

\* Nothing is said at all.
LEMMA SilentSays ==
  ASSUME NEW i \in Ids, SaidOnce(i), events' = events, awaited' = awaited,
         \A M \in SUBSET CompletionsOf(i) : /\ NoneIn(frames, M) => NoneIn(frames', M)
                                            /\ AtMostOne(frames, M) => AtMostOne(frames', M)
  PROVE  SaidBefore(i)
<1>1. CompletionsOf(i)' = CompletionsOf(i) /\ CompletionsOf(i) \in SUBSET CompletionsOf(i)
  BY DEF CompletionsOf
<1>2. /\ NoneIn(frames, CompletionsOf(i)) => NoneIn(frames', CompletionsOf(i))
      /\ AtMostOne(frames, CompletionsOf(i)) => AtMostOne(frames', CompletionsOf(i))
  BY <1>1
<1> QED
  BY <1>1, <1>2 DEF SaidBefore, SaidOnce, Unsaid

LEMMA QuietSays ==
  ASSUME PipeTypes, CompletionsInv, Quiet
  PROVE  \A i \in Ids : SaidBefore(i)
<1> SUFFICES ASSUME NEW i \in Ids PROVE SaidBefore(i)
  OBVIOUS
<1>1. ASSUME NEW M \in SUBSET CompletionsOf(i)
      PROVE  /\ NoneIn(frames, M) => NoneIn(frames', M)
             /\ AtMostOne(frames, M) => AtMostOne(frames', M)
  <2>1. CASE frames' = frames
    BY <2>1
  <2>2. CASE frames' = <<>>
    BY <2>2, EmptySeq DEF NoneIn, AtMostOne
  <2>3. ASSUME NEW r \in Responses, frames' = Append(frames, r)
        PROVE  /\ NoneIn(frames, M) => NoneIn(frames', M)
               /\ AtMostOne(frames, M) => AtMostOne(frames', M)
    <3>1. r \notin M /\ r \in Frames /\ frames \in Seq(Frames)
      BY DEF Responses, CompletionsOf, Frames, PipeTypes
    <3> QED
      BY <2>3, <3>1, AppendKeeps
  <2> QED
    BY <2>1, <2>2, <2>3 DEF Quiet
<1> QED
  BY <1>1, SilentSays DEF CompletionsInv, Quiet
LEMMA PushSays ==
  ASSUME BeamInv, PipeTypes, CompletionsInv, TruthInv, Pushes
  PROVE  \A i \in Ids : SaidBefore(i) \/ SaidNow(i)
<1>1. PICK c \in Ids, outcome \in Outcomes :
         /\ Hears(c, outcome)
         /\ \/ frames' = Append(frames, Event(c, outcome))
            \/ \E r \in Responses : frames' = Append(Append(frames, Event(c, outcome)), r)
  BY DEF Pushes
<1> DEFINE e == Event(c, outcome)
           s == Append(frames, e)
<1>2. frames \in Seq(Frames) /\ e \in Frames /\ s \in Seq(Frames)
  BY <1>1, AppendProperties DEF PipeTypes, Hears, Frames
<1>3. UNCHANGED <<events, awaited, coordinator, crashes>>
  BY <1>1 DEF Pushes, Hears, faults
<1>4. ASSUME NEW i \in Ids, NEW M \in SUBSET CompletionsOf(i)
      PROVE  /\ e \notin M /\ NoneIn(frames, M) => NoneIn(frames', M)
             /\ e \notin M /\ AtMostOne(frames, M) => AtMostOne(frames', M)
             /\ NoneIn(frames, M) => AtMostOne(frames', M)
  <2>1. /\ e \notin M /\ NoneIn(frames, M) => NoneIn(s, M)
        /\ e \notin M /\ AtMostOne(frames, M) => AtMostOne(s, M)
        /\ NoneIn(frames, M) => AtMostOne(s, M)
    <3>1. NoneIn(frames, M) => AtMostOne(frames, M)
      BY DEF NoneIn, AtMostOne
    <3> HIDE DEF e
    <3> QED
      BY <1>2, <3>1, AppendKeeps
  <2> HIDE DEF s
  <2>2. CASE frames' = s
    BY <2>1, <2>2
  <2>3. ASSUME NEW r \in Responses, frames' = Append(s, r)
        PROVE  /\ NoneIn(s, M) => NoneIn(frames', M)
               /\ AtMostOne(s, M) => AtMostOne(frames', M)
    <3>1. r \notin M /\ r \in Frames
      BY DEF Responses, CompletionsOf, Frames
    <3> QED
      BY <1>2, <2>3, <3>1, AppendKeeps
  <2> QED
    BY <1>1, <2>1, <2>2, <2>3 DEF s
<1>5. ASSUME NEW i \in Ids, i # c PROVE SaidBefore(i)
  <2>1. \A M \in SUBSET CompletionsOf(i) : e \notin M
    BY <1>5 DEF CompletionsOf, Event
  <2> HIDE DEF e
  <2> QED
    BY <1>3, <1>4, <2>1, SilentSays DEF CompletionsInv
<1>6. SaidNow(c)
  <2>1. Unsaid(c)
    BY <1>1 DEF CompletionsInv, Hears
  <2>2. CompletionsOf(c)' = CompletionsOf(c) /\ CompletionsOf(c) \in SUBSET CompletionsOf(c)
    BY DEF CompletionsOf
  <2>3. AtMostOne(frames', CompletionsOf(c))
    <3> HIDE DEF e
    <3> QED
      BY <1>4, <2>1, <2>2 DEF Unsaid
  <2>4. SaidOnce(c)' /\ c \notin awaited'
    BY <1>3, <2>1, <2>2, <2>3 DEF SaidOnce, Unsaid
  <2> DEFINE U == UntrueOf(c)'
  <2>5. U \subseteq CompletionsOf(c) /\ e \notin U
    BY <1>1, <1>3 DEF UntrueOf, CompletionsOf, Event, Hears
  <2> HIDE DEF U, e
  <2>6. NoneIn(frames, U) /\ NoneIn(events', U)
    BY <1>3, <2>1, <2>5, FewerIn DEF Unsaid
  <2>7. NoneIn(frames', U)
    BY <1>4, <2>5, <2>6
  <2> QED
    BY <1>1, <2>4, <2>6, <2>7 DEF SaidNow, Hears, U
<1> QED
  BY <1>5, <1>6

\* What the client reads it keeps, uses or, as a response, drops.
LEMMA ReadSays ==
  ASSUME BeamInv, PipeTypes, ClientTypes, TalkInv, CompletionsInv, Read
  PROVE  \A i \in Ids : SaidBefore(i)
<1> SUFFICES ASSUME NEW i \in Ids PROVE SaidBefore(i)
  OBVIOUS
<1> DEFINE C == CompletionsOf(i)
           h == Head(frames)
<1>1. SaidOnce(i) /\ C' = C /\ C \in SUBSET C
  BY DEF CompletionsInv, CompletionsOf
<1>2. frames \in Seq(Frames) /\ events \in Seq(Completions)
  BY DEF PipeTypes, ClientTypes
<1>3. ASSUME frames # <<>>, NEW M
      PROVE  /\ NoneIn(frames, M) => NoneIn(Tail(frames), M) /\ h \notin M
             /\ AtMostOne(frames, M) => AtMostOne(Tail(frames), M) /\ (h \in M => NoneIn(Tail(frames), M))
  BY <1>2, <1>3, TailKeeps
<1>4. CASE frames # <<>> /\ frames' = Tail(frames) /\ UNCHANGED <<events, awaited>>
  BY <1>1, <1>3, <1>4, SilentSays
<1>5. CASE UNCHANGED <<frames, events, awaited>>
  BY <1>1, <1>5, SilentSays
<1>6. CASE ReadEnd \/ ReadShutdown \/ ChildExited \/ ShutdownFails
  BY <1>4, <1>5, <1>6 DEF ReadEnd, ReadShutdown, ChildExited, ShutdownFails, ReadFrame
<1>7. CASE ReadEvent
  <2>1. /\ frames # <<>> /\ frames' = Tail(frames) /\ events' = Append(events, h) /\ awaited' = awaited
        /\ h \in Completions
    BY <1>7, FrameRead DEF ReadEvent, ReadFrame
  <2>2. ASSUME NEW M
        PROVE  /\ NoneIn(events, M) /\ NoneIn(frames, M) => NoneIn(events', M) /\ NoneIn(frames', M)
               /\ AtMostOne(events, M) /\ NoneIn(frames, M) => AtMostOne(events', M) /\ NoneIn(frames', M)
               /\ AtMostOne(frames, M) /\ NoneIn(events, M) =>
                     \/ AtMostOne(frames', M) /\ NoneIn(events', M)
                     \/ NoneIn(frames', M) /\ AtMostOne(events', M)
    <3>1. /\ NoneIn(frames, M) => NoneIn(frames', M) /\ h \notin M
          /\ AtMostOne(frames, M) => AtMostOne(frames', M) /\ (h \in M => NoneIn(frames', M))
      BY <1>3, <2>1
    <3>2. /\ NoneIn(events', M) <=> NoneIn(events, M) /\ h \notin M
          /\ AtMostOne(events', M) <=> AtMostOne(events, M) /\ (h \in M => NoneIn(events, M))
      BY <1>2, <2>1, AppendKeeps
    <3>3. NoneIn(events, M) => AtMostOne(events, M)
      BY DEF NoneIn, AtMostOne
    <3> QED
      BY <3>1, <3>2, <3>3
  <2> HIDE DEF C, h
  <2> QED
    BY <1>1, <2>1, <2>2 DEF SaidBefore, SaidOnce, Unsaid, C
<1>8. CASE ReadResponse
  <2>1. /\ frames # <<>> /\ frames' = Tail(frames) /\ awaited' = awaited /\ h \in Responses
        /\ events' = events \/ events' = WithoutEventsOf(h.index)
    BY <1>8, FrameRead DEF ReadResponse, ReadFrame
  <2>2. ASSUME NEW M
        PROVE  /\ NoneIn(events, M) => NoneIn(events', M)
               /\ AtMostOne(events, M) => AtMostOne(events', M)
    <3> DEFINE t == FlattenSeq(Kept(events, h.index))
    <3>1. /\ NoneIn(events, M) => NoneIn(t, M)
          /\ AtMostOne(events, M) => AtMostOne(t, M)
      BY <1>2, FilterKeeps
    <3>2. events' = events \/ events' = t
      BY <2>1 DEF WithoutEventsOf, Kept
    <3> HIDE DEF t
    <3> QED
      BY <3>1, <3>2
  <2> HIDE DEF C, h
  <2> QED
    BY <1>1, <1>3, <2>1, <2>2 DEF SaidBefore, SaidOnce, Unsaid, C
<1>9. CASE TakeEvent
  <2>1. PICK k \in DOMAIN events : /\ events[k].index = client.index /\ events' = RemoveAt(events, k)
                                   /\ awaited' = awaited \cup {client.index} /\ frames' = frames
    BY <1>9 DEF TakeEvent
  <2>2. k \in 1 .. Len(events) /\ events[k] \in Completions
    BY <1>2, LenProperties, ElementOfSeq
  <2>3. ASSUME NEW M
        PROVE  /\ NoneIn(events, M) => NoneIn(events', M)
               /\ AtMostOne(events, M) => AtMostOne(events', M) /\ (events[k] \in M => NoneIn(events', M))
    BY <1>2, <2>1, <2>2, RemoveKeeps
  <2>4. CASE i = client.index
    <3>1. events[k] \in C /\ ~ NoneIn(events, C)
      BY <2>1, <2>2, <2>4 DEF Completions, CompletionsOf, NoneIn
    <3>2. NoneIn(frames, C) /\ AtMostOne(events, C)
      BY <1>1, <3>1 DEF SaidOnce, AtMostOne, NoneIn
    <3> HIDE DEF C
    <3> QED
      BY <1>1, <2>1, <2>3, <3>1, <3>2 DEF SaidBefore, SaidOnce, Unsaid, C
  <2>5. CASE i # client.index
    <3> HIDE DEF C
    <3> QED
      BY <1>1, <2>1, <2>3, <2>5 DEF SaidBefore, SaidOnce, Unsaid, C
  <2> QED
    BY <2>4, <2>5
<1>10. CASE ReadAwaited
  <2>1. /\ frames # <<>> /\ frames' = Tail(frames) /\ events' = events
        /\ \/ awaited' = awaited
           \/ h \in Completions /\ h.index = client.index /\ awaited' = awaited \cup {client.index}
    BY <1>10, FrameRead DEF ReadAwaited, ReadFrame
  <2>2. CASE awaited' = awaited \/ i # client.index
    <3> HIDE DEF C, h
    <3> QED
      BY <1>1, <1>3, <2>1, <2>2 DEF SaidBefore, SaidOnce, Unsaid, C
  <2>3. CASE h \in Completions /\ h.index = client.index /\ awaited' = awaited \cup {client.index} /\ i = client.index
    <3>1. h \in C
      BY <2>3 DEF Completions, CompletionsOf
    <3>2. ~ NoneIn(frames, C)
      BY <1>3, <2>1, <3>1
    <3> HIDE DEF C, h
    <3> QED
      BY <1>1, <1>3, <2>1, <2>3, <3>1, <3>2 DEF SaidBefore, SaidOnce, Unsaid, C
  <2> QED
    BY <2>1, <2>2, <2>3
<1> QED
  BY <1>6, <1>7, <1>8, <1>9, <1>10 DEF Read
-----------------------------------------------------------------------------
(* One request, one answer.                                                *)

\* The request that the bridge takes is the one that the client waits for.
LEMMA TheRequest ==
  ASSUME PipeTypes, TalkInv, Takes, client.stage # "gone"
  PROVE  /\ client.stage = "requesting" /\ Head(requests).op = client.op
         /\ Head(requests).index = client.index /\ Head(requests).id = client.id
         /\ requests' = <<>> /\ NoneIn(frames, Responses)
<1>1. Up /\ requests # <<>> /\ requests' = Tail(requests)
  BY DEF Takes, Up
<1>2. RequestIsOut
  BY <1>1 DEF TalkInv, TurnIsClear, NobodyAsked, BridgeIsBusy, AnswerIsOut
<1>3. requests = <<[op |-> client.op, index |-> client.index, id |-> client.id]>>
  BY <1>2 DEF RequestIsOut
<1>4. Head(requests) = [op |-> client.op, index |-> client.index, id |-> client.id] /\ Tail(requests) = <<>>
  BY <1>3
<1> QED
  BY <1>1, <1>2, <1>4 DEF RequestIsOut

\* To a client that is gone nothing is said.
LEMMA TalkGone ==
  ASSUME TalkInv, client'.stage = "gone", result' # "protocol"
  PROVE  TalkInv'
BY DEF TalkInv, AnswersAreExpected, TurnIsClear, Up

\* The client waits, and the bridge answers.
LEMMA TalkAnswers ==
  ASSUME PipeTypes, TalkInv, client.stage = "requesting", NoneIn(frames, Responses),
         NEW m \in Expected, NEW s \in Seq(Frames), NoneIn(s, Responses), frames' = Append(s, m),
         requests' = <<>>, UNCHANGED <<input_open, client, result>>,
         bridge'.at \in {"loop", "exiting"}, bridge'.at = "exiting" => client.op = "shutdown"
  PROVE  TalkInv'
<1>1. m \in Responses /\ m \in Frames
  BY DEF Expected, Frames
<1>2. Expected' = Expected /\ Responses' = Responses
  BY DEF Expected, Responses
<1>3. AtMostOne(s, Responses) /\ NoneIn(s, Responses \ Expected)
  BY DEF NoneIn, AtMostOne
<1>4. /\ AtMostOne(frames', Responses) /\ NoneIn(frames', Responses \ Expected)
      /\ ~ NoneIn(frames', Responses)
  BY <1>1, <1>3, AppendKeeps
<1>5. AnswersAreExpected'
  BY <1>2, <1>4 DEF AnswersAreExpected
<1>6. AnswerIsOut'
  BY <1>2, <1>4 DEF AnswerIsOut
<1>7. TurnIsClear'
  BY <1>6 DEF TurnIsClear, TalkInv
<1> QED
  BY <1>5, <1>7 DEF TalkInv

\* The bridge takes the request, and is busy with it.
LEMMA TalkTakes ==
  ASSUME PipeTypes, TalkInv, Takes, UNCHANGED <<frames, input_open, client, result>>, bridge'.id = Head(requests).id,
         \/ bridge'.at = "awaiting" /\ Head(requests).op = "await_scan"
         \/ bridge'.at = "releasing" /\ Head(requests).op = "release_index"
  PROVE  TalkInv'
<1>1. CASE client.stage = "gone"
  BY <1>1, TalkGone DEF TalkInv
<1>2. CASE client.stage # "gone"
  <2>1. /\ client.stage = "requesting" /\ Head(requests).op = client.op /\ Head(requests).id = client.id
        /\ requests' = <<>> /\ NoneIn(frames, Responses)
    BY <1>2, TheRequest
  <2>2. BridgeIsBusy'
    BY <2>1 DEF BridgeIsBusy
  <2>3. AnswersAreExpected'
    BY DEF TalkInv, AnswersAreExpected, Expected
  <2> QED
    BY <2>1, <2>2, <2>3 DEF TalkInv, TurnIsClear
<1> QED
  BY <1>1, <1>2

\* Completions come and go between requests and answers.
LEMMA TalkStays ==
  ASSUME PipeTypes, TalkInv, UNCHANGED <<requests, input_open, client, result>>,
         \/ bridge' = bridge \/ bridge'.at = "gone"
         \/ bridge.at = "loop" /\ bridge'.at = "exiting" /\ ~ input_open,
         \/ frames' = frames
         \/ \E e \in Completions : frames' = Append(frames, e)
         \/ frames # <<>> /\ Head(frames) \in Completions /\ frames' = Tail(frames)
  PROVE  TalkInv'
<1>1. Expected' = Expected /\ Responses' = Responses
  BY DEF Expected, Responses
<1>2. ASSUME NEW M \in SUBSET Responses
      PROVE  /\ NoneIn(frames', M) <=> NoneIn(frames, M)
             /\ AtMostOne(frames, M) => AtMostOne(frames', M)
  <2>1. frames \in Seq(Frames) /\ \A e \in Completions : e \in Frames /\ e \notin M
    BY DEF PipeTypes, Frames, Completions, Responses
  <2>2. CASE frames' = frames
    BY <2>2
  <2>3. ASSUME NEW e \in Completions, frames' = Append(frames, e)
        PROVE  /\ NoneIn(frames', M) <=> NoneIn(frames, M)
               /\ AtMostOne(frames, M) => AtMostOne(frames', M)
    BY <2>1, <2>3, AppendKeeps
  <2>4. CASE frames # <<>> /\ Head(frames) \in Completions /\ frames' = Tail(frames)
    BY <2>1, <2>4, TailKeeps
  <2> QED
    BY <2>2, <2>3, <2>4
<1>3. /\ NoneIn(frames', Responses) <=> NoneIn(frames, Responses)
      /\ NoneIn(frames', Responses \ Expected) <=> NoneIn(frames, Responses \ Expected)
      /\ AtMostOne(frames, Responses) => AtMostOne(frames', Responses)
  BY <1>2
<1>4. AnswersAreExpected'
  BY <1>1, <1>3 DEF TalkInv, AnswersAreExpected
<1>5. TurnIsClear'
  BY <1>1, <1>3 DEF TalkInv, TurnIsClear, Up, NobodyAsked, RequestIsOut, BridgeIsBusy, AnswerIsOut
<1> QED
  BY <1>4, <1>5 DEF TalkInv

\* The client has its answer, or gives up, and nobody has asked.
LEMMA TalkEnds ==
  ASSUME TalkInv, client'.stage \in {"idle", "awaiting"}, NoneIn(frames', Responses), input_open, result' # "protocol",
         UNCHANGED <<requests, input_open, bridge>>,
         bridge.at = "gone" \/ (requests = <<>> /\ bridge.at = "loop")
  PROVE  TalkInv'
BY DEF TalkInv, AnswersAreExpected, TurnIsClear, Up, NobodyAsked
LEMMA TalkStep ==
  ASSUME BeamInv, PipeTypes, ClientTypes, TalkInv, [Next]_vars
  PROVE  TalkInv'
<1>1. frames \in Seq(Frames) /\ frames = frames \o <<>>
  BY ConcatEmptySeq DEF PipeTypes
<1>2. ASSUME client.stage = "gone", UNCHANGED <<client, result>> PROVE TalkInv'
  BY <1>2, TalkGone DEF TalkInv
<1>3. ASSUME AnswersAtOnce PROVE TalkInv'
  <2>1. PICK status \in Outcomes, i \in Handles :
               /\ Writes(Response(Head(requests).id, status, i))
               /\ \/ Head(requests).op = "start_scan" /\ status = "ok" /\ i \in Ids
                  \/ Head(requests).op # "start_scan" \/ status = "error"
    BY <1>3, LoopAnswers
  <2> DEFINE m == Response(Head(requests).id, status, i)
  <2>2. /\ Takes /\ UNCHANGED <<input_open, client, result>>
        /\ Head(requests).op \notin {"await_scan", "release_index"}
        /\ bridge' = bridge \/ (bridge' = Exiting /\ Head(requests).op = "shutdown")
    BY <1>3, LoopAnswers DEF user
  <2>3. CASE client.stage # "gone"
    <3>1. /\ client.stage = "requesting" /\ Head(requests).op = client.op /\ Head(requests).id = client.id
          /\ requests' = <<>> /\ NoneIn(frames, Responses)
      BY <2>2, <2>3, TheRequest
    <3>2. m \in Responses
      BY <2>2, TakenRequest
    <3>3. m \in Expected
      BY <2>1, <2>2, <3>1, <3>2 DEF Expected, Response, Outcomes
    <3>4. bridge'.at \in {"loop", "exiting"} /\ (bridge'.at = "exiting" => client.op = "shutdown")
      BY <2>2, <3>1 DEF Takes, Exiting, Loop
    <3>5. frames' = Append(frames, m)
      BY <2>1, <2>3 DEF Writes
    <3> HIDE DEF m
    <3> QED
      BY <1>1, <2>2, <3>1, <3>3, <3>4, <3>5, TalkAnswers
  <2> QED
    BY <1>2, <2>2, <2>3
<1>4. ASSUME HandleAwaitScan PROVE TalkInv'
  <2>1. Takes /\ Head(requests).op = "await_scan" /\ UNCHANGED <<input_open, client, result>>
    BY <1>4, AwaitAnswers DEF user
  <2>2. ASSUME NEW status \in Outcomes, NEW i \in Handles, client.stage # "gone",
               Writes(Response(Head(requests).id, status, i)), bridge' = bridge
        PROVE  TalkInv'
    <3> DEFINE m == Response(Head(requests).id, status, i)
    <3>1. /\ client.stage = "requesting" /\ Head(requests).op = client.op /\ Head(requests).id = client.id
          /\ requests' = <<>> /\ NoneIn(frames, Responses)
      BY <2>1, <2>2, TheRequest
    <3>2. m \in Responses
      BY <2>1, TakenRequest
    <3>3. m \in Expected
      BY <2>1, <3>1, <3>2 DEF Expected, Response
    <3>4. frames' = Append(frames, m) /\ bridge'.at = "loop"
      BY <2>1, <2>2 DEF Writes, Takes
    <3> HIDE DEF m
    <3> QED
      BY <1>1, <2>1, <3>1, <3>3, <3>4, TalkAnswers
  <2>3. CASE /\ frames' = frames
             /\ bridge' = [at |-> "awaiting", index |-> Head(requests).index, id |-> Head(requests).id]
    <3>1. bridge'.at = "awaiting" /\ bridge'.id = Head(requests).id
      BY <2>3
    <3> QED
      BY <2>1, <2>3, <3>1, TalkTakes
  <2> QED
    BY <1>2, <1>4, <2>1, <2>2, <2>3, AwaitAnswers
<1>5. ASSUME HandleReleaseIndex PROVE TalkInv'
  <2>1. Takes /\ Head(requests).op = "release_index" /\ UNCHANGED <<input_open, client, result>>
    BY <1>5, ReleaseAnswers DEF user
  <2>2. ASSUME client.stage # "gone", Writes(Response(Head(requests).id, "error", Head(requests).index)), bridge' = bridge
        PROVE  TalkInv'
    <3> DEFINE m == Response(Head(requests).id, "error", Head(requests).index)
    <3>1. /\ client.stage = "requesting" /\ Head(requests).op = client.op /\ Head(requests).id = client.id
          /\ requests' = <<>> /\ NoneIn(frames, Responses)
      BY <2>1, <2>2, TheRequest
    <3>2. m \in Responses
      BY <2>1, TakenRequest DEF Outcomes
    <3>3. m \in Expected
      BY <2>1, <3>1, <3>2 DEF Expected, Response
    <3>4. frames' = Append(frames, m) /\ bridge'.at = "loop"
      BY <2>1, <2>2 DEF Writes, Takes
    <3> HIDE DEF m
    <3> QED
      BY <1>1, <2>1, <3>1, <3>3, <3>4, TalkAnswers
  <2>3. CASE /\ frames' = frames
             /\ bridge' = [at |-> "releasing", index |-> Head(requests).index, id |-> Head(requests).id]
    <3>1. bridge'.at = "releasing" /\ bridge'.id = Head(requests).id
      BY <2>3
    <3> QED
      BY <2>1, <2>3, <3>1, TalkTakes
  <2> QED
    BY <1>2, <1>5, <2>1, <2>2, <2>3, ReleaseAnswers
<1>6. ASSUME bridge.at \in {"awaiting", "releasing"}, client.stage # "gone"
      PROVE  BridgeIsBusy
  BY <1>6 DEF TalkInv, TurnIsClear, Up, NobodyAsked, RequestIsOut, AnswerIsOut
<1>7. ASSUME AwaitReturned PROVE TalkInv'
  <2>1. PICK i \in Ids, outcome \in Outcomes :
            /\ Hears(i, outcome) /\ bridge.at = "awaiting" /\ bridge' = Loop
            /\ Response(bridge.id, outcome, i) \in Responses
            /\ frames' = IF client.stage = "gone" THEN frames
                         ELSE Append(Append(frames, Event(i, outcome)), Response(bridge.id, outcome, i))
    BY <1>7, AwaitHears
  <2>2. UNCHANGED <<requests, input_open, client, result>>
    BY <2>1 DEF Hears, user
  <2>3. CASE client.stage # "gone"
    <3> DEFINE m == Response(bridge.id, outcome, i)
               s == Append(frames, Event(i, outcome))
    <3>1. /\ client.stage = "requesting" /\ client.op = "await_scan" /\ bridge.id = client.id
          /\ requests = <<>> /\ NoneIn(frames, Responses)
      BY <1>6, <2>1, <2>3 DEF BridgeIsBusy
    <3>2. m \in Expected
      BY <2>1, <3>1 DEF Expected, Response
    <3>3. Event(i, outcome) \in Frames /\ Event(i, outcome) \notin Responses
      BY <2>1 DEF Hears, Frames, Completions, Responses
    <3>4. s \in Seq(Frames) /\ NoneIn(s, Responses)
      BY <1>1, <3>1, <3>3, AppendKeeps
    <3>5. frames' = Append(s, m) /\ bridge'.at = "loop"
      BY <2>1, <2>3 DEF Loop
    <3> HIDE DEF m, s
    <3> QED
      BY <2>2, <3>1, <3>2, <3>4, <3>5, TalkAnswers
  <2> QED
    BY <1>2, <2>2, <2>3
<1>8. ASSUME Released PROVE TalkInv'
  <2>1. /\ bridge.at = "releasing" /\ bridge.index \in Ids /\ bridge' = Loop
        /\ Response(bridge.id, "ok", bridge.index) \in Responses /\ Writes(Response(bridge.id, "ok", bridge.index))
        /\ UNCHANGED <<requests, input_open, client, result>>
    BY <1>8, ReleaseEnds DEF user
  <2>2. CASE client.stage # "gone"
    <3> DEFINE m == Response(bridge.id, "ok", bridge.index)
    <3>1. /\ client.stage = "requesting" /\ client.op = "release_index" /\ bridge.id = client.id
          /\ requests = <<>> /\ NoneIn(frames, Responses)
      BY <1>6, <2>1, <2>2 DEF BridgeIsBusy
    <3>2. m \in Expected
      BY <2>1, <3>1 DEF Expected, Response
    <3>3. frames' = Append(frames, m) /\ bridge'.at = "loop"
      BY <2>1, <2>2 DEF Loop, Writes
    <3> HIDE DEF m
    <3> QED
      BY <1>1, <2>1, <3>1, <3>2, <3>3, TalkAnswers
  <2> QED
    BY <1>2, <2>1, <2>2
<1>9. ASSUME NEW i \in Ids, WaiterReply(i) PROVE TalkInv'
  <2>1. Hears(i, "ok") /\ bridge' = bridge /\ Writes(Event(i, "ok"))
    BY <1>9, ReplyHears
  <2>2. /\ UNCHANGED <<requests, input_open, client, result>>
        /\ frames' = frames \/ \E e \in Completions : frames' = Append(frames, e)
    BY <2>1 DEF Hears, user, Writes
  <2> QED
    BY <2>1, <2>2, TalkStays
<1>10. CASE EndOfInput \/ Exit \/ KillBeam \/ (\E i \in Ids : CleanUp(i)) \/ UNCHANGED vars
            \/ \E i \in Ids : WaiterDown(i) \/ Traverse(i) \/ Crash(i) \/ WaiterReturns(i)
  <2>1. /\ UNCHANGED <<requests, input_open, client, result, frames>>
        /\ \/ bridge' = bridge \/ bridge'.at = "gone"
           \/ bridge.at = "loop" /\ bridge'.at = "exiting" /\ ~ input_open
    BY <1>10 DEF EndOfInput, Exit, KillBeam, CleanUp, WaiterDown, Traverse, Finish, Terminate, Crash, WaiterReturns,
                 vars, beam, user, Halt, Gone, Exiting, Loop
  <2> QED
    BY <2>1, TalkStays
<1>11. CASE Drop \/ ClientDies \/ ShutdownFails \/ ChildExited
  <2>1. client'.stage = "gone" /\ result' \in {"ok", "dropped", "exited", "died"}
    BY <1>11 DEF Drop, ClientDies, ShutdownFails, ChildExited, Leave, Idle
  <2> QED
    BY <2>1, TalkGone
<1>12. ASSUME NEW op \in Requests, NEW i \in Ids \cup {NoId}, Request(op, i) PROVE TalkInv'
  <2>1. /\ client.stage = "idle" /\ UNCHANGED <<frames, input_open, bridge>> /\ result' = "none"
        /\ requests' = Append(requests, [op |-> op, index |-> i, id |-> next_request_id])
        /\ client' = [stage |-> "requesting", op |-> op, index |-> i, id |-> next_request_id]
    BY <1>12 DEF Request, beam
  <2>2. NoneIn(frames, Responses) /\ input_open /\ bridge.at # "exiting"
    BY <2>1 DEF TalkInv, AnswersAreExpected, TurnIsClear
  <2>3. AnswersAreExpected'
    <3>1. AtMostOne(frames, Responses) /\ NoneIn(frames, Responses \ Expected')
      BY <2>2 DEF NoneIn, AtMostOne
    <3>2. Responses' = Responses
      BY DEF Responses
    <3> QED
      BY <2>1, <3>1, <3>2 DEF AnswersAreExpected
  <2>4. Up => RequestIsOut'
    <3> SUFFICES ASSUME Up PROVE RequestIsOut'
      OBVIOUS
    <3>1. requests = <<>> /\ bridge.at \notin {"awaiting", "releasing"}
      BY <2>1 DEF TalkInv, TurnIsClear, NobodyAsked, RequestIsOut, BridgeIsBusy, AnswerIsOut
    <3>2. requests' = <<[op |-> client'.op, index |-> client'.index, id |-> client'.id]>>
      BY <2>1, <3>1
    <3> QED
      BY <2>1, <2>2, <3>1, <3>2 DEF RequestIsOut, Responses
  <2>5. Up' => Up
    BY <2>1 DEF Up
  <2> QED
    BY <2>1, <2>2, <2>3, <2>4, <2>5 DEF TalkInv, TurnIsClear
<1>13. ASSUME NEW i \in Ids, Await(i) PROVE TalkInv'
  <2>1. /\ client.stage = "idle" /\ UNCHANGED <<frames, requests, input_open, bridge>> /\ result' = "none"
        /\ client'.stage = "awaiting"
    BY <1>13 DEF Await, beam
  <2> QED
    BY <2>1 DEF TalkInv, AnswersAreExpected, TurnIsClear, Up, NobodyAsked, RequestIsOut, BridgeIsBusy, AnswerIsOut,
                Responses
<1>14. ASSUME ReadEvent PROVE TalkInv'
  <2>1. /\ UNCHANGED <<requests, input_open, client, result, bridge>> /\ frames # <<>>
        /\ Head(frames) \in Completions /\ frames' = Tail(frames)
    BY <1>14, FrameRead DEF ReadEvent, ReadFrame, beam
  <2> QED
    BY <2>1, TalkStays
<1>15. ASSUME client.stage = "requesting", frames # <<>>, Head(frames).type = "response"
       PROVE  /\ NoneIn(Tail(frames), Responses) /\ Head(frames) \in Responses
              /\ Up => AnswerIsOut
              /\ bridge.at = "exiting" => client.op = "shutdown"
  <2>1. ~ NoneIn(frames, Responses)
    <3>1. Head(frames) \in Responses
      BY <1>15, ResponseRead
    <3> QED
      BY <1>1, <1>15, <3>1, TailKeeps
  <2>2. Up => AnswerIsOut
    BY <1>15, <2>1 DEF TalkInv, TurnIsClear, NobodyAsked, RequestIsOut, BridgeIsBusy
  <2> QED
    BY <1>15, <2>2, ResponseRead DEF TalkInv, TurnIsClear
<1>16. bridge.at \in {"loop", "awaiting", "releasing", "exiting", "gone"}
  BY DEF BeamInv, BeamTypes, Bridges
<1>17. ASSUME ReadResponse PROVE TalkInv'
  <2>1. /\ frames # <<>> /\ Head(frames).type = "response" /\ client.stage = "requesting" /\ client.op # "shutdown"
        /\ frames' = Tail(frames) /\ UNCHANGED <<requests, input_open, bridge>>
    BY <1>17 DEF ReadResponse, ReadFrame, beam
  <2>2. Head(frames).id = client.id /\ Head(frames).status \in Outcomes
    BY <2>1, ResponseRead DEF Responses
  <2>3. client'.stage = "idle" /\ result' \in Outcomes
    BY <1>17, <2>2 DEF ReadResponse, Return, Idle
  <2>4. input_open /\ (bridge.at = "gone" \/ (requests = <<>> /\ bridge.at = "loop"))
    BY <1>15, <1>16, <2>1 DEF TalkInv, TurnIsClear, Up, AnswerIsOut
  <2> QED
    BY <1>15, <2>1, <2>3, <2>4, TalkEnds DEF Outcomes
<1>18. ASSUME client.stage = "awaiting"
       PROVE  /\ NoneIn(frames, Responses) /\ input_open
              /\ bridge.at = "gone" \/ (requests = <<>> /\ bridge.at = "loop")
  <2>1. Up => NobodyAsked
    BY <1>18 DEF TalkInv, TurnIsClear, RequestIsOut, BridgeIsBusy, AnswerIsOut
  <2> QED
    BY <1>16, <1>18, <2>1 DEF TalkInv, TurnIsClear, AnswersAreExpected, NobodyAsked, Up
<1>19. ASSUME TakeEvent PROVE TalkInv'
  <2>1. /\ client.stage = "awaiting" /\ UNCHANGED <<frames, requests, input_open, bridge>> /\ client'.stage = "idle"
        /\ \E k \in DOMAIN events : result' = events[k].status
    BY <1>19 DEF TakeEvent, Return, Idle, beam
  <2>2. result' \in Outcomes
    <3>1. events \in Seq(Completions)
      BY DEF ClientTypes
    <3>2. PICK k \in DOMAIN events : result' = events[k].status
      BY <2>1
    <3>3. events[k] \in Completions
      BY <3>1, <3>2, LenProperties, ElementOfSeq
    <3> QED
      BY <3>2, <3>3 DEF Completions
  <2> QED
    BY <1>18, <2>1, <2>2, TalkEnds DEF Outcomes
<1>20. ASSUME ReadAwaited PROVE TalkInv'
  <2>1. /\ client.stage = "awaiting" /\ frames # <<>> /\ frames' = Tail(frames)
        /\ UNCHANGED <<requests, input_open, bridge>>
    BY <1>20 DEF ReadAwaited, ReadFrame, beam
  <2>2. NoneIn(Tail(frames), Responses) /\ Head(frames) \notin Responses
    BY <1>1, <1>18, <2>1, TailKeeps
  <2>3. Head(frames).type = "event" /\ Head(frames).status \in Outcomes
    BY <2>1, <2>2, FrameRead DEF Completions
  <2>4. client'.stage = "idle" /\ result' \in Outcomes
    BY <1>20, <2>3 DEF ReadAwaited, Return, Idle
  <2> QED
    BY <1>18, <2>1, <2>2, <2>4, TalkEnds DEF Outcomes
<1>21. ASSUME ReadEnd PROVE TalkInv'
  <2>1. /\ frames = <<>> /\ bridge.at = "gone" /\ UNCHANGED <<frames, requests, input_open, bridge>>
        /\ client'.stage = "idle" /\ result' = "exited" /\ client.stage \in {"requesting", "awaiting"}
    BY <1>21 DEF ReadEnd, Return, Idle, beam
  <2>2. NoneIn(frames, Responses) /\ input_open
    BY <2>1, EmptySeq DEF NoneIn, TalkInv, TurnIsClear
  <2> QED
    BY <2>1, <2>2, TalkEnds
<1>22. ASSUME ReadShutdown PROVE TalkInv'
  <2>1. /\ client.stage = "requesting" /\ client.op = "shutdown" /\ frames # <<>> /\ Head(frames).type = "response"
        /\ frames' = Tail(frames) /\ client' = [client EXCEPT !.stage = "closing"]
        /\ UNCHANGED <<requests, bridge, result>>
    BY <1>22 DEF ReadShutdown, ReadFrame, beam
  <2>2. client'.stage = "closing" /\ client'.op = "shutdown"
    BY <2>1 DEF ClientTypes, Clients
  <2>3. NoneIn(frames', Responses) /\ (Up => AnswerIsOut)
    BY <1>15, <2>1
  <2>4. AnswersAreExpected'
    BY <2>2, <2>3 DEF AnswersAreExpected, Responses
  <2>5. TurnIsClear'
    BY <2>1, <2>2, <2>3 DEF TurnIsClear, Up, NobodyAsked, AnswerIsOut
  <2> QED
    BY <2>1, <2>4, <2>5 DEF TalkInv
<1> QED
  BY <1>3, <1>4, <1>5, <1>7, <1>8, <1>9, <1>10, <1>11, <1>12, <1>13, <1>14, <1>17, <1>19, <1>20, <1>21, <1>22
     DEF Next, Serve, Read, AnswersAtOnce
-----------------------------------------------------------------------------
(* The handles of the two sides.                                           *)

Serving == Up /\ bridge.at # "exiting"

\* Neither start_scan nor release_index is under way.
LEMMA HandlesUnasked ==
  ASSUME ~ Requesting("start_scan")', ~ Requesting("release_index")',
         client'.stage # "gone" => DOMAIN indexes' \subseteq held',
         Serving' => held' \subseteq DOMAIN indexes',
         \A i \in Ids \ held' : NoneIn(frames', CompletionsOf(i))
  PROVE  HandlesInv'
<1>1. \A i : CompletionsOf(i)' = CompletionsOf(i)
  BY DEF CompletionsOf
<1> QED
  BY <1>1 DEF HandlesInv, Answered, Serving, CompletionsOf

\* Nothing is said or read.
LEMMA HandlesStay ==
  ASSUME HandlesInv, UNCHANGED <<frames, client, held>>, Given \subseteq Given',
         DOMAIN indexes' \subseteq DOMAIN indexes,
         Serving' => Serving /\ DOMAIN indexes' = DOMAIN indexes
  PROVE  HandlesInv'
<1>1. \A op, i : Answered(op, i)' <=> Answered(op, i)
  BY DEF Answered, Requesting, GoodAnswersFor
<1>2. /\ client'.stage # "gone" => \A i \in DOMAIN indexes' : i \in held' \/ Answered("start_scan", i)
      /\ Serving' => \A i \in held' : i \in DOMAIN indexes' \/ Answered("release_index", i)
  BY DEF HandlesInv, Serving
<1>3. \A i \in Ids \ held' :
          \/ NoneIn(frames', CompletionsOf(i))
          \/ Requesting("start_scan")' /\ Preceded(frames', GoodAnswersFor(i), CompletionsOf(i))
  BY DEF HandlesInv, Requesting
<1>4. \A i \in Ids : Answered("release_index", i) =>
          /\ i \in Given' /\ i \notin DOMAIN indexes'
          /\ NoneAfter(frames', GoodAnswersFor(i), CompletionsOf(i))
  BY DEF HandlesInv
<1>5. \A i \in Ids : Answered("start_scan", i) => i \in Given' /\ (Serving' => i \in DOMAIN indexes')
  BY DEF HandlesInv, Serving
<1> QED
  BY <1>1, <1>2, <1>3, <1>4, <1>5 DEF HandlesInv, Serving, CompletionsOf, GoodAnswersFor

\* A message is written: an answer that gives a handle when the bridge has it, one
\* that takes it when the bridge has given it up, or what an index that the bridge
\* has says of itself.
LEMMA HandlesSay ==
  ASSUME HandlesInv, PipeTypes, UNCHANGED <<client, held>>, client.stage # "gone", Given \subseteq Given',
         NEW m \in Frames, frames' = Append(frames, m), Serving' => Serving,
         \A i \in DOMAIN indexes' : i \in DOMAIN indexes \/ (Requesting("start_scan") /\ m \in GoodAnswersFor(i)),
         \A i \in DOMAIN indexes : i \in DOMAIN indexes' \/ (Requesting("release_index") /\ m \in GoodAnswersFor(i)),
         \A i \in Ids : m \in CompletionsOf(i) => i \in DOMAIN indexes,
         \A i \in Ids : Requesting("release_index") /\ m \in GoodAnswersFor(i) => i \in Given' /\ i \notin DOMAIN indexes',
         \A i \in Ids : Requesting("start_scan") /\ m \in GoodAnswersFor(i) => i \in Given' /\ i \in DOMAIN indexes'
  PROVE  HandlesInv'
<1>1. frames \in Seq(Frames)
  BY DEF PipeTypes
<1>2. ASSUME NEW op, NEW i PROVE Answered(op, i)' <=> Answered(op, i) \/ (Requesting(op) /\ m \in GoodAnswersFor(i))
  <2>1. NoneIn(frames', GoodAnswersFor(i)) <=> NoneIn(frames, GoodAnswersFor(i)) /\ m \notin GoodAnswersFor(i)
    BY <1>1, AppendKeeps
  <2> QED
    BY <2>1 DEF Answered, Requesting, GoodAnswersFor
<1>3. ~ (Requesting("start_scan") /\ Requesting("release_index"))
  BY DEF Requesting
<1>4. client'.stage # "gone" => \A i \in DOMAIN indexes' : i \in held' \/ Answered("start_scan", i)'
  BY <1>2 DEF HandlesInv
<1>5. Serving' => \A i \in held' : i \in DOMAIN indexes' \/ Answered("release_index", i)'
  BY <1>2 DEF HandlesInv, Serving
<1>6. ASSUME NEW i \in Ids \ held'
      PROVE  \/ NoneIn(frames', CompletionsOf(i))
             \/ Requesting("start_scan")' /\ Preceded(frames', GoodAnswersFor(i), CompletionsOf(i))
  <2>1. CASE m \notin CompletionsOf(i)
    <3>1. /\ NoneIn(frames, CompletionsOf(i)) => NoneIn(frames', CompletionsOf(i))
          /\ Preceded(frames, GoodAnswersFor(i), CompletionsOf(i)) => Preceded(frames', GoodAnswersFor(i), CompletionsOf(i))
      BY <1>1, <2>1, AppendKeeps
    <3> QED
      BY <3>1 DEF HandlesInv, Requesting
  <2>2. CASE m \in CompletionsOf(i)
    <3>1. Answered("start_scan", i)
      BY <1>6, <2>2 DEF HandlesInv
    <3>2. Preceded(frames, GoodAnswersFor(i), CompletionsOf(i))
      BY <1>6 DEF HandlesInv, NoneIn, Preceded
    <3>3. Preceded(frames', GoodAnswersFor(i), CompletionsOf(i))
      BY <1>1, <3>1, <3>2, AppendKeeps DEF Answered
    <3> QED
      BY <3>1, <3>3 DEF Answered, Requesting
  <2> QED
    BY <2>1, <2>2
<1>7. ASSUME NEW i \in Ids, Answered("release_index", i)'
      PROVE  /\ i \in Given' /\ i \notin DOMAIN indexes'
             /\ NoneAfter(frames', GoodAnswersFor(i), CompletionsOf(i))
  <2>1. Requesting("release_index")
    BY <1>2, <1>7 DEF Answered
  <2>2. i \in Given' /\ i \notin DOMAIN indexes'
    BY <1>2, <1>3, <1>7, <2>1 DEF HandlesInv
  <2>3. NoneAfter(frames, GoodAnswersFor(i), CompletionsOf(i))
    <3>1. CASE Answered("release_index", i)
      BY <3>1 DEF HandlesInv
    <3>2. CASE NoneIn(frames, GoodAnswersFor(i))
      BY <3>2 DEF NoneIn, NoneAfter
    <3> QED
      BY <2>1, <3>1, <3>2 DEF Answered
  <2>4. m \in CompletionsOf(i) => NoneIn(frames, GoodAnswersFor(i))
    BY <2>1 DEF HandlesInv, Answered
  <2>5. NoneAfter(frames', GoodAnswersFor(i), CompletionsOf(i))
    BY <1>1, <2>3, <2>4, AppendKeeps
  <2> QED
    BY <2>2, <2>5
<1>8. ASSUME NEW i \in Ids, Answered("start_scan", i)'
      PROVE  i \in Given' /\ (Serving' => i \in DOMAIN indexes')
  <2>1. Requesting("start_scan")
    BY <1>2, <1>8 DEF Answered
  <2> QED
    BY <1>2, <1>3, <1>8, <2>1 DEF HandlesInv, Serving
<1> QED
  BY <1>4, <1>5, <1>6, <1>7, <1>8 DEF HandlesInv, Serving, CompletionsOf, GoodAnswersFor
LEMMA NothingUnasked ==
  ASSUME HandlesInv
  PROVE  /\ ~ Requesting("start_scan") => \A i \in Ids \ held : NoneIn(frames, CompletionsOf(i))
         /\ ~ Requesting("start_scan") /\ client.stage # "gone" => DOMAIN indexes \subseteq held
         /\ ~ Requesting("release_index") /\ Serving => held \subseteq DOMAIN indexes
BY DEF HandlesInv, Answered, Serving

LEMMA HandlesGone ==
  ASSUME HandlesInv, client.stage = "gone", UNCHANGED <<client, held, frames>>
  PROVE  HandlesInv'
<1>1. ~ Requesting("start_scan")' /\ ~ Requesting("release_index")' /\ ~ Requesting("start_scan") /\ ~ Serving'
  BY DEF Requesting, Serving, Up
<1>2. \A i \in Ids \ held' : NoneIn(frames', CompletionsOf(i))
  BY <1>1, NothingUnasked
<1> QED
  BY <1>1, <1>2, HandlesUnasked

\* The end of a call, or its beginning, by a client that reads nothing else than
\* what it has asked for.
LEMMA HandlesRest ==
  ASSUME HandlesInv, ~ Requesting("start_scan"), ~ Requesting("release_index"),
         ~ Requesting("start_scan")', ~ Requesting("release_index")',
         held' = held, DOMAIN indexes' = DOMAIN indexes, Serving' => Serving,
         client'.stage # "gone" => client.stage # "gone",
         \A i \in Ids \ held : NoneIn(frames, CompletionsOf(i)) => NoneIn(frames', CompletionsOf(i))
  PROVE  HandlesInv'
<1>1. \A i \in Ids \ held' : NoneIn(frames', CompletionsOf(i))
  BY NothingUnasked
<1>2. client'.stage # "gone" => DOMAIN indexes' \subseteq held'
  BY NothingUnasked
<1>3. Serving' => held' \subseteq DOMAIN indexes'
  BY NothingUnasked
<1> QED
  BY <1>1, <1>2, <1>3, HandlesUnasked

LEMMA HandlesServe ==
  ASSUME BeamInv, BeamMoves, PipeTypes, TalkInv, HandlesInv, Serve
  PROVE  HandlesInv'
<1>1. Given \subseteq Given' /\ frames \in Seq(Frames)
  BY DEF BeamMoves, PipeTypes
<1>2. ASSUME AnswersAtOnce PROVE HandlesInv'
  <2>1. PICK status \in Outcomes, i \in Handles :
               /\ Writes(Response(Head(requests).id, status, i))
               /\ \/ /\ Head(requests).op = "start_scan" /\ status = "ok" /\ i = next_index_id /\ i \in Ids
                     /\ next_index_id' = i + 1 /\ DOMAIN indexes' = DOMAIN indexes \cup {i}
                  \/ /\ Head(requests).op # "start_scan" \/ status = "error"
                     /\ UNCHANGED <<indexes, next_index_id>>
    BY <1>2, LoopAnswers
  <2> DEFINE m == Response(Head(requests).id, status, i)
  <2>2. /\ Takes /\ UNCHANGED <<client, held>>
        /\ Head(requests).op \notin {"await_scan", "release_index"}
        /\ bridge' = bridge \/ (bridge' = Exiting /\ Head(requests).op = "shutdown")
    BY <1>2, LoopAnswers DEF user
  <2>3. CASE client.stage # "gone"
    <3>1. client.stage = "requesting" /\ Head(requests).op = client.op
      BY <2>2, <2>3, TheRequest
    <3>2. m \in Responses /\ m \in Frames
      BY <2>2, TakenRequest DEF Frames
    <3>3. frames' = Append(frames, m)
      BY <2>1, <2>3 DEF Writes
    <3>4. Serving' => Serving
      BY <2>2 DEF Serving, Up, Takes
    <3>5. \A j \in Ids : m \notin CompletionsOf(j)
      BY <3>2 DEF Responses, CompletionsOf
    <3>6. ~ Requesting("release_index")
      BY <2>2, <3>1 DEF Requesting
    <3>7. CASE /\ client.op = "start_scan" /\ status = "ok" /\ i = next_index_id /\ i \in Ids
               /\ next_index_id' = i + 1 /\ DOMAIN indexes' = DOMAIN indexes \cup {i}
      <4>1. m \in GoodAnswersFor(i) /\ Requesting("start_scan")
        BY <3>1, <3>2, <3>7 DEF Responses, Response, GoodAnswersFor, Requesting
      <4>2. i \in Given'
        BY <3>7, IndexIdAssumption DEF Given, Ids
      <4>3. \A j : m \in GoodAnswersFor(j) => j = i
        BY DEF GoodAnswersFor, Response
      <4> HIDE DEF m
      <4> QED
        BY <1>1, <2>2, <2>3, <3>2, <3>3, <3>4, <3>5, <3>6, <3>7, <4>1, <4>2, <4>3, HandlesSay
    <3>8. CASE (client.op # "start_scan" \/ status = "error") /\ UNCHANGED indexes
      <4>1. \A j : ~ (Requesting("start_scan") /\ m \in GoodAnswersFor(j))
        BY <3>8 DEF GoodAnswersFor, Response, Requesting
      <4>2. DOMAIN indexes' = DOMAIN indexes
        BY <3>8
      <4> HIDE DEF m
      <4> QED
        BY <1>1, <2>2, <2>3, <3>2, <3>3, <3>4, <3>5, <3>6, <4>1, <4>2, HandlesSay
    <3> QED
      BY <2>1, <3>1, <3>7, <3>8
  <2>4. CASE client.stage = "gone"
    BY <2>1, <2>2, <2>4, HandlesGone DEF Writes
  <2> QED
    BY <2>3, <2>4
<1>3. ASSUME NEW m \in Responses, Writes(m), Takes, Serving' => Serving, UNCHANGED <<client, held>>,
             DOMAIN indexes' = DOMAIN indexes, Head(requests).op = "await_scan" \/ m.status = "error",
             Head(requests).op \in {"await_scan", "release_index"}
      PROVE  HandlesInv'
  <2>1. CASE client.stage = "gone"
    BY <1>3, <2>1, HandlesGone DEF Writes
  <2>2. CASE client.stage # "gone"
    <3>1. client.op = Head(requests).op
      BY <1>3, <2>2, TheRequest
    <3>2. \A j : ~ (Requesting("start_scan") /\ m \in GoodAnswersFor(j)) /\ ~ (Requesting("release_index") /\ m \in GoodAnswersFor(j))
      BY <1>3, <3>1 DEF GoodAnswersFor, Requesting
    <3>3. m \in Frames /\ \A j \in Ids : m \notin CompletionsOf(j)
      BY DEF Responses, CompletionsOf, Frames
    <3>4. frames' = Append(frames, m)
      BY <1>3, <2>2 DEF Writes
    <3> QED
      BY <1>1, <1>3, <2>2, <3>2, <3>3, <3>4, HandlesSay
  <2> QED
    BY <2>1, <2>2
<1>4. ASSUME HandleAwaitScan PROVE HandlesInv'
  <2>1. /\ Takes /\ UNCHANGED <<client, held>> /\ Head(requests).op = "await_scan" /\ DOMAIN indexes' = DOMAIN indexes
        /\ \/ /\ \E status \in Outcomes, i \in Handles : Writes(Response(Head(requests).id, status, i))
              /\ bridge' = bridge
           \/ frames' = frames
    BY <1>4, AwaitAnswers DEF user
  <2>2. Serving' => Serving
    BY <2>1 DEF Serving, Up, Takes
  <2>3. CASE frames' = frames
    BY <1>1, <2>1, <2>2, <2>3, HandlesStay
  <2>4. ASSUME NEW status \in Outcomes, NEW i \in Handles, Writes(Response(Head(requests).id, status, i)) PROVE HandlesInv'
    <3>1. Response(Head(requests).id, status, i) \in Responses
      BY <2>1, TakenRequest
    <3> QED
      BY <1>3, <2>1, <2>2, <2>4, <3>1
  <2> QED
    BY <2>1, <2>3, <2>4
<1>5. ASSUME HandleReleaseIndex PROVE HandlesInv'
  <2> DEFINE m == Response(Head(requests).id, "error", Head(requests).index)
  <2>1. /\ Takes /\ UNCHANGED <<client, held, indexes>> /\ Head(requests).op = "release_index"
        /\ Writes(m) \/ frames' = frames
    BY <1>5, ReleaseAnswers DEF user
  <2>2. Serving' => Serving
    BY <2>1 DEF Serving, Up, Takes
  <2>3. CASE frames' = frames
    BY <1>1, <2>1, <2>2, <2>3, HandlesStay
  <2>4. m \in Responses /\ m.status = "error"
    BY <2>1, TakenRequest DEF Outcomes, Response
  <2> HIDE DEF m
  <2> QED
    BY <1>3, <2>1, <2>2, <2>3, <2>4
<1>6. ASSUME bridge.at \in {"awaiting", "releasing"}, client.stage # "gone"
      PROVE  BridgeIsBusy
  BY <1>6 DEF TalkInv, TurnIsClear, Up, NobodyAsked, RequestIsOut, AnswerIsOut
<1>7. ASSUME AwaitReturned PROVE HandlesInv'
  <2>1. PICK i \in Ids, outcome \in Outcomes :
            /\ Hears(i, outcome) /\ bridge.at = "awaiting" /\ bridge' = Loop
            /\ Response(bridge.id, outcome, i) \in Responses
            /\ frames' = IF client.stage = "gone" THEN frames
                         ELSE Append(Append(frames, Event(i, outcome)), Response(bridge.id, outcome, i))
    BY <1>7, AwaitHears
  <2>2. UNCHANGED <<client, held>> /\ DOMAIN indexes' = DOMAIN indexes /\ i \in DOMAIN indexes
    BY <2>1 DEF Hears, user
  <2>3. CASE client.stage = "gone"
    BY <2>1, <2>2, <2>3, HandlesGone
  <2>4. CASE client.stage # "gone"
    <3> DEFINE m == Response(bridge.id, outcome, i)
               e == Event(i, outcome)
    <3>1. client.op = "await_scan"
      BY <1>6, <2>1, <2>4 DEF BridgeIsBusy
    <3>2. ~ Requesting("start_scan") /\ ~ Requesting("release_index") /\ ~ Requesting("start_scan")' /\ ~ Requesting("release_index")'
      BY <2>2, <3>1 DEF Requesting
    <3>3. i \in held
      BY <2>2, <2>4, <3>2, NothingUnasked
    <3>4. e \in Frames /\ m \in Frames /\ Append(frames, e) \in Seq(Frames)
      BY <1>1, <2>1, AppendProperties DEF Hears, Frames
    <3>5. \A j \in Ids \ held : e \notin CompletionsOf(j) /\ m \notin CompletionsOf(j)
      BY <2>1, <3>3 DEF Event, CompletionsOf, Responses
    <3>6. frames' = Append(Append(frames, e), m) /\ (Serving' => Serving)
      BY <2>1, <2>2, <2>4 DEF Serving, Up
    <3> HIDE DEF m, e
    <3>7. ASSUME NEW j \in Ids \ held, NoneIn(frames, CompletionsOf(j)) PROVE NoneIn(frames', CompletionsOf(j))
      <4>1. NoneIn(Append(frames, e), CompletionsOf(j))
        BY <1>1, <3>4, <3>5, <3>7, AppendKeeps
      <4> QED
        BY <3>4, <3>5, <3>6, <4>1, AppendKeeps
    <3> QED
      BY <2>2, <2>4, <3>2, <3>6, <3>7, HandlesRest
  <2> QED
    BY <2>3, <2>4
<1>8. ASSUME Released PROVE HandlesInv'
  <2>1. PICK c \in Ids : c = bridge.index
    BY <1>8, ReleaseEnds
  <2> DEFINE m == Response(bridge.id, "ok", c)
  <2>2. /\ bridge.at = "releasing" /\ c \in DOMAIN indexes
        /\ bridge' = Loop /\ DOMAIN indexes' = DOMAIN indexes \ {c}
        /\ m \in Responses /\ Writes(m) /\ UNCHANGED <<client, held>>
    BY <1>8, <2>1, ReleaseEnds DEF user
  <2>3. CASE client.stage # "gone"
    <3>1. Requesting("release_index") /\ ~ Requesting("start_scan")
      BY <1>6, <2>2, <2>3 DEF BridgeIsBusy, Requesting
    <3>2. m \in GoodAnswersFor(c) /\ \A j : m \in GoodAnswersFor(j) => j = c
      BY <2>2 DEF GoodAnswersFor, Response, Responses
    <3>3. m \in Frames /\ \A j \in Ids : m \notin CompletionsOf(j)
      BY <2>2 DEF Responses, CompletionsOf, Frames
    <3>4. c \in Given'
      BY <1>1, <2>2, BeamHandles DEF BeamInv
    <3>5. Serving' => Serving
      BY <2>2 DEF Serving, Up
    <3>6. frames' = Append(frames, m)
      BY <2>2, <2>3 DEF Writes
    <3> HIDE DEF m
    <3> QED
      BY <1>1, <2>2, <2>3, <3>1, <3>2, <3>3, <3>4, <3>5, <3>6, HandlesSay
  <2>4. CASE client.stage = "gone"
    BY <2>2, <2>4, HandlesGone DEF Writes
  <2> QED
    BY <2>3, <2>4
<1>9. CASE EndOfInput \/ Exit \/ \E i \in Ids : CleanUp(i)
  <2>1. /\ UNCHANGED <<client, held, frames>> /\ DOMAIN indexes' \subseteq DOMAIN indexes
        /\ bridge'.at \in {"exiting", "gone"}
    BY <1>9 DEF EndOfInput, Exit, CleanUp, user, Halt, Gone, Exiting, Loop
  <2> QED
    BY <1>1, <2>1, HandlesStay DEF Serving, Up
<1> QED
  BY <1>2, <1>4, <1>5, <1>7, <1>8, <1>9 DEF Serve, AnswersAtOnce
\* The client has its answer: what it is told of a handle is so.
LEMMA HandlesRead ==
  ASSUME BeamInv, PipeTypes, ClientTypes, TalkInv, HandlesInv, ReadResponse
  PROVE  /\ HandlesInv'
         /\ \A i \in released' : \/ i \in released
                                 \/ /\ i \in Given /\ i \notin DOMAIN indexes
                                    /\ NoneIn(frames', CompletionsOf(i)) /\ NoneIn(events', CompletionsOf(i))
<1> DEFINE m == Head(frames)
<1>1. /\ frames # <<>> /\ m.type = "response" /\ client.stage = "requesting"
      /\ frames' = Tail(frames) /\ UNCHANGED <<indexes, bridge>>
  BY DEF ReadResponse, ReadFrame, beam
<1>2. /\ m \in Responses /\ m.id = client.id /\ NoneIn(frames', Responses)
      /\ \A op, i : Answered(op, i) <=> client.op = op /\ m \in GoodAnswersFor(i)
      /\ m.status = "ok" /\ client.op \in {"start_scan", "release_index"} =>
            m.index \in Ids /\ Answered(client.op, m.index)
  BY <1>1, ResponseRead
<1>3. PICK c : c = m.index
  OBVIOUS
<1>4. /\ client' = Idle
      /\ \/ m.status = "ok" /\ client.op = "start_scan" /\ held' = held \cup {c} /\ released' = released
         \/ /\ m.status = "ok" /\ client.op = "release_index" /\ held' = held \ {c}
            /\ events' = WithoutEventsOf(c) /\ released' = released \cup {c}
         \/ /\ m.status # "ok" \/ client.op \notin {"start_scan", "release_index"}
            /\ held' = held /\ released' = released
  BY <1>2, <1>3 DEF ReadResponse, Return
<1>5. ~ Requesting("start_scan")' /\ ~ Requesting("release_index")' /\ client.stage # "gone" /\ (Serving' => Serving)
  BY <1>1, <1>4 DEF Requesting, Idle, Serving, Up
<1>6. \A i : m \in GoodAnswersFor(i) => i = c /\ m.status = "ok"
  BY <1>3 DEF GoodAnswersFor
<1>7. frames \in Seq(Frames)
  BY DEF PipeTypes
<1> HIDE DEF m
<1>8. ASSUME NEW i \in Ids \ held, client.op = "start_scan" => i # c
      PROVE  NoneIn(frames', CompletionsOf(i))
  <2>1. NoneIn(frames, CompletionsOf(i)) => NoneIn(frames', CompletionsOf(i))
    BY <1>1, <1>7, TailKeeps
  <2>2. ASSUME client.op = "start_scan", Preceded(frames, GoodAnswersFor(i), CompletionsOf(i))
        PROVE  NoneIn(frames', CompletionsOf(i))
    <3>1. m \notin GoodAnswersFor(i) /\ ~ Answered("start_scan", i)
      BY <1>2, <1>6, <1>8, <2>2
    <3>2. NoneIn(frames, GoodAnswersFor(i))
      BY <1>1, <2>2, <3>1 DEF Answered, Requesting
    <3>3. NoneIn(frames, CompletionsOf(i))
      <4> SUFFICES ASSUME NEW k \in 1 .. Len(frames), frames[k] \in CompletionsOf(i) PROVE FALSE
        BY DEF NoneIn
      <4>1. PICK j \in 1 .. k - 1 : frames[j] \in GoodAnswersFor(i)
        BY <2>2 DEF Preceded
      <4>2. j \in 1 .. Len(frames)
        BY <1>7, LenProperties
      <4> QED
        BY <3>2, <4>1, <4>2 DEF NoneIn
    <3> QED
      BY <2>1, <3>3
  <2> QED
    BY <2>1, <2>2 DEF HandlesInv, Requesting
<1>9. CASE m.status = "ok" /\ client.op = "start_scan" /\ held' = held \cup {c} /\ released' = released
  <2>1. Answered("start_scan", c) /\ c \in Ids /\ \A i : ~ Answered("release_index", i)
    BY <1>2, <1>3, <1>9 DEF m
  <2>2. DOMAIN indexes' \subseteq held'
    <3> SUFFICES ASSUME NEW i \in DOMAIN indexes, i \notin held PROVE i = c
      BY <1>1, <1>9
    <3>1. Answered("start_scan", i)
      BY <1>5 DEF HandlesInv
    <3> QED
      BY <1>2, <1>6, <3>1
  <2>3. Serving' => held' \subseteq DOMAIN indexes'
    BY <1>1, <1>5, <1>9, <2>1 DEF HandlesInv, Serving
  <2>4. \A i \in Ids \ held' : NoneIn(frames', CompletionsOf(i))
    BY <1>8, <1>9
  <2> QED
    BY <1>5, <1>9, <2>2, <2>3, <2>4, HandlesUnasked
<1>10. CASE /\ m.status = "ok" /\ client.op = "release_index" /\ held' = held \ {c}
            /\ events' = WithoutEventsOf(c) /\ released' = released \cup {c}
  <2>1. Answered("release_index", c) /\ c \in Ids /\ m \in GoodAnswersFor(c) /\ \A i : ~ Answered("start_scan", i)
    BY <1>2, <1>3, <1>10 DEF m
  <2>2. c \in Given /\ c \notin DOMAIN indexes /\ NoneAfter(frames, GoodAnswersFor(c), CompletionsOf(c))
    BY <2>1 DEF HandlesInv
  <2>3. NoneIn(frames', CompletionsOf(c))
    BY <1>1, <1>7, <2>1, <2>2, TailKeeps DEF m
  <2>4. NoneIn(events', CompletionsOf(c))
    <3>1. events \in Seq(Completions) /\ \A e \in CompletionsOf(c) : e.index = c
      BY DEF ClientTypes, CompletionsOf
    <3>2. NoneIn(FlattenSeq(Kept(events, c)), CompletionsOf(c))
      BY <3>1, FilterKeeps
    <3> QED
      BY <1>10, <3>2 DEF WithoutEventsOf, Kept
  <2>5. DOMAIN indexes' \subseteq held'
    BY <1>1, <1>5, <1>10, <2>1, <2>2 DEF HandlesInv
  <2>6. Serving' => held' \subseteq DOMAIN indexes'
    <3> SUFFICES ASSUME Serving, NEW i \in held, i # c PROVE i \in DOMAIN indexes
      BY <1>1, <1>5, <1>10
    <3>1. ~ Answered("release_index", i)
      BY <1>2, <1>6
    <3> QED
      BY <3>1 DEF HandlesInv, Serving
  <2>7. \A i \in Ids \ held' : NoneIn(frames', CompletionsOf(i))
    BY <1>8, <1>10, <2>3
  <2> QED
    BY <1>5, <1>10, <2>2, <2>3, <2>4, <2>5, <2>6, <2>7, HandlesUnasked
<1>11. CASE /\ m.status # "ok" \/ client.op \notin {"start_scan", "release_index"}
            /\ held' = held /\ released' = released
  <2>1. \A i : ~ Answered("start_scan", i) /\ ~ Answered("release_index", i)
    BY <1>2, <1>6, <1>11
  <2>2. DOMAIN indexes' \subseteq held' /\ (Serving' => held' \subseteq DOMAIN indexes')
    BY <1>1, <1>5, <1>11, <2>1 DEF HandlesInv, Serving
  <2>3. ASSUME NEW i \in Ids \ held PROVE NoneIn(frames', CompletionsOf(i))
    <3>1. NoneIn(frames, CompletionsOf(i)) => NoneIn(frames', CompletionsOf(i))
      BY <1>1, <1>7, TailKeeps
    <3>2. Preceded(frames, GoodAnswersFor(i), CompletionsOf(i)) /\ NoneIn(frames, GoodAnswersFor(i)) =>
             NoneIn(frames, CompletionsOf(i))
      <4> SUFFICES ASSUME Preceded(frames, GoodAnswersFor(i), CompletionsOf(i)), NoneIn(frames, GoodAnswersFor(i)),
                          NEW k \in 1 .. Len(frames), frames[k] \in CompletionsOf(i) PROVE FALSE
        BY DEF NoneIn
      <4>1. PICK j \in 1 .. k - 1 : frames[j] \in GoodAnswersFor(i)
        BY DEF Preceded
      <4>2. j \in 1 .. Len(frames)
        BY <1>7, LenProperties
      <4> QED
        BY <4>1, <4>2 DEF NoneIn
    <3> QED
      BY <2>1, <3>1, <3>2 DEF HandlesInv, Answered
  <2> QED
    BY <1>5, <1>11, <2>2, <2>3, HandlesUnasked
<1> QED
  BY <1>4, <1>9, <1>10, <1>11

\* A call begins.
LEMMA HandlesAsked ==
  ASSUME HandlesInv, PipeTypes, client.stage = "idle", NoneIn(frames, Responses),
         UNCHANGED <<frames, held, indexes, bridge>>, client'.stage # "gone"
  PROVE  HandlesInv'
<1>1. \A i \in Ids : GoodAnswersFor(i) \subseteq Responses
  BY DEF GoodAnswersFor, Responses, Outcomes, Handles
<1>2. \A i \in Ids : NoneIn(frames', GoodAnswersFor(i))
  BY <1>1, FewerIn
<1>3. ~ Requesting("start_scan") /\ ~ Requesting("release_index") /\ (Serving' => Serving)
  BY DEF Requesting, Serving, Up
<1>4. /\ DOMAIN indexes' \subseteq held'
      /\ Serving' => held' \subseteq DOMAIN indexes'
      /\ \A i \in Ids \ held' : NoneIn(frames', CompletionsOf(i))
  BY <1>3, NothingUnasked
<1> QED
  BY <1>2, <1>4 DEF HandlesInv, Answered, Serving, CompletionsOf, GoodAnswersFor

LEMMA HandlesStep ==
  ASSUME BeamInv, BeamMoves, PipeTypes, ClientTypes, TalkInv, HandlesInv, [Next]_vars
  PROVE  /\ HandlesInv'
         /\ \A i \in released' : \/ i \in released
                                 \/ /\ i \in Given /\ i \notin DOMAIN indexes
                                    /\ NoneIn(frames', CompletionsOf(i)) /\ NoneIn(events', CompletionsOf(i))
<1>1. Given \subseteq Given' /\ frames \in Seq(Frames)
  BY DEF BeamMoves, PipeTypes
<1>2. frames # <<>> => \A i : NoneIn(frames, CompletionsOf(i)) => NoneIn(Tail(frames), CompletionsOf(i))
  BY <1>1, TailKeeps
<1>3. \A i : NoneIn(<<>>, CompletionsOf(i))
  BY EmptySeq DEF NoneIn
<1>4. ASSUME ~ ReadResponse PROVE released' = released
  <2>1. CASE Quiet \/ Pushes
    BY <2>1 DEF Quiet, Pushes
  <2>2. CASE Read
    BY <1>4, <2>2 DEF Read, ReadEvent, TakeEvent, ReadAwaited, ReadEnd, ReadShutdown, ChildExited, ShutdownFails
  <2> QED
    BY <2>1, <2>2, StepsSpeak
<1>5. ASSUME UNCHANGED vars PROVE HandlesInv'
  <2>1. UNCHANGED <<frames, client, held, indexes, bridge>>
    BY <1>5 DEF vars, user, beam
  <2> QED
    BY <1>1, <2>1, HandlesStay DEF Serving, Up
<1>6. ASSUME Serve PROVE HandlesInv'
  BY <1>6, HandlesServe
<1>7. ASSUME ReadEvent PROVE HandlesInv'
  <2>1. /\ frames # <<>> /\ Head(frames) \in Completions /\ frames' = Tail(frames)
        /\ UNCHANGED <<client, held, bridge, indexes, next_index_id>>
    BY <1>7, FrameRead DEF ReadEvent, ReadFrame, beam
  <2>2. ASSUME NEW i
        PROVE  /\ NoneIn(frames, GoodAnswersFor(i)) <=> NoneIn(frames', GoodAnswersFor(i))
               /\ Preceded(frames, GoodAnswersFor(i), CompletionsOf(i)) => Preceded(frames', GoodAnswersFor(i), CompletionsOf(i))
               /\ NoneAfter(frames, GoodAnswersFor(i), CompletionsOf(i)) => NoneAfter(frames', GoodAnswersFor(i), CompletionsOf(i))
    <3>1. Head(frames) \notin GoodAnswersFor(i)
      BY <2>1 DEF Completions, GoodAnswersFor
    <3> QED
      BY <1>1, <2>1, <3>1, TailKeeps
  <2>3. \A op, i : Answered(op, i)' <=> Answered(op, i)
    BY <2>1, <2>2 DEF Answered, Requesting, GoodAnswersFor
  <2>4. \A i \in Ids \ held :
          \/ NoneIn(frames', CompletionsOf(i))
          \/ Requesting("start_scan")' /\ Preceded(frames', GoodAnswersFor(i), CompletionsOf(i))
    BY <1>2, <2>1, <2>2 DEF HandlesInv, Requesting
  <2>5. \A i \in Ids : Answered("release_index", i) =>
          /\ i \in Given' /\ i \notin DOMAIN indexes'
          /\ NoneAfter(frames', GoodAnswersFor(i), CompletionsOf(i))
    BY <1>1, <2>1, <2>2 DEF HandlesInv
  <2>6. Serving' <=> Serving
    BY <2>1 DEF Serving, Up
  <2>7. \A i \in Ids : Answered("start_scan", i) => i \in Given' /\ (Serving' => i \in DOMAIN indexes')
    BY <1>1, <2>1, <2>6 DEF HandlesInv, Serving
  <2>8. /\ client'.stage # "gone" => \A i \in DOMAIN indexes' : i \in held' \/ Answered("start_scan", i)
        /\ Serving' => \A i \in held' : i \in DOMAIN indexes' \/ Answered("release_index", i)
    BY <2>1, <2>6 DEF HandlesInv, Serving
  <2> QED
    BY <2>1, <2>3, <2>4, <2>5, <2>7, <2>8 DEF HandlesInv, Serving, CompletionsOf, GoodAnswersFor
<1>8. ASSUME ReadResponse PROVE HandlesInv'
  BY <1>8, HandlesRead
<1>9. ASSUME TakeEvent \/ ReadAwaited \/ ReadShutdown \/ ChildExited PROVE HandlesInv'
  <2>1. /\ UNCHANGED <<held, bridge, indexes>> /\ client.stage # "gone"
        /\ frames' = frames \/ (frames # <<>> /\ frames' = Tail(frames))
        /\ ~ Requesting("start_scan") /\ ~ Requesting("release_index")
        /\ ~ Requesting("start_scan")' /\ ~ Requesting("release_index")'
    <3>1. CASE TakeEvent \/ ReadAwaited
      BY <3>1 DEF TakeEvent, ReadAwaited, ReadFrame, Return, Requesting, Idle, beam
    <3>2. CASE ReadShutdown \/ ChildExited
      BY <3>2 DEF ReadShutdown, ChildExited, ReadFrame, Leave, Requesting, Idle, beam, ClientTypes, Clients
    <3> QED
      BY <1>9, <3>1, <3>2
  <2>2. Serving' => Serving
    BY <2>1 DEF Serving, Up
  <2>3. \A i \in Ids \ held : NoneIn(frames, CompletionsOf(i)) => NoneIn(frames', CompletionsOf(i))
    BY <1>2, <2>1
  <2> QED
    BY <1>9, <2>1, <2>2, <2>3, HandlesRest
<1>10. ASSUME ReadEnd PROVE HandlesInv'
  <2>1. /\ frames' = <<>> /\ bridge.at = "gone" /\ client' = Idle /\ UNCHANGED <<bridge, indexes, held>>
    BY <1>10 DEF ReadEnd, Return, beam
  <2>2. DOMAIN indexes' = {} /\ ~ Serving' /\ ~ Requesting("start_scan")' /\ ~ Requesting("release_index")'
    BY <2>1 DEF BeamInv, BridgeWaits, Serving, Up, Requesting, Idle
  <2> QED
    BY <1>3, <2>1, <2>2, HandlesUnasked
<1>11. ASSUME ShutdownFails \/ ClientDies PROVE HandlesInv'
  <2>1. frames' = <<>> /\ client'.stage = "gone"
    BY <1>11 DEF ShutdownFails, ClientDies, Leave, Idle
  <2>2. ~ Serving' /\ ~ Requesting("start_scan")' /\ ~ Requesting("release_index")'
    BY <2>1 DEF Serving, Up, Requesting
  <2> QED
    BY <1>3, <2>1, <2>2, HandlesUnasked
<1>12. ASSUME Drop PROVE HandlesInv'
  <2>1. /\ client.stage = "idle" /\ client'.stage = "gone" /\ UNCHANGED <<frames, held>>
    BY <1>12 DEF Drop, Leave, Idle
  <2>2. /\ ~ Serving' /\ ~ Requesting("start_scan")' /\ ~ Requesting("release_index")'
        /\ ~ Requesting("start_scan")
    BY <2>1 DEF Serving, Up, Requesting
  <2>3. \A i \in Ids \ held' : NoneIn(frames', CompletionsOf(i))
    BY <2>1, <2>2, NothingUnasked
  <2> QED
    BY <2>1, <2>2, <2>3, HandlesUnasked
<1>13. ASSUME KillBeam PROVE HandlesInv'
  <2>1. UNCHANGED <<frames, client, held>> /\ DOMAIN indexes' = {} /\ bridge'.at = "gone"
    BY <1>13 DEF KillBeam, Halt, Gone, Loop, user
  <2> QED
    BY <1>1, <2>1, HandlesStay DEF Serving, Up
<1>14. ASSUME NEW i \in Ids, WaiterReply(i) PROVE HandlesInv'
  <2> DEFINE m == Event(i, "ok")
  <2>1. Hears(i, "ok") /\ bridge' = bridge /\ Writes(m)
    BY <1>14, ReplyHears
  <2>2. /\ UNCHANGED <<client, held>> /\ DOMAIN indexes' = DOMAIN indexes /\ i \in DOMAIN indexes
        /\ m \in Completions
    BY <2>1 DEF Hears, user
  <2>3. /\ m \in Frames /\ \A j : m \in CompletionsOf(j) => j = i
        /\ \A j : m \notin GoodAnswersFor(j)
    BY <2>2 DEF CompletionsOf, GoodAnswersFor, Event, Frames
  <2>4. Serving' => Serving
    BY <2>1, <2>2 DEF Serving, Up
  <2>5. CASE client.stage = "gone"
    BY <2>1, <2>2, <2>5, HandlesGone DEF Writes
  <2>6. CASE client.stage # "gone"
    <3>1. frames' = Append(frames, m)
      BY <2>1, <2>6 DEF Writes
    <3> HIDE DEF m
    <3> QED
      BY <1>1, <2>2, <2>3, <2>4, <2>6, <3>1, HandlesSay
  <2> QED
    BY <2>5, <2>6
<1>15. ASSUME \E i \in Ids : WaiterDown(i) \/ Traverse(i) \/ Crash(i) \/ WaiterReturns(i) PROVE HandlesInv'
  <2>1. UNCHANGED <<frames, client, held, indexes, bridge>>
    BY <1>15 DEF WaiterDown, Traverse, Finish, Terminate, Crash, WaiterReturns, user
  <2> QED
    BY <1>1, <2>1, HandlesStay DEF Serving, Up
<1>16. ASSUME \/ \E op \in Requests, i \in Ids \cup {NoId} : Request(op, i)
              \/ \E i \in Ids : Await(i)
       PROVE  HandlesInv'
  <2>1. /\ client.stage = "idle" /\ UNCHANGED <<frames, held, indexes, bridge>>
        /\ client'.stage \in {"requesting", "awaiting"}
    <3>1. CASE \E op \in Requests, i \in Ids \cup {NoId} : Request(op, i)
      BY <3>1 DEF Request, beam
    <3>2. CASE \E i \in Ids : Await(i)
      BY <3>2 DEF Await, beam
    <3> QED
      BY <1>16, <3>1, <3>2
  <2>2. NoneIn(frames, Responses)
    BY <2>1 DEF TalkInv, AnswersAreExpected
  <2> QED
    BY <2>1, <2>2, HandlesAsked
<1>17. HandlesInv'
  BY <1>5, <1>6, <1>7, <1>8, <1>9, <1>10, <1>11, <1>12, <1>13, <1>14, <1>15, <1>16 DEF Next, Read
<1> QED
  BY <1>4, <1>17, HandlesRead
-----------------------------------------------------------------------------

LEMMA Initially == Init => Inv
<1> SUFFICES ASSUME Init PROVE Inv
  OBVIOUS
<1>1. BeamInv
  BY BeamInitially
<1>2. /\ requests = <<>> /\ frames = <<>> /\ events = <<>> /\ input_open = TRUE /\ next_request_id = 0
      /\ client = Idle /\ held = {} /\ awaited = {} /\ released = {} /\ result = "none"
      /\ bridge = Loop /\ DOMAIN indexes = {}
  BY DEF Init
<1>3. /\ client \in Clients /\ client.stage = "idle" /\ bridge.at = "loop"
  BY <1>2 DEF Idle, Loop, Clients, Handles
<1>4. PipeTypes /\ ClientTypes
  BY <1>2, <1>3, EmptySeq DEF PipeTypes, ClientTypes
<1>5. \A M : NoneIn(frames, M) /\ NoneIn(events, M)
  BY <1>2, EmptySeq DEF NoneIn
<1>6. TalkInv
  BY <1>2, <1>3, <1>5 DEF TalkInv, AnswersAreExpected, TurnIsClear, NobodyAsked
<1>7. \A i \in Ids : Unsaid(i) /\ SaidOnce(i)
  BY <1>2, <1>5 DEF Unsaid, SaidOnce
<1>8. CompletionsInv /\ TruthInv
  BY <1>2, <1>5, <1>7 DEF CompletionsInv, TruthInv
<1>9. HandlesInv
  BY <1>2, <1>3, <1>5 DEF HandlesInv, Answered
<1> QED
  BY <1>1, <1>4, <1>6, <1>8, <1>9 DEF Inv

LEMMA Invariance == Inv /\ [Next]_vars => Inv'
<1> SUFFICES ASSUME Inv, [Next]_vars PROVE Inv'
  OBVIOUS
<1>1. BeamInv /\ PipeTypes /\ ClientTypes /\ TalkInv /\ CompletionsInv /\ TruthInv /\ HandlesInv
  BY DEF Inv
<1>2. BeamInv' /\ BeamMoves
  BY <1>1, BeamStep
<1>3. PipeTypes' /\ ClientTypes'
  BY <1>1, <1>2, TypesStep
<1>4. TalkInv'
  BY <1>1, TalkStep
<1>5. /\ HandlesInv'
      /\ \A i \in released' : \/ i \in released
                              \/ /\ i \in Given /\ i \notin DOMAIN indexes
                                 /\ NoneIn(frames', CompletionsOf(i)) /\ NoneIn(events', CompletionsOf(i))
  BY <1>1, <1>2, HandlesStep
<1>6. \A i \in Ids : SaidBefore(i) \/ SaidNow(i)
  BY <1>1, StepsSpeak, QuietSays, PushSays, ReadSays
<1>7. CompletionsInv' /\ TruthInv'
  BY <1>1, <1>2, <1>5, <1>6, CompletionsStep
<1> QED
  BY <1>2, <1>3, <1>4, <1>5, <1>7 DEF Inv

\* The messages of a set, counted.
LEMMA CountOf ==
  ASSUME NEW X, NEW s \in Seq(X), NEW M, NEW K, K = {k \in DOMAIN s : s[k] \in M}
  PROVE  /\ NoneIn(s, M) => Cardinality(K) = 0
         /\ AtMostOne(s, M) => Cardinality(K) \in {0, 1}
         /\ AtMostOne(s, M) /\ ~ NoneIn(s, M) => Cardinality(K) = 1
<1>1. DOMAIN s = 1 .. Len(s)
  BY LenProperties
<1>2. NoneIn(s, M) => K = {}
  BY <1>1 DEF NoneIn
<1>3. ASSUME AtMostOne(s, M), NEW k \in K PROVE K = {k}
  BY <1>1, <1>3 DEF AtMostOne
<1>4. Cardinality({}) = 0 /\ \A k : Cardinality({k}) = 1
  BY FS_EmptySet, FS_Singleton
<1>5. ~ NoneIn(s, M) => K # {}
  BY <1>1 DEF NoneIn
<1> QED
  BY <1>2, <1>3, <1>4, <1>5

LEMMA InvGivesAnswers == Inv => OneAnswerPerRequest
<1> SUFFICES ASSUME Inv PROVE OneAnswerPerRequest
  OBVIOUS
<1>1. frames \in Seq(Frames) /\ TalkInv
  BY DEF Inv, PipeTypes
<1> DEFINE K == {k \in DOMAIN frames : frames[k].type = "response"}
<1>2. K = {k \in DOMAIN frames : frames[k] \in Responses}
  <2>1. \A k \in DOMAIN frames : frames[k] \in Frames
    BY <1>1, LenProperties, ElementOfSeq
  <2> QED
    BY <2>1 DEF Frames, Responses, Completions
<1>3. /\ NoneIn(frames, Responses) => Answers(frames) = 0
      /\ AtMostOne(frames, Responses) /\ ~ NoneIn(frames, Responses) => Answers(frames) = 1
  <2>1. Answers(frames) = Cardinality(K)
    BY DEF Answers
  <2> HIDE DEF K
  <2> QED
    BY <1>1, <1>2, <2>1, CountOf
<1> DEFINE busy == IF bridge.at \in {"awaiting", "releasing"} THEN 1 ELSE 0
<1>4. ASSUME Up
      PROVE  Len(requests) + Answers(frames) + busy = IF client.stage = "requesting" THEN 1 ELSE 0
  <2>1. CASE NobodyAsked
    <3>1. Len(requests) = 0 /\ Answers(frames) = 0
      BY <1>1, <1>3, <1>4, <2>1, EmptySeq DEF NobodyAsked, TalkInv, AnswersAreExpected, Up
    <3> QED
      BY <2>1, <3>1 DEF NobodyAsked
  <2>2. CASE RequestIsOut
    <3>1. Len(requests) = 1 /\ Answers(frames) = 0
      BY <1>3, <2>2 DEF RequestIsOut
    <3> QED
      BY <2>2, <3>1 DEF RequestIsOut
  <2>3. CASE BridgeIsBusy
    <3>1. Len(requests) = 0 /\ Answers(frames) = 0
      BY <1>3, <2>3, EmptySeq DEF BridgeIsBusy
    <3> QED
      BY <2>3, <3>1 DEF BridgeIsBusy
  <2>4. CASE AnswerIsOut
    <3>1. Len(requests) = 0 /\ Answers(frames) = 1
      BY <1>1, <1>3, <2>4, EmptySeq DEF AnswerIsOut, TalkInv, AnswersAreExpected
    <3> QED
      BY <2>4, <3>1 DEF AnswerIsOut
  <2> QED
    BY <1>1, <1>4, <2>1, <2>2, <2>3, <2>4 DEF TalkInv, TurnIsClear
<1> QED
  BY <1>1, <1>4 DEF OneAnswerPerRequest, TalkInv

LEMMA EventsCounted ==
  ASSUME Inv, NEW i \in Ids
  PROVE  /\ NoneIn(frames, CompletionsOf(i)) => EventsOf(i, frames) = 0
         /\ NoneIn(events, CompletionsOf(i)) => EventsOf(i, events) = 0
         /\ AtMostOne(frames, CompletionsOf(i)) => EventsOf(i, frames) \in {0, 1}
         /\ AtMostOne(events, CompletionsOf(i)) => EventsOf(i, events) \in {0, 1}
<1>1. frames \in Seq(Frames) /\ events \in Seq(Completions)
  BY DEF Inv, PipeTypes, ClientTypes
<1> DEFINE F == {k \in DOMAIN frames : frames[k].type = "event" /\ frames[k].index = i}
           E == {k \in DOMAIN events : events[k].type = "event" /\ events[k].index = i}
<1>2. F = {k \in DOMAIN frames : frames[k] \in CompletionsOf(i)}
  <2>1. \A k \in DOMAIN frames : frames[k] \in Frames
    BY <1>1, LenProperties, ElementOfSeq
  <2>2. \A m \in Frames : m \in CompletionsOf(i) <=> m.type = "event" /\ m.index = i
    BY DEF Frames, Responses, Completions, CompletionsOf
  <2> QED
    BY <2>1, <2>2
<1>3. E = {k \in DOMAIN events : events[k] \in CompletionsOf(i)}
  <2>1. \A k \in DOMAIN events : events[k] \in Completions
    BY <1>1, LenProperties, ElementOfSeq
  <2>2. \A m \in Completions : m \in CompletionsOf(i) <=> m.type = "event" /\ m.index = i
    BY DEF Completions, CompletionsOf
  <2> QED
    BY <2>1, <2>2
<1>4. EventsOf(i, frames) = Cardinality(F) /\ EventsOf(i, events) = Cardinality(E)
  BY DEF EventsOf
<1> HIDE DEF F, E
<1> QED
  BY SMTT(10), ZenonT(60), <1>1, <1>2, <1>3, <1>4, CountOf
LEMMA InvGivesHandles == Inv => HandlesStayInStep
<1> SUFFICES ASSUME Inv PROVE HandlesStayInStep
  OBVIOUS
<1>1. frames \in Seq(Frames) /\ DOMAIN indexes \subseteq Ids /\ held \subseteq Ids /\ released \subseteq Ids
  BY BeamHandles DEF Inv, BeamInv, PipeTypes, ClientTypes
<1>2. ASSUME NEW op, NEW i, Answered(op, i)
      PROVE  \E m \in Range(frames) : m.type = "response" /\ m.index = i
  <2>1. PICK k \in 1 .. Len(frames) : frames[k] \in GoodAnswersFor(i)
    BY <1>2 DEF Answered, NoneIn
  <2>2. frames[k] \in Range(frames)
    BY <1>1, <2>1, LenProperties DEF Range
  <2> QED
    BY <2>1, <2>2 DEF GoodAnswersFor
<1>3. HandlesAgree
  <2> SUFFICES ASSUME Up, bridge.at # "exiting" PROVE HandlesAgree
    BY DEF HandlesAgree
  <2>1. \A i \in held : i \in DOMAIN indexes \/ Answered("release_index", i)
    BY DEF Inv, HandlesInv
  <2>2. \A i \in DOMAIN indexes : i \in held \/ Answered("start_scan", i)
    BY DEF Inv, HandlesInv, Up
  <2>3. \A i \in Ids : Running(i) => i \in DOMAIN indexes
    BY DEF Inv, BeamInv, IndexesMatch
  <2> QED
    BY <1>2, <2>1, <2>2, <2>3 DEF HandlesAgree
<1>4. ReleasedIsForgotten
  <2> SUFFICES ASSUME NEW i \in released
               PROVE  i \notin DOMAIN indexes /\ ~ Running(i) /\ EventsOf(i, frames) + EventsOf(i, events) = 0
    BY DEF ReleasedIsForgotten
  <2>1. i \in Ids
    BY <1>1
  <2>2. i \notin DOMAIN indexes /\ NoneIn(frames, CompletionsOf(i)) /\ NoneIn(events, CompletionsOf(i))
    BY <2>1 DEF Inv, CompletionsInv
  <2>3. ~ Running(i)
    BY <2>1, <2>2 DEF Inv, BeamInv, IndexesMatch
  <2> QED
    BY <2>1, <2>2, <2>3, EventsCounted
<1> QED
  BY <1>3, <1>4 DEF HandlesStayInStep

LEMMA InvGivesCompletions == Inv => CompletionIsExact
<1> SUFFICES ASSUME Inv PROVE CompletionIsExact
  OBVIOUS
<1>1. frames \in Seq(Frames) /\ events \in Seq(Completions) /\ awaited \subseteq Ids /\ crashes \in Nat
  BY BeamHandles DEF Inv, BeamInv, BeamTypes, PipeTypes, ClientTypes
<1>2. CompletionIsPushedOnce
  <2>1. ASSUME NEW i \in Ids
        PROVE  EventsOf(i, frames) + EventsOf(i, events) + (IF i \in awaited THEN 1 ELSE 0) <= 1
    <3>1. SaidOnce(i)
      BY DEF Inv, CompletionsInv
    <3>2. CASE AtMostOne(frames, CompletionsOf(i)) /\ NoneIn(events, CompletionsOf(i)) /\ i \notin awaited
      <4>1. EventsOf(i, frames) \in {0, 1} /\ EventsOf(i, events) = 0
        BY <3>2, EventsCounted
      <4> QED
        BY <3>2, <4>1
    <3>3. CASE NoneIn(frames, CompletionsOf(i)) /\ AtMostOne(events, CompletionsOf(i)) /\ i \notin awaited
      <4>1. EventsOf(i, frames) = 0 /\ EventsOf(i, events) \in {0, 1}
        BY <3>3, EventsCounted
      <4> QED
        BY <3>3, <4>1
    <3>4. CASE NoneIn(frames, CompletionsOf(i)) /\ NoneIn(events, CompletionsOf(i))
      <4>1. EventsOf(i, frames) = 0 /\ EventsOf(i, events) = 0
        BY <3>4, EventsCounted
      <4> QED
        BY <4>1
    <3> QED
      BY <3>1, <3>2, <3>3, <3>4 DEF SaidOnce
  <2>2. ASSUME NEW i \in Ids, NEW k \in DOMAIN frames, frames[k].type = "event", frames[k].index = i, i \notin held
        PROVE  \E j \in 1 .. k - 1 : frames[j].type = "response" /\ frames[j].index = i
    <3>1. k \in 1 .. Len(frames) /\ frames[k] \in Frames
      BY <1>1, LenProperties, ElementOfSeq
    <3>2. frames[k] \in CompletionsOf(i)
      BY <2>2, <3>1 DEF Frames, Responses, Completions, CompletionsOf
    <3>3. Preceded(frames, GoodAnswersFor(i), CompletionsOf(i))
      BY <2>2, <3>1, <3>2 DEF Inv, HandlesInv, NoneIn
    <3>4. PICK j \in 1 .. k - 1 : frames[j] \in GoodAnswersFor(i)
      BY <3>1, <3>2, <3>3 DEF Preceded
    <3> QED
      BY <3>4 DEF GoodAnswersFor
  <2> QED
    BY <2>1, <2>2 DEF CompletionIsPushedOnce
<1>3. CompletionIsTrue
  <2>1. ASSUME NEW m \in Range(frames) \cup Range(events), m.type = "event"
        PROVE  /\ m.status = "ok" => coordinator[m.index] # "running"
               /\ m.status = "error" => crashes > 0
    <3>1. \/ \E k \in 1 .. Len(frames) : m = frames[k]
          \/ \E k \in 1 .. Len(events) : m = events[k]
      BY <1>1, LenProperties DEF Range
    <3>2. m \in Frames
      BY <1>1, <3>1, ElementOfSeq DEF Frames
    <3>3. m \in Completions
      BY <2>1, <3>2 DEF Frames, Responses
    <3>4. m.index \in Ids /\ m \in CompletionsOf(m.index)
      BY <3>3 DEF Completions, CompletionsOf
    <3>5. PICK i \in Ids : i = m.index
      BY <3>4
    <3>6. m \notin UntrueOf(i)
      BY <3>1 DEF Inv, TruthInv, NoneIn
    <3>7. coordinator[i] # "running" /\ (m.status = "error" => crashes # 0)
      BY <3>4, <3>5, <3>6 DEF UntrueOf
    <3> QED
      BY <1>1, <3>5, <3>7
  <2>2. \A i \in awaited : coordinator[i] # "running"
    BY <1>1 DEF Inv, TruthInv
  <2> QED
    BY <2>1, <2>2 DEF CompletionIsTrue
<1> QED
  BY <1>2, <1>3 DEF CompletionIsExact

\* Whatever the client asks for, and whoever crashes, dies or is killed: one answer
\* for one request, a handle that means the same to both sides, and one completion
\* of an index, a true one (request_value and await_scan of client.rs, event_loop
\* and emit_scan_finished_once of bridge.ex).
THEOREM ClientAndBridgeAgree == Spec => []BothSidesAgree
<1>1. Init => Inv
  BY Initially
<1>2. Inv /\ [Next]_vars => Inv'
  BY Invariance
<1>3. Inv => BothSidesAgree
  BY InvGivesAnswers, InvGivesHandles, InvGivesCompletions DEF BothSidesAgree
<1> QED
  BY <1>1, <1>2, <1>3, PTL DEF Spec
=============================================================================
