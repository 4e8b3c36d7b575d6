--------------------------- MODULE SeqFilter_proofs ---------------------------
(***************************************************************************)
(* What Filter returns, for every sequence and every set of places.        *)
(***************************************************************************)
EXTENDS SeqFilter, SequenceTheorems, WellFoundedInduction, TLAPS

-----------------------------------------------------------------------------
(* A set of numbers that holds with each of its successors up to n, and     *)
(* with 0, is the whole range.                                              *)
LEMMA UpTo ==
    ASSUME NEW n \in Nat, NEW Q, 0 \in Q,
           \A k \in 0 .. (n - 1) : k \in Q => k + 1 \in Q
    PROVE  \A k \in 0 .. n : k \in Q
<1> DEFINE Bad == {k \in 0 .. n : k \notin Q}
           R == OpToRel(<, Nat)
<1> SUFFICES ASSUME Bad # {} PROVE FALSE
  OBVIOUS
<1>1. PICK b \in Bad : \A m \in Bad : ~(<<m, b>> \in R)
  <2>1. Bad \subseteq Nat
    OBVIOUS
  <2> HIDE DEF Bad
  <2>2. IsWellFoundedOn(R, Nat)
    BY NatLessThanWellFounded
  <2> HIDE DEF R
  <2> QED BY <2>1, <2>2, WFMin
<1>2. \A m \in Bad : ~(m < b)
  <2>1. \A m \in Bad : m \in Nat /\ b \in Nat
    OBVIOUS
  <2> HIDE DEF Bad
  <2> QED BY <1>1, <2>1 DEF OpToRel
<1>3. b # 0 /\ b \in 0 .. n /\ b \notin Q
  OBVIOUS
<1>4. b - 1 \in 0 .. (n - 1) /\ b - 1 \in 0 .. n /\ b - 1 < b
  BY <1>3
<1>5. b - 1 \in Q
  BY <1>2, <1>4
<1>6. (b - 1) + 1 \in Q
  BY <1>4, <1>5
<1> QED BY <1>3, <1>6

(* One round of the loop: what was kept of s so far, and element k. *)
Round(s, S, old, k) == IF k \in S THEN Append(old, s[k]) ELSE old

(* The loop has a result after every round. *)
LEMMA FilterRounds ==
    ASSUME NEW T, NEW s \in Seq(T), NEW S
    PROVE  \E f : /\ Filter(s, S) = f[Len(s)]
                  /\ f[0] = <<>>
                  /\ \A k \in 1 .. Len(s) : f[k] = Round(s, S, f[k - 1], k)
<1> DEFINE n == Len(s)
           Body(f, D) == [k \in D |-> IF k = 0 THEN <<>>
                                     ELSE IF k \in S THEN Append(f[k - 1], s[k]) ELSE f[k - 1]]
           Q == {m \in Nat : \E f : f = Body(f, 0 .. m)}
<1>0. n \in Nat
  OBVIOUS
<1>1. 0 \in Q
  <2> DEFINE f == [k \in 0 .. 0 |-> <<>>]
  <2>1. f = Body(f, 0 .. 0)
    OBVIOUS
  <2> QED BY <2>1
<1>2. ASSUME NEW m \in 0 .. (n - 1), m \in Q PROVE m + 1 \in Q
  <2>1. PICK f : f = Body(f, 0 .. m)
    BY <1>2
  <2> DEFINE g == [k \in 0 .. (m + 1) |-> IF k = m + 1 THEN Round(s, S, f[m], m + 1) ELSE f[k]]
  <2>2. \A k \in 0 .. m : f[k] = IF k = 0 THEN <<>>
                                ELSE IF k \in S THEN Append(f[k - 1], s[k]) ELSE f[k - 1]
    BY <2>1
  <2>3. m \in Nat
    BY <1>0
  <2>4. g = Body(g, 0 .. (m + 1))
    <3>1. ASSUME NEW k \in 0 .. (m + 1)
          PROVE  g[k] = IF k = 0 THEN <<>>
                        ELSE IF k \in S THEN Append(g[k - 1], s[k]) ELSE g[k - 1]
      <4>1. CASE k = m + 1
        <5>1. g[k] = Round(s, S, f[m], m + 1) /\ k - 1 = m /\ k # 0 /\ g[m] = f[m]
          BY <2>3, <4>1
        <5> QED BY <4>1, <5>1 DEF Round
      <4>2. CASE k # m + 1 /\ k # 0
        <5>1. k \in 0 .. m /\ k - 1 \in 0 .. (m + 1) /\ k - 1 # m + 1
          BY <2>3, <4>2
        <5>2. g[k] = f[k] /\ g[k - 1] = f[k - 1]
          BY <4>2, <5>1
        <5> QED BY <2>2, <4>2, <5>1, <5>2
      <4>3. CASE k = 0
        <5>1. 0 \in 0 .. m /\ 0 # m + 1
          BY <2>3
        <5> QED BY <2>2, <4>3, <5>1
      <4> QED BY <4>1, <4>2, <4>3
    <3> QED BY <3>1
  <2> HIDE DEF g
  <2>5. m + 1 \in Nat
    BY <2>3
  <2> QED BY <2>4, <2>5
<1>3. n \in Q
  <2> HIDE DEF Q, n
  <2>1. n \in 0 .. n
    BY <1>0
  <2> QED BY <1>0, <1>1, <1>2, <2>1, UpTo
<1> DEFINE kept == CHOOSE f : f = Body(f, 0 .. n)
<1>4. kept = Body(kept, 0 .. n)
  BY <1>3
<1>5. Filter(s, S) = kept[n]
  BY DEF Filter
<1> HIDE DEF kept
<1>6. kept[0] = <<>>
  <2>1. 0 \in 0 .. n
    BY <1>0
  <2> QED BY <1>4, <2>1
<1>7. \A k \in 1 .. n : kept[k] = Round(s, S, kept[k - 1], k)
  <2> TAKE k \in 1 .. n
  <2>1. k \in 0 .. n /\ k # 0
    BY <1>0
  <2>2. kept[k] = IF k = 0 THEN <<>>
                  ELSE IF k \in S THEN Append(kept[k - 1], s[k]) ELSE kept[k - 1]
    BY <1>4, <2>1
  <2> QED BY <2>1, <2>2 DEF Round
<1> QED BY <1>5, <1>6, <1>7

-----------------------------------------------------------------------------
(* F is what is kept of the first n elements: g tells where each of its     *)
(* elements was, in order, and misses no place in S.                        *)
Keeps(g, F, s, S, n) ==
    /\ g \in [1 .. Len(F) -> 1 .. n]
    /\ \A i \in 1 .. Len(F) : F[i] = s[g[i]] /\ g[i] \in S
    /\ \A i, j \in 1 .. Len(F) : i < j => g[i] < g[j]
    /\ \A k \in 1 .. n : k \in S => \E i \in 1 .. Len(F) : g[i] = k

(* Filter keeps the elements at the places in S, each at its turn. *)
LEMMA FilterKeeps ==
    ASSUME NEW T, NEW s \in Seq(T), NEW S
    PROVE  Filter(s, S) \in Seq(T) /\ \E g : Keeps(g, Filter(s, S), s, S, Len(s))
<1> DEFINE n == Len(s)
<1>0. n \in Nat
  OBVIOUS
<1>1. PICK f : /\ Filter(s, S) = f[n]
               /\ f[0] = <<>>
               /\ \A k \in 1 .. n : f[k] = Round(s, S, f[k - 1], k)
  BY FilterRounds
<1> DEFINE Q == {k \in 0 .. n : f[k] \in Seq(T) /\ \E g : Keeps(g, f[k], s, S, k)}
<1> HIDE DEF n
<1>2. 0 \in Q
  <2> DEFINE g == [i \in 1 .. 0 |-> 1]
  <2>1. Keeps(g, <<>>, s, S, 0)
    BY DEF Keeps
  <2>2. <<>> \in Seq(T) /\ 0 \in 0 .. n
    BY <1>0
  <2> HIDE DEF g
  <2> QED BY <1>1, <2>1, <2>2
<1>3. ASSUME NEW k \in 0 .. (n - 1), k \in Q PROVE k + 1 \in Q
  <2>0. /\ k \in Nat /\ k + 1 \in 1 .. n /\ k + 1 \in 0 .. n /\ (k + 1) - 1 = k
        /\ s[k + 1] \in T
    BY <1>0 DEF n
  <2> DEFINE F == f[k]
             G == f[k + 1]
             e == s[k + 1]
  <2>1. F \in Seq(T) /\ Len(F) \in Nat
    BY <1>3
  <2>2. PICK g : Keeps(g, F, s, S, k)
    BY <1>3
  <2>3. G = Round(s, S, F, k + 1)
    BY <1>1, <2>0
  <2> HIDE DEF F, G
  <2>4. CASE k + 1 \in S
    <3> DEFINE l == Len(F)
               h == [i \in 1 .. (l + 1) |-> IF i = l + 1 THEN k + 1 ELSE g[i]]
    <3>1. G = Append(F, e)
      BY <2>3, <2>4 DEF Round
    <3>2. /\ G \in Seq(T) /\ Len(G) = l + 1 /\ G[l + 1] = e
          /\ \A i \in 1 .. l : G[i] = F[i]
      BY <2>0, <2>1, <3>1, AppendProperties
    <3>3. l \in Nat
      BY <2>1
    <3> HIDE DEF l
    <3>4. /\ h[l + 1] = k + 1
          /\ \A i \in 1 .. l : h[i] = g[i] /\ g[i] \in 1 .. k
          /\ \A i \in 1 .. (l + 1) : i \in 1 .. l \/ i = l + 1
      <4>1. \A i \in 1 .. l : i \in 1 .. (l + 1) /\ i # l + 1
        BY <3>3
      <4>2. l + 1 \in 1 .. (l + 1) /\ \A i \in 1 .. (l + 1) : i \in 1 .. l \/ i = l + 1
        BY <3>3
      <4>3. \A i \in 1 .. l : g[i] \in 1 .. k
        BY <2>2 DEF Keeps, l
      <4> QED BY <4>1, <4>2, <4>3
    <3>5. h \in [1 .. (l + 1) -> 1 .. (k + 1)]
      BY <2>0, <3>3, <3>4
    <3> HIDE DEF h
    <3>6. \A i \in 1 .. (l + 1) : G[i] = s[h[i]] /\ h[i] \in S
      BY <2>2, <2>4, <3>2, <3>4 DEF Keeps, l
    <3>7. \A i, j \in 1 .. (l + 1) : i < j => h[i] < h[j]
      <4> SUFFICES ASSUME NEW i \in 1 .. (l + 1), NEW j \in 1 .. (l + 1), i < j
                   PROVE  h[i] < h[j]
        OBVIOUS
      <4>1. i \in 1 .. l
        BY <3>3
      <4>2. CASE j = l + 1
        BY <2>0, <3>4, <4>1, <4>2
      <4>3. CASE j \in 1 .. l
        BY <2>2, <3>4, <4>1, <4>3 DEF Keeps, l
      <4> QED BY <3>4, <4>2, <4>3
    <3>8. \A q \in 1 .. (k + 1) : q \in S => \E i \in 1 .. (l + 1) : h[i] = q
      <4> SUFFICES ASSUME NEW q \in 1 .. (k + 1), q \in S
                   PROVE  \E i \in 1 .. (l + 1) : h[i] = q
        OBVIOUS
      <4>1. CASE q = k + 1
        BY <3>3, <3>4, <4>1
      <4>2. CASE q # k + 1
        <5>1. q \in 1 .. k
          BY <2>0, <4>2
        <5>2. PICK i \in 1 .. l : g[i] = q
          BY <2>2, <5>1 DEF Keeps, l
        <5>3. i \in 1 .. (l + 1) /\ h[i] = q
          BY <3>3, <3>4, <5>2
        <5> QED BY <5>3
      <4> QED BY <4>1, <4>2
    <3>9. Keeps(h, G, s, S, k + 1)
      BY <3>2, <3>5, <3>6, <3>7, <3>8 DEF Keeps
    <3> QED BY <2>0, <3>2, <3>9 DEF G
  <2>5. CASE k + 1 \notin S
    <3>1. G = F
      BY <2>3, <2>5 DEF Round
    <3>2. g \in [1 .. Len(F) -> 1 .. (k + 1)]
      BY <2>0, <2>2 DEF Keeps
    <3>3. \A q \in 1 .. (k + 1) : q \in S => q \in 1 .. k
      BY <2>0, <2>5
    <3>4. Keeps(g, G, s, S, k + 1)
      BY <2>2, <3>1, <3>2, <3>3 DEF Keeps
    <3> QED BY <2>0, <2>1, <3>1, <3>4 DEF G
  <2> QED BY <2>4, <2>5
<1>4. n \in Q
  <2> HIDE DEF Q
  <2>1. n \in 0 .. n
    BY <1>0
  <2> QED BY <1>0, <1>2, <1>3, <2>1, UpTo
<1> QED BY <1>1, <1>4 DEF n

(* If S has the first m places and none of the others, the sequence is cut  *)
(* after them.                                                              *)
LEMMA FilterPrefix ==
    ASSUME NEW T, NEW s \in Seq(T), NEW S, NEW m \in 0 .. Len(s),
           \A k \in 1 .. m : k \in S,
           \A k \in (m + 1) .. Len(s) : k \notin S
    PROVE  Filter(s, S) = SubSeq(s, 1, m)
<1> DEFINE n == Len(s)
           cut(k) == IF k <= m THEN k ELSE m
<1>0. n \in Nat /\ m \in Nat /\ m <= n
  OBVIOUS
<1>1. PICK f : /\ Filter(s, S) = f[n]
               /\ f[0] = <<>>
               /\ \A k \in 1 .. n : f[k] = Round(s, S, f[k - 1], k)
  BY FilterRounds
<1> DEFINE Q == {k \in 0 .. n : f[k] = SubSeq(s, 1, cut(k))}
<1>2. 0 \in Q
  <2>1. SubSeq(s, 1, 0) = <<>>
    BY SubSeqEmpty
  <2>2. cut(0) = 0 /\ 0 \in 0 .. n
    BY <1>0
  <2> QED BY <1>1, <2>1, <2>2
<1>3. ASSUME NEW k \in 0 .. (n - 1), k \in Q PROVE k + 1 \in Q
  <2>0. k \in Nat /\ k + 1 \in 1 .. n /\ k + 1 \in 0 .. n /\ (k + 1) - 1 = k
    BY <1>0
  <2>1. f[k + 1] = Round(s, S, f[k], k + 1)
    BY <1>1, <2>0
  <2>2. f[k] = SubSeq(s, 1, cut(k))
    BY <1>3
  <2>3. CASE k + 1 <= m
    <3>1. k + 1 \in S /\ cut(k) = k /\ cut(k + 1) = k + 1
      BY <1>0, <2>0, <2>3
    <3>2. Append(SubSeq(s, 1, k), s[k + 1]) = SubSeq(s, 1, k + 1)
      <4> DEFINE A == SubSeq(s, 1, k)
                 B == SubSeq(s, 1, k + 1)
      <4>0. s[k + 1] \in T /\ \A i \in 1 .. (k + 1) : s[i] \in T
        BY <2>0
      <4>1. A \in Seq(T) /\ Len(A) = k /\ \A i \in 1 .. k : A[i] = s[i]
        BY <2>0
      <4>2. B \in Seq(T) /\ Len(B) = k + 1 /\ \A i \in 1 .. (k + 1) : B[i] = s[i]
        BY <2>0
      <4> HIDE DEF A, B
      <4>3. /\ Append(A, s[k + 1]) \in Seq(T) /\ Len(Append(A, s[k + 1])) = k + 1
            /\ \A i \in 1 .. k : Append(A, s[k + 1])[i] = A[i]
            /\ Append(A, s[k + 1])[k + 1] = s[k + 1]
        BY <4>0, <4>1, AppendProperties
      <4>4. \A i \in 1 .. (k + 1) : Append(A, s[k + 1])[i] = B[i]
        BY <2>0, <4>1, <4>2, <4>3
      <4>5. Append(A, s[k + 1]) = B
        BY <4>2, <4>3, <4>4, SeqEqual
      <4> QED BY <4>5 DEF A, B
    <3> QED BY <2>0, <2>1, <2>2, <3>1, <3>2 DEF Round
  <2>4. CASE ~(k + 1 <= m)
    <3>1. k + 1 \notin S /\ cut(k) = m /\ cut(k + 1) = m
      BY <1>0, <2>0, <2>4
    <3> HIDE DEF cut
    <3> QED BY <2>0, <2>1, <2>2, <3>1 DEF Round
  <2> QED BY <2>3, <2>4
<1>4. n \in Q
  <2> HIDE DEF Q, n
  <2>1. n \in 0 .. n
    BY <1>0
  <2> QED BY <1>0, <1>2, <1>3, <2>1, UpTo
<1>5. cut(n) = m
  BY <1>0
<1> QED BY <1>1, <1>4, <1>5

(* Nothing is added. *)
LEMMA FilterShorter ==
    ASSUME NEW T, NEW s \in Seq(T), NEW S
    PROVE  Len(Filter(s, S)) <= Len(s)
<1> DEFINE F == Filter(s, S)
           l == Len(F)
           n == Len(s)
<1>1. PICK g : Keeps(g, F, s, S, n)
  BY FilterKeeps
<1>2. l \in Nat /\ n \in Nat
  BY FilterKeeps
<1> DEFINE Q == {k \in 0 .. l : k = 0 \/ k <= g[k]}
<1> HIDE DEF F, l, n
<1>3. 0 \in Q
  BY <1>2
<1>4. ASSUME NEW k \in 0 .. (l - 1), k \in Q PROVE k + 1 \in Q
  <2>1. k + 1 \in 0 .. l /\ k + 1 \in 1 .. l /\ k \in Nat
    BY <1>2
  <2>2. g[k + 1] \in 1 .. n
    BY <1>1, <2>1 DEF Keeps, l
  <2>3. CASE k = 0
    BY <1>2, <2>1, <2>2, <2>3
  <2>4. CASE k # 0
    <3>1. k \in 1 .. l /\ k < k + 1 /\ k <= g[k]
      BY <1>2, <1>4, <2>1, <2>4
    <3>2. g[k] < g[k + 1] /\ g[k] \in 1 .. n
      BY <1>1, <2>1, <3>1 DEF Keeps, l
    <3> QED BY <1>2, <2>1, <2>2, <3>1, <3>2
  <2> QED BY <2>3, <2>4
<1>5. l \in Q
  <2> HIDE DEF Q
  <2>1. l \in 0 .. l
    BY <1>2
  <2> QED BY <1>2, <1>3, <1>4, <2>1, UpTo
<1>6. l <= n
  <2>1. CASE l = 0
    BY <1>2, <2>1
  <2>2. CASE l # 0
    <3>1. l \in 1 .. l /\ l <= g[l]
      BY <1>2, <1>5, <2>2
    <3>2. g[l] \in 1 .. n
      BY <1>1, <3>1 DEF Keeps, l
    <3> QED BY <1>2, <3>1, <3>2
  <2> QED BY <2>1, <2>2
<1> QED BY <1>6 DEF F, l, n
=============================================================================
