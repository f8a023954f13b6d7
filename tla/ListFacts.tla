------------------------------ MODULE ListFacts ------------------------------
(***************************************************************************)
(* Facts about lists that are changed in place, for the proofs about the   *)
(* modules that keep their peers or entries in one: what is in a list, and *)
(* that nothing is in it twice, after two lists are joined, an element is  *)
(* added, one is taken out, or those are kept that are in a set.            *)
(***************************************************************************)
EXTENDS Lists, SequencesExt, SequenceTheorems, NaturalsInduction, WellFoundedInduction, TLAPS

(* The members of a list are what its places hold. *)
LEMMA ListMembers ==
  ASSUME NEW S, NEW s \in Seq(S)
  PROVE  /\ ToSet(s) = {s[i] : i \in 1 .. Len(s)}
         /\ ToSet(s) \subseteq S
  BY LenProperties, ElementOfSeq DEF ToSet

(* Nothing is in a list twice if no two of its places hold the same. *)
LEMMA ListInjective ==
  ASSUME NEW S, NEW s \in Seq(S)
  PROVE  IsInjective(s) <=> \A i, j \in 1 .. Len(s) : s[i] = s[j] => i = j
  BY LenProperties DEF IsInjective

(* Two lists, one behind the other. *)
LEMMA JoinedMembers ==
  ASSUME NEW S, NEW s \in Seq(S), NEW t \in Seq(S)
  PROVE  ToSet(s \o t) = ToSet(s) \cup ToSet(t)
<1> DEFINE u == s \o t
<1>1. /\ u \in Seq(S)
      /\ Len(s) \in Nat /\ Len(t) \in Nat
      /\ Len(u) = Len(s) + Len(t)
      /\ \A i \in 1 .. Len(s) : i \in 1 .. Len(u) /\ u[i] = s[i]
      /\ \A i \in 1 .. Len(t) : Len(s) + i \in 1 .. Len(u) /\ u[Len(s) + i] = t[i]
  BY ConcatProperties, LenProperties
<1> HIDE DEF u
<1>2. /\ ToSet(u) = {u[i] : i \in 1 .. Len(u)}
      /\ ToSet(s) = {s[i] : i \in 1 .. Len(s)}
      /\ ToSet(t) = {t[i] : i \in 1 .. Len(t)}
  BY <1>1, ListMembers
<1>3. ASSUME NEW i \in 1 .. Len(u)
      PROVE  u[i] \in ToSet(s) \cup ToSet(t)
  <2>1. CASE i <= Len(s)
    BY <1>1, <1>2, <2>1
  <2>2. CASE i > Len(s)
    <3>1. i - Len(s) \in 1 .. Len(t) /\ i = Len(s) + (i - Len(s))
      BY <1>1, <2>2
    <3>2. QED
      BY <1>1, <1>2, <3>1
  <2>3. QED
    BY <1>1, <2>1, <2>2
<1>4. ToSet(u) \subseteq ToSet(s) \cup ToSet(t)
  BY <1>2, <1>3
<1>5. ToSet(s) \subseteq ToSet(u)
  BY <1>1, <1>2
<1>6. ToSet(t) \subseteq ToSet(u)
  BY <1>1, <1>2
<1>7. QED
  BY <1>4, <1>5, <1>6 DEF u

LEMMA JoinedInjective ==
  ASSUME NEW S, NEW s \in Seq(S), NEW t \in Seq(S)
  PROVE  IsInjective(s \o t) <=>
           /\ IsInjective(s)
           /\ IsInjective(t)
           /\ ToSet(s) \cap ToSet(t) = {}
<1>1. /\ s \o t \in Seq(S)
      /\ Len(s) \in Nat /\ Len(t) \in Nat
      /\ Len(s \o t) = Len(s) + Len(t)
      /\ \A i \in 1 .. Len(s) : (s \o t)[i] = s[i]
      /\ \A i \in 1 .. Len(t) : (s \o t)[Len(s) + i] = t[i]
  BY ConcatProperties, LenProperties
<1>2. ASSUME IsInjective(s \o t)
      PROVE  /\ IsInjective(s)
             /\ IsInjective(t)
             /\ ToSet(s) \cap ToSet(t) = {}
  <2>1. \A i, j \in 1 .. Len(s \o t) : (s \o t)[i] = (s \o t)[j] => i = j
    BY <1>1, <1>2, ListInjective
  <2>2. IsInjective(s)
    <3>1. \A i, j \in 1 .. Len(s) : s[i] = s[j] => i = j
      BY <1>1, <2>1
    <3>2. QED
      BY <3>1, ListInjective
  <2>3. IsInjective(t)
    <3>1. ASSUME NEW i \in 1 .. Len(t), NEW j \in 1 .. Len(t), t[i] = t[j]
          PROVE  i = j
      <4>1. /\ Len(s) + i \in 1 .. Len(s \o t) /\ Len(s) + j \in 1 .. Len(s \o t)
            /\ (s \o t)[Len(s) + i] = (s \o t)[Len(s) + j]
        BY <1>1, <3>1
      <4>2. Len(s) + i = Len(s) + j
        BY <2>1, <4>1
      <4>3. QED
        BY <1>1, <4>2
    <3>2. QED
      BY <3>1, ListInjective
  <2>4. ASSUME NEW i \in 1 .. Len(s), NEW j \in 1 .. Len(t), s[i] = t[j]
        PROVE  FALSE
    <3>1. /\ i \in 1 .. Len(s \o t) /\ Len(s) + j \in 1 .. Len(s \o t)
          /\ (s \o t)[i] = (s \o t)[Len(s) + j]
      BY <1>1, <2>4
    <3>2. i = Len(s) + j
      BY <2>1, <3>1
    <3>3. QED
      BY <1>1, <3>2
  <2>5. QED
    BY <2>2, <2>3, <2>4, ListMembers
<1>3. ASSUME IsInjective(s), IsInjective(t), ToSet(s) \cap ToSet(t) = {}
      PROVE  IsInjective(s \o t)
  <2>1. /\ \A i, j \in 1 .. Len(s) : s[i] = s[j] => i = j
        /\ \A i, j \in 1 .. Len(t) : t[i] = t[j] => i = j
    BY <1>3, ListInjective
  <2>2. \A i \in 1 .. Len(s) : \A j \in 1 .. Len(t) : s[i] # t[j]
    BY <1>3, ListMembers
  <2>3. ASSUME NEW i \in 1 .. Len(s \o t), NEW j \in 1 .. Len(s \o t),
               (s \o t)[i] = (s \o t)[j]
        PROVE  i = j
    <3>1. CASE i <= Len(s) /\ j <= Len(s)
      BY <1>1, <2>1, <2>3, <3>1
    <3>2. CASE i > Len(s) /\ j > Len(s)
      <4>1. i - Len(s) \in 1 .. Len(t) /\ j - Len(s) \in 1 .. Len(t)
        BY <1>1, <3>2
      <4>2. t[i - Len(s)] = t[j - Len(s)]
        BY <1>1, <2>3, <3>2, <4>1, ConcatProperties
      <4>3. i - Len(s) = j - Len(s)
        BY <2>1, <4>1, <4>2
      <4>4. QED
        BY <1>1, <4>3
    <3>3. CASE i <= Len(s) /\ j > Len(s)
      <4>1. i \in 1 .. Len(s) /\ j - Len(s) \in 1 .. Len(t)
        BY <1>1, <3>3
      <4>2. s[i] = t[j - Len(s)]
        BY <1>1, <2>3, <3>3, <4>1, ConcatProperties
      <4>3. QED
        BY <2>2, <4>1, <4>2
    <3>4. CASE i > Len(s) /\ j <= Len(s)
      <4>1. j \in 1 .. Len(s) /\ i - Len(s) \in 1 .. Len(t)
        BY <1>1, <3>4
      <4>2. s[j] = t[i - Len(s)]
        BY <1>1, <2>3, <3>4, <4>1, ConcatProperties
      <4>3. QED
        BY <2>2, <4>1, <4>2
    <3>5. QED
      BY <1>1, <3>1, <3>2, <3>3, <3>4
  <2>4. QED
    BY <1>1, <2>3, ListInjective
<1>4. QED
  BY <1>2, <1>3

(* One more at the end. *)
LEMMA AppendedMembers ==
  ASSUME NEW S, NEW s \in Seq(S), NEW e \in S
  PROVE  /\ ToSet(Append(s, e)) = ToSet(s) \cup {e}
         /\ IsInjective(Append(s, e)) <=> IsInjective(s) /\ e \notin ToSet(s)
<1> DEFINE one == <<e>>
<1>1. /\ one \in Seq(S)
      /\ Len(one) = 1
      /\ one[1] = e
  OBVIOUS
<1>2. Append(s, e) = s \o one
  BY AppendIsConcat
<1> HIDE DEF one
<1>3. ToSet(one) = {e}
  <2>1. ToSet(one) = {one[i] : i \in 1 .. 1}
    BY <1>1, ListMembers
  <2>2. \A i : i \in 1 .. 1 <=> i = 1
    OBVIOUS
  <2>3. QED
    BY <1>1, <2>1, <2>2
<1>4. IsInjective(one)
  <2>1. \A i, j \in 1 .. Len(one) : i = j
    BY <1>1
  <2>2. QED
    BY <1>1, <2>1, ListInjective
<1>5. ToSet(s \o one) = ToSet(s) \cup {e}
  BY <1>1, <1>3, JoinedMembers
<1>6. IsInjective(s \o one) <=> IsInjective(s) /\ ToSet(s) \cap {e} = {}
  BY <1>1, <1>3, <1>4, JoinedInjective
<1>7. QED
  BY <1>2, <1>5, <1>6

(* One taken out: those behind it move up. *)
LEMMA RemovedPlaces ==
  ASSUME NEW S, NEW s \in Seq(S), NEW i \in 1 .. Len(s)
  PROVE  /\ RemoveAt(s, i) \in Seq(S)
         /\ Len(RemoveAt(s, i)) = Len(s) - 1
         /\ \A j \in 1 .. Len(s) - 1 :
              RemoveAt(s, i)[j] = IF j < i THEN s[j] ELSE s[j + 1]
<1> DEFINE a == SubSeq(s, 1, i - 1)
           b == SubSeq(s, i + 1, Len(s))
<1>1. Len(s) \in Nat
  BY LenProperties
<1>2. /\ a \in Seq(S)
      /\ Len(a) = i - 1
      /\ \A j \in 1 .. i - 1 : a[j] = s[j]
  <2>1. \A j \in 1 .. i - 1 : s[j] \in S
    BY <1>1, ElementOfSeq
  <2>2. /\ 1 \in Int /\ i - 1 \in Int
        /\ (IF 1 <= i - 1 THEN (i - 1) - 1 + 1 ELSE 0) = i - 1
    BY <1>1
  <2>3. /\ a \in Seq(S)
        /\ Len(a) = i - 1
        /\ \A j \in 1 .. (i - 1) - 1 + 1 : a[j] = s[1 + j - 1]
    BY <2>1, <2>2, SubSeqProperties
  <2>4. \A j \in 1 .. i - 1 : j \in 1 .. (i - 1) - 1 + 1 /\ 1 + j - 1 = j
    BY <1>1
  <2>5. QED
    BY <2>3, <2>4
<1>3. /\ b \in Seq(S)
      /\ Len(b) = Len(s) - i
      /\ \A j \in 1 .. Len(s) - i : b[j] = s[i + j]
  <2>1. \A j \in i + 1 .. Len(s) : s[j] \in S
    BY <1>1, ElementOfSeq
  <2>2. /\ i + 1 \in Int /\ Len(s) \in Int
        /\ (IF i + 1 <= Len(s) THEN Len(s) - (i + 1) + 1 ELSE 0) = Len(s) - i
    BY <1>1
  <2>3. /\ b \in Seq(S)
        /\ Len(b) = Len(s) - i
        /\ \A j \in 1 .. Len(s) - (i + 1) + 1 : b[j] = s[(i + 1) + j - 1]
    BY <2>1, <2>2, SubSeqProperties
  <2>4. \A j \in 1 .. Len(s) - i :
          j \in 1 .. Len(s) - (i + 1) + 1 /\ (i + 1) + j - 1 = i + j
    BY <1>1
  <2>5. QED
    BY <2>3, <2>4
<1>4. RemoveAt(s, i) = a \o b
  BY DEF RemoveAt
<1> HIDE DEF a, b
<1>5. /\ a \o b \in Seq(S)
      /\ Len(a \o b) = Len(s) - 1
      /\ \A j \in 1 .. Len(s) - 1 :
           (a \o b)[j] = IF j <= i - 1 THEN a[j] ELSE b[j - (i - 1)]
  <2>1. Len(a) + Len(b) = Len(s) - 1
    BY <1>1, <1>2, <1>3
  <2>2. /\ a \o b \in Seq(S)
        /\ Len(a \o b) = Len(a) + Len(b)
        /\ \A j \in 1 .. Len(a) + Len(b) :
             (a \o b)[j] = IF j <= Len(a) THEN a[j] ELSE b[j - Len(a)]
    <3>1. a \in Seq(S) /\ b \in Seq(S)
      BY <1>2, <1>3
    <3>2. QED
      BY <3>1, ConcatProperties
  <2>3. Len(a) = i - 1
    BY <1>2
  <2>4. QED
    BY ONLY <2>1, <2>2, <2>3
<1>6. ASSUME NEW j \in 1 .. Len(s) - 1
      PROVE  (a \o b)[j] = IF j < i THEN s[j] ELSE s[j + 1]
  <2>1. CASE j < i
    BY <1>1, <1>2, <1>5, <2>1
  <2>2. CASE ~(j < i)
    <3>1. j - (i - 1) \in 1 .. Len(s) - i /\ i + (j - (i - 1)) = j + 1
      BY <1>1, <2>2
    <3>2. b[j - (i - 1)] = s[i + (j - (i - 1))]
      BY <1>3, <3>1
    <3>3. QED
      BY <1>1, <1>5, <2>2, <3>1, <3>2
  <2>3. QED
    BY <2>1, <2>2
<1>7. QED
  BY <1>4, <1>5, <1>6

LEMMA RemovedMembers ==
  ASSUME NEW S, NEW s \in Seq(S), NEW i \in 1 .. Len(s), IsInjective(s)
  PROVE  /\ IsInjective(RemoveAt(s, i))
         /\ ToSet(RemoveAt(s, i)) = ToSet(s) \ {s[i]}
<1> DEFINE r == RemoveAt(s, i)
<1>1. /\ r \in Seq(S)
      /\ Len(r) = Len(s) - 1
      /\ \A j \in 1 .. Len(s) - 1 : r[j] = IF j < i THEN s[j] ELSE s[j + 1]
  BY RemovedPlaces
<1>2. Len(s) \in Nat
  BY LenProperties
<1>3. \A j, k \in 1 .. Len(s) : s[j] = s[k] => j = k
  BY ListInjective
<1> HIDE DEF r
<1>4. IsInjective(r)
  <2>1. \A j \in 1 .. Len(r) : j \in 1 .. Len(s) /\ j + 1 \in 1 .. Len(s)
    BY <1>1, <1>2
  <2>2. \A j, k \in 1 .. Len(r) : r[j] = r[k] => j = k
    BY <1>1, <1>2, <1>3, <2>1
  <2>3. QED
    BY <1>1, <2>2, ListInjective
<1>5. ASSUME NEW j \in 1 .. Len(r)
      PROVE  r[j] \in ToSet(s) \ {s[i]}
  <2>1. j \in 1 .. Len(s) /\ j + 1 \in 1 .. Len(s)
    BY <1>1, <1>2
  <2>2. r[j] = IF j < i THEN s[j] ELSE s[j + 1]
    BY <1>1
  <2>3. r[j] # s[i]
    BY <1>2, <1>3, <2>1, <2>2
  <2>4. QED
    BY <2>1, <2>2, <2>3, ListMembers
<1>6. ASSUME NEW j \in 1 .. Len(s), s[j] # s[i]
      PROVE  \E k \in 1 .. Len(r) : r[k] = s[j]
  <2>1. CASE j < i
    <3>1. j \in 1 .. Len(r)
      BY <1>1, <1>2, <2>1
    <3>2. QED
      BY <1>1, <2>1, <3>1
  <2>2. CASE j > i
    <3>1. j - 1 \in 1 .. Len(r) /\ ~(j - 1 < i) /\ (j - 1) + 1 = j
      BY <1>1, <1>2, <2>2
    <3>2. r[j - 1] = s[j]
      BY <1>1, <3>1
    <3>3. QED
      BY <3>1, <3>2
  <2>3. j # i
    BY <1>6
  <2>4. QED
    BY <1>2, <2>1, <2>2, <2>3
<1>7. ToSet(r) = ToSet(s) \ {s[i]}
  <2>1. /\ ToSet(r) = {r[j] : j \in 1 .. Len(r)}
        /\ ToSet(s) = {s[j] : j \in 1 .. Len(s)}
    BY <1>1, ListMembers
  <2>2. ToSet(r) \subseteq ToSet(s) \ {s[i]}
    BY <1>5, <2>1
  <2>3. ToSet(s) \ {s[i]} \subseteq ToSet(r)
    BY <1>6, <2>1
  <2>4. QED
    BY <2>2, <2>3
<1>8. QED
  BY <1>4, <1>7 DEF r

(* One taken out of the second of two joined lists. *)
LEMMA RemovedBehind ==
  ASSUME NEW S, NEW s \in Seq(S), NEW t \in Seq(S), NEW i \in 1 .. Len(t)
  PROVE  RemoveAt(s \o t, Len(s) + i) = s \o RemoveAt(t, i)
<1> DEFINE u == s \o t
           k == Len(s) + i
           r == RemoveAt(u, k)
           q == RemoveAt(t, i)
<1>1. /\ u \in Seq(S)
      /\ Len(u) = Len(s) + Len(t)
      /\ \A j \in 1 .. Len(s) + Len(t) :
           u[j] = IF j <= Len(s) THEN s[j] ELSE t[j - Len(s)]
      /\ Len(s) \in Nat /\ Len(t) \in Nat
  BY ConcatProperties, LenProperties
<1> HIDE DEF u
<1>2. k \in 1 .. Len(u)
  BY <1>1
<1> HIDE DEF k
<1>3. /\ r \in Seq(S)
      /\ Len(r) = Len(u) - 1
      /\ \A j \in 1 .. Len(u) - 1 : r[j] = IF j < k THEN u[j] ELSE u[j + 1]
  BY <1>1, <1>2, RemovedPlaces
<1>4. /\ q \in Seq(S)
      /\ Len(q) = Len(t) - 1
      /\ \A j \in 1 .. Len(t) - 1 : q[j] = IF j < i THEN t[j] ELSE t[j + 1]
  BY RemovedPlaces
<1> HIDE DEF r, q
<1>5. /\ s \o q \in Seq(S)
      /\ Len(s \o q) = Len(s) + Len(q)
      /\ \A j \in 1 .. Len(s) + Len(q) :
           (s \o q)[j] = IF j <= Len(s) THEN s[j] ELSE q[j - Len(s)]
  BY <1>4, ConcatProperties
<1>6. ASSUME NEW j \in 1 .. Len(r)
      PROVE  r[j] = (s \o q)[j]
  <2>1. j \in 1 .. Len(s) + Len(q)
    BY <1>1, <1>3, <1>4
  <2>2. CASE j <= Len(s)
    BY <1>1, <1>3, <1>5, <2>1, <2>2 DEF k
  <2>3. CASE j > Len(s) /\ j < k
    <3>1. j - Len(s) \in 1 .. Len(t) - 1 /\ j - Len(s) < i
      BY <1>1, <1>3, <2>1, <2>3 DEF k
    <3>2. r[j] = t[j - Len(s)]
      BY <1>1, <1>3, <2>1, <2>3
    <3>3. (s \o q)[j] = t[j - Len(s)]
      BY <1>1, <1>4, <1>5, <2>1, <2>3, <3>1
    <3>4. QED
      BY <3>2, <3>3
  <2>4. CASE j >= k
    <3>1. /\ j - Len(s) \in 1 .. Len(t) - 1 /\ ~(j - Len(s) < i)
          /\ ~(j + 1 <= Len(s)) /\ ~(j <= Len(s))
          /\ j + 1 \in 1 .. Len(s) + Len(t)
          /\ (j + 1) - Len(s) = (j - Len(s)) + 1
      BY <1>1, <1>3, <2>1, <2>4 DEF k
    <3>2. r[j] = t[(j - Len(s)) + 1]
      BY <1>1, <1>2, <1>3, <2>1, <2>4, <3>1
    <3>3. (s \o q)[j] = t[(j - Len(s)) + 1]
      BY <1>1, <1>4, <1>5, <2>1, <3>1
    <3>4. QED
      BY <3>2, <3>3
  <2>5. j <= Len(s) \/ (j > Len(s) /\ j < k) \/ j >= k
    BY <1>1, <1>2, <2>1
  <2>6. QED
    BY <2>2, <2>3, <2>4, <2>5
<1>7. Len(s \o q) = Len(r)
  BY <1>1, <1>3, <1>4, <1>5
<1>8. r = s \o q
  BY <1>3, <1>5, <1>6, <1>7, SeqEqual
<1>9. QED
  BY <1>8 DEF r, q, u, k

(* ... and out of the first one. *)
LEMMA RemovedBefore ==
  ASSUME NEW S, NEW s \in Seq(S), NEW t \in Seq(S), NEW i \in 1 .. Len(s)
  PROVE  RemoveAt(s \o t, i) = RemoveAt(s, i) \o t
<1> DEFINE u == s \o t
           r == RemoveAt(u, i)
           q == RemoveAt(s, i)
<1>1. /\ u \in Seq(S)
      /\ Len(u) = Len(s) + Len(t)
      /\ \A j \in 1 .. Len(s) + Len(t) :
           u[j] = IF j <= Len(s) THEN s[j] ELSE t[j - Len(s)]
      /\ Len(s) \in Nat /\ Len(t) \in Nat
  BY ConcatProperties, LenProperties
<1> HIDE DEF u
<1>2. i \in 1 .. Len(u)
  BY <1>1
<1>3. /\ r \in Seq(S)
      /\ Len(r) = Len(u) - 1
      /\ \A j \in 1 .. Len(u) - 1 : r[j] = IF j < i THEN u[j] ELSE u[j + 1]
  BY <1>1, <1>2, RemovedPlaces
<1>4. /\ q \in Seq(S)
      /\ Len(q) = Len(s) - 1
      /\ \A j \in 1 .. Len(s) - 1 : q[j] = IF j < i THEN s[j] ELSE s[j + 1]
  BY RemovedPlaces
<1> HIDE DEF r, q
<1>5. /\ q \o t \in Seq(S)
      /\ Len(q \o t) = Len(q) + Len(t)
      /\ \A j \in 1 .. Len(q) + Len(t) :
           (q \o t)[j] = IF j <= Len(q) THEN q[j] ELSE t[j - Len(q)]
  BY <1>4, ConcatProperties
<1>6. ASSUME NEW j \in 1 .. Len(r)
      PROVE  r[j] = (q \o t)[j]
  <2>1. j \in 1 .. Len(q) + Len(t)
    BY <1>1, <1>3, <1>4
  <2>2. CASE j < Len(s)
    <3>1. j \in 1 .. Len(s) - 1 /\ j + 1 \in 1 .. Len(s) + Len(t) /\ j + 1 <= Len(s)
      BY <1>1, <2>1, <2>2
    <3>2. QED
      BY <1>1, <1>3, <1>4, <1>5, <2>1, <2>2, <3>1
  <2>3. CASE j >= Len(s)
    <3>1. /\ ~(j < i) /\ ~(j + 1 <= Len(s)) /\ ~(j <= Len(q))
          /\ j + 1 \in 1 .. Len(s) + Len(t)
          /\ (j + 1) - Len(s) = j - Len(q)
      BY <1>1, <1>3, <1>4, <2>1, <2>3
    <3>2. r[j] = t[j - Len(q)]
      BY <1>1, <1>3, <3>1
    <3>3. (q \o t)[j] = t[j - Len(q)]
      BY <1>5, <2>1, <3>1
    <3>4. QED
      BY <3>2, <3>3
  <2>4. j < Len(s) \/ j >= Len(s)
    BY <1>1, <2>1
  <2>5. QED
    BY <2>2, <2>3, <2>4
<1>7. Len(q \o t) = Len(r)
  BY <1>1, <1>3, <1>4, <1>5
<1>8. r = q \o t
  BY <1>3, <1>5, <1>6, <1>7, SeqEqual
<1>9. QED
  BY <1>8 DEF r, q, u

(* The last one taken off. *)
LEMMA FrontIsList ==
  ASSUME NEW S, NEW s \in Seq(S), s # <<>>
  PROVE  /\ Front(s) \in Seq(S)
         /\ Last(s) \in S
<1>1. Len(s) \in Nat \ {0}
  BY EmptySeq
<1>2. /\ \A i \in 1 .. Len(s) - 1 : s[i] \in S
      /\ s[Len(s)] \in S
  BY <1>1, ElementOfSeq
<1>3. SubSeq(s, 1, Len(s) - 1) \in Seq(S)
  BY <1>1, <1>2, SubSeqProperties
<1>4. QED
  BY <1>2, <1>3 DEF Front, Last

-----------------------------------------------------------------------------
(* Induction over the natural numbers, for a set in the place of a         *)
(* predicate.                                                              *)
LEMMA LessIsWellFounded ==
  IsWellFoundedOn({ss \in Nat \X Nat : ss[1] < ss[2]}, Nat)
  BY NatLessThanWellFounded, SMT DEF OpToRel

LEMMA Least ==
  ASSUME NEW T, T \subseteq Nat, T # {}
  PROVE  \E x \in T : \A y \in T : x <= y
<1> DEFINE R == {ss \in Nat \X Nat : ss[1] < ss[2]}
<1>1. IsWellFoundedOn(R, Nat)
  BY LessIsWellFounded
<1> HIDE DEF R
<1>2. \E x \in T : \A y \in T : ~ (<<y, x>> \in R)
  BY <1>1, WFMin
<1>3. \A x, y \in Nat : ~ (<<y, x>> \in R) => x <= y
  BY DEF R
<1>4. QED BY <1>2, <1>3

LEMMA SetInduction ==
  ASSUME NEW S, 0 \in S, \A n \in Nat : n \in S => n + 1 \in S
  PROVE  Nat \subseteq S
<1>1. \A n \in Nat : n \in S
  <2> SUFFICES ASSUME NEW m \in Nat, m \notin S PROVE FALSE
    OBVIOUS
  <2> DEFINE T == {n \in Nat : n \notin S}
  <2>1. T # {} /\ T \subseteq Nat
    OBVIOUS
  <2>2. \E x \in T : \A y \in T : x <= y
    BY <2>1, Least
  <2>3. PICK x \in T : \A y \in T : x <= y
    BY <2>2
  <2>4. x # 0 /\ x \in Nat
    OBVIOUS
  <2>5. x - 1 \in Nat /\ x - 1 \notin T
    BY <2>3, <2>4
  <2>6. QED BY <2>4, <2>5
<1>2. QED BY <1>1
-----------------------------------------------------------------------------
(* The equation that Projection solves, up to the n-th place. *)
Solves(P, s, keep, n) ==
  P = [i \in 0 .. n |->
         IF i = 0 THEN <<>>
         ELSE IF s[i] \in keep THEN Append(P[i - 1], s[i]) ELSE P[i - 1]]

(* A recursion over the places of a list has a solution. *)
LEMMA RecursionSolved ==
  ASSUME NEW s, NEW keep, NEW n \in Nat
  PROVE  \E P : Solves(P, s, keep, n)
<1> DEFINE S == {m \in Nat : \E P : Solves(P, s, keep, m)}
<1>1. 0 \in S
  <2> DEFINE E == [i \in 0 .. 0 |-> <<>>]
  <2>1. Solves(E, s, keep, 0)
    BY DEF Solves
  <2>2. QED BY <2>1
<1>2. ASSUME NEW m \in Nat, m \in S
      PROVE  m + 1 \in S
  <2>1. PICK P : Solves(P, s, keep, m)
    BY <1>2
  <2> DEFINE next == IF s[m + 1] \in keep THEN Append(P[m], s[m + 1]) ELSE P[m]
             Q == [i \in 0 .. m + 1 |-> IF i = m + 1 THEN next ELSE P[i]]
  <2>2. \A i \in 0 .. m : Q[i] = P[i]
    OBVIOUS
  <2>3. Q[m + 1] = next
    OBVIOUS
  <2>4. \A i \in 0 .. m : P[i] = IF i = 0 THEN <<>>
             ELSE IF s[i] \in keep THEN Append(P[i - 1], s[i]) ELSE P[i - 1]
    BY <2>1 DEF Solves
  <2>5. \A i \in 0 .. m + 1 : Q[i] = IF i = 0 THEN <<>>
             ELSE IF s[i] \in keep THEN Append(Q[i - 1], s[i]) ELSE Q[i - 1]
    <3> SUFFICES ASSUME NEW i \in 0 .. m + 1
                 PROVE  Q[i] = IF i = 0 THEN <<>>
                    ELSE IF s[i] \in keep THEN Append(Q[i - 1], s[i]) ELSE Q[i - 1]
      OBVIOUS
    <3>1. i = m + 1 \/ (i \in 0 .. m /\ i # 0) \/ (i \in 0 .. m /\ i = 0)
      OBVIOUS
    <3>2. CASE i = m + 1
      <4>1. i # 0 /\ i - 1 \in 0 .. m /\ i - 1 = m
        BY <3>2
      <4>2. Q[i - 1] = P[m]
        BY <4>1, <2>2
      <4> HIDE DEF Q
      <4>3. QED BY <4>1, <4>2, <2>3, <3>2
    <3>3. CASE i \in 0 .. m /\ i # 0
      <4>1. i - 1 \in 0 .. m
        BY <3>3
      <4> HIDE DEF Q
      <4>2. QED BY <4>1, <2>2, <2>4, <3>3
    <3>4. CASE i \in 0 .. m /\ i = 0
      <4> HIDE DEF Q
      <4>2. QED BY <2>2, <2>4, <3>4
    <3>5. QED BY <3>1, <3>2, <3>3, <3>4
  <2>6. Solves(Q, s, keep, m + 1)
    <3>1. Q = [i \in 0 .. m + 1 |-> Q[i]]
      OBVIOUS
    <3> HIDE DEF Q
    <3>2. QED BY <3>1, <2>5 DEF Solves
  <2>7. \E R : Solves(R, s, keep, m + 1)
    <3> HIDE DEF Q
    <3>1. QED BY <2>6
  <2>8. QED BY <2>7
<1>3. Nat \subseteq S
  <2> HIDE DEF S
  <2>1. QED BY <1>1, <1>2, SetInduction
<1>4. \E P : Solves(P, s, keep, n)
  BY <1>3
<1>5. QED BY <1>4

(* Place i of P is the part of the first i elements of s that are in keep. *)
Collects(P, s, keep) ==
  /\ P[0] = <<>>
  /\ \A i \in 1 .. Len(s) :
       P[i] = IF s[i] \in keep THEN Append(P[i - 1], s[i]) ELSE P[i - 1]

LEMMA ProjectionCollects ==
  ASSUME NEW S, NEW s \in Seq(S), NEW keep
  PROVE  \E P : Collects(P, s, keep) /\ Projection(s, keep) = P[Len(s)]
<1> DEFINE P == CHOOSE Q : Solves(Q, s, keep, Len(s))
<1>0. Len(s) \in Nat
  OBVIOUS
<1>1. \E Q : Solves(Q, s, keep, Len(s))
  BY <1>0, RecursionSolved
<1>2. Solves(P, s, keep, Len(s))
  BY <1>1
<1>3. Projection(s, keep) = P[Len(s)]
  BY DEF Projection, Solves
<1> HIDE DEF P
<1>4. P[0] = <<>>
  BY <1>2, <1>0 DEF Solves
<1>5. ASSUME NEW i \in 1 .. Len(s)
      PROVE  P[i] = IF s[i] \in keep THEN Append(P[i - 1], s[i]) ELSE P[i - 1]
  <2>1. i \in 0 .. Len(s) /\ i # 0
    BY <1>0
  <2>2. QED BY <1>2, <2>1 DEF Solves
<1>6. QED BY <1>3, <1>4, <1>5 DEF Collects

(* What is kept is the part of the list that is in the set, each element   *)
(* as often as before.                                                     *)
LEMMA ProjectedMembers ==
  ASSUME NEW S, NEW s \in Seq(S), NEW keep
  PROVE  /\ Projection(s, keep) \in Seq(S)
         /\ Len(Projection(s, keep)) <= Len(s)
         /\ ToSet(Projection(s, keep)) = ToSet(s) \cap keep
         /\ IsInjective(s) => IsInjective(Projection(s, keep))
<1>0. Len(s) \in Nat
  OBVIOUS
<1>1. PICK P : Collects(P, s, keep) /\ Projection(s, keep) = P[Len(s)]
  BY ProjectionCollects
<1> DEFINE Upto(n) == {s[j] : j \in 1 .. n}
           Good(n) == /\ P[n] \in Seq(S)
                      /\ Len(P[n]) <= n
                      /\ ToSet(P[n]) = Upto(n) \cap keep
                      /\ IsInjective(s) => IsInjective(P[n])
           I == {n \in Nat : n <= Len(s) => Good(n)}
<1>2. 0 \in I
  <2>1. P[0] = <<>>
    BY <1>1 DEF Collects
  <2>2. << >> \in Seq(S) /\ Len(<< >>) = 0
    OBVIOUS
  <2>3. ToSet(<< >>) = {} /\ IsInjective(<< >>)
    BY DEF ToSet, IsInjective
  <2>4. Upto(0) = {}
    OBVIOUS
  <2>5. Good(0)
    <3> HIDE DEF Upto
    <3>1. QED BY <2>1, <2>2, <2>3, <2>4
  <2> HIDE DEF Good
  <2>6. QED BY <2>5
<1>3. ASSUME NEW n \in Nat, n \in I
      PROVE  n + 1 \in I
  <2> SUFFICES ASSUME n + 1 <= Len(s)
               PROVE  Good(n + 1)
    OBVIOUS
  <2> DEFINE e == s[n + 1]
  <2>1. /\ n + 1 \in 1 .. Len(s)
        /\ e \in S
        /\ Good(n)
    BY <1>0, <1>3, ElementOfSeq
  <2>2. P[n + 1] = IF e \in keep THEN Append(P[n], e) ELSE P[n]
    BY <1>1, <2>1 DEF Collects
  <2>3. Upto(n + 1) = Upto(n) \cup {e}
    OBVIOUS
  <2>4. IsInjective(s) => e \notin Upto(n)
    BY <2>1, ListInjective
  <2> HIDE DEF Upto, e
  <2>5. CASE e \in keep
    <3> DEFINE q == P[n]
    <3>1. /\ q \in Seq(S)
          /\ Len(q) <= n /\ Len(q) \in Nat
          /\ ToSet(q) = Upto(n) \cap keep
          /\ IsInjective(s) => IsInjective(q)
      BY <2>1
    <3>2. P[n + 1] = Append(q, e)
      BY <2>2, <2>5
    <3> HIDE DEF q
    <3>3. /\ Append(q, e) \in Seq(S)
          /\ Len(Append(q, e)) = Len(q) + 1
      BY <3>1, <2>1
    <3>4. /\ ToSet(Append(q, e)) = ToSet(q) \cup {e}
          /\ IsInjective(Append(q, e)) <=> IsInjective(q) /\ e \notin ToSet(q)
      BY <3>1, <2>1, AppendedMembers
    <3>5. Len(Append(q, e)) <= n + 1
      BY <3>1, <3>3
    <3>6. ToSet(Append(q, e)) = Upto(n + 1) \cap keep
      BY <3>1, <3>4, <2>3, <2>5
    <3>7. IsInjective(s) => IsInjective(Append(q, e))
      BY <3>1, <3>4, <2>4
    <3>8. QED BY <3>2, <3>3, <3>5, <3>6, <3>7
  <2>6. CASE e \notin keep
    <3>1. P[n + 1] = P[n]
      BY <2>2, <2>6
    <3>2. Upto(n + 1) \cap keep = Upto(n) \cap keep
      BY <2>3, <2>6
    <3>3. Len(P[n]) <= n + 1
      BY <2>1
    <3>4. QED BY <2>1, <3>1, <3>2, <3>3
  <2>7. QED BY <2>5, <2>6
<1>4. Len(s) \in I
  <2>1. Nat \subseteq I
    <3> HIDE DEF I
    <3>1. QED BY <1>2, <1>3, SetInduction
  <2>2. QED BY <2>1, <1>0
<1>5. Good(Len(s))
  BY <1>4, <1>0
<1>6. Upto(Len(s)) = ToSet(s)
  BY ListMembers
<1>7. QED BY <1>1, <1>5, <1>6

(* One more element is kept at the end, or not. *)
LEMMA ProjectionGrows ==
  ASSUME NEW S, NEW s \in Seq(S), NEW e \in S, NEW keep
  PROVE  Projection(Append(s, e), keep) =
           IF e \in keep THEN Append(Projection(s, keep), e) ELSE Projection(s, keep)
<1> DEFINE t == Append(s, e)
<1>1. PICK n \in Nat : n = Len(s)
  OBVIOUS
<1>2. t \in Seq(S) /\ Len(t) = n + 1 /\ t[n + 1] = e /\ \A i \in 1 .. n : t[i] = s[i]
  BY <1>1
<1> HIDE DEF t
<1>3. PICK P : Collects(P, s, keep) /\ Projection(s, keep) = P[Len(s)]
  BY ProjectionCollects
<1>4. PICK Q : Collects(Q, t, keep) /\ Projection(t, keep) = Q[Len(t)]
  BY <1>2, ProjectionCollects
<1> DEFINE I == {k \in Nat : k <= n => Q[k] = P[k]}
<1>5. 0 \in I
  BY <1>3, <1>4 DEF Collects
<1>6. ASSUME NEW k \in Nat, k \in I
      PROVE  k + 1 \in I
  <2> SUFFICES ASSUME k + 1 <= n
               PROVE  Q[k + 1] = P[k + 1]
    OBVIOUS
  <2>1. k + 1 \in 1 .. n /\ k + 1 \in 1 .. Len(t) /\ k + 1 \in 1 .. Len(s) /\ k + 1 - 1 = k
    BY <1>1, <1>2
  <2>2. Q[k] = P[k] /\ t[k + 1] = s[k + 1]
    BY <1>2, <1>6, <2>1
  <2>3. P[k + 1] = IF s[k + 1] \in keep THEN Append(P[k], s[k + 1]) ELSE P[k]
    BY <1>3, <2>1 DEF Collects
  <2>4. Q[k + 1] = IF t[k + 1] \in keep THEN Append(Q[k], t[k + 1]) ELSE Q[k]
    BY <1>4, <2>1 DEF Collects
  <2>5. QED BY <2>2, <2>3, <2>4
<1>7. n \in I
  <2>1. Nat \subseteq I
    <3> HIDE DEF I
    <3>1. QED BY <1>5, <1>6, SetInduction
  <2>2. QED BY <2>1, <1>1
<1>8. Q[n] = P[n]
  BY <1>7
<1>9. Q[n + 1] = IF t[n + 1] \in keep THEN Append(Q[n], t[n + 1]) ELSE Q[n]
  <2>1. n + 1 \in 1 .. Len(t) /\ n + 1 - 1 = n
    BY <1>1, <1>2
  <2>2. QED BY <1>4, <2>1 DEF Collects
<1>10. QED BY <1>1, <1>2, <1>3, <1>4, <1>8, <1>9 DEF t

(* Nothing is kept of nothing. *)
LEMMA NothingProjected == ASSUME NEW keep PROVE Projection(<<>>, keep) = <<>>
<1>1. <<>> \in Seq({}) /\ Len(<<>>) = 0
  OBVIOUS
<1>2. PICK P : Collects(P, <<>>, keep) /\ Projection(<<>>, keep) = P[Len(<<>>)]
  BY <1>1, ProjectionCollects
<1>3. QED BY <1>1, <1>2 DEF Collects

(* Lists of one and of two, and what is left of one. *)
LEMMA ShortLists ==
  ASSUME NEW S
  PROVE  /\ \A x \in S : <<x>> \in Seq(S) /\ <<x>> # <<>>
         /\ \A x, y \in S : <<x, y>> \in Seq(S) /\ <<x, y>> # <<>>
         /\ \A s \in Seq(S) : s # <<>> =>
              Tail(s) \in Seq(S) /\ (Len(s) # 1 => Tail(s) # <<>>)
<1>1. \A x \in S : <<x>> \in Seq(S) /\ <<x>> # <<>>
  OBVIOUS
<1>2. \A x, y \in S : <<x, y>> \in Seq(S) /\ <<x, y>> # <<>>
  OBVIOUS
<1>3. ASSUME NEW s \in Seq(S), s # <<>>
      PROVE  Tail(s) \in Seq(S) /\ (Len(s) # 1 => Tail(s) # <<>>)
  <2>1. Tail(s) \in Seq(S) /\ Len(Tail(s)) = Len(s) - 1 /\ Len(s) \in Nat
    BY <1>3
  <2>2. PICK t \in Seq(S) : t = Tail(s)
    BY <2>1
  <2>3. t = <<>> => Len(t) = 0
    OBVIOUS
  <2>4. QED BY <2>1, <2>2, <2>3
<1>4. QED BY <1>1, <1>2, <1>3
(* What is there at most once is not there more often in a part of a list. *)
AtMostOnce(s, p) == \A i, k \in DOMAIN s : s[i] = p /\ s[k] = p => i = k

LEMMA AppendedOnce ==
  ASSUME NEW S, NEW s \in Seq(S), NEW e \in S, NEW p, AtMostOnce(s, p),
         e # p \/ p \notin ToSet(s)
  PROVE  AtMostOnce(Append(s, e), p)
<1> DEFINE u == Append(s, e)
           n == Len(s)
<1>1. /\ n \in Nat /\ DOMAIN s = 1 .. n /\ DOMAIN u = 1 .. n + 1 /\ u[n + 1] = e
      /\ \A i \in 1 .. n : u[i] = s[i]
  OBVIOUS
<1> HIDE DEF u, n
<1>2. \A i \in 1 .. n + 1 : i \in 1 .. n \/ i = n + 1
  BY <1>1
<1>3. \A i \in 1 .. n : s[i] = p => p \in ToSet(s)
  BY <1>1 DEF ToSet
<1>4. AtMostOnce(u, p)
  BY <1>1, <1>2, <1>3 DEF AtMostOnce
<1>5. QED BY <1>4 DEF u

LEMMA ProjectedOnce ==
  ASSUME NEW S, NEW s \in Seq(S), NEW keep, NEW p, AtMostOnce(s, p)
  PROVE  AtMostOnce(Projection(s, keep), p)
<1>0. Len(s) \in Nat /\ DOMAIN s = 1 .. Len(s)
  OBVIOUS
<1>1. PICK P : Collects(P, s, keep) /\ Projection(s, keep) = P[Len(s)]
  BY ProjectionCollects
<1> DEFINE Good(n) == /\ P[n] \in Seq(S) /\ AtMostOnce(P[n], p)
                      /\ p \in ToSet(P[n]) => \E j \in 1 .. n : s[j] = p
           I == {n \in Nat : n <= Len(s) => Good(n)}
<1>2. 0 \in I
  <2>1. P[0] = <<>>
    BY <1>1 DEF Collects
  <2>2. <<>> \in Seq(S) /\ ToSet(<<>>) = {} /\ AtMostOnce(<<>>, p)
    BY DEF ToSet, AtMostOnce
  <2>3. Good(0)
    BY <2>1, <2>2
  <2> HIDE DEF Good
  <2>4. QED BY <2>3
<1>3. ASSUME NEW n \in Nat, n \in I
      PROVE  n + 1 \in I
  <2> SUFFICES ASSUME n + 1 <= Len(s) PROVE Good(n + 1)
    OBVIOUS
  <2>0. PICK e : e = s[n + 1]
    OBVIOUS
  <2>1. n + 1 \in 1 .. Len(s) /\ e \in S /\ Good(n)
    BY <1>0, <1>3, <2>0, ElementOfSeq
  <2>2. P[n + 1] = IF e \in keep THEN Append(P[n], e) ELSE P[n]
    BY <1>1, <2>0, <2>1 DEF Collects
  <2>3. PICK q : q = P[n]
    OBVIOUS
  <2>4. /\ q \in Seq(S) /\ AtMostOnce(q, p)
        /\ p \in ToSet(q) => \E j \in 1 .. n : s[j] = p
    BY <2>1, <2>3
  <2>5. CASE e \in keep
    <3>1. P[n + 1] = Append(q, e)
      BY <2>2, <2>3, <2>5
    <3>2. Append(q, e) \in Seq(S) /\ ToSet(Append(q, e)) = ToSet(q) \cup {e}
      BY <2>1, <2>4, AppendedMembers
    <3>3. e = p => p \notin ToSet(q)
      <4> SUFFICES ASSUME e = p, p \in ToSet(q) PROVE FALSE
        OBVIOUS
      <4>1. PICK j \in 1 .. n : s[j] = p
        BY <2>4
      <4>2. j \in DOMAIN s /\ n + 1 \in DOMAIN s /\ j # n + 1
        BY <1>0, <2>1
      <4>3. QED BY <2>0, <4>1, <4>2 DEF AtMostOnce
    <3>4. AtMostOnce(Append(q, e), p)
      BY <2>1, <2>4, <3>3, AppendedOnce
    <3>5. p \in ToSet(Append(q, e)) => \E j \in 1 .. n + 1 : s[j] = p
      <4>1. n + 1 \in 1 .. n + 1 /\ 1 .. n \subseteq 1 .. n + 1
        OBVIOUS
      <4>2. QED BY <2>0, <2>4, <3>2, <4>1
    <3>6. QED BY <3>1, <3>2, <3>4, <3>5
  <2>6. CASE e \notin keep
    <3>1. P[n + 1] = q /\ 1 .. n \subseteq 1 .. n + 1
      BY <2>2, <2>3, <2>6
    <3>2. QED BY <2>4, <3>1
  <2>7. QED BY <2>5, <2>6
<1>4. Nat \subseteq I
  <2> HIDE DEF I
  <2>1. QED BY <1>2, <1>3, SetInduction
<1>5. Good(Len(s))
  <2> HIDE DEF Good
  <2>1. QED BY <1>0, <1>4
<1>6. QED BY <1>1, <1>5

LEMMA RemovedOnce ==
  ASSUME NEW S, NEW s \in Seq(S), NEW i \in 1 .. Len(s), NEW p, AtMostOnce(s, p)
  PROVE  /\ AtMostOnce(RemoveAt(s, i), p)
         /\ s[i] = p => p \notin ToSet(RemoveAt(s, i))
<1> DEFINE r == RemoveAt(s, i)
           n == Len(s)
           At(j) == IF j < i THEN j ELSE j + 1
<1>1. /\ n \in Nat /\ i \in 1 .. n /\ DOMAIN s = 1 .. n
      /\ r \in Seq(S) /\ Len(r) = n - 1
      /\ \A j \in 1 .. n - 1 : r[j] = IF j < i THEN s[j] ELSE s[j + 1]
  BY RemovedPlaces
<1>2. DOMAIN r = 1 .. n - 1
  BY <1>1
<1> HIDE DEF r, n
<1>3. \A j \in 1 .. n - 1 : At(j) \in 1 .. n /\ At(j) # i /\ r[j] = s[At(j)]
  BY <1>1
<1>4. \A j, k \in 1 .. n - 1 : At(j) = At(k) => j = k
  OBVIOUS
<1> HIDE DEF At
<1>5. AtMostOnce(r, p)
  BY <1>1, <1>2, <1>3, <1>4 DEF AtMostOnce
<1>6. s[i] = p => p \notin ToSet(r)
  BY <1>1, <1>2, <1>3 DEF AtMostOnce, ToSet
<1>7. QED BY <1>5, <1>6 DEF r
=============================================================================
