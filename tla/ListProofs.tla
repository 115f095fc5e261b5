----------------------------- MODULE ListProofs -----------------------------
(***************************************************************************)
(* What linking and unlinking do to the elements of a list, for every      *)
(* list: the facts the proofs about the dictionary table rest on.          *)
(***************************************************************************)
EXTENDS Lists, SequenceTheorems, TLAPS

\* The elements of a list are its values at 1, 2, ..., Len.
LEMMA RangeAt ==
  ASSUME NEW S, NEW s \in Seq(S)
  PROVE  /\ DOMAIN s = 1 .. Len(s) /\ Len(s) \in Nat
         /\ \A x : x \in Range(s) <=> \E i \in 1 .. Len(s) : s[i] = x
         /\ Range(s) \subseteq S
  BY DEF Range

\* TAILQ_INSERT_TAIL adds one element and keeps the others.
LEMMA AppendLinks ==
  ASSUME NEW S, NEW s \in Seq(S), NEW e \in S
  PROVE  /\ Append(s, e) \in Seq(S)
         /\ Len(Append(s, e)) = Len(s) + 1
         /\ Range(Append(s, e)) = Range(s) \cup {e}
         /\ Linear(s) /\ e \notin Range(s) => Linear(Append(s, e))
<1> DEFINE t == Append(s, e)
<1>1. t \in Seq(S) /\ Len(t) = Len(s) + 1 /\ Len(s) \in Nat
  OBVIOUS
<1>2. t[Len(s) + 1] = e /\ \A i \in 1 .. Len(s) : t[i] = s[i]
  OBVIOUS
<1>3. Range(t) = Range(s) \cup {e}
  <2>1. ASSUME NEW x \in Range(t) PROVE x \in Range(s) \cup {e}
    <3>1. PICK i \in 1 .. Len(s) + 1 : t[i] = x
      BY <1>1, RangeAt
    <3>2. i \in 1 .. Len(s) \/ i = Len(s) + 1
      BY <1>1
    <3>3. QED BY <1>2, <3>1, <3>2, RangeAt
  <2>2. ASSUME NEW x \in Range(s) \cup {e} PROVE x \in Range(t)
    <3>1. CASE x = e
      <4>1. Len(s) + 1 \in 1 .. Len(t)
        BY <1>1
      <4>2. QED BY <4>1, <1>1, <1>2, <3>1, RangeAt
    <3>2. CASE x \in Range(s)
      <4>1. PICK i \in 1 .. Len(s) : s[i] = x
        BY <3>2, RangeAt
      <4>2. i \in 1 .. Len(t) /\ t[i] = x
        BY <4>1, <1>1, <1>2
      <4>3. QED BY <4>2, <1>1, RangeAt
    <3>3. QED BY <2>2, <3>1, <3>2
  <2>3. QED BY <2>1, <2>2
<1>4. ASSUME Linear(s), e \notin Range(s) PROVE Linear(t)
  <2>1. \A i \in 1 .. Len(s) : s[i] # e
    BY <1>4, RangeAt
  <2>2. QED BY <1>1, <1>2, <1>4, <2>1, RangeAt DEF Linear
<1>5. QED BY <1>1, <1>3, <1>4

\* LIST_INSERT_HEAD adds one element and keeps the others.
LEMMA ConsLinks ==
  ASSUME NEW S, NEW s \in Seq(S), NEW e \in S
  PROVE  /\ Cons(e, s) \in Seq(S)
         /\ Range(Cons(e, s)) = Range(s) \cup {e}
         /\ Linear(s) /\ e \notin Range(s) => Linear(Cons(e, s))
<1> DEFINE t == Cons(e, s)
<1>1. t \in Seq(S) /\ Len(t) = Len(s) + 1 /\ Len(s) \in Nat
  BY DEF Cons
<1>2. t[1] = e /\ \A i \in 1 .. Len(s) : t[i + 1] = s[i]
  BY DEF Cons
<1>3. \A j \in 1 .. Len(t) : j = 1 \/ (j - 1 \in 1 .. Len(s) /\ t[j] = s[j - 1])
  <2>1. TAKE j \in 1 .. Len(t)
  <2>2. CASE j # 1
    <3>1. j - 1 \in 1 .. Len(s) /\ (j - 1) + 1 = j
      BY <1>1, <2>2
    <3>2. QED BY <3>1, <1>2
  <2>3. QED BY <2>2
<1>4. Range(t) = Range(s) \cup {e}
  <2>1. ASSUME NEW x \in Range(t) PROVE x \in Range(s) \cup {e}
    BY <1>1, <1>2, <1>3, <2>1, RangeAt
  <2>2. ASSUME NEW x \in Range(s) \cup {e} PROVE x \in Range(t)
    <3>1. CASE x = e
      <4>1. 1 \in 1 .. Len(t)
        BY <1>1
      <4>2. QED BY <4>1, <1>1, <1>2, <3>1, RangeAt
    <3>2. CASE x \in Range(s)
      <4>1. PICK i \in 1 .. Len(s) : s[i] = x
        BY <3>2, RangeAt
      <4>2. i + 1 \in 1 .. Len(t) /\ t[i + 1] = x
        BY <4>1, <1>1, <1>2
      <4>3. QED BY <4>2, <1>1, RangeAt
    <3>3. QED BY <2>2, <3>1, <3>2
  <2>3. QED BY <2>1, <2>2
<1>5. ASSUME Linear(s), e \notin Range(s) PROVE Linear(t)
  <2>1. \A i \in 1 .. Len(s) : s[i] # e
    BY <1>5, RangeAt
  <2>2. SUFFICES ASSUME NEW i \in 1 .. Len(t), NEW j \in 1 .. Len(t), t[i] = t[j]
                 PROVE  i = j
    BY <1>1, RangeAt DEF Linear
  <2>3. CASE i = 1 \/ j = 1
    BY <1>2, <1>3, <2>1, <2>2, <2>3
  <2>4. CASE i # 1 /\ j # 1
    <3>1. i - 1 \in 1 .. Len(s) /\ j - 1 \in 1 .. Len(s) /\ s[i - 1] = s[j - 1]
      BY <1>3, <2>2, <2>4
    <3>2. i - 1 = j - 1
      BY <3>1, <1>5, RangeAt DEF Linear
    <3>3. QED BY <3>2
  <2>5. QED BY <2>3, <2>4
<1>6. QED BY <1>1, <1>4, <1>5

\* TAILQ_REMOVE and LIST_REMOVE take out exactly the element they are given.
LEMMA UnlinkRemoves ==
  ASSUME NEW S, NEW s \in Seq(S), Linear(s), NEW e \in Range(s)
  PROVE  /\ Unlink(s, e) \in Seq(S)
         /\ Len(Unlink(s, e)) = Len(s) - 1
         /\ Range(Unlink(s, e)) = Range(s) \ {e}
         /\ Linear(Unlink(s, e))
<1> DEFINE k == CHOOSE i \in DOMAIN s : s[i] = e
           t == SubSeq(s, 1, k - 1) \o SubSeq(s, k + 1, Len(s))
<1>1. k \in 1 .. Len(s) /\ s[k] = e /\ Len(s) \in Nat
  BY RangeAt
<1>2. Unlink(s, e) = t
  BY DEF Unlink, RemoveAt
<1> HIDE DEF k
<1> DEFINE a == SubSeq(s, 1, k - 1)
           b == SubSeq(s, k + 1, Len(s))
<1>3. /\ a \in Seq(S) /\ Len(a) = k - 1
      /\ \A i \in 1 .. k - 1 : a[i] = s[i]
  <2>1. \A i \in 1 .. k - 1 : s[i] \in S
    BY <1>1
  <2>2. QED BY <1>1, <2>1, SubSeqProperties
<1>4. /\ b \in Seq(S) /\ Len(b) = Len(s) - k
      /\ \A i \in 1 .. Len(s) - k : b[i] = s[k + i]
  <2>1. \A i \in k + 1 .. Len(s) : s[i] \in S
    BY <1>1
  <2>2. /\ b \in Seq(S)
        /\ Len(b) = IF k + 1 <= Len(s) THEN Len(s) - (k + 1) + 1 ELSE 0
        /\ \A i \in 1 .. Len(s) - (k + 1) + 1 : b[i] = s[(k + 1) + i - 1]
    BY <1>1, <2>1, SubSeqProperties
  <2>3. QED BY <1>1, <2>2
<1> HIDE DEF a, b
<1>5. t = a \o b
  BY DEF a, b
<1> HIDE DEF t
<1>6. /\ t \in Seq(S) /\ Len(t) = Len(s) - 1
      /\ \A i \in 1 .. k - 1 : t[i] = s[i]
      /\ \A i \in k .. Len(s) - 1 : t[i] = s[i + 1]
  <2>1. /\ t \in Seq(S) /\ Len(t) = Len(a) + Len(b)
        /\ \A i \in 1 .. Len(a) + Len(b) :
             t[i] = IF i <= Len(a) THEN a[i] ELSE b[i - Len(a)]
    BY <1>3, <1>4, <1>5, ConcatProperties
  <2>2. Len(a) + Len(b) = Len(s) - 1 /\ Len(a) = k - 1
    BY <1>1, <1>3, <1>4
  <2>3. ASSUME NEW i \in 1 .. k - 1 PROVE t[i] = s[i]
    <3>1. i \in 1 .. Len(a) + Len(b) /\ i <= Len(a)
      BY <1>1, <2>2
    <3>2. t[i] = a[i]
      BY <2>1, <3>1
    <3>3. QED BY <1>3, <3>2
  <2>4. ASSUME NEW i \in k .. Len(s) - 1 PROVE t[i] = s[i + 1]
    <3>1. i \in 1 .. Len(a) + Len(b) /\ ~(i <= Len(a)) /\ i - (k - 1) \in 1 .. Len(s) - k
      BY <1>1, <2>2
    <3>2. t[i] = b[i - (k - 1)]
      BY <2>2, <2>1, <3>1
    <3>3. k + (i - (k - 1)) = i + 1
      BY <1>1
    <3>4. QED BY <1>4, <3>1, <3>2, <3>3
  <2>5. QED BY <1>1, <1>3, <1>4, <2>1, <2>3, <2>4
<1>7. \A i \in 1 .. Len(t) :
        \E j \in 1 .. Len(s) : j # k /\ t[i] = s[j] /\ j = IF i < k THEN i ELSE i + 1
  <2>1. TAKE i \in 1 .. Len(t)
  <2>2. CASE i < k
    BY <1>1, <1>6, <2>2
  <2>3. CASE ~(i < k)
    BY <1>1, <1>6, <2>3
  <2>4. QED BY <2>2, <2>3
<1>8. Range(t) = Range(s) \ {e}
  <2>1. ASSUME NEW x \in Range(t) PROVE x \in Range(s) \ {e}
    <3>1. PICK i \in 1 .. Len(t) : t[i] = x
      BY <1>6, RangeAt
    <3>2. PICK j \in 1 .. Len(s) : j # k /\ x = s[j]
      BY <1>7, <3>1
    <3>3. QED BY <3>2, <1>1, RangeAt DEF Linear
  <2>2. ASSUME NEW x \in Range(s) \ {e} PROVE x \in Range(t)
    <3>1. PICK j \in 1 .. Len(s) : s[j] = x
      BY RangeAt
    <3>2. CASE j < k
      <4>1. j \in 1 .. Len(t) /\ t[j] = x
        BY <1>1, <1>6, <3>1, <3>2
      <4>2. QED BY <4>1, <1>6, RangeAt
    <3>3. CASE j > k
      <4>1. j - 1 \in 1 .. Len(t) /\ j - 1 \in k .. Len(s) - 1 /\ (j - 1) + 1 = j
        BY <1>1, <1>6, <3>3
      <4>2. t[j - 1] = x
        BY <1>6, <3>1, <4>1
      <4>3. QED BY <4>1, <4>2, <1>6, RangeAt
    <3>4. QED BY <1>1, <2>2, <3>1, <3>2, <3>3
  <2>3. QED BY <2>1, <2>2
<1>9. Linear(t)
  <2>1. SUFFICES ASSUME NEW i \in 1 .. Len(t), NEW j \in 1 .. Len(t), t[i] = t[j]
                 PROVE  i = j
    BY <1>6, RangeAt DEF Linear
  <2>2. PICK m \in 1 .. Len(s) : t[i] = s[m] /\ m = IF i < k THEN i ELSE i + 1
    BY <1>7
  <2>3. PICK n \in 1 .. Len(s) : t[j] = s[n] /\ n = IF j < k THEN j ELSE j + 1
    BY <1>7
  <2>4. s[m] = s[n]
    BY <2>1, <2>2, <2>3
  <2>5. m = n
    BY <2>4, RangeAt DEF Linear
  <2>6. QED BY <1>1, <1>6, <2>2, <2>3, <2>5
<1>10. QED BY <1>2, <1>6, <1>8, <1>9

\* Taking the head off a list.
LEMMA TailRemoves ==
  ASSUME NEW S, NEW s \in Seq(S), Linear(s), s # <<>>
  PROVE  /\ Head(s) \in Range(s)
         /\ Tail(s) \in Seq(S)
         /\ Len(Tail(s)) = Len(s) - 1
         /\ Range(Tail(s)) = Range(s) \ {Head(s)}
         /\ Linear(Tail(s))
<1> DEFINE t == Tail(s)
<1>1. /\ t \in Seq(S) /\ Len(s) \in Nat \ {0} /\ Len(t) = Len(s) - 1
      /\ Head(s) = s[1]
  OBVIOUS
<1>2. \A i \in 1 .. Len(t) : t[i] = s[i + 1] /\ i + 1 \in 1 .. Len(s)
  BY <1>1
<1> HIDE DEF t
<1>3. Head(s) \in Range(s)
  <2>1. 1 \in 1 .. Len(s)
    BY <1>1
  <2>2. QED BY <2>1, <1>1, RangeAt
<1>4. Range(t) = Range(s) \ {Head(s)}
  <2>1. ASSUME NEW x \in Range(t) PROVE x \in Range(s) \ {Head(s)}
    <3>1. PICK i \in 1 .. Len(t) : t[i] = x
      BY <1>1, RangeAt
    <3>2. x = s[i + 1] /\ i + 1 \in 1 .. Len(s) /\ i + 1 # 1 /\ 1 \in 1 .. Len(s)
      BY <1>1, <1>2, <3>1
    <3>3. QED BY <3>2, <1>1, RangeAt DEF Linear
  <2>2. ASSUME NEW x \in Range(s) \ {Head(s)} PROVE x \in Range(t)
    <3>1. PICK j \in 1 .. Len(s) : s[j] = x
      BY RangeAt
    <3>2. j - 1 \in 1 .. Len(t) /\ (j - 1) + 1 = j
      BY <1>1, <2>2, <3>1
    <3>3. t[j - 1] = x
      BY <1>2, <3>1, <3>2
    <3>4. QED BY <3>2, <3>3, <1>1, RangeAt
  <2>3. QED BY <2>1, <2>2
<1>5. Linear(t)
  <2>1. SUFFICES ASSUME NEW i \in 1 .. Len(t), NEW j \in 1 .. Len(t), t[i] = t[j]
                 PROVE  i = j
    BY <1>1, RangeAt DEF Linear
  <2>2. i + 1 = j + 1
    BY <1>2, <2>1, RangeAt DEF Linear
  <2>3. QED BY <2>2
<1>6. QED BY <1>1, <1>3, <1>4, <1>5 DEF t

\* Taking the last element off a list.
LEMMA FrontRemoves ==
  ASSUME NEW S, NEW s \in Seq(S), Linear(s), s # <<>>
  PROVE  /\ Last(s) \in Range(s)
         /\ Front(s) \in Seq(S)
         /\ Len(Front(s)) = Len(s) - 1
         /\ Range(Front(s)) = Range(s) \ {Last(s)}
         /\ Linear(Front(s))
<1> DEFINE t == Front(s)
           n == Len(s)
<1>1. n \in Nat \ {0} /\ Last(s) = s[n] /\ n \in 1 .. n
  BY DEF Last
<1>2. /\ t \in Seq(S) /\ Len(t) = n - 1
      /\ \A i \in 1 .. Len(t) : t[i] = s[i] /\ i \in 1 .. n /\ i # n
  <2>1. t = SubSeq(s, 1, n - 1) /\ n - 1 \in Nat BY <1>1 DEF Front
  <2>2. /\ SubSeq(s, 1, n - 1) \in Seq(S) /\ Len(SubSeq(s, 1, n - 1)) = n - 1
        /\ \A i \in 1 .. (n - 1) : SubSeq(s, 1, n - 1)[i] = s[i]
    <3> DEFINE m == n - 1
               u == SubSeq(s, 1, m)
    <3>1. m \in Int /\ m \in Nat /\ 1 \in Int /\ \A i \in 1 .. m : s[i] \in S
      BY <1>1
    <3> HIDE DEF m, n
    <3>2. /\ u \in Seq(S) /\ Len(u) = (IF 1 <= m THEN m - 1 + 1 ELSE 0)
          /\ \A i \in 1 .. m - 1 + 1 : u[i] = s[1 + i - 1]
      BY <3>1, SubSeqProperties
    <3> HIDE DEF u
    <3>3. Len(u) = m /\ 1 .. m - 1 + 1 = 1 .. m BY <3>1, <3>2
    <3>4. \A i \in 1 .. m : 1 + i - 1 = i BY <3>1
    <3> QED BY <3>2, <3>3, <3>4 DEF u, m
  <2> QED BY <1>1, <2>1, <2>2
<1> HIDE DEF t, n
<1>3. Last(s) \in Range(s) BY <1>1, RangeAt DEF n
<1>4. Range(t) = Range(s) \ {Last(s)}
  <2>1. ASSUME NEW x \in Range(t) PROVE x \in Range(s) \ {Last(s)}
    <3>1. PICK i \in 1 .. Len(t) : t[i] = x BY <1>2, RangeAt
    <3>2. x = s[i] /\ i \in 1 .. n /\ i # n BY <1>2, <3>1
    <3> QED BY <3>2, <1>1, RangeAt DEF Linear, n
  <2>2. ASSUME NEW x \in Range(s) \ {Last(s)} PROVE x \in Range(t)
    <3>1. PICK i \in 1 .. n : s[i] = x BY RangeAt DEF n
    <3>2. i # n BY <1>1, <2>2, <3>1
    <3>3. i \in 1 .. Len(t) BY <1>1, <1>2, <3>1, <3>2
    <3> QED BY <3>1, <3>3, <1>2, RangeAt
  <2> QED BY <2>1, <2>2
<1>5. Linear(t)
  <2>1. SUFFICES ASSUME NEW i \in 1 .. Len(t), NEW j \in 1 .. Len(t), t[i] = t[j]
                 PROVE  i = j
    BY <1>2, RangeAt DEF Linear
  <2>2. s[i] = s[j] /\ i \in 1 .. n /\ j \in 1 .. n BY <1>2, <2>1
  <2> QED BY <2>2, RangeAt DEF Linear, n
<1> QED BY <1>2, <1>3, <1>4, <1>5 DEF t, n

\* Taking an element that is not the last one off a list leaves the last one.
LEMMA UnlinkKeepsLast ==
  ASSUME NEW S, NEW s \in Seq(S), Linear(s), NEW e \in Range(s), Last(s) # e
  PROVE  Unlink(s, e) # <<>> /\ Last(Unlink(s, e)) = Last(s)
<1> DEFINE k == CHOOSE i \in DOMAIN s : s[i] = e
           n == Len(s)
<1>1. k \in 1 .. n /\ s[k] = e /\ n \in Nat
  BY RangeAt
<1>2. Last(s) = s[n]
  BY DEF Last
<1> HIDE DEF k
<1>3. k \in 1 .. n - 1
  BY <1>1, <1>2
<1> DEFINE a == SubSeq(s, 1, k - 1)
           b == SubSeq(s, k + 1, n)
<1>4. Unlink(s, e) = a \o b
  BY DEF Unlink, RemoveAt, k
<1>5. a \in Seq(S) /\ Len(a) = k - 1
  <2>1. \A i \in 1 .. k - 1 : s[i] \in S
    BY <1>3
  <2> HIDE DEF n
  <2> QED BY <1>3, <1>1, <2>1, SubSeqProperties
<1>6. b \in Seq(S) /\ Len(b) = n - k /\ b[n - k] = s[n]
  <2>1. \A i \in k + 1 .. n : s[i] \in S
    BY <1>3
  <2> HIDE DEF n
  <2>2. /\ b \in Seq(S)
        /\ Len(b) = IF k + 1 <= n THEN n - (k + 1) + 1 ELSE 0
        /\ \A i \in 1 .. n - (k + 1) + 1 : b[i] = s[(k + 1) + i - 1]
    BY <1>1, <1>3, <2>1, SubSeqProperties
  <2>3. n - k \in 1 .. n - (k + 1) + 1 /\ (k + 1) + (n - k) - 1 = n /\ k + 1 <= n
    BY <1>1, <1>3
  <2>4. Len(b) = n - k
    BY <1>1, <1>3, <2>2
  <2>5. b[n - k] = s[(k + 1) + (n - k) - 1]
    BY <2>2, <2>3
  <2> QED BY <2>2, <2>3, <2>4, <2>5
<1> HIDE DEF a, b, n
<1>7. /\ Len(a \o b) = n - 1 /\ n - 1 # 0
      /\ (a \o b)[n - 1] = b[n - k]
  <2>1. Len(a) + Len(b) = n - 1 /\ n - 1 \in 1 .. Len(a) + Len(b)
        /\ ~(n - 1 <= Len(a)) /\ (n - 1) - Len(a) = n - k
    BY <1>1, <1>3, <1>5, <1>6
  <2>2. /\ Len(a \o b) = Len(a) + Len(b)
        /\ \A i \in 1 .. Len(a) + Len(b) :
             (a \o b)[i] = IF i <= Len(a) THEN a[i] ELSE b[i - Len(a)]
    BY <1>5, <1>6, ConcatProperties
  <2>3. (a \o b)[n - 1] = b[(n - 1) - Len(a)]
    BY <2>1, <2>2
  <2> QED BY <1>1, <1>3, <2>1, <2>2, <2>3
<1>8. Unlink(s, e) # <<>>
  <2>1. Len(<<>>) = 0
    OBVIOUS
  <2> QED BY <1>4, <1>7, <2>1
<1>9. Last(Unlink(s, e)) = s[n]
  <2>1. Last(a \o b) = (a \o b)[Len(a \o b)]
    BY DEF Last
  <2> QED BY <1>4, <1>6, <1>7, <2>1
<1> QED BY <1>2, <1>8, <1>9
=============================================================================
