------------------------------ MODULE ListProofs ------------------------------
(***************************************************************************)
(* What the operations of a list do to the set that it lists.              *)
(***************************************************************************)
EXTENDS Lists, SequenceTheorems, TLAPS

\* erase yields a queue of the same type.
LEMMA RemoveAtType ==
    ASSUME NEW S, NEW q \in Seq(S), NEW k \in 1..Len(q)
    PROVE  RemoveAt(q, k) \in Seq(S)
<1>1. SubSeq(q, 1, k - 1) \in Seq(S) /\ SubSeq(q, k + 1, Len(q)) \in Seq(S)
  BY SubSeqProperties
<1> QED
  BY <1>1, ConcatProperties DEF RemoveAt

\* What it means for a queue to list a set.
LEMMA EnumeratesFacts ==
    ASSUME NEW S, NEW q, Enumerates(q, S)
    PROVE  /\ q \in Seq(S) /\ Len(q) \in Nat
           /\ \A i \in 1..Len(q) : q[i] \in S
           /\ \A i, j \in 1..Len(q) : q[i] = q[j] => i = j
           /\ \A x \in S : \E i \in 1..Len(q) : q[i] = x
           /\ q # <<>> => Len(q) > 0
<1>1. q \in Seq(S)
  BY DEF Enumerates
<1>2. Len(q) \in Nat /\ (q # <<>> => Len(q) > 0)
  BY <1>1, LenProperties, EmptySeq
<1>3. \A i \in 1..Len(q) : q[i] \in S
  BY <1>1, ElementOfSeq
<1> QED
  BY <1>1, <1>2, <1>3 DEF Enumerates

\* push_back of a newcomer.
LEMMA EnumeratesAppend ==
    ASSUME NEW S, NEW q, Enumerates(q, S), NEW x, x \notin S
    PROVE  Enumerates(Append(q, x), S \cup {x})
<1> DEFINE T == S \cup {x}
<1>1. q \in Seq(S) /\ q \in Seq(T)
  BY SeqMonotonic DEF Enumerates
<1>2. /\ Append(q, x) \in Seq(T) /\ Len(Append(q, x)) = Len(q) + 1
      /\ \A i \in 1..Len(q) : Append(q, x)[i] = q[i]
      /\ Append(q, x)[Len(q) + 1] = x
      /\ Len(q) \in Nat
  BY <1>1, AppendProperties, LenProperties
<1>3. \A i \in 1..Len(q) : q[i] \in S
  BY <1>1, ElementOfSeq
<1>4. \A i, j \in 1..Len(Append(q, x)) : Append(q, x)[i] = Append(q, x)[j] => i = j
  <2> SUFFICES ASSUME NEW i \in 1..Len(Append(q, x)), NEW j \in 1..Len(Append(q, x)),
                      Append(q, x)[i] = Append(q, x)[j]
               PROVE  i = j
    OBVIOUS
  <2>1. CASE i = Len(q) + 1 \/ j = Len(q) + 1
    BY <1>2, <1>3, <2>1
  <2>2. CASE i \in 1..Len(q) /\ j \in 1..Len(q)
    BY <1>2, <2>2, EnumeratesFacts
  <2> QED
    BY <1>2, <2>1, <2>2
<1>5. \A y \in T : \E i \in 1..Len(Append(q, x)) : Append(q, x)[i] = y
  BY <1>2 DEF Enumerates
<1> QED
  BY <1>2, <1>4, <1>5 DEF Enumerates

\* push_front of a newcomer.
LEMMA EnumeratesCons ==
    ASSUME NEW S, NEW q, Enumerates(q, S), NEW x, x \notin S
    PROVE  Enumerates(<<x>> \o q, S \cup {x})
<1> DEFINE T == S \cup {x}
           r == <<x>> \o q
<1>1. q \in Seq(S) /\ q \in Seq(T) /\ <<x>> \in Seq(T) /\ Len(<<x>>) = 1 /\ <<x>>[1] = x
  BY SeqMonotonic DEF Enumerates
<1>2. /\ r \in Seq(T) /\ Len(r) = 1 + Len(q)
      /\ \A i \in 1..(1 + Len(q)) : r[i] = IF i <= 1 THEN <<x>>[i] ELSE q[i - 1]
      /\ Len(q) \in Nat
  BY <1>1, ConcatProperties, LenProperties
<1>3. \A i \in 1..Len(q) : q[i] \in S
  BY <1>1, ElementOfSeq
<1>a. r[1] = x /\ \A i \in 2..(1 + Len(q)) : i - 1 \in 1..Len(q) /\ r[i] = q[i - 1]
  BY <1>1, <1>2
<1>b. \A i \in 1..Len(q) : i + 1 \in 2..(1 + Len(q)) /\ r[i + 1] = q[i]
  BY <1>a, <1>2
<1> HIDE DEF r
<1>4. ASSUME NEW i \in 1..Len(r), NEW j \in 1..Len(r), r[i] = r[j] PROVE i = j
  <2>1. CASE i = 1 \/ j = 1
    BY <1>2, <1>3, <1>4, <1>a, <2>1
  <2>2. CASE i \in 2..(1 + Len(q)) /\ j \in 2..(1 + Len(q))
    <3>1. q[i - 1] = q[j - 1] /\ i - 1 \in 1..Len(q) /\ j - 1 \in 1..Len(q)
      BY <1>4, <1>a, <2>2
    <3>2. i - 1 = j - 1
      BY <3>1 DEF Enumerates
    <3> QED
      BY <3>2, <2>2
  <2> QED
    BY <1>2, <2>1, <2>2
<1>5. \A y \in T : \E i \in 1..Len(r) : r[i] = y
  <2>1. ASSUME NEW y \in S PROVE \E i \in 1..Len(r) : r[i] = y
    <3>1. PICK i \in 1..Len(q) : q[i] = y
      BY DEF Enumerates
    <3> QED
      <4>1. i + 1 \in 1..Len(r)
        BY <1>2
      <4> QED
        BY <3>1, <4>1, <1>b
  <2>2. \E i \in 1..Len(r) : r[i] = x
    BY <1>2, <1>a
  <2> QED
    BY <2>1, <2>2
<1>6. r \in Seq(T) /\ Enumerates(r, T)
  BY <1>2, <1>4, <1>5 DEF Enumerates
<1> QED
  BY <1>6 DEF r

\* pop_front.
LEMMA EnumeratesTail ==
    ASSUME NEW S, NEW q, Enumerates(q, S), q # <<>>
    PROVE  Head(q) \in S /\ Enumerates(Tail(q), S \ {Head(q)})
<1> DEFINE x == Head(q)
           r == Tail(q)
<1>1. /\ q \in Seq(S) /\ x \in S /\ x = q[1] /\ r \in Seq(S) /\ Len(q) \in Nat \ {0}
      /\ Len(r) = Len(q) - 1 /\ \A i \in 1..Len(r) : r[i] = q[i + 1]
  BY HeadTailProperties, EmptySeq DEF Enumerates
<1> HIDE DEF x, r
<1>2. \A i \in 1..Len(r) : i + 1 \in 1..Len(q) /\ r[i] \in S \ {x}
  <2> TAKE i \in 1..Len(r)
  <2>1. i + 1 \in 1..Len(q) /\ 1 \in 1..Len(q) /\ i + 1 # 1
    BY <1>1
  <2>2. q[i + 1] # q[1] /\ q[i + 1] \in S
    BY <2>1, EnumeratesFacts
  <2> QED
    BY <1>1, <2>1, <2>2
<1>3. r \in Seq(S \ {x})
  BY <1>1, <1>2
<1>4. \A i, j \in 1..Len(r) : r[i] = r[j] => i = j
  <2> SUFFICES ASSUME NEW i \in 1..Len(r), NEW j \in 1..Len(r), r[i] = r[j] PROVE i = j
    OBVIOUS
  <2>1. q[i + 1] = q[j + 1] /\ i + 1 \in 1..Len(q) /\ j + 1 \in 1..Len(q)
    BY <1>1, <1>2
  <2>2. i + 1 = j + 1
    BY <2>1 DEF Enumerates
  <2> QED
    BY <2>2
<1>5. ASSUME NEW y \in S \ {x} PROVE \E i \in 1..Len(r) : r[i] = y
  <2>1. PICK i \in 1..Len(q) : q[i] = y
    BY DEF Enumerates
  <2>2. i # 1 /\ i - 1 \in 1..Len(r)
    BY <1>1, <2>1
  <2>3. r[i - 1] = q[(i - 1) + 1] /\ (i - 1) + 1 = i
    BY <1>1, <2>2
  <2> QED
    BY <2>1, <2>2, <2>3
<1>6. x \in S /\ Enumerates(r, S \ {x})
  BY <1>1, <1>3, <1>4, <1>5 DEF Enumerates
<1> QED
  BY <1>6 DEF x, r

\* erase of the k-th member.
LEMMA EnumeratesRemove ==
    ASSUME NEW S, NEW q, Enumerates(q, S), NEW k \in 1..Len(q)
    PROVE  q[k] \in S /\ Enumerates(RemoveAt(q, k), S \ {q[k]})
<1> DEFINE x == q[k]
           r == RemoveAt(q, k)
<1>1. q \in Seq(S) /\ Len(q) \in Nat /\ x \in S
  BY LenProperties, ElementOfSeq DEF Enumerates
<1>2. /\ SubSeq(q, 1, k - 1) \in Seq(S) /\ Len(SubSeq(q, 1, k - 1)) = k - 1
      /\ \A i \in 1..(k - 1) : SubSeq(q, 1, k - 1)[i] = q[i]
  BY <1>1, SubSeqProperties, ElementOfSeq
<1>3. /\ SubSeq(q, k + 1, Len(q)) \in Seq(S) /\ Len(SubSeq(q, k + 1, Len(q))) = Len(q) - k
      /\ \A i \in 1..(Len(q) - k) : SubSeq(q, k + 1, Len(q))[i] = q[k + i]
  <2>1. \A i \in (k + 1)..Len(q) : q[i] \in S
    BY <1>1, ElementOfSeq
  <2>2. /\ SubSeq(q, k + 1, Len(q)) \in Seq(S)
        /\ Len(SubSeq(q, k + 1, Len(q))) = IF k + 1 <= Len(q) THEN Len(q) - (k + 1) + 1 ELSE 0
        /\ \A i \in 1..(Len(q) - (k + 1) + 1) : SubSeq(q, k + 1, Len(q))[i] = q[(k + 1) + i - 1]
    BY <1>1, <2>1, SubSeqProperties
  <2>3. \A i \in 1..(Len(q) - k) : /\ i \in 1..(Len(q) - (k + 1) + 1)
                                  /\ (k + 1) + i - 1 = k + i
    BY <1>1
  <2> QED
    BY <1>1, <2>2, <2>3
<1>4. /\ r \in Seq(S) /\ Len(r) = Len(q) - 1
      /\ \A i \in 1..Len(r) : r[i] = IF i < k THEN q[i] ELSE q[i + 1]
  <2>1. r = SubSeq(q, 1, k - 1) \o SubSeq(q, k + 1, Len(q))
    BY DEF RemoveAt
  <2>2. /\ r \in Seq(S) /\ Len(r) = (k - 1) + (Len(q) - k)
        /\ \A i \in 1..((k - 1) + (Len(q) - k)) :
              r[i] = IF i <= k - 1 THEN SubSeq(q, 1, k - 1)[i] ELSE SubSeq(q, k + 1, Len(q))[i - (k - 1)]
    <3> DEFINE a == SubSeq(q, 1, k - 1)
               b == SubSeq(q, k + 1, Len(q))
    <3>1. a \in Seq(S) /\ b \in Seq(S) /\ Len(a) = k - 1 /\ Len(b) = Len(q) - k /\ r = a \o b
      BY <1>2, <1>3, <2>1
    <3> HIDE DEF a, b, r
    <3>2. /\ a \o b \in Seq(S) /\ Len(a \o b) = Len(a) + Len(b)
          /\ \A i \in 1..(Len(a) + Len(b)) : (a \o b)[i] = IF i <= Len(a) THEN a[i] ELSE b[i - Len(a)]
      BY <3>1, ConcatProperties
    <3>3. /\ r \in Seq(S) /\ Len(r) = (k - 1) + (Len(q) - k)
          /\ \A i \in 1..((k - 1) + (Len(q) - k)) : r[i] = IF i <= k - 1 THEN a[i] ELSE b[i - (k - 1)]
      BY <3>1, <3>2
    <3> QED
      BY <3>3 DEF a, b
  <2>3. ASSUME NEW i \in 1..Len(r) PROVE r[i] = IF i < k THEN q[i] ELSE q[i + 1]
    <3>1. CASE i < k
      BY <1>1, <1>2, <2>2, <3>1
    <3>2. CASE i >= k
      <4>1. i - (k - 1) \in 1..(Len(q) - k) /\ k + (i - (k - 1)) = i + 1 /\ ~ (i <= k - 1)
        BY <1>1, <2>2, <3>2
      <4> QED
        BY <1>1, <1>3, <2>2, <4>1
    <3> QED
      BY <1>1, <3>1, <3>2
  <2> QED
    BY <1>1, <2>2, <2>3
<1> HIDE DEF x, r
<1>5. ASSUME NEW i \in 1..Len(r)
      PROVE  \E m \in 1..Len(q) : m # k /\ r[i] = q[m] /\ m = IF i < k THEN i ELSE i + 1
  BY <1>1, <1>4
<1>6. ASSUME NEW i \in 1..Len(r) PROVE r[i] \in S \ {x}
  <2>1. PICK m \in 1..Len(q) : m # k /\ r[i] = q[m]
    BY <1>5
  <2> QED
    <3>1. q[m] \in S /\ q[m] # q[k]
      BY <2>1, EnumeratesFacts
    <3> QED
      BY <2>1, <3>1 DEF x
<1>7. ASSUME NEW i \in 1..Len(r), NEW j \in 1..Len(r), r[i] = r[j] PROVE i = j
  <2>1. PICK m \in 1..Len(q) : r[i] = q[m] /\ m = IF i < k THEN i ELSE i + 1
    BY <1>5
  <2>2. PICK n \in 1..Len(q) : r[j] = q[n] /\ n = IF j < k THEN j ELSE j + 1
    BY <1>5
  <2>3. m = n
    BY <1>7, <2>1, <2>2 DEF Enumerates
  <2> QED
    BY <1>1, <2>1, <2>2, <2>3
<1>8. ASSUME NEW y \in S \ {x} PROVE \E i \in 1..Len(r) : r[i] = y
  <2>1. PICK m \in 1..Len(q) : q[m] = y
    BY DEF Enumerates
  <2>2. m # k
    BY <2>1 DEF x
  <2>3. CASE m < k
    BY <1>1, <1>4, <2>1, <2>3
  <2>4. CASE m > k
    <3>1. m - 1 \in 1..Len(r) /\ ~ (m - 1 < k) /\ (m - 1) + 1 = m
      BY <1>1, <1>4, <2>4
    <3>2. r[m - 1] = q[(m - 1) + 1]
      BY <1>4, <3>1
    <3> QED
      BY <2>1, <3>1, <3>2
  <2> QED
    BY <1>1, <2>2, <2>3, <2>4
<1>9. x \in S /\ Enumerates(r, S \ {x})
  <2>1. r \in Seq(S \ {x})
    BY <1>4, <1>6
  <2> QED
    BY <1>1, <1>7, <1>8, <2>1 DEF Enumerates
<1> QED
  BY <1>9 DEF x, r
===============================================================================
