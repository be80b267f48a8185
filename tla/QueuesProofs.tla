------------------------------ MODULE QueuesProofs ------------------------------
\* Taking items out of a queue: what is left are the other items, in the order
\* they had, each once if it was there once.
EXTENDS Queues, FiniteSetTheorems, FunctionTheorems, SequenceTheorems, TLAPS

\* A position higher up has a higher rank, and every rank up to the number of
\* positions is that of one of them.
LEMMA Ranks ==
  ASSUME NEW N \in Nat, NEW I \in SUBSET (1..N)
  PROVE  /\ IsFiniteSet(I) /\ Cardinality(I) \in Nat
         /\ \A n \in I : Rank(I, n) \in 1..Cardinality(I)
         /\ \A m, n \in I : m < n => Rank(I, m) < Rank(I, n)
         /\ \A k \in 1..Cardinality(I) : Ranked(I, k) \in I /\ Rank(I, Ranked(I, k)) = k
<1>1. IsFiniteSet(I) /\ Cardinality(I) \in Nat
  <2>1. IsFiniteSet(1..N)
    BY FS_Interval
  <2> QED
    BY <2>1, FS_Subset, FS_CardinalityType
<1> DEFINE Upto(n) == {m \in I : m <= n}
<1>2. \A n \in I : /\ IsFiniteSet(Upto(n)) /\ Cardinality(Upto(n)) \in Nat
                   /\ Cardinality(Upto(n)) <= Cardinality(I)
                   /\ Cardinality(Upto(n)) # 0
  <2>1. ASSUME NEW n \in I
        PROVE  /\ IsFiniteSet(Upto(n)) /\ Cardinality(Upto(n)) \in Nat
               /\ Cardinality(Upto(n)) <= Cardinality(I) /\ Cardinality(Upto(n)) # 0
    <3>1. IsFiniteSet(Upto(n)) /\ Cardinality(Upto(n)) <= Cardinality(I)
      BY <1>1, FS_Subset
    <3>2. n \in Upto(n)
      OBVIOUS
    <3> HIDE DEF Upto
    <3> QED
      BY <3>1, <3>2, FS_CardinalityType, FS_EmptySet
  <2> HIDE DEF Upto
  <2> QED
    BY <2>1
<1>3. \A n \in I : Rank(I, n) \in 1..Cardinality(I)
  BY <1>1, <1>2 DEF Rank
<1>4. ASSUME NEW m \in I, NEW n \in I, m < n
      PROVE  Rank(I, m) < Rank(I, n)
  <2>1. Upto(m) \in SUBSET Upto(n) /\ n \in Upto(n) /\ n \notin Upto(m)
    <3>1. \A l \in I : l \in Nat
      OBVIOUS
    <3>2. \A l \in I : l <= m => l <= n
      BY <1>4, <3>1
    <3>3. n <= n /\ ~(n <= m)
      BY <1>4, <3>1
    <3> QED
      BY <3>2, <3>3
  <2>3. IsFiniteSet(Upto(n)) /\ Cardinality(Upto(n)) \in Nat /\ Cardinality(Upto(m)) \in Nat
    BY <1>2
  <2>2. Cardinality(Upto(m)) <= Cardinality(Upto(n)) /\ Cardinality(Upto(m)) # Cardinality(Upto(n))
    <3> HIDE DEF Upto
    <3> QED
      BY <2>1, <2>3, FS_Subset
  <2> QED
    BY <2>2, <2>3 DEF Rank
<1>5. ASSUME NEW k \in 1..Cardinality(I)
      PROVE  \E n \in I : Rank(I, n) = k
  <2> DEFINE f == [n \in I |-> Rank(I, n)]
  <2>1. f \in [I -> 1..Cardinality(I)]
    BY <1>3
  <2>2. \A m, n \in I : f[m] = f[n] => m = n
    <3>1. ASSUME NEW m \in I, NEW n \in I, m # n
          PROVE  Rank(I, m) # Rank(I, n)
      <4>1. m < n \/ n < m
        BY <3>1
      <4> QED
        BY <1>3, <1>4, <4>1
    <3> QED
      BY <3>1
  <2>3. f \in Injection(I, 1..Cardinality(I))
    <3> HIDE DEF f
    <3> QED
      BY <2>1, <2>2, Fun_IsInj
  <2>4. IsFiniteSet(1..Cardinality(I)) /\ Cardinality(1..Cardinality(I)) = Cardinality(I)
    BY <1>1, FS_Interval
  <2>5. f \in Surjection(I, 1..Cardinality(I))
    <3> HIDE DEF f
    <3> QED
      BY <2>3, <2>4, FS_Injection
  <2>6. \E n \in I : f[n] = k
    <3> HIDE DEF f
    <3> QED
      BY <2>5 DEF Surjection
  <2> QED
    BY <2>6
<1>6. \A k \in 1..Cardinality(I) : Ranked(I, k) \in I /\ Rank(I, Ranked(I, k)) = k
  BY <1>5 DEF Ranked
<1> QED
  BY <1>1, <1>3, <1>4, <1>6

\* A queue without repetition.
Once(q) == \A m, n \in DOMAIN q : q[m] = q[n] => m = n
\* Every item of r is one of q, and stands where no item overtook another.
InOrder(r, q) ==
  \A m, n \in DOMAIN r : m < n =>
    \E k, l \in DOMAIN q : k < l /\ q[k] = r[m] /\ q[l] = r[n]

\* What is left of a queue: its other items, once and in their order.
LEMMA WithoutItems ==
  ASSUME NEW T, NEW q \in Seq(T), NEW S
  PROVE  /\ Without(q, S) \in Seq(T)
         /\ Elems(Without(q, S)) = Elems(q) \ S
         /\ Once(q) => Once(Without(q, S))
         /\ InOrder(Without(q, S), q)
<1> DEFINE I == KeptAt(q, S)  c == Cardinality(I)  w == Without(q, S)
<1>1. DOMAIN q = 1..Len(q) /\ Len(q) \in Nat /\ I \in SUBSET (1..Len(q))
  BY DEF KeptAt
<1>2. /\ c \in Nat
      /\ \A n \in I : Rank(I, n) \in 1..c
      /\ \A m, n \in I : m < n => Rank(I, m) < Rank(I, n)
      /\ \A k \in 1..c : Ranked(I, k) \in I /\ Rank(I, Ranked(I, k)) = k
  <2> HIDE DEF I
  <2> QED
    BY <1>1, Ranks
<1>3. w = [k \in 1..c |-> q[Ranked(I, k)]]
  BY DEF Without
<1>4. \A n \in I : q[n] \in T \ S /\ n \in DOMAIN q
  BY DEF KeptAt
<1>5. \A n \in DOMAIN q : q[n] \notin S => n \in I
  BY DEF KeptAt
<1> HIDE DEF I, c, w
<1>6. w \in Seq(T)
  BY <1>2, <1>3, <1>4
<1>7. DOMAIN w = 1..c
  BY <1>3
<1>8. ASSUME NEW k \in 1..c, NEW l \in 1..c, k < l
      PROVE  Ranked(I, k) < Ranked(I, l)
  <2>1. Ranked(I, k) \in 1..Len(q) /\ Ranked(I, l) \in 1..Len(q)
    BY <1>1, <1>2
  <2>2. ~(Ranked(I, l) < Ranked(I, k)) /\ Ranked(I, k) # Ranked(I, l)
    BY <1>2, <1>8
  <2> QED
    BY <2>1, <2>2
<1>9. Elems(w) = Elems(q) \ S
  <2>1. ASSUME NEW n \in DOMAIN q, q[n] \notin S
        PROVE  \E k \in 1..c : w[k] = q[n]
    <3>1. n \in I /\ Rank(I, n) \in 1..c
      BY <1>2, <1>5, <2>1
    <3>2. PICK m \in I : m = Ranked(I, Rank(I, n)) /\ Rank(I, m) = Rank(I, n)
      BY <1>2, <3>1
    <3>3. m \in 1..Len(q) /\ n \in 1..Len(q)
      BY <1>1
    <3>4. m = n
      BY <1>2, <3>1, <3>2, <3>3
    <3> QED
      BY <1>3, <3>1, <3>2, <3>4
  <2> QED
    BY ZenonT(60), <1>2, <1>3, <1>4, <1>7, <2>1 DEF Elems
<1>10. Once(q) => Once(w)
  <2> SUFFICES ASSUME Once(q), NEW k \in 1..c, NEW l \in 1..c, w[k] = w[l]
               PROVE  k = l
    BY <1>7 DEF Once
  <2>1. Ranked(I, k) = Ranked(I, l)
    BY <1>2, <1>3, <1>4 DEF Once
  <2> QED
    BY <1>2, <2>1
<1>11. InOrder(w, q)
  BY <1>2, <1>3, <1>4, <1>7, <1>8 DEF InOrder
<1> QED
  BY <1>6, <1>9, <1>10, <1>11 DEF w

\* An item joins a queue it is not in.
LEMMA Appended ==
  ASSUME NEW T, NEW q \in Seq(T), NEW x \in T, x \notin Elems(q), Once(q)
  PROVE  /\ Append(q, x) \in Seq(T) /\ Elems(Append(q, x)) = Elems(q) \cup {x}
         /\ Once(Append(q, x))
<1> DEFINE a == Append(q, x)
<1>1. /\ a \in Seq(T) /\ Len(a) = Len(q) + 1 /\ Len(q) \in Nat
      /\ DOMAIN q = 1..Len(q) /\ DOMAIN a = 1..Len(a)
      /\ \A m \in 1..Len(q) : a[m] = q[m]
      /\ a[Len(q) + 1] = x
  BY AppendProperties, LenProperties
<1> HIDE DEF a
<1>2. \A m \in DOMAIN a : \/ m = Len(q) + 1 /\ a[m] = x
                          \/ m \in DOMAIN q /\ a[m] = q[m]
  BY <1>1
<1>3. Elems(a) = Elems(q) \cup {x}
  BY <1>1, <1>2 DEF Elems
<1>4. \A m \in DOMAIN q : q[m] # x
  BY DEF Elems
<1>5. Once(a)
  BY <1>1, <1>2, <1>4 DEF Once
<1> QED
  BY <1>1, <1>3, <1>5 DEF a

\* A queue, whatever its items are.
IsQueue(q) == q \in Seq(Elems(q))

\* A sequence of anything is a queue.
LEMMA AnyQueue ==
  ASSUME NEW T, NEW q \in Seq(T)
  PROVE  IsQueue(q) /\ DOMAIN q = 1..Len(q) /\ Len(q) \in Nat
<1>1. DOMAIN q = 1..Len(q) /\ Len(q) \in Nat /\ \A n \in 1..Len(q) : q[n] \in Elems(q)
  BY LenProperties DEF Elems
<1>2. q = [n \in 1..Len(q) |-> q[n]]
  BY <1>1
<1> HIDE DEF Elems
<1>3. q \in Seq(Elems(q))
  BY <1>1, <1>2, IsASeq
<1> QED
  BY <1>1, <1>3 DEF IsQueue

\* One more item, behind the others.
LEMMA Joined ==
  ASSUME NEW q, IsQueue(q), NEW x
  PROVE  LET a == Append(q, x)
         IN  /\ IsQueue(a) /\ Elems(a) = Elems(q) \cup {x} /\ a # q /\ a # <<>>
             /\ DOMAIN q = 1..Len(q) /\ Len(q) \in Nat /\ DOMAIN a = 1..(Len(q) + 1)
             /\ a[Len(q) + 1] = x /\ \A n \in DOMAIN q : a[n] = q[n]
<1> DEFINE a == Append(q, x)  T == Elems(q) \cup {x}
<1>1. q \in Seq(T) /\ x \in T
  <2>1. q \in Seq(Elems(q)) /\ Elems(q) \subseteq T
    BY DEF IsQueue
  <2> HIDE DEF T
  <2> QED
    BY <2>1, SeqMonotonic DEF T
<1> HIDE DEF T
<1>2. /\ a \in Seq(T) /\ Len(a) = Len(q) + 1 /\ Len(q) \in Nat
      /\ DOMAIN q = 1..Len(q) /\ DOMAIN a = 1..Len(a)
      /\ \A m \in 1..Len(q) : a[m] = q[m]
      /\ a[Len(q) + 1] = x
  BY <1>1, AppendProperties, LenProperties
<1> HIDE DEF a
<1>3. \A m \in DOMAIN a : \/ m = Len(q) + 1 /\ a[m] = x
                          \/ m \in DOMAIN q /\ a[m] = q[m]
  BY <1>2
<1>4. Elems(a) = Elems(q) \cup {x}
  BY <1>2, <1>3 DEF Elems
<1>5. IsQueue(a)
  BY <1>2, AnyQueue
<1>6. a # q /\ a # <<>>
  BY <1>2
<1> QED
  BY <1>2, <1>4, <1>5, <1>6 DEF a

\* The first item leaves.
LEMMA Taken ==
  ASSUME NEW q, IsQueue(q), q # <<>>
  PROVE  LET r == Tail(q)
         IN  /\ IsQueue(r) /\ InOrder(r, q)
             /\ Head(q) \in Elems(q) /\ Elems(r) \subseteq Elems(q)
             /\ 1 \in DOMAIN q /\ q[1] = Head(q)
             /\ \A x \in Elems(r) : \E n \in DOMAIN q : n # 1 /\ q[n] = x
<1> DEFINE r == Tail(q)
<1>1. /\ q \in Seq(Elems(q)) /\ DOMAIN q = 1..Len(q) /\ Len(q) \in Nat /\ Len(q) # 0
  BY LenProperties, EmptySeq DEF IsQueue
<1>2. /\ r \in Seq(Elems(q)) /\ Len(r) = Len(q) - 1 /\ DOMAIN r = 1..Len(r)
      /\ Head(q) = q[1] /\ \A n \in 1..Len(r) : r[n] = q[n + 1]
  BY <1>1, HeadTailProperties, LenProperties
<1> HIDE DEF r
<1>3. IsQueue(r)
  BY <1>2, AnyQueue
<1>4. 1 \in DOMAIN q /\ Head(q) \in Elems(q)
  BY <1>1, <1>2 DEF Elems
<1>5. \A n \in DOMAIN r : n + 1 \in DOMAIN q /\ n + 1 # 1 /\ r[n] = q[n + 1]
  BY <1>1, <1>2
<1>6. \A x \in Elems(r) : \E n \in DOMAIN q : n # 1 /\ q[n] = x
  BY <1>5 DEF Elems
<1>7. Elems(r) \subseteq Elems(q)
  BY <1>6 DEF Elems
<1>8. InOrder(r, q)
  <2>1. ASSUME NEW m \in DOMAIN r, NEW n \in DOMAIN r, m < n
        PROVE  \E k, l \in DOMAIN q : k < l /\ q[k] = r[m] /\ q[l] = r[n]
    <3>1. m + 1 < n + 1
      BY <1>2, <2>1
    <3> QED
      BY <1>5, <3>1
  <2> QED
    BY <2>1 DEF InOrder
<1> QED
  BY <1>2, <1>3, <1>4, <1>6, <1>7, <1>8 DEF r

\* Items leave from the middle.
LEMMA Dropped ==
  ASSUME NEW q, IsQueue(q), NEW S
  PROVE  LET r == Without(q, S)
         IN  IsQueue(r) /\ InOrder(r, q) /\ Elems(r) = Elems(q) \ S
<1>1. q \in Seq(Elems(q))
  BY DEF IsQueue
<1>2. /\ Without(q, S) \in Seq(Elems(q)) /\ InOrder(Without(q, S), q)
      /\ Elems(Without(q, S)) = Elems(q) \ S
  BY <1>1, WithoutItems
<1> QED
  BY <1>2, AnyQueue

\* No items, one or two behind a queue.
LEMMA Behind ==
  ASSUME NEW q, IsQueue(q), NEW x, NEW y
  PROVE  /\ q \o <<>> = q /\ q \o <<x>> = Append(q, x)
         /\ q \o (<<x>> \o <<y>>) = Append(Append(q, x), y)
         /\ <<x>> \o <<>> = <<x>>
<1> DEFINE T == Elems(q) \cup {x, y}
<1>1. q \in Seq(T) /\ x \in T /\ y \in T
  <2>1. q \in Seq(Elems(q)) /\ Elems(q) \subseteq T
    BY DEF IsQueue
  <2> HIDE DEF T
  <2> QED
    BY <2>1, SeqMonotonic DEF T
<1> HIDE DEF T
<1>2. <<x>> \in Seq(T) /\ <<y>> \in Seq(T)
  BY <1>1
<1>3. q \o <<>> = q /\ <<x>> \o <<>> = <<x>>
  BY <1>1, <1>2, ConcatEmptySeq
<1>4. q \o <<x>> = Append(q, x) /\ Append(q, x) \in Seq(T)
  BY <1>1, AppendIsConcat, AppendProperties
<1>5. q \o (<<x>> \o <<y>>) = (q \o <<x>>) \o <<y>>
  BY <1>1, <1>2, ConcatAssociative
<1>6. Append(q, x) \o <<y>> = Append(Append(q, x), y)
  BY <1>1, <1>4, AppendIsConcat
<1> QED
  BY <1>3, <1>4, <1>5, <1>6
=============================================================================
