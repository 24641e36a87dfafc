--------------------------- MODULE SequenceLemmas ---------------------------
(* Facts about sequences, and the community modules' operators on them,    *)
(* that the proofs cite.                                                   *)
EXTENDS Integers, SequencesExt, SequenceTheorems, WellFoundedInduction, TLAPS

\* A set of numbers that is not empty has a least one: induction without a
\* predicate.
LEMMA LeastElement == ASSUME NEW T \in SUBSET Nat, T # {} PROVE \E x \in T : \A y \in T : x <= y
<1> DEFINE R == {ss \in Nat \X Nat : ss[1] < ss[2]}
<1>1. IsWellFoundedOn(R, Nat)
  BY NatLessThanWellFounded DEF OpToRel
<1>2. \A x, y \in Nat : <<y, x>> \in R <=> y < x
  OBVIOUS
<1> HIDE DEF R
<1>3. PICK x \in T : \A y \in T : ~ (<<y, x>> \in R)
  BY <1>1, WFMin
<1>4. \A y \in T : x \in Nat /\ y \in Nat /\ ~ (y < x)
  BY <1>2, <1>3
<1>5. \A y \in T : x <= y
  BY <1>4
<1> QED
  BY <1>5

\* What erasing one element leaves: the elements around it, in their order.
LEMMA RemoveAtProperties ==
  ASSUME NEW S, NEW q \in Seq(S), NEW i \in 1..Len(q)
  PROVE  /\ RemoveAt(q, i) \in Seq(S)
         /\ Len(RemoveAt(q, i)) = Len(q) - 1
         /\ \A j \in 1..Len(q)-1 :
              RemoveAt(q, i)[j] = IF j < i THEN q[j] ELSE q[j+1]
<1> DEFINE a == SubSeq(q, 1, i-1)
           b == SubSeq(q, i+1, Len(q))
<1>0. Len(q) \in Nat /\ \A k \in 1..Len(q) : q[k] \in S
  BY LenProperties, ElementOfSeq
<1>1. /\ a \in Seq(S)
      /\ Len(a) = i - 1
      /\ \A k \in 1..i-1 : a[k] = q[k]
  <2>1. \A k \in 1..i-1 : q[k] \in S  BY <1>0
  <2>2. 1 \in Int /\ i-1 \in Int  BY <1>0
  <2>3. /\ a \in Seq(S)
        /\ Len(a) = IF 1 <= i-1 THEN i-1-1+1 ELSE 0
        /\ \A k \in 1..i-1-1+1 : a[k] = q[1+k-1]
    BY <2>1, <2>2, SubSeqProperties
  <2> QED  BY <2>3, <1>0
<1>2. /\ b \in Seq(S)
      /\ Len(b) = Len(q) - i
      /\ \A k \in 1..Len(q)-i : b[k] = q[i+k]
  <2>1. \A k \in i+1..Len(q) : q[k] \in S  BY <1>0
  <2>2. i+1 \in Int /\ Len(q) \in Int  BY <1>0
  <2>3. /\ b \in Seq(S)
        /\ Len(b) = IF i+1 <= Len(q) THEN Len(q)-(i+1)+1 ELSE 0
        /\ \A k \in 1..Len(q)-(i+1)+1 : b[k] = q[i+1+k-1]
    BY <2>1, <2>2, SubSeqProperties
  <2> HIDE DEF b
  <2> QED  BY <2>3, <1>0
<1>3. /\ a \o b \in Seq(S)
      /\ Len(a \o b) = Len(a) + Len(b)
      /\ \A k \in 1..Len(a)+Len(b) :
           (a \o b)[k] = IF k <= Len(a) THEN a[k] ELSE b[k - Len(a)]
  BY <1>1, <1>2, ConcatProperties
<1> HIDE DEF a, b
<1>4. RemoveAt(q, i) = a \o b  BY DEF RemoveAt, a, b
<1>5. Len(RemoveAt(q, i)) = Len(q) - 1
  BY <1>0, <1>1, <1>2, <1>3, <1>4
<1>6. ASSUME NEW j \in 1..Len(q)-1, j < i
      PROVE  RemoveAt(q, i)[j] = q[j]
  BY <1>0, <1>1, <1>2, <1>3, <1>4, <1>6
<1>7. ASSUME NEW j \in 1..Len(q)-1, ~(j < i)
      PROVE  RemoveAt(q, i)[j] = q[j+1]
  <2>1. RemoveAt(q, i)[j] = b[j - (i-1)]
    BY <1>0, <1>1, <1>2, <1>3, <1>4, <1>7
  <2>2. j - (i-1) \in 1..Len(q)-i
    BY <1>0, <1>7
  <2>3. b[j - (i-1)] = q[i + (j - (i-1))]
    BY <1>2, <2>2
  <2>4. i + (j - (i-1)) = j + 1
    BY <1>0
  <2> QED  BY <2>1, <2>3, <2>4
<1> QED  BY <1>3, <1>4, <1>5, <1>6, <1>7

\* Lists without duplicates, as far as adding and erasing elements goes.
LEMMA ListProperties ==
  ASSUME NEW S, NEW s \in Seq(S), NEW x \in S
  PROVE  /\ ToSet(s) \subseteq S
         /\ Append(s, x) \in Seq(S) /\ ToSet(Append(s, x)) = ToSet(s) \cup {x}
         /\ IsInjective(s) /\ x \notin ToSet(s) => IsInjective(Append(s, x))
         /\ s # <<>> => Head(s) \in ToSet(s) /\ Tail(s) \in Seq(S)
         /\ s # <<>> /\ IsInjective(s) =>
              IsInjective(Tail(s)) /\ ToSet(Tail(s)) = ToSet(s) \ {Head(s)}
         /\ RemoveFirst(s, x) \in Seq(S)
         /\ IsInjective(s) =>
              IsInjective(RemoveFirst(s, x)) /\ ToSet(RemoveFirst(s, x)) = ToSet(s) \ {x}
<1>1. Len(s) \in Nat /\ DOMAIN s = 1..Len(s) /\ \A i \in 1..Len(s) : s[i] \in S
  BY LenProperties, ElementOfSeq
<1>2. ASSUME NEW q \in Seq(S)
      PROVE  /\ ToSet(q) = {q[i] : i \in 1..Len(q)}
             /\ IsInjective(q) <=> \A i, j \in 1..Len(q) : q[i] = q[j] => i = j
  BY LenProperties DEF ToSet, IsInjective
<1>3. /\ Append(s, x) \in Seq(S) /\ ToSet(Append(s, x)) = ToSet(s) \cup {x}
      /\ IsInjective(s) /\ x \notin ToSet(s) => IsInjective(Append(s, x))
  <2> DEFINE q == Append(s, x)
  <2>1. /\ q \in Seq(S) /\ Len(q) = Len(s) + 1 /\ q[Len(s) + 1] = x
        /\ \A i \in 1..Len(s) : q[i] = s[i]
    BY AppendProperties
  <2> HIDE DEF q
  <2>2. 1..Len(s)+1 = 1..Len(s) \cup {Len(s) + 1}
    BY <1>1
  <2>3. ToSet(q) = ToSet(s) \cup {x}
    BY <1>2, <2>1, <2>2
  <2>4. IsInjective(s) /\ x \notin ToSet(s) => IsInjective(q)
    BY <1>2, <2>1, <2>2
  <2> QED
    BY <2>1, <2>3, <2>4 DEF q
\* Erasing one element leaves the others.
<1>4. ASSUME NEW q \in Seq(S), NEW k \in 1..Len(s), Len(q) = Len(s) - 1,
             \A j \in 1..Len(s)-1 : q[j] = IF j < k THEN s[j] ELSE s[j+1],
             IsInjective(s)
      PROVE  IsInjective(q) /\ ToSet(q) = ToSet(s) \ {s[k]}
  <2>1. ASSUME NEW j \in 1..Len(s)-1
        PROVE  j \in 1..Len(s) /\ j+1 \in 1..Len(s)
    BY <1>1
  <2>2. IsInjective(q)
    <3> SUFFICES ASSUME NEW i \in 1..Len(s)-1, NEW j \in 1..Len(s)-1, q[i] = q[j] PROVE i = j
      BY <1>2, <1>4
    <3> DEFINE up(h) == IF h < k THEN h ELSE h + 1
    <3>1. up(i) \in 1..Len(s) /\ up(j) \in 1..Len(s) /\ q[i] = s[up(i)] /\ q[j] = s[up(j)]
      BY <1>4, <2>1
    <3>2. up(i) = up(j)
      BY <1>2, <1>4, <3>1
    <3> QED
      BY <1>1, <3>2
  <2>3. ToSet(q) \subseteq ToSet(s) \ {s[k]}
    <3> SUFFICES ASSUME NEW j \in 1..Len(s)-1 PROVE q[j] \in ToSet(s) /\ q[j] # s[k]
      BY <1>2, <1>4
    <3>1. CASE j < k
      <4>1. q[j] = s[j] /\ j # k  BY <1>1, <1>4, <3>1
      <4> QED
        BY <1>2, <1>4, <2>1, <4>1
    <3>2. CASE ~(j < k)
      <4>1. j + 1 # k  BY <1>1, <3>2
      <4> QED
        BY <1>2, <1>4, <2>1, <3>2, <4>1
    <3> QED
      BY <3>1, <3>2
  <2>4. ToSet(s) \ {s[k]} \subseteq ToSet(q)
    <3> SUFFICES ASSUME NEW i \in 1..Len(s), i # k PROVE s[i] \in ToSet(q)
      BY <1>2
    <3>1. CASE i < k
      <4>1. i \in 1..Len(s)-1  BY <1>1, <3>1
      <4> QED
        BY <1>2, <1>4, <3>1, <4>1
    <3>2. CASE ~(i < k)
      <4>1. i - 1 \in 1..Len(s)-1 /\ ~(i - 1 < k) /\ i - 1 + 1 = i  BY <1>1, <3>2
      <4>2. q[i - 1] = s[i]  BY <1>4, <4>1
      <4> QED
        BY <1>2, <1>4, <4>1, <4>2
    <3> QED
      BY <3>1, <3>2
  <2> QED
    BY <2>2, <2>3, <2>4
<1>5. s # <<>> => Head(s) \in ToSet(s) /\ Tail(s) \in Seq(S)
  <2> SUFFICES ASSUME s # <<>> PROVE Head(s) \in ToSet(s) /\ Tail(s) \in Seq(S)
    OBVIOUS
  <2>1. Head(s) = s[1] /\ Tail(s) \in Seq(S) /\ 1 \in 1..Len(s)
    BY HeadTailProperties, EmptySeq, <1>1, SMTT(30)
  <2> QED
    BY <1>2, <2>1
<1>6. s # <<>> /\ IsInjective(s) => IsInjective(Tail(s)) /\ ToSet(Tail(s)) = ToSet(s) \ {Head(s)}
  <2> SUFFICES ASSUME s # <<>>, IsInjective(s)
               PROVE  IsInjective(Tail(s)) /\ ToSet(Tail(s)) = ToSet(s) \ {Head(s)}
    OBVIOUS
  <2>1. /\ Head(s) = s[1] /\ Tail(s) \in Seq(S) /\ Len(Tail(s)) = Len(s) - 1
        /\ \A j \in 1..Len(s)-1 : Tail(s)[j] = s[j+1]
    BY HeadTailProperties
  <2>2. 1 \in 1..Len(s) /\ \A j \in 1..Len(s)-1 : ~(j < 1)
    BY <1>1, EmptySeq
  <2> QED
    BY <1>4, <2>1, <2>2
<1>7. /\ RemoveFirst(s, x) \in Seq(S)
      /\ IsInjective(s) =>
           IsInjective(RemoveFirst(s, x)) /\ ToSet(RemoveFirst(s, x)) = ToSet(s) \ {x}
  <2>1. CASE x \notin ToSet(s)
    <3>1. RemoveFirst(s, x) = s
      BY <1>2, <2>1 DEF RemoveFirst
    <3> QED
      BY <2>1, <3>1
  <2>2. CASE x \in ToSet(s)
    <3> DEFINE I == {i \in 1..Len(s) : s[i] = x}
    <3>1. I # {} /\ I \in SUBSET Nat
      BY <1>2, <2>2
    <3>2. \E k \in I : \A i \in I : k <= i
      <4> HIDE DEF I
      <4> QED
        BY <3>1, LeastElement
    <3>3. Min(I) \in I
      BY <3>2 DEF Min
    <3>4. SelectInSeq(s, LAMBDA v : v = x) = Min(I)
      BY <3>1 DEF SelectInSeq
    <3>5. RemoveFirst(s, x) = RemoveAt(s, Min(I)) /\ Min(I) \in 1..Len(s) /\ s[Min(I)] = x
      BY <3>1, <3>3, <3>4 DEF RemoveFirst
    <3> HIDE DEF I
    <3>6. PICK k \in 1..Len(s) : RemoveFirst(s, x) = RemoveAt(s, k) /\ s[k] = x
      BY <3>5
    <3>7. /\ RemoveAt(s, k) \in Seq(S) /\ Len(RemoveAt(s, k)) = Len(s) - 1
          /\ \A j \in 1..Len(s)-1 : RemoveAt(s, k)[j] = IF j < k THEN s[j] ELSE s[j+1]
      BY RemoveAtProperties
    <3> QED
      BY <1>4, <3>6, <3>7
  <2> QED
    BY <2>1, <2>2
<1>8. ToSet(s) \subseteq S
  BY <1>1, <1>2
<1> QED
  BY <1>3, <1>5, <1>6, <1>7, <1>8

\* A sequence is its first elements, so many of them, and the others.
LEMMA SplitAt ==
  ASSUME NEW S, NEW s \in Seq(S), NEW c \in 0..Len(s)
  PROVE  /\ SubSeq(s, 1, c) \in Seq(S) /\ Len(SubSeq(s, 1, c)) = c
         /\ \A i \in 1..c : SubSeq(s, 1, c)[i] = s[i]
         /\ SubSeq(s, c + 1, Len(s)) \in Seq(S) /\ Len(SubSeq(s, c + 1, Len(s))) = Len(s) - c
         /\ \A i \in 1..Len(s)-c : SubSeq(s, c + 1, Len(s))[i] = s[c + i]
         /\ SubSeq(s, 1, c) \o SubSeq(s, c + 1, Len(s)) = s
<1> DEFINE N == Len(s)
           a == SubSeq(s, 1, c)
           b == SubSeq(s, c + 1, N)
<1>1. N \in Nat /\ c \in Nat /\ c <= N /\ \A i \in 1..N : s[i] \in S
  BY LenProperties, ElementOfSeq
<1> HIDE DEF N
<1>2. /\ a \in Seq(S) /\ Len(a) = IF 1 <= c THEN c - 1 + 1 ELSE 0
      /\ \A i \in 1..c-1+1 : a[i] = s[1+i-1]
  <2>1. \A i \in 1..c : s[i] \in S
    BY <1>1
  <2> QED
    BY <1>1, <2>1, SubSeqProperties
<1>3. /\ b \in Seq(S) /\ Len(b) = IF c + 1 <= N THEN N - (c + 1) + 1 ELSE 0
      /\ \A i \in 1..N-(c+1)+1 : b[i] = s[(c+1)+i-1]
  <2>1. c + 1 \in Int /\ N \in Int /\ \A i \in c+1..N : s[i] \in S
    BY <1>1
  <2> QED
    BY <2>1, SubSeqProperties
<1>4. a \o b = s
  <2>1. 1 \in 1..N+1 /\ c \in 1-1..N /\ N \in c..N
    BY <1>1
  <2>2. a \o b = SubSeq(s, 1, N)
    BY <2>1, ConcatAdjacentSubSeq DEF N
  <2> QED
    BY <2>2, SubSeqFull DEF N
<1> HIDE DEF a, b
<1>5. Len(a) = c /\ Len(b) = N - c
  BY <1>1, <1>2, <1>3
<1>6. ASSUME NEW i \in 1..c PROVE a[i] = s[i]
  <2>1. i \in 1..c-1+1 /\ 1+i-1 = i
    BY <1>1
  <2> QED
    BY <1>2, <2>1
<1>7. ASSUME NEW i \in 1..N-c PROVE b[i] = s[c + i]
  <2>1. i \in 1..N-(c+1)+1 /\ (c+1)+i-1 = c + i
    BY <1>1
  <2> QED
    BY <1>3, <2>1
<1> QED
  BY <1>2, <1>3, <1>4, <1>5, <1>6, <1>7 DEF N, a, b

\* The elements of a sequence made of two.
LEMMA JoinAt ==
  ASSUME NEW S, NEW a \in Seq(S), NEW b \in Seq(S)
  PROVE  /\ a \o b \in Seq(S) /\ Len(a \o b) = Len(a) + Len(b)
         /\ \A i \in 1..Len(a) : (a \o b)[i] = a[i]
         /\ \A i \in 1..Len(b) : (a \o b)[Len(a) + i] = b[i]
<1>1. Len(a) \in Nat /\ Len(b) \in Nat
  BY LenProperties
<1>2. /\ a \o b \in Seq(S) /\ Len(a \o b) = Len(a) + Len(b)
      /\ \A i \in 1..Len(a)+Len(b) : (a \o b)[i] = IF i <= Len(a) THEN a[i] ELSE b[i - Len(a)]
  BY ConcatProperties
<1>3. ASSUME NEW i \in 1..Len(a) PROVE (a \o b)[i] = a[i]
  <2>1. i \in 1..Len(a)+Len(b) /\ i <= Len(a)
    BY <1>1
  <2> QED
    BY <1>2, <2>1
<1>4. ASSUME NEW i \in 1..Len(b) PROVE (a \o b)[Len(a) + i] = b[i]
  <2>1. Len(a) + i \in 1..Len(a)+Len(b) /\ ~(Len(a) + i <= Len(a)) /\ (Len(a) + i) - Len(a) = i
    BY <1>1
  <2> QED
    BY <1>2, <2>1
<1> QED
  BY <1>2, <1>3, <1>4

\* s is what the parts after the first k are, joined: what is left of it after
\* i of them is f[i].
Joining(S, f, parts, k, s) ==
  /\ f \in [k..Len(parts) -> Seq(S)]
  /\ f[k] = s /\ f[Len(parts)] = <<>>
  /\ \A i \in k..Len(parts)-1 : f[i] = parts[i+1] \o f[i+1]
PartsJoined(S, parts, k, s) == \E f : Joining(S, f, parts, k, s)

\* s begins with the part after the first k.
Leads(S, parts, k, s) ==
  k < Len(parts) /\ \E t \in Seq(S) : s = parts[k+1] \o t /\ PartsJoined(S, parts, k + 1, t)

\* Concatenation is associative.
LEMMA Regrouped ==
  ASSUME NEW S, NEW a \in Seq(S), NEW b \in Seq(S), NEW c \in Seq(S)
  PROVE  (a \o b) \o c = a \o (b \o c)
BY ConcatAssociative

\* a \o b, which the provers should not look into.
Cat(a, b) == a \o b

\* The same, of concatenations the provers do not look into.
LEMMA CatRegrouped ==
  ASSUME NEW S, NEW a \in Seq(S), NEW b \in Seq(S), NEW c \in Seq(S)
  PROVE  Cat(Cat(a, b), c) = Cat(a, Cat(b, c))
<1>1. (a \o b) \o c = a \o (b \o c)
  BY Regrouped
<1> QED
  BY <1>1 DEF Cat

\* With one more part.
LEMMA JoiningGrows ==
  ASSUME NEW S, NEW parts \in Seq(Seq(S)), NEW k \in 0..Len(parts), NEW p \in Seq(S),
         NEW f, NEW s, Joining(S, f, parts, k, s)
  PROVE  Joining(S, [i \in k..Len(parts)+1 |-> IF i = Len(parts) + 1 THEN <<>> ELSE f[i] \o p],
                 Append(parts, p), k, s \o p)
<1> DEFINE N == Len(parts)
           q == Append(parts, p)
           g == [i \in k..N+1 |-> IF i = N + 1 THEN <<>> ELSE f[i] \o p]
<1>1. N \in Nat /\ k \in Nat /\ k <= N /\ \A i \in 1..N : parts[i] \in Seq(S)
  BY LenProperties, ElementOfSeq
<1>2. Len(q) = N + 1 /\ q[N+1] = p /\ \A i \in 1..N : q[i] = parts[i]
  BY AppendProperties
<1>3. /\ \A i \in k..N : f[i] \in Seq(S)
      /\ f[k] = s /\ f[N] = <<>>
      /\ \A i \in k..N-1 : f[i] = parts[i+1] \o f[i+1]
  BY DEF Joining
<1> HIDE DEF q, N
<1>4. \A i \in k..N : f[i] \o p \in Seq(S)
  BY <1>3, ConcatProperties
<1>5. <<>> \in Seq(S) /\ <<>> \o p = p /\ p \o <<>> = p
  BY ConcatEmptySeq
<1>6. g \in [k..N+1 -> Seq(S)]
  <2>1. \A i \in k..N+1 : i = N + 1 \/ i \in k..N
    BY <1>1
  <2> QED
    BY <1>4, <1>5, <2>1
<1>7. g[k] = s \o p /\ g[N+1] = <<>>
  <2>1. k \in k..N+1 /\ N + 1 \in k..N+1 /\ k # N + 1
    BY <1>1
  <2> QED
    BY <1>3, <2>1
<1>8. ASSUME NEW i \in k..N PROVE g[i] = q[i+1] \o g[i+1]
  <2>1. i \in k..N+1 /\ i # N + 1 /\ i + 1 \in k..N+1
    BY <1>1
  <2>2. g[i] = f[i] \o p
    BY <2>1
  <2>3. CASE i = N
    <3>1. g[i+1] = <<>> /\ q[i+1] = p
      BY <1>2, <1>7, <2>3
    <3>2. g[i] = p
      BY <1>3, <1>5, <2>2, <2>3
    <3> QED
      BY <1>5, <3>1, <3>2
  <2>4. CASE i # N
    <3>1. i \in k..N-1 /\ i + 1 \in k..N /\ i + 1 # N + 1 /\ i + 1 \in 1..N
      BY <1>1, <2>4
    <3>2. g[i+1] = f[i+1] \o p /\ q[i+1] = parts[i+1]
      BY <1>2, <2>1, <3>1
    <3>3. parts[i+1] \in Seq(S) /\ f[i+1] \in Seq(S)
      BY <1>1, <1>3, <3>1
    <3> DEFINE a == parts[i+1]
               b == f[i+1]
    <3> HIDE DEF g, a, b
    <3>4. (a \o b) \o p = a \o (b \o p)
      <4>1. a \in Seq(S) /\ b \in Seq(S)
        BY <3>3 DEF a, b
      <4> QED
        BY <4>1, Regrouped
    <3> QED
      BY <1>3, <2>2, <3>1, <3>2, <3>4 DEF a, b
  <2> QED
    BY <2>3, <2>4
<1> HIDE DEF g
<1>9. \A i \in k..N : g[i] = q[i+1] \o g[i+1]
  BY <1>8
<1>10. (N + 1) - 1 = N
  BY <1>1
<1>11. Joining(S, g, q, k, s \o p)
  BY <1>2, <1>6, <1>7, <1>9, <1>10 DEF Joining
<1> QED
  BY <1>11 DEF g, q, N

\* What joined parts are, what another one makes of them, and that what is not
\* empty begins with a part.
LEMMA JoinedParts ==
  ASSUME NEW S, NEW parts \in Seq(Seq(S)), NEW k \in 0..Len(parts), NEW s, PartsJoined(S, parts, k, s)
  PROVE  /\ s \in Seq(S)
         /\ \A p \in Seq(S) : PartsJoined(S, Append(parts, p), k, s \o p)
         /\ s # <<>> => Leads(S, parts, k, s)
<1> DEFINE N == Len(parts)
<1>1. N \in Nat /\ k \in Nat /\ k <= N
  BY LenProperties
<1>2. PICK f : Joining(S, f, parts, k, s)
  BY DEF PartsJoined
<1>3. ASSUME NEW p \in Seq(S) PROVE PartsJoined(S, Append(parts, p), k, s \o p)
  BY <1>2, JoiningGrows DEF PartsJoined
<1>4. /\ f \in [k..N -> Seq(S)]
      /\ f[k] = s /\ f[N] = <<>>
      /\ \A i \in k..N-1 : f[i] = parts[i+1] \o f[i+1]
  BY <1>2 DEF Joining
<1>5. s \in Seq(S)
  BY <1>1, <1>4
<1>6. ASSUME s # <<>>
      PROVE  k < N /\ \E t \in Seq(S) : s = parts[k+1] \o t /\ PartsJoined(S, parts, k + 1, t)
  <2>1. k < N
    BY <1>1, <1>4, <1>6
  <2> HIDE DEF N
  <2> DEFINE g == [i \in k+1..N |-> f[i]]
             t == f[k+1]
  <2>2. /\ k + 1 \in k..N /\ k + 1 \in k+1..N /\ N \in k+1..N /\ k \in k..N-1
        /\ \A i \in k+1..N : i \in k..N
        /\ \A i \in k+1..N-1 : i \in k..N-1 /\ i \in k+1..N /\ i + 1 \in k+1..N
    BY <1>1, <2>1
  <2>3. g \in [k+1..N -> Seq(S)] /\ g[k+1] = t /\ g[N] = <<>>
    BY <1>4, <2>2
  <2>4. \A i \in k+1..N-1 : g[i] = parts[i+1] \o g[i+1]
    BY <1>4, <2>2
  <2>5. t \in Seq(S) /\ s = parts[k+1] \o t
    BY <1>4, <2>2
  <2> HIDE DEF g, t
  <2>6. Joining(S, g, parts, k + 1, t)
    BY <2>3, <2>4 DEF Joining, N
  <2> QED
    BY <2>1, <2>5, <2>6 DEF PartsJoined
<1> QED
  BY <1>3, <1>5, <1>6 DEF Leads

\* No part is left.
LEMMA NothingJoined ==
  ASSUME NEW S, NEW parts \in Seq(Seq(S))
  PROVE  PartsJoined(S, parts, Len(parts), <<>>)
<1> DEFINE N == Len(parts)
           f == [i \in N..N |-> <<>>]
<1>1. N \in Nat
  BY LenProperties
<1>2. N..N = {N} /\ N..N-1 = {}
  BY <1>1
<1>3. <<>> \in Seq(S)
  BY ConcatEmptySeq
<1>4. f \in [N..N -> Seq(S)] /\ f[N] = <<>>
  BY <1>2, <1>3
<1> HIDE DEF f
<1>5. Joining(S, f, parts, N, <<>>)
  BY <1>2, <1>4 DEF Joining
<1> QED
  BY <1>5 DEF PartsJoined

\* Functions on an interval from 1 are sequences.
LEMMA FunctionsAreSequences ==
  ASSUME NEW S, NEW w \in Nat, NEW s \in [1..w -> S]
  PROVE  s \in Seq(S) /\ Len(s) = w
BY SeqDef

\* The second of two concatenations, with something after both.
LEMMA FourRegrouped ==
  ASSUME NEW S, NEW a \in Seq(S), NEW b \in Seq(S), NEW c \in Seq(S), NEW d \in Seq(S)
  PROVE  Cat(Cat(a, Cat(b, c)), d) = Cat(a, Cat(b, Cat(c, d)))
<1>1. Cat(b, c) \in Seq(S)
  BY ConcatProperties DEF Cat
<1>2. Cat(Cat(a, Cat(b, c)), d) = Cat(a, Cat(Cat(b, c), d))
  BY <1>1, CatRegrouped
<1>3. Cat(Cat(b, c), d) = Cat(b, Cat(c, d))
  BY CatRegrouped
<1> QED
  BY <1>2, <1>3

\* s begins with a, and t follows.
Splits(s, a, t) == SubSeq(s, 1, Len(a)) = a /\ SubSeq(s, Len(a) + 1, Len(s)) = t

\* Taking the first of two.
LEMMA FirstTaken ==
  ASSUME NEW S, NEW a \in Seq(S), NEW t \in Seq(S), NEW s, s = Cat(a, t)
  PROVE  Splits(s, a, t)
<1> DEFINE N == Len(a)
           M == Len(t)
<1>1. N \in Nat /\ M \in Nat
  BY LenProperties
<1>2. /\ s \in Seq(S) /\ Len(s) = N + M
      /\ \A i \in 1..N : s[i] = a[i]
      /\ \A i \in 1..M : s[N + i] = t[i]
  <2> DEFINE c == a \o t
  <2>1. /\ c \in Seq(S) /\ Len(c) = Len(a) + Len(t)
        /\ \A i \in 1..Len(a) : c[i] = a[i]
        /\ \A i \in 1..Len(t) : c[Len(a) + i] = t[i]
    BY JoinAt
  <2>2. c = s
    BY DEF Cat
  <2> HIDE DEF c
  <2> QED
    BY <2>1, <2>2
<1> HIDE DEF N, M
<1> DEFINE p == SubSeq(s, 1, N)
           q == SubSeq(s, N + 1, Len(s))
<1>3. N \in 0..Len(s) /\ Len(s) - N = M
  BY <1>1, <1>2
<1>4. /\ p \in Seq(S) /\ Len(p) = N /\ \A i \in 1..N : p[i] = s[i]
      /\ q \in Seq(S) /\ Len(q) = Len(s) - N /\ \A i \in 1..Len(s)-N : q[i] = s[N + i]
  BY <1>2, <1>3, SplitAt
<1> HIDE DEF p, q
<1>5. p = a
  BY <1>2, <1>4, SeqEqual DEF N
<1>6. q = t
  BY <1>2, <1>3, <1>4, SeqEqual DEF M
<1> QED
  BY <1>5, <1>6 DEF p, q, N, Splits

\* s is made of b, p and t.
Three(s, b, p, t) ==
  /\ Len(s) = Len(b) + Len(p) + Len(t)
  /\ \A i \in 1..Len(b) : s[i] = b[i]
  /\ SubSeq(s, Len(b) + 1, Len(b) + Len(p)) = p
  /\ SubSeq(s, Len(b) + Len(p) + 1, Len(s)) = t

\* Taking each of three.
LEMMA MiddleTaken ==
  ASSUME NEW S, NEW b \in Seq(S), NEW p \in Seq(S), NEW t \in Seq(S), NEW s, s = Cat(b, Cat(p, t))
  PROVE  Three(s, b, p, t)
<1> DEFINE N == Len(b)
           M == Len(p)
           K == Len(t)
           u == p \o t
<1>1. N \in Nat /\ M \in Nat /\ K \in Nat
  BY LenProperties
<1>2. /\ u \in Seq(S) /\ Len(u) = M + K
      /\ \A i \in 1..M : u[i] = p[i]
      /\ \A i \in 1..K : u[M + i] = t[i]
  BY JoinAt
<1>3. /\ s \in Seq(S) /\ Len(s) = N + Len(u)
      /\ \A i \in 1..N : s[i] = b[i]
      /\ \A i \in 1..Len(u) : s[N + i] = u[i]
  <2>1. s = b \o u
    BY DEF Cat
  <2> HIDE DEF u
  <2> DEFINE c == b \o u
  <2>2. /\ c \in Seq(S) /\ Len(c) = N + Len(u)
        /\ \A i \in 1..N : c[i] = b[i]
        /\ \A i \in 1..Len(u) : c[N + i] = u[i]
    <3>1. u \in Seq(S)
      BY <1>2
    <3> QED
      BY <3>1, JoinAt
  <2> HIDE DEF c
  <2>3. c = s
    BY <2>1 DEF c
  <2> QED
    BY <2>2, <2>3
<1> HIDE DEF N, M, K, u
<1>4. Len(s) = N + M + K /\ \A i \in 1..Len(s) : s[i] \in S
  BY <1>1, <1>2, <1>3, ElementOfSeq
<1>5. ASSUME NEW i \in 1..M PROVE s[N + i] = p[i]
  <2>1. i \in 1..Len(u)
    BY <1>1, <1>2
  <2> QED
    BY <1>2, <1>3, <2>1
<1>6. ASSUME NEW i \in 1..K PROVE s[N + M + i] = t[i]
  <2>1. M + i \in 1..Len(u) /\ N + (M + i) = N + M + i
    BY <1>1, <1>2
  <2> QED
    BY <1>2, <1>3, <2>1
<1> DEFINE q == SubSeq(s, N + 1, N + M)
           r == SubSeq(s, N + M + 1, Len(s))
<1>7. q = p
  <2> DEFINE L == N + M
  <2>0. L \in Int /\ N + 1 \in Int /\ \A i \in N+1..L : s[i] \in S
    BY <1>1, <1>4
  <2> HIDE DEF L
  <2>1. /\ q \in Seq(S) /\ Len(q) = IF N + 1 <= L THEN L - (N + 1) + 1 ELSE 0
        /\ \A i \in 1..L-(N+1)+1 : q[i] = s[N + 1 + i - 1]
    BY <2>0, SubSeqProperties DEF L
  <2> HIDE DEF q
  <2>2. Len(q) = M
    BY <1>1, <2>1 DEF L
  <2>3. ASSUME NEW i \in 1..M PROVE q[i] = p[i]
    <3>1. i \in 1..L-(N+1)+1 /\ N + 1 + i - 1 = N + i
      BY <1>1 DEF L
    <3> QED
      BY <1>5, <2>1, <3>1
  <2> QED
    BY <2>1, <2>2, <2>3, SeqEqual DEF M
<1>8. r = t
  <2> DEFINE L == Len(s)
  <2>0. L = N + M + K /\ L \in Nat
    BY <1>1, <1>4
  <2> HIDE DEF L
  <2>1. /\ r \in Seq(S) /\ Len(r) = IF N + M + 1 <= L THEN L - (N + M + 1) + 1 ELSE 0
        /\ \A i \in 1..L-(N+M+1)+1 : r[i] = s[N + M + 1 + i - 1]
    <3>1. \A i \in N+M+1..L : s[i] \in S
      BY <1>1, <1>4, <2>0 DEF L
    <3>2. N + M + 1 \in Int /\ L \in Int
      BY <1>1, <2>0
    <3> QED
      BY <3>1, <3>2, SubSeqProperties DEF L
  <2> HIDE DEF r
  <2>2. Len(r) = K
    BY <1>1, <2>0, <2>1
  <2>3. ASSUME NEW i \in 1..K PROVE r[i] = t[i]
    <3>1. i \in 1..L-(N+M+1)+1 /\ N + M + 1 + i - 1 = N + M + i
      BY <1>1, <2>0
    <3> QED
      BY <1>6, <2>1, <3>1
  <2> QED
    BY <2>1, <2>2, <2>3, SeqEqual DEF K
<1> QED
  BY <1>3, <1>4, <1>7, <1>8 DEF N, M, K, q, r, Three
=============================================================================
