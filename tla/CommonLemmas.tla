---------------------------- MODULE CommonLemmas ----------------------------
(***************************************************************************)
(* Facts the proofs about several components share.  Least and greatest    *)
(* elements of sets of numbers stand in for induction: the smallest        *)
(* counterexample does not exist.  Multiples are what alignment is about.  *)
(* The facts about sequences say how a path of open nodes loses its last   *)
(* node, and what a push and a pop do to a list that holds no address      *)
(* twice.                                                                  *)
(***************************************************************************)
EXTENDS Integers, Sequences, Functions, WellFoundedInduction, TLAPS

\* How long, in seconds, a leaf may take where it does not say otherwise.
USE SMTT(20), ZenonT(20)

-----------------------------------------------------------------------------
(* Least and greatest elements.                                            *)

\* A set of numbers that is not empty has a least element.
LEMMA LeastElement ==
  ASSUME NEW S \in SUBSET Nat, S # {}
  PROVE  \E x \in S : \A y \in S : x <= y
<1> DEFINE R == {ss \in Nat \X Nat : ss[1] < ss[2]}
<1>1. IsWellFoundedOn(R, Nat)
  BY NatLessThanWellFounded DEF OpToRel
<1>2. PICK x \in S : \A y \in S : ~(<<y, x>> \in R)
  <2> HIDE DEF R
  <2> QED BY <1>1, WFMin, Zenon
<1>3. ASSUME NEW y \in S PROVE x <= y
  <2>1. x \in Nat /\ y \in Nat
    OBVIOUS
  <2>2. y < x => <<y, x>> \in R
    BY <2>1
  <2> HIDE DEF R
  <2>3. ~(y < x)
    BY <1>2, <2>2
  <2> QED BY <2>1, <2>3
<1> QED BY <1>3

\* One that is bounded has a greatest: the least of its bounds.
LEMMA GreatestElement ==
  ASSUME NEW S \in SUBSET Nat, S # {}, NEW n \in Nat, \A y \in S : y <= n
  PROVE  \E x \in S : \A y \in S : y <= x
<1> DEFINE B == {k \in Nat : \A y \in S : y <= k}
<1>1. PICK x \in B : \A k \in B : x <= k
  <2>1. B \in SUBSET Nat /\ B # {}
    OBVIOUS
  <2> HIDE DEF B
  <2> QED BY <2>1, LeastElement
<1>2. x \in Nat /\ \A y \in S : y <= x
  OBVIOUS
<1>3. ASSUME x \notin S PROVE FALSE
  <2>1. \A y \in S : y <= x - 1
    BY <1>2, <1>3
  <2>2. x - 1 \in Nat
    <3>1. PICK y \in S : TRUE
      BY Zenon
    <3> QED BY <1>2, <2>1, <3>1
  <2>3. x - 1 \in B
    BY <2>1, <2>2
  <2> QED BY <1>1, <1>2, <2>3
<1> QED BY <1>2, <1>3

-----------------------------------------------------------------------------
(* Multiples.                                                              *)

\* A number is divisible by s exactly when it is some number of times s.
LEMMA Multiple ==
  \A x, s \in Nat : s > 0 => (x % s = 0 <=> \E k \in Nat : x = k * s)
<1> SUFFICES ASSUME NEW x \in Nat, NEW s \in Nat, s > 0
             PROVE  x % s = 0 <=> \E k \in Nat : x = k * s
  BY Zenon
<1>1. ASSUME NEW k \in Nat PROVE (k * s) % s = 0
  OBVIOUS
<1>2. x % s = 0 => x = (x \div s) * s /\ x \div s \in Nat
  OBVIOUS
<1> QED BY <1>1, <1>2

\* Multiplying by s and dividing by s.
LEMMA Times == ASSUME NEW k \in Nat, NEW s \in Nat, s > 0
               PROVE  (k * s) % s = 0 /\ (k * s) \div s = k
  OBVIOUS

\* Multiplication keeps the order.
LEMMA TimesOrder ==
  ASSUME NEW x \in Nat, NEW y \in Nat, NEW g \in Nat, x <= y
  PROVE  x * g <= y * g /\ x * g \in Nat /\ y * g \in Nat
<1>1. PICK d \in Nat : y = x + d
  <2>1. y - x \in Nat /\ y = x + (y - x)
    OBVIOUS
  <2> QED BY <2>1
<1>2. y * g = x * g + d * g /\ x * g \in Nat /\ d * g \in Nat
  BY <1>1
<1> QED BY <1>2

\* The sum of two multiples is a multiple.
LEMMA MultipleSum ==
  ASSUME NEW x \in Nat, NEW y \in Nat, NEW s \in Nat, s > 0, x % s = 0, y % s = 0
  PROVE  (x + y) % s = 0
<1>1. PICK k \in Nat : x = k * s
  BY Multiple, Zenon
<1>2. PICK l \in Nat : y = l * s
  BY Multiple, Zenon
<1>3. x + y = (k + l) * s /\ k + l \in Nat
  BY <1>1, <1>2
<1>4. ((k + l) * s) % s = 0
  BY <1>3, Times
<1> QED BY <1>3, <1>4

\* A multiple of a multiple is a multiple.
LEMMA MultipleOfMultiple ==
  ASSUME NEW x \in Nat, NEW y \in Nat, NEW s \in Nat, s > 0, y > 0, x % y = 0, y % s = 0
  PROVE  x % s = 0
<1>1. PICK k \in Nat : x = k * y
  BY Multiple, Zenon
<1>2. PICK l \in Nat : y = l * s
  BY Multiple, Zenon
<1>3. x = (k * l) * s /\ k * l \in Nat
  BY <1>1, <1>2
<1>4. ((k * l) * s) % s = 0
  BY <1>3, Times
<1> QED BY <1>3, <1>4

\* Of two neighbours at multiples of s the one at an even multiple is at a
\* multiple of 2 * s: the test buddyOf makes with an exclusive or.
LEMMA LowerBuddy ==
  ASSUME NEW x \in Nat, NEW s \in Nat, s > 0, x % s = 0
  PROVE  IF (x \div s) % 2 = 0 THEN x % (2 * s) = 0
                               ELSE s <= x /\ (x - s) % (2 * s) = 0
<1> DEFINE d == 2 * s
<1>1. PICK k \in Nat : x = k * s
  BY Multiple, Zenon
<1>2. x \div s = k
  BY <1>1, Times
<1>3. d \in Nat /\ d > 0
  OBVIOUS
<1>4. CASE k % 2 = 0
  <2>1. PICK j \in Nat : k = j * 2
    <3>1. k = (k \div 2) * 2 /\ k \div 2 \in Nat
      BY <1>4
    <3> QED BY <3>1
  <2>2. x = j * d
    BY <1>1, <2>1
  <2> HIDE DEF d
  <2>3. x % d = 0
    BY <1>3, <2>2, Times
  <2> QED BY <1>2, <1>4, <2>3 DEF d
<1>5. CASE k % 2 # 0
  <2>1. PICK j \in Nat : k = j * 2 + 1
    <3>1. k = (k \div 2) * 2 + 1 /\ k \div 2 \in Nat
      BY <1>5
    <3> QED BY <3>1
  <2>2. x - s = j * d /\ s <= x
    <3>1. x = j * d + s
      BY <1>1, <2>1
    <3>2. j * d \in Nat
      OBVIOUS
    <3> QED BY <3>1, <3>2
  <2> HIDE DEF d
  <2>3. (x - s) % d = 0
    BY <1>3, <2>2, Times
  <2> QED BY <1>2, <1>5, <2>2, <2>3 DEF d
<1> QED BY <1>4, <1>5

\* Different multiples of s are at least s apart.
LEMMA MultiplesApart ==
  ASSUME NEW x \in Nat, NEW y \in Nat, NEW s \in Nat, s > 0, x % s = 0, y % s = 0, x < y
  PROVE  x + s <= y
<1>1. PICK k \in Nat : x = k * s
  BY Multiple, Zenon
<1>2. PICK l \in Nat : y = l * s
  BY Multiple, Zenon
<1>3. CASE l <= k
  <2>1. PICK d \in Nat : k = l + d
    BY <1>3
  <2>2. k * s = l * s + d * s /\ d * s \in Nat /\ l * s \in Nat
    BY <2>1
  <2> QED BY <1>1, <1>2, <2>2
<1>4. CASE k < l
  <2>1. PICK d \in Nat : l = k + 1 + d
    <3>1. l - k - 1 \in Nat /\ l = k + 1 + (l - k - 1)
      BY <1>4
    <3> QED BY <3>1
  <2>2. l * s = k * s + s + d * s /\ d * s \in Nat /\ k * s \in Nat
    BY <2>1
  <2> QED BY <1>1, <1>2, <2>2
<1> QED BY <1>3, <1>4

\* A quotient is the multiple that a remainder is added to.
LEMMA QuotientIs ==
  ASSUME NEW k \in Nat, NEW d \in Nat, d > 0, NEW r \in 0 .. (d - 1)
  PROVE  (k * d + r) \div d = k
  OBVIOUS

\* A number and its quotient.
LEMMA Quotient ==
  ASSUME NEW x \in Nat, NEW d \in Nat, d > 0
  PROVE  /\ x \div d \in Nat /\ x % d \in 0 .. (d - 1)
         /\ x = (x \div d) * d + (x % d)
  OBVIOUS

\* A quotient grows with the number.
LEMMA QuotientOrder ==
  ASSUME NEW x \in Nat, NEW y \in Nat, x <= y, NEW d \in Nat, d > 0
  PROVE  x \div d <= y \div d
<1> DEFINE q == x \div d
           p == y \div d
<1>1. /\ q \in Nat /\ p \in Nat /\ x % d \in 0 .. (d - 1) /\ y % d \in 0 .. (d - 1)
      /\ x = q * d + (x % d) /\ y = p * d + (y % d)
  BY Quotient
<1> HIDE DEF q, p
<1>2. SUFFICES ASSUME p + 1 <= q PROVE FALSE
  BY <1>1 DEF q, p
<1>3. (p + 1) * d <= q * d /\ (p + 1) * d = p * d + d
  BY <1>1, <1>2, TimesOrder
<1> DEFINE Q == q * d
           P == p * d
<1>4. Q \in Nat /\ P \in Nat /\ P + d <= Q /\ x >= Q /\ y < P + d
  BY <1>1, <1>3
<1> HIDE DEF Q, P
<1> QED BY <1>4

\* A multiple of s is the lower or the upper half of one pair of size 2s.
LEMMA HalfOf ==
  ASSUME NEW x \in Nat, NEW s \in Nat, s > 0, x % s = 0
  PROVE  LET K == x \div (2 * s)
         IN  /\ K \in Nat /\ x \in {2 * K * s, 2 * K * s + s}
             /\ \A k \in Nat : x \in {2 * k * s, 2 * k * s + s} => k = K
<1> DEFINE d == 2 * s
           K == x \div d
<1>1. d \in Nat /\ d > 0 /\ s < d
  OBVIOUS
<1>2. \A k \in Nat : 2 * k * s = k * d
  OBVIOUS
<1>3. K \in Nat
  BY <1>1
<1>4. ASSUME NEW k \in Nat, x \in {k * d, k * d + s} PROVE k = K
  <2> HIDE DEF d
  <2>1. 0 \in 0 .. (d - 1) /\ s \in 0 .. (d - 1) /\ k * d + 0 = k * d
    BY <1>1
  <2> QED BY <1>1, <1>4, <2>1, QuotientIs
<1>5. x \in {K * d, K * d + s}
  <2>1. CASE x % d = 0
    <3>1. PICK k \in Nat : x = k * d
      BY <1>1, <2>1, Multiple, Zenon
    <3> QED BY <1>4, <3>1
  <2>2. CASE s <= x /\ (x - s) % d = 0
    <3>1. x - s \in Nat
      BY <2>2
    <3>2. PICK k \in Nat : x - s = k * d
      BY <1>1, <2>2, <3>1, Multiple, Zenon
    <3> DEFINE P == k * d
    <3>3. P \in Nat /\ x - s = P
      BY <1>1, <3>2
    <3> HIDE DEF P
    <3>4. x = P + s
      BY <3>3
    <3> QED BY <1>4, <3>4, Zenon DEF P
  <2> QED BY <2>1, <2>2, LowerBuddy
<1> HIDE DEF d
<1> QED BY <1>2, <1>3, <1>4, <1>5 DEF d

\* Rounding down to a multiple of s gives the largest one that is not above.
LEMMA RoundsDown ==
  ASSUME NEW x \in Nat, NEW s \in Nat, s > 0
  PROVE  /\ x - (x % s) \in 0 .. x /\ (x - (x % s)) % s = 0
         /\ \A m \in Nat : m <= x /\ m % s = 0 => m <= x - (x % s)
<1> DEFINE r == x % s
           d == x - r
<1>1. r \in Nat /\ r < s /\ r <= x
  OBVIOUS
<1>2. d \in Nat /\ d <= x
  BY <1>1
<1>3. x = (x \div s) * s + r /\ x \div s \in Nat
  OBVIOUS
<1>4. d = (x \div s) * s
  BY <1>3, <1>1
<1>5. d % s = 0
  <2>1. ((x \div s) * s) % s = 0
    BY <1>3, Times
  <2> QED BY <1>4, <2>1
<1>6. ASSUME NEW m \in Nat, m <= x, m % s = 0 PROVE m <= d
  <2> SUFFICES ASSUME d < m PROVE FALSE
    BY <1>2, <1>6
  <2>1. d + s <= m
    <3> HIDE DEF d
    <3> QED BY <1>2, <1>5, <1>6, MultiplesApart, Zenon
  <2> QED BY <1>1, <1>6, <2>1
<1> QED BY <1>2, <1>5, <1>6

\* Rounding up adds what is missing to the next multiple, and nothing less than
\* s above x is a multiple but the result.
LEMMA RoundsUp ==
  ASSUME NEW x \in Nat, NEW s \in Nat, s > 0
  PROVE  LET p == (s - (x % s)) % s
         IN  /\ p \in 0 .. s - 1 /\ (x + p) % s = 0
             /\ \A m \in x .. x + s - 1 : m % s = 0 => m = x + p
<1> DEFINE r == x % s
           p == (s - r) % s
<1>1. r \in Nat /\ r < s
  OBVIOUS
<1>2. x = (x \div s) * s + r /\ x \div s \in Nat
  OBVIOUS
<1>3. p \in 0 .. s - 1 /\ (x + p) % s = 0
  <2>1. CASE r = 0
    <3>1. s % s = 0
      OBVIOUS
    <3>2. p = 0
      BY <2>1, <3>1
    <3> QED BY <2>1, <3>2
  <2>2. CASE r # 0
    <3>1. s - r \in 1 .. s - 1
      BY <1>1, <2>2
    <3>2. \A z \in 1 .. s - 1 : z % s = z
      OBVIOUS
    <3>3. p = s - r
      <4> HIDE DEF r
      <4> QED BY <3>1, <3>2
    <3>4. x + p = (x \div s + 1) * s
      <4>1. (x \div s + 1) * s = (x \div s) * s + s
        BY <1>2
      <4> QED BY <1>1, <1>2, <3>3, <4>1
    <3>5. ((x \div s + 1) * s) % s = 0
      BY <1>2, Times
    <3> QED BY <3>1, <3>3, <3>4, <3>5
  <2> QED BY <2>1, <2>2
<1>4. ASSUME NEW m \in x .. x + s - 1, m % s = 0 PROVE m = x + p
  <2>1. m \in Nat /\ x + p \in Nat
    BY <1>3
  <2> HIDE DEF p
  <2>2. ~(m < x + p) /\ ~(x + p < m)
    <3>1. m < x + p => m + s <= x + p
      BY <1>3, <1>4, <2>1, MultiplesApart, Zenon
    <3>2. x + p < m => x + p + s <= m
      BY <1>3, <1>4, <2>1, MultiplesApart
    <3> QED BY <1>3, <2>1, <3>1, <3>2
  <2> QED BY <2>1, <2>2
<1> QED BY <1>3, <1>4

-----------------------------------------------------------------------------
(* Sequences.                                                              *)

\* The first n elements of a sequence.
LEMMA PrefixSeq ==
  ASSUME NEW S, NEW s \in Seq(S), NEW n \in 0 .. Len(s)
  PROVE  /\ SubSeq(s, 1, n) \in Seq(S) /\ Len(SubSeq(s, 1, n)) = n
         /\ \A i \in 1 .. n : SubSeq(s, 1, n)[i] = s[i]
<1>1. n \in Nat
  OBVIOUS
<1>2. \A i \in 1 .. n : s[i] \in S
  OBVIOUS
<1>3. /\ SubSeq(s, 1, n) \in Seq(S)
      /\ Len(SubSeq(s, 1, n)) = IF 1 <= n THEN n - 1 + 1 ELSE 0
      /\ \A i \in 1 .. n - 1 + 1 : SubSeq(s, 1, n)[i] = s[1 + i - 1]
  BY <1>1, <1>2
<1>4. Len(SubSeq(s, 1, n)) = n /\ \A i \in 1 .. n : SubSeq(s, 1, n)[i] = s[i]
  BY <1>1, <1>3
<1> QED BY <1>3, <1>4

\* A sequence without its last element.
LEMMA FrontProperties ==
  ASSUME NEW S, NEW s \in Seq(S), Len(s) # 0
  PROVE  /\ SubSeq(s, 1, Len(s) - 1) \in Seq(S)
         /\ Len(SubSeq(s, 1, Len(s) - 1)) = Len(s) - 1
         /\ \A i \in 1 .. Len(s) - 1 : SubSeq(s, 1, Len(s) - 1)[i] = s[i]
<1>1. Len(s) - 1 \in 0 .. Len(s)
  OBVIOUS
<1> QED BY <1>1, PrefixSeq, Zenon

\* A function on 1 .. n is a sequence of length n.
LEMMA FunSeq ==
  ASSUME NEW S, NEW n \in Nat, NEW f \in [1 .. n -> S]
  PROVE  f \in Seq(S) /\ Len(f) = n
  OBVIOUS

\* A sequence as a function on its positions.
LEMMA SeqFun ==
  ASSUME NEW S, NEW s \in Seq(S)
  PROVE  Len(s) \in Nat /\ DOMAIN s = 1 .. Len(s) /\ s \in [1 .. Len(s) -> S]
  OBVIOUS

\* The elements of a sequence over a set are in the set.
LEMMA SeqElement ==
  ASSUME NEW S, NEW s \in Seq(S), NEW i \in 1 .. Len(s)
  PROVE  s[i] \in S
  OBVIOUS

\* The empty sequence, and it alone, has no positions.
LEMMA NoElements ==
  ASSUME NEW S
  PROVE  /\ <<>> \in Seq(S) /\ Len(<<>>) = 0
         /\ \A s \in Seq(S) : s # <<>> => Len(s) \in Nat \ {0}
  OBVIOUS

\* A sequence with an element put after it.
LEMMA SnocSeq ==
  ASSUME NEW S, NEW s \in Seq(S), NEW e \in S
  PROVE  /\ Append(s, e) \in Seq(S) /\ Append(s, e) # <<>>
         /\ Len(Append(s, e)) = Len(s) + 1 /\ Append(s, e)[Len(s) + 1] = e
         /\ \A i \in 1 .. Len(s) : Append(s, e)[i] = s[i]
  OBVIOUS

\* Two sequences, one after the other.
LEMMA JoinSeq ==
  ASSUME NEW S, NEW s \in Seq(S), NEW t \in Seq(S)
  PROVE  /\ s \o t \in Seq(S) /\ Len(s \o t) = Len(s) + Len(t)
         /\ \A i \in 1 .. Len(s) + Len(t) :
              (s \o t)[i] = IF i <= Len(s) THEN s[i] ELSE t[i - Len(s)]
  OBVIOUS

\* A sequence with an element put before it.
LEMMA ConsSeq ==
  ASSUME NEW S, NEW h \in S, NEW s \in Seq(S)
  PROVE  /\ <<h>> \o s \in Seq(S) /\ Len(<<h>> \o s) = Len(s) + 1 /\ Len(s) \in Nat
         /\ (<<h>> \o s)[1] = h /\ \A i \in 1 .. Len(s) : (<<h>> \o s)[i + 1] = s[i]
  OBVIOUS

\* A sequence without its first element.
LEMMA TailSeq ==
  ASSUME NEW S, NEW s \in Seq(S), s # <<>>
  PROVE  /\ Tail(s) \in Seq(S) /\ Len(Tail(s)) = Len(s) - 1 /\ Len(s) \in Nat /\ Len(s) > 0
         /\ \A i \in 1 .. Len(s) - 1 : Tail(s)[i] = s[i + 1]
         /\ Head(s) = s[1] /\ Head(s) \in S
  OBVIOUS

\* A sequence is injective when its elements at different positions differ.
LEMMA InjectiveSeq ==
  ASSUME NEW s \in Seq(Nat)
  PROVE  /\ IsInjective(s) <=> \A i, j \in 1 .. Len(s) : s[i] = s[j] => i = j
         /\ \A x : x \in Range(s) <=> \E i \in 1 .. Len(s) : s[i] = x
  BY DEF IsInjective, Range

\* Concatenation, element by element.
LEMMA ConcatSeq ==
  ASSUME NEW u \in Seq(Nat), NEW v \in Seq(Nat)
  PROVE  /\ u \o v \in Seq(Nat)
         /\ Len(u \o v) = Len(u) + Len(v)
         /\ \A i \in 1 .. Len(u) : (u \o v)[i] = u[i]
         /\ \A i \in 1 .. Len(v) : (u \o v)[Len(u) + i] = v[i]
  OBVIOUS

\* listPush: the pushed address joins the elements of the list.
LEMMA PushSeq ==
  ASSUME NEW s \in Seq(Nat), NEW a \in Nat
  PROVE  /\ <<a>> \o s \in Seq(Nat)
         /\ Range(<<a>> \o s) = Range(s) \cup {a}
         /\ IsInjective(s) /\ a \notin Range(s) => IsInjective(<<a>> \o s)
<1> DEFINE t == <<a>> \o s
<1>1. t \in Seq(Nat) /\ Len(t) = Len(s) + 1 /\ t[1] = a /\ Len(s) \in Nat
  OBVIOUS
<1>2. \A i \in 1 .. Len(s) : (i + 1) \in 1 .. Len(t) /\ t[i + 1] = s[i]
  OBVIOUS
<1>3. \A i \in 1 .. Len(t) : i # 1 => (i - 1) \in 1 .. Len(s) /\ t[i] = s[i - 1]
  OBVIOUS
<1> HIDE DEF t
<1>s. /\ \A x : x \in Range(s) <=> \E i \in 1 .. Len(s) : s[i] = x
      /\ IsInjective(s) <=> \A i, j \in 1 .. Len(s) : s[i] = s[j] => i = j
  BY InjectiveSeq, Zenon
<1>t. /\ \A x : x \in Range(t) <=> \E i \in 1 .. Len(t) : t[i] = x
      /\ IsInjective(t) <=> \A i, j \in 1 .. Len(t) : t[i] = t[j] => i = j
  BY <1>1, InjectiveSeq, Zenon
<1>4. ASSUME NEW x \in Range(t) PROVE x \in Range(s) \cup {a}
  <2>1. PICK i \in 1 .. Len(t) : t[i] = x
    BY <1>t, Zenon
  <2>2. CASE i = 1
    BY <1>1, <2>1, <2>2, Zenon
  <2>3. CASE i # 1
    BY <1>3, <1>s, <2>1, <2>3, Zenon
  <2>4. QED BY <2>2, <2>3, Zenon
<1>5. a \in Range(t)
  <2>1. 1 \in 1 .. Len(t)
    BY <1>1
  <2>2. QED BY <1>1, <1>t, <2>1, Zenon
<1>6. ASSUME NEW x \in Range(s) PROVE x \in Range(t)
  <2>1. PICK i \in 1 .. Len(s) : s[i] = x
    BY <1>s, Zenon
  <2>2. QED
    BY <1>2, <1>t, <2>1, Zenon
<1>7. ASSUME IsInjective(s), a \notin Range(s) PROVE IsInjective(t)
  <2>1. SUFFICES ASSUME NEW i \in 1 .. Len(t), NEW j \in 1 .. Len(t), t[i] = t[j]
                 PROVE  i = j
    BY <1>t, Zenon
  <2>2. ASSUME NEW l \in 1 .. Len(t), l # 1 PROVE t[l] # a
    <3>1. (l - 1) \in 1 .. Len(s) /\ t[l] = s[l - 1]
      BY <1>3, <2>2, Zenon
    <3>2. s[l - 1] \in Range(s)
      BY <1>s, <3>1, Zenon
    <3>3. QED BY <1>7, <3>1, <3>2, Zenon
  <2>3. CASE i = 1 \/ j = 1
    BY <1>1, <2>1, <2>2, <2>3, Zenon
  <2>4. CASE i # 1 /\ j # 1
    <3>1. s[i - 1] = s[j - 1] /\ (i - 1) \in 1 .. Len(s) /\ (j - 1) \in 1 .. Len(s)
      BY <1>3, <2>1, <2>4, Zenon
    <3>2. i - 1 = j - 1
      BY <3>1, <1>7, <1>s, Zenon
    <3>3. QED BY <3>2, <1>1
  <2>5. QED BY <2>3, <2>4, Zenon
<1>8. Range(t) = Range(s) \cup {a}
  BY <1>4, <1>5, <1>6, Zenon
<1>9. QED
  BY <1>1, <1>7, <1>8 DEF t

\* listPop: the head leaves the elements of the list.
LEMMA PopSeq ==
  ASSUME NEW s \in Seq(Nat), s # <<>>, IsInjective(s)
  PROVE  /\ Head(s) \in Range(s) /\ Head(s) \in Nat
         /\ Tail(s) \in Seq(Nat)
         /\ Range(Tail(s)) = Range(s) \ {Head(s)}
         /\ IsInjective(Tail(s))
<1> DEFINE t == Tail(s)
<1>1. /\ t \in Seq(Nat) /\ Len(t) = Len(s) - 1 /\ Head(s) = s[1]
      /\ Len(s) \in Nat /\ Len(s) > 0 /\ s[1] \in Nat
  OBVIOUS
<1>2. \A i \in 1 .. Len(t) : (i + 1) \in 1 .. Len(s) /\ t[i] = s[i + 1]
  OBVIOUS
<1>3. \A i \in 1 .. Len(s) : i # 1 => (i - 1) \in 1 .. Len(t) /\ s[i] = t[i - 1]
  OBVIOUS
<1> HIDE DEF t
<1>s. /\ \A x : x \in Range(s) <=> \E i \in 1 .. Len(s) : s[i] = x
      /\ \A i, j \in 1 .. Len(s) : s[i] = s[j] => i = j
  BY InjectiveSeq, Zenon
<1>t. /\ \A x : x \in Range(t) <=> \E i \in 1 .. Len(t) : t[i] = x
      /\ IsInjective(t) <=> \A i, j \in 1 .. Len(t) : t[i] = t[j] => i = j
  BY <1>1, InjectiveSeq, Zenon
<1>4. 1 \in 1 .. Len(s)
  BY <1>1
<1>5. ASSUME NEW x \in Range(t) PROVE x \in Range(s) /\ x # s[1]
  <2>1. PICK i \in 1 .. Len(t) : t[i] = x
    BY <1>t, Zenon
  <2>2. i + 1 # 1
    OBVIOUS
  <2>3. (i + 1) \in 1 .. Len(s) /\ s[i + 1] = x
    BY <1>2, <2>1, Zenon
  <2>4. QED
    BY <1>4, <1>s, <2>2, <2>3, Zenon
<1>6. ASSUME NEW x \in Range(s), x # s[1] PROVE x \in Range(t)
  <2>1. PICK i \in 1 .. Len(s) : s[i] = x
    BY <1>s, Zenon
  <2>2. QED
    BY <1>3, <1>6, <1>t, <2>1, Zenon
<1>7. IsInjective(t)
  <2>1. SUFFICES ASSUME NEW i \in 1 .. Len(t), NEW j \in 1 .. Len(t), t[i] = t[j]
                 PROVE  i = j
    BY <1>t, Zenon
  <2>2. i + 1 = j + 1
    <3>1. (i + 1) \in 1 .. Len(s) /\ (j + 1) \in 1 .. Len(s) /\ s[i + 1] = s[j + 1]
      BY <1>2, <2>1, Zenon
    <3>2. QED BY <1>s, <3>1, Zenon
  <2>3. QED BY <2>2, <1>1
<1>8. Head(s) \in Range(s)
  BY <1>1, <1>4, <1>s, Zenon
<1>9. Range(t) = Range(s) \ {Head(s)}
  BY <1>1, <1>5, <1>6, Zenon
<1>10. QED
  BY <1>1, <1>7, <1>8, <1>9 DEF t
=============================================================================
