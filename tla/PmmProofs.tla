----------------------------- MODULE PmmProofs ------------------------------
(***************************************************************************)
(* Proofs about the physical page allocator, for every pool, every number  *)
(* of orders and every set of reserved regions.                            *)
(*                                                                         *)
(* The argument for NoOverlap: an operation changes the free lists only by *)
(* a push, a pop or a removal, each of which adds or takes one block       *)
(* (PushFree, PopFree, RemoveFree); a split replaces a block by two halves *)
(* of it and a merge does the opposite, which keeps blocks apart           *)
(* (HalvesApart, MergeApart).  The bitmap plays no part: whatever it says, *)
(* a merge also finds the buddy on its list.                               *)
(*                                                                         *)
(* The bits of an order follow those of the smaller ones (OffsetIs), so    *)
(* that two pairs never share a bit (PairBits) and the last one is in the  *)
(* array (IndexInBounds).  Every step that changes a list, except for      *)
(* MergeFallback, puts one block on it or takes one off and flips the bit  *)
(* of its pair (Flips).  In a pool of whole largest blocks every pair is   *)
(* complete, so a flip keeps the bit right (FlipMatches), the bit tells    *)
(* FreePages whether the buddy is free (BitTells), MergeFallback is never  *)
(* taken, and no two buddies are ever both free (FlipUnmerged).  That is   *)
(* why free memory is served: the smallest free block of a region that is  *)
(* all free would have a free buddy (NotScattered).                        *)
(***************************************************************************)
EXTENDS Pmm, CommonLemmas, TLAPS

\* How long, in seconds, a leaf may take where it does not say otherwise.
USE SMTT(20), ZenonT(20)

-----------------------------------------------------------------------------
(* Blocks.                                                                 *)

\* Order 0, a single page, is an order.
LEMMA ZeroOrder == 0 \in Orders
  BY OrderAssumption DEF Orders

\* A block has at least one byte, and doubling is exact below MAX_ORDER.
LEMMA Sizes ==
  /\ \A o \in Orders : BlockSize[o] \in Nat /\ BlockSize[o] > 0
  /\ \A o \in Orders : o < MAX_ORDER => /\ o + 1 \in Orders
                                        /\ BlockSize[o + 1] = 2 * BlockSize[o]
  /\ \A o \in Orders : 0 < o => /\ o - 1 \in Orders
                                /\ BlockSize[o] = 2 * BlockSize[o - 1]
<1>1. \A o \in Orders : BlockSize[o] \in Nat /\ BlockSize[o] > 0
  BY BlockSizeAssumption
<1>2. \A o \in Orders : o < MAX_ORDER => /\ o + 1 \in Orders
                                        /\ BlockSize[o + 1] = 2 * BlockSize[o]
  BY BlockSizeAssumption, OrderAssumption DEF Orders
<1>3. ASSUME NEW o \in Orders, 0 < o
      PROVE  o - 1 \in Orders /\ BlockSize[o] = 2 * BlockSize[o - 1]
  <2>1. o - 1 \in Orders /\ o - 1 < MAX_ORDER /\ (o - 1) + 1 = o
    BY <1>3, OrderAssumption DEF Orders
  <2>2. BlockSize[(o - 1) + 1] = 2 * BlockSize[o - 1]
    BY <1>2, <2>1
  <2>3. QED BY <2>1, <2>2
<1>4. QED BY <1>1, <1>2, <1>3

\* Disjoint blocks are different: a block is not disjoint from itself.
LEMMA ApartDiffer ==
  ASSUME NEW b \in BlockType, NEW c \in BlockType, Disjoint(b, c)
  PROVE  b # c /\ Disjoint(c, b)
  BY Sizes DEF BlockType, Disjoint, End

\* What is disjoint from a block is disjoint from its halves, and the halves
\* are disjoint from each other.
LEMMA HalvesApart ==
  ASSUME NEW a \in Nat, NEW o \in Orders, 0 < o, m_base \in Nat, m_size \in Nat
  PROVE  LET x == <<a, o>>
             l == <<a, o - 1>>
             h == <<a + BlockSize[o - 1], o - 1>>
         IN  /\ l \in BlockType /\ h \in BlockType /\ x \in BlockType
             /\ Disjoint(l, h)
             /\ \A c \in BlockType : Disjoint(x, c) => Disjoint(l, c) /\ Disjoint(h, c)
             /\ InPool(x) => InPool(l) /\ InPool(h)
<1>1. /\ BlockSize[o - 1] \in Nat /\ BlockSize[o - 1] > 0 /\ o - 1 \in Orders
      /\ BlockSize[o] = 2 * BlockSize[o - 1]
  BY Sizes
<1>2. ASSUME NEW c \in BlockType, Disjoint(<<a, o>>, c)
      PROVE  /\ Disjoint(<<a, o - 1>>, c)
             /\ Disjoint(<<a + BlockSize[o - 1], o - 1>>, c)
  <2>1. BlockSize[c[2]] \in Nat /\ BlockSize[c[2]] > 0 /\ c[1] \in Nat
    BY Sizes DEF BlockType
  <2>2. QED BY <1>1, <1>2, <2>1 DEF Disjoint, End
<1>3. QED
  BY <1>1, <1>2 DEF BlockType, Disjoint, End, InPool

\* What is disjoint from both of two adjacent blocks of one order is disjoint
\* from the block of the next order that they make.
LEMMA MergeApart ==
  ASSUME NEW a \in Nat, NEW b \in Nat, NEW o \in Orders, o < MAX_ORDER,
         b = a + BlockSize[o]
  PROVE  LET x == <<a, o + 1>>
             l == <<a, o>>
             h == <<b, o>>
         IN  /\ x \in BlockType /\ l \in BlockType /\ h \in BlockType
             /\ \A c \in BlockType : Disjoint(l, c) /\ Disjoint(h, c) => Disjoint(x, c)
             /\ InPool(l) /\ InPool(h) => InPool(x)
<1>1. /\ BlockSize[o] \in Nat /\ BlockSize[o] > 0 /\ o + 1 \in Orders
      /\ BlockSize[o + 1] = 2 * BlockSize[o]
  BY Sizes
<1>2. ASSUME NEW c \in BlockType, Disjoint(<<a, o>>, c), Disjoint(<<b, o>>, c)
      PROVE  Disjoint(<<a, o + 1>>, c)
  <2>1. BlockSize[c[2]] \in Nat /\ BlockSize[c[2]] > 0 /\ c[1] \in Nat
    BY Sizes DEF BlockType
  <2>2. QED BY <1>1, <1>2, <2>1 DEF Disjoint, End
<1>3. QED
  BY <1>1, <1>2 DEF BlockType, End, InPool

-----------------------------------------------------------------------------
(* The free lists as a set of blocks.                                      *)

AllInjective == \A o \in Orders : IsInjective(m_freeLists[o])

\* Membership of a block in FreeBlocks.
LEMMA FreeMember ==
  ASSUME NEW a, NEW o \in Orders
  PROVE  <<a, o>> \in FreeBlocks <=> a \in Range(m_freeLists[o])
  BY DEF FreeBlocks

\* Membership of a block in FreeBlocks after a step.
LEMMA FreeMemberPrime ==
  ASSUME NEW a, NEW o \in Orders
  PROVE  (<<a, o>> \in FreeBlocks)' <=> a \in Range(m_freeLists'[o])
  BY DEF FreeBlocks

\* Free blocks are blocks.
LEMMA FreeTyped ==
  ASSUME m_freeLists \in [Orders -> Seq(Nat)]
  PROVE  FreeBlocks \subseteq BlockType
<1>1. SUFFICES ASSUME NEW o \in Orders, NEW a \in Range(m_freeLists[o])
               PROVE  a \in Nat
  BY DEF FreeBlocks, BlockType
<1>2. m_freeLists[o] \in Seq(Nat)
  OBVIOUS
<1>3. QED BY <1>2 DEF Range

\* listPush adds one block, if its address is not 0.
LEMMA PushFree ==
  ASSUME m_freeLists \in [Orders -> Seq(Nat)], NEW a \in Nat, NEW o \in Orders,
         m_freeLists' = listPush(a, o), a # 0
  PROVE  /\ m_freeLists' \in [Orders -> Seq(Nat)]
         /\ FreeBlocks' = FreeBlocks \cup {<<a, o>>}
         /\ AllInjective /\ <<a, o>> \notin FreeBlocks => AllInjective'
<1>1. /\ m_freeLists[o] \in Seq(Nat)
      /\ m_freeLists' = [m_freeLists EXCEPT ![o] = <<a>> \o m_freeLists[o]]
  BY DEF listPush
<1>2. /\ <<a>> \o m_freeLists[o] \in Seq(Nat)
      /\ Range(<<a>> \o m_freeLists[o]) = Range(m_freeLists[o]) \cup {a}
      /\ IsInjective(m_freeLists[o]) /\ a \notin Range(m_freeLists[o])
           => IsInjective(<<a>> \o m_freeLists[o])
  BY <1>1, PushSeq
<1>3. m_freeLists'[o] = <<a>> \o m_freeLists[o]
      /\ \A p \in Orders : p # o => m_freeLists'[p] = m_freeLists[p]
  BY <1>1
<1>4. m_freeLists' \in [Orders -> Seq(Nat)]
  BY <1>1, <1>2
<1>5. FreeBlocks' = FreeBlocks \cup {<<a, o>>}
  <2>1. ASSUME NEW b \in FreeBlocks' PROVE b \in FreeBlocks \cup {<<a, o>>}
    <3>0. PICK p \in Orders : \E x \in Range(m_freeLists'[p]) : b = <<x, p>>
      BY DEF FreeBlocks
    <3>1. PICK x \in Range(m_freeLists'[p]) : b = <<x, p>>
      BY <3>0
    <3>2. CASE p = o
      <4>1. x \in Range(m_freeLists[o]) \cup {a}
        BY <1>2, <1>3, <3>1, <3>2, Zenon
      <4>2. QED BY <3>1, <3>2, <4>1, FreeMember
    <3>3. CASE p # o
      BY <1>3, <3>1, <3>3, FreeMember
    <3>4. QED BY <3>2, <3>3
  <2>2. ASSUME NEW b \in FreeBlocks PROVE b \in FreeBlocks'
    <3>0. PICK p \in Orders : \E x \in Range(m_freeLists[p]) : b = <<x, p>>
      BY DEF FreeBlocks
    <3>1. PICK x \in Range(m_freeLists[p]) : b = <<x, p>>
      BY <3>0
    <3>2. x \in Range(m_freeLists'[p])
      BY <1>2, <1>3, <3>1, Zenon
    <3>3. QED BY <3>1, <3>2 DEF FreeBlocks
  <2>3. <<a, o>> \in FreeBlocks'
    <3>1. a \in Range(m_freeLists'[o])
      BY <1>2, <1>3, Zenon
    <3>2. QED BY <3>1, FreeMemberPrime
  <2>4. QED BY <2>1, <2>2, <2>3, Zenon
<1>6. ASSUME AllInjective, <<a, o>> \notin FreeBlocks PROVE AllInjective'
  BY <1>2, <1>3, <1>6, FreeMember, Zenon DEF AllInjective
<1>7. QED BY <1>4, <1>5, <1>6

\* A list that listPush gives a block at address 0 loses its blocks.
LEMMA PushZero ==
  ASSUME m_freeLists \in [Orders -> Seq(Nat)], NEW o \in Orders,
         m_freeLists' = listPush(0, o)
  PROVE  /\ m_freeLists' \in [Orders -> Seq(Nat)]
         /\ FreeBlocks' \subseteq FreeBlocks
         /\ AllInjective => AllInjective'
<1>1. m_freeLists' = [m_freeLists EXCEPT ![o] = <<>>]
  BY DEF listPush
<1>2. m_freeLists'[o] = <<>> /\ \A p \in Orders : p # o => m_freeLists'[p] = m_freeLists[p]
  BY <1>1
<1>3. Range(m_freeLists'[o]) = {} /\ IsInjective(m_freeLists'[o])
  BY <1>2 DEF Range, IsInjective
<1>4. ASSUME NEW b \in FreeBlocks' PROVE b \in FreeBlocks
  <2>0. PICK p \in Orders : \E x \in Range(m_freeLists'[p]) : b = <<x, p>>
    BY DEF FreeBlocks
  <2>1. PICK x \in Range(m_freeLists'[p]) : b = <<x, p>>
    BY <2>0
  <2>2. p # o
    BY <1>3, <2>1
  <2>3. QED BY <1>2, <2>1, <2>2, FreeMember
<1>5. m_freeLists' \in [Orders -> Seq(Nat)]
  <2>1. <<>> \in Seq(Nat)
    OBVIOUS
  <2>2. QED BY <1>1, <2>1, Zenon
<1>6. AllInjective => AllInjective'
  BY <1>2, <1>3, Zenon DEF AllInjective
<1>7. QED BY <1>4, <1>5, <1>6

\* listPop takes one block, the head of the list.
LEMMA PopFree ==
  ASSUME m_freeLists \in [Orders -> Seq(Nat)], NEW o \in Orders, AllInjective,
         m_freeLists[o] # <<>>, m_freeLists' = listPop(o)
  PROVE  /\ m_freeLists' \in [Orders -> Seq(Nat)]
         /\ Head(m_freeLists[o]) \in Nat
         /\ <<Head(m_freeLists[o]), o>> \in FreeBlocks
         /\ FreeBlocks' = FreeBlocks \ {<<Head(m_freeLists[o]), o>>}
         /\ AllInjective'
<1> DEFINE s == m_freeLists[o]
<1>1. s \in Seq(Nat) /\ m_freeLists' = [m_freeLists EXCEPT ![o] = Tail(s)]
      /\ IsInjective(s)
  BY DEF listPop, AllInjective
<1>2. /\ Head(s) \in Range(s) /\ Head(s) \in Nat
      /\ Tail(s) \in Seq(Nat)
      /\ Range(Tail(s)) = Range(s) \ {Head(s)}
      /\ IsInjective(Tail(s))
  BY <1>1, PopSeq
<1>3. m_freeLists'[o] = Tail(s)
      /\ \A p \in Orders : p # o => m_freeLists'[p] = m_freeLists[p]
  BY <1>1
<1>4. m_freeLists' \in [Orders -> Seq(Nat)]
  BY <1>1, <1>2
<1>5. FreeBlocks' = FreeBlocks \ {<<Head(s), o>>}
  <2>1. ASSUME NEW b \in FreeBlocks' PROVE b \in FreeBlocks /\ b # <<Head(s), o>>
    <3>0. PICK p \in Orders : \E x \in Range(m_freeLists'[p]) : b = <<x, p>>
      BY DEF FreeBlocks
    <3>1. PICK x \in Range(m_freeLists'[p]) : b = <<x, p>>
      BY <3>0
    <3>2. CASE p = o
      <4>1. x \in Range(s) /\ x # Head(s)
        BY <1>2, <1>3, <3>1, <3>2, Zenon
      <4>2. QED BY <3>1, <3>2, <4>1, FreeMember
    <3>3. CASE p # o
      BY <1>3, <3>1, <3>3, FreeMember
    <3>4. QED BY <3>2, <3>3
  <2>2. ASSUME NEW b \in FreeBlocks, b # <<Head(s), o>> PROVE b \in FreeBlocks'
    <3>0. PICK p \in Orders : \E x \in Range(m_freeLists[p]) : b = <<x, p>>
      BY DEF FreeBlocks
    <3>1. PICK x \in Range(m_freeLists[p]) : b = <<x, p>>
      BY <3>0
    <3>2. x \in Range(m_freeLists'[p])
      BY <1>2, <1>3, <2>2, <3>1, Zenon
    <3>3. QED BY <3>1, <3>2 DEF FreeBlocks
  <2>3. QED BY <2>1, <2>2
<1>6. AllInjective'
  BY <1>2, <1>3, Zenon DEF AllInjective
<1>7. QED BY <1>2, <1>4, <1>5, <1>6, FreeMember

\* listRemove: the address leaves the elements of the list.
LEMMA RemoveSeq ==
  ASSUME NEW s \in Seq(Nat), NEW a \in Range(s), IsInjective(s)
  PROVE  /\ Unlink(s, a) \in Seq(Nat)
         /\ Range(Unlink(s, a)) = Range(s) \ {a}
         /\ IsInjective(Unlink(s, a))
<1> DEFINE n == Len(s)
           k == Min({j \in 1 .. n : s[j] = a})
           t == SubSeq(s, 1, k - 1) \o SubSeq(s, k + 1, n)
<1>1. n \in Nat
  OBVIOUS
<1>2. PICK m \in 1 .. n : s[m] = a
  BY InjectiveSeq, Zenon
<1>3. /\ \A i, j \in 1 .. n : s[i] = s[j] => i = j
      /\ \A x : x \in Range(s) <=> \E i \in 1 .. n : s[i] = x
  BY InjectiveSeq, Zenon
<1>4. k = m
  <2>1. {i \in 1 .. n : s[i] = a} = {m}
    BY <1>2, <1>3
  <2>2. Min({m}) = m
    BY <1>1, <1>2 DEF Min
  <2>3. QED
    BY <2>1, <2>2, Zenon
<1>5. Unlink(s, a) = t
  BY Zenon DEF Unlink
<1> HIDE DEF k
<1> DEFINE u == SubSeq(s, 1, m - 1)
           v == SubSeq(s, m + 1, n)
<1>6. t = u \o v
  BY <1>4
<1> HIDE DEF t
<1>7. /\ u \in Seq(Nat) /\ Len(u) = m - 1
      /\ v \in Seq(Nat) /\ Len(v) = n - m
      /\ \A i \in 1 .. (m - 1) : u[i] = s[i]
      /\ \A i \in 1 .. (n - m) : v[i] = s[m + i]
  BY <1>1, <1>2
<1> HIDE DEF u, v
<1>8. t \in Seq(Nat) /\ Len(t) = n - 1
  <2>1. (m - 1) + (n - m) = n - 1
    BY <1>1, <1>2
  <2>2. u \o v \in Seq(Nat) /\ Len(u \o v) = Len(u) + Len(v)
    BY <1>7, ConcatSeq, Zenon
  <2>3. QED
    BY <1>6, <1>7, <2>1, <2>2, Zenon
<1>9. \A i \in 1 .. (n - 1) : t[i] = IF i < m THEN s[i] ELSE s[i + 1]
  <2>1. TAKE i \in 1 .. (n - 1)
  <2>2. CASE i < m
    <3>1. i \in 1 .. (m - 1)
      BY <1>1, <1>2, <2>2
    <3>2. t[i] = u[i]
      <4>1. \A i_1 \in 1 .. Len(u) : (u \o v)[i_1] = u[i_1]
        BY <1>7, ConcatSeq, Zenon
      <4>2. i \in 1 .. Len(u)
        BY <1>7, <3>1, Zenon
      <4>3. QED BY <1>6, <4>1, <4>2, Zenon
    <3>3. QED BY <1>7, <2>2, <3>1, <3>2, Zenon
  <2>3. CASE ~(i < m)
    <3>1. PICK j \in 1 .. (n - m) : (m - 1) + j = i /\ m + j = i + 1
      <4>1. i - m + 1 \in 1 .. (n - m)
        BY <1>1, <1>2, <2>3
      <4>2. (m - 1) + (i - m + 1) = i /\ m + (i - m + 1) = i + 1
        BY <1>1, <1>2
      <4>3. QED BY <4>1, <4>2
    <3>2. (u \o v)[Len(u) + j] = v[j]
      <4>1. \A i_1 \in 1 .. Len(v) : (u \o v)[Len(u) + i_1] = v[i_1]
        BY <1>7, ConcatSeq, Zenon
      <4>2. j \in 1 .. Len(v)
        BY <1>7
      <4>3. QED BY <4>1, <4>2, Zenon
    <3>3. t[i] = v[j] /\ v[j] = s[m + j]
      BY <1>6, <1>7, <3>1, <3>2, Zenon
    <3>4. QED BY <2>3, <3>1, <3>3, Zenon
  <2>4. QED BY <2>2, <2>3, Zenon
<1>t. /\ \A x : x \in Range(t) <=> \E i \in 1 .. (n - 1) : t[i] = x
      /\ IsInjective(t) <=> \A i, j \in 1 .. (n - 1) : t[i] = t[j] => i = j
  BY <1>8, InjectiveSeq, Zenon
<1> HIDE DEF n
<1>10. ASSUME NEW x \in Range(t) PROVE x \in Range(s) /\ x # a
  <2>1. PICK i \in 1 .. (n - 1) : t[i] = x
    BY <1>t, Zenon
  <2>2. PICK j \in 1 .. n : j # m /\ s[j] = x
    <3>1. CASE i < m
      BY <1>1, <1>2, <1>9, <2>1, <3>1
    <3>2. CASE ~(i < m)
      <4>1. (i + 1) \in 1 .. n /\ i + 1 # m /\ s[i + 1] = x
        BY <1>1, <1>2, <1>9, <2>1, <3>2
      <4>2. QED BY <4>1
    <3>3. QED BY <3>1, <3>2, Zenon
  <2>3. QED
    BY <1>2, <1>3, <2>2, Zenon
<1>11. ASSUME NEW x \in Range(s), x # a PROVE x \in Range(t)
  <2>1. PICK i \in 1 .. n : s[i] = x
    BY <1>3, Zenon
  <2>2. PICK j \in 1 .. (n - 1) : t[j] = x
    <3>1. CASE i < m
      BY <1>1, <1>2, <1>9, <2>1, <3>1
    <3>2. CASE i > m
      <4>1. (i - 1) \in 1 .. (n - 1) /\ ~(i - 1 < m) /\ (i - 1) + 1 = i
        BY <1>1, <1>2, <3>2
      <4>2. t[i - 1] = x
        BY <1>9, <2>1, <4>1
      <4>3. QED BY <4>1, <4>2
    <3>3. QED BY <1>1, <1>2, <1>11, <2>1, <3>1, <3>2
  <2>3. QED
    BY <1>t, <2>2, Zenon
<1>12. IsInjective(t)
  <2>1. SUFFICES ASSUME NEW i \in 1 .. (n - 1), NEW j \in 1 .. (n - 1), t[i] = t[j]
                 PROVE  i = j
    BY <1>t, Zenon
  <2> DEFINE at(l) == IF l < m THEN l ELSE l + 1
  <2>2. at(i) \in 1 .. n /\ at(j) \in 1 .. n /\ (at(i) = at(j) => i = j)
    BY <1>1, <1>2
  <2>3. t[i] = s[at(i)] /\ t[j] = s[at(j)]
    BY <1>9
  <2>4. QED
    BY <1>3, <2>1, <2>2, <2>3, Zenon
<1>13. Range(t) = Range(s) \ {a}
  BY <1>10, <1>11, Zenon
<1>14. QED
  BY <1>5, <1>8, <1>12, <1>13

\* listRemove takes the one block it searches for.
LEMMA RemoveFree ==
  ASSUME m_freeLists \in [Orders -> Seq(Nat)], NEW o \in Orders, AllInjective,
         NEW a, OnList(a, o), m_freeLists' = listRemove(a, o)
  PROVE  /\ m_freeLists' \in [Orders -> Seq(Nat)]
         /\ a \in Nat
         /\ <<a, o>> \in FreeBlocks
         /\ FreeBlocks' = FreeBlocks \ {<<a, o>>}
         /\ AllInjective'
<1> DEFINE s == m_freeLists[o]
<1>1. s \in Seq(Nat) /\ m_freeLists' = [m_freeLists EXCEPT ![o] = Unlink(s, a)]
      /\ IsInjective(s) /\ a \in Range(s)
  BY DEF listRemove, AllInjective, OnList
<1>2. /\ Unlink(s, a) \in Seq(Nat)
      /\ Range(Unlink(s, a)) = Range(s) \ {a}
      /\ IsInjective(Unlink(s, a))
  BY <1>1, RemoveSeq
<1>3. m_freeLists'[o] = Unlink(s, a)
      /\ \A p \in Orders : p # o => m_freeLists'[p] = m_freeLists[p]
  BY <1>1
<1>4. m_freeLists' \in [Orders -> Seq(Nat)]
  BY <1>1, <1>2
<1>5. FreeBlocks' = FreeBlocks \ {<<a, o>>}
  <2>1. ASSUME NEW b \in FreeBlocks' PROVE b \in FreeBlocks /\ b # <<a, o>>
    <3>0. PICK p \in Orders : \E x \in Range(m_freeLists'[p]) : b = <<x, p>>
      BY DEF FreeBlocks
    <3>1. PICK x \in Range(m_freeLists'[p]) : b = <<x, p>>
      BY <3>0
    <3>2. CASE p = o
      <4>1. x \in Range(s) /\ x # a
        BY <1>2, <1>3, <3>1, <3>2
      <4>2. QED BY <3>1, <3>2, <4>1, FreeMember
    <3>3. CASE p # o
      BY <1>3, <3>1, <3>3, FreeMember
    <3>4. QED BY <3>2, <3>3
  <2>2. ASSUME NEW b \in FreeBlocks, b # <<a, o>> PROVE b \in FreeBlocks'
    <3>0. PICK p \in Orders : \E x \in Range(m_freeLists[p]) : b = <<x, p>>
      BY DEF FreeBlocks
    <3>1. PICK x \in Range(m_freeLists[p]) : b = <<x, p>>
      BY <3>0
    <3>2. x \in Range(m_freeLists'[p])
      BY <1>2, <1>3, <2>2, <3>1
    <3>3. QED BY <3>1, <3>2 DEF FreeBlocks
  <2>3. QED BY <2>1, <2>2
<1>6. AllInjective'
  BY <1>2, <1>3 DEF AllInjective
<1>7. a \in Nat
  BY <1>1 DEF Range
<1>8. QED BY <1>1, <1>4, <1>5, <1>6, <1>7, FreeMember

-----------------------------------------------------------------------------
(* Blocks that change hands.                                               *)

\* The owners' sets of blocks have no block in common.
OneOwner ==
  /\ Current \cap FreeBlocks = {}
  /\ Current \cap held = {}
  /\ FreeBlocks \cap held = {}
  /\ reserved \cap (FreeBlocks \cup Current \cup held) = {}

\* A step that makes no new block keeps NoOverlap if no block gets a second
\* owner.
LEMMA MovesKeepApart ==
  ASSUME NoOverlap, AllInjective', OneOwner', Owned' \subseteq Owned,
         UNCHANGED <<m_base, m_size>>
  PROVE  NoOverlap'
<1>1. \A b, c : Disjoint(b, c)' <=> Disjoint(b, c)
  BY DEF Disjoint, End
<1>2. \A b : InPool(b)' <=> InPool(b)
  BY DEF InPool, End
<1>3. QED
  BY <1>1, <1>2 DEF NoOverlap, AllInjective, OneOwner

\* A step that leaves the lists, the pool and the ghosts alone, outside
\* AllocPages and FreePages.
LEMMA StartupStep ==
  ASSUME NoOverlap, pc \notin {"split", "merge"}, pc' \notin {"split", "merge"},
         UNCHANGED <<m_base, m_size, m_freeLists, held, reserved>>
  PROVE  NoOverlap' /\ FreeBlocks' = FreeBlocks
<1>1. FreeBlocks' = FreeBlocks /\ Current = {} /\ Current' = {}
  BY DEF FreeBlocks, Current
<1>2. QED
  BY <1>1, MovesKeepApart DEF NoOverlap, OneOwner, AllInjective, Owned

\* Everything the allocator tracks is a block.
LEMMA OwnedTyped ==
  ASSUME TypeOK
  PROVE  Owned \subseteq BlockType
  BY FreeTyped DEF TypeOK, Owned, Current, BlockType

\* The block in hand is not at address 0.
LEMMA InHand ==
  ASSUME IndInv, pc \in {"split", "merge"}
  PROVE  addr # 0
<1>1. <<addr, order>> \in Current
  BY DEF Current
<1>2. <<addr, order>>[1] # 0
  BY <1>1 DEF IndInv, NoZero
<1>3. QED BY <1>2

-----------------------------------------------------------------------------
(* One lemma per action.                                                   *)

\* AllocPages: the block it pops has one owner, the caller or the split loop.
LEMMA AllocPagesInv ==
  ASSUME IndInv, NEW o \in Orders, AllocPages(o)
  PROVE  IndInv'
<1>1. PICK found \in Usable(o) :
        LET a == Head(m_freeLists[found])
        IN  /\ m_freeLists' = listPop(found)
            /\ \/ found = o /\ Return(a, o)
               \/ found > o /\ Continue("split", a, found, o) /\ UNCHANGED held
  BY DEF AllocPages
<1> DEFINE a == Head(m_freeLists[found])
           x == <<a, found>>
<1>2. found \in Orders /\ m_freeLists[found] # <<>>
  BY DEF Usable
<1>3. /\ m_freeLists \in [Orders -> Seq(Nat)] /\ AllInjective
      /\ pc = "idle" /\ Current = {}
      /\ UNCHANGED <<m_base, m_size, regions, region, reserved>>
  BY DEF IndInv, TypeOK, NoOverlap, AllInjective, AllocPages, Current
<1>4. /\ m_freeLists' \in [Orders -> Seq(Nat)]
      /\ a \in Nat
      /\ x \in FreeBlocks
      /\ FreeBlocks' = FreeBlocks \ {x}
      /\ AllInjective'
  BY <1>1, <1>2, <1>3, PopFree
<1> HIDE DEF a
<1>5. x \in BlockType
  BY <1>2, <1>4 DEF BlockType
<1>6. CASE found = o /\ Return(a, o)
  <2>1. /\ Current' = {} /\ pc' = "idle" /\ addr' = 0 /\ order' = 0 /\ want' = 0
        /\ held' \subseteq held \cup {x}
    BY <1>6 DEF Return, Current
  <2>2. OneOwner' /\ Owned' \subseteq Owned
    BY <1>3, <1>4, <2>1, Zenon DEF IndInv, NoOverlap, OneOwner, Owned
  <2>3. NoOverlap'
    BY <1>3, <1>4, <2>2, MovesKeepApart DEF IndInv
  <2>4. TypeOK'
    BY <1>3, <1>4, <1>5, <2>1, ZeroOrder, Zenon DEF IndInv, TypeOK
  <2>5. StageOK'
    BY <1>3, <2>1 DEF IndInv, StageOK
  <2>6. NoZero'
    BY <1>3, <1>4, <2>1, Zenon DEF IndInv, NoZero
  <2>7. QED BY <2>3, <2>4, <2>5, <2>6 DEF IndInv
<1>7. CASE found > o /\ Continue("split", a, found, o) /\ UNCHANGED held
  <2>1. /\ Current' = {x} /\ pc' = "split" /\ addr' = a /\ order' = found
        /\ want' = o /\ held' = held
    BY <1>7 DEF Continue, Current
  <2>2. OneOwner' /\ Owned' \subseteq Owned
    BY <1>3, <1>4, <2>1, Zenon DEF IndInv, NoOverlap, OneOwner, Owned
  <2>3. NoOverlap'
    BY <1>3, <1>4, <2>2, MovesKeepApart DEF IndInv
  <2>4. TypeOK'
    BY <1>2, <1>3, <1>4, <2>1, SMTT(20) DEF IndInv, TypeOK
  <2>5. StageOK'
    BY <1>3, <1>7, <2>1, <1>2 DEF IndInv, StageOK, Orders
  <2>6. NoZero'
    BY <1>3, <1>4, <2>1, Zenon DEF IndInv, NoZero
  <2>7. QED BY <2>3, <2>4, <2>5, <2>6 DEF IndInv
<1>8. QED
  BY <1>1, <1>6, <1>7 DEF a

\* FreePages: the block it is given passes from the caller to the merge loop.
LEMMA FreePagesInv ==
  ASSUME IndInv, NEW b \in held, FreePages(b)
  PROVE  IndInv'
<1>1. /\ pc = "idle" /\ Current = {} /\ b \in BlockType
      /\ b = <<b[1], b[2]>> /\ b[1] \in Nat /\ b[2] \in Orders
      /\ FreeBlocks' = FreeBlocks
      /\ UNCHANGED <<m_base, m_size, m_freeLists, regions, region, reserved>>
  BY DEF IndInv, TypeOK, FreePages, Current, BlockType, FreeBlocks
<1>2. /\ Current' = {b} /\ pc' = "merge" /\ addr' = b[1] /\ order' = b[2]
      /\ want' = 0 /\ held' = held \ {b}
  BY <1>1 DEF FreePages, Continue, Current
<1>3. OneOwner' /\ Owned' \subseteq Owned /\ AllInjective'
  BY <1>1, <1>2 DEF IndInv, NoOverlap, OneOwner, Owned, AllInjective
<1>4. NoOverlap'
  BY <1>1, <1>3, MovesKeepApart DEF IndInv
<1>5. TypeOK'
  BY <1>1, <1>2, ZeroOrder DEF IndInv, TypeOK
<1>6. StageOK'
  BY <1>1, <1>2 DEF IndInv, StageOK
<1>7. NoZero'
  BY <1>1, <1>2, Zenon DEF IndInv, NoZero
<1>8. QED BY <1>4, <1>5, <1>6, <1>7 DEF IndInv

\* MergeInsert and MergeFallback differ only in what they do to the bitmap.
LEMMA MergeEndInv ==
  ASSUME IndInv, MergeInsert \/ MergeFallback
  PROVE  IndInv'
<1> DEFINE x == <<addr, order>>
<1>1. /\ pc = "merge" /\ Current = {x} /\ Current' = {}
      /\ m_freeLists' = listPush(addr, order)
      /\ pc' = "idle" /\ addr' = 0 /\ order' = 0 /\ want' = 0
      /\ UNCHANGED <<m_base, m_size, regions, region, held, reserved>>
  BY DEF MergeInsert, MergeFallback, Continue, Current
<1>2. /\ m_freeLists \in [Orders -> Seq(Nat)] /\ AllInjective
      /\ addr \in Nat /\ order \in Orders /\ x \notin FreeBlocks /\ addr # 0
  BY <1>1, InHand DEF IndInv, TypeOK, NoOverlap, AllInjective
<1>3. /\ m_freeLists' \in [Orders -> Seq(Nat)]
      /\ FreeBlocks' = FreeBlocks \cup {x}
      /\ AllInjective'
  BY <1>1, <1>2, PushFree
<1>4. OneOwner' /\ Owned' \subseteq Owned
  BY <1>1, <1>3 DEF IndInv, NoOverlap, OneOwner, Owned
<1>5. NoOverlap'
  BY <1>1, <1>3, <1>4, MovesKeepApart DEF IndInv
<1>6. TypeOK'
  BY <1>1, <1>3, ZeroOrder DEF IndInv, TypeOK
<1>7. StageOK'
  BY <1>1 DEF IndInv, StageOK
<1>8. NoZero'
  BY <1>1, <1>3, Zenon DEF IndInv, NoZero
<1>9. QED BY <1>5, <1>6, <1>7, <1>8 DEF IndInv

\* One iteration of the split loop in AllocPages: the upper half goes on its
\* list, the lower half stays in hand or is returned.
LEMMA SplitBlockInv ==
  ASSUME IndInv, SplitBlock
  PROVE  IndInv'
<1> DEFINE p == order - 1
           x == <<addr, order>>
           l == <<addr, p>>
           h == <<addr + BlockSize[p], p>>
<1>1. /\ pc = "split" /\ Current = {x} /\ want < order
      /\ addr \in Nat /\ order \in Orders /\ want \in Orders /\ 0 < order
      /\ m_freeLists \in [Orders -> Seq(Nat)] /\ AllInjective
      /\ m_base \in Nat /\ m_size \in Nat
      /\ UNCHANGED <<m_base, m_size, regions, region, reserved>>
  BY DEF IndInv, TypeOK, StageOK, NoOverlap, AllInjective, SplitBlock, Current,
         Orders
<1>2. /\ p \in Orders /\ BlockSize[p] \in Nat /\ want <= p
  BY <1>1, Sizes DEF Orders
<1>3. /\ l \in BlockType /\ h \in BlockType /\ x \in BlockType
      /\ Disjoint(l, h)
      /\ \A c \in BlockType : Disjoint(x, c) => Disjoint(l, c) /\ Disjoint(h, c)
      /\ InPool(x) => InPool(l) /\ InPool(h)
  BY <1>1, HalvesApart, Zenon
<1>4. Owned \subseteq BlockType
  BY OwnedTyped DEF IndInv
<1>5. /\ x \in Owned /\ InPool(l) /\ InPool(h)
      /\ \A c \in Owned : c # x => Disjoint(l, c) /\ Disjoint(h, c)
  BY <1>1, <1>3, <1>4, Zenon DEF IndInv, NoOverlap, Owned
<1>6. \A c \in Owned : c # x => c # l /\ c # h
  BY <1>3, <1>4, <1>5, ApartDiffer
<1>7. l # h
  BY <1>3, ApartDiffer
<1>8. /\ m_freeLists' = listPush(addr + BlockSize[p], p)
      /\ addr + BlockSize[p] \in Nat /\ addr + BlockSize[p] # 0 /\ addr # 0
  <2>1. addr # 0
    BY <1>1, InHand
  <2>2. QED BY <1>1, <1>2, <2>1 DEF SplitBlock
<1>9. h \notin FreeBlocks
  <2>1. x \notin FreeBlocks
    BY <1>1 DEF IndInv, NoOverlap
  <2>2. QED BY <1>6, <2>1 DEF Owned
<1>10. /\ m_freeLists' \in [Orders -> Seq(Nat)]
       /\ FreeBlocks' = FreeBlocks \cup {h}
       /\ AllInjective'
  BY <1>1, <1>2, <1>8, <1>9, PushFree, SMTT(20)
<1>11. \/ p = want /\ Return(addr, p)
       \/ p > want /\ Continue("split", addr, p, want) /\ UNCHANGED held
  BY DEF SplitBlock
<1>12. ASSUME OneOwner', Owned' \subseteq (Owned \ {x}) \cup {l, h}
       PROVE  NoOverlap'
  <2>1. \A b, c : Disjoint(b, c)' <=> Disjoint(b, c)
    BY DEF Disjoint, End
  <2>2. \A b : InPool(b)' <=> InPool(b)
    BY <1>1 DEF InPool, End
  <2>3. ASSUME NEW b \in (Owned \ {x}) \cup {l, h},
               NEW c \in (Owned \ {x}) \cup {l, h}, b # c
        PROVE  Disjoint(b, c)
    <3>1. CASE b \in Owned /\ c \in Owned /\ b # x /\ c # x
      BY <2>3, <3>1 DEF IndInv, NoOverlap
    <3>2. CASE b \in {l, h} /\ c \in Owned /\ c # x
      BY <1>5, <3>2
    <3>3. CASE b \in Owned /\ b # x /\ c \in {l, h}
      BY <1>3, <1>4, <1>5, <3>3, ApartDiffer
    <3>4. CASE b \in {l, h} /\ c \in {l, h}
      BY <1>3, <2>3, <3>4, ApartDiffer
    <3>5. QED BY <2>3, <3>1, <3>2, <3>3, <3>4
  <2>4. \A b \in (Owned \ {x}) \cup {l, h} : InPool(b)
    BY <1>5 DEF IndInv, NoOverlap
  <2>5. QED
    BY <1>10, <1>12, <2>1, <2>2, <2>3, <2>4 DEF NoOverlap, OneOwner, AllInjective
<1>13. CASE p = want /\ Return(addr, p)
  <2>1. /\ Current' = {} /\ pc' = "idle" /\ addr' = 0 /\ order' = 0 /\ want' = 0
        /\ held' \subseteq held \cup {l}
    BY <1>13 DEF Return, Current
  <2>2. Owned' \subseteq (Owned \ {x}) \cup {l, h}
    BY <1>1, <1>10, <2>1 DEF IndInv, NoOverlap, Owned
  <2>3. OneOwner'
    BY <1>1, <1>5, <1>6, <1>7, <1>10, <2>1 DEF IndInv, NoOverlap, OneOwner, Owned
  <2>4. TypeOK'
    BY <1>1, <1>3, <1>10, <2>1, ZeroOrder, Zenon DEF IndInv, TypeOK
  <2>5. StageOK'
    BY <1>1, <2>1 DEF IndInv, StageOK
  <2>6. NoZero'
    BY <1>8, <1>10, <2>1 DEF IndInv, NoZero
  <2>7. QED BY <1>12, <2>2, <2>3, <2>4, <2>5, <2>6 DEF IndInv
<1>14. CASE p > want /\ Continue("split", addr, p, want) /\ UNCHANGED held
  <2>1. /\ Current' = {l} /\ pc' = "split" /\ addr' = addr /\ order' = p
        /\ want' = want /\ held' = held
    BY <1>14 DEF Continue, Current
  <2>2. Owned' \subseteq (Owned \ {x}) \cup {l, h}
    BY <1>1, <1>10, <2>1 DEF IndInv, NoOverlap, Owned
  <2>3. OneOwner'
    BY <1>1, <1>5, <1>6, <1>7, <1>10, <2>1 DEF IndInv, NoOverlap, OneOwner, Owned
  <2>4. TypeOK'
    BY <1>1, <1>2, <1>10, <2>1 DEF IndInv, TypeOK
  <2>5. StageOK'
    BY <1>1, <1>2, <1>14, <2>1 DEF IndInv, StageOK, Orders
  <2>6. NoZero'
    BY <1>8, <1>10, <2>1 DEF IndInv, NoZero
  <2>7. QED BY <1>12, <2>2, <2>3, <2>4, <2>5, <2>6 DEF IndInv
<1>15. QED BY <1>11, <1>13, <1>14

\* The buddy of a block is the block of the same order next to it.
LEMMA BuddyAdjacent ==
  ASSUME NEW a \in Nat, NEW o \in Orders, m_base \in Nat
  PROVE  \/ buddyOf(a, o) = a + BlockSize[o]
         \/ buddyOf(a, o) = a - BlockSize[o]
<1>1. BlockSize[o] \in Nat
  BY Sizes
<1>2. QED BY <1>1 DEF buddyOf

\* One iteration of the merge loop in FreePages: the block and its buddy,
\* which leaves its list, become the block in hand.
LEMMA MergeBuddiesInv ==
  ASSUME IndInv, MergeBuddies
  PROVE  IndInv'
<1> DEFINE b == buddyOf(addr, order)
           a == IF b < addr THEN b ELSE addr
           x == <<addr, order>>
           y == <<b, order>>
           z == <<a, order + 1>>
<1>1. /\ pc = "merge" /\ Current = {x} /\ order < MAX_ORDER
      /\ addr \in Nat /\ order \in Orders /\ OnList(b, order)
      /\ m_freeLists \in [Orders -> Seq(Nat)] /\ AllInjective
      /\ m_base \in Nat /\ m_size \in Nat
      /\ m_freeLists' = listRemove(b, order)
      /\ UNCHANGED <<m_base, m_size, regions, region, held, reserved>>
  BY DEF IndInv, TypeOK, NoOverlap, AllInjective, MergeBuddies, Current
<1>2. /\ m_freeLists' \in [Orders -> Seq(Nat)]
      /\ b \in Nat
      /\ y \in FreeBlocks
      /\ FreeBlocks' = FreeBlocks \ {y}
      /\ AllInjective'
  BY <1>1, RemoveFree
<1>3. b = addr + BlockSize[order] \/ b = addr - BlockSize[order]
  BY <1>1, BuddyAdjacent
<1>4. /\ Current' = {z} /\ pc' = "merge" /\ addr' = a /\ order' = order + 1
      /\ want' = 0
  BY DEF MergeBuddies, Continue, Current
<1> HIDE DEF b
<1>5. /\ z \in BlockType /\ x \in BlockType /\ y \in BlockType
      /\ \A c \in BlockType : Disjoint(x, c) /\ Disjoint(y, c) => Disjoint(z, c)
      /\ InPool(x) /\ InPool(y) => InPool(z)
  <2>1. BlockSize[order] \in Nat /\ BlockSize[order] > 0
    BY <1>1, Sizes
  <2>2. CASE b = addr + BlockSize[order]
    <3>1. a = addr
      BY <1>1, <1>2, <2>1, <2>2
    <3>2. QED BY <1>1, <1>2, <2>2, <3>1, MergeApart, Zenon
  <2>3. CASE b = addr - BlockSize[order]
    <3>1. a = b /\ addr = b + BlockSize[order]
      BY <1>1, <1>2, <2>1, <2>3
    <3>2. QED BY <1>1, <1>2, <3>1, MergeApart, Zenon
  <2>4. QED BY <1>3, <2>2, <2>3
<1> HIDE DEF a
<1>6. Owned \subseteq BlockType /\ x \in Owned /\ y \in Owned /\ x # y
  BY <1>1, <1>2, OwnedTyped DEF IndInv, Owned, NoOverlap
<1>7. \A c \in Owned : c # x /\ c # y => Disjoint(z, c)
  BY <1>5, <1>6 DEF IndInv, NoOverlap
<1>8. \A c \in Owned : c # x /\ c # y => c # z
  BY <1>5, <1>6, <1>7, ApartDiffer
<1>9. InPool(z)
  BY <1>5, <1>6 DEF IndInv, NoOverlap
<1>10. Owned' \subseteq (Owned \ {x, y}) \cup {z}
  BY <1>1, <1>2, <1>4, Zenon DEF IndInv, NoOverlap, Owned
<1>11. OneOwner'
  BY <1>1, <1>2, <1>4, <1>6, <1>8 DEF IndInv, NoOverlap, OneOwner, Owned
<1>12. NoOverlap'
  <2>1. \A c, d : Disjoint(c, d)' <=> Disjoint(c, d)
    BY DEF Disjoint, End
  <2>2. \A c : InPool(c)' <=> InPool(c)
    BY <1>1 DEF InPool, End
  <2>3. ASSUME NEW c \in (Owned \ {x, y}) \cup {z},
               NEW d \in (Owned \ {x, y}) \cup {z}, c # d
        PROVE  Disjoint(c, d)
    <3>1. CASE c \in Owned \ {x, y} /\ d \in Owned \ {x, y}
      BY <2>3, <3>1 DEF IndInv, NoOverlap
    <3>2. CASE c = z /\ d \in Owned \ {x, y}
      BY <1>7, <3>2
    <3>3. CASE c \in Owned \ {x, y} /\ d = z
      BY <1>5, <1>6, <1>7, <3>3, ApartDiffer
    <3>4. QED BY <2>3, <3>1, <3>2, <3>3
  <2>4. \A c \in (Owned \ {x, y}) \cup {z} : InPool(c)
    BY <1>9 DEF IndInv, NoOverlap
  <2>5. QED
    BY <1>2, <1>10, <1>11, <2>1, <2>2, <2>3, <2>4
       DEF NoOverlap, OneOwner, AllInjective
<1>13. TypeOK'
  <2>1. a \in Nat
    BY <1>1, <1>2 DEF a
  <2>2. order + 1 \in Orders
    BY <1>1, Sizes
  <2>3. QED BY <1>1, <1>2, <1>4, <2>1, <2>2, ZeroOrder, SMTT(20) DEF IndInv, TypeOK
<1>14. StageOK'
  BY <1>1, <1>4 DEF IndInv, StageOK
<1>15. NoZero'
  <2>1. x[1] # 0 /\ y[1] # 0
    BY <1>1, <1>2, Zenon DEF IndInv, NoZero
  <2>2. a # 0
    BY <2>1 DEF a
  <2>3. QED BY <1>1, <1>2, <1>4, <2>2 DEF IndInv, NoZero
<1>16. QED BY <1>12, <1>13, <1>14, <1>15 DEF IndInv

-----------------------------------------------------------------------------
(* Start-up.                                                               *)

\* Rounding down to a page stays in the natural numbers.
LEMMA RoundTyped ==
  ASSUME NEW a \in Nat
  PROVE  PageDown(a) \in Nat /\ PageUp(a) \in Nat
<1>1. PAGE_SIZE \in Nat /\ PAGE_SIZE > 0
  BY OrderAssumption
<1>2. ASSUME NEW x \in Nat PROVE x - (x % PAGE_SIZE) \in Nat
  <2>1. /\ x % PAGE_SIZE \in 0 .. (PAGE_SIZE - 1)
        /\ x = PAGE_SIZE * (x \div PAGE_SIZE) + (x % PAGE_SIZE)
        /\ x \div PAGE_SIZE \in Nat
    BY <1>1
  <2>2. PAGE_SIZE * (x \div PAGE_SIZE) \in Nat
    BY <1>1, <2>1
  <2>3. QED BY <2>1, <2>2
<1>3. a + PAGE_SIZE - 1 \in Nat
  BY <1>1
<1>4. QED BY <1>2, <1>3 DEF PageDown, PageUp

\* The regions SetMemoryMap reserves are intervals, and the kernel is one.
LEMMA RegionsTyped ==
  ASSUME NEW map \in Maps
  PROVE  Regions(map) \in Seq([base : Nat, end : Nat]) /\ Len(Regions(map)) >= 1
<1> DEFINE R == [base : Nat, end : Nat]
<1>1. ASSUME NEW b \in Nat, NEW s \in Nat PROVE Region(b, s) \in R
  BY RoundTyped DEF Region
<1>2. /\ Region(Kernel.base, Kernel.size) \in R
      /\ Region(map.atfBase, map.atfSize) \in R
      /\ Region(map.dtbBase, map.dtbSize) \in R
      /\ Region(map.cpioArchiveBase, map.cpioArchiveSize) \in R
      /\ Region(0, PAGE_SIZE) \in R
  <2>1. /\ Kernel.base \in Nat /\ Kernel.size \in Nat
        /\ map.atfBase \in Nat /\ map.atfSize \in Nat
        /\ map.dtbBase \in Nat /\ map.dtbSize \in Nat
        /\ map.cpioArchiveBase \in Nat /\ map.cpioArchiveSize \in Nat
        /\ 0 \in Nat /\ PAGE_SIZE \in Nat
    BY MapAssumption, OrderAssumption
  <2> HIDE DEF R
  <2>2. QED BY <1>1, <2>1, Zenon
<1> DEFINE s == <<Region(Kernel.base, Kernel.size),
                  Region(map.atfBase, map.atfSize),
                  Region(map.dtbBase, map.dtbSize)>>
           t == IF map.cpioArchiveSize # 0
                THEN <<Region(map.cpioArchiveBase, map.cpioArchiveSize)>>
                ELSE <<>>
           u == IF map.memBase = 0 /\ map.memSize >= PAGE_SIZE
                THEN <<Region(0, PAGE_SIZE)>> ELSE <<>>
<1>3. Regions(map) = s \o t \o u
  BY DEF Regions
<1>4. s \in Seq(R) /\ Len(s) = 3 /\ t \in Seq(R) /\ u \in Seq(R)
  <2> HIDE DEF R
  <2>1. \A x \in R : <<x>> \in Seq(R)
    OBVIOUS
  <2>2. \A x, y, z \in R : <<x, y, z>> \in Seq(R) /\ Len(<<x, y, z>>) = 3
    OBVIOUS
  <2>3. <<>> \in Seq(R)
    OBVIOUS
  <2>4. QED BY <1>2, <2>1, <2>2, <2>3, Zenon
<1> HIDE DEF s, t, u, R
<1>5. \A p, q \in Seq(R) : p \o q \in Seq(R) /\ Len(p \o q) = Len(p) + Len(q)
  OBVIOUS
<1>6. s \o t \in Seq(R) /\ Len(s \o t) = Len(s) + Len(t)
  BY <1>4, <1>5, Zenon
<1>7. (s \o t) \o u \in Seq(R) /\ Len((s \o t) \o u) = Len(s \o t) + Len(u)
  BY <1>4, <1>5, <1>6, Zenon
<1>8. Len(t) \in Nat /\ Len(u) \in Nat
  BY <1>4
<1>9. Regions(map) \in Seq(R) /\ Len(Regions(map)) = 3 + Len(t) + Len(u)
  BY <1>3, <1>4, <1>6, <1>7, Zenon
<1>10. QED BY <1>8, <1>9 DEF R

\* SetMemoryMap, entry: the lists are emptied while nobody owns a block.
LEMMA SetMemoryMapInv ==
  ASSUME IndInv, NEW map \in Maps, SetMemoryMap(map)
  PROVE  IndInv'
<1>1. /\ pc = "boot" /\ held = {} /\ reserved = {} /\ held' = {} /\ reserved' = {}
      /\ m_freeLists' = [o \in Orders |-> <<>>]
      /\ m_base' = map.memBase /\ m_size' = map.memSize
      /\ addr' = map.memBase /\ order' = order /\ want' = want
      /\ regions' = Regions(map) /\ region' = region
      /\ pc' \in {"halted", "seed"}
  BY DEF IndInv, StageOK, SetMemoryMap
<1>2. FreeBlocks' = {} /\ Current' = {} /\ AllInjective'
  BY <1>1 DEF FreeBlocks, Current, Range, AllInjective, IsInjective
<1>3. NoOverlap'
  BY <1>1, <1>2 DEF NoOverlap, Owned, AllInjective
<1>4. /\ map.memBase \in Nat /\ map.memSize \in Nat
      /\ regions' \in Seq([base : Nat, end : Nat]) /\ Len(regions') >= 1
  BY <1>1, MapAssumption, RegionsTyped
<1>5. TypeOK'
  BY <1>1, <1>4 DEF IndInv, TypeOK
<1>6. StageOK'
  <2>1. region = 1
    BY <1>1 DEF IndInv, StageOK
  <2>2. Len(regions') \in Nat
    BY <1>4
  <2>3. region' \in 1 .. Len(regions')
    BY <1>1, <1>4, <2>1, <2>2
  <2>4. QED BY <1>1, <1>2, <1>4, <2>3 DEF StageOK
<1>7. NoZero'
  BY <1>1, <1>2 DEF NoZero
<1>8. QED BY <1>3, <1>5, <1>6, <1>7 DEF IndInv

\* SetMemoryMap, seeding: the next block starts where the last one ended.
LEMMA SeedBlockInv ==
  ASSUME IndInv, SeedBlock
  PROVE  IndInv'
<1>1. PICK o \in Orders : /\ Fits(o)
                          /\ m_freeLists' = listPush(addr, o)
                          /\ addr' = addr + BlockSize[o]
  BY DEF SeedBlock
<1> DEFINE x == <<addr, o>>
<1>2. /\ pc = "seed" /\ pc' = "seed" /\ held = {} /\ reserved = {}
      /\ Current = {} /\ Current' = {}
      /\ m_freeLists \in [Orders -> Seq(Nat)] /\ AllInjective
      /\ m_base \in Nat /\ m_size \in Nat /\ addr \in Nat
      /\ m_base <= addr /\ \A b \in FreeBlocks : End(b) <= addr
      /\ UNCHANGED <<m_base, m_size, pc, order, want, regions, region, held,
                     reserved>>
  <2>1. /\ pc = "seed"
        /\ UNCHANGED <<m_base, m_size, pc, order, want, regions, region, held,
                       reserved>>
    BY DEF SeedBlock
  <2>2. Current = {} /\ Current' = {}
    BY <2>1 DEF Current
  <2>3. /\ m_freeLists \in [Orders -> Seq(Nat)]
        /\ m_base \in Nat /\ m_size \in Nat /\ addr \in Nat
    BY Zenon DEF IndInv, TypeOK
  <2>4. AllInjective
    BY Zenon DEF IndInv, NoOverlap, AllInjective
  <2>5. /\ held = {} /\ reserved = {}
        /\ m_base <= addr /\ \A b \in FreeBlocks : End(b) <= addr
    BY <2>1 DEF IndInv, StageOK
  <2>6. QED BY <2>1, <2>2, <2>3, <2>4, <2>5, Zenon
<1>3. BlockSize[o] \in Nat /\ BlockSize[o] > 0 /\ End(x) = addr + BlockSize[o]
  BY Sizes DEF End
<1>4. x \notin FreeBlocks
  BY <1>2, <1>3
<1>5. /\ m_freeLists' \in [Orders -> Seq(Nat)]
      /\ FreeBlocks' \subseteq FreeBlocks \cup (IF addr = 0 THEN {} ELSE {x})
      /\ AllInjective'
  <2>1. CASE addr = 0
    BY <1>1, <1>2, <2>1, PushZero
  <2>2. CASE addr # 0
    BY <1>1, <1>2, <1>4, <2>2, PushFree
  <2>3. QED BY <2>1, <2>2
<1>6. Owned = FreeBlocks /\ Owned' \subseteq FreeBlocks \cup {x}
  BY <1>2, <1>5 DEF Owned
<1>7. NoOverlap'
  <2>1. \A c, d : Disjoint(c, d)' <=> Disjoint(c, d)
    BY DEF Disjoint, End
  <2>2. \A c : InPool(c)' <=> InPool(c)
    BY <1>2 DEF InPool, End
  <2>3. \A c \in FreeBlocks : Disjoint(c, x) /\ Disjoint(x, c)
    BY <1>2 DEF Disjoint
  <2>4. InPool(x)
    BY <1>1, <1>2, <1>3 DEF InPool, Fits
  <2>5. \A c, d \in Owned' : c # d => Disjoint(c, d)
    BY <1>6, <2>3 DEF IndInv, NoOverlap
  <2>6. \A c \in Owned' : InPool(c)
    BY <1>6, <2>4 DEF IndInv, NoOverlap
  <2>7. QED
    BY <1>2, <1>5, <2>1, <2>2, <2>5, <2>6 DEF NoOverlap, AllInjective
<1>8. TypeOK'
  BY <1>1, <1>2, <1>3, <1>5, SMTT(20) DEF IndInv, TypeOK
<1>9. StageOK'
  <2>1. \A b \in FreeBlocks : End(b) \in Nat
    BY <1>2, FreeTyped, Sizes DEF BlockType, End
  <2>2. \A b : End(b)' = End(b)
    BY DEF End
  <2>3. addr' = addr + BlockSize[o]
    BY <1>1
  <2>4. ASSUME NEW b \in FreeBlocks' PROVE End(b) <= addr'
    <3>1. CASE b \in FreeBlocks
      BY <1>2, <1>3, <2>1, <2>3, <3>1
    <3>2. CASE b = x
      BY <1>2, <1>3, <2>3, <3>2
    <3>3. QED BY <1>5, <3>1, <3>2
  <2>5. \A b \in FreeBlocks' : End(b)' <= addr'
    BY <2>2, <2>4
  <2>6. m_base <= addr'
    BY <1>2, <1>3, <2>3
  <2>7. QED BY <1>2, <2>5, <2>6 DEF IndInv, StageOK
<1>10. NoZero'
  BY <1>2, <1>5 DEF IndInv, NoZero
<1>11. QED BY <1>7, <1>8, <1>9, <1>10 DEF IndInv

\* reserveRegion: a block moves from its list to the reserved ones.
LEMMA ReserveBlockInv ==
  ASSUME IndInv, ReserveBlock
  PROVE  IndInv'
<1>1. PICK o \in Removable : /\ m_freeLists' = listRemove(addr, o)
                             /\ addr' = addr + BlockSize[o]
                             /\ reserved' = reserved \cup {<<addr, o>>}
  BY DEF ReserveBlock
<1> DEFINE x == <<addr, o>>
<1>2. /\ o \in Orders /\ OnList(addr, o) /\ pc = "reserve"
      /\ Current = {} /\ Current' = {} /\ addr \in Nat
      /\ m_freeLists \in [Orders -> Seq(Nat)] /\ AllInjective
      /\ UNCHANGED <<m_base, m_size, pc, order, want, regions, region, held>>
  <2>1. /\ o \in Orders /\ OnList(addr, o) /\ pc = "reserve"
        /\ UNCHANGED <<m_base, m_size, pc, order, want, regions, region, held>>
    BY DEF ReserveBlock, Removable
  <2>2. Current = {} /\ Current' = {}
    BY <2>1 DEF Current
  <2>3. addr \in Nat /\ m_freeLists \in [Orders -> Seq(Nat)]
    BY Zenon DEF IndInv, TypeOK
  <2>4. AllInjective
    BY Zenon DEF IndInv, NoOverlap, AllInjective
  <2>5. QED BY <2>1, <2>2, <2>3, <2>4, Zenon
<1>3. /\ m_freeLists' \in [Orders -> Seq(Nat)]
      /\ x \in FreeBlocks
      /\ FreeBlocks' = FreeBlocks \ {x}
      /\ AllInjective'
  BY <1>1, <1>2, RemoveFree
<1>4. OneOwner' /\ Owned' \subseteq Owned
  <2>1. OneOwner
    BY DEF IndInv, NoOverlap, OneOwner
  <2>2. reserved' = reserved \cup {x} /\ held' = held
    BY <1>1, <1>2
  <2> HIDE DEF x
  <2>3. QED BY <1>2, <1>3, <2>1, <2>2 DEF OneOwner, Owned
<1>5. NoOverlap'
  BY <1>2, <1>3, <1>4, MovesKeepApart DEF IndInv
<1>6. TypeOK'
  <2>1. x \in BlockType /\ addr' \in Nat
    BY <1>1, <1>2, Sizes DEF BlockType
  <2>2. reserved' \subseteq BlockType
    <3>1. reserved \subseteq BlockType /\ reserved' = reserved \cup {x}
      BY <1>1 DEF IndInv, TypeOK
    <3> HIDE DEF x
    <3>2. QED BY <2>1, <3>1
  <2>3. QED BY <1>2, <1>3, <2>1, <2>2 DEF IndInv, TypeOK
<1>7. StageOK'
  BY <1>2 DEF IndInv, StageOK
<1>8. NoZero'
  BY <1>2, <1>3, Zenon DEF IndInv, NoZero
<1>9. QED BY <1>5, <1>6, <1>7, <1>8 DEF IndInv

\* The start-up steps that touch no list.
LEMMA CursorInv ==
  ASSUME IndInv, SeedDone \/ ReserveSkip \/ ReserveNext
  PROVE  IndInv'
<1>1. /\ pc \in {"seed", "reserve"} /\ pc' \in {"reserve", "idle"}
      /\ region \in 1 .. Len(regions) /\ addr \in Nat /\ region \in Nat
      /\ regions \in Seq([base : Nat, end : Nat]) /\ Len(regions) \in Nat
      /\ UNCHANGED <<m_base, m_size, m_freeLists, order, want, regions, held,
                     reserved>>
  BY SMTT(20) DEF IndInv, TypeOK, StageOK, SeedDone, ReserveSkip, ReserveNext
<1>2. NoOverlap' /\ FreeBlocks' = FreeBlocks
  BY <1>1, StartupStep DEF IndInv
<1>3. addr' \in Nat /\ region' \in 1 .. Len(regions)
  <2>1. \A i \in 1 .. Len(regions) : regions[i].base \in Nat
    <3> DEFINE R == [base : Nat, end : Nat]
    <3>1. \A r \in R : r.base \in Nat
      OBVIOUS
    <3>2. regions \in Seq(R)
      BY <1>1
    <3> HIDE DEF R
    <3>3. \A i \in 1 .. Len(regions) : regions[i] \in R
      BY <3>2
    <3>4. QED BY <3>1, <3>3
  <2>2. CASE SeedDone
    BY <1>1, <2>1, <2>2, SMTT(20) DEF SeedDone
  <2>3. CASE ReserveSkip
    BY <1>1, <2>3, OrderAssumption DEF ReserveSkip
  <2>4. CASE ReserveNext
    BY <1>1, <2>1, <2>4, SMTT(20) DEF ReserveNext
  <2>5. QED BY <2>2, <2>3, <2>4
<1>4. TypeOK'
  BY <1>1, <1>3, SMTT(20) DEF IndInv, TypeOK
<1>5. StageOK'
  BY <1>1, <1>2, <1>3, SMTT(20) DEF IndInv, StageOK
<1>6. NoZero'
  BY <1>1, <1>2 DEF IndInv, NoZero, Current
<1>7. QED BY <1>2, <1>4, <1>5, <1>6 DEF IndInv

-----------------------------------------------------------------------------

\* The inductive invariant holds of every reachable state of the allocator.
THEOREM IndInvHolds == Spec => []IndInv
<1>1. Init => IndInv
  <2>1. SUFFICES ASSUME Init PROVE IndInv
    OBVIOUS
  <2>2. FreeBlocks = {} /\ Current = {} /\ AllInjective
    BY <2>1 DEF Init, FreeBlocks, Current, Range, AllInjective, IsInjective
  <2>3. NoOverlap
    BY <2>1, <2>2 DEF Init, NoOverlap, Owned, AllInjective
  <2>4. TypeOK
    BY <2>1, ZeroOrder DEF Init, TypeOK
  <2>5. StageOK
    BY <2>1, <2>2 DEF Init, StageOK
  <2>6. NoZero
    BY <2>1, <2>2 DEF Init, NoZero
  <2>7. QED BY <2>3, <2>4, <2>5, <2>6 DEF IndInv
<1>2. IndInv /\ [Next]_vars => IndInv'
  <2>1. SUFFICES ASSUME IndInv, [Next]_vars PROVE IndInv'
    OBVIOUS
  <2>2. CASE UNCHANGED vars
    <3> USE <2>2 DEF vars
    <3>1. FreeBlocks' = FreeBlocks /\ Current' = Current /\ Owned' = Owned
      BY DEF FreeBlocks, Current, Owned
    <3>2. TypeOK'
      BY <2>1 DEF IndInv, TypeOK
    <3>3. NoOverlap'
      BY <2>1, <3>1 DEF IndInv, NoOverlap, InPool, Disjoint, End
    <3>4. StageOK'
      BY <2>1, <3>1 DEF IndInv, StageOK, End
    <3>5. NoZero'
      BY <2>1, <3>1 DEF IndInv, NoZero
    <3>6. QED BY <3>2, <3>3, <3>4, <3>5 DEF IndInv
  <2>3. CASE Next
    BY <2>1, <2>3, SetMemoryMapInv, AllocPagesInv, FreePagesInv, SeedBlockInv,
       CursorInv, ReserveBlockInv, SplitBlockInv, MergeEndInv, MergeBuddiesInv
       DEF Next, Step
  <2>4. QED BY <2>1, <2>2, <2>3
<1>3. QED BY <1>1, <1>2, PTL DEF Spec

\* Every variable of the allocator keeps its type; in particular the order of
\* the block in hand never leaves 0 .. MAX_ORDER while it is split or merged.
THEOREM TypeCorrect == Spec => []TypeOK
<1>1. IndInv => TypeOK
  BY DEF IndInv
<1>2. QED BY <1>1, IndInvHolds, PTL

\* No byte of the pool ever has two owners, whatever sequence of AllocPages
\* and FreePages calls follows start-up.
THEOREM NoOverlapHolds == Spec => []NoOverlap
<1>1. IndInv => NoOverlap
  BY DEF IndInv
<1>2. QED BY <1>1, IndInvHolds, PTL

-----------------------------------------------------------------------------
(***************************************************************************)
(* Proofs about the blocks of the page allocator: they stay at multiples   *)
(* of their size, no byte of the pool is lost, and what callers see is     *)
(* what PageAllocator promises.                                            *)
(*                                                                         *)
(* The argument for BuddyAligned: the sizes double from order to order, so *)
(* each divides the larger ones (SizesDivide); seeding takes the largest   *)
(* block that fits, so every size that still fits divides the cursor's     *)
(* offset (CursorAligned); a split adds half of a size to a multiple of    *)
(* the whole, and of two buddies the lower one is at a multiple of twice   *)
(* their size (LowerBuddy).                                                *)
(*                                                                         *)
(* NoLeak follows the same steps: a block is replaced, if at all, by       *)
(* blocks that cover it (ReplacedCover).                                   *)
(***************************************************************************)

\* The size of an order divides the size of every larger one: the smallest
\* order that would not be divisible is twice one that is.
LEMMA SizesDivide ==
  ASSUME NEW p \in Orders
  PROVE  \A o \in Orders : p <= o => BlockSize[o] % BlockSize[p] = 0
<1> DEFINE Bad == {o \in Orders : p <= o /\ BlockSize[o] % BlockSize[p] # 0}
<1>1. SUFFICES ASSUME Bad # {} PROVE FALSE
  OBVIOUS
<1>3. Bad \subseteq Nat
  BY DEF Orders
<1>5. PICK o \in Bad : \A q \in Bad : o <= q
  <2> HIDE DEF Bad
  <2> QED BY <1>1, <1>3, LeastElement
<1>6. o # p
  <2>1. BlockSize[p] % BlockSize[p] = 0
    BY BlockSizeAssumption
  <2> QED BY <2>1
<1>7. /\ o - 1 \in Orders /\ p <= o - 1 /\ o - 1 < MAX_ORDER /\ (o - 1) + 1 = o
  BY <1>6, OrderAssumption DEF Orders
<1>8. BlockSize[o] = 2 * BlockSize[o - 1]
  BY <1>7, BlockSizeAssumption
<1>9. BlockSize[o - 1] % BlockSize[p] = 0
  <2>1. o \in Nat /\ o - 1 \in Nat
    BY <1>3, <1>7 DEF Orders
  <2>2. o - 1 \notin Bad
    <3> HIDE DEF Bad
    <3> QED BY <1>5, <2>1
  <2> QED BY <1>7, <2>2
<1> QED
  <2>1. /\ BlockSize[o - 1] \in Nat
        /\ BlockSize[p] \in Nat /\ BlockSize[p] > 0
    BY <1>7, Sizes
  <2>2. (BlockSize[o - 1] + BlockSize[o - 1]) % BlockSize[p] = 0
    BY <1>9, <2>1, MultipleSum, Zenon
  <2>3. QED BY <1>8, <2>1, <2>2

-----------------------------------------------------------------------------
(* Alignment.                                                              *)

\* What seeding keeps: every block that still fits would be aligned.
CursorAligned ==
  pc = "seed" => \A o \in Orders : Fits(o) => (addr - m_base) % BlockSize[o] = 0

AlignInv == BuddyAligned /\ CursorAligned

\* A step whose blocks are old ones or aligned ones keeps BuddyAligned.
LEMMA NewAligned ==
  ASSUME BuddyAligned, m_base' = m_base, NEW S, Owned' \subseteq Owned \cup S,
         \A b \in S : Aligned(b)
  PROVE  BuddyAligned'
<1>1. \A b : Aligned(b)' <=> Aligned(b)
  BY DEF Aligned
<1>2. QED BY <1>1 DEF BuddyAligned

\* A step of seeding: the block is aligned, and so is what still fits after it.
LEMMA SeedBlockAligned ==
  ASSUME IndInv, AlignInv, SeedBlock
  PROVE  AlignInv'
<1>1. PICK o \in Orders : /\ Fits(o)
                          /\ \A p \in Orders : Fits(p) => p <= o
                          /\ m_freeLists' = listPush(addr, o)
                          /\ addr' = addr + BlockSize[o]
  BY DEF SeedBlock
<1>2. /\ pc = "seed" /\ m_freeLists \in [Orders -> Seq(Nat)] /\ addr \in Nat
      /\ m_base \in Nat /\ m_size \in Nat /\ m_base <= addr
      /\ UNCHANGED <<m_base, m_size, pc, held, reserved>>
  BY DEF IndInv, TypeOK, StageOK, SeedBlock
<1>3. FreeBlocks' \subseteq FreeBlocks \cup {<<addr, o>>} /\ Current' = {} /\ Current = {}
  BY <1>1, <1>2, PushFree, PushZero, Zenon DEF Current
<1>4. BuddyAligned'
  <2> DEFINE S == {<<addr, o>>}
  <2>1. Owned' \subseteq Owned \cup S
    BY <1>2, <1>3, Zenon DEF Owned
  <2>2. \A b \in S : Aligned(b)
    BY <1>1, <1>2 DEF AlignInv, CursorAligned, Aligned
  <2>3. m_base' = m_base /\ BuddyAligned
    BY <1>2 DEF AlignInv
  <2> HIDE DEF S
  <2>4. QED BY <2>1, <2>2, <2>3, NewAligned, Zenon
<1>5. CursorAligned'
  <2>1. SUFFICES ASSUME NEW p \in Orders, Fits(p)'
                 PROVE  (addr' - m_base') % BlockSize[p] = 0
    BY DEF CursorAligned
  <2>2. /\ BlockSize[o] \in Nat /\ BlockSize[o] > 0
        /\ BlockSize[p] \in Nat /\ BlockSize[p] > 0
    BY Sizes
  <2>3. Fits(p)
    BY <1>1, <1>2, <2>1, <2>2 DEF Fits
  <2>4. (addr - m_base) % BlockSize[p] = 0 /\ BlockSize[o] % BlockSize[p] = 0
    BY <1>1, <1>2, <2>3, SizesDivide DEF AlignInv, CursorAligned
  <2>5. addr - m_base \in Nat /\ addr' - m_base' = (addr - m_base) + BlockSize[o]
    BY <1>1, <1>2, <2>2
  <2>6. QED BY <2>2, <2>4, <2>5, MultipleSum, Zenon
<1>6. QED BY <1>4, <1>5 DEF AlignInv

\* A step that makes no block and does not seed.
LEMMA MovesKeepAligned ==
  ASSUME AlignInv, Owned' \subseteq Owned, m_base' = m_base, pc' # "seed"
  PROVE  AlignInv'
<1>1. BuddyAligned'
  <2>1. \A b : Aligned(b)' <=> Aligned(b)
    BY DEF Aligned
  <2>2. QED BY <2>1 DEF AlignInv, BuddyAligned
<1>2. QED BY <1>1 DEF AlignInv, CursorAligned

\* AllocPages hands over the block it pops; FreePages the block it is given.
LEMMA CallsAligned ==
  ASSUME IndInv, AlignInv,
         \/ \E o \in Orders : AllocPages(o)
         \/ \E b \in held : FreePages(b)
  PROVE  AlignInv'
<1>1. /\ m_freeLists \in [Orders -> Seq(Nat)] /\ AllInjective /\ held \subseteq BlockType
  BY DEF IndInv, TypeOK, NoOverlap, AllInjective
<1>2. ASSUME NEW o \in Orders, AllocPages(o) PROVE AlignInv'
  <2>1. PICK found \in Usable(o) :
          LET a == Head(m_freeLists[found])
          IN  /\ m_freeLists' = listPop(found)
              /\ \/ found = o /\ Return(a, o)
                 \/ found > o /\ Continue("split", a, found, o) /\ UNCHANGED held
    BY <1>2 DEF AllocPages
  <2> DEFINE x == <<Head(m_freeLists[found]), found>>
  <2>2. found \in Orders /\ m_freeLists[found] # <<>>
    BY DEF Usable
  <2>3. x \in FreeBlocks /\ FreeBlocks' = FreeBlocks \ {x}
    BY <1>1, <2>1, <2>2, PopFree
  <2>4. /\ held' \subseteq held \cup {x} /\ Current' \subseteq {x}
        /\ pc' \in {"idle", "split"} /\ m_base' = m_base /\ reserved' = reserved
    BY <1>2, <2>1 DEF Return, Continue, Current, AllocPages
  <2> HIDE DEF x
  <2>5. Owned' \subseteq Owned
    BY <2>3, <2>4, Zenon DEF Owned
  <2>6. QED BY <2>4, <2>5, MovesKeepAligned
<1>3. ASSUME NEW b \in held, FreePages(b) PROVE AlignInv'
  <2>1. /\ b = <<b[1], b[2]>> /\ held' = held \ {b} /\ FreeBlocks' = FreeBlocks
        /\ pc' = "merge" /\ addr' = b[1] /\ order' = b[2]
        /\ m_base' = m_base /\ reserved' = reserved
    BY <1>1, <1>3 DEF FreePages, Continue, BlockType, FreeBlocks
  <2>2. Current' = {b}
    BY <2>1 DEF Current
  <2>3. Owned' \subseteq Owned
    BY <2>1, <2>2, Zenon DEF Owned
  <2>4. QED BY <2>1, <2>3, MovesKeepAligned
<1>4. QED BY <1>2, <1>3

\* The steps that move a block between owners, or only the cursor.
LEMMA LoopEndsAligned ==
  ASSUME IndInv, AlignInv,
         \/ MergeInsert \/ MergeFallback
         \/ SeedDone \/ ReserveBlock \/ ReserveSkip \/ ReserveNext
  PROVE  AlignInv'
<1>1. /\ m_freeLists \in [Orders -> Seq(Nat)] /\ AllInjective
      /\ addr \in Nat /\ order \in Orders
  BY DEF IndInv, TypeOK, NoOverlap, AllInjective
<1>2. CASE MergeInsert \/ MergeFallback
  <2> DEFINE x == <<addr, order>>
  <2>1. /\ Current = {x} /\ Current' = {} /\ pc' = "idle"
        /\ m_freeLists' = listPush(addr, order)
        /\ UNCHANGED <<m_base, held, reserved>>
    BY <1>2 DEF MergeInsert, MergeFallback, Continue, Current
  <2>2. FreeBlocks' = FreeBlocks \cup {x}
    <3>1. pc = "merge"
      BY <1>2 DEF MergeInsert, MergeFallback
    <3>2. QED BY <1>1, <2>1, <3>1, InHand, PushFree, Zenon
  <2> HIDE DEF x
  <2>3. Owned' \subseteq Owned
    BY <2>1, <2>2, Zenon DEF Owned
  <2>4. QED BY <2>1, <2>3, MovesKeepAligned
<1>3. CASE SeedDone \/ ReserveSkip \/ ReserveNext
  <2>1. /\ Current' = {} /\ pc' \in {"reserve", "idle"} /\ FreeBlocks' = FreeBlocks
        /\ UNCHANGED <<m_base, held, reserved>>
    BY <1>3 DEF SeedDone, ReserveSkip, ReserveNext, Current, FreeBlocks
  <2>2. Owned' \subseteq Owned
    BY <2>1 DEF Owned
  <2>3. QED BY <2>1, <2>2, MovesKeepAligned
<1>4. CASE ReserveBlock
  <2>1. PICK o \in Removable : /\ m_freeLists' = listRemove(addr, o)
                               /\ reserved' = reserved \cup {<<addr, o>>}
    BY <1>4 DEF ReserveBlock
  <2> DEFINE x == <<addr, o>>
  <2>2. /\ o \in Orders /\ OnList(addr, o) /\ pc' = "reserve" /\ Current' = {}
        /\ UNCHANGED <<m_base, held>>
    BY <1>4 DEF Removable, ReserveBlock, Current
  <2>3. x \in FreeBlocks /\ FreeBlocks' = FreeBlocks \ {x}
    BY <1>1, <2>1, <2>2, RemoveFree
  <2>4. reserved' = reserved \cup {x}
    BY <2>1
  <2> HIDE DEF x
  <2>5. Owned' \subseteq Owned
    BY <2>2, <2>3, <2>4, Zenon DEF Owned
  <2>6. QED BY <2>2, <2>5, MovesKeepAligned
<1>5. QED BY <1>2, <1>3, <1>4

\* SetMemoryMap, entry: there is no block, and the cursor is at the base.
LEMMA SetMemoryMapAligned ==
  ASSUME IndInv, NEW map \in Maps, SetMemoryMap(map)
  PROVE  AlignInv'
<1>1. /\ held' = {} /\ reserved' = {} /\ m_freeLists' = [o \in Orders |-> <<>>]
      /\ m_base' = map.memBase /\ addr' = map.memBase /\ map.memBase \in Nat
      /\ pc' \in {"halted", "seed"}
  BY MapAssumption DEF IndInv, StageOK, SetMemoryMap
<1>2. Owned' = {}
  BY <1>1 DEF Owned, FreeBlocks, Current, Range
<1>3. addr' - m_base' = 0 /\ \A o \in Orders : 0 % BlockSize[o] = 0
  BY <1>1, Sizes
<1>4. QED BY <1>2, <1>3 DEF AlignInv, BuddyAligned, CursorAligned

\* One iteration of the split loop: both halves are aligned.
LEMMA SplitBlockAligned ==
  ASSUME IndInv, AlignInv, SplitBlock
  PROVE  AlignInv'
<1> DEFINE p == order - 1
           x == <<addr, order>>
           l == <<addr, p>>
           h == <<addr + BlockSize[p], p>>
           S == {l, h}
<1>1. /\ pc = "split" /\ x \in Owned
      /\ addr \in Nat /\ order \in Orders /\ 0 < order /\ m_base \in Nat
      /\ m_freeLists \in [Orders -> Seq(Nat)]
      /\ UNCHANGED <<m_base, m_size, regions, region, reserved>>
  BY DEF IndInv, TypeOK, StageOK, SplitBlock, Current, Owned, Orders
<1>2. /\ p \in Orders /\ p <= order
      /\ BlockSize[p] \in Nat /\ BlockSize[p] > 0
      /\ BlockSize[order] \in Nat /\ BlockSize[order] > 0
  BY <1>1, Sizes DEF Orders
<1>3. m_base <= addr /\ (addr - m_base) % BlockSize[order] = 0
  BY <1>1 DEF IndInv, NoOverlap, InPool, AlignInv, BuddyAligned, Aligned
<1>4. BlockSize[order] % BlockSize[p] = 0
  BY <1>1, <1>2, SizesDivide
<1>5. addr - m_base \in Nat
  BY <1>1, <1>3
<1>6. (addr - m_base) % BlockSize[p] = 0
  BY <1>2, <1>3, <1>4, <1>5, MultipleOfMultiple, Zenon
<1>7. ((addr - m_base) + BlockSize[p]) % BlockSize[p] = 0
  <2>1. BlockSize[p] % BlockSize[p] = 0
    BY <1>2
  <2>2. QED BY <1>2, <1>5, <1>6, <2>1, MultipleSum
<1>8. Aligned(l) /\ Aligned(h)
  <2>1. (addr - m_base) + BlockSize[p] = (addr + BlockSize[p]) - m_base
    BY <1>1, <1>2
  <2>2. QED BY <1>6, <1>7, <2>1 DEF Aligned
<1>9. /\ m_freeLists' = listPush(addr + BlockSize[p], p)
      /\ addr + BlockSize[p] \in Nat /\ addr + BlockSize[p] # 0
  BY <1>1, <1>2 DEF SplitBlock
<1>10. FreeBlocks' = FreeBlocks \cup {h}
  BY <1>1, <1>2, <1>9, PushFree, Zenon
<1>11. held' \subseteq held \cup {l} /\ Current' \subseteq {l} /\ pc' \in {"idle", "split"}
  BY DEF SplitBlock, Return, Continue, Current
<1> HIDE DEF l, h
<1>12. Owned' \subseteq Owned \cup S /\ \A b \in S : Aligned(b)
  BY <1>1, <1>8, <1>10, <1>11, Zenon DEF Owned
<1> HIDE DEF S
<1>13. BuddyAligned'
  BY <1>1, <1>12, NewAligned, Zenon DEF AlignInv
<1>14. QED BY <1>11, <1>13 DEF AlignInv, CursorAligned

\* One iteration of the merge loop: the lower of two buddies is at a multiple
\* of twice their size.
LEMMA MergeBuddiesAligned ==
  ASSUME IndInv, AlignInv, MergeBuddies
  PROVE  AlignInv'
<1> DEFINE b == buddyOf(addr, order)
           a == IF b < addr THEN b ELSE addr
           s == BlockSize[order]
           z == <<a, order + 1>>
           S == {z}
<1>1. /\ pc = "merge" /\ <<addr, order>> \in Owned /\ order < MAX_ORDER
      /\ addr \in Nat /\ order \in Orders /\ OnList(b, order) /\ m_base \in Nat
      /\ m_freeLists \in [Orders -> Seq(Nat)] /\ AllInjective
      /\ m_freeLists' = listRemove(b, order)
      /\ UNCHANGED <<m_base, m_size, regions, region, held, reserved>>
  BY DEF IndInv, TypeOK, NoOverlap, AllInjective, MergeBuddies, Current, Owned
<1>2. /\ s \in Nat /\ s > 0 /\ order + 1 \in Orders /\ BlockSize[order + 1] = 2 * s
  BY <1>1, Sizes
<1>3. m_base <= addr /\ (addr - m_base) % s = 0
  BY <1>1 DEF IndInv, NoOverlap, InPool, AlignInv, BuddyAligned, Aligned
<1>4. addr - m_base \in Nat
  BY <1>1, <1>3
<1>5. IF ((addr - m_base) \div s) % 2 = 0
      THEN (addr - m_base) % (2 * s) = 0
      ELSE s <= addr - m_base /\ ((addr - m_base) - s) % (2 * s) = 0
  BY <1>2, <1>3, <1>4, LowerBuddy, Zenon
<1>6. (a - m_base) % (2 * s) = 0
  <2> HIDE DEF s
  <2>1. CASE ((addr - m_base) \div s) % 2 = 0
    <3>1. b = addr + s
      BY <1>1, <1>2, <2>1 DEF buddyOf, s
    <3>2. a = addr
      BY <1>1, <1>2, <3>1
    <3>3. QED BY <1>5, <2>1, <3>2
  <2>2. CASE ((addr - m_base) \div s) % 2 # 0
    <3>1. b = addr - s
      BY <1>1, <1>2, <2>2 DEF buddyOf, s
    <3>2. a - m_base = (addr - m_base) - s
      BY <1>1, <1>2, <3>1
    <3>3. QED BY <1>5, <2>2, <3>2
  <2>3. QED BY <2>1, <2>2
<1>7. FreeBlocks' \subseteq FreeBlocks
  BY <1>1, RemoveFree, Zenon
<1>8. Current' = {z} /\ pc' = "merge"
  BY DEF MergeBuddies, Continue, Current
<1>9. Aligned(z)
  BY <1>2, <1>6 DEF Aligned
<1> HIDE DEF z
<1>10. Owned' \subseteq Owned \cup S /\ \A c \in S : Aligned(c)
  BY <1>1, <1>7, <1>8, <1>9, Zenon DEF Owned
<1> HIDE DEF S
<1>11. BuddyAligned'
  BY <1>1, <1>10, NewAligned, Zenon DEF AlignInv
<1>12. QED BY <1>8, <1>11 DEF AlignInv, CursorAligned

\* The blocks are aligned, and so is the cursor of the seeding loop.
THEOREM AlignInvHolds == Spec => []AlignInv
<1>1. Init => AlignInv
  BY DEF Init, AlignInv, BuddyAligned, CursorAligned, Owned, FreeBlocks, Current,
         Range
<1>2. IndInv /\ AlignInv /\ [Next]_vars => AlignInv'
  <2>1. SUFFICES ASSUME IndInv, AlignInv, [Next]_vars PROVE AlignInv'
    OBVIOUS
  <2>2. CASE UNCHANGED vars
    BY <2>1, <2>2 DEF vars, AlignInv, BuddyAligned, CursorAligned, Owned,
       FreeBlocks, Current, Aligned, Fits
  <2>3. CASE Next
    BY <2>1, <2>3, SetMemoryMapAligned, CallsAligned, SeedBlockAligned,
       LoopEndsAligned, SplitBlockAligned, MergeBuddiesAligned DEF Next, Step
  <2>4. QED BY <2>1, <2>2, <2>3
<1>3. QED BY <1>1, <1>2, IndInvHolds, PTL DEF Spec

\* Every block the allocator tracks starts at a multiple of its size from the
\* base of the pool, so that buddyOf names the block's real buddy.
THEOREM BuddyAlignedHolds == Spec => []BuddyAligned
<1>1. AlignInv => BuddyAligned
  BY DEF AlignInv
<1>2. QED BY <1>1, AlignInvHolds, PTL

-----------------------------------------------------------------------------
(* No memory is lost.                                                      *)

Covered(x) == \E b \in Owned : x \in Span(b)

\* NoLeak with what seeding adds to it: the bytes below the cursor have owners.
CoverInv ==
  /\ NoLeak
  /\ m_base # 0 /\ pc = "seed" => \A x \in m_base .. (addr - 1) : Covered(x)

\* A step that replaces each block, if at all, by blocks that cover it, and
\* neither seeds nor ends seeding, loses no byte.
LEMMA ReplacedCover ==
  ASSUME CoverInv, UNCHANGED <<m_base, m_size>>,
         pc \in {"reserve", "idle", "split", "merge"}, pc' # "seed",
         m_base # 0 =>
           \A b \in Owned : b \in Owned' \/ \A x \in Span(b) : Covered(x)'
  PROVE  CoverInv'
<1>1. \A b : Span(b)' = Span(b)
  BY DEF Span, End
<1>2. ASSUME m_base # 0, NEW x, Covered(x) PROVE Covered(x)'
  <2>1. PICK b \in Owned : x \in Span(b)
    BY <1>2 DEF Covered
  <2>2. CASE b \in Owned'
    BY <1>1, <2>1, <2>2 DEF Covered
  <2>3. CASE b \notin Owned'
    BY <1>2, <2>1, <2>3
  <2>4. QED BY <2>2, <2>3
<1>3. NoLeak'
  <2>1. m_base # 0 => \A x \in m_base .. (m_base + m_size - 1) : Covered(x)
    BY DEF CoverInv, NoLeak, Covered
  <2>2. m_base # 0 => \A x \in m_base .. (m_base + m_size - 1) : Covered(x)'
    BY <1>2, <2>1
  <2>3. QED BY <2>2 DEF NoLeak, Covered
<1>4. QED BY <1>3 DEF CoverInv

\* SetMemoryMap up to the end of seeding: the seeded blocks leave no gap.
LEMMA SeedCover ==
  ASSUME IndInv, CoverInv,
         (\E map \in Maps : SetMemoryMap(map)) \/ SeedBlock \/ SeedDone
  PROVE  CoverInv'
<1>1. \A b : Span(b)' = Span(b)
  BY DEF Span, End
<1>2. ASSUME NEW map \in Maps, SetMemoryMap(map) PROVE CoverInv'
  <2>1. /\ pc' \in {"halted", "seed"} /\ m_base' = addr' /\ addr' \in Nat
    BY <1>2, MapAssumption DEF SetMemoryMap
  <2>2. \A n \in Nat : n .. (n - 1) = {}
    OBVIOUS
  <2>3. QED BY <2>1, <2>2, Zenon DEF CoverInv, NoLeak
<1>3. CASE SeedBlock
  <2>1. PICK o \in Orders : /\ m_freeLists' = listPush(addr, o)
                            /\ addr' = addr + BlockSize[o]
    BY <1>3 DEF SeedBlock
  <2>2. /\ pc = "seed" /\ m_freeLists \in [Orders -> Seq(Nat)] /\ addr \in Nat
        /\ m_base \in Nat /\ UNCHANGED <<m_base, m_size, pc, held, reserved>>
    BY <1>3 DEF IndInv, TypeOK, SeedBlock
  <2> DEFINE b == <<addr, o>>
  <2>3. addr # 0 => FreeBlocks' = FreeBlocks \cup {b} /\ Current' = {} /\ Current = {}
    BY <2>1, <2>2, PushFree, Zenon DEF Current
  <2>4. m_base # 0 => Owned \subseteq Owned' /\ b \in Owned'
    <3>1. m_base # 0 => addr # 0
      BY <2>2 DEF IndInv, StageOK
    <3> HIDE DEF b
    <3>2. QED BY <2>2, <2>3, <3>1, Zenon DEF Owned
  <2>5. /\ BlockSize[o] \in Nat
        /\ \A x \in addr .. (addr + BlockSize[o] - 1) : x \in Span(b)
    <3>1. BlockSize[o] \in Nat
      BY Sizes
    <3>2. QED BY <2>2, <3>1 DEF Span, End
  <2>6. ASSUME m_base # 0, NEW x \in m_base .. (addr' - 1) PROVE Covered(x)'
    <3>1. CASE x < addr
      <4>1. x \in m_base .. (addr - 1)
        BY <2>1, <2>2, <2>5, <2>6, <3>1
      <4>2. Covered(x)
        BY <2>2, <2>6, <4>1 DEF CoverInv
      <4>3. QED BY <1>1, <2>4, <2>6, <4>2 DEF Covered
    <3>2. CASE x >= addr
      <4>1. x \in addr .. (addr + BlockSize[o] - 1)
        BY <2>1, <2>2, <2>5, <2>6, <3>2
      <4> HIDE DEF b
      <4>2. x \in Span(b)
        BY <2>5, <4>1, Zenon
      <4>3. QED BY <1>1, <2>4, <2>6, <4>2, Zenon DEF Covered
    <3>3. QED BY <2>2, <2>6, <3>1, <3>2
  <2>7. QED BY <2>2, <2>6 DEF CoverInv, NoLeak
<1>4. CASE SeedDone
  <2>1. /\ pc = "seed" /\ pc' = "reserve" /\ addr >= m_base + m_size /\ Owned' = Owned
        /\ UNCHANGED <<m_base, m_size>>
    BY <1>4 DEF SeedDone, Owned, FreeBlocks, Current
  <2>2. addr \in Nat /\ m_base \in Nat /\ m_size \in Nat
    BY DEF IndInv, TypeOK
  <2>3. m_base .. (m_base + m_size - 1) \subseteq m_base .. (addr - 1)
    BY <2>1, <2>2
  <2>4. m_base # 0 => \A x \in m_base .. (m_base + m_size - 1) : Covered(x)
    BY <2>1, <2>3 DEF CoverInv
  <2>5. QED BY <1>1, <2>1, <2>4 DEF CoverInv, NoLeak, Covered
<1>5. QED BY <1>2, <1>3, <1>4

\* The steps that move a block from one owner to another.
LEMMA MovesCover ==
  ASSUME IndInv, CoverInv,
         \/ \E o \in Orders : AllocPages(o)
         \/ \E b \in held : FreePages(b)
         \/ ReserveBlock \/ ReserveSkip \/ ReserveNext
         \/ MergeInsert \/ MergeFallback
  PROVE  CoverInv'
<1>1. /\ m_freeLists \in [Orders -> Seq(Nat)] /\ AllInjective
      /\ addr \in Nat /\ order \in Orders /\ m_base \in Nat
      /\ held \subseteq BlockType
  BY DEF IndInv, TypeOK, NoOverlap, AllInjective
<1>2. SUFFICES /\ pc \in {"reserve", "idle", "split", "merge"} /\ pc' # "seed"
               /\ UNCHANGED <<m_base, m_size>>
               /\ m_base # 0 => Owned \subseteq Owned'
  BY ReplacedCover
<1>3. ASSUME NEW o \in Orders, AllocPages(o)
      PROVE  /\ pc = "idle" /\ pc' # "seed" /\ UNCHANGED <<m_base, m_size>>
             /\ m_base # 0 => Owned \subseteq Owned'
  <2>1. PICK found \in Usable(o) :
          LET a == Head(m_freeLists[found])
          IN  /\ m_freeLists' = listPop(found)
              /\ \/ found = o /\ Return(a, o)
                 \/ found > o /\ Continue("split", a, found, o) /\ UNCHANGED held
    BY <1>3 DEF AllocPages
  <2> DEFINE a == Head(m_freeLists[found])
             x == <<a, found>>
  <2>2. found \in Orders /\ m_freeLists[found] # <<>>
    BY DEF Usable
  <2>3. a \in Nat /\ x \in FreeBlocks /\ FreeBlocks' = FreeBlocks \ {x}
    BY <1>1, <2>1, <2>2, PopFree
  <2>4. m_base <= a
    BY <2>3 DEF IndInv, NoOverlap, Owned, InPool
  <2>5. /\ pc = "idle" /\ Current = {} /\ UNCHANGED <<m_base, m_size, reserved>>
    BY <1>3 DEF AllocPages, Current
  <2> HIDE DEF a
  <2>6. /\ pc' \in {"idle", "split"} /\ held \subseteq held'
        /\ m_base # 0 => x \in held' \cup Current'
    <3>1. CASE found = o /\ Return(a, o)
      BY <1>1, <2>3, <2>4, <3>1 DEF Return
    <3>2. CASE found > o /\ Continue("split", a, found, o) /\ UNCHANGED held
      BY <3>2 DEF Continue, Current
    <3>3. QED BY <2>1, <3>1, <3>2 DEF a
  <2> HIDE DEF x
  <2>7. m_base # 0 => Owned \subseteq Owned'
    BY <2>3, <2>5, <2>6, Zenon DEF Owned
  <2>8. QED BY <2>5, <2>6, <2>7
<1>4. ASSUME NEW b \in held, FreePages(b)
      PROVE  /\ pc = "idle" /\ pc' # "seed" /\ UNCHANGED <<m_base, m_size>>
             /\ Owned \subseteq Owned'
  <2>1. /\ b = <<b[1], b[2]>> /\ held' = held \ {b} /\ FreeBlocks' = FreeBlocks
        /\ pc = "idle" /\ pc' = "merge" /\ addr' = b[1] /\ order' = b[2]
        /\ UNCHANGED <<m_base, m_size, reserved>>
    BY <1>1, <1>4 DEF FreePages, Continue, BlockType, FreeBlocks
  <2>2. Current' = {b} /\ Current = {}
    BY <2>1 DEF Current
  <2>3. Owned \subseteq Owned'
    BY <2>1, <2>2, Zenon DEF Owned
  <2>4. QED BY <2>1, <2>3
<1>5. ASSUME MergeInsert \/ MergeFallback
      PROVE  /\ pc = "merge" /\ pc' # "seed" /\ UNCHANGED <<m_base, m_size>>
             /\ Owned \subseteq Owned'
  <2> DEFINE x == <<addr, order>>
  <2>1. /\ pc = "merge" /\ Current = {x} /\ Current' = {} /\ pc' = "idle"
        /\ m_freeLists' = listPush(addr, order)
        /\ UNCHANGED <<m_base, m_size, held, reserved>>
    BY <1>5 DEF MergeInsert, MergeFallback, Continue, Current
  <2>2. FreeBlocks' = FreeBlocks \cup {x}
    BY <1>1, <2>1, InHand, PushFree, Zenon
  <2> HIDE DEF x
  <2>3. Owned \subseteq Owned'
    BY <2>1, <2>2, Zenon DEF Owned
  <2>4. QED BY <2>1, <2>3
<1>6. ASSUME ReserveSkip \/ ReserveNext
      PROVE  /\ pc = "reserve" /\ pc' # "seed" /\ UNCHANGED <<m_base, m_size>>
             /\ Owned \subseteq Owned'
  <2>1. /\ pc = "reserve" /\ pc' \in {"reserve", "idle"} /\ FreeBlocks' = FreeBlocks
        /\ UNCHANGED <<m_base, m_size, held, reserved>>
    BY <1>6 DEF ReserveSkip, ReserveNext, FreeBlocks
  <2>2. Current = {}
    BY <2>1 DEF Current
  <2>3. QED BY <2>1, <2>2 DEF Owned
<1>7. ASSUME ReserveBlock
      PROVE  /\ pc = "reserve" /\ pc' # "seed" /\ UNCHANGED <<m_base, m_size>>
             /\ Owned \subseteq Owned'
  <2>1. PICK o \in Removable : /\ m_freeLists' = listRemove(addr, o)
                               /\ reserved' = reserved \cup {<<addr, o>>}
    BY <1>7 DEF ReserveBlock
  <2> DEFINE x == <<addr, o>>
  <2>2. /\ o \in Orders /\ OnList(addr, o) /\ pc = "reserve" /\ pc' = "reserve"
        /\ Current = {} /\ UNCHANGED <<m_base, m_size, held>>
    BY <1>7, Zenon DEF Removable, ReserveBlock, Current
  <2>3. FreeBlocks' = FreeBlocks \ {x}
    BY <1>1, <2>1, <2>2, RemoveFree, Zenon
  <2>4. reserved' = reserved \cup {x}
    BY <2>1
  <2> HIDE DEF x
  <2>5. Owned \subseteq Owned'
    BY <2>2, <2>3, <2>4, Zenon DEF Owned
  <2>6. QED BY <2>2, <2>5
<1>8. QED BY <1>3, <1>4, <1>5, <1>6, <1>7

\* The split loop: the two halves cover the block.
LEMMA SplitBlockCover ==
  ASSUME IndInv, CoverInv, SplitBlock
  PROVE  CoverInv'
<1> DEFINE p == order - 1
           x == <<addr, order>>
           l == <<addr, p>>
           h == <<addr + BlockSize[p], p>>
<1>1. /\ pc = "split" /\ Current = {x} /\ x \in Owned
      /\ addr \in Nat /\ order \in Orders /\ 0 < order /\ m_base \in Nat
      /\ m_freeLists \in [Orders -> Seq(Nat)]
      /\ UNCHANGED <<m_base, m_size, reserved>>
  BY DEF IndInv, TypeOK, StageOK, SplitBlock, Current, Owned, Orders
<1>2. /\ p \in Orders /\ BlockSize[p] \in Nat /\ BlockSize[order] = 2 * BlockSize[p]
  BY <1>1, Sizes
<1>3. m_base <= addr
  BY <1>1 DEF IndInv, NoOverlap, InPool
<1>4. /\ m_freeLists' = listPush(addr + BlockSize[p], p)
      /\ addr + BlockSize[p] \in Nat /\ addr + BlockSize[p] # 0
  <2>1. addr # 0
    BY <1>1, InHand
  <2>2. QED BY <1>1, <1>2, <2>1 DEF SplitBlock
<1>5. FreeBlocks' = FreeBlocks \cup {h}
  BY <1>1, <1>2, <1>4, PushFree, Zenon
<1>6. /\ pc' \in {"idle", "split"} /\ held \subseteq held'
      /\ m_base # 0 => l \in held' \cup Current'
  <2>1. CASE Return(addr, p)
    BY <1>1, <1>3, <2>1 DEF Return
  <2>2. CASE Continue("split", addr, p, want) /\ UNCHANGED held
    BY <2>2 DEF Continue, Current
  <2>3. QED BY <2>1, <2>2 DEF SplitBlock
<1>7. \A y \in Span(x) : y \in Span(l) \/ y \in Span(h)
  BY <1>1, <1>2 DEF Span, End
<1> HIDE DEF x, l, h
<1>8. m_base # 0 => l \in Owned' /\ h \in Owned' /\ Owned \ {x} \subseteq Owned'
  BY <1>1, <1>5, <1>6, Zenon DEF Owned
<1>9. m_base # 0 => \A y \in Span(x) : Covered(y)'
  <2>1. \A y : y \in Span(l) /\ l \in Owned' => Covered(y)'
    BY DEF Covered, Span, End
  <2>2. \A y : y \in Span(h) /\ h \in Owned' => Covered(y)'
    BY DEF Covered, Span, End
  <2>3. QED BY <1>7, <1>8, <2>1, <2>2
<1>10. m_base # 0 => \A b \in Owned : b \in Owned' \/ \A y \in Span(b) : Covered(y)'
  BY <1>8, <1>9
<1>11. QED BY <1>1, <1>6, <1>10, ReplacedCover

\* The merge loop: the merged block covers both buddies.
LEMMA MergeBuddiesCover ==
  ASSUME IndInv, CoverInv, MergeBuddies
  PROVE  CoverInv'
<1> DEFINE b == buddyOf(addr, order)
           a == IF b < addr THEN b ELSE addr
           x == <<addr, order>>
           y == <<b, order>>
           z == <<a, order + 1>>
<1>1. /\ pc = "merge" /\ Current = {x} /\ order < MAX_ORDER
      /\ addr \in Nat /\ order \in Orders /\ OnList(b, order) /\ m_base \in Nat
      /\ m_freeLists \in [Orders -> Seq(Nat)] /\ AllInjective
      /\ m_freeLists' = listRemove(b, order)
      /\ UNCHANGED <<m_base, m_size, held, reserved>>
  BY DEF IndInv, TypeOK, NoOverlap, AllInjective, MergeBuddies, Current
<1>2. b \in Nat /\ FreeBlocks' = FreeBlocks \ {y}
  BY <1>1, RemoveFree, Zenon
<1>3. b = addr + BlockSize[order] \/ b = addr - BlockSize[order]
  BY <1>1, BuddyAdjacent
<1>4. Current' = {z} /\ pc' = "merge"
  BY DEF MergeBuddies, Continue, Current
<1>5. BlockSize[order] \in Nat /\ BlockSize[order + 1] = 2 * BlockSize[order]
  BY <1>1, Sizes
<1> HIDE DEF b
<1>6. \A w : w \in Span(x) \/ w \in Span(y) => w \in Span(z)
  BY <1>1, <1>2, <1>3, <1>5 DEF Span, End
<1> HIDE DEF x, y, z
<1>7. z \in Owned' /\ Owned \ {x, y} \subseteq Owned'
  BY <1>1, <1>2, <1>4, Zenon DEF Owned
<1>8. \A w \in Span(z) : Covered(w)'
  BY <1>7 DEF Covered, Span, End
<1>9. \A c \in Owned : c \in Owned' \/ \A w \in Span(c) : Covered(w)'
  BY <1>6, <1>7, <1>8
<1>10. QED BY <1>1, <1>4, <1>9, ReplacedCover

\* Once the pool is seeded every byte of it has an owner, unless the pool is
\* based at 0: no call sequence loses memory.
THEOREM NoLeakHolds == Spec => []NoLeak
<1>1. Init => CoverInv
  BY DEF Init, CoverInv, NoLeak
<1>2. IndInv /\ CoverInv /\ [Next]_vars => CoverInv'
  <2>1. SUFFICES ASSUME IndInv, CoverInv, [Next]_vars PROVE CoverInv'
    OBVIOUS
  <2>2. CASE UNCHANGED vars
    BY <2>1, <2>2 DEF vars, CoverInv, NoLeak, Covered, Owned, FreeBlocks, Current,
       Span, End
  <2>3. CASE Next
    BY <2>1, <2>3, SeedCover, MovesCover, SplitBlockCover, MergeBuddiesCover
       DEF Next, Step
  <2>4. QED BY <2>1, <2>2, <2>3
<1>3. CoverInv => NoLeak
  BY DEF CoverInv
<1>4. QED BY <1>1, <1>2, <1>3, IndInvHolds, PTL DEF Spec

-----------------------------------------------------------------------------
(* What callers see.                                                       *)

\* A step that adds a block to those callers own is an Alloc of PageAllocator.
LEMMA HandedOut ==
  ASSUME IndInv, IndInv', BuddyAligned', UNCHANGED <<m_base, m_size>>,
         NEW b, b \notin held, held' = held \cup {b}
  PROVE  Promise!ANext
<1>1. /\ m_base \in Nat /\ m_size \in Nat /\ b \in BlockType /\ b \in Owned'
      /\ held \subseteq Owned' /\ b[1] # 0
  BY DEF IndInv, TypeOK, NoZero, Owned
<1>2. b = <<b[1], b[2]>> /\ b[1] \in Nat /\ b[2] \in Orders
  BY <1>1 DEF BlockType
<1>3. BlockSize[b[2]] \in Nat /\ BlockSize[b[2]] > 0
  BY <1>2, Sizes
<1>4. /\ m_base <= b[1] /\ b[1] + BlockSize[b[2]] <= m_base + m_size
      /\ (b[1] - m_base) % BlockSize[b[2]] = 0
  BY <1>1 DEF IndInv, NoOverlap, InPool, End, BuddyAligned, Aligned
<1>5. \A c \in held : Disjoint(b, c)
  <2>1. \A c \in held : Disjoint(b, c)'
    BY <1>1 DEF IndInv, NoOverlap
  <2>2. QED BY <2>1 DEF Disjoint, End
<1>6. Promise!Alloc(b)
  BY <1>1, <1>4, <1>5 DEF Promise!Alloc, Promise!AEnd, Promise!ADisjoint, Disjoint, End
<1>7. b[1] \in m_base .. (m_base + m_size - 1) /\ b[2] \in 0 .. MAX_ORDER
  BY <1>1, <1>2, <1>3, <1>4 DEF Orders
<1>8. Promise!Alloc(<<b[1], b[2]>>)
  BY <1>2, <1>6, Zenon
<1>9. QED BY <1>7, <1>8 DEF Promise!ANext, Promise!AOrders

\* Every step of the allocator is a step of PageAllocator or invisible.
LEMMA StepKeepsPromise ==
  ASSUME IndInv, IndInv', BuddyAligned', [Next]_vars
  PROVE  [Promise!ANext]_(Promise!avars)
<1>1. ASSUME NEW b, UNCHANGED <<m_base, m_size>>,
             held' = held \/ held' = held \cup {b}
      PROVE  [Promise!ANext]_(Promise!avars)
  <2>1. CASE held' = held
    BY <1>1, <2>1 DEF Promise!avars
  <2>2. CASE held' # held
    <3>1. b \notin held /\ held' = held \cup {b}
      BY <1>1, <2>2
    <3>2. QED BY <1>1, <3>1, HandedOut
  <2>3. QED BY <2>1, <2>2
<1>2. ASSUME NEW map \in Maps, SetMemoryMap(map)
      PROVE  Promise!ANext
  <2>1. held = {} /\ held' = held /\ m_base' \in Nat /\ m_size' \in Nat
    BY <1>2 DEF IndInv, TypeOK, StageOK, SetMemoryMap
  <2>2. QED BY <2>1 DEF Promise!ANext, Promise!SetPool
<1>3. ASSUME NEW o \in Orders, AllocPages(o)
      PROVE  [Promise!ANext]_(Promise!avars)
  <2>1. PICK a : UNCHANGED <<m_base, m_size>> /\ (Return(a, o) \/ UNCHANGED held)
    BY <1>3 DEF AllocPages
  <2>2. held' = held \/ held' = held \cup {<<a, o>>}
    BY <2>1 DEF Return
  <2>3. QED BY <1>1, <2>1, <2>2
<1>4. ASSUME NEW b \in held, FreePages(b)
      PROVE  Promise!ANext
  BY <1>4 DEF FreePages, Promise!ANext, Promise!Free
<1>5. ASSUME SplitBlock
      PROVE  [Promise!ANext]_(Promise!avars)
  <2>1. /\ UNCHANGED <<m_base, m_size>>
        /\ held' = held \/ held' = held \cup {<<addr, order - 1>>}
    BY <1>5 DEF SplitBlock, Return
  <2>2. QED BY <1>1, <2>1, Zenon
<1>6. ASSUME UNCHANGED <<m_base, m_size, held>>
      PROVE  [Promise!ANext]_(Promise!avars)
  BY <1>6 DEF Promise!avars
<1>7. SeedBlock \/ SeedDone \/ ReserveBlock \/ ReserveSkip \/ ReserveNext
      \/ MergeInsert \/ MergeFallback \/ MergeBuddies \/ UNCHANGED vars
        => UNCHANGED <<m_base, m_size, held>>
  BY Zenon DEF SeedBlock, SeedDone, ReserveBlock, ReserveSkip, ReserveNext, MergeInsert,
         MergeFallback, MergeBuddies, vars
<1>8. QED
  BY <1>2, <1>3, <1>4, <1>5, <1>6, <1>7 DEF Next, Step

\* AllocPages, FreePages and SetMemoryMap implement PageAllocator for every
\* pool: a caller gets a block that is aligned, in the pool, not at address 0
\* and disjoint from every block that a caller owns.
THEOREM KeepsPromiseHolds == Spec => KeepsPromise
<1>1. Init => Promise!AInit
  BY DEF Init, Promise!AInit
<1>2. /\ IndInv /\ IndInv' /\ BuddyAligned' /\ [Next]_vars
        => [Promise!ANext]_(Promise!avars)
  BY StepKeepsPromise
<1>3. QED
  BY <1>1, <1>2, IndInvHolds, BuddyAlignedHolds, PTL
     DEF Spec, KeepsPromise, Promise!ASpec

-----------------------------------------------------------------------------
(* The bitmap.                                                             *)

\* The two buddies of pair k of order o, and the complete pairs of the pool.
Lower(o, k) == <<m_base + 2 * k * BlockSize[o], o>>
Upper(o, k) == <<m_base + 2 * k * BlockSize[o] + BlockSize[o], o>>
PairsOf(o) == 0 .. (Pairs(m_size, o) - 1)

\* The bit of a pair is 1 if and only if one of the two is free.
PairsMatch ==
  \A o \in 0 .. (MAX_ORDER - 1) : \A k \in PairsOf(o) :
    (bitOffset(m_size)[o] + k \in m_bitmap) <=>
      ((Lower(o, k) \in FreeBlocks) # (Upper(o, k) \in FreeBlocks))

\* No two buddies are free.
Unmerged ==
  \A o \in 0 .. (MAX_ORDER - 1) : \A k \in PairsOf(o) :
    ~(Lower(o, k) \in FreeBlocks /\ Upper(o, k) \in FreeBlocks)

\* The invariant: the pool fits the array, a whole pool is seeded with largest
\* blocks only, and its bits and lists agree.
BitInv ==
  /\ pc \notin {"boot", "halted"} => m_size <= MAX_POOL_SIZE
  /\ BitmapInBounds
  /\ pc = "seed" /\ WholeBlocks => (addr - m_base) % BlockSize[MAX_ORDER] = 0
  /\ WholeBlocks => PairsMatch /\ Unmerged

-----------------------------------------------------------------------------
(* The offsets of the orders in the bitmap.                                *)

\* A pool has a number of pairs, which grows with it.
LEMMA PairsAre ==
  ASSUME NEW size \in Nat, NEW o \in Orders
  PROVE  /\ Pairs(size, o) \in Nat
         /\ \A more \in Nat : size <= more => Pairs(size, o) <= Pairs(more, o)
<1>1. 2 * BlockSize[o] \in Nat /\ 2 * BlockSize[o] > 0
  BY Sizes
<1> QED BY <1>1, Quotient, QuotientOrder DEF Pairs

\* The orders, and the one past the last.
Levels == 0 .. (MAX_ORDER + 1)

\* The loop of bitmapIndex has a result for each order: the smallest order for
\* which the sums up to it did not exist would be one more than one for which
\* they do.
LEMMA SumsExist ==
  ASSUME NEW size \in Nat
  PROVE  \E g \in [Levels -> Nat] :
           g[0] = 0 /\ \A o \in Orders : g[o + 1] = g[o] + Pairs(size, o)
<1> DEFINE Sums(n, g) == /\ g \in [0 .. n -> Nat] /\ g[0] = 0
                         /\ \A o \in 0 .. (n - 1) : g[o + 1] = g[o] + Pairs(size, o)
           Bad == {n \in Nat : n <= MAX_ORDER + 1 /\ ~\E g : Sums(n, g)}
<1>1. ASSUME Bad # {} PROVE FALSE
  <2>1. PICK n \in Bad : \A m \in Bad : n <= m
    <3>1. Bad \in SUBSET Nat
      OBVIOUS
    <3> HIDE DEF Bad
    <3> QED BY <1>1, <3>1, LeastElement
  <2>2. n \in Nat /\ n <= MAX_ORDER + 1 /\ ~\E g : Sums(n, g)
    BY <2>1
  <2>3. n # 0
    <3> DEFINE z == [o \in 0 .. 0 |-> 0]
    <3>1. Sums(0, z)
      OBVIOUS
    <3> QED BY <2>2, <3>1, Zenon
  <2>4. n - 1 \in Nat /\ n - 1 \in Orders /\ n - 1 \notin Bad /\ n - 1 <= MAX_ORDER + 1
    <3>1. n - 1 \in Nat /\ ~(n <= n - 1) /\ n - 1 <= MAX_ORDER + 1 /\ n - 1 \in Orders
      BY <2>2, <2>3, OrderAssumption DEF Orders
    <3> HIDE DEF Bad
    <3> QED BY <2>1, <3>1
  <2>5. PICK g : Sums(n - 1, g)
    BY <2>4, Zenon
  <2> DEFINE h == [o \in 0 .. n |-> IF o = n THEN g[n - 1] + Pairs(size, n - 1) ELSE g[o]]
  <2>6. g[n - 1] \in Nat /\ Pairs(size, n - 1) \in Nat
    <3>1. n - 1 \in 0 .. (n - 1)
      BY <2>4
    <3>2. g \in [0 .. (n - 1) -> Nat]
      BY <2>5
    <3> QED BY <2>4, <3>1, <3>2, PairsAre, Zenon
  <2>7. \A o \in 0 .. n : o # n => o \in 0 .. (n - 1)
    BY <2>2
  <2>8. h \in [0 .. n -> Nat] /\ h[0] = 0
    BY <2>2, <2>3, <2>5, <2>6, <2>7
  <2>9. ASSUME NEW o \in 0 .. (n - 1) PROVE h[o + 1] = h[o] + Pairs(size, o)
    <3>1. o \in 0 .. n /\ o + 1 \in 0 .. n /\ o # n /\ h[o] = g[o]
      BY <2>2, <2>9
    <3>2. CASE o = n - 1
      <4>1. o + 1 = n
        BY <2>2, <3>2
      <4> QED BY <3>1, <3>2, <4>1
    <3>3. CASE o # n - 1
      <4>1. o + 1 # n /\ o \in 0 .. ((n - 1) - 1)
        BY <2>2, <2>9, <3>3
      <4>2. g[o + 1] = g[o] + Pairs(size, o)
        BY <2>5, <4>1
      <4> QED BY <3>1, <4>1, <4>2
    <3> QED BY <3>2, <3>3
  <2>10. Sums(n, h)
    <3> HIDE DEF h
    <3> QED BY <2>8, <2>9
  <2> QED BY <2>2, <2>10, Zenon
<1>2. MAX_ORDER + 1 \in Nat /\ MAX_ORDER + 1 \notin Bad
  <2> HIDE DEF Bad
  <2> QED BY <1>1, OrderAssumption
<1>3. PICK g : Sums(MAX_ORDER + 1, g)
  BY <1>2
<1>4. Orders = 0 .. ((MAX_ORDER + 1) - 1)
  BY OrderAssumption DEF Orders
<1>5. g \in [Levels -> Nat] /\ g[0] = 0 /\ \A o \in Orders : g[o + 1] = g[o] + Pairs(size, o)
  BY <1>3, <1>4 DEF Levels
<1> QED BY <1>5

\* What the loop adds up.
LEMMA OffsetIs ==
  ASSUME NEW size \in Nat
  PROVE  /\ bitOffset(size) \in [Levels -> Nat] /\ bitOffset(size)[0] = 0
         /\ \A o \in Orders : bitOffset(size)[o + 1] = bitOffset(size)[o] + Pairs(size, o)
<1> DEFINE Added(g) == [o \in Levels |-> IF o = 0 THEN 0 ELSE g[o - 1] + Pairs(size, o - 1)]
           f == bitOffset(size)
<1>1. PICK g \in [Levels -> Nat] :
        g[0] = 0 /\ \A o \in Orders : g[o + 1] = g[o] + Pairs(size, o)
  BY SumsExist
<1>2. \A o \in Levels : o # 0 => o - 1 \in Orders /\ o - 1 \in Levels /\ (o - 1) + 1 = o
  BY OrderAssumption DEF Levels, Orders
<1>3. g = Added(g)
  <2>1. \A o \in Levels : g[o] = Added(g)[o]
    BY <1>1, <1>2
  <2>2. g = [o \in Levels |-> g[o]] /\ Added(g) = [o \in Levels |-> Added(g)[o]]
    OBVIOUS
  <2> QED BY <2>1, <2>2
<1>4. f = CHOOSE h : h = Added(h)
  BY DEF bitOffset, Levels
<1>5. f = Added(f)
  <2> HIDE DEF f, Added
  <2> QED BY <1>3, <1>4
<1>6. f = [o \in Levels |-> f[o]] /\ \A o \in Levels : f[o] = Added(f)[o]
  <2> HIDE DEF f
  <2> QED BY <1>5, Zenon
<1> HIDE DEF f
<1>7. 0 \in Levels /\ \A o \in Orders : o \in Levels /\ o + 1 \in Levels /\ o + 1 # 0 /\ (o + 1) - 1 = o
  BY OrderAssumption DEF Levels, Orders
<1>8. f[0] = 0 /\ \A o \in Orders : f[o + 1] = f[o] + Pairs(size, o)
  BY <1>6, <1>7
<1>9. \A o \in Levels : f[o] = g[o]
  <2> DEFINE Bad == {o \in Levels : f[o] # g[o]}
  <2>1. SUFFICES ASSUME Bad # {} PROVE FALSE
    OBVIOUS
  <2>2. Bad \in SUBSET Nat
    BY DEF Levels
  <2>3. PICK n \in Bad : \A m \in Bad : n <= m
    <3> HIDE DEF Bad
    <3> QED BY <2>1, <2>2, LeastElement
  <2>4. n \in Levels /\ f[n] # g[n] /\ n \in Nat
    BY <2>2, <2>3
  <2>5. n # 0
    BY <1>1, <1>8, <2>4
  <2>6. n - 1 \notin Bad
    <3>1. ~(n <= n - 1)
      BY <2>4
    <3> HIDE DEF Bad
    <3> QED BY <2>3, <3>1
  <2>7. f[n - 1] = g[n - 1]
    BY <1>2, <2>4, <2>5, <2>6
  <2> QED BY <1>1, <1>2, <1>8, <2>4, <2>5, <2>7
<1>10. f \in [Levels -> Nat]
  BY <1>1, <1>6, <1>9
<1> QED BY <1>8, <1>10 DEF f

\* The bits of an order are below those of the next ones, and a larger pool has
\* no fewer of them.
LEMMA OffsetsGrow ==
  ASSUME NEW size \in Nat, NEW o \in Orders
  PROVE  /\ \A p \in Levels : o < p => bitOffset(size)[o] + Pairs(size, o) <= bitOffset(size)[p]
         /\ \A more \in Nat : size <= more => bitOffset(size)[o] <= bitOffset(more)[o]
<1> DEFINE f == bitOffset(size)
<1>1. /\ f \in [Levels -> Nat] /\ f[0] = 0
      /\ \A q \in Orders : f[q + 1] = f[q] + Pairs(size, q)
  BY OffsetIs
<1>2. /\ Levels \subseteq Nat /\ Orders \subseteq Levels
      /\ \A p \in Levels : p # 0 => p - 1 \in Orders /\ (p - 1) + 1 = p
  BY OrderAssumption DEF Levels, Orders
<1>3. \A q \in Orders : Pairs(size, q) \in Nat
  BY PairsAre
<1> HIDE DEF f
<1>4. \A p \in Levels : o < p => f[o] + Pairs(size, o) <= f[p]
  <2> DEFINE Bad == {p \in Levels : o < p /\ ~(f[o] + Pairs(size, o) <= f[p])}
  <2>1. SUFFICES ASSUME Bad # {} PROVE FALSE
    OBVIOUS
  <2>2. Bad \in SUBSET Nat
    BY <1>2, Zenon
  <2>3. PICK p \in Bad : \A q \in Bad : p <= q
    <3> HIDE DEF Bad
    <3> QED BY <2>1, <2>2, LeastElement
  <2>4. p \in Levels /\ o < p /\ ~(f[o] + Pairs(size, o) <= f[p]) /\ p \in Nat /\ o \in Nat
    BY <1>2, <2>3
  <2>5. p - 1 \in Orders /\ p - 1 \in Levels /\ (p - 1) + 1 = p /\ p - 1 \notin Bad
    <3>1. ~(p <= p - 1) /\ p # 0
      BY <2>4
    <3> HIDE DEF Bad
    <3> QED BY <1>2, <2>3, <2>4, <3>1
  <2>6. f[p] = f[p - 1] + Pairs(size, p - 1) /\ Pairs(size, p - 1) \in Nat
    BY <1>1, <1>3, <2>5
  <2>7. f[p - 1] \in Nat /\ f[o] \in Nat /\ Pairs(size, o) \in Nat
    BY <1>1, <1>2, <1>3, <2>5
  <2>8. CASE p - 1 = o
    BY <2>4, <2>6, <2>7, <2>8
  <2>9. CASE o < p - 1
    BY <2>4, <2>5, <2>6, <2>7, <2>9
  <2> QED BY <2>4, <2>8, <2>9
<1>5. ASSUME NEW more \in Nat, size <= more PROVE f[o] <= bitOffset(more)[o]
  <2> DEFINE g == bitOffset(more)
  <2>1. /\ g \in [Levels -> Nat] /\ g[0] = 0
        /\ \A q \in Orders : g[q + 1] = g[q] + Pairs(more, q)
    BY OffsetIs
  <2>2. \A q \in Orders : Pairs(size, q) <= Pairs(more, q) /\ Pairs(more, q) \in Nat
    BY <1>5, PairsAre
  <2> HIDE DEF g
  <2> DEFINE Bad == {p \in Levels : ~(f[p] <= g[p])}
  <2>3. SUFFICES ASSUME Bad # {} PROVE FALSE
    BY <1>2 DEF g
  <2>4. Bad \in SUBSET Nat
    BY <1>2, Zenon
  <2>5. PICK p \in Bad : \A q \in Bad : p <= q
    <3> HIDE DEF Bad
    <3> QED BY <2>3, <2>4, LeastElement
  <2>6. p \in Levels /\ ~(f[p] <= g[p]) /\ p \in Nat
    BY <1>2, <2>5
  <2>7. p # 0
    BY <1>1, <2>1, <2>6
  <2>8. p - 1 \in Orders /\ p - 1 \in Levels /\ (p - 1) + 1 = p /\ p - 1 \notin Bad
    <3>1. ~(p <= p - 1)
      BY <2>6
    <3> HIDE DEF Bad
    <3> QED BY <1>2, <2>5, <2>6, <2>7, <3>1
  <2>9. /\ f[p] = f[p - 1] + Pairs(size, p - 1) /\ g[p] = g[p - 1] + Pairs(more, p - 1)
        /\ f[p - 1] \in Nat /\ g[p - 1] \in Nat /\ f[p - 1] <= g[p - 1]
    BY <1>1, <2>1, <2>8
  <2> QED BY <1>3, <2>2, <2>6, <2>8, <2>9
<1> QED BY <1>4, <1>5 DEF f

-----------------------------------------------------------------------------
(* The pair of a block.                                                    *)

\* The number of a block's pair among those of its order.
PairIndex(b) == (b[1] - m_base) \div (2 * BlockSize[b[2]])

\* A block of the pool is a half of one pair, whose other half may lie past the
\* end of the pool unless the pool is whole.
LEMMA PairOf ==
  ASSUME m_base \in Nat, m_size \in Nat, NEW b \in BlockType, InPool(b), Aligned(b)
  PROVE  LET o == b[2]
             K == PairIndex(b)
         IN  /\ K \in Nat /\ b \in {Lower(o, K), Upper(o, K)}
             /\ \A k \in Nat : b \in {Lower(o, k), Upper(o, k)} => k = K
             /\ \A k \in Nat : Lower(o, k) # Upper(o, k)
             /\ K <= Pairs(m_size, o)
             /\ K = Pairs(m_size, o) => m_size % (2 * BlockSize[o]) # 0
<1> DEFINE a == b[1]
           o == b[2]
           s == BlockSize[o]
           x == a - m_base
           K == PairIndex(b)
           d == 2 * s
<1>1. b = <<a, o>> /\ a \in Nat /\ o \in Orders
  BY DEF BlockType
<1>2. s \in Nat /\ s > 0
  BY <1>1, Sizes
<1>3. m_base <= a /\ a + s <= m_base + m_size /\ x % s = 0
  BY DEF InPool, Aligned, End
<1> HIDE DEF a, o, s
<1>4. x \in Nat /\ x + s <= m_size /\ a = m_base + x
  BY <1>1, <1>2, <1>3
<1>5. K = x \div d
  BY DEF PairIndex, a, s, o
<1> HIDE DEF x, K
<1>6. /\ K \in Nat /\ x \in {2 * K * s, 2 * K * s + s}
      /\ \A k \in Nat : x \in {2 * k * s, 2 * k * s + s} => k = K
  BY <1>2, <1>3, <1>4, <1>5, HalfOf, ZenonT(30)
<1>7. ASSUME NEW k \in Nat
      PROVE  /\ b = Lower(o, k) <=> x = 2 * k * s
             /\ b = Upper(o, k) <=> x = 2 * k * s + s
             /\ Lower(o, k) # Upper(o, k)
  <2> DEFINE t == 2 * k * s
  <2>1. t \in Nat
    BY <1>2
  <2>2. Lower(o, k) = <<m_base + t, o>> /\ Upper(o, k) = <<m_base + t + s, o>>
    BY DEF Lower, Upper, s
  <2> HIDE DEF t
  <2>3. /\ b = Lower(o, k) <=> x = t
        /\ b = Upper(o, k) <=> x = t + s
        /\ Lower(o, k) # Upper(o, k)
    BY <1>1, <1>2, <1>4, <2>1, <2>2
  <2> QED BY <2>3 DEF t
<1>8. K <= Pairs(m_size, o) /\ (K = Pairs(m_size, o) => m_size % d # 0)
  <2> DEFINE q == m_size \div d
             r == m_size % d
  <2>1. d \in Nat /\ d > 0 /\ x <= m_size
    BY <1>2, <1>4
  <2>2. Pairs(m_size, o) = q
    BY DEF Pairs, s
  <2>3. K <= q
    BY <1>4, <1>5, <2>1, QuotientOrder
  <2>4. q \in Nat /\ r \in 0 .. (d - 1) /\ m_size = q * d + r
    BY <2>1, Quotient
  <2>5. ASSUME K = q, r = 0 PROVE FALSE
    <3> DEFINE t == q * d
    <3>1. 2 * K * s = t /\ t \in Nat
      BY <1>2, <1>6, <2>4, <2>5
    <3>2. x \in {t, t + s} /\ m_size = t
      BY <1>6, <2>4, <2>5, <3>1
    <3> HIDE DEF t, q, r
    <3> QED BY <1>2, <1>4, <3>1, <3>2
  <2> QED BY <2>2, <2>3, <2>5
<1>9. ASSUME NEW k \in Nat, b \in {Lower(o, k), Upper(o, k)} PROVE k = K
  BY <1>6, <1>7, <1>9
<1>10. b \in {Lower(o, K), Upper(o, K)}
  BY <1>6, <1>7
<1> QED BY <1>6, <1>7, <1>8, <1>9, <1>10, Zenon DEF o, s, K

\* In a whole pool the pairs below the largest order are complete.
LEMMA WholePairs ==
  ASSUME m_size \in Nat, WholeBlocks, NEW o \in 0 .. (MAX_ORDER - 1)
  PROVE  m_size % (2 * BlockSize[o]) = 0
<1>1. /\ o \in Orders /\ o + 1 \in Orders /\ o + 1 <= MAX_ORDER /\ MAX_ORDER \in Orders
      /\ BlockSize[o + 1] = 2 * BlockSize[o]
  BY OrderAssumption, Sizes DEF Orders
<1>2. BlockSize[MAX_ORDER] % BlockSize[o + 1] = 0
  BY <1>1, SizesDivide
<1>3. /\ BlockSize[MAX_ORDER] \in Nat /\ BlockSize[MAX_ORDER] > 0
      /\ BlockSize[o + 1] \in Nat /\ BlockSize[o + 1] > 0
  BY <1>1, Sizes
<1> QED BY <1>1, <1>2, <1>3, MultipleOfMultiple, Zenon DEF WholeBlocks

\* A block of the pool has its bit inside the array.
LEMMA IndexInBounds ==
  ASSUME m_base \in Nat, m_size \in Nat, m_size <= MAX_POOL_SIZE,
         NEW b \in BlockType, InPool(b), Aligned(b)
  PROVE  bitmapIndex(b[1], b[2]) \in 0 .. (BITMAP_BITS - 1)
<1> DEFINE o == b[2]
           K == PairIndex(b)
           most == MAX_POOL_SIZE
           f == bitOffset(m_size)
           g == bitOffset(most)
           n == Pairs(most, o)
<1>1. o \in Orders /\ most \in Nat /\ MAX_ORDER \in Orders /\ o <= MAX_ORDER
  BY PoolAssumption, OrderAssumption DEF BlockType, Orders
<1>2. /\ K \in Nat /\ K <= Pairs(m_size, o)
      /\ K = Pairs(m_size, o) => m_size % (2 * BlockSize[o]) # 0
  BY PairOf
<1>3. Pairs(m_size, o) <= n /\ Pairs(m_size, o) \in Nat /\ n \in Nat
  BY <1>1, PairsAre
<1>4. K < n
  <2>1. SUFFICES ASSUME K = Pairs(m_size, o), Pairs(m_size, o) = n PROVE FALSE
    <3> HIDE DEF K, n, o
    <3> QED BY <1>2, <1>3
  <2> DEFINE d == 2 * BlockSize[o]
  <2>2. d \in Nat /\ d > 0
    BY <1>1, Sizes
  <2>3. most % d = 0
    <3>1. BlockSize[MAX_ORDER] % BlockSize[o] = 0
      BY <1>1, SizesDivide
    <3>2. /\ BlockSize[MAX_ORDER] \in Nat /\ BlockSize[o] \in Nat
          /\ BlockSize[MAX_ORDER] > 0 /\ BlockSize[o] > 0
      BY <1>1, Sizes
    <3>3. PICK k \in Nat : BlockSize[MAX_ORDER] = k * BlockSize[o]
      BY <3>1, <3>2, Multiple, Zenon
    <3>4. 2 * BlockSize[MAX_ORDER] = k * d
      BY <3>2, <3>3
    <3>5. (2 * BlockSize[MAX_ORDER]) % d = 0
      BY <2>2, <3>4, Times
    <3>6. 2 * BlockSize[MAX_ORDER] \in Nat /\ 2 * BlockSize[MAX_ORDER] > 0
      BY <3>2
    <3> HIDE DEF d
    <3> QED BY <1>1, <2>2, <3>5, <3>6, MultipleOfMultiple, PoolAssumption, Zenon
  <2>4. n = most \div d /\ Pairs(m_size, o) = m_size \div d
    BY DEF Pairs
  <2> HIDE DEF d, n, o
  <2>5. most = (most \div d) * d + (most % d) /\ m_size = (m_size \div d) * d + (m_size % d)
        /\ m_size % d \in Nat /\ m_size \div d \in Nat
    BY <1>1, <2>2, Quotient
  <2>6. m_size >= most
    <3> DEFINE t == (m_size \div d) * d
    <3>0. most \div d = m_size \div d
      BY <2>1, <2>4
    <3>1. most = t + 0 /\ m_size = t + (m_size % d)
      BY <2>3, <2>5, <3>0, Zenon
    <3>2. t \in Nat
      BY <2>2, <2>5
    <3> HIDE DEF t
    <3> QED BY <2>5, <3>1, <3>2
  <2>7. m_size = most
    BY <1>1, <2>6
  <2> QED BY <1>2, <2>1, <2>3, <2>7 DEF d, o
<1>5. /\ f[o] \in Nat /\ g[o] \in Nat /\ f[o] <= g[o]
      /\ g[MAX_ORDER + 1] \in Nat /\ g[o] + n <= g[MAX_ORDER + 1]
  <2>1. o \in Levels /\ MAX_ORDER + 1 \in Levels /\ o < MAX_ORDER + 1
    BY <1>1, OrderAssumption DEF Levels, Orders
  <2> QED BY <1>1, <2>1, OffsetIs, OffsetsGrow
<1>6. bitmapIndex(b[1], b[2]) = f[o] + K
  BY DEF bitmapIndex, PairIndex
<1>7. g[MAX_ORDER + 1] <= BITMAP_BITS /\ BITMAP_BITS \in Nat
  <2> DEFINE G == g[MAX_ORDER + 1]
  <2>1. BITMAP_BITS = 8 * ((G + 7) \div 8)
    BY DEF BITMAP_BITS
  <2>2. G \in Nat
    BY <1>5
  <2> HIDE DEF G
  <2>3. G <= 8 * ((G + 7) \div 8) /\ 8 * ((G + 7) \div 8) \in Nat
    BY <2>2
  <2> QED BY <2>1, <2>3 DEF G
<1> HIDE DEF o, K, f, g, n
<1> QED BY <1>2, <1>3, <1>4, <1>5, <1>6, <1>7

-----------------------------------------------------------------------------
(* Steps that flip a bit.                                                  *)

\* A block goes on its list or off it, and the bit of its pair is flipped.
Flips(b) ==
  /\ b \in BlockType /\ UNCHANGED <<m_base, m_size>>
  /\ m_bitmap' = SymDiff(m_bitmap, {bitmapIndex(b[1], b[2])})
  /\ \/ b \in FreeBlocks /\ FreeBlocks' = FreeBlocks \ {b}
     \/ b \notin FreeBlocks /\ FreeBlocks' = FreeBlocks \cup {b}

\* The block is in the pool, at a multiple of its size.
LEMMA FlippedIs ==
  ASSUME IndInv, AlignInv, IndInv', AlignInv', NEW b, Flips(b)
  PROVE  /\ b \in BlockType /\ InPool(b) /\ Aligned(b)
         /\ m_base \in Nat /\ m_size \in Nat
<1>1. InPool(b)' <=> InPool(b)
  BY DEF Flips, InPool, End
<1>2. Aligned(b)' <=> Aligned(b)
  BY DEF Flips, Aligned
<1>3. b \in Owned \/ b \in Owned'
  <2>1. b \in FreeBlocks \/ b \in FreeBlocks'
    BY Zenon DEF Flips
  <2> QED BY <2>1, Zenon DEF Owned
<1>4. m_base \in Nat /\ m_size \in Nat
  BY DEF IndInv, TypeOK
<1>5. InPool(b) /\ Aligned(b)
  BY <1>1, <1>2, <1>3, Zenon DEF IndInv, NoOverlap, AlignInv, BuddyAligned
<1> QED BY <1>4, <1>5 DEF Flips

\* In a whole pool two pairs have two bits.
LEMMA PairBits ==
  ASSUME m_size \in Nat, WholeBlocks,
         NEW o \in 0 .. (MAX_ORDER - 1), NEW k \in PairsOf(o),
         NEW p \in Orders, NEW l \in Nat, p = MAX_ORDER \/ l < Pairs(m_size, p),
         <<o, k>> # <<p, l>>
  PROVE  bitOffset(m_size)[o] + k # bitOffset(m_size)[p] + l
<1> DEFINE f == bitOffset(m_size)
<1>1. /\ o \in Orders /\ o \in Levels /\ p \in Levels /\ o \in Nat /\ p \in Nat
      /\ p = MAX_ORDER => o < p
  BY OrderAssumption DEF Orders, Levels
<1>2. Pairs(m_size, o) \in Nat /\ Pairs(m_size, p) \in Nat
  BY <1>1, PairsAre
<1>3. f[o] \in Nat /\ f[p] \in Nat
  BY <1>1, OffsetIs
<1>4. /\ o < p => f[o] + Pairs(m_size, o) <= f[p]
      /\ p < o => f[p] + Pairs(m_size, p) <= f[o]
  BY <1>1, OffsetsGrow
<1>5. k \in Nat /\ k < Pairs(m_size, o)
  BY <1>2 DEF PairsOf
<1> HIDE DEF f
<1>6. ASSUME o = p PROVE f[o] + k # f[p] + l
  BY <1>1, <1>3, <1>5, <1>6
<1>7. ASSUME o < p PROVE f[o] + k # f[p] + l
  BY <1>2, <1>3, <1>4, <1>5, <1>7
<1>8. ASSUME p < o PROVE f[o] + k # f[p] + l
  BY <1>1, <1>2, <1>3, <1>4, <1>5, <1>8
<1>9. f[o] + k # f[p] + l
  BY <1>1, <1>6, <1>7, <1>8
<1> QED BY <1>9 DEF f

\* The pair of a block in a whole pool is one of those PairsMatch is about,
\* unless the block is of the largest order.
LEMMA WholePair ==
  ASSUME m_base \in Nat, m_size \in Nat, WholeBlocks,
         NEW b \in BlockType, InPool(b), Aligned(b)
  PROVE  /\ b[2] \in Orders /\ PairIndex(b) \in Nat
         /\ b[2] # MAX_ORDER => /\ b[2] \in 0 .. (MAX_ORDER - 1)
                                /\ PairIndex(b) \in PairsOf(b[2])
         /\ b[2] = MAX_ORDER \/ PairIndex(b) < Pairs(m_size, b[2])
<1> DEFINE K == PairIndex(b)
           n == Pairs(m_size, b[2])
<1>1. /\ K \in Nat /\ K <= n /\ (K = n => m_size % (2 * BlockSize[b[2]]) # 0)
  BY PairOf, Zenon
<1>2. b[2] \in Orders
  BY DEF BlockType
<1>3. n \in Nat
  BY <1>2, PairsAre
<1>4. ASSUME b[2] # MAX_ORDER PROVE b[2] \in 0 .. (MAX_ORDER - 1)
  BY <1>2, <1>4, OrderAssumption DEF Orders
<1>5. ASSUME b[2] # MAX_ORDER PROVE K < n
  <2>1. K # n
    BY <1>1, <1>4, <1>5, WholePairs
  <2> HIDE DEF K, n
  <2> QED BY <1>1, <1>3, <2>1
<1>6. K \in Nat /\ n \in Nat /\ (K < n => K \in 0 .. (n - 1))
  <2> HIDE DEF K, n
  <2> QED BY <1>1, <1>3
<1> QED BY <1>2, <1>4, <1>5, <1>6 DEF PairsOf

\* A flip keeps the bits right.
LEMMA FlipMatches ==
  ASSUME m_base \in Nat, m_size \in Nat, WholeBlocks, PairsMatch,
         NEW b, Flips(b), InPool(b), Aligned(b)
  PROVE  PairsMatch'
<1> DEFINE p == b[2]
           K == PairIndex(b)
           i == bitOffset(m_size)[p] + K
<1>1. /\ b \in BlockType /\ m_base' = m_base /\ m_size' = m_size
      /\ \A j : j \in m_bitmap' <=> IF j = i THEN j \notin m_bitmap ELSE j \in m_bitmap
      /\ \A c : c \in FreeBlocks' <=> IF c = b THEN c \notin FreeBlocks ELSE c \in FreeBlocks
  <2>1. bitmapIndex(b[1], b[2]) = i
    BY DEF bitmapIndex, PairIndex
  <2>2. m_bitmap' = (m_bitmap \ {i}) \cup ({i} \ m_bitmap)
    BY <2>1 DEF Flips, SymDiff
  <2> HIDE DEF i
  <2>3. \A j : j \in m_bitmap' <=> IF j = i THEN j \notin m_bitmap ELSE j \in m_bitmap
    BY <2>2
  <2>4. \A c : c \in FreeBlocks' <=> IF c = b THEN c \notin FreeBlocks ELSE c \in FreeBlocks
    BY DEF Flips
  <2> QED BY <2>3, <2>4 DEF Flips
<1>2. SUFFICES ASSUME NEW o \in 0 .. (MAX_ORDER - 1), NEW k \in PairsOf(o)
               PROVE  (bitOffset(m_size)[o] + k \in m_bitmap') <=>
                        ((Lower(o, k) \in FreeBlocks') # (Upper(o, k) \in FreeBlocks'))
  BY <1>1 DEF PairsMatch, PairsOf, Lower, Upper
<1>3. k \in Nat /\ o \in Nat
  <2>1. Pairs(m_size, o) \in Nat
    BY PairsAre, OrderAssumption DEF Orders
  <2> QED BY <2>1 DEF PairsOf
<1>4. /\ p \in Orders /\ K \in Nat /\ (p = MAX_ORDER \/ K < Pairs(m_size, p))
  BY <1>1, WholePair
<1>5. /\ b \in {Lower(p, K), Upper(p, K)} /\ Lower(o, k) # Upper(o, k)
      /\ o = p /\ b \in {Lower(o, k), Upper(o, k)} => k = K
  <2>1. /\ b \in {Lower(p, K), Upper(p, K)}
        /\ \A l \in Nat : b \in {Lower(p, l), Upper(p, l)} => l = K
    BY <1>1, PairOf, Zenon
  <2>2. Lower(o, k) # Upper(o, k)
    <3> DEFINE t == 2 * k * BlockSize[o]
    <3>1. BlockSize[o] \in Nat /\ BlockSize[o] > 0
      BY Sizes, OrderAssumption DEF Orders
    <3>2. t \in Nat
      BY <1>3, <3>1
    <3> HIDE DEF t
    <3>3. m_base + t # m_base + t + BlockSize[o]
      BY <3>1, <3>2
    <3> QED BY <3>3 DEF Lower, Upper, t
  <2> QED BY <1>3, <2>1, <2>2
<1>6. (bitOffset(m_size)[o] + k \in m_bitmap) <=>
        ((Lower(o, k) \in FreeBlocks) # (Upper(o, k) \in FreeBlocks))
  BY DEF PairsMatch
<1>7. CASE o = p /\ k = K
  <2>1. bitOffset(m_size)[o] + k = i /\ b \in {Lower(o, k), Upper(o, k)}
    BY <1>5, <1>7
  <2> HIDE DEF i, K, p
  <2> QED BY <1>1, <1>5, <1>6, <2>1
<1>8. CASE ~(o = p /\ k = K)
  <2>1. bitOffset(m_size)[o] + k # i
    BY <1>4, <1>8, PairBits
  <2>2. b # Lower(o, k) /\ b # Upper(o, k)
    <3>1. Lower(o, k)[2] = o /\ Upper(o, k)[2] = o
      BY DEF Lower, Upper
    <3> QED BY <1>5, <1>8, <3>1
  <2> HIDE DEF i
  <2> QED BY <1>1, <1>6, <2>1, <2>2
<1> QED BY <1>7, <1>8

\* A flip leaves no two buddies free, if it takes a block off a list, or puts
\* one on whose buddy is on none.
LEMMA FlipUnmerged ==
  ASSUME m_base \in Nat, m_size \in Nat, WholeBlocks, Unmerged,
         NEW b, Flips(b), InPool(b), Aligned(b),
         \/ b \in FreeBlocks \/ b[2] = MAX_ORDER
         \/ /\ Lower(b[2], PairIndex(b)) \notin FreeBlocks
            /\ Upper(b[2], PairIndex(b)) \notin FreeBlocks
  PROVE  Unmerged'
<1> DEFINE p == b[2]
           K == PairIndex(b)
<1>1. SUFFICES ASSUME NEW o \in 0 .. (MAX_ORDER - 1), NEW k \in PairsOf(o),
                      Lower(o, k) \in FreeBlocks', Upper(o, k) \in FreeBlocks'
               PROVE  FALSE
  BY DEF Unmerged, PairsOf, Lower, Upper, Flips
<1>2. ~(Lower(o, k) \in FreeBlocks /\ Upper(o, k) \in FreeBlocks)
  BY DEF Unmerged
<1>3. b \notin FreeBlocks /\ FreeBlocks' = FreeBlocks \cup {b}
  BY <1>1, <1>2, Zenon DEF Flips
<1>4. b \in {Lower(o, k), Upper(o, k)}
  BY <1>1, <1>2, <1>3, Zenon
<1>5. p = o
  BY <1>4 DEF Lower, Upper
<1>6. k \in Nat /\ o # MAX_ORDER
  <2>1. Pairs(m_size, o) \in Nat /\ o # MAX_ORDER
    BY PairsAre, OrderAssumption DEF Orders
  <2> QED BY <2>1 DEF PairsOf
<1>7. \A l \in Nat : b \in {Lower(p, l), Upper(p, l)} => l = K /\ Lower(p, l) # Upper(p, l)
  BY PairOf DEF Flips
<1>8. k = K /\ Lower(o, k) # Upper(o, k)
  <2> HIDE DEF p, K
  <2> QED BY <1>4, <1>5, <1>6, <1>7
<1>9. Lower(o, k) \notin FreeBlocks /\ Upper(o, k) \notin FreeBlocks
  <2>1. Lower(p, K) \notin FreeBlocks /\ Upper(p, K) \notin FreeBlocks
    BY <1>3, <1>5, <1>6
  <2> HIDE DEF p, K
  <2> QED BY <1>5, <1>8, <2>1
<1> QED BY <1>1, <1>3, <1>8, <1>9

\* buddyOf finds the other half of the pair.
LEMMA BuddyIs ==
  ASSUME m_base \in Nat, m_size \in Nat, NEW a \in Nat, NEW o \in Orders,
         InPool(<<a, o>>), Aligned(<<a, o>>)
  PROVE  LET K == PairIndex(<<a, o>>)
         IN  /\ <<a, o>> = Lower(o, K) => <<buddyOf(a, o), o>> = Upper(o, K)
             /\ <<a, o>> = Upper(o, K) => <<buddyOf(a, o), o>> = Lower(o, K)
<1> DEFINE b == <<a, o>>
           K == PairIndex(b)
           s == BlockSize[o]
           t == 2 * K * s
<1>1. s \in Nat /\ s > 0
  BY Sizes
<1>2. b \in BlockType /\ b[2] = o /\ b[1] = a
  BY DEF BlockType
<1>3. K \in Nat
  BY <1>2, PairOf
<1>4. /\ Lower(o, K) = <<m_base + t, o>> /\ Upper(o, K) = <<m_base + t + s, o>>
  BY DEF Lower, Upper
<1>5. t \in Nat /\ t \div s = 2 * K /\ (t + s) \div s = 2 * K + 1
  <2> HIDE DEF s, K
  <2>1. (2 * K) * s + s = (2 * K + 1) * s /\ 2 * K \in Nat /\ 2 * K + 1 \in Nat
    BY <1>1, <1>3
  <2> QED BY <1>1, <1>3, <2>1, Times
<1>6. (2 * K) % 2 = 0 /\ (2 * K + 1) % 2 = 1
  <2> HIDE DEF K
  <2> QED BY <1>3
<1> HIDE DEF t, K
<1>7. ASSUME a = m_base + t PROVE buddyOf(a, o) = m_base + t + s
  <2>1. a - m_base = t
    BY <1>5, <1>7
  <2>2. buddyOf(a, o) = m_base + (t + s)
    BY <1>5, <1>6, <2>1 DEF buddyOf
  <2> HIDE DEF s
  <2> QED BY <1>1, <1>5, <2>2
<1>8. ASSUME a = m_base + t + s PROVE buddyOf(a, o) = m_base + t
  <2>1. a - m_base = t + s /\ (t + s) - s = t
    <3> HIDE DEF s
    <3> QED BY <1>1, <1>5, <1>8
  <2>2. buddyOf(a, o) = m_base + ((t + s) - s)
    BY <1>5, <1>6, <2>1 DEF buddyOf
  <2> QED BY <2>1, <2>2
<1>9. /\ b = Lower(o, K) => <<buddyOf(a, o), o>> = Upper(o, K)
      /\ b = Upper(o, K) => <<buddyOf(a, o), o>> = Lower(o, K)
  <2> HIDE DEF s
  <2> QED BY <1>4, <1>7, <1>8
<1> QED BY <1>9 DEF K

\* What the bit tells FreePages, in a whole pool: whether the buddy is free.
LEMMA BitTells ==
  ASSUME IndInv, AlignInv, WholeBlocks, PairsMatch, pc = "merge", order < MAX_ORDER
  PROVE  LET b == <<addr, order>>
             c == <<buddyOf(addr, order), order>>
             K == PairIndex(b)
         IN  /\ b \in BlockType /\ b \notin FreeBlocks /\ InPool(b) /\ Aligned(b)
             /\ {b, c} = {Lower(order, K), Upper(order, K)}
             /\ bitmapIndex(addr, order) \in m_bitmap <=> c \in FreeBlocks
<1> DEFINE b == <<addr, order>>
           c == <<buddyOf(addr, order), order>>
           K == PairIndex(b)
<1>1. /\ m_base \in Nat /\ m_size \in Nat /\ addr \in Nat /\ order \in Orders
      /\ b \in Owned /\ b \notin FreeBlocks
  BY DEF IndInv, TypeOK, NoOverlap, Owned, Current
<1>2. b \in BlockType /\ InPool(b) /\ Aligned(b) /\ b[2] = order /\ b[1] = addr
  BY <1>1 DEF BlockType, IndInv, NoOverlap, AlignInv, BuddyAligned
<1>3. b \in {Lower(order, K), Upper(order, K)}
  BY <1>1, <1>2, PairOf
<1>4. \/ b = Lower(order, K) /\ c = Upper(order, K)
      \/ b = Upper(order, K) /\ c = Lower(order, K)
  BY <1>1, <1>2, <1>3, BuddyIs
<1>5. order \in 0 .. (MAX_ORDER - 1) /\ K \in PairsOf(order)
  <2>1. order # MAX_ORDER
    BY <1>1, OrderAssumption DEF Orders
  <2> QED BY <1>1, <1>2, <2>1, WholePair
<1>6. (bitOffset(m_size)[order] + K \in m_bitmap) <=>
        ((Lower(order, K) \in FreeBlocks) # (Upper(order, K) \in FreeBlocks))
  BY <1>5 DEF PairsMatch
<1>7. bitmapIndex(addr, order) = bitOffset(m_size)[order] + K
  BY DEF bitmapIndex, PairIndex
<1> HIDE DEF b, c, K
<1>8. {b, c} = {Lower(order, K), Upper(order, K)}
  BY <1>4
<1>9. bitmapIndex(addr, order) \in m_bitmap <=> c \in FreeBlocks
  BY <1>1, <1>4, <1>6, <1>7
<1> QED BY <1>1, <1>2, <1>8, <1>9 DEF b, c, K

-----------------------------------------------------------------------------
(* One lemma per kind of step.                                             *)

\* The seeding cursor of a whole pool is at a multiple of the largest block.
Unseeded == pc = "seed" /\ WholeBlocks => (addr - m_base) % BlockSize[MAX_ORDER] = 0

\* A step that flips a bit.
LEMMA FlipKeeps ==
  ASSUME IndInv, AlignInv, IndInv', AlignInv', BitInv, pc \notin {"boot", "halted"},
         NEW b, Flips(b), Unseeded',
         WholeBlocks => \/ b \in FreeBlocks \/ b[2] = MAX_ORDER
                        \/ /\ Lower(b[2], PairIndex(b)) \notin FreeBlocks
                           /\ Upper(b[2], PairIndex(b)) \notin FreeBlocks
  PROVE  BitInv'
<1>1. /\ b \in BlockType /\ InPool(b) /\ Aligned(b) /\ m_base \in Nat /\ m_size \in Nat
  BY FlippedIs
<1>2. m_size <= MAX_POOL_SIZE /\ m_size' = m_size
  BY DEF BitInv, Flips
<1>3. BitmapInBounds'
  <2>1. bitmapIndex(b[1], b[2]) \in 0 .. (BITMAP_BITS - 1)
    BY <1>1, <1>2, IndexInBounds
  <2> DEFINE i == bitmapIndex(b[1], b[2])
             B == 0 .. (BITMAP_BITS - 1)
  <2>2. m_bitmap' = (m_bitmap \ {i}) \cup ({i} \ m_bitmap)
    BY DEF Flips, SymDiff
  <2>3. m_bitmap \subseteq B
    BY DEF BitInv, BitmapInBounds
  <2>4. i \in B
    BY <2>1
  <2> HIDE DEF i, B
  <2>5. m_bitmap' \subseteq B
    BY <2>2, <2>3, <2>4
  <2> QED BY <2>5 DEF B, BitmapInBounds
<1>4. ASSUME WholeBlocks' PROVE PairsMatch' /\ Unmerged'
  <2>1. WholeBlocks
    BY <1>2, <1>4 DEF WholeBlocks
  <2>2. PairsMatch /\ Unmerged
    BY <2>1 DEF BitInv
  <2>3. PairsMatch'
    BY <1>1, <2>1, <2>2, FlipMatches
  <2>4. Unmerged'
    BY <1>1, <2>1, <2>2, FlipUnmerged
  <2> QED BY <2>3, <2>4
<1> QED BY <1>2, <1>3, <1>4 DEF BitInv, Unseeded

\* A step that touches neither lists nor bitmap.
LEMMA QuietKeeps ==
  ASSUME BitInv, UNCHANGED <<m_base, m_size, m_bitmap, m_freeLists>>, Unseeded',
         pc \in {"boot", "halted"} => pc' = pc
  PROVE  BitInv'
<1>1. FreeBlocks' = FreeBlocks
  BY DEF FreeBlocks
<1>2. BitmapInBounds'
  BY DEF BitInv, BitmapInBounds
<1>3. WholeBlocks' => PairsMatch' /\ Unmerged'
  BY <1>1 DEF BitInv, WholeBlocks, PairsMatch, Unmerged, PairsOf, Lower, Upper
<1> QED BY <1>2, <1>3 DEF BitInv, Unseeded

\* SetMemoryMap clears the bitmap and the lists.
LEMMA SetMemoryMapBits ==
  ASSUME NEW map \in Maps, SetMemoryMap(map)
  PROVE  BitInv'
<1>1. /\ m_bitmap' = {} /\ m_freeLists' = [o \in Orders |-> <<>>]
      /\ addr' = m_base' /\ m_base' \in Nat /\ m_size' \in Nat
      /\ pc' # "halted" => ~(m_size' > MAX_POOL_SIZE)
  BY MapAssumption DEF SetMemoryMap
<1>2. FreeBlocks' = {}
  BY <1>1 DEF FreeBlocks, Range
<1>3. (addr' - m_base') % BlockSize[MAX_ORDER] = 0
  <2> DEFINE s == BlockSize[MAX_ORDER]
  <2>1. s \in Nat /\ s > 0
    BY Sizes, OrderAssumption DEF Orders
  <2>2. addr' - m_base' = 0
    <3>1. addr' = m_base' /\ m_base' \in Nat
      BY <1>1, Zenon
    <3>2. \A n \in Nat : n - n = 0
      OBVIOUS
    <3> QED BY <3>1, <3>2, Zenon
  <2> HIDE DEF s
  <2>3. 0 % s = 0
    BY <2>1
  <2> QED BY <2>2, <2>3 DEF s
<1>4. pc' # "halted" => m_size' <= MAX_POOL_SIZE
  BY <1>1, PoolAssumption
<1>5. PairsMatch' /\ Unmerged' /\ BitmapInBounds'
  BY <1>1, <1>2 DEF PairsMatch, Unmerged, BitmapInBounds
<1> QED BY <1>3, <1>4, <1>5 DEF BitInv

\* The block at address 0 of a pool based there: its bit is flipped, and it is on
\* no list.
LEMMA LostBits ==
  ASSUME m_base \in Nat, m_size \in Nat, m_size <= MAX_POOL_SIZE, BitmapInBounds,
         NEW b \in BlockType, InPool(b), Aligned(b), UNCHANGED <<m_base, m_size>>,
         m_bitmap' = SymDiff(m_bitmap, {bitmapIndex(b[1], b[2])}),
         FreeBlocks = {}, FreeBlocks' = {},
         WholeBlocks => b[2] = MAX_ORDER /\ PairsMatch
  PROVE  BitmapInBounds' /\ (WholeBlocks' => PairsMatch' /\ Unmerged')
<1> DEFINE i == bitmapIndex(b[1], b[2])
           B == 0 .. (BITMAP_BITS - 1)
<1>1. i \in B
  BY IndexInBounds
<1>2. \A j : j # i => (j \in m_bitmap' <=> j \in m_bitmap)
  <2> HIDE DEF i
  <2> QED BY DEF SymDiff, i
<1>3. BitmapInBounds'
  <2>1. m_bitmap' = (m_bitmap \ {i}) \cup ({i} \ m_bitmap) /\ m_bitmap \subseteq B
    BY DEF SymDiff, BitmapInBounds
  <2> HIDE DEF i, B
  <2>2. m_bitmap' \subseteq B
    BY <1>1, <2>1
  <2> QED BY <2>2, Zenon DEF B, BitmapInBounds
<1>4. ASSUME WholeBlocks' PROVE PairsMatch' /\ Unmerged'
  <2>1. WholeBlocks /\ b[2] = MAX_ORDER /\ PairsMatch
    BY <1>4 DEF WholeBlocks
  <2>2. i = bitOffset(m_size)[b[2]] + PairIndex(b) /\ b[2] \in Orders /\ PairIndex(b) \in Nat
    BY <2>1, WholePair DEF bitmapIndex, PairIndex
  <2>3. ASSUME NEW o \in 0 .. (MAX_ORDER - 1), NEW k \in PairsOf(o)
        PROVE  bitOffset(m_size)[o] + k \notin m_bitmap'
    <3>1. o # b[2]
      BY <2>1, OrderAssumption
    <3>2. bitOffset(m_size)[o] + k # i
      BY <2>1, <2>2, <3>1, PairBits
    <3>3. bitOffset(m_size)[o] + k \notin m_bitmap
      BY <2>1 DEF PairsMatch
    <3> HIDE DEF i
    <3> QED BY <1>2, <3>2, <3>3, Zenon
  <2>4. PairsMatch'
    BY <2>3 DEF PairsMatch, PairsOf
  <2> QED BY <2>4 DEF Unmerged
<1> QED BY <1>3, <1>4

\* Seeding a whole pool takes largest blocks only.
LEMMA SeedBlockBits ==
  ASSUME IndInv, AlignInv, IndInv', AlignInv', BitInv, SeedBlock
  PROVE  BitInv'
<1>1. PICK o \in Orders : /\ Fits(o) /\ \A p \in Orders : Fits(p) => p <= o
                          /\ m_bitmap' = bitmapToggle(addr, o)
                          /\ m_freeLists' = listPush(addr, o)
                          /\ addr' = addr + BlockSize[o]
  BY DEF SeedBlock
<1> DEFINE b == <<addr, o>>
           s == BlockSize[MAX_ORDER]
<1>2. /\ pc = "seed" /\ m_freeLists \in [Orders -> Seq(Nat)] /\ addr \in Nat
      /\ m_base \in Nat /\ m_size \in Nat /\ m_base <= addr
      /\ \A c \in FreeBlocks : End(c) <= addr
      /\ UNCHANGED <<m_base, m_size, pc, held, reserved>>
  BY Zenon DEF IndInv, TypeOK, StageOK, SeedBlock
<1>3. BlockSize[o] \in Nat /\ BlockSize[o] > 0 /\ MAX_ORDER \in Orders /\ s \in Nat /\ s > 0
  BY Sizes, OrderAssumption DEF Orders
<1>4. b \in BlockType /\ b \notin FreeBlocks
  <2>1. ~(End(b) <= addr)
    BY <1>2, <1>3 DEF End
  <2> QED BY <1>2, <2>1 DEF BlockType
<1>5. ASSUME WholeBlocks
      PROVE  o = MAX_ORDER /\ ((addr + s) - m_base) % s = 0
  <2> DEFINE x == addr - m_base
  <2>1. x \in Nat /\ x % s = 0 /\ m_size % s = 0 /\ x < m_size /\ x + s = (addr + s) - m_base
    <3>1. x % s = 0 /\ m_size % s = 0
      BY <1>2, <1>5 DEF BitInv, WholeBlocks
    <3>2. addr < m_base + m_size
      BY <1>1, <1>2, <1>3 DEF Fits
    <3> HIDE DEF s
    <3> QED BY <1>2, <1>3, <3>1, <3>2
  <2>2. x + s <= m_size
    BY <1>2, <1>3, <2>1, MultiplesApart, Zenon
  <2>3. Fits(MAX_ORDER)
    <3>1. addr + s <= m_base + m_size
      <4> HIDE DEF s
      <4> QED BY <1>2, <1>3, <2>2
    <3> QED BY <3>1 DEF Fits
  <2>4. o = MAX_ORDER
    BY <1>1, <1>3, <2>3, OrderAssumption DEF Orders
  <2>5. s % s = 0
    BY <1>3
  <2>6. (x + s) % s = 0
    BY <1>3, <2>1, <2>5, MultipleSum, Zenon
  <2> QED BY <2>1, <2>4, <2>6
<1>6. Unseeded'
  BY <1>1, <1>2, <1>5 DEF Unseeded, WholeBlocks
<1>7. CASE addr # 0
  <2>1. FreeBlocks' = FreeBlocks \cup {b}
    BY <1>1, <1>2, <1>7, PushFree, Zenon
  <2>2. Flips(b)
    BY <1>1, <1>2, <1>4, <2>1 DEF Flips, bitmapToggle
  <2> QED BY <1>2, <1>5, <1>6, <2>2, FlipKeeps
<1>8. CASE addr = 0
  <2>1. FreeBlocks = {}
    <3>1. ASSUME NEW c \in FreeBlocks PROVE FALSE
      <4>1. c[1] \in Nat /\ BlockSize[c[2]] \in Nat /\ BlockSize[c[2]] > 0 /\ End(c) <= 0
        BY <1>2, <1>8, FreeTyped, Sizes DEF BlockType
      <4> QED BY <4>1 DEF End
    <3> QED BY <3>1
  <2>2. FreeBlocks' = {}
    BY <1>1, <1>2, <1>8, <2>1, PushZero
  <2>3. InPool(b) /\ Aligned(b)
    BY <1>1, <1>2 DEF InPool, End, Fits, Aligned, AlignInv, CursorAligned
  <2>4. m_size <= MAX_POOL_SIZE /\ BitmapInBounds
    BY <1>2 DEF BitInv
  <2>5. WholeBlocks => o = MAX_ORDER /\ PairsMatch
    BY <1>5 DEF BitInv
  <2>6. m_bitmap' = SymDiff(m_bitmap, {bitmapIndex(b[1], b[2])}) /\ b[2] = o
    BY <1>1 DEF bitmapToggle
  <2> HIDE DEF b
  <2>7. BitmapInBounds' /\ (WholeBlocks' => PairsMatch' /\ Unmerged')
    BY <1>2, <1>4, <2>1, <2>2, <2>3, <2>4, <2>5, <2>6, LostBits
  <2> QED BY <1>2, <1>6, <2>4, <2>7 DEF BitInv, Unseeded
<1> QED BY <1>7, <1>8

\* A block that is popped, or removed for a reservation.
LEMMA TakenBits ==
  ASSUME IndInv, AlignInv, IndInv', AlignInv', BitInv,
         ReserveBlock \/ \E o \in Orders : AllocPages(o)
  PROVE  BitInv'
<1>1. /\ m_freeLists \in [Orders -> Seq(Nat)] /\ AllInjective /\ addr \in Nat
  BY DEF IndInv, TypeOK, NoOverlap, AllInjective
<1>2. CASE ReserveBlock
  <2>1. PICK o \in Removable : /\ m_freeLists' = listRemove(addr, o)
                               /\ m_bitmap' = bitmapToggle(addr, o)
    BY <1>2 DEF ReserveBlock
  <2>2. o \in Orders /\ OnList(addr, o) /\ pc = "reserve" /\ pc' = "reserve"
        /\ UNCHANGED <<m_base, m_size>>
    BY <1>2, Zenon DEF Removable, ReserveBlock
  <2> DEFINE b == <<addr, o>>
  <2>3. b \in FreeBlocks /\ FreeBlocks' = FreeBlocks \ {b}
    BY <1>1, <2>1, <2>2, RemoveFree
  <2>4. Flips(b)
    BY <1>1, <2>1, <2>2, <2>3 DEF Flips, bitmapToggle, BlockType
  <2>5. Unseeded'
    BY <2>2 DEF Unseeded
  <2> HIDE DEF b
  <2> QED BY <2>2, <2>3, <2>4, <2>5, FlipKeeps
<1>3. ASSUME NEW o \in Orders, AllocPages(o) PROVE BitInv'
  <2>1. PICK found \in Usable(o) :
          /\ m_freeLists' = listPop(found)
          /\ m_bitmap' = bitmapToggle(Head(m_freeLists[found]), found)
          /\ pc' \in {"idle", "split"}
    BY <1>3 DEF AllocPages, Return, Continue
  <2>2. /\ found \in Orders /\ m_freeLists[found] # <<>> /\ pc = "idle"
        /\ UNCHANGED <<m_base, m_size>>
    BY <1>3 DEF Usable, AllocPages
  <2> DEFINE b == <<Head(m_freeLists[found]), found>>
  <2>3. Head(m_freeLists[found]) \in Nat /\ b \in FreeBlocks /\ FreeBlocks' = FreeBlocks \ {b}
    BY <1>1, <2>1, <2>2, PopFree
  <2>4. Flips(b)
    BY <2>1, <2>2, <2>3, Zenon DEF Flips, bitmapToggle, BlockType
  <2>5. Unseeded'
    BY <2>1 DEF Unseeded
  <2> HIDE DEF b
  <2> QED BY <2>2, <2>3, <2>4, <2>5, FlipKeeps
<1> QED BY <1>2, <1>3
\* The split loop: the upper half goes on its list, and its buddy, the lower
\* half, is on none.
LEMMA SplitBlockBits ==
  ASSUME IndInv, AlignInv, IndInv', AlignInv', BitInv, SplitBlock
  PROVE  BitInv'
<1> DEFINE p == order - 1
           x == <<addr, order>>
           l == <<addr, p>>
           h == <<addr + BlockSize[p], p>>
           s == BlockSize[p]
<1>1. /\ pc = "split" /\ Current = {x} /\ x \notin FreeBlocks
      /\ addr \in Nat /\ order \in Orders /\ 0 < order
      /\ m_freeLists \in [Orders -> Seq(Nat)]
      /\ m_base \in Nat /\ m_size \in Nat
      /\ UNCHANGED <<m_base, m_size>> /\ pc' # "seed"
  <2>1. /\ pc = "split" /\ UNCHANGED <<m_base, m_size>> /\ pc' # "seed"
    BY DEF SplitBlock, Return, Continue
  <2>2. Current = {x} /\ x \notin FreeBlocks
    BY <2>1, Zenon DEF IndInv, NoOverlap, Current
  <2>3. /\ addr \in Nat /\ order \in Orders /\ want \in Orders
        /\ m_freeLists \in [Orders -> Seq(Nat)] /\ m_base \in Nat /\ m_size \in Nat
    BY DEF IndInv, TypeOK
  <2>4. 0 < order
    BY <2>1, <2>3 DEF IndInv, StageOK, Orders
  <2> QED BY <2>1, <2>2, <2>3, <2>4
<1>2. /\ p \in Orders /\ s \in Nat /\ s > 0 /\ BlockSize[order] = 2 * s /\ p # order
  BY <1>1, Sizes DEF Orders
<1>3. /\ l \in BlockType /\ h \in BlockType /\ x \in BlockType
      /\ \A c \in BlockType : Disjoint(x, c) => Disjoint(l, c) /\ Disjoint(h, c)
  BY <1>1, HalvesApart, Zenon
<1>4. Owned \subseteq BlockType /\ x \in Owned
  BY <1>1, OwnedTyped DEF IndInv, Owned
<1>5. l \notin FreeBlocks /\ h \notin FreeBlocks
  <2>1. \A c \in Owned : c # x => Disjoint(l, c) /\ Disjoint(h, c)
    BY <1>3, <1>4, Zenon DEF IndInv, NoOverlap
  <2>2. \A c \in Owned : c # x => c # l /\ c # h
    BY <1>3, <1>4, <2>1, ApartDiffer
  <2> QED BY <1>1, <2>2, Zenon DEF Owned
<1>6. /\ m_freeLists' = listPush(addr + s, p) /\ addr + s \in Nat /\ addr + s # 0
      /\ m_bitmap' = bitmapToggle(addr + s, p)
  BY <1>1, <1>2 DEF SplitBlock
<1>7. FreeBlocks' = FreeBlocks \cup {h}
  BY <1>1, <1>2, <1>6, PushFree, ZenonT(30)
<1>8. Flips(h)
  BY <1>1, <1>3, <1>5, <1>6, <1>7, Zenon DEF Flips, bitmapToggle
<1>9. l = Lower(p, PairIndex(h)) /\ h = Upper(p, PairIndex(h))
  <2>1. /\ InPool(h) /\ Aligned(h)
    BY <1>8, FlippedIs
  <2>2. /\ m_base <= addr /\ (addr - m_base) % (2 * s) = 0
    BY <1>2, <1>4, ZenonT(30) DEF IndInv, NoOverlap, InPool, AlignInv, BuddyAligned, Aligned
  <2>3. addr - m_base \in Nat /\ 2 * s \in Nat /\ 2 * s > 0
    <3> HIDE DEF s
    <3> QED BY <1>1, <1>2, <2>2
  <2>4. PICK k \in Nat : addr - m_base = k * (2 * s)
    BY <2>2, <2>3, Multiple, Zenon
  <2> DEFINE t == 2 * k * s
  <2>5. t = k * (2 * s) /\ t \in Nat
    <3> HIDE DEF s
    <3> QED BY <1>2
  <2>6. Lower(p, k) = <<m_base + t, p>> /\ Upper(p, k) = <<m_base + t + s, p>>
    BY DEF Lower, Upper
  <2>7. addr = m_base + t
    <3> HIDE DEF t
    <3> QED BY <1>1, <2>4, <2>5
  <2>8. l = Lower(p, k) /\ h = Upper(p, k)
    BY <2>6, <2>7
  <2>9. k = PairIndex(h)
    <3>1. h[2] = p
      OBVIOUS
    <3> QED BY <1>1, <1>3, <2>1, <2>8, <3>1, PairOf, Zenon
  <2> QED BY <2>8, <2>9
<1>10. h[2] = p /\ Unseeded'
  BY <1>1 DEF Unseeded
<1> HIDE DEF p, l, h
<1> QED BY <1>1, <1>5, <1>8, <1>9, <1>10, FlipKeeps

\* The end of the merge loop: the bit is 0 before the flip, so that the buddy
\* is on no list.  In a whole pool a bit that is 1 is never wrong about that.
LEMMA MergeEndBits ==
  ASSUME IndInv, AlignInv, IndInv', AlignInv', BitInv, MergeInsert \/ MergeFallback
  PROVE  BitInv'
<1> DEFINE b == <<addr, order>>
           c == <<buddyOf(addr, order), order>>
           K == PairIndex(b)
<1>1. /\ pc = "merge" /\ b \in BlockType /\ b \notin FreeBlocks
      /\ addr \in Nat /\ order \in Orders /\ m_freeLists \in [Orders -> Seq(Nat)]
      /\ UNCHANGED <<m_base, m_size>> /\ pc' = "idle"
      /\ m_freeLists' = listPush(addr, order) /\ addr # 0
  BY InHand, Zenon DEF IndInv, TypeOK, NoOverlap, Current, MergeInsert, MergeFallback, Continue, BlockType
<1>2. FreeBlocks' = FreeBlocks \cup {b}
  BY <1>1, PushFree
<1>3. Unseeded' /\ b[2] = order /\ b[1] = addr
  BY <1>1 DEF Unseeded
<1>4. ASSUME WholeBlocks, order < MAX_ORDER
      PROVE  /\ {b, c} = {Lower(order, K), Upper(order, K)}
             /\ bitmapIndex(addr, order) \in m_bitmap <=> c \in FreeBlocks
  BY <1>1, <1>4, BitTells, ZenonT(30) DEF BitInv
<1>5. CASE MergeInsert
  <2>1. Flips(b)
    BY <1>1, <1>2, <1>3, <1>5 DEF Flips, MergeInsert, bitmapToggle
  <2>2. order = MAX_ORDER \/ order < MAX_ORDER
    BY <1>1, OrderAssumption DEF Orders
  <2>3. ASSUME WholeBlocks, order # MAX_ORDER
        PROVE  Lower(order, K) \notin FreeBlocks /\ Upper(order, K) \notin FreeBlocks
    <3>1. c \notin FreeBlocks
      BY <1>4, <1>5, <2>2, <2>3 DEF MergeInsert
    <3>2. {b, c} = {Lower(order, K), Upper(order, K)}
      BY <1>4, <2>2, <2>3
    <3> HIDE DEF b, c, K
    <3> QED BY <1>1, <3>1, <3>2, ZenonT(30)
  <2> HIDE DEF b
  <2> QED BY <1>1, <1>3, <2>1, <2>3, FlipKeeps
<1>6. CASE MergeFallback
  <2>1. /\ order < MAX_ORDER /\ bitmapIndex(addr, order) \in m_bitmap
        /\ ~OnList(buddyOf(addr, order), order) /\ m_bitmap' = m_bitmap
    BY <1>6 DEF MergeFallback
  <2>2. c \notin FreeBlocks
    BY <1>1, <2>1, FreeMember DEF OnList
  <2>3. ~WholeBlocks
    BY <1>4, <2>1, <2>2
  <2>4. ~WholeBlocks'
    BY <1>1, <2>3 DEF WholeBlocks
  <2> QED BY <1>1, <2>1, <2>4 DEF BitInv, BitmapInBounds
<1> QED BY <1>5, <1>6

\* The merge loop: the buddy leaves its list, and the bit that is flipped is
\* that of the block in hand, which is the same.
LEMMA MergeBuddiesBits ==
  ASSUME IndInv, AlignInv, IndInv', AlignInv', BitInv, MergeBuddies
  PROVE  BitInv'
<1> DEFINE a == buddyOf(addr, order)
           b == <<addr, order>>
           c == <<a, order>>
           K == PairIndex(b)
<1>1. /\ pc = "merge" /\ b \in Owned /\ OnList(a, order)
      /\ m_base \in Nat /\ m_size \in Nat
      /\ addr \in Nat /\ order \in Orders /\ m_freeLists \in [Orders -> Seq(Nat)]
      /\ AllInjective
      /\ UNCHANGED <<m_base, m_size>> /\ pc' = "merge"
      /\ m_freeLists' = listRemove(a, order)
      /\ m_bitmap' = bitmapToggle(addr, order)
  BY ZenonT(30) DEF IndInv, TypeOK, NoOverlap, AllInjective, Current, Owned, MergeBuddies, Continue
<1>2. a \in Nat /\ c \in FreeBlocks /\ FreeBlocks' = FreeBlocks \ {c}
  BY <1>1, RemoveFree
<1>3. c \in Owned
  BY <1>2 DEF Owned
<1>4. /\ b \in BlockType /\ c \in BlockType /\ b[2] = order /\ b[1] = addr
      /\ c[2] = order /\ c[1] = a
  BY <1>1, <1>2 DEF BlockType
<1>5. InPool(b) /\ Aligned(b) /\ InPool(c) /\ Aligned(c)
  BY <1>1, <1>3 DEF IndInv, NoOverlap, AlignInv, BuddyAligned
<1>6. K \in Nat /\ b \in {Lower(order, K), Upper(order, K)}
  BY <1>1, <1>4, <1>5, PairOf, ZenonT(30)
<1>7. c \in {Lower(order, K), Upper(order, K)}
  BY <1>1, <1>5, <1>6, BuddyIs, ZenonT(30)
<1>8. PairIndex(c) = K
  BY <1>1, <1>4, <1>5, <1>6, <1>7, PairOf, Zenon
<1>9. bitmapIndex(a, order) = bitmapIndex(addr, order)
  <2>1. bitmapIndex(a, order) = bitOffset(m_size)[order] + PairIndex(c)
    BY <1>4 DEF bitmapIndex, PairIndex
  <2>2. bitmapIndex(addr, order) = bitOffset(m_size)[order] + PairIndex(b)
    BY <1>4 DEF bitmapIndex, PairIndex
  <2> QED BY <1>8, <2>1, <2>2
<1>10. Flips(c)
  BY <1>1, <1>2, <1>4, <1>9 DEF Flips, bitmapToggle
<1>11. Unseeded'
  BY <1>1 DEF Unseeded
<1> HIDE DEF c
<1> QED BY <1>1, <1>2, <1>10, <1>11, FlipKeeps

-----------------------------------------------------------------------------
(* What holds of the bitmap.                                               *)

\* The bits are those of the pairs, in the array, in every reachable state.
THEOREM BitInvHolds == Spec => []BitInv
<1>1. Init => BitInv
  <2>1. SUFFICES ASSUME Init PROVE BitInv
    OBVIOUS
  <2>2. m_bitmap = {} /\ pc = "boot" /\ \A o \in Orders : m_freeLists[o] = <<>>
    BY <2>1 DEF Init
  <2>3. FreeBlocks = {}
    BY <2>2 DEF FreeBlocks, Range
  <2>4. PairsMatch /\ Unmerged /\ BitmapInBounds
    BY <2>2, <2>3 DEF PairsMatch, Unmerged, BitmapInBounds
  <2> QED BY <2>2, <2>4 DEF BitInv
<1>2. IndInv /\ AlignInv /\ IndInv' /\ AlignInv' /\ BitInv /\ [Next]_vars => BitInv'
  <2>1. SUFFICES ASSUME IndInv, AlignInv, IndInv', AlignInv', BitInv, [Next]_vars
                 PROVE  BitInv'
    OBVIOUS
  <2>2. CASE UNCHANGED vars
    <3>1. Unseeded'
      BY <2>1, <2>2 DEF BitInv, Unseeded, WholeBlocks, vars
    <3> QED BY <2>1, <2>2, <3>1, QuietKeeps DEF vars
  <2>3. CASE \E b \in held : FreePages(b)
    <3>1. /\ UNCHANGED <<m_base, m_size, m_bitmap, m_freeLists>>
          /\ pc = "idle" /\ pc' = "merge"
      BY <2>3 DEF FreePages, Continue
    <3> QED BY <2>1, <3>1, QuietKeeps DEF Unseeded
  <2>4. CASE SeedDone \/ ReserveSkip \/ ReserveNext
    <3>1. /\ UNCHANGED <<m_base, m_size, m_bitmap, m_freeLists>>
          /\ pc \in {"seed", "reserve"} /\ pc' \in {"reserve", "idle"}
      BY <2>4 DEF SeedDone, ReserveSkip, ReserveNext
    <3> QED BY <2>1, <3>1, QuietKeeps DEF Unseeded
  <2>5. CASE \E map \in Maps : SetMemoryMap(map)
    BY <2>5, SetMemoryMapBits
  <2>6. CASE Next
    BY <2>1, <2>3, <2>4, <2>5, <2>6, SeedBlockBits, TakenBits, SplitBlockBits, MergeEndBits,
       MergeBuddiesBits DEF Next, Step
  <2> QED BY <2>1, <2>2, <2>6
<1> QED BY <1>1, <1>2, IndInvHolds, AlignInvHolds, PTL DEF Spec

\* Every bit ever toggled is inside the array, for every pool SetMemoryMap
\* accepts: bitmapToggle never halts.
THEOREM BitmapInBoundsHolds == Spec => []BitmapInBounds
<1>1. BitInv => BitmapInBounds
  BY DEF BitInv
<1> QED BY <1>1, BitInvHolds, PTL

\* In a pool of whole largest blocks the bit of a pair is 1 exactly when one of
\* the two buddies is on its free list.
THEOREM BitmapSoundHolds == Spec => []BitmapSound
<1>1. IndInv /\ BitInv => BitmapSound
  <2>1. SUFFICES ASSUME IndInv, BitInv, WholeBlocks,
                        NEW o \in 0 .. (MAX_ORDER - 1),
                        NEW k \in 0 .. ((m_size \div (2 * BlockSize[o])) - 1)
                 PROVE  LET left == m_base + 2 * k * BlockSize[o]
                        IN  (bitmapIndex(left, o) \in m_bitmap) <=>
                              (OnList(left, o) # OnList(left + BlockSize[o], o))
    BY DEF BitmapSound
  <2> DEFINE left == m_base + 2 * k * BlockSize[o]
             s == BlockSize[o]
             t == 2 * k * s
  <2>2. /\ o \in Orders /\ s \in Nat /\ s > 0 /\ m_base \in Nat /\ m_size \in Nat
    BY <2>1, Sizes, OrderAssumption DEF Orders, IndInv, TypeOK
  <2>3. Pairs(m_size, o) \in Nat /\ k \in PairsOf(o)
    BY <2>2, PairsAre DEF PairsOf, Pairs
  <2>4. k \in Nat
    BY <2>3 DEF PairsOf
  <2>5. bitmapIndex(left, o) = bitOffset(m_size)[o] + k
    <3>1. t \in Nat /\ t = k * (2 * s) /\ 2 * s \in Nat /\ 2 * s > 0
      <4> HIDE DEF s
      <4> QED BY <2>2, <2>4
    <3>2. t \div (2 * s) = k
      <4> HIDE DEF s, t
      <4> QED BY <2>4, <3>1, Times
    <3>3. left - m_base = t
      <4>1. left = m_base + t
        OBVIOUS
      <4> HIDE DEF left, t
      <4> QED BY <2>2, <3>1, <4>1
    <3> QED BY <3>2, <3>3 DEF bitmapIndex
  <2>6. (bitOffset(m_size)[o] + k \in m_bitmap) <=>
          ((Lower(o, k) \in FreeBlocks) # (Upper(o, k) \in FreeBlocks))
    BY <2>1, <2>3 DEF BitInv, PairsMatch
  <2>7. /\ Lower(o, k) \in FreeBlocks <=> OnList(left, o)
        /\ Upper(o, k) \in FreeBlocks <=> OnList(left + s, o)
    BY <2>2, FreeMember DEF Lower, Upper, OnList
  <2>8. (bitmapIndex(left, o) \in m_bitmap) <=>
          ((Lower(o, k) \in FreeBlocks) # (Upper(o, k) \in FreeBlocks))
    BY <2>5, <2>6, Zenon
  <2>9. OnList(left, o) \in BOOLEAN /\ OnList(left + s, o) \in BOOLEAN
    BY DEF OnList
  <2> HIDE DEF left, s
  <2>10. (bitmapIndex(left, o) \in m_bitmap) <=> (OnList(left, o) # OnList(left + s, o))
    BY <2>7, <2>8, <2>9
  <2> QED BY <2>10 DEF left, s
<1> QED BY <1>1, IndInvHolds, BitInvHolds, PTL

-----------------------------------------------------------------------------
(* Free memory is served.                                                  *)

\* The bytes of c are bytes of b.
Inside(c, b) == b[1] <= c[1] /\ End(c) <= End(b)

\* A block that overlaps a larger one lies inside it.
LEMMA Nested ==
  ASSUME m_base \in Nat, NEW b \in BlockType, NEW c \in BlockType,
         Aligned(b), Aligned(c), m_base <= b[1], m_base <= c[1], c[2] <= b[2],
         ~Disjoint(b, c)
  PROVE  Inside(c, b)
<1> DEFINE s == BlockSize[c[2]]
           S == BlockSize[b[2]]
           x == c[1] - m_base
           y == b[1] - m_base
<1>1. /\ b[1] \in Nat /\ c[1] \in Nat /\ b[2] \in Orders /\ c[2] \in Orders
  BY DEF BlockType
<1>2. s \in Nat /\ s > 0 /\ S \in Nat /\ S > 0 /\ S % s = 0
  BY <1>1, Sizes, SizesDivide
<1>3. x % s = 0 /\ y % S = 0
  BY DEF Aligned
<1>4. End(c) = c[1] + s /\ End(b) = b[1] + S
  BY DEF End
<1> HIDE DEF s, S
<1>5. x \in Nat /\ y \in Nat /\ c[1] = m_base + x /\ b[1] = m_base + y
  BY <1>1
<1>6. x < y + S /\ y < x + s
  BY <1>1, <1>2, <1>4, <1>5 DEF Disjoint
<1> HIDE DEF x, y
<1>7. y % s = 0
  BY <1>2, <1>3, <1>5, MultipleOfMultiple, Zenon
<1>8. y + S \in Nat
  BY <1>2, <1>5
<1>9. (y + S) % s = 0
  BY <1>2, <1>5, <1>7, MultipleSum, Zenon
<1>10. ASSUME x < y PROVE FALSE
  <2>1. x + s <= y
    BY <1>2, <1>3, <1>5, <1>7, <1>10, MultiplesApart, Zenon
  <2> QED BY <1>2, <1>5, <1>6, <2>1
<1>11. x + s <= y + S
  BY <1>2, <1>3, <1>5, <1>6, <1>8, <1>9, MultiplesApart, ZenonT(30)
<1> QED BY <1>1, <1>2, <1>4, <1>5, <1>10, <1>11 DEF Inside

\* Two blocks that hold a third one overlap.
LEMMA Overlap ==
  ASSUME NEW b \in BlockType, NEW c \in BlockType, NEW d \in BlockType,
         Inside(c, b), Inside(c, d)
  PROVE  ~Disjoint(b, d)
<1>1. /\ b[1] \in Nat /\ c[1] \in Nat /\ d[1] \in Nat
      /\ b[2] \in Orders /\ c[2] \in Orders /\ d[2] \in Orders
  BY DEF BlockType
<1>2. BlockSize[c[2]] \in Nat /\ BlockSize[c[2]] > 0 /\ BlockSize[b[2]] \in Nat /\ BlockSize[d[2]] \in Nat
  BY <1>1, Sizes
<1> QED BY <1>1, <1>2 DEF Inside, Disjoint, End

\* Two blocks that hold a byte overlap.
LEMMA Meet ==
  ASSUME NEW b \in BlockType, NEW c \in BlockType, NEW x, x \in Span(b), x \in Span(c)
  PROVE  ~Disjoint(b, c)
<1>1. /\ b[1] \in Nat /\ c[1] \in Nat /\ b[2] \in Orders /\ c[2] \in Orders
  BY DEF BlockType
<1>2. BlockSize[c[2]] \in Nat /\ BlockSize[b[2]] \in Nat
  BY <1>1, Sizes
<1> QED BY <1>1, <1>2 DEF Span, Disjoint, End

\* A pair is a block of the next order, and its halves are two blocks.
LEMMA PairBlock ==
  ASSUME m_base \in Nat, NEW o \in Orders, o < MAX_ORDER, NEW k \in Nat
  PROVE  LET P == <<m_base + 2 * k * BlockSize[o], o + 1>>
             l == Lower(o, k)
             h == Upper(o, k)
         IN  /\ P \in BlockType /\ Aligned(P) /\ m_base <= P[1] /\ P[2] = o + 1
             /\ l \in BlockType /\ Aligned(l) /\ m_base <= l[1] /\ l[2] = o /\ Inside(l, P)
             /\ h \in BlockType /\ Aligned(h) /\ m_base <= h[1] /\ h[2] = o /\ Inside(h, P)
<1> DEFINE s == BlockSize[o]
           t == 2 * k * s
           P == <<m_base + 2 * k * s, o + 1>>
           l == Lower(o, k)
           h == Upper(o, k)
<1>1. s \in Nat /\ s > 0 /\ o + 1 \in Orders /\ BlockSize[o + 1] = 2 * s
  BY Sizes
<1>2. t \in Nat /\ t % (2 * s) = 0 /\ t % s = 0 /\ (t + s) % s = 0
  <2> HIDE DEF s
  <2>1. 2 * k \in Nat /\ 2 * k + 1 \in Nat /\ 2 * s \in Nat /\ 2 * s > 0
    BY <1>1
  <2>2. t = k * (2 * s) /\ t = (2 * k) * s /\ t + s = (2 * k + 1) * s /\ t \in Nat
    BY <1>1
  <2> HIDE DEF t
  <2>3. (k * (2 * s)) % (2 * s) = 0 /\ ((2 * k) * s) % s = 0 /\ ((2 * k + 1) * s) % s = 0
    BY <1>1, <2>1, Times
  <2> QED BY <2>2, <2>3, Zenon
<1>3. P = <<m_base + t, o + 1>> /\ l = <<m_base + t, o>> /\ h = <<m_base + t + s, o>>
  BY DEF Lower, Upper
<1> HIDE DEF t, P, l, h, s
<1>4. /\ P[1] = m_base + t /\ P[2] = o + 1 /\ l[1] = m_base + t /\ l[2] = o
      /\ h[1] = m_base + t + s /\ h[2] = o
  BY <1>3
<1>5. /\ P \in BlockType /\ l \in BlockType /\ h \in BlockType
  BY <1>1, <1>2, <1>3 DEF BlockType
<1>6. P[1] - m_base = t /\ l[1] - m_base = t /\ h[1] - m_base = t + s
  BY <1>1, <1>2, <1>4
<1>7. Aligned(P) /\ Aligned(l) /\ Aligned(h)
  BY <1>1, <1>2, <1>4, <1>6 DEF Aligned, s
<1>8. End(P) = m_base + t + 2 * s /\ End(l) = m_base + t + s /\ End(h) = m_base + t + s + s
  BY <1>1, <1>4 DEF End, s
<1>9. Inside(l, P) /\ Inside(h, P) /\ m_base <= P[1] /\ m_base <= l[1] /\ m_base <= h[1]
  BY <1>1, <1>2, <1>4, <1>8 DEF Inside
<1> QED BY <1>4, <1>5, <1>7, <1>9 DEF P, l, h, s

\* Inside is transitive.
LEMMA InsideInside ==
  ASSUME NEW b \in BlockType, NEW c \in BlockType, NEW d \in BlockType,
         Inside(c, b), Inside(d, c)
  PROVE  Inside(d, b)
<1>1. /\ b[1] \in Nat /\ c[1] \in Nat /\ d[1] \in Nat
      /\ b[2] \in Orders /\ c[2] \in Orders /\ d[2] \in Orders
  BY DEF BlockType
<1>2. End(b) \in Nat /\ End(c) \in Nat /\ End(d) \in Nat
  BY <1>1, Sizes DEF End
<1> QED BY <1>1, <1>2 DEF Inside

\* A byte of a block.
LEMMA FirstByte ==
  ASSUME NEW b \in BlockType, NEW c \in BlockType, Inside(c, b)
  PROVE  c[1] \in Span(c) /\ c[1] \in Span(b) /\ Inside(c, c)
<1>1. /\ b[1] \in Nat /\ c[1] \in Nat /\ b[2] \in Orders /\ c[2] \in Orders
  BY DEF BlockType
<1>2. BlockSize[c[2]] \in Nat /\ BlockSize[c[2]] > 0 /\ BlockSize[b[2]] \in Nat
  BY <1>1, Sizes
<1> QED BY <1>1, <1>2 DEF Span, End, Inside
\* Free memory does not hide in blocks that are too small: the smallest free
\* block inside an aligned block of free memory has a buddy that is free too,
\* or part of a larger free block that would overlap it.
LEMMA NotScattered ==
  ASSUME IndInv, AlignInv, WholeBlocks, Unmerged,
         NEW b \in BlockType, Aligned(b), m_base <= b[1],
         \A x \in Span(b) : \E f \in FreeBlocks : x \in Span(f)
  PROVE  \E f \in FreeBlocks : b[2] <= f[2]
<1>1. SUFFICES ASSUME \A f \in FreeBlocks : ~(b[2] <= f[2]) PROVE FALSE
  OBVIOUS
<1>2. m_base \in Nat /\ m_size \in Nat /\ FreeBlocks \subseteq BlockType /\ b[2] \in Orders
  BY FreeTyped DEF IndInv, TypeOK, BlockType
<1>3. ASSUME NEW f \in FreeBlocks
      PROVE  /\ f \in BlockType /\ Aligned(f) /\ InPool(f) /\ m_base <= f[1]
             /\ f[2] \in Nat /\ f[2] <= b[2] /\ f[2] < b[2]
             /\ \A g \in FreeBlocks : f # g => Disjoint(f, g)
  <2>1. f \in BlockType /\ f \in Owned /\ ~(b[2] <= f[2])
    BY <1>1, <1>2 DEF Owned
  <2>2. f[2] \in Orders
    BY <2>1 DEF BlockType
  <2>3. f[2] \in Nat /\ f[2] <= b[2] /\ f[2] < b[2]
    BY <1>2, <2>1, <2>2, OrderAssumption DEF Orders
  <2>4. Aligned(f) /\ InPool(f) /\ \A g \in FreeBlocks : f # g => Disjoint(f, g)
    BY <2>1 DEF AlignInv, BuddyAligned, IndInv, NoOverlap, Owned
  <2>5. m_base <= f[1]
    BY <2>4 DEF InPool
  <2> QED BY <2>1, <2>3, <2>4, <2>5
<1> DEFINE O == {p \in Nat : \E f \in FreeBlocks : f[2] = p /\ Inside(f, b)}
<1>4. ASSUME NEW c \in BlockType, Inside(c, b)
      PROVE  \E g \in FreeBlocks : c[1] \in Span(g) /\ Inside(g, b) /\ g[2] \in O
  <2>1. c[1] \in Span(c) /\ c[1] \in Span(b)
    BY <1>4, FirstByte
  <2>2. PICK g \in FreeBlocks : c[1] \in Span(g)
    BY <2>1
  <2>3. /\ g \in BlockType /\ Aligned(g) /\ m_base <= g[1] /\ g[2] <= b[2] /\ g[2] \in Nat
    BY <1>3
  <2>4. ~Disjoint(b, g)
    BY <2>1, <2>2, <2>3, Meet
  <2>5. Inside(g, b)
    BY <1>2, <2>3, <2>4, Nested
  <2> QED BY <2>2, <2>3, <2>5
<1>5. PICK f \in FreeBlocks : Inside(f, b) /\ \A q \in O : f[2] <= q
  <2>1. Inside(b, b)
    <3>1. b[1] \in Nat /\ End(b) \in Nat
      BY <1>2, Sizes DEF BlockType, End
    <3> QED BY <3>1 DEF Inside
  <2>2. O # {} /\ O \in SUBSET Nat
    BY <1>4, <2>1
  <2>3. PICK p \in O : \A q \in O : p <= q
    <3> HIDE DEF O
    <3> QED BY <2>2, LeastElement
  <2> QED BY <2>3
<1> DEFINE p == f[2]
           K == PairIndex(f)
           P == <<m_base + 2 * K * BlockSize[p], p + 1>>
           l == Lower(p, K)
           h == Upper(p, K)
<1>6. /\ f \in BlockType /\ Aligned(f) /\ InPool(f) /\ p \in Nat /\ p < b[2]
  BY <1>3
<1>7. p \in Orders /\ p < MAX_ORDER /\ p # MAX_ORDER /\ p + 1 <= b[2]
  <2> HIDE DEF p
  <2> QED BY <1>2, <1>6, OrderAssumption DEF Orders
<1>8. p \in 0 .. (MAX_ORDER - 1) /\ K \in PairsOf(p) /\ K \in Nat
  BY <1>2, <1>6, <1>7, WholePair
<1>9. f \in {l, h} /\ l # h
  BY <1>2, <1>6, <1>8, PairOf
<1>10. /\ P \in BlockType /\ Aligned(P) /\ m_base <= P[1] /\ P[2] = p + 1
       /\ l \in BlockType /\ Aligned(l) /\ m_base <= l[1] /\ l[2] = p /\ Inside(l, P)
       /\ h \in BlockType /\ Aligned(h) /\ m_base <= h[1] /\ h[2] = p /\ Inside(h, P)
  BY <1>2, <1>7, <1>8, PairBlock, Zenon
<1>11. ~(l \in FreeBlocks /\ h \in FreeBlocks)
  BY <1>8 DEF Unmerged
<1>12. PICK c \in {l, h} : {f, c} = {l, h} /\ c \notin FreeBlocks
  <2> HIDE DEF l, h
  <2>1. CASE f = l
    <3>1. h \notin FreeBlocks /\ {f, h} = {l, h}
      BY <1>11, <2>1
    <3> QED BY <3>1
  <2>2. CASE f = h
    <3>1. l \notin FreeBlocks /\ {f, l} = {l, h}
      BY <1>11, <2>2
    <3> QED BY <3>1
  <2> QED BY <1>9, <2>1, <2>2
<1> HIDE DEF O, K, P, l, h, p
<1>13. /\ c \in BlockType /\ Aligned(c) /\ m_base <= c[1] /\ c[2] = p /\ Inside(c, P)
       /\ Inside(f, P)
  BY <1>9, <1>10, <1>12
<1>14. Inside(P, b)
  <2>1. ~Disjoint(b, P)
    BY <1>5, <1>6, <1>10, <1>13, Overlap
  <2> QED BY <1>2, <1>7, <1>10, <2>1, Nested
<1>15. Inside(c, b)
  BY <1>10, <1>13, <1>14, InsideInside
<1>16. PICK g \in FreeBlocks : c[1] \in Span(g) /\ Inside(g, b) /\ g[2] \in O
  BY <1>13, <1>15, <1>4
<1>17. /\ g \in BlockType /\ Aligned(g) /\ m_base <= g[1] /\ g[2] \in Nat /\ p <= g[2]
  BY <1>3, <1>5, <1>16 DEF p
<1>18. Inside(c, g)
  <2>1. c[1] \in Span(c)
    BY <1>13, <1>15, FirstByte
  <2>2. ~Disjoint(g, c)
    BY <1>13, <1>16, <1>17, <2>1, Meet
  <2> QED BY <1>2, <1>13, <1>17, <2>2, Nested
<1>19. CASE g[2] = p
  <2>1. g = c
    <3>1. /\ g = <<g[1], g[2]>> /\ c = <<c[1], c[2]>> /\ g[1] \in Nat /\ c[1] \in Nat
      BY <1>13, <1>17 DEF BlockType
    <3>2. g[1] <= c[1] /\ c[1] + BlockSize[p] <= g[1] + BlockSize[p]
      BY <1>13, <1>18, <1>19 DEF Inside, End
    <3>3. BlockSize[p] \in Nat
      BY <1>7, Sizes
    <3>4. g[1] = c[1]
      BY <3>1, <3>2, <3>3
    <3> QED BY <1>13, <1>19, <3>1, <3>4
  <2> QED BY <1>12, <1>16, <2>1
<1>20. CASE g[2] # p
  <2>1. P[2] <= g[2]
    BY <1>6, <1>10, <1>17, <1>20
  <2>2. ~Disjoint(g, P)
    BY <1>10, <1>13, <1>17, <1>18, Overlap
  <2>3. Inside(P, g)
    BY <1>2, <1>10, <1>17, <2>1, <2>2, Nested
  <2>4. Inside(f, g)
    BY <1>6, <1>10, <1>13, <1>17, <2>3, InsideInside
  <2>5. Inside(f, f)
    BY <1>6, <1>17, <2>4, FirstByte
  <2>6. ~Disjoint(f, g)
    BY <1>6, <1>17, <2>4, <2>5, Overlap
  <2>7. f # g
    BY <1>20 DEF p
  <2> QED BY <1>3, <1>16, <2>6, <2>7
<1> QED BY <1>19, <1>20

\* In a pool of whole largest blocks that is not based at 0, AllocPages never
\* fails while no byte of some aligned block of the size asked for is held or
\* reserved, however the pool was split before.
THEOREM ServesFreeMemoryHolds == Spec => []ServesFreeMemory
<1>1. IndInv /\ AlignInv /\ BitInv /\ NoLeak => ServesFreeMemory
  <2>1. SUFFICES ASSUME IndInv, AlignInv, BitInv, NoLeak, WholeBlocks, NEW o \in Orders,
                        pc = "idle", m_base # 0,
                        NEW k \in 0 .. ((m_size \div BlockSize[o]) - 1),
                        \A c \in held \cup reserved :
                          Disjoint(<<m_base + k * BlockSize[o], o>>, c)
                 PROVE  Usable(o) # {}
    BY DEF ServesFreeMemory
  <2> DEFINE s == BlockSize[o]
             t == k * s
             b == <<m_base + t, o>>
  <2>2. s \in Nat /\ s > 0 /\ m_base \in Nat /\ m_size \in Nat
    BY <2>1, Sizes DEF IndInv, TypeOK
  <2>3. k \in Nat /\ t \in Nat /\ t % s = 0 /\ t + s <= m_size
    <3> DEFINE q == m_size \div s
    <3>1. q \in Nat /\ q * s <= m_size
      BY <2>2, Quotient
    <3>2. k \in Nat /\ k + 1 <= q
      <4> HIDE DEF q
      <4> QED BY <3>1 DEF q, s
    <3> HIDE DEF q, s
    <3>3. (k + 1) * s <= q * s /\ (k + 1) * s = t + s
      <4>1. (k + 1) * s <= q * s
        BY <2>2, <3>1, <3>2, TimesOrder
      <4>2. (k + 1) * s = t + s
        BY <2>2, <3>2
      <4> QED BY <4>1, <4>2
    <3>4. t \in Nat /\ t % s = 0
      BY <2>2, <3>2, Times
    <3> HIDE DEF t
    <3> QED BY <2>2, <3>1, <3>2, <3>3, <3>4
  <2>4. \A c \in held \cup reserved : Disjoint(b, c)
    BY <2>1
  <2> HIDE DEF t
  <2>5. b \in BlockType /\ b[2] = o /\ m_base <= b[1] /\ b[1] - m_base = t
    BY <2>2, <2>3 DEF BlockType
  <2>6. Aligned(b)
    BY <2>3, <2>5 DEF Aligned
  <2>7. ASSUME NEW x \in Span(b) PROVE \E f \in FreeBlocks : x \in Span(f)
    <3>1. x \in m_base .. (m_base + m_size - 1)
      BY <2>2, <2>3 DEF Span, End
    <3>2. PICK f \in Owned : x \in Span(f)
      BY <2>1, <3>1 DEF NoLeak
    <3>3. f \in BlockType /\ f \in FreeBlocks \cup held \cup reserved
      BY <2>1, OwnedTyped DEF IndInv, Owned, Current
    <3> HIDE DEF b
    <3>4. ~Disjoint(b, f)
      BY <2>5, <2>7, <3>2, <3>3, Meet
    <3> QED BY <2>4, <3>2, <3>3, <3>4, Zenon
  <2> HIDE DEF b
  <2>8. PICK f \in FreeBlocks : b[2] <= f[2]
    BY <2>1, <2>5, <2>6, <2>7, NotScattered DEF BitInv
  <2>9. PICK p \in Orders : f \in {<<a, p>> : a \in Range(m_freeLists[p])}
    BY DEF FreeBlocks
  <2>10. f[2] = p /\ p >= o /\ m_freeLists[p] # <<>>
    BY <2>5, <2>8, <2>9 DEF Range, Orders
  <2> QED BY <2>9, <2>10 DEF Usable
<1> QED BY <1>1, IndInvHolds, AlignInvHolds, BitInvHolds, NoLeakHolds, PTL

=============================================================================
