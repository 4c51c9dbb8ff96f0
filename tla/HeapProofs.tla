----------------------------- MODULE HeapProofs -----------------------------
(***************************************************************************)
(* What the kernel heap promises, for every pool, block size, size class   *)
(* and request, as long as no request's size wraps (NoWrap).               *)
(*                                                                         *)
(* The invariant IInv says where everything in the heap's blocks is.  The  *)
(* blocks lie apart.  A slab is one page, the slots of its class in it are *)
(* free once or taken once, and no slab is in two classes.  A large block  *)
(* has one owner, whose header is next to its pointer.  A live pointer is  *)
(* therefore in exactly one block, which Deallocate finds again from the   *)
(* pointer alone.                                                          *)
(***************************************************************************)
EXTENDS Heap, CommonLemmas, FiniteSetTheorems, TLAPS

\* How long, in seconds, a leaf may take where it does not say otherwise.
USE SMTT(20), ZenonT(20)

\* allocLarge adds the room before the pointer to the size without a check.
\* A request that passes the end of size_t is not considered here.
NoWrap ==
  \A size \in Sizes, align \in Aligns :
    AtLeastOne(size) + RoundUp(largeHeaderSize, align) < SIZE_MOD

Orders == 0 .. MAX_ORDER

-----------------------------------------------------------------------------
(* The inductive invariant.                                                *)

Apart(b, d) == b[1] + BlockSize[b[2]] <= d[1] \/ d[1] + BlockSize[d[2]] <= b[1]

\* The blocks are where the page allocator puts them and do not overlap.
BlockInv ==
  /\ held \subseteq Nat \X Orders
  /\ \A b \in held : b[1] >= PoolBase /\ b[1] % BlockSize[b[2]] = 0
  /\ \A b, d \in held : b # d => Apart(b, d)

PagesOf(c) == {m_slabs[c][i] : i \in 1 .. Len(m_slabs[c])}

Slots(page, c) ==
  {NewSlots(page, c)[i] : i \in 1 .. Len(NewSlots(page, c))}

Taken(page) == {a.ptr : a \in {b \in live : PageOf(b.ptr) = page}}

\* The slots of a slab are free, once each, or taken, and counted.
SlabOf(page, c) ==
  /\ <<page, 0>> \in held
  /\ freeList[page] \in Seq(Nat)
  /\ IsInjective(freeList[page])
  /\ inUse[page] = Cardinality(Taken(page))
  /\ FreeSlots(page) \cap Taken(page) = {}
  /\ FreeSlots(page) \cup Taken(page) = Slots(page, c)

\* Every slab is on the list of one class, and only slabs carry the magic.
SlabInv ==
  /\ m_slabs \in [Classes -> Seq(Nat)]
  /\ SlabPages = UNION {PagesOf(c) : c \in Classes}
  /\ DOMAIN inUse = SlabPages /\ slabMagic = SlabPages
  /\ \A c, d \in Classes : c # d => PagesOf(c) \cap PagesOf(d) = {}
  /\ \A c \in Classes : \A page \in PagesOf(c) : SlabOf(page, c)

\* The block a large header at h describes.
BlockOf(h) == <<h + largeHeaderSize - large[h].userOffset, large[h].order>>

SmallAt(a) ==
  \E c \in Classes :
    /\ PageOf(a.ptr) \in PagesOf(c)
    /\ a.ptr \in Slots(PageOf(a.ptr), c)
    /\ a.size <= SLAB_CLASSES[c] /\ a.align <= SLAB_CLASSES[c]

LargeAt(a) ==
  LET h == a.ptr - largeHeaderSize
  IN  /\ h \in DOMAIN large
      /\ large[h].userOffset = a.align
      /\ a.align + a.size <= BlockSize[large[h].order]

\* Every block that is no slab has one header, and every header one owner.
LargeInv ==
  /\ \A h \in DOMAIN large :
       /\ h \in Nat /\ large[h] \in [order : Orders, userOffset : Nat \ {0}]
       /\ BlockOf(h) \in held /\ BlockOf(h)[1] \notin SlabPages
       /\ \E a \in live : a.ptr = h + largeHeaderSize /\ LargeAt(a)
  /\ \A g, h \in DOMAIN large : BlockOf(g) = BlockOf(h) => g = h
  /\ \A b \in held : b[1] \in SlabPages \/ \E h \in DOMAIN large : BlockOf(h) = b

\* Every allocation is a slot or follows a header, and no two are at one address.
LiveInv ==
  /\ live \subseteq [ptr : Nat, size : Nat \ {0}, align : Powers]
  /\ \A a \in live : SmallAt(a) \/ LargeAt(a)
  /\ \A a, b \in live : a.ptr = b.ptr => a = b

IInv == BlockInv /\ SlabInv /\ LargeInv /\ LiveInv /\ NoPanic
-----------------------------------------------------------------------------
(* Sizes, pages and slots.                                                 *)

\* Block sizes, slot sizes and alignments are positive numbers.
LEMMA PowerIs == \A x \in Powers : x \in Nat /\ x > 0
<1>1. \A o \in 0 .. MAX_ORDER : BlockSize[o] \in Nat /\ BlockSize[o] > 0
  BY BlockAssumption
<1>2. \A c \in Classes : SLAB_CLASSES[c] \in Nat /\ SLAB_CLASSES[c] > 0
  BY ClassAssumption DEF Classes
<1>3. \A a \in Aligns : a \in Nat /\ a > 0
  <2>1. Aligns \subseteq Nat \ {0}
    BY HeapAssumption, Zenon
  <2> QED BY <2>1
<1> QED BY <1>1, <1>2, <1>3 DEF Powers, DEFAULT_NEW_ALIGN

\* A larger order has a larger block.
LEMMA Grows ==
  ASSUME NEW p \in Orders, NEW o \in Orders, p <= o
  PROVE  BlockSize[p] <= BlockSize[o]
<1> DEFINE Bad == {q \in Orders : p <= q /\ ~ (BlockSize[p] <= BlockSize[q])}
<1>1. SUFFICES ASSUME Bad # {} PROVE FALSE
  OBVIOUS
<1>2. Bad \in SUBSET Nat
  BY DEF Orders
<1>3. PICK q \in Bad : \A r \in Bad : q <= r
  <2> HIDE DEF Bad
  <2> QED BY <1>1, <1>2, LeastElement
<1>4. q \in Orders /\ p <= q /\ q # p /\ p \in Nat /\ q \in Nat /\ MAX_ORDER \in Nat
  BY BlockAssumption, HeapAssumption DEF Orders
<1>5. q - 1 \in 0 .. (MAX_ORDER - 1) /\ q - 1 \in Orders /\ p <= q - 1 /\ (q - 1) + 1 = q
  BY <1>4 DEF Orders
<1>6. q - 1 \notin Bad
  <2> HIDE DEF Bad
  <2> QED BY <1>3, <1>4, <1>5
<1>7. BlockSize[p] <= BlockSize[q - 1]
  BY <1>5, <1>6
<1>8. BlockSize[q] = 2 * BlockSize[q - 1]
  BY <1>5, BlockAssumption
<1> QED BY <1>4, <1>5, <1>7, <1>8, BlockAssumption DEF Orders

\* The size of an order divides the larger ones.
LEMMA BlockIs ==
  ASSUME NEW o \in Orders
  PROVE  /\ BlockSize[o] \in Nat /\ BlockSize[o] > 0 /\ BlockSize[o] \in Powers
         /\ \A p \in Orders : p <= o => BlockSize[o] % BlockSize[p] = 0
<1>1. \A q \in Orders : BlockSize[q] \in Nat /\ BlockSize[q] > 0 /\ BlockSize[q] \in Powers
  BY BlockAssumption DEF Orders, Powers
<1>2. ASSUME NEW p \in Orders, p <= o PROVE BlockSize[o] % BlockSize[p] = 0
  BY <1>1, <1>2, Grows, PowersAssumption
<1> QED BY <1>1, <1>2

\* A page is a block of order 0.
LEMMA PageIs ==
  /\ PAGE_SIZE \in Nat /\ PAGE_SIZE > 0 /\ PAGE_SIZE \in Powers
  /\ 0 \in Orders /\ BlockSize[0] = PAGE_SIZE
  /\ \A o \in Orders : PAGE_SIZE <= BlockSize[o] /\ BlockSize[o] % PAGE_SIZE = 0
<1>1. 0 \in Orders /\ BlockSize[0] = PAGE_SIZE /\ PAGE_SIZE \in Nat /\ PAGE_SIZE > 0
  BY HeapAssumption, BlockAssumption DEF Orders
<1>2. \A o \in Orders : 0 <= o
  BY DEF Orders
<1>3. \A o \in Orders : BlockSize[0] <= BlockSize[o]
  BY <1>1, <1>2, Grows
<1>4. \A o \in Orders : BlockSize[o] % BlockSize[0] = 0
  BY <1>1, <1>2, BlockIs
<1> QED BY <1>1, <1>3, <1>4, BlockIs

\* The page of an address is the one multiple of the page size that it follows
\* by less than a page.
LEMMA PageOfIs ==
  ASSUME NEW x \in Nat
  PROVE  /\ PageOf(x) \in Nat /\ PageOf(x) % PAGE_SIZE = 0
         /\ PageOf(x) <= x /\ x < PageOf(x) + PAGE_SIZE
         /\ \A p \in Nat : p % PAGE_SIZE = 0 /\ p <= x /\ x < p + PAGE_SIZE => PageOf(x) = p
<1> DEFINE s == PAGE_SIZE
           k == x \div s
           d == k * s
<1>1. s \in Nat /\ s > 0
  BY PageIs
<1>2. k \in Nat /\ x % s \in 0 .. s - 1 /\ x = s * k + (x % s)
  <2> HIDE DEF s
  <2> QED BY <1>1
<1>3. d \in Nat /\ d % s = 0 /\ d <= x /\ x < d + s
  <2>1. d % s = 0
    <3> HIDE DEF k, s
    <3> QED BY <1>1, <1>2, Times
  <2> HIDE DEF k, s
  <2> QED BY <1>1, <1>2, <2>1
<1>4. ASSUME NEW p \in Nat, p % s = 0, p <= x, x < p + s PROVE d = p
  <2>1. ~ (p < d)
    <3>1. p < d => p + s <= d
      <4> HIDE DEF d, s
      <4> QED BY <1>1, <1>3, <1>4, MultiplesApart
    <3> HIDE DEF d, s
    <3> QED BY <1>1, <1>3, <1>4, <3>1
  <2>2. ~ (d < p)
    <3>1. d < p => d + s <= p
      <4> HIDE DEF d, s
      <4> QED BY <1>1, <1>3, <1>4, MultiplesApart
    <3> HIDE DEF d, s
    <3> QED BY <1>1, <1>3, <1>4, <3>1
  <2> HIDE DEF d, s
  <2> QED BY <1>3, <1>4, <2>1, <2>2
<1>5. PageOf(x) = d
  BY DEF PageOf
<1> HIDE DEF d
<1> QED BY <1>3, <1>4, <1>5

\* Rounding up gives a multiple that is less than one step away.
LEMMA RoundUpIs ==
  ASSUME NEW x \in Nat, NEW a \in Nat, a > 0
  PROVE  /\ RoundUp(x, a) \in Nat /\ RoundUp(x, a) % a = 0
         /\ x <= RoundUp(x, a) /\ RoundUp(x, a) < x + a
<1> DEFINE y == x + a - 1
           k == y \div a
           d == k * a
<1>1. y \in Nat
  OBVIOUS
<1>2. k \in Nat /\ y % a \in 0 .. a - 1 /\ y = a * k + (y % a)
  <2> HIDE DEF y
  <2> QED BY <1>1
<1>3. d \in Nat /\ d % a = 0
  <2> HIDE DEF k
  <2> QED BY <1>2, Times
<1>4. y = d + (y % a)
  <2> HIDE DEF k, y
  <2> QED BY <1>1, <1>2
<1>5. x <= d /\ d < x + a
  <2> DEFINE r == y % a
  <2>1. r \in 0 .. a - 1 /\ y = d + r
    BY <1>2, <1>4
  <2> HIDE DEF d, r
  <2> QED BY <1>3, <2>1
<1>6. RoundUp(x, a) = d
  BY DEF RoundUp
<1> HIDE DEF d
<1> QED BY <1>3, <1>5, <1>6

\* The room allocLarge leaves before the pointer is one alignment.
LEMMA OffsetIs ==
  ASSUME NEW a \in Nat, a > 0
  PROVE  RoundUp(largeHeaderSize, a) = a
<1>1. a \div a = 1
  OBVIOUS
<1>2. 1 + a - 1 = a
  OBVIOUS
<1> QED BY <1>1, <1>2 DEF RoundUp, largeHeaderSize
\* What the slots of a page are: past the header, inside the page, a slot apart
\* and never at the start of a page.
LEMMA SlotsAre ==
  ASSUME NEW page \in Nat, page % PAGE_SIZE = 0, NEW c \in Classes
  PROVE  /\ NewSlots(page, c) \in Seq(Nat) /\ NewSlots(page, c) # <<>>
         /\ IsInjective(NewSlots(page, c))
         /\ Slots(page, c) = Range(NewSlots(page, c))
         /\ \A x \in Slots(page, c) :
              /\ x \in Nat /\ x % SLAB_CLASSES[c] = 0
              /\ page + slabHeaderSize <= x
              /\ x + SLAB_CLASSES[c] <= page + PAGE_SIZE
<1> DEFINE s == SLAB_CLASSES[c]
           first == RoundUp(slabHeaderSize, s)
           P == PAGE_SIZE
           n == (P - first) \div s
           list == NewSlots(page, c)
<1>1. /\ s \in Nat /\ s > 0 /\ slabHeaderSize + 2 * s <= P /\ s \in Powers
      /\ P \in Nat /\ P > 0 /\ P \in Powers
  <2>1. s \in Nat /\ s > 0 /\ slabHeaderSize + 2 * s <= P
    BY ClassAssumption DEF Classes
  <2>2. s \in Powers
    BY DEF Powers
  <2> QED BY <2>1, <2>2, PageIs
<1>2. s <= P /\ P % s = 0 /\ page % s = 0
  <2>1. s <= P
    BY <1>1 DEF slabHeaderSize
  <2>2. P % s = 0
    BY <1>1, <2>1, PowersAssumption
  <2> QED BY <1>1, <2>1, <2>2, MultipleOfMultiple, Zenon
<1>3. first \in Nat /\ first % s = 0 /\ slabHeaderSize <= first /\ first < slabHeaderSize + s
  BY <1>1, RoundUpIs, Zenon DEF slabHeaderSize
<1>4. /\ P - first \in Nat /\ n \in Nat /\ n >= 1
      /\ n * s <= P - first
  <2>1. P - first \in Nat /\ s <= P - first
    <3> HIDE DEF first, s, P
    <3> QED BY <1>1, <1>3 DEF slabHeaderSize
  <2> DEFINE w == P - first
             r == w % s
  <2>2. w \in Nat /\ s <= w
    BY <2>1
  <2>3. n \in Nat /\ r \in 0 .. s - 1 /\ w = s * n + r /\ s * n = n * s
    <3>1. n = w \div s
      OBVIOUS
    <3> HIDE DEF w, s, n
    <3> QED BY <1>1, <2>2, <3>1 DEF r
  <2>4. n # 0
    <3> HIDE DEF w, s, n, r
    <3> QED BY <1>1, <2>2, <2>3
  <2> HIDE DEF w, s, n, r
  <2> QED BY <1>1, <2>1, <2>2, <2>3, <2>4 DEF w
<1>5. \A i \in 1 .. n :
        LET x == page + first + (n - i) * s
        IN  /\ x \in Nat /\ x % s = 0
            /\ page + slabHeaderSize <= x /\ x + s <= page + P
  <2> SUFFICES ASSUME NEW i \in 1 .. n
               PROVE  LET x == page + first + (n - i) * s
                      IN  /\ x \in Nat /\ x % s = 0
                          /\ page + slabHeaderSize <= x /\ x + s <= page + P
    OBVIOUS
  <2> DEFINE k == n - i
             d == k * s
             f == page + first
  <2>1. k \in Nat /\ k + 1 <= n
    <3> HIDE DEF n
    <3> QED BY <1>4
  <2>2. d \in Nat /\ d % s = 0 /\ d + s <= n * s
    <3>1. d % s = 0
      <4> HIDE DEF k, s
      <4> QED BY <1>1, <2>1, Times
    <3>2. d \in Nat /\ d + s <= n * s
      <4> HIDE DEF k, s, n
      <4> QED BY <1>1, <1>4, <2>1
    <3> QED BY <3>1, <3>2
  <2>3. f \in Nat /\ f % s = 0
    <3>1. page % s = 0 /\ first % s = 0 /\ first \in Nat /\ s \in Nat /\ s > 0
      BY <1>1, <1>2, <1>3
    <3> HIDE DEF first, s
    <3>2. (page + first) % s = 0
      BY <3>1, MultipleSum, Zenon
    <3> QED BY <3>1, <3>2
  <2>4. f + d \in Nat /\ (f + d) % s = 0
    <3>1. f % s = 0 /\ f \in Nat /\ d % s = 0 /\ d \in Nat /\ s \in Nat /\ s > 0
      BY <1>1, <2>2, <2>3
    <3> HIDE DEF f, d, s
    <3>2. (f + d) % s = 0
      BY <3>1, MultipleSum, Zenon
    <3> QED BY <3>1, <3>2
  <2>5. page + slabHeaderSize <= f + d /\ f + d + s <= page + P
    <3> DEFINE m == n * s
    <3>1. d + s <= m /\ m <= P - first /\ m \in Int
      <4>1. n * s \in Int
        <5> HIDE DEF n, s
        <5> QED BY <1>1, <1>4
      <4> QED BY <1>4, <2>2, <4>1
    <3> HIDE DEF d, s, first, P, m
    <3> QED BY <1>1, <1>3, <2>2, <3>1 DEF slabHeaderSize
  <2> QED BY <2>4, <2>5
<1>6. list = [i \in 1 .. n |-> page + first + (n - i) * s]
  BY DEF NewSlots
<1>7. list \in [1 .. n -> Nat]
  <2> HIDE DEF list, n, first, s
  <2> QED BY <1>5, <1>6
<1>8. list \in Seq(Nat) /\ Len(list) = n
  <2> HIDE DEF list, n
  <2> QED BY <1>4, <1>7, FunSeq
<1>9. list # <<>>
  <2> HIDE DEF list, n
  <2> QED BY <1>4, <1>8
<1>10. ASSUME NEW i \in 1 .. n, NEW j \in 1 .. n, list[i] = list[j] PROVE i = j
  <2> DEFINE k == n - i
             l == n - j
  <2>1. k \in Nat /\ l \in Nat /\ (k = l => i = j)
    <3> HIDE DEF n
    <3> QED BY <1>4
  <2>2. list[i] = page + first + k * s /\ list[j] = page + first + l * s
    <3> HIDE DEF n, first, s, list
    <3> QED BY <1>6
  <2>3. k * s \in Nat /\ l * s \in Nat
    <3> HIDE DEF k, l, s
    <3> QED BY <1>1, <2>1
  <2>4. k * s = l * s
    <3> DEFINE u == k * s
               v == l * s
    <3>1. page + first + u = page + first + v /\ u \in Nat /\ v \in Nat
      BY <1>10, <2>2, <2>3, Zenon
    <3>2. u = v
      <4> HIDE DEF u, v, first
      <4> QED BY <1>3, <3>1
    <3> QED BY <3>2
  <2>5. k = l
    <3>1. (k * s) \div s = k /\ (l * s) \div s = l
      <4> HIDE DEF k, l, s
      <4> QED BY <1>1, <2>1, Times
    <3> HIDE DEF k, l, s
    <3> QED BY <2>4, <3>1
  <2> QED BY <2>1, <2>5
<1>11. IsInjective(list) /\ Slots(page, c) = Range(list)
  <2>1. /\ IsInjective(list) <=> \A i, j \in 1 .. Len(list) : list[i] = list[j] => i = j
        /\ \A x : x \in Range(list) <=> \E i \in 1 .. Len(list) : list[i] = x
    <3> HIDE DEF list
    <3> QED BY <1>8, InjectiveSeq
  <2>2. \A x : x \in Slots(page, c) <=> \E i \in 1 .. Len(list) : list[i] = x
    BY DEF Slots
  <2> HIDE DEF list, n
  <2>3. IsInjective(list)
    BY <1>8, <1>10, <2>1
  <2> QED BY <2>1, <2>2, <2>3, Zenon
<1>12. ASSUME NEW x \in Slots(page, c)
       PROVE  /\ x \in Nat /\ x % s = 0
              /\ page + slabHeaderSize <= x /\ x + s <= page + P
  <2>1. PICK i \in 1 .. n : list[i] = x
    <3>1. \E i \in 1 .. Len(list) : list[i] = x
      BY <1>12 DEF Slots
    <3> HIDE DEF list, n
    <3> QED BY <1>8, <3>1
  <2>2. list[i] = page + first + (n - i) * s
    <3> HIDE DEF n, first, s, list
    <3> QED BY <1>6
  <2> HIDE DEF n, first, s, list, P
  <2> QED BY <1>5, <2>1, <2>2
<1> HIDE DEF n, first
<1> QED BY <1>8, <1>9, <1>11, <1>12

\* A slot's page is the one it was cut from, and no slot starts a page: the
\* ground for Deallocate's first test.
LEMMA SlotPage ==
  ASSUME NEW page \in Nat, page % PAGE_SIZE = 0, NEW c \in Classes, NEW x \in Slots(page, c)
  PROVE  PageOf(x) = page /\ x % PAGE_SIZE # 0
<1>1. /\ x \in Nat /\ page + slabHeaderSize <= x /\ x + SLAB_CLASSES[c] <= page + PAGE_SIZE
      /\ SLAB_CLASSES[c] \in Nat /\ SLAB_CLASSES[c] > 0 /\ PAGE_SIZE \in Nat /\ PAGE_SIZE > 0
  BY SlotsAre, ClassAssumption, PageIs DEF Classes
<1>2. page < x /\ x < page + PAGE_SIZE
  BY <1>1 DEF slabHeaderSize
<1>3. PageOf(x) = page
  BY <1>1, <1>2, PageOfIs
<1>4. x % PAGE_SIZE # 0
  <2>1. x % PAGE_SIZE = 0 => page + PAGE_SIZE <= x
    BY <1>1, <1>2, MultiplesApart
  <2> QED BY <1>1, <1>2, <2>1
<1> QED BY <1>3, <1>4

\* An injective sequence has as many elements as positions.
LEMMA InjectiveCount ==
  ASSUME NEW s \in Seq(Nat), IsInjective(s)
  PROVE  IsFiniteSet(Range(s)) /\ Cardinality(Range(s)) = Len(s)
<1>1. /\ \A i, j \in 1 .. Len(s) : s[i] = s[j] => i = j
      /\ \A x : x \in Range(s) <=> \E i \in 1 .. Len(s) : s[i] = x
      /\ Len(s) \in Nat /\ s \in [1 .. Len(s) -> Nat]
  BY InjectiveSeq
<1>2. s \in Bijection(1 .. Len(s), Range(s))
  BY <1>1 DEF Bijection, Injection, Surjection, IsInjective
<1>3. ExistsBijection(1 .. Len(s), Range(s))
  BY <1>2 DEF ExistsBijection
<1>4. IsFiniteSet(1 .. Len(s)) /\ Cardinality(1 .. Len(s)) = Len(s)
  <2>1. /\ IsFiniteSet(1 .. Len(s))
        /\ Cardinality(1 .. Len(s)) = IF 1 > Len(s) THEN 0 ELSE Len(s) - 1 + 1
    BY <1>1, FS_Interval
  <2> QED BY <1>1, <2>1
<1> QED BY <1>3, <1>4, FS_Bijection
-----------------------------------------------------------------------------
(* What the invariant says of blocks, slabs and allocations.               *)

In(x, b) == b[1] <= x /\ x < b[1] + BlockSize[b[2]]

\* A block the heap owns.
LEMMA HeldIs ==
  ASSUME BlockInv, NEW b \in held
  PROVE  /\ b = <<b[1], b[2]>> /\ b[1] \in Nat /\ b[2] \in Orders /\ b[1] > 0
         /\ BlockSize[b[2]] \in Nat /\ PAGE_SIZE <= BlockSize[b[2]] /\ BlockSize[b[2]] > 0
         /\ b[1] % BlockSize[b[2]] = 0 /\ b[1] % PAGE_SIZE = 0
<1>1. /\ b = <<b[1], b[2]>> /\ b[1] \in Nat /\ b[2] \in Orders
      /\ b[1] % BlockSize[b[2]] = 0 /\ b[1] >= PoolBase
  BY DEF BlockInv
<1>2. b[1] > 0
  <2>1. PoolBase \in Nat /\ PoolBase > 0
    BY HeapAssumption
  <2> QED BY <1>1, <2>1
<1>3. /\ BlockSize[b[2]] \in Nat /\ PAGE_SIZE <= BlockSize[b[2]] /\ BlockSize[b[2]] > 0
      /\ BlockSize[b[2]] % PAGE_SIZE = 0 /\ PAGE_SIZE \in Nat /\ PAGE_SIZE > 0
  BY <1>1, BlockIs, PageIs
<1>4. b[1] % PAGE_SIZE = 0
  BY <1>1, <1>3, MultipleOfMultiple
<1> QED BY <1>1, <1>2, <1>3, <1>4

\* No address is in two blocks.
LEMMA OneBlock ==
  ASSUME BlockInv, NEW b \in held, NEW d \in held, NEW x \in Nat, In(x, b), In(x, d)
  PROVE  b = d
<1>1. b # d => Apart(b, d)
  BY DEF BlockInv
<1>2. /\ b[1] \in Nat /\ BlockSize[b[2]] \in Nat
      /\ d[1] \in Nat /\ BlockSize[d[2]] \in Nat
  BY HeldIs
<1> QED BY <1>1, <1>2 DEF Apart, In

\* A slab page is a block of one page on the list of its class.
LEMMA SlabIs ==
  ASSUME BlockInv, SlabInv, NEW page \in SlabPages
  PROVE  /\ page \in Nat /\ page % PAGE_SIZE = 0 /\ <<page, 0>> \in held
         /\ \A x \in Nat : PageOf(x) = page => In(x, <<page, 0>>)
         /\ \E c \in Classes : page \in PagesOf(c) /\ SlabOf(page, c)
<1>1. PICK c \in Classes : page \in PagesOf(c) /\ SlabOf(page, c)
  BY DEF SlabInv
<1>2. <<page, 0>> \in held
  BY <1>1 DEF SlabOf
<1>3. page \in Nat /\ page % PAGE_SIZE = 0
  BY <1>2, HeldIs
<1>4. \A x \in Nat : PageOf(x) = page => In(x, <<page, 0>>)
  BY PageOfIs, PageIs, Zenon DEF In
<1> QED BY <1>1, <1>2, <1>3, <1>4

\* The class SlabClass finds is the one whose list the page is on.
LEMMA ClassIs ==
  ASSUME SlabInv, NEW c \in Classes, NEW page \in PagesOf(c)
  PROVE  SlabClass(page) = c /\ page \in SlabPages
<1>1. \A d \in Classes : (\E i \in 1 .. Len(m_slabs[d]) : m_slabs[d][i] = page) <=> page \in PagesOf(d)
  BY DEF PagesOf
<1>2. \A d \in Classes : page \in PagesOf(d) => d = c
  BY DEF SlabInv
<1>3. SlabClass(page) = c
  BY <1>1, <1>2 DEF SlabClass
<1> QED BY <1>3 DEF SlabInv

\* No address of a large block is in a slab page.
LEMMA NotSlab ==
  ASSUME BlockInv, SlabInv, NEW b \in held, b[1] \notin SlabPages,
         NEW x \in Nat, In(x, b)
  PROVE  PageOf(x) \notin SlabPages
<1>1. SUFFICES ASSUME PageOf(x) \in SlabPages PROVE FALSE
  OBVIOUS
<1>2. <<PageOf(x), 0>> \in held /\ In(x, <<PageOf(x), 0>>)
  BY <1>1, SlabIs
<1>3. b = <<PageOf(x), 0>>
  BY <1>2, OneBlock
<1> QED BY <1>1, <1>3

\* The header of a large allocation leads to its block, which it does not
\* leave; and Deallocate's tests tell it from a slot.
LEMMA LargeIs ==
  ASSUME BlockInv, SlabInv, LargeInv, LiveInv, NEW a \in live, LargeAt(a)
  PROVE  LET h == a.ptr - largeHeaderSize
             b == BlockOf(h)
         IN  /\ h \in DOMAIN large /\ h \in Nat /\ h + largeHeaderSize = a.ptr
             /\ b \in held /\ b[1] \notin SlabPages
             /\ b = <<a.ptr - large[h].userOffset, large[h].order>>
             /\ b[1] = a.ptr - a.align
             /\ a.ptr + a.size <= b[1] + BlockSize[b[2]]
             /\ In(a.ptr, b) /\ In(h, b)
             /\ a.ptr % a.align = 0
             /\ PageOf(a.ptr) \notin SlabPages
<1> DEFINE h == a.ptr - largeHeaderSize
           b == BlockOf(h)
           o == large[h].order
<1>1. /\ a.ptr \in Nat /\ a.size \in Nat /\ a.size > 0 /\ a.align \in Powers
      /\ a.align \in Nat /\ a.align > 0
  BY PowerIs DEF LiveInv
<1>2. /\ h \in DOMAIN large /\ large[h].userOffset = a.align
      /\ a.align + a.size <= BlockSize[o]
  BY DEF LargeAt
<1>3. h \in Nat /\ b \in held /\ b[1] \notin SlabPages /\ h + largeHeaderSize = a.ptr
  <2>1. h \in Nat /\ b \in held /\ b[1] \notin SlabPages
    <3> HIDE DEF h
    <3> QED BY <1>2 DEF LargeInv
  <2> QED BY <1>1, <2>1 DEF largeHeaderSize
<1>4. b = <<a.ptr - large[h].userOffset, o>> /\ b[1] = a.ptr - a.align /\ b[2] = o
  <2>1. b = <<h + largeHeaderSize - large[h].userOffset, o>>
    BY DEF BlockOf
  <2>2. b = <<a.ptr - large[h].userOffset, o>>
    <3> DEFINE u == large[h].userOffset
    <3>1. h + largeHeaderSize - u = a.ptr - u
      <4>1. h \in Nat /\ u \in Nat /\ h + largeHeaderSize = a.ptr
        BY <1>1, <1>2, <1>3
      <4> HIDE DEF u, h
      <4> QED BY <4>1 DEF largeHeaderSize
    <3> HIDE DEF b, h, o
    <3> QED BY <2>1, <3>1
  <2> HIDE DEF b, h, o
  <2> QED BY <1>2, <2>2
<1> HIDE DEF h, b, o
<1>5. /\ b[1] \in Nat /\ BlockSize[o] \in Nat /\ BlockSize[o] > 0 /\ BlockSize[o] \in Powers
      /\ b[1] % BlockSize[o] = 0
  BY <1>3, <1>4, HeldIs, BlockIs
<1>6. /\ a.ptr + a.size <= b[1] + BlockSize[b[2]] /\ In(a.ptr, b) /\ In(h, b)
  BY <1>1, <1>2, <1>3, <1>4, <1>5 DEF In, largeHeaderSize
<1>7. a.ptr % a.align = 0
  <2>1. BlockSize[o] % a.align = 0
    BY <1>1, <1>2, <1>5, PowersAssumption
  <2>2. b[1] % a.align = 0
    BY <1>1, <1>5, <2>1, MultipleOfMultiple, Zenon
  <2>3. a.align % a.align = 0
    BY <1>1
  <2>4. (b[1] + a.align) % a.align = 0
    BY <1>1, <1>5, <2>2, <2>3, MultipleSum
  <2>5. b[1] + a.align = a.ptr
    BY <1>1, <1>4, <1>5
  <2> QED BY <2>4, <2>5
<1>8. PageOf(a.ptr) \notin SlabPages
  BY <1>1, <1>3, <1>6, NotSlab
<1> QED BY <1>2, <1>3, <1>4, <1>6, <1>7, <1>8 DEF h, b, o

\* A small allocation is a slot of its page.
LEMMA SmallIs ==
  ASSUME BlockInv, SlabInv, LiveInv, NEW a \in live, SmallAt(a)
  PROVE  /\ a.ptr % PAGE_SIZE # 0 /\ a.ptr % a.align = 0
         /\ PageOf(a.ptr) \in SlabPages
         /\ PageOf(a.ptr) + slabHeaderSize <= a.ptr
         /\ a.ptr + a.size <= PageOf(a.ptr) + PAGE_SIZE
         /\ \E c \in Classes :
              /\ PageOf(a.ptr) \in PagesOf(c) /\ SlabOf(PageOf(a.ptr), c)
              /\ a.ptr \in Slots(PageOf(a.ptr), c) /\ a.size <= SLAB_CLASSES[c]
<1> DEFINE page == PageOf(a.ptr)
<1>1. /\ a.ptr \in Nat /\ a.size \in Nat /\ a.size > 0 /\ a.align \in Powers
      /\ a.align \in Nat /\ a.align > 0
  BY PowerIs DEF LiveInv
<1>2. PICK c \in Classes : /\ page \in PagesOf(c) /\ a.ptr \in Slots(page, c)
                           /\ a.size <= SLAB_CLASSES[c] /\ a.align <= SLAB_CLASSES[c]
  BY DEF SmallAt
<1> HIDE DEF page
<1>3. page \in SlabPages /\ SlabOf(page, c)
  BY <1>2 DEF SlabInv
<1>4. page \in Nat /\ page % PAGE_SIZE = 0 /\ PAGE_SIZE \in Nat
  BY <1>3, SlabIs, PageIs, Zenon
<1>5. /\ a.ptr % SLAB_CLASSES[c] = 0 /\ page + slabHeaderSize <= a.ptr
      /\ a.ptr + SLAB_CLASSES[c] <= page + PAGE_SIZE
      /\ a.ptr % PAGE_SIZE # 0
  BY <1>2, <1>4, SlotsAre, SlotPage
<1>6. /\ SLAB_CLASSES[c] \in Nat /\ SLAB_CLASSES[c] > 0 /\ SLAB_CLASSES[c] \in Powers
  BY ClassAssumption DEF Classes, Powers
<1>7. a.ptr % a.align = 0
  <2>1. SLAB_CLASSES[c] % a.align = 0
    BY <1>1, <1>2, <1>6, PowersAssumption
  <2> QED BY <1>1, <1>5, <1>6, <2>1, MultipleOfMultiple, Zenon
<1>8. a.ptr + a.size <= page + PAGE_SIZE
  BY <1>1, <1>2, <1>4, <1>5, <1>6
<1> QED BY <1>2, <1>3, <1>5, <1>7, <1>8 DEF page
-----------------------------------------------------------------------------
(* The invariant implies the properties.                                   *)

\* Every allocation is aligned and inside a block of the heap's.
LEMMA InvFits == IInv => Fits
<1> SUFFICES ASSUME IInv, NEW a \in live
             PROVE  /\ a.ptr % a.align = 0
                    /\ \E b \in held : b[1] <= a.ptr /\ a.ptr + a.size <= b[1] + BlockSize[b[2]]
  BY DEF Fits
<1> USE DEF IInv
<1>1. a.ptr \in Nat
  BY DEF LiveInv
<1>2. CASE SmallAt(a)
  <2>1. a.ptr % a.align = 0 /\ a.ptr + a.size <= PageOf(a.ptr) + PAGE_SIZE
    BY <1>2, SmallIs
  <2>2. <<PageOf(a.ptr), 0>> \in held
    BY <1>2, SmallIs, SlabIs
  <2>3. PageOf(a.ptr) <= a.ptr
    BY <1>1, PageOfIs
  <2> QED BY <2>1, <2>2, <2>3, PageIs
<1>3. CASE LargeAt(a)
  BY <1>3, LargeIs DEF In
<1> QED BY <1>2, <1>3 DEF LiveInv

\* The heap owns its slab pages and the blocks of its large allocations.
LEMMA InvOwned == IInv => OwnedExactly
<1> SUFFICES ASSUME IInv PROVE OwnedExactly
  OBVIOUS
<1> USE DEF IInv
<1>1. {b[1] : b \in {h \in held : h[1] \in SlabPages}} = SlabPages
  <2>1. \A page \in SlabPages : <<page, 0>> \in held /\ <<page, 0>>[1] = page
    BY SlabIs, Zenon
  <2> QED BY <2>1, Zenon
<1>2. ASSUME NEW b \in held, b[1] \notin SlabPages
      PROVE  \E a \in live : b[1] <= a.ptr /\ a.ptr < b[1] + BlockSize[b[2]]
  <2>1. PICK h \in DOMAIN large : BlockOf(h) = b
    BY <1>2 DEF LargeInv
  <2>2. PICK a \in live : a.ptr = h + largeHeaderSize /\ LargeAt(a)
    BY DEF LargeInv
  <2>3. a.ptr - largeHeaderSize = h
    BY <2>2 DEF LargeInv, largeHeaderSize
  <2>4. In(a.ptr, BlockOf(a.ptr - largeHeaderSize))
    BY <2>2, LargeIs
  <2>5. In(a.ptr, b)
    BY <2>1, <2>3, <2>4
  <2> QED BY <2>5 DEF In
<1> QED BY <1>1, <1>2 DEF OwnedExactly

\* The elements of a list.
LEMMA ElementsAre ==
  ASSUME NEW s \in Seq(Nat)
  PROVE  {s[i] : i \in 1 .. Len(s)} = Range(s)
<1>1. \A x : x \in Range(s) <=> \E i \in 1 .. Len(s) : s[i] = x
  BY InjectiveSeq
<1> QED BY <1>1

\* The slots of every slab are free or taken.
LEMMA InvSlots == IInv => SlotsConserved
<1> SUFFICES ASSUME IInv, NEW page \in SlabPages
             PROVE  LET slots == NewSlots(page, SlabClass(page))
                        taken == {a.ptr : a \in {b \in live : PageOf(b.ptr) = page}}
                    IN  /\ Cardinality(FreeSlots(page)) = Len(freeList[page])
                        /\ inUse[page] = Cardinality(taken)
                        /\ FreeSlots(page) \cap taken = {}
                        /\ FreeSlots(page) \cup taken = {slots[i] : i \in 1 .. Len(slots)}
  BY Zenon DEF SlotsConserved
<1> USE DEF IInv
<1>1. PICK c \in Classes : page \in PagesOf(c) /\ SlabOf(page, c)
  BY SlabIs, Zenon
<1>2. SlabClass(page) = c
  BY <1>1, ClassIs
<1>3. Cardinality(FreeSlots(page)) = Len(freeList[page])
  <2>1. freeList[page] \in Seq(Nat) /\ IsInjective(freeList[page])
    BY <1>1 DEF SlabOf
  <2>2. FreeSlots(page) = Range(freeList[page])
    BY <2>1, ElementsAre DEF FreeSlots
  <2> QED BY <2>1, <2>2, InjectiveCount
<1> QED BY <1>1, <1>2, <1>3, Zenon DEF SlabOf, Taken, Slots

\* Two slots of a page are a slot apart.
LEMMA SlotsApart ==
  ASSUME NEW page \in Nat, page % PAGE_SIZE = 0, NEW c \in Classes,
         NEW x \in Slots(page, c), NEW y \in Slots(page, c), x < y
  PROVE  x + SLAB_CLASSES[c] <= y
<1>1. /\ x \in Nat /\ y \in Nat /\ x % SLAB_CLASSES[c] = 0 /\ y % SLAB_CLASSES[c] = 0
      /\ SLAB_CLASSES[c] \in Nat /\ SLAB_CLASSES[c] > 0
  BY SlotsAre, ClassAssumption DEF Classes
<1> QED BY <1>1, MultiplesApart, Zenon

\* The block an allocation is in: its slab page or its own block.
Home(a) == IF SmallAt(a) THEN <<PageOf(a.ptr), 0>> ELSE BlockOf(a.ptr - largeHeaderSize)

\* An allocation lies in its block.
LEMMA HomeIs ==
  ASSUME IInv, NEW a \in live
  PROVE  /\ Home(a) \in held /\ a.ptr \in Nat /\ a.size \in Nat /\ a.size > 0
         /\ \A x \in Units(a.ptr, a.size) : x \in Nat /\ In(x, Home(a))
<1> USE DEF IInv
<1>1. a.ptr \in Nat /\ a.size \in Nat /\ a.size > 0
  BY DEF LiveInv
<1>2. /\ Home(a) \in held
      /\ Home(a)[1] <= a.ptr /\ a.ptr + a.size <= Home(a)[1] + BlockSize[Home(a)[2]]
  <2>1. CASE SmallAt(a)
    <3>1. Home(a) = <<PageOf(a.ptr), 0>>
      BY <2>1 DEF Home
    <3>2. <<PageOf(a.ptr), 0>> \in held /\ a.ptr + a.size <= PageOf(a.ptr) + PAGE_SIZE
      BY <2>1, SmallIs, SlabIs
    <3>3. PageOf(a.ptr) <= a.ptr
      BY <1>1, PageOfIs
    <3> QED BY <3>1, <3>2, <3>3, PageIs
  <2>2. CASE ~ SmallAt(a)
    <3>1. Home(a) = BlockOf(a.ptr - largeHeaderSize) /\ LargeAt(a)
      BY <2>2 DEF Home, LiveInv
    <3> QED BY <3>1, LargeIs DEF In
  <2> QED BY <2>1, <2>2
<1>3. Home(a)[1] \in Nat /\ BlockSize[Home(a)[2]] \in Nat
  BY <1>2, HeldIs
<1> QED BY <1>1, <1>2, <1>3 DEF Units, In

\* Two allocations share no unit.
LEMMA LiveApart ==
  ASSUME IInv, NEW a \in live, NEW b \in live, a # b
  PROVE  Units(a.ptr, a.size) \cap Units(b.ptr, b.size) = {}
<1> USE DEF IInv
<1>1. SUFFICES ASSUME NEW x \in Units(a.ptr, a.size), x \in Units(b.ptr, b.size) PROVE FALSE
  OBVIOUS
<1>2. Home(a) = Home(b)
  BY <1>1, HomeIs, OneBlock
<1>3. a.ptr # b.ptr
  BY DEF LiveInv
<1>4. CASE SmallAt(a) /\ SmallAt(b)
  <2>1. PageOf(a.ptr) = PageOf(b.ptr)
    BY <1>2, <1>4 DEF Home
  <2> DEFINE page == PageOf(a.ptr)
  <2>2. PICK c \in Classes : /\ page \in PagesOf(c) /\ a.ptr \in Slots(page, c)
                             /\ a.size <= SLAB_CLASSES[c]
    BY <1>4, SmallIs
  <2>3. PICK d \in Classes : /\ page \in PagesOf(d) /\ b.ptr \in Slots(page, d)
                             /\ b.size <= SLAB_CLASSES[d]
    BY <1>4, <2>1, SmallIs
  <2>4. page \in Nat /\ page % PAGE_SIZE = 0
    BY <1>4, SmallIs, SlabIs, Zenon
  <2> HIDE DEF page
  <2>5. c = d
    BY <2>2, <2>3, ClassIs
  <2>6. /\ a.ptr < b.ptr => a.ptr + SLAB_CLASSES[c] <= b.ptr
        /\ b.ptr < a.ptr => b.ptr + SLAB_CLASSES[c] <= a.ptr
    BY <2>2, <2>3, <2>4, <2>5, SlotsApart
  <2>7. /\ a.ptr \in Nat /\ a.size \in Nat /\ b.ptr \in Nat /\ b.size \in Nat
        /\ SLAB_CLASSES[c] \in Nat
    BY HomeIs, ClassAssumption DEF Classes
  <2> QED BY <1>1, <1>3, <2>2, <2>3, <2>5, <2>6, <2>7 DEF Units
<1>5. ASSUME NEW s \in live, NEW l \in live, SmallAt(s), ~ SmallAt(l) PROVE Home(s) # Home(l)
  <2>1. LargeAt(l) /\ Home(l) = BlockOf(l.ptr - largeHeaderSize) /\ Home(s) = <<PageOf(s.ptr), 0>>
    BY <1>5 DEF LiveInv, Home
  <2>2. Home(l)[1] \notin SlabPages /\ PageOf(s.ptr) \in SlabPages
    BY <1>5, <2>1, LargeIs, SmallIs
  <2> QED BY <2>1, <2>2
<1>6. CASE ~ SmallAt(a) /\ ~ SmallAt(b)
  <2>1. /\ LargeAt(a) /\ Home(a) = BlockOf(a.ptr - largeHeaderSize)
        /\ LargeAt(b) /\ Home(b) = BlockOf(b.ptr - largeHeaderSize)
    BY <1>6 DEF LiveInv, Home
  <2>2. /\ a.ptr - largeHeaderSize \in DOMAIN large /\ (a.ptr - largeHeaderSize) + largeHeaderSize = a.ptr
        /\ b.ptr - largeHeaderSize \in DOMAIN large /\ (b.ptr - largeHeaderSize) + largeHeaderSize = b.ptr
    BY <2>1, LargeIs
  <2>3. a.ptr - largeHeaderSize = b.ptr - largeHeaderSize
    BY <1>2, <2>1, <2>2, Zenon DEF LargeInv
  <2> QED BY <1>3, <2>2, <2>3
<1> QED BY <1>2, <1>4, <1>5, <1>6

\* An allocation shares no unit with a header or a free slot.
LEMMA MetadataApart ==
  ASSUME IInv, NEW a \in live
  PROVE  Units(a.ptr, a.size) \cap Metadata = {}
<1> USE DEF IInv
<1>1. SUFFICES ASSUME NEW x \in Units(a.ptr, a.size), x \in Metadata PROVE FALSE
  OBVIOUS
<1>2. x \in Nat /\ In(x, Home(a)) /\ Home(a) \in held /\ a.ptr <= x /\ x < a.ptr + a.size
  BY <1>1, HomeIs DEF Units
<1>3. ASSUME NEW page \in SlabPages, In(x, <<page, 0>>)
      PROVE  SmallAt(a) /\ PageOf(a.ptr) = page
  <2>1. Home(a) = <<page, 0>>
    BY <1>2, <1>3, SlabIs, OneBlock
  <2>2. SmallAt(a)
    <3>1. ~ SmallAt(a) => LargeAt(a) /\ Home(a) = BlockOf(a.ptr - largeHeaderSize)
      BY DEF LiveInv, Home
    <3>2. ~ SmallAt(a) => Home(a)[1] \notin SlabPages
      BY <3>1, LargeIs
    <3> QED BY <2>1, <3>2
  <2> QED BY <2>1, <2>2 DEF Home
<1>4. ASSUME NEW page \in SlabPages, x \in Units(page, slabHeaderSize) PROVE FALSE
  <2>1. page \in Nat /\ In(x, <<page, 0>>)
    <3>1. page \in Nat /\ PAGE_SIZE \in Nat /\ slabHeaderSize <= PAGE_SIZE
      <4>1. 1 \in Classes
        BY ClassAssumption DEF Classes
      <4>2. SLAB_CLASSES[1] \in Nat /\ slabHeaderSize + 2 * SLAB_CLASSES[1] <= PAGE_SIZE
        BY <4>1, ClassAssumption DEF Classes
      <4>3. PAGE_SIZE \in Nat /\ page \in Nat
        BY <1>4, SlabIs, PageIs, Zenon
      <4> DEFINE s == SLAB_CLASSES[1]
      <4>4. s \in Nat /\ slabHeaderSize + 2 * s <= PAGE_SIZE
        BY <4>2
      <4> HIDE DEF s
      <4> QED BY <4>3, <4>4 DEF slabHeaderSize
    <3> QED BY <1>4, <3>1, PageIs DEF Units, In, slabHeaderSize
  <2>2. SmallAt(a) /\ PageOf(a.ptr) = page
    BY <1>3, <1>4, <2>1
  <2>3. page + slabHeaderSize <= a.ptr
    BY <2>2, SmallIs
  <2> QED BY <1>2, <1>4, <2>1, <2>3, HomeIs DEF Units, slabHeaderSize
<1>5. ASSUME x \in DOMAIN large PROVE FALSE
  <2>1. PICK b \in live : b.ptr = x + largeHeaderSize /\ LargeAt(b)
    BY <1>5 DEF LargeInv
  <2>2. b.ptr - largeHeaderSize = x
    BY <1>2, <2>1 DEF largeHeaderSize
  <2>3. BlockOf(x) \in held /\ BlockOf(x)[1] \notin SlabPages /\ In(x, BlockOf(x))
    BY <2>1, <2>2, LargeIs
  <2>4. Home(a) = BlockOf(x)
    BY <1>2, <2>3, OneBlock
  <2>5. LargeAt(a) /\ Home(a) = BlockOf(a.ptr - largeHeaderSize)
    <3>1. SmallAt(a) => Home(a)[1] = PageOf(a.ptr) /\ PageOf(a.ptr) \in SlabPages
      BY SmallIs DEF Home
    <3>2. ~ SmallAt(a)
      BY <2>3, <2>4, <3>1
    <3> QED BY <3>2 DEF LiveInv, Home
  <2>6. a.ptr - largeHeaderSize \in DOMAIN large
    BY <2>5, LargeIs
  <2>7. a.ptr - largeHeaderSize = x
    BY <1>5, <2>4, <2>5, <2>6, Zenon DEF LargeInv
  <2> QED BY <1>2, <2>7, HomeIs DEF largeHeaderSize
<1>6. ASSUME NEW page \in SlabPages, x \in FreeSlots(page) PROVE FALSE
  <2>1. PICK c \in Classes : page \in PagesOf(c) /\ SlabOf(page, c)
    BY <1>6, SlabIs, Zenon
  <2>2. page \in Nat /\ page % PAGE_SIZE = 0 /\ x \in Slots(page, c) /\ x \notin Taken(page)
    BY <1>6, <2>1, SlabIs DEF SlabOf
  <2>3. PageOf(x) = page
    BY <2>2, SlotPage
  <2>4. SmallAt(a) /\ PageOf(a.ptr) = page
    BY <1>2, <1>3, <1>6, <2>3, SlabIs, Zenon
  <2>5. PICK d \in Classes : /\ page \in PagesOf(d) /\ a.ptr \in Slots(page, d)
                             /\ a.size <= SLAB_CLASSES[d]
    BY <2>4, SmallIs
  <2>6. c = d
    BY <2>1, <2>5, ClassIs
  <2>7. a.ptr # x
    BY <2>2, <2>4 DEF Taken
  <2>8. a.ptr < x => a.ptr + SLAB_CLASSES[c] <= x
    BY <2>2, <2>5, <2>6, SlotsApart
  <2>9. SLAB_CLASSES[c] \in Nat
    BY ClassAssumption DEF Classes
  <2> QED BY <1>2, <2>5, <2>6, <2>7, <2>8, <2>9, HomeIs
<1> QED BY <1>1, <1>4, <1>5, <1>6 DEF Metadata

\* Allocations are apart from each other and from the heap's own data.
LEMMA InvNoOverlap == IInv => NoOverlap
  BY LiveApart, MetadataApart DEF NoOverlap
-----------------------------------------------------------------------------
(* What a step may leave alone.                                            *)

\* A block the page allocator may hand out is aligned and apart from the ones
\* the heap has.
LEMMA FreeBlockIs ==
  ASSUME BlockInv, NEW o \in Orders, NEW b \in FreeBlocks(o)
  PROVE  /\ b = <<b[1], o>> /\ b[2] = o /\ b[1] \in Nat /\ b[1] >= PoolBase
         /\ b[1] % BlockSize[o] = 0
         /\ \A d \in held : Apart(b, d) /\ Apart(d, b)
         /\ b \notin held
<1>1. PICK k \in 0 .. PoolPages : b = <<PoolBase + k * BlockSize[o], o>>
  BY DEF FreeBlocks
<1>2. \A d \in held : d[1] + BlockSize[d[2]] <= b[1] \/ b[1] + BlockSize[o] <= d[1]
  BY DEF FreeBlocks
<1> DEFINE s == BlockSize[o]
           m == k * s
<1>3. s \in Nat /\ s > 0 /\ PoolBase \in Nat /\ k \in Nat
  BY BlockIs, HeapAssumption
<1>4. PoolBase % s = 0
  <2>1. MAX_ORDER \in Orders /\ o <= MAX_ORDER
    BY HeapAssumption DEF Orders
  <2>2. BlockSize[MAX_ORDER] % s = 0 /\ BlockSize[MAX_ORDER] \in Nat /\ BlockSize[MAX_ORDER] > 0
    BY <2>1, BlockIs
  <2>3. PoolBase % BlockSize[MAX_ORDER] = 0
    BY BlockAssumption
  <2> HIDE DEF s
  <2> QED BY <1>3, <2>2, <2>3, MultipleOfMultiple, Zenon
<1>5. m \in Nat /\ m % s = 0
  <2> HIDE DEF s
  <2> QED BY <1>3, Times
<1>6. PoolBase + m \in Nat /\ PoolBase + m >= PoolBase /\ (PoolBase + m) % s = 0
  <2> HIDE DEF m, s
  <2>1. (PoolBase + m) % s = 0
    BY <1>3, <1>4, <1>5, MultipleSum, Zenon
  <2> QED BY <1>3, <1>5, <2>1
<1>7. b = <<PoolBase + m, o>>
  BY <1>1
<1> HIDE DEF m, s
<1>8. /\ b = <<b[1], o>> /\ b[2] = o /\ b[1] = PoolBase + m
  BY <1>7
<1>9. \A d \in held : Apart(b, d) /\ Apart(d, b)
  BY <1>2, <1>8 DEF Apart
<1>10. b \notin held
  <2>1. Apart(b, b) => FALSE
    BY <1>3, <1>6, <1>8 DEF Apart, s
  <2> QED BY <1>9, <2>1
<1> QED BY <1>6, <1>8, <1>9, <1>10 DEF s

\* An address of a block that is handed out is in no block the heap has.
LEMMA FreshAddress ==
  ASSUME BlockInv, NEW o \in Orders, NEW b \in FreeBlocks(o), NEW x \in Nat, In(x, b),
         NEW d \in held
  PROVE  ~ In(x, d)
<1>1. Apart(b, d) /\ b[1] \in Nat /\ b[2] = o /\ BlockSize[o] \in Nat
  BY FreeBlockIs, BlockIs
<1>2. d[1] \in Nat /\ BlockSize[d[2]] \in Nat
  BY HeldIs
<1> QED BY <1>1, <1>2 DEF Apart, In

\* Taking a block from the page allocator.
LEMMA BlockTaken ==
  ASSUME BlockInv, NEW o \in Orders, NEW b \in FreeBlocks(o), held' = held \cup {b}
  PROVE  BlockInv'
<1>1. /\ b = <<b[1], o>> /\ b[2] = o /\ b[1] \in Nat /\ b[1] >= PoolBase
      /\ b[1] % BlockSize[o] = 0
      /\ \A d \in held : Apart(b, d) /\ Apart(d, b)
  BY FreeBlockIs
<1>2. held' \subseteq Nat \X Orders
  BY <1>1 DEF BlockInv
<1>3. \A d \in held' : d[1] >= PoolBase /\ d[1] % BlockSize[d[2]] = 0
  BY <1>1 DEF BlockInv
<1>4. \A d, e \in held' : d # e => Apart(d, e)
  BY <1>1, Zenon DEF BlockInv
<1> QED BY <1>2, <1>3, <1>4 DEF BlockInv, Apart

\* A slab a step does not touch.
LEMMA SlabKept ==
  ASSUME NEW c \in Classes, NEW page, SlabOf(page, c),
         <<page, 0>> \in held', freeList'[page] = freeList[page],
         inUse'[page] = inUse[page], Taken(page)' = Taken(page)
  PROVE  SlabOf(page, c)'
<1>1. FreeSlots(page)' = FreeSlots(page)
  BY DEF FreeSlots
<1>2. /\ freeList'[page] \in Seq(Nat) /\ IsInjective(freeList'[page])
      /\ inUse'[page] = Cardinality(Taken(page)')
      /\ FreeSlots(page)' \cap Taken(page)' = {}
      /\ FreeSlots(page)' \cup Taken(page)' = Slots(page, c)
  BY <1>1, Zenon DEF SlabOf
<1> QED BY <1>2 DEF SlabOf, Slots

\* A step that touches no slab.
LEMMA SlabsKept ==
  ASSUME SlabInv, UNCHANGED <<m_slabs, freeList, inUse, slabMagic>>,
         \A page \in SlabPages : <<page, 0>> \in held => <<page, 0>> \in held',
         \A page \in SlabPages : Taken(page)' = Taken(page)
  PROVE  SlabInv' /\ SlabPages' = SlabPages /\ \A c \in Classes : PagesOf(c)' = PagesOf(c)
<1>1. SlabPages' = SlabPages /\ \A c \in Classes : PagesOf(c)' = PagesOf(c)
  BY DEF SlabPages, PagesOf
<1>2. ASSUME NEW c \in Classes, NEW page \in PagesOf(c) PROVE SlabOf(page, c)'
  <2>1. SlabOf(page, c) /\ page \in SlabPages
    BY <1>2 DEF SlabInv
  <2>2. <<page, 0>> \in held'
    BY <2>1 DEF SlabOf
  <2> QED BY <2>1, <2>2, SlabKept
<1> QED BY <1>1, <1>2 DEF SlabInv

\* The addresses taken after an allocation.
LEMMA TakenAdds ==
  ASSUME NEW x, NEW size, NEW align, Give(x, size, align)
  PROVE  /\ \A page : PageOf(x) # page => Taken(page)' = Taken(page)
         /\ Taken(PageOf(x))' = Taken(PageOf(x)) \cup {x}
<1> DEFINE n == [ptr |-> x, size |-> size, align |-> align]
<1>1. live' = live \cup {n} /\ n.ptr = x
  BY DEF Give
<1> HIDE DEF n
<1>2. \A page : Taken(page)' = {a.ptr : a \in {d \in live' : PageOf(d.ptr) = page}}
  BY DEF Taken, PageOf
<1> QED BY <1>1, <1>2 DEF Taken

\* The addresses taken after a deletion.
LEMMA TakenLoses ==
  ASSUME LiveInv, NEW a \in live, live' = live \ {a}
  PROVE  /\ \A page : PageOf(a.ptr) # page => Taken(page)' = Taken(page)
         /\ Taken(PageOf(a.ptr))' = Taken(PageOf(a.ptr)) \ {a.ptr}
<1>1. \A d \in live : d.ptr = a.ptr => d = a
  BY DEF LiveInv
<1>2. \A page : Taken(page)' = {e.ptr : e \in {d \in live' : PageOf(d.ptr) = page}}
  BY DEF Taken, PageOf
<1> QED BY <1>1, <1>2 DEF Taken

\* A step that makes and removes no large header.
LEMMA LargesKept ==
  ASSUME LargeInv, large' = large,
         \A h \in DOMAIN large : BlockOf(h) \in held' /\ BlockOf(h)[1] \notin SlabPages',
         \A a \in live : LargeAt(a) => a \in live',
         \A b \in held' : b[1] \in SlabPages' \/ b \in held,
         SlabPages \subseteq SlabPages'
  PROVE  LargeInv' /\ \A a : LargeAt(a) => LargeAt(a)'
<1>1. \A a : LargeAt(a)' <=> LargeAt(a)
  BY DEF LargeAt
<1>2. \A h : BlockOf(h)' = BlockOf(h)
  BY DEF BlockOf
<1>3. ASSUME NEW h \in DOMAIN large'
      PROVE  /\ h \in Nat /\ large'[h] \in [order : Orders, userOffset : Nat \ {0}]
             /\ BlockOf(h)' \in held' /\ BlockOf(h)'[1] \notin SlabPages'
             /\ \E a \in live' : a.ptr = h + largeHeaderSize /\ LargeAt(a)'
  BY <1>1, <1>2 DEF LargeInv
<1>4. \A g, h \in DOMAIN large' : BlockOf(g)' = BlockOf(h)' => g = h
  BY <1>2 DEF LargeInv
<1>5. \A b \in held' : b[1] \in SlabPages' \/ \E h \in DOMAIN large' : BlockOf(h)' = b
  BY <1>2 DEF LargeInv
<1>6. LargeInv'
  BY <1>3, <1>4, <1>5 DEF LargeInv
<1> QED BY <1>1, <1>6

\* An allocation at a new address.
LEMMA LiveAdds ==
  ASSUME LiveInv, NEW x \in Nat, NEW size \in Nat \ {0}, NEW align \in Powers,
         Give(x, size, align), \A a \in live : a.ptr # x,
         \A a \in live : SmallAt(a) \/ LargeAt(a) => SmallAt(a)' \/ LargeAt(a)',
         \A a : a = [ptr |-> x, size |-> size, align |-> align] => SmallAt(a)' \/ LargeAt(a)'
  PROVE  LiveInv'
<1> DEFINE n == [ptr |-> x, size |-> size, align |-> align]
<1>1. live' = live \cup {n} /\ n.ptr = x /\ n \in [ptr : Nat, size : Nat \ {0}, align : Powers]
  BY DEF Give
<1>2. SmallAt(n)' \/ LargeAt(n)'
  OBVIOUS
<1> HIDE DEF n
<1>3. live' \subseteq [ptr : Nat, size : Nat \ {0}, align : Powers]
  BY <1>1 DEF LiveInv
<1>4. \A a \in live' : SmallAt(a)' \/ LargeAt(a)'
  BY <1>1, <1>2 DEF LiveInv
<1>5. \A a, d \in live' : a.ptr = d.ptr => a = d
  BY <1>1 DEF LiveInv
<1> QED BY <1>3, <1>4, <1>5 DEF LiveInv, Powers, Classes, DEFAULT_NEW_ALIGN

\* A deletion.
LEMMA LiveLoses ==
  ASSUME LiveInv, NEW a \in live, live' = live \ {a},
         \A d \in live \ {a} : SmallAt(d) \/ LargeAt(d) => SmallAt(d)' \/ LargeAt(d)'
  PROVE  LiveInv'
<1>3. live' \subseteq [ptr : Nat, size : Nat \ {0}, align : Powers]
  BY DEF LiveInv
<1>4. \A d \in live' : SmallAt(d)' \/ LargeAt(d)'
  BY DEF LiveInv
<1>5. \A d, e \in live' : d.ptr = e.ptr => d = e
  BY DEF LiveInv
<1> QED BY <1>3, <1>4, <1>5 DEF LiveInv, Powers, Classes, DEFAULT_NEW_ALIGN

\* A slot stays where it is while its slab stays on its list.
LEMMA SmallKept ==
  ASSUME \A c \in Classes : PagesOf(c) \subseteq PagesOf(c)'
  PROVE  \A a : SmallAt(a) => SmallAt(a)'
<1> SUFFICES ASSUME NEW a, SmallAt(a) PROVE SmallAt(a)'
  OBVIOUS
<1>1. PICK c \in Classes : /\ PageOf(a.ptr) \in PagesOf(c)
                           /\ a.ptr \in Slots(PageOf(a.ptr), c)
                           /\ a.size <= SLAB_CLASSES[c] /\ a.align <= SLAB_CLASSES[c]
  BY DEF SmallAt
<1>2. PageOf(a.ptr) \in PagesOf(c)'
  BY <1>1
<1> QED BY <1>1, <1>2 DEF SmallAt
-----------------------------------------------------------------------------
(* Every step keeps the invariant.                                         *)

\* The slots of a page, and so the taken ones, are finitely many.
LEMMA SlotsFinite ==
  ASSUME NEW page \in Nat, page % PAGE_SIZE = 0, NEW c \in Classes,
         NEW S \in SUBSET Slots(page, c)
  PROVE  IsFiniteSet(S)
<1>1. IsFiniteSet(Slots(page, c))
  BY SlotsAre, InjectiveCount
<1> QED BY <1>1, FS_Subset

\* A step that changes at most the result.
LEMMA UnchangedKeeps ==
  ASSUME IInv, UNCHANGED <<held, m_slabs, freeList, inUse, large, slabMagic, live, panic>>
  PROVE  IInv'
<1>1. UNCHANGED <<held, m_slabs, freeList, inUse, large, slabMagic, live, panic>>
  OBVIOUS
<1>2. \A page : Taken(page)' = Taken(page)
  BY <1>1 DEF Taken, PageOf
<1>3. BlockInv'
  BY <1>1 DEF IInv, BlockInv, Apart
<1>4. SlabInv' /\ SlabPages' = SlabPages /\ \A c \in Classes : PagesOf(c)' = PagesOf(c)
  BY <1>1, <1>2, SlabsKept DEF IInv
<1>5. LargeInv' /\ \A a : LargeAt(a) => LargeAt(a)'
  BY <1>1, <1>4, LargesKept DEF IInv, LargeInv
<1>6. \A a : SmallAt(a) => SmallAt(a)'
  BY <1>4, SmallKept
<1>7. LiveInv'
  BY <1>1, <1>5, <1>6 DEF IInv, LiveInv
<1> QED BY <1>1, <1>3, <1>4, <1>5, <1>7 DEF IInv, NoPanic

\* A slab hands out the head of its free list.
LEMMA TakeKeeps ==
  ASSUME IInv, NEW c \in Classes, NEW page \in PagesOf(c), freeList[page] # <<>>,
         NEW size \in Nat \ {0}, NEW align \in Powers,
         size <= SLAB_CLASSES[c], align <= SLAB_CLASSES[c],
         TakeSlot(page, size, align), panic' = panic
  PROVE  IInv'
<1> USE DEF IInv
<1> DEFINE x == Head(freeList[page])
<1>1. SlabOf(page, c) /\ page \in SlabPages
  BY DEF SlabInv
<1>2. page \in Nat /\ page % PAGE_SIZE = 0 /\ <<page, 0>> \in held
  BY <1>1, SlabIs
<1>3. freeList[page] \in Seq(Nat) /\ IsInjective(freeList[page]) /\ FreeSlots(page) = Range(freeList[page])
  <2>1. freeList[page] \in Seq(Nat) /\ IsInjective(freeList[page])
    BY <1>1 DEF SlabOf
  <2> QED BY <2>1, ElementsAre DEF FreeSlots
<1>4. /\ x \in FreeSlots(page) /\ x \in Nat
      /\ Tail(freeList[page]) \in Seq(Nat) /\ IsInjective(Tail(freeList[page]))
      /\ Range(Tail(freeList[page])) = FreeSlots(page) \ {x}
  BY <1>3, PopSeq
<1>5. x \in Slots(page, c) /\ x \notin Taken(page)
  BY <1>1, <1>4 DEF SlabOf
<1>6. PageOf(x) = page
  BY <1>2, <1>5, SlotPage
<1>7. /\ freeList' = [freeList EXCEPT ![page] = Tail(@)]
      /\ inUse' = [inUse EXCEPT ![page] = @ + 1]
      /\ Give(x, size, align)
      /\ UNCHANGED <<held, m_slabs, large, slabMagic>>
  BY DEF TakeSlot
<1> HIDE DEF x
<1>8. /\ \A p : p # page => Taken(p)' = Taken(p)
      /\ Taken(page)' = Taken(page) \cup {x}
  BY <1>6, <1>7, TakenAdds
<1>9. \A a \in live : a.ptr # x
  BY <1>5, <1>6 DEF Taken
<1>10. /\ DOMAIN freeList' = DOMAIN freeList /\ DOMAIN inUse' = DOMAIN inUse
       /\ freeList'[page] = Tail(freeList[page]) /\ inUse'[page] = inUse[page] + 1
       /\ \A p \in SlabPages : p # page => freeList'[p] = freeList[p] /\ inUse'[p] = inUse[p]
  BY <1>1, <1>7 DEF SlabPages, SlabInv
<1>11. SlabPages' = SlabPages /\ \A d \in Classes : PagesOf(d)' = PagesOf(d)
  BY <1>7, <1>10 DEF SlabPages, PagesOf
<1>12. SlabOf(page, c)'
  <2>1. FreeSlots(page)' = FreeSlots(page) \ {x}
    BY <1>4, <1>10, ElementsAre, Zenon DEF FreeSlots
  <2>2. inUse'[page] = Cardinality(Taken(page)')
    <3>1. IsFiniteSet(Taken(page))
      BY <1>1, <1>2, SlotsFinite DEF SlabOf
    <3>2. Cardinality(Taken(page) \cup {x}) = Cardinality(Taken(page)) + 1
      BY <1>5, <3>1, FS_AddElement, Zenon
    <3>3. inUse[page] = Cardinality(Taken(page))
      BY <1>1 DEF SlabOf
    <3> QED BY <1>8, <1>10, <3>2, <3>3
  <2>3. /\ FreeSlots(page) \cap Taken(page) = {}
        /\ FreeSlots(page) \cup Taken(page) = Slots(page, c)
    BY <1>1 DEF SlabOf
  <2>4. /\ FreeSlots(page)' \cap Taken(page)' = {}
        /\ FreeSlots(page)' \cup Taken(page)' = Slots(page, c)
    BY <1>4, <1>8, <2>1, <2>3
  <2>5. freeList'[page] \in Seq(Nat) /\ IsInjective(freeList'[page]) /\ <<page, 0>> \in held'
    BY <1>2, <1>4, <1>7, <1>10
  <2> QED BY <2>2, <2>4, <2>5 DEF SlabOf, Slots
<1>13. SlabInv'
  <2>1. ASSUME NEW d \in Classes, NEW p \in PagesOf(d) PROVE SlabOf(p, d)'
    <3>1. SlabOf(p, d) /\ p \in SlabPages /\ <<p, 0>> \in held'
      BY <1>7, <2>1 DEF SlabInv, SlabOf
    <3>2. p = page => d = c
      BY ClassIs, <2>1
    <3>3. p # page => SlabOf(p, d)'
      BY <1>8, <1>10, <3>1, SlabKept
    <3> QED BY <1>12, <3>2, <3>3
  <2> QED BY <1>7, <1>10, <1>11, <2>1 DEF SlabInv
<1>14. BlockInv'
  BY <1>7 DEF BlockInv, Apart
<1>15. LargeInv' /\ \A a : LargeAt(a) => LargeAt(a)'
  <2>1. live \subseteq live'
    BY <1>7 DEF Give
  <2> QED BY <1>7, <1>11, <2>1, LargesKept, Zenon DEF LargeInv
<1>16. LiveInv'
  <2>1. \A a : SmallAt(a) => SmallAt(a)'
    BY <1>11, SmallKept
  <2>2. \A a : a = [ptr |-> x, size |-> size, align |-> align] => SmallAt(a)'
    <3> SUFFICES ASSUME NEW a, a = [ptr |-> x, size |-> size, align |-> align] PROVE SmallAt(a)'
      OBVIOUS
    <3>1. a.ptr = x /\ a.size = size /\ a.align = align
      OBVIOUS
    <3>2. PageOf(a.ptr) \in PagesOf(c)' /\ a.ptr \in Slots(PageOf(a.ptr), c)
      BY <1>5, <1>6, <1>11, <3>1
    <3> QED BY <3>1, <3>2 DEF SmallAt
  <2> QED BY <1>4, <1>7, <1>9, <1>15, <2>1, <2>2, LiveAdds
<1> QED BY <1>13, <1>14, <1>15, <1>16 DEF NoPanic
\* A new slab: its page is fresh, all its slots but the head are free.
LEMMA NewSlabKeeps ==
  ASSUME IInv, NEW c \in Classes, NEW size \in Nat \ {0}, NEW align \in Powers,
         size <= SLAB_CLASSES[c], align <= SLAB_CLASSES[c],
         newSlab(c, size, align), panic' = panic
  PROVE  IInv'
<1> USE DEF IInv
<1>1. PICK b \in FreeBlocks(0) :
        LET slots == NewSlots(b[1], c)
        IN  /\ held' = held \cup {b}
            /\ m_slabs' = [m_slabs EXCEPT ![c] = <<b[1]>> \o @]
            /\ freeList' = With(freeList, b[1], Tail(slots))
            /\ inUse' = With(inUse, b[1], 1)
            /\ slabMagic' = slabMagic \cup {b[1]}
            /\ Give(Head(slots), size, align)
            /\ UNCHANGED large
  BY Zenon DEF newSlab
<1> DEFINE page == b[1]
           slots == NewSlots(page, c)
           x == Head(slots)
<1>2. /\ b = <<page, 0>> /\ page \in Nat /\ page % PAGE_SIZE = 0
      /\ \A y \in Nat : PageOf(y) = page => In(y, b)
  <2>1. b = <<page, 0>> /\ page \in Nat /\ page % BlockSize[0] = 0 /\ b[2] = 0
    BY FreeBlockIs, PageIs
  <2> HIDE DEF page
  <2>2. \A y \in Nat : PageOf(y) = page => page <= y /\ y < page + PAGE_SIZE
    BY PageOfIs
  <2> QED BY <2>1, <2>2, PageIs DEF In, page
<1> HIDE DEF page
<1>3. /\ slots \in Seq(Nat) /\ slots # <<>> /\ IsInjective(slots)
      /\ Slots(page, c) = Range(slots)
  BY <1>2, SlotsAre
<1> HIDE DEF slots
<1>4. /\ x \in Slots(page, c) /\ x \in Nat
      /\ Tail(slots) \in Seq(Nat) /\ IsInjective(Tail(slots))
      /\ Range(Tail(slots)) = Slots(page, c) \ {x}
  BY <1>3, PopSeq
<1>5. PageOf(x) = page
  BY <1>2, <1>4, SlotPage
<1>6. /\ held' = held \cup {b}
      /\ m_slabs' = [m_slabs EXCEPT ![c] = <<page>> \o @]
      /\ freeList' = With(freeList, page, Tail(slots))
      /\ inUse' = With(inUse, page, 1)
      /\ slabMagic' = slabMagic \cup {page}
      /\ Give(x, size, align)
      /\ UNCHANGED large
  BY <1>1 DEF page, slots
<1> HIDE DEF x
<1>7. page \notin SlabPages /\ Taken(page) = {}
  <2>1. \A y \in Nat, d \in held : PageOf(y) = page => ~ In(y, d)
    BY <1>2, PageIs, FreshAddress
  <2>2. page \notin SlabPages
    <3>1. page \in SlabPages => In(x, <<page, 0>>) /\ <<page, 0>> \in held
      BY <1>4, <1>5, SlabIs
    <3> QED BY <1>4, <1>5, <2>1, <3>1
  <2>3. \A a \in live : PageOf(a.ptr) # page
    <3> SUFFICES ASSUME NEW a \in live PROVE PageOf(a.ptr) # page
      OBVIOUS
    <3>1. Home(a) \in held /\ a.ptr \in Nat /\ In(a.ptr, Home(a))
      BY HomeIs DEF Units
    <3> QED BY <2>1, <3>1
  <2> QED BY <2>2, <2>3 DEF Taken
<1>8. /\ DOMAIN freeList' = DOMAIN freeList \cup {page} /\ DOMAIN inUse' = DOMAIN inUse \cup {page}
      /\ freeList'[page] = Tail(slots) /\ inUse'[page] = 1
      /\ \A p \in SlabPages : freeList'[p] = freeList[p] /\ inUse'[p] = inUse[p]
  BY <1>6, <1>7 DEF With, SlabPages, SlabInv
<1>9. SlabPages' = SlabPages \cup {page}
  BY <1>8 DEF SlabPages
<1>10. /\ m_slabs' \in [Classes -> Seq(Nat)]
       /\ PagesOf(c)' = PagesOf(c) \cup {page}
       /\ \A d \in Classes : d # c => PagesOf(d)' = PagesOf(d)
  <2>1. m_slabs \in [Classes -> Seq(Nat)]
    BY DEF SlabInv
  <2>2. m_slabs[c] \in Seq(Nat)
    BY <2>1
  <2> DEFINE l == <<page>> \o m_slabs[c]
  <2>3. l \in Seq(Nat) /\ Range(l) = Range(m_slabs[c]) \cup {page}
    BY <1>2, <2>2, PushSeq
  <2>4. m_slabs' = [m_slabs EXCEPT ![c] = l]
    BY <1>6
  <2> HIDE DEF l
  <2>5. m_slabs' \in [Classes -> Seq(Nat)] /\ m_slabs'[c] = l
    BY <2>1, <2>3, <2>4
  <2>6. PagesOf(c)' = Range(l) /\ PagesOf(c) = Range(m_slabs[c])
    BY <2>2, <2>3, <2>5, ElementsAre, Zenon DEF PagesOf
  <2>7. \A d \in Classes : d # c => PagesOf(d)' = PagesOf(d)
    BY <2>1, <2>4 DEF PagesOf
  <2> QED BY <2>3, <2>5, <2>6, <2>7
<1>11. /\ \A p : p # page => Taken(p)' = Taken(p)
       /\ Taken(page)' = {x}
  BY <1>5, <1>6, <1>7, TakenAdds
<1>12. SlabOf(page, c)'
  <2>1. FreeSlots(page)' = Slots(page, c) \ {x}
    BY <1>4, <1>8, ElementsAre, Zenon DEF FreeSlots
  <2>2. inUse'[page] = Cardinality(Taken(page)')
    BY <1>8, <1>11, FS_Singleton, Zenon
  <2>3. /\ FreeSlots(page)' \cap Taken(page)' = {}
        /\ FreeSlots(page)' \cup Taken(page)' = Slots(page, c)
    BY <1>4, <1>11, <2>1
  <2>4. freeList'[page] \in Seq(Nat) /\ IsInjective(freeList'[page]) /\ <<page, 0>> \in held'
    BY <1>2, <1>4, <1>6, <1>8, ZenonT(30)
  <2> QED BY <2>2, <2>3, <2>4 DEF SlabOf, Slots
<1>13. SlabInv'
  <2>1. ASSUME NEW d \in Classes, NEW p \in PagesOf(d) PROVE SlabOf(p, d)'
    <3>1. SlabOf(p, d) /\ p \in SlabPages /\ <<p, 0>> \in held'
      BY <1>6, <2>1 DEF SlabInv, SlabOf
    <3>2. p # page
      BY <1>7, <3>1
    <3> QED BY <1>8, <1>11, <3>1, <3>2, SlabKept
  <2>2. \A d \in Classes : \A p \in PagesOf(d)' : SlabOf(p, d)'
    BY <1>10, <1>12, <2>1
  <2>3. SlabPages' = UNION {PagesOf(d)' : d \in Classes}
    <3>1. \A p : p \in SlabPages <=> \E d \in Classes : p \in PagesOf(d)
      BY DEF SlabInv
    <3> QED BY <1>9, <1>10, <3>1
  <2>4. \A d, e \in Classes : d # e => PagesOf(d)' \cap PagesOf(e)' = {}
    <3>1. \A d \in Classes : page \notin PagesOf(d)
      BY <1>7 DEF SlabInv
    <3>2. \A d, e \in Classes : d # e => PagesOf(d) \cap PagesOf(e) = {}
      BY DEF SlabInv
    <3> SUFFICES ASSUME NEW d \in Classes, NEW e \in Classes, d # e
                 PROVE  PagesOf(d)' \cap PagesOf(e)' = {}
      OBVIOUS
    <3>3. PagesOf(d)' = PagesOf(d) \/ (d = c /\ PagesOf(d)' = PagesOf(d) \cup {page})
      BY <1>10
    <3>4. PagesOf(e)' = PagesOf(e) \/ (e = c /\ PagesOf(e)' = PagesOf(e) \cup {page})
      BY <1>10
    <3>5. page \notin PagesOf(d) /\ page \notin PagesOf(e) /\ PagesOf(d) \cap PagesOf(e) = {}
      BY <3>1, <3>2
    <3> QED BY <3>3, <3>4, <3>5
  <2>5. DOMAIN inUse' = SlabPages' /\ slabMagic' = SlabPages'
    BY <1>6, <1>8, <1>9, Zenon DEF SlabInv
  <2> QED BY <1>10, <2>2, <2>3, <2>4, <2>5 DEF SlabInv
<1>14. BlockInv'
  BY <1>6, PageIs, BlockTaken
<1>15. LargeInv' /\ \A a : LargeAt(a) => LargeAt(a)'
  <2>1. live \subseteq live'
    BY <1>6 DEF Give
  <2>2. \A h \in DOMAIN large : BlockOf(h) \in held' /\ BlockOf(h)[1] \notin SlabPages'
    <3> SUFFICES ASSUME NEW h \in DOMAIN large
                 PROVE  BlockOf(h) \in held' /\ BlockOf(h)[1] \notin SlabPages'
      OBVIOUS
    <3>1. BlockOf(h) \in held /\ BlockOf(h)[1] \notin SlabPages
      BY DEF LargeInv
    <3>2. BlockOf(h)[1] # page
      <4>1. /\ BlockOf(h)[1] \in Nat /\ In(BlockOf(h)[1], BlockOf(h))
        BY <3>1, HeldIs DEF In
      <4>2. In(page, b)
        BY <1>2, PageIs DEF In
      <4>3. ~ In(page, BlockOf(h))
        BY <1>2, <3>1, <4>2, PageIs, FreshAddress
      <4> QED BY <4>1, <4>3
    <3> QED BY <1>6, <1>9, <3>1, <3>2
  <2>3. \A d \in held' : d[1] \in SlabPages' \/ d \in held
    BY <1>6, <1>9 DEF page
  <2> QED BY <1>6, <1>9, <2>1, <2>2, <2>3, LargesKept
<1>16. LiveInv'
  <2>1. \A a : SmallAt(a) => SmallAt(a)'
    BY <1>10, SmallKept
  <2>2. \A a : a = [ptr |-> x, size |-> size, align |-> align] => SmallAt(a)'
    <3> SUFFICES ASSUME NEW a, a = [ptr |-> x, size |-> size, align |-> align] PROVE SmallAt(a)'
      OBVIOUS
    <3>1. a.ptr = x /\ a.size = size /\ a.align = align
      OBVIOUS
    <3>2. PageOf(a.ptr) \in PagesOf(c)' /\ a.ptr \in Slots(PageOf(a.ptr), c)
      BY <1>4, <1>5, <1>10, <3>1
    <3> QED BY <3>1, <3>2 DEF SmallAt
  <2>3. \A a \in live : a.ptr # x
    BY <1>5, <1>7 DEF Taken
  <2> QED BY <1>4, <1>6, <1>15, <2>1, <2>2, <2>3, LiveAdds
<1> QED BY <1>13, <1>14, <1>15, <1>16 DEF NoPanic

\* The order allocLarge asks for is the least that holds the total.
LEMMA OrderIs ==
  ASSUME NEW total \in Nat
  PROVE  LET o == orderForBytes(total)
         IN  /\ o \in 0 .. (MAX_ORDER + 1)
             /\ o <= MAX_ORDER => BlockSize[o] >= total
             /\ \A p \in 0 .. (o - 1) : BlockSize[p] < total
<1> DEFINE Big == {o \in Orders : BlockSize[o] >= total}
           Ok(o) == /\ o = MAX_ORDER + 1 \/ BlockSize[o] >= total
                    /\ \A p \in 0 .. (o - 1) : BlockSize[p] < total
<1>1. MAX_ORDER \in Nat /\ \A o \in Orders : BlockSize[o] \in Nat /\ o \in Nat
  BY HeapAssumption, BlockIs DEF Orders
<1>2. \E o \in 0 .. (MAX_ORDER + 1) : Ok(o)
  <2>1. CASE Big = {}
    <3>1. Ok(MAX_ORDER + 1)
      BY <1>1, <2>1 DEF Orders
    <3> QED BY <1>1, <3>1
  <2>2. CASE Big # {}
    <3>1. Big \in SUBSET Nat
      BY <1>1
    <3>2. PICK o \in Big : \A q \in Big : o <= q
      <4> HIDE DEF Big
      <4> QED BY <2>2, <3>1, LeastElement
    <3>3. Ok(o)
      BY <1>1, <3>2 DEF Orders
    <3>4. o \in 0 .. (MAX_ORDER + 1)
      BY <1>1, <3>2 DEF Orders
    <3> QED BY <3>3, <3>4
  <2> QED BY <2>1, <2>2
<1>3. orderForBytes(total) = CHOOSE o \in 0 .. (MAX_ORDER + 1) : Ok(o)
  BY DEF orderForBytes
<1>4. orderForBytes(total) \in 0 .. (MAX_ORDER + 1) /\ Ok(orderForBytes(total))
  <2> HIDE DEF Ok
  <2> QED BY <1>2, <1>3
<1> QED BY <1>1, <1>4
\* A large allocation: a fresh block with a header before the pointer.
LEMMA LargeKeeps ==
  ASSUME IInv, NEW size \in Nat \ {0}, NEW align \in Powers, align + size < SIZE_MOD,
         allocLarge(size, align), panic' = panic
  PROVE  IInv'
<1> USE DEF IInv
<1> DEFINE o == orderForBytes(align + size)
<1>1. align \in Nat /\ align > 0
  BY PowerIs
<1>2. RoundUp(largeHeaderSize, align) = align /\ LargeTotal(align, size) = align + size
  <2>1. SIZE_MOD \in Nat /\ align + size \in Nat
    BY <1>1, HeapAssumption
  <2>2. (align + size) % SIZE_MOD = align + size
    BY <2>1
  <2> QED BY <1>1, <2>2, OffsetIs DEF LargeTotal
<1>3. \/ (o > MAX_ORDER \/ FreeBlocks(o) = {}) /\ Fail
      \/ /\ o <= MAX_ORDER
         /\ \E b \in FreeBlocks(o) :
              /\ held' = held \cup {b}
              /\ slabMagic' = slabMagic \ {b[1]}
              /\ large' = With(large, b[1] + align - largeHeaderSize,
                               [order |-> o, userOffset |-> align])
              /\ Give(b[1] + align, size, align)
              /\ UNCHANGED <<m_slabs, freeList, inUse>>
  BY <1>2 DEF allocLarge
<1>4. CASE Fail
  BY <1>4, UnchangedKeeps DEF Fail
<1>5. ASSUME o <= MAX_ORDER, NEW b \in FreeBlocks(o),
             held' = held \cup {b}, slabMagic' = slabMagic \ {b[1]},
             large' = With(large, b[1] + align - largeHeaderSize,
                           [order |-> o, userOffset |-> align]),
             Give(b[1] + align, size, align),
             UNCHANGED <<m_slabs, freeList, inUse>>
      PROVE  IInv'
  <2>1. o \in Orders /\ align + size <= BlockSize[o] /\ BlockSize[o] \in Nat
    <3>1. o \in Orders /\ align + size <= BlockSize[o]
      <4>1. /\ align + size \in Nat /\ MAX_ORDER \in Nat
        BY <1>1, HeapAssumption
      <4>2. /\ o \in 0 .. (MAX_ORDER + 1) /\ (o <= MAX_ORDER => BlockSize[o] >= align + size)
        BY <4>1, OrderIs
      <4>3. o \in Orders
        <5> HIDE DEF o
        <5> QED BY <1>5, <4>1, <4>2 DEF Orders
      <4>4. BlockSize[o] \in Nat
        BY <4>3, BlockIs
      <4> HIDE DEF o
      <4> QED BY <1>5, <4>1, <4>2, <4>3, <4>4
    <3> QED BY <3>1, BlockIs
  <2> HIDE DEF o
  <2>2. b = <<b[1], o>> /\ b[2] = o /\ b[1] \in Nat /\ b \notin held
    BY <1>5, <2>1, FreeBlockIs
  <2> DEFINE x == b[1] + align
             h == b[1] + align - largeHeaderSize
  <2>3. /\ x \in Nat /\ h \in Nat /\ h + largeHeaderSize = x /\ x - largeHeaderSize = h
        /\ h + largeHeaderSize - align = b[1]
        /\ In(x, b) /\ In(h, b) /\ In(b[1], b)
    BY <1>1, <2>1, <2>2 DEF In, largeHeaderSize
  <2>4. /\ large' = With(large, h, [order |-> o, userOffset |-> align])
        /\ Give(x, size, align)
    BY <1>5
  <2> HIDE DEF x, h
  <2>5. \A d \in held : ~ In(x, d) /\ ~ In(h, d) /\ ~ In(b[1], d)
    BY <1>5, <2>1, <2>2, <2>3, FreshAddress
  <2>6. PageOf(x) \notin SlabPages /\ b[1] \notin SlabPages
    <3>1. PageOf(x) \in SlabPages => <<PageOf(x), 0>> \in held /\ In(x, <<PageOf(x), 0>>)
      BY <2>3, SlabIs
    <3>2. b[1] \in SlabPages => <<b[1], 0>> \in held
      BY SlabIs
    <3>3. In(b[1], <<b[1], 0>>)
      BY <2>2, PageIs DEF In
    <3> QED BY <2>5, <3>1, <3>2, <3>3
  <2>7. h \notin DOMAIN large
    <3> SUFFICES ASSUME h \in DOMAIN large PROVE FALSE
      OBVIOUS
    <3>1. PICK a \in live : a.ptr = h + largeHeaderSize /\ LargeAt(a)
      BY DEF LargeInv
    <3>2. Home(a) \in held /\ In(a.ptr, Home(a))
      BY HomeIs DEF Units
    <3> QED BY <2>3, <2>5, <3>1, <3>2
  <2>8. \A a \in live : a.ptr # x
    <3> SUFFICES ASSUME NEW a \in live PROVE a.ptr # x
      OBVIOUS
    <3>1. Home(a) \in held /\ In(a.ptr, Home(a))
      BY HomeIs DEF Units
    <3> QED BY <2>5, <3>1
  <2>9. /\ DOMAIN large' = DOMAIN large \cup {h}
        /\ large'[h] = [order |-> o, userOffset |-> align]
        /\ \A g \in DOMAIN large : large'[g] = large[g] /\ g # h
    BY <2>4, <2>7 DEF With
  <2>10. /\ BlockOf(h)' = b
         /\ \A g \in DOMAIN large : BlockOf(g)' = BlockOf(g)
    <3>1. BlockOf(h)' = <<h + largeHeaderSize - align, o>>
      BY <2>9 DEF BlockOf
    <3>2. \A g \in DOMAIN large : BlockOf(g)' = BlockOf(g)
      BY <2>9 DEF BlockOf
    <3> QED BY <2>2, <2>3, <3>1, <3>2
  <2>11. \A a : LargeAt(a) => LargeAt(a)'
    BY <2>9 DEF LargeAt
  <2>12. \A a : a = [ptr |-> x, size |-> size, align |-> align] => LargeAt(a)'
    <3> SUFFICES ASSUME NEW a, a = [ptr |-> x, size |-> size, align |-> align] PROVE LargeAt(a)'
      OBVIOUS
    <3>1. a.ptr - largeHeaderSize = h /\ a.size = size /\ a.align = align
      BY <2>3
    <3>2. large'[h].userOffset = align /\ large'[h].order = o
      BY <2>9
    <3> QED BY <2>1, <2>9, <3>1, <3>2 DEF LargeAt
  <2>13. SlabInv' /\ SlabPages' = SlabPages /\ \A c \in Classes : PagesOf(c)' = PagesOf(c)
    <3>1. slabMagic' = slabMagic
      BY <1>5, <2>6 DEF SlabInv
    <3>2. \A page \in SlabPages : Taken(page)' = Taken(page)
      BY <2>4, <2>6, TakenAdds
    <3> QED BY <1>5, <3>1, <3>2, SlabsKept
  <2>14. BlockInv'
    BY <1>5, <2>1, BlockTaken
  <2>15. LargeInv'
    <3>1. \E a \in live' : a.ptr = h + largeHeaderSize /\ LargeAt(a)'
      <4> DEFINE n == [ptr |-> x, size |-> size, align |-> align]
      <4>1. n \in live' /\ n.ptr = x /\ LargeAt(n)'
        BY <2>4, <2>12 DEF Give
      <4> HIDE DEF n
      <4> QED BY <2>3, <4>1
    <3>2. \A g \in DOMAIN large : \E a \in live' : a.ptr = g + largeHeaderSize /\ LargeAt(a)'
      BY <2>4, <2>11, Zenon DEF Give, LargeInv
    <3>3. large'[h] \in [order : Orders, userOffset : Nat \ {0}]
      BY <1>1, <2>1, <2>9
    <3>4. ASSUME NEW g \in DOMAIN large'
          PROVE  /\ g \in Nat /\ large'[g] \in [order : Orders, userOffset : Nat \ {0}]
                 /\ BlockOf(g)' \in held' /\ BlockOf(g)'[1] \notin SlabPages'
                 /\ \E a \in live' : a.ptr = g + largeHeaderSize /\ LargeAt(a)'
      <4>1. CASE g = h
        BY <1>5, <2>3, <2>6, <2>10, <2>13, <3>1, <3>3, <4>1
      <4>2. CASE g # h
        <5>1. g \in DOMAIN large
          BY <2>9, <4>2
        <5>2. /\ g \in Nat /\ large[g] \in [order : Orders, userOffset : Nat \ {0}]
              /\ BlockOf(g) \in held /\ BlockOf(g)[1] \notin SlabPages
          BY <5>1, Zenon DEF LargeInv
        <5> QED BY <1>5, <2>9, <2>10, <2>13, <3>2, <5>1, <5>2, ZenonT(30)
      <4> QED BY <4>1, <4>2
    <3>5. \A g \in DOMAIN large : BlockOf(g)' # b
      BY <2>2, <2>10 DEF LargeInv
    <3>6. \A f, g \in DOMAIN large' : BlockOf(f)' = BlockOf(g)' => f = g
      BY <2>9, <2>10, <3>5 DEF LargeInv
    <3>7. \A d \in held' : d[1] \in SlabPages' \/ \E g \in DOMAIN large' : BlockOf(g)' = d
      BY <1>5, <2>9, <2>10, <2>13 DEF LargeInv
    <3> QED BY <3>4, <3>6, <3>7 DEF LargeInv
  <2>16. LiveInv'
    <3>1. \A a : SmallAt(a) => SmallAt(a)'
      BY <2>13, SmallKept
    <3> QED BY <2>3, <2>4, <2>8, <2>11, <2>12, <3>1, LiveAdds
  <2> QED BY <2>13, <2>14, <2>15, <2>16 DEF NoPanic
<1> HIDE DEF o
<1> QED BY <1>3, <1>4, <1>5

\* A client's slot goes back to the slab it came from.
LEMMA FreeSlabKeeps ==
  ASSUME IInv, NEW a \in live, PageOf(a.ptr) \in SlabPages,
         freeToSlab(a.ptr), live' = live \ {a}
  PROVE  IInv'
<1> USE DEF IInv
<1> DEFINE x == a.ptr
           page == PageOf(x)
<1>1. SmallAt(a) /\ ~ LargeAt(a) /\ x \in Nat
  <2>1. ~ LargeAt(a)
    BY LargeIs
  <2> QED BY <2>1 DEF LiveInv
<1>2. PICK c \in Classes : page \in PagesOf(c) /\ SlabOf(page, c) /\ x \in Slots(page, c)
  BY <1>1, SmallIs
<1>3. /\ freeList' = [freeList EXCEPT ![page] = <<x>> \o @]
      /\ inUse' = [inUse EXCEPT ![page] = @ - 1]
      /\ UNCHANGED <<held, m_slabs, large, slabMagic, panic>>
  BY DEF freeToSlab
<1>4. x \in Taken(page) /\ page \in SlabPages
  BY DEF Taken
<1>5. /\ \A p : p # page => Taken(p)' = Taken(p)
      /\ Taken(page)' = Taken(page) \ {x}
  BY TakenLoses
<1> HIDE DEF x, page
<1>6. page \in Nat /\ page % PAGE_SIZE = 0 /\ <<page, 0>> \in held
  BY <1>4, SlabIs
<1>7. freeList[page] \in Seq(Nat) /\ IsInjective(freeList[page]) /\ FreeSlots(page) = Range(freeList[page])
  <2>1. freeList[page] \in Seq(Nat) /\ IsInjective(freeList[page])
    BY <1>2 DEF SlabOf
  <2> QED BY <2>1, ElementsAre DEF FreeSlots
<1>8. x \notin FreeSlots(page)
  BY <1>2, <1>4 DEF SlabOf
<1>9. /\ <<x>> \o freeList[page] \in Seq(Nat) /\ IsInjective(<<x>> \o freeList[page])
      /\ Range(<<x>> \o freeList[page]) = FreeSlots(page) \cup {x}
  BY <1>1, <1>7, <1>8, PushSeq
<1>10. /\ DOMAIN freeList' = DOMAIN freeList /\ DOMAIN inUse' = DOMAIN inUse
       /\ freeList'[page] = <<x>> \o freeList[page] /\ inUse'[page] = inUse[page] - 1
       /\ \A p \in SlabPages : p # page => freeList'[p] = freeList[p] /\ inUse'[p] = inUse[p]
  BY <1>3, <1>4, ZenonT(30) DEF SlabPages, SlabInv
<1>11. SlabPages' = SlabPages /\ \A d \in Classes : PagesOf(d)' = PagesOf(d)
  BY <1>3, <1>10 DEF SlabPages, PagesOf
<1>12. SlabOf(page, c)'
  <2>1. FreeSlots(page)' = FreeSlots(page) \cup {x}
    BY <1>9, <1>10, ElementsAre, Zenon DEF FreeSlots
  <2>2. inUse'[page] = Cardinality(Taken(page)')
    <3>1. IsFiniteSet(Taken(page))
      BY <1>2, <1>6, SlotsFinite DEF SlabOf
    <3>2. Cardinality(Taken(page) \ {x}) = Cardinality(Taken(page)) - 1
      BY <1>4, <3>1, FS_RemoveElement, Zenon
    <3>3. inUse[page] = Cardinality(Taken(page))
      BY <1>2 DEF SlabOf
    <3> QED BY <1>5, <1>10, <3>2, <3>3
  <2>3. /\ FreeSlots(page) \cap Taken(page) = {}
        /\ FreeSlots(page) \cup Taken(page) = Slots(page, c)
    BY <1>2 DEF SlabOf
  <2>4. /\ FreeSlots(page)' \cap Taken(page)' = {}
        /\ FreeSlots(page)' \cup Taken(page)' = Slots(page, c)
    BY <1>4, <1>5, <2>1, <2>3
  <2>5. freeList'[page] \in Seq(Nat) /\ IsInjective(freeList'[page]) /\ <<page, 0>> \in held'
    BY <1>3, <1>6, <1>9, <1>10
  <2> QED BY <2>2, <2>4, <2>5, Zenon DEF SlabOf, Slots
<1>13. SlabInv'
  <2>1. ASSUME NEW d \in Classes, NEW p \in PagesOf(d) PROVE SlabOf(p, d)'
    <3>1. SlabOf(p, d) /\ p \in SlabPages /\ <<p, 0>> \in held'
      BY <1>3, <2>1 DEF SlabInv, SlabOf
    <3>2. p = page => d = c
      BY ClassIs, <1>2, <2>1
    <3>3. p # page => SlabOf(p, d)'
      BY <1>5, <1>10, <3>1, SlabKept
    <3> QED BY <1>12, <3>2, <3>3
  <2> QED BY <1>3, <1>10, <1>11, <2>1 DEF SlabInv
<1>14. BlockInv'
  BY <1>3 DEF BlockInv, Apart
<1>15. LargeInv' /\ \A d : LargeAt(d) => LargeAt(d)'
  BY <1>1, <1>3, <1>11, LargesKept, Zenon DEF LargeInv
<1>16. LiveInv'
  <2>1. \A d : SmallAt(d) => SmallAt(d)'
    BY <1>11, SmallKept
  <2> QED BY <1>15, <2>1, LiveLoses
<1> QED BY <1>3, <1>13, <1>14, <1>15, <1>16 DEF NoPanic

\* A large allocation's block goes back whole, and its header with it.
LEMMA FreeLargeKeeps ==
  ASSUME IInv, NEW a \in live, LargeAt(a), freeLarge(a.ptr), live' = live \ {a}
  PROVE  IInv'
<1> USE DEF IInv
<1> DEFINE h == a.ptr - largeHeaderSize
           b == BlockOf(h)
<1>1. /\ h \in DOMAIN large /\ h + largeHeaderSize = a.ptr
      /\ b \in held /\ b[1] \notin SlabPages
      /\ b = <<a.ptr - large[h].userOffset, large[h].order>>
      /\ PageOf(a.ptr) \notin SlabPages
  BY LargeIs
<1>2. /\ held' = held \ {b} /\ large' = Without(large, h)
      /\ UNCHANGED <<m_slabs, freeList, inUse, slabMagic, panic>>
  <2>1. h \in DOMAIN large
    BY <1>1
  <2>2. /\ held' = held \ {<<a.ptr - large[h].userOffset, large[h].order>>}
        /\ large' = Without(large, h)
        /\ UNCHANGED <<m_slabs, freeList, inUse, slabMagic, panic>>
    BY <2>1 DEF freeLarge
  <2> QED BY <1>1, <2>2
<1> HIDE DEF h, b
<1>3. /\ DOMAIN large' = DOMAIN large \ {h}
      /\ \A g \in DOMAIN large' : large'[g] = large[g]
  BY <1>2 DEF Without
<1>4. \A g \in DOMAIN large' : BlockOf(g)' = BlockOf(g) /\ BlockOf(g) # b
  <2>1. \A g \in DOMAIN large' : BlockOf(g)' = BlockOf(g)
    BY <1>3 DEF BlockOf
  <2>2. \A g \in DOMAIN large' : BlockOf(g) # b
    BY <1>1, <1>3 DEF LargeInv, b
  <2> QED BY <2>1, <2>2
<1>5. \A d : LargeAt(d) /\ d.ptr - largeHeaderSize # h => LargeAt(d)'
  BY <1>3 DEF LargeAt
<1>6. \A d \in live \ {a} : d.ptr - largeHeaderSize # h
  <2> SUFFICES ASSUME NEW d \in live \ {a} PROVE d.ptr - largeHeaderSize # h
    OBVIOUS
  <2>1. d.ptr # a.ptr /\ d.ptr \in Nat /\ a.ptr \in Nat
    BY DEF LiveInv
  <2> QED BY <2>1 DEF h, largeHeaderSize
<1>7. SlabInv' /\ SlabPages' = SlabPages /\ \A c \in Classes : PagesOf(c)' = PagesOf(c)
  <2>1. \A page \in SlabPages : <<page, 0>> \in held => <<page, 0>> \in held'
    BY <1>1, <1>2
  <2>2. \A page \in SlabPages : Taken(page)' = Taken(page)
    BY <1>1, TakenLoses
  <2> QED BY <1>2, <2>1, <2>2, SlabsKept
<1>8. BlockInv'
  BY <1>2 DEF BlockInv, Apart
<1>9. LargeInv'
  <2>1. ASSUME NEW g \in DOMAIN large'
        PROVE  /\ g \in Nat /\ large'[g] \in [order : Orders, userOffset : Nat \ {0}]
               /\ BlockOf(g)' \in held' /\ BlockOf(g)'[1] \notin SlabPages'
               /\ \E d \in live' : d.ptr = g + largeHeaderSize /\ LargeAt(d)'
    <3>1. /\ g \in DOMAIN large /\ g # h
      BY <1>3, <2>1
    <3>2. /\ g \in Nat /\ large[g] \in [order : Orders, userOffset : Nat \ {0}]
          /\ BlockOf(g) \in held /\ BlockOf(g)[1] \notin SlabPages
      BY <3>1, Zenon DEF LargeInv
    <3>3. PICK d \in live : d.ptr = g + largeHeaderSize /\ LargeAt(d)
      BY <3>1 DEF LargeInv
    <3>4. d.ptr - largeHeaderSize = g
      BY <3>2, <3>3 DEF largeHeaderSize
    <3>5. d # a
      BY <3>1, <3>4 DEF h
    <3>6. d \in live' /\ LargeAt(d)'
      BY <1>5, <3>1, <3>3, <3>4, <3>5
    <3> QED BY <1>2, <1>3, <1>4, <1>7, <2>1, <3>2, <3>3, <3>6
  <2>2. \A f, g \in DOMAIN large' : BlockOf(f)' = BlockOf(g)' => f = g
    BY <1>3, <1>4 DEF LargeInv
  <2>3. \A d \in held' : d[1] \in SlabPages' \/ \E g \in DOMAIN large' : BlockOf(g)' = d
    <3> SUFFICES ASSUME NEW d \in held', d[1] \notin SlabPages
                 PROVE  \E g \in DOMAIN large' : BlockOf(g)' = d
      BY <1>7
    <3>1. d \in held /\ d # b
      BY <1>2
    <3>2. PICK g \in DOMAIN large : BlockOf(g) = d
      BY <3>1 DEF LargeInv
    <3>3. g # h
      BY <3>1, <3>2 DEF b
    <3> QED BY <1>3, <1>4, <3>2, <3>3
  <2> QED BY <2>1, <2>2, <2>3 DEF LargeInv
<1>10. LiveInv'
  <2>1. \A d : SmallAt(d) => SmallAt(d)'
    BY <1>7, SmallKept
  <2> QED BY <1>5, <1>6, <2>1, LiveLoses
<1> QED BY <1>2, <1>7, <1>8, <1>9, <1>10 DEF NoPanic
-----------------------------------------------------------------------------
(* The operations.                                                         *)

\* pickClass gives a class whose slots are large enough for the size and for
\* the alignment, or none; an empty request counts as one unit either way.
LEMMA ClassFits ==
  ASSUME NEW size \in Nat, NEW align \in Powers
  PROVE  LET c == pickClass(size, align)
         IN  /\ c # NO_SLAB_CLASS => /\ c \in Classes
                                     /\ size <= SLAB_CLASSES[c] /\ align <= SLAB_CLASSES[c]
             /\ c < NO_SLAB_CLASS <=> c # NO_SLAB_CLASS
             /\ pickClass(AtLeastOne(size), align) = c
<1> DEFINE need == IF size > align THEN size ELSE align
           n == Len(SLAB_CLASSES)
           Good == {i \in Classes : SLAB_CLASSES[i] >= need}
           Ok(i) == SLAB_CLASSES[i] >= need /\ \A j \in 1 .. (i - 1) : SLAB_CLASSES[j] < need
           c == pickClass(size, align)
<1>1. align \in Nat /\ align > 0
  BY PowerIs
<1>2. need \in Nat /\ size <= need /\ align <= need
  BY <1>1
<1>3. pickClass(AtLeastOne(size), align) = c
  <2>1. need = IF AtLeastOne(size) > align THEN AtLeastOne(size) ELSE align
    BY <1>1 DEF AtLeastOne
  <2>2. c = ClassFor(need)
    BY DEF pickClass
  <2>3. pickClass(AtLeastOne(size), align) =
          ClassFor(IF AtLeastOne(size) > align THEN AtLeastOne(size) ELSE align)
    BY DEF pickClass
  <2> HIDE DEF need, c
  <2> QED BY <2>1, <2>2, <2>3
<1>4. c = IF need > MAX_SLAB_SIZE THEN NO_SLAB_CLASS ELSE CHOOSE i \in Classes : Ok(i)
  BY DEF pickClass, ClassFor
<1> HIDE DEF need, c
<1>5. /\ n \in Nat /\ n > 0 /\ n \in Classes /\ \A i \in Classes : SLAB_CLASSES[i] \in Nat
  BY ClassAssumption DEF Classes
<1>6. ASSUME ~ (need > MAX_SLAB_SIZE) PROVE \E i \in Classes : Ok(i)
  <2>1. n \in Good
    BY <1>2, <1>5, <1>6 DEF MAX_SLAB_SIZE
  <2>2. Good \in SUBSET Nat
    BY DEF Classes
  <2>3. PICK i \in Good : \A j \in Good : i <= j
    <3> HIDE DEF Good
    <3> QED BY <2>1, <2>2, LeastElement
  <2>4. i \in Classes /\ i \in Nat /\ SLAB_CLASSES[i] >= need
    BY <2>2, <2>3
  <2>5. ASSUME NEW j \in 1 .. (i - 1) PROVE SLAB_CLASSES[j] < need
    <3>1. j \in Classes /\ j < i /\ j \in Nat
      BY <1>5, <2>4, <2>5 DEF Classes
    <3>2. j \notin Good
      <4> HIDE DEF Good
      <4> QED BY <2>3, <2>4, <3>1
    <3> QED BY <1>2, <1>5, <3>1, <3>2
  <2> QED BY <2>4, <2>5
<1>7. c = NO_SLAB_CLASS \/ (c \in Classes /\ Ok(c))
  <2>1. need > MAX_SLAB_SIZE => c = NO_SLAB_CLASS
    BY <1>4
  <2>2. ~ (need > MAX_SLAB_SIZE) => c \in Classes /\ Ok(c)
    <3> HIDE DEF Ok
    <3> QED BY <1>4, <1>6
  <2> QED BY <2>1, <2>2
<1>8. c \in Classes => c < NO_SLAB_CLASS /\ c # NO_SLAB_CLASS
  BY <1>5 DEF Classes, NO_SLAB_CLASS
<1>9. ~ (NO_SLAB_CLASS < NO_SLAB_CLASS)
  BY <1>5 DEF NO_SLAB_CLASS
<1>10. c \in Classes /\ Ok(c) => size <= SLAB_CLASSES[c] /\ align <= SLAB_CLASSES[c]
  BY <1>1, <1>2, <1>5
<1> HIDE DEF Ok
<1> QED BY <1>3, <1>7, <1>8, <1>9, <1>10 DEF c

\* A request as Allocate normalises it.
LEMMA RequestIs ==
  ASSUME NoWrap, NEW size \in Sizes, NEW align \in Aligns
  PROVE  /\ size \in Nat /\ align \in Nat /\ align > 0 /\ align \in Powers
         /\ ~ (align < DEFAULT_NEW_ALIGN)
         /\ AtLeastOne(size) \in Nat \ {0}
         /\ RoundUp(largeHeaderSize, align) = align
         /\ align + AtLeastOne(size) < SIZE_MOD
<1>1. size \in Nat
  <2>1. Sizes \subseteq 0 .. (SIZE_MOD - 1)
    BY HeapAssumption, Zenon
  <2> QED BY <2>1
<1>2. align \in Powers
  BY DEF Powers
<1>3. align \in Nat /\ align > 0
  BY <1>2, PowerIs
<1>4. AtLeastOne(size) \in Nat \ {0}
  BY <1>1 DEF AtLeastOne
<1>5. RoundUp(largeHeaderSize, align) = align
  BY <1>3, OffsetIs
<1>6. AtLeastOne(size) + align < SIZE_MOD
  BY <1>5 DEF NoWrap
<1>7. align + AtLeastOne(size) = AtLeastOne(size) + align
  BY <1>3, <1>4
<1> QED BY <1>1, <1>2, <1>3, <1>4, <1>5, <1>6, <1>7 DEF DEFAULT_NEW_ALIGN

\* What Allocate does, class or no class.
LEMMA AllocateIs ==
  ASSUME NoWrap, NEW size \in Sizes, NEW align \in Aligns, Allocate(size, align)
  PROVE  LET n == AtLeastOne(size)
             c == pickClass(size, align)
         IN  /\ panic' = panic
             /\ c # NO_SLAB_CLASS => allocFromSlab(c, n, align)
             /\ c = NO_SLAB_CLASS => allocLarge(n, align)
<1> DEFINE n == AtLeastOne(size)
           c == pickClass(size, align)
<1>1. /\ size \in Nat /\ align \in Powers /\ ~ (align < DEFAULT_NEW_ALIGN)
  BY RequestIs
<1>2. /\ c < NO_SLAB_CLASS <=> c # NO_SLAB_CLASS
      /\ pickClass(n, align) = c
  BY <1>1, ClassFits
<1>3. /\ panic' = panic
      /\ IF pickClass(n, align) < NO_SLAB_CLASS
           THEN allocFromSlab(pickClass(n, align), n, align) ELSE allocLarge(n, align)
  BY <1>1 DEF Allocate, AtLeastOne
<1> HIDE DEF n, c
<1>4. /\ c # NO_SLAB_CLASS => allocFromSlab(c, n, align)
      /\ c = NO_SLAB_CLASS => allocLarge(n, align)
  BY <1>2, <1>3
<1> QED BY <1>3, <1>4 DEF n, c

\* Allocate keeps the invariant.
LEMMA AllocateKeeps ==
  ASSUME NoWrap, IInv, NEW size \in Sizes, NEW align \in Aligns, Allocate(size, align)
  PROVE  IInv'
<1> DEFINE n == AtLeastOne(size)
           c == pickClass(size, align)
<1>1. /\ n \in Nat \ {0} /\ align \in Powers /\ align + n < SIZE_MOD /\ size \in Nat
  BY RequestIs
<1>2. /\ panic' = panic
      /\ c # NO_SLAB_CLASS => allocFromSlab(c, n, align)
      /\ c = NO_SLAB_CLASS => allocLarge(n, align)
  BY AllocateIs
<1>3. c # NO_SLAB_CLASS => c \in Classes /\ n <= SLAB_CLASSES[c] /\ align <= SLAB_CLASSES[c]
  <2>1. pickClass(n, align) = c
    BY <1>1, ClassFits
  <2>2. pickClass(n, align) # NO_SLAB_CLASS =>
          /\ pickClass(n, align) \in Classes
          /\ n <= SLAB_CLASSES[pickClass(n, align)] /\ align <= SLAB_CLASSES[pickClass(n, align)]
    <3> HIDE DEF n
    <3> QED BY <1>1, ClassFits
  <2> QED BY <2>1, <2>2
<1> HIDE DEF n, c
<1>4. CASE c = NO_SLAB_CLASS
  BY <1>1, <1>2, <1>4, LargeKeeps
<1>5. CASE c # NO_SLAB_CLASS
  <2>1. ASSUME NEW i \in 1 .. Len(m_slabs[c]), freeList[m_slabs[c][i]] # <<>>,
               TakeSlot(m_slabs[c][i], n, align)
        PROVE  IInv'
    <3>1. m_slabs[c][i] \in PagesOf(c)
      BY DEF PagesOf
    <3> QED BY <1>1, <1>2, <1>3, <1>5, <2>1, <3>1, TakeKeeps
  <2>2. CASE newSlab(c, n, align)
    BY <1>1, <1>2, <1>3, <1>5, <2>2, NewSlabKeeps
  <2>3. CASE Fail
    BY <1>2, <2>3, UnchangedKeeps DEF Fail
  <2> QED BY <1>2, <1>5, <2>1, <2>2, <2>3 DEF allocFromSlab
<1> QED BY <1>4, <1>5

\* Deallocate takes the branch of the allocation it is given: a slot never
\* starts a page, and the first word of a large block is not the slab magic.
LEMMA DeallocateKeeps ==
  ASSUME IInv, NEW a \in live, Deallocate(a)
  PROVE  IInv'
<1> USE DEF IInv
<1>1. Release(a.ptr) /\ live' = live \ {a}
  BY DEF Deallocate
<1>2. slabMagic = SlabPages
  BY DEF SlabInv
<1>3. (a.ptr % PAGE_SIZE = 0 \/ PageOf(a.ptr) \notin SlabPages) => LargeAt(a)
  BY SmallIs DEF LiveInv
<1>4. CASE a.ptr % PAGE_SIZE = 0 /\ freeLarge(a.ptr)
  BY <1>1, <1>3, <1>4, FreeLargeKeeps
<1>5. CASE PageOf(a.ptr) \notin slabMagic /\ freeLarge(a.ptr)
  BY <1>1, <1>2, <1>3, <1>5, FreeLargeKeeps
<1>6. CASE PageOf(a.ptr) \in slabMagic \cap SlabPages /\ freeToSlab(a.ptr)
  BY <1>1, <1>6, FreeSlabKeeps
<1>7. PageOf(a.ptr) \notin slabMagic \ SlabPages
  BY <1>2
<1> QED BY <1>1, <1>4, <1>5, <1>6, <1>7 DEF Release

\* The empty heap.
LEMMA InitHolds == Init => IInv
<1> SUFFICES ASSUME Init PROVE IInv
  OBVIOUS
<1>1. /\ held = {} /\ m_slabs = [c \in Classes |-> <<>>]
      /\ DOMAIN freeList = {} /\ DOMAIN inUse = {} /\ DOMAIN large = {}
      /\ slabMagic = {} /\ live = {} /\ panic = FALSE
  BY DEF Init
<1>2. \A c \in Classes : PagesOf(c) = {}
  BY <1>1 DEF PagesOf
<1>3. BlockInv
  BY <1>1 DEF BlockInv
<1>4. SlabInv
  <2>1. m_slabs \in [Classes -> Seq(Nat)]
    BY <1>1
  <2>2. SlabPages = {} /\ UNION {PagesOf(c) : c \in Classes} = {}
    BY <1>1, <1>2 DEF SlabPages
  <2> QED BY <1>1, <1>2, <2>1, <2>2 DEF SlabInv
<1>5. LargeInv
  BY <1>1, Zenon DEF LargeInv
<1>6. LiveInv
  BY <1>1 DEF LiveInv
<1> QED BY <1>1, <1>3, <1>4, <1>5, <1>6 DEF IInv, NoPanic

\* Every step keeps the invariant.
LEMMA NextKeeps ==
  ASSUME NoWrap, IInv, [Next]_vars
  PROVE  IInv'
  BY AllocateKeeps, DeallocateKeeps, UnchangedKeeps DEF Next, vars
-----------------------------------------------------------------------------
(* When a request fails.                                                   *)

\* Where the allocator has a block it has a smaller one: the start of the block
\* is a multiple of the smaller size too.
LEMMA SmallerFree ==
  ASSUME NEW p \in Orders, NEW o \in Orders, p <= o, FreeBlocks(p) = {}, BlockInv
  PROVE  FreeBlocks(o) = {}
<1> SUFFICES ASSUME NEW b \in FreeBlocks(o) PROVE FALSE
  OBVIOUS
<1> DEFINE s == BlockSize[p]
           t == BlockSize[o]
<1>1. PICK k \in 0 .. PoolPages :
        /\ b = <<PoolBase + k * t, o>> /\ PoolBase + k * t + t <= PoolEnd
        /\ \A h \in held : h[1] + BlockSize[h[2]] <= PoolBase + k * t \/ PoolBase + k * t + t <= h[1]
  BY Zenon DEF FreeBlocks
<1>2. /\ s \in Nat /\ s > 0 /\ t \in Nat /\ t > 0 /\ s <= t /\ t % s = 0
      /\ PAGE_SIZE \in Nat /\ PAGE_SIZE <= s
      /\ PoolBase \in Nat /\ PoolPages \in Nat /\ k \in Nat
  BY BlockIs, Grows, PageIs, HeapAssumption
<1> HIDE DEF s, t
<1>3. PICK m \in Nat : t = m * s
  BY <1>2, Multiple
<1> DEFINE j == k * m
           x == j * s
<1>4. j \in Nat /\ x \in Nat /\ k * t = x
  <2>1. j \in Nat
    BY <1>2
  <2>2. j * s \in Nat
    <3> HIDE DEF j
    <3> QED BY <1>2, <2>1
  <2>3. k * (m * s) = (k * m) * s
    BY <1>2
  <2> QED BY <1>3, <2>1, <2>2, <2>3
<1>5. /\ b = <<PoolBase + x, o>> /\ PoolBase + x + t <= PoolEnd
      /\ \A h \in held : h[1] + BlockSize[h[2]] <= PoolBase + x \/ PoolBase + x + t <= h[1]
  BY <1>1, <1>4
<1> HIDE DEF x
<1>6. j <= PoolPages
  <2> DEFINE q == PoolPages * PAGE_SIZE
             r == PoolPages * s
  <2>1. q \in Nat /\ r \in Nat /\ q <= r
    <3>1. PAGE_SIZE * PoolPages <= s * PoolPages
      BY <1>2, TimesOrder
    <3> QED BY <1>2, <3>1
  <2>2. x + t <= q
    <3>1. PoolEnd = PoolBase + q
      BY DEF PoolEnd
    <3> HIDE DEF q
    <3> QED BY <1>2, <1>4, <1>5, <2>1, <3>1
  <2>3. j > PoolPages => x >= r + s
    <3>1. j > PoolPages => (PoolPages + 1) * s <= j * s
      <4> HIDE DEF j
      <4> QED BY <1>2, <1>4, TimesOrder
    <3>2. (PoolPages + 1) * s = r + s
      BY <1>2
    <3> HIDE DEF r, j
    <3> QED BY <3>1, <3>2 DEF x
  <2> HIDE DEF q, r, j
  <2> QED BY <1>2, <1>4, <2>1, <2>2, <2>3
<1>7. <<PoolBase + x, p>> \in FreeBlocks(p)
  <2> DEFINE a == PoolBase + x
  <2>1. a \in {PoolBase + i * s : i \in 0 .. PoolPages}
    <3> HIDE DEF j
    <3> QED BY <1>2, <1>4, <1>6 DEF x
  <2>2. /\ a + s <= PoolEnd
        /\ \A h \in held : h[1] + BlockSize[h[2]] <= a \/ a + s <= h[1]
    <3>1. \A h \in held : h[1] \in Nat /\ BlockSize[h[2]] \in Nat
      BY HeldIs
    <3>2. PoolEnd \in Int
      <4>1. PoolPages * PAGE_SIZE \in Nat
        BY <1>2
      <4> QED BY <1>2, <4>1 DEF PoolEnd
    <3> QED BY <1>2, <1>4, <1>5, <3>1, <3>2
  <2> HIDE DEF a
  <2>3. <<a, p>> \in FreeBlocks(p)
    BY <2>1, <2>2 DEF FreeBlocks, s
  <2> QED BY <2>3 DEF a
<1> QED BY <1>7

\* A slot a slab hands out is not null.
LEMMA SlotsNotNull ==
  ASSUME NEW page \in Nat, page % PAGE_SIZE = 0, NEW c \in Classes, NEW x \in Slots(page, c)
  PROVE  x # 0
<1>1. x \in Nat /\ page + slabHeaderSize <= x
  BY SlotsAre
<1> QED BY <1>1 DEF slabHeaderSize

\* A small request fails only if no slab of its class has a slot and there is
\* no page.
LEMMA SmallFails ==
  ASSUME IInv, NEW c \in Classes, NEW size, NEW align,
         allocFromSlab(c, size, align), result' = 0
  PROVE  FreeBlocks(0) = {} /\ \A page \in SlabPages : SlabClass(page) = c => freeList[page] = <<>>
<1> USE DEF IInv
<1> DEFINE roomy == {i \in 1 .. Len(m_slabs[c]) : freeList[m_slabs[c][i]] # <<>>}
<1>1. ~ \E i \in roomy : TakeSlot(m_slabs[c][i], size, align)
  <2> SUFFICES ASSUME NEW i \in roomy, TakeSlot(m_slabs[c][i], size, align) PROVE FALSE
    OBVIOUS
  <2> DEFINE page == m_slabs[c][i]
             l == freeList[page]
  <2>1. page \in PagesOf(c) /\ l # <<>>
    BY DEF PagesOf
  <2>2. result' = Head(l)
    BY DEF TakeSlot, Give
  <2> HIDE DEF page
  <2>3. SlabOf(page, c) /\ page \in SlabPages
    BY <2>1 DEF SlabInv
  <2>4. page \in Nat /\ page % PAGE_SIZE = 0
    BY <2>3, SlabIs, ZenonT(30)
  <2>5. l \in Seq(Nat) /\ IsInjective(l) /\ FreeSlots(page) = Range(l)
    <3>1. l \in Seq(Nat) /\ IsInjective(l)
      BY <2>3, Zenon DEF SlabOf
    <3> QED BY <3>1, ElementsAre DEF FreeSlots
  <2>6. Head(l) \in FreeSlots(page)
    BY <2>1, <2>5, PopSeq, ZenonT(30)
  <2>7. Head(l) \in Slots(page, c)
    BY <2>3, <2>6, Zenon DEF SlabOf
  <2> HIDE DEF l
  <2> QED BY <2>2, <2>4, <2>7, SlotsNotNull
<1>2. ~ newSlab(c, size, align)
  <2> SUFFICES ASSUME newSlab(c, size, align) PROVE FALSE
    OBVIOUS
  <2>1. PICK b \in FreeBlocks(0) : Give(Head(NewSlots(b[1], c)), size, align)
    BY DEF newSlab
  <2>2. b[1] \in Nat /\ b[1] % PAGE_SIZE = 0
    BY FreeBlockIs, PageIs
  <2> DEFINE l == NewSlots(b[1], c)
  <2>3. l \in Seq(Nat) /\ l # <<>> /\ IsInjective(l) /\ Slots(b[1], c) = Range(l)
    BY <2>2, SlotsAre
  <2>4. result' = Head(l)
    BY <2>1 DEF Give
  <2> HIDE DEF l
  <2>5. Head(l) \in Slots(b[1], c)
    BY <2>3, PopSeq
  <2> QED BY <2>2, <2>4, <2>5, SlotsNotNull
<1>3. roomy = {} /\ FreeBlocks(0) = {}
  BY <1>1, <1>2 DEF allocFromSlab
<1>4. ASSUME NEW page \in SlabPages, SlabClass(page) = c PROVE freeList[page] = <<>>
  <2>1. PICK d \in Classes : page \in PagesOf(d)
    BY SlabIs, Zenon
  <2>2. d = c
    BY <1>4, <2>1, ClassIs
  <2>3. PICK i \in 1 .. Len(m_slabs[c]) : m_slabs[c][i] = page
    BY <2>1, <2>2 DEF PagesOf
  <2> QED BY <1>3, <2>3
<1> QED BY <1>3, <1>4

\* A large request fails only if there is no block that would hold it.
LEMMA LargeFails ==
  ASSUME IInv, NEW size \in Nat \ {0}, NEW align \in Powers, align + size < SIZE_MOD,
         allocLarge(size, align), result' = 0
  PROVE  \A o \in Orders : BlockSize[o] >= align + size => FreeBlocks(o) = {}
<1> USE DEF IInv
<1> DEFINE w == orderForBytes(align + size)
<1>1. align \in Nat /\ align > 0 /\ align + size \in Nat /\ MAX_ORDER \in Nat
  BY PowerIs, HeapAssumption
<1>2. RoundUp(largeHeaderSize, align) = align /\ LargeTotal(align, size) = align + size
  <2>1. SIZE_MOD \in Nat
    BY HeapAssumption
  <2>2. (align + size) % SIZE_MOD = align + size
    BY <1>1, <2>1
  <2> QED BY <1>1, <2>2, OffsetIs DEF LargeTotal
<1>3. /\ w \in 0 .. (MAX_ORDER + 1)
      /\ \A p \in 0 .. (w - 1) : BlockSize[p] < align + size
  BY <1>1, OrderIs
<1>4. w > MAX_ORDER \/ FreeBlocks(w) = {}
  <2>1. \/ w > MAX_ORDER \/ FreeBlocks(w) = {}
        \/ w <= MAX_ORDER /\ \E b \in FreeBlocks(w) : Give(b[1] + align, size, align)
    BY <1>2 DEF allocLarge
  <2>2. ASSUME w <= MAX_ORDER, NEW b \in FreeBlocks(w), Give(b[1] + align, size, align)
        PROVE  FALSE
    <3>1. w \in Orders
      <4> HIDE DEF w
      <4> QED BY <1>1, <1>3, <2>2 DEF Orders
    <3>2. b[1] \in Nat
      <4> HIDE DEF w
      <4> QED BY <2>2, <3>1, FreeBlockIs
    <3>3. result' = b[1] + align
      BY <2>2 DEF Give
    <3> QED BY <1>1, <3>2, <3>3
  <2> HIDE DEF w
  <2> QED BY <2>1, <2>2
<1> HIDE DEF w
<1>5. ASSUME NEW o \in Orders, BlockSize[o] >= align + size PROVE FreeBlocks(o) = {}
  <2>1. BlockSize[o] \in Nat /\ o \in Nat /\ o <= MAX_ORDER
    BY BlockIs, <1>1 DEF Orders
  <2>2. w <= o
    <3>1. ~ (w <= o) => o \in 0 .. (w - 1)
      BY <1>1, <1>3, <2>1
    <3>2. ~ (BlockSize[o] < align + size)
      BY <1>1, <1>5, <2>1
    <3> QED BY <1>3, <3>1, <3>2
  <2>3. w \in Orders /\ ~ (w > MAX_ORDER)
    BY <1>1, <1>3, <2>1, <2>2 DEF Orders
  <2> QED BY <1>4, <2>2, <2>3, SmallerFree
<1> QED BY <1>5

\* A request that returns null could not have been served.
LEMMA FailsExhausted ==
  ASSUME NoWrap, IInv, NEW size \in Sizes, NEW align \in Aligns,
         Allocate(size, align), result' = 0
  PROVE  LET c == pickClass(size, align)
         IN  \/ c = NO_SLAB_CLASS /\ \A o \in 0 .. MAX_ORDER :
                  BlockSize[o] >= AtLeastOne(size) + RoundUp(largeHeaderSize, align)
                    => FreeBlocks(o) = {}
             \/ c # NO_SLAB_CLASS /\ FreeBlocks(0) = {} /\ \A page \in SlabPages :
                  SlabClass(page) = c => freeList[page] = <<>>
<1> DEFINE c == pickClass(size, align)
           n == AtLeastOne(size)
<1>1. /\ size \in Nat /\ n \in Nat \ {0} /\ align \in Powers /\ align + n < SIZE_MOD
      /\ RoundUp(largeHeaderSize, align) = align /\ align \in Nat
  BY RequestIs
<1>2. /\ c # NO_SLAB_CLASS => allocFromSlab(c, n, align)
      /\ c = NO_SLAB_CLASS => allocLarge(n, align)
  BY AllocateIs
<1>3. c # NO_SLAB_CLASS => c \in Classes
  BY <1>1, ClassFits
<1> HIDE DEF c, n
<1>4. CASE c = NO_SLAB_CLASS
  <2>1. \A o \in Orders : BlockSize[o] >= align + n => FreeBlocks(o) = {}
    BY <1>1, <1>2, <1>4, LargeFails
  <2>2. align + n = n + RoundUp(largeHeaderSize, align)
    BY <1>1
  <2>3. \A o \in 0 .. MAX_ORDER :
          BlockSize[o] >= n + RoundUp(largeHeaderSize, align) => FreeBlocks(o) = {}
    BY <2>1, <2>2 DEF Orders
  <2> QED BY <1>4, <2>3 DEF c, n
<1>5. CASE c # NO_SLAB_CLASS
  <2>1. FreeBlocks(0) = {} /\ \A page \in SlabPages : SlabClass(page) = c => freeList[page] = <<>>
    BY <1>2, <1>3, <1>5, SmallFails
  <2> QED BY <1>5, <2>1 DEF c
<1> QED BY <1>4, <1>5

-----------------------------------------------------------------------------
(* The theorems.                                                           *)

\* The invariant holds in every state of the heap.
THEOREM IInvHolds == ASSUME NoWrap PROVE Spec => []IInv
<1>1. Init => IInv
  BY InitHolds
<1>2. IInv /\ [Next]_vars => IInv'
  BY NextKeeps
<1> QED BY <1>1, <1>2, PTL DEF Spec

\* Every allocation has the alignment it was asked for and lies in a block the
\* heap owns.
THEOREM FitsHolds == ASSUME NoWrap PROVE Spec => []Fits
  BY IInvHolds, InvFits, PTL

\* Allocations never overlap each other or the heap's own data.
THEOREM NoOverlapHolds == ASSUME NoWrap PROVE Spec => []NoOverlap
  BY IInvHolds, InvNoOverlap, PTL

\* No slot is lost or handed out twice, and the headers count right.
THEOREM SlotsConservedHolds == ASSUME NoWrap PROVE Spec => []SlotsConserved
  BY IInvHolds, InvSlots, PTL

\* The heap owns nothing but its slab pages and the blocks of live allocations.
THEOREM OwnedExactlyHolds == ASSUME NoWrap PROVE Spec => []OwnedExactly
  BY IInvHolds, InvOwned, PTL

\* Deleting what the heap handed out takes the right branch and never panics.
THEOREM NoPanicHolds == ASSUME NoWrap PROVE Spec => []NoPanic
<1>1. IInv => NoPanic
  BY DEF IInv
<1> QED BY <1>1, IInvHolds, PTL

\* A request returns null only if no slab and no block can serve it.
THEOREM FailsOnlyWhenExhaustedHolds == ASSUME NoWrap PROVE Spec => FailsOnlyWhenExhausted
<1> DEFINE A == \A size \in Sizes, align \in Aligns :
       Allocate(size, align) /\ result' = 0 =>
         LET c == pickClass(size, align)
         IN  \/ c = NO_SLAB_CLASS /\ \A o \in 0 .. MAX_ORDER :
                  BlockSize[o] >= AtLeastOne(size) + RoundUp(largeHeaderSize, align) => FreeBlocks(o) = {}
             \/ c # NO_SLAB_CLASS /\ FreeBlocks(0) = {} /\ \A page \in SlabPages :
                  SlabClass(page) = c => freeList[page] = <<>>
<1>1. IInv => A
  BY FailsExhausted
<1>2. FailsOnlyWhenExhausted <=> [][A]_vars
  BY DEF FailsOnlyWhenExhausted
<1> HIDE DEF A
<1>3. IInv /\ [Next]_vars => [A]_vars
  BY <1>1
<1> QED BY <1>2, <1>3, IInvHolds, PTL DEF Spec
=============================================================================
