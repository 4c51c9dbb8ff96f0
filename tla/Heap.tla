-------------------------------- MODULE Heap --------------------------------
(***************************************************************************)
(* The kernel heap (core/mm/heap): size-class slabs in single pages, and   *)
(* page-order blocks with a header before the pointer, over a page         *)
(* allocator that is used only through its promise (module PageAllocator). *)
(*                                                                         *)
(* Memory is counted in units of 16 bytes, the least alignment the heap    *)
(* serves, so a slab header takes two units and a large header one.  Of    *)
(* the memory's contents only what Deallocate looks at is kept: the magic  *)
(* words.                                                                  *)
(***************************************************************************)
EXTENDS Integers, Sequences, FiniteSets

CONSTANTS
  PAGE_SIZE,      \* units in a page
  MAX_ORDER,      \* largest block order of the page allocator
  BlockSize,      \* BlockSize[o] is PAGE_SIZE << o
  PoolBase,       \* first address of the pool, aligned to the largest block
  PoolPages,      \* pages in the pool
  SLAB_CLASSES,   \* slot sizes, increasing
  SIZE_MOD,       \* size_t wraps at this value
  Sizes, Aligns,  \* requests of the clients
  Foreign,        \* addresses never handed out that clients may free
  MaxLive         \* bound: live allocations

VARIABLES
  held,      \* blocks <<address, order>> the heap owns
  m_slabs,   \* per class, its slab pages, newest first
  freeList,  \* per slab page, its free slots, next one first
  inUse,     \* per slab page, the header's count
  large,     \* per address with LARGE_MAGIC, the header's [order, userOffset]
  slabMagic, \* pages whose first word is SLAB_MAGIC
  live,      \* ghost: allocations [ptr, size, align] clients own
  result,    \* pointer the last operation returned or was given, 0 for none
  panic      \* HvPanic was called

vars == <<held, m_slabs, freeList, inUse, large, slabMagic, live, result, panic>>

slabHeaderSize == 2
largeHeaderSize == 1
DEFAULT_NEW_ALIGN == 1
Classes == 1 .. Len(SLAB_CLASSES)
MAX_SLAB_SIZE == SLAB_CLASSES[Len(SLAB_CLASSES)]
NO_SLAB_CLASS == Len(SLAB_CLASSES) + 1

PoolEnd == PoolBase + PoolPages * PAGE_SIZE
PageOf(a) == (a \div PAGE_SIZE) * PAGE_SIZE
RoundUp(x, a) == ((x + a - 1) \div a) * a
SlabPages == DOMAIN freeList
Units(a, n) == a .. (a + n - 1)

ASSUME HeapAssumption ==
  /\ {PAGE_SIZE, PoolBase, PoolPages, SIZE_MOD} \subseteq Nat \ {0}
  /\ MAX_ORDER \in Nat /\ MaxLive \in Nat
  /\ Sizes \subseteq 0 .. (SIZE_MOD - 1) /\ Aligns \subseteq Nat \ {0}

\* A block of the next order is twice as large, and the pool starts at a
\* multiple of the largest.
ASSUME BlockAssumption ==
  /\ BlockSize \in [0 .. MAX_ORDER -> Nat \ {0}]
  /\ BlockSize[0] = PAGE_SIZE
  /\ \A o \in 0 .. (MAX_ORDER - 1) : BlockSize[o + 1] = 2 * BlockSize[o]
  /\ PoolBase % BlockSize[MAX_ORDER] = 0

\* The classes increase, and a page has room for its header and a slot.
ASSUME ClassAssumption ==
  /\ SLAB_CLASSES \in Seq(Nat \ {0}) /\ SLAB_CLASSES # <<>>
  /\ \A c, d \in Classes : c < d => SLAB_CLASSES[c] < SLAB_CLASSES[d]
  /\ \A c \in Classes : slabHeaderSize + 2 * SLAB_CLASSES[c] <= PAGE_SIZE

\* Block sizes, slot sizes and alignments.
Powers == {BlockSize[o] : o \in 0 .. MAX_ORDER} \cup {SLAB_CLASSES[c] : c \in Classes}
            \cup Aligns \cup {DEFAULT_NEW_ALIGN}

\* They are powers of two, so the smaller of two divides the larger.
ASSUME PowersAssumption == \A x, y \in Powers : x <= y => y % x = 0

Init ==
  /\ held = {}
  /\ m_slabs = [c \in Classes |-> <<>>]
  /\ freeList = <<>> /\ inUse = <<>> /\ large = <<>>
  /\ slabMagic = {}
  /\ live = {} /\ result = 0
  /\ panic = FALSE

-----------------------------------------------------------------------------
(* The page allocator as the heap sees it.                                 *)

\* Blocks AllocPages may hand out: any that is free and aligned, which one depends
\* on its lists.  That it fails only when there is none is Pmm's ServesFreeMemory,
\* and is so in pools of whole largest blocks that are not based at 0.
FreeBlocks(order) ==
  {<<a, order>> : a \in
     {b \in {PoolBase + k * BlockSize[order] : k \in 0 .. PoolPages} :
        /\ b + BlockSize[order] <= PoolEnd
        /\ \A h \in held : h[1] + BlockSize[h[2]] <= b \/ b + BlockSize[order] <= h[1]}}

\* What a fresh block's first word may hold.
Leftover(page) == {slabMagic \ {page}, slabMagic \cup {page}}

Without(f, a) == [x \in DOMAIN f \ {a} |-> f[x]]
With(f, a, v) == [x \in DOMAIN f \cup {a} |-> IF x = a THEN v ELSE f[x]]

-----------------------------------------------------------------------------
(* Small allocations.                                                      *)

\* The first class whose slots hold need.
ClassFor(need) ==
  IF need > MAX_SLAB_SIZE THEN NO_SLAB_CLASS
  ELSE CHOOSE i \in Classes :
         SLAB_CLASSES[i] >= need /\ \A j \in 1 .. (i - 1) : SLAB_CLASSES[j] < need

pickClass(size, align) == ClassFor(IF size > align THEN size ELSE align)

\* Mutant: slots start at the page, over the header, and the first is the head.
SlotsFromPage(page, c) ==
  [i \in 1 .. (PAGE_SIZE \div SLAB_CLASSES[c]) |-> page + (i - 1) * SLAB_CLASSES[c]]

\* The slots of a new slab in the order its free list links them: the last
\* one is the head.
NewSlots(page, c) ==
  LET size == SLAB_CLASSES[c]
      first == RoundUp(slabHeaderSize, size)
      n == (PAGE_SIZE - first) \div size
  IN  [i \in 1 .. n |-> page + first + (n - i) * size]

Give(ptr, size, align) ==
  /\ result' = ptr
  /\ live' = live \cup {[ptr |-> ptr, size |-> size, align |-> align]}

Fail == result' = 0 /\ UNCHANGED <<held, m_slabs, freeList, inUse, large, slabMagic, live>>

\* The page becomes the first slab of its class and its head slot is taken.
newSlab(c, size, align) ==
  \E b \in FreeBlocks(0) :
    LET slots == NewSlots(b[1], c)
    IN  /\ held' = held \cup {b}
        /\ m_slabs' = [m_slabs EXCEPT ![c] = <<b[1]>> \o @]
        /\ freeList' = With(freeList, b[1], Tail(slots))
        /\ inUse' = With(inUse, b[1], 1)
        /\ slabMagic' = slabMagic \cup {b[1]}
        /\ Give(Head(slots), size, align)
        /\ UNCHANGED large

TakeSlot(page, size, align) ==
  /\ freeList' = [freeList EXCEPT ![page] = Tail(@)]
  /\ inUse' = [inUse EXCEPT ![page] = @ + 1]
  /\ Give(Head(freeList[page]), size, align)
  /\ UNCHANGED <<held, m_slabs, large, slabMagic>>

\* The first slab of the class with a free slot serves; a new slab is made
\* when there is none.
allocFromSlab(c, size, align) ==
  LET roomy == {i \in 1 .. Len(m_slabs[c]) : freeList[m_slabs[c][i]] # <<>>}
  IN  \/ \E i \in roomy : /\ \A j \in roomy : i <= j
                          /\ TakeSlot(m_slabs[c][i], size, align)
      \/ roomy = {} /\ newSlab(c, size, align)
      \/ roomy = {} /\ FreeBlocks(0) = {} /\ Fail

\* Mutant: the slot is not linked.
FreeLosesSlot(ptr) ==
  /\ inUse' = [inUse EXCEPT ![PageOf(ptr)] = @ - 1]
  /\ UNCHANGED <<freeList, held, m_slabs, large, slabMagic, panic>>

freeToSlab(ptr) ==
  /\ freeList' = [freeList EXCEPT ![PageOf(ptr)] = <<ptr>> \o @]
  /\ inUse' = [inUse EXCEPT ![PageOf(ptr)] = @ - 1]
  /\ UNCHANGED <<held, m_slabs, large, slabMagic, panic>>

-----------------------------------------------------------------------------
(* Large allocations.                                                      *)

\* Mutant: a block that would hold total exactly is passed over.
OrderAbove(total) ==
  CHOOSE o \in 0 .. (MAX_ORDER + 1) :
    /\ o = MAX_ORDER + 1 \/ BlockSize[o] > total
    /\ \A p \in 0 .. (o - 1) : BlockSize[p] <= total

\* The least order whose span holds total, MAX_ORDER + 1 if none does.
orderForBytes(total) ==
  CHOOSE o \in 0 .. (MAX_ORDER + 1) :
    /\ o = MAX_ORDER + 1 \/ BlockSize[o] >= total
    /\ \A p \in 0 .. (o - 1) : BlockSize[p] < total

\* Mutant: the room before the pointer is not counted.
TotalOfSize(userOffset, size) == size

LargeTotal(userOffset, size) == (userOffset + size) % SIZE_MOD

\* Mutants: the header is put at the start of the block; the block's first word
\* keeps what it held.
AllocHeaderFirst(size, align) ==
  LET userOffset == RoundUp(largeHeaderSize, align)
      order == orderForBytes(LargeTotal(userOffset, size))
  IN  \/ (order > MAX_ORDER \/ FreeBlocks(order) = {}) /\ Fail
      \/ /\ order <= MAX_ORDER
         /\ \E b \in FreeBlocks(order) :
              /\ held' = held \cup {b}
              /\ slabMagic' = slabMagic \ {b[1]}
              /\ large' = With(large, b[1], [order |-> order, userOffset |-> userOffset])
              /\ Give(b[1] + userOffset, size, align)
              /\ UNCHANGED <<m_slabs, freeList, inUse>>

AllocUnwiped(size, align) ==
  LET userOffset == RoundUp(largeHeaderSize, align)
      order == orderForBytes(LargeTotal(userOffset, size))
  IN  \/ (order > MAX_ORDER \/ FreeBlocks(order) = {}) /\ Fail
      \/ /\ order <= MAX_ORDER
         /\ \E b \in FreeBlocks(order) :
              /\ held' = held \cup {b}
              /\ slabMagic' \in Leftover(b[1])
              /\ large' = With(large, b[1] + userOffset - largeHeaderSize,
                               [order |-> order, userOffset |-> userOffset])
              /\ Give(b[1] + userOffset, size, align)
              /\ UNCHANGED <<m_slabs, freeList, inUse>>

allocLarge(size, align) ==
  LET userOffset == RoundUp(largeHeaderSize, align)
      order == orderForBytes(LargeTotal(userOffset, size))
  IN  \/ (order > MAX_ORDER \/ FreeBlocks(order) = {}) /\ Fail
      \/ /\ order <= MAX_ORDER
         /\ \E b \in FreeBlocks(order) :
              /\ held' = held \cup {b}
              /\ slabMagic' = slabMagic \ {b[1]}
              /\ large' = With(large, b[1] + userOffset - largeHeaderSize,
                               [order |-> order, userOffset |-> userOffset])
              /\ Give(b[1] + userOffset, size, align)
              /\ UNCHANGED <<m_slabs, freeList, inUse>>

HvPanic == panic' = TRUE /\ UNCHANGED <<held, m_slabs, freeList, inUse, large, slabMagic>>

freeLarge(ptr) ==
  LET hdr == ptr - largeHeaderSize
  IN  \/ hdr \notin DOMAIN large /\ HvPanic
      \/ /\ hdr \in DOMAIN large
         /\ held' = held \ {<<ptr - large[hdr].userOffset, large[hdr].order>>}
         /\ large' = Without(large, hdr)
         /\ UNCHANGED <<m_slabs, freeList, inUse, slabMagic, panic>>

-----------------------------------------------------------------------------
(* The two operations behind new and delete.                               *)

Allocate(size0, align0) ==
  LET size == IF size0 = 0 THEN 1 ELSE size0
      align == IF align0 < DEFAULT_NEW_ALIGN THEN DEFAULT_NEW_ALIGN ELSE align0
      c == pickClass(size, align)
  IN  /\ ~panic /\ Cardinality(live) < MaxLive
      /\ IF c < NO_SLAB_CLASS THEN allocFromSlab(c, size, align)
                              ELSE allocLarge(size, align)
      /\ UNCHANGED panic

\* freeToSlab on a page that is no slab writes into a client's memory and
\* returns nothing.
Scribble == UNCHANGED <<held, m_slabs, freeList, inUse, large, slabMagic, panic>>

\* A page-aligned pointer is large; otherwise the page's first word, then the
\* word before the pointer, decide.
Release(ptr) ==
  \/ ptr % PAGE_SIZE = 0 /\ freeLarge(ptr)
  \/ /\ ptr % PAGE_SIZE # 0
     /\ \/ PageOf(ptr) \in slabMagic \cap SlabPages /\ freeToSlab(ptr)
        \/ PageOf(ptr) \in slabMagic \ SlabPages /\ Scribble
        \/ PageOf(ptr) \notin slabMagic /\ freeLarge(ptr)

\* A client deletes what it owns.  Deleting null does nothing.
Deallocate(a) ==
  /\ ~panic
  /\ Release(a.ptr)
  /\ live' = live \ {a}
  /\ result' = 0

\* A client deletes a pointer the heap never handed out.
DeallocateForeign(ptr) ==
  /\ ~panic
  /\ Release(ptr)
  /\ result' = ptr
  /\ UNCHANGED live

Next ==
  \/ \E size \in Sizes, align \in Aligns : Allocate(size, align)
  \/ \E a \in live : Deallocate(a)

Spec == Init /\ [][Next]_vars

\* Clients that also delete foreign pointers.
ForeignSpec == Init /\ [][Next \/ \E ptr \in Foreign : DeallocateForeign(ptr)]_vars

-----------------------------------------------------------------------------
(* Properties.                                                             *)

SlabClass(page) == CHOOSE c \in Classes : \E i \in 1 .. Len(m_slabs[c]) : m_slabs[c][i] = page

\* The types of the heap's state; a slab header never counts below zero or
\* beyond the page's slots.
TypeOK ==
  /\ \A b \in held : b[1] \in PoolBase .. (PoolEnd - 1) /\ b[2] \in 0 .. MAX_ORDER
  /\ m_slabs \in [Classes -> Seq(SlabPages)]
  /\ DOMAIN inUse = SlabPages
  /\ \A page \in SlabPages :
       /\ freeList[page] \in Seq(PoolBase .. (PoolEnd - 1))
       /\ inUse[page] \in 0 .. Len(NewSlots(page, SlabClass(page)))
  /\ \A h \in DOMAIN large : large[h].order \in 0 .. MAX_ORDER
  /\ result \in Nat /\ panic \in BOOLEAN

FreeSlots(page) == {freeList[page][i] : i \in 1 .. Len(freeList[page])}

\* The memory that holds the heap's own data.
Metadata ==
  LET headers == UNION {Units(page, slabHeaderSize) : page \in SlabPages}
  IN  headers \cup DOMAIN large \cup UNION {FreeSlots(page) : page \in SlabPages}

\* Allocations overlap neither each other nor a slab header, a free slot's
\* link or a large header, so a client that stays in its memory never damages
\* the heap.
NoOverlap ==
  /\ \A a, b \in live : a # b => Units(a.ptr, a.size) \cap Units(b.ptr, b.size) = {}
  /\ \A a \in live : Units(a.ptr, a.size) \cap Metadata = {}

\* An allocation has the alignment its client asked for and lies inside one
\* block that the heap owns.
Fits ==
  \A a \in live :
    /\ a.ptr % a.align = 0
    /\ \E b \in held : b[1] <= a.ptr /\ a.ptr + a.size <= b[1] + BlockSize[b[2]]

\* Every slot of every slab is free once or owned by one client, and the header
\* counts the owned ones: repeated allocation and deletion neither loses a slot
\* nor hands one out twice.
SlotsConserved ==
  \A page \in SlabPages :
    LET slots == NewSlots(page, SlabClass(page))
        taken == {a.ptr : a \in {b \in live : PageOf(b.ptr) = page}}
    IN  /\ Cardinality(FreeSlots(page)) = Len(freeList[page])
        /\ inUse[page] = Cardinality(taken)
        /\ FreeSlots(page) \cap taken = {}
        /\ FreeSlots(page) \cup taken = {slots[i] : i \in 1 .. Len(slots)}

\* The blocks the heap owns are its slab pages and one block per live large
\* allocation: deleting a large allocation returns its block whole, at the
\* order it was allocated with.
OwnedExactly ==
  /\ {b[1] : b \in {h \in held : h[1] \in SlabPages}} = SlabPages
  /\ \A b \in held : b[1] \notin SlabPages =>
       \E a \in live : b[1] <= a.ptr /\ a.ptr < b[1] + BlockSize[b[2]]

\* Deleting what the heap handed out never panics.
NoPanic == ~panic

AtLeastOne(size) == IF size = 0 THEN 1 ELSE size

\* A small request fails only if no slab of its class has a free slot and the
\* page allocator has no page; a large one only if the allocator has no block
\* that can hold it.
FailsOnlyWhenExhausted ==
  [][\A size \in Sizes, align \in Aligns :
       Allocate(size, align) /\ result' = 0 =>
         LET c == pickClass(size, align)
         IN  \/ c = NO_SLAB_CLASS /\ \A o \in 0 .. MAX_ORDER :
                  BlockSize[o] >= AtLeastOne(size) + RoundUp(largeHeaderSize, align) => FreeBlocks(o) = {}
             \/ c # NO_SLAB_CLASS /\ FreeBlocks(0) = {} /\ \A page \in SlabPages :
                  SlabClass(page) = c => freeList[page] = <<>>]_vars

\* Deleting a pointer the heap did not hand out panics.
ForeignPanics ==
  [][result' \in Foreign /\ result' # result => panic']_vars
=============================================================================
