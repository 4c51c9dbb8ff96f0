-------------------------------- MODULE Pmm ---------------------------------
(***************************************************************************)
(* The physical page allocator (core/mm/pmm): a buddy allocator over one   *)
(* contiguous pool, with a free list per order and one bit per buddy pair. *)
(*                                                                         *)
(* The allocator runs on one core with interrupts that never return to it  *)
(* (every EL2 exception panics), so an operation is not interleaved with   *)
(* another.  Its loops are modelled one iteration at a time: while pc is   *)
(* not "idle" the only enabled steps are those of the running operation.   *)
(*                                                                         *)
(* An address is a natural number of bytes.  A block is <<address, order>>.*)
(***************************************************************************)
EXTENDS Integers, Sequences, FiniteSetsExt

CONSTANTS
  PAGE_SIZE,      \* bytes in a page
  MAX_ORDER,      \* the largest order
  BlockSize,      \* BlockSize[o] is PAGE_SIZE << o
  MAX_POOL_SIZE,  \* largest pool the bitmap supports
  Kernel,         \* [base, size] of the hypervisor image (linker symbols)
  Maps            \* the memory maps a device tree may describe

Orders == 0 .. MAX_ORDER

ASSUME OrderAssumption ==
  /\ PAGE_SIZE \in Nat \ {0}
  /\ MAX_ORDER \in Nat

ASSUME BlockSizeAssumption ==
  /\ BlockSize \in [Orders -> Nat \ {0}]
  /\ BlockSize[0] = PAGE_SIZE
  /\ \A o \in Orders : o < MAX_ORDER => BlockSize[o + 1] = 2 * BlockSize[o]

ASSUME PoolAssumption ==
  MAX_POOL_SIZE \in Nat /\ MAX_POOL_SIZE % (2 * BlockSize[MAX_ORDER]) = 0

ASSUME MapAssumption ==
  /\ Kernel.base \in Nat /\ Kernel.size \in Nat
  /\ \A map \in Maps :
       /\ map.memBase \in Nat /\ map.memSize \in Nat
       /\ map.atfBase \in Nat /\ map.atfSize \in Nat
       /\ map.dtbBase \in Nat /\ map.dtbSize \in Nat
       /\ map.cpioArchiveBase \in Nat /\ map.cpioArchiveSize \in Nat

VARIABLES
  m_base, m_size,   \* the pool
  m_freeLists,      \* order -> addresses of free blocks, head first
  m_bitmap,         \* the set of bits that are 1
  pc,               \* the operation that is running
  addr, order,      \* its block (or, during start-up, its cursor)
  want,             \* AllocPages: the order asked for
  regions,          \* SetMemoryMap: the regions to reserve, in order
  region,           \* the index of the one being reserved
  held,             \* ghost: blocks callers own
  reserved          \* ghost: blocks reserveRegion took off the lists

vars == <<m_base, m_size, m_freeLists, m_bitmap, pc, addr, order, want,
          regions, region, held, reserved>>

-----------------------------------------------------------------------------
(* Helpers of the class.                                                   *)

\* totalPages >> (o + 1): the buddy pairs of order o in a pool of this size.
Pairs(size, o) == size \div (2 * BlockSize[o])

\* The loop over off: the bits of the orders below o.
bitOffset(size) ==
  LET sum[o \in 0 .. (MAX_ORDER + 1)] ==
        IF o = 0 THEN 0 ELSE sum[o - 1] + Pairs(size, o - 1)
  IN  sum

\* Mutant: the offset of an order counts blocks instead of pairs.
BlockCountIndex(a, o) ==
  bitOffset(2 * m_size)[o] + ((a - m_base) \div (2 * BlockSize[o]))

bitmapIndex(a, o) ==
  bitOffset(m_size)[o] + ((a - m_base) \div (2 * BlockSize[o]))

\* The bitmap after the bit of a block's pair is flipped.  The loop that
\* halts on an index past the array is not modelled: BitmapInBounds shows
\* that it is never entered.
bitmapToggle(a, o) == SymDiff(m_bitmap, {bitmapIndex(a, o)})

\* Bits the array has: BITMAP_BYTES, from the largest pool.
BITMAP_BITS == 8 * ((bitOffset(MAX_POOL_SIZE)[MAX_ORDER + 1] + 7) \div 8)

\* Mutant: lists do not end in a null pointer, and a block at 0 stays on its own.
PushAnywhere(a, o) == [m_freeLists EXCEPT ![o] = <<a>> \o @]

\* A block at address 0 makes the head a null pointer, which is the end of the
\* list: the block is on no list afterwards.
listPush(a, o) == [m_freeLists EXCEPT ![o] = IF a = 0 THEN <<>> ELSE <<a>> \o @]

listPop(o) == [m_freeLists EXCEPT ![o] = Tail(@)]

\* The list s without the first node that is at a.
Unlink(s, a) ==
  LET i == Min({j \in 1 .. Len(s) : s[j] = a})
  IN  SubSeq(s, 1, i - 1) \o SubSeq(s, i + 1, Len(s))

listRemove(a, o) == [m_freeLists EXCEPT ![o] = Unlink(@, a)]

\* offset XOR size, for a size that is a power of two.
buddyOf(a, o) ==
  LET offset == a - m_base
  IN  m_base + IF (offset \div BlockSize[o]) % 2 = 0
               THEN offset + BlockSize[o]
               ELSE offset - BlockSize[o]

OnList(a, o) == a \in Range(m_freeLists[o])

PageDown(a) == a - (a % PAGE_SIZE)
PageUp(a) == PageDown(a + PAGE_SIZE - 1)

-----------------------------------------------------------------------------
(* SetMemoryMap: seed the lists, then reserve the regions in order.        *)

Region(b, s) == [base |-> PageDown(b), end |-> PageUp(b + s)]

Regions(map) ==
  <<Region(Kernel.base, Kernel.size),
    Region(map.atfBase, map.atfSize),
    Region(map.dtbBase, map.dtbSize)>>
  \o (IF map.cpioArchiveSize # 0
      THEN <<Region(map.cpioArchiveBase, map.cpioArchiveSize)>> ELSE <<>>)
  \o (IF map.memBase = 0 /\ map.memSize >= PAGE_SIZE
      THEN <<Region(0, PAGE_SIZE)>> ELSE <<>>)

Init ==
  /\ m_base = 0 /\ m_size = 0
  /\ m_freeLists = [o \in Orders |-> <<>>]
  /\ m_bitmap = {}
  /\ pc = "boot"
  /\ addr = 0 /\ order = 0 /\ want = 0
  /\ regions = <<>> /\ region = 1
  /\ held = {} /\ reserved = {}

\* Entry, called once, by hmain.  A pool past the bitmap's size halts.
SetMemoryMap(map) ==
  /\ pc = "boot"
  /\ m_base' = map.memBase
  /\ m_size' = map.memSize
  /\ m_freeLists' = [o \in Orders |-> <<>>]
  /\ m_bitmap' = {}
  /\ pc' = IF map.memSize > MAX_POOL_SIZE THEN "halted" ELSE "seed"
  /\ addr' = map.memBase
  /\ regions' = Regions(map)
  /\ UNCHANGED <<order, want, region, held, reserved>>

Fits(o) == addr + BlockSize[o] <= m_base + m_size

\* Mutant: the blocks of a tail are seeded from the smallest up.
SeedSmallestFirst ==
  LET odd(o) == (m_base + m_size - addr) % (2 * BlockSize[o]) # 0
  IN  /\ pc = "seed"
      /\ \E o \in Orders :
           /\ Fits(o) /\ (o = MAX_ORDER \/ odd(o)) /\ \A p \in Orders : p < o => ~odd(p)
           /\ m_bitmap' = bitmapToggle(addr, o)
           /\ m_freeLists' = listPush(addr, o)
           /\ addr' = addr + BlockSize[o]
      /\ UNCHANGED <<m_base, m_size, pc, order, want, regions, region, held,
                     reserved>>

\* One block of the seeding loop: the largest that the rest of the pool
\* holds.  With a rest smaller than a page the loop spins for ever: then no
\* step is enabled.
SeedBlock ==
  /\ pc = "seed"
  /\ \E o \in Orders :
       /\ Fits(o) /\ \A p \in Orders : Fits(p) => p <= o
       /\ m_bitmap' = bitmapToggle(addr, o)
       /\ m_freeLists' = listPush(addr, o)
       /\ addr' = addr + BlockSize[o]
  /\ UNCHANGED <<m_base, m_size, pc, order, want, regions, region, held,
                 reserved>>

SeedDone ==
  /\ pc = "seed"
  /\ addr >= m_base + m_size
  /\ pc' = "reserve"
  /\ addr' = regions[region].base
  /\ UNCHANGED <<m_base, m_size, m_freeLists, m_bitmap, order, want, regions,
                 region, held, reserved>>

\* The blocks reserveRegion would take at addr: free, aligned on the
\* absolute address, and inside the region.
Removable ==
  {o \in Orders : /\ addr % BlockSize[o] = 0
                  /\ addr + BlockSize[o] <= regions[region].end
                  /\ OnList(addr, o)}

ReserveBlock ==
  /\ pc = "reserve" /\ addr < regions[region].end
  /\ \E o \in Removable :
       /\ \A p \in Removable : p <= o
       /\ m_freeLists' = listRemove(addr, o)
       /\ m_bitmap' = bitmapToggle(addr, o)
       /\ addr' = addr + BlockSize[o]
       /\ reserved' = reserved \cup {<<addr, o>>}
  /\ UNCHANGED <<m_base, m_size, pc, order, want, regions, region, held>>

\* Mutant: a page that is on no list does not advance the cursor.
SkipWithoutAdvance ==
  /\ pc = "reserve" /\ addr < regions[region].end
  /\ Removable = {}
  /\ UNCHANGED vars

ReserveSkip ==
  /\ pc = "reserve" /\ addr < regions[region].end
  /\ Removable = {}
  /\ addr' = addr + PAGE_SIZE
  /\ UNCHANGED <<m_base, m_size, m_freeLists, m_bitmap, pc, order, want,
                 regions, region, held, reserved>>

ReserveNext ==
  /\ pc = "reserve" /\ addr >= regions[region].end
  /\ \/ /\ region = Len(regions)
        /\ pc' = "idle" /\ addr' = 0
        /\ UNCHANGED region
     \/ /\ region < Len(regions)
        /\ region' = region + 1
        /\ addr' = regions[region'].base
        /\ UNCHANGED pc
  /\ UNCHANGED <<m_base, m_size, m_freeLists, m_bitmap, order, want, regions,
                 held, reserved>>

-----------------------------------------------------------------------------
(* AllocPages.                                                             *)

\* The operation ends and returns block <<a, o>>: the caller owns it.
Return(a, o) ==
  /\ pc' = "idle" /\ addr' = 0 /\ order' = 0 /\ want' = 0
  /\ held' = held \cup {<<a, o>>}

Continue(op, a, o, w) ==
  pc' = op /\ addr' = a /\ order' = o /\ want' = w

\* Orders whose list can serve a request of order o.
Usable(o) == {p \in Orders : p >= o /\ m_freeLists[p] # <<>>}

\* When no list can serve the request the code returns 0 and changes
\* nothing: a stuttering step.
AllocPages(o) ==
  /\ pc = "idle"
  /\ \E found \in Usable(o) :
       LET a == Head(m_freeLists[found])
       IN  /\ \A p \in Usable(o) : found <= p
           /\ m_freeLists' = listPop(found)
           /\ m_bitmap' = bitmapToggle(a, found)
           /\ \/ found = o /\ Return(a, o)
              \/ found > o /\ Continue("split", a, found, o) /\ UNCHANGED held
  /\ UNCHANGED <<m_base, m_size, regions, region, reserved>>

SplitWith(bits(_, _), lists(_, _), half) ==
  /\ pc = "split"
  /\ LET found == order - 1
     IN  /\ m_bitmap' = bits(half, found)
         /\ m_freeLists' = lists(half, found)
         /\ \/ found = want /\ Return(addr, found)
            \/ /\ found > want
               /\ Continue("split", addr, found, want)
               /\ UNCHANGED held
  /\ UNCHANGED <<m_base, m_size, regions, region, reserved>>

\* Mutants: the half that is kept is pushed; the half that is split off is
\* neither marked nor pushed.
SplitPushesLowerHalf == SplitWith(bitmapToggle, listPush, addr)
SplitDropsUpperHalf ==
  SplitWith(LAMBDA a, o : m_bitmap, LAMBDA a, o : m_freeLists, addr)

\* One iteration of the loop that halves a block that is too large.
SplitBlock ==
  /\ pc = "split"
  /\ LET found == order - 1
         split == addr + BlockSize[found]
     IN  /\ m_bitmap' = bitmapToggle(split, found)
         /\ m_freeLists' = listPush(split, found)
         /\ \/ found = want /\ Return(addr, found)
            \/ /\ found > want
               /\ Continue("split", addr, found, want)
               /\ UNCHANGED held
  /\ UNCHANGED <<m_base, m_size, regions, region, reserved>>

-----------------------------------------------------------------------------
(* FreePages: callers pass a block they own, with its order.               *)

FreePages(b) ==
  /\ pc = "idle"
  /\ b \in held
  /\ held' = held \ {b}
  /\ Continue("merge", b[1], b[2], 0)
  /\ UNCHANGED <<m_base, m_size, m_freeLists, m_bitmap, regions, region,
                 reserved>>

\* Mutant: the toggled bit is not looked at.
InsertAlways ==
  /\ pc = "merge"
  /\ m_bitmap' = bitmapToggle(addr, order)
  /\ m_freeLists' = listPush(addr, order)
  /\ Continue("idle", 0, 0, 0)
  /\ UNCHANGED <<m_base, m_size, regions, region, held, reserved>>

\* The toggled bit says that the buddy is not free, or the block is already
\* of the largest order: it goes on its list.
MergeInsert ==
  /\ pc = "merge"
  /\ order = MAX_ORDER \/ bitmapIndex(addr, order) \notin m_bitmap
  /\ m_bitmap' = bitmapToggle(addr, order)
  /\ m_freeLists' = listPush(addr, order)
  /\ Continue("idle", 0, 0, 0)
  /\ UNCHANGED <<m_base, m_size, regions, region, held, reserved>>

\* The toggled bit says that the buddy is free, but it is on no list of this
\* order: the bit is toggled back and the block goes on its list.
MergeFallback ==
  /\ pc = "merge"
  /\ order < MAX_ORDER /\ bitmapIndex(addr, order) \in m_bitmap
  /\ ~OnList(buddyOf(addr, order), order)
  /\ m_freeLists' = listPush(addr, order)
  /\ Continue("idle", 0, 0, 0)
  /\ UNCHANGED <<m_base, m_size, m_bitmap, regions, region, held, reserved>>

\* Mutant: the bit of the merged pair stays.
MergeKeepsBit ==
  /\ pc = "merge"
  /\ order < MAX_ORDER /\ bitmapIndex(addr, order) \in m_bitmap
  /\ LET buddy == buddyOf(addr, order)
     IN  /\ OnList(buddy, order)
         /\ m_freeLists' = listRemove(buddy, order)
         /\ Continue("merge", IF buddy < addr THEN buddy ELSE addr,
                     order + 1, 0)
  /\ UNCHANGED <<m_base, m_size, m_bitmap, regions, region, held, reserved>>

\* Both buddies are free: they become one block of the next order.
MergeBuddies ==
  /\ pc = "merge"
  /\ order < MAX_ORDER /\ bitmapIndex(addr, order) \in m_bitmap
  /\ LET buddy == buddyOf(addr, order)
     IN  /\ OnList(buddy, order)
         /\ m_freeLists' = listRemove(buddy, order)
         /\ Continue("merge", IF buddy < addr THEN buddy ELSE addr,
                     order + 1, 0)
  /\ m_bitmap' = bitmapToggle(addr, order)
  /\ UNCHANGED <<m_base, m_size, regions, region, held, reserved>>

-----------------------------------------------------------------------------
Step ==
  \/ SeedBlock \/ SeedDone
  \/ ReserveBlock \/ ReserveSkip \/ ReserveNext
  \/ SplitBlock
  \/ MergeInsert \/ MergeFallback \/ MergeBuddies

Next ==
  \/ \E map \in Maps : SetMemoryMap(map)
  \/ \E o \in Orders : AllocPages(o)
  \/ \E b \in held : FreePages(b)
  \/ Step

Spec == Init /\ [][Next]_vars

\* The processor executes the loops: an operation that can take a step does.
FairSpec == Spec /\ WF_vars(Step)

-----------------------------------------------------------------------------
(* Properties.                                                             *)

BlockType == Nat \X Orders

FreeBlocks == UNION {{<<a, o>> : a \in Range(m_freeLists[o])} : o \in Orders}

\* The block the running operation has in hand.
Current == IF pc \in {"split", "merge"} THEN {<<addr, order>>} ELSE {}

Owned == FreeBlocks \cup Current \cup held \cup reserved

End(b) == b[1] + BlockSize[b[2]]
Span(b) == b[1] .. (End(b) - 1)
Disjoint(b, c) == End(b) <= c[1] \/ End(c) <= b[1]
InPool(b) == m_base <= b[1] /\ End(b) <= m_base + m_size
Aligned(b) == (b[1] - m_base) % BlockSize[b[2]] = 0

\* The type of every variable but m_bitmap, whose range is BitmapInBounds.
TypeOK ==
  /\ m_base \in Nat /\ m_size \in Nat
  /\ m_freeLists \in [Orders -> Seq(Nat)]
  /\ pc \in {"boot", "halted", "seed", "reserve", "idle", "split", "merge"}
  /\ addr \in Nat /\ order \in Orders /\ want \in Orders
  /\ regions \in Seq([base : Nat, end : Nat])
  /\ region \in Nat
  /\ held \subseteq BlockType /\ reserved \subseteq BlockType

\* No byte has two owners: the blocks on the free lists, the block in the
\* hands of AllocPages or FreePages, the blocks callers hold and the reserved
\* blocks are inside the pool and pairwise disjoint, and no list holds a
\* block twice.  The merge in FreePages trusts a bit and a list search; the
\* split in AllocPages trusts the order it counts down.
NoOverlap ==
  /\ \A o \in Orders : IsInjective(m_freeLists[o])
  /\ Current \cap FreeBlocks = {}
  /\ Current \cap held = {}
  /\ FreeBlocks \cap held = {}
  /\ reserved \cap (FreeBlocks \cup Current \cup held) = {}
  /\ \A b, c \in Owned : b # c => Disjoint(b, c)
  /\ \A b \in Owned : InPool(b)

\* What holds of the allocator stage by stage, and makes NoOverlap inductive:
\* nothing is held before start-up ends, the blocks seeded so far end at the
\* cursor, a split still has an order to go down.
StageOK ==
  /\ pc \in {"boot", "halted"} => FreeBlocks = {}
  /\ pc \in {"boot", "halted", "seed", "reserve"} => held = {}
  /\ pc \in {"boot", "halted", "seed"} => reserved = {}
  /\ pc = "seed" => /\ m_base <= addr
                    /\ \A b \in FreeBlocks : End(b) <= addr
  /\ pc = "boot" => region = 1
  /\ pc \in {"seed", "reserve"} => region \in 1 .. Len(regions)
  /\ pc = "split" => want < order

\* No block at address 0 is on a list, in hand or held: listPush loses it.
NoZero == \A b \in FreeBlocks \cup Current \cup held : b[1] # 0

IndInv == TypeOK /\ NoOverlap /\ StageOK /\ NoZero

\* A block of order o starts at a multiple of its size from the pool's base,
\* whatever sequence of splits and merges produced it: buddyOf relies on it.
BuddyAligned == \A b \in Owned : Aligned(b)

\* Once SetMemoryMap has seeded the pool every byte of it has an owner: no
\* split, merge, reservation or free loses memory.  In a pool based at 0 the
\* first block seeded is a null list head and is lost.
NoLeak ==
  m_base # 0 /\ pc \in {"reserve", "idle", "split", "merge"} =>
    \A x \in m_base .. (m_base + m_size - 1) : \E b \in Owned : x \in Span(b)

\* Every bit ever toggled is inside the array, so bitmapToggle never takes
\* the branch that halts, for every pool SetMemoryMap accepts.
BitmapInBounds == m_bitmap \subseteq 0 .. (BITMAP_BITS - 1)

WholeBlocks == m_size % BlockSize[MAX_ORDER] = 0

\* Between operations, in a pool of whole largest blocks, the bit of a buddy
\* pair is 1 exactly when one of the two is on its free list: what FreePages
\* decides to merge on.
BitmapSound ==
  pc = "idle" /\ WholeBlocks =>
    \A o \in 0 .. (MAX_ORDER - 1) :
      \A k \in 0 .. ((m_size \div (2 * BlockSize[o])) - 1) :
        LET left == m_base + 2 * k * BlockSize[o]
        IN  (bitmapIndex(left, o) \in m_bitmap) <=>
              (OnList(left, o) # OnList(left + BlockSize[o], o))

\* Memory that is free can be had again, however it was split before: between
\* operations, in a pool of whole largest blocks that is not based at 0, if no
\* byte of an aligned block is held or reserved then AllocPages does not return 0
\* for the block's order.
ServesFreeMemory ==
  pc = "idle" /\ WholeBlocks /\ m_base # 0 =>
    \A o \in Orders :
      \A k \in 0 .. ((m_size \div BlockSize[o]) - 1) :
        LET b == <<m_base + k * BlockSize[o], o>>
        IN  (\A c \in held \cup reserved : Disjoint(b, c)) => Usable(o) # {}

\* FreePages merges until no more merging is possible: between operations no
\* two buddies are on the free list of their order.
MergedUntilImpossible ==
  pc = "idle" =>
    \A o \in 0 .. (MAX_ORDER - 1) : \A a \in Range(m_freeLists[o]) :
      ~OnList(buddyOf(a, o), o)

\* The regions SetMemoryMap reserves never reach a caller of AllocPages.
ReservedNeverHandedOut ==
  \A i \in DOMAIN regions : \A b \in held :
    regions[i].base < regions[i].end =>
      End(b) <= regions[i].base \/ regions[i].end <= b[1]

\* The promise of the allocator to its callers: the pool is what SetMemoryMap
\* set, and of the state only the blocks callers own are visible.
Promise == INSTANCE PageAllocator
           WITH pool <- [base |-> m_base, size |-> m_size]

\* AllocPages, FreePages and SetMemoryMap implement PageAllocator: a block
\* handed out is never at address 0, lies in the pool at a multiple of its
\* size, and is disjoint from every block a caller owns at that moment.
KeepsPromise == Promise!ASpec

\* Every operation ends: the loops of seeding, reserving, splitting and
\* merging are not endless, for pools of whole pages.
OperationsEnd ==
  pc \in {"seed", "reserve", "split", "merge"} ~> pc = "idle"

=============================================================================
