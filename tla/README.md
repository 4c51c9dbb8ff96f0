# HyperBerry: a TLA+ verification project

HyperBerry is a bare-metal AArch64 type-1 hypervisor. This directory holds TLA+
models of its components, TLC configurations that check them on small instances,
and TLAPS proofs about the page allocator, the heap, the interrupt controller, the
run loop, the guest's stage-2 tables, the boot archive and boot loader, the device
tree parser, the device windows and the hypervisor's own translation. `PROJECT.json` maps every definition that
models code to the source lines it stands for, and lists the components, the runs,
the hazards and the findings.

To check a model: `tlc -config Heap.cfg MCHeap`. To check the proofs: `tlapm` on
`CommonLemmas.tla` and on each `…Proofs.tla`; the longest take about 20 minutes.

## 1. The system

`hmain` (core/main.cpp) runs on one core, without preemption:

1. `TreeParser::ParseMemoryMap` reads RAM, the firmware's region and the boot
   archive from the firmware's device tree.
2. `Pmm::SetMemoryMap` seeds the page allocator and reserves what is in use.
3. `GetHostMmio` finds the devices, and `HostMmu::Enable` turns on stage 1.
4. `BootLoader::Load` takes guest RAM from the allocator, copies kernel, device
   tree and initrd out of the archive, and patches the guest's tree.
5. `Vmm` builds the guest's stage-2 tables (`GuestMmu`, devices from
   `GetGuestMmio`), then `Vmm::Run` enters the guest and handles its exits.

What runs concurrently is hardware and the guest: the page-table walker and its
TLB read tables while they are written, time passes for the timer, devices raise
interrupts at any time, and the guest acts on the interrupt controller between
two exits. Nothing is persistent, so there is no recovery. Most errors end in a
panic or an endless `wfe`, which are final states of the models.

| Component | State | Operations | What must hold |
|---|---|---|---|
| Page allocator | free lists, pair bitmap, pool | SetMemoryMap, AllocPages, FreePages | no page has two owners, none is lost, reserved memory stays reserved |
| Heap | slab lists, headers in memory | Allocate, Deallocate | allocations fit, are aligned, never overlap; frees go back where they came from |
| Stage-2 MMU | tables, TLB | constructor, MapBlock, MapPage, Enable | the guest reaches only what it was given; a split is invisible to it |
| Device tree | walk state | validateHeader, ParseMemoryMap, FindDevice | each value comes from the node it should come from |
| Device windows | array of windows | Add, Covers, the two builders | nothing is dropped, one target per address |
| Host MMU | tables, TLB | Enable, MapRange, UnmapRange, flushes | devices uncached and memory cached; nothing unmapped stays reachable |
| vCPU, VM, VMM | registers, VM state, last exit | vcpu_run, Run, exit dispatch | host and guest state survive the switch; a stopped VM stays stopped |
| HVC and SMC | guest registers | Handle | every call is answered or ends the run |
| GIC | distributor, list registers | AckIrq, InjectIrq, EndIrq, Reset, CpuReset, EnableIrq, DisableIrq | no interrupt is duplicated or lost |
| Timer | compare value, callback | Start, Stop, SetIntervalTicks, SetCallback, HandleIrq | the callback gets its own context, on each expiry |
| Boot archive | cursor, end, error | validate, Next, Find | exactly well-formed archives are accepted; the file that is found is the one that is named |
| Boot loader | layout, guest RAM, copied tree | ReadFiles, CalculateLayout, Load | files never overlap, RAM is never leaked, the guest can start |

## 2. Modules

| Module | Models | Notes on the abstraction |
|---|---|---|
| `Pmm` | core/mm/pmm | One step per block seeded, reserved, split or merged. `held` and `reserved` are ghosts: the blocks callers own and the blocks taken out. |
| `PageAllocator` | what the allocator promises | Only the pool and the blocks callers own. |
| `Heap` | core/mm/heap | Units of 16 bytes. Of memory's contents only the magic words are kept. The page allocator is used through its promise. |
| `GuestMmu` | core/mm/mmu/guestMmu, core/mm/pageTable | A store to a table is a step, so the walker sees every intermediate table. |
| `AddressSpace` | what a mapping call promises | A map from guest pages to host pages. |
| `Vcpu` | core/vcpu | Registers in groups that the code moves together; each value records who wrote it. |
| `Vmm` | core/vmm, core/vm, HVC, SMC, vectors | Composes the run loop with the world switch. |
| `Gic` | drivers/gic | Driver, controller hardware, devices and the guest's side. No production code handles interrupts yet, so the handler is that of tests/integration/gic; injections of interrupts nobody acknowledged, as its tests make, happen too. `forwarded` and `stranded` are ghosts: the interrupts that were active when they were injected, and the active ones nobody will end, which InjectIrq refused, CpuReset dropped or HandleIrq took for the host. |
| `Timer` | drivers/timer | Composed with `Gic`: the timer's output is one of its lines. Time is the ticks since the last arm; TVAL keeps the low half of an interval as a signed number. The two stores of SetCallback are two steps. |
| `Cpio` | lib/cpio | A region is its size and the headers that lie in it by offset, so it may end anywhere inside an entry. `WellFormed` is the reference definition of a sound archive. |
| `BootLoader` | core/bootLoader, the guest part of `hmain` | Composed with `Cpio`. `LayoutOf` is the layout algorithm with wrapping arithmetic. |
| `FdtWalk` | `validateHeader` | The token stream, made one token at a time. |
| `MemoryMapParser` | `ParseMemoryMap` | A value is the path of the node it was read from. |
| `DeviceFinder` | `FindDevice`, `translate` | Array of bus levels that keeps stale entries, against a reference reading of the tree. `reg` and `ranges` are sequences of cells, read with the address and size cells in force; a cell has `CELL` values in place of 2^32, and two of them make a 64-bit number. |
| `TreeParser` | the two operations on one tree | A call of either, over the same token stream. |
| `MmioMap` | core/mm/mmu/mmioMap.h, `GetHostMmio`, `GetGuestMmio` | The devices found are inputs. |
| `HostMmu` | core/mm/mmu/hostMmu | Composed with `MmioMap`, whose windows Enable maps. Upper tables are the set of last-level tables that exist. Each block of a range is a step, and the hardware may cache a translation between any two. |
| `CommonLemmas`, `PmmProofs`, `HeapProofs`, `TableProofs`, `GuestMmuProofs`, `GuestRunProofs`, `BootLoaderProofs`, `StartUpProofs` | | Lemmas and proofs, section 4. |

Each `MC…` module gives the constants of one of these modules small values. An
operator commented as a mutant is a plausible bug in the definition after it;
each shows that a property can fail.

Device trees are never built in advance. A token is chosen at each step, and a
ghost stack of open nodes says where the walk really is. The parser's own state
is compared with that ghost. The only bound is the nesting depth, so streams of
any length are covered. A stream that `validateHeader` would reject can end in a
panic at any token; in the code the panic comes before the parser starts, and in
both cases no result is used.

## 3. Passing runs

| Run | Shows |
|---|---|
| `pmm` | No byte has two owners, blocks stay aligned, no memory is lost, bitmap indices stay in the array, every operation ends, and `Pmm` implements `PageAllocator`. In pools of whole largest blocks the bitmap means what FreePages takes it to mean, and free memory is always served. |
| `heap` | Allocations fit, are aligned and disjoint from each other and the heap's own data; slots and blocks are conserved; a request fails only when memory is exhausted. |
| `guest_mmu` | The guest is confined, a split never shows two sizes of translation to the TLB, and the tables implement `AddressSpace`. |
| `vmm_run` | Host and guest registers survive the switch, which no interrupt can break into; exits describe the exception that happened; a VM stops for a reason, and a guest that asks to be shut down stays so; every call a guest makes is answered after the instruction that made it, or ends the run. |
| `gic_delivery` | No virtual interrupt is live twice; an interrupt forwarded to the guest stays active until the guest ends it; active interrupts are accounted for: in a list register, in the handler's hands, or refused, dropped by CpuReset or the host's own; the timer's callback gets its own context, unless it is replaced on a running timer. |
| `boot_loader` | Exactly well-formed archives are accepted, and ReadFiles finds the files that the paths name; layouts are sound for every file size up to the wrap and only misfits are rejected; only placeholders are patched; loading is all or nothing, up to the registers the guest starts with. |
| `tree_parser` | ParseMemoryMap's flags always agree with where it is in the tree; FindDevice returns the regions a reference reading gives, whatever the cell counts and the number of windows in a bus's ranges, and passes over nothing usable. |
| `mmio_map` | What a builder returns maps everything it was asked for, to one target per address, and a full map is reported; translation is switched on with exactly the devices uncached; an unmapped block's translations are gone, but for the race of section 5. |

The type invariants of `Pmm`, `Heap`, `GuestMmu`, `Vmm`, `Gic`, `Timer` and
`BootLoader` document the variables. They hold on the same instances; the runs
leave them out.

### Bounds

- Pmm: pages of 2 bytes, orders 0 to 2, pools of 2 to 4 largest blocks and tails.
  Splits and merges go through every order, and pools with and without a tail,
  misaligned bases, a pool based at 0 and a pool too large for the bitmap occur.
- Heap: 4 pages of 16 units, 3 slab classes, 3 live allocations. Requests lie on
  both sides of each class limit, of the slab limit and of a page.
- GuestMmu: 16 guest pages, tables of 2 entries, RAM across both root tables, and
  6 tables so that exhaustion happens. The walker looks up `WalkedPages`.
- Vmm: `MaxGen` bounds the distinct register values, `MaxPc` the guest's steps.
- Gic and Timer: 3 interrupts, one of them the timer's, over 2 list registers, so
  that injections are refused; the other two are alike, and the run uses that
  symmetry. Two clients register callbacks. `TvalRange` is small, so that an
  interval reads as negative. Time beyond `MaxElapsed` ticks after
  the arm is not told apart.
- BootLoader: RAM of 16 units, arithmetic modulo 32, nesting `MaxDepth`. Archives
  of up to five entries in several orders, with each kind of flaw in each place,
  and every truncation of a sound one.
- Device tree: nesting of 4 (memory map) or 3 (devices) in place of 16. The
  parsers tell apart depths up to 3. The cell counts give a `reg` every stride
  from 0 to 4, and its lengths are whole entries of some and not of others; with
  two size cells a bus's `ranges` has two windows. A device below two buses with
  ranges of their own is outside the bound; the proof of section 4 covers it. Cell
  counts so large that a stride in bytes passes 32 bits are left out.
- MmioMap: 3 windows in place of 8, so that the map fills.
- HostMmu: 6 blocks in tables of 2; the self-map is 2 blocks, windows lie in it
  and above it, and clients work on blocks whose tables may not exist. A walk
  happens when no translation of the block is cached. Clients map ranges that
  are not mapped, or map them again as they are, as the module's tests do;
  `MapRange` flushes nothing, so the model says nothing of other clients. The TLB
  is empty when Enable switches translation on: neither boot.S nor Enable
  invalidates it, so this rests on the reset state.

### Fairness

- `Pmm!FairSpec` is weak fairness of the running operation: the code is
  sequential and its loops have no exit that waits.
- `Vmm!FairSpec` is weak fairness of the hypervisor's steps. The guest is under
  no obligation to raise an exception.
- `Timer!TimerFairSpec`, of the `timer_ticks` run only: time passes, the handler
  runs to its end with interrupts masked, as timer.h asks of it, and the guest
  ends what it is presented. Devices, Reset and CpuReset are not fair.

Deadlock checking is off where the system may stop: a pool that is refused, a VM
that has stopped or panicked, and tables that run out.

## 4. Proved

### The page allocator

`PmmProofs` proves for every page size, every number of orders, every pool and
every set of reserved regions:

- `TypeCorrect`: `Spec => []TypeOK`;
- `NoOverlapHolds`: `Spec => []NoOverlap`, no byte of the pool has two owners;
- `IndInvHolds`: `Spec => []IndInv`, from which both follow.

Assumptions: `OrderAssumption` and `BlockSizeAssumption` (sizes are positive and
double from one order to the next), the typing of the memory maps, and for the
bitmap `PoolAssumption` (the largest pool is whole pairs of largest blocks: 8 GiB
and 256 MiB in the code). All are named in `Pmm` and evaluated by TLC in every run
of `MCPmm`.

`NoOverlap` alone is not inductive. `StageOK` adds what is true at each stage:
nothing is held before start-up ends, blocks seeded so far lie below the cursor
(so the next one is new), and a split has an order left to go down. `NoZero` adds
that no block at address 0 is on a list or held: pushing one makes the list's head
null, which is its end. Free lists change by a
push, a pop or a removal, each of which adds or takes exactly one block
(`PushFree`, `PopFree`, `RemoveFree`, from `CommonLemmas`). A split replaces a
block by its halves and a merge the opposite, which keeps blocks apart
(`HalvesApart`, `MergeApart`). The bitmap plays no part: a merge also has to find
the buddy on its list. That is why ownership holds even in pools where the
bitmap is wrong (the pools with a tail of section 5).

Then follow, under the same assumptions:

- `BuddyAlignedHolds`: `Spec => []BuddyAligned`;
- `NoLeakHolds`: `Spec => []NoLeak`;
- `KeepsPromiseHolds`: `Spec => KeepsPromise`, the refinement of `PageAllocator`;
- `BitmapInBoundsHolds`, `BitmapSoundHolds` and
  `ServesFreeMemoryHolds`: `Spec => []` the property of the run.

Alignment needs `CursorAligned`: while the pool is seeded, every size that still
fits divides the cursor's offset. It holds because the largest block that fits is
taken first and smaller sizes divide larger ones. That last fact
(`SizesDivide`) is an induction over the orders; it is proved by taking the
smallest order that would break it, which exists because `<` is well founded.
After that, a split adds half a size to a multiple of the whole, and the lower of
two buddies is at a multiple of twice their size (`LowerBuddy`).

`NoLeak` needs that the bytes below the seeding cursor have owners (`CoverInv`).
A split and a merge replace blocks by blocks that cover them. The premise that
the pool is not based at 0 is needed for every push: only a block at 0 is lost by
one.

For the refinement, a step that adds a block to those callers own leads to a state
in which `NoOverlap`, `BuddyAligned` and `StageOK` hold, which is what `Alloc` of
`PageAllocator` asks of the block (`HandedOut`).

The bitmap rests on `BitInv`: the pool fits the array, and in a pool of whole
largest blocks the bit of each pair says whether one of the two buddies is free,
and no two buddies are both free. It was checked with TLC on the instance of the
`pmm` run first. The offsets of the orders are the recursive function `bitOffset`;
that its sums exist, and what they are, is shown with the smallest order that
would break it (`SumsExist`, `OffsetIs`). Hence two pairs never share a bit
(`PairBits`), and the bit of a block in the pool is in the array, also in a pool
with a tail whose last pair is incomplete (`IndexInBounds`). Every step that moves
a block on or off a list flips the bit of its pair (`Flips`), except
`MergeFallback`, which a whole pool never takes because the bit is right
(`BitTells`). `ServesFreeMemory` then follows by contradiction: if every free block
in an aligned free region were smaller than it, the smallest one's buddy would be
free too, or inside a larger free block that overlaps it (`NotScattered`).

### The heap

`HeapProofs` proves, for every pool, page size, number of orders, set of slab
classes and set of requests, `FitsHolds`, `NoOverlapHolds`, `SlotsConservedHolds`,
`OwnedExactlyHolds`, `NoPanicHolds` (each `Spec => []` the property) and
`FailsOnlyWhenExhaustedHolds`, an action property. Assumptions, all in `Heap`:
block sizes double, the pool starts at a multiple of the largest block, slab
classes increase and leave a page room for its header and two slots, and sizes,
classes and alignments are powers of two (the smaller of two divides the larger),
as `align_val_t` requires.

The theorems have the hypothesis `NoWrap`: the size of no request, with the room
for the header, passes the end of `size_t`. heap.cpp:118 adds the two without a
check, and `Fits` fails for a request that wraps (section 5). The constants of the
`heap` run satisfy it.

None of the properties is inductive. Deallocate finds a block from a pointer
alone: from the magic word of its page, or from the header before it. So `IInv`
says what each page the heap holds contains. Blocks lie apart; a slab is one page
of one class, whose slots are each free once or taken once, as its header counts;
a large block has one header, next to the pointer that was returned; every live
pointer is one of these two.

### The boot archive and the boot loader

`BootLoaderProofs` proves, for every set of regions, of any size and with any
headers in them, every size of file and every token stream,
`AcceptsWellFormedHolds`, `ReadsExactlyHolds`, `LayoutSoundHolds`,
`RejectsOnlyMisfitsHolds`, `PatchesOnlyPlaceholdersHolds` and `GuestReadyHolds`.
Assumptions: `CpioAssumption` (types, and a header size and an alignment) and
`BootLoaderAssumption` (guest RAM ends before the end of 64-bit arithmetic and the
kernel's address is not below it).

That validate accepts every well-formed archive is the hard half of
`AcceptsWellFormed`: the reference definition asks for some chain of entries, and
validate walks one. `CpioInv` says that what it has walked is part of every chain
that would do (`Forced`), so that a flaw it meets is a flaw of all of them. For
`ReadsExactly` the invariant adds that what Find has passed does not match. The
layout arithmetic wraps, and the proofs show that the code's comparisons reject
every sum that does. `PatchInv` ties the patcher's depth and node to the path of
open nodes. `LoadInv` says, stage by stage, which files guest RAM holds and what
is dirty in the cache; it gives `GuestReady`.

### Interrupts and the timer

`GuestRunProofs` proves, for every set of interrupts, assignment of virtual identifiers,
number of list registers and timer interval, `NoDuplicateHolds`,
`LiveIsActiveHolds`, `ActiveAccountedHolds` and `CallbackGetsItsContextHolds`, each
as `TimerSpec => []` the property of the run. Assumptions: `GicAssumption` and
`TimerAssumption`.

`LiveIsActive` says that an interrupt that was active when it was forwarded stays
active while its list register is live. The guest's end of interrupt empties one
list register and deactivates one physical interrupt, so it needs that no other
live register names that interrupt: `Distinct` says that a live register carries
the virtual identifier of its interrupt and that no two carry the same one, which
InjectIrq's search for the identifier keeps. `InHand` says that the interrupt in
the handler's hands is active, and once it is handled, in a list register or
dropped by CpuReset. For the callback the invariant (`TimerInv`) is that the
timer's line is high only while the timer runs, that callback and context belong
together outside SetCallback, and that an interrupt of the timer finds SetCallback
half done only if it was called on a started timer.

### The run loop

The same module proves, for every set of exceptions and register values and any number
of rounds, `HostRestoredHolds`, `GuestRestoredHolds`, `ExitDescribesHolds` and
`StopsForAReasonHolds`. None is inductive: what an exit restores was saved many
steps before, and the guest has changed the core since. `IInv` says, for each
point of the switch, where each register of each side is: in the core, in the
frame on the stack, in the vector's slots, or in the Vcpu object.

### The guest's stage-2 tables

`GuestMmuProofs` proves, for tables of any size, any guest RAM, any device windows,
any pages mapped while the guest runs and any number of pages for tables:

- `GuestConfined`: `Spec => []Confined`;
- `TlbAgrees`: `Spec => []GuestSeesTables`;
- `TlbNeverConflicts`: `Spec => []NoTlbConflict`;
- `TablesImplementAddressSpace`: `Spec => KeepsPromise`, the refinement of
  `AddressSpace`;
- `MmuTypeCorrect`: `Spec => []TypeOK`;
- `MmuInvHolds`: `Spec => []MmuInv`, from which they follow.

Assumptions, both in `GuestMmu`. `GuestMmuAssumption`: tables are not empty, the
root is two tables, and a block is more than one page (in the code a table has 512
entries). `RangeAssumption`: RAM is whole blocks (guestMmu.h:67 asks for a size
that is 2 MiB aligned), a window is whole granules, to which `MmioMap` has widened
it, and both lie in the guest's address space. Nothing is assumed of windows that
overlap each other or RAM: splitting RAM's blocks is what windows inside them do.

None of the properties is inductive. A table is found through an entry of another,
so a store changes the translations of exactly one slot only if the tables are a
tree: every table has one parent, a level 2 table is not also a level 3 table, and
a level 3 table holds pages only. `Tree` says so, and it is what `MapBlock` relies
on when it drops a level 3 table, which nothing names afterwards. `TablesInv` adds
where a walk or a split is: the table being prepared has no parent yet and, before
the break, repeats the block page by page; after the break the block's entry is
zero. `ControlInv` says that the calls are those of the constructor, in their order,
and that Enable comes after the last of them. `TlbInv` says that a cached block is
a block of the tables or the one whose split waits for its flush, and a cached page
is in a level 3 table.

The lemmas have three layers, the first two in `TableProofs`. Index arithmetic: two pages with the same slots are
the same page, and a block's pages share their slots (`SameSlot`, `InBlock`). One
store: what a translation is after a root entry, a level 2 entry or a page entry
has been stored (`LinkedRoot`, `StoredEntry`, `StoredPage`), for all pages at once.
One step per action for each part of the invariant (`TablesStep`, `ConfinedStep`,
`TlbStep`, `SeesStep`), and for the refinement (`PromiseStep`). The invariant was
checked with TLC on the instance of the `guest_mmu` run first.

### The device tree parser

`StartUpProofs` proves `FlagsMatchPathHolds`, `MapSpec => []FlagsMatchPath`, for
every set of node names and every nesting. The parser keeps a depth and four
flags; the invariant ties the depth to the length of the path of open nodes.

It also proves `FoundIsDeviceHolds`, `FindSpec => FoundIsDevice`, for every nesting
and every value of the properties: any address and size cells, any number of
entries in `reg` and in `ranges`, and devices below any number of buses.
`FindInv` says that the array of levels holds the open nodes up to the depth;
beyond it anything may be left. Opening a node clears its level first, so nothing
left there is read. `SeenIsTranslated` shows that `translate`, which counts levels
down the array, takes an address to the same place as the reference reading, which
goes out of the tree; that both recursions have a value at all is shown with the
smallest number of buses for which one would not. `WholeEntries` and `CountsEntries`
relate the code's remainder and its loop to the multiples of the stride, which may
be 0. The arithmetic of a window (`Through`) is the same on both sides, and is not
what the theorem is about. Assumption: `FinderAssumption` (cells and their counts are
natural numbers, and at least one region is recorded).

### The hypervisor's own translation

`StartUpProofs` proves `NoStaleTranslationHolds`, `HostSpec => []NoStaleTranslation`,
for every address space, all windows and all sequences of client calls.
`TlbInv` adds that nothing is cached before translation is on, that the blocks a
MapRange still has to write hold nothing else (`Pending`), that an UnmapRange
that waits for its store or its flush is at a block whose table exists (so it
cannot end early), and that after its flush only racing walks have cached the
block. Assumptions: `MmioAssumption` and `HostMmuAssumption`. The first includes
that the console's two addresses are page aligned, as they are on both boards
(0x09000000 and 0x107d001000; deviceTree.cpp:569).

The same module proves `MapExactHolds`, `HostSpec => []MapExact`, for any devices
and any room in the map, and `SelfMapSoundHolds`, `HostSpec => SelfMapSound`, for any
place and size of the windows. For the first, `MapInv` says that the windows are
exactly those of the requests added so far, and that each request maps a region to
itself but for the guest's bring-up console, a page that is added only when no
window covers its address. For the second, `EnableInv` is about the calls Enable has yet to make:
each block either holds what it should when translation is switched on, or one of
the remaining calls covers it; the call that maps the self-map cached comes first,
so that a window inside it is written after it. A region of size 0 strictly inside
a block counts as a point of that block.

### Only model-checked

Every safety property of the passing runs is proved. What is left to TLC:

- Liveness: `OperationsEnd`, `CallsAnswered` and `PowerOffHonoured`. Fairness is
  outside the prover's reach.
- Requests to the heap whose size wraps.

## 5. Where code and text disagree

Four runs must fail; `PROJECT.json` quotes the line each one contradicts.

| Run | The code | The text |
|---|---|---|
| `pmm_reserved` | a reserved region inside a larger free block stays in the pool | reserved regions are never handed out |
| `vmm_fp` | the switch does not save FP and SIMD registers | Run saves the guest's state |
| `gic_refused` | a stale identifier in an empty list register refuses an injection | -1 if no list register is free |
| `timer_ticks` | with the end of interrupt split nobody deactivates the host's own timer interrupt, so only the first expiry is handled | the callback is invoked on each timer expiry |

Six more have a property and the constants that show it, and no configuration
of their own. To reproduce one, give the component's configuration the constant
in the third column and the property in the first as its only one.

| Property | The code | Constant | The text |
|---|---|---|---|
| `MergedUntilImpossible` | pmm.cpp:20, bits of different orders collide in a pool with a tail, so two free buddies stay unmerged | `Maps <- OneTailMap` | memory.rst:75, merging goes on until it is impossible |
| `ForeignPanics` | heap.cpp:173, a pointer into a slab page is accepted although it was never handed out | `SPECIFICATION ForeignSpec`, `Foreign <- MCForeign` | heap.h:89, an invalid pointer panics |
| `Fits` | heap.cpp:118, the size of a large block wraps | `Sizes <- WrapSizes` | heap.h:84, null is returned when memory is exhausted |
| `MemoryIsRam` | deviceTree.cpp:310, a name that starts with "memory" is main memory | `NodeNames <- WithController` | deviceTree.h:21, memBase is main RAM |
| `FirmwareReserved` | deviceTree.cpp:343, the last of several firmware regions is kept | `NodeNames <- TwoFirmware` | memory.rst:29, secure-monitor memory is reserved |
| `FirmwareReserved` | deviceTree.cpp:314, a firmware node with a unit address is not recognised | `NodeNames <- UnitAddress` | memory.rst:86, the TF-A region in the DTB is reserved |

Two more concern `UnmapRange`, of which hostMmu.h:90 says "Remove mappings for a
virtual range and flush affected TLBs."

- hostMmu.cpp:81 clears the entry and line 93 issues the tlbi with no `dsb`
  between them, where the stage-2 code has one (guestMmu.cpp:63). A walk that
  falls after the tlbi and before the store takes effect caches the old entry,
  which stays. The model marks such a translation `racing` and `NoStaleTranslation`
  excepts it; without the disjunct `t.racing` TLC shows the race in `mmio_map`.
- hostMmu.cpp:77 ends the call at the first block whose table does not exist; the
  blocks after it stay mapped.

In a pool based at 0 the first block becomes a null list head and is lost, with
whatever was behind it on the list (pmm.cpp:43), so `NoLeak` and `ServesFreeMemory`
are stated for the other pools. timer.h:13 asks that SetCallback is called before
Start, and SetCallback does not look: on a started timer an interrupt between its
two stores calls the new callback with the old context. The ghost `replacing` marks
that case, and `CallbackGetsItsContext` excepts it.

## 6. Hazards

`PROJECT.json` lists them at their lines. Those without a property:

- seeding a pool that is not whole pages never ends (pmm.cpp:179);
- in a pool based at 0 the first block is lost (pmm.cpp:43);
- interrupt exits are not acknowledged by the run loop (vmm.cpp:17);
- CpuReset empties list registers whose interrupts stay active (gic.cpp:191);
- remapping a live stage-2 page is not flushed (guestMmu.cpp:137);
- several firmware regions, or names that start with "memory" (deviceTree.cpp:343);
- `UnmapRange` stops at a hole (hostMmu.cpp:77).

Each has a note with the reason.

## 7. Not modelled

- Output and formatting: UART registers, Log, panic text, register dump.
- Byte loops and accessors: strings, mmio, cxxrt.
- Register setup in boot.S, the frame entry.S builds for a panic, and the bit
  fields of a syndrome.
- GIC priorities, the maintenance interrupt and HasPendingIrq: nothing outside the
  tests uses them, and Reset gives every interrupt one priority.
- The destructor of the stage-2 MMU, which frees the root and no other table.
  hmain never destroys its VM.
- The scripts that run on the build machine.

They hold no state that another component depends on, or only pass constants to
the models.

## 8. What could follow

1. `Vmm` composed with `Gic`: an interrupt exit that nobody acknowledges.
2. `Heap` over `Pmm` in place of the allocator's promise.
