------------------------------ MODULE GuestMmu ------------------------------
(***************************************************************************)
(* The guest's stage-2 translation: the constructor that maps guest RAM in *)
(* blocks and device windows in pages (core/mm/mmu/guestMmu), the table    *)
(* walk it uses (core/mm/pageTable), Enable, and the hardware that walks   *)
(* the same tables and caches what it finds.                               *)
(*                                                                         *)
(* Addresses are page numbers.  A store to a table is one step, so the     *)
(* hardware walker meets every intermediate state of a table.              *)
(***************************************************************************)
EXTENDS Integers, Sequences, FiniteSets

CONSTANTS
  L1, L2, L3,      \* entries: root (two concatenated tables), level 2, level 3
  HostPages,       \* host page numbers that can be named
  Ram,             \* guest RAM: [base, pa, size], in pages
  WindowLists,     \* device maps: sequences of [base, pa, size, byPage]
  LiveOps,         \* MapPage calls made while the guest runs
  WalkedPages,     \* bound: guest pages the hardware walks for
  MaxTables        \* pages the page allocator has for tables

ASSUME GuestMmuAssumption ==
  /\ {L1, L2, L3} \subseteq Nat \ {0} /\ L1 % 2 = 0 /\ L3 > 1
  /\ MaxTables \in Nat

VARIABLES
  windows,   \* the device windows passed to the constructor
  plan,      \* mapping calls still to be made
  op,        \* the mapping call in progress
  pc,        \* where it is; "idle" between calls
  mem,       \* tables, by number; table 0 is the root
  fresh,     \* the level 3 table being prepared
  vttbr,     \* VTTBR_EL2 names the root
  vm,        \* HCR_EL2.VM
  ready,     \* Enable has returned
  tlb,       \* cached translations [base, n, pa, dev]
  halted,    \* out of tables: the hypervisor stopped
  remapped   \* ghost: guest pages mapped again while the guest runs

vars == <<windows, plan, op, pc, mem, fresh, vttbr, vm, ready, tlb, halted, remapped>>

GuestPages == 0 .. (L1 * L2 * L3 - 1)

Granule(w) == IF w.byPage THEN 1 ELSE L3

\* A range of whole granules, inside the guest's address space.
Whole(r, granule) ==
  /\ r.base % granule = 0 /\ r.pa % granule = 0 /\ r.size % granule = 0
  /\ r.base + r.size <= L1 * L2 * L3
  /\ r.pa .. (r.pa + r.size - 1) \subseteq HostPages

\* RAM is given in blocks, and MmioMap has widened each window to its granule.
ASSUME RangeAssumption ==
  /\ HostPages \subseteq Nat
  /\ Ram \in [base : Nat, pa : Nat, size : Nat] /\ Whole(Ram, L3)
  /\ WindowLists \subseteq Seq([base : Nat, pa : Nat, size : Nat, byPage : BOOLEAN])
  /\ \A ws \in WindowLists : \A i \in 1 .. Len(ws) : Whole(ws[i], Granule(ws[i]))
  /\ LiveOps \subseteq [ipa : GuestPages, pa : HostPages, dev : BOOLEAN, byPage : {TRUE}]
  /\ WalkedPages \subseteq GuestPages

-----------------------------------------------------------------------------
(* Descriptors and indices.                                                *)

\* PTE_VALID and PTE_TABLE; addr is a table number or a host page.
Zero == [valid |-> FALSE, table |-> FALSE, addr |-> 0, dev |-> FALSE]
TableDescriptor(t) == [valid |-> TRUE, table |-> TRUE, addr |-> t, dev |-> FALSE]
buildStage2BlockDescriptor(pa, dev) == [valid |-> TRUE, table |-> FALSE, addr |-> pa, dev |-> dev]
buildStage2PageDescriptor(pa, dev) == [valid |-> TRUE, table |-> TRUE, addr |-> pa, dev |-> dev]

pte_is_table(d) == d.valid /\ d.table
pte_is_block(d) == d.valid /\ ~d.table

\* Mutant: the root index has the width of one table.
IndexOfOneTable(ipa) == (ipa \div (L2 * L3)) % (L1 \div 2)

\* The root index spans both concatenated tables.
RootIndex(ipa) == (ipa \div (L2 * L3)) % L1
L2_INDEX(ipa) == (ipa \div L3) % L2
L3_INDEX(ipa) == ipa % L3

Table(n) == [i \in 0 .. (n - 1) |-> Zero]
\* Tables are numbered as they are allocated; the page allocator never hands
\* out a page twice.
AllocTable == Cardinality(DOMAIN mem)
\* The translation the hardware finds for ipa in tables m.
Lookup(m, ipa) ==
  LET d1 == m[0][(ipa \div (L2 * L3)) % L1]
      d2 == m[d1.addr][L2_INDEX(ipa)]
      d3 == m[d2.addr][L3_INDEX(ipa)]
  IN  IF ~d1.valid \/ ~d2.valid THEN {}
      ELSE IF pte_is_block(d2)
           THEN {[base |-> ipa - L3_INDEX(ipa), n |-> L3, pa |-> d2.addr, dev |-> d2.dev]}
      ELSE IF ~d3.valid THEN {}
      ELSE {[base |-> ipa, n |-> 1, pa |-> d3.addr, dev |-> d3.dev]}

-----------------------------------------------------------------------------
(* The constructor's calls: RAM in blocks, then every window by its granule.*)

Calls(r, granule, dev) ==
  [i \in 1 .. ((r.size + granule - 1) \div granule) |->
     [ipa |-> r.base + (i - 1) * granule, pa |-> r.pa + (i - 1) * granule,
      dev |-> dev, byPage |-> granule = 1]]

WindowCalls(w) == Calls(w, Granule(w), TRUE)

Flatten(ss) ==
  LET f[i \in 0 .. Len(ss)] == IF i = 0 THEN <<>> ELSE f[i - 1] \o ss[i]
  IN  f[Len(ss)]

NoOp == [ipa |-> 0, pa |-> 0, dev |-> FALSE, byPage |-> FALSE]

\* Whatever ran before may have left a translation in the TLB.
Stale == {{}, {[base |-> 0, n |-> 1, pa |-> Ram.pa, dev |-> TRUE]}}

Init ==
  /\ windows \in WindowLists
  /\ plan = Calls(Ram, L3, FALSE) \o Flatten([i \in 1 .. Len(windows) |-> WindowCalls(windows[i])])
  /\ op = NoOp /\ pc = "idle"
  /\ mem = [t \in {0} |-> Table(L1)]
  /\ fresh = 0
  /\ vttbr = FALSE /\ vm = FALSE /\ ready = FALSE
  /\ tlb \in Stale
  /\ halted = FALSE
  /\ remapped = {}

-----------------------------------------------------------------------------
(* Mapping calls, one step per store.                                      *)

Running == ~halted
Slot1 == mem[0][RootIndex(op.ipa)]
Slot2 == mem[Slot1.addr][L2_INDEX(op.ipa)]
SetSlot2(m, d) == [m EXCEPT ![Slot1.addr][L2_INDEX(op.ipa)] = d]

WithTable(m, t, entries) == [u \in DOMAIN m \cup {t} |-> IF u = t THEN entries ELSE m[u]]

Exhausted == AllocTable > MaxTables

\* AllocTable does not return without a page.
Halt ==
  /\ halted' = TRUE
  /\ UNCHANGED <<windows, plan, op, pc, mem, fresh, vttbr, vm, ready, tlb, remapped>>

Call ==
  /\ Running /\ pc = "idle" /\ plan # <<>>
  /\ op' = Head(plan) /\ plan' = Tail(plan)
  /\ pc' = "walk"
  /\ UNCHANGED <<windows, mem, fresh, vttbr, vm, ready, tlb, halted, remapped>>

LiveCall ==
  /\ Running /\ ready /\ pc = "idle"
  /\ op' \in LiveOps
  /\ remapped' = remapped \cup {op'.ipa}
  /\ pc' = "walk"
  /\ UNCHANGED <<windows, plan, mem, fresh, vttbr, vm, ready, tlb, halted>>

\* A missing level 2 table is allocated, zeroed and then linked.
Walk ==
  /\ Running /\ pc = "walk"
  /\ \/ Slot1.valid /\ mem' = mem
     \/ /\ ~Slot1.valid /\ ~Exhausted
        /\ mem' = [WithTable(mem, AllocTable, Table(L2))
                     EXCEPT ![0][RootIndex(op.ipa)] = TableDescriptor(AllocTable)]
  /\ pc' = IF op.byPage THEN "walkL3" ELSE "block"
  /\ UNCHANGED <<windows, plan, op, fresh, vttbr, vm, ready, tlb, halted, remapped>>

MapBlock ==
  /\ Running /\ pc = "block"
  /\ mem' = SetSlot2(mem, buildStage2BlockDescriptor(op.pa, op.dev))
  /\ pc' = "idle"
  /\ UNCHANGED <<windows, plan, op, fresh, vttbr, vm, ready, tlb, halted, remapped>>

\* Mutant: the pages of the block are not copied.
SplitForgets ==
  /\ Running /\ pc = "walkL3"
  /\ \/ pte_is_table(Slot2) /\ pc' = "page" /\ UNCHANGED <<mem, fresh>>
     \/ /\ ~pte_is_table(Slot2) /\ ~Exhausted
        /\ fresh' = AllocTable
        /\ mem' = WithTable(mem, AllocTable, Table(L3))
        /\ pc' = IF pte_is_block(Slot2) THEN "break" ELSE "link"
  /\ UNCHANGED <<windows, plan, op, vttbr, vm, ready, tlb, halted, remapped>>

\* A block is copied into a level 3 table before it is taken out of use; an
\* empty entry gets an empty table.
walkL3 ==
  /\ Running /\ pc = "walkL3"
  /\ \/ pte_is_table(Slot2) /\ pc' = "page" /\ UNCHANGED <<mem, fresh>>
     \/ /\ ~pte_is_table(Slot2) /\ ~Exhausted
        /\ fresh' = AllocTable
        /\ mem' = WithTable(mem, AllocTable,
                    IF pte_is_block(Slot2)
                    THEN [i \in 0 .. (L3 - 1) |->
                            buildStage2PageDescriptor(Slot2.addr + i, Slot2.dev)]
                    ELSE Table(L3))
        /\ pc' = IF pte_is_block(Slot2) THEN "break" ELSE "link"
  /\ UNCHANGED <<windows, plan, op, vttbr, vm, ready, tlb, halted, remapped>>

OutOfTables ==
  /\ Running /\ Exhausted
  /\ \/ pc = "walk" /\ ~Slot1.valid
     \/ pc = "walkL3" /\ ~pte_is_table(Slot2)
  /\ Halt

Break ==
  /\ Running /\ pc = "break"
  /\ mem' = SetSlot2(mem, Zero)
  /\ pc' = "flush"
  /\ UNCHANGED <<windows, plan, op, fresh, vttbr, vm, ready, tlb, halted, remapped>>

\* Mutant: the translations of the block stay cached.
FlushNothing ==
  /\ Running /\ pc = "flush"
  /\ pc' = "link"
  /\ UNCHANGED <<windows, plan, op, mem, fresh, vttbr, vm, ready, tlb, halted, remapped>>

Flush ==
  /\ Running /\ pc = "flush"
  /\ tlb' = IF vm THEN {} ELSE tlb
  /\ pc' = "link"
  /\ UNCHANGED <<windows, plan, op, mem, fresh, vttbr, vm, ready, halted, remapped>>

Link ==
  /\ Running /\ pc = "link"
  /\ mem' = SetSlot2(mem, TableDescriptor(fresh))
  /\ pc' = "page"
  /\ UNCHANGED <<windows, plan, op, fresh, vttbr, vm, ready, tlb, halted, remapped>>

MapPage ==
  /\ Running /\ pc = "page"
  /\ mem' = [mem EXCEPT ![Slot2.addr][L3_INDEX(op.ipa)] =
               buildStage2PageDescriptor(op.pa, op.dev)]
  /\ pc' = "idle"
  /\ UNCHANGED <<windows, plan, op, fresh, vttbr, vm, ready, tlb, halted, remapped>>

-----------------------------------------------------------------------------
(* Enable, in the order of its stores, and the hardware.                   *)

EnableVttbr ==
  /\ Running /\ pc = "idle" /\ plan = <<>> /\ ~vttbr
  /\ vttbr' = TRUE
  /\ UNCHANGED <<windows, plan, op, pc, mem, fresh, vm, ready, tlb, halted, remapped>>

\* Mutant: Enable returns without the final flush.
EnableNoFlush ==
  /\ Running /\ vttbr /\ ~vm
  /\ vm' = TRUE /\ ready' = TRUE
  /\ UNCHANGED <<windows, plan, op, pc, mem, fresh, vttbr, tlb, halted, remapped>>

EnableVm ==
  /\ Running /\ vttbr /\ ~vm
  /\ vm' = TRUE
  /\ UNCHANGED <<windows, plan, op, pc, mem, fresh, vttbr, ready, tlb, halted, remapped>>

TlbFlushAllGuest ==
  /\ Running /\ vm /\ ~ready
  /\ tlb' = {} /\ ready' = TRUE
  /\ UNCHANGED <<windows, plan, op, pc, mem, fresh, vttbr, vm, halted, remapped>>

\* The hardware may walk for any guest page at any time, on its own account or
\* the guest's.
HardwareWalk(ipa) ==
  /\ vttbr /\ vm
  /\ ~(Lookup(mem, ipa) \subseteq tlb)
  /\ tlb' = tlb \cup Lookup(mem, ipa)
  /\ UNCHANGED <<windows, plan, op, pc, mem, fresh, vttbr, vm, ready, halted, remapped>>

Next ==
  \/ Call \/ LiveCall
  \/ Walk \/ MapBlock \/ walkL3 \/ Break \/ Flush \/ Link \/ MapPage \/ OutOfTables
  \/ EnableVttbr \/ EnableVm \/ TlbFlushAllGuest
  \/ \E ipa \in WalkedPages : HardwareWalk(ipa)

Spec == Init /\ [][Next]_vars

-----------------------------------------------------------------------------
(* Properties.                                                             *)

\* The types of the state, and the tables' shape: a table entry of the root
\* names a level 2 table, one of a level 2 table a level 3 table.
TypeOK ==
  /\ pc \in {"idle", "walk", "block", "walkL3", "break", "flush", "link", "page"}
  /\ {vttbr, vm, ready, halted} \subseteq BOOLEAN
  /\ fresh \in DOMAIN mem
  /\ remapped \subseteq GuestPages
  /\ DOMAIN mem = 0 .. (AllocTable - 1) /\ AllocTable <= MaxTables + 1
  /\ \A i \in 0 .. (L1 - 1) : mem[0][i].valid =>
       /\ mem[0][i].addr \in DOMAIN mem \ {0}
       /\ DOMAIN mem[mem[0][i].addr] = 0 .. (L2 - 1)
       /\ \A j \in 0 .. (L2 - 1) :
            LET d == mem[mem[0][i].addr][j]
            IN  pte_is_table(d) => /\ d.addr \in DOMAIN mem \ {0}
                                   /\ DOMAIN mem[d.addr] = 0 .. (L3 - 1)

\* The guest's address space: what the tables say, where an entry that is out
\* of use while its block is split counts as already replaced.
View ==
  LET m == IF pc \in {"flush", "link"} THEN SetSlot2(mem, TableDescriptor(fresh)) ELSE mem
  IN  [p \in GuestPages |->
         IF Lookup(m, p) = {} THEN [pa |-> -1, dev |-> FALSE]
         ELSE LET e == CHOOSE x \in Lookup(m, p) : TRUE
              IN  [pa |-> e.pa + (p - e.base), dev |-> e.dev]]

Promise == INSTANCE AddressSpace WITH map <- View, BLOCK <- L3

\* Every mapping call changes the guest's address space for the pages it names
\* and no other: creating tables and splitting a block into pages changes no
\* translation.
KeepsPromise == Promise!ASpec

\* The guest reaches guest RAM and the windows it was given, nothing else.
Granted(p, t) ==
  \/ p - Ram.base \in 0 .. (Ram.size - 1) /\ t = [pa |-> Ram.pa + (p - Ram.base), dev |-> FALSE]
  \/ \E i \in 1 .. Len(windows) :
       LET w == windows[i]
       IN  p - w.base \in 0 .. (w.size - 1) /\ t = [pa |-> w.pa + (p - w.base), dev |-> TRUE]
  \/ \E o \in LiveOps : p = o.ipa /\ t = [pa |-> o.pa, dev |-> o.dev]
Confined == \A p \in GuestPages : View[p].pa # -1 => Granted(p, View[p])

\* Once Enable has returned, the hardware holds no translation that the tables
\* do not give, whatever was cached before, except for pages that were mapped
\* again since.
GuestSeesTables ==
  ready => \A e \in tlb : \A p \in (e.base .. (e.base + e.n - 1)) \ remapped :
             View[p] = [pa |-> e.pa + (p - e.base), dev |-> e.dev]

\* Splitting a block under a running guest never leaves the hardware with a
\* block and a page translation for the same address.
NoTlbConflict ==
  ready => \A e, f \in tlb :
             e.n # f.n => e.base + e.n <= f.base \/ f.base + f.n <= e.base
=============================================================================
