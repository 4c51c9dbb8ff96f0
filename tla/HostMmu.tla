------------------------------- MODULE HostMmu ------------------------------
(***************************************************************************)
(* The hypervisor's own translation (core/mm/mmu/hostMmu) over the device  *)
(* windows that GetHostMmio returns: Enable maps the self-map as normal    *)
(* memory, then each window as device memory over it, and switches         *)
(* translation on; later, clients map and unmap ranges of 2 MiB blocks     *)
(* while the hardware caches translations at any moment.                   *)
(*                                                                         *)
(* The tables above the last level only decide whether a walk that may not *)
(* allocate finds its entry, so they are the set of last-level tables.     *)
(***************************************************************************)
EXTENDS MmioMap

CONSTANTS
  HV_VA_SIZE,      \* the self-map, from address 0
  TableSpan,       \* blocks that one last-level table maps
  LastBlock,       \* bound: blocks 0 .. LastBlock of the address space
  ClientRanges,    \* what clients map and unmap: [block, count], whole blocks
  ClientPas        \* where they map it to

ASSUME HostMmuAssumption ==
  /\ {HV_VA_SIZE, LastBlock} \subseteq Nat /\ TableSpan \in Nat \ {0}
  /\ \A r \in ClientRanges :
       r.block \in Nat /\ r.count \in Nat /\ r.block + r.count <= LastBlock + 1
  /\ ClientPas \subseteq Nat

VARIABLES
  tables,  \* last-level tables that exist
  pte,     \* entry of each block, Invalid or [pa, attr]
  on,      \* SCTLR.M
  tlb,     \* cached translations, [block, entry, racing]
  calls,   \* MapRange and UnmapRange calls not finished, the running one first
  owed,    \* what UnmapRange's block still waits for: none, tlbi or store
  halted   \* AllocTable found no page and waits for ever

mmuVars == <<tables, pte, on, tlb, calls, owed, halted>>
hostVars == <<vars, mmuVars>>

BlockSet == 0 .. LastBlock
BlockOf(a) == a \div BlockSize
Invalid == [pa |-> -1, attr |-> "invalid"]

\* The block a loop is at, the address it maps it to and the blocks left.
MapCall(block, pa, count, attr) ==
  [op |-> "map", block |-> block, pa |-> pa, left |-> count, attr |-> attr]
UnmapCall(block, count) ==
  [op |-> "unmap", block |-> block, pa |-> 0, left |-> count, attr |-> "invalid"]

Count(size) == Up(size, BlockSize) \div BlockSize
SelfMapCall == MapCall(0, 0, Count(HV_VA_SIZE), "normal")
WindowCall(w) == MapCall(BlockOf(w.base), w.pa, Count(w.size), "device")

\* The first GetInstance allocates the root.
HostInit ==
  /\ Init
  /\ tables = {} /\ pte = [b \in BlockSet |-> Invalid]
  /\ on = FALSE /\ tlb = {}
  /\ calls = <<>> /\ owed = "none" /\ halted = FALSE

BuildMap == Next /\ UNCHANGED mmuVars

\* Mutant: the windows are mapped first, and the self-map over them.
EnableBackwards ==
  /\ builder = "host" /\ state = "returned" /\ ~on /\ ~halted /\ tables = {} /\ calls = <<>>
  /\ calls' = [i \in 1 .. Len(windows) |-> WindowCall(windows[i])] \o <<SelfMapCall>>
  /\ UNCHANGED <<vars, tables, pte, on, tlb, owed, halted>>

\* Enable: the self-map, then every window over it.
Enable ==
  /\ builder = "host" /\ state = "returned" /\ ~on /\ ~halted /\ tables = {} /\ calls = <<>>
  /\ calls' = <<SelfMapCall>> \o [i \in 1 .. Len(windows) |-> WindowCall(windows[i])]
  /\ UNCHANGED <<vars, tables, pte, on, tlb, owed, halted>>

\* The end of Enable: the root is in TTBR0 and translation is on.
SwitchOn ==
  /\ ~on /\ tables # {} /\ calls = <<>>
  /\ on' = TRUE
  /\ UNCHANGED <<vars, tables, pte, tlb, calls, owed, halted>>

Call == Head(calls)

\* The range's loop goes on by a block.
Advance ==
  calls' = <<[Call EXCEPT !.block = @ + 1, !.pa = @ + BlockSize, !.left = @ - 1]>>
             \o Tail(calls)

\* MapRange or UnmapRange is through its range.
Return ==
  /\ calls # <<>> /\ Call.left = 0
  /\ calls' = Tail(calls)
  /\ UNCHANGED <<vars, tables, pte, on, tlb, owed, halted>>

Entry(pa, attr) == [pa |-> Down(pa, PageSize), attr |-> attr]

\* One block of MapRange: the walk makes the tables that are missing, or stops
\* the machine.
MapRange ==
  /\ calls # <<>> /\ Call.left # 0 /\ Call.op = "map" /\ ~halted
  /\ LET b == Call.block
         table == b \div TableSpan
     IN  \/ /\ table \notin tables /\ halted' = TRUE
            /\ UNCHANGED <<tables, pte, calls>>
         \/ /\ tables' = tables \cup {table}
            /\ pte' = [pte EXCEPT ![b] = Entry(Call.pa, Call.attr)]
            /\ Advance
            /\ UNCHANGED halted
  /\ UNCHANGED <<vars, on, tlb, owed>>

\* The two effects of a block of UnmapRange: TlbFlushVa, and the cleared entry
\* as the walker sees it.
FlushBlock(b) == tlb' = {t \in tlb : t.block # b} /\ UNCHANGED pte
ClearBlock(b) == pte' = [pte EXCEPT ![b] = Invalid] /\ UNCHANGED tlb

\* Mutant: the entry is cleared, and nothing is flushed.
UnmapNoFlush ==
  /\ on /\ calls # <<>> /\ Call.left # 0 /\ Call.op = "unmap"
  /\ IF Call.block \div TableSpan \in tables
     THEN ClearBlock(Call.block) /\ Advance
     ELSE calls' = Tail(calls) /\ UNCHANGED <<pte, tlb>>
  /\ UNCHANGED <<vars, tables, on, owed, halted>>

\* One block of UnmapRange: a walk that finds no table ends the call; else the
\* entry is cleared and the block flushed.  No barrier stands between the store
\* and the tlbi, so either may take effect first; the dsb that ends TlbFlushVa
\* waits for both.
UnmapRange ==
  /\ on /\ calls # <<>> /\ Call.left # 0 /\ Call.op = "unmap"
  /\ LET b == Call.block
     IN  \/ /\ b \div TableSpan \notin tables
            /\ calls' = Tail(calls) /\ UNCHANGED <<pte, tlb, owed>>
         \/ /\ b \div TableSpan \in tables /\ owed = "none"
            /\ \/ ClearBlock(b) /\ owed' = "tlbi"
               \/ FlushBlock(b) /\ owed' = "store"
            /\ UNCHANGED calls
         \/ /\ \/ owed = "tlbi" /\ FlushBlock(b)
               \/ owed = "store" /\ ClearBlock(b)
            /\ owed' = "none" /\ Advance
  /\ UNCHANGED <<vars, tables, on, halted>>

\* Mapping the blocks changes no entry that is there.
Fresh(block, pa, count) ==
  \A i \in 0 .. count - 1 :
    pte[block + i] \in {Invalid, Entry(pa + i * BlockSize, "normal")}

\* A client maps a range that is not mapped, or maps one again as it is, and
\* unmaps any: what the tests of the module do.
ClientCall ==
  /\ on /\ calls = <<>>
  /\ \E r \in ClientRanges :
       \/ \E pa \in ClientPas :
            /\ Fresh(r.block, pa, r.count)
            /\ calls' = <<MapCall(r.block, pa, r.count, "normal")>>
       \/ calls' = <<UnmapCall(r.block, r.count)>>
  /\ UNCHANGED <<vars, tables, pte, on, tlb, owed, halted>>

\* Hardware: a walk, when no translation of the block is cached, may cache it at
\* any moment, also while the block is being unmapped; and it may be forgotten.
Cache ==
  /\ on
  /\ \E b \in BlockSet :
       /\ pte[b] # Invalid /\ \A t \in tlb : t.block # b
       /\ tlb' = tlb \cup {[block |-> b, entry |-> pte[b],
                           racing |-> owed = "store" /\ b = Call.block]}
  /\ UNCHANGED <<vars, tables, pte, on, calls, owed, halted>>

TlbFlushAll ==
  /\ on /\ calls = <<>> /\ tlb # {}
  /\ tlb' = {}
  /\ UNCHANGED <<vars, tables, pte, on, calls, owed, halted>>

Evict ==
  /\ \E t \in tlb : tlb' = tlb \ {t}
  /\ UNCHANGED <<vars, tables, pte, on, calls, owed, halted>>

Halted == halted /\ UNCHANGED hostVars

HostNext ==
  \/ BuildMap \/ Enable \/ SwitchOn \/ MapRange \/ UnmapRange \/ Return
  \/ ClientCall \/ TlbFlushAll \/ Cache \/ Evict \/ Halted

HostSpec == HostInit /\ [][HostNext]_hostVars

-----------------------------------------------------------------------------
(* Properties.                                                             *)

\* The blocks that a region asked for lies in, an empty region inside a block
\* counting as a point of it.
DeviceBlocks ==
  {b \in BlockSet : \E q \in asked : b * BlockSize < q.ipa + q.size /\ q.ipa < (b + 1) * BlockSize}

\* Translation is switched on with every register of every device the board was
\* found to have mapped uncached at its own address, also where a window lies
\* over the self-map or shares a block with another, and all other memory of
\* the self-map mapped cached at its own address.
SelfMapSound ==
  [][ ~on /\ on' =>
        /\ {uart[1]} \cup Range(gic) \subseteq {[base |-> q.ipa, size |-> q.size] : q \in asked}
        /\ \A b \in BlockSet :
             pte[b] = IF b \in DeviceBlocks THEN [pa |-> b * BlockSize, attr |-> "device"]
                      ELSE IF b * BlockSize < HV_VA_SIZE
                           THEN [pa |-> b * BlockSize, attr |-> "normal"]
                           ELSE Invalid ]_hostVars

\* The flush leaves no translation behind: when a block is unmapped every
\* translation of it is gone, however the hardware's walks fall between the
\* steps, except one that a walk made after the tlbi and before it could see
\* the cleared entry.
NoStaleTranslation ==
  \A t \in tlb : \/ t.racing \/ pte[t.block] = t.entry
                \/ (owed = "tlbi" /\ t.block = Call.block)
=============================================================================
