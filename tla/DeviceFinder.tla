---------------------------- MODULE DeviceFinder ----------------------------
(***************************************************************************)
(* TreeParser::FindDevice: one walk with an array of bus levels that is    *)
(* indexed by depth and never cleared when a node closes.  reg and ranges  *)
(* are the sequences of cells they hold, read in entries whose length the  *)
(* levels above declare.  Names and compatible strings are abstracted to   *)
(* which property it is and whether it matches.                            *)
(*                                                                         *)
(* Cell counts are small: one whose stride in bytes does not fit in 32     *)
(* bits, which no real tree has, is left out.                              *)
(***************************************************************************)
EXTENDS FdtWalk, FiniteSetsExt

CONSTANTS
  CELL,            \* a cell holds 0 .. CELL - 1
  AddressCells,    \* values of #address-cells
  SizeCells,       \* values of #size-cells
  Regs, Ranges,    \* values of reg and of ranges, sequences of cells
  DT_MAX_REGIONS,  \* regions recorded per device
  FindNesting      \* bound: nesting of the trees searched for a device

ASSUME FinderAssumption ==
  /\ CELL \in Nat \ {0} /\ DT_MAX_REGIONS \in Nat \ {0}
  /\ AddressCells \subseteq Nat /\ SizeCells \subseteq Nat
  /\ \A r \in Regs \cup Ranges : r \in Seq(Nat)

VARIABLES
  nest, stack,  \* stack[d + 1] is the code's stack[d]
  result,       \* NotFound, or the regions found
  open          \* ghost: the properties of the open nodes

findVars == <<nest, stack, result, open>>

DEFAULT_ADDRESS_CELLS == 2
DEFAULT_SIZE_CELLS == 1
NotFound == <<>>

\* A level as BEGIN_NODE leaves it.
FreshLevel ==
  [addressCells |-> DEFAULT_ADDRESS_CELLS, sizeCells |-> DEFAULT_SIZE_CELLS,
   ranges |-> <<>>, matched |-> FALSE, reg |-> <<>>]

FindInit ==
  /\ nest = 0
  /\ stack = [d \in 1..MAX_DEPTH |-> [FreshLevel EXCEPT !.addressCells = 0, !.sizeCells = 0]]
  /\ result = NotFound
  /\ open = <<>>

\* A 64-bit number is two cells; of more cells the last two are left.
Word == CELL * CELL

getCombinedCell(cells) ==
  LET combined[k \in 0..Len(cells)] ==
        IF k = 0 THEN 0 ELSE (combined[k - 1] * CELL + cells[k]) % Word
  IN  combined[Len(cells)]

\* entry.subspan: the number in n cells of a property, from offset off.
Number(cells, off, n) == getCombinedCell(SubSeq(cells, off + 1, off + n))

\* The address through one bus: by the first entry of its ranges whose window
\* holds it, unchanged if there is none.  The parent's address is read with the
\* cells of the bus above.
Through(bus, above, addr) ==
  LET stride == bus.addressCells + above.addressCells + bus.sizeCells
      child(k) == Number(bus.ranges, k * stride, bus.addressCells)
      parent(k) == Number(bus.ranges, k * stride + bus.addressCells, above.addressCells)
      length(k) == Number(bus.ranges, k * stride + bus.addressCells + above.addressCells, bus.sizeCells)
      whole == stride # 0 /\ Len(bus.ranges) % stride = 0
      holding == {k \in 0..(Len(bus.ranges) - 1) :
                    /\ whole /\ (k + 1) * stride <= Len(bus.ranges)
                    /\ addr >= child(k) /\ addr - child(k) < length(k)}
  IN  IF holding = {} THEN addr
      ELSE (addr - child(Min(holding)) + parent(Min(holding))) % Word

\* The address as the root sees it: through each bus above the device, the
\* innermost first; the root's own ranges is not one.
translate(levels, top, addr) ==
  LET at[level \in 1..(top + 1)] ==
        IF level > top THEN addr
        ELSE IF level < 2 THEN at[level + 1]
        ELSE Through(levels[level], levels[level - 1], at[level + 1])
  IN  at[1]

\* Whose cells a reg at depth d is read with: the parent's, or the defaults.
Above(levels, d) == IF d = 0 THEN FreshLevel ELSE levels[d]

Capped(n) == IF n > DT_MAX_REGIONS THEN DT_MAX_REGIONS ELSE n

\* The device the level d + 1 describes, if its reg is whole entries of the
\* parent's cells.
DeviceAt(levels, d) ==
  LET node == levels[d + 1]
      above == Above(levels, d)
      stride == above.addressCells + above.sizeCells
      region(k) ==
        [base |-> translate(levels, d, Number(node.reg, (k - 1) * stride, above.addressCells)),
         size |-> Number(node.reg, (k - 1) * stride + above.addressCells, above.sizeCells)]
  IN  IF node.matched /\ node.reg # <<>> /\ stride # 0 /\ Len(node.reg) % stride = 0
      THEN [k \in 1..Capped(Len(node.reg) \div stride) |-> region(k)]
      ELSE NotFound

\* Mutant: a level keeps what the last node at this depth left there.
BeginStale ==
  /\ TokenBegin("")
  /\ stack' = [stack EXCEPT ![nest + 1].addressCells = DEFAULT_ADDRESS_CELLS,
                            ![nest + 1].sizeCells = DEFAULT_SIZE_CELLS]
  /\ nest' = nest + 1
  /\ open' = Append(open, FreshLevel)
  /\ UNCHANGED result

FindBeginNode ==
  /\ TokenBegin("")
  /\ stack' = IF nest < MAX_DEPTH THEN [stack EXCEPT ![nest + 1] = FreshLevel] ELSE stack
  /\ nest' = nest + 1
  /\ open' = Append(open, FreshLevel)
  /\ UNCHANGED result

\* The device the tree itself describes: the reg of the node being closed, read
\* with the cells of its parent, seen from the root.
Seen(nodes, addr) ==
  LET n == Len(nodes)
      up[k \in 0..n] ==  \* as the bus that is k levels further out sees it
        IF k = 0 THEN addr
        ELSE IF n - k = 0 THEN up[k - 1]
        ELSE Through(nodes[n - k + 1], nodes[n - k], up[k - 1])
  IN  up[n]

Reference ==
  LET node == open[Len(open)]
      parents == SubSeq(open, 1, Len(open) - 1)
      above == IF parents = <<>> THEN FreshLevel ELSE parents[Len(parents)]
      stride == above.addressCells + above.sizeCells
      start(k) == (k - 1) * stride
  IN  IF node.matched /\ \E k \in 1..Len(node.reg) : k * stride = Len(node.reg)
      THEN [k \in {j \in 1..DT_MAX_REGIONS : j * stride <= Len(node.reg)} |->
              [base |-> Seen(parents, Number(node.reg, start(k), above.addressCells)),
               size |-> Number(node.reg, start(k) + above.addressCells, above.sizeCells)]]
      ELSE NotFound

FindEndNode ==
  /\ TokenEndNode
  /\ nest' = IF nest > 0 THEN nest - 1 ELSE 0
  /\ open' = SubSeq(open, 1, Len(open) - 1)
  /\ UNCHANGED stack
  /\ result' = DeviceAt(stack, nest')

\* A property of the innermost open node; before the first node, of level 0.
SetProperty(Set(_)) ==
  /\ TokenStay /\ result = NotFound
  /\ stack' = [stack EXCEPT ![IF nest > 0 THEN nest ELSE 1] = Set(@)]
  /\ open' = IF open = <<>> THEN open ELSE [open EXCEPT ![Len(open)] = Set(@)]
  /\ UNCHANGED <<nest, result>>

FindProperty ==
  \/ \E n \in AddressCells : SetProperty(LAMBDA l : [l EXCEPT !.addressCells = n])
  \/ \E n \in SizeCells : SetProperty(LAMBDA l : [l EXCEPT !.sizeCells = n])
  \/ \E r \in Ranges : SetProperty(LAMBDA l : [l EXCEPT !.ranges = r])
  \/ \E r \in Regs : SetProperty(LAMBDA l : [l EXCEPT !.reg = r])
  \/ \E match \in BOOLEAN : SetProperty(LAMBDA l : [l EXCEPT !.matched = match])
  \/ SetProperty(LAMBDA l : l)

\* END: nothing was found.
FindEnd ==
  /\ TokenEnd /\ result = NotFound
  /\ status' = "done"
  /\ UNCHANGED <<path, findVars>>

FindReject == result = NotFound /\ BadToken /\ UNCHANGED findVars

\* FindDevice has returned, or the hypervisor has panicked.
FindDone == (result # NotFound \/ ~Walking) /\ UNCHANGED <<fdtVars, findVars>>

FindNext ==
  \/ result = NotFound /\ Len(path) < FindNesting /\ FindBeginNode
  \/ result = NotFound /\ FindEndNode
  \/ FindProperty \/ FindEnd \/ FindReject \/ FindDone

FindSpec == FdtInit /\ FindInit /\ [][FindNext]_<<fdtVars, findVars>>

-----------------------------------------------------------------------------
(* Properties.                                                             *)

\* Whenever FindDevice closes a node, it returns the device of that node if the
\* node is one, and goes on if it is not: its own compatible and reg, the
\* address and size cells of its parent, and every ranges up to the root count,
\* and nothing an earlier node left in the array.
FoundIsDevice == [][Len(path') < Len(path) /\ open # <<>> => result' = Reference]_<<fdtVars, findVars>>
=============================================================================
