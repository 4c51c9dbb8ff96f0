---------------------------- MODULE StartUpProofs ---------------------------
(***************************************************************************)
(* What the hypervisor finds out and sets up before a guest runs: the      *)
(* memory map, the device windows and its own translation.                 *)
(*                                                                         *)
(* ParseMemoryMap's flags match its place in the tree, for every set of    *)
(* node names and every nesting: a flag set at one node is cleared before  *)
(* another can inherit it.  The parser has no path, only a depth and four  *)
(* flags; FlagInv ties them to the path of open nodes.                     *)
(*                                                                         *)
(* FindDevice's answer is the tree's, for every nesting and every value of *)
(* the properties.  FindInv: up to the depth, the array of levels holds    *)
(* the open nodes, whatever closed nodes left beyond it.                   *)
(*                                                                         *)
(* The rest is for every size of the address space, every set of devices   *)
(* and every sequence of client calls.                                     *)
(*                                                                         *)
(* UnmapRange leaves no translation behind but those of walks that race    *)
(* it. The invariant TlbInv adds what the two loops leave to be done: the  *)
(* blocks a MapRange still has to write hold nothing else; an UnmapRange   *)
(* that waits is at a block whose table exists; and after its flush only   *)
(* racing walks can have brought the block back.                           *)
(*                                                                         *)
(* The device map is exact when a builder returns it.  MapInv: the windows *)
(* are the requests made so far, rounded to the builder's granule; all of  *)
(* them map an address to itself but the bring-up console, which is asked  *)
(* for only where no other window is.                                      *)
(*                                                                         *)
(* Translation is switched on with the right tables.  EnableInv: a block   *)
(* is as it should be in the end or some call that is left will map it,    *)
(* and the self-map comes first, with every device block still to be       *)
(* mapped over it.                                                         *)
(***************************************************************************)
EXTENDS MemoryMapParser, DeviceFinder, HostMmu, CommonLemmas, FiniteSetTheorems,
        TLAPS

\* How long, in seconds, a leaf may take where it does not say otherwise.
USE SMTT(20), ZenonT(20)

-----------------------------------------------------------------------------
(* The memory map.                                                         *)

Names == NodeNames \cup {""}

FlagInv ==
  /\ path \in Seq(Names)
  /\ depth = Len(path)
  /\ {memory, reserved, chosen, atf} \subseteq BOOLEAN
  /\ FlagsMatchPath

\* Nothing is open and no flag is set.
LEMMA FlagInit == FdtInit /\ MapInit => FlagInv
<1> SUFFICES ASSUME FdtInit, MapInit PROVE FlagInv
  OBVIOUS
<1>1. path = <<>> /\ Len(path) = 0 /\ path \in Seq(Names)
  BY DEF FdtInit
<1>2. FlagsMatchPath
  BY <1>1 DEF MapInit, FlagsMatchPath, OpenNode
<1> QED BY <1>1, <1>2, Zenon DEF MapInit, FlagInv

\* Entering a node: only a child of the root, or of its reserved-memory node,
\* changes a flag.
LEMMA BeginKeeps ==
  ASSUME FlagInv, NEW name \in NodeNames, MapBeginNode(name)
  PROVE  FlagInv'
<1> DEFINE n == IF path = <<>> THEN "" ELSE name
<1>1. path \in Seq(Names) /\ n \in Names /\ path' = Append(path, n)
  BY Zenon DEF FlagInv, MapBeginNode, TokenBegin, Names
<1> HIDE DEF n
<1>2. /\ path' \in Seq(Names) /\ Len(path') = Len(path) + 1
      /\ \A i \in 1 .. Len(path) : path'[i] = path[i]
      /\ path'[Len(path) + 1] = n
  BY <1>1, SnocSeq
<1>3. depth' = Len(path') /\ depth = Len(path) /\ depth \in Nat
  BY <1>1, <1>2 DEF FlagInv, MapBeginNode
<1>4. depth > 0 => n = name
  <2>1. depth > 0 => path # <<>>
    BY <1>3
  <2> QED BY <2>1 DEF n
<1>5. CASE depth = 0
  <2>1. ~memory /\ ~reserved /\ ~chosen /\ ~atf
    BY <1>3, <1>5 DEF FlagInv, FlagsMatchPath, OpenNode
  <2>2. UNCHANGED flags
    BY <1>5, <2>1 DEF MapBeginNode, flags
  <2>3. Len(path') = 1
    BY <1>2, <1>3, <1>5
  <2> QED BY <1>2, <1>3, <2>1, <2>2, <2>3 DEF FlagInv, FlagsMatchPath, OpenNode, flags
<1>6. CASE depth = 1
  <2>1. Len(path') = 2 /\ path'[2] = name
    BY <1>2, <1>3, <1>4, <1>6
  <2>2. /\ memory' = (name \in StartsWithMemory) /\ reserved' = (name = "reserved-memory")
        /\ chosen' = (name = "chosen") /\ atf' = atf
    BY <1>6, Zenon DEF MapBeginNode
  <2>4. /\ memory' \in BOOLEAN /\ reserved' \in BOOLEAN /\ chosen' \in BOOLEAN
        /\ memory' <=> name \in StartsWithMemory
        /\ reserved' <=> name = "reserved-memory"
        /\ chosen' <=> name = "chosen"
    <3>1. memory' \in BOOLEAN /\ reserved' \in BOOLEAN /\ chosen' \in BOOLEAN
      BY <2>2
    <3>2. memory' <=> name \in StartsWithMemory
      BY <2>2, Zenon
    <3>3. reserved' <=> name = "reserved-memory"
      BY <2>2, Zenon
    <3>4. chosen' <=> name = "chosen"
      BY <2>2, Zenon
    <3> QED BY <3>1, <3>2, <3>3, <3>4
  <2>3. ~atf
    BY <1>3, <1>6 DEF FlagInv, FlagsMatchPath, OpenNode
  <2>5. FlagsMatchPath'
    BY <2>1, <2>2, <2>3, <2>4 DEF FlagsMatchPath, OpenNode
  <2> QED BY <1>2, <1>3, <2>2, <2>4, <2>5 DEF FlagInv
<1>7. CASE depth > 1
  <2>1. path'[2] = path[2] /\ Len(path) > 1 /\ Len(path') > 1
    BY <1>2, <1>3, <1>7
  <2>2. UNCHANGED <<memory, reserved, chosen>>
    BY <1>7 DEF MapBeginNode
  <2>3. atf' <=> reserved' /\ OpenNode(FirmwareNames, 2)'
    <3>1. CASE depth = 2
      <4>1. Len(path') = 3 /\ path'[3] = name
        BY <1>2, <1>3, <1>4, <3>1
      <4>2. atf' = IF reserved THEN name \in FirmwareNames ELSE atf
        BY <3>1 DEF MapBeginNode
      <4>3. ~atf /\ reserved \in BOOLEAN
        BY <1>3, <3>1 DEF FlagInv, FlagsMatchPath, OpenNode
      <4>4. atf' <=> reserved /\ name \in FirmwareNames
        BY <4>2, <4>3, Zenon
      <4> QED BY <2>2, <4>1, <4>4 DEF OpenNode
    <3>2. CASE depth > 2
      <4>1. path'[3] = path[3] /\ Len(path) > 2 /\ Len(path') > 2
        BY <1>2, <1>3, <3>2
      <4>2. atf' = atf
        BY <3>2 DEF MapBeginNode
      <4> QED BY <2>2, <4>1, <4>2 DEF FlagInv, FlagsMatchPath, OpenNode
    <3> QED BY <1>3, <1>7, <3>1, <3>2
  <2>4. FlagsMatchPath'
    BY <2>1, <2>2, <2>3 DEF FlagInv, FlagsMatchPath, OpenNode
  <2>5. atf' \in BOOLEAN
    <3>1. depth # 1 /\ atf \in BOOLEAN
      BY <1>7 DEF FlagInv
    <3>2. atf' = (name \in FirmwareNames) \/ atf' = atf
      BY <3>1, Zenon DEF MapBeginNode
    <3>3. (name \in FirmwareNames) \in BOOLEAN
      OBVIOUS
    <3> QED BY <3>1, <3>2, <3>3, Zenon
  <2> QED BY <1>2, <1>3, <2>2, <2>4, <2>5 DEF FlagInv
<1> QED BY <1>3, <1>5, <1>6, <1>7

\* Leaving a node: the flags of a child of the root are cleared on the way out.
LEMMA EndKeeps ==
  ASSUME FlagInv, MapEndNode
  PROVE  FlagInv'
<1>1. path \in Seq(Names) /\ path # <<>> /\ path' = SubSeq(path, 1, Len(path) - 1)
  BY DEF FlagInv, MapEndNode, TokenEndNode
<1>2. /\ Len(path) \in Nat \ {0}
      /\ path' \in Seq(Names) /\ Len(path') = Len(path) - 1
      /\ \A i \in 1 .. Len(path') : path'[i] = path[i]
  <2>1. Len(path) \in Nat /\ Len(path) # 0
    BY <1>1, NoElements, SeqFun
  <2>2. /\ path' \in Seq(Names) /\ Len(path') = Len(path) - 1
        /\ \A i \in 1 .. Len(path') : path'[i] = path[i]
    BY <1>1, <2>1, FrontProperties
  <2> QED BY <2>1, <2>2
<1>3. depth = Len(path) /\ depth' = Len(path')
  BY <1>2 DEF FlagInv, MapEndNode
<1>4. {memory, reserved, chosen, atf} \subseteq BOOLEAN
  BY DEF FlagInv
<1>5. CASE depth' = 1
  <2>1. ~memory' /\ ~reserved' /\ ~chosen' /\ atf' = atf
        /\ {memory', reserved', chosen'} \subseteq BOOLEAN
    BY <1>5, Zenon DEF MapEndNode
  <2>2. ~atf
    BY <1>2, <1>3, <1>5 DEF FlagInv, FlagsMatchPath, OpenNode
  <2>3. FlagsMatchPath'
    BY <1>3, <1>5, <2>1, <2>2 DEF FlagsMatchPath, OpenNode
  <2> QED BY <1>2, <1>3, <1>4, <2>1, <2>3 DEF FlagInv
<1>6. CASE depth' # 1
  <2>1. UNCHANGED <<memory, reserved, chosen>> /\ atf' = (atf /\ depth' # 2)
    BY <1>6 DEF MapEndNode
  <2>2. (atf' <=> atf /\ depth' # 2) /\ atf' \in BOOLEAN
    <3>1. atf' <=> atf /\ depth' # 2
      BY <2>1, Zenon
    <3>2. atf' \in BOOLEAN
      BY <2>1
    <3> QED BY <3>1, <3>2
  <2>3. CASE depth' = 0
    <3>1. Len(path) = 1 /\ Len(path') = 0
      BY <1>2, <1>3, <2>3
    <3>2. ~memory /\ ~reserved /\ ~chosen /\ ~atf
      BY <3>1 DEF FlagInv, FlagsMatchPath, OpenNode
    <3>3. FlagsMatchPath'
      BY <2>1, <2>2, <3>1, <3>2 DEF FlagsMatchPath, OpenNode
    <3> QED BY <1>2, <1>3, <1>4, <2>1, <2>2, <3>3 DEF FlagInv
  <2>4. CASE depth' = 2
    <3>1. Len(path) = 3 /\ Len(path') = 2 /\ path'[2] = path[2]
      BY <1>2, <1>3, <2>4
    <3>2. FlagsMatchPath'
      BY <2>1, <2>2, <2>4, <3>1 DEF FlagInv, FlagsMatchPath, OpenNode
    <3> QED BY <1>2, <1>3, <1>4, <2>1, <2>2, <3>2 DEF FlagInv
  <2>5. CASE depth' > 2
    <3>1. /\ Len(path) > 2 /\ Len(path') > 2 /\ path'[2] = path[2] /\ path'[3] = path[3]
      BY <1>2, <1>3, <2>5
    <3>2. FlagsMatchPath'
      BY <2>1, <2>2, <2>5, <3>1 DEF FlagInv, FlagsMatchPath, OpenNode
    <3> QED BY <1>2, <1>3, <1>4, <2>1, <2>2, <3>2 DEF FlagInv
  <2> QED BY <1>2, <1>3, <1>6, <2>3, <2>4, <2>5
<1> QED BY <1>5, <1>6

\* No other token opens or closes a node, and none changes a flag.
LEMMA StayKeeps ==
  ASSUME FlagInv, UNCHANGED <<path, depth, memory, reserved, chosen, atf>>
  PROVE  FlagInv'
  BY DEF FlagInv, FlagsMatchPath, OpenNode

\* Every step keeps the invariant.
LEMMA MapNextKeeps ==
  ASSUME FlagInv, [MapNext]_<<fdtVars, mapVars>>
  PROVE  FlagInv'
<1> DEFINE Stays == UNCHANGED <<path, depth, memory, reserved, chosen, atf>>
<1>1. MapReg \/ MapSkip \/ MapEnd \/ MapReject \/ MapDone => Stays
  BY DEF MapReg, MapSkip, MapEnd, MapReject, MapDone, TokenStay, BadToken, HvPanic, fdtVars,
         mapVars, pvars, flags
<1>2. ASSUME NEW start \in BOOLEAN, NEW v \in Addresses, InitrdProperty(start, v)
      PROVE  Stays
  BY <1>2 DEF InitrdProperty, TokenStay, fdtVars, flags
<1>3. UNCHANGED <<fdtVars, mapVars>> => Stays
  BY DEF fdtVars, mapVars, pvars
<1> QED BY <1>1, <1>2, <1>3, BeginKeeps, EndKeeps, StayKeeps DEF MapNext

\* ParseMemoryMap never takes a node for memory, firmware or the chosen node
\* because of a node that is closed, in trees of any names and any depth.
THEOREM FlagsMatchPathHolds == MapSpec => []FlagsMatchPath
<1>1. FlagInv /\ [MapNext]_<<fdtVars, mapVars>> => FlagInv'
  BY MapNextKeeps
<1>2. FlagInv => FlagsMatchPath
  BY DEF FlagInv
<1> QED BY FlagInit, <1>1, <1>2, PTL DEF MapSpec

-----------------------------------------------------------------------------
(* The search for a device.                                                *)

\* The properties of a node, as far as its type matters.
Level ==
  [addressCells : Nat, sizeCells : Nat, ranges : Seq(Nat), matched : BOOLEAN, reg : Seq(Nat)]

\* The array holds the open nodes up to the depth, and anything beyond it.
FindInv ==
  /\ path \in Seq({""}) /\ open \in Seq(Level)
  /\ nest = Len(open) /\ nest = Len(path) /\ nest <= MAX_DEPTH
  /\ stack = [d \in 1..MAX_DEPTH |-> stack[d]]
  /\ \A k \in 1..nest : stack[k] = open[k]

\* Nothing is open.
LEMMA FindStarts == FdtInit /\ FindInit => FindInv
<1> SUFFICES ASSUME FdtInit, FindInit PROVE FindInv
  OBVIOUS
<1>1. path = <<>> /\ open = <<>> /\ nest = 0
  BY DEF FdtInit, FindInit
<1>2. path \in Seq({""}) /\ open \in Seq(Level) /\ Len(path) = 0 /\ Len(open) = 0
  BY <1>1
<1>3. stack = [d \in 1..MAX_DEPTH |-> stack[d]]
  <2> DEFINE old == [FreshLevel EXCEPT !.addressCells = 0, !.sizeCells = 0]
  <2>1. stack = [d \in 1..MAX_DEPTH |-> old]
    BY DEF FindInit
  <2> HIDE DEF old
  <2> QED BY <2>1
<1> QED BY <1>1, <1>2, <1>3, FdtAssumption DEF FindInv

\* BEGIN_NODE: the level it enters is cleared before anything is read from it.
LEMMA FindBeginKeeps ==
  ASSUME FindInv, FindBeginNode
  PROVE  FindInv' /\ Len(path') = Len(path) + 1
<1>1. /\ path \in Seq({""}) /\ path' = Append(path, "") /\ Len(path) < MAX_DEPTH
      /\ open \in Seq(Level) /\ open' = Append(open, FreshLevel)
  <2>1. (IF path = <<>> THEN "" ELSE "") = ""
    OBVIOUS
  <2> QED BY <2>1, Zenon DEF FindInv, FindBeginNode, TokenBegin
<1>2. FreshLevel \in Level
  BY DEF FreshLevel, Level, DEFAULT_ADDRESS_CELLS, DEFAULT_SIZE_CELLS
<1>3. path' \in Seq({""}) /\ Len(path') = Len(path) + 1
  <2>1. "" \in {""}
    OBVIOUS
  <2> QED BY <1>1, <2>1, SnocSeq, Zenon
<1>4. /\ open' \in Seq(Level) /\ Len(open') = Len(open) + 1
      /\ \A k \in 1..Len(open) : open'[k] = open[k]
      /\ open'[Len(open) + 1] = FreshLevel
  <2>1. open \in Seq(Level) /\ open' = Append(open, FreshLevel)
    BY <1>1, Zenon
  <2>2. /\ Append(open, FreshLevel) \in Seq(Level)
        /\ Len(Append(open, FreshLevel)) = Len(open) + 1
        /\ \A k \in 1..Len(open) : Append(open, FreshLevel)[k] = open[k]
        /\ Append(open, FreshLevel)[Len(open) + 1] = FreshLevel
    BY <1>2, <2>1
  <2> QED BY <2>1, <2>2
<1>5. /\ nest \in Nat /\ nest = Len(open) /\ nest = Len(path) /\ nest < MAX_DEPTH
      /\ nest' = nest + 1 /\ stack' = [stack EXCEPT ![nest + 1] = FreshLevel]
  <2>1. nest = Len(open) /\ nest = Len(path) /\ nest' = nest + 1
    BY Zenon DEF FindInv, FindBeginNode
  <2>2. nest \in Nat /\ nest < MAX_DEPTH
    BY <1>1, <2>1, SeqFun, Zenon
  <2>3. stack' = [stack EXCEPT ![nest + 1] = FreshLevel]
    BY <2>2, Zenon DEF FindBeginNode
  <2> QED BY <2>1, <2>2, <2>3
<1>6. /\ stack' = [d \in 1..MAX_DEPTH |-> stack'[d]]
      /\ \A k \in 1..nest : stack'[k] = stack[k]
      /\ stack'[nest + 1] = FreshLevel
  <2>1. stack = [d \in 1..MAX_DEPTH |-> stack[d]]
    BY Zenon DEF FindInv
  <2> HIDE DEF FreshLevel
  <2>2. nest + 1 \in 1..MAX_DEPTH /\ \A k \in 1..nest : k \in 1..MAX_DEPTH /\ k # nest + 1
    BY <1>5, FdtAssumption
  <2>3. stack' = [d \in 1..MAX_DEPTH |-> IF d = nest + 1 THEN FreshLevel ELSE stack[d]]
    BY <1>5, <2>1, Zenon
  <2> QED BY <2>2, <2>3
<1>7. ASSUME NEW k \in 1..nest' PROVE stack'[k] = open'[k]
  <2>1. CASE k = nest + 1
    BY <1>4, <1>5, <1>6, <2>1
  <2>2. CASE k # nest + 1
    <3>1. k \in 1..nest
      BY <1>5, <2>2
    <3> QED BY <1>4, <1>5, <1>6, <3>1, Zenon DEF FindInv
  <2> QED BY <2>1, <2>2
<1>8. nest' = Len(open') /\ nest' = Len(path') /\ nest' <= MAX_DEPTH
  <2>1. nest' = Len(open') /\ nest' = Len(path')
    BY <1>3, <1>4, <1>5, Zenon
  <2>2. nest' <= MAX_DEPTH
    BY <1>5, FdtAssumption
  <2> QED BY <2>1, <2>2
<1> QED BY <1>3, <1>4, <1>6, <1>7, <1>8, Zenon DEF FindInv

\* END_NODE: the level it leaves stays in the array, beyond the depth.
LEMMA FindEndKeeps ==
  ASSUME FindInv, FindEndNode
  PROVE  FindInv'
<1>1. /\ path \in Seq({""}) /\ path # <<>> /\ path' = SubSeq(path, 1, Len(path) - 1)
      /\ open \in Seq(Level) /\ open' = SubSeq(open, 1, Len(open) - 1)
  BY Zenon DEF FindInv, FindEndNode, TokenEndNode
<1>2. Len(path) \in Nat /\ Len(path) # 0 /\ Len(open) = Len(path) /\ nest = Len(path)
  BY <1>1, NoElements, SeqFun, Zenon DEF FindInv
<1>3. path' \in Seq({""}) /\ Len(path') = Len(path) - 1
  BY <1>1, <1>2, FrontProperties, Zenon
<1>4. /\ open' \in Seq(Level) /\ Len(open') = Len(open) - 1
      /\ \A k \in 1..Len(open) - 1 : open'[k] = open[k]
  BY <1>1, <1>2, FrontProperties, Zenon
<1>5. nest' = nest - 1 /\ stack' = stack
  BY <1>2 DEF FindEndNode
<1>6. nest' = Len(open') /\ nest' = Len(path') /\ nest' <= MAX_DEPTH
  <2>1. nest <= MAX_DEPTH
    BY Zenon DEF FindInv
  <2>2. nest' = Len(open') /\ nest' = Len(path')
    BY <1>2, <1>3, <1>4, <1>5, Zenon
  <2>3. nest' <= MAX_DEPTH
    BY <1>2, <1>5, <2>1, FdtAssumption
  <2> QED BY <2>2, <2>3
<1>7. \A k \in 1..nest' : stack'[k] = open'[k]
  <2>1. \A k \in 1..nest : stack[k] = open[k]
    BY Zenon DEF FindInv
  <2>2. \A k \in 1..nest' : k \in 1..nest /\ k \in 1..Len(open) - 1
    BY <1>2, <1>5
  <2> QED BY <1>4, <1>5, <2>1, <2>2
<1> QED BY <1>3, <1>4, <1>5, <1>6, <1>7, Zenon DEF FindInv

\* What setting a property does: new is the innermost open node with it.
Sets(new, first) ==
  /\ TokenStay /\ UNCHANGED nest
  /\ stack' = [stack EXCEPT ![IF nest > 0 THEN nest ELSE 1] = IF nest > 0 THEN new ELSE first]
  /\ open' = IF open = <<>> THEN open ELSE [open EXCEPT ![Len(open)] = new]

\* A property changes the innermost open node, in the array and in the tree; with
\* none open it changes a level that will be cleared.
LEMMA SetKeeps ==
  ASSUME FindInv, NEW new, NEW first, Sets(new, first), nest > 0 => new \in Level
  PROVE  FindInv' /\ path' = path
<1>1. path' = path
  BY DEF Sets, TokenStay, fdtVars
<1>2. /\ nest \in Nat /\ nest = Len(open) /\ nest <= MAX_DEPTH /\ open \in Seq(Level)
      /\ stack = [d \in 1..MAX_DEPTH |-> stack[d]]
      /\ \A k \in 1..nest : stack[k] = open[k]
  BY SeqFun, Zenon DEF FindInv
<1>3. stack' = [d \in 1..MAX_DEPTH |-> stack'[d]]
  BY <1>2, Zenon DEF Sets
<1>4. CASE nest = 0
  <2>1. open' = open
    BY <1>2, <1>4 DEF Sets
  <2>2. \A k \in 1..nest : stack'[k] = open'[k]
    BY <1>4
  <2> QED BY <1>1, <1>3, <2>1, <2>2, Zenon DEF FindInv, Sets
<1>5. CASE nest > 0
  <2>1. open # <<>> /\ open' = [open EXCEPT ![nest] = new]
    BY <1>2, <1>5 DEF Sets
  <2>2. /\ open' \in Seq(Level) /\ Len(open') = nest
        /\ \A k \in 1..nest : open'[k] = IF k = nest THEN new ELSE open[k]
    BY <1>2, <1>5, <2>1
  <2>3. stack' = [stack EXCEPT ![nest] = new]
    BY <1>5 DEF Sets
  <2>4. \A k \in 1..nest : stack'[k] = IF k = nest THEN new ELSE stack[k]
    BY <1>2, <1>5, <2>3, FdtAssumption
  <2> QED BY <1>1, <1>2, <1>3, <2>2, <2>4, ZenonT(30) DEF FindInv, Sets
<1> QED BY <1>2, <1>4, <1>5

\* Both ways of going through the buses take an address to the same place: one
\* counts levels down an array, the other goes out of a tree.
LEMMA SeenIsTranslated ==
  ASSUME NEW nodes, NEW d \in Nat, Len(nodes) = d, NEW levels, NEW addr,
         \A k \in 1..d : levels[k] = nodes[k]
  PROVE  translate(levels, d, addr) = Seen(nodes, addr)
<1> DEFINE Out(k, a) == IF d - k = 0 THEN a ELSE Through(nodes[d - k + 1], nodes[d - k], a)
           Upwards(h) == [k \in 0..d |-> IF k = 0 THEN addr ELSE
                            IF d - k = 0 THEN h[k - 1] ELSE Through(nodes[d - k + 1], nodes[d - k], h[k - 1])]
           Downwards(h) == [l \in 1..(d + 1) |-> IF l > d THEN addr ELSE
                              IF l < 2 THEN h[l + 1] ELSE Through(levels[l], levels[l - 1], h[l + 1])]
           Prefix(n, h) == /\ h = [k \in 0..n |-> h[k]] /\ h[0] = addr
                           /\ \A k \in 1..n : h[k] = Out(k, h[k - 1])
           Bad == {n \in 0..d : ~\E h : Prefix(n, h)}
<1>1. Bad = {}
  <2> SUFFICES ASSUME Bad # {} PROVE FALSE
    OBVIOUS
  <2>1. Bad \in SUBSET Nat
    <3> HIDE DEF Prefix
    <3> QED OBVIOUS
  <2> HIDE DEF Bad, Out
  <2>2. PICK n \in Bad : \A y \in Bad : n <= y
    BY <2>1, LeastElement
  <2>3. n \in 0..d /\ ~\E h : Prefix(n, h)
    BY <2>2 DEF Bad
  <2>4. CASE n = 0
    <3> DEFINE h == [k \in 0..0 |-> addr]
    <3>1. h = [k \in 0..0 |-> h[k]] /\ h[0] = addr /\ \A k \in 1..0 : h[k] = Out(k, h[k - 1])
      OBVIOUS
    <3> HIDE DEF h
    <3> QED BY <2>3, <2>4, <3>1
  <2>5. CASE n # 0
    <3>1. n \in Nat /\ n - 1 \in 0..d /\ n - 1 \notin Bad
      BY <2>2, <2>3, <2>5
    <3>2. PICK g : Prefix(n - 1, g)
      BY <3>1 DEF Bad
    <3> DEFINE h == [k \in 0..n |-> IF k = n THEN Out(n, g[n - 1]) ELSE g[k]]
    <3>3. h = [k \in 0..n |-> h[k]] /\ h[0] = addr
      BY <2>5, <3>1, <3>2
    <3>4. ASSUME NEW k \in 1..n PROVE h[k] = Out(k, h[k - 1])
      <4>1. k \in 0..n /\ k - 1 \in 0..n /\ k - 1 # n /\ h[k - 1] = g[k - 1]
        BY <3>1
      <4>2. CASE k = n
        BY <4>1, <4>2
      <4>3. CASE k # n
        <5>1. k \in 1..(n - 1)
          BY <3>1, <4>3
        <5> QED BY <3>2, <4>1, <4>3, <5>1, Zenon
      <4> QED BY <4>2, <4>3
    <3> HIDE DEF h
    <3> QED BY <2>3, <3>3, <3>4
  <2> QED BY <2>4, <2>5
<1>2. PICK g : Prefix(d, g)
  <2>1. d \in 0..d
    OBVIOUS
  <2> QED BY <1>1, <2>1
<1>3. g = Upwards(g)
  <2>1. ASSUME NEW k \in 0..d
        PROVE  g[k] = IF k = 0 THEN addr ELSE
                        IF d - k = 0 THEN g[k - 1] ELSE Through(nodes[d - k + 1], nodes[d - k], g[k - 1])
    <3>1. CASE k = 0
      BY <1>2, <3>1
    <3>2. CASE k # 0
      <4>1. k \in 1..d
        BY <3>2
      <4>2. g[k] = Out(k, g[k - 1])
        BY <1>2, <4>1, Zenon
      <4> QED BY <3>2, <4>2
    <3> QED BY <3>1, <3>2
  <2>2. g = [k \in 0..d |-> g[k]]
    BY <1>2
  <2> QED BY <2>1, <2>2, Zenon
<1> DEFINE up == CHOOSE h : h = Upwards(h)
           f == [l \in 1..(d + 1) |-> g[d + 1 - l]]
           at == CHOOSE h : h = Downwards(h)
<1>4. up = Upwards(up)
  <2> HIDE DEF Upwards
  <2> QED BY <1>3
<1>5. f = Downwards(f)
  <2>1. ASSUME NEW l \in 1..(d + 1)
        PROVE  f[l] = IF l > d THEN addr ELSE
                        IF l < 2 THEN f[l + 1] ELSE Through(levels[l], levels[l - 1], f[l + 1])
    <3>1. f[l] = g[d + 1 - l]
      OBVIOUS
    <3>2. CASE l > d
      <4>1. d + 1 - l = 0
        BY <3>2
      <4> QED BY <1>2, <3>1, <3>2, <4>1
    <3>3. CASE ~(l > d)
      <4>1. /\ l + 1 \in 1..(d + 1) /\ d + 1 - (l + 1) = (d + 1 - l) - 1
            /\ d + 1 - l \in 1..d /\ d - (d + 1 - l) = l - 1 /\ l - 1 + 1 = l
        BY <3>3
      <4>2. f[l + 1] = g[(d + 1 - l) - 1]
        BY <4>1
      <4>3. g[d + 1 - l] = Out(d + 1 - l, f[l + 1])
        <5> HIDE DEF f, Out
        <5> QED BY <1>2, <4>1, <4>2, Zenon
      <4> HIDE DEF f
      <4>4. CASE l < 2
        <5>1. d - (d + 1 - l) = 0
          BY <4>4
        <5> QED BY <3>1, <3>3, <4>3, <4>4, <5>1
      <4>5. CASE ~(l < 2)
        <5>1. levels[l] = nodes[l] /\ levels[l - 1] = nodes[l - 1]
          BY <3>3, <4>5
        <5>2. Through(levels[l], levels[l - 1], f[l + 1]) = Through(nodes[l], nodes[l - 1], f[l + 1])
          BY <5>1, Zenon
        <5>3. d - (d + 1 - l) # 0 /\ d - (d + 1 - l) + 1 = l
          BY <4>1, <4>5
        <5>4. Out(d + 1 - l, f[l + 1]) = Through(nodes[l], nodes[l - 1], f[l + 1])
          BY <5>3
        <5> QED BY <3>1, <3>3, <4>3, <4>5, <5>2, <5>4
      <4> QED BY <4>4, <4>5
    <3> QED BY <3>2, <3>3
  <2>2. f = [l \in 1..(d + 1) |-> f[l]]
    OBVIOUS
  <2> HIDE DEF f
  <2> QED BY <2>1, <2>2, Zenon
<1>6. at = Downwards(at)
  <2> HIDE DEF Downwards, f
  <2> QED BY <1>5
<1>7. translate(levels, d, addr) = at[1] /\ Seen(nodes, addr) = up[d]
  BY DEF translate, Seen
<1> HIDE DEF up, f, at
\* Both are determined from the device outwards.
<1>8. ASSUME NEW l \in 1..(d + 1)
      PROVE  at[l] = IF l > d THEN addr ELSE
                       IF l < 2 THEN at[l + 1] ELSE Through(levels[l], levels[l - 1], at[l + 1])
  <2> DEFINE B(x) == IF x > d THEN addr ELSE
                       IF x < 2 THEN at[x + 1] ELSE Through(levels[x], levels[x - 1], at[x + 1])
  <2>1. at = [x \in 1..(d + 1) |-> B(x)]
    BY <1>6
  <2> HIDE DEF B
  <2>2. at[l] = B(l)
    BY <2>1
  <2> QED BY <2>2 DEF B
<1>9. ASSUME NEW k \in 0..d
      PROVE  up[k] = IF k = 0 THEN addr ELSE
                       IF d - k = 0 THEN up[k - 1] ELSE Through(nodes[d - k + 1], nodes[d - k], up[k - 1])
  <2> DEFINE B(x) == IF x = 0 THEN addr ELSE
                       IF d - x = 0 THEN up[x - 1] ELSE Through(nodes[d - x + 1], nodes[d - x], up[x - 1])
  <2>1. up = [x \in 0..d |-> B(x)]
    BY <1>4
  <2> HIDE DEF B
  <2>2. up[k] = B(k)
    BY <2>1
  <2> QED BY <2>2 DEF B
<1> DEFINE Apart == {k \in 0..d : at[d + 1 - k] # up[k]}
<1>10. Apart = {}
  <2> SUFFICES ASSUME Apart # {} PROVE FALSE
    OBVIOUS
  <2>1. Apart \in SUBSET Nat
    OBVIOUS
  <2> HIDE DEF Apart
  <2>2. PICK k \in Apart : \A y \in Apart : k <= y
    BY <2>1, LeastElement
  <2>3. k \in 0..d /\ at[d + 1 - k] # up[k]
    BY <2>2 DEF Apart
  <2>4. CASE k = 0
    <3>1. d + 1 - k \in 1..(d + 1) /\ d + 1 - k > d
      BY <2>4
    <3> QED BY <1>8, <1>9, <2>3, <2>4, <3>1
  <2>5. CASE k # 0
    <3> DEFINE l == d + 1 - k
    <3>1. k - 1 \in 0..d /\ k - 1 \notin Apart
      BY <2>2, <2>3, <2>5
    <3>2. at[d + 1 - (k - 1)] = up[k - 1]
      BY <3>1 DEF Apart
    <3>3. /\ l \in 1..(d + 1) /\ ~(l > d) /\ l + 1 = d + 1 - (k - 1) /\ d - k + 1 = l
          /\ d - k = l - 1 /\ (l < 2 <=> d - k = 0)
      BY <2>3, <2>5
    <3> HIDE DEF l
    <3>4. at[l] = IF l < 2 THEN up[k - 1] ELSE Through(levels[l], levels[l - 1], up[k - 1])
      <4>1. at[l + 1] = up[k - 1]
        BY <3>2, <3>3
      <4> QED BY <1>8, <3>3, <4>1
    <3>5. up[k] = IF l < 2 THEN up[k - 1] ELSE Through(nodes[l], nodes[l - 1], up[k - 1])
      <4>1. up[k] = IF d - k = 0 THEN up[k - 1] ELSE Through(nodes[d - k + 1], nodes[d - k], up[k - 1])
        BY <1>9, <2>3, <2>5, Zenon
      <4> QED BY <3>3, <4>1, Zenon
    <3>6. ASSUME ~(l < 2) PROVE Through(levels[l], levels[l - 1], up[k - 1]) = Through(nodes[l], nodes[l - 1], up[k - 1])
      <4>1. l \in 1..d /\ l - 1 \in 1..d
        BY <3>3, <3>6
      <4>2. levels[l] = nodes[l] /\ levels[l - 1] = nodes[l - 1]
        BY <4>1
      <4> QED BY <4>2, Zenon
    <3>7. at[l] = up[k]
      BY <3>4, <3>5, <3>6
    <3> QED BY <2>3, <3>7 DEF l
  <2> QED BY <2>4, <2>5
<1>11. d \in 0..d /\ d + 1 - d = 1 /\ d \notin Apart
  BY <1>10
<1>12. at[1] = up[d]
  BY <1>11
<1> QED BY <1>7, <1>12

\* A reg that is not empty and a whole number of entries, said with a remainder
\* and with a multiple.
LEMMA WholeEntries ==
  ASSUME NEW len \in Nat, NEW stride \in Nat, stride > 0
  PROVE  (len > 0 /\ len % stride = 0) <=> \E k \in 1..len : k * stride = len
<1>1. len % stride = 0 <=> \E k \in Nat : len = k * stride
  BY Multiple, Zenon
<1>2. ASSUME NEW k \in Nat, len = k * stride, len > 0 PROVE k \in 1..len
  <2>1. k # 0
    BY <1>2
  <2>2. PICK e \in Nat : stride = e + 1
    <3>1. stride - 1 \in Nat /\ stride = (stride - 1) + 1
      OBVIOUS
    <3> QED BY <3>1
  <2>3. len = k * e + k /\ k * e \in Nat
    BY <1>2, <2>2
  <2> QED BY <2>1, <2>3
<1>3. ASSUME NEW k \in 1..len, k * stride = len PROVE len > 0 /\ len % stride = 0
  <2>1. k \in Nat /\ len > 0
    OBVIOUS
  <2> QED BY <1>1, <1>3, <2>1, Zenon
<1>4. ASSUME len > 0, len % stride = 0 PROVE \E k \in 1..len : k * stride = len
  <2>1. PICK k \in Nat : len = k * stride
    BY <1>1, <1>4
  <2>2. k \in 1..len
    BY <1>2, <1>4, <2>1
  <2> QED BY <2>1, <2>2
<1> QED BY <1>3, <1>4, Zenon

\* The regions are the rounds of the loop, and the multiples that fit.
LEMMA CountsEntries ==
  ASSUME NEW len \in Nat, NEW stride \in Nat, stride > 0
  PROVE  1..Capped(len \div stride) = {k \in 1..DT_MAX_REGIONS : k * stride <= len}
<1> DEFINE q == len \div stride
           c == Capped(q)
<1>1. q \in Nat /\ len % stride \in 0..(stride - 1) /\ len = q * stride + (len % stride)
  BY Quotient
<1>2. c \in Nat /\ c <= DT_MAX_REGIONS /\ c <= q /\ (c = DT_MAX_REGIONS \/ c = q)
  BY <1>1, FinderAssumption DEF Capped
<1>3. ASSUME NEW k \in Nat PROVE k * stride <= len <=> k <= q
  <2>1. CASE k <= q
    <3>1. PICK e \in Nat : q = k + e
      <4>1. q - k \in Nat /\ q = k + (q - k)
        BY <1>1, <2>1
      <4> QED BY <4>1
    <3> HIDE DEF q
    <3>2. q * stride = k * stride + e * stride /\ e * stride \in Nat /\ k * stride \in Nat
      BY <3>1
    <3> QED BY <1>1, <2>1, <3>2
  <2>2. CASE k > q
    <3>1. PICK e \in Nat : k = q + 1 + e
      <4>1. k - q - 1 \in Nat /\ k = q + 1 + (k - q - 1)
        BY <1>1, <2>2
      <4> QED BY <4>1
    <3> HIDE DEF q
    <3>2. k * stride = q * stride + stride + e * stride /\ e * stride \in Nat /\ q * stride \in Nat
      BY <1>1, <3>1
    <3> QED BY <1>1, <2>2, <3>2
  <2> QED BY <1>1, <2>1, <2>2
<1> HIDE DEF q, c
<1>4. {k \in 1..DT_MAX_REGIONS : k * stride <= len} = 1..c
  <2>1. ASSUME NEW k \in 1..DT_MAX_REGIONS PROVE k * stride <= len <=> k \in 1..c
    <3>1. k \in Nat /\ (k * stride <= len <=> k <= q)
      BY <1>3, FinderAssumption
    <3>2. k <= q <=> k <= c
      BY <1>1, <1>2, FinderAssumption
    <3> QED BY <1>2, <3>1, <3>2
  <2>2. \A k \in 1..c : k \in 1..DT_MAX_REGIONS
    BY <1>2, FinderAssumption
  <2> QED BY <2>1, <2>2
<1> QED BY <1>4, Zenon DEF c, q

\* Whatever the nodes closed before left in the array, the node being closed is
\* judged by its own properties and its ancestors'.
LEMMA EndFinds ==
  ASSUME FindInv, FindEndNode
  PROVE  result' = Reference
<1> DEFINE d == Len(open) - 1
           node == open[Len(open)]
           parents == SubSeq(open, 1, Len(open) - 1)
           above == IF parents = <<>> THEN FreshLevel ELSE parents[Len(parents)]
           stride == above.addressCells + above.sizeCells
           len == Len(node.reg)
           Base(k) == Number(node.reg, (k - 1) * stride, above.addressCells)
           Size(k) == Number(node.reg, (k - 1) * stride + above.addressCells, above.sizeCells)
<1>1. /\ open \in Seq(Level) /\ Len(open) = Len(path) /\ nest = Len(open)
      /\ path \in Seq({""}) /\ path # <<>>
  BY Zenon DEF FindInv, FindEndNode, TokenEndNode
<1>2. Len(open) \in Nat /\ Len(open) # 0 /\ d \in Nat /\ d + 1 = Len(open)
  <2>1. Len(open) \in Nat /\ Len(open) # 0
    BY <1>1, NoElements, SeqFun, Zenon
  <2> QED BY <2>1
<1>3. result' = DeviceAt(stack, d)
  <2>1. nest > 0 /\ nest - 1 = d
    <3>1. nest = Len(open)
      BY <1>1, Zenon
    <3> QED BY <1>2, <3>1
  <2>2. nest' = d
    BY <2>1 DEF FindEndNode
  <2> HIDE DEF d
  <2> QED BY <2>2 DEF FindEndNode
<1>4. \A k \in 1..(d + 1) : stack[k] = open[k]
  BY <1>1, <1>2, Zenon DEF FindInv
<1>5. stack[d + 1] = node /\ node \in Level
  <2>1. node \in Level
    <3>1. Len(open) \in 1..Len(open)
      BY <1>2
    <3> QED BY <1>1, <3>1, SeqElement, Zenon
  <2>2. d + 1 \in 1..(d + 1) /\ d + 1 = Len(open)
    BY <1>2
  <2> HIDE DEF d
  <2> QED BY <1>4, <2>1, <2>2
<1>6. /\ parents \in Seq(Level) /\ Len(parents) = d
      /\ \A k \in 1..d : parents[k] = open[k]
  BY <1>1, <1>2, FrontProperties, Zenon
<1> HIDE DEF d, node, parents
<1>7. \A k \in 1..d : stack[k] = parents[k]
  BY <1>2, <1>4, <1>6
<1>8. Above(stack, d) = above /\ above \in Level
  <2>1. CASE d = 0
    <3>1. parents = <<>>
      BY <1>6, <2>1, NoElements
    <3>2. FreshLevel \in Level
      BY DEF FreshLevel, Level, DEFAULT_ADDRESS_CELLS, DEFAULT_SIZE_CELLS
    <3> QED BY <2>1, <3>1, <3>2, Zenon DEF Above
  <2>2. CASE d # 0
    <3>1. parents # <<>> /\ d \in 1..d /\ stack[d] = parents[d]
      BY <1>2, <1>6, <1>7, <2>2, NoElements
    <3>2. parents[d] \in Level
      BY <1>6, <3>1, SeqElement, Zenon
    <3> QED BY <1>6, <2>2, <3>1, <3>2, Zenon DEF Above
  <2> QED BY <2>1, <2>2
<1> HIDE DEF above
<1>9. stride \in Nat /\ len \in Nat
  <2>1. above.addressCells \in Nat /\ above.sizeCells \in Nat
    BY <1>8 DEF Level
  <2>2. node.reg \in Seq(Nat)
    BY <1>5 DEF Level
  <2>3. len \in Nat
    BY <2>2, SeqFun, Zenon
  <2> QED BY <2>1, <2>3
<1>10. node.reg # <<>> <=> len > 0
  <2>1. node.reg \in Seq(Nat)
    BY <1>5 DEF Level
  <2>2. node.reg # <<>> <=> len # 0
    BY <2>1, NoElements, Zenon
  <2> HIDE DEF len
  <2> QED BY <1>9, <2>2
<1>11. DeviceAt(stack, d) = IF node.matched /\ node.reg # <<>> /\ stride # 0 /\ len % stride = 0
         THEN [k \in 1..Capped(len \div stride) |->
                 [base |-> translate(stack, d, Base(k)), size |-> Size(k)]]
         ELSE NotFound
  BY <1>5, <1>8, Zenon DEF DeviceAt
<1>12. Reference = IF node.matched /\ \E k \in 1..len : k * stride = len
         THEN [k \in {j \in 1..DT_MAX_REGIONS : j * stride <= len} |->
                 [base |-> Seen(parents, Base(k)), size |-> Size(k)]]
         ELSE NotFound
  BY Zenon DEF Reference, node, parents, above
<1> HIDE DEF len, stride, Base, Size
<1>13. CASE stride = 0
  <2>1. \A k \in 1..len : k * stride # len
    BY <1>9, <1>13
  <2> QED BY <1>3, <1>11, <1>12, <1>13, <2>1
<1>14. CASE stride # 0
  <2>1. stride > 0
    BY <1>9, <1>14
  <2>2. node.reg # <<>> /\ len % stride = 0 <=> \E k \in 1..len : k * stride = len
    BY <1>9, <1>10, <2>1, WholeEntries, Zenon
  <2>3. 1..Capped(len \div stride) = {j \in 1..DT_MAX_REGIONS : j * stride <= len}
    BY <1>9, <2>1, CountsEntries, Zenon
  <2>4. ASSUME NEW a PROVE translate(stack, d, a) = Seen(parents, a)
    BY <1>2, <1>6, <1>7, SeenIsTranslated
  <2> DEFINE N == {j \in 1..DT_MAX_REGIONS : j * stride <= len}
  <2>5. [k \in N |-> [base |-> translate(stack, d, Base(k)), size |-> Size(k)]]
          = [k \in N |-> [base |-> Seen(parents, Base(k)), size |-> Size(k)]]
    <3> HIDE DEF N
    <3> QED BY <2>4, Zenon
  <2> QED BY <1>3, <1>11, <1>12, <1>14, <2>2, <2>3, <2>5, Zenon
<1> QED BY <1>13, <1>14

\* Each property is one of those, and leaves a level what it should be.
LEMMA PropertyKeeps ==
  ASSUME FindInv, FindProperty
  PROVE  FindInv' /\ path' = path
<1> DEFINE top == open[Len(open)]
<1>1. nest \in Nat /\ nest = Len(open)
  BY SeqFun, Zenon DEF FindInv
<1>2. nest > 0 => top \in Level /\ stack[nest] = top
  <2> SUFFICES ASSUME nest > 0 PROVE top \in Level /\ stack[nest] = top
    OBVIOUS
  <2>1. nest \in 1..nest
    BY <1>1
  <2>2. open[nest] \in Level
    BY <1>1, <2>1, SeqElement, Zenon DEF FindInv
  <2> QED BY <1>1, <2>1, <2>2, Zenon DEF FindInv
<1> HIDE DEF top
<1>3. ASSUME NEW n \in AddressCells, SetProperty(LAMBDA l : [l EXCEPT !.addressCells = n])
      PROVE  FindInv' /\ path' = path
  <2>1. Sets([top EXCEPT !.addressCells = n], [stack[1] EXCEPT !.addressCells = n])
    BY <1>1, <1>2, <1>3, Zenon DEF SetProperty, Sets, top
  <2>2. nest > 0 => [top EXCEPT !.addressCells = n] \in Level
    BY <1>2, FinderAssumption DEF Level
  <2> QED BY <2>1, <2>2, SetKeeps
<1>4. ASSUME NEW n \in SizeCells, SetProperty(LAMBDA l : [l EXCEPT !.sizeCells = n])
      PROVE  FindInv' /\ path' = path
  <2>1. Sets([top EXCEPT !.sizeCells = n], [stack[1] EXCEPT !.sizeCells = n])
    BY <1>1, <1>2, <1>4, Zenon DEF SetProperty, Sets, top
  <2>2. nest > 0 => [top EXCEPT !.sizeCells = n] \in Level
    BY <1>2, FinderAssumption DEF Level
  <2> QED BY <2>1, <2>2, SetKeeps
<1>5. ASSUME NEW r \in Ranges, SetProperty(LAMBDA l : [l EXCEPT !.ranges = r])
      PROVE  FindInv' /\ path' = path
  <2>1. Sets([top EXCEPT !.ranges = r], [stack[1] EXCEPT !.ranges = r])
    BY <1>1, <1>2, <1>5, Zenon DEF SetProperty, Sets, top
  <2>2. nest > 0 => [top EXCEPT !.ranges = r] \in Level
    BY <1>2, FinderAssumption DEF Level
  <2> QED BY <2>1, <2>2, SetKeeps
<1>6. ASSUME NEW r \in Regs, SetProperty(LAMBDA l : [l EXCEPT !.reg = r])
      PROVE  FindInv' /\ path' = path
  <2>1. Sets([top EXCEPT !.reg = r], [stack[1] EXCEPT !.reg = r])
    BY <1>1, <1>2, <1>6, Zenon DEF SetProperty, Sets, top
  <2>2. nest > 0 => [top EXCEPT !.reg = r] \in Level
    BY <1>2, FinderAssumption DEF Level
  <2> QED BY <2>1, <2>2, SetKeeps
<1>7. ASSUME NEW match \in BOOLEAN, SetProperty(LAMBDA l : [l EXCEPT !.matched = match])
      PROVE  FindInv' /\ path' = path
  <2>1. Sets([top EXCEPT !.matched = match], [stack[1] EXCEPT !.matched = match])
    BY <1>1, <1>2, <1>7, Zenon DEF SetProperty, Sets, top
  <2>2. nest > 0 => [top EXCEPT !.matched = match] \in Level
    BY <1>2 DEF Level
  <2> QED BY <2>1, <2>2, SetKeeps
<1>8. ASSUME SetProperty(LAMBDA l : l)
      PROVE  FindInv' /\ path' = path
  <2>1. Sets(top, stack[1])
    BY <1>1, <1>2, <1>8, Zenon DEF SetProperty, Sets, top
  <2>2. nest > 0 => top \in Level
    BY <1>2 DEF Level
  <2> QED BY <2>1, <2>2, SetKeeps
<1> QED BY <1>3, <1>5, <1>6, <1>7, <1>8, <1>4, Zenon DEF FindProperty

\* No other step closes a node.
LEMMA FindKeeps ==
  ASSUME FindInv, [FindNext]_<<fdtVars, findVars>>
  PROVE  /\ FindInv'
         /\ Len(path') < Len(path) => result' = Reference
<1>1. Len(path) \in Nat
  BY SeqFun, Zenon DEF FindInv
<1>2. CASE FindBeginNode
  BY <1>1, <1>2, FindBeginKeeps
<1>3. CASE FindEndNode
  BY <1>3, FindEndKeeps, EndFinds
<1>4. CASE FindProperty
  BY <1>1, <1>4, PropertyKeeps
<1>5. CASE UNCHANGED <<path, findVars>>
  <2>1. path' = path /\ nest' = nest /\ stack' = stack /\ open' = open
    BY <1>5 DEF findVars
  <2>2. FindInv'
    BY <2>1, Zenon DEF FindInv
  <2> QED BY <1>1, <2>1, <2>2
<1>6. FindEnd \/ FindReject \/ FindDone \/ UNCHANGED <<fdtVars, findVars>>
        => UNCHANGED <<path, findVars>>
  BY DEF FindEnd, FindReject, FindDone, BadToken, HvPanic, fdtVars
<1> QED BY <1>2, <1>3, <1>4, <1>5, <1>6 DEF FindNext

\* Whatever the tree, its cell counts and its ranges, whenever FindDevice closes
\* a node it returns that node's device, at the addresses the root sees, exactly
\* when the node is one.
THEOREM FoundIsDeviceHolds == FindSpec => FoundIsDevice
<1>1. FindInv /\ [FindNext]_<<fdtVars, findVars>> => FindInv'
  BY FindKeeps
<1>2. FindInv /\ [FindNext]_<<fdtVars, findVars>>
        => [Len(path') < Len(path) /\ open # <<>> => result' = Reference]_<<fdtVars, findVars>>
  BY FindKeeps
<1> QED BY FindStarts, <1>1, <1>2, PTL DEF FindSpec, FoundIsDevice

-----------------------------------------------------------------------------
(* The tables and the TLB.                                                 *)

\* What a client's call has still to do.
Pending(c) ==
  /\ c = [op |-> c.op, block |-> c.block, pa |-> c.pa, left |-> c.left, attr |-> c.attr]
  /\ c.block \in Nat /\ c.left \in Nat /\ c.pa \in Nat
  /\ c.op = "map" => c.attr = "normal" /\ Fresh(c.block, c.pa, c.left)

TlbInv ==
  /\ pte = [b \in BlockSet |-> pte[b]]
  /\ \A t \in tlb : t.block \in BlockSet /\ t.entry # Invalid
  /\ ~on => tlb = {} /\ owed = "none"
  /\ on => calls = <<>> \/ (calls = <<Call>> /\ Pending(Call))
  /\ owed # "none" => /\ owed \in {"tlbi", "store"} /\ calls # <<>>
                      /\ Call.op = "unmap" /\ Call.left # 0
                      /\ Call.block \div TableSpan \in tables
  /\ owed = "store" => \A t \in tlb : t.block = Call.block => t.racing
  /\ NoStaleTranslation

\* At reset nothing is mapped and nothing is cached.
LEMMA TlbInit == HostInit => TlbInv
  BY DEF HostInit, TlbInv, NoStaleTranslation

\* The running call alone is on the list, so that its end leaves none.
LEMMA OneCall ==
  ASSUME NEW c, NEW d
  PROVE  /\ Head(<<c>>) = c /\ Tail(<<c>>) = <<>> /\ <<c>> # <<>>
         /\ <<d>> \o Tail(<<c>>) = <<d>>
  OBVIOUS

\* The step does not touch the tables.
LEMMA SameTables ==
  ASSUME TlbInv, UNCHANGED mmuVars
  PROVE  TlbInv'
  BY DEF TlbInv, mmuVars, NoStaleTranslation, Call, Pending, Fresh

\* The calls of Enable, before anything can be cached.
LEMMA EnableKeeps ==
  ASSUME TlbInv, Enable
  PROVE  TlbInv'
  BY DEF TlbInv, Enable, NoStaleTranslation

\* No call is left, and nothing waits to be flushed.
LEMMA IdleKeeps ==
  ASSUME TlbInv, UNCHANGED <<pte, tlb, owed>>, owed = "none",
         on' => calls' = <<>>, ~on' => tlb = {}
  PROVE  TlbInv'
<1>1. /\ pte' = [b \in BlockSet |-> pte'[b]]
      /\ \A t \in tlb' : t.block \in BlockSet /\ t.entry # Invalid
      /\ NoStaleTranslation'
  BY DEF TlbInv, NoStaleTranslation
<1>2. (~on' => tlb' = {} /\ owed' = "none") /\ owed' = "none"
  OBVIOUS
<1> QED BY <1>1, <1>2 DEF TlbInv

\* Translation is switched on when every call of Enable is through.
LEMMA SwitchOnKeeps ==
  ASSUME TlbInv, SwitchOn
  PROVE  TlbInv'
<1>1. calls' = <<>> /\ owed = "none" /\ UNCHANGED <<pte, tlb, owed>>
  BY DEF TlbInv, SwitchOn
<1> QED BY <1>1, IdleKeeps DEF SwitchOn

\* A call ends.
LEMMA ReturnKeeps ==
  ASSUME TlbInv, Return
  PROVE  TlbInv'
<1>1. on => calls' = <<>>
  BY OneCall DEF TlbInv, Return
<1>2. owed = "none"
  BY DEF TlbInv, Return
<1>3. UNCHANGED <<pte, tlb, owed, on>> /\ (~on => tlb = {})
  BY DEF Return, TlbInv
<1> QED BY <1>1, <1>2, <1>3, IdleKeeps

\* A client calls.
LEMMA ClientKeeps ==
  ASSUME TlbInv, ClientCall
  PROVE  TlbInv'
<1>1. /\ on /\ calls = <<>> /\ UNCHANGED <<tables, pte, on, tlb, owed>>
      /\ owed = "none"
  BY DEF TlbInv, ClientCall
<1>2. PICK r \in ClientRanges :
        \/ \E pa \in ClientPas : /\ Fresh(r.block, pa, r.count)
                                 /\ calls' = <<MapCall(r.block, pa, r.count, "normal")>>
        \/ calls' = <<UnmapCall(r.block, r.count)>>
  BY DEF ClientCall
<1>3. r.block \in Nat /\ r.count \in Nat
  BY HostMmuAssumption
<1>4. calls' = <<Call'>> /\ Pending(Call')
  <2>1. CASE calls' = <<UnmapCall(r.block, r.count)>>
    BY <1>3, <2>1, OneCall DEF Call, UnmapCall, Pending
  <2>2. ASSUME NEW pa \in ClientPas, Fresh(r.block, pa, r.count),
               calls' = <<MapCall(r.block, pa, r.count, "normal")>>
        PROVE  calls' = <<Call'>> /\ Pending(Call')
    <3>1. Call' = MapCall(r.block, pa, r.count, "normal")
      BY <2>2, OneCall DEF Call
    <3>2. pa \in Nat
      BY HostMmuAssumption
    <3> QED BY <1>3, <2>2, <3>1, <3>2 DEF MapCall, Pending
  <2> QED BY <1>2, <2>1, <2>2
<1>5. Pending(Call') => Pending(Call)'
  BY <1>1 DEF Pending, Fresh
<1> QED BY <1>1, <1>4, <1>5 DEF TlbInv, NoStaleTranslation

\* A block of MapRange: on, it writes no entry but the one that may be cached.
LEMMA MapKeeps ==
  ASSUME TlbInv, MapRange
  PROVE  TlbInv'
<1>1. /\ calls # <<>> /\ Call.left # 0 /\ Call.op = "map"
      /\ UNCHANGED <<on, tlb, owed>> /\ owed = "none"
  BY DEF TlbInv, MapRange
<1>2. CASE UNCHANGED <<tables, pte, calls>>
  BY <1>1, <1>2 DEF TlbInv, NoStaleTranslation, Call, Pending, Fresh
<1>3. CASE /\ pte' = [pte EXCEPT ![Call.block] = Entry(Call.pa, Call.attr)]
           /\ Advance
  <2>1. /\ pte' = [b \in BlockSet |-> pte'[b]]
        /\ \A b \in BlockSet : pte'[b] = IF b = Call.block THEN Entry(Call.pa, Call.attr)
                                        ELSE pte[b]
    BY <1>3, Zenon DEF TlbInv
  <2>2. CASE ~on
    BY <1>1, <2>1, <2>2 DEF TlbInv, NoStaleTranslation
  <2>3. CASE on
    <3>1. calls = <<Call>> /\ Pending(Call)
      BY <1>1, <2>3 DEF TlbInv
    <3> DEFINE c == [Call EXCEPT !.block = @ + 1, !.pa = @ + BlockSize, !.left = @ - 1]
    <3>2. calls' = <<Call'>> /\ Call' = c
      <4>1. calls' = <<c>> \o Tail(calls)
        BY <1>3 DEF Advance
      <4> HIDE DEF c
      <4>2. calls' = <<c>>
        BY <3>1, <4>1, OneCall
      <4> QED BY <4>2, OneCall DEF Call
    <3>3. NoStaleTranslation'
      <4>1. Call.block \in BlockSet => pte[Call.block] \in {Invalid, Entry(Call.pa, "normal")}
        <5>1. 0 \in 0 .. Call.left - 1 /\ Call.block + 0 = Call.block
              /\ Call.pa + 0 * BlockSize = Call.pa
          BY <1>1, <3>1, MmioAssumption DEF Pending
        <5>2. pte[Call.block + 0] \in {Invalid, Entry(Call.pa + 0 * BlockSize, "normal")}
          BY <1>1, <3>1, <5>1 DEF Pending, Fresh
        <5> QED BY <5>1, <5>2
      <4> QED BY <1>1, <2>1, <3>1, <4>1 DEF TlbInv, NoStaleTranslation, Pending
    <3>4. Pending(Call)'
      <4>1. /\ Call'.block = Call.block + 1 /\ Call'.pa = Call.pa + BlockSize
            /\ Call'.left = Call.left - 1 /\ Call'.op = "map" /\ Call'.attr = Call.attr
        BY <1>1, <3>1, <3>2 DEF Pending
      <4>2. Call'.block \in Nat /\ Call'.left \in Nat /\ Call'.pa \in Nat
        BY <1>1, <3>1, <4>1, MmioAssumption DEF Pending
      <4>3. ASSUME NEW i \in 0 .. Call'.left - 1
            PROVE  pte'[Call'.block + i] \in {Invalid, Entry(Call'.pa + i * BlockSize, "normal")}
        <5>1. i + 1 \in 0 .. Call.left - 1
          BY <1>1, <3>1, <4>1 DEF Pending
        <5>2. /\ Call'.block + i = Call.block + (i + 1)
              /\ Call'.pa + i * BlockSize = Call.pa + (i + 1) * BlockSize
          <6>1. BlockSize \in Nat /\ i \in Nat /\ Call.block \in Nat /\ Call.pa \in Nat
            BY <3>1, <4>2, MmioAssumption DEF Pending
          <6>2. (i + 1) * BlockSize = i * BlockSize + BlockSize /\ i * BlockSize \in Nat
            BY <6>1
          <6> DEFINE x == i * BlockSize
                     y == (i + 1) * BlockSize
          <6>3. y = x + BlockSize /\ x \in Nat
            BY <6>2
          <6> HIDE DEF x, y
          <6>4. Call'.pa + x = Call.pa + y /\ Call'.block + i = Call.block + (i + 1)
            BY <4>1, <6>1, <6>3
          <6> QED BY <6>4 DEF x, y
        <5>3. pte[Call.block + (i + 1)] \in {Invalid, Entry(Call.pa + (i + 1) * BlockSize, "normal")}
          BY <1>1, <3>1, <5>1 DEF Pending, Fresh
        <5>4. Call.block + (i + 1) # Call.block
          BY <3>1 DEF Pending
        <5> QED BY <1>3, <5>2, <5>3, <5>4 DEF TlbInv
      <4>4. Call' = [op |-> Call'.op, block |-> Call'.block, pa |-> Call'.pa,
                     left |-> Call'.left, attr |-> Call'.attr]
        BY <3>1, <3>2, Zenon DEF Pending
      <4> QED BY <3>1, <1>1, <4>1, <4>2, <4>3, <4>4 DEF Pending, Fresh
    <3> QED BY <1>1, <2>1, <3>2, <3>3, <3>4 DEF TlbInv
  <2> QED BY <2>2, <2>3
<1> QED BY <1>2, <1>3 DEF MapRange

\* A step of UnmapRange: a translation that outlives the clearing of its entry
\* goes with the flush, and one made after the flush is marked as racing.
LEMMA UnmapKeeps ==
  ASSUME TlbInv, UnmapRange
  PROVE  TlbInv'
<1> DEFINE b == Call.block
<1>1. /\ on /\ calls # <<>> /\ Call.left # 0 /\ Call.op = "unmap"
      /\ UNCHANGED <<tables, on>> /\ calls = <<Call>> /\ Pending(Call)
  BY DEF TlbInv, UnmapRange
<1>2. ASSUME ClearBlock(b)
      PROVE  /\ tlb' = tlb /\ pte' = [x \in BlockSet |-> pte'[x]]
             /\ \A x \in BlockSet : x # b => pte'[x] = pte[x]
  BY <1>2 DEF TlbInv, ClearBlock
<1>3. ASSUME FlushBlock(b)
      PROVE  pte' = pte /\ tlb' = {t \in tlb : t.block # b}
  BY <1>3 DEF FlushBlock
<1>4. CASE /\ b \div TableSpan \notin tables
           /\ calls' = Tail(calls) /\ UNCHANGED <<pte, tlb, owed>>
  <2>1. owed = "none"
    BY <1>4 DEF TlbInv
  <2>2. calls' = <<>>
    BY <1>1, <1>4, OneCall
  <2> QED BY <1>1, <1>4, <2>1, <2>2, IdleKeeps
<1>5. CASE /\ b \div TableSpan \in tables /\ owed = "none" /\ UNCHANGED calls
           /\ \/ ClearBlock(b) /\ owed' = "tlbi"
              \/ FlushBlock(b) /\ owed' = "store"
  <2>1. Call' = Call /\ Pending(Call)'
    BY <1>1, <1>5 DEF Call, Pending
  <2>2. CASE ClearBlock(b) /\ owed' = "tlbi"
    <3>1. NoStaleTranslation'
      BY <1>2, <1>5, <2>1, <2>2 DEF TlbInv, NoStaleTranslation
    <3> QED BY <1>1, <1>2, <1>5, <2>1, <2>2, <3>1 DEF TlbInv
  <2>3. CASE FlushBlock(b) /\ owed' = "store"
    <3>1. NoStaleTranslation'
      BY <1>3, <1>5, <2>3 DEF TlbInv, NoStaleTranslation
    <3> QED BY <1>1, <1>3, <1>5, <2>1, <2>3, <3>1 DEF TlbInv
  <2> QED BY <1>5, <2>2, <2>3
<1>6. CASE /\ \/ owed = "tlbi" /\ FlushBlock(b)
              \/ owed = "store" /\ ClearBlock(b)
           /\ owed' = "none" /\ Advance
  <2> DEFINE c == [Call EXCEPT !.block = @ + 1, !.pa = @ + BlockSize, !.left = @ - 1]
  <2>1. calls' = <<Call'>> /\ Call' = c
    <3>1. calls' = <<c>> \o Tail(calls)
      BY <1>6 DEF Advance
    <3> HIDE DEF c
    <3>2. calls' = <<c>>
      BY <1>1, <3>1, OneCall
    <3> QED BY <3>2, OneCall DEF Call
  <2>2. Pending(Call)'
    <3>1. /\ Call'.block = Call.block + 1 /\ Call'.pa = Call.pa + BlockSize
          /\ Call'.left = Call.left - 1 /\ Call'.op = "unmap"
          /\ Call' = [op |-> Call'.op, block |-> Call'.block, pa |-> Call'.pa,
                      left |-> Call'.left, attr |-> Call'.attr]
      BY <1>1, <2>1, Zenon DEF Pending
    <3>2. Call'.block \in Nat /\ Call'.left \in Nat /\ Call'.pa \in Nat
      BY <1>1, <3>1, MmioAssumption DEF Pending
    <3> QED BY <3>1, <3>2 DEF Pending
  <2>3. /\ NoStaleTranslation' /\ pte' = [x \in BlockSet |-> pte'[x]]
        /\ \A t \in tlb' : t.block \in BlockSet /\ t.entry # Invalid
    <3>1. CASE owed = "tlbi" /\ FlushBlock(b)
      BY <1>3, <3>1 DEF TlbInv, NoStaleTranslation
    <3>2. CASE owed = "store" /\ ClearBlock(b)
      BY <1>2, <3>2 DEF TlbInv, NoStaleTranslation
    <3> QED BY <1>6, <3>1, <3>2
  <2> QED BY <1>1, <1>6, <2>1, <2>2, <2>3 DEF TlbInv
<1> QED BY <1>4, <1>5, <1>6 DEF UnmapRange

\* A walk caches what it reads: an entry that is there, or, of a block that is
\* being cleared, one that it notes as racing.
LEMMA CacheKeeps ==
  ASSUME TlbInv, Cache
  PROVE  TlbInv'
<1>1. on /\ UNCHANGED <<tables, pte, on, calls, owed>>
  BY Zenon DEF Cache
<1>2. PICK b \in BlockSet :
        /\ pte[b] # Invalid
        /\ tlb' = tlb \cup {[block |-> b, entry |-> pte[b],
                            racing |-> owed = "store" /\ b = Call.block]}
  BY DEF Cache
<1>3. Call' = Call /\ (Pending(Call) => Pending(Call)')
  BY <1>1 DEF Call, Pending, Fresh
<1>4. ASSUME NEW t \in tlb'
      PROVE  /\ t.block \in BlockSet /\ t.entry # Invalid
             /\ owed = "store" /\ t.block = Call.block => t.racing
             /\ \/ t.racing \/ pte[t.block] = t.entry
                \/ (owed = "tlbi" /\ t.block = Call.block)
  <2>1. CASE t \in tlb
    BY <2>1 DEF TlbInv, NoStaleTranslation
  <2>2. CASE t \notin tlb
    <3>1. /\ t.block = b /\ t.entry = pte[b]
          /\ t.racing <=> owed = "store" /\ b = Call.block
      <4> DEFINE racing == owed = "store" /\ b = Call.block
      <4>1. t = [block |-> b, entry |-> pte[b], racing |-> racing]
        BY <1>2, <2>2
      <4> HIDE DEF racing
      <4>2. t.block = b /\ t.entry = pte[b] /\ t.racing = racing
        BY <4>1
      <4> QED BY <4>2, Zenon DEF racing
    <3> QED BY <1>2, <3>1
  <2> QED BY <2>1, <2>2
<1>5. NoStaleTranslation'
  BY <1>1, <1>3, <1>4 DEF NoStaleTranslation
<1> QED BY <1>1, <1>3, <1>4, <1>5 DEF TlbInv

\* Forgetting does no harm.
LEMMA ForgetKeeps ==
  ASSUME TlbInv, TlbFlushAll \/ Evict
  PROVE  TlbInv'
<1>1. UNCHANGED <<tables, pte, on, calls, owed>> /\ tlb' \subseteq tlb
  BY DEF TlbFlushAll, Evict
<1>2. Call' = Call /\ (Pending(Call) => Pending(Call)')
  BY <1>1 DEF Call, Pending, Fresh
<1>3. NoStaleTranslation'
  BY <1>1, <1>2 DEF TlbInv, NoStaleTranslation
<1> QED BY <1>1, <1>2, <1>3 DEF TlbInv

\* UnmapRange leaves no translation of a block behind, whatever the hardware
\* caches between the steps of MapRange and UnmapRange, except one whose walk
\* fell between the tlbi and the store, which no barrier orders.
THEOREM NoStaleTranslationHolds == HostSpec => []NoStaleTranslation
<1>1. ASSUME TlbInv, [HostNext]_hostVars PROVE TlbInv'
  <2>1. BuildMap \/ Halted \/ UNCHANGED hostVars => UNCHANGED mmuVars
    BY DEF BuildMap, Halted, hostVars
  <2> QED BY <1>1, <2>1, SameTables, EnableKeeps, SwitchOnKeeps, MapKeeps, UnmapKeeps,
             ReturnKeeps, ClientKeeps, CacheKeeps, ForgetKeeps DEF HostNext
<1>2. TlbInv => NoStaleTranslation
  BY DEF TlbInv
<1> QED BY TlbInit, <1>1, <1>2, PTL DEF HostSpec

-----------------------------------------------------------------------------
(* The device windows.                                                     *)

\* Requests that map a region to itself, in the granule of the builder.
Plain == {q \in [ipa : Nat, pa : Nat, size : Nat, byPage : {builder = "guest"}] : q.pa = q.ipa}
WindowSet == [base : Nat, pa : Nat, size : Nat, byPage : BOOLEAN]

\* The requests that the host's builder makes.
HostRequests == {Blocks(uart[1])} \cup {Blocks(gic[i]) : i \in DOMAIN gic}

\* The bring-up console is the only request that moves, and is made only when
\* no window is where it goes.
AskedOnce ==
  \/ asked \subseteq Plain
  \/ /\ BringUp \in asked /\ asked \ {BringUp} \subseteq Plain
     /\ builder = "guest" /\ state = "returned"
     /\ \A q \in asked \ {BringUp} : ~In(BringUpIpa, Window(q))

MapInv ==
  /\ builder \in {"host", "guest"} /\ uart \in Devices /\ gic \in Devices
  /\ state \in {"checking", "adding", "panic", "returned"}
  /\ state = "checking" => asked = {} /\ todo = <<>>
  /\ todo \in Seq(Plain) /\ windows \in Seq(WindowSet)
  /\ Range(windows) = {Window(q) : q \in asked}
  /\ AskedOnce
  /\ state = "returned" => todo = <<>> /\ (builder = "guest" => Covers(BringUpIpa))
  /\ builder = "host" /\ state \in {"adding", "returned"} =>
       uart # <<>> /\ Range(todo) \cup asked = HostRequests

\* Down is the greatest multiple that is not above.
LEMMA DownIs ==
  ASSUME NEW a \in Nat, NEW g \in Nat, g > 0
  PROVE  /\ Down(a, g) \in Nat /\ Down(a, g) <= a /\ a < Down(a, g) + g
         /\ Down(a, g) % g = 0 /\ (a % g = 0 => Down(a, g) = a)
<1>1. a \div g \in Nat /\ a = (a \div g) * g + (a % g) /\ a % g \in 0 .. g - 1
  OBVIOUS
<1>2. \A k \in Nat : k * g \in Nat /\ (k * g) % g = 0
  BY Times
<1>3. (a \div g) * g \in Nat /\ ((a \div g) * g) % g = 0
  BY <1>1, <1>2, Zenon
<1> QED BY <1>1, <1>3 DEF Down

\* Up is the least multiple that is not below.
LEMMA UpIs ==
  ASSUME NEW a \in Nat, NEW g \in Nat, g > 0
  PROVE  Up(a, g) \in Nat /\ Up(a, g) % g = 0 /\ a <= Up(a, g) /\ Up(a, g) < a + g
<1>1. a + g - 1 \in Nat
  OBVIOUS
<1> QED BY <1>1, DownIs DEF Up

\* A multiple is not rounded.
LEMMA UpMultiple ==
  ASSUME NEW a \in Nat, NEW g \in Nat, g > 0, a % g = 0
  PROVE  Up(a, g) = a
<1> DEFINE u == Up(a, g)
<1>1. u \in Nat /\ u % g = 0 /\ a <= u /\ u < a + g
  BY UpIs, Zenon
<1> HIDE DEF u
<1>2. ASSUME a < u PROVE a + g <= u
  BY <1>1, <1>2, MultiplesApart
<1>3. u = a
  BY <1>1, <1>2
<1> QED BY <1>3 DEF u

Granule(q) == IF q.byPage THEN PageSize ELSE BlockSize

\* A window is whole granules around its region.
LEMMA WindowIs ==
  ASSUME NEW q \in [ipa : Nat, pa : Nat, size : Nat, byPage : BOOLEAN]
  PROVE  /\ Window(q) \in WindowSet
         /\ Window(q).base <= q.ipa /\ q.ipa + q.size <= Window(q).base + Window(q).size
         /\ Window(q).base % Granule(q) = 0
         /\ (Window(q).base + Window(q).size) % Granule(q) = 0
         /\ Window(q).base = Down(q.ipa, Granule(q))
         /\ Window(q).base + Window(q).size = Up(q.ipa + q.size, Granule(q))
         /\ q.pa = q.ipa => Window(q).pa = Window(q).base
         /\ Granule(q) \in Nat /\ Granule(q) > 0
<1> DEFINE g == Granule(q)
           s == Down(q.ipa, g)
           u == Up(q.ipa + q.size, g)
           p == Down(q.pa, g)
<1>1. q.ipa \in Nat /\ q.pa \in Nat /\ q.size \in Nat /\ q.byPage \in BOOLEAN /\ q.ipa + q.size \in Nat
  OBVIOUS
<1>2. g \in Nat /\ g > 0
  BY MmioAssumption DEF Granule
<1>3. Window(q) = [base |-> s, pa |-> p, size |-> u - s, byPage |-> q.byPage]
  BY DEF Window, Granule
<1> HIDE DEF g
<1>4. s \in Nat /\ s <= q.ipa /\ s % g = 0 /\ p \in Nat
  BY <1>1, <1>2, DownIs
<1>5. u \in Nat /\ u % g = 0 /\ q.ipa + q.size <= u
  BY <1>1, <1>2, UpIs
<1>6. q.pa = q.ipa => p = s
  OBVIOUS
<1> HIDE DEF s, u, p
<1>7. u - s \in Nat /\ s + (u - s) = u
  BY <1>1, <1>4, <1>5
<1>8. /\ Window(q).base = s /\ Window(q).pa = p /\ Window(q).size = u - s
      /\ Window(q) \in WindowSet
  BY <1>1, <1>3, <1>4, <1>7 DEF WindowSet
<1> QED BY <1>1, <1>2, <1>4, <1>5, <1>6, <1>7, <1>8 DEF g, s, u

\* The bring-up console is one page.
LEMMA BringUpIs ==
  /\ BringUp \in [ipa : Nat, pa : Nat, size : Nat, byPage : BOOLEAN]
  /\ Window(BringUp).base = BringUpIpa /\ Window(BringUp).pa = BspUart
  /\ Window(BringUp).size = PageSize
<1>1. /\ BringUpIpa \in Nat /\ BspUart \in Nat /\ PageSize \in Nat /\ PageSize > 0
      /\ BringUpIpa % PageSize = 0 /\ BspUart % PageSize = 0
  BY MmioAssumption
<1>2. BringUp \in [ipa : Nat, pa : Nat, size : Nat, byPage : BOOLEAN]
  BY <1>1 DEF BringUp
<1>3. Down(BringUpIpa, PageSize) = BringUpIpa /\ Down(BspUart, PageSize) = BspUart
  BY <1>1, DownIs, Zenon
<1>4. Up(BringUpIpa + PageSize, PageSize) = BringUpIpa + PageSize
  <2>1. PageSize % PageSize = 0
    BY <1>1, Times
  <2>2. (BringUpIpa + PageSize) % PageSize = 0
    BY <1>1, <2>1, MultipleSum
  <2>3. BringUpIpa + PageSize \in Nat
    BY <1>1
  <2> QED BY <1>1, <2>2, <2>3, UpMultiple
<1>5. Window(BringUp) = [base |-> BringUpIpa, pa |-> BspUart,
                         size |-> (BringUpIpa + PageSize) - BringUpIpa, byPage |-> TRUE]
  BY <1>3, <1>4, Zenon DEF Window, BringUp
<1> QED BY <1>1, <1>2, <1>5

\* No request is made yet.
LEMMA WindowInit == Init => MapInv
<1> SUFFICES ASSUME Init PROVE MapInv
  OBVIOUS
<1>1. todo = <<>> /\ windows = <<>> /\ asked = {} /\ state = "checking"
  BY DEF Init
<1>2. todo \in Seq(Plain) /\ windows \in Seq(WindowSet) /\ Range(windows) = {}
  BY <1>1 DEF Range
<1> QED BY <1>1, <1>2 DEF Init, MapInv, AskedOnce

\* The places of a sequence of regions.
LEMMA RegionsAre ==
  ASSUME NEW s \in Devices
  PROVE  s \in Seq([base : Nat, size : Nat]) /\ DOMAIN s = 1 .. Len(s) /\ Len(s) \in Nat
         /\ \A i \in DOMAIN s : s[i] \in [base : Nat, size : Nat]
<1>1. s \in Seq([base : Nat, size : Nat])
  BY MmioAssumption
<1> QED BY <1>1, SeqFun, SeqElement, Zenon

\* The host's builder asks for the console and for every region of the GIC.
LEMMA HostCheckedKeeps ==
  ASSUME MapInv, HostChecked
  PROVE  MapInv'
<1>1. /\ builder = "host" /\ state = "checking" /\ UNCHANGED <<builder, uart, gic, windows, asked>>
      /\ asked = {} /\ todo = <<>>
  BY DEF HostChecked, MapInv, Panic, Adding
<1>2. Plain' = Plain /\ AskedOnce' /\ Range(windows) = {}
  BY <1>1 DEF Plain, AskedOnce, MapInv
<1>3. Range(windows)' = {Window(q) : q \in asked}'
  BY <1>1 DEF MapInv
<1>4. CASE Panic
  BY <1>1, <1>2, <1>3, <1>4 DEF MapInv, Panic
<1>5. CASE ~Panic
  <2> DEFINE rest == [i \in DOMAIN gic |-> Blocks(gic[i])]
             all == <<Blocks(uart[1])>> \o rest
  <2>1. /\ state' = "adding" /\ todo' = all /\ uart # <<>>
    BY <1>5, Zenon DEF HostChecked, Adding
  <2>2. uart \in Devices /\ gic \in Devices
    BY DEF MapInv
  <2>3. \A r \in [base : Nat, size : Nat] : Blocks(r) \in Plain
    BY <1>1, Zenon DEF Blocks, Plain
  <2>4. uart[1] \in [base : Nat, size : Nat]
    <3>1. 1 \in DOMAIN uart
      BY <2>1, <2>2, RegionsAre, NoElements
    <3> QED BY <2>2, <3>1, RegionsAre
  <2>5. rest \in Seq(Plain) /\ Len(rest) = Len(gic) /\ Len(gic) \in Nat /\ DOMAIN gic = 1 .. Len(gic)
    <3>1. DOMAIN gic = 1 .. Len(gic) /\ Len(gic) \in Nat /\ \A i \in DOMAIN gic : Blocks(gic[i]) \in Plain
      BY <2>2, <2>3, RegionsAre
    <3>2. rest \in [1 .. Len(gic) -> Plain]
      BY <3>1
    <3> HIDE DEF rest
    <3> QED BY <3>1, <3>2, FunSeq
  <2>6. Blocks(uart[1]) \in Plain
    BY <2>3, <2>4
  <2>7. /\ all \in Seq(Plain) /\ Len(all) = Len(rest) + 1 /\ all[1] = Blocks(uart[1])
        /\ \A i \in 1 .. Len(rest) : all[i + 1] = rest[i]
    <3> DEFINE h == Blocks(uart[1])
    <3> HIDE DEF rest, h
    <3>1. h \in Plain /\ rest \in Seq(Plain)
      BY <2>5, <2>6 DEF h
    <3> QED BY <3>1, ConsSeq DEF h
  <2>8. Range(all) = HostRequests
    <3>1. \A i \in 1 .. Len(gic) : all[i + 1] = Blocks(gic[i])
      BY <2>5, <2>7
    <3> HIDE DEF all, rest
    <3>2. Range(all) = {all[i] : i \in 1 .. Len(gic) + 1}
      BY <2>5, <2>7, SeqFun DEF Range
    <3>3. ASSUME NEW i \in 1 .. Len(gic) + 1 PROVE all[i] \in HostRequests
      <4>1. CASE i = 1
        BY <2>7, <4>1 DEF HostRequests
      <4>2. CASE i # 1
        <5>1. i - 1 \in 1 .. Len(gic) /\ (i - 1) + 1 = i
          BY <2>5, <4>2
        <5>2. all[i] = Blocks(gic[i - 1])
          BY <3>1, <5>1
        <5> QED BY <2>5, <5>1, <5>2 DEF HostRequests
      <4> QED BY <4>1, <4>2
    <3>4. ASSUME NEW q \in HostRequests PROVE \E i \in 1 .. Len(gic) + 1 : all[i] = q
      <4>1. CASE q = Blocks(uart[1])
        BY <2>5, <2>7, <4>1
      <4>2. ASSUME NEW j \in 1 .. Len(gic), q = Blocks(gic[j]) PROVE \E i \in 1 .. Len(gic) + 1 : all[i] = q
        <5>1. j + 1 \in 1 .. Len(gic) + 1 /\ all[j + 1] = q
          BY <2>5, <3>1, <4>2
        <5> QED BY <5>1
      <4> QED BY <2>5, <4>1, <4>2 DEF HostRequests
    <3> QED BY <3>2, <3>3, <3>4
  <2>9. HostRequests' = HostRequests /\ Range(todo)' = Range(all)
    BY <1>1, <2>1 DEF HostRequests
  <2> HIDE DEF all
  <2> QED BY <1>1, <1>2, <1>3, <2>1, <2>7, <2>8, <2>9 DEF MapInv
<1> QED BY <1>4, <1>5

\* The guest's builder asks for at most two regions and the console.
LEMMA GuestCheckedKeeps ==
  ASSUME MapInv, GuestChecked
  PROVE  MapInv'
<1> DEFINE frames == SubSeq(gic, 1, IF Len(gic) < 2 THEN Len(gic) ELSE 2)
           console == SubSeq(uart, 1, IF uart = <<>> THEN 0 ELSE 1)
           both == frames \o console
           all == [i \in DOMAIN both |-> Pages(both[i])]
<1>1. /\ builder = "guest" /\ state = "checking" /\ UNCHANGED <<builder, uart, gic, windows, asked>>
      /\ asked = {} /\ state' = "adding" /\ todo' = all
  BY Zenon DEF GuestChecked, MapInv, Adding
<1>2. Plain' = Plain /\ AskedOnce' /\ Range(windows) = {}
  BY <1>1 DEF Plain, AskedOnce, MapInv
<1>3. Range(windows)' = {Window(q) : q \in asked}'
  BY <1>1 DEF MapInv
<1>4. /\ uart \in Seq([base : Nat, size : Nat]) /\ gic \in Seq([base : Nat, size : Nat])
      /\ Len(uart) \in Nat /\ Len(gic) \in Nat
  BY RegionsAre DEF MapInv
<1>5. frames \in Seq([base : Nat, size : Nat])
  <2> DEFINE n == IF Len(gic) < 2 THEN Len(gic) ELSE 2
  <2>1. n \in 0 .. Len(gic)
    BY <1>4
  <2> HIDE DEF n
  <2>2. SubSeq(gic, 1, n) \in Seq([base : Nat, size : Nat])
    BY <1>4, <2>1, PrefixSeq, Zenon
  <2> QED BY <2>2 DEF n
<1>6. console \in Seq([base : Nat, size : Nat])
  <2> DEFINE n == IF uart = <<>> THEN 0 ELSE 1
  <2>1. n \in 0 .. Len(uart)
    BY <1>4, NoElements
  <2> HIDE DEF n
  <2>2. SubSeq(uart, 1, n) \in Seq([base : Nat, size : Nat])
    BY <1>4, <2>1, PrefixSeq, Zenon
  <2> QED BY <2>2 DEF n
<1>7. both \in Seq([base : Nat, size : Nat])
  <2> HIDE DEF frames, console
  <2> QED BY <1>5, <1>6, JoinSeq
<1>8. \A r \in [base : Nat, size : Nat] : Pages(r) \in Plain
  BY <1>1, Zenon DEF Pages, Plain
<1>9. all \in Seq(Plain)
  <2> HIDE DEF both
  <2>1. DOMAIN both = 1 .. Len(both) /\ Len(both) \in Nat /\ \A i \in DOMAIN both : Pages(both[i]) \in Plain
    BY <1>7, <1>8, SeqFun, SeqElement, Zenon
  <2>2. all \in [1 .. Len(both) -> Plain]
    BY <2>1
  <2> HIDE DEF all
  <2> QED BY <2>1, <2>2, FunSeq
<1> HIDE DEF all
<1> QED BY <1>1, <1>2, <1>3, <1>9 DEF MapInv

\* A request is added to the map, if it is not there and there is room.
LEMMA Added ==
  ASSUME MapInv, NEW q \in [ipa : Nat, pa : Nat, size : Nat, byPage : BOOLEAN], Add(q),
         asked' = asked \cup {q}
  PROVE  windows' \in Seq(WindowSet) /\ Range(windows)' = {Window(r) : r \in asked}'
<1>1. windows \in Seq(WindowSet) /\ Range(windows) = {Window(r) : r \in asked} /\ Window(q) \in WindowSet
  BY WindowIs DEF MapInv
<1> DEFINE w == Window(q)
<1>2. {Window(r) : r \in asked}' = {Window(r) : r \in asked} \cup {w}
  OBVIOUS
<1>3. windows' = IF w \in Range(windows) THEN windows ELSE Append(windows, w)
  BY DEF Add
<1> HIDE DEF w
<1>4. Append(windows, w) \in Seq(WindowSet) /\ Range(Append(windows, w)) = Range(windows) \cup {w}
  <2>1. /\ Append(windows, w) \in Seq(WindowSet) /\ Len(Append(windows, w)) = Len(windows) + 1
        /\ \A i \in 1 .. Len(windows) : Append(windows, w)[i] = windows[i]
        /\ Append(windows, w)[Len(windows) + 1] = w /\ Len(windows) \in Nat
    BY <1>1, SnocSeq, SeqFun DEF w
  <2>2. DOMAIN windows = 1 .. Len(windows) /\ DOMAIN Append(windows, w) = 1 .. Len(windows) + 1
    BY <1>1, <2>1, SeqFun
  <2> QED BY <2>1, <2>2 DEF Range
<1> QED BY <1>1, <1>2, <1>3, <1>4

\* The requests are added one by one.
LEMMA AddNextKeeps ==
  ASSUME MapInv, AddNext
  PROVE  MapInv'
<1>1. state = "adding" /\ todo # <<>> /\ UNCHANGED <<builder, uart, gic>> /\ todo \in Seq(Plain)
  BY DEF AddNext, MapInv, Panic
<1>2. Plain' = Plain /\ HostRequests' = HostRequests
  BY <1>1 DEF Plain, HostRequests
<1>3. asked \subseteq Plain
  BY <1>1 DEF MapInv, AskedOnce
<1>4. CASE Full(Head(todo))
  <2>1. state' = "panic" /\ UNCHANGED <<todo, windows, asked>>
    BY <1>4 DEF AddNext, Panic
  <2>2. Range(windows)' = {Window(q) : q \in asked}' /\ AskedOnce'
    BY <1>2, <1>3, <2>1 DEF MapInv, AskedOnce
  <2> QED BY <1>1, <1>2, <2>1, <2>2 DEF MapInv
<1>5. CASE ~Full(Head(todo))
  <2> DEFINE q == Head(todo)
  <2>1. Add(q) /\ todo' = Tail(todo) /\ asked' = asked \cup {q} /\ state' = state
    BY <1>5 DEF AddNext
  <2>2. q \in Plain /\ Tail(todo) \in Seq(Plain) /\ Range(Tail(todo)) \cup {q} = Range(todo)
    <3>1. /\ Tail(todo) \in Seq(Plain) /\ Len(Tail(todo)) = Len(todo) - 1 /\ Len(todo) \in Nat
          /\ \A i \in 1 .. Len(todo) - 1 : Tail(todo)[i] = todo[i + 1]
          /\ Len(todo) > 0 /\ q = todo[1] /\ q \in Plain
      BY <1>1, TailSeq
    <3>2. DOMAIN todo = 1 .. Len(todo) /\ DOMAIN Tail(todo) = 1 .. Len(todo) - 1
      BY <1>1, <3>1, SeqFun
    <3> HIDE DEF q
    <3>3. ASSUME NEW i \in 1 .. Len(todo) PROVE todo[i] \in Range(Tail(todo)) \cup {q}
      <4>1. CASE i # 1
        <5>1. i - 1 \in 1 .. Len(todo) - 1 /\ (i - 1) + 1 = i
          BY <3>1, <4>1
        <5>2. Tail(todo)[i - 1] = todo[i]
          BY <3>1, <5>1
        <5> QED BY <3>2, <5>1, <5>2, Zenon DEF Range
      <4> QED BY <3>1, <4>1
    <3>4. ASSUME NEW i \in 1 .. Len(todo) - 1 PROVE Tail(todo)[i] \in Range(todo)
      <4>1. i + 1 \in 1 .. Len(todo) /\ Tail(todo)[i] = todo[i + 1]
        BY <3>1
      <4> QED BY <3>2, <4>1 DEF Range
    <3>5. q \in Range(todo)
      BY <3>1, <3>2 DEF Range
    <3>6. Range(todo) \subseteq Range(Tail(todo)) \cup {q}
      BY <3>2, <3>3 DEF Range
    <3>7. Range(Tail(todo)) \subseteq Range(todo)
      BY <3>2, <3>4 DEF Range
    <3> QED BY <3>1, <3>5, <3>6, <3>7
  <2> HIDE DEF q
  <2>3. q \in [ipa : Nat, pa : Nat, size : Nat, byPage : BOOLEAN]
    BY <2>2, Zenon DEF Plain
  <2>4. windows' \in Seq(WindowSet) /\ Range(windows)' = {Window(r) : r \in asked}'
    BY <2>1, <2>3, Added
  <2>5. AskedOnce'
    BY <1>2, <1>3, <2>1, <2>2 DEF AskedOnce
  <2>6. Range(todo)' \cup asked' = Range(todo) \cup asked
    BY <2>1, <2>2
  <2>7. todo' \in Seq(Plain)'
    BY <1>2, <2>1, <2>2
  <2> QED BY <1>1, <1>2, <2>1, <2>4, <2>5, <2>6, <2>7 DEF MapInv
<1> QED BY <1>4, <1>5

\* The builder returns; the guest's one adds the bring-up console where nothing
\* is.
LEMMA FinishKeeps ==
  ASSUME MapInv, Finish
  PROVE  MapInv'
<1>1. state = "adding" /\ todo = <<>> /\ UNCHANGED <<builder, uart, gic, todo>>
  BY DEF Finish, Panic
<1>2. Plain' = Plain /\ HostRequests' = HostRequests
  BY <1>1 DEF Plain, HostRequests
<1>3. asked \subseteq Plain /\ builder \in {"host", "guest"}
  BY <1>1 DEF MapInv, AskedOnce
<1>4. CASE UNCHANGED <<windows, asked>>
  <2>1. state' = "panic" \/ (state' = "returned" /\ (builder = "host" \/ Covers(BringUpIpa)))
    <3>1. CASE builder = "host" \/ Covers(BringUpIpa)
      BY <3>1 DEF Finish
    <3>2. CASE ~(builder = "host" \/ Covers(BringUpIpa)) /\ Full(BringUp)
      BY <3>2 DEF Finish, Panic
    <3>3. CASE ~(builder = "host" \/ Covers(BringUpIpa)) /\ ~Full(BringUp)
      <4>1. BringUp \in asked
        BY <1>4, <3>3 DEF Finish
      <4>2. Window(BringUp) \in Range(windows)
        BY <4>1 DEF MapInv
      <4>3. In(BringUpIpa, Window(BringUp))
        BY BringUpIs, MmioAssumption DEF In
      <4> QED BY <3>3, <4>2, <4>3 DEF Covers
    <3> QED BY <3>1, <3>2, <3>3
  <2>2. Range(windows)' = {Window(q) : q \in asked}' /\ AskedOnce' /\ (Covers(BringUpIpa) => Covers(BringUpIpa)')
    BY <1>2, <1>3, <1>4 DEF MapInv, AskedOnce, Covers
  <2> QED BY <1>1, <1>2, <1>3, <1>4, <2>1, <2>2 DEF MapInv
<1>5. CASE ~UNCHANGED <<windows, asked>>
  <2>1. /\ builder = "guest" /\ ~Covers(BringUpIpa) /\ Add(BringUp)
        /\ asked' = asked \cup {BringUp} /\ state' = "returned"
    BY <1>3, <1>5 DEF Finish, Panic
  <2>2. windows' \in Seq(WindowSet) /\ Range(windows)' = {Window(r) : r \in asked}'
    BY <2>1, BringUpIs, Added
  <2>3. In(BringUpIpa, Window(BringUp)) /\ Window(BringUp) \in Range(windows')
    BY <2>1, <2>2, BringUpIs, MmioAssumption DEF In
  <2>4. Covers(BringUpIpa)'
    BY <2>3 DEF Covers
  <2>5. \A q \in asked : ~In(BringUpIpa, Window(q))
    BY <2>1 DEF Covers, MapInv
  <2>6. AskedOnce'
    BY <1>1, <1>2, <1>3, <2>1, <2>5 DEF AskedOnce
  <2> QED BY <1>1, <1>2, <2>1, <2>2, <2>4, <2>6 DEF MapInv
<1> QED BY <1>4, <1>5

\* A builder keeps the invariant; the map does not change afterwards.
LEMMA MapKept == MapInv /\ [HostNext]_hostVars => MapInv'
<1> SUFFICES ASSUME MapInv, [HostNext]_hostVars PROVE MapInv'
  OBVIOUS
<1>1. CASE UNCHANGED vars
  <2>1. Plain' = Plain /\ HostRequests' = HostRequests /\ (AskedOnce => AskedOnce') /\ (Covers(BringUpIpa) => Covers(BringUpIpa)')
    BY <1>1 DEF Plain, HostRequests, AskedOnce, Covers, vars
  <2> QED BY <1>1, <2>1 DEF MapInv, vars
<1>2. CASE Next
  BY <1>1, <1>2, HostCheckedKeeps, GuestCheckedKeeps, AddNextKeeps, FinishKeeps DEF Next, Done
<1>3. Next \/ UNCHANGED vars
  BY Zenon DEF HostNext, BuildMap, Enable, SwitchOn, MapRange, UnmapRange, Return, ClientCall, TlbFlushAll,
         Cache, Evict, Halted, hostVars
<1> QED BY <1>1, <1>2, <1>3

\* A window maps its region where it was asked to be.
LEMMA WindowMoves ==
  ASSUME MapInv, NEW q \in asked, NEW a \in Nat
  PROVE  /\ q \in [ipa : Nat, pa : Nat, size : Nat, byPage : BOOLEAN]
         /\ a - Window(q).base + Window(q).pa = a - q.ipa + q.pa
<1>1. CASE q = BringUp
  <2>1. q.ipa = BringUpIpa /\ q.pa = BspUart
    BY <1>1 DEF BringUp
  <2> QED BY <1>1, <2>1, BringUpIs
<1>2. CASE q \in Plain
  <2>1. q \in [ipa : Nat, pa : Nat, size : Nat, byPage : BOOLEAN] /\ q.pa = q.ipa
    BY <1>2, Zenon DEF Plain
  <2>2. Window(q) \in WindowSet /\ Window(q).pa = Window(q).base /\ q.ipa \in Nat
    BY <2>1, WindowIs
  <2>3. Window(q).base \in Nat
    BY <2>2 DEF WindowSet
  <2> QED BY <2>1, <2>2, <2>3
<1> QED BY <1>1, <1>2, Zenon DEF MapInv, AskedOnce

\* Windows that share an address move it to the same place.
LEMMA WindowsAgree ==
  ASSUME MapInv, NEW p \in asked, NEW q \in asked, NEW a \in Nat, In(a, Window(p)), In(a, Window(q))
  PROVE  a - Window(p).base + Window(p).pa = a - Window(q).base + Window(q).pa
<1>1. \A r \in Plain : a - Window(r).base + Window(r).pa = a /\ Window(r).base \in Nat /\ Window(r).size \in Nat
  <2> SUFFICES ASSUME NEW r \in Plain
               PROVE  a - Window(r).base + Window(r).pa = a /\ Window(r).base \in Nat /\ Window(r).size \in Nat
    OBVIOUS
  <2>1. Window(r) \in WindowSet /\ Window(r).pa = Window(r).base
    BY WindowIs, Zenon DEF Plain
  <2>2. Window(r).base \in Nat /\ Window(r).size \in Nat
    BY <2>1 DEF WindowSet
  <2> QED BY <2>1, <2>2
<1>2. CASE p \in Plain /\ q \in Plain
  BY <1>1, <1>2
<1>3. ASSUME NEW r \in asked \ {BringUp}, r \in Plain, In(a, Window(r)), In(a, Window(BringUp)),
             ~In(BringUpIpa, Window(r)), builder = "guest"
      PROVE  FALSE
  <2> DEFINE b == Window(r).base
             e == Window(r).base + Window(r).size
  <2>1. r \in [ipa : Nat, pa : Nat, size : Nat, byPage : BOOLEAN] /\ r.byPage
    BY <1>3, Zenon DEF Plain
  <2>2. Granule(r) = PageSize
    BY <2>1 DEF Granule
  <2>3. b \in Nat /\ e \in Nat /\ b % PageSize = 0
    BY <1>1, <1>3, <2>1, <2>2, WindowIs
  <2>4. /\ PageSize \in Nat /\ PageSize > 0 /\ BringUpIpa \in Nat /\ BringUpIpa % PageSize = 0
        /\ BringUpIpa <= a /\ a < BringUpIpa + PageSize
    BY <1>3, BringUpIs, MmioAssumption DEF In
  <2>5. b <= a /\ a < e
    BY <1>3 DEF In
  <2>6. BringUpIpa < b \/ BringUpIpa >= e
    BY <1>3, <2>3, <2>4 DEF In
  <2> HIDE DEF b, e
  <2>7. BringUpIpa < b
    BY <2>3, <2>4, <2>5, <2>6
  <2>8. BringUpIpa + PageSize <= b
    BY <2>3, <2>4, <2>7, MultiplesApart
  <2> QED BY <2>3, <2>4, <2>5, <2>8
<1>4. CASE asked \subseteq Plain
  BY <1>2, <1>4
<1>5. CASE ~(asked \subseteq Plain)
  <2>1. /\ asked \ {BringUp} \subseteq Plain /\ builder = "guest"
        /\ \A r \in asked \ {BringUp} : ~In(BringUpIpa, Window(r))
    BY <1>5 DEF MapInv, AskedOnce
  <2>2. CASE p = BringUp /\ q = BringUp
    BY <2>2
  <2>3. CASE p # BringUp /\ q # BringUp
    BY <1>2, <2>1, <2>3
  <2>4. CASE p = BringUp /\ q # BringUp
    BY <1>3, <2>1, <2>4
  <2>5. CASE p # BringUp /\ q = BringUp
    BY <1>3, <2>1, <2>5
  <2> QED BY <2>2, <2>3, <2>4, <2>5
<1> QED BY <1>4, <1>5

\* For any devices and any room in the map, a map that is returned holds every
\* region that was asked for at its place, gives no address two, and covers the
\* guest's bring-up console (MmioMap, GetHostMmio and GetGuestMmio).
THEOREM MapExactHolds == HostSpec => []MapExact
<1>1. MapInv => MapExact
  <2> SUFFICES ASSUME MapInv, state = "returned" PROVE MapExact
    BY DEF MapExact
  <2>1. ASSUME NEW q \in asked, NEW a \in q.ipa .. (q.ipa + q.size - 1)
        PROVE  a - q.ipa + q.pa \in Targets(a)
    <3>1. q \in [ipa : Nat, pa : Nat, size : Nat, byPage : BOOLEAN]
      BY WindowMoves
    <3>2. q.ipa \in Nat /\ q.size \in Nat /\ a \in Nat /\ q.ipa <= a /\ a < q.ipa + q.size
      BY <2>1, <3>1
    <3>3. /\ Window(q).base <= q.ipa /\ q.ipa + q.size <= Window(q).base + Window(q).size
          /\ Window(q) \in WindowSet
      BY <3>1, WindowIs
    <3>4. Window(q).base \in Nat /\ Window(q).size \in Nat
      BY <3>3 DEF WindowSet
    <3>5. In(a, Window(q))
      BY <3>2, <3>3, <3>4 DEF In
    <3>6. Window(q) \in Range(windows)
      BY DEF MapInv
    <3>7. a - Window(q).base + Window(q).pa = a - q.ipa + q.pa
      BY <3>2, WindowMoves
    <3> QED BY <3>5, <3>6, <3>7 DEF Targets
  <2>2. ASSUME NEW w \in Range(windows), NEW a \in w.base .. (w.base + w.size - 1)
        PROVE  Targets(a) = {a - w.base + w.pa}
    <3>1. PICK q \in asked : w = Window(q)
      BY DEF MapInv
    <3>2. Window(q) \in WindowSet
      BY WindowMoves, WindowIs
    <3>3. w.base \in Nat /\ w.size \in Nat
      BY <3>1, <3>2 DEF WindowSet
    <3>4. a \in Nat /\ In(a, w)
      BY <2>2, <3>3 DEF In
    <3>5. ASSUME NEW v \in Range(windows), In(a, v) PROVE a - v.base + v.pa = a - w.base + w.pa
      <4>1. PICK p \in asked : v = Window(p)
        BY DEF MapInv
      <4> QED BY <3>1, <3>4, <3>5, <4>1, WindowsAgree
    <3> QED BY <3>4, <3>5 DEF Targets
  <2>3. builder = "guest" => Targets(BringUpIpa) # {}
    BY DEF MapInv, Covers, Targets
  <2> QED BY <2>1, <2>2, <2>3 DEF MapExact
<1>2. HostInit => MapInv
  BY WindowInit DEF HostInit
<1> QED BY <1>1, <1>2, MapKept, PTL DEF HostSpec

-----------------------------------------------------------------------------
(* The self-map.                                                           *)

\* What Enable is to leave in the entry of a block.
Intended(b) ==
  IF b \in DeviceBlocks THEN [pa |-> b * BlockSize, attr |-> "device"]
  ELSE IF b * BlockSize < HV_VA_SIZE THEN [pa |-> b * BlockSize, attr |-> "normal"] ELSE Invalid

\* The blocks a call has still to map, and Enable's calls.
Covered(c) == c.block .. (c.block + c.left - 1)
EnableCalls ==
  {c \in [op : {"map"}, block : Nat, pa : Nat, left : Nat, attr : {"normal", "device"}] :
     c.pa = c.block * BlockSize}
Enabling == ~on /\ (calls # <<>> \/ tables # {})

\* While Enable runs, a block that no call has still to map is as intended; the
\* self-map is the first call, and as long as it runs every device block is
\* still to be mapped by another one.
EnableInv ==
  /\ pte = [b \in BlockSet |-> pte[b]]
  /\ tables = {} => pte = [b \in BlockSet |-> Invalid]
  /\ on => tables # {}
  /\ calls # <<>> \/ tables # {} => builder = "host" /\ state = "returned"
  /\ Enabling =>
       /\ calls \in Seq(EnableCalls)
       /\ \A i \in 1 .. Len(calls) :
            /\ calls[i].attr = "device" => Covered(calls[i]) \cap BlockSet \subseteq DeviceBlocks
            /\ calls[i].attr = "normal" =>
                 /\ i = 1 /\ \A b \in Covered(calls[i]) : b * BlockSize < HV_VA_SIZE
                 /\ \A b \in DeviceBlocks : \E j \in 2 .. Len(calls) : b \in Covered(calls[j])
       /\ \A b \in BlockSet :
            pte[b] = Intended(b) \/ \E i \in 1 .. Len(calls) : b \in Covered(calls[i])

\* The blocks below the end of a range are those that begin before it.
LEMMA CountIs ==
  ASSUME NEW t \in Nat
  PROVE  /\ Count(t) \in Nat /\ Count(t) * BlockSize = Up(t, BlockSize)
         /\ \A b \in Nat : b < Count(t) <=> b * BlockSize < t
<1> DEFINE u == Up(t, BlockSize)
<1>1. BlockSize \in Nat /\ BlockSize > 0
  BY MmioAssumption
<1>2. u \in Nat /\ u % BlockSize = 0 /\ t <= u /\ u < t + BlockSize
  BY <1>1, UpIs
<1> HIDE DEF u
<1>3. PICK m \in Nat : u = m * BlockSize
  BY <1>1, <1>2, Multiple
<1>4. Count(t) = m
  BY <1>1, <1>3, Times DEF Count, u
<1>5. ASSUME NEW b \in Nat PROVE b < m <=> b * BlockSize < t
  <2>1. CASE b < m
    <3>1. (b + 1) * BlockSize <= m * BlockSize
      BY <1>1, <2>1, TimesOrder
    <3>2. (b + 1) * BlockSize = b * BlockSize + BlockSize /\ b * BlockSize \in Nat
      BY <1>1
    <3>3. b * BlockSize + BlockSize <= u
      BY <1>3, <3>1, <3>2
    <3> DEFINE x == b * BlockSize
    <3>4. x \in Nat /\ x + BlockSize <= u
      BY <3>2, <3>3
    <3> HIDE DEF x
    <3>5. x < t
      BY <1>1, <1>2, <3>4
    <3> QED BY <2>1, <3>5 DEF x
  <2>2. CASE ~(b < m)
    <3>1. m * BlockSize <= b * BlockSize /\ b * BlockSize \in Nat
      BY <1>1, <2>2, TimesOrder
    <3> DEFINE x == b * BlockSize
    <3>2. u <= x /\ x \in Nat
      BY <1>3, <3>1
    <3> HIDE DEF x
    <3>3. ~(x < t)
      BY <1>2, <3>2
    <3> QED BY <2>2, <3>3 DEF x
  <2> QED BY <2>1, <2>2
<1> QED BY <1>3, <1>4, <1>5 DEF u

\* The call that maps a window writes the blocks its region lies in.
LEMMA WindowCallIs ==
  ASSUME NEW q \in [ipa : Nat, pa : Nat, size : Nat, byPage : {FALSE}], q.pa = q.ipa
  PROVE  /\ WindowCall(Window(q)) \in EnableCalls /\ WindowCall(Window(q)).attr = "device"
         /\ \A b \in Nat : b \in Covered(WindowCall(Window(q))) <=>
              b * BlockSize < q.ipa + q.size /\ q.ipa < (b + 1) * BlockSize
<1> DEFINE w == Window(q)
           c == WindowCall(w)
           t == q.ipa + q.size
<1>1. /\ BlockSize \in Nat /\ BlockSize > 0 /\ Granule(q) = BlockSize
      /\ q.ipa \in Nat /\ q.size \in Nat
  <2>1. q.byPage = FALSE /\ q.ipa \in Nat /\ q.size \in Nat
    BY Zenon
  <2>2. BlockSize \in Nat /\ BlockSize > 0
    BY MmioAssumption
  <2> QED BY <2>1, <2>2 DEF Granule
<1>2. /\ w \in WindowSet /\ w.base = Down(q.ipa, BlockSize) /\ w.base + w.size = Up(t, BlockSize)
      /\ w.pa = w.base /\ w.base % BlockSize = 0 /\ w.base <= q.ipa
  BY <1>1, WindowIs, Zenon
<1>3. w.base \in Nat /\ w.size \in Nat
  BY <1>2 DEF WindowSet
<1>4. q.ipa < w.base + BlockSize
  BY <1>1, <1>2, DownIs
<1>5. c = [op |-> "map", block |-> w.base \div BlockSize, pa |-> w.pa, left |-> Count(w.size), attr |-> "device"]
  BY DEF WindowCall, MapCall, BlockOf
<1> HIDE DEF w
<1>6. PICK k \in Nat : w.base = k * BlockSize
  BY <1>1, <1>2, <1>3, Multiple, Zenon
<1>7. w.base \div BlockSize = k
  BY <1>1, <1>6, Times
<1>8. t \in Nat /\ Count(t) \in Nat /\ Count(t) * BlockSize = w.base + w.size
  BY <1>1, <1>2, CountIs
<1> DEFINE m == Count(t)
           n == Count(w.size)
<1>9. k <= m
  <2>1. ASSUME m < k PROVE FALSE
    <3>1. (m + 1) * BlockSize <= k * BlockSize
      BY <1>1, <1>8, <2>1, TimesOrder
    <3>2. (m + 1) * BlockSize = m * BlockSize + BlockSize
      BY <1>1, <1>8
    <3>3. w.base + w.size + BlockSize <= w.base
      BY <1>6, <1>8, <3>1, <3>2
    <3> QED BY <1>1, <1>3, <3>3
  <2> QED BY <1>8, <2>1
<1>10. w.size = (m - k) * BlockSize /\ m - k \in Nat
  <2> HIDE DEF m
  <2>1. m - k \in Nat /\ m = k + (m - k)
    BY <1>8, <1>9 DEF m
  <2>2. PICK d \in Nat : d = m - k
    BY <2>1
  <2>3. (k + d) * BlockSize = k * BlockSize + d * BlockSize /\ d * BlockSize \in Nat
    BY <1>1
  <2>4. w.base + d * BlockSize = w.base + w.size
    BY <1>6, <1>8, <2>1, <2>2, <2>3 DEF m
  <2>5. w.size = d * BlockSize
    BY <1>3, <2>3, <2>4
  <2> QED BY <2>1, <2>2, <2>5
<1>11. n = m - k
  <2>1. w.size % BlockSize = 0
    BY <1>1, <1>10, Times, ZenonT(30)
  <2>2. Up(w.size, BlockSize) = w.size
    BY <1>1, <1>3, <2>1, UpMultiple
  <2>3. w.size \div BlockSize = m - k
    <3> HIDE DEF m
    <3> QED BY <1>1, <1>10, Times
  <2> QED BY <2>2, <2>3 DEF Count
<1> HIDE DEF n, m
<1>12. /\ c.block = k /\ c.left = n /\ c.pa = w.base /\ c.attr = "device"
       /\ c \in EnableCalls
  BY <1>2, <1>3, <1>5, <1>6, <1>7, <1>10, <1>11 DEF EnableCalls, n
<1>13. ASSUME NEW b \in Nat PROVE k <= b <=> q.ipa < (b + 1) * BlockSize
  <2> DEFINE x == (b + 1) * BlockSize
  <2>1. CASE k <= b
    <3>1. (k + 1) * BlockSize <= (b + 1) * BlockSize /\ (b + 1) * BlockSize \in Nat
      BY <1>1, <2>1, TimesOrder
    <3>2. (k + 1) * BlockSize = k * BlockSize + BlockSize
      BY <1>1
    <3>3. w.base + BlockSize <= x /\ x \in Nat
      BY <1>6, <3>1, <3>2
    <3> HIDE DEF x
    <3>4. q.ipa < x
      BY <1>1, <1>3, <1>4, <3>3
    <3> QED BY <2>1, <3>4 DEF x
  <2>2. CASE ~(k <= b)
    <3>1. (b + 1) * BlockSize <= k * BlockSize /\ (b + 1) * BlockSize \in Nat
      BY <1>1, <2>2, TimesOrder
    <3>2. x <= w.base /\ x \in Nat
      BY <1>6, <3>1
    <3> HIDE DEF x
    <3>3. ~(q.ipa < x)
      BY <1>1, <1>2, <1>3, <3>2
    <3> QED BY <2>2, <3>3 DEF x
  <2> QED BY <2>1, <2>2
<1>14. ASSUME NEW b \in Nat PROVE b < m <=> b * BlockSize < t
  BY <1>8, CountIs DEF m
<1>15. ASSUME NEW b \in Nat
       PROVE  b \in Covered(c) <=> b * BlockSize < t /\ q.ipa < (b + 1) * BlockSize
  <2>1. Covered(c) = k .. (k + n - 1)
    BY <1>12 DEF Covered
  <2>2. b \in Covered(c) <=> k <= b /\ b < m
    BY <1>8, <1>9, <1>11, <2>1 DEF m
  <2> QED BY <1>13, <1>14, <2>2
<1> HIDE DEF c
<1> QED BY <1>12, <1>15 DEF c, w

\* The self-map's call writes the blocks below the end of the self-map.
LEMMA SelfMapCallIs ==
  /\ SelfMapCall \in EnableCalls /\ SelfMapCall.attr = "normal"
  /\ \A b \in Nat : b \in Covered(SelfMapCall) <=> b * BlockSize < HV_VA_SIZE
<1>1. HV_VA_SIZE \in Nat /\ BlockSize \in Nat
  BY HostMmuAssumption, MmioAssumption
<1>2. Count(HV_VA_SIZE) \in Nat /\ \A b \in Nat : b < Count(HV_VA_SIZE) <=> b * BlockSize < HV_VA_SIZE
  BY <1>1, CountIs
<1>3. SelfMapCall = [op |-> "map", block |-> 0, pa |-> 0, left |-> Count(HV_VA_SIZE), attr |-> "normal"]
  BY DEF SelfMapCall, MapCall
<1>4. 0 * BlockSize = 0
  BY <1>1
<1>5. SelfMapCall \in EnableCalls /\ SelfMapCall.attr = "normal"
  BY <1>2, <1>3, <1>4 DEF EnableCalls
<1>6. Covered(SelfMapCall) = 0 .. (0 + Count(HV_VA_SIZE) - 1)
  BY <1>3 DEF Covered
<1>7. \A b \in Nat : b \in Covered(SelfMapCall) <=> b < Count(HV_VA_SIZE)
  BY <1>2, <1>6
<1> QED BY <1>2, <1>5, <1>7

\* At reset.
LEMMA EnableInit == HostInit => EnableInv
  BY DEF HostInit, EnableInv, Enabling

\* Enable: everything is still to be mapped.
LEMMA EnableStarts ==
  ASSUME MapInv, EnableInv, Enable
  PROVE  EnableInv'
<1> DEFINE n == Len(windows)
           wcalls == [i \in 1 .. n |-> WindowCall(windows[i])]
<1>1. /\ builder = "host" /\ state = "returned" /\ ~on /\ tables = {}
      /\ calls' = <<SelfMapCall>> \o wcalls /\ UNCHANGED <<vars, tables, pte, on>>
      /\ pte = [b \in BlockSet |-> Invalid]
  BY DEF Enable, EnableInv
<1>2. UNCHANGED <<builder, state, asked>> /\ DeviceBlocks' = DeviceBlocks
  BY <1>1 DEF vars, DeviceBlocks
<1>3. asked \subseteq Plain
  BY <1>1 DEF MapInv, AskedOnce
<1>4. \A q \in asked : q \in [ipa : Nat, pa : Nat, size : Nat, byPage : {FALSE}] /\ q.pa = q.ipa
  <2>1. (builder = "guest") = FALSE
    BY <1>1
  <2> QED BY <1>3, <2>1, Zenon DEF Plain
<1>5. windows \in Seq(WindowSet) /\ n \in Nat /\ Range(windows) = {windows[i] : i \in 1 .. n}
  BY SeqFun, Zenon DEF MapInv, Range
<1>6. ASSUME NEW i \in 1 .. n
      PROVE  \E q \in asked : windows[i] = Window(q)
  BY <1>5, ZenonT(30) DEF MapInv
<1>7. ASSUME NEW q \in asked
      PROVE  \E i \in 1 .. n : windows[i] = Window(q)
  BY <1>5, Zenon DEF MapInv
<1>8. ASSUME NEW i \in 1 .. n
      PROVE  /\ wcalls[i] \in EnableCalls /\ wcalls[i].attr = "device"
             /\ Covered(wcalls[i]) \cap BlockSet \subseteq DeviceBlocks
  <2>1. PICK q \in asked : windows[i] = Window(q)
    BY <1>6
  <2>2. wcalls[i] = WindowCall(Window(q))
    BY <2>1
  <2> HIDE DEF wcalls
  <2>3. /\ wcalls[i] \in EnableCalls /\ wcalls[i].attr = "device"
        /\ \A b \in Nat : b \in Covered(wcalls[i]) => b * BlockSize < q.ipa + q.size /\ q.ipa < (b + 1) * BlockSize
    BY <1>4, <2>2, WindowCallIs, Zenon
  <2>4. BlockSet \subseteq Nat
    BY DEF BlockSet
  <2> QED BY <2>3, <2>4, Zenon DEF DeviceBlocks
<1>9. ASSUME NEW b \in DeviceBlocks
      PROVE  \E i \in 1 .. n : b \in Covered(wcalls[i])
  <2>1. PICK q \in asked : b * BlockSize < q.ipa + q.size /\ q.ipa < (b + 1) * BlockSize
    BY <1>9 DEF DeviceBlocks
  <2>2. b \in Nat
    BY <1>9 DEF DeviceBlocks, BlockSet
  <2>3. b \in Covered(WindowCall(Window(q)))
    BY <1>4, <2>1, <2>2, WindowCallIs, Zenon
  <2>4. PICK i \in 1 .. n : windows[i] = Window(q)
    BY <1>7
  <2>5. wcalls[i] = WindowCall(Window(q))
    BY <2>4
  <2> HIDE DEF wcalls
  <2> QED BY <2>3, <2>5
<1>10. wcalls \in Seq(EnableCalls) /\ Len(wcalls) = n
  <2>1. wcalls \in [1 .. n -> EnableCalls]
    BY <1>8
  <2> HIDE DEF wcalls
  <2> QED BY <1>5, <2>1, FunSeq
<1> HIDE DEF wcalls
<1>11. /\ calls' \in Seq(EnableCalls) /\ Len(calls') = n + 1 /\ calls'[1] = SelfMapCall
       /\ \A i \in 1 .. n : calls'[i + 1] = wcalls[i]
  BY <1>1, <1>10, SelfMapCallIs, ConsSeq
<1>12. ASSUME NEW i \in 1 .. Len(calls'), i # 1
       PROVE  /\ calls'[i].attr = "device" /\ Covered(calls'[i]) \cap BlockSet \subseteq DeviceBlocks
  <2>1. i - 1 \in 1 .. n /\ (i - 1) + 1 = i
    BY <1>5, <1>11, <1>12
  <2>2. calls'[i] = wcalls[i - 1]
    BY <1>11, <2>1
  <2> QED BY <1>8, <2>1, <2>2
<1>13. ASSUME NEW b \in DeviceBlocks
       PROVE  \E j \in 2 .. Len(calls') : b \in Covered(calls'[j])
  <2>1. PICK i \in 1 .. n : b \in Covered(wcalls[i])
    BY <1>9
  <2>2. i + 1 \in 2 .. Len(calls') /\ calls'[i + 1] = wcalls[i]
    BY <1>5, <1>11
  <2> QED BY <2>1, <2>2
<1>14. ASSUME NEW b \in BlockSet
       PROVE  pte'[b] = Intended(b) \/ \E i \in 1 .. Len(calls') : b \in Covered(calls'[i])
  <2>1. b \in Nat
    BY DEF BlockSet
  <2>2. CASE b \in DeviceBlocks
    <3>1. PICK j \in 2 .. Len(calls') : b \in Covered(calls'[j])
      BY <1>13, <2>2
    <3>2. j \in 1 .. Len(calls')
      OBVIOUS
    <3> QED BY <3>1, <3>2
  <2>3. CASE b \notin DeviceBlocks /\ b * BlockSize < HV_VA_SIZE
    <3>1. b \in Covered(calls'[1])
      BY <1>11, <2>1, <2>3, SelfMapCallIs
    <3>2. 1 \in 1 .. Len(calls')
      BY <1>5, <1>11
    <3> QED BY <3>1, <3>2
  <2>4. CASE b \notin DeviceBlocks /\ ~(b * BlockSize < HV_VA_SIZE)
    BY <1>1, <2>4 DEF Intended
  <2> QED BY <2>2, <2>3, <2>4
<1>15. ASSUME NEW b \in Covered(calls'[1]) PROVE b * BlockSize < HV_VA_SIZE
  <2>1. b \in Nat
    <3>1. SelfMapCall.block \in Nat /\ SelfMapCall.left \in Nat
      BY SelfMapCallIs DEF EnableCalls
    <3> QED BY <1>11, <1>15, <3>1 DEF Covered
  <2> QED BY <1>11, <1>15, <2>1, SelfMapCallIs
<1>16. \A b : Intended(b)' = Intended(b)
  BY <1>2 DEF Intended
<1>17. calls'[1].attr = "normal"
  BY <1>11, SelfMapCallIs
<1>18. \A i \in 1 .. Len(calls') :
         /\ calls'[i].attr = "device" => Covered(calls'[i]) \cap BlockSet \subseteq DeviceBlocks'
         /\ calls'[i].attr = "normal" =>
              /\ i = 1 /\ \A b \in Covered(calls'[i]) : b * BlockSize < HV_VA_SIZE
              /\ \A b \in DeviceBlocks' : \E j \in 2 .. Len(calls') : b \in Covered(calls'[j])
  BY <1>2, <1>12, <1>13, <1>15, <1>17
<1>19. \A b \in BlockSet :
         pte'[b] = Intended(b)' \/ \E i \in 1 .. Len(calls') : b \in Covered(calls'[i])
  BY <1>14, <1>16
<1> QED BY <1>1, <1>2, <1>11, <1>18, <1>19, Zenon DEF EnableInv, Enabling, Covered

\* What Advance makes of a call.
LEMMA AdvanceIs ==
  ASSUME NEW r, r = [op |-> r.op, block |-> r.block, pa |-> r.pa, left |-> r.left, attr |-> r.attr],
         NEW n, n = [r EXCEPT !.block = @ + 1, !.pa = @ + BlockSize, !.left = @ - 1]
  PROVE  n = [op |-> r.op, block |-> r.block + 1, pa |-> r.pa + BlockSize, left |-> r.left - 1,
              attr |-> r.attr]
<1>1. n = [op |-> n.op, block |-> n.block, pa |-> n.pa, left |-> n.left, attr |-> n.attr]
  BY Zenon
<1>2. /\ n.op = r.op /\ n.block = r.block + 1 /\ n.pa = r.pa + BlockSize /\ n.left = r.left - 1
      /\ n.attr = r.attr
  OBVIOUS
<1> QED BY <1>1, <1>2

\* A block of MapRange while Enable runs: the block gets the entry of the call
\* that is at it, which is the intended one unless a later call maps it again.
LEMMA EnableMaps ==
  ASSUME EnableInv, MapRange, ~on
  PROVE  EnableInv'
<1> DEFINE c == [Call EXCEPT !.block = @ + 1, !.pa = @ + BlockSize, !.left = @ - 1]
           k == Call.block
<1>1. /\ calls # <<>> /\ Call.left # 0 /\ UNCHANGED <<vars, on>> /\ Enabling
  BY DEF MapRange, Enabling
<1>2. UNCHANGED <<builder, state, asked>> /\ DeviceBlocks' = DeviceBlocks
  BY <1>1 DEF vars, DeviceBlocks
<1>3. \A b : Intended(b)' = Intended(b)
  BY <1>2 DEF Intended
<1>4. CASE UNCHANGED <<tables, pte, calls>>
  BY <1>1, <1>2, <1>3, <1>4, ZenonT(30) DEF EnableInv, Enabling, Covered
<1>5. CASE /\ tables' # {} /\ pte' = [pte EXCEPT ![k] = Entry(Call.pa, Call.attr)] /\ Advance
  <2>1. /\ calls \in Seq(EnableCalls) /\ pte = [b \in BlockSet |-> pte[b]]
        /\ builder = "host" /\ state = "returned"
    BY <1>1 DEF EnableInv
  <2>2. /\ Tail(calls) \in Seq(EnableCalls) /\ Len(Tail(calls)) = Len(calls) - 1 /\ Len(calls) \in Nat
        /\ \A i \in 1 .. Len(calls) - 1 : Tail(calls)[i] = calls[i + 1]
        /\ Call = calls[1] /\ Call \in EnableCalls /\ Len(calls) > 0
    BY <1>1, <2>1, TailSeq DEF Call
  <2>2a. Len(calls) \in Nat /\ Len(calls) > 0
    BY <2>2, Zenon
  <2>3. /\ k \in Nat /\ Call.left \in Nat /\ Call.pa \in Nat /\ Call.attr \in {"normal", "device"}
        /\ Call.pa = k * BlockSize
        /\ Call = [op |-> Call.op, block |-> k, pa |-> Call.pa, left |-> Call.left, attr |-> Call.attr]
        /\ Call.op = "map"
    BY <2>2, Zenon DEF EnableCalls
  <2>4. BlockSize \in Nat /\ BlockSize > 0 /\ PageSize \in Nat /\ PageSize > 0 /\ BlockSize % PageSize = 0
    BY MmioAssumption
  <2>5. c \in EnableCalls /\ c.block = k + 1 /\ c.left = Call.left - 1 /\ c.attr = Call.attr
    <3>1. c = [op |-> "map", block |-> k + 1, pa |-> Call.pa + BlockSize, left |-> Call.left - 1,
               attr |-> Call.attr]
      BY <2>3, AdvanceIs, ZenonT(30)
    <3>2. (k + 1) * BlockSize = k * BlockSize + BlockSize
      BY <2>3, <2>4
    <3>3. Call.pa + BlockSize = (k + 1) * BlockSize /\ Call.pa + BlockSize \in Nat
      BY <2>3, <2>4, <3>2
    <3>4. k + 1 \in Nat /\ Call.left - 1 \in Nat
      BY <1>1, <2>3
    <3> HIDE DEF c
    <3> QED BY <2>3, <3>1, <3>3, <3>4 DEF EnableCalls
  <2>6. calls' = <<c>> \o Tail(calls)
    BY <1>5 DEF Advance
  <2> HIDE DEF c
  <2>7. /\ calls' \in Seq(EnableCalls) /\ Len(calls') = Len(calls) /\ calls'[1] = c
        /\ \A i \in 1 .. Len(calls) - 1 : calls'[i + 1] = Tail(calls)[i]
    <3> DEFINE rest == Tail(calls)
    <3>1. rest \in Seq(EnableCalls) /\ Len(rest) = Len(calls) - 1 /\ Len(calls) \in Nat
      BY <2>2
    <3> HIDE DEF rest
    <3>2. /\ <<c>> \o rest \in Seq(EnableCalls) /\ Len(<<c>> \o rest) = Len(rest) + 1
          /\ (<<c>> \o rest)[1] = c /\ \A i \in 1 .. Len(rest) : (<<c>> \o rest)[i + 1] = rest[i]
      BY <2>5, <3>1, ConsSeq
    <3>3. calls' = <<c>> \o rest
      BY <2>6 DEF rest
    <3>4. Len(rest) + 1 = Len(calls)
      BY <3>1
    <3>5. /\ calls' \in Seq(EnableCalls) /\ Len(calls') = Len(calls) /\ calls'[1] = c
          /\ \A i \in 1 .. Len(calls) - 1 : calls'[i + 1] = rest[i]
      BY <3>1, <3>2, <3>3, <3>4, Zenon
    <3> QED BY <3>5 DEF rest
  <2>8. ASSUME NEW i \in 2 .. Len(calls) PROVE calls'[i] = calls[i] /\ i \in 1 .. Len(calls)
    <3>1. i - 1 \in 1 .. Len(calls) - 1 /\ (i - 1) + 1 = i /\ i \in 1 .. Len(calls)
      BY <2>2a
    <3>2. calls'[(i - 1) + 1] = Tail(calls)[i - 1]
      BY <2>7, <3>1, Zenon
    <3>3. Tail(calls)[i - 1] = calls[(i - 1) + 1]
      BY <2>2, <3>1
    <3> QED BY <3>1, <3>2, <3>3, Zenon
  <2>9. Covered(Call) = Covered(c) \cup {k} /\ Covered(c) \subseteq Covered(Call)
    BY <1>1, <2>3, <2>5 DEF Covered
  <2>10. Entry(Call.pa, Call.attr) = [pa |-> k * BlockSize, attr |-> Call.attr]
    <3> DEFINE x == k * BlockSize
    <3>1. x \in Nat /\ x % BlockSize = 0
      BY <2>3, <2>4, Times
    <3> HIDE DEF x
    <3>2. x % PageSize = 0
      BY <2>4, <3>1, MultipleOfMultiple, Zenon
    <3>3. Down(x, PageSize) = x
      BY <2>4, <3>1, <3>2, DownIs
    <3> QED BY <2>3, <3>3 DEF Entry, x
  <2>11. /\ pte' = [b \in BlockSet |-> pte'[b]]
         /\ \A b \in BlockSet : pte'[b] = IF b = k THEN Entry(Call.pa, Call.attr) ELSE pte[b]
    BY <1>5, <2>1
  <2>12. 1 \in 1 .. Len(calls)
    BY <2>2a
  <2>13. ASSUME NEW i \in 1 .. Len(calls')
         PROVE  /\ calls'[i].attr = "device" => Covered(calls'[i]) \cap BlockSet \subseteq DeviceBlocks
                /\ calls'[i].attr = "normal" =>
                     /\ i = 1 /\ \A b \in Covered(calls'[i]) : b * BlockSize < HV_VA_SIZE
                     /\ \A b \in DeviceBlocks : \E j \in 2 .. Len(calls') : b \in Covered(calls'[j])
    <3>1. /\ calls[i].attr = "device" => Covered(calls[i]) \cap BlockSet \subseteq DeviceBlocks
          /\ calls[i].attr = "normal" =>
               /\ i = 1 /\ \A b \in Covered(calls[i]) : b * BlockSize < HV_VA_SIZE
               /\ \A b \in DeviceBlocks : \E j \in 2 .. Len(calls) : b \in Covered(calls[j])
      BY <1>1, <2>7 DEF EnableInv
    <3>2. calls'[i].attr = calls[i].attr /\ Covered(calls'[i]) \subseteq Covered(calls[i])
      <4>1. CASE i = 1
        BY <2>2, <2>5, <2>7, <2>9, <4>1
      <4>2. CASE i # 1
        <5>1. i \in 2 .. Len(calls)
          <6>1. Len(calls') = Len(calls)
            BY <2>7, Zenon
          <6> QED BY <2>2a, <4>2, <6>1
        <5> QED BY <2>8, <5>1
      <4> QED BY <4>1, <4>2
    <3>3. \A j \in 2 .. Len(calls) : Covered(calls'[j]) = Covered(calls[j])
      BY <2>8
    <3> QED BY <2>7, <3>1, <3>2, <3>3
  <2>14. ASSUME NEW b \in BlockSet
         PROVE  pte'[b] = Intended(b) \/ \E i \in 1 .. Len(calls') : b \in Covered(calls'[i])
    <3>1. CASE b # k
      <4>1. pte'[b] = pte[b]
        BY <2>11, <3>1
      <4>2. CASE pte[b] = Intended(b)
        BY <4>1, <4>2
      <4>3. ASSUME NEW i \in 1 .. Len(calls), b \in Covered(calls[i])
            PROVE  \E j \in 1 .. Len(calls') : b \in Covered(calls'[j])
        <5>1. CASE i = 1
          BY <2>2, <2>7, <2>9, <3>1, <4>3, <5>1
        <5>2. CASE i # 1
          <6>1. i \in 2 .. Len(calls)
            BY <2>2a, <5>2
          <6> QED BY <2>7, <2>8, <4>3, <6>1
        <5> QED BY <5>1, <5>2
      <4> QED BY <1>1, <4>2, <4>3 DEF EnableInv
    <3>2. CASE b = k /\ Call.attr = "device"
      <4>1. b \in Covered(calls[1])
        BY <2>2, <2>9, <3>2
      <4>2. b \in DeviceBlocks
        BY <1>1, <2>2, <2>12, <3>2, <4>1 DEF EnableInv
      <4> QED BY <2>10, <2>11, <3>2, <4>2 DEF Intended
    <3>3. CASE b = k /\ Call.attr = "normal"
      <4>1. b \in Covered(calls[1])
        BY <2>2, <2>9, <3>3
      <4>2. /\ b * BlockSize < HV_VA_SIZE
            /\ b \in DeviceBlocks => \E j \in 2 .. Len(calls) : b \in Covered(calls[j])
        BY <1>1, <2>2, <2>12, <3>3, <4>1 DEF EnableInv
      <4>3. CASE b \in DeviceBlocks
        BY <2>7, <2>8, <4>2, <4>3
      <4>4. CASE b \notin DeviceBlocks
        BY <2>10, <2>11, <3>3, <4>2, <4>4 DEF Intended
      <4> QED BY <4>3, <4>4
    <3> QED BY <2>3, <3>1, <3>2, <3>3
  <2>15. \A b \in BlockSet :
           pte'[b] = Intended(b)' \/ \E i \in 1 .. Len(calls') : b \in Covered(calls'[i])
    BY <1>3, <2>14
  <2>16. \A i \in 1 .. Len(calls') :
           /\ calls'[i].attr = "device" => Covered(calls'[i]) \cap BlockSet \subseteq DeviceBlocks'
           /\ calls'[i].attr = "normal" =>
                /\ i = 1 /\ \A b \in Covered(calls'[i]) : b * BlockSize < HV_VA_SIZE
                /\ \A b \in DeviceBlocks' : \E j \in 2 .. Len(calls') : b \in Covered(calls'[j])
    BY <1>2, <2>13
  <2> QED BY <1>1, <1>2, <1>5, <2>1, <2>7, <2>11, <2>15, <2>16, Zenon DEF EnableInv, Enabling, Covered
<1> QED BY <1>4, <1>5 DEF MapRange

\* A call of Enable that is through covers nothing more.
LEMMA EnableReturns ==
  ASSUME EnableInv, Return, ~on
  PROVE  EnableInv'
<1>1. /\ calls # <<>> /\ Call.left = 0 /\ calls' = Tail(calls) /\ Enabling
      /\ UNCHANGED <<vars, tables, pte, on>>
  BY DEF Return, Enabling
<1>2. UNCHANGED <<builder, state, asked>> /\ DeviceBlocks' = DeviceBlocks
  BY <1>1 DEF vars, DeviceBlocks
<1>3. \A b : Intended(b)' = Intended(b)
  BY <1>2 DEF Intended
<1>4. /\ calls' \in Seq(EnableCalls) /\ Len(calls') = Len(calls) - 1 /\ Len(calls) \in Nat /\ Len(calls) > 0
      /\ \A i \in 1 .. Len(calls) - 1 : calls'[i] = calls[i + 1]
      /\ Call = calls[1] /\ Call \in EnableCalls
  BY <1>1, TailSeq DEF EnableInv, Call
<1>5. Covered(calls[1]) = {}
  <2>1. Call.block \in Nat /\ Covered(Call) = Call.block .. (Call.block + 0 - 1)
    BY <1>1, <1>4 DEF EnableCalls, Covered
  <2> QED BY <1>4, <2>1
<1>6. ASSUME NEW i \in 1 .. Len(calls')
      PROVE  calls'[i].attr = "device" /\ Covered(calls'[i]) \cap BlockSet \subseteq DeviceBlocks
  <2>1. i + 1 \in 1 .. Len(calls) /\ i + 1 # 1 /\ calls'[i] = calls[i + 1]
    BY <1>4
  <2>2. calls[i + 1] \in EnableCalls
    BY <1>1, <2>1 DEF EnableInv
  <2>3. calls[i + 1].attr \in {"normal", "device"}
    BY <2>2 DEF EnableCalls
  <2> QED BY <1>1, <2>1, <2>3 DEF EnableInv
<1>7. ASSUME NEW b \in BlockSet
      PROVE  pte'[b] = Intended(b)' \/ \E i \in 1 .. Len(calls') : b \in Covered(calls'[i])
  <2>1. CASE pte[b] = Intended(b)
    BY <1>1, <1>3, <2>1
  <2>2. ASSUME NEW i \in 1 .. Len(calls), b \in Covered(calls[i])
        PROVE  \E j \in 1 .. Len(calls') : b \in Covered(calls'[j])
    <3>1. i # 1
      BY <1>5, <2>2
    <3>2. i - 1 \in 1 .. Len(calls') /\ (i - 1) + 1 = i
      BY <1>4, <3>1
    <3>3. calls'[i - 1] = calls[i]
      BY <1>4, <3>2
    <3> QED BY <2>2, <3>2, <3>3
  <2> QED BY <1>1, <2>1, <2>2 DEF EnableInv
<1>8. \A i \in 1 .. Len(calls') :
        /\ calls'[i].attr = "device" => Covered(calls'[i]) \cap BlockSet \subseteq DeviceBlocks'
        /\ calls'[i].attr # "normal"
  BY <1>2, <1>6
<1> QED BY <1>1, <1>2, <1>4, <1>7, <1>8, ZenonT(30) DEF EnableInv, Enabling, Covered

\* A step that changes neither the map nor the tables.
LEMMA EnableStays ==
  ASSUME EnableInv, UNCHANGED <<builder, state, asked, tables, pte, on, calls>>
  PROVE  EnableInv'
<1>1. DeviceBlocks' = DeviceBlocks
  BY DEF DeviceBlocks
<1>2. \A b : Intended(b)' = Intended(b)
  BY <1>1 DEF Intended
<1> QED BY <1>1, <1>2, Zenon DEF EnableInv, Enabling, Covered

\* Once translation is on, nothing but the shape is kept.
LEMMA EnabledStays ==
  ASSUME EnableInv, on', tables' # {}, pte' = [b \in BlockSet |-> pte'[b]],
         UNCHANGED <<builder, state>>, tables # {}
  PROVE  EnableInv'
  BY DEF EnableInv, Enabling

\* Every step keeps the invariant of Enable.
LEMMA EnableKept == MapInv /\ EnableInv /\ [HostNext]_hostVars => EnableInv'
<1> SUFFICES ASSUME MapInv, EnableInv, [HostNext]_hostVars PROVE EnableInv'
  OBVIOUS
<1>1. pte = [b \in BlockSet |-> pte[b]] /\ (on => tables # {})
  BY DEF EnableInv
<1>2. CASE UNCHANGED hostVars
  BY <1>2, EnableStays DEF hostVars, vars, mmuVars
<1>3. CASE BuildMap
  <2>1. UNCHANGED mmuVars
    BY <1>3 DEF BuildMap
  <2>2. CASE state = "returned"
    <3>1. UNCHANGED vars
      BY <1>3, <2>2 DEF BuildMap, Next, HostChecked, GuestChecked, AddNext, Finish, Done
    <3> QED BY <2>1, <3>1, EnableStays DEF vars, mmuVars
  <2>3. CASE state # "returned"
    <3>1. calls = <<>> /\ tables = {}
      BY <2>3 DEF EnableInv
    <3> QED BY <2>1, <3>1 DEF EnableInv, Enabling, mmuVars
  <2> QED BY <2>2, <2>3
<1>4. CASE Enable
  BY <1>4, EnableStarts
<1>5. CASE SwitchOn
  BY <1>1, <1>5, EnabledStays DEF SwitchOn, vars
<1>6. CASE MapRange
  <2>1. CASE on
    <3>1. pte' = [b \in BlockSet |-> pte'[b]] /\ tables \subseteq tables'
      <4>1. CASE UNCHANGED <<tables, pte>>
        BY <1>1, <4>1
      <4>2. CASE ~UNCHANGED <<tables, pte>>
        <5>1. /\ pte' = [pte EXCEPT ![Call.block] = Entry(Call.pa, Call.attr)]
              /\ tables' = tables \cup {Call.block \div TableSpan}
          BY <1>6, <4>2 DEF MapRange
        <5> QED BY <1>1, <5>1
      <4> QED BY <4>1, <4>2
    <3>2. on' /\ UNCHANGED <<builder, state>>
      BY <1>6, <2>1 DEF MapRange, vars
    <3> QED BY <1>1, <2>1, <3>1, <3>2, EnabledStays
  <2> QED BY <1>6, <2>1, EnableMaps
<1>7. CASE UnmapRange
  <2>1. on /\ UNCHANGED <<builder, state, tables, on>>
    BY <1>7 DEF UnmapRange, vars
  <2>2. pte' = pte \/ pte' = [pte EXCEPT ![Call.block] = Invalid]
    BY <1>7 DEF UnmapRange, FlushBlock, ClearBlock
  <2>3. pte' = [b \in BlockSet |-> pte'[b]]
    BY <1>1, <2>2
  <2> QED BY <1>1, <2>1, <2>3, EnabledStays
<1>8. CASE Return
  <2>1. CASE on
    BY <1>1, <1>8, <2>1, EnabledStays DEF Return, vars
  <2> QED BY <1>8, <2>1, EnableReturns
<1>9. CASE ClientCall
  BY <1>1, <1>9, EnabledStays DEF ClientCall, vars
<1>10. CASE TlbFlushAll \/ Cache \/ Evict \/ Halted
  BY <1>10, EnableStays, Zenon DEF TlbFlushAll, Cache, Evict, Halted, hostVars, vars, mmuVars
<1> QED BY <1>2, <1>3, <1>4, <1>5, <1>6, <1>7, <1>8, <1>9, <1>10 DEF HostNext

\* For any devices, any place of the windows and any sizes, translation is
\* switched on with every device uncached at its own address and the rest of
\* the self-map cached at its own (HostMmu::Enable).
THEOREM SelfMapSoundHolds == HostSpec => SelfMapSound
<1> DEFINE Sound == /\ {uart[1]} \cup Range(gic) \subseteq {[base |-> q.ipa, size |-> q.size] : q \in asked}
                    /\ \A b \in BlockSet :
                         pte[b] = IF b \in DeviceBlocks THEN [pa |-> b * BlockSize, attr |-> "device"]
                                  ELSE IF b * BlockSize < HV_VA_SIZE
                                       THEN [pa |-> b * BlockSize, attr |-> "normal"]
                                       ELSE Invalid
<1>1. MapInv /\ EnableInv /\ [HostNext]_hostVars => [~on /\ on' => Sound]_hostVars
  <2> SUFFICES ASSUME MapInv, EnableInv, HostNext, ~on, on' PROVE Sound
    BY Zenon
  <2>1. tables # {} /\ calls = <<>>
    <3>1. SwitchOn
      BY Zenon DEF HostNext, BuildMap, Enable, MapRange, UnmapRange, Return, ClientCall, TlbFlushAll,
             Cache, Evict, Halted, hostVars, mmuVars
    <3> QED BY <3>1 DEF SwitchOn
  <2>2. builder = "host" /\ state = "returned" /\ Enabling
    BY <2>1 DEF EnableInv, Enabling
  <2>3. \A b \in BlockSet : pte[b] = Intended(b)
    <3>1. ~\E i \in 1 .. Len(calls) : TRUE
      BY <2>1
    <3> QED BY <2>2, <3>1 DEF EnableInv
  <2>4. asked = HostRequests /\ uart # <<>> /\ uart \in Devices /\ gic \in Devices
    <3>1. Range(todo) = {}
      <4>1. todo = <<>>
        BY <2>2 DEF MapInv
      <4> QED BY <4>1 DEF Range
    <3> QED BY <2>2, <3>1 DEF MapInv
  <2>5. \A r \in [base : Nat, size : Nat] : [base |-> Blocks(r).ipa, size |-> Blocks(r).size] = r
    BY DEF Blocks
  <2>6. uart[1] \in [base : Nat, size : Nat] /\ \A i \in DOMAIN gic : gic[i] \in [base : Nat, size : Nat]
    <3>1. 1 \in DOMAIN uart
      BY <2>4, RegionsAre, NoElements
    <3> QED BY <2>4, <3>1, RegionsAre
  <2>7. {uart[1]} \cup Range(gic) \subseteq {[base |-> q.ipa, size |-> q.size] : q \in asked}
    <3>1. Range(gic) = {gic[i] : i \in DOMAIN gic}
      BY DEF Range
    <3> QED BY <2>4, <2>5, <2>6, <3>1 DEF HostRequests
  <2> QED BY <2>3, <2>7, Zenon DEF Intended
<1>2. HostInit => MapInv /\ EnableInv
  BY WindowInit, EnableInit DEF HostInit
<1> QED BY <1>1, <1>2, MapKept, EnableKept, PTL DEF HostSpec, SelfMapSound

=============================================================================
