--------------------------- MODULE GuestMmuProofs ---------------------------
(***************************************************************************)
(* The stage-2 tables, for tables of any size, any RAM and any device      *)
(* windows: the tables stay a tree, a mapping call changes the address     *)
(* space where it says and nowhere else, and once Enable has returned the  *)
(* TLB agrees with the tables.                                             *)
(***************************************************************************)
EXTENDS TableProofs, FiniteSetTheorems

\* How long, in seconds, a leaf may take where it does not say otherwise.
USE SMTT(20), ZenonT(20)

-----------------------------------------------------------------------------
(* The inductive invariant.                                                *)

Pages(c) == IF c.byPage THEN 1 ELSE L3

\* The calls the constructor and the running hypervisor may make: inside the
\* guest's address space, blocks aligned, and every page granted.
GoodCall ==
  {c \in [ipa : GuestPages, pa : HostPages, dev : BOOLEAN, byPage : BOOLEAN] :
     /\ c.byPage \/ c.ipa % L3 = 0
     /\ \A k \in 0 .. (Pages(c) - 1) :
          c.ipa + k \in GuestPages /\ Granted(c.ipa + k, [pa |-> c.pa + k, dev |-> c.dev])}

InSplit == pc \in {"break", "flush", "link"}

TablesInv ==
  /\ Tree(mem)
  /\ \E n \in Nat : DOMAIN mem = 0 .. (n - 1)
  /\ pc \in {"block", "walkL3", "break", "flush", "link", "page"} => Slot1.valid
  /\ InSplit => Spare(mem, fresh)
  /\ pc = "break" =>
       /\ Slot2 \in BlockEntry
       /\ mem[fresh] = [l \in Entries3 |-> buildStage2PageDescriptor(Slot2.addr + l, Slot2.dev)]
  /\ pc \in {"flush", "link"} => Slot2 = Zero
  /\ pc = "page" => pte_is_table(Slot2)

ControlInv ==
  /\ pc \in {"idle", "walk", "block", "walkL3", "break", "flush", "link", "page"}
  /\ {vttbr, vm, ready, halted} \subseteq BOOLEAN
  /\ windows \in WindowLists
  /\ plan \in Seq(GoodCall)
  /\ pc # "idle" => op \in GoodCall
  /\ pc = "block" => ~op.byPage
  /\ pc \in {"walkL3", "break", "flush", "link", "page"} => op.byPage
  /\ (ready => vm) /\ (vm => vttbr) /\ (vttbr => plan = <<>>)
  /\ vttbr /\ ~ready => pc = "idle"
  /\ ready /\ pc # "idle" => op.byPage /\ op.ipa \in remapped

\* A block in the TLB is a block of the tables, or the one being split, whose
\* entry is out of use and which is about to be flushed; a page in the TLB is
\* a page of a level 3 table.
CachedOK(e) ==
  LET i == RootIndex(e.base)
      j == L2_INDEX(e.base)
  IN  /\ e.base \in GuestPages /\ mem[0][i].valid
      /\ \/ e.n = 1 /\ pte_is_table(D2(mem, i, j))
         \/ /\ e.n = L3 /\ L3_INDEX(e.base) = 0
            /\ \/ D2(mem, i, j) \in BlockEntry
               \/ pc = "flush" /\ i = RootIndex(op.ipa) /\ j = L2_INDEX(op.ipa)

TlbInv == ready => \A e \in tlb : CachedOK(e)

MmuInv == TablesInv /\ ControlInv /\ Confined /\ TlbInv /\ GuestSeesTables

-----------------------------------------------------------------------------
(* The calls of the constructor.                                           *)

\* A sequence of sequences is flattened into a sequence of their elements.
LEMMA FlattenSeq ==
  ASSUME NEW S, NEW ss \in Seq(Seq(S))
  PROVE  Flatten(ss) \in Seq(S)
<1> DEFINE n == Len(ss)
           Added(h) == [i \in 0 .. n |-> IF i = 0 THEN <<>> ELSE h[i - 1] \o ss[i]]
           Prefix(k, h) == /\ h \in [0 .. k -> Seq(S)] /\ h[0] = <<>>
                           /\ \A i \in 1 .. k : h[i] = h[i - 1] \o ss[i]
           Bad == {k \in 0 .. n : ~\E h : Prefix(k, h)}
<1>1. n \in Nat /\ \A i \in 1 .. n : ss[i] \in Seq(S)
  OBVIOUS
<1>2. Bad = {}
  <2> SUFFICES ASSUME Bad # {} PROVE FALSE
    BY Zenon
  <2>1. Bad \in SUBSET Nat
    <3>1. Bad \subseteq 0 .. n
      <4> HIDE DEF Prefix
      <4> QED OBVIOUS
    <3> HIDE DEF Bad
    <3> QED BY <1>1, <3>1
  <2> HIDE DEF Bad
  <2>2. PICK k \in Bad : \A y \in Bad : k <= y
    BY <2>1, LeastElement, Zenon
  <2>3. k \in 0 .. n /\ ~\E h : Prefix(k, h)
    BY <2>2, Zenon DEF Bad
  <2>4. CASE k = 0
    <3> DEFINE h == [i \in 0 .. 0 |-> <<>>]
    <3>1. h \in [0 .. 0 -> Seq(S)] /\ h[0] = <<>> /\ \A i \in 1 .. 0 : h[i] = h[i - 1] \o ss[i]
      OBVIOUS
    <3> HIDE DEF h
    <3> QED BY <2>3, <2>4, <3>1
  <2>5. CASE k # 0
    <3>1. k - 1 \in 0 .. n /\ k \in 1 .. n /\ k - 1 \notin Bad
      BY <2>2, <2>3, <2>5, <1>1
    <3>2. PICK g : Prefix(k - 1, g)
      BY <3>1, Zenon DEF Bad
    <3> DEFINE h == [i \in 0 .. k |-> IF i = k THEN g[k - 1] \o ss[k] ELSE g[i]]
    <3>3. g[k - 1] \in Seq(S) /\ ss[k] \in Seq(S)
      BY <1>1, <3>1, <3>2
    <3>4. g[k - 1] \o ss[k] \in Seq(S)
      BY <3>3
    <3>5. h \in [0 .. k -> Seq(S)]
      BY <1>1, <3>1, <3>2, <3>4
    <3>6. h[0] = <<>>
      BY <1>1, <3>1, <3>2
    <3>7. ASSUME NEW i \in 1 .. k PROVE h[i] = h[i - 1] \o ss[i]
      <4>1. i \in 0 .. k /\ i - 1 \in 0 .. k /\ i - 1 # k /\ h[i - 1] = g[i - 1]
        BY <1>1, <3>1
      <4>2. CASE i = k
        BY <4>1, <4>2, Zenon
      <4>3. CASE i # k
        <5>1. i \in 1 .. (k - 1)
          BY <3>1, <4>3
        <5>2. g[i] = g[i - 1] \o ss[i]
          BY <3>2, <5>1, Zenon
        <5>3. h[i] = g[i]
          BY <4>1, <4>3
        <5> QED BY <4>1, <5>2, <5>3, Zenon
      <4> QED BY <4>2, <4>3, Zenon
    <3> HIDE DEF h
    <3> QED BY <2>3, <3>5, <3>6, <3>7, Zenon
  <2> QED BY <2>4, <2>5
<1>3. PICK g : Prefix(n, g)
  <2>1. n \in 0 .. n
    BY <1>1
  <2> QED BY <1>2, <2>1, Zenon
<1>4. g = Added(g)
  <2>1. g = [i \in 0 .. n |-> g[i]]
    BY <1>3
  <2>2. ASSUME NEW i \in 0 .. n PROVE g[i] = IF i = 0 THEN <<>> ELSE g[i - 1] \o ss[i]
    <3>1. CASE i = 0
      BY <1>3, <3>1
    <3>2. CASE i # 0
      <4>1. i \in 1 .. n
        BY <1>1, <3>2
      <4> QED BY <1>3, <3>2, <4>1, Zenon
    <3> QED BY <3>1, <3>2
  <2> QED BY <2>1, <2>2, Zenon
<1> DEFINE f == CHOOSE h : h = Added(h)
<1>5. f = Added(f)
  <2> HIDE DEF Added
  <2> QED BY <1>4
<1>6. Flatten(ss) = f[n]
  BY DEF Flatten
<1> HIDE DEF f
<1>7. f[0] = <<>> /\ \A i \in 1 .. n : f[i] = f[i - 1] \o ss[i]
  <2>1. \A i \in 0 .. n : f[i] = IF i = 0 THEN <<>> ELSE f[i - 1] \o ss[i]
    <3> DEFINE a == Added(f)
    <3>1. \A i \in 0 .. n : a[i] = IF i = 0 THEN <<>> ELSE f[i - 1] \o ss[i]
      OBVIOUS
    <3>2. f = a
      BY <1>5, Zenon
    <3> HIDE DEF a
    <3> QED BY <3>1, <3>2
  <2>2. 0 \in 0 .. n /\ \A i \in 1 .. n : i \in 0 .. n /\ i # 0
    BY <1>1
  <2> QED BY <2>1, <2>2, Zenon
<1> DEFINE Off == {i \in 0 .. n : f[i] \notin Seq(S)}
<1>8. Off = {}
  <2> SUFFICES ASSUME Off # {} PROVE FALSE
    OBVIOUS
  <2>1. Off \in SUBSET Nat
    BY <1>1
  <2> HIDE DEF Off
  <2>2. PICK k \in Off : \A y \in Off : k <= y
    BY <2>1, LeastElement, Zenon
  <2>3. k \in 0 .. n /\ f[k] \notin Seq(S)
    BY <2>2 DEF Off
  <2>4. k # 0
    <3>1. <<>> \in Seq(S)
      OBVIOUS
    <3> QED BY <1>7, <2>3, <3>1, Zenon
  <2>5. k - 1 \in 0 .. n /\ k \in 1 .. n /\ k - 1 \notin Off
    BY <1>1, <2>2, <2>3, <2>4
  <2>6. f[k - 1] \in Seq(S) /\ ss[k] \in Seq(S) /\ f[k] = f[k - 1] \o ss[k]
    BY <1>1, <1>7, <2>5, Zenon DEF Off
  <2>7. f[k - 1] \o ss[k] \in Seq(S)
    BY <2>6
  <2> QED BY <2>3, <2>6, <2>7
<1> QED BY <1>1, <1>6, <1>8

\* The calls that map a range of whole granules are good calls, when the
\* range is granted.
LEMMA CallsGood ==
  ASSUME NEW r, r.base \in Nat, r.pa \in Nat, r.size \in Nat,
         NEW g \in {1, L3}, Whole(r, g), NEW dev \in BOOLEAN,
         \A k \in 0 .. (r.size - 1) : Granted(r.base + k, [pa |-> r.pa + k, dev |-> dev])
  PROVE  Calls(r, g, dev) \in Seq(GoodCall)
<1> DEFINE n == (r.size + g - 1) \div g
           Arg(i) == [ipa |-> r.base + (i - 1) * g, pa |-> r.pa + (i - 1) * g,
                      dev |-> dev, byPage |-> g = 1]
<1>1. g \in Nat /\ g > 0 /\ L3 \in Nat /\ L3 > 1
  BY Sizes
<1>2. PICK k \in Nat : r.size = k * g
  BY <1>1, Multiple, Zenon DEF Whole
<1>3. n = k
  <2>1. r.size + g - 1 = k * g + (g - 1) /\ g - 1 \in 0 .. (g - 1)
    BY <1>1, <1>2
  <2> QED BY <1>1, <2>1, QuotientIs, Zenon
<1>4. ASSUME NEW i \in 1 .. k PROVE Arg(i) \in GoodCall
  <2> DEFINE x == (i - 1) * g
  <2>1. x \in Nat /\ x + g <= r.size /\ x % g = 0
    <3>1. i * g <= k * g /\ i * g = (i - 1) * g + g /\ i - 1 \in Nat
      BY <1>1, TimesOrder
    <3>2. x \in Nat /\ x % g = 0
      BY <1>1, <3>1, Times
    <3> HIDE DEF x
    <3>3. i * g = x + g
      BY <3>1 DEF x
    <3> QED BY <1>2, <3>1, <3>2, <3>3
  <2> HIDE DEF x
  <2> DEFINE c == [ipa |-> r.base + x, pa |-> r.pa + x, dev |-> dev, byPage |-> g = 1]
  <2>2. /\ c.ipa = r.base + x /\ c.pa = r.pa + x /\ c.dev = dev /\ c.byPage = (g = 1)
        /\ c \in [ipa : {r.base + x}, pa : {r.pa + x}, dev : BOOLEAN, byPage : BOOLEAN]
    OBVIOUS
  <2>3. r.base + r.size <= L1 * L2 * L3 /\ L1 * L2 * L3 \in Nat
    BY Sizes DEF Whole
  <2>4. ASSUME NEW l \in 0 .. (g - 1)
        PROVE  /\ r.base + x + l \in GuestPages
               /\ Granted(r.base + x + l, [pa |-> r.pa + x + l, dev |-> dev])
    <3>1. x + l \in 0 .. (r.size - 1) /\ r.base + x + l = r.base + (x + l) /\ r.pa + x + l = r.pa + (x + l)
      BY <1>1, <2>1
    <3>2. Granted(r.base + (x + l), [pa |-> r.pa + (x + l), dev |-> dev])
      BY <3>1
    <3>3. r.base + (x + l) \in GuestPages
      BY <2>3, <3>1 DEF GuestPages
    <3> QED BY <3>1, <3>2, <3>3
  <2>5. r.base + x \in GuestPages /\ r.pa + x \in HostPages
    <3>1. r.base + x \in GuestPages
      BY <1>1, <2>1, <2>3 DEF GuestPages
    <3>2. r.pa + x \in r.pa .. (r.pa + r.size - 1)
      BY <1>1, <2>1
    <3> QED BY <3>1, <3>2 DEF Whole
  <2>6. g = 1 \/ (r.base + x) % L3 = 0
    <3>1. CASE g = L3
      BY <1>1, <2>1, <3>1, MultipleSum, Zenon DEF Whole
    <3> QED BY <3>1
  <2>7. Pages(c) = g
    BY <1>1, Zenon DEF Pages
  <2>8. c \in [ipa : GuestPages, pa : HostPages, dev : BOOLEAN, byPage : BOOLEAN]
    BY <2>5
  <2>9. c.byPage \/ c.ipa % L3 = 0
    BY <2>6, Zenon
  <2>10. \A l \in 0 .. (Pages(c) - 1) :
           c.ipa + l \in GuestPages /\ Granted(c.ipa + l, [pa |-> c.pa + l, dev |-> c.dev])
    BY <2>2, <2>4, <2>7
  <2> HIDE DEF c
  <2>11. c \in GoodCall
    BY <2>8, <2>9, <2>10 DEF GoodCall
  <2> QED BY <2>11 DEF c, x
<1>5. Calls(r, g, dev) = [i \in 1 .. k |-> Arg(i)]
  BY <1>3 DEF Calls
<1> HIDE DEF Arg
<1>6. [i \in 1 .. k |-> Arg(i)] \in [1 .. k -> GoodCall]
  BY <1>4
<1> QED BY <1>5, <1>6, FunSeq
-----------------------------------------------------------------------------
(* The initial state.                                                      *)

\* The tables whose translations View gives.
ViewMem == IF pc \in {"flush", "link"} THEN SetSlot2(mem, TableDescriptor(fresh)) ELSE mem

\* View, page by page, before and after a step.
LEMMA ViewIs ==
  /\ View = [p \in GuestPages |-> Seen(ViewMem, p)]
  /\ View' = [p \in GuestPages |-> Seen(ViewMem', p)]
  BY DEF View, ViewMem, Seen

\* The plan of the constructor consists of good calls.
LEMMA PlanGood ==
  ASSUME NEW ws \in WindowLists, windows = ws
  PROVE  Calls(Ram, L3, FALSE) \o Flatten([i \in 1 .. Len(ws) |-> WindowCalls(ws[i])]) \in Seq(GoodCall)
<1>1. Calls(Ram, L3, FALSE) \in Seq(GoodCall)
  <2>1. Ram.base \in Nat /\ Ram.pa \in Nat /\ Ram.size \in Nat /\ Whole(Ram, L3)
    BY RangeAssumption
  <2>2. ASSUME NEW k \in 0 .. (Ram.size - 1)
        PROVE  Granted(Ram.base + k, [pa |-> Ram.pa + k, dev |-> FALSE])
    <3>1. (Ram.base + k) - Ram.base = k
      BY <2>1
    <3> QED BY <3>1, Zenon DEF Granted
  <2> QED BY <2>1, <2>2, CallsGood, Zenon
<1>2. Len(ws) \in Nat /\ \A i \in 1 .. Len(ws) :
        /\ ws[i].base \in Nat /\ ws[i].pa \in Nat /\ ws[i].size \in Nat /\ ws[i].byPage \in BOOLEAN
        /\ Whole(ws[i], Granule(ws[i]))
  <2> DEFINE W == [base : Nat, pa : Nat, size : Nat, byPage : BOOLEAN]
  <2>1. ws \in Seq(W)
    BY RangeAssumption
  <2>2. \A w \in W : w.base \in Nat /\ w.pa \in Nat /\ w.size \in Nat /\ w.byPage \in BOOLEAN
    OBVIOUS
  <2> HIDE DEF W
  <2>3. Len(ws) \in Nat /\ \A i \in 1 .. Len(ws) : ws[i] \in W
    BY <2>1
  <2> QED BY <2>2, <2>3, RangeAssumption
<1>3. ASSUME NEW i \in 1 .. Len(ws) PROVE WindowCalls(ws[i]) \in Seq(GoodCall)
  <2> DEFINE w == ws[i]
             g == Granule(w)
  <2>1. w.base \in Nat /\ w.pa \in Nat /\ w.size \in Nat /\ Whole(w, g)
    BY <1>2
  <2>2. g \in {1, L3}
    BY DEF Granule
  <2>3. ASSUME NEW k \in 0 .. (w.size - 1)
        PROVE  Granted(w.base + k, [pa |-> w.pa + k, dev |-> TRUE])
    <3>1. (w.base + k) - w.base = k
      BY <2>1
    <3> QED BY <3>1, Zenon DEF Granted
  <2> HIDE DEF w, g
  <2>4. Calls(w, g, TRUE) \in Seq(GoodCall)
    BY <2>1, <2>2, <2>3, CallsGood, Zenon
  <2> QED BY <2>4, Zenon DEF WindowCalls, w, g
<1> DEFINE ss == [i \in 1 .. Len(ws) |-> WindowCalls(ws[i])]
<1>4. ss \in Seq(Seq(GoodCall))
  <2>1. ss \in [1 .. Len(ws) -> Seq(GoodCall)]
    BY <1>3
  <2> HIDE DEF ss
  <2> QED BY <1>2, <2>1, FunSeq
<1> HIDE DEF ss
<1>5. Flatten(ss) \in Seq(GoodCall)
  BY <1>4, FlattenSeq
<1>6. \A a, b \in Seq(GoodCall) : a \o b \in Seq(GoodCall)
  OBVIOUS
<1> QED BY <1>1, <1>5, <1>6, Zenon DEF ss

\* Initially nothing is mapped.
LEMMA InitTables ==
  ASSUME Init
  PROVE  TablesInv /\ View = [p \in GuestPages |-> Unmapped]
<1>1. mem = [t \in {0} |-> Table(L1)] /\ pc = "idle"
  BY DEF Init
<1>2. DOMAIN mem = {0} /\ mem[0] = [i \in Roots |-> Zero]
  BY <1>1 DEF Table, Roots
<1>3. \A i \in Roots : mem[0][i] = Zero /\ ~mem[0][i].valid
  BY <1>2, ZeroKind
<1>4. Tree(mem)
  <2>1. mem = [t \in DOMAIN mem |-> mem[t]] /\ 0 \in DOMAIN mem /\ mem[0] = [i \in Roots |-> mem[0][i]]
    BY <1>1, <1>2
  <2> QED BY <1>3, <2>1 DEF Tree, RootOK
<1>5. DOMAIN mem = 0 .. (1 - 1)
  BY <1>2
<1>6. TablesInv
  BY <1>1, <1>4, <1>5 DEF TablesInv, InSplit
<1>7. ASSUME NEW p \in GuestPages PROVE Seen(ViewMem, p) = Unmapped
  <2>1. ViewMem = mem
    BY <1>1 DEF ViewMem
  <2>2. ~mem[0][RootIndex(p)].valid
    BY <1>3, Indices
  <2> QED BY <2>1, <2>2, SeenIs
<1> QED BY <1>6, <1>7, ViewIs

\* The invariant holds initially.
LEMMA InitMmu ==
  ASSUME Init
  PROVE  MmuInv
<1>1. plan \in Seq(GoodCall)
  <2>1. windows \in WindowLists
    BY DEF Init
  <2> QED BY <2>1, PlanGood, Zenon DEF Init
<1>2. ControlInv
  BY <1>1, Zenon DEF ControlInv, Init
<1>3. Confined
  BY InitTables DEF Confined, Unmapped
<1> QED BY <1>2, <1>3, InitTables, Zenon DEF MmuInv, TlbInv, GuestSeesTables, Init
-----------------------------------------------------------------------------
(* Steps of a mapping call: the tables and the address space.              *)

\* The next table is none of those allocated.
LEMMA NextTable ==
  ASSUME TablesInv
  PROVE  /\ AllocTable \in Nat /\ DOMAIN mem = 0 .. (AllocTable - 1)
         /\ AllocTable \notin DOMAIN mem
         /\ \E n \in Nat : DOMAIN mem \cup {AllocTable} = 0 .. (n - 1)
<1>1. PICK n \in Nat : DOMAIN mem = 0 .. (n - 1)
  BY DEF TablesInv
<1>2. n > 0
  BY <1>1 DEF TablesInv, Tree
<1>3. Cardinality(0 .. (n - 1)) = n
  BY <1>2, FS_Interval
<1>4. AllocTable = n
  BY <1>1, <1>3 DEF AllocTable
<1>5. DOMAIN mem \cup {n} = 0 .. ((n + 1) - 1) /\ n + 1 \in Nat /\ n \notin DOMAIN mem
  BY <1>1
<1> QED BY <1>1, <1>4, <1>5, Zenon

\* A call in progress names a page of the guest.
LEMMA OpIs ==
  ASSUME NEW c \in GoodCall
  PROVE  /\ c.ipa \in GuestPages /\ c.pa \in Nat /\ c.pa \in HostPages /\ c.dev \in BOOLEAN /\ c.byPage \in BOOLEAN
         /\ RootIndex(c.ipa) \in Roots /\ L2_INDEX(c.ipa) \in Entries2
         /\ L3_INDEX(c.ipa) \in Entries3
         /\ ~c.byPage => L3_INDEX(c.ipa) = 0
         /\ \A k \in 0 .. (Pages(c) - 1) : Granted(c.ipa + k, [pa |-> c.pa + k, dev |-> c.dev])
<1>1. c.ipa \in GuestPages /\ c.pa \in HostPages /\ c.dev \in BOOLEAN /\ c.byPage \in BOOLEAN
  BY DEF GoodCall
<1>2. /\ ~c.byPage => c.ipa % L3 = 0
      /\ \A k \in 0 .. (Pages(c) - 1) : Granted(c.ipa + k, [pa |-> c.pa + k, dev |-> c.dev])
  BY DEF GoodCall
<1>3. c.pa \in Nat
  BY <1>1, RangeAssumption, Zenon
<1> QED BY <1>1, <1>2, <1>3, Indices, BlockOf DEF L3_INDEX

\* No level 2 entry that was there is changed.
Kept == \A k \in Roots, j \in Entries2 :
          mem[0][k].valid => mem'[0][k].valid /\ D2(mem', k, j) = D2(mem, k, j)

\* Walk: an empty level 2 table changes no translation.
LEMMA WalkStep ==
  ASSUME TablesInv, ControlInv, Walk
  PROVE  TablesInv' /\ View' = View /\ Kept
<1> DEFINE i == RootIndex(op.ipa)
           t == AllocTable
           m1 == WithTable(mem, t, Table(L2))
<1>1. i \in Roots /\ pc = "walk" /\ pc' \in {"walkL3", "block"} /\ op' = op
  BY OpIs DEF ControlInv, Walk
<1>2. ViewMem = mem /\ ViewMem' = mem'
  BY <1>1 DEF ViewMem
<1>3. Slot1 = mem[0][i] /\ Slot1' = mem'[0][i]
  BY <1>1 DEF Slot1
<1>4. Tree(mem)
  BY DEF TablesInv
<1>5. CASE Slot1.valid /\ mem' = mem
  <2>1. TablesInv'
    BY <1>1, <1>3, <1>5 DEF TablesInv, InSplit
  <2>2. View' = View
    BY <1>2, <1>5, ViewIs
  <2> QED BY <1>5, <2>1, <2>2 DEF Kept
<1>6. CASE ~Slot1.valid /\ mem' = [m1 EXCEPT ![0][i] = TableDescriptor(t)]
  <2>1. t \notin DOMAIN mem /\ \E n \in Nat : DOMAIN mem \cup {t} = 0 .. (n - 1)
    BY NextTable
  <2> HIDE DEF t, i
  <2>2. /\ Tree(m1) /\ Unused(m1, t) /\ DOMAIN m1 = DOMAIN mem \cup {t} /\ m1[t] = Table(L2)
        /\ m1[0] = mem[0]
        /\ \A k \in Roots, j \in Entries2 : mem[0][k].valid => D2(m1, k, j) = D2(mem, k, j)
        /\ \A p \in GuestPages : Seen(m1, p) = Seen(mem, p)
    <3>1. AddsTable(mem, m1, t, Table(L2))
      BY <1>4, <2>1, AddedTable
    <3> HIDE DEF m1
    <3> QED BY <3>1 DEF AddsTable
  <2> HIDE DEF m1
  <2>3. ~m1[0][i].valid
    BY <1>3, <1>6, <2>2
  <2>4. /\ Tree(mem') /\ DOMAIN mem' = DOMAIN m1 /\ mem'[0][i] = TableDescriptor(t)
        /\ \A k \in Roots : m1[0][k].valid =>
             mem'[0][k] = m1[0][k] /\ \A j \in Entries2 : D2(mem', k, j) = D2(m1, k, j)
        /\ \A p \in GuestPages : Seen(mem', p) = Seen(m1, p)
    <3>1. LinksRoot(m1, mem', i, t)
      BY <1>1, <1>6, <2>2, <2>3, LinkedRoot, Zenon
    <3> QED BY <3>1 DEF LinksRoot
  <2>5. mem'[0][i].valid
    BY <2>4, TableKind
  <2>6. TablesInv'
    BY <1>1, <1>3, <2>1, <2>2, <2>4, <2>5 DEF TablesInv, InSplit
  <2>7. View' = View
    BY <1>2, <2>2, <2>4, ViewIs
  <2>8. Kept
    BY <2>2, <2>4 DEF Kept
  <2> QED BY <2>6, <2>7, <2>8
<1> QED BY <1>5, <1>6 DEF Walk

\* The translations of a block whose entry names a table of its pages.
LEMMA SeenInTable ==
  ASSUME NEW m, NEW p \in GuestPages, m[0][RootIndex(p)].valid,
         NEW t, D2(m, RootIndex(p), L2_INDEX(p)) = TableDescriptor(t)
  PROVE  /\ m[t] = Table(L3) => Seen(m, p) = Unmapped
         /\ \A b \in BlockEntry :
              m[t] = [l \in Entries3 |-> buildStage2PageDescriptor(b.addr + l, b.dev)] =>
                Seen(m, p) = [pa |-> b.addr + L3_INDEX(p), dev |-> b.dev]
<1> DEFINE d == D2(m, RootIndex(p), L2_INDEX(p))
           l == L3_INDEX(p)
<1>1. pte_is_table(d) /\ d.addr = t /\ l \in Entries3 /\ l \in Nat
  BY TableKind, BlockOf, Sizes DEF Entries3
<1>2. ASSUME m[t] = Table(L3) PROVE Seen(m, p) = Unmapped
  <2>1. m[t][l] = Zero
    BY <1>1, <1>2 DEF Table, Entries3
  <2> QED BY <1>1, <2>1, SeenIs
<1>3. ASSUME NEW b \in BlockEntry,
             m[t] = [h \in Entries3 |-> buildStage2PageDescriptor(b.addr + h, b.dev)]
      PROVE  Seen(m, p) = [pa |-> b.addr + l, dev |-> b.dev]
  <2> DEFINE c == buildStage2PageDescriptor(b.addr + l, b.dev)
  <2>1. b.addr + l \in Nat /\ b.dev \in BOOLEAN
    BY <1>1, BlockKind
  <2>2. c \in PageEntry /\ c.addr = b.addr + l /\ c.dev = b.dev
    BY <2>1, Built
  <2>3. m[t][l] = c
    BY <1>1, <1>3
  <2> HIDE DEF c
  <2> QED BY <1>1, <2>2, <2>3, SeenIs
<1> QED BY <1>2, <1>3

\* walkL3: a table of the block's pages, or an empty one, that no entry names
\* changes no translation.
LEMMA WalkL3Step ==
  ASSUME TablesInv, ControlInv, walkL3
  PROVE  TablesInv' /\ View' = View /\ Kept
<1> DEFINE i == RootIndex(op.ipa)
           j == L2_INDEX(op.ipa)
           t == AllocTable
           f == IF pte_is_block(Slot2)
                THEN [n \in 0 .. (L3 - 1) |-> buildStage2PageDescriptor(Slot2.addr + n, Slot2.dev)]
                ELSE Table(L3)
<1>1. /\ i \in Roots /\ j \in Entries2 /\ pc = "walkL3" /\ op' = op
      /\ Tree(mem) /\ Slot1.valid /\ ViewMem = mem
  BY OpIs DEF ControlInv, TablesInv, walkL3, ViewMem
<1>2. /\ Slot1 = mem[0][i] /\ Slot1' = mem'[0][i]
      /\ Slot2 = D2(mem, i, j) /\ Slot2' = D2(mem', i, j)
  BY <1>1 DEF Slot1, Slot2, D2
<1>3. CASE pte_is_table(Slot2) /\ pc' = "page" /\ UNCHANGED <<mem, fresh>>
  <2>1. TablesInv'
    BY <1>1, <1>2, <1>3 DEF TablesInv, InSplit
  <2>2. ViewMem' = mem
    BY <1>3 DEF ViewMem
  <2>3. View' = View
    BY <1>1, <2>2, ViewIs
  <2> QED BY <1>1, <1>3, <2>1, <2>3 DEF Kept
<1>4. CASE /\ ~pte_is_table(Slot2) /\ fresh' = t /\ mem' = WithTable(mem, t, f)
           /\ pc' = IF pte_is_block(Slot2) THEN "break" ELSE "link"
  <2>1. t \notin DOMAIN mem /\ \E n \in Nat : DOMAIN mem \cup {t} = 0 .. (n - 1)
    BY NextTable
  <2>2. EntryOK(mem, Slot2)
    BY <1>1, <1>2, Reached, Zenon
  <2>3. /\ pte_is_block(Slot2) => Slot2 \in BlockEntry
        /\ ~pte_is_block(Slot2) => Slot2 = Zero
    BY <1>4, <2>2, EntryKinds DEF pte_is_table, pte_is_block
  <2>4. /\ pte_is_block(Slot2) => f = [l \in Entries3 |-> buildStage2PageDescriptor(Slot2.addr + l, Slot2.dev)]
        /\ ~pte_is_block(Slot2) => f = Table(L3)
    BY DEF Entries3
  <2> HIDE DEF f, t, i, j
  <2>5. LeafShape(f)
    <3>1. CASE pte_is_block(Slot2)
      <4>1. f = [l \in Entries3 |-> f[l]]
        BY <2>4, <3>1
      <4>2. ASSUME NEW l \in Entries3 PROVE f[l] \in PageEntry
        <5>1. Slot2.addr + l \in Nat /\ Slot2.dev \in BOOLEAN
          BY <2>3, <3>1, BlockKind, Sizes DEF Entries3
        <5>2. buildStage2PageDescriptor(Slot2.addr + l, Slot2.dev) \in PageEntry
          BY <5>1, Built
        <5> QED BY <2>4, <3>1, <5>2
      <4> QED BY <4>1, <4>2 DEF LeafShape
    <3>2. CASE ~pte_is_block(Slot2)
      BY <2>4, <3>2 DEF LeafShape, Table, Entries3
    <3> QED BY <3>1, <3>2
  <2>6. /\ Tree(mem') /\ Unused(mem', t) /\ DOMAIN mem' = DOMAIN mem \cup {t} /\ mem'[t] = f
        /\ mem'[0] = mem[0]
        /\ \A k \in Roots, l \in Entries2 : mem[0][k].valid => D2(mem', k, l) = D2(mem, k, l)
        /\ \A p \in GuestPages : Seen(mem', p) = Seen(mem, p)
    <3>1. AddsTable(mem, mem', t, f)
      BY <1>1, <1>4, <2>1, AddedTable
    <3> QED BY <3>1 DEF AddsTable
  <2>7. Spare(mem', t)
    BY <2>5, <2>6 DEF Spare
  <2>8. Slot1' = Slot1 /\ Slot2' = Slot2
    BY <1>1, <1>2, <2>6
  <2>9. TablesInv'
    <3>1. CASE pte_is_block(Slot2)
      <4>1. pc' = "break" /\ fresh' = t
        BY <1>4, <3>1
      <4>2. Slot2' \in BlockEntry /\ mem'[t] = [l \in Entries3 |-> buildStage2PageDescriptor(Slot2'.addr + l, Slot2'.dev)]
        BY <2>3, <2>4, <2>6, <2>8, <3>1
      <4> QED BY <1>1, <2>1, <2>6, <2>7, <2>8, <4>1, <4>2, Zenon DEF TablesInv, InSplit
    <3>2. CASE ~pte_is_block(Slot2)
      <4>1. pc' = "link" /\ fresh' = t /\ Slot2' = Zero
        BY <1>4, <2>3, <2>8, <3>2
      <4> QED BY <1>1, <2>1, <2>6, <2>7, <2>8, <4>1 DEF TablesInv, InSplit
    <3> QED BY <3>1, <3>2
  <2>10. View' = View
    <3>1. CASE pte_is_block(Slot2)
      <4>1. ViewMem' = mem'
        BY <1>4, <3>1 DEF ViewMem
      <4> QED BY <1>1, <2>6, <4>1, ViewIs
    <3>2. CASE ~pte_is_block(Slot2)
      <4> DEFINE mm == [mem' EXCEPT ![T2(mem', i)][j] = TableDescriptor(t)]
      <4>1. ViewMem' = mm
        BY <1>1, <1>2, <1>4, <3>2 DEF ViewMem, SetSlot2, T2, i, j
      <4>2. TableDescriptor(t) = TableDescriptor(TableDescriptor(t).addr) /\ Spare(mem', TableDescriptor(t).addr)
        BY <2>7, TableKind
      <4>3. /\ mm[0] = mem'[0] /\ D2(mm, i, j) = TableDescriptor(t) /\ mm[t] = mem'[t]
            /\ \A p \in GuestPages : RootIndex(p) # i \/ L2_INDEX(p) # j => Seen(mm, p) = Seen(mem', p)
        <5>1. mem'[0][i].valid
          BY <1>1, <1>2, <2>6
        <5>2. NotLevel2(mem', t)
          BY <2>6 DEF Unused
        <5>3. StoresEntry(mem', mm, i, j, TableDescriptor(t))
          BY <1>1, <2>6, <4>2, <5>1, StoredEntry, Zenon
        <5> HIDE DEF mm
        <5> QED BY <5>2, <5>3 DEF StoresEntry
      <4> HIDE DEF mm
      <4>4. ASSUME NEW p \in GuestPages PROVE Seen(mm, p) = Seen(mem, p)
        <5>1. CASE RootIndex(p) = i /\ L2_INDEX(p) = j
          <6>1. Seen(mm, p) = Unmapped
            <7>1. mm[0][i].valid /\ mm[t] = Table(L3)
              BY <1>1, <1>2, <2>4, <2>6, <3>2, <4>3
            <7> QED BY <4>3, <5>1, <7>1, SeenInTable
          <6>2. Seen(mem, p) = Unmapped
            BY <1>1, <1>2, <2>3, <3>2, <5>1, SeenIs
          <6> QED BY <6>1, <6>2
        <5>2. CASE RootIndex(p) # i \/ L2_INDEX(p) # j
          BY <2>6, <4>3, <5>2
        <5> QED BY <5>1, <5>2
      <4> QED BY <1>1, <4>1, <4>4, ViewIs
    <3> QED BY <3>1, <3>2
  <2>11. Kept
    BY <2>6 DEF Kept
  <2> QED BY <2>9, <2>10, <2>11
<1> QED BY <1>3, <1>4 DEF walkL3
\* A spare level 3 table may be linked below any level 2 entry.
LEMMA LinkedEntry ==
  ASSUME NEW m, Tree(m), NEW i \in Roots, m[0][i].valid, NEW j \in Entries2, NEW t, Spare(m, t)
  PROVE  StoresEntry(m, [m EXCEPT ![T2(m, i)][j] = TableDescriptor(t)], i, j, TableDescriptor(t))
<1> DEFINE d == TableDescriptor(t)
<1>1. d = TableDescriptor(d.addr) /\ Spare(m, d.addr)
  BY TableKind
<1> HIDE DEF d
<1>2. StoresEntry(m, [m EXCEPT ![T2(m, i)][j] = d], i, j, d)
  BY <1>1, StoredEntry
<1> QED BY <1>2 DEF d

\* The entry of the call in progress.
LEMMA SlotIs ==
  LET i == RootIndex(op.ipa)
      j == L2_INDEX(op.ipa)
  IN  /\ Slot1 = mem[0][i] /\ Slot2 = D2(mem, i, j)
      /\ \A m, d : m[0] = mem[0] => SetSlot2(m, d) = [m EXCEPT ![T2(m, i)][j] = d]
      /\ op' = op => /\ Slot1' = mem'[0][i] /\ Slot2' = D2(mem', i, j)
                     /\ ViewMem' = IF pc' \in {"flush", "link"}
                                   THEN [mem' EXCEPT ![T2(mem', i)][j] = TableDescriptor(fresh')]
                                   ELSE mem'
  BY Zenon DEF Slot1, Slot2, SetSlot2, D2, T2, ViewMem

\* Break: the entry of the block is out of use, the address space as it was.
LEMMA BreakStep ==
  ASSUME TablesInv, ControlInv, Break
  PROVE  /\ TablesInv' /\ View' = View
         /\ StoresEntry(mem, mem', RootIndex(op.ipa), L2_INDEX(op.ipa), Zero)
<1> DEFINE i == RootIndex(op.ipa)
           j == L2_INDEX(op.ipa)
           b == Slot2
<1>1. /\ i \in Roots /\ j \in Entries2 /\ pc = "break" /\ pc' = "flush" /\ op' = op /\ fresh' = fresh
      /\ mem' = SetSlot2(mem, Zero)
      /\ Tree(mem) /\ Slot1.valid /\ ViewMem = mem /\ Spare(mem, fresh) /\ b \in BlockEntry
      /\ mem[fresh] = [l \in Entries3 |-> buildStage2PageDescriptor(b.addr + l, b.dev)]
      /\ \E n \in Nat : DOMAIN mem = 0 .. (n - 1)
  BY OpIs, Zenon DEF ControlInv, TablesInv, Break, ViewMem, InSplit
<1> DEFINE mm == [mem' EXCEPT ![T2(mem', i)][j] = TableDescriptor(fresh)]
<1>2. /\ Slot1 = mem[0][i] /\ b = D2(mem, i, j) /\ mem' = [mem EXCEPT ![T2(mem, i)][j] = Zero]
      /\ Slot1' = mem'[0][i] /\ Slot2' = D2(mem', i, j) /\ ViewMem' = mm
  BY <1>1, SlotIs
<1> HIDE DEF i, j, b, mm
<1>3. StoresEntry(mem, mem', i, j, Zero)
  <2>1. mem[0][i].valid
    BY <1>1, <1>2
  <2>2. StoresEntry(mem, [mem EXCEPT ![T2(mem, i)][j] = Zero], i, j, Zero)
    BY <1>1, <2>1, StoredEntry, Zenon
  <2> QED BY <1>2, <2>2, Zenon
<1>4. /\ Tree(mem') /\ DOMAIN mem' = DOMAIN mem /\ mem'[0] = mem[0] /\ D2(mem', i, j) = Zero
      /\ mem'[fresh] = mem[fresh] /\ Unused(mem', fresh)
      /\ \A p \in GuestPages : RootIndex(p) # i \/ L2_INDEX(p) # j => Seen(mem', p) = Seen(mem, p)
  <2>1. NotLevel2(mem, fresh) /\ Unused(mem, fresh)
    BY <1>1 DEF Spare, Unused
  <2> QED BY <1>3, <2>1, ZeroKind DEF StoresEntry
<1>5. Spare(mem', fresh)
  BY <1>1, <1>4 DEF Spare
<1>6. TablesInv'
  <2>1. Slot1'.valid /\ Slot2' = Zero
    BY <1>1, <1>2, <1>4
  <2> QED BY <1>1, <1>4, <1>5, <2>1 DEF TablesInv, InSplit
<1>7. /\ mm[0] = mem[0] /\ D2(mm, i, j) = TableDescriptor(fresh) /\ mm[fresh] = mem[fresh]
      /\ \A p \in GuestPages : RootIndex(p) # i \/ L2_INDEX(p) # j => Seen(mm, p) = Seen(mem', p)
  <2>1. NotLevel2(mem', fresh) /\ mem'[0][i].valid
    BY <1>1, <1>2, <1>4 DEF Unused
  <2>2. StoresEntry(mem', mm, i, j, TableDescriptor(fresh))
    BY <1>1, <1>4, <1>5, <2>1, LinkedEntry, Zenon DEF mm
  <2> QED BY <1>4, <2>1, <2>2 DEF StoresEntry
<1>8. ASSUME NEW p \in GuestPages PROVE Seen(mm, p) = Seen(mem, p)
  <2>1. CASE RootIndex(p) = i /\ L2_INDEX(p) = j
    <3>1. Seen(mm, p) = [pa |-> b.addr + L3_INDEX(p), dev |-> b.dev]
      <4>1. mm[0][i].valid /\ mm[fresh] = [l \in Entries3 |-> buildStage2PageDescriptor(b.addr + l, b.dev)]
        BY <1>1, <1>2, <1>7
      <4> QED BY <1>1, <1>7, <2>1, <4>1, SeenInTable, Zenon
    <3>2. Seen(mem, p) = [pa |-> b.addr + L3_INDEX(p), dev |-> b.dev]
      BY <1>1, <1>2, <2>1, SeenIs
    <3> QED BY <3>1, <3>2
  <2>2. CASE RootIndex(p) # i \/ L2_INDEX(p) # j
    BY <1>4, <1>7, <2>2
  <2> QED BY <2>1, <2>2
<1>9. View' = View
  BY <1>1, <1>2, <1>8, ViewIs
<1> QED BY <1>3, <1>6, <1>9 DEF i, j

\* Flush leaves the tables alone.
LEMMA FlushStep ==
  ASSUME TablesInv, Flush
  PROVE  TablesInv' /\ View' = View
<1>1. pc = "flush" /\ pc' = "link" /\ UNCHANGED <<op, mem, fresh>>
  BY DEF Flush
<1>2. Slot1' = Slot1 /\ Slot2' = Slot2
  BY <1>1 DEF Slot1, Slot2
<1>3. TablesInv'
  BY <1>1, <1>2 DEF TablesInv, InSplit
<1>4. ViewMem' = ViewMem
  BY <1>1 DEF ViewMem, SetSlot2, Slot1
<1> QED BY <1>3, <1>4, ViewIs

\* Link: the table takes the place of the block, the address space stays.
LEMMA LinkStep ==
  ASSUME TablesInv, ControlInv, Link
  PROVE  /\ TablesInv' /\ View' = View
         /\ StoresEntry(mem, mem', RootIndex(op.ipa), L2_INDEX(op.ipa), TableDescriptor(fresh))
<1> DEFINE i == RootIndex(op.ipa)
           j == L2_INDEX(op.ipa)
<1>1. /\ i \in Roots /\ j \in Entries2 /\ pc = "link" /\ pc' = "page" /\ op' = op /\ fresh' = fresh
      /\ mem' = SetSlot2(mem, TableDescriptor(fresh))
      /\ Tree(mem) /\ Slot1.valid /\ ViewMem = mem' /\ Spare(mem, fresh)
      /\ \E n \in Nat : DOMAIN mem = 0 .. (n - 1)
  BY OpIs, Zenon DEF ControlInv, TablesInv, Link, ViewMem, InSplit
<1>2. /\ Slot1 = mem[0][i] /\ mem' = [mem EXCEPT ![T2(mem, i)][j] = TableDescriptor(fresh)]
      /\ Slot1' = mem'[0][i] /\ Slot2' = D2(mem', i, j) /\ ViewMem' = mem'
  BY <1>1, SlotIs
<1> HIDE DEF i, j
<1>3. StoresEntry(mem, mem', i, j, TableDescriptor(fresh))
  <2>1. mem[0][i].valid
    BY <1>1, <1>2
  <2>2. StoresEntry(mem, [mem EXCEPT ![T2(mem, i)][j] = TableDescriptor(fresh)], i, j, TableDescriptor(fresh))
    BY <1>1, <2>1, LinkedEntry, Zenon
  <2> QED BY <1>2, <2>2, Zenon
<1>4. Tree(mem') /\ DOMAIN mem' = DOMAIN mem /\ mem'[0] = mem[0] /\ Slot2' = TableDescriptor(fresh)
  BY <1>2, <1>3, Zenon DEF StoresEntry
<1>5. Slot1'.valid /\ pte_is_table(Slot2')
  BY <1>1, <1>2, <1>4, TableKind
<1>6. TablesInv'
  BY <1>1, <1>4, <1>5 DEF TablesInv, InSplit
<1>7. View' = View
  BY <1>1, <1>2, ViewIs, Zenon
<1> QED BY <1>3, <1>6, <1>7 DEF i, j

\* MapPage: the page of the call is given its translation, no other changes.
LEMMA MapPageStep ==
  ASSUME TablesInv, ControlInv, MapPage
  PROVE  /\ TablesInv' /\ Kept
         /\ op.ipa \in GuestPages /\ View'[op.ipa] = [pa |-> op.pa, dev |-> op.dev]
         /\ \A p \in GuestPages : p # op.ipa => View'[p] = View[p]
<1> DEFINE i == RootIndex(op.ipa)
           j == L2_INDEX(op.ipa)
           l == L3_INDEX(op.ipa)
           d == buildStage2PageDescriptor(op.pa, op.dev)
<1>1. /\ i \in Roots /\ j \in Entries2 /\ l \in Entries3 /\ op.ipa \in GuestPages
      /\ op.pa \in Nat /\ op.dev \in BOOLEAN
      /\ pc = "page" /\ pc' = "idle" /\ op' = op
      /\ mem' = [mem EXCEPT ![Slot2.addr][l] = d]
      /\ Tree(mem) /\ Slot1.valid /\ pte_is_table(Slot2) /\ ViewMem = mem /\ ViewMem' = mem'
      /\ \E n \in Nat : DOMAIN mem = 0 .. (n - 1)
  BY OpIs DEF ControlInv, TablesInv, MapPage, ViewMem
<1>2. Slot1 = mem[0][i] /\ Slot2 = D2(mem, i, j)
  BY SlotIs
<1>3. d \in PageEntry /\ d.addr = op.pa /\ d.dev = op.dev
  BY <1>1, Built
<1> HIDE DEF i, j, l, d
<1>4. StoresPage(mem, mem', i, j, l, d)
  BY <1>1, <1>2, <1>3, StoredPage, Zenon
<1>5. /\ Tree(mem') /\ DOMAIN mem' = DOMAIN mem /\ mem'[0] = mem[0]
      /\ \A k \in Roots, n \in Entries2 : mem[0][k].valid => D2(mem', k, n) = D2(mem, k, n)
      /\ mem'[D2(mem, i, j).addr][l] = d
      /\ \A p \in GuestPages : RootIndex(p) # i \/ L2_INDEX(p) # j \/ L3_INDEX(p) # l =>
           Seen(mem', p) = Seen(mem, p)
  BY <1>4 DEF StoresPage
<1>6. TablesInv'
  BY <1>1, <1>5 DEF TablesInv, InSplit
<1>7. Kept
  BY <1>5 DEF Kept
<1>8. Seen(mem', op.ipa) = [pa |-> op.pa, dev |-> op.dev]
  <2>1. mem'[0][i].valid /\ D2(mem', i, j) = Slot2 /\ mem'[D2(mem', i, j).addr][l] \in PageEntry
    BY <1>1, <1>2, <1>3, <1>5, Zenon
  <2>2. mem'[0][RootIndex(op.ipa)].valid /\ pte_is_table(D2(mem', RootIndex(op.ipa), L2_INDEX(op.ipa)))
    BY <1>1, <2>1 DEF i, j
  <2>3. mem'[D2(mem', RootIndex(op.ipa), L2_INDEX(op.ipa)).addr][L3_INDEX(op.ipa)] = d
    BY <1>2, <1>5, <2>1 DEF i, j, l
  <2> DEFINE c == mem'[D2(mem', RootIndex(op.ipa), L2_INDEX(op.ipa)).addr][L3_INDEX(op.ipa)]
  <2>4. c \in PageEntry => Seen(mem', op.ipa) = [pa |-> c.addr, dev |-> c.dev]
    BY <1>1, <2>2, SeenIs, Zenon
  <2> HIDE DEF c
  <2>5. c = d
    BY <2>3 DEF c
  <2> QED BY <1>3, <2>4, <2>5
<1>9. ASSUME NEW p \in GuestPages, p # op.ipa PROVE Seen(mem', p) = Seen(mem, p)
  <2>1. RootIndex(p) # i \/ L2_INDEX(p) # j \/ L3_INDEX(p) # l
    BY <1>1, <1>9, SameSlot DEF i, j, l
  <2> QED BY <1>5, <2>1
<1> QED BY <1>1, <1>6, <1>7, <1>8, <1>9, ViewIs, Zenon

\* MapBlock: the pages of the block are given their translations, no other
\* changes.
LEMMA MapBlockStep ==
  ASSUME TablesInv, ControlInv, MapBlock
  PROVE  /\ TablesInv' /\ op.ipa \in GuestPages
         /\ \A p \in GuestPages :
              View'[p] = IF p \in op.ipa .. (op.ipa + L3 - 1)
                         THEN [pa |-> op.pa + (p - op.ipa), dev |-> op.dev] ELSE View[p]
<1> DEFINE i == RootIndex(op.ipa)
           j == L2_INDEX(op.ipa)
           d == buildStage2BlockDescriptor(op.pa, op.dev)
<1>1. /\ i \in Roots /\ j \in Entries2 /\ L3_INDEX(op.ipa) = 0 /\ op.ipa \in GuestPages
      /\ op.pa \in Nat /\ op.dev \in BOOLEAN
      /\ pc = "block" /\ pc' = "idle" /\ op' = op
      /\ mem' = SetSlot2(mem, d)
      /\ Tree(mem) /\ Slot1.valid /\ ViewMem = mem /\ ViewMem' = mem'
      /\ \E n \in Nat : DOMAIN mem = 0 .. (n - 1)
  BY OpIs, Zenon DEF ControlInv, TablesInv, MapBlock, ViewMem
<1>2. Slot1 = mem[0][i] /\ mem' = [mem EXCEPT ![T2(mem, i)][j] = d]
  BY <1>1, SlotIs, Zenon
<1>3. d \in BlockEntry /\ d.addr = op.pa /\ d.dev = op.dev
  BY <1>1, Built
<1> HIDE DEF i, j, d
<1>4. StoresEntry(mem, mem', i, j, d)
  <2>1. mem[0][i].valid
    BY <1>1, <1>2
  <2>2. StoresEntry(mem, [mem EXCEPT ![T2(mem, i)][j] = d], i, j, d)
    BY <1>1, <1>3, <2>1, StoredEntry, Zenon
  <2> QED BY <1>2, <2>2, Zenon
<1>5. /\ Tree(mem') /\ DOMAIN mem' = DOMAIN mem /\ mem'[0] = mem[0] /\ D2(mem', i, j) = d
      /\ \A p \in GuestPages : RootIndex(p) # i \/ L2_INDEX(p) # j => Seen(mem', p) = Seen(mem, p)
  BY <1>4 DEF StoresEntry
<1>6. TablesInv'
  BY <1>1, <1>5 DEF TablesInv, InSplit
<1>7. ASSUME NEW p \in GuestPages, p \in op.ipa .. (op.ipa + L3 - 1)
      PROVE  Seen(mem', p) = [pa |-> op.pa + (p - op.ipa), dev |-> op.dev]
  <2>1. RootIndex(p) = i /\ L2_INDEX(p) = j /\ L3_INDEX(p) = p - op.ipa
    BY <1>1, <1>7, InBlock, Zenon DEF i, j
  <2>2. mem'[0][i].valid /\ D2(mem', i, j) = d
    BY <1>1, <1>2, <1>5
  <2> QED BY <1>3, <2>1, <2>2, SeenIs
<1>8. ASSUME NEW p \in GuestPages, p \notin op.ipa .. (op.ipa + L3 - 1)
      PROVE  Seen(mem', p) = Seen(mem, p)
  <2>1. ASSUME RootIndex(p) = i, L2_INDEX(p) = j PROVE FALSE
    <3>1. p - L3_INDEX(p) = op.ipa - L3_INDEX(op.ipa)
      BY <1>1, <2>1, SameSlot DEF i, j
    <3>2. p \in Nat /\ op.ipa \in Nat /\ L3_INDEX(p) \in 0 .. (L3 - 1) /\ L3 \in Nat
      BY <1>1, BlockOf, Sizes, Zenon DEF Entries3
    <3>3. p = op.ipa + L3_INDEX(p)
      BY <1>1, <3>1, <3>2
    <3> QED BY <1>8, <3>2, <3>3
  <2> QED BY <1>5, <2>1
<1> QED BY <1>1, <1>6, <1>7, <1>8, ViewIs
-----------------------------------------------------------------------------
(* Every step.                                                             *)

\* The device windows are fixed, and so are the calls they allow.
LEMMA WindowsKept ==
  ASSUME [Next]_vars
  PROVE  windows' = windows /\ GoodCall' = GoodCall
<1>1. windows' = windows
  BY DEF Next, vars, Call, LiveCall, Walk, MapBlock, walkL3, OutOfTables, Halt, Break, Flush, Link,
         MapPage, EnableVttbr, EnableVm, TlbFlushAllGuest, HardwareWalk
<1> QED BY <1>1 DEF GoodCall, Granted

\* A page mapped under a running guest is a good call.
LEMMA LiveGood ==
  ASSUME NEW c \in LiveOps
  PROVE  c \in GoodCall /\ c.byPage
<1>1. /\ c \in [ipa : GuestPages, pa : HostPages, dev : BOOLEAN, byPage : BOOLEAN]
      /\ c.byPage /\ c.ipa \in GuestPages /\ c.pa \in HostPages
  BY RangeAssumption, Zenon
<1>2. c.ipa + 0 = c.ipa /\ c.pa + 0 = c.pa
  <2>1. c.ipa \in Nat
    BY <1>1, BlockOf
  <2>2. c.pa \in Nat
    BY <1>1, RangeAssumption, Zenon
  <2> QED BY <2>1, <2>2
<1>3. Granted(c.ipa, [pa |-> c.pa, dev |-> c.dev])
  BY DEF Granted
<1>4. Pages(c) = 1 /\ \A k \in 0 .. (1 - 1) : k = 0
  BY <1>1 DEF Pages
<1>5. \A k \in 0 .. (Pages(c) - 1) :
        c.ipa + k \in GuestPages /\ Granted(c.ipa + k, [pa |-> c.pa + k, dev |-> c.dev])
  BY <1>1, <1>2, <1>3, <1>4
<1> QED BY <1>1, <1>5 DEF GoodCall

\* The order of the constructor, Enable and the calls of a running guest.
LEMMA ControlStep ==
  ASSUME ControlInv, [Next]_vars
  PROVE  ControlInv'
<1> USE DEF ControlInv
<1>0. windows' = windows /\ GoodCall' = GoodCall
  BY WindowsKept
<1>1. CASE Call
  <2>1. Head(plan) \in GoodCall /\ Tail(plan) \in Seq(GoodCall)
    BY <1>1, TailSeq DEF Call
  <2> QED BY <1>0, <1>1, <2>1 DEF Call
<1>2. CASE LiveCall
  <2>1. op' \in GoodCall /\ op'.byPage
    BY <1>2, LiveGood DEF LiveCall
  <2> QED BY <1>0, <1>2, <2>1 DEF LiveCall
<1>3. CASE Walk
  BY <1>0, <1>3 DEF Walk
<1>4. CASE MapBlock
  BY <1>0, <1>4 DEF MapBlock
<1>5. CASE walkL3
  BY <1>0, <1>5 DEF walkL3
<1>6. CASE OutOfTables
  BY <1>0, <1>6 DEF OutOfTables, Halt
<1>7. CASE Break
  BY <1>0, <1>7 DEF Break
<1>8. CASE Flush
  BY <1>0, <1>8 DEF Flush
<1>9. CASE Link
  BY <1>0, <1>9 DEF Link
<1>10. CASE MapPage
  BY <1>0, <1>10 DEF MapPage
<1>11. CASE EnableVttbr
  BY <1>0, <1>11 DEF EnableVttbr
<1>12. CASE EnableVm
  BY <1>0, <1>12 DEF EnableVm
<1>13. CASE TlbFlushAllGuest
  BY <1>0, <1>13 DEF TlbFlushAllGuest
<1>14. ASSUME NEW ipa \in WalkedPages, HardwareWalk(ipa) PROVE ControlInv'
  BY <1>0, <1>14 DEF HardwareWalk
<1>15. CASE UNCHANGED vars
  BY <1>0, <1>15 DEF vars
<1> QED BY <1>1, <1>2, <1>3, <1>4, <1>5, <1>6, <1>7, <1>8, <1>9, <1>10, <1>11, <1>12, <1>13, <1>14,
          <1>15, Zenon DEF Next

\* A step that is no store leaves the tables and the address space alone.
LEMMA NoStore ==
  ASSUME TablesInv, mem' = mem,
         \/ UNCHANGED <<op, pc, fresh>>
         \/ pc = "idle" /\ pc' = "walk" /\ fresh' = fresh
  PROVE  TablesInv' /\ View' = View /\ Kept
<1>1. Kept
  BY DEF Kept
<1>2. CASE UNCHANGED <<op, pc, fresh>>
  <2>1. Slot1' = Slot1 /\ Slot2' = Slot2
    BY <1>2 DEF Slot1, Slot2
  <2>2. TablesInv'
    BY <1>2, <2>1 DEF TablesInv, InSplit
  <2>3. ViewMem' = ViewMem
    BY <1>2 DEF ViewMem, SetSlot2, Slot1
  <2> QED BY <1>1, <2>2, <2>3, ViewIs
<1>3. CASE pc = "idle" /\ pc' = "walk" /\ fresh' = fresh
  <2>1. TablesInv'
    BY <1>3, Zenon DEF TablesInv, InSplit
  <2>2. ViewMem' = ViewMem
    BY <1>3 DEF ViewMem
  <2> QED BY <1>1, <2>1, <2>2, ViewIs
<1> QED BY <1>2, <1>3

\* The steps other than the stores that end a call, and the ones of a split,
\* keep the tables, the address space and every level 2 entry.
LEMMA QuietStep ==
  ASSUME TablesInv, ControlInv, [Next]_vars, ~MapBlock, ~MapPage, ~Break, ~Flush, ~Link
  PROVE  TablesInv' /\ View' = View /\ Kept
<1>1. CASE Call
  BY <1>1, NoStore DEF Call
<1>2. CASE LiveCall
  BY <1>2, NoStore DEF LiveCall
<1>3. CASE Walk
  BY <1>3, WalkStep
<1>4. CASE walkL3
  BY <1>4, WalkL3Step
<1>5. CASE OutOfTables
  BY <1>5, NoStore DEF OutOfTables, Halt
<1>6. CASE EnableVttbr
  BY <1>6, NoStore DEF EnableVttbr
<1>7. CASE EnableVm
  BY <1>7, NoStore DEF EnableVm
<1>8. CASE TlbFlushAllGuest
  BY <1>8, NoStore DEF TlbFlushAllGuest
<1>9. ASSUME NEW ipa \in WalkedPages, HardwareWalk(ipa) PROVE TablesInv' /\ View' = View /\ Kept
  BY <1>9, NoStore DEF HardwareWalk
<1>10. CASE UNCHANGED vars
  BY <1>10, NoStore DEF vars
<1> QED BY <1>1, <1>2, <1>3, <1>4, <1>5, <1>6, <1>7, <1>8, <1>9, <1>10 DEF Next

\* What every step does to the tables and to the address space.
LEMMA TablesStep ==
  ASSUME TablesInv, ControlInv, [Next]_vars
  PROVE  TablesInv' /\ (MapBlock \/ MapPage \/ View' = View)
<1>1. CASE MapBlock
  BY <1>1, MapBlockStep
<1>2. CASE MapPage
  BY <1>2, MapPageStep
<1>3. CASE Break
  BY <1>3, BreakStep
<1>4. CASE Flush
  BY <1>4, FlushStep
<1>5. CASE Link
  BY <1>5, LinkStep
<1>6. CASE ~MapBlock /\ ~MapPage /\ ~Break /\ ~Flush /\ ~Link
  BY <1>6, QuietStep
<1> QED BY <1>1, <1>2, <1>3, <1>4, <1>5, <1>6

\* Only granted pages are mapped.
LEMMA ConfinedStep ==
  ASSUME TablesInv, ControlInv, Confined, [Next]_vars
  PROVE  Confined'
<1>1. windows' = windows
  BY WindowsKept
<1>2. SUFFICES ASSUME NEW p \in GuestPages, View'[p].pa # -1 PROVE Granted(p, View'[p])
  <2>1. ASSUME NEW p, Granted(p, View'[p]) PROVE Granted(p, View[p])'
    BY <1>1, <2>1 DEF Granted
  <2> QED BY <2>1 DEF Confined
<1>3. ASSUME View'[p] = View[p] PROVE Granted(p, View'[p])
  BY <1>2, <1>3 DEF Confined
<1>4. CASE MapPage
  <2>1. op \in GoodCall /\ op.byPage
    BY <1>4 DEF ControlInv, MapPage
  <2>2. CASE p = op.ipa
    <3>1. Pages(op) = 1 /\ 0 \in 0 .. (1 - 1)
      BY <2>1 DEF Pages
    <3>2. Granted(op.ipa + 0, [pa |-> op.pa + 0, dev |-> op.dev])
      BY <2>1, <3>1, OpIs
    <3>3. op.ipa + 0 = op.ipa /\ op.pa + 0 = op.pa
      BY <2>1, OpIs, BlockOf
    <3> QED BY <1>4, <2>2, <3>2, <3>3, MapPageStep
  <2>3. CASE p # op.ipa
    BY <1>3, <1>4, <2>3, MapPageStep
  <2> QED BY <2>2, <2>3
<1>5. CASE MapBlock
  <2>1. op \in GoodCall /\ ~op.byPage
    BY <1>5 DEF ControlInv, MapBlock
  <2>2. CASE p \in op.ipa .. (op.ipa + L3 - 1)
    <3>1. p \in Nat /\ op.ipa \in Nat /\ L3 \in Nat /\ op.pa \in Nat
      BY <2>1, OpIs, BlockOf, Sizes
    <3> DEFINE k == p - op.ipa
    <3>2. k \in 0 .. (L3 - 1) /\ op.ipa + k = p
      BY <2>2, <3>1
    <3> HIDE DEF k
    <3>3. Pages(op) = L3
      BY <2>1 DEF Pages
    <3>4. Granted(op.ipa + k, [pa |-> op.pa + k, dev |-> op.dev])
      BY <2>1, <3>2, <3>3, OpIs
    <3>5. View'[p] = [pa |-> op.pa + k, dev |-> op.dev]
      BY <1>5, <2>2, MapBlockStep DEF k
    <3> QED BY <3>2, <3>4, <3>5
  <2>3. CASE p \notin op.ipa .. (op.ipa + L3 - 1)
    BY <1>3, <1>5, <2>3, MapBlockStep, Zenon
  <2> QED BY <2>2, <2>3
<1> QED BY <1>3, <1>4, <1>5, TablesStep
-----------------------------------------------------------------------------
(* The TLB.                                                                *)

\* Outside an entry that is out of use, View is what the tables say.
LEMMA ViewOutside ==
  ASSUME TablesInv, ControlInv, NEW p \in GuestPages, mem[0][RootIndex(p)].valid,
         D2(mem, RootIndex(p), L2_INDEX(p)) # Zero
  PROVE  View[p] = Seen(mem, p)
<1>1. View[p] = Seen(ViewMem, p)
  BY ViewIs
<1>2. CASE pc \in {"flush", "link"}
  <2> DEFINE i == RootIndex(op.ipa)
             j == L2_INDEX(op.ipa)
             mm == [mem EXCEPT ![T2(mem, i)][j] = TableDescriptor(fresh)]
  <2>1. /\ i \in Roots /\ j \in Entries2 /\ Slot1.valid /\ Slot2 = Zero /\ Tree(mem)
        /\ Spare(mem, fresh)
    BY <1>2, OpIs, Zenon DEF ControlInv, TablesInv, InSplit
  <2>2. Slot1 = mem[0][i] /\ Slot2 = D2(mem, i, j) /\ ViewMem = mm
    BY <1>2, SlotIs DEF ViewMem
  <2>3. RootIndex(p) # i \/ L2_INDEX(p) # j
    BY <2>1, <2>2
  <2> HIDE DEF i, j
  <2>4. mem[0][i].valid
    BY <2>1, <2>2
  <2>5. StoresEntry(mem, mm, i, j, TableDescriptor(fresh))
    BY <2>1, <2>4, LinkedEntry
  <2> HIDE DEF mm
  <2> QED BY <1>1, <2>2, <2>3, <2>5 DEF StoresEntry
<1>3. CASE pc \notin {"flush", "link"}
  BY <1>1, <1>3 DEF ViewMem
<1> QED BY <1>2, <1>3

\* The first page of a page's block.
LEMMA FirstOfBlock ==
  ASSUME NEW q \in GuestPages
  PROVE  LET a == q - L3_INDEX(q)
         IN  /\ a \in GuestPages /\ L3_INDEX(a) = 0 /\ q \in a .. (a + L3 - 1)
             /\ RootIndex(a) = RootIndex(q) /\ L2_INDEX(a) = L2_INDEX(q)
<1> DEFINE a == q - L3_INDEX(q)
<1>1. q \in Nat /\ L3 \in Nat /\ L3 > 0 /\ L3_INDEX(q) \in 0 .. (L3 - 1)
  BY BlockOf, Sizes DEF Entries3
<1>2. a \in 0 .. q /\ a % L3 = 0
  BY <1>1, RoundsDown DEF L3_INDEX
<1> HIDE DEF a
<1>3. a \in GuestPages /\ L3_INDEX(a) = 0
  BY <1>1, <1>2, Sizes DEF GuestPages, L3_INDEX
<1>4. q \in a .. (a + L3 - 1)
  <2>1. q = a + L3_INDEX(q)
    BY <1>1 DEF a
  <2> QED BY <1>1, <1>2, <2>1
<1>5. RootIndex(q) = RootIndex(a) /\ L2_INDEX(q) = L2_INDEX(a)
  BY <1>3, <1>4, InBlock
<1> QED BY <1>3, <1>4, <1>5 DEF a

\* What the hardware finds in the tables is what View says.
LEMMA WalkFinds ==
  ASSUME TablesInv, ControlInv, NEW q \in GuestPages, NEW e \in Lookup(mem, q)
  PROVE  /\ CachedOK(e)
         /\ \A p \in e.base .. (e.base + e.n - 1) : View[p] = [pa |-> e.pa + (p - e.base), dev |-> e.dev]
<1> DEFINE i == RootIndex(q)
           j == L2_INDEX(q)
           d == D2(mem, i, j)
           c == mem[d.addr][L3_INDEX(q)]
<1>1. i \in Roots /\ j \in Entries2 /\ L3_INDEX(q) \in Entries3 /\ Tree(mem)
  BY Indices, BlockOf DEF TablesInv
<1>2. mem[0][i].valid
  BY LookupIs, Zenon
<1>3. EntryOK(mem, d) /\ (pte_is_table(d) => LeafShape(mem[d.addr]))
  BY <1>1, <1>2, Reached, Zenon
<1>4. d # Zero
  BY <1>2, LookupIs, Zenon
<1>5. CASE d \in BlockEntry
  <2> DEFINE a == q - L3_INDEX(q)
  <2>1. e = [base |-> a, n |-> L3, pa |-> d.addr, dev |-> d.dev]
    <3>1. Lookup(mem, q) = {[base |-> a, n |-> L3, pa |-> d.addr, dev |-> d.dev]}
      BY <1>2, <1>5, LookupIs, Zenon
    <3> QED BY <3>1, Zenon
  <2>2. /\ a \in GuestPages /\ L3_INDEX(a) = 0 /\ RootIndex(a) = i /\ L2_INDEX(a) = j
    BY FirstOfBlock
  <2>3. e.base = a /\ e.n = L3 /\ e.pa = d.addr /\ e.dev = d.dev
    BY <2>1
  <2> HIDE DEF a
  <2>4. CachedOK(e)
    BY <1>2, <1>5, <2>2, <2>3, Zenon DEF CachedOK
  <2>5. ASSUME NEW p \in a .. (a + L3 - 1) PROVE View[p] = [pa |-> d.addr + (p - a), dev |-> d.dev]
    <3>1. p \in GuestPages /\ RootIndex(p) = i /\ L2_INDEX(p) = j /\ L3_INDEX(p) = p - a
      BY <2>2, InBlock
    <3>2. View[p] = Seen(mem, p)
      BY <1>2, <1>4, <3>1, ViewOutside
    <3>3. Seen(mem, p) = [pa |-> d.addr + L3_INDEX(p), dev |-> d.dev]
      BY <1>2, <1>5, <3>1, SeenIs, Zenon
    <3> QED BY <3>1, <3>2, <3>3
  <2> QED BY <2>3, <2>4, <2>5, Zenon
<1>6. CASE pte_is_table(d)
  <2>1. c.valid
    BY <1>2, <1>6, LookupIs, Zenon
  <2>2. e = [base |-> q, n |-> 1, pa |-> c.addr, dev |-> c.dev]
    <3>1. Lookup(mem, q) = {[base |-> q, n |-> 1, pa |-> c.addr, dev |-> c.dev]}
      BY <1>2, <1>6, <2>1, LookupIs, Zenon
    <3> QED BY <3>1, Zenon
  <2>3. c \in PageEntry
    BY <1>1, <1>3, <1>6, <2>1, ZeroKind, Zenon DEF LeafShape
  <2>4. e.base = q /\ e.n = 1 /\ e.pa = c.addr /\ e.dev = c.dev
    BY <2>2, Zenon
  <2>5. CachedOK(e)
    BY <1>2, <1>6, <2>4, Zenon DEF CachedOK
  <2>6. q \in Nat /\ c.addr \in Nat
    BY <2>3, BlockOf, PageKind
  <2>7. View[q] = [pa |-> c.addr, dev |-> c.dev]
    <3>1. View[q] = Seen(mem, q)
      BY <1>2, <1>4, ViewOutside
    <3> QED BY <1>2, <1>6, <2>3, <3>1, SeenIs, Zenon
  <2> HIDE DEF c
  <2>8. \A p \in q .. (q + 1 - 1) : p = q /\ c.addr + (p - q) = c.addr
    BY <2>6
  <2> QED BY <2>4, <2>5, <2>7, <2>8
<1> QED BY <1>3, <1>4, <1>5, <1>6, EntryKinds, Zenon DEF EntryOK

\* A cached translation is one of pages of the guest.
LEMMA CachedPages ==
  ASSUME NEW e, CachedOK(e), NEW p \in e.base .. (e.base + e.n - 1)
  PROVE  p \in GuestPages
<1>1. CASE e.n = 1
  <2>1. e.base \in GuestPages /\ e.base \in Nat
    BY BlockOf DEF CachedOK
  <2>2. p = e.base
    BY <1>1, <2>1
  <2> QED BY <2>1, <2>2
<1>2. CASE e.n = L3 /\ L3_INDEX(e.base) = 0
  <2>1. e.base \in GuestPages /\ p \in e.base .. (e.base + L3 - 1)
    BY <1>2 DEF CachedOK
  <2> QED BY <1>2, <2>1, InBlock
<1> QED BY <1>1, <1>2 DEF CachedOK

\* Steps that keep every level 2 entry keep the kinds of cached translations.
LEMMA KeptTlb ==
  ASSUME TlbInv, Kept, tlb' = tlb, ready' = ready, pc # "flush"
  PROVE  TlbInv'
<1> SUFFICES ASSUME ready, NEW e \in tlb PROVE CachedOK(e)'
  BY DEF TlbInv
<1>1. CachedOK(e)
  BY DEF TlbInv
<1>2. e.base \in GuestPages /\ RootIndex(e.base) \in Roots /\ L2_INDEX(e.base) \in Entries2
  BY <1>1, Indices, Zenon DEF CachedOK
<1>3. mem'[0][RootIndex(e.base)].valid
      /\ D2(mem', RootIndex(e.base), L2_INDEX(e.base)) = D2(mem, RootIndex(e.base), L2_INDEX(e.base))
  BY <1>1, <1>2, Zenon DEF Kept, CachedOK
<1> QED BY <1>1, <1>2, <1>3 DEF CachedOK

\* Break: a translation of the block that is split may stay until the flush,
\* and no page of it is cached.
LEMMA BreakTlb ==
  ASSUME TablesInv, ControlInv, TlbInv, Break
  PROVE  TlbInv'
<1> DEFINE i == RootIndex(op.ipa)
           j == L2_INDEX(op.ipa)
<1>1. pc = "break" /\ pc' = "flush" /\ op' = op /\ tlb' = tlb /\ ready' = ready /\ Slot2 \in BlockEntry
  BY Zenon DEF Break, TablesInv
<1>2. Slot2 = D2(mem, i, j)
  BY SlotIs
<1>3. /\ mem'[0] = mem[0]
      /\ \A k \in Roots, l \in Entries2 :
           mem[0][k].valid /\ (k # i \/ l # j) => D2(mem', k, l) = D2(mem, k, l)
  BY BreakStep DEF StoresEntry
<1> SUFFICES ASSUME ready, NEW e \in tlb PROVE CachedOK(e)'
  BY <1>1 DEF TlbInv
<1> DEFINE k == RootIndex(e.base)
           l == L2_INDEX(e.base)
<1>4. CachedOK(e)
  BY DEF TlbInv
<1>5. e.base \in GuestPages /\ k \in Roots /\ l \in Entries2 /\ mem[0][k].valid
  BY <1>4, Indices DEF CachedOK
<1>6. CASE k = i /\ l = j
  <2>1. D2(mem, k, l) \in BlockEntry /\ ~pte_is_table(D2(mem, k, l))
    BY <1>1, <1>2, <1>6, BlockKind
  <2>2. e.n = L3 /\ L3_INDEX(e.base) = 0
    BY <1>4, <2>1 DEF CachedOK
  <2> QED BY <1>1, <1>3, <1>5, <1>6, <2>2 DEF CachedOK
<1>7. CASE k # i \/ l # j
  <2>1. D2(mem', k, l) = D2(mem, k, l)
    BY <1>3, <1>5, <1>7, ZenonT(30)
  <2> QED BY <1>1, <1>3, <1>4, <1>5, <2>1, Zenon DEF CachedOK
<1> QED BY <1>6, <1>7

\* Link: nothing of the block is cached any more.
LEMMA LinkTlb ==
  ASSUME TablesInv, ControlInv, TlbInv, Link
  PROVE  TlbInv'
<1> DEFINE i == RootIndex(op.ipa)
           j == L2_INDEX(op.ipa)
<1>1. pc = "link" /\ pc' = "page" /\ op' = op /\ tlb' = tlb /\ ready' = ready /\ Slot2 = Zero
  BY DEF Link, TablesInv
<1>2. Slot2 = D2(mem, i, j)
  BY SlotIs
<1>3. /\ mem'[0] = mem[0]
      /\ \A k \in Roots, l \in Entries2 :
           mem[0][k].valid /\ (k # i \/ l # j) => D2(mem', k, l) = D2(mem, k, l)
  BY LinkStep DEF StoresEntry
<1> SUFFICES ASSUME ready, NEW e \in tlb PROVE CachedOK(e)'
  BY <1>1 DEF TlbInv
<1> DEFINE k == RootIndex(e.base)
           l == L2_INDEX(e.base)
<1>4. CachedOK(e)
  BY DEF TlbInv
<1>5. e.base \in GuestPages /\ k \in Roots /\ l \in Entries2 /\ mem[0][k].valid
  BY <1>4, Indices DEF CachedOK
<1>6. CASE k = i /\ l = j
  <2>1. D2(mem, k, l) \notin BlockEntry /\ ~pte_is_table(D2(mem, k, l))
    BY <1>1, <1>2, <1>6, BlockKind, ZeroKind, ZenonT(30)
  <2> QED BY <1>1, <1>4, <2>1 DEF CachedOK
<1>7. CASE k # i \/ l # j
  <2>1. D2(mem', k, l) = D2(mem, k, l)
    BY <1>3, <1>5, <1>7
  <2> QED BY <1>1, <1>3, <1>4, <1>5, <2>1 DEF CachedOK
<1> QED BY <1>6, <1>7

\* The hardware caches what it finds.
LEMMA HardwareTlb ==
  ASSUME TablesInv, ControlInv, TlbInv, NEW ipa \in WalkedPages, HardwareWalk(ipa)
  PROVE  TlbInv'
<1>1. UNCHANGED <<mem, op, pc, ready>> /\ tlb' = tlb \cup Lookup(mem, ipa) /\ ipa \in GuestPages
  BY RangeAssumption DEF HardwareWalk
<1> SUFFICES ASSUME ready, NEW e \in tlb' PROVE CachedOK(e)'
  BY <1>1 DEF TlbInv
<1>2. CachedOK(e)
  BY <1>1, WalkFinds, Zenon DEF TlbInv
<1> QED BY <1>1, <1>2 DEF CachedOK

\* A cached translation has the kind of the entry it came from.
LEMMA TlbStep ==
  ASSUME TablesInv, ControlInv, TlbInv, [Next]_vars
  PROVE  TlbInv'
<1>1. CASE Call
  <2>1. ~ready /\ ready' = ready
    BY <1>1 DEF Call, ControlInv
  <2> QED BY <2>1 DEF TlbInv
<1>2. CASE LiveCall
  <2>1. Kept /\ tlb' = tlb /\ ready' = ready /\ pc # "flush"
    BY <1>2 DEF LiveCall, Kept
  <2> QED BY <2>1, KeptTlb
<1>3. CASE Walk
  BY <1>3, WalkStep, KeptTlb DEF Walk
<1>4. CASE MapBlock
  <2>1. ~ready /\ ready' = ready
    BY <1>4 DEF MapBlock, ControlInv
  <2> QED BY <2>1 DEF TlbInv
<1>5. CASE walkL3
  BY <1>5, WalkL3Step, KeptTlb DEF walkL3
<1>6. CASE OutOfTables
  <2>1. Kept /\ tlb' = tlb /\ ready' = ready /\ pc # "flush"
    BY <1>6 DEF OutOfTables, Halt, Kept
  <2> QED BY <2>1, KeptTlb
<1>7. CASE Break
  BY <1>7, BreakTlb
<1>8. CASE Flush
  <2>1. ready' => tlb' = {}
    BY <1>8 DEF Flush, ControlInv
  <2> QED BY <2>1 DEF TlbInv
<1>9. CASE Link
  BY <1>9, LinkTlb
<1>10. CASE MapPage
  BY <1>10, MapPageStep, KeptTlb DEF MapPage
<1>11. CASE EnableVttbr \/ EnableVm
  <2>1. ~ready /\ ready' = ready
    BY <1>11 DEF EnableVttbr, EnableVm, ControlInv
  <2> QED BY <2>1 DEF TlbInv
<1>12. CASE TlbFlushAllGuest
  BY <1>12 DEF TlbFlushAllGuest, TlbInv
<1>13. ASSUME NEW ipa \in WalkedPages, HardwareWalk(ipa) PROVE TlbInv'
  BY <1>13, HardwareTlb
<1>14. CASE UNCHANGED vars
  BY <1>14, Zenon DEF vars, TlbInv, CachedOK
<1> QED BY <1>1, <1>2, <1>3, <1>4, <1>5, <1>6, <1>7, <1>8, <1>9, <1>10, <1>11, <1>12, <1>13, <1>14
     DEF Next

\* A page whose translation changes under a running guest is one that was
\* mapped again; all the others keep agreeing with the TLB.
LEMMA SeesStep ==
  ASSUME TablesInv, ControlInv, TlbInv, GuestSeesTables, [Next]_vars
  PROVE  GuestSeesTables'
<1> DEFINE Range1(e) == e.base .. (e.base + e.n - 1)
           Says(e, p) == [pa |-> e.pa + (p - e.base), dev |-> e.dev]
<1>1. remapped \subseteq remapped'
  BY Zenon DEF Next, vars, Call, LiveCall, Walk, MapBlock, walkL3, OutOfTables, Halt, Break, Flush, Link,
         MapPage, EnableVttbr, EnableVm, TlbFlushAllGuest, HardwareWalk
<1>2. ASSUME View' = View, ready' => ready, tlb' \subseteq tlb PROVE GuestSeesTables'
  BY <1>1, <1>2, Zenon DEF GuestSeesTables
<1>3. ASSUME ~ready' PROVE GuestSeesTables'
  BY <1>3, Zenon DEF GuestSeesTables
<1>4. CASE MapPage
  <2>1. UNCHANGED <<tlb, ready, remapped>> /\ (ready => op.ipa \in remapped)
    BY <1>4 DEF MapPage, ControlInv
  <2>2. \A p \in GuestPages : p # op.ipa => View'[p] = View[p]
    BY <1>4, MapPageStep
  <2>3. SUFFICES ASSUME ready, NEW e \in tlb, NEW p \in Range1(e) \ remapped PROVE View'[p] = Says(e, p)
    BY <2>1, Zenon DEF GuestSeesTables
  <2>4. View[p] = Says(e, p)
    BY <2>3 DEF GuestSeesTables
  <2>5. p \in GuestPages /\ p # op.ipa
    BY <2>1, <2>3, CachedPages DEF TlbInv
  <2> QED BY <2>2, <2>4, <2>5
<1>5. CASE MapBlock
  <2>1. ~ready'
    BY <1>5 DEF MapBlock, ControlInv
  <2> QED BY <1>3, <2>1
<1>6. CASE TlbFlushAllGuest
  BY <1>6, Zenon DEF TlbFlushAllGuest, GuestSeesTables
<1>7. ASSUME NEW ipa \in WalkedPages, HardwareWalk(ipa) PROVE GuestSeesTables'
  <2>1. UNCHANGED <<ready, remapped>> /\ tlb' = tlb \cup Lookup(mem, ipa) /\ ipa \in GuestPages
    BY <1>7, RangeAssumption DEF HardwareWalk
  <2>2. View' = View
    BY <1>7, NoStore DEF HardwareWalk
  <2>3. \A e \in Lookup(mem, ipa) : \A p \in Range1(e) : View[p] = Says(e, p)
    BY <2>1, WalkFinds, Zenon
  <2> QED BY <2>1, <2>2, <2>3, ZenonT(30) DEF GuestSeesTables
<1>8. CASE ~MapPage /\ ~MapBlock /\ ~TlbFlushAllGuest /\ ~(\E ipa \in WalkedPages : HardwareWalk(ipa))
  <2>1. View' = View
    BY <1>8, TablesStep
  <2>2. (ready' => ready) /\ tlb' \subseteq tlb
    BY <1>8 DEF Next, vars, Call, LiveCall, Walk, walkL3, OutOfTables, Halt, Break, Flush, Link,
                EnableVttbr, EnableVm
  <2> QED BY <1>2, <2>1, <2>2
<1> QED BY <1>4, <1>5, <1>6, <1>7, <1>8
-----------------------------------------------------------------------------
(* Theorems.                                                               *)

\* The inductive invariant: the tables are a tree, in a split the block's entry
\* is out of use until its pages are complete, the calls made are good ones in
\* the order of the constructor and Enable, and the TLB agrees with the tables.
THEOREM MmuInvHolds == Spec => []MmuInv
<1>1. Init => MmuInv
  BY InitMmu
<1>2. MmuInv /\ [Next]_vars => MmuInv'
  <2> SUFFICES ASSUME MmuInv, [Next]_vars PROVE MmuInv'
    OBVIOUS
  <2>1. TablesInv /\ ControlInv /\ Confined /\ TlbInv /\ GuestSeesTables
    BY DEF MmuInv
  <2>2. TablesInv'
    BY <2>1, TablesStep
  <2>3. ControlInv'
    BY <2>1, ControlStep
  <2>4. Confined'
    BY <2>1, ConfinedStep
  <2>5. TlbInv'
    BY <2>1, TlbStep
  <2>6. GuestSeesTables'
    BY <2>1, SeesStep
  <2> QED BY <2>2, <2>3, <2>4, <2>5, <2>6 DEF MmuInv
<1> QED BY <1>1, <1>2, PTL DEF Spec

\* A step allocates at most one table, and none when the page allocator has no
\* page left.
LEMMA DomainStep ==
  ASSUME [Next]_vars
  PROVE  /\ \/ DOMAIN mem' = DOMAIN mem
            \/ ~Exhausted /\ DOMAIN mem' = DOMAIN mem \cup {AllocTable}
         /\ fresh' = fresh \/ fresh' \in DOMAIN mem'
<1>1. CASE Walk
  BY <1>1 DEF Walk, WithTable
<1>2. CASE walkL3
  <2>1. CASE UNCHANGED <<mem, fresh>>
    BY <2>1
  <2>2. ASSUME NEW f, ~Exhausted, fresh' = AllocTable, mem' = WithTable(mem, AllocTable, f)
        PROVE  ~Exhausted /\ DOMAIN mem' = DOMAIN mem \cup {AllocTable} /\ fresh' \in DOMAIN mem'
    BY <2>2 DEF WithTable
  <2> QED BY <1>2, <2>1, <2>2, Zenon DEF walkL3
<1>3. CASE MapBlock \/ Break \/ Link
  BY <1>3 DEF MapBlock, Break, Link, SetSlot2
<1>4. CASE MapPage
  BY <1>4 DEF MapPage
<1>5. CASE ~Walk /\ ~walkL3 /\ ~MapBlock /\ ~Break /\ ~Link /\ ~MapPage
  BY <1>5 DEF Next, vars, Call, LiveCall, OutOfTables, Halt, Flush, EnableVttbr, EnableVm,
              TlbFlushAllGuest, HardwareWalk
<1> QED BY <1>1, <1>2, <1>3, <1>4, <1>5

\* What the types need beside the invariant.
BoundInv == fresh \in DOMAIN mem /\ remapped \subseteq GuestPages /\ AllocTable <= MaxTables + 1

\* The tables never outgrow the pages there are for them.
LEMMA BoundStep ==
  ASSUME MmuInv, MmuInv', BoundInv, [Next]_vars
  PROVE  BoundInv'
<1>1. /\ AllocTable \in Nat /\ DOMAIN mem = 0 .. (AllocTable - 1) /\ MaxTables \in Nat
      /\ \E n \in Nat : DOMAIN mem' = 0 .. (n - 1)
  BY NextTable, GuestMmuAssumption DEF MmuInv, TablesInv
<1>2. fresh' \in DOMAIN mem'
  BY DomainStep DEF BoundInv
<1>3. remapped' \subseteq GuestPages
  <2>1. CASE LiveCall
    <3>1. op'.ipa \in GuestPages
      BY <2>1, LiveGood, OpIs DEF LiveCall
    <3> QED BY <2>1, <3>1 DEF LiveCall, BoundInv
  <2>2. CASE ~LiveCall
    BY <2>2, Zenon DEF BoundInv, Next, vars, Call, Walk, MapBlock, walkL3, OutOfTables, Halt, Break, Flush,
                Link, MapPage, EnableVttbr, EnableVm, TlbFlushAllGuest, HardwareWalk
  <2> QED BY <2>1, <2>2
<1>4. AllocTable' <= MaxTables + 1
  <2>1. CASE DOMAIN mem' = DOMAIN mem
    <3>1. AllocTable' = AllocTable
      BY <2>1 DEF AllocTable
    <3> QED BY <3>1 DEF BoundInv
  <2>2. CASE ~Exhausted /\ DOMAIN mem' = DOMAIN mem \cup {AllocTable}
    <3> DEFINE n == AllocTable
    <3>1. n <= MaxTables
      BY <1>1, <2>2 DEF Exhausted
    <3>2. DOMAIN mem' = 0 .. n
      <4>1. n \in Nat /\ DOMAIN mem' = (0 .. (n - 1)) \cup {n}
        BY <1>1, <2>2
      <4> HIDE DEF n
      <4> QED BY <4>1
    <3>3. AllocTable' = Cardinality(0 .. n)
      BY <3>2 DEF AllocTable
    <3> HIDE DEF n
    <3>4. Cardinality(0 .. n) = n + 1
      BY <1>1, FS_Interval DEF n
    <3> QED BY <1>1, <3>1, <3>3, <3>4 DEF n
  <2> QED BY <2>1, <2>2, DomainStep
<1> QED BY <1>2, <1>3, <1>4 DEF BoundInv

\* Type correctness: every table descriptor names an allocated table of the
\* next level's size, and there are never more tables than pages for them.
THEOREM MmuTypeCorrect == Spec => []TypeOK
<1>1. Init => BoundInv
  <2> SUFFICES ASSUME Init PROVE BoundInv
    OBVIOUS
  <2>1. DOMAIN mem = {0}
    BY DEF Init
  <2>2. Cardinality({0}) = 1
    BY FS_Singleton
  <2>3. AllocTable = 1 /\ MaxTables \in Nat
    BY <2>1, <2>2, GuestMmuAssumption DEF AllocTable
  <2> QED BY <2>1, <2>3 DEF Init, BoundInv
<1>2. MmuInv /\ MmuInv' /\ BoundInv /\ [Next]_vars => BoundInv'
  BY BoundStep
<1>3. MmuInv /\ BoundInv => TypeOK
  <2> SUFFICES ASSUME MmuInv, BoundInv PROVE TypeOK
    OBVIOUS
  <2>1. TablesInv /\ ControlInv /\ Tree(mem)
    BY DEF MmuInv, TablesInv
  <2>2. ASSUME NEW i \in Roots, mem[0][i].valid
        PROVE  /\ mem[0][i].addr \in DOMAIN mem \ {0}
               /\ DOMAIN mem[mem[0][i].addr] = Entries2
               /\ \A j \in Entries2 :
                    LET d == mem[mem[0][i].addr][j]
                    IN  pte_is_table(d) => d.addr \in DOMAIN mem \ {0} /\ DOMAIN mem[d.addr] = Entries3
    <3>1. T2(mem, i) \in DOMAIN mem \ {0} /\ DOMAIN mem[T2(mem, i)] = Entries2
      <4>1. T2(mem, i) \in DOMAIN mem \ {0} /\ mem[T2(mem, i)] = [j \in Entries2 |-> mem[T2(mem, i)][j]]
        BY <2>1, <2>2, Reached, Zenon
      <4> QED BY <4>1
    <3>2. ASSUME NEW j \in Entries2, pte_is_table(D2(mem, i, j))
          PROVE  D2(mem, i, j).addr \in DOMAIN mem \ {0} /\ DOMAIN mem[D2(mem, i, j).addr] = Entries3
      <4>1. D2(mem, i, j).addr \in DOMAIN mem \ {0} /\ LeafShape(mem[D2(mem, i, j).addr])
        BY <2>1, <2>2, <3>2, Reached, Zenon
      <4> QED BY <4>1 DEF LeafShape
    <3> QED BY <3>1, <3>2 DEF T2, D2
  <2>3. DOMAIN mem = 0 .. (AllocTable - 1)
    BY <2>1, NextTable
  <2> QED BY <2>1, <2>2, <2>3, Zenon DEF TypeOK, ControlInv, BoundInv, Roots, Entries2, Entries3
<1> QED BY <1>1, <1>2, <1>3, MmuInvHolds, PTL DEF Spec

\* The guest reaches guest RAM, the windows it was given and the pages mapped
\* for it while it runs, each as it was given, and nothing else.
THEOREM GuestConfined == Spec => []Confined
<1>1. MmuInv => Confined
  BY DEF MmuInv
<1> QED BY <1>1, MmuInvHolds, PTL

\* Once Enable has returned, every translation the hardware holds is the one
\* the tables give, but for pages mapped again since.
THEOREM TlbAgrees == Spec => []GuestSeesTables
<1>1. MmuInv => GuestSeesTables
  BY DEF MmuInv
<1> QED BY <1>1, MmuInvHolds, PTL

\* A block and a page that are both cached do not overlap.
LEMMA BlockAndPageApart ==
  ASSUME TablesInv, NEW e, CachedOK(e), e.n = L3, NEW f, CachedOK(f), f.n = 1
  PROVE  e.base + e.n <= f.base \/ f.base + f.n <= e.base
<1>1. /\ e.base \in GuestPages /\ f.base \in GuestPages
      /\ e.base \in Nat /\ f.base \in Nat /\ L3 \in Nat /\ L3 > 1
  BY BlockOf, Sizes DEF CachedOK
<1>2. SUFFICES ASSUME f.base \in e.base .. (e.base + L3 - 1) PROVE FALSE
  BY <1>1
<1> DEFINE i == RootIndex(e.base)
           j == L2_INDEX(e.base)
<1>3. /\ L3_INDEX(e.base) = 0
      /\ D2(mem, i, j) \in BlockEntry \/ (pc = "flush" /\ i = RootIndex(op.ipa) /\ j = L2_INDEX(op.ipa))
  BY <1>1 DEF CachedOK
<1>4. RootIndex(f.base) = i /\ L2_INDEX(f.base) = j
  BY <1>1, <1>2, <1>3, InBlock
<1>5. pte_is_table(D2(mem, i, j))
  BY <1>1, <1>4 DEF CachedOK
<1>6. D2(mem, i, j) \notin BlockEntry
  BY <1>5, BlockKind
<1>7. D2(mem, i, j) = Zero
  BY <1>3, <1>6, SlotIs DEF TablesInv
<1> QED BY <1>5, <1>7, ZeroKind

\* Splitting a block under a running guest never leaves the hardware with a
\* block and a page translation for the same address.
THEOREM TlbNeverConflicts == Spec => []NoTlbConflict
<1>1. MmuInv => NoTlbConflict
  <2> SUFFICES ASSUME MmuInv, ready, NEW e \in tlb, NEW f \in tlb, e.n # f.n
               PROVE  e.base + e.n <= f.base \/ f.base + f.n <= e.base
    BY DEF NoTlbConflict
  <2>1. TablesInv /\ CachedOK(e) /\ CachedOK(f)
    BY DEF MmuInv, TlbInv
  <2>2. (e.n = L3 /\ f.n = 1) \/ (e.n = 1 /\ f.n = L3)
    BY <2>1, Zenon DEF CachedOK
  <2> QED BY <2>1, <2>2, BlockAndPageApart
<1> QED BY <1>1, MmuInvHolds, PTL

\* A step maps the pages of a call, or changes no translation.
LEMMA PromiseStep ==
  ASSUME MmuInv, [Next]_vars
  PROVE  [Promise!ANext]_View
<1> USE DEF Promise!ANext, Promise!Assign, Promise!Targets, Promise!Unmapped
<1>1. TablesInv /\ ControlInv
  BY DEF MmuInv
<1>2. CASE MapPage
  <2>1. op \in GoodCall
    BY <1>1, <1>2 DEF ControlInv, MapPage
  <2>2. /\ op.ipa \in GuestPages /\ op.ipa \in Nat /\ op.pa \in HostPages /\ op.pa \in Nat
        /\ op.dev \in BOOLEAN
    BY <2>1, OpIs, BlockOf
  <2>3. /\ View'[op.ipa] = [pa |-> op.pa, dev |-> op.dev]
        /\ \A p \in GuestPages : p # op.ipa => View'[p] = View[p]
    BY <1>1, <1>2, MapPageStep
  <2>4. Promise!Assign(op.ipa, 1)
    <3>1. View'[op.ipa] \in Promise!Targets \ {Promise!Unmapped}
      BY <2>2, <2>3
    <3>2. ASSUME NEW p \in GuestPages
          PROVE  View'[p] = IF p \in op.ipa .. (op.ipa + 1 - 1)
                            THEN [View'[op.ipa] EXCEPT !.pa = @ + (p - op.ipa)] ELSE View[p]
      <4>1. p \in op.ipa .. (op.ipa + 1 - 1) <=> p = op.ipa
        BY <2>2
      <4>2. CASE p = op.ipa
        <5>1. op.pa + (p - op.ipa) = op.pa
          BY <2>2, <4>2
        <5>2. [View'[op.ipa] EXCEPT !.pa = @ + (p - op.ipa)] = [pa |-> op.pa, dev |-> op.dev]
          BY <2>3, <5>1
        <5> QED BY <2>3, <4>1, <4>2, <5>2
      <4>3. CASE p # op.ipa
        BY <2>3, <4>1, <4>3
      <4> QED BY <4>2, <4>3
    <3> QED BY <3>1, <3>2
  <2> QED BY <2>2, <2>4, Zenon
<1>3. CASE MapBlock
  <2>1. op \in GoodCall
    BY <1>1, <1>3 DEF ControlInv, MapBlock
  <2>2. /\ op.ipa \in GuestPages /\ op.ipa \in Nat /\ op.pa \in HostPages /\ op.pa \in Nat
        /\ op.dev \in BOOLEAN /\ L3 \in Nat /\ L3 > 1
    BY <2>1, OpIs, BlockOf, Sizes
  <2>3. \A p \in GuestPages :
          View'[p] = IF p \in op.ipa .. (op.ipa + L3 - 1)
                     THEN [pa |-> op.pa + (p - op.ipa), dev |-> op.dev] ELSE View[p]
    BY <1>1, <1>3, MapBlockStep
  <2>4. View'[op.ipa] = [pa |-> op.pa, dev |-> op.dev]
    <3>1. op.ipa \in op.ipa .. (op.ipa + L3 - 1) /\ op.pa + (op.ipa - op.ipa) = op.pa
      BY <2>2
    <3> QED BY <2>2, <2>3, <3>1
  <2>5. Promise!Assign(op.ipa, L3)
    <3>1. View'[op.ipa] \in Promise!Targets \ {Promise!Unmapped}
      BY <2>2, <2>4
    <3>2. ASSUME NEW p \in GuestPages
          PROVE  View'[p] = IF p \in op.ipa .. (op.ipa + L3 - 1)
                            THEN [View'[op.ipa] EXCEPT !.pa = @ + (p - op.ipa)] ELSE View[p]
      <4>1. [View'[op.ipa] EXCEPT !.pa = @ + (p - op.ipa)] = [pa |-> op.pa + (p - op.ipa), dev |-> op.dev]
        BY <2>4
      <4> QED BY <2>3, <4>1
    <3> QED BY <3>1, <3>2
  <2> QED BY <2>2, <2>5, Zenon
<1>4. CASE View' = View
  BY <1>4
<1> QED BY <1>1, <1>2, <1>3, <1>4, TablesStep

\* The tables implement the address space: every mapping call changes the
\* translation of the pages it names and no other, and creating tables or
\* splitting a block changes none.
THEOREM TablesImplementAddressSpace == Spec => KeepsPromise
<1>1. Init => Promise!AInit
  BY InitTables DEF Promise!AInit, Promise!Unmapped, Unmapped
<1>2. MmuInv /\ [Next]_vars => [Promise!ANext]_View
  BY PromiseStep
<1> QED BY <1>1, <1>2, MmuInvHolds, PTL DEF Spec, KeepsPromise, Promise!ASpec
=============================================================================
