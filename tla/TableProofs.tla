---------------------------- MODULE TableProofs -----------------------------
(***************************************************************************)
(* Lemmas about the stage-2 tables, for tables of any size.  The tables    *)
(* are a tree (Tree); then each store changes the translation of the pages *)
(* below its slot and of no other.  Indices come first: which pages share  *)
(* a slot.                                                                 *)
(***************************************************************************)
EXTENDS GuestMmu, CommonLemmas, TLAPS

\* How long, in seconds, a leaf may take where it does not say otherwise.
USE SMTT(20), ZenonT(20)

-----------------------------------------------------------------------------
(* The shape of the tables.                                                *)

BlockEntry == [valid : {TRUE}, table : {FALSE}, addr : Nat, dev : BOOLEAN]
PageEntry == [valid : {TRUE}, table : {TRUE}, addr : Nat, dev : BOOLEAN]

Roots == 0 .. (L1 - 1)
Entries2 == 0 .. (L2 - 1)
Entries3 == 0 .. (L3 - 1)

\* The level 2 table of root entry i, and its entry j.
T2(m, i) == m[0][i].addr
D2(m, i, j) == m[m[0][i].addr][j]

LeafShape(f) ==
  /\ f = [l \in Entries3 |-> f[l]]
  /\ \A l \in Entries3 : f[l] = Zero \/ f[l] \in PageEntry

\* Table t is not a level 2 table.
NotLevel2(m, t) ==
  t \in DOMAIN m \ {0} /\ \A i \in Roots : m[0][i].valid => T2(m, i) # t

\* No entry names table t.
Unused(m, t) ==
  /\ NotLevel2(m, t)
  /\ \A i \in Roots, j \in Entries2 : m[0][i].valid /\ pte_is_table(D2(m, i, j)) => D2(m, i, j).addr # t

Spare(m, t) == Unused(m, t) /\ LeafShape(m[t])

RootOK(m, i) ==
  \/ m[0][i] = Zero
  \/ /\ m[0][i] = TableDescriptor(T2(m, i))
     /\ T2(m, i) \in DOMAIN m \ {0}
     /\ m[T2(m, i)] = [j \in Entries2 |-> m[T2(m, i)][j]]

EntryOK(m, d) ==
  \/ d = Zero
  \/ d \in BlockEntry
  \/ d = TableDescriptor(d.addr) /\ NotLevel2(m, d.addr) /\ LeafShape(m[d.addr])

\* The tables are a tree of three levels: every table is named by at most one
\* entry, and a level 3 table holds pages only.
Tree(m) ==
  /\ m = [t \in DOMAIN m |-> m[t]] /\ 0 \in DOMAIN m
  /\ m[0] = [i \in Roots |-> m[0][i]]
  /\ \A i \in Roots : RootOK(m, i)
  /\ \A i, k \in Roots : m[0][i].valid /\ m[0][k].valid /\ T2(m, i) = T2(m, k) => i = k
  /\ \A i \in Roots, j \in Entries2 : m[0][i].valid => EntryOK(m, D2(m, i, j))
  /\ \A i, k \in Roots, j, l \in Entries2 :
       /\ m[0][i].valid /\ m[0][k].valid
       /\ pte_is_table(D2(m, i, j)) /\ pte_is_table(D2(m, k, l))
       /\ D2(m, i, j).addr = D2(m, k, l).addr
       => i = k /\ j = l

-----------------------------------------------------------------------------
(* Indices.                                                                *)

\* The quotient by a product is a quotient of quotients.
LEMMA QuotientOfQuotient ==
  ASSUME NEW x \in Nat, NEW a \in Nat, a > 0, NEW b \in Nat, b > 0
  PROVE  x \div (a * b) = (x \div b) \div a /\ a * b \in Nat /\ a * b > 0
<1> DEFINE q == x \div b
           r == x % b
           s == q \div a
           t == q % a
           ab == a * b
           tb == t * b
<1>1. q \in Nat /\ r \in 0 .. (b - 1) /\ x = q * b + r
  BY Quotient
<1>2. s \in Nat /\ t \in 0 .. (a - 1) /\ q = s * a + t
  <2> HIDE DEF q
  <2> QED BY <1>1, Quotient
<1> HIDE DEF q, r, s, t
<1>3. x = s * (a * b) + (t * b + r)
  BY <1>1, <1>2
<1>4. /\ tb \in Nat /\ ab \in Nat /\ tb <= (a - 1) * b /\ (a - 1) * b = ab - b /\ ab >= b
  BY <1>1, <1>2, TimesOrder
<1>5. x = s * ab + (tb + r)
  BY <1>3
<1> HIDE DEF ab, tb
<1>6. tb + r \in 0 .. (ab - 1) /\ ab > 0
  BY <1>1, <1>4
<1>7. x \div ab = s
  BY <1>2, <1>4, <1>5, <1>6, QuotientIs
<1> QED BY <1>4, <1>6, <1>7 DEF ab, s, q

\* The constants, one by one.
LEMMA Sizes ==
  /\ L1 \in Nat /\ L1 > 0 /\ L2 \in Nat /\ L2 > 0 /\ L3 \in Nat /\ L3 > 1
  /\ L1 * L2 * L3 \in Nat /\ L1 * L2 * L3 = (L1 * L2) * L3
  BY GuestMmuAssumption

\* The index of the block of a page is below L1 * L2.
LEMMA BlockOf ==
  ASSUME NEW p \in GuestPages
  PROVE  /\ p \in Nat /\ p \div L3 \in 0 .. (L1 * L2 - 1)
         /\ L3_INDEX(p) \in Entries3 /\ p = (p \div L3) * L3 + L3_INDEX(p)
<1> DEFINE q == p \div L3
           n == L1 * L2
<1>1. p \in Nat /\ p < n * L3 /\ n \in Nat
  BY Sizes DEF GuestPages
<1>2. q \in Nat /\ p % L3 \in 0 .. (L3 - 1) /\ p = q * L3 + (p % L3)
  BY <1>1, Sizes, Quotient
<1> HIDE DEF q, n
<1>3. q < n
  <2> SUFFICES ASSUME n <= q PROVE FALSE
    BY <1>1, <1>2
  <2>1. n * L3 <= q * L3 /\ q * L3 \in Nat /\ n * L3 \in Nat
    BY <1>1, <1>2, Sizes, TimesOrder
  <2> QED BY <1>1, <1>2, <2>1
<1> QED BY <1>1, <1>2, <1>3 DEF q, n, L3_INDEX, Entries3

\* The indices of a page are the digits of its block.
LEMMA Indices ==
  ASSUME NEW p \in GuestPages
  PROVE  /\ RootIndex(p) \in Roots /\ L2_INDEX(p) \in Entries2
         /\ p \div L3 = RootIndex(p) * L2 + L2_INDEX(p)
<1> DEFINE q == p \div L3
           r == q \div L2
           j == q % L2
<1>1. p \in Nat /\ q \in Nat /\ q < L1 * L2
  BY BlockOf, Sizes
<1>2. p \div (L2 * L3) = r
  BY <1>1, Sizes, QuotientOfQuotient
<1>3. r \in Nat /\ j \in 0 .. (L2 - 1) /\ q = r * L2 + j
  BY <1>1, Sizes, Quotient
<1>4. L2_INDEX(p) = j
  BY DEF L2_INDEX
<1>5. RootIndex(p) = r % L1
  BY <1>2 DEF RootIndex
<1> HIDE DEF q, r, j
<1>6. r < L1
  <2> SUFFICES ASSUME L1 <= r PROVE FALSE
    BY <1>3, Sizes
  <2>1. L1 * L2 <= r * L2 /\ r * L2 \in Nat /\ L1 * L2 \in Nat
    BY <1>3, Sizes, TimesOrder
  <2> QED BY <1>1, <1>3, <2>1
<1>7. r % L1 = r
  BY <1>3, <1>6, Sizes
<1> QED BY <1>3, <1>4, <1>5, <1>6, <1>7, Sizes DEF q, Roots, Entries2

\* Pages with the same root and level 2 index lie in the same block, and are
\* the same page when their level 3 index is the same too.
LEMMA SameSlot ==
  ASSUME NEW p \in GuestPages, NEW q \in GuestPages,
         RootIndex(p) = RootIndex(q), L2_INDEX(p) = L2_INDEX(q)
  PROVE  /\ p - L3_INDEX(p) = q - L3_INDEX(q)
         /\ L3_INDEX(p) = L3_INDEX(q) => p = q
<1>1. p \div L3 = q \div L3
  BY Indices
<1> DEFINE x == (p \div L3) * L3
<1>2. p = x + L3_INDEX(p) /\ q = x + L3_INDEX(q) /\ L3_INDEX(p) \in Nat /\ L3_INDEX(q) \in Nat
  BY <1>1, BlockOf, Sizes DEF Entries3
<1>3. x \in Nat
  BY BlockOf, Sizes
<1> HIDE DEF x
<1> QED BY <1>2, <1>3

\* The pages of a block: their root and level 2 indices are those of its
\* first page, their level 3 index is their distance from it.
LEMMA InBlock ==
  ASSUME NEW a \in GuestPages, L3_INDEX(a) = 0, NEW q \in a .. (a + L3 - 1)
  PROVE  /\ q \in GuestPages /\ RootIndex(q) = RootIndex(a) /\ L2_INDEX(q) = L2_INDEX(a)
         /\ L3_INDEX(q) = q - a
<1> DEFINE k == a \div L3
           n == L1 * L2
<1>1. a \in Nat /\ k \in 0 .. (n - 1) /\ a = k * L3 /\ n \in Nat
  <2>1. a \in Nat /\ k \in 0 .. (n - 1) /\ a = k * L3 + 0
    BY BlockOf
  <2> QED BY <2>1, Sizes
<1> HIDE DEF k, n
<1>2. q \in Nat /\ q - a \in 0 .. (L3 - 1) /\ q = k * L3 + (q - a)
  BY <1>1, Sizes
<1>3. q \div L3 = k
  BY <1>1, <1>2, Sizes, QuotientIs
<1>4. q % L3 = q - a
  <2>1. q = k * L3 + (q % L3) /\ q % L3 \in 0 .. (L3 - 1)
    <3>1. q = (q \div L3) * L3 + (q % L3) /\ q % L3 \in 0 .. (L3 - 1)
      BY <1>2, Sizes, Quotient
    <3> QED BY <1>3, <3>1
  <2> QED BY <1>1, <2>1, <1>2
<1>5. (k + 1) * L3 <= n * L3 /\ (k + 1) * L3 = k * L3 + L3 /\ k * L3 \in Nat /\ n * L3 \in Nat
  BY <1>1, Sizes, TimesOrder
<1>6. q < n * L3
  BY <1>1, <1>2, <1>5, Sizes
<1>7. q \in GuestPages
  BY <1>2, <1>6, Sizes DEF n, GuestPages
<1>8. q \div (L2 * L3) = (q \div L3) \div L2
  BY <1>2, Sizes, QuotientOfQuotient
<1>9. a \div (L2 * L3) = (a \div L3) \div L2
  BY <1>1, Sizes, QuotientOfQuotient
<1>10. q \div L3 = a \div L3
  BY <1>3 DEF k
<1> QED BY <1>4, <1>7, <1>8, <1>9, <1>10 DEF RootIndex, L2_INDEX, L3_INDEX
-----------------------------------------------------------------------------
(* Descriptors and translations.                                           *)

\* An empty entry is neither a table nor a block.
LEMMA ZeroKind == ~Zero.valid /\ ~pte_is_table(Zero) /\ ~pte_is_block(Zero)
  BY DEF Zero, pte_is_table, pte_is_block

\* A table descriptor names its table.
LEMMA TableKind ==
  ASSUME NEW t
  PROVE  /\ TableDescriptor(t).valid /\ TableDescriptor(t).addr = t
         /\ pte_is_table(TableDescriptor(t)) /\ ~pte_is_block(TableDescriptor(t))
         /\ TableDescriptor(t) # Zero /\ TableDescriptor(t) \notin BlockEntry
  BY DEF TableDescriptor, Zero, BlockEntry, pte_is_table, pte_is_block

\* A block descriptor is valid and no table.
LEMMA BlockKind ==
  ASSUME NEW d \in BlockEntry
  PROVE  /\ d.valid /\ d.addr \in Nat /\ d.dev \in BOOLEAN
         /\ ~pte_is_table(d) /\ pte_is_block(d) /\ d # Zero
<1>1. d.valid = TRUE /\ d.table = FALSE /\ d.addr \in Nat /\ d.dev \in BOOLEAN
  BY Zenon DEF BlockEntry
<1>2. d # Zero
  BY <1>1, ZeroKind
<1> QED BY <1>1, <1>2 DEF pte_is_table, pte_is_block

\* A page descriptor is valid.
LEMMA PageKind ==
  ASSUME NEW d \in PageEntry
  PROVE  d.valid /\ d.addr \in Nat /\ d.dev \in BOOLEAN
  BY Zenon DEF PageEntry

\* What the code builds are block and page entries.
LEMMA Built ==
  ASSUME NEW pa \in Nat, NEW dev \in BOOLEAN
  PROVE  /\ buildStage2BlockDescriptor(pa, dev) \in BlockEntry
         /\ buildStage2BlockDescriptor(pa, dev).addr = pa
         /\ buildStage2BlockDescriptor(pa, dev).dev = dev
         /\ buildStage2PageDescriptor(pa, dev) \in PageEntry
         /\ buildStage2PageDescriptor(pa, dev).addr = pa
         /\ buildStage2PageDescriptor(pa, dev).dev = dev
  BY DEF buildStage2BlockDescriptor, buildStage2PageDescriptor, BlockEntry, PageEntry

\* An entry of a level 2 table is of exactly one kind.
LEMMA EntryKinds ==
  ASSUME NEW m, NEW d, EntryOK(m, d)
  PROVE  /\ ~d.valid => d = Zero
         /\ pte_is_table(d) => d = TableDescriptor(d.addr) /\ NotLevel2(m, d.addr) /\ LeafShape(m[d.addr])
         /\ pte_is_block(d) => d \in BlockEntry
         /\ d.valid => pte_is_table(d) \/ d \in BlockEntry
<1>1. CASE d = Zero
  BY <1>1, ZeroKind
<1>2. CASE d \in BlockEntry
  BY <1>2, BlockKind
<1>3. CASE d = TableDescriptor(d.addr) /\ NotLevel2(m, d.addr) /\ LeafShape(m[d.addr])
  <2>1. d.valid /\ pte_is_table(d) /\ ~pte_is_block(d)
    BY <1>3, TableKind
  <2> QED BY <1>3, <2>1
<1> QED BY <1>1, <1>2, <1>3 DEF EntryOK

Unmapped == [pa |-> -1, dev |-> FALSE]

\* The translation of page p by tables m, as View gives it.
Seen(m, p) ==
  IF Lookup(m, p) = {} THEN [pa |-> -1, dev |-> FALSE]
  ELSE LET e == CHOOSE x \in Lookup(m, p) : TRUE
       IN  [pa |-> e.pa + (p - e.base), dev |-> e.dev]

\* What a lookup finds, by the kind of the level 2 entry it meets.
LEMMA LookupIs ==
  ASSUME NEW m, NEW p \in GuestPages
  PROVE  LET i == RootIndex(p)
             d == D2(m, i, L2_INDEX(p))
             c == m[d.addr][L3_INDEX(p)]
         IN  /\ ~m[0][i].valid => Lookup(m, p) = {}
             /\ m[0][i].valid /\ d = Zero => Lookup(m, p) = {}
             /\ m[0][i].valid /\ d \in BlockEntry =>
                  Lookup(m, p) = {[base |-> p - L3_INDEX(p), n |-> L3, pa |-> d.addr, dev |-> d.dev]}
             /\ m[0][i].valid /\ pte_is_table(d) /\ ~c.valid => Lookup(m, p) = {}
             /\ m[0][i].valid /\ pte_is_table(d) /\ c.valid =>
                  Lookup(m, p) = {[base |-> p, n |-> 1, pa |-> c.addr, dev |-> c.dev]}
<1> DEFINE i == RootIndex(p)
           d == D2(m, i, L2_INDEX(p))
           c == m[d.addr][L3_INDEX(p)]
<1>1. Lookup(m, p) =
        IF ~m[0][i].valid \/ ~d.valid THEN {}
        ELSE IF pte_is_block(d)
             THEN {[base |-> p - L3_INDEX(p), n |-> L3, pa |-> d.addr, dev |-> d.dev]}
        ELSE IF ~c.valid THEN {}
        ELSE {[base |-> p, n |-> 1, pa |-> c.addr, dev |-> c.dev]}
  BY DEF Lookup, RootIndex, D2
<1>2. pte_is_table(d) => d.valid /\ ~pte_is_block(d)
  BY DEF pte_is_table, pte_is_block
<1> HIDE DEF i, d, c
<1>3. d = Zero => ~d.valid
  BY ZeroKind
<1>4. d \in BlockEntry => d.valid /\ pte_is_block(d)
  BY BlockKind
<1> SUFFICES /\ ~m[0][i].valid => Lookup(m, p) = {}
             /\ m[0][i].valid /\ d = Zero => Lookup(m, p) = {}
             /\ m[0][i].valid /\ d \in BlockEntry =>
                  Lookup(m, p) = {[base |-> p - L3_INDEX(p), n |-> L3, pa |-> d.addr, dev |-> d.dev]}
             /\ m[0][i].valid /\ pte_is_table(d) /\ ~c.valid => Lookup(m, p) = {}
             /\ m[0][i].valid /\ pte_is_table(d) /\ c.valid =>
                  Lookup(m, p) = {[base |-> p, n |-> 1, pa |-> c.addr, dev |-> c.dev]}
  BY DEF i, d, c
<1> QED BY <1>1, <1>2, <1>3, <1>4

\* What a page translates to, by the entry that decides it.
LEMMA SeenIs ==
  ASSUME NEW m, NEW p \in GuestPages
  PROVE  LET i == RootIndex(p)
             d == D2(m, i, L2_INDEX(p))
             c == m[d.addr][L3_INDEX(p)]
         IN  /\ ~m[0][i].valid => Seen(m, p) = Unmapped
             /\ m[0][i].valid /\ d = Zero => Seen(m, p) = Unmapped
             /\ m[0][i].valid /\ d \in BlockEntry =>
                  Seen(m, p) = [pa |-> d.addr + L3_INDEX(p), dev |-> d.dev]
             /\ m[0][i].valid /\ pte_is_table(d) /\ c = Zero => Seen(m, p) = Unmapped
             /\ m[0][i].valid /\ pte_is_table(d) /\ c \in PageEntry =>
                  Seen(m, p) = [pa |-> c.addr, dev |-> c.dev]
<1> DEFINE i == RootIndex(p)
           d == D2(m, i, L2_INDEX(p))
           c == m[d.addr][L3_INDEX(p)]
<1>1. Lookup(m, p) = {} => Seen(m, p) = Unmapped
  BY DEF Seen, Unmapped
<1>2. ASSUME NEW e, Lookup(m, p) = {e} PROVE Seen(m, p) = [pa |-> e.pa + (p - e.base), dev |-> e.dev]
  BY <1>2 DEF Seen
<1>3. p \in Nat /\ L3_INDEX(p) \in Nat
  BY BlockOf, Sizes DEF Entries3
<1>4. ASSUME m[0][i].valid, d \in BlockEntry
      PROVE  Seen(m, p) = [pa |-> d.addr + L3_INDEX(p), dev |-> d.dev]
  <2> DEFINE e == [base |-> p - L3_INDEX(p), n |-> L3, pa |-> d.addr, dev |-> d.dev]
  <2>1. Lookup(m, p) = {e}
    BY <1>4, LookupIs
  <2>2. e.pa = d.addr /\ e.base = p - L3_INDEX(p) /\ e.dev = d.dev
    OBVIOUS
  <2> HIDE DEF e
  <2>3. Seen(m, p) = [pa |-> e.pa + (p - e.base), dev |-> e.dev]
    BY <1>2, <2>1
  <2>4. p - (p - L3_INDEX(p)) = L3_INDEX(p)
    BY <1>3
  <2> QED BY <2>2, <2>3, <2>4
<1>5. ASSUME m[0][i].valid, pte_is_table(d), c \in PageEntry
      PROVE  Seen(m, p) = [pa |-> c.addr, dev |-> c.dev]
  <2> DEFINE e == [base |-> p, n |-> 1, pa |-> c.addr, dev |-> c.dev]
  <2>0. c.valid /\ c.addr \in Nat
    BY <1>5, PageKind
  <2>1. Lookup(m, p) = {e}
    BY <1>5, <2>0, LookupIs
  <2>2. e.pa = c.addr /\ e.base = p /\ e.dev = c.dev
    OBVIOUS
  <2> HIDE DEF e
  <2>3. Seen(m, p) = [pa |-> e.pa + (p - e.base), dev |-> e.dev]
    BY <1>2, <2>1
  <2>4. c.addr + (p - p) = c.addr
    BY <1>3, <2>0
  <2> QED BY <2>2, <2>3, <2>4
<1>6. c = Zero => ~c.valid
  BY ZeroKind
<1> QED BY <1>1, <1>4, <1>5, <1>6, LookupIs

\* Tables that agree on the entries a page's walk meets translate it alike.
LEMMA LookupSame ==
  ASSUME NEW m, NEW mm, NEW p \in GuestPages,
         LET i == RootIndex(p)
             d == D2(m, i, L2_INDEX(p))
         IN  /\ mm[0][i] = m[0][i]
             /\ m[0][i].valid => EntryOK(m, d) /\ D2(mm, i, L2_INDEX(p)) = d
             /\ m[0][i].valid /\ pte_is_table(d) => mm[d.addr][L3_INDEX(p)] = m[d.addr][L3_INDEX(p)]
  PROVE  Lookup(mm, p) = Lookup(m, p) /\ Seen(mm, p) = Seen(m, p)
<1> DEFINE i == RootIndex(p)
           d == D2(m, i, L2_INDEX(p))
           dd == D2(mm, i, L2_INDEX(p))
           c == m[d.addr][L3_INDEX(p)]
           cc == mm[dd.addr][L3_INDEX(p)]
<1>1. Lookup(mm, p) = Lookup(m, p)
  <2>1. CASE ~m[0][i].valid
    BY <2>1, LookupIs
  <2>2. CASE m[0][i].valid /\ d = Zero
    BY <2>2, LookupIs
  <2>3. CASE m[0][i].valid /\ d \in BlockEntry
    BY <2>3, LookupIs
  <2>4. CASE m[0][i].valid /\ pte_is_table(d)
    <3>1. mm[0][i].valid /\ dd = d /\ cc = c
      BY <2>4
    <3>2. CASE c.valid
      BY <2>4, <3>1, <3>2, LookupIs, Zenon
    <3>3. CASE ~c.valid
      BY <2>4, <3>1, <3>3, LookupIs
    <3> QED BY <3>2, <3>3
  <2>5. m[0][i].valid => d = Zero \/ d \in BlockEntry \/ pte_is_table(d)
    BY EntryKinds
  <2> QED BY <2>1, <2>2, <2>3, <2>4, <2>5
<1> QED BY <1>1 DEF Seen
-----------------------------------------------------------------------------
(* Stores to the tables.                                                   *)

\* What a valid root entry leads to.
LEMMA Reached ==
  ASSUME NEW m, Tree(m), NEW i \in Roots, m[0][i].valid
  PROVE  /\ m[0][i] = TableDescriptor(T2(m, i))
         /\ T2(m, i) \in DOMAIN m \ {0}
         /\ m[T2(m, i)] = [j \in Entries2 |-> m[T2(m, i)][j]]
         /\ \A j \in Entries2 :
              /\ EntryOK(m, D2(m, i, j))
              /\ pte_is_table(D2(m, i, j)) =>
                   /\ NotLevel2(m, D2(m, i, j).addr) /\ D2(m, i, j).addr \in DOMAIN m \ {0}
                   /\ LeafShape(m[D2(m, i, j).addr])
<1>1. RootOK(m, i) /\ m[0][i] # Zero /\ \A j \in Entries2 : EntryOK(m, D2(m, i, j))
  BY ZeroKind DEF Tree
<1>2. ASSUME NEW j \in Entries2, pte_is_table(D2(m, i, j))
      PROVE  /\ NotLevel2(m, D2(m, i, j).addr) /\ D2(m, i, j).addr \in DOMAIN m \ {0}
             /\ LeafShape(m[D2(m, i, j).addr])
  <2>1. NotLevel2(m, D2(m, i, j).addr) /\ LeafShape(m[D2(m, i, j).addr])
    BY <1>1, <1>2, EntryKinds
  <2> QED BY <2>1 DEF NotLevel2
<1> QED BY <1>1, <1>2 DEF RootOK

\* Tables mm are tables m and a table t, named by no entry, that holds f.
AddsTable(m, mm, t, f) ==
  /\ Tree(mm) /\ Unused(mm, t)
  /\ DOMAIN mm = DOMAIN m \cup {t} /\ mm[t] = f
  /\ mm[0] = m[0] /\ \A u \in DOMAIN m : mm[u] = m[u]
  /\ \A k \in Roots, j \in Entries2 : m[0][k].valid => D2(mm, k, j) = D2(m, k, j)
  /\ \A p \in GuestPages : Lookup(mm, p) = Lookup(m, p) /\ Seen(mm, p) = Seen(m, p)

\* A table that nothing names yet changes no translation.
LEMMA AddedTable ==
  ASSUME NEW m, Tree(m), NEW t, t \notin DOMAIN m, NEW f
  PROVE  AddsTable(m, WithTable(m, t, f), t, f)
<1> DEFINE mm == WithTable(m, t, f)
<1>1. /\ DOMAIN mm = DOMAIN m \cup {t} /\ mm[t] = f /\ (\A u \in DOMAIN m : mm[u] = m[u])
      /\ mm = [u \in DOMAIN mm |-> mm[u]]
  BY DEF WithTable
<1>2. 0 \in DOMAIN m /\ t # 0
  BY DEF Tree
<1> HIDE DEF mm
<1>3. mm[0] = m[0] /\ \A i \in Roots : T2(mm, i) = T2(m, i)
  BY <1>1, <1>2 DEF T2
<1>4. ASSUME NEW i \in Roots, m[0][i].valid
      PROVE  /\ mm[T2(m, i)] = m[T2(m, i)] /\ T2(m, i) # t
             /\ \A j \in Entries2 : D2(mm, i, j) = D2(m, i, j)
  <2>1. T2(m, i) \in DOMAIN m
    BY <1>4, Reached, Zenon
  <2>2. mm[T2(m, i)] = m[T2(m, i)] /\ T2(m, i) # t
    BY <1>1, <2>1
  <2> QED BY <2>2, <1>3 DEF D2, T2
<1>5. ASSUME NEW u, NotLevel2(m, u) PROVE NotLevel2(mm, u) /\ mm[u] = m[u] /\ u # t
  BY <1>1, <1>3, <1>5 DEF NotLevel2
<1>6. ASSUME NEW i \in Roots PROVE RootOK(mm, i)
  <2>1. RootOK(m, i)
    BY DEF Tree
  <2>2. CASE m[0][i] = Zero
    BY <1>3, <2>2 DEF RootOK
  <2>3. CASE m[0][i] # Zero
    <3>1. m[0][i].valid
      BY <2>1, <2>3, TableKind DEF RootOK
    <3> QED BY <1>1, <1>3, <1>4, <2>1, <2>3, <3>1 DEF RootOK
  <2> QED BY <2>2, <2>3
<1>7. ASSUME NEW i \in Roots, m[0][i].valid, NEW j \in Entries2 PROVE EntryOK(mm, D2(mm, i, j))
  <2>1. EntryOK(m, D2(m, i, j)) /\ D2(mm, i, j) = D2(m, i, j)
    BY <1>4, <1>7, Reached, Zenon
  <2> QED BY <2>1, <1>5 DEF EntryOK
<1>8. Tree(mm)
  <2>1. mm[0] = [i \in Roots |-> mm[0][i]] /\ mm = [u \in DOMAIN mm |-> mm[u]] /\ 0 \in DOMAIN mm
    BY <1>1, <1>2, <1>3 DEF Tree
  <2>2. \A i, k \in Roots : mm[0][i].valid /\ mm[0][k].valid /\ T2(mm, i) = T2(mm, k) => i = k
    BY <1>3 DEF Tree
  <2>3. ASSUME NEW i \in Roots, NEW k \in Roots, NEW j \in Entries2, NEW l \in Entries2,
               mm[0][i].valid, mm[0][k].valid,
               pte_is_table(D2(mm, i, j)), pte_is_table(D2(mm, k, l)),
               D2(mm, i, j).addr = D2(mm, k, l).addr
        PROVE  i = k /\ j = l
    <3>1. D2(mm, i, j) = D2(m, i, j) /\ D2(mm, k, l) = D2(m, k, l) /\ m[0][i].valid /\ m[0][k].valid
      BY <1>3, <1>4, <2>3
    <3> QED BY <2>3, <3>1 DEF Tree
  <2>4. \A i \in Roots, j \in Entries2 : mm[0][i].valid => EntryOK(mm, D2(mm, i, j))
    BY <1>3, <1>7
  <2> QED BY <1>6, <2>1, <2>2, <2>3, <2>4 DEF Tree
<1>9. Unused(mm, t)
  <2>1. ASSUME NEW i \in Roots, NEW j \in Entries2, mm[0][i].valid, pte_is_table(D2(mm, i, j))
        PROVE  D2(mm, i, j).addr # t
    <3>1. m[0][i].valid /\ D2(mm, i, j) = D2(m, i, j)
      BY <1>3, <1>4, <2>1
    <3>2. NotLevel2(m, D2(m, i, j).addr)
      BY <2>1, <3>1, Reached, Zenon
    <3> QED BY <1>5, <3>1, <3>2
  <2>2. NotLevel2(mm, t)
    BY <1>1, <1>2, <1>3, <1>4 DEF NotLevel2
  <2> QED BY <2>1, <2>2 DEF Unused
<1>10. ASSUME NEW p \in GuestPages PROVE Lookup(mm, p) = Lookup(m, p) /\ Seen(mm, p) = Seen(m, p)
  <2> DEFINE i == RootIndex(p)
             j == L2_INDEX(p)
  <2>1. i \in Roots /\ j \in Entries2
    BY Indices
  <2> HIDE DEF i, j
  <2>2. mm[0][i] = m[0][i]
    BY <1>3
  <2>3. ASSUME m[0][i].valid
        PROVE  /\ EntryOK(m, D2(m, i, j)) /\ D2(mm, i, j) = D2(m, i, j)
               /\ pte_is_table(D2(m, i, j)) =>
                    mm[D2(m, i, j).addr][L3_INDEX(p)] = m[D2(m, i, j).addr][L3_INDEX(p)]
    <3>1. /\ EntryOK(m, D2(m, i, j)) /\ D2(mm, i, j) = D2(m, i, j)
          /\ pte_is_table(D2(m, i, j)) => NotLevel2(m, D2(m, i, j).addr)
      BY <1>4, <2>1, <2>3, Reached, Zenon
    <3> QED BY <1>5, <3>1
  <2> QED BY <2>2, <2>3, LookupSame DEF i, j
<1>11. AddsTable(m, mm, t, f)
  BY <1>1, <1>3, <1>4, <1>8, <1>9, <1>10 DEF AddsTable
<1> QED BY <1>11 DEF mm

\* Tables mm are tables m with table t as the level 2 table of root entry i.
LinksRoot(m, mm, i, t) ==
  /\ Tree(mm) /\ DOMAIN mm = DOMAIN m /\ mm[0][i] = TableDescriptor(t)
  /\ \A k \in Roots : m[0][k].valid =>
       mm[0][k] = m[0][k] /\ \A j \in Entries2 : D2(mm, k, j) = D2(m, k, j)
  /\ \A p \in GuestPages : Lookup(mm, p) = Lookup(m, p) /\ Seen(mm, p) = Seen(m, p)

\* Linking an empty level 2 table under an empty root entry changes no
\* translation.
LEMMA LinkedRoot ==
  ASSUME NEW m, Tree(m), NEW i \in Roots, ~m[0][i].valid, NEW t, Unused(m, t), m[t] = Table(L2)
  PROVE  LinksRoot(m, [m EXCEPT ![0][i] = TableDescriptor(t)], i, t)
<1> DEFINE mm == [m EXCEPT ![0][i] = TableDescriptor(t)]
           td == TableDescriptor(t)
<1>0. td.valid /\ td.addr = t
  BY TableKind
<1>1. /\ DOMAIN mm = DOMAIN m /\ mm = [u \in DOMAIN mm |-> mm[u]] /\ 0 \in DOMAIN mm
      /\ \A u \in DOMAIN m \ {0} : mm[u] = m[u]
      /\ mm[0] = [k \in Roots |-> mm[0][k]]
      /\ mm[0][i] = td /\ \A k \in Roots \ {i} : mm[0][k] = m[0][k]
  BY DEF Tree
<1>2. /\ t \in DOMAIN m \ {0} /\ (\A k \in Roots : m[0][k].valid => T2(m, k) # t)
      /\ \A k \in Roots, j \in Entries2 :
           m[0][k].valid /\ pte_is_table(D2(m, k, j)) => D2(m, k, j).addr # t
  BY DEF Unused, NotLevel2
<1> HIDE DEF mm, td
<1>3. ASSUME NEW k \in Roots, m[0][k].valid
      PROVE  /\ k # i /\ mm[0][k] = m[0][k] /\ T2(mm, k) = T2(m, k) /\ mm[T2(m, k)] = m[T2(m, k)]
             /\ \A j \in Entries2 : D2(mm, k, j) = D2(m, k, j)
  <2>1. k # i /\ mm[0][k] = m[0][k]
    BY <1>1, <1>3
  <2>2. T2(m, k) \in DOMAIN m \ {0}
    BY <1>3, Reached, Zenon
  <2>3. mm[T2(m, k)] = m[T2(m, k)]
    BY <1>1, <2>2
  <2> QED BY <2>1, <2>3 DEF D2, T2
<1>4. T2(mm, i) = t /\ mm[0][i].valid /\ mm[t] = Table(L2) /\ \A j \in Entries2 : D2(mm, i, j) = Zero
  <2>1. T2(mm, i) = t /\ mm[0][i].valid /\ mm[t] = Table(L2)
    BY <1>0, <1>1, <1>2 DEF T2
  <2> QED BY <2>1 DEF D2, T2, Table, Entries2
<1>5. ASSUME NEW k \in Roots, mm[0][k].valid PROVE k = i \/ m[0][k].valid
  BY <1>1, <1>5
<1>6. ASSUME NEW u, NotLevel2(m, u), u # t PROVE NotLevel2(mm, u) /\ mm[u] = m[u]
  <2>1. u \in DOMAIN m \ {0}
    BY <1>6 DEF NotLevel2
  <2>2. ASSUME NEW k \in Roots, mm[0][k].valid PROVE T2(mm, k) # u
    BY <1>3, <1>4, <1>5, <1>6, <2>2 DEF NotLevel2
  <2> QED BY <1>1, <2>1, <2>2 DEF NotLevel2
<1>7. ASSUME NEW k \in Roots PROVE RootOK(mm, k)
  <2>1. CASE k = i
    <3>1. mm[t] = [j \in Entries2 |-> mm[t][j]]
      BY <1>4 DEF Table, Entries2
    <3> QED BY <1>1, <1>2, <1>4, <2>1, <3>1 DEF RootOK, td
  <2>2. CASE k # i /\ ~m[0][k].valid
    <3>1. RootOK(m, k)
      BY DEF Tree
    <3>2. m[0][k] = Zero
      BY <2>2, <3>1, TableKind DEF RootOK
    <3> QED BY <1>1, <2>2, <3>2 DEF RootOK
  <2>3. CASE m[0][k].valid
    <3>1. /\ m[0][k] = TableDescriptor(T2(m, k)) /\ T2(m, k) \in DOMAIN m \ {0}
          /\ m[T2(m, k)] = [j \in Entries2 |-> m[T2(m, k)][j]]
      BY <2>3, Reached
    <3>2. mm[0][k] = m[0][k] /\ T2(mm, k) = T2(m, k) /\ mm[T2(m, k)] = m[T2(m, k)]
      BY <1>3, <2>3
    <3> QED BY <1>1, <3>1, <3>2 DEF RootOK
  <2> QED BY <2>1, <2>2, <2>3
<1>8. ASSUME NEW k \in Roots, mm[0][k].valid, NEW j \in Entries2 PROVE EntryOK(mm, D2(mm, k, j))
  <2>1. CASE k = i
    BY <1>4, <2>1 DEF EntryOK
  <2>2. CASE m[0][k].valid
    <3> DEFINE d == D2(m, k, j)
    <3>1. EntryOK(m, d) /\ D2(mm, k, j) = d /\ (pte_is_table(d) => d.addr # t)
      BY <1>2, <1>3, <2>2, Reached, Zenon
    <3> HIDE DEF d
    <3>2. CASE d = Zero \/ d \in BlockEntry
      BY <3>1, <3>2 DEF EntryOK
    <3>3. CASE pte_is_table(d)
      <4>1. d = TableDescriptor(d.addr) /\ NotLevel2(m, d.addr) /\ LeafShape(m[d.addr])
        BY <3>1, <3>3, EntryKinds
      <4>2. NotLevel2(mm, d.addr) /\ mm[d.addr] = m[d.addr]
        BY <1>6, <3>1, <3>3, <4>1
      <4> QED BY <3>1, <4>1, <4>2 DEF EntryOK
    <3> QED BY <3>1, <3>2, <3>3, EntryKinds
  <2> QED BY <1>5, <1>8, <2>1, <2>2
<1>9. Tree(mm)
  <2>1. ASSUME NEW k \in Roots, NEW l \in Roots, mm[0][k].valid, mm[0][l].valid, T2(mm, k) = T2(mm, l)
        PROVE  k = l
    <3>1. CASE k = i /\ l = i
      BY <3>1
    <3>2. CASE k = i /\ m[0][l].valid
      BY <1>2, <1>3, <1>4, <2>1, <3>2
    <3>3. CASE l = i /\ m[0][k].valid
      BY <1>2, <1>3, <1>4, <2>1, <3>3
    <3>4. CASE m[0][k].valid /\ m[0][l].valid
      BY <1>3, <2>1, <3>4 DEF Tree
    <3> QED BY <1>5, <2>1, <3>1, <3>2, <3>3, <3>4
  <2>2. ASSUME NEW k \in Roots, NEW h \in Roots, NEW j \in Entries2, NEW l \in Entries2,
               mm[0][k].valid, mm[0][h].valid,
               pte_is_table(D2(mm, k, j)), pte_is_table(D2(mm, h, l)),
               D2(mm, k, j).addr = D2(mm, h, l).addr
        PROVE  k = h /\ j = l
    <3>1. m[0][k].valid /\ m[0][h].valid
      BY <1>4, <1>5, <2>2, ZeroKind
    <3>2. D2(mm, k, j) = D2(m, k, j) /\ D2(mm, h, l) = D2(m, h, l)
      BY <1>3, <3>1
    <3> QED BY <2>2, <3>1, <3>2 DEF Tree
  <2> QED BY <1>1, <1>7, <1>8, <2>1, <2>2 DEF Tree
<1>10. ASSUME NEW p \in GuestPages PROVE Lookup(mm, p) = Lookup(m, p) /\ Seen(mm, p) = Seen(m, p)
  <2> DEFINE k == RootIndex(p)
             j == L2_INDEX(p)
             d == D2(m, k, j)
  <2>1. k \in Roots /\ j \in Entries2
    BY Indices
  <2>2. CASE k = i
    <3>1. mm[0][k].valid /\ D2(mm, k, j) = Zero /\ ~m[0][k].valid
      BY <1>4, <2>1, <2>2
    <3>2. Lookup(m, p) = {} /\ Lookup(mm, p) = {}
      BY <3>1, LookupIs
    <3> QED BY <3>2 DEF Seen
  <2>3. CASE k # i
    <3> HIDE DEF k, j
    <3>1. mm[0][k] = m[0][k]
      BY <1>1, <2>1, <2>3
    <3>2. ASSUME m[0][k].valid
          PROVE  /\ EntryOK(m, d) /\ D2(mm, k, j) = d
                 /\ pte_is_table(d) => mm[d.addr][L3_INDEX(p)] = m[d.addr][L3_INDEX(p)]
      <4>1. /\ EntryOK(m, d) /\ D2(mm, k, j) = d
            /\ pte_is_table(d) => NotLevel2(m, d.addr) /\ d.addr # t
        BY <1>2, <1>3, <2>1, <3>2, Reached, Zenon
      <4> QED BY <1>6, <4>1
    <3> QED BY <3>1, <3>2, LookupSame DEF k, j
  <2> QED BY <2>2, <2>3
<1>11. LinksRoot(m, mm, i, t)
  BY <1>1, <1>3, <1>9, <1>10 DEF LinksRoot, td
<1> QED BY <1>11 DEF mm
\* Tables mm are tables m with d as entry j of the level 2 table of root entry i.
StoresEntry(m, mm, i, j, d) ==
  /\ Tree(mm) /\ DOMAIN mm = DOMAIN m /\ mm[0] = m[0] /\ D2(mm, i, j) = d
  /\ \A k \in Roots, l \in Entries2 :
       m[0][k].valid /\ (k # i \/ l # j) => D2(mm, k, l) = D2(m, k, l)
  /\ \A u : NotLevel2(m, u) => NotLevel2(mm, u) /\ mm[u] = m[u]
  /\ \A u : Unused(m, u) /\ (pte_is_table(d) => d.addr # u) => Unused(mm, u)
  /\ \A p \in GuestPages : RootIndex(p) # i \/ L2_INDEX(p) # j =>
       Lookup(mm, p) = Lookup(m, p) /\ Seen(mm, p) = Seen(m, p)

\* A store to a level 2 entry, of nothing, of a block or of a table that
\* nothing else names, changes no translation outside the entry's block.
LEMMA StoredEntry ==
  ASSUME NEW m, Tree(m), NEW i \in Roots, m[0][i].valid, NEW j \in Entries2, NEW d,
         d = Zero \/ d \in BlockEntry \/ (d = TableDescriptor(d.addr) /\ Spare(m, d.addr))
  PROVE  StoresEntry(m, [m EXCEPT ![T2(m, i)][j] = d], i, j, d)
<1> DEFINE mm == [m EXCEPT ![T2(m, i)][j] = d]
           s == T2(m, i)
<1>1. s \in DOMAIN m \ {0} /\ m[s] = [l \in Entries2 |-> m[s][l]]
  BY Reached
<1>2. /\ DOMAIN mm = DOMAIN m /\ mm = [u \in DOMAIN mm |-> mm[u]] /\ 0 \in DOMAIN mm
      /\ \A u \in DOMAIN m \ {s} : mm[u] = m[u]
      /\ mm[s] = [l \in Entries2 |-> mm[s][l]]
      /\ mm[s][j] = d /\ \A l \in Entries2 \ {j} : mm[s][l] = m[s][l]
  <2>1. m = [u \in DOMAIN m |-> m[u]] /\ 0 \in DOMAIN m
    BY DEF Tree
  <2> HIDE DEF s
  <2> SUFFICES LET mx == [m EXCEPT ![s][j] = d]
               IN  /\ DOMAIN mx = DOMAIN m /\ mx = [u \in DOMAIN mx |-> mx[u]] /\ 0 \in DOMAIN mx
                   /\ \A u \in DOMAIN m \ {s} : mx[u] = m[u]
                   /\ mx[s] = [l \in Entries2 |-> mx[s][l]]
                   /\ mx[s][j] = d /\ \A l \in Entries2 \ {j} : mx[s][l] = m[s][l]
    BY DEF s
  <2> QED BY <1>1, <2>1, Zenon
<1> HIDE DEF mm
<1>3. mm[0] = m[0] /\ \A k \in Roots : T2(mm, k) = T2(m, k)
  BY <1>1, <1>2 DEF Tree, T2
<1>4. D2(mm, i, j) = d
  BY <1>2, <1>3 DEF D2, T2
<1>5. ASSUME NEW k \in Roots, NEW l \in Entries2, m[0][k].valid, k # i \/ l # j
      PROVE  D2(mm, k, l) = D2(m, k, l)
  <2>1. CASE k = i
    BY <1>2, <1>3, <1>5, <2>1 DEF D2, T2
  <2>2. CASE k # i
    <3>1. T2(m, k) # s
      BY <1>5, <2>2 DEF Tree
    <3>2. T2(m, k) \in DOMAIN m
      BY <1>5, Reached, Zenon
    <3>3. mm[T2(m, k)] = m[T2(m, k)]
      BY <1>2, <3>1, <3>2
    <3> QED BY <1>3, <3>3 DEF D2, T2
  <2> QED BY <2>1, <2>2
<1>6. ASSUME NEW u, NotLevel2(m, u) PROVE NotLevel2(mm, u) /\ mm[u] = m[u]
  <2>1. u \in DOMAIN m \ {0} /\ u # s
    BY <1>6 DEF NotLevel2
  <2>2. \A k \in Roots : mm[0][k].valid => T2(mm, k) # u
    BY <1>3, <1>6 DEF NotLevel2
  <2> QED BY <1>2, <2>1, <2>2 DEF NotLevel2
<1>7. ASSUME NEW u, Unused(m, u), pte_is_table(d) => d.addr # u PROVE Unused(mm, u)
  <2>1. NotLevel2(mm, u)
    BY <1>6, <1>7 DEF Unused
  <2>2. ASSUME NEW k \in Roots, NEW l \in Entries2, mm[0][k].valid, pte_is_table(D2(mm, k, l))
        PROVE  D2(mm, k, l).addr # u
    <3>1. CASE k = i /\ l = j
      BY <1>4, <1>7, <2>2, <3>1
    <3>2. CASE k # i \/ l # j
      <4>1. D2(mm, k, l) = D2(m, k, l) /\ m[0][k].valid
        BY <1>3, <1>5, <2>2, <3>2
      <4> QED BY <1>7, <2>2, <4>1 DEF Unused
    <3> QED BY <3>1, <3>2
  <2> QED BY <2>1, <2>2 DEF Unused
<1>8. ASSUME NEW k \in Roots PROVE RootOK(mm, k)
  <2>1. RootOK(m, k)
    BY DEF Tree
  <2>2. CASE m[0][k] = Zero
    BY <1>3, <2>2 DEF RootOK
  <2>3. CASE m[0][k] # Zero
    <3>1. m[0][k].valid
      BY <2>1, <2>3, TableKind DEF RootOK
    <3>2. /\ m[0][k] = TableDescriptor(T2(m, k)) /\ T2(m, k) \in DOMAIN m \ {0}
          /\ m[T2(m, k)] = [l \in Entries2 |-> m[T2(m, k)][l]]
      BY <3>1, Reached
    <3>3. mm[T2(m, k)] = [l \in Entries2 |-> mm[T2(m, k)][l]]
      <4>1. CASE T2(m, k) = s
        BY <1>2, <4>1
      <4>2. CASE T2(m, k) # s
        <5>1. mm[T2(m, k)] = m[T2(m, k)]
          BY <1>2, <3>2, <4>2
        <5> QED BY <3>2, <5>1
      <4> QED BY <4>1, <4>2
    <3> QED BY <1>2, <1>3, <3>2, <3>3 DEF RootOK
  <2> QED BY <2>2, <2>3
<1>9. ASSUME NEW e, EntryOK(m, e) PROVE EntryOK(mm, e)
  BY <1>6, <1>9 DEF EntryOK
<1>10. EntryOK(m, d)
  BY DEF EntryOK, Spare, Unused
<1>11. ASSUME NEW k \in Roots, mm[0][k].valid, NEW l \in Entries2 PROVE EntryOK(mm, D2(mm, k, l))
  <2>1. CASE k = i /\ l = j
    BY <1>4, <1>9, <1>10, <2>1
  <2>2. CASE k # i \/ l # j
    <3>1. D2(mm, k, l) = D2(m, k, l) /\ EntryOK(m, D2(m, k, l))
      BY <1>3, <1>5, <1>11, <2>2, Reached, Zenon
    <3> QED BY <1>9, <3>1
  <2> QED BY <2>1, <2>2
<1>12. pte_is_table(d) => Unused(m, d.addr)
  BY ZeroKind, BlockKind DEF Spare
<1>13. ASSUME NEW k \in Roots, NEW h \in Roots, NEW l \in Entries2, NEW n \in Entries2,
              mm[0][k].valid, mm[0][h].valid,
              pte_is_table(D2(mm, k, l)), pte_is_table(D2(mm, h, n)),
              D2(mm, k, l).addr = D2(mm, h, n).addr
       PROVE  k = h /\ l = n
  <2>1. m[0][k].valid /\ m[0][h].valid
    BY <1>3, <1>13
  <2>2. CASE k = i /\ l = j /\ h = i /\ n = j
    BY <2>2
  <2>3. CASE k = i /\ l = j /\ (h # i \/ n # j)
    <3>1. D2(mm, k, l) = d /\ D2(mm, h, n) = D2(m, h, n)
      BY <1>4, <1>5, <2>1, <2>3
    <3> QED BY <1>12, <1>13, <2>1, <3>1 DEF Unused
  <2>4. CASE (k # i \/ l # j) /\ h = i /\ n = j
    <3>1. D2(mm, h, n) = d /\ D2(mm, k, l) = D2(m, k, l)
      BY <1>4, <1>5, <2>1, <2>4
    <3> QED BY <1>12, <1>13, <2>1, <3>1 DEF Unused
  <2>5. CASE (k # i \/ l # j) /\ (h # i \/ n # j)
    <3>1. D2(mm, k, l) = D2(m, k, l) /\ D2(mm, h, n) = D2(m, h, n)
      BY <1>5, <2>1, <2>5
    <3> QED BY <1>13, <2>1, <3>1 DEF Tree
  <2> QED BY <2>2, <2>3, <2>4, <2>5
<1>14. Tree(mm)
  <2>1. mm[0] = [k \in Roots |-> mm[0][k]]
    BY <1>3 DEF Tree
  <2>2. \A k, l \in Roots : mm[0][k].valid /\ mm[0][l].valid /\ T2(mm, k) = T2(mm, l) => k = l
    BY <1>3 DEF Tree
  <2>3. \A k \in Roots, l \in Entries2 : mm[0][k].valid => EntryOK(mm, D2(mm, k, l))
    BY <1>11
  <2> QED BY <1>2, <1>8, <1>13, <2>1, <2>2, <2>3 DEF Tree
<1>15. ASSUME NEW p \in GuestPages, RootIndex(p) # i \/ L2_INDEX(p) # j
       PROVE  Lookup(mm, p) = Lookup(m, p) /\ Seen(mm, p) = Seen(m, p)
  <2> DEFINE k == RootIndex(p)
             l == L2_INDEX(p)
             e == D2(m, k, l)
  <2>1. k \in Roots /\ l \in Entries2 /\ (k # i \/ l # j)
    BY <1>15, Indices
  <2> HIDE DEF k, l
  <2>2. mm[0][k] = m[0][k]
    BY <1>3
  <2>3. ASSUME m[0][k].valid
        PROVE  /\ EntryOK(m, e) /\ D2(mm, k, l) = e
               /\ pte_is_table(e) => mm[e.addr][L3_INDEX(p)] = m[e.addr][L3_INDEX(p)]
    <3>1. EntryOK(m, e) /\ D2(mm, k, l) = e /\ (pte_is_table(e) => NotLevel2(m, e.addr))
      BY <1>5, <2>1, <2>3, Reached, Zenon
    <3> QED BY <1>6, <3>1
  <2> QED BY <2>2, <2>3, LookupSame DEF k, l
<1>16. StoresEntry(m, mm, i, j, d)
  BY <1>2, <1>3, <1>4, <1>5, <1>6, <1>7, <1>14, <1>15 DEF StoresEntry
<1> QED BY <1>16 DEF mm

\* Tables mm are tables m with d as entry l of the level 3 table below entry
\* j of the level 2 table of root entry i.
StoresPage(m, mm, i, j, l, d) ==
  /\ Tree(mm) /\ DOMAIN mm = DOMAIN m /\ mm[0] = m[0]
  /\ \A k \in Roots, n \in Entries2 : m[0][k].valid => D2(mm, k, n) = D2(m, k, n)
  /\ mm[D2(m, i, j).addr][l] = d
  /\ \A p \in GuestPages : RootIndex(p) # i \/ L2_INDEX(p) # j \/ L3_INDEX(p) # l =>
       Lookup(mm, p) = Lookup(m, p) /\ Seen(mm, p) = Seen(m, p)

\* A store to a level 3 entry changes the translation of one page.
LEMMA StoredPage ==
  ASSUME NEW m, Tree(m), NEW i \in Roots, m[0][i].valid, NEW j \in Entries2,
         pte_is_table(D2(m, i, j)), NEW l \in Entries3, NEW d \in PageEntry
  PROVE  StoresPage(m, [m EXCEPT ![D2(m, i, j).addr][l] = d], i, j, l, d)
<1> DEFINE s == D2(m, i, j).addr
           mm == [m EXCEPT ![s][l] = d]
<1>1. s \in DOMAIN m \ {0} /\ NotLevel2(m, s) /\ LeafShape(m[s])
  BY Reached, Zenon
<1>2. m = [u \in DOMAIN m |-> m[u]] /\ 0 \in DOMAIN m /\ m[s] = [n \in Entries3 |-> m[s][n]]
  BY <1>1 DEF Tree, LeafShape
<1> HIDE DEF s
<1>3. /\ DOMAIN mm = DOMAIN m /\ mm = [u \in DOMAIN mm |-> mm[u]] /\ 0 \in DOMAIN mm
      /\ \A u \in DOMAIN m \ {s} : mm[u] = m[u]
      /\ mm[s] = [n \in Entries3 |-> mm[s][n]]
      /\ mm[s][l] = d /\ \A n \in Entries3 \ {l} : mm[s][n] = m[s][n]
  BY <1>1, <1>2, Zenon
<1> HIDE DEF mm
<1>4. mm[0] = m[0] /\ \A k \in Roots : T2(mm, k) = T2(m, k)
  BY <1>1, <1>2, <1>3 DEF T2
<1>5. ASSUME NEW k \in Roots, m[0][k].valid
      PROVE  /\ mm[T2(m, k)] = m[T2(m, k)]
             /\ \A n \in Entries2 : D2(mm, k, n) = D2(m, k, n)
  <2>1. T2(m, k) \in DOMAIN m /\ T2(m, k) # s
    BY <1>1, <1>5, Reached, Zenon DEF NotLevel2
  <2>2. mm[T2(m, k)] = m[T2(m, k)]
    BY <1>3, <2>1
  <2> QED BY <1>4, <2>2 DEF D2, T2
<1>6. ASSUME NEW u, NotLevel2(m, u) PROVE NotLevel2(mm, u)
  BY <1>3, <1>4, <1>6 DEF NotLevel2
<1>7. ASSUME NEW u \in DOMAIN m, LeafShape(m[u]) PROVE LeafShape(mm[u])
  <2>1. CASE u = s
    BY <1>1, <1>3, <2>1 DEF LeafShape
  <2>2. CASE u # s
    <3>1. mm[u] = m[u]
      BY <1>3, <2>2
    <3> QED BY <1>7, <3>1
  <2> QED BY <2>1, <2>2
<1>8. ASSUME NEW k \in Roots PROVE RootOK(mm, k)
  <2>1. RootOK(m, k)
    BY DEF Tree
  <2>2. CASE m[0][k] = Zero
    BY <1>4, <2>2 DEF RootOK
  <2>3. CASE m[0][k] # Zero
    <3>1. m[0][k].valid
      BY <2>1, <2>3, TableKind DEF RootOK
    <3>2. mm[T2(m, k)] = m[T2(m, k)]
      BY <1>5, <3>1
    <3> QED BY <1>3, <1>4, <2>1, <2>3, <3>2 DEF RootOK
  <2> QED BY <2>2, <2>3
<1>9. ASSUME NEW k \in Roots, mm[0][k].valid, NEW n \in Entries2 PROVE EntryOK(mm, D2(mm, k, n))
  <2>1. D2(mm, k, n) = D2(m, k, n) /\ EntryOK(m, D2(m, k, n))
    BY <1>4, <1>5, <1>9, Reached, Zenon
  <2> DEFINE e == D2(m, k, n)
  <2> HIDE DEF e
  <2>2. D2(mm, k, n) = e /\ EntryOK(m, e)
    BY <2>1 DEF e
  <2>3. CASE e = Zero \/ e \in BlockEntry
    BY <2>2, <2>3 DEF EntryOK
  <2>4. CASE pte_is_table(e)
    <3>1. e = TableDescriptor(e.addr) /\ NotLevel2(m, e.addr) /\ LeafShape(m[e.addr])
      BY <2>2, <2>4, EntryKinds
    <3>2. e.addr \in DOMAIN m
      BY <3>1 DEF NotLevel2
    <3>3. NotLevel2(mm, e.addr) /\ LeafShape(mm[e.addr])
      BY <1>6, <1>7, <3>1, <3>2
    <3> QED BY <2>2, <3>1, <3>3 DEF EntryOK
  <2> QED BY <2>2, <2>3, <2>4, EntryKinds
<1>10. Tree(mm)
  <2>1. mm[0] = [k \in Roots |-> mm[0][k]]
    BY <1>4 DEF Tree
  <2>2. \A k, h \in Roots : mm[0][k].valid /\ mm[0][h].valid /\ T2(mm, k) = T2(mm, h) => k = h
    BY <1>4 DEF Tree
  <2>3. ASSUME NEW k \in Roots, NEW h \in Roots, NEW n \in Entries2, NEW o \in Entries2,
               mm[0][k].valid, mm[0][h].valid,
               pte_is_table(D2(mm, k, n)), pte_is_table(D2(mm, h, o)),
               D2(mm, k, n).addr = D2(mm, h, o).addr
        PROVE  k = h /\ n = o
    <3>1. D2(mm, k, n) = D2(m, k, n) /\ D2(mm, h, o) = D2(m, h, o) /\ m[0][k].valid /\ m[0][h].valid
      BY <1>4, <1>5, <2>3
    <3> QED BY <2>3, <3>1 DEF Tree
  <2> QED BY <1>3, <1>8, <1>9, <2>1, <2>2, <2>3 DEF Tree
<1>11. ASSUME NEW p \in GuestPages, RootIndex(p) # i \/ L2_INDEX(p) # j \/ L3_INDEX(p) # l
       PROVE  Lookup(mm, p) = Lookup(m, p) /\ Seen(mm, p) = Seen(m, p)
  <2> DEFINE k == RootIndex(p)
             n == L2_INDEX(p)
             e == D2(m, k, n)
  <2>1. k \in Roots /\ n \in Entries2 /\ L3_INDEX(p) \in Entries3
    BY Indices, BlockOf
  <2>2. k # i \/ n # j \/ L3_INDEX(p) # l
    BY <1>11
  <2> HIDE DEF k, n
  <2>3. mm[0][k] = m[0][k]
    BY <1>4
  <2>4. ASSUME m[0][k].valid
        PROVE  /\ EntryOK(m, e) /\ D2(mm, k, n) = e
               /\ pte_is_table(e) => mm[e.addr][L3_INDEX(p)] = m[e.addr][L3_INDEX(p)]
    <3>1. /\ EntryOK(m, e) /\ D2(mm, k, n) = e
          /\ pte_is_table(e) => e.addr \in DOMAIN m
      BY <1>5, <2>1, <2>4, Reached, Zenon
    <3>2. ASSUME pte_is_table(e), e.addr = s PROVE k = i /\ n = j
      BY <2>1, <2>4, <3>2 DEF Tree, s
    <3>3. ASSUME pte_is_table(e) PROVE mm[e.addr][L3_INDEX(p)] = m[e.addr][L3_INDEX(p)]
      <4> HIDE DEF e
      <4>1. CASE e.addr = s
        BY <1>3, <2>1, <2>2, <3>2, <3>3, <4>1
      <4>2. CASE e.addr # s
        BY <1>3, <3>1, <3>3, <4>2
      <4> QED BY <4>1, <4>2
    <3> QED BY <3>1, <3>3
  <2> QED BY <2>3, <2>4, LookupSame DEF k, n
<1>12. StoresPage(m, mm, i, j, l, d)
  BY <1>3, <1>4, <1>5, <1>10, <1>11 DEF StoresPage, s
<1> QED BY <1>12 DEF mm, s
=============================================================================
