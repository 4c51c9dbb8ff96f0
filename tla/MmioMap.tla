------------------------------- MODULE MmioMap ------------------------------
(***************************************************************************)
(* MmioMap and the two builders that fill it: GetHostMmio (2 MiB blocks)   *)
(* and GetGuestMmio (4 KiB pages).  Addresses are small numbers; a page    *)
(* and a block have a few of them.  The devices of the tree are inputs.    *)
(***************************************************************************)
EXTENDS Integers, Sequences, Functions

CONSTANTS
  PageSize, BlockSize,  \* SIZE_4KB, SIZE_2MB
  MMIO_MAX_WINDOWS,
  Devices,              \* what FindDevice may return: sequences of [base, size]
  Expected,             \* the BSP constants: the UART's region, then the GIC's four
  BringUpIpa, BspUart   \* kBringUpUartIpa, BSP_UART_BASE

ASSUME MmioAssumption ==
  /\ PageSize \in Nat \ {0}
  /\ BlockSize \in Nat \ {0} /\ BlockSize % PageSize = 0
  /\ MMIO_MAX_WINDOWS \in Nat
  /\ Devices \subseteq Seq([base : Nat, size : Nat])
  /\ {BringUpIpa, BspUart} \subseteq Nat
  /\ BringUpIpa % PageSize = 0 /\ BspUart % PageSize = 0

VARIABLES
  builder,    \* "host" or "guest"
  uart, gic,  \* the devices found; empty when absent
  todo,       \* requests not yet added: [ipa, pa, size, byPage]
  windows,    \* m_windows up to m_count
  state,      \* "checking", "adding", "panic" or "returned"
  consoleBase, \* the base the UART driver uses
  asked       \* ghost: every request made

vars == <<builder, uart, gic, todo, windows, state, consoleBase, asked>>

Down(a, g) == (a \div g) * g
Up(a, g) == Down(a + g - 1, g)

Blocks(r) == [ipa |-> r.base, pa |-> r.base, size |-> r.size, byPage |-> FALSE]
Pages(r) == [ipa |-> r.base, pa |-> r.base, size |-> r.size, byPage |-> TRUE]
BringUp == [ipa |-> BringUpIpa, pa |-> BspUart, size |-> PageSize, byPage |-> TRUE]

\* The window of a request, widened to whole granules.
Window(q) ==
  LET g == IF q.byPage THEN PageSize ELSE BlockSize
      start == Down(q.ipa, g)
  IN  [base |-> start, pa |-> Down(q.pa, g), size |-> Up(q.ipa + q.size, g) - start,
       byPage |-> q.byPage]

In(addr, w) == addr >= w.base /\ addr < w.base + w.size

\* Mutant: nothing counts as covered.
NeverCovers(addr) == FALSE

Covers(addr) == \E w \in Range(windows) : In(addr, w)

Init ==
  /\ builder \in {"host", "guest"}
  /\ uart \in Devices /\ gic \in Devices
  /\ todo = <<>>
  /\ windows = <<>>
  /\ state = "checking"
  /\ consoleBase = Expected[1].base
  /\ asked = {}

Panic == state' = "panic" /\ UNCHANGED <<builder, uart, gic, todo, windows, asked>>

Adding(requests) ==
  /\ state' = "adding"
  /\ todo' = requests
  /\ UNCHANGED <<builder, uart, gic, windows, asked>>

\* GetHostMmio: the devices are there and are the ones the board was built for.
\* The console moves before the comparison; Gic::SetBases after it finds its own
\* bases and does nothing.
HostChecked ==
  /\ builder = "host" /\ state = "checking"
  /\ IF uart = <<>> \/ Len(gic) < 4
     THEN Panic /\ UNCHANGED consoleBase
     ELSE /\ consoleBase' = uart[1].base
          /\ IF <<uart[1]>> \o SubSeq(gic, 1, 4) # Expected
             THEN Panic
             ELSE Adding(<<Blocks(uart[1])>> \o [i \in DOMAIN gic |-> Blocks(gic[i])])

\* GetGuestMmio: up to two GIC regions and the UART, each optional.
GuestChecked ==
  /\ builder = "guest" /\ state = "checking"
  /\ UNCHANGED consoleBase
  /\ LET frames == SubSeq(gic, 1, IF Len(gic) < 2 THEN Len(gic) ELSE 2)
         console == SubSeq(uart, 1, IF uart = <<>> THEN 0 ELSE 1)
     IN  Adding([i \in DOMAIN (frames \o console) |-> Pages((frames \o console)[i])])

\* MmioMap::Add returning true.
Add(q) == windows' = IF Window(q) \in Range(windows) THEN windows ELSE Append(windows, Window(q))

\* MmioMap::Add returning false.
Full(q) == Window(q) \notin Range(windows) /\ Len(windows) = MMIO_MAX_WINDOWS

AddNext ==
  /\ state = "adding" /\ todo # <<>>
  /\ UNCHANGED consoleBase
  /\ IF Full(Head(todo)) THEN Panic
     ELSE /\ Add(Head(todo))
          /\ todo' = Tail(todo)
          /\ asked' = asked \cup {Head(todo)}
          /\ UNCHANGED <<builder, uart, gic, state>>

\* The guest's bring-up console, unless a window is there already; return.
Finish ==
  /\ state = "adding" /\ todo = <<>>
  /\ UNCHANGED consoleBase
  /\ IF builder = "host" \/ Covers(BringUpIpa)
     THEN state' = "returned" /\ UNCHANGED <<builder, uart, gic, todo, windows, asked>>
     ELSE IF Full(BringUp) THEN Panic
     ELSE /\ Add(BringUp)
          /\ asked' = asked \cup {BringUp}
          /\ state' = "returned"
          /\ UNCHANGED <<builder, uart, gic, todo>>

Done == state \in {"panic", "returned"} /\ UNCHANGED vars

Next == HostChecked \/ GuestChecked \/ AddNext \/ Finish \/ Done

Spec == Init /\ [][Next]_vars

-----------------------------------------------------------------------------
(* Properties.                                                             *)

Targets(addr) == {addr - w.base + w.pa : w \in {v \in Range(windows) : In(addr, v)}}

\* A map that is returned reaches every address that was asked for at the place
\* asked for, a full map panicking rather than map less, and no address has two
\* places, of which the tables would keep whichever is mapped last.  The guest's
\* bring-up console is always there.
MapExact ==
  state = "returned" =>
    /\ \A q \in asked : \A a \in q.ipa..(q.ipa + q.size - 1) : a - q.ipa + q.pa \in Targets(a)
    /\ \A w \in Range(windows) : \A a \in w.base..(w.base + w.size - 1) :
         Targets(a) = {a - w.base + w.pa}
    /\ builder = "guest" => Targets(BringUpIpa) # {}
=============================================================================
