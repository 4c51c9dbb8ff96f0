---------------------------- MODULE PageAllocator ---------------------------
(***************************************************************************)
(* What the physical page allocator promises its callers: a pool, set once,*)
(* from which a caller obtains blocks of 2^order pages that no other       *)
(* caller owns, and to which it returns them.  Free lists, splitting,      *)
(* merging and the bitmap do not exist here.                               *)
(***************************************************************************)
EXTENDS Integers

CONSTANTS MAX_ORDER, BlockSize

VARIABLES
  pool,   \* [base, size] in bytes
  held    \* blocks <<address, order>> that callers own

avars == <<pool, held>>

AOrders == 0 .. MAX_ORDER

AEnd(b) == b[1] + BlockSize[b[2]]

ADisjoint(b, c) == AEnd(b) <= c[1] \/ AEnd(c) <= b[1]

AInit ==
  /\ pool = [base |-> 0, size |-> 0]
  /\ held = {}

\* The pool is given to the allocator while nobody owns a block.
SetPool ==
  /\ held = {}
  /\ pool' \in [base : Nat, size : Nat]
  /\ UNCHANGED held

\* A caller gets a block that is not at address 0 (which means failure),
\* inside the pool, at a multiple of its size from the base, and disjoint
\* from every block a caller already owns.
Alloc(b) ==
  /\ b[1] # 0
  /\ AEnd(b) <= pool.base + pool.size
  /\ (b[1] - pool.base) % BlockSize[b[2]] = 0
  /\ \A c \in held : ADisjoint(b, c)
  /\ held' = held \cup {b}
  /\ UNCHANGED pool

Free(b) ==
  /\ held' = held \ {b}
  /\ UNCHANGED pool

ANext ==
  \/ SetPool
  \/ \E o \in AOrders :
       \E a \in pool.base .. (pool.base + pool.size - 1) : Alloc(<<a, o>>)
  \/ \E b \in held : Free(b)

ASpec == AInit /\ [][ANext]_avars
=============================================================================
