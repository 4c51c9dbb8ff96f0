------------------------------- MODULE MCHeap -------------------------------
(***************************************************************************)
(* Pages of 16 units hold 14, 7 or 3 slots; requests sit on both sides of  *)
(* the class boundaries, of the slab limit and of the page, with alignments*)
(* up to two pages.                                                        *)
(***************************************************************************)
EXTENDS Heap

MCBlockSize == [o \in 0 .. 2 |-> 16 * 2 ^ o]
MCClasses == <<1, 2, 4>>
MCSizes == {0, 4, 5, 16}
MCAligns == {1, 4, 16}

NoForeign == {}
\* Interior units of the pool's first page.
MCForeign == {PoolBase + 5, PoolBase + 6}

\* Requests at the end of size_t, which the page allocator can never serve.
WrapSizes == {5, 2 ^ 16 - 1}
=============================================================================
