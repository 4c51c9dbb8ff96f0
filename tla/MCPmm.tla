------------------------------- MODULE MCPmm --------------------------------
(***************************************************************************)
(* Small pools for Pmm: pages of 2 bytes, orders 0 to 2, so a largest      *)
(* block is 8 bytes.                                                       *)
(***************************************************************************)
EXTENDS Pmm

MCBlockSize == [o \in 0 .. 2 |-> 2 * 2^o]

Map(base, size, atf, dtb, cpio) ==
  [memBase |-> base, memSize |-> size,
   atfBase |-> atf[1], atfSize |-> atf[2],
   dtbBase |-> dtb[1], dtbSize |-> dtb[2],
   cpioArchiveBase |-> cpio[1], cpioArchiveSize |-> cpio[2]]

NoRegion == <<0, 0>>

\* The hypervisor image: exactly one largest block.
MCKernel == [base |-> 16, size |-> 8]

\* Pools of whole largest blocks: the kernel's block is taken off, or the
\* TF-A region covers two blocks, or the base is not aligned to the block
\* size; one pool is larger than the bitmap supports.
AlignedMaps ==
  {Map(16, 24, NoRegion, <<3, 4>>, <<40, 3>>),
   Map(8, 32, <<24, 16>>, <<9, 2>>, NoRegion),
   Map(10, 16, NoRegion, <<10, 3>>, <<40, 3>>),
   Map(16, 72, NoRegion, NoRegion, NoRegion)}

\* Pools whose size is not a multiple of the largest block.
TailMaps ==
  {Map(16, 20, NoRegion, <<34, 2>>, <<40, 3>>),
   Map(32, 14, NoRegion, <<44, 2>>, NoRegion),
   Map(8, 10, <<16, 1>>, NoRegion, NoRegion),
   Map(32, 30, <<32, 16>>, NoRegion, NoRegion)}

\* One largest block and one page, nothing reserved in it.
OneTailMap == {Map(32, 10, NoRegion, NoRegion, NoRegion)}

\* The kernel is the second half of the pool's second largest block.
InnerKernel == [base |-> 20, size |-> 3]
InnerKernelMap == {Map(8, 16, NoRegion, NoRegion, NoRegion)}

\* RAM starts at address 0.
ZeroBaseMap == {Map(0, 16, NoRegion, NoRegion, NoRegion)}

AllMaps == AlignedMaps \cup TailMaps
AnyMaps == AllMaps \cup ZeroBaseMap
=============================================================================
