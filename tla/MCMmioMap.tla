------------------------------ MODULE MCMmioMap -----------------------------
(***************************************************************************)
(* Pages of two addresses and blocks of four; regions that are aligned,    *)
(* misaligned, adjacent and over the bring-up console.  The map is smaller *)
(* than the list of requests can be, so it fills up.  The self-map is      *)
(* two blocks; windows lie in it and, as on the larger board, above it.    *)
(* Clients work on the blocks above, some of whose tables do not exist.    *)
(***************************************************************************)
EXTENDS HostMmu

R(b, s) == [base |-> b, size |-> s]
Regions == {R(0, 1), R(3, 2), R(8, 4)}
MCExpected == <<R(0, 1), R(8, 4), R(0, 1), R(0, 1), R(8, 4)>>
MCDevices ==
  UNION {[1..n -> Regions] : n \in 0..2} \cup [1..4 -> {R(3, 2), R(8, 4)}]
    \cup {SubSeq(MCExpected, 2, 5) \o extra :
            extra \in {<<>>, <<R(16, 1)>>, <<R(16, 0)>>, <<R(17, 0)>>, <<R(3, 2)>>, <<R(16, 1), R(3, 2)>>}}

MCClientRanges == {[block |-> 3, count |-> 1], [block |-> 3, count |-> 3], [block |-> 5, count |-> 1]}
=============================================================================
