---------------------------- MODULE MCTreeParser ----------------------------
(***************************************************************************)
(* ParseMemoryMap on trees of depth four over the names it knows and one   *)
(* it does not.  FindDevice on three levels, root, bus and device, with    *)
(* cell counts that give every stride from 0 to 4 to a reg.                *)
(***************************************************************************)
EXTENDS TreeParser

MCNodeNames == {"memory@", "reserved-memory", "chosen", "bl31", "soc"}
WithController == {"memory@", "memory-controller"}
TwoFirmware == {"memory@", "reserved-memory", "bl31", "optee"}
UnitAddress == {"memory@", "reserved-memory", "bl31@"}

\* Whole entries of some of the strides below, not of others; with the root's
\* default cells and two size cells on the bus, ranges has two windows.
MCRegs == {<<0, 1, 0, 1, 0, 2>>, <<0, 2, 0, 1>>}
MCRanges == {<<0, 1, 1, 1, 0, 1,  0, 2, 2, 1, 0, 2>>}
=============================================================================
