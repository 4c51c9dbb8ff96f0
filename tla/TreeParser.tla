----------------------------- MODULE TreeParser -----------------------------
(***************************************************************************)
(* TreeParser (core/deviceTree): a call of ParseMemoryMap or of FindDevice *)
(* on a tree that is produced token by token.                              *)
(***************************************************************************)
EXTENDS MemoryMapParser, DeviceFinder

VARIABLE call  \* the operation that walks the tree

vars == <<fdtVars, mapVars, findVars, call>>

Init ==
  /\ FdtInit /\ MapInit /\ FindInit
  /\ call \in {"ParseMemoryMap", "FindDevice"}

Next ==
  \/ call = "ParseMemoryMap" /\ MapNext /\ UNCHANGED <<findVars, call>>
  \/ call = "FindDevice" /\ FindNext /\ UNCHANGED <<mapVars, call>>

Spec == Init /\ [][Next]_vars
=============================================================================
