-------------------------- MODULE MemoryMapParser ---------------------------
(***************************************************************************)
(* TreeParser::ParseMemoryMap: the walk that finds main memory, the        *)
(* firmware's reserved region and the boot archive.  In place of the       *)
(* numbers a reg holds, the model keeps the path of the node it was read   *)
(* from, so the map says where each entry came from.                       *)
(***************************************************************************)
EXTENDS FdtWalk

CONSTANT Addresses  \* values of the initrd properties

VARIABLES
  depth, memory, reserved, atf, chosen, foundMemory,  \* MemoryParseState
  initrdStart, initrdEnd,                             \* Unseen before the property
  map,      \* mem, atf: path of the node; archive: <<base, size>>
  firmware  \* ghost: the firmware regions in the tree

pvars == <<depth, memory, reserved, atf, chosen, foundMemory, initrdStart, initrdEnd, map>>
mapVars == <<pvars, firmware>>
flags == <<memory, reserved, atf, chosen>>

NoNode == <<>>
Unseen == -1

MemoryNames == {"memory", "memory@"}
\* stringStartsWith(name, "memory").
StartsWithMemory == MemoryNames \cup {"memory-controller"}
FirmwareNames == {"atf", "bl31", "secmon", "optee", "tee"}

MapInit ==
  /\ depth = 0
  /\ memory = FALSE /\ reserved = FALSE /\ atf = FALSE /\ chosen = FALSE
  /\ foundMemory = FALSE
  /\ initrdStart = Unseen /\ initrdEnd = Unseen
  /\ map = [mem |-> NoNode, atf |-> NoNode, archive |-> NoNode]
  /\ firmware = {}

MapBeginNode(name) ==
  /\ TokenBegin(name)
  /\ IF depth = 1
     THEN /\ memory' = (name \in StartsWithMemory)
          /\ reserved' = (name = "reserved-memory")
          /\ chosen' = (name = "chosen")
          /\ UNCHANGED atf
     ELSE /\ atf' = IF depth = 2 /\ reserved THEN name \in FirmwareNames ELSE atf
          /\ UNCHANGED <<memory, reserved, chosen>>
  /\ depth' = depth + 1
  /\ UNCHANGED <<foundMemory, initrdStart, initrdEnd, map, firmware>>

\* Mutant: leaving a firmware node does not clear its flag.
MapEndNodeKeepsAtf ==
  /\ TokenEndNode
  /\ depth' = depth - 1
  /\ IF depth' = 1
     THEN memory' = FALSE /\ reserved' = FALSE /\ chosen' = FALSE /\ UNCHANGED atf
     ELSE UNCHANGED flags
  /\ UNCHANGED <<foundMemory, initrdStart, initrdEnd, map, firmware>>

MapEndNode ==
  /\ TokenEndNode
  /\ depth' = depth - 1
  /\ IF depth' = 1
     THEN memory' = FALSE /\ reserved' = FALSE /\ chosen' = FALSE /\ UNCHANGED atf
     ELSE /\ atf' = (atf /\ depth' # 2)
          /\ UNCHANGED <<memory, reserved, chosen>>
  /\ UNCHANGED <<foundMemory, initrdStart, initrdEnd, map, firmware>>

\* Ghost: the node is a firmware's region, with or without a unit address.
InFirmwareNode ==
  /\ Len(path) = 3 /\ path[2] = "reserved-memory"
  /\ path[3] \in FirmwareNames \cup {"bl31@"}

\* A reg of at least two addresses' length; a shorter one is ignored.
MapReg ==
  /\ TokenStay
  /\ foundMemory' = (foundMemory \/ memory)
  /\ map' = IF memory /\ ~foundMemory THEN [map EXCEPT !.mem = path]
            ELSE IF atf THEN [map EXCEPT !.atf = path] ELSE map
  /\ firmware' = IF InFirmwareNode THEN firmware \cup {path} ELSE firmware
  /\ UNCHANGED <<depth, flags, initrdStart, initrdEnd>>

\* linux,initrd-start or linux,initrd-end of one or two cells.
InitrdProperty(start, v) ==
  LET seen == chosen /\ depth = 2
  IN  /\ TokenStay
      /\ initrdStart' = IF seen /\ start THEN v ELSE initrdStart
      /\ initrdEnd' = IF seen /\ ~start THEN v ELSE initrdEnd
      /\ UNCHANGED <<depth, flags, foundMemory, map, firmware>>

\* Any other property, and NOP.
MapSkip == TokenStay /\ UNCHANGED mapVars

MapEnd ==
  /\ TokenEnd
  /\ \/ ~foundMemory /\ HvPanic /\ UNCHANGED map
     \/ /\ foundMemory
        /\ status' = "done"
        /\ map' = IF initrdStart # Unseen /\ initrdEnd # Unseen /\ initrdEnd > initrdStart
                  THEN [map EXCEPT !.archive = <<initrdStart, initrdEnd - initrdStart>>]
                  ELSE map
        /\ UNCHANGED path
  /\ UNCHANGED <<depth, flags, foundMemory, initrdStart, initrdEnd, firmware>>

MapReject == BadToken /\ UNCHANGED mapVars

MapDone == ~Walking /\ UNCHANGED <<fdtVars, mapVars>>

MapNext ==
  \/ \E name \in NodeNames : MapBeginNode(name)
  \/ MapEndNode \/ MapReg \/ MapSkip \/ MapEnd \/ MapReject \/ MapDone
  \/ \E start \in BOOLEAN, v \in Addresses : InitrdProperty(start, v)

MapSpec == FdtInit /\ MapInit /\ [][MapNext]_<<fdtVars, mapVars>>

-----------------------------------------------------------------------------
(* Properties.                                                             *)

OpenNode(names, level) == Len(path) > level /\ path[level + 1] \in names

\* The flags the parser carries from token to token say in which of the root's
\* subtrees it is, whatever was opened and closed before.
FlagsMatchPath ==
  /\ memory <=> OpenNode(StartsWithMemory, 1)
  /\ reserved <=> OpenNode({"reserved-memory"}, 1)
  /\ chosen <=> OpenNode({"chosen"}, 1)
  /\ atf <=> reserved /\ OpenNode(FirmwareNames, 2)

\* Main memory is the region of a memory node.
MemoryIsRam == map.mem # NoNode => map.mem[2] \in MemoryNames

\* Every region the tree reserves for the firmware is in the map.
FirmwareReserved == status = "done" => firmware \subseteq {map.atf}
=============================================================================
