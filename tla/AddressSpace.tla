---------------------------- MODULE AddressSpace ----------------------------
(***************************************************************************)
(* What the stage-2 tables promise: a function from guest pages to host    *)
(* pages that a mapping call changes exactly where it says, the last call  *)
(* for a page winning.  Tables, levels and blocks that are split do not    *)
(* exist here.                                                             *)
(***************************************************************************)
EXTENDS Integers

CONSTANTS GuestPages, HostPages, BLOCK

VARIABLE map

Unmapped == [pa |-> -1, dev |-> FALSE]
Targets == [pa : HostPages, dev : BOOLEAN] \cup {Unmapped}

AInit == map = [p \in GuestPages |-> Unmapped]

\* n pages from ipa are given n host pages with the same attributes.
Assign(ipa, n) ==
  LET old == map
      new == map'
  IN  /\ new[ipa] \in Targets \ {Unmapped}
      /\ \A p \in GuestPages :
           new[p] = IF p \in ipa .. (ipa + n - 1)
                    THEN [new[ipa] EXCEPT !.pa = @ + (p - ipa)] ELSE old[p]

ANext == \E ipa \in GuestPages, n \in {1, BLOCK} : Assign(ipa, n)

ASpec == AInit /\ [][ANext]_map
=============================================================================
