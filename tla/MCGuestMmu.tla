----------------------------- MODULE MCGuestMmu -----------------------------
(***************************************************************************)
(* Sixteen guest pages: a root of two concatenated tables with two entries *)
(* each, level 2 and level 3 tables of two entries.  RAM crosses from the  *)
(* first root table into the second.                                       *)
(***************************************************************************)
EXTENDS GuestMmu

MCHostPages == 0 .. 31
MCRam == [base |-> 2, pa |-> 18, size |-> 8]

W(base, pa, size, byPage) == [base |-> base, pa |-> pa, size |-> size, byPage |-> byPage]

\* None; pages outside RAM and one inside it, which splits a RAM block; a
\* block over a page mapped before; two pages of one block.
MCWindowLists ==
  { <<>>,
    <<W(0, 0, 2, TRUE), W(5, 9, 1, TRUE)>>,
    <<W(13, 13, 1, TRUE), W(12, 4, 2, FALSE)>>,
    <<W(14, 6, 1, TRUE), W(15, 3, 1, TRUE)>> }

MCLiveOps == {[ipa |-> 3, pa |-> 1, dev |-> TRUE, byPage |-> TRUE],
              [ipa |-> 11, pa |-> 2, dev |-> FALSE, byPage |-> TRUE]}
=============================================================================
