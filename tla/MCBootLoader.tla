---------------------------- MODULE MCBootLoader ----------------------------
(***************************************************************************)
(* Guest RAM of 16 units from 4 to 20, arithmetic that wraps at 32.        *)
(* Archives have headers of 3 bytes and padding to even offsets: the files *)
(* in every order with entries beside them, one flaw of every kind in each *)
(* place, and every truncation of a sound archive.                         *)
(***************************************************************************)
EXTENDS BootLoader

Wrap == 32
MCSizes == 0 .. (Wrap - 1)
MCNodeNames == {"", "memory", "memory@", "chosen", "cpus"}

Entry(name, size) ==
  [magic |-> TRUE, fields |-> TRUE, nameSize |-> Len(name) + 1, terminated |-> TRUE, name |-> name,
   type |-> "file", nlink |-> 1, fileSize |-> size]
Dir(name) == [Entry(name, 0) EXCEPT !.type = "dir", !.nlink = 2]

Even(n) == n + (n % 2)
Span(e) == Even(Even(3 + e.nameSize) + e.fileSize)
Offset(list) ==
  LET off[i \in 1 .. (Len(list) + 1)] == IF i = 1 THEN 0 ELSE off[i - 1] + Span(list[i - 1])
  IN  off

\* The region that holds these entries and then some junk, all of it mapped.
Region(list, junk, size) ==
  LET off == Offset(list)
  IN  [mapped |-> TRUE, size |-> size, zeroFrom |-> IF off[Len(list) + 1] + junk < size
                                                    THEN off[Len(list) + 1] + junk ELSE size,
       at |-> [c \in {off[i] : i \in 1 .. Len(list)} |->
                 list[CHOOSE i \in 1 .. Len(list) : off[i] = c]]]
Whole(list, junk, zeroes) == Region(list, junk, Offset(list)[Len(list) + 1] + junk + zeroes)

Kernel_(n) == Entry(<<"linux", "Image">>, n)
Dtb_(n) == Entry(<<".", "linux", "guest.dtb">>, n)
Initrd_(n) == Entry(<<"linux", "initrd">>, n)
Last == Entry(Trailer, 0)
Insert(list, i, e) == SubSeq(list, 1, i - 1) \o <<e>> \o SubSeq(list, i, Len(list))

Sound ==
  { <<Kernel_(k), Dtb_(d), Initrd_(n), Last>> : k \in {0, 1, 3}, d \in {1, 2}, n \in {0, 1, 3} }
    \cup { <<Initrd_(2), Dir(<<"linux">>), Dtb_(d), Kernel_(2), Last>> : d \in {0, 3} }
    \cup { <<Dtb_(1), Kernel_(k), Last>> : k \in {1, 12, 13} }
    \cup { <<Dir(<<"linux", "Image">>), Dtb_(1), Last>>,
           <<Kernel_(1), Dir(PathOf.initrd), Dtb_(1), Last>>, <<Kernel_(1), Last>>, <<Last>> }

Flaws ==
  LET f == Entry(<<"x">>, 1)
  IN  { Garbage, [f EXCEPT !.fields = FALSE], [f EXCEPT !.nameSize = 0],
        [f EXCEPT !.terminated = FALSE], [f EXCEPT !.nlink = 2], [f EXCEPT !.type = "other"],
        [f EXCEPT !.type = "dir"], [f EXCEPT !.nameSize = 99], [f EXCEPT !.fileSize = 99],
        Entry(<<"x", "">>, 1), Entry(<<"">>, 1), Entry(<<"..", "x">>, 1), Entry(<<"x", ".", "y">>, 1),
        Entry(<<".">>, 1), Dir(<<".">>), Entry(<<".", "linux", "Image">>, 2), Dir(<<"linux", "Image">>),
        Entry(Trailer, 1), Last, f }

Base == <<Kernel_(1), Dtb_(1), Last>>

\* The bytes of a file look like a header.
Nested ==
  LET a == Whole(<<Kernel_(10), Dtb_(1), Last>>, 0, 0)
  IN  [a EXCEPT !.at = [c \in DOMAIN a.at \cup {8} |-> IF c = 8 THEN Initrd_(1) ELSE a.at[c]]]

MCArchives ==
  { Whole(l, 0, 0) : l \in Sound }
    \cup { Whole(Insert(Base, i, f), 0, 2) : i \in 1 .. 4, f \in Flaws }
    \cup { Whole(Base, j, 3) : j \in 0 .. 1 }
    \cup { Region(Base, 0, n) : n \in 0 .. Offset(Base)[4] }
    \cup { Nested, [Whole(Base, 0, 0) EXCEPT !.mapped = FALSE] }
=============================================================================
