-------------------------------- MODULE Cpio --------------------------------
(***************************************************************************)
(* The reader of the boot archive (lib/cpio): the constructor validates    *)
(* the whole region, entry by entry, before Next and Find show any of it.  *)
(*                                                                         *)
(* A region is its size, the headers that lie in it by their offset, and   *)
(* the offset from which on all its bytes are zero.  Offsets and sizes are *)
(* numbers, so that a region may end anywhere inside an entry.  A name is  *)
(* the sequence of its components between slashes, "" for an empty one.    *)
(***************************************************************************)
EXTENDS Integers, Sequences, FiniteSetsExt

CONSTANTS
  HEADER,   \* length of a newc header
  ALIGN,    \* headers and data start at multiples of it
  Archives  \* regions: [mapped, size, at, zeroFrom]

\* The fields of a header, a name being some components.
Headers ==
  [magic : BOOLEAN, fields : BOOLEAN, nameSize : Nat, terminated : BOOLEAN,
   name : Seq(STRING) \ {<<>>}, type : STRING, nlink : Nat, fileSize : Nat]

ASSUME CpioAssumption ==
  /\ HEADER \in Nat /\ ALIGN \in Nat \ {0}
  /\ \A a \in Archives :
       /\ a.mapped \in BOOLEAN /\ a.size \in Nat /\ a.zeroFrom \in 0 .. a.size
       /\ DOMAIN a.at \subseteq Nat /\ \A c \in DOMAIN a.at : a.at[c] \in Headers

VARIABLES
  archive,  \* the region: m_data and m_size
  cursor,   \* of validate, then of Find
  seen,     \* offsets of the entries validate has accepted, which it reads again
  m_end,    \* where the trailer starts
  m_error   \* "validating" until the constructor returns

cpioVars == <<archive, cursor, seen, m_end, m_error>>

Trailer == <<"TRAILER!!!">>

\* What a header that is not one reads as: its magic is wrong.
Garbage == [magic |-> FALSE, fields |-> FALSE, nameSize |-> 0, terminated |-> FALSE, name |-> <<"">>,
            type |-> "other", nlink |-> 0, fileSize |-> 0]

HeaderAt(c) == IF c \in DOMAIN archive.at THEN archive.at[c] ELSE Garbage

\* Every leading "./" goes; a name that is only "." stays.
normalize(name) ==
  LET kept == {i \in 1..Len(name) : i = Len(name) \/ name[i] # "."}
  IN  SubSeq(name, Min(kept), Len(name))

\* Relative, without empty, "." or ".." components; "." alone is the root.
validPath(name) ==
  name = <<".">> \/ \A i \in 1..Len(name) : name[i] \notin {"", ".", ".."}

Padding(c) == (ALIGN - (c % ALIGN)) % ALIGN

\* The checks of read, in the code's order; the first that fails is the error.
Checks(h, name, c, data, end) ==
  << [fails |-> c + HEADER > archive.size, error |-> "TRUNCATED"],
     [fails |-> ~h.magic, error |-> "BAD_MAGIC"],
     [fails |-> ~h.fields, error |-> "BAD_FIELD"],
     [fails |-> h.nameSize = 0 \/ c + HEADER + h.nameSize > archive.size, error |-> "BAD_NAME"],
     [fails |-> ~h.terminated \/ ~validPath(name), error |-> "BAD_NAME"],
     [fails |-> data > archive.size, error |-> "TRUNCATED"],
     [fails |-> data + h.fileSize > archive.size \/ end > archive.size, error |-> "TRUNCATED"],
     [fails |-> name = Trailer /\ h.fileSize # 0, error |-> "BAD_TRAILER"],
     [fails |-> name # Trailer /\ h.type = "dir" /\ h.fileSize # 0, error |-> "BAD_FIELD"],
     [fails |-> /\ name # Trailer /\ h.type # "dir"
                /\ h.type # "file" \/ h.nlink # 1 \/ name = <<".">>,
      error |-> "UNSUPPORTED_TYPE"] >>

FirstError(checks) ==
  LET failing == {i \in DOMAIN checks : checks[i].fails}
  IN  IF failing = {} THEN "NONE" ELSE checks[Min(failing)].error

\* Archive::read at c: its error, the entry, and the cursor it leaves.
read(c) ==
  LET h == HeaderAt(c)
      name == normalize(h.name)
      nameEnd == c + HEADER + h.nameSize
      data == nameEnd + Padding(nameEnd)
      end == data + h.fileSize + Padding(data + h.fileSize)
  IN  [error |-> FirstError(Checks(h, name, c, data, end)), name |-> name,
       file |-> [data |-> data, size |-> h.fileSize], isDirectory |-> h.type = "dir", next |-> end]

\* A null pointer, or a region that wraps, is not looked at.
CpioInit ==
  /\ archive \in Archives
  /\ cursor = 0 /\ seen = {} /\ m_end = 0
  /\ m_error = IF archive.mapped THEN "validating" ELSE "INVALID_REGION"

Validating == m_error = "validating"

Judge(error) == m_error' = error /\ cursor' = 0 /\ UNCHANGED <<archive, seen>>

\* Mutant: names may repeat.
DuplicateIgnored(name) == FALSE

\* An entry before the cursor has this name.
Duplicate(name) == \E c \in seen : read(c).name = name

\* One turn of Archive::validate: the region ends without a trailer, the entry
\* is bad, it is the trailer and only zeroes follow, it repeats an earlier
\* entry's name, or the walk goes on.
validate ==
  LET e == read(cursor)
  IN  /\ Validating
      /\ \/ cursor >= archive.size /\ Judge("MISSING_TRAILER") /\ UNCHANGED m_end
         \/ cursor < archive.size /\ e.error # "NONE" /\ Judge(e.error) /\ UNCHANGED m_end
         \/ /\ cursor < archive.size /\ e.error = "NONE" /\ e.name = Trailer
            /\ \/ e.next < archive.zeroFrom /\ Judge("BAD_TRAILER") /\ UNCHANGED m_end
               \/ e.next >= archive.zeroFrom /\ Judge("NONE") /\ m_end' = cursor
         \/ /\ cursor < archive.size /\ e.error = "NONE" /\ e.name # Trailer
            /\ \/ Duplicate(e.name) /\ Judge("DUPLICATE_PATH") /\ UNCHANGED m_end
               \/ /\ ~Duplicate(e.name)
                  /\ cursor' = e.next /\ seen' = seen \cup {cursor}
                  /\ UNCHANGED <<archive, m_end, m_error>>

\* Archive::Next returns true.
HasNext == m_error = "NONE" /\ cursor < m_end /\ read(cursor).error = "NONE"

\* Mutant: a directory matches as well.
MatchesDirectory(path) == HasNext /\ read(cursor).name = normalize(path)

\* The entry at the cursor is the file Find looks for.
Matches(path) ==
  LET e == read(cursor)
  IN  HasNext /\ ~e.isDirectory /\ e.name = normalize(path)

-----------------------------------------------------------------------------
(* What a well-formed archive is, read off the region.                     *)

Rounded(n) == CHOOSE r \in n .. (n + ALIGN - 1) : r % ALIGN = 0
DataOf(c) == Rounded(c + HEADER + archive.at[c].nameSize)
EndOf(c) == Rounded(DataOf(c) + archive.at[c].fileSize)
NameOf(c) == normalize(archive.at[c].name)

\* The chain of entries from offset 0 to the one trailer.
Chain(S, t) ==
  /\ 0 \in S /\ t \in S
  /\ \A c \in S : (NameOf(c) = Trailer) <=> (c = t)
  /\ \A c \in S \ {t} : EndOf(c) \in S
  /\ \A c \in S \ {0} : \E b \in S : EndOf(b) = c

Acceptable(c) ==
  LET h == archive.at[c]
  IN  /\ h.magic /\ h.fields /\ h.terminated /\ h.nameSize > 0
      /\ validPath(NameOf(c))
      /\ EndOf(c) <= archive.size
      /\ h.type = "dir" \/ NameOf(c) = Trailer => h.fileSize = 0
      /\ NameOf(c) # Trailer /\ h.type # "dir" =>
           h.type = "file" /\ h.nlink = 1 /\ NameOf(c) # <<".">>

WellFormed(S, t) ==
  /\ Chain(S, t)
  /\ \A c \in S : Acceptable(c)
  /\ \A b, c \in S : NameOf(b) = NameOf(c) => b = c
  /\ EndOf(t) >= archive.zeroFrom

\* The constructor accepts exactly the well-formed archives, and remembers
\* where their trailer is: nothing is shown of a region that is truncated
\* inside an entry, names a path twice, or goes on after its trailer, and no
\* other region is refused.
AcceptsWellFormed ==
  ~Validating =>
    LET IsTrailer(t) == \E S \in SUBSET DOMAIN archive.at : WellFormed(S, t)
    IN  /\ (m_error = "NONE") <=> (archive.mapped /\ \E t \in DOMAIN archive.at : IsTrailer(t))
        /\ m_error = "NONE" => \A t \in DOMAIN archive.at : IsTrailer(t) <=> t = m_end
=============================================================================
