-------------------------- MODULE BootLoaderProofs --------------------------
(***************************************************************************)
(* Proofs about the boot archive and the boot loader, for every set of     *)
(* regions, every size of file and every stream of tokens.                 *)
(*                                                                         *)
(* The invariant IInv has one part per stage.  The entries validate has    *)
(* passed are part of every chain that would make the region well formed,  *)
(* so that an error it meets rules out all of them (CpioInv).  What Find   *)
(* has passed does not match (FindInv).  The layout is sound as soon as it *)
(* exists (LayoutInv).  The nodes that are open in the patcher decide the  *)
(* one property it may write (PatchInv).  Guest RAM holds the files once   *)
(* they are copied, and is dirty only where the cache is still to be       *)
(* cleaned (LoadInv).                                                      *)
(***************************************************************************)
EXTENDS BootLoader, CommonLemmas, TLAPS

\* How long, in seconds, a leaf may take where it does not say otherwise.
USE SMTT(20), ZenonT(20)

-----------------------------------------------------------------------------
(* The invariants.                                                         *)

\* What validate has walked over when it accepted the entries W and its cursor
\* is at last: a part of a chain that starts at offset 0, whose entries are
\* sound and have distinct names.
Walked(W, last) ==
  /\ W \subseteq DOMAIN archive.at /\ last \in Nat
  /\ 0 \in W \cup {last}
  /\ \A c \in W : /\ Acceptable(c) /\ NameOf(c) # Trailer
                  /\ c < last /\ EndOf(c) \in W \cup {last}
  /\ \A c \in (W \cup {last}) \ {0} : \E b \in W : EndOf(b) = c
  /\ \A b, c \in W : NameOf(b) = NameOf(c) => b = c
  /\ \A b \in W, c \in W \cup {last} : b < c => EndOf(b) <= c

\* It is a part of every chain that makes the archive well formed.
Forced(W, last) ==
  \A S \in SUBSET DOMAIN archive.at : \A t \in S : WellFormed(S, t) => W \cup {last} \subseteq S

Unfit == \A S \in SUBSET DOMAIN archive.at : \A t \in S : ~WellFormed(S, t)

Entries == seen \cup {m_end}

CpioInv ==
  /\ archive \in Archives
  /\ Validating => archive.mapped /\ Walked(seen, cursor) /\ Forced(seen, cursor)
  /\ m_error = "NONE" =>
       /\ archive.mapped /\ m_end \in DOMAIN archive.at
       /\ Walked(seen, m_end) /\ Forced(seen, m_end) /\ WellFormed(Entries, m_end)
  /\ m_error \notin {"NONE", "validating"} => ~archive.mapped \/ Unfit

\* The entry at c is the file f, and what Find returns for it.
Hit(c, f) == archive.at[c].type # "dir" /\ NameOf(c) = PathOf[f]
FileAt(c) == [data |-> DataOf(c), size |-> archive.at[c].fileSize]
Found(f) == \E c \in Entries : Hit(c, f) /\ files[f] = FileAt(c) /\ files[f].size # 0

\* Find has passed over the entries before the cursor, and the files before the
\* one it looks for are found.
FindInv ==
  /\ files \in [DOMAIN PathOf -> [data : Int, size : Nat]]
  /\ sought \in DOMAIN PathOf
  /\ stage = "read" =>
       /\ IF sought = "kernel" THEN files.kernel = NoFile ELSE Found("kernel")
       /\ IF sought = "initrd" THEN Found("dtb") ELSE files.dtb = NoFile
       /\ files.initrd = NoFile
       /\ m_error # "NONE" => sought = "kernel"
       /\ m_error = "NONE" => cursor \in Entries /\ \A c \in Entries : c < cursor => ~Hit(c, sought)

\* The layout is the one for the files.
LaidOut == layout \in LayoutOf(files.kernel.size, files.dtb.size, files.initrd.size)
LayoutInv ==
  \/ stage \in {"read", "layout", "layoutOnly"} /\ layout = NoLayout
  \/ stage \in {"done", "panic"} /\ layout = NoLayout /\ ~ok
  \/ stage = "returned" /\ layout = NoLayout
     /\ LayoutOf(files.kernel.size, files.dtb.size, files.initrd.size) = {}
  \/ LaidOut /\ stage \notin {"read", "layout", "layoutOnly"}

\* Names of nodes that are the root, or what the patcher takes a node for.
IsRoot(n) == n = ""
NamesNode(k, n) ==
  /\ k = "memory" => n \in {"memory", "memory@"}
  /\ k = "chosen" => n = "chosen"

\* The patcher's members match the ghost path, and what it stored is what it
\* has found.
PatchInv ==
  /\ path \in Seq(NodeNames) /\ depth = Len(path)
  /\ depth > 0 => IsRoot(path[1])
  /\ depth > 1 => NamesNode(node, path[2])
  /\ found \subseteq Placeholders
  /\ PatchesOnlyPlaceholders
  /\ {<<v[2], v[3]>> : v \in values} = {<<p[2], Value(p)>> : p \in found}

\* What is done at each stage of Load.
Unpatched == values = {} /\ found = {}
Owning == {"copyKernel", "copyDtb", "header", "patch", "copyInitrd"}
LoadInv ==
  /\ ok \in BOOLEAN /\ ram \in BOOLEAN
  /\ stage \in {"read", "layout", "layoutOnly", "alloc", "returned"} \cup Owning => ~ok
  /\ stage \in {"read", "layout", "layoutOnly", "alloc", "copyKernel", "copyDtb", "header"} =>
       Unpatched /\ dirty = {}
  /\ stage \in {"read", "layout", "layoutOnly", "alloc", "returned"} => ~ram
  /\ stage \in Owning => ram
  /\ DOMAIN content = Units(GUEST_IPA_BASE, GUEST_RAM_SIZE)
  /\ stage \in Owning \ {"copyKernel"} => Holds(layout.kernelIpa, files.kernel)
  /\ stage \in {"header", "patch", "copyInitrd"} => Holds(layout.dtbIpa, files.dtb)
  /\ stage = "patch" => dirty \subseteq Dtb
  /\ stage = "copyInitrd" => dirty = {} /\ found = Placeholders
  /\ stage = "running" => ok
  /\ GuestReady

IInv == CpioInv /\ FindInv /\ LayoutInv /\ PatchInv /\ LoadInv

-----------------------------------------------------------------------------
(* One entry of the archive.                                               *)

\* The padding read adds leads to the next multiple of ALIGN.
LEMMA RoundedIs ==
  ASSUME NEW n \in Nat
  PROVE  Rounded(n) = n + Padding(n) /\ Rounded(n) \in Nat /\ n <= Rounded(n)
<1> DEFINE p == (ALIGN - (n % ALIGN)) % ALIGN
<1>1. ALIGN \in Nat /\ ALIGN > 0
  BY CpioAssumption
<1>2. /\ p \in 0 .. ALIGN - 1 /\ (n + p) % ALIGN = 0
      /\ \A m \in n .. n + ALIGN - 1 : m % ALIGN = 0 => m = n + p
  BY <1>1, RoundsUp, Zenon
<1> HIDE DEF p
<1>3. n + p \in n .. n + ALIGN - 1
  BY <1>1, <1>2
<1>4. (CHOOSE r \in n .. n + ALIGN - 1 : r % ALIGN = 0) = n + p
  BY <1>2, <1>3
<1>5. Rounded(n) = n + p
  BY <1>4, Zenon DEF Rounded
<1>6. Padding(n) = p
  BY DEF Padding, p
<1> QED BY <1>1, <1>2, <1>5, <1>6

\* The parts of an entry follow one another.
LEMMA EntryTyped ==
  ASSUME archive \in Archives, NEW c \in DOMAIN archive.at
  PROVE  /\ c \in Nat /\ archive.at[c] \in Headers
         /\ DataOf(c) \in Nat /\ EndOf(c) \in Nat
         /\ c + HEADER + archive.at[c].nameSize <= DataOf(c)
         /\ DataOf(c) + archive.at[c].fileSize <= EndOf(c)
         /\ Acceptable(c) => c < EndOf(c)
<1> DEFINE h == archive.at[c]
<1>1. c \in Nat /\ h \in Headers /\ HEADER \in Nat
  BY CpioAssumption
<1>2. h.nameSize \in Nat /\ h.fileSize \in Nat
  BY <1>1 DEF Headers
<1> HIDE DEF h
<1>3. Rounded(c + HEADER + h.nameSize) \in Nat /\ c + HEADER + h.nameSize <= Rounded(c + HEADER + h.nameSize)
  BY <1>1, <1>2, RoundedIs
<1>4. DataOf(c) \in Nat /\ c + HEADER + h.nameSize <= DataOf(c)
  BY <1>3 DEF DataOf, h
<1>5. EndOf(c) \in Nat /\ DataOf(c) + h.fileSize <= EndOf(c)
  BY <1>2, <1>4, RoundedIs DEF EndOf, h
<1>6. Acceptable(c) => h.nameSize > 0
  BY DEF Acceptable, h
<1> QED BY <1>1, <1>2, <1>4, <1>5, <1>6 DEF h

\* What read returns for a header that is there.
LEMMA ReadIs ==
  ASSUME archive \in Archives, NEW c \in DOMAIN archive.at
  PROVE  /\ read(c).name = NameOf(c) /\ read(c).file = FileAt(c) /\ read(c).next = EndOf(c)
         /\ read(c).isDirectory = (archive.at[c].type = "dir")
<1> DEFINE h == archive.at[c]
           nameEnd == c + HEADER + h.nameSize
           data == nameEnd + Padding(nameEnd)
<1>1. HeaderAt(c) = h
  BY DEF HeaderAt
<1>2. nameEnd \in Nat /\ h.fileSize \in Nat
  BY EntryTyped, CpioAssumption DEF Headers
<1>3. data = DataOf(c)
  BY <1>2, RoundedIs DEF DataOf
<1>4. data + h.fileSize + Padding(data + h.fileSize) = EndOf(c)
  BY <1>2, <1>3, EntryTyped, RoundedIs DEF EndOf
<1> QED BY <1>1, <1>3, <1>4 DEF read, NameOf, FileAt

Errors == {"TRUNCATED", "BAD_MAGIC", "BAD_FIELD", "BAD_NAME", "BAD_TRAILER", "UNSUPPORTED_TYPE"}

\* There is no error exactly when no check fails.
LEMMA FirstErrorIs ==
  ASSUME NEW checks, DOMAIN checks \subseteq Nat, \A i \in DOMAIN checks : checks[i].error \in Errors
  PROVE  /\ FirstError(checks) \in Errors \cup {"NONE"}
         /\ FirstError(checks) = "NONE" <=> \A i \in DOMAIN checks : ~checks[i].fails
<1> DEFINE failing == {i \in DOMAIN checks : checks[i].fails}
<1>1. ASSUME failing # {} PROVE Min(failing) \in failing
  <2>1. failing \in SUBSET Nat
    OBVIOUS
  <2> HIDE DEF failing
  <2>2. \E x \in failing : \A y \in failing : x <= y
    BY <1>1, <2>1, LeastElement
  <2> QED BY <2>2 DEF Min
<1>2. CASE failing = {}
  BY <1>2 DEF FirstError
<1>3. CASE failing # {}
  <2>1. FirstError(checks) = checks[Min(failing)].error
    BY <1>3 DEF FirstError
  <2>2. Min(failing) \in DOMAIN checks /\ checks[Min(failing)].fails
    BY <1>1, <1>3
  <2>3. "NONE" \notin Errors
    BY DEF Errors
  <2> QED BY <2>1, <2>2, <2>3
<1> QED BY <1>2, <1>3

\* read accepts exactly the entries that are there and sound.
LEMMA ReadAccepts ==
  ASSUME archive \in Archives, NEW c \in Nat
  PROVE  /\ read(c).error \in Errors \cup {"NONE"}
         /\ read(c).error = "NONE" <=> c \in DOMAIN archive.at /\ Acceptable(c)
<1> DEFINE h == HeaderAt(c)
           name == normalize(h.name)
           nameEnd == c + HEADER + h.nameSize
           data == nameEnd + Padding(nameEnd)
           end == data + h.fileSize + Padding(data + h.fileSize)
           checks == Checks(h, name, c, data, end)
           Sound == /\ c + HEADER <= archive.size /\ h.magic /\ h.fields
                    /\ h.nameSize # 0 /\ c + HEADER + h.nameSize <= archive.size
                    /\ h.terminated /\ validPath(name) /\ data <= archive.size
                    /\ data + h.fileSize <= archive.size /\ end <= archive.size
                    /\ name = Trailer => h.fileSize = 0
                    /\ name # Trailer /\ h.type = "dir" => h.fileSize = 0
                    /\ name # Trailer /\ h.type # "dir" => h.type = "file" /\ h.nlink = 1 /\ name # <<".">>
<1>1. read(c).error = FirstError(checks)
  BY DEF read
<1>t. /\ h.nameSize \in Nat /\ h.fileSize \in Nat /\ archive.size \in Nat /\ HEADER \in Nat
  BY CpioAssumption DEF HeaderAt, Headers, Garbage
<1>2. data \in Nat /\ end \in Nat /\ nameEnd <= data /\ data + h.fileSize <= end
  <2>1. nameEnd \in Nat
    BY <1>t
  <2> HIDE DEF nameEnd, h
  <2>2. data \in Nat /\ nameEnd <= data
    BY <2>1, RoundedIs
  <2> HIDE DEF data
  <2>3. data + h.fileSize \in Nat
    BY <1>t, <2>2
  <2>4. end \in Nat /\ data + h.fileSize <= end
    BY <2>3, RoundedIs
  <2> QED BY <2>2, <2>4
<1>3. DOMAIN checks = 1 .. 10 /\ \A i \in 1 .. 10 : checks[i].error \in Errors
  <2> HIDE DEF h, name, data, end
  <2> QED BY DEF Checks, Errors
<1>4. (\A i \in 1 .. 10 : ~checks[i].fails) <=> Sound
  <2> HIDE DEF h, name, data, end
  <2>1. (\A i \in 1 .. 10 : ~checks[i].fails) <=>
          /\ ~checks[1].fails /\ ~checks[2].fails /\ ~checks[3].fails /\ ~checks[4].fails
          /\ ~checks[5].fails /\ ~checks[6].fails /\ ~checks[7].fails /\ ~checks[8].fails
          /\ ~checks[9].fails /\ ~checks[10].fails
    <3> HIDE DEF checks
    <3> QED OBVIOUS
  <2>2. checks[1].fails <=> (c + HEADER > archive.size)
    BY Zenon DEF Checks
  <2>3. checks[2].fails <=> (~h.magic)
    BY Zenon DEF Checks
  <2>4. checks[3].fails <=> (~h.fields)
    BY Zenon DEF Checks
  <2>5. checks[4].fails <=> (h.nameSize = 0 \/ c + HEADER + h.nameSize > archive.size)
    BY Zenon DEF Checks
  <2>6. checks[5].fails <=> (~h.terminated \/ ~validPath(name))
    BY Zenon DEF Checks
  <2>7. checks[6].fails <=> (data > archive.size)
    BY Zenon DEF Checks
  <2>8. checks[7].fails <=> (data + h.fileSize > archive.size \/ end > archive.size)
    BY Zenon DEF Checks
  <2>9. checks[8].fails <=> (name = Trailer /\ h.fileSize # 0)
    BY Zenon DEF Checks
  <2>10. checks[9].fails <=> (name # Trailer /\ h.type = "dir" /\ h.fileSize # 0)
    BY Zenon DEF Checks
  <2>11. checks[10].fails <=> (name # Trailer /\ h.type # "dir" /\ (h.type # "file" \/ h.nlink # 1 \/ name = <<".">>))
    BY DEF Checks
  <2> HIDE DEF checks
  <2> QED BY <1>t, <1>2, <2>1, <2>2, <2>3, <2>4, <2>5, <2>6, <2>7, <2>8, <2>9, <2>10, <2>11
<1>5. FirstError(checks) \in Errors \cup {"NONE"} /\ (FirstError(checks) = "NONE" <=> Sound)
  <2> HIDE DEF checks, Sound
  <2>1. DOMAIN checks \subseteq Nat
    BY <1>3
  <2> QED BY <1>3, <1>4, <2>1, FirstErrorIs
<1>6. CASE c \notin DOMAIN archive.at
  <2>1. ~h.magic
    BY <1>6 DEF HeaderAt, Garbage
  <2> QED BY <1>1, <1>5, <1>6, <2>1
<1>7. CASE c \in DOMAIN archive.at
  <2>1. h = archive.at[c]
    BY <1>7 DEF HeaderAt
  <2>2. data = DataOf(c) /\ end = EndOf(c)
    BY <1>7, <2>1, ReadIs, Zenon DEF read, FileAt
  <2>3. name = NameOf(c)
    BY <2>1 DEF NameOf
  <2>4. Sound <=> Acceptable(c)
    <3> HIDE DEF data, end, name, h
    <3> QED BY <1>t, <1>2, <2>1, <2>2, <2>3 DEF Acceptable, nameEnd
  <2> QED BY <1>1, <1>5, <1>7, <2>4
<1> QED BY <1>6, <1>7

-----------------------------------------------------------------------------
(* The walk of validate.                                                   *)

\* A sound entry that is no trailer and repeats no name continues the walk.
LEMMA WalkOn ==
  ASSUME archive \in Archives, NEW W, NEW c \in DOMAIN archive.at, Walked(W, c), Forced(W, c),
         Acceptable(c), NameOf(c) # Trailer, \A b \in W : NameOf(b) # NameOf(c)
  PROVE  Walked(W \cup {c}, EndOf(c)) /\ Forced(W \cup {c}, EndOf(c))
<1> DEFINE n == EndOf(c)
<1>1. c \in Nat /\ n \in Nat /\ c < n
  BY EntryTyped
<1>2. \A b \in W : b \in Nat /\ b < c /\ EndOf(b) \in Nat
  BY EntryTyped DEF Walked
<1>3. Walked(W \cup {c}, n)
  <2> HIDE DEF n
  <2>1. W \cup {c} \subseteq DOMAIN archive.at /\ n \in Nat /\ 0 \in (W \cup {c}) \cup {n}
    BY <1>1 DEF Walked
  <2>2. \A b \in W \cup {c} : Acceptable(b) /\ NameOf(b) # Trailer /\ b < n
    BY <1>1, <1>2 DEF Walked
  <2>3. \A b \in W \cup {c} : EndOf(b) \in (W \cup {c}) \cup {n}
    BY DEF Walked, n
  <2>4. \A d \in ((W \cup {c}) \cup {n}) \ {0} : \E b \in W \cup {c} : EndOf(b) = d
    BY DEF Walked, n
  <2>5. \A b, d \in W \cup {c} : NameOf(b) = NameOf(d) => b = d
    BY DEF Walked
  <2>6. ASSUME NEW b \in W \cup {c}, NEW d \in (W \cup {c}) \cup {n}, b < d PROVE EndOf(b) <= d
    <3>1. CASE b = c
      <4>1. d = n
        BY <1>1, <1>2, <2>6, <3>1
      <4> QED BY <1>1, <3>1, <4>1 DEF n
    <3>2. CASE b \in W /\ d \in W \cup {c}
      BY <2>6, <3>2 DEF Walked
    <3>3. CASE b \in W /\ d = n
      <4>1. EndOf(b) <= c
        BY <1>2, <3>3 DEF Walked
      <4> QED BY <1>1, <1>2, <3>3, <4>1
    <3> QED BY <3>1, <3>2, <3>3
  <2> QED BY <2>1, <2>2, <2>3, <2>4, <2>5, <2>6, Zenon DEF Walked
<1>4. Forced(W \cup {c}, n)
  <2> SUFFICES ASSUME NEW S \in SUBSET DOMAIN archive.at, NEW t \in S, WellFormed(S, t)
               PROVE  (W \cup {c}) \cup {n} \subseteq S
    BY DEF Forced
  <2>1. W \cup {c} \subseteq S
    BY DEF Forced
  <2>2. c # t
    BY <2>1 DEF WellFormed, Chain
  <2>3. n \in S
    BY <2>1, <2>2 DEF WellFormed, Chain
  <2> QED BY <2>1, <2>3
<1> QED BY <1>3, <1>4

\* A trailer with nothing but zeroes after it completes the archive.
LEMMA WalkEnds ==
  ASSUME archive \in Archives, NEW W, NEW c \in DOMAIN archive.at, Walked(W, c),
         Acceptable(c), NameOf(c) = Trailer, EndOf(c) >= archive.zeroFrom
  PROVE  WellFormed(W \cup {c}, c)
<1>1. \A b \in W : b # c /\ b \in Nat
  BY EntryTyped DEF Walked
<1>2. Chain(W \cup {c}, c)
  BY <1>1 DEF Walked, Chain
<1>3. \A b, d \in W \cup {c} : NameOf(b) = NameOf(d) => b = d
  BY DEF Walked
<1> QED BY <1>2, <1>3 DEF Walked, WellFormed

\* The trailer of a well-formed archive is its last entry.
LEMMA TrailerLast ==
  ASSUME archive \in Archives, NEW S \in SUBSET DOMAIN archive.at, NEW t \in S, WellFormed(S, t)
  PROVE  \A c \in S : c <= t
<1>1. S \in SUBSET Nat /\ S # {} /\ archive.size \in Nat
  BY CpioAssumption
<1>2. \A c \in S : c \in Nat /\ EndOf(c) \in Nat /\ c < EndOf(c) /\ EndOf(c) <= archive.size
  BY EntryTyped DEF WellFormed, Acceptable
<1>3. \A c \in S : c <= archive.size
  BY <1>1, <1>2
<1>4. PICK m \in S : \A c \in S : c <= m
  BY <1>1, <1>3, GreatestElement, Zenon
<1>5. m = t
  <2> SUFFICES ASSUME m # t PROVE FALSE
    OBVIOUS
  <2>1. EndOf(m) \in S
    BY DEF WellFormed, Chain
  <2> QED BY <1>2, <1>4, <2>1
<1> QED BY <1>4, <1>5

\* An archive is well formed in one way only: a first entry that is not on the
\* walk would follow one that is.
LEMMA OneChain ==
  ASSUME archive \in Archives, NEW W, NEW e, Walked(W, e), Forced(W, e), WellFormed(W \cup {e}, e),
         NEW S \in SUBSET DOMAIN archive.at, NEW t \in S, WellFormed(S, t)
  PROVE  S = W \cup {e} /\ t = e
<1>1. W \cup {e} \subseteq S
  BY DEF Forced
<1>2. t = e
  BY <1>1 DEF WellFormed, Chain
<1>3. S \subseteq W \cup {e}
  <2> DEFINE Off == S \ (W \cup {e})
  <2> SUFFICES ASSUME Off # {} PROVE FALSE
    OBVIOUS
  <2>1. \A c \in S : c \in Nat /\ EndOf(c) \in Nat /\ c < EndOf(c)
    BY EntryTyped DEF WellFormed
  <2>2. PICK c \in Off : \A d \in Off : c <= d
    <3>1. Off \in SUBSET Nat
      BY <2>1
    <3> HIDE DEF Off
    <3> QED BY <3>1, LeastElement
  <2>3. c # 0
    BY DEF Walked
  <2>4. PICK b \in S : EndOf(b) = c
    BY <2>3 DEF WellFormed, Chain
  <2>5. b \notin Off
    BY <2>1, <2>2, <2>4
  <2>6. b # e
    BY <1>2, <2>1, <2>4, TrailerLast
  <2>7. c \in W \cup {e}
    BY <2>4, <2>5, <2>6 DEF Walked
  <2> QED BY <2>7
<1> QED BY <1>1, <1>2, <1>3

\* What is known of a chain is known after a step that leaves the region alone.
LEMMA SameRegion ==
  ASSUME archive' = archive
  PROVE  /\ Walked(seen', cursor') => Walked(seen, cursor)'
         /\ Walked(seen', m_end') => Walked(seen, m_end)'
         /\ Forced(seen', cursor') => Forced(seen, cursor)'
         /\ Forced(seen', m_end') => Forced(seen, m_end)'
         /\ WellFormed(seen' \cup {m_end'}, m_end') => WellFormed(Entries, m_end)'
         /\ Unfit => Unfit'
<1> USE DEF Acceptable, NameOf, EndOf, DataOf
<1>1. Walked(seen', cursor') => Walked(seen, cursor)'
  BY DEF Walked
<1>2. Walked(seen', m_end') => Walked(seen, m_end)'
  BY DEF Walked
<1>3. Forced(seen', cursor') => Forced(seen, cursor)'
  BY DEF Forced, WellFormed, Chain
<1>4. Forced(seen', m_end') => Forced(seen, m_end)'
  BY DEF Forced, WellFormed, Chain
<1>5. WellFormed(seen' \cup {m_end'}, m_end') => WellFormed(Entries, m_end)'
  BY DEF WellFormed, Chain, Entries
<1>6. Unfit => Unfit'
  BY DEF Unfit, WellFormed, Chain
<1> QED BY <1>1, <1>2, <1>3, <1>4, <1>5, <1>6

\* The cursor is at offset 0 and has walked over nothing.
LEMMA CpioInitInv == CpioInit => CpioInv
<1> SUFFICES ASSUME CpioInit PROVE CpioInv
  OBVIOUS
<1>1. archive \in Archives /\ cursor = 0 /\ seen = {}
  BY DEF CpioInit
<1>2. Walked(seen, cursor)
  BY <1>1 DEF Walked
<1>3. Forced(seen, cursor)
  BY <1>1 DEF Forced, WellFormed, Chain
<1>4. archive.mapped => m_error = "validating"
  BY DEF CpioInit
<1>5. ~archive.mapped => m_error = "INVALID_REGION"
  BY DEF CpioInit
<1> QED BY <1>1, <1>2, <1>3, <1>4, <1>5 DEF CpioInv, Validating

\* A step after validate, or before it.
LEMMA CpioStays ==
  ASSUME CpioInv, UNCHANGED <<archive, seen, m_end, m_error>>, Validating => cursor' = cursor
  PROVE  CpioInv'
<1>1. Validating => (archive.mapped /\ Walked(seen, cursor) /\ Forced(seen, cursor))'
  BY SameRegion DEF CpioInv
<1>2. m_error = "NONE" =>
        (/\ archive.mapped /\ m_end \in DOMAIN archive.at
         /\ Walked(seen, m_end) /\ Forced(seen, m_end) /\ WellFormed(Entries, m_end))'
  BY SameRegion DEF CpioInv, Entries
<1>3. m_error \notin {"NONE", "validating"} => (~archive.mapped \/ Unfit)'
  BY SameRegion DEF CpioInv
<1> QED BY <1>1, <1>2, <1>3 DEF CpioInv, Validating

\* A region is refused only if no chain makes it well formed.
LEMMA RefusesUnfit ==
  ASSUME archive \in Archives, Walked(seen, cursor), Forced(seen, cursor),
         \/ cursor >= archive.size
         \/ read(cursor).error # "NONE"
         \/ read(cursor).error = "NONE" /\ read(cursor).name = Trailer /\ read(cursor).next < archive.zeroFrom
         \/ read(cursor).error = "NONE" /\ Duplicate(read(cursor).name)
  PROVE  Unfit
<1> SUFFICES ASSUME NEW S \in SUBSET DOMAIN archive.at, NEW t \in S, WellFormed(S, t)
             PROVE  FALSE
  BY DEF Unfit
<1>1. cursor \in S /\ cursor \in DOMAIN archive.at /\ Acceptable(cursor) /\ seen \subseteq S
  BY DEF Forced, WellFormed
<1>2. /\ read(cursor).error = "NONE" /\ read(cursor).name = NameOf(cursor)
      /\ read(cursor).next = EndOf(cursor)
  BY <1>1, ReadIs, ReadAccepts, EntryTyped
<1>3. ~(cursor >= archive.size)
  <2>1. cursor \in Nat /\ EndOf(cursor) \in Nat /\ cursor < EndOf(cursor) /\ EndOf(cursor) <= archive.size
    BY <1>1, EntryTyped DEF Acceptable
  <2>2. archive.size \in Nat
    BY CpioAssumption
  <2> QED BY <2>1, <2>2
<1>4. CASE NameOf(cursor) = Trailer /\ EndOf(cursor) < archive.zeroFrom
  <2>1. EndOf(cursor) >= archive.zeroFrom
    BY <1>1, <1>4 DEF WellFormed, Chain
  <2>2. EndOf(cursor) \in Nat /\ archive.zeroFrom \in Nat
    BY <1>1, EntryTyped, CpioAssumption
  <2> QED BY <1>4, <2>1, <2>2
<1>5. CASE Duplicate(NameOf(cursor))
  <2>1. PICK b \in seen : read(b).name = NameOf(cursor)
    BY <1>5 DEF Duplicate
  <2>2. NameOf(b) = NameOf(cursor) /\ b < cursor /\ b \in Nat
    BY <2>1, ReadIs, EntryTyped DEF Walked
  <2>3. b = cursor
    BY <1>1, <2>2 DEF WellFormed
  <2> QED BY <2>2, <2>3
<1> QED BY <1>2, <1>3, <1>4, <1>5

\* One turn of validate.
LEMMA ValidateKeeps == CpioInv /\ validate => CpioInv'
<1> SUFFICES ASSUME CpioInv, validate PROVE CpioInv'
  OBVIOUS
<1>1. /\ archive \in Archives /\ archive.mapped /\ Walked(seen, cursor) /\ Forced(seen, cursor)
      /\ archive' = archive /\ cursor \in Nat
  BY DEF CpioInv, validate, Judge, Walked
<1>2. ASSUME NEW err \in Errors \cup {"MISSING_TRAILER", "DUPLICATE_PATH"}, m_error' = err, Unfit
      PROVE  CpioInv'
  <2>1. m_error' \notin {"NONE", "validating"}
    BY <1>2 DEF Errors
  <2>2. Unfit'
    BY <1>1, <1>2, SameRegion
  <2> QED BY <1>1, <2>1, <2>2 DEF CpioInv, Validating
<1>3. CASE cursor >= archive.size /\ Judge("MISSING_TRAILER")
  BY <1>1, <1>2, <1>3, RefusesUnfit DEF Judge
<1>4. CASE cursor < archive.size /\ read(cursor).error # "NONE" /\ Judge(read(cursor).error)
  <2>1. read(cursor).error \in Errors
    BY <1>1, <1>4, ReadAccepts
  <2> QED BY <1>1, <1>2, <1>4, <2>1, RefusesUnfit DEF Judge
<1>5. ASSUME read(cursor).error = "NONE"
      PROVE  /\ cursor \in DOMAIN archive.at /\ Acceptable(cursor)
             /\ read(cursor).name = NameOf(cursor) /\ read(cursor).next = EndOf(cursor)
  BY <1>1, <1>5, ReadAccepts, ReadIs
<1>6. CASE /\ read(cursor).error = "NONE" /\ read(cursor).name = Trailer
           /\ read(cursor).next < archive.zeroFrom /\ Judge("BAD_TRAILER")
  BY <1>1, <1>2, <1>6, RefusesUnfit DEF Judge, Errors
<1>7. CASE /\ read(cursor).error = "NONE" /\ read(cursor).name = Trailer
           /\ read(cursor).next >= archive.zeroFrom /\ Judge("NONE") /\ m_end' = cursor
  <2>1. WellFormed(seen \cup {cursor}, cursor)
    BY <1>1, <1>5, <1>7, WalkEnds
  <2>2. seen' = seen /\ m_error' = "NONE"
    BY <1>7 DEF Judge
  <2>3. /\ Walked(seen', m_end') /\ Forced(seen', m_end') /\ m_end' \in DOMAIN archive'.at
        /\ WellFormed(seen' \cup {m_end'}, m_end')
    BY <1>1, <1>5, <1>7, <2>1, <2>2
  <2> QED BY <1>1, <2>2, <2>3, SameRegion DEF CpioInv, Validating
<1>8. CASE read(cursor).error = "NONE" /\ Duplicate(read(cursor).name) /\ Judge("DUPLICATE_PATH")
  BY <1>1, <1>2, <1>8, RefusesUnfit DEF Judge
<1>9. CASE /\ read(cursor).error = "NONE" /\ read(cursor).name # Trailer
           /\ ~Duplicate(read(cursor).name)
           /\ cursor' = read(cursor).next /\ seen' = seen \cup {cursor}
           /\ UNCHANGED <<archive, m_end, m_error>>
  <2>1. \A b \in seen : NameOf(b) # NameOf(cursor)
    BY <1>1, <1>5, <1>9, ReadIs DEF Walked, Duplicate
  <2>2. Walked(seen \cup {cursor}, EndOf(cursor)) /\ Forced(seen \cup {cursor}, EndOf(cursor))
    BY <1>1, <1>5, <1>9, <2>1, WalkOn
  <2>3. Walked(seen', cursor') /\ Forced(seen', cursor')
    BY <1>5, <1>9, <2>2
  <2>4. m_error' = "validating"
    BY <1>9 DEF validate, Validating
  <2> QED BY <1>1, <2>3, <2>4, SameRegion DEF CpioInv, Validating
<1> QED BY <1>3, <1>4, <1>6, <1>7, <1>8, <1>9 DEF validate

-----------------------------------------------------------------------------
(* Finding the files.                                                      *)

\* The paths ReadFiles looks for are in normal form.
LEMMA PathNormal ==
  ASSUME NEW f \in DOMAIN PathOf
  PROVE  normalize(PathOf[f]) = PathOf[f] /\ PathOf[f] # Trailer
<1>1. ASSUME NEW x, NEW y, x # "."
      PROVE  normalize(<<x, y>>) = <<x, y>>
  <2> DEFINE n == <<x, y>>
             kept == {i \in 1 .. Len(n) : i = Len(n) \/ n[i] # "."}
  <2>1. Len(n) = 2 /\ n[1] = x
    OBVIOUS
  <2>2. kept = {1, 2}
    BY <1>1, <2>1
  <2>3. Min({1, 2}) = 1
    BY DEF Min
  <2>4. SubSeq(n, 1, 2) = n
    <3>1. n \in Seq({x, y})
      OBVIOUS
    <3> HIDE DEF n
    <3> QED BY <2>1, <3>1
  <2>5. normalize(n) = SubSeq(n, Min(kept), Len(n))
    BY DEF normalize
  <2> HIDE DEF kept
  <2> QED BY <2>1, <2>2, <2>3, <2>4, <2>5
<1>2. f \in {"kernel", "dtb", "initrd"}
  BY DEF PathOf
<1>3. PICK y : PathOf[f] = <<"linux", y>>
  <2>1. CASE f = "kernel"
    <3>1. PathOf[f] = <<"linux", "Image">>
      BY <2>1 DEF PathOf
    <3> QED BY <3>1
  <2>2. CASE f = "dtb"
    <3>1. PathOf[f] = <<"linux", "guest.dtb">>
      BY <2>2 DEF PathOf
    <3> QED BY <3>1
  <2>3. CASE f = "initrd"
    <3>1. PathOf[f] = <<"linux", "initrd">>
      BY <2>3 DEF PathOf
    <3> QED BY <3>1
  <2> QED BY <1>2, <2>1, <2>2, <2>3
<1>4. <<"linux", y>> # Trailer
  BY DEF Trailer
<1> QED BY <1>1, <1>3, <1>4

\* An accepted archive: where its entries end, and which one Next returns.
LEMMA AtCursor ==
  ASSUME CpioInv, m_error = "NONE", cursor \in Entries
  PROVE  /\ Entries \subseteq DOMAIN archive.at /\ archive \in Archives
         /\ \A c \in Entries : c \in Nat /\ Acceptable(c)
         /\ HasNext <=> cursor \in seen
         /\ \A f \in DOMAIN PathOf : Matches(PathOf[f]) <=> cursor \in seen /\ Hit(cursor, f)
         /\ ~HasNext => cursor = m_end
<1>1. /\ archive \in Archives /\ Walked(seen, m_end) /\ WellFormed(Entries, m_end)
  BY DEF CpioInv
<1>2. /\ Entries \subseteq DOMAIN archive.at /\ \A c \in Entries : c \in Nat /\ Acceptable(c)
  BY <1>1, EntryTyped DEF CpioInv, WellFormed, Walked, Entries
<1>3. read(cursor).error = "NONE"
  BY <1>1, <1>2, ReadAccepts
<1>4. m_end \in Nat /\ \A c \in seen : c < m_end
  BY <1>1 DEF Walked
<1>5. (HasNext <=> cursor \in seen) /\ (~HasNext => cursor = m_end)
  BY <1>2, <1>3, <1>4 DEF HasNext, Entries
<1>6. ASSUME NEW f \in DOMAIN PathOf
      PROVE  Matches(PathOf[f]) <=> cursor \in seen /\ Hit(cursor, f)
  <2>1. /\ read(cursor).name = NameOf(cursor)
        /\ read(cursor).isDirectory <=> archive.at[cursor].type = "dir"
    BY <1>1, <1>2, ReadIs, Zenon
  <2> QED BY <1>5, <2>1, PathNormal DEF Matches, Hit
<1> QED BY <1>1, <1>2, <1>5, <1>6

\* What a path names in an accepted archive: no entry, or exactly one.
LEMMA ArchivedIs ==
  ASSUME CpioInv, m_error = "NONE", NEW f \in DOMAIN PathOf
  PROVE  /\ \A c \in Entries : Hit(c, f) => Archived(f) = FileAt(c)
         /\ (\A c \in Entries : ~Hit(c, f)) => Archived(f) = NoFile
<1> DEFINE S == CHOOSE S \in SUBSET DOMAIN archive.at : WellFormed(S, m_end)
           hits == {c \in S : archive.at[c].type # "dir" /\ NameOf(c) = PathOf[f]}
<1>1. /\ archive \in Archives /\ Walked(seen, m_end) /\ Forced(seen, m_end)
      /\ WellFormed(Entries, m_end) /\ Entries \in SUBSET DOMAIN archive.at
  BY DEF CpioInv, Walked, Entries
<1>2. S \in SUBSET DOMAIN archive.at /\ WellFormed(S, m_end)
  BY <1>1
<1> HIDE DEF S
<1>3. S = Entries
  <2>1. m_end \in S
    BY <1>2 DEF WellFormed, Chain
  <2> QED BY <1>1, <1>2, <2>1, OneChain DEF Entries
<1>4. hits = {c \in Entries : Hit(c, f)}
  BY <1>3 DEF Hit
<1>5. Archived(f) = IF hits = {} THEN NoFile ELSE FileAt(CHOOSE c \in hits : TRUE)
  BY DEF Archived, FileAt, S
<1> HIDE DEF hits
<1>6. ASSUME NEW c \in Entries, Hit(c, f) PROVE Archived(f) = FileAt(c)
  <2>1. c \in hits
    BY <1>4, <1>6
  <2>2. \A d \in hits : d = c
    BY <1>1, <1>4, <1>6 DEF WellFormed, Hit
  <2>3. (CHOOSE d \in hits : TRUE) = c
    BY <2>1, <2>2
  <2> QED BY <1>5, <2>1, <2>3, Zenon
<1>7. ASSUME \A c \in Entries : ~Hit(c, f) PROVE Archived(f) = NoFile
  BY <1>4, <1>5, <1>7
<1> QED BY <1>6, <1>7

\* The names of the three files.
LEMMA FileNames ==
  /\ DOMAIN PathOf = {"kernel", "dtb", "initrd"} /\ DOMAIN After = DOMAIN PathOf
  /\ After.kernel = "dtb" /\ After.dtb = "initrd"
  BY DEF PathOf, After

\* Nothing is found before the search starts.
LEMMA FindInitInv == Init => FindInv
<1> SUFFICES ASSUME Init PROVE FindInv
  OBVIOUS
<1>1. sought = "kernel" /\ sought \in DOMAIN PathOf
  BY FileNames DEF Init
<1>2. m_error # "NONE"
  BY DEF Init, CpioInit
<1>3. CASE stage = "read" /\ files = [f \in DOMAIN PathOf |-> NoFile]
  <2>1. NoFile \in [data : Int, size : Nat]
    BY DEF NoFile, None
  <2>2. files \in [DOMAIN PathOf -> [data : Int, size : Nat]]
    BY <1>3, <2>1
  <2>3. files.kernel = NoFile /\ files.dtb = NoFile /\ files.initrd = NoFile
    BY <1>3, FileNames
  <2> QED BY <1>1, <1>2, <2>2, <2>3 DEF FindInv
<1>4. CASE stage = "layoutOnly" /\ files \in [DOMAIN PathOf -> [data : {None}, size : Sizes]]
  <2>1. [data : {None}, size : Sizes] \subseteq [data : Int, size : Nat]
    <3> SUFFICES ASSUME NEW x \in [data : {None}, size : Sizes] PROVE x \in [data : Int, size : Nat]
      OBVIOUS
    <3>1. None \in Int /\ Sizes \subseteq Nat
      BY BootLoaderAssumption DEF None
    <3> QED BY <3>1, Zenon
  <2>2. files \in [DOMAIN PathOf -> [data : Int, size : Nat]]
    BY <1>4, <2>1
  <2> QED BY <1>1, <1>4, <2>2 DEF FindInv
<1> QED BY <1>3, <1>4 DEF Init

\* Once ReadFiles has returned its result stays.
LEMMA FindStays ==
  ASSUME FindInv, UNCHANGED <<files, sought>>, stage' # "read"
  PROVE  FindInv'
  BY DEF FindInv, PathOf

\* The first Find starts at offset 0.
LEMMA ValidateFind ==
  ASSUME FindInv, CpioInv', Validate
  PROVE  FindInv'
<1>1. /\ stage = "read" /\ stage' = "read" /\ m_error = "validating"
      /\ UNCHANGED <<files, sought>> /\ validate
  BY DEF Validate, validate, Validating
<1>2. /\ sought = "kernel" /\ files.kernel = NoFile /\ files.dtb = NoFile /\ files.initrd = NoFile
      /\ files \in [DOMAIN PathOf -> [data : Int, size : Nat]]
  BY <1>1 DEF FindInv
<1>3. ASSUME m_error' = "NONE"
      PROVE  cursor' \in Entries' /\ \A c \in Entries' : ~(c < cursor')
  <2>1. cursor' = 0
    BY <1>1, <1>3 DEF validate, Judge
  <2>2. /\ 0 \in Entries' /\ \A c \in Entries' : c \in Nat
    <3>1. Walked(seen, m_end)' /\ (archive \in Archives)'
      BY <1>3 DEF CpioInv
    <3>2. DOMAIN archive'.at \subseteq Nat
      BY <3>1, CpioAssumption
    <3> QED BY <3>1, <3>2 DEF Walked, Entries
  <2> QED BY <2>1, <2>2
<1>4. sought \in DOMAIN PathOf
  BY DEF FindInv
<1> QED BY <1>1, <1>2, <1>3, <1>4, Zenon DEF FindInv

\* One entry of one Find.
LEMMA ReadFilesFind ==
  ASSUME CpioInv, FindInv, ReadFiles
  PROVE  FindInv'
<1> DEFINE FileSet == [data : Int, size : Nat]
<1>1. /\ stage = "read" /\ UNCHANGED <<archive, seen, m_end, m_error>>
  BY Zenon DEF ReadFiles, Reject, archiveVars, cpioVars
<1>2. /\ Entries' = Entries /\ \A c, f : Hit(c, f)' <=> Hit(c, f)
  BY <1>1 DEF Entries, Hit, NameOf
<1>3. /\ files \in [DOMAIN PathOf -> FileSet] /\ sought \in DOMAIN PathOf
      /\ files.initrd = NoFile
  BY <1>1 DEF FindInv
<1>4. CASE Reject
  <2>1. stage' = "done" /\ UNCHANGED <<files, sought>>
    BY <1>4 DEF Reject, Return, archiveVars
  <2> QED BY <2>1, FindStays
<1>5. ASSUME m_error = "NONE"
      PROVE  /\ cursor \in Entries /\ \A c \in Entries : c < cursor => ~Hit(c, sought)
             /\ Entries \subseteq DOMAIN archive.at /\ archive \in Archives
             /\ \A c \in Entries : c \in Nat
             /\ HasNext <=> cursor \in seen
             /\ Matches(PathOf[sought]) <=> cursor \in seen /\ Hit(cursor, sought)
             /\ Walked(seen, m_end)
  <2>1. cursor \in Entries /\ \A c \in Entries : c < cursor => ~Hit(c, sought)
    BY <1>1, <1>5 DEF FindInv
  <2>2. Walked(seen, m_end)
    BY <1>5 DEF CpioInv
  <2> QED BY <1>3, <1>5, <2>1, <2>2, AtCursor
<1>6. CASE /\ HasNext /\ ~Matches(PathOf[sought]) /\ cursor' = read(cursor).next
           /\ UNCHANGED <<stage, files, sought>>
  <2>1. m_error = "NONE" /\ cursor \in seen /\ ~Hit(cursor, sought)
    BY <1>5, <1>6 DEF HasNext
  <2>2. cursor' = EndOf(cursor)
    BY <1>5, <1>6, <2>1, ReadIs
  <2>3. cursor' \in Entries
    BY <1>5, <2>1, <2>2 DEF Walked, Entries
  <2>4. ASSUME NEW c \in Entries, c < cursor' PROVE ~Hit(c, sought)
    <3>1. c \in Nat /\ cursor \in Nat /\ cursor' \in Nat
      BY <1>5, <2>1, <2>3
    <3>2. cursor < c => cursor' <= c
      BY <1>5, <2>1, <2>2 DEF Walked, Entries
    <3>3. c <= cursor
      BY <2>4, <3>1, <3>2
    <3>4. CASE c = cursor
      BY <2>1, <3>4
    <3>5. CASE c < cursor
      BY <1>5, <2>1, <3>5
    <3> QED BY <3>1, <3>3, <3>4, <3>5
  <2>5. \A f : Found(f) => Found(f)'
    BY <1>1, <1>2, <1>6 DEF Found, FileAt, DataOf
  <2> QED BY <1>1, <1>2, <1>3, <1>6, <2>1, <2>3, <2>4, <2>5 DEF FindInv, PathOf
<1>7. CASE /\ Matches(PathOf[sought]) /\ read(cursor).file.size # 0
           /\ files' = [files EXCEPT ![sought] = read(cursor).file] /\ SeekNext
  <2>1. m_error = "NONE" /\ cursor \in seen /\ Hit(cursor, sought)
    BY <1>5, <1>7 DEF Matches, HasNext
  <2>2. read(cursor).file = FileAt(cursor) /\ FileAt(cursor) \in FileSet
    <3>1. cursor \in DOMAIN archive.at
      BY <1>5, <2>1
    <3> QED BY <1>5, <2>1, <3>1, ReadIs, EntryTyped DEF FileAt, Headers
  <2>3. files' \in [DOMAIN PathOf -> FileSet] /\ files'[sought] = FileAt(cursor)
        /\ \A f \in DOMAIN PathOf : f # sought => files'[f] = files[f]
    BY <1>3, <1>7, <2>2
  <2>4. \A f \in DOMAIN PathOf : f = sought => Found(f)'
    <3>1. \A c : FileAt(c)' = FileAt(c)
      BY <1>1 DEF FileAt, DataOf
    <3>2. cursor \in Entries /\ files'[sought].size # 0
      BY <1>5, <1>7, <2>1, <2>2, <2>3
    <3>3. \A f \in DOMAIN PathOf : f = sought =>
            \E c \in Entries : Hit(c, f) /\ files'[f] = FileAt(c) /\ files'[f].size # 0
      BY <2>1, <2>3, <3>2
    <3> QED BY <1>2, <3>1, <3>3 DEF Found
  <2>5. CASE sought = "initrd"
    <3>1. stage' = "layout" /\ sought' = sought
      BY <1>7, <2>5 DEF SeekNext
    <3> QED BY <1>3, <2>3, <3>1 DEF FindInv
  <2>6. CASE sought # "initrd"
    <3>1. /\ stage' = "read" /\ sought' = After[sought] /\ cursor' = 0
      BY <1>1, <1>7, <2>6 DEF SeekNext
    <3>2. 0 \in Entries /\ \A c \in Entries : ~(c < 0)
      BY <1>5, <2>1 DEF Walked, Entries
    <3>3. \A f \in DOMAIN PathOf : f # sought /\ Found(f) => Found(f)'
      BY <1>1, <1>2, <2>3 DEF Found, FileAt, DataOf
    <3>4. CASE sought = "kernel"
      <4>1. sought' = "dtb" /\ sought' \in DOMAIN PathOf /\ files'.initrd = NoFile
        BY <1>3, <2>3, <3>1, <3>4, FileNames
      <4>2. files'.dtb = NoFile
        <5>1. files.dtb = NoFile
          BY <1>1, <3>4 DEF FindInv, Found
        <5> QED BY <2>3, <3>4, <5>1, FileNames
      <4>3. Found("kernel")'
        BY <2>4, <3>4, FileNames
      <4>4. cursor' \in Entries' /\ \A c \in Entries' : ~(c < cursor')
        BY <1>2, <3>1, <3>2
      <4> QED BY <1>1, <2>1, <2>3, <3>1, <4>1, <4>2, <4>3, <4>4, Zenon DEF FindInv
    <3>5. CASE sought = "dtb"
      <4>1. Found("kernel") /\ sought' = "initrd" /\ files'.initrd = NoFile
        BY <1>1, <1>3, <2>3, <3>1, <3>5, FileNames DEF FindInv
      <4>2. Found("kernel")'
        BY <3>3, <3>5, <4>1, FileNames
      <4>3. Found("dtb")' /\ sought' \in DOMAIN PathOf
        BY <2>4, <3>5, <4>1, FileNames
      <4>4. cursor' \in Entries' /\ \A c \in Entries' : ~(c < cursor')
        BY <1>2, <3>1, <3>2
      <4> QED BY <1>1, <2>1, <2>3, <3>1, <4>1, <4>2, <4>3, <4>4, Zenon DEF FindInv
    <3> QED BY <1>3, <2>6, <3>4, <3>5, FileNames
  <2> QED BY <2>5, <2>6
<1>8. CASE m_error = "NONE" /\ ~HasNext /\ sought = "initrd" /\ SeekNext /\ UNCHANGED files
  <2>1. stage' = "layout" /\ sought' = sought
    BY <1>8 DEF SeekNext
  <2> QED BY <1>8, <2>1, FindStays
<1> QED BY <1>4, <1>6, <1>7, <1>8 DEF ReadFiles

ReadIsExact ==
  /\ (stage' = "layout") <=>
       /\ m_error = "NONE"
       /\ Archived("kernel").size # 0 /\ Archived("dtb").size # 0
       /\ Archived("initrd") = NoFile \/ Archived("initrd").size # 0
  /\ stage' = "layout" => files' = [f \in DOMAIN PathOf |-> Archived(f)]

\* When ReadFiles returns, the files it found are those the paths name.
LEMMA ReadFilesExact ==
  ASSUME CpioInv, FindInv, ReadFiles, stage' # "read"
  PROVE  ReadIsExact
<1>1. stage = "read" /\ sought \in DOMAIN PathOf /\ files \in [DOMAIN PathOf -> [data : Int, size : Nat]]
  BY DEF ReadFiles, FindInv
<1>2. CASE m_error # "NONE" /\ Reject
  <2>1. stage' # "layout"
    BY <1>2 DEF Reject, Return
  <2> QED BY <1>2, <2>1 DEF ReadIsExact
<1> SUFFICES ASSUME m_error = "NONE" PROVE ReadIsExact
  BY <1>2 DEF ReadFiles, Matches, HasNext
<1>3. /\ cursor \in Entries /\ \A c \in Entries : c < cursor => ~Hit(c, sought)
      /\ Entries \subseteq DOMAIN archive.at /\ archive \in Archives
      /\ \A c \in Entries : c \in Nat
      /\ HasNext <=> cursor \in seen
      /\ Matches(PathOf[sought]) <=> cursor \in seen /\ Hit(cursor, sought)
      /\ ~HasNext => cursor = m_end
  <2>1. cursor \in Entries /\ \A c \in Entries : c < cursor => ~Hit(c, sought)
    BY <1>1 DEF FindInv
  <2> QED BY <1>1, <2>1, AtCursor
<1>4. NoFile.size = 0 /\ NoFile = [data |-> None, size |-> 0] /\ None \notin Nat
  BY DEF NoFile, None
<1>5. ASSUME NEW f \in DOMAIN PathOf, Found(f)
      PROVE  Archived(f) = files[f] /\ files[f].size # 0
  BY <1>5, ArchivedIs DEF Found
<1>6. sought # "kernel" => Archived("kernel") = files.kernel /\ files.kernel.size # 0
  BY <1>1, <1>5, FileNames DEF FindInv
<1>7. sought = "initrd" => Archived("dtb") = files.dtb /\ files.dtb.size # 0
  BY <1>1, <1>5, FileNames DEF FindInv
<1>8. ASSUME ~HasNext PROVE Archived(sought) = NoFile
  <2>1. NameOf(m_end) = Trailer /\ cursor = m_end /\ \A c \in Entries : c # m_end => c < m_end
    BY <1>3, <1>8, Zenon DEF CpioInv, WellFormed, Chain, Walked, Entries
  <2>2. \A c \in Entries : ~Hit(c, sought)
    BY <1>1, <1>3, <2>1, PathNormal DEF Hit
  <2> QED BY <1>1, <2>2, ArchivedIs
<1>9. ASSUME Matches(PathOf[sought])
      PROVE  /\ Archived(sought) = read(cursor).file
             /\ read(cursor).file.data \in Nat
  <2>1. cursor \in DOMAIN archive.at /\ Hit(cursor, sought)
    BY <1>3, <1>9
  <2>2. read(cursor).file = FileAt(cursor) /\ FileAt(cursor).data \in Nat
    BY <1>3, <2>1, ReadIs, EntryTyped DEF FileAt
  <2> QED BY <1>1, <1>3, <2>1, <2>2, ArchivedIs
<1>10. CASE Reject /\ (\/ Matches(PathOf[sought]) /\ read(cursor).file.size = 0
                       \/ ~HasNext /\ sought # "initrd")
  <2>1. stage' # "layout"
    BY <1>10 DEF Reject, Return
  <2>2. Archived(sought).size = 0 /\ (sought = "initrd" => Archived(sought) # NoFile)
    BY <1>4, <1>8, <1>9, <1>10
  <2>3. \/ Archived("kernel").size = 0
        \/ Archived("dtb").size = 0
        \/ Archived("initrd").size = 0 /\ Archived("initrd") # NoFile
    BY <1>1, <2>2, FileNames
  <2> QED BY <2>1, <2>3 DEF ReadIsExact
<1>11. ASSUME sought = "initrd", stage' = "layout", files'.initrd = Archived("initrd"),
              Archived("initrd") = NoFile \/ Archived("initrd").size # 0,
              files' \in [DOMAIN PathOf -> [data : Int, size : Nat]],
              files'.kernel = files.kernel, files'.dtb = files.dtb
       PROVE  ReadIsExact
  <2>1. \A f \in DOMAIN PathOf : files'[f] = Archived(f)
    BY <1>6, <1>7, <1>11, FileNames
  <2>2. files' = [f \in DOMAIN PathOf |-> Archived(f)]
    BY <1>11, <2>1
  <2> QED BY <1>6, <1>7, <1>11, <2>2 DEF ReadIsExact
<1>12. CASE /\ Matches(PathOf[sought]) /\ read(cursor).file.size # 0
            /\ files' = [files EXCEPT ![sought] = read(cursor).file] /\ SeekNext
  <2>1. sought = "initrd" /\ stage' = "layout"
    BY <1>1, <1>12 DEF SeekNext
  <2>2. files'.kernel = files.kernel /\ files'.dtb = files.dtb /\ files'.initrd = read(cursor).file
    BY <1>1, <1>12, <2>1, FileNames
  <2>3. files' \in [DOMAIN PathOf -> [data : Int, size : Nat]]
    BY ReadFilesFind DEF FindInv, PathOf
  <2> QED BY <1>9, <1>11, <1>12, <2>1, <2>2, <2>3
<1>13. CASE ~HasNext /\ sought = "initrd" /\ SeekNext /\ UNCHANGED files
  <2>1. stage' = "layout" /\ files.initrd = NoFile
    BY <1>1, <1>13 DEF SeekNext, FindInv
  <2> QED BY <1>1, <1>8, <1>11, <1>13, <2>1
<1>14. CASE HasNext /\ UNCHANGED stage
  BY <1>1, <1>14
<1> QED BY <1>10, <1>12, <1>13, <1>14 DEF ReadFiles

-----------------------------------------------------------------------------
(* The layout.                                                             *)

\* Where an accepted layout puts the files: the kernel, then the tree, then the
\* initrd, one after the other up to the end of guest RAM.
LEMMA LayoutIs ==
  ASSUME NEW k \in Nat, NEW d \in Nat, NEW i \in Nat, NEW l \in LayoutOf(k, d, i)
  PROVE  /\ k > 0 /\ d > 0 /\ l.kernelIpa = KERNEL_LOAD_IPA
         /\ l.dtbIpa \in Nat /\ l.dtbIpa % ALIGN_64K = 0 /\ KERNEL_LOAD_IPA + k <= l.dtbIpa
         /\ l.initrdIpa \in Nat /\ l.initrdIpa % ALIGN_2MB = 0
         /\ i = 0 => l.dtbIpa + d <= RamEnd
         /\ i # 0 => l.dtbIpa + d <= l.initrdIpa /\ l.initrdIpa + i <= RamEnd
<1> DEFINE kernelEnd == KERNEL_LOAD_IPA + k
           initrdIpa == IF i = 0 THEN 0 ELSE AlignDown(RamEnd - i, ALIGN_2MB)
           top == IF i = 0 THEN RamEnd ELSE initrdIpa
           dtbIpa == AlignDown(top - d, ALIGN_64K)
<1>1. /\ RamEnd \in Nat /\ KERNEL_LOAD_IPA \in Nat /\ U64 \in Nat
      /\ ALIGN_2MB \in Nat /\ ALIGN_2MB > 0 /\ ALIGN_64K \in Nat /\ ALIGN_64K > 0
  BY BootLoaderAssumption DEF RamEnd
<1>2. /\ ~({k, d} \cap {0} # {}) /\ ~(i > RamEnd) /\ ~(d > top) /\ ~(dtbIpa < kernelEnd)
      /\ l = [kernelIpa |-> KERNEL_LOAD_IPA, dtbIpa |-> dtbIpa, initrdIpa |-> initrdIpa]
  <2> HIDE DEF kernelEnd, top, dtbIpa, initrdIpa
  <2>1. LayoutOf(k, d, i) =
          IF \/ {k, d} \cap {0} # {}
             \/ kernelEnd >= U64
             \/ i > RamEnd
             \/ i # 0 /\ initrdIpa < kernelEnd
             \/ d > top
             \/ dtbIpa < kernelEnd
          THEN {}
          ELSE {[kernelIpa |-> KERNEL_LOAD_IPA, dtbIpa |-> dtbIpa, initrdIpa |-> initrdIpa]}
    BY Zenon DEF LayoutOf, kernelEnd, top, dtbIpa, initrdIpa
  <2> QED BY <2>1
<1>3. /\ initrdIpa \in Nat /\ initrdIpa % ALIGN_2MB = 0 /\ (i # 0 => initrdIpa + i <= RamEnd)
  <2>1. CASE i = 0
    <3>1. 0 % ALIGN_2MB = 0
      BY <1>1
    <3> QED BY <2>1, <3>1
  <2>2. CASE i # 0
    <3>1. RamEnd - i \in Nat
      BY <1>1, <1>2
    <3>2. /\ AlignDown(RamEnd - i, ALIGN_2MB) \in 0 .. RamEnd - i
          /\ AlignDown(RamEnd - i, ALIGN_2MB) % ALIGN_2MB = 0
      BY <1>1, <3>1, RoundsDown DEF AlignDown
    <3> QED BY <1>1, <2>2, <3>1, <3>2
  <2> QED BY <2>1, <2>2
<1>4. top \in Nat
  BY <1>1, <1>3
<1>5. dtbIpa \in Nat /\ dtbIpa % ALIGN_64K = 0 /\ dtbIpa + d <= top
  <2> HIDE DEF top
  <2>1. top - d \in Nat
    BY <1>2, <1>4
  <2>2. AlignDown(top - d, ALIGN_64K) \in 0 .. top - d /\ AlignDown(top - d, ALIGN_64K) % ALIGN_64K = 0
    BY <1>1, <2>1, RoundsDown DEF AlignDown
  <2> QED BY <1>4, <2>1, <2>2
<1>6. kernelEnd <= dtbIpa
  <2> HIDE DEF dtbIpa
  <2> QED BY <1>1, <1>2, <1>5
<1>7. k > 0 /\ d > 0
  <2>1. 0 \notin {k, d}
    BY <1>2, Zenon
  <2> QED BY <2>1
<1> HIDE DEF initrdIpa, dtbIpa
<1> QED BY <1>2, <1>3, <1>5, <1>6, <1>7

\* What is refused has no place: rounding down gives the highest place there is.
LEMMA MisfitIs ==
  ASSUME NEW k \in Nat \ {0}, NEW d \in Nat \ {0}, NEW i \in Nat, LayoutOf(k, d, i) = {},
         NEW ii \in (KERNEL_LOAD_IPA + k) .. RamEnd, NEW dd \in (KERNEL_LOAD_IPA + k) .. RamEnd,
         i # 0 => ii % ALIGN_2MB = 0, ii + i <= RamEnd, dd % ALIGN_64K = 0, dd + d <= ii
  PROVE  FALSE
<1> DEFINE kernelEnd == KERNEL_LOAD_IPA + k
           initrdIpa == IF i = 0 THEN 0 ELSE AlignDown(RamEnd - i, ALIGN_2MB)
           top == IF i = 0 THEN RamEnd ELSE initrdIpa
           dtbIpa == AlignDown(top - d, ALIGN_64K)
<1>1. /\ RamEnd \in Nat /\ KERNEL_LOAD_IPA \in Nat /\ U64 \in Nat /\ RamEnd < U64
      /\ ALIGN_2MB \in Nat /\ ALIGN_2MB > 0 /\ ALIGN_64K \in Nat /\ ALIGN_64K > 0
  BY BootLoaderAssumption DEF RamEnd
<1>2. ii \in Nat /\ dd \in Nat /\ kernelEnd \in Nat /\ kernelEnd <= ii /\ kernelEnd <= dd
  BY <1>1
<1>3. i # 0 => initrdIpa \in Nat /\ ii <= initrdIpa
  <2> SUFFICES ASSUME i # 0 PROVE initrdIpa \in Nat /\ ii <= initrdIpa
    OBVIOUS
  <2>1. RamEnd - i \in Nat /\ ii <= RamEnd - i
    BY <1>1, <1>2
  <2>2. /\ AlignDown(RamEnd - i, ALIGN_2MB) \in 0 .. RamEnd - i
        /\ ii <= AlignDown(RamEnd - i, ALIGN_2MB)
    BY <1>1, <1>2, <2>1, RoundsDown DEF AlignDown
  <2> QED BY <2>1, <2>2
<1>4. top \in Nat /\ ii <= top
  BY <1>1, <1>2, <1>3
<1> HIDE DEF initrdIpa
<1>5. dtbIpa \in Nat /\ dd <= dtbIpa
  <2> HIDE DEF top
  <2>1. top - d \in Nat /\ dd <= top - d
    BY <1>2, <1>4
  <2>2. /\ AlignDown(top - d, ALIGN_64K) \in 0 .. top - d
        /\ dd <= AlignDown(top - d, ALIGN_64K)
    BY <1>1, <1>2, <2>1, RoundsDown, Zenon DEF AlignDown
  <2> QED BY <2>1, <2>2
<1> HIDE DEF top, dtbIpa
<1>6. /\ ~({k, d} \cap {0} # {}) /\ ~(kernelEnd >= U64) /\ ~(i > RamEnd)
      /\ ~(i # 0 /\ initrdIpa < kernelEnd) /\ ~(d > top) /\ ~(dtbIpa < kernelEnd)
  BY <1>1, <1>2, <1>3, <1>4, <1>5
<1>7. LayoutOf(k, d, i) =
        IF \/ {k, d} \cap {0} # {}
           \/ kernelEnd >= U64
           \/ i > RamEnd
           \/ i # 0 /\ initrdIpa < kernelEnd
           \/ d > top
           \/ dtbIpa < kernelEnd
        THEN {}
        ELSE {[kernelIpa |-> KERNEL_LOAD_IPA, dtbIpa |-> dtbIpa, initrdIpa |-> initrdIpa]}
  BY Zenon DEF LayoutOf, kernelEnd, top, dtbIpa, initrdIpa
<1> QED BY <1>6, <1>7, Zenon

Ram == Units(GUEST_IPA_BASE, GUEST_RAM_SIZE)

\* The units of an accepted layout.
LEMMA Placed ==
  ASSUME FindInv, LaidOut
  PROVE  /\ layout.kernelIpa \in Kernel /\ layout.dtbIpa \in Dtb
         /\ Kernel \subseteq Ram /\ Dtb \subseteq Ram /\ Initrd \subseteq Ram
         /\ Kernel \cap Dtb = {} /\ Kernel \cap Initrd = {} /\ Dtb \cap Initrd = {}
         /\ layout.dtbIpa % ALIGN_64K = 0 /\ layout.initrdIpa % ALIGN_2MB = 0
<1> DEFINE k == files.kernel.size
           d == files.dtb.size
           i == files.initrd.size
<1>1. k \in Nat /\ d \in Nat /\ i \in Nat
  <2>1. \A f \in {"kernel", "dtb", "initrd"} : files[f] \in [data : Int, size : Nat]
    BY FileNames DEF FindInv
  <2> QED BY <2>1
<1>2. layout \in LayoutOf(k, d, i)
  BY DEF LaidOut
<1> HIDE DEF k, d, i
<1>3. /\ k > 0 /\ d > 0 /\ layout.kernelIpa = KERNEL_LOAD_IPA
      /\ layout.dtbIpa \in Nat /\ layout.dtbIpa % ALIGN_64K = 0 /\ KERNEL_LOAD_IPA + k <= layout.dtbIpa
      /\ layout.initrdIpa \in Nat /\ layout.initrdIpa % ALIGN_2MB = 0
      /\ i = 0 => layout.dtbIpa + d <= RamEnd
      /\ i # 0 => layout.dtbIpa + d <= layout.initrdIpa /\ layout.initrdIpa + i <= RamEnd
  BY <1>1, <1>2, LayoutIs
<1>4. /\ GUEST_IPA_BASE \in Nat /\ GUEST_RAM_SIZE \in Nat /\ KERNEL_LOAD_IPA \in Nat
      /\ GUEST_IPA_BASE <= KERNEL_LOAD_IPA /\ RamEnd = GUEST_IPA_BASE + GUEST_RAM_SIZE
  BY BootLoaderAssumption DEF RamEnd
<1>5. /\ Kernel = KERNEL_LOAD_IPA .. (KERNEL_LOAD_IPA + k - 1)
      /\ Dtb = layout.dtbIpa .. (layout.dtbIpa + d - 1)
      /\ Initrd = IF i = 0 THEN {} ELSE layout.initrdIpa .. (layout.initrdIpa + i - 1)
      /\ Ram = GUEST_IPA_BASE .. (GUEST_IPA_BASE + GUEST_RAM_SIZE - 1)
  BY <1>3 DEF Kernel, Dtb, Initrd, Units, Ram, k, d, i
<1>6. /\ layout.dtbIpa + d <= RamEnd
      /\ i # 0 => RamEnd >= layout.initrdIpa + i /\ layout.initrdIpa >= GUEST_IPA_BASE
  BY <1>1, <1>3, <1>4
<1>7. /\ Kernel \subseteq Ram /\ Dtb \subseteq Ram /\ Initrd \subseteq Ram
      /\ Kernel \cap Dtb = {} /\ Kernel \cap Initrd = {} /\ Dtb \cap Initrd = {}
  <2>1. Kernel \subseteq Ram
    BY <1>1, <1>3, <1>4, <1>5, <1>6
  <2>2. Dtb \subseteq Ram
    BY <1>1, <1>3, <1>4, <1>5, <1>6
  <2>3. Initrd \subseteq Ram
    BY <1>1, <1>3, <1>4, <1>5, <1>6
  <2>4. Kernel \cap Dtb = {}
    BY <1>1, <1>3, <1>4, <1>5
  <2>5. \A u \in Initrd : u \in Int /\ u >= layout.dtbIpa + d
    BY <1>1, <1>3, <1>5
  <2>6. Kernel \cap Initrd = {}
    <3>1. \A u \in Kernel : u \in Int /\ u < layout.dtbIpa
      BY <1>1, <1>3, <1>4, <1>5
    <3> QED BY <1>1, <1>3, <2>5, <3>1
  <2>7. Dtb \cap Initrd = {}
    BY <1>1, <1>3, <1>5, <2>5
  <2> QED BY <2>1, <2>2, <2>3, <2>4, <2>6, <2>7
<1>8. layout.kernelIpa \in Kernel /\ layout.dtbIpa \in Dtb
  BY <1>1, <1>3, <1>4, <1>5
<1> QED BY <1>3, <1>7, <1>8

\* The initrd's place is an address, 0 if there is none.
LEMMA LayoutTyped ==
  ASSUME FindInv, LaidOut
  PROVE  layout.initrdIpa \in Nat
<1>1. \A f \in {"kernel", "dtb", "initrd"} : files[f] \in [data : Int, size : Nat]
  BY FileNames DEF FindInv
<1>2. files.kernel.size \in Nat /\ files.dtb.size \in Nat /\ files.initrd.size \in Nat
  BY <1>1
<1> QED BY <1>2, LayoutIs DEF LaidOut

\* A layout is kept while it and the files are.
LEMMA LaidOutStays ==
  ASSUME UNCHANGED <<files, layout>>
  PROVE  LaidOut <=> LaidOut'
  BY DEF LaidOut

\* CalculateLayout, as a part of Load or alone.
LEMMA CalculateKeeps ==
  ASSUME LayoutInv, CalculateLayout
  PROVE  LayoutInv'
<1> DEFINE l == LayoutOf(files.kernel.size, files.dtb.size, files.initrd.size)
<1>1. files' = files /\ stage \in {"layout", "layoutOnly"} /\ layout = NoLayout
  BY Zenon DEF CalculateLayout, Reject, LayoutInv
<1>2. CASE Reject
  <2>1. stage' = "done" /\ ~ok' /\ layout' = layout
    BY <1>2 DEF Reject, Return
  <2> QED BY <1>1, <2>1 DEF LayoutInv
<1>3. CASE layout' \in l /\ stage' \in {"alloc", "returned"}
  <2>1. LaidOut'
    BY <1>1, <1>3 DEF LaidOut
  <2> QED BY <1>3, <2>1 DEF LayoutInv
<1>4. CASE l = {} /\ layout' = NoLayout /\ stage' = "returned"
  <2>1. LayoutOf(files.kernel.size, files.dtb.size, files.initrd.size)' = {}
    BY <1>1, <1>4
  <2> QED BY <1>4, <2>1 DEF LayoutInv
<1> QED BY <1>2, <1>3, <1>4 DEF CalculateLayout

-----------------------------------------------------------------------------
(* The patcher.                                                            *)

\* Steps outside the patcher keep what is known of it: the values it stored
\* depend on the layout and the files.
LEMMA PatchStays ==
  ASSUME PatchInv, UNCHANGED patcher, UNCHANGED <<files, layout>> \/ Unpatched
  PROVE  PatchInv'
<1>1. {<<v[2], v[3]>> : v \in values}' = {<<p[2], Value(p)>> : p \in found}'
  <2>1. CASE UNCHANGED <<files, layout>>
    BY <2>1, Zenon DEF PatchInv, Value, patcher
  <2>2. CASE Unpatched
    BY <2>2 DEF Unpatched, patcher
  <2> QED BY <2>1, <2>2
<1> QED BY <1>1, Zenon DEF PatchInv, PatchesOnlyPlaceholders, patcher

\* A node opens: only a child of the root changes the patcher's node.
LEMMA BeginPatch ==
  ASSUME PatchInv, NEW name \in NodeNames, BeginNode(name), ~Reject
  PROVE  PatchInv'
<1>1. /\ path \in Seq(NodeNames) /\ depth = Len(path) /\ path' = Append(path, name)
      /\ UNCHANGED <<loadVars, found, values>> /\ depth' = depth + 1
      /\ depth = 0 => IsRoot(name)
  BY Zenon DEF BeginNode, PatchInv, IsRoot
<1>n. /\ depth # 1 => node' = node
      /\ depth = 1 => NamesNode(node', name)
  <2>1. node' = IF depth # 1 THEN node
                ELSE CASE name \in {"memory", "memory@"} -> "memory"
                       [] name = "chosen" -> "chosen"
                       [] OTHER -> "other"
    BY Zenon DEF BeginNode
  <2> QED BY <2>1 DEF NamesNode
<1>2. /\ path' \in Seq(NodeNames) /\ Len(path') = Len(path) + 1 /\ Len(path) \in Nat
      /\ \A i \in 1 .. Len(path) : path'[i] = path[i]
      /\ path'[Len(path) + 1] = name
  BY <1>1
<1>3. IsRoot(path'[1])
  <2>1. CASE depth = 0
    BY <1>1, <1>2, <2>1
  <2>2. CASE depth # 0
    BY <1>1, <1>2, <2>2 DEF PatchInv
  <2> QED BY <2>1, <2>2
<1>4. depth' > 1 => NamesNode(node', path'[2])
  <2>1. CASE depth = 1
    <3>1. path'[2] = name
      BY <1>1, <1>2, <2>1
    <3> QED BY <1>n, <2>1, <3>1
  <2>2. CASE depth > 1
    <3>1. path'[2] = path[2] /\ node' = node
      BY <1>1, <1>2, <1>n, <2>2
    <3> QED BY <2>2, <3>1 DEF PatchInv
  <2> QED BY <1>1, <1>2, <2>1, <2>2
<1>5. PatchesOnlyPlaceholders' /\ found' \subseteq Placeholders
  BY <1>1, Zenon DEF PatchInv, PatchesOnlyPlaceholders
<1>6. {<<v[2], v[3]>> : v \in values}' = {<<p[2], Value(p)>> : p \in found}'
  BY <1>1, ZenonT(30) DEF PatchInv, Value, loadVars
<1>7. IsRoot(path[1])' /\ (depth' > 1 => NamesNode(node, path[2])')
  BY <1>3, <1>4, Zenon DEF IsRoot, NamesNode
<1> QED BY <1>1, <1>2, <1>5, <1>6, <1>7 DEF PatchInv

\* A node closes: back at the root the patcher forgets the child.
LEMMA EndPatch ==
  ASSUME PatchInv, EndNode, ~Reject
  PROVE  PatchInv'
<1>1. /\ path \in Seq(NodeNames) /\ depth = Len(path) /\ path' = SubSeq(path, 1, Len(path) - 1)
      /\ UNCHANGED <<loadVars, found, values>> /\ depth' = depth - 1 /\ depth # 0
      /\ node' = IF depth' = 1 THEN "other" ELSE node
  BY DEF EndNode, PatchInv
<1>2. /\ path' \in Seq(NodeNames) /\ Len(path') = Len(path) - 1 /\ Len(path) \in Nat
      /\ \A i \in 1 .. Len(path) - 1 : path'[i] = path[i]
  BY <1>1, FrontProperties
<1>3. depth' > 0 => path'[1] = path[1] /\ depth > 0
  BY <1>1, <1>2
<1>4. depth' > 1 => path'[2] = path[2] /\ depth > 1 /\ node' = node
  BY <1>1, <1>2
<1>7. (depth' > 0 => IsRoot(path[1])') /\ (depth' > 1 => NamesNode(node, path[2])')
  <2>1. (depth' > 0 => IsRoot(path'[1])) /\ (depth' > 1 => NamesNode(node', path'[2]))
    BY <1>3, <1>4 DEF PatchInv
  <2> QED BY <2>1, Zenon DEF IsRoot, NamesNode
<1>5. PatchesOnlyPlaceholders' /\ found' \subseteq Placeholders
  BY <1>1, Zenon DEF PatchInv, PatchesOnlyPlaceholders
<1>6. {<<v[2], v[3]>> : v \in values}' = {<<p[2], Value(p)>> : p \in found}'
  BY <1>1, Zenon DEF PatchInv, Value, loadVars
<1> QED BY <1>1, <1>2, <1>5, <1>6, <1>7 DEF PatchInv

\* A property: only at depth 2 is one filled, and there the patcher's node is
\* the one the property is in.
LEMMA PropertyPatch ==
  ASSUME PatchInv, NEW name \in PropertyNames, NEW right \in BOOLEAN, Property(name, right), ~Reject
  PROVE  PatchInv'
<1> DEFINE p == <<node, name>>
           w == <<path, name, Value(p)>>
<1>1. CASE UNCHANGED <<loadVars, depth, hasRoot, node, found, path, values>>
  BY <1>1, PatchStays DEF patcher, loadVars
<1>2. CASE /\ depth = 2 /\ p \in Placeholders
           /\ found' = found \cup {p} /\ values' = values \cup {w}
           /\ UNCHANGED <<loadVars, depth, hasRoot, node, path>>
  <2>1. Len(path) = 2 /\ IsRoot(path[1]) /\ NamesNode(node, path[2])
    BY <1>2 DEF PatchInv
  <2>2. \/ name = "reg" /\ path[2] \in {"memory", "memory@"}
        \/ name \in {"initrd-start", "initrd-end"} /\ path[2] = "chosen"
    BY <1>2, <2>1 DEF NamesNode, Placeholders
  <2>3. PatchesOnlyPlaceholders'
    <3>2. /\ Len(w[1]) = 2 /\ w[1][1] = ""
          /\ \/ w[2] = "reg" /\ w[1][2] \in {"memory", "memory@"}
             \/ w[2] \in {"initrd-start", "initrd-end"} /\ w[1][2] = "chosen"
      BY <2>1, <2>2, Zenon DEF IsRoot
    <3> HIDE DEF w
    <3> QED BY <1>2, <3>2, Zenon DEF PatchInv, PatchesOnlyPlaceholders
  <2>4. \A q : Value(q)' = Value(q)
    BY <1>2 DEF Value, loadVars
  <2>5. {<<v[2], v[3]>> : v \in values}' = {<<q[2], Value(q)>> : q \in found}'
    <3> DEFINE val == Value(p)
    <3>1. {<<v[2], v[3]>> : v \in values'} = {<<v[2], v[3]>> : v \in values} \cup {<<name, val>>}
      <4>1. values' = values \cup {w} /\ w[2] = name /\ w[3] = val
        BY <1>2
      <4> HIDE DEF val, w
      <4> QED BY <4>1
    <3>2. {<<q[2], Value(q)>> : q \in found'} = {<<q[2], Value(q)>> : q \in found} \cup {<<name, val>>}
      BY <1>2
    <3>3. {<<q[2], Value(q)>> : q \in found}' = {<<q[2], Value(q)>> : q \in found'}
      BY <2>4
    <3> QED BY <3>1, <3>2, <3>3, Zenon DEF PatchInv
  <2>6. found' \subseteq Placeholders
    BY <1>2 DEF PatchInv
  <2> QED BY <1>2, <2>3, <2>5, <2>6, Zenon DEF PatchInv
<1> QED BY <1>1, <1>2, Zenon DEF Property, patch

-----------------------------------------------------------------------------
(* Load.                                                                   *)

\* Nothing is done.
LEMMA InitIInv == Init => IInv
<1> SUFFICES ASSUME Init PROVE IInv
  OBVIOUS
<1>1. CpioInv /\ FindInv
  BY CpioInitInv, FindInitInv DEF Init
<1>2. LayoutInv
  BY DEF Init, LayoutInv
<1>3. PatchInv
  <2>1. path = <<>> /\ path \in Seq(NodeNames) /\ Len(path) = 0 /\ depth = 0
    BY DEF Init
  <2>2. values = {} /\ found = {}
    BY DEF Init
  <2> QED BY <2>1, <2>2 DEF PatchInv, PatchesOnlyPlaceholders
<1>4. LoadInv
  BY Zenon DEF Init, LoadInv, Unpatched, Owning, GuestReady
<1> QED BY <1>1, <1>2, <1>3, <1>4 DEF IInv

\* After ReadFiles the archive and the files stay.
LEMMA FilesStay ==
  ASSUME CpioInv, FindInv, UNCHANGED <<cpioVars, sought, files>>, stage' # "read"
  PROVE  CpioInv' /\ FindInv'
  BY CpioStays, FindStays DEF cpioVars

\* Whatever step fails, guest RAM is given back.
LEMMA RejectKeeps ==
  ASSUME IInv, Reject
  PROVE  IInv'
<1>1. /\ stage' = "done" /\ ok' = FALSE /\ ram' = FALSE
      /\ UNCHANGED <<cpioVars, sought, files, layout, content, dirty, patcher>>
  BY Zenon DEF Reject, Return, archiveVars
<1>2. CpioInv' /\ FindInv'
  BY <1>1, FilesStay DEF IInv
<1>3. LayoutInv'
  <2>1. layout = NoLayout \/ LaidOut
    BY DEF IInv, LayoutInv
  <2> QED BY <1>1, <2>1, LaidOutStays DEF LayoutInv
<1>4. PatchInv'
  BY <1>1, PatchStays DEF IInv
<1>5. LoadInv'
  BY <1>1, Zenon DEF IInv, LoadInv, Owning, GuestReady
<1> QED BY <1>2, <1>3, <1>4, <1>5 DEF IInv

\* From the allocation of guest RAM on there is a layout, which stays.
LEMMA Onwards ==
  ASSUME IInv, stage \in {"alloc"} \cup Owning, stage' \in Owning \cup {"done"},
         UNCHANGED <<cpioVars, sought, files, layout>>
  PROVE  LaidOut /\ CpioInv' /\ FindInv' /\ LayoutInv'
<1>1. LaidOut
  BY DEF IInv, LayoutInv, Owning
<1>2. LaidOut'
  BY <1>1, LaidOutStays
<1>3. stage' \notin {"read", "layout", "layoutOnly"}
  BY DEF Owning
<1>4. CpioInv' /\ FindInv'
  BY <1>3, FilesStay DEF IInv
<1> QED BY <1>1, <1>2, <1>3, <1>4 DEF LayoutInv

\* Validation and the search leave guest RAM alone.
LEMMA EarlyKeeps ==
  ASSUME IInv, CpioInv', FindInv', LayoutInv',
         stage \in {"read", "layout", "layoutOnly", "alloc"},
         stage' \in {"read", "layout", "alloc", "returned"},
         UNCHANGED <<ok, ram, content, dirty, patcher>>
  PROVE  IInv'
<1>1. Unpatched /\ PatchInv /\ LoadInv
  BY Zenon DEF IInv, LoadInv
<1>2. PatchInv'
  BY <1>1, PatchStays
<1>3. LoadInv'
  BY <1>1, Zenon DEF LoadInv, Unpatched, Owning, GuestReady, patcher
<1> QED BY <1>2, <1>3 DEF IInv

\* The archive is validated and read.
LEMMA ReadKeeps ==
  ASSUME IInv, Validate \/ ReadFiles
  PROVE  IInv'
<1>1. CASE Validate
  <2>1. CpioInv'
    BY <1>1, ValidateKeeps DEF IInv, Validate
  <2>2. FindInv'
    BY <1>1, <2>1, ValidateFind DEF IInv
  <2>3. stage = "read" /\ UNCHANGED <<stage, ok, layout, ram, content, dirty, patcher>>
    BY <1>1 DEF Validate
  <2>4. LayoutInv'
    BY <2>3 DEF IInv, LayoutInv
  <2> QED BY <2>1, <2>2, <2>3, <2>4, EarlyKeeps
<1>2. CASE ReadFiles /\ ~Reject
  <2>1. /\ stage = "read" /\ stage' \in {"read", "layout"} /\ ~Validating
        /\ UNCHANGED <<archive, seen, m_end, m_error, ok, layout, ram, content, dirty, patcher>>
    BY <1>2, Zenon DEF ReadFiles, SeekNext
  <2>2. CpioInv' /\ FindInv'
    BY <1>2, <2>1, CpioStays, ReadFilesFind DEF IInv
  <2>3. LayoutInv'
    BY <2>1, Zenon DEF IInv, LayoutInv
  <2> QED BY <2>1, <2>2, <2>3, EarlyKeeps
<1> QED BY <1>1, <1>2, RejectKeeps

\* The layout is decided and guest RAM allocated.
LEMMA PlanKeeps ==
  ASSUME IInv, CalculateLayout \/ AllocRam
  PROVE  IInv'
<1>1. CASE CalculateLayout /\ ~Reject
  <2>1. /\ stage \in {"layout", "layoutOnly"} /\ stage' \in {"alloc", "returned"}
        /\ UNCHANGED <<cpioVars, sought, files, ok, ram, content, dirty, patcher>>
    BY <1>1 DEF CalculateLayout, archiveVars
  <2>2. CpioInv' /\ FindInv' /\ LayoutInv'
    BY <1>1, <2>1, FilesStay, CalculateKeeps DEF IInv
  <2> QED BY <2>1, <2>2, EarlyKeeps
<1>2. CASE AllocRam /\ ~Reject
  <2>1. /\ stage = "alloc" /\ stage' = "copyKernel" /\ ram' = TRUE
        /\ UNCHANGED <<cpioVars, sought, ok, files, layout, content, dirty, patcher>>
    BY <1>2 DEF AllocRam, archiveVars
  <2>2. CpioInv' /\ FindInv' /\ LayoutInv'
    BY <2>1, Onwards DEF Owning
  <2>3. PatchInv'
    BY <2>1, PatchStays DEF IInv
  <2>4. LoadInv'
    BY <2>1, Zenon DEF IInv, LoadInv, Unpatched, Owning, GuestReady, patcher
  <2> QED BY <2>2, <2>3, <2>4 DEF IInv
<1> QED BY <1>1, <1>2, RejectKeeps

\* The kernel is copied to where it belongs.
LEMMA CopyKernelKeeps ==
  ASSUME IInv, CopyKernel
  PROVE  IInv'
<1>1. /\ stage = "copyKernel" /\ stage' = "copyDtb"
      /\ UNCHANGED <<cpioVars, sought, ok, files, layout, ram, patcher>>
      /\ content' = [u \in DOMAIN content |->
                       IF u \in Kernel THEN files.kernel.data + (u - layout.kernelIpa) ELSE content[u]]
      /\ dirty' = dirty \ Kernel
  BY Zenon DEF CopyKernel, copyToGuest, archiveVars, Kernel
<1>2. LaidOut /\ CpioInv' /\ FindInv' /\ LayoutInv'
  BY <1>1, Onwards DEF Owning
<1>3. PatchInv'
  BY <1>1, PatchStays DEF IInv
<1>4. LoadInv /\ DOMAIN content = Ram /\ Kernel \subseteq Ram
  BY <1>2, Placed DEF IInv, LoadInv, Ram
<1>5. Holds(layout.kernelIpa, files.kernel)'
  BY <1>1, <1>4 DEF Holds, Kernel
<1>6. DOMAIN content' = DOMAIN content
  BY <1>1
<1>7. LoadInv'
  BY <1>1, <1>4, <1>5, <1>6, ZenonT(30) DEF LoadInv, Unpatched, Owning, GuestReady, patcher
<1> QED BY <1>2, <1>3, <1>7 DEF IInv

\* The tree is copied above the kernel.
LEMMA CopyDtbKeeps ==
  ASSUME IInv, CopyDtb
  PROVE  IInv'
<1>1. /\ stage = "copyDtb" /\ stage' = "header"
      /\ UNCHANGED <<cpioVars, sought, ok, files, layout, ram, patcher>>
      /\ content' = [u \in DOMAIN content |->
                       IF u \in Dtb THEN files.dtb.data + (u - layout.dtbIpa) ELSE content[u]]
      /\ dirty' = dirty \ Dtb
  BY DEF CopyDtb, copyToGuest, archiveVars, Dtb
<1>2. LaidOut /\ CpioInv' /\ FindInv' /\ LayoutInv'
  BY <1>1, Onwards DEF Owning
<1>3. PatchInv'
  BY <1>1, PatchStays DEF IInv
<1>4. /\ LoadInv /\ DOMAIN content = Ram /\ Kernel \subseteq Ram /\ Dtb \subseteq Ram
      /\ Kernel \cap Dtb = {}
  BY <1>2, Placed DEF IInv, LoadInv, Ram
<1>5. Holds(layout.dtbIpa, files.dtb)'
  BY <1>1, <1>4 DEF Holds, Dtb
<1>6. Holds(layout.kernelIpa, files.kernel)'
  <2>1. \A u \in Kernel : content'[u] = content[u]
    BY <1>1, <1>4
  <2>2. \A u \in Kernel : content[u] = files.kernel.data + (u - layout.kernelIpa)
    BY <1>1, <1>4 DEF LoadInv, Owning, Holds, Kernel
  <2> QED BY <1>1, <2>1, <2>2 DEF Holds, Kernel
<1>7. DOMAIN content' = DOMAIN content
  BY <1>1
<1>8. LoadInv'
  BY <1>1, <1>4, <1>5, <1>6, <1>7, Zenon DEF LoadInv, Unpatched, Owning, GuestReady, patcher
<1> QED BY <1>2, <1>3, <1>8 DEF IInv

\* What the tree names once every placeholder is filled.
LEMMA AllFilled ==
  ASSUME PatchInv, found = Placeholders
  PROVE  {<<v[2], v[3]>> : v \in values} =
           { <<"reg", <<GUEST_IPA_BASE, GUEST_RAM_SIZE>>>>,
             <<"initrd-start", <<layout.initrdIpa>>>>,
             <<"initrd-end", <<layout.initrdIpa + files.initrd.size>>>> }
<1> DEFINE a == <<"memory", "reg">>
           b == <<"chosen", "initrd-start">>
           c == <<"chosen", "initrd-end">>
<1>1. {<<v[2], v[3]>> : v \in values} = {<<p[2], Value(p)>> : p \in {a, b, c}}
  BY DEF PatchInv, Placeholders
<1>2. a[2] = "reg" /\ b[2] = "initrd-start" /\ c[2] = "initrd-end"
  OBVIOUS
<1>3. /\ Value(a) = <<GUEST_IPA_BASE, GUEST_RAM_SIZE>> /\ Value(b) = <<layout.initrdIpa>>
      /\ Value(c) = <<layout.initrdIpa + files.initrd.size>>
  BY DEF Value
<1> HIDE DEF a, b, c
<1>4. {<<p[2], Value(p)>> : p \in {a, b, c}} =
        { <<a[2], Value(a)>>, <<b[2], Value(b)>>, <<c[2], Value(c)>> }
  OBVIOUS
<1> QED BY <1>1, <1>2, <1>3, <1>4

\* The initrd is copied above the tree, and Load returns true.
LEMMA CopyInitrdKeeps ==
  ASSUME IInv, CopyInitrd
  PROVE  IInv'
<1>1. /\ stage = "copyInitrd" /\ stage' = "done" /\ ok' = TRUE /\ ram' = (TRUE /\ ram)
      /\ UNCHANGED <<cpioVars, sought, files, layout, patcher>>
  BY DEF CopyInitrd, Return, archiveVars
<1>2. LaidOut /\ CpioInv' /\ FindInv' /\ LayoutInv'
  BY <1>1, Onwards DEF Owning
<1>3. PatchInv'
  BY <1>1, PatchStays DEF IInv
<1>4. /\ LoadInv /\ DOMAIN content = Ram /\ Kernel \subseteq Ram /\ Dtb \subseteq Ram
      /\ Initrd \subseteq Ram /\ Kernel \cap Initrd = {} /\ Dtb \cap Initrd = {}
  BY <1>2, Placed DEF IInv, LoadInv, Ram
<1>5. dirty = {} /\ found = Placeholders
  BY <1>1, <1>4 DEF LoadInv
<1>6. \/ /\ files.initrd.size # 0 /\ dirty' = dirty \ Initrd
         /\ content' = [u \in DOMAIN content |->
                          IF u \in Initrd THEN files.initrd.data + (u - layout.initrdIpa) ELSE content[u]]
      \/ files.initrd.size = 0 /\ UNCHANGED <<content, dirty>>
  BY DEF CopyInitrd, copyToGuest, Initrd
<1>7. DOMAIN content' = DOMAIN content /\ dirty' = {}
  BY <1>5, <1>6
<1>8. \A u \in Kernel \cup Dtb : content'[u] = content[u]
  BY <1>4, <1>6
<1>9. Holds(layout.kernelIpa, files.kernel)'
  <2>1. \A u \in Kernel : content[u] = files.kernel.data + (u - layout.kernelIpa)
    BY <1>1, <1>4, ZenonT(30) DEF LoadInv, Owning, Holds, Kernel
  <2> QED BY <1>1, <1>8, <2>1 DEF Holds, Kernel
<1>10. Holds(layout.dtbIpa, files.dtb)'
  <2>1. \A u \in Dtb : content[u] = files.dtb.data + (u - layout.dtbIpa)
    BY <1>1, <1>4 DEF LoadInv, Owning, Holds, Dtb
  <2> QED BY <1>1, <1>8, <2>1, ZenonT(30) DEF Holds, Dtb
<1>11. Holds(layout.initrdIpa, files.initrd)'
  <2>1. CASE files.initrd.size # 0
    <3>1. \A u \in Initrd : content'[u] = files.initrd.data + (u - layout.initrdIpa)
      BY <1>4, <1>6, <2>1
    <3> QED BY <1>1, <2>1, <3>1 DEF Holds, Initrd
  <2>2. CASE files.initrd.size = 0
    <3>1. layout.initrdIpa \in Nat
      BY <1>2, LayoutTyped DEF IInv
    <3>2. Units(layout.initrdIpa, 0) = {}
      BY <3>1 DEF Units
    <3> QED BY <1>1, <2>2, <3>2 DEF Holds
  <2> QED BY <2>1, <2>2
<1>12. PatchInv' /\ found' = Placeholders
  BY <1>1, <1>3, <1>5 DEF patcher
<1>13. GuestReady'
  <2>1. ram' = ok'
    BY <1>1, <1>4, Zenon DEF LoadInv, Owning
  <2>2. ({<<v[2], v[3]>> : v \in values} =
           { <<"reg", <<GUEST_IPA_BASE, GUEST_RAM_SIZE>>>>,
             <<"initrd-start", <<layout.initrdIpa>>>>,
             <<"initrd-end", <<layout.initrdIpa + files.initrd.size>>>> })'
    BY <1>1, <1>5, AllFilled DEF IInv, patcher
  <2> QED BY <1>1, <1>7, <1>9, <1>10, <1>11, <2>1, <2>2, ZenonT(30) DEF GuestReady
<1>14. LoadInv'
  BY <1>1, <1>4, <1>7, <1>13 DEF LoadInv, Owning
<1> QED BY <1>2, <1>3, <1>14 DEF IInv

\* A token that is not rejected leaves everything but the tree alone, and
\* dirties no more than the tree.
LEMMA TokenKeeps ==
  ASSUME IInv, stage = "patch", PatchInv', UNCHANGED loadVars,
         dirty' = dirty \/ dirty' = dirty \cup Dtb
  PROVE  IInv'
<1>1. UNCHANGED <<cpioVars, sought, stage, ok, files, layout, ram, content>>
  BY DEF loadVars, archiveVars
<1>2. CpioInv' /\ FindInv' /\ LayoutInv'
  BY <1>1, Onwards DEF Owning
<1>3. dirty' \subseteq Dtb'
  BY <1>1 DEF IInv, LoadInv, Dtb
<1>4. Holds(layout.kernelIpa, files.kernel)' /\ Holds(layout.dtbIpa, files.dtb)'
  BY <1>1, ZenonT(30) DEF IInv, LoadInv, Owning, Holds
<1>5. LoadInv'
  BY <1>1, <1>3, <1>4, Zenon DEF IInv, LoadInv, Owning, GuestReady
<1> QED BY <1>2, <1>5 DEF IInv

\* The header is read and the tokens are walked.
LEMMA PatchKeeps ==
  ASSUME IInv,
         \/ readHeader \/ EndNode \/ Nop \/ Malformed \/ End
         \/ \E name \in NodeNames : BeginNode(name)
         \/ \E name \in PropertyNames, right \in BOOLEAN : Property(name, right)
  PROVE  IInv'
<1>1. CASE readHeader /\ ~Reject
  <2>1. /\ stage = "header" /\ stage' = "patch"
        /\ UNCHANGED <<cpioVars, sought, ok, files, layout, ram, content, dirty, patcher>>
    BY <1>1 DEF readHeader, archiveVars
  <2>2. CpioInv' /\ FindInv' /\ LayoutInv'
    BY <2>1, Onwards DEF Owning
  <2>3. PatchInv'
    BY <2>1, PatchStays DEF IInv
  <2>4. Holds(layout.kernelIpa, files.kernel)' /\ Holds(layout.dtbIpa, files.dtb)'
    BY <2>1, ZenonT(30) DEF IInv, LoadInv, Owning, Holds
  <2>5. LoadInv'
    BY <2>1, <2>4, Zenon DEF IInv, LoadInv, Owning, GuestReady
  <2> QED BY <2>2, <2>3, <2>5 DEF IInv
<1>2. CASE EndNode /\ ~Reject
  <2>1. stage = "patch" /\ UNCHANGED loadVars /\ dirty' = dirty
    BY <1>2 DEF EndNode, Reading
  <2> QED BY <1>2, <2>1, EndPatch, TokenKeeps DEF IInv
<1>3. CASE Nop
  <2>1. stage = "patch" /\ UNCHANGED loadVars /\ dirty' = dirty /\ UNCHANGED patcher
    BY <1>3 DEF Nop, Reading, patcher
  <2>2. PatchInv'
    BY <2>1, PatchStays DEF IInv, loadVars
  <2> QED BY <2>1, <2>2, TokenKeeps
<1>4. CASE End /\ ~Reject
  <2>1. /\ stage = "patch" /\ stage' = "copyInitrd" /\ found = Placeholders /\ dirty' = dirty \ Dtb
        /\ UNCHANGED <<cpioVars, sought, ok, files, layout, ram, content, patcher>>
    BY <1>4 DEF End, Reading, Finished, archiveVars, Dtb
  <2>2. CpioInv' /\ FindInv' /\ LayoutInv'
    BY <2>1, Onwards DEF Owning
  <2>3. PatchInv'
    BY <2>1, PatchStays DEF IInv
  <2>4. Holds(layout.kernelIpa, files.kernel)' /\ Holds(layout.dtbIpa, files.dtb)'
    BY <2>1, ZenonT(30) DEF IInv, LoadInv, Owning, Holds
  <2>5. dirty' = {} /\ found' = Placeholders
    BY <2>1, ZenonT(30) DEF IInv, LoadInv, patcher
  <2>6. LoadInv'
    BY <2>1, <2>4, <2>5, Zenon DEF IInv, LoadInv, Owning, GuestReady
  <2> QED BY <2>2, <2>3, <2>6 DEF IInv
<1>5. ASSUME NEW name \in NodeNames, BeginNode(name), ~Reject
      PROVE  IInv'
  <2>1. stage = "patch" /\ UNCHANGED loadVars /\ dirty' = dirty
    BY <1>5, Zenon DEF BeginNode, Reading
  <2> QED BY <1>5, <2>1, BeginPatch, TokenKeeps DEF IInv
<1>6. ASSUME NEW name \in PropertyNames, NEW right \in BOOLEAN, Property(name, right), ~Reject
      PROVE  IInv'
  <2>1. stage = "patch" /\ UNCHANGED loadVars /\ (dirty' = dirty \/ dirty' = dirty \cup Dtb)
    BY <1>6, Zenon DEF Property, patch, Reading, Dtb
  <2> QED BY <1>6, <2>1, PropertyPatch, TokenKeeps DEF IInv
<1>7. CASE Reject
  BY <1>7, RejectKeeps
<1> QED BY <1>1, <1>2, <1>3, <1>4, <1>5, <1>6, <1>7 DEF Malformed

\* hmain panics or starts the guest at the kernel with the tree in x0.
LEMMA StartKeeps ==
  ASSUME IInv, hmain
  PROVE  IInv'
<1>1. /\ stage = "done" /\ stage' \in {"panic", "running"}
      /\ UNCHANGED <<cpioVars, sought, ok, files, layout, ram, content, dirty, patcher>>
      /\ stage' = "panic" => ~ok
      /\ stage' = "running" => ok /\ guest' = [pc |-> layout.kernelIpa, x0 |-> layout.dtbIpa]
  BY DEF hmain
<1>2. CpioInv' /\ FindInv'
  BY <1>1, FilesStay DEF IInv
<1>3. LaidOut \/ (layout = NoLayout /\ ~ok)
  <2>1. LayoutInv /\ stage \notin {"read", "layout", "layoutOnly"} /\ stage # "returned" /\ ok \in BOOLEAN
    BY <1>1 DEF IInv, LoadInv
  <2> QED BY <2>1 DEF LayoutInv
<1>4. LayoutInv'
  BY <1>1, <1>3, LaidOutStays DEF LayoutInv
<1>5. PatchInv'
  BY <1>1, PatchStays DEF IInv
<1>6. ok => /\ Holds(layout.kernelIpa, files.kernel) /\ Holds(layout.dtbIpa, files.dtb)
            /\ Holds(layout.initrdIpa, files.initrd)
  BY <1>1, ZenonT(30) DEF IInv, LoadInv, GuestReady
<1>7. ok => /\ Holds(layout.kernelIpa, files.kernel)' /\ Holds(layout.dtbIpa, files.dtb)'
            /\ Holds(layout.initrdIpa, files.initrd)'
  BY <1>1, <1>6, Zenon DEF Holds
<1>8. ok => content[layout.kernelIpa] = files.kernel.data /\ content[layout.dtbIpa] = files.dtb.data
  <2> SUFFICES ASSUME ok PROVE content[layout.kernelIpa] = files.kernel.data /\ content[layout.dtbIpa] = files.dtb.data
    OBVIOUS
  <2>1. layout.kernelIpa \in Kernel /\ layout.dtbIpa \in Dtb
    BY <1>3, Placed DEF IInv
  <2>2. /\ content[layout.kernelIpa] = files.kernel.data + (layout.kernelIpa - layout.kernelIpa)
        /\ content[layout.dtbIpa] = files.dtb.data + (layout.dtbIpa - layout.dtbIpa)
    BY <1>6, <2>1 DEF Holds, Kernel, Dtb
  <2>3. \A f \in {"kernel", "dtb"} : files[f] \in [data : Int, size : Nat]
    BY FileNames DEF IInv, FindInv
  <2>4. files.kernel.data \in Int /\ files.dtb.data \in Int
    BY <2>3
  <2>5. layout.kernelIpa \in Int /\ layout.dtbIpa \in Int
    BY <2>1 DEF Kernel, Dtb, Units
  <2> QED BY <2>2, <2>4, <2>5
<1>9. LoadInv /\ GuestReady
  BY DEF IInv, LoadInv
<1>10. ({<<v[2], v[3]>> : v \in values} =
           { <<"reg", <<GUEST_IPA_BASE, GUEST_RAM_SIZE>>>>,
             <<"initrd-start", <<layout.initrdIpa>>>>,
             <<"initrd-end", <<layout.initrdIpa + files.initrd.size>>>> }) \/ ~ok
  BY <1>1, <1>9 DEF GuestReady
<1>11. (stage = "running" =>
         content[guest.pc] = files.kernel.data /\ content[guest.x0] = files.dtb.data)'
  BY <1>1, <1>8
<1>12. ram' = ok' /\ (ok' => dirty' = {})
  BY <1>1, <1>9 DEF GuestReady
<1>13. ({<<v[2], v[3]>> : v \in values} =
           { <<"reg", <<GUEST_IPA_BASE, GUEST_RAM_SIZE>>>>,
             <<"initrd-start", <<layout.initrdIpa>>>>,
             <<"initrd-end", <<layout.initrdIpa + files.initrd.size>>>> })' \/ ~ok'
  BY <1>1, <1>10 DEF patcher
<1>14. GuestReady'
  BY <1>1, <1>7, <1>11, <1>12, <1>13, ZenonT(30) DEF GuestReady
<1>15. LoadInv'
  BY <1>1, <1>9, <1>14, Zenon DEF LoadInv, Owning
<1> QED BY <1>2, <1>4, <1>5, <1>15 DEF IInv

\* Every step keeps the invariant.
LEMMA NextKeeps == IInv /\ [Next]_vars => IInv'
<1> SUFFICES ASSUME IInv, [Next]_vars PROVE IInv'
  OBVIOUS
<1>1. CASE UNCHANGED vars
  <2>1. /\ UNCHANGED <<cpioVars, stage, ok, files, sought, layout, ram, content, dirty>>
        /\ UNCHANGED <<patcher, guest>>
    BY <1>1 DEF vars, patcher
  <2>2. CpioInv'
    BY <2>1, CpioStays DEF IInv, cpioVars
  <2>3. FindInv'
    BY <2>1, Zenon DEF IInv, FindInv, Found, Entries, Hit, FileAt, NameOf, DataOf, cpioVars
  <2>4. LayoutInv'
    BY <2>1 DEF IInv, LayoutInv, LaidOut
  <2>5. PatchInv'
    BY <2>1, PatchStays DEF IInv
  <2>6. LoadInv'
    BY <2>1, Zenon DEF IInv, LoadInv, Unpatched, Holds, Dtb, GuestReady, patcher
  <2> QED BY <2>2, <2>3, <2>4, <2>5, <2>6 DEF IInv
<1>2. CASE Validate \/ ReadFiles
  BY <1>2, ReadKeeps
<1>3. CASE CalculateLayout \/ AllocRam
  BY <1>3, PlanKeeps
<1>4. CASE CopyKernel \/ CopyDtb \/ CopyInitrd
  BY <1>4, CopyKernelKeeps, CopyDtbKeeps, CopyInitrdKeeps
<1>5. CASE \/ readHeader \/ EndNode \/ Nop \/ Malformed \/ End
           \/ \E name \in NodeNames : BeginNode(name)
           \/ \E name \in PropertyNames, right \in BOOLEAN : Property(name, right)
  BY <1>5, PatchKeeps
<1>6. CASE hmain
  BY <1>6, StartKeeps
<1>7. CASE Done
  BY <1>1, <1>7 DEF Done
<1> QED BY <1>1, <1>2, <1>3, <1>4, <1>5, <1>6, <1>7 DEF Next

-----------------------------------------------------------------------------
(* The theorems.                                                           *)

\* The invariant of validation, search, layout, patching and loading holds.
THEOREM IInvHolds == Spec => []IInv
  BY InitIInv, NextKeeps, PTL DEF Spec

\* For any region, validate accepts exactly the archives that are mapped and
\* hold a chain of sound, differently named entries from offset 0 to a trailer
\* (CpioArchive::validate), and what it takes for the end is that trailer.
THEOREM AcceptsWellFormedHolds == Spec => []AcceptsWellFormed
<1>1. IInv => AcceptsWellFormed
  <2> SUFFICES ASSUME CpioInv, ~Validating PROVE AcceptsWellFormed
    BY DEF IInv, AcceptsWellFormed
  <2> DEFINE IsTrailer(t) == \E S \in SUBSET DOMAIN archive.at : WellFormed(S, t)
  <2>1. m_error # "validating"
    BY DEF Validating
  <2>2. CASE m_error = "NONE"
    <3>1. archive.mapped /\ m_end \in DOMAIN archive.at /\ WellFormed(Entries, m_end)
      BY <2>2 DEF CpioInv
    <3>2. Entries \in SUBSET DOMAIN archive.at
      BY <2>2, <3>1, Zenon DEF CpioInv, Walked, Entries
    <3>3. IsTrailer(m_end)
      BY <3>1, <3>2
    <3>4. ASSUME NEW t \in DOMAIN archive.at, IsTrailer(t) PROVE t = m_end
      <4>1. PICK S \in SUBSET DOMAIN archive.at : WellFormed(S, t)
        BY <3>4
      <4>2. t \in S
        BY <4>1 DEF WellFormed, Chain
      <4>3. archive \in Archives /\ Walked(seen, m_end) /\ Forced(seen, m_end)
        BY <2>2 DEF CpioInv
      <4> QED BY <3>1, <4>1, <4>2, <4>3, OneChain DEF Entries
    <3> HIDE DEF IsTrailer
    <3>5. /\ (m_error = "NONE") <=> (archive.mapped /\ \E t \in DOMAIN archive.at : IsTrailer(t))
          /\ m_error = "NONE" => \A t \in DOMAIN archive.at : IsTrailer(t) <=> t = m_end
      BY <2>2, <3>1, <3>3, <3>4
    <3> QED BY <3>5 DEF AcceptsWellFormed, IsTrailer
  <2>3. CASE m_error # "NONE"
    <3>1. ~archive.mapped \/ Unfit
      BY <2>1, <2>3 DEF CpioInv
    <3>2. ASSUME Unfit, NEW t \in DOMAIN archive.at, NEW S \in SUBSET DOMAIN archive.at, WellFormed(S, t)
          PROVE  FALSE
      <4>1. t \in S
        BY <3>2 DEF WellFormed, Chain
      <4> QED BY <3>2, <4>1 DEF Unfit
    <3>3. ~(archive.mapped /\ \E t \in DOMAIN archive.at : IsTrailer(t))
      BY <3>1, <3>2
    <3> HIDE DEF IsTrailer
    <3>5. /\ (m_error = "NONE") <=> (archive.mapped /\ \E t \in DOMAIN archive.at : IsTrailer(t))
          /\ m_error = "NONE" => \A t \in DOMAIN archive.at : IsTrailer(t) <=> t = m_end
      BY <2>3, <3>3
    <3> QED BY <3>5 DEF AcceptsWellFormed, IsTrailer
  <2> QED BY <2>2, <2>3
<1> QED BY <1>1, IInvHolds, PTL

\* For any region, ReadFiles goes on exactly when the archive is valid and the
\* files that must be there are and are not empty, and it has found the files
\* that the paths name (BootLoader::ReadFiles, CpioArchive::Find).
THEOREM ReadsExactlyHolds == Spec => ReadsExactly
<1>1. IInv /\ [Next]_vars => [stage = "read" /\ stage' # "read" => ReadIsExact]_vars
  <2> SUFFICES ASSUME IInv, Next, stage = "read", stage' # "read" PROVE ReadIsExact
    OBVIOUS
  <2>1. ReadFiles
    BY DEF Next, Validate, CalculateLayout, AllocRam, CopyKernel, CopyDtb, CopyInitrd, readHeader,
           EndNode, Nop, Malformed, End, BeginNode, Property, hmain, Done, Reading
  <2> QED BY <2>1, ReadFilesExact DEF IInv
<1> QED BY <1>1, IInvHolds, PTL DEF Spec, ReadsExactly, ReadIsExact

\* For any sizes, a layout that CalculateLayout accepts keeps the files inside
\* guest RAM, on their boundaries and apart.
THEOREM LayoutSoundHolds == Spec => []LayoutSound
<1>1. IInv => LayoutSound
  <2> SUFFICES ASSUME IInv, layout # NoLayout PROVE LayoutSound
    BY DEF LayoutSound
  <2>1. LaidOut
    BY DEF IInv, LayoutInv
  <2> QED BY <2>1, Placed DEF IInv, LayoutSound, Ram
<1> QED BY <1>1, IInvHolds, PTL

\* For any sizes, what CalculateLayout rejects has no place in guest RAM.
THEOREM RejectsOnlyMisfitsHolds == Spec => []RejectsOnlyMisfits
<1>1. IInv => RejectsOnlyMisfits
  <2> DEFINE k == files.kernel.size
             d == files.dtb.size
             i == files.initrd.size
  <2> SUFFICES ASSUME IInv, stage = "returned", layout = NoLayout, 0 \notin {k, d},
                      NEW ii \in (KERNEL_LOAD_IPA + k) .. RamEnd,
                      NEW dd \in (KERNEL_LOAD_IPA + k) .. RamEnd,
                      i # 0 => ii % ALIGN_2MB = 0, ii + i <= RamEnd, dd % ALIGN_64K = 0, dd + d <= ii
               PROVE  FALSE
    BY DEF RejectsOnlyMisfits
  <2>1. \A f \in {"kernel", "dtb", "initrd"} : files[f] \in [data : Int, size : Nat]
    BY FileNames DEF IInv, FindInv
  <2>2. k \in Nat \ {0} /\ d \in Nat \ {0} /\ i \in Nat
    BY <2>1
  <2>3. ~LaidOut
    <3>1. ASSUME LaidOut PROVE FALSE
      <4>1. KERNEL_LOAD_IPA + k <= layout.dtbIpa
        BY <2>2, <3>1, LayoutIs DEF LaidOut
      <4>2. layout.dtbIpa = 0
        BY ZenonT(30) DEF NoLayout
      <4>3. KERNEL_LOAD_IPA \in Nat
        BY BootLoaderAssumption
      <4> QED BY <2>2, <4>1, <4>2, <4>3
    <3> QED BY <3>1
  <2>4. LayoutOf(k, d, i) = {}
    BY <2>3, ZenonT(30) DEF IInv, LayoutInv
  <2> HIDE DEF k, d, i
  <2> QED BY <2>2, <2>4, MisfitIs
<1> QED BY <1>1, IInvHolds, PTL

\* For any stream of tokens, only the placeholders of the two nodes below the
\* root are filled (DtbPatcher).
THEOREM PatchesOnlyPlaceholdersHolds == Spec => []PatchesOnlyPlaceholders
<1>1. IInv => PatchesOnlyPlaceholders
  BY ZenonT(30) DEF IInv, PatchInv
<1> QED BY <1>1, IInvHolds, PTL

\* Whatever step of Load fails, for any files and any stream of tokens, loading
\* is all or nothing.
THEOREM GuestReadyHolds == Spec => []GuestReady
<1>1. IInv => GuestReady
  BY Zenon DEF IInv, LoadInv
<1> QED BY <1>1, IInvHolds, PTL

=============================================================================
