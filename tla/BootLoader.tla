----------------------------- MODULE BootLoader -----------------------------
(***************************************************************************)
(* Loading the guest (core/bootLoader) from the boot archive, as hmain     *)
(* does it: validate the archive, find the files, decide where they go in  *)
(* guest RAM, allocate the RAM, copy the files, fill the placeholders of   *)
(* the copied device tree while walking its tokens, and start the VM.      *)
(* CalculateLayout is public: a caller may hand it any sizes.              *)
(*                                                                         *)
(* The tree is not built in advance: its tokens come one by one, and a     *)
(* ghost stack remembers which node each property really belongs to.       *)
(***************************************************************************)
EXTENDS Cpio

CONSTANTS
  GUEST_IPA_BASE, GUEST_RAM_SIZE, KERNEL_LOAD_IPA,
  ALIGN_2MB, ALIGN_64K,
  U64,           \* 64-bit arithmetic wraps at this value
  Sizes,         \* sizes a caller of CalculateLayout may pass
  NodeNames,     \* names of nodes; "memory@" stands for those with that prefix
  MaxDepth       \* bound: nesting of nodes

ASSUME BootLoaderAssumption ==
  /\ {ALIGN_2MB, ALIGN_64K, U64} \subseteq Nat \ {0}
  /\ {GUEST_IPA_BASE, GUEST_RAM_SIZE, KERNEL_LOAD_IPA, MaxDepth} \subseteq Nat
  /\ GUEST_IPA_BASE + GUEST_RAM_SIZE < U64
  /\ GUEST_IPA_BASE <= KERNEL_LOAD_IPA
  /\ Sizes \subseteq Nat

VARIABLES
  stage,    \* where Load is
  ok,       \* what it returned, once stage is "done"
  files,    \* where the files are in the archive, and their sizes
  sought,   \* the file Find looks for
  layout,   \* where the files go
  ram,      \* the loader or its caller owns guest RAM
  content,  \* what each unit of guest RAM holds
  dirty,    \* units whose last store is only in the data cache
  depth, hasRoot, node, found,  \* the patcher's members
  path,     \* ghost: names of the open nodes
  values,   \* ghost: stores into the tree, <<path, property, value>>
  guest     \* program counter and x0 the VM is built with

vars == <<cpioVars, stage, ok, files, sought, layout, ram, content, dirty,
          depth, hasRoot, node, found, path, values, guest>>
patcher == <<depth, hasRoot, node, found, path, values>>
archiveVars == <<cpioVars, sought, guest>>

None == -1
NoFile == [data |-> None, size |-> 0]
NoGuest == [pc |-> None, x0 |-> None]
NoLayout == [kernelIpa |-> 0, dtbIpa |-> 0, initrdIpa |-> 0]
RamEnd == GUEST_IPA_BASE + GUEST_RAM_SIZE
Units(ipa, n) == ipa .. (ipa + n - 1)

PathOf == [kernel |-> <<"linux", "Image">>, dtb |-> <<"linux", "guest.dtb">>,
           initrd |-> <<"linux", "initrd">>]

\* A call of Load on an archive, or of CalculateLayout alone.
Init ==
  /\ CpioInit /\ sought = "kernel"
  /\ \/ /\ stage = "read"
        /\ files = [f \in DOMAIN PathOf |-> NoFile]
     \/ /\ stage = "layoutOnly" /\ archive = CHOOSE a \in Archives : TRUE
        /\ files \in [DOMAIN PathOf -> [data : {None}, size : Sizes]]
  /\ ok = FALSE
  /\ layout = NoLayout
  /\ ram = FALSE
  /\ content = [u \in Units(GUEST_IPA_BASE, GUEST_RAM_SIZE) |-> None]
  /\ dirty = {}
  /\ depth = 0 /\ hasRoot = FALSE /\ node = "other" /\ found = {}
  /\ path = <<>> /\ values = {}
  /\ guest = NoGuest

\* Load returns; on failure the deleter gives guest RAM back.
Return(b) ==
  /\ stage' = "done" /\ ok' = b
  /\ ram' = (b /\ ram)

Reject == Return(FALSE) /\ UNCHANGED <<archiveVars, files, layout, content, dirty, patcher>>

-----------------------------------------------------------------------------
(* Finding the files and deciding the layout.                              *)

\* hmain constructs the archive, which validates it, before the loader.
Validate ==
  /\ stage = "read" /\ validate
  /\ UNCHANGED <<stage, ok, files, sought, layout, ram, content, dirty, patcher, guest>>

After == [kernel |-> "dtb", dtb |-> "initrd", initrd |-> "layout"]

\* Find of the next file starts at the first entry again; after the initrd
\* the layout is next.
SeekNext ==
  /\ cursor' = 0
  /\ IF sought = "initrd" THEN stage' = "layout" /\ UNCHANGED sought
                          ELSE sought' = After[sought] /\ UNCHANGED stage

\* ReadFiles, one entry of one Find at a time.  Kernel and tree must be there,
\* and nothing that is there may be empty.
ReadFiles ==
  LET e == read(cursor)
      rest == <<archive, seen, m_end, m_error, ok, layout, ram, content, dirty, patcher, guest>>
      hit == Matches(PathOf[sought])
  IN  /\ stage = "read" /\ ~Validating
      /\ \/ m_error # "NONE" /\ Reject
         \/ HasNext /\ ~hit /\ cursor' = e.next /\ UNCHANGED <<rest, stage, files, sought>>
         \/ hit /\ e.file.size = 0 /\ Reject
         \/ /\ hit /\ e.file.size # 0
            /\ files' = [files EXCEPT ![sought] = e.file]
            /\ SeekNext /\ UNCHANGED rest
         \/ m_error = "NONE" /\ ~HasNext /\ sought # "initrd" /\ Reject
         \/ m_error = "NONE" /\ ~HasNext /\ sought = "initrd" /\ SeekNext /\ UNCHANGED <<rest, files>>

AlignDown(v, a) == v - (v % a)

\* Mutants: the end of the kernel wraps; an initrd that touches the kernel is
\* rejected.
LayoutWraps(kernel, dtb, initrd) ==
  LET kernelEnd == (KERNEL_LOAD_IPA + kernel) % U64
      initrdIpa == IF initrd = 0 THEN 0 ELSE AlignDown(RamEnd - initrd, ALIGN_2MB)
      top == IF initrd = 0 THEN RamEnd ELSE initrdIpa
      dtbIpa == AlignDown(top - dtb, ALIGN_64K)
  IN  IF \/ initrd > RamEnd
         \/ initrd # 0 /\ initrdIpa < kernelEnd
         \/ dtb > top
         \/ dtbIpa < kernelEnd
      THEN {}
      ELSE {[kernelIpa |-> KERNEL_LOAD_IPA, dtbIpa |-> dtbIpa, initrdIpa |-> initrdIpa]}

LayoutStrict(kernel, dtb, initrd) ==
  LET kernelEnd == KERNEL_LOAD_IPA + kernel
      initrdIpa == IF initrd = 0 THEN 0 ELSE AlignDown(RamEnd - initrd, ALIGN_2MB)
      top == IF initrd = 0 THEN RamEnd ELSE initrdIpa
      dtbIpa == AlignDown(top - dtb, ALIGN_64K)
  IN  IF kernelEnd >= U64 \/ initrd > RamEnd \/ dtb > top \/ dtbIpa <= kernelEnd
      THEN {}
      ELSE {[kernelIpa |-> KERNEL_LOAD_IPA, dtbIpa |-> dtbIpa, initrdIpa |-> initrdIpa]}

\* Where the files go: {} if they do not fit.
LayoutOf(kernel, dtb, initrd) ==
  LET kernelEnd == KERNEL_LOAD_IPA + kernel
      initrdIpa == IF initrd = 0 THEN 0 ELSE AlignDown(RamEnd - initrd, ALIGN_2MB)
      top == IF initrd = 0 THEN RamEnd ELSE initrdIpa
      dtbIpa == AlignDown(top - dtb, ALIGN_64K)
  IN  IF \/ {kernel, dtb} \cap {0} # {}
         \/ kernelEnd >= U64
         \/ initrd > RamEnd
         \/ initrd # 0 /\ initrdIpa < kernelEnd
         \/ dtb > top
         \/ dtbIpa < kernelEnd
      THEN {}
      ELSE {[kernelIpa |-> KERNEL_LOAD_IPA, dtbIpa |-> dtbIpa, initrdIpa |-> initrdIpa]}

CalculateLayout ==
  LET l == LayoutOf(files.kernel.size, files.dtb.size, files.initrd.size)
  IN  \/ /\ stage = "layout"
         /\ \/ l = {} /\ Reject
            \/ /\ layout' \in l /\ stage' = "alloc"
               /\ UNCHANGED <<archiveVars, ok, files, ram, content, dirty, patcher>>
      \/ /\ stage = "layoutOnly"
         /\ layout' \in IF l = {} THEN {NoLayout} ELSE l
         /\ stage' = "returned"
         /\ UNCHANGED <<archiveVars, ok, files, ram, content, dirty, patcher>>

\* The page allocator may have no block of the guest's order.
AllocRam ==
  /\ stage = "alloc"
  /\ \/ Reject
     \/ /\ ram' = TRUE /\ stage' = "copyKernel"
        /\ UNCHANGED <<archiveVars, ok, files, layout, content, dirty, patcher>>

-----------------------------------------------------------------------------
(* Copying.  A copy cleans what it wrote from the data cache.              *)

copyToGuest(ipa, file) ==
  /\ content' = [u \in DOMAIN content |->
                   IF u \in Units(ipa, file.size) THEN file.data + (u - ipa) ELSE content[u]]
  /\ dirty' = dirty \ Units(ipa, file.size)

CopyKernel ==
  /\ stage = "copyKernel"
  /\ copyToGuest(layout.kernelIpa, files.kernel)
  /\ stage' = "copyDtb"
  /\ UNCHANGED <<archiveVars, ok, files, layout, ram, patcher>>

CopyDtb ==
  /\ stage = "copyDtb"
  /\ copyToGuest(layout.dtbIpa, files.dtb)
  /\ stage' = "header"
  /\ UNCHANGED <<archiveVars, ok, files, layout, ram, patcher>>

CopyInitrd ==
  /\ stage = "copyInitrd"
  /\ IF files.initrd.size # 0 THEN copyToGuest(layout.initrdIpa, files.initrd)
                            ELSE UNCHANGED <<content, dirty>>
  /\ Return(TRUE)
  /\ UNCHANGED <<archiveVars, files, layout, patcher>>

-----------------------------------------------------------------------------
(* Patching the tree.                                                      *)

Placeholders == { <<"memory", "reg">>, <<"chosen", "initrd-start">>, <<"chosen", "initrd-end">> }

Value(p) ==
  CASE p[2] = "reg" -> <<GUEST_IPA_BASE, GUEST_RAM_SIZE>>
    [] p[2] = "initrd-start" -> <<layout.initrdIpa>>
    [] p[2] = "initrd-end" -> <<layout.initrdIpa + files.initrd.size>>

\* A header with bad magic, sizes or offsets is rejected.
readHeader ==
  /\ stage = "header"
  /\ \/ Reject
     \/ stage' = "patch" /\ UNCHANGED <<archiveVars, ok, files, layout, ram, content, dirty, patcher>>

Reading == stage = "patch"
loadVars == <<archiveVars, stage, ok, files, layout, ram, content>>

BeginNode(name) ==
  /\ Reading
  /\ \/ depth = 0 /\ (hasRoot \/ name # "") /\ Reject
     \/ /\ depth # 0 \/ (~hasRoot /\ name = "")
        /\ depth < MaxDepth
        /\ hasRoot' = TRUE
        /\ node' = IF depth # 1 THEN node
                   ELSE CASE name \in {"memory", "memory@"} -> "memory"
                          [] name = "chosen" -> "chosen"
                          [] OTHER -> "other"
        /\ depth' = depth + 1
        /\ path' = Append(path, name)
        /\ UNCHANGED <<loadVars, dirty, found, values>>

EndNode ==
  /\ Reading
  /\ \/ depth = 0 /\ Reject
     \/ /\ depth # 0
        /\ depth' = depth - 1
        /\ node' = IF depth' = 1 THEN "other" ELSE node
        /\ path' = SubSeq(path, 1, Len(path) - 1)
        /\ UNCHANGED <<loadVars, dirty, hasRoot, found, values>>

\* The first property of a placeholder's name in its node is filled; a second
\* one, or one of the wrong length, rejects the tree.
patch(name, rightLength) ==
  LET p == <<node, name>>
  IN  \/ p \in Placeholders /\ (p \in found \/ ~rightLength) /\ Reject
      \/ /\ p \in Placeholders /\ p \notin found /\ rightLength
         /\ found' = found \cup {p}
         /\ values' = values \cup {<<path, name, Value(p)>>}
         /\ dirty' = dirty \cup Units(layout.dtbIpa, files.dtb.size)
         /\ UNCHANGED <<loadVars, depth, hasRoot, node, path>>
      \/ /\ p \notin Placeholders
         /\ UNCHANGED <<loadVars, dirty, depth, hasRoot, node, found, path, values>>

\* Mutant: properties of nested nodes are filled as well.
PropertyAnyDepth(name, rightLength) ==
  /\ Reading
  /\ \/ depth = 0 /\ Reject
     \/ depth # 0 /\ patch(name, rightLength)

Property(name, rightLength) ==
  /\ Reading
  /\ \/ depth = 0 /\ Reject
     \/ depth = 2 /\ patch(name, rightLength)
     \/ /\ depth \notin {0, 2}
        /\ UNCHANGED <<loadVars, dirty, depth, hasRoot, node, found, path, values>>

Nop ==
  /\ Reading
  /\ UNCHANGED <<loadVars, dirty, depth, hasRoot, node, found, path, values>>

\* An unknown token, a truncated one, or the end of the block without END.
Malformed == stage = "patch" /\ Reject

Finished == hasRoot /\ depth = 0 /\ found = Placeholders

\* Mutant: the stores into the tree stay in the cache.
EndUncleaned ==
  /\ Reading
  /\ \/ ~Finished /\ Reject
     \/ /\ Finished /\ stage' = "copyInitrd"
        /\ UNCHANGED <<archiveVars, ok, files, layout, ram, content, dirty, patcher>>

\* A tree that is complete is cleaned from the cache.
End ==
  /\ Reading
  /\ \/ ~Finished /\ Reject
     \/ /\ Finished /\ stage' = "copyInitrd"
        /\ dirty' = dirty \ Units(layout.dtbIpa, files.dtb.size)
        /\ UNCHANGED <<archiveVars, ok, files, layout, ram, content, patcher>>

PropertyNames == {"reg", "initrd-start", "initrd-end", "other"}

\* hmain after Load: it panics, or builds the VM whose first register is the
\* address of the tree.
hmain ==
  /\ stage = "done"
  /\ \/ ~ok /\ stage' = "panic" /\ UNCHANGED guest
     \/ ok /\ stage' = "running" /\ guest' = [pc |-> layout.kernelIpa, x0 |-> layout.dtbIpa]
  /\ UNCHANGED <<cpioVars, sought, ok, files, layout, ram, content, dirty, patcher>>

Done == stage \in {"panic", "running", "returned"} /\ UNCHANGED vars

Next ==
  \/ Validate \/ ReadFiles \/ CalculateLayout \/ AllocRam \/ CopyKernel \/ CopyDtb \/ CopyInitrd
  \/ readHeader \/ EndNode \/ Nop \/ Malformed \/ End
  \/ \E name \in NodeNames : BeginNode(name)
  \/ \E name \in PropertyNames, right \in BOOLEAN : Property(name, right)
  \/ hmain \/ Done

Spec == Init /\ [][Next]_vars

-----------------------------------------------------------------------------
(* Properties.                                                             *)

\* The types of the loader's state.
TypeOK ==
  /\ stage \in {"read", "layoutOnly", "layout", "alloc", "copyKernel", "copyDtb", "header",
                "patch", "copyInitrd", "done", "panic", "running", "returned"}
  /\ {ok, ram, hasRoot} \subseteq BOOLEAN
  /\ DOMAIN content = Units(GUEST_IPA_BASE, GUEST_RAM_SIZE) /\ dirty \subseteq DOMAIN content
  /\ depth \in 0 .. MaxDepth
  /\ node \in {"memory", "chosen", "other"} /\ found \subseteq Placeholders

Kernel == Units(layout.kernelIpa, files.kernel.size)
Dtb == Units(layout.dtbIpa, files.dtb.size)
Initrd == IF files.initrd.size = 0 THEN {} ELSE Units(layout.initrdIpa, files.initrd.size)

\* A layout that CalculateLayout accepts puts every file inside guest RAM, on
\* its boundary and clear of the others, for every file size up to the end of
\* 64-bit arithmetic.
LayoutSound ==
  layout # NoLayout =>
    /\ Kernel \cup Dtb \cup Initrd \subseteq Units(GUEST_IPA_BASE, GUEST_RAM_SIZE)
    /\ Kernel \cap Dtb = {} /\ Kernel \cap Initrd = {} /\ Dtb \cap Initrd = {}
    /\ layout.dtbIpa % ALIGN_64K = 0 /\ layout.initrdIpa % ALIGN_2MB = 0

\* Files are rejected for their sizes only if there is no place for the initrd
\* on a 2 MiB boundary and for the tree below it on a 64 KiB one that is clear
\* of the kernel.
RejectsOnlyMisfits ==
  LET start == KERNEL_LOAD_IPA + files.kernel.size
  IN  stage = "returned" /\ layout = NoLayout /\ 0 \notin {files.kernel.size, files.dtb.size} =>
        ~\E i, d \in start .. RamEnd :
           /\ files.initrd.size # 0 => i % ALIGN_2MB = 0
           /\ i + files.initrd.size <= RamEnd
           /\ d % ALIGN_64K = 0 /\ d + files.dtb.size <= i

\* The tree is changed only in the reg of a memory node and the initrd
\* properties of the chosen node, both children of the root.
PatchesOnlyPlaceholders ==
  \A v \in values :
    /\ Len(v[1]) = 2 /\ v[1][1] = ""
    /\ \/ v[2] = "reg" /\ v[1][2] \in {"memory", "memory@"}
       \/ v[2] \in {"initrd-start", "initrd-end"} /\ v[1][2] = "chosen"

\* The file of the archive that a path names, if there is one.
Archived(f) ==
  LET S == CHOOSE S \in SUBSET DOMAIN archive.at : WellFormed(S, m_end)
      hits == {c \in S : archive.at[c].type # "dir" /\ NameOf(c) = PathOf[f]}
  IN  IF hits = {} THEN NoFile
      ELSE LET c == CHOOSE c \in hits : TRUE IN [data |-> DataOf(c), size |-> archive.at[c].fileSize]

\* ReadFiles goes on exactly for a valid archive with a kernel and a tree and
\* nothing empty, wherever in it they are and whatever else it holds, and then
\* has found the files that these paths name and no others.
ReadsExactly ==
  [][ stage = "read" /\ stage' # "read" =>
        /\ (stage' = "layout") <=>
             /\ m_error = "NONE"
             /\ Archived("kernel").size # 0 /\ Archived("dtb").size # 0
             /\ Archived("initrd") = NoFile \/ Archived("initrd").size # 0
        /\ stage' = "layout" => files' = [f \in DOMAIN PathOf |-> Archived(f)] ]_vars

Holds(ipa, file) == \A u \in Units(ipa, file.size) : content[u] = file.data + (u - ipa)

\* Loading is all or nothing.  Whatever step fails, guest RAM is back with the
\* page allocator when Load returns false.  When it returns true the caller
\* owns guest RAM, which holds every file undamaged; the tree names the guest's
\* memory and the place of the initrd, each once; none of it is left in the
\* data cache, which the guest starts without; and hmain starts the guest at
\* the kernel with the tree in x0.
GuestReady ==
  stage \in {"done", "panic", "running"} =>
    /\ ram = ok
    /\ (stage = "panic") => ~ok
    /\ ok =>
         /\ Holds(layout.kernelIpa, files.kernel) /\ Holds(layout.dtbIpa, files.dtb)
         /\ Holds(layout.initrdIpa, files.initrd)
         /\ {<<v[2], v[3]>> : v \in values} =
              { <<"reg", <<GUEST_IPA_BASE, GUEST_RAM_SIZE>>>>,
                <<"initrd-start", <<layout.initrdIpa>>>>,
                <<"initrd-end", <<layout.initrdIpa + files.initrd.size>>>> }
         /\ dirty = {}
    /\ stage = "running" =>
         content[guest.pc] = files.kernel.data /\ content[guest.x0] = files.dtb.data
=============================================================================
