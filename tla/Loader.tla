------------------------------- MODULE Loader -------------------------------
(***************************************************************************)
(* The rewritten ELF file and what happens when it is run: emitElf()       *)
(* (e9elf.cpp) moves the patched pages of the program to the end of the    *)
(* file, appends the groups of Mapping and a table of what to map where,   *)
(* and the loader in the file (e9loader_elf.cpp) maps them before it       *)
(* passes control to the program; its SIGILL handler finds the trampoline  *)
(* of a trap.                                                              *)
(***************************************************************************)
EXTENDS Mapping

CONSTANTS
    Offset,        \* for each page of the program's code, its page in the file
    Scenarios,     \* layout, patched pages, traps and options under consideration
    Sites          \* where the program can raise SIGILL

ASSUME LoaderAssumption ==
    /\ \A p \in DOMAIN Offset : p \in Nat /\ Offset[p] \in Nat
    /\ \A p, q \in DOMAIN Offset : Offset[p] = Offset[q] => p = q
    /\ \A sc \in Scenarios :
          /\ sc.allocs \in Layouts /\ sc.dirty \subseteq DOMAIN Offset
          /\ sc.traps \subseteq Sites /\ sc.static \in BOOLEAN

VARIABLES
    input,      \* the scenario
    image,      \* the file pages of the program: "original" or "patched"
    copies,     \* the buffers at the end of the file
    maps,       \* the table of maps, of both levels
    traps,      \* the table of traps
    memory,     \* what is mapped at the addresses of the allocator
    text,       \* what is mapped at the pages of the code
    missing,    \* functions that were called before they were mapped
    handled     \* the trampoline that the last SIGILL was sent to

lvars == <<input, image, copies, maps, traps, memory, text, missing, handled>>
vars == <<mvars, lvars>>

\* An address at which nothing is mapped.
Unmapped == [mapped |-> FALSE, byte |-> Fill, prot |-> {}]
PagesOf(bytes) == bytes \div PAGE_SIZE

-----------------------------------------------------------------------------
\* The rewritten file.

FilePages == {Offset[p] : p \in DOMAIN Offset}
AddressOf(o) == CHOOSE p \in DOMAIN Offset : Offset[p] = o

\* emitRefactoredPatch(), step 1: runs of patched pages, in the order of the file.
\* Pages that are less than a mapping apart are taken together.
Refactors(dirty) ==
    LET push(acc) == IF acc.addr < 0 THEN acc.out
                     ELSE Append(acc.out, [addr |-> acc.addr, offset |-> acc.offset,
                                           size |-> acc.size])
        Add(acc, o) ==
            LET page == AddressOf(o)
            IN  IF \/ acc.addr < 0 \/ page < acc.addr
                   \/ acc.addr + acc.size + PagesOf(MAPPING_SIZE) < page
                THEN [addr |-> page, offset |-> o, size |-> 1, out |-> push(acc)]
                ELSE [acc EXCEPT !.size = @ + (page + 1) - (acc.addr + acc.size)]
        none == [addr |-> -1, offset |-> -1, size |-> 0, out |-> <<>>]
    IN  push(FoldLeft(Add, none, SetToSortSeq({Offset[p] : p \in dirty}, <)))

\* A page of the file as it is.
Content(img, o) == IF o \in FilePages THEN <<o, img[o]>> ELSE <<o, "original">>

\* Mutant of emitRefactoredPatch: the original pages are restored first.
emitRefactoredPatchRestored(img, rs) ==
    [image  |-> [o \in FilePages |-> IF \E k \in DOMAIN rs :
                     o \in rs[k].offset..(rs[k].offset + rs[k].size - 1)
                     THEN "original" ELSE img[o]],
     copies |-> [k \in DOMAIN rs |->
                    [i \in 0..(rs[k].size - 1) |-> <<rs[k].offset + i, "original">>]]]

\* Step 2: one run after the other is copied to the end, and the original restored.
emitRefactoredPatch(img, rs) ==
    LET Move(acc, r) ==
            LET Run == r.offset..(r.offset + r.size - 1)
            IN  [image  |-> [o \in FilePages |-> IF o \in Run THEN "original" ELSE acc.image[o]],
                 copies |-> Append(acc.copies, [i \in 0..(r.size - 1) |->
                                                  Content(acc.image, r.offset + i)])]
    IN  FoldLeft(Move, [image |-> img, copies |-> <<>>], rs)

\* emitLoaderMap(): everything is counted in pages, and the size has 16 bits left.
emitLoaderMap(type, addr, len, src, offset, prot) ==
    [type |-> type, addr |-> addr, size |-> len % 2^16, src |-> src, offset |-> offset,
     prot |-> prot]

\* The maps of one mapping, which is in the k-th group.
MapsOf(m, k) ==
    LET bounds == getVirtualBounds(m)
    IN  [b \in DOMAIN bounds |->
            emitLoaderMap("group", PagesOf(m.base + bounds[b].lb),
                          PagesOf(bounds[b].ub - bounds[b].lb), k, PagesOf(bounds[b].lb),
                          m.prot)]

\* Level 0 has the mappings with contents (preload), level 1 those with trampolines only.
GroupMaps(preload) ==
    FlattenSeq([k \in DOMAIN groups |->
        FlattenSeq([j \in DOMAIN groups[k] |->
            IF groups[k][j].preload = preload THEN MapsOf(groups[k][j], k) ELSE <<>>])])

RefactorMaps(rs) ==
    [k \in DOMAIN rs |->
        emitLoaderMap("refactor", rs[k].addr, rs[k].size, k, 0, {"r", "x"})]

emitElf ==
    /\ step = "emit"
    /\ step' = "preinit"
    /\ LET patched == [o \in FilePages |-> IF AddressOf(o) \in input.dirty
                                           THEN "patched" ELSE "original"]
           rs == IF input.static THEN <<>> ELSE Refactors(input.dirty)
           moved == emitRefactoredPatch(patched, rs)
       IN  /\ image' = moved.image
           /\ copies' = [refactor |-> moved.copies,
                         group |-> [k \in DOMAIN groups |-> flattenMapping(groups[k])]]
           /\ maps' = <<GroupMaps(TRUE) \o RefactorMaps(rs), GroupMaps(FALSE)>>
           /\ text' = [p \in DOMAIN Offset |-> Content(moved.image, Offset[p])]
    \* Traps are committed in the order of patching, from the highest address down,
    \* and emitted in reverse.
    /\ traps' = SetToSortSeq(input.traps, <)
    /\ UNCHANGED <<allocs, mappings, tree, groups, input, memory, missing, handled>>

-----------------------------------------------------------------------------
\* e9init().

\* The pre-initialisation functions are part of the loader.
preinit ==
    /\ step = "preinit"
    /\ step' = "load0"
    /\ UNCHANGED <<allocs, mappings, tree, groups, lvars>>

Level == IF step = "load0" THEN 1 ELSE 2

\* A function at address f is called.
Missing(f) == IF memory[f].byte = Byte(f) /\ "x" \in memory[f].prot THEN {} ELSE {f}

\* mmap(MAP_FIXED) of one map replaces what is at these addresses.
Mapped(map) ==
    LET at(x) == x - map.addr * PAGE_SIZE
    IN  [x \in DOMAIN memory |->
            IF map.type = "group" /\ at(x) \in 0..(map.size * PAGE_SIZE - 1)
            THEN [mapped |-> TRUE, prot |-> map.prot,
                  byte |-> copies.group[map.src][map.offset * PAGE_SIZE + at(x)]]
            ELSE memory[x]]

MappedText(map) ==
    [p \in DOMAIN Offset |->
        IF map.type = "refactor" /\ p \in map.addr..(map.addr + map.size - 1)
        THEN copies.refactor[map.src][p - map.addr]
        ELSE text[p]]

\* Level 1 is mapped by the user's mmap(), if there is one.
e9load_maps ==
    /\ step \in {"load0", "load1"} /\ maps[Level] # <<>>
    /\ memory' = Mapped(Head(maps[Level]))
    /\ text' = MappedText(Head(maps[Level]))
    /\ maps' = [maps EXCEPT ![Level] = Tail(@)]
    /\ missing' = missing \cup (IF step = "load1" THEN UNION {Missing(f) : f \in input.mmap}
                                  ELSE {})
    /\ UNCHANGED <<mvars, input, image, copies, traps, handled>>

\* mmap() failed: e9panic().
e9panic ==
    /\ step \in {"load0", "load1"} /\ maps[Level] # <<>>
    /\ step' = "panic"
    /\ UNCHANGED <<allocs, mappings, tree, groups, lvars>>

e9load_end ==
    /\ step \in {"load0", "load1"} /\ maps[Level] = <<>>
    /\ step' = IF step = "load0" THEN "load1" ELSE "inits"
    /\ UNCHANGED <<allocs, mappings, tree, groups, lvars>>

\* The SIGILL handler is installed, and the initialisation functions of "reserve"
\* messages are called, before the program runs.
inits ==
    /\ step = "inits"
    /\ step' = "run"
    /\ missing' = missing \cup UNION {Missing(f) : f \in input.inits}
    /\ UNCHANGED <<allocs, mappings, tree, groups, input, image, copies, maps, traps, memory,
                   text, handled>>

\* Mutant of Search: the last entry of a range is not looked at.
SearchShort(key) ==
    LET s[lo \in 0..Len(traps), hi \in -1..Len(traps)] ==
            LET mid == (lo + hi) \div 2
            IN  CASE lo >= hi -> -1
                  [] lo < hi /\ key < traps[mid + 1] -> s[lo, mid - 1]
                  [] lo < hi /\ key > traps[mid + 1] -> s[mid + 1, hi]
                  [] OTHER -> mid
    IN  s[0, Len(traps)]

\* The binary search of e9handler() in the table that starts with traps[0].  It may
\* look at the entry after the last one, where the maps begin: read as an address, a
\* map has its file offset in the upper half and is beyond every instruction.
Search(key) ==
    LET Beyond == key + 1
        rip(k) == IF k < Len(traps) THEN traps[k + 1] ELSE Beyond
        s[lo \in 0..(Len(traps) + 1), hi \in -1..Len(traps)] ==
            LET mid == (lo + hi) \div 2
            IN  CASE lo > hi -> -1
                  [] lo <= hi /\ key < rip(mid) -> s[lo, mid - 1]
                  [] lo <= hi /\ key > rip(mid) -> s[mid + 1, hi]
                  [] OTHER -> mid
    IN  s[0, Len(traps)]

\* The program raises SIGILL: at a trap, or by itself, for which the next handler is
\* called.
e9handler(rip) ==
    /\ step = "run" /\ traps # <<>>
    /\ LET idx == Search(rip)
       IN  handled' = [rip |-> rip, trampoline |-> IF idx < 0 THEN {} ELSE {traps[idx + 1]}]
    /\ UNCHANGED <<mvars, input, image, copies, maps, traps, memory, text, missing>>

Init ==
    /\ MappingInit
    /\ input \in Scenarios /\ allocs = input.allocs
    /\ image = <<>> /\ copies = <<>> /\ maps = <<>> /\ traps = <<>>
    /\ memory = [x \in UNION {Extent(a) : a \in allocs} |-> Unmapped]
    /\ text = <<>> /\ missing = {} /\ handled = <<>>

Next ==
    \/ MappingNext /\ UNCHANGED lvars
    \/ emitElf
    \/ preinit \/ e9load_maps \/ e9panic \/ e9load_end \/ inits
    \/ \E rip \in Sites : e9handler(rip)

Spec == Init /\ [][Next]_vars

-----------------------------------------------------------------------------
\* Properties.

\* What is mapped is at most one byte of the program at each address, and the groups
\* consist of whole pages, as mmap() requires of shrinkMapping().
TypeOK ==
    /\ step \in {"build", "merge", "emit", "preinit", "load0", "load1", "inits", "run", "panic"}
    /\ allocs \in Layouts
    /\ \A x \in DOMAIN memory : Cardinality(memory[x].byte) <= 1
    /\ \A k \in DOMAIN groups : \A j \in DOMAIN groups[k] :
          groups[k][j].size % PAGE_SIZE = 0 /\ groups[k][j].lb < groups[k][j].ub

\* When the program runs, every byte of a trampoline, and every byte of the contents
\* of a "reserve" message, is where it was allocated and with the protection asked
\* for, however its page was grouped, shrunk and split.
Loaded ==
    step = "run" => \A a \in allocs : a.T =>
        \A x \in Extent(a) : memory[x].byte = Byte(x) /\ a.prot \subseteq memory[x].prot

\* Nothing is ever mapped over the ranges that the program itself uses.
Undisturbed == \A a \in allocs : ~a.T => \A x \in Extent(a) : ~memory[x].mapped

\* A function given by the frontend (mmap, init) is in memory when the loader calls it.
CalledLoaded == missing = {}

\* When the program runs it sees the patched code, although the file holds the original
\* pages at the place from which the kernel maps them.
PatchedText ==
    step = "run" => \A p \in DOMAIN Offset :
        text[p] = <<Offset[p], IF p \in input.dirty THEN "patched" ELSE "original">>

\* A trap is sent to its own trampoline, and any other SIGILL to the next handler.
TrapFound ==
    handled # <<>> =>
        handled.trampoline = {handled.rip} \cap input.traps

=============================================================================
