------------------------------ MODULE BinPatch ------------------------------
(***************************************************************************)
(* Patch sessions (analysis/e9binpatch.c): patches of a loaded binary are  *)
(* collected, checked for overlaps, applied to a copy of it and written to *)
(* a file; single patches or all of them can be reverted.  The code of     *)
(* hooks and detours is put into code caves, runs of filler bytes in       *)
(* executable sections.                                                    *)
(*                                                                         *)
(* A byte is a sequence of integers: <<b>> for the value b, and            *)
(* <<op, to, i>> for byte i of a branch op to address to.  The instruction *)
(* set is x86-64, and the sizes of its branches are parameters.            *)
(***************************************************************************)
EXTENDS Integers, Sequences

CONSTANTS
    Data,             \* bin->data
    BaseAddress,      \* bin->base_address: 0 if an ELF file was loaded
    Sections,         \* bin->sections: addr, size and exec, in order
    WORD,             \* 2^64: addresses and offsets are counted modulo it
    InsnSize,         \* the decoder: a first byte to the size of its instruction, or 0
    Slack,            \* 4096: room in the output behind the binary
    BranchSize,       \* 5: a branch with a rel32
    FarJmpSize,       \* 14
    FarCallSize,      \* 12
    Reach,            \* 2^31: bound of a rel32
    HookSlack,        \* 32: room for the jump behind the code of a hook
    DefaultMin,       \* 8: default of min_cave_size
    ApplyMin,         \* 16: min_cave_size of apply()
    CavesCapacity,    \* 64: initial length of the array of caves
    Requests,         \* calls that add a patch
    CaveSizes,        \* sizes that callers pass to e9_caves_find() and _alloc()
    MaxPatches        \* bound: patches of a session

Size == Len(Data)
Capacity == Size + Slack

Bytes == Seq(Seq(Int))

\* What a caller passes: the new bytes, the size to fill with NOPs, the target
\* of a branch, or the code of a hook.
Request ==
    [type : {"BYTES", "NOP", "INSN", "CALL", "JMP", "HOOK", "DETOUR"}, address : Nat,
     bytes : Bytes, size : Nat, target : Nat, backup : BOOLEAN]

\* Of a binary: the sections that are searched for caves are not below its base.
\* (Sections that are not loaded, and the null section, have address 0.)  Of a
\* request: addresses are those of user space, and what begins below the base
\* ends there.  No sum of the code then wraps around but in vaddr_to_offset().
ASSUME BinPatchAssumption ==
    /\ Data \in Bytes /\ Size > 0
    /\ {BaseAddress, WORD} \subseteq Nat /\ 2 * (BaseAddress + Capacity) < WORD
    /\ \A k \in 1 .. Size : \E b \in 0 .. 255 : Data[k] = <<b>>
    /\ InsnSize \in [0 .. 255 -> Nat]
    /\ Sections \in Seq([addr : Nat, size : Nat, exec : BOOLEAN])
    /\ \A s \in 1 .. Len(Sections) :
          /\ Sections[s].addr + Sections[s].size < WORD
          /\ Sections[s].exec /\ Sections[s].size > 0 => Sections[s].addr >= BaseAddress
    /\ {Slack, Reach, HookSlack, MaxPatches} \subseteq Nat
    /\ {BranchSize, FarJmpSize, FarCallSize, DefaultMin, ApplyMin, CavesCapacity}
         \subseteq Nat \ {0}
    /\ BranchSize < FarCallSize /\ BranchSize < FarJmpSize /\ FarJmpSize <= HookSlack
    /\ Requests \subseteq Request /\ CaveSizes \subseteq Nat
    /\ \A r \in Requests :
          /\ 2 * r.address < WORD /\ 2 * r.target < WORD
          /\ \/ r.address = 0 \/ r.address >= BaseAddress
             \/ r.address + Len(r.bytes) + r.size + BranchSize < BaseAddress

VARIABLES
    patches,      \* session->patches
    finder,       \* session->cave_finder, or NoFinder
    todo,         \* the runs that e9_caves_find(), if it is under way, has yet to come to
    output,       \* session->output, up to its capacity
    finalized,
    pc,           \* "idle", or the call under way: "apply", "write", "file"
    i,            \* the patch that apply() is at
    file,         \* what was just written, or NoFile: the next call forgets it
    reverted,     \* history: patches reverted since they were applied
    given         \* history: space handed out since the last search for caves

vars == <<patches, finder, todo, output, finalized, pc, i, file, reverted, given>>

NoFile == [length |-> 0, data |-> <<>>, patches |-> {}, kept |-> {}]

Forget == file' = NoFile

\* The session is between two calls.
Idle == pc = "idle" /\ todo = {}

-----------------------------------------------------------------------------
\* Addresses and instructions.

In(a, sec) == sec.addr <= a /\ a < sec.addr + sec.size

\* 0 stands for failure.  The offset of an address below the base is past any file.
e9_binpatch_vaddr_to_offset(a) ==
    IF \/ \E s \in 1 .. Len(Sections) : In(a, Sections[s])
       \/ BaseAddress <= a /\ a < BaseAddress + Size
    THEN (a - BaseAddress) % WORD ELSE 0

e9_binpatch_insn_size_at(a) ==
    LET offset == e9_binpatch_vaddr_to_offset(a)
    IN  IF offset = 0 \/ offset >= Size THEN 0 ELSE InsnSize[Data[offset + 1][1]]

\* The multi-byte NOPs, by length.
nop_seqs ==
    << <<144>>, <<102, 144>>, <<15, 31, 0>>, <<15, 31, 64, 0>>, <<15, 31, 68, 0, 0>>,
       <<102, 15, 31, 68, 0, 0>>, <<15, 31, 128, 0, 0, 0, 0>>,
       <<15, 31, 132, 0, 0, 0, 0, 0>>, <<102, 15, 31, 132, 0, 0, 0, 0, 0>> >>

e9_binpatch_gen_nops(n) ==
    [k \in 1 .. n |->
        LET start == ((k - 1) \div 9) * 9
            m     == IF n - start > 9 THEN 9 ELSE n - start
        IN  <<nop_seqs[m][k - start]>>]

Branch(op, to, n) == [k \in 1 .. n |-> <<op, to, k>>]

Near(from, to) == LET d == to - (from + BranchSize) IN -Reach <= d /\ d < Reach

e9_binpatch_gen_jmp(from, to) ==
    IF Near(from, to) THEN Branch(233, to, BranchSize) ELSE Branch(255, to, FarJmpSize)

e9_binpatch_gen_call(from, to) ==
    IF Near(from, to) THEN Branch(232, to, BranchSize) ELSE Branch(72, to, FarCallSize)

\* The buffer f with the bytes s copied to offset at.
Copy(f, at, s) ==
    [x \in DOMAIN f |-> IF at <= x /\ x < at + Len(s) THEN s[x - at + 1] ELSE f[x]]

\* s, and NOPs up to size n.
Padded(s, n) == IF Len(s) < n THEN s \o e9_binpatch_gen_nops(n - Len(s)) ELSE s

-----------------------------------------------------------------------------
\* Code caves.

NoFinder == [min_cave_size |-> 0, capacity |-> CavesCapacity, caves |-> <<>>]

IsCaveByte(x) == Data[x + 1] \in {<<0>>, <<144>>, <<204>>}

\* The offsets of the sections that are searched.
Searched(s) ==
    LET at == e9_binpatch_vaddr_to_offset(Sections[s].addr)
    IN  IF Sections[s].exec /\ at + Sections[s].size <= Size
        THEN at .. at + Sections[s].size - 1 ELSE {}

Filler == {x \in UNION {Searched(s) : s \in 1 .. Len(Sections)} : IsCaveByte(x)}

\* A file that has sections begins with a magic number.  So no cave has offset 0, or
\* address 0, which stand for failure.
ASSUME MagicAssumption == 0 \notin Filler

\* The longest runs of filler in a section, by their first and last offset.
Runs ==
    {r \in [section : 1 .. Len(Sections), from : 0 .. Size - 1, to : 0 .. Size - 1] :
        LET filler == {x \in Searched(r.section) : IsCaveByte(x)}
        IN  /\ r.from <= r.to /\ r.from .. r.to \subseteq filler
            /\ r.from - 1 \notin filler /\ r.to + 1 \notin filler}

\* The order in which the search comes to them.
Before(r, q) == r.section < q.section \/ (r.section = q.section /\ r.from < q.from)

\* The array grows for a run inside of a section, not for one at its end.
AddCave(f, r) ==
    LET size == r.to - r.from + 1
        full == Len(f.caves) >= f.capacity
        last == r.to + 1 \notin Searched(r.section)
    IN  IF size < f.min_cave_size \/ (last /\ full) THEN f
        ELSE [f EXCEPT !.caves = Append(@, [address |-> BaseAddress + r.from, size |-> size]),
                       !.capacity = IF full THEN 2 * @ ELSE @]

\* Mutant: the size that is asked for is not compared.
BestAny(f, size) ==
    {c \in 1 .. Len(f.caves) :
        \A d \in 1 .. Len(f.caves) :
           \/ f.caves[c].size < f.caves[d].size
           \/ f.caves[c].size = f.caves[d].size /\ c <= d}

\* The first of the smallest caves that fit: none, or one of them.
Best(f, size) ==
    {c \in 1 .. Len(f.caves) :
        /\ f.caves[c].size >= size
        /\ \A d \in 1 .. Len(f.caves) : f.caves[d].size >= size =>
              \/ f.caves[c].size < f.caves[d].size
              \/ f.caves[c].size = f.caves[d].size /\ c <= d}

\* Mutant: the cave is not made smaller.
TakeKeepsSize(f, c, size) ==
    [f EXCEPT !.caves[c].address = @ + size]

\* The finder after size bytes were taken from the start of cave c.
Take(f, c, size) ==
    [f EXCEPT !.caves[c] = [address |-> @.address + size, size |-> @.size - size]]

Given(f, c, size) == [address |-> f.caves[c].address, size |-> size]

-----------------------------------------------------------------------------
\* The calls that add a patch.

Type(r) ==
    IF r.type = "INSN" /\ Len(r.bytes) > e9_binpatch_insn_size_at(r.address)
    THEN "TRAMPOLINE" ELSE r.type

OrigSize(r) ==
    CASE r.type = "BYTES" -> Len(r.bytes)
      [] r.type = "NOP" -> r.size
      [] r.type \in {"INSN", "HOOK"} -> e9_binpatch_insn_size_at(r.address)
      [] r.type \in {"CALL", "JMP"} -> BranchSize
      [] r.type = "DETOUR" -> 0

NewSize(r) ==
    CASE r.type \in {"BYTES", "INSN"} -> Len(r.bytes)
      [] r.type = "NOP" -> r.size
      [] r.type \in {"CALL", "JMP"} -> BranchSize
      [] r.type \in {"HOOK", "DETOUR"} -> 0

\* Early returns: an empty patch, an instruction that cannot be decoded.
Acceptable(r) ==
    CASE r.type \in {"BYTES", "HOOK", "DETOUR"} -> r.bytes # <<>>
      [] r.type = "NOP" -> r.size > 0
      [] r.type = "INSN" -> r.bytes # <<>> /\ e9_binpatch_insn_size_at(r.address) # 0
      [] r.type \in {"CALL", "JMP"} -> TRUE

IsHook(p) == p.type \in {"HOOK", "DETOUR"}

\* Mutant: the size of the new bytes where that of the original is meant.
BackupNewSize(r, offset) ==
    LET n == IF NewSize(r) > 0 THEN NewSize(r) ELSE OrigSize(r)
    IN  IF r.backup /\ n > 0 /\ offset + n <= Size
        THEN SubSeq(Data, offset + 1, offset + n) ELSE <<>>

\* The bytes that revert() will restore; none without a backup.
Backup(r, offset) ==
    LET n == IF OrigSize(r) > 0 THEN OrigSize(r) ELSE NewSize(r)
    IN  IF r.backup /\ n > 0 /\ offset + n <= Size
        THEN SubSeq(Data, offset + 1, offset + n) ELSE <<>>

\* Address 0 is taken for offset 0.
PatchOffset(r) == IF r.address = 0 THEN 0 ELSE e9_binpatch_vaddr_to_offset(r.address)

\* An address outside of the binary, and another than 0 of its first byte, are refused.
add_patch(r) ==
    LET offset == PatchOffset(r)
    IN  /\ Idle /\ ~finalized
        /\ Len(patches) < MaxPatches
        /\ Acceptable(r)
        /\ r.address = 0 \/ offset # 0
        /\ patches' = Append(patches,
              [type |-> Type(r), address |-> r.address, offset |-> offset,
               orig_size |-> OrigSize(r), new_size |-> NewSize(r),
               bytes |-> r.bytes, target |-> r.target, backup |-> Backup(r, offset)])
        /\ Forget
        /\ UNCHANGED <<finder, todo, output, finalized, pc, i, reverted, given>>

-----------------------------------------------------------------------------
\* The calls on code caves.

\* A search begins.  The minimum is that of the first search.
Search(min_size) ==
    LET min == IF finder.min_cave_size # 0 THEN finder.min_cave_size
               ELSE IF min_size > 0 THEN min_size ELSE DefaultMin
    IN  /\ finder' = [finder EXCEPT !.min_cave_size = min, !.caves = <<>>]
        /\ todo' = Runs
        /\ given' = {}

e9_caves_find(min_size) ==
    /\ Idle
    /\ Search(min_size)
    /\ Forget
    /\ UNCHANGED <<patches, output, finalized, pc, i, reverted>>

\* The loop over the bytes of all sections comes to the end of the next run.
FindNext ==
    \E r \in todo :
        /\ \A q \in todo : q = r \/ Before(r, q)
        /\ finder' = AddCave(finder, r)
        /\ todo' = todo \ {r}
        /\ UNCHANGED <<patches, output, finalized, pc, i, file, reverted, given>>

e9_caves_alloc(size) ==
    /\ Idle /\ size > 0
    /\ \E c \in Best(finder, size) :
          /\ finder' = Take(finder, c, size)
          /\ given' = given \cup {Given(finder, c, size)}
    /\ Forget
    /\ UNCHANGED <<patches, todo, output, finalized, pc, i, reverted>>

-----------------------------------------------------------------------------
\* Applying the patches.

\* Mutant: patches that begin inside of an earlier one are not seen.
ValidateStarts ==
    \A j, k \in 1 .. Len(patches) : j < k => patches[j].offset # patches[k].offset

e9_binpatch_validate ==
    \A j, k \in 1 .. Len(patches) : j < k =>
        \/ patches[j].offset + patches[j].orig_size <= patches[k].offset
        \/ patches[k].offset + patches[k].orig_size <= patches[j].offset

\* apply(), get_output() and write() begin alike.  call says where to go on.
BeginApply(call) ==
    /\ Idle /\ ~finalized
    /\ e9_binpatch_validate
    /\ pc' = call
    /\ Forget
    /\ UNCHANGED <<patches, finder, todo, output, finalized, i, reverted, given>>

Applying == pc \in {"apply", "write"} /\ todo = {}

\* What a patch in place puts at its offset.
Content(p) ==
    CASE p.type = "BYTES" -> p.bytes
      [] p.type = "INSN" -> Padded(p.bytes, p.orig_size)
      [] p.type = "NOP" -> e9_binpatch_gen_nops(p.new_size)
      [] p.type = "CALL" -> Padded(e9_binpatch_gen_call(p.address, p.target), p.orig_size)
      [] p.type = "JMP" -> Padded(e9_binpatch_gen_jmp(p.address, p.target), p.orig_size)

\* A patch past the capacity, and a branch that needs more room, are errors.
TooLarge(p) ==
    \/ p.offset + p.new_size > Capacity
    \/ p.type \in {"CALL", "JMP"} /\ Len(Content(p)) > p.orig_size

InPlace(p) == p.type \in {"BYTES", "INSN", "NOP", "CALL", "JMP"}

ApplyInPlace ==
    LET p == patches[i]
    IN  /\ Applying /\ i <= Len(patches)
        /\ InPlace(p) /\ ~TooLarge(p)
        /\ output' = Copy(output, p.offset, Content(p))
        /\ i' = i + 1
        /\ reverted' = reverted \ {i}
        /\ UNCHANGED <<patches, finder, todo, finalized, pc, file, given>>

HookCode(p) == IF IsHook(p) THEN p.bytes ELSE <<>>

\* What is written to a cave.  Only a hook goes back to the program.
CaveCode(p, cave) ==
    IF p.type = "HOOK"
    THEN p.bytes \o e9_binpatch_gen_jmp(cave + Len(p.bytes), p.address + p.orig_size)
    ELSE HookCode(p)

\* The jump to the cave is left out if the instruction there is too short.
Detour(p, cave) ==
    LET jmp == e9_binpatch_gen_jmp(p.address, cave)
    IN  IF Len(jmp) <= p.orig_size \/ p.orig_size = 0 THEN Padded(jmp, p.orig_size) ELSE <<>>

\* The room that is asked for: the code, and the jump behind it.
CaveSize(p) == Len(HookCode(p)) + HookSlack

\* A patch that needs a cave is next.
AtHook == Applying /\ i <= Len(patches) /\ ~InPlace(patches[i]) /\ ~TooLarge(patches[i])

\* Caves are searched for if they never were.
ApplyFind ==
    /\ AtHook /\ finder.min_cave_size = 0
    /\ Search(ApplyMin)
    /\ UNCHANGED <<patches, output, finalized, pc, i, file, reverted>>

ApplyHook ==
    LET p == patches[i]
    IN  /\ AtHook /\ finder.min_cave_size # 0
        /\ \E c \in Best(finder, CaveSize(p)) :
              LET cave == finder.caves[c].address
                  at   == e9_binpatch_vaddr_to_offset(cave)
                  ok   == at > 0 /\ at + Len(HookCode(p)) <= Size
              IN  /\ finder' = Take(finder, c, CaveSize(p))
                  /\ given' = given \cup {Given(finder, c, CaveSize(p))}
                  /\ output' = IF ok THEN Copy(Copy(output, at, CaveCode(p, cave)),
                                               p.offset, Detour(p, cave))
                               ELSE output
        /\ i' = i + 1
        /\ reverted' = reverted \ {i}
        /\ UNCHANGED <<patches, todo, finalized, pc, file>>

\* The first patch that fails ends the call; those before it stay applied.
ApplyFail ==
    LET p == patches[i]
    IN  /\ \/ Applying /\ i <= Len(patches) /\ TooLarge(p)
           \/ AtHook /\ finder.min_cave_size # 0 /\ Best(finder, CaveSize(p)) = {}
        /\ pc' = "idle" /\ i' = 1
        /\ UNCHANGED <<patches, finder, todo, output, finalized, file, reverted, given>>

EndApply ==
    /\ Applying /\ i > Len(patches)
    /\ finalized' = TRUE
    /\ pc' = IF pc = "write" THEN "file" ELSE "idle"
    /\ i' = 1
    /\ UNCHANGED <<patches, finder, todo, output, file, reverted, given>>

-----------------------------------------------------------------------------
\* Writing and reverting.

e9_binpatch_write ==
    /\ Idle /\ finalized
    /\ pc' = "file"
    /\ Forget
    /\ UNCHANGED <<patches, finder, todo, output, finalized, i, reverted, given>>

All == {patches[k] : k \in 1 .. Len(patches)}

\* The patches that are not reverted.
Kept == {patches[k] : k \in (1 .. Len(patches)) \ reverted}

\* fopen() fails, fwrite() stops short, or the output up to its size is written.
WriteFile ==
    /\ pc = "file" /\ pc' = "idle"
    /\ \/ UNCHANGED file
       \/ \E n \in {0, Size} :
             file' = [length |-> n, data |-> [x \in 0 .. n - 1 |-> output[x]],
                      patches |-> All, kept |-> Kept]
    /\ UNCHANGED <<patches, finder, todo, output, finalized, i, reverted, given>>

e9_binpatch_revert(id) ==
    /\ Idle /\ id \in 1 .. Len(patches)
    /\ patches[id].backup # <<>>
    /\ output' = Copy(output, patches[id].offset, patches[id].backup)
    /\ reverted' = reverted \cup {id}
    /\ Forget
    /\ UNCHANGED <<patches, finder, todo, finalized, pc, i, given>>

\* Only the bytes of the binary are restored, not those in the slack, and
\* neither the patches nor the space in caves is given back.
e9_binpatch_revert_all ==
    /\ Idle
    /\ output' = [x \in DOMAIN output |-> IF x < Size THEN Data[x + 1] ELSE output[x]]
    /\ finalized' = FALSE
    /\ reverted' = 1 .. Len(patches)
    /\ Forget
    /\ UNCHANGED <<patches, finder, todo, pc, i, given>>

\* e9_binpatch_session_create()
Init ==
    /\ patches = <<>> /\ finder = NoFinder /\ todo = {}
    /\ output = [x \in 0 .. Capacity - 1 |-> IF x < Size THEN Data[x + 1] ELSE <<0>>]
    /\ finalized = FALSE /\ pc = "idle" /\ i = 1
    /\ file = NoFile /\ reverted = {} /\ given = {}

Next ==
    \/ \E r \in Requests : add_patch(r)
    \/ \E n \in CaveSizes : e9_caves_find(n) \/ e9_caves_alloc(n)
    \/ \E call \in {"apply", "write"} : BeginApply(call)
    \/ FindNext
    \/ ApplyInPlace \/ ApplyFind \/ ApplyHook \/ ApplyFail \/ EndApply
    \/ e9_binpatch_write \/ WriteFile
    \/ \E id \in 1 .. MaxPatches : e9_binpatch_revert(id)
    \/ e9_binpatch_revert_all

Spec == Init /\ [][Next]_vars

-----------------------------------------------------------------------------
\* Properties.

Patch ==
    [type : {"BYTES", "NOP", "INSN", "CALL", "JMP", "TRAMPOLINE", "HOOK", "DETOUR"},
     address : Nat, offset : Nat, orig_size : Nat, new_size : Nat,
     bytes : Bytes, target : Nat, backup : Bytes]

Cave == [address : Nat, size : Nat]

TypeOK ==
    /\ patches \in Seq(Patch)
    /\ finder \in [min_cave_size : Nat, capacity : Nat, caves : Seq(Cave)]
    /\ todo \subseteq Runs
    /\ DOMAIN output = 0 .. Capacity - 1
    /\ \A x \in DOMAIN output : output[x] \in Seq(Int)
    /\ finalized \in BOOLEAN
    /\ pc \in {"idle", "apply", "write", "file"}
    /\ i \in 1 .. Len(patches) + 1
    /\ file.length \in {0, Size}
    /\ reverted \subseteq 1 .. Len(patches)
    /\ \A g \in given : g \in Cave

\* The offsets that a patch may write at its own place.
Place(p) ==
    p.offset .. p.offset + (IF p.orig_size > 0 THEN p.orig_size ELSE FarJmpSize) - 1

\* Whatever was applied, failed halfway, reverted and applied again: a byte of
\* the program differs from the original only at the place of a patch that is
\* not reverted, or where the original has filler.  In particular a backup
\* covers all that its patch has written.
Confined ==
    \A x \in 0 .. Size - 1 : output[x] # Data[x + 1] =>
        \/ x \in Filler
        \/ \E k \in 1 .. Len(patches) : k \notin reverted /\ x \in Place(patches[k])

\* validate() does not see two things: a detour, whose size is 0, and the code
\* that apply() puts into filler.
Meets(p, q) == Place(p) \cap Place(q) # {}

Unseen(p, ps) ==
    \/ Place(p) \cap Filler # {}
    \/ \E q \in ps : q # p /\ (p.orig_size = 0 \/ q.orig_size = 0) /\ Meets(p, q)

\* The bytes s are in f at offset at.
Holds(f, at, s) == \A k \in 1 .. Len(s) : f[at + k - 1] = s[k]

\* So are they, but for bytes at the place of one of the patches ps.
HoldsBut(f, at, s, ps) ==
    \A k \in 1 .. Len(s) : f[at + k - 1] = s[k] \/ \E q \in ps : at + k - 1 \in Place(q)

\* Behind the code of p at x there is the jump op, n bytes long, back to the program.
Returns(p, ps, f, x, op, n) ==
    HoldsBut(f, x + Len(p.bytes), Branch(op, p.address + p.orig_size, n), ps)

\* p, one of ps, is in f: its content, or the jump to its code, the code, and for a hook
\* the jump back.
Present(p, ps, f) ==
    IF InPlace(p) THEN Holds(f, p.offset, Content(p))
    ELSE \E x \in Filler :
            LET jmp == Detour(p, BaseAddress + x)
            IN  /\ jmp # <<>> /\ Holds(f, p.offset, jmp)
                /\ HoldsBut(f, x, p.bytes, ps)
                /\ p.type = "HOOK" => \/ Returns(p, ps, f, x, 233, BranchSize)
                                      \/ Returns(p, ps, f, x, 255, FarJmpSize)

\* What apply() is known not to do: it never copies the new bytes of a TRAMPOLINE, and
\* leaves out a hook if the jump to some cave is longer than the instruction.
LeftOut(p) ==
    \/ p.type = "TRAMPOLINE"
    \/ IsHook(p) /\ \E x \in Filler : Detour(p, BaseAddress + x) = <<>>

\* A file that was written in full has every patch that was not reverted then, also
\* after calls of apply() that failed: no patch undoes another, it is never a half
\* patched binary, and each hook runs its own code, but for bytes that a patch of filler
\* asked for, and returns behind the instruction it replaced.  Patches are excluded
\* that are over filler or meet a detour (Unseen), that reach past the end of the file,
\* and those that are LeftOut.
Saved ==
    file.length = Size => \A p \in file.kept :
        \/ Unseen(p, file.patches)
        \/ \E x \in Place(p) : x >= Size
        \/ LeftOut(p)
        \/ Present(p, file.patches, file.data)

\* The space handed out since the last search does not overlap, is not on offer
\* any more, and was filler.
Apart(a, b) == a.address + a.size <= b.address \/ b.address + b.size <= a.address

Span(c) == {a - BaseAddress : a \in c.address .. c.address + c.size - 1}

CavesApart ==
    /\ \A a, b \in given : a # b => Apart(a, b)
    /\ \A c \in 1 .. Len(finder.caves) :
          /\ \A a \in given : Apart(a, finder.caves[c])
          /\ \A d \in 1 .. Len(finder.caves) :
                c # d => Apart(finder.caves[c], finder.caves[d])
          /\ Span(finder.caves[c]) \subseteq Filler
    /\ \A a \in given : Span(a) \subseteq Filler

-----------------------------------------------------------------------------
\* The inductive invariant, part by part.

\* What a linker promises: executable sections do not overlap.
WellFormed ==
    \A s, t \in 1 .. Len(Sections) : s # t => \A x \in Searched(s) : x \notin Searched(t)

\* How the sizes of a patch are related.  A backup is all that its patch overwrites.
Consistent(p) ==
    /\ p.type = "BYTES" => p.orig_size = Len(p.bytes)
    /\ p.type = "INSN" => Len(p.bytes) <= p.orig_size
    /\ p.type = "NOP" => p.new_size = p.orig_size
    /\ InPlace(p) => p.orig_size > 0
    /\ p.backup # <<>> =>
          /\ p.orig_size > 0 /\ Len(p.backup) = p.orig_size /\ p.offset + p.orig_size <= Size
          /\ \A k \in 1 .. p.orig_size : p.backup[k] = Data[p.offset + k]

\* All caves are in filler.
InFiller ==
    /\ \A c \in 1 .. Len(finder.caves) : Span(finder.caves[c]) \subseteq Filler
    /\ \A a \in given : a.size > 0 /\ Span(a) \subseteq Filler

\* A run that the search comes to is apart from the caves that it has found; nothing
\* is handed out in between, or before the first search.
CaveOf(r) == [address |-> BaseAddress + r.from, size |-> r.to - r.from + 1]

Searching ==
    /\ \A r \in todo : \A c \in 1 .. Len(finder.caves) : Apart(CaveOf(r), finder.caves[c])
    /\ todo # {} => given = {}
    /\ finder.min_cave_size = 0 => todo = {} /\ given = {} /\ Len(finder.caves) = 0

\* Where the session is, and that validate() holds for what is or was applied.
Control ==
    /\ pc \in {"apply", "write"} => ~finalized
    /\ pc \in {"idle", "file"} => i = 1
    /\ pc = "file" => finalized /\ todo = {}
    /\ finalized \/ pc \in {"apply", "write"} => e9_binpatch_validate

\* All space that could be handed out.
Space ==
    {g \in [address : BaseAddress .. BaseAddress + Size - 1, size : 1 .. Size] :
        Span(g) \subseteq Filler}

\* Hook p, one of ps, is in f, with its code in the space g.
Hooked(p, ps, g, f) ==
    /\ Holds(f, p.offset, Detour(p, g.address))
    /\ Len(CaveCode(p, g.address)) <= g.size
    /\ HoldsBut(f, g.address - BaseAddress, CaveCode(p, g.address), ps)

Excused(p, ps) == Unseen(p, ps) \/ \E x \in Place(p) : x >= Size

\* p, one of ps, is in f, if it is a hook with its code in a space in G.
InOutput(p, ps, G, f) ==
    \/ Excused(p, ps)
    \/ InPlace(p) /\ Holds(f, p.offset, Content(p))
    \/ ~InPlace(p) /\ \E g \in G : Hooked(p, ps, g, f)

\* The patches before the one that apply() is at are in the output; after apply(), all
\* those that are not reverted.
Progress ==
    /\ pc \in {"apply", "write"} => \A k \in 1 .. i - 1 :
          ~TooLarge(patches[k]) /\ InOutput(patches[k], All, given, output)
    /\ finalized => \A k \in 1 .. Len(patches) :
          ~TooLarge(patches[k]) /\ (k \in reverted \/ InOutput(patches[k], All, Space, output))

IInv ==
    /\ TypeOK /\ Confined /\ InFiller
    /\ \A k \in 1 .. Len(patches) : Consistent(patches[k])

SInv == CavesApart /\ Searching /\ Control /\ Progress /\ Saved

=============================================================================
