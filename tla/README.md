# A TLA+ verification of E9Patch

E9Patch rewrites x86-64 binaries without knowing their control flow: an
instruction is replaced *in place* by a jump to a trampoline, and no other
instruction moves.  This directory models the parts of it that carry that
promise, from the messages of the frontend to the memory of the rewritten
program, and the live-reload extension; it checks them with TLC on small
instances and proves central facts with TLAPS for all instances.

Paths below are relative to the repository; `e9patch/` stands for `src/e9patch/`.

## 1. Inventory

| Component | Source | State | Operations | What makes it correct |
|---|---|---|---|---|
| Virtual address allocator | `e9patch/e9alloc.cpp` | red-black interval tree, each node augmented with the bounds and the largest gap of its subtree | `allocate`, `reserve`, `deallocate`, iterator, `find` | intervals never overlap; the caches are exact; a free slot in bounds is found; page rule |
| Patching tactics | `e9patch/e9tactics.cpp` | bytes (`PATCH`), their state and lock (`STATE`), `is_patched`, `is_evicted`, allocations, chain of `Patch`es | `patch` with B0, B1, B2, T0, T1, T2, T3, T3b; `commit`, `undo` | every jump in place reaches its trampoline for ever; untouched instructions stay intact; a failed tactic leaves no trace |
| Message protocol and queue | `e9patch/e9api.cpp`, main loop of `e9patch.cpp` | queue `Q`, `cursor`, options, announced instructions, templates, reservations | the messages `binary`, `instruction`, `patch`, `options`, `trampoline`, `reserve`, `emit`; `queueFlush` | order of options and patches, look-ahead, nothing lost |
| Instruction state | `e9patch/e9patch.h` | `Instr`, `PatchEntry`, `Alloc`, `Binary` | accessors | shared by the others |
| Trampoline templates | `e9patch/e9trampoline.cpp` | allocations, labels and breaks of one trampoline | size at allocation, `flattenAllTrampolines` at emit | what is written fits what was allocated; the code does what the template says |
| Optimiser | `e9patch/e9optimize.cpp` | entry set, saved jumps | `buildEntrySet`, `setTrampolineEntry`, `optimizeAllJumps` | the same instructions are executed |
| Page grouping | `e9patch/e9mapping.cpp` | mappings, radix tree of occupancy bitmaps | build, merge, shrink, flatten, virtual bounds | merged pages are disjoint, nothing is lost |
| ELF output and loader | `e9patch/e9elf.cpp`, `e9loader_elf.cpp` | pages of the file, tables of maps and traps, memory | `emitElf`, `emitRefactoredPatch`, `e9init`, `e9load_maps`, `e9handler` | when the program starts, every byte is at its address |
| Live reload | `e9patch/e9livereload.c`, `e9ape.c` | patch table, object cache, watcher, mapped target | init, watch, poll, reload, apply, revert, shutdown | the target is what the applied patches say, and runs what the cache says |
| Patch sessions | `e9patch/analysis/e9binpatch.c` | patch list, code caves, output buffer, `finalized` | add a patch of eight types, find and allocate caves, apply, write, revert | only patched bytes and filler change; a file written has every patch; cave space is handed out once |
| Control-flow recovery | `e9patch/e9CFR.cpp` | target bitmap | `targetAnalysis` | heuristic |
| Decoder | `e9patch/e9x86_64.cpp` | none | decode, relocate | - |
| PE and APE formats, PE loader | `e9pe.cpp`, `e9ape.c`, `e9loader_pe.cpp` | headers | parse, emit | - |
| JSON reader | `e9json.cpp` | input buffer | `getMessage` | - |
| Process memory, WASM host, studio, IDE protocol, analysis | `e9procmem.c`, `wasm/`, `ide/`, `analysis/` | various | various | - |
| E9Tool | `src/e9tool/` | - | matching, code generation, sends the messages | - |

**Interaction.**  A frontend sends messages on standard input; E9Patch is one
sequential process.  `parsePatch` queues an instruction and flushes the queue up
to a look-ahead behind the address of the message; `queueFlush` calls `patch`,
which tries tactics that read and write the shared byte states and ask the
allocator for room, for which the size of the trampoline is computed.  `reserve`
goes straight to the allocator.  `emit` flushes the rest, groups the pages,
generates the code of all trampolines, redirects jumps and writes the file, whose
loader undoes the grouping in memory.  Live reload is a separate library with its
own state that works on a mapped file.

**What is hard.**  There are no threads, but there are interleavings: messages
with patching (instructions are patched while their neighbours below have not
even been announced), and patches with each other (a punned jump relies on bytes
that belong to other instructions, which later patches want).  Tactics fail
half-way and are undone from overlapping saved windows.  Options travel through
the same queue as patches.  The allocator's caches must survive every rotation.
A trampoline is sized before its surroundings are final and generated after.
Trampolines copy code from before and behind the patched instruction, and jumps
are redirected into these copies.  Pages are merged by coarse bitmaps and must
come apart again.  In live reload, compilation, comparison and application fail
one by one while the cache moves on.  In a patch session, a call of `apply` that
fails leaves its first patches behind, and is tried again.  `PROJECT.json` lists these hazards at their
lines with the properties that watch them.

## 2. Modules

| Module | Models | Role |
|---|---|---|
| `VirtualSpace` | what `e9alloc.h` promises | abstract specification: a set of disjoint intervals |
| `IntervalTree` | `e9alloc.cpp` | detailed specification; implements `VirtualSpace` |
| `Tactics` | `e9tactics.cpp` and the queue of `e9api.cpp` | one step of `patch` per tactic, on bytes |
| `PatchApi` | `e9api.cpp` | all messages, `patch` abstracted to "places trampolines" |
| `Trampoline` | `e9trampoline.cpp`, `e9optimize.cpp` | sizes, code generation and redirected jumps; a tactic is any of its outcomes |
| `Grouping` | what page grouping promises | abstract specification: disjoint groups |
| `Mapping` | `e9mapping.cpp` | radix tree; implements `Grouping` |
| `Loader` | `emitElf` and `e9loader_elf.cpp` | extends `Mapping` to the file and to memory |
| `LiveReload` | `e9livereload.c` with the RVA translation of `e9ape.c` | all operations of live reload |
| `BinPatch` | `analysis/e9binpatch.c` | all calls on a patch session |
| `MC*` | - | code fragments, layouts, requests and message sets for TLC |
| `*Proofs`, `TacticsDiverts`, `TacticsLemmas` | - | theorems, and the lemmas on stores and chains that those of `Tactics` use |

Definitions whose comment begins with *Mutant* are wrong on purpose: each is a
plausible bug that the property named in `PROJECT.json` catches.

**VirtualSpace / IntervalTree.**  `allocs` is the set of live intervals; the tree
is one record `t` of functions on nodes (children, parent, colour, interval,
augmentation), with one operator per C++ function.  `Allocate`, `Reserve` and
`Deallocate` are the three calls.  A request has the bounds of the entry point
and the sizes of prologue and trampoline, and the two options that `allocate()`
reads, which an "options" message may change between two calls.  `PAGE_SIZE` is a `size_t`, so that
page arithmetic on negative addresses is unsigned: it is modelled by floored
`\div` and `%`.  The refinement mapping is the set of intervals of the live
nodes.

**Tactics.**  `m` is everything a tactic changes; `chain` the patches of the
tactic in progress; `pc` where `patch` is.  A byte is a digit in base `BYTE`, a
displacement has `REL` digits, so puns constrain allocations as in x86-64 with
smaller numbers.  B1, B2 and T1 are written once and used for four tasks (the
instruction itself, the evictee of T2 and T3, the head of a T0 batch), as the
C++ functions are called.  `tactic_T0` finds the batch and `T0Free` frees its
instructions one by one; a tactic that fails is at "lost" until `undo` has taken
back its chain, one patch in each step, and `NextTactic` then goes on as `patch`
does.  The allocator is the one `VirtualSpace` specifies:
any free address in bounds.  `Lands` says what the processor does with the
result and is the only external part.

**PatchApi.**  `Q` is the queue, `cursor` the last flush; `pc` is "flush" or
"emit" inside `queueFlush`, whose loop is one step per entry.  Any message can be
malformed or out of order and then `error()` ends the process.  `said` and the
`said` field of entries are history: the options as they would be had each
message been applied when sent.

**Trampoline.**  A program is a sequence of instructions of which only the kind
(plain, rip-relative, return, jump, conditional jump, call, and `callq *%rsp`),
the length and the target matter.  `patch` takes the requests downwards and each
time chooses any outcome of a tactic: which instructions become patched, evicted
or part of a batch, and which allocations with which sizes are made *under the
flags of that moment*.  `flattenAllTrampolines` lays the same templates out again
under the final flags, with any prologue or epilogue out of reach, and
`optimizeAllJumps` redirects.  Code is a sequence of items with lengths; the
definitions after `Generated` execute it step by step and execute the original
program with the instrumentation inserted, so that `Behaves` compares the two
sets of executions from every instruction.

**Grouping / Mapping / Loader.**  A byte in a buffer is identified by the address
at which the program expects it, so that flattening, merging, shrinking and
mapping can be followed byte by byte.  `Mapping` has one operator per function of
`e9mapping.cpp` on a radix tree of nested records; `remove` leaves the key of a
node as it was, exactly as the code does, so that it may lack bits.  `Loader` continues with the
file (`emitElf`: refactored pages, buffers, two levels of maps, traps) and the
steps of `e9init`; the memory it fills is what `Loaded` looks at.  The refinement
mapping to `Grouping` forgets the tree and keeps offsets.

**LiveReload.**  `patches` is the table, `target` the mapped file, `cache` the
object files in the cache directory; the last two survive `shutdown`.  A source
file stands for what it compiles to.  `e9_binaryen_diff_objects` is at present a
stub that always fails; the model takes it to fail or to return what its
declaration in `e9binaryen.h` says (the changed functions, in any order), which
includes the present behaviour.  `base`, `tangled` and `missed` are history:
`tangled` has the offsets that were reverted out of order or whose saved bytes
were not those replaced, `missed` those at which a change of a source did not
reach the target.

**BinPatch.**  A byte is a value or one byte of a branch to an address; the sizes
of branches, the 32 spare bytes of a hook and the 4096 of the output are
parameters.  Offsets are counted modulo `WORD` (2^64), so that an address below the
base, as that of a section that is not loaded, has an offset past any file.  A call
that adds a patch is one step (`add_patch` of its request);
`apply` is one step for each patch, so that it can stop at any of them, and
`write` goes on from its end to the file.  Caves are the longest runs of filler;
`e9_caves_find` is one step that begins the search and one (`FindNext`) for each
run, in the order of the scan, with the array of caves growing as it does.  `todo`
has the runs that a search still has to come to: no other call starts before it is
empty.  `reverted` and `given` are history; `file` is forgotten by the next call,
as no call reads it.

## 3. Runs

| Run | Shows | Bounds |
|---|---|---|
| `virtual_space` | disjointness in the abstract allocator | two address ranges, requests with and without prologue |
| `interval_tree` | colours, caches, iteration, completeness, the page rule with `-Oorder` and addresses below 0, and refinement | 5 nodes: all rotations and all cases of removal occur |
| `tactics` | B1, B2, T1, T2, T3 and undo on six instructions of 1 to 4 bytes, all subsets, 27 contents | base 16, two-digit displacements, 5 trampoline addresses |
| `tactics_blocks` | the look-ahead on code longer than it; T0 batches of up to 3 instructions backwards that succeed and that are undone; traps; liveness | 8 instructions in blocks, 2 addresses so that room runs out |
| `patch_api` | the protocol in incremental mode with reservations and templates | 4 instructions within and beyond the look-ahead, 2 option settings, 3 reservations, 2 places |
| `trampoline` | sizes against generated code, and executions | 4 instructions, one branch of each kind to each place, an operand relative to the program counter, a return; 1 or 2 requests; 2 templates; executions of 5 steps; prologues and epilogues of up to 2 |
| `loader` | grouping, shrinking, splitting, refactoring, traps and the order of loading | 3 or 5 mappings of 3 pages of 4 bytes, bitmaps of 6 bits, digits of 2 bits; 5 traps |
| `livereload` | apply, revert, file changes and restarts | target of 2 bytes, 2 functions (one past its end), table of 2, 4 patch numbers |
| `binpatch` | patch sessions: apply, failures, retries, reverts and files | an ELF file (base 0, with the null section and one that is not loaded) of 26 bytes, caves of 8, 4 and 3 bytes, branches of 2 bytes, 3 patches of 13 kinds: in a cave, across the end, too long, too far, a hook that does not fit |

`MaxNodes` bounds the tree, `MaxQ` the queue after an "options" message, `MaxId`
the patch numbers, `MaxEvents` the unread file events and `MaxPatches` the
patches of a session; nothing else is cut
off.  Five nodes suffice for every rebalancing case with a red or black sibling
and its nephews; two-digit displacements suffice to have a digit that is chosen
and one that is punned, which is what the tactics tell apart.  Four instructions
suffice for a patched instruction with a prologue and an epilogue that run into
another patched or evicted one.  Bitmaps of three digits suffice for a radix tree
of more than one level with removals in it, and a table of two patches for
patches of the same bytes that are reverted in the wrong order, and for a change
of two functions of which one fits.

Three runs expect a violation and record where the code departs from what it
says of itself (`findings` in `PROJECT.json`):

* `tactics_single`: T3b may evict the instruction whose first byte is the
  displacement of its short jump.
* `loader_segments`: patched pages of two code segments that are closer in memory
  than a mapping are moved as one contiguous range of the file.
* `trampoline_labels`: a label behind `$BREAK` (where the programming guide and
  `$DATA` put their data) is wrong when the epilogue turns out not to be
  relocatable at its address.

The passing runs of the same modules use instances in which these do not arise
(no one-byte instruction whose pun lands in its own successor is patched there;
one segment; no labels behind `$BREAK`), so they show that nothing *else* is
wrong.

**Other disagreements** met while modelling, for which there is no run of their own:

* `e9alloc.cpp:446`: `node()` moves a trampoline that spans pages to the next
  boundary and does not look again, so one larger than a page crosses pages
  although `--mem-multi-page=false`; the assertion at `:455` is compiled out.
* `e9tactics.cpp:248`: `makeBounds` reads the opcode in place of a rel8 operand,
  so the bounds of the trampoline are those of another target (comment at `:240`).
* `e9tactics.cpp:242`: for a T0 batch only the operand of the first instruction
  bounds the trampoline.  Another instruction of the batch that is out of reach
  makes emission fail, or is left out of its template silently (`Near = FALSE` in
  `Trampoline` makes TLC violate `Behaves`).
* `e9trampoline.cpp:386`: after the size of a macro the code tests `size`, which
  is unsigned, instead of the result: an instruction that cannot be relocated
  inside a macro is counted as -1 and the trampoline is allocated.
* `e9trampoline.cpp:263`: likewise an epilogue with `callq *%rsp`, which cannot
  be relocated, is counted as -1 byte, and the jump generated in its place does
  not fit (kind `"bad"` in `Trampoline` makes TLC violate `Fits`).
* `e9api.cpp:772`: in batch mode an "options" message also governs patches whose
  messages came earlier; the programming guide (`:529`) says "The new options will
  be applied to subsequent messages."
* `e9elf.cpp:501`: whether the user's `mmap()` is absolute is asked of an address
  that `BASE_ADDRESS` has already made relative.
* `e9elf.cpp:358`: the number of pages of a map is tested against 2^21 and then cut
  to 16 bits.
* `e9livereload.c:184`: the object cache is keyed by the base name of a source, so
  that two files of that name share an object.
* `e9livereload.c:906`: a patch is reverted to the bytes it saved whatever was
  applied after it, so reverting in another than the reverse order leaves bytes
  of a patch that is no longer applied; `docs/ARCHITECTURE.md:327` says "REVERTED |
  <- Original bytes restored".  `Replay` is therefore stated outside of `tangled`.
* `e9livereload.c:452`: the object of a source is cached whether or not its change
  reached the target, and the next change is compared with it: a patch may then save
  bytes that the target does not have (`tangled`), and the target stays behind at the
  functions that were missed (`missed`, outside of which `Tracks` is stated).
* `e9binpatch.c:602`: an instruction that is replaced by a longer one becomes a
  patch of type `TRAMPOLINE`, of which `apply` only reads `hook_code`: the new
  instruction is never copied, and the jump leads to filler.  `e9binpatch.h` says
  "If larger, a trampoline is automatically created".  `Saved` excludes these
  patches (`LeftOut`).
* `e9binpatch.c:964`: a hook on an instruction that is shorter than a jump is left
  out and `apply` returns 0; where it fits, the instruction it replaces is not
  executed any more.  The header says "Hook receives control before original
  function, can modify arguments".  `Saved` excludes a hook if the jump to some cave
  is longer than its instruction (`LeftOut`).
* `e9binpatch.c:849`: `validate` ("Checks for overlaps, relocation conflicts, etc.")
  takes a detour to have size 0 and does not know of caves, so that a detour may
  overwrite another patch and a hook's code a patch of filler bytes.  `Saved`
  leaves out the patches that meet one of these (`Unseen`), and of a hook's code the
  bytes that a patch of filler asked for.
* `e9binpatch.c:872`: a patch "exceeds binary size" only when it exceeds the
  buffer; what lies between the two is applied and not written (excluded from `Saved`).
* `e9binpatch.c:1051`: a patch that is reverted before `apply`, or by `revert_all`,
  stays in the list and is applied by the next call; two patches that overlap make
  all later calls fail, as none can be removed.
* `e9binpatch.c:446`: a cave at the end of a section is dropped when the array is
  full, and the minimum size of later searches is ignored; the header says "Find
  all code caves in binary".  A new search offers space again that was handed out,
  and every call of `apply` that fails uses up the space of its hooks:
  `CavesApart` is about the space given since the last search.
* `e9binpatch.c:513`: a patch at address 0 is taken for one at offset 0.

**Fairness.**  `PatchApi` assumes weak fairness of `queueFlush`, `Tactics` of all
steps between messages: a sequential process that is in a loop goes on with it.
Messages are never assumed to arrive.  In `Tactics`, weak fairness is written
with the predicate `Busy`, which says when `Work` is enabled.  `LiveReload`,
`Loader`, `Trampoline` and `BinPatch` assume none: their properties are of safety.

**Deadlock** is checked in all runs but those of `Loader` and `Trampoline`, which
end when the file is loaded or the code is generated; elsewhere the end of the
message stream is the step `Exit` or `Done`.

## 4. Proofs

`VirtualSpaceProofs` proves, for every page size, address range and set of
requests, that the allocator's promise is consistent: `TypeCorrect` and
`Disjointness` (`NoOverlap` is inductive together with the type invariant).
`IntervalTree` is shown to refine it by TLC, so what TLC shows of
the tree and what is proved of the promise meet in `Refines`.

`GroupingProofs` does the same for page grouping, for every size of a unit:
`GroupsSeparate` rests on the lemma that mappings whose bitmaps are disjoint have
no byte in common, and on the bitmap of a group being the union of those of its
members; `GroupedOnce` and `NothingLost` say that grouping is a partition.  The
radix tree is shown to implement `Grouping` by TLC (`Groups`), including that it
finds room whenever there is some.

`PatchApiProofs` proves, for every set of instructions, look-ahead, set of
options and message stream in incremental mode (`Incremental`: `--batch` is
neither on nor switched on), that options are seen in order (`OptionOrder`),
patches are performed downwards (`PatchOrder`) and behind the look-ahead
(`LookAheadMargin`), none is forgotten when the binary is written
(`Completeness`), and it is written once (`SingleEmission`).  None of these is
inductive.  The invariant `IInv` adds what links them:

* `Started`: nothing is queued or done before the first "patch" message, which is
  why options may be applied at once until then;
* `Descending`: one descending sequence runs from what is done through the queue
  to the cursor;
* `Chained`: each entry's options continue those of the entry before it, the
  first one from the options in force;
* `Ahead`, `Accounted`, `Emission`: what is done is behind the look-ahead, every
  accepted message is queued or done, and after "emit" only options are queued.

`StepOK` has one step per message and per turn of the loop; `ChainAppend` and
`ChainTail` say what `push_front` and `pop_back` do to the chain.  The
assumptions are `ApiAssumption`: instruction addresses are further than the
look-ahead from `INTPTR_MIN` and below `INTPTR_MAX`.

`PagesApart` (`PageDisjoint`: what a "reserve" message takes shares no page with
another reservation or with a trampoline; two trampolines may share one) needs no
incremental mode.  It rests on arithmetic: an interval that is rounded to pages and
does not overlap another one has no page in common with it (`PageBefore`,
`RoundDown`, `RoundUp`).

`LiveReloadProofs` proves `TypeCorrect` and `ReplayHolds` for every target,
section table, set of requests and set of objects.  `Replay` speaks of the bytes
of the target only; what makes it inductive is `Saved`: the bytes saved by an
applied patch are what the applied patches *before it in the table* show, an
applied patch was in bounds, and nothing is pending while hot patching is
enabled.  Both are stated outside of `tangled` (section 2).  Reverting the topmost patch then shows the ones below it.  The lemmas
follow the operations (`ApplyStep`, `ApplyByHand`, `Revert`, `Generated`, `Diff`);
the assumptions are that the functions of one object have fixed sizes and do not
overlap (`ObjectsAssumption`).  `TargetTracks` (`Tracks`) is inductive over that
invariant: a step writes a byte of a source either as a whole function
(`HotTracks`), or not at all, and then what changes is missed (`MissedTracks`,
`FirstTracks`).  With several sources it needs `SourcesApart`, which a linker
provides: functions of two sources do not overlap.

`BinPatchProofs` proves all four properties of patch sessions for every base address,
instruction length table, branch size and set of requests, and every binary that meets
`BinPatchAssumption` and `MagicAssumption`.  These ask that executable sections are not
below the base address.  That is 0 for an ELF file, as `detect_elf`, which alone fills
the section table, does not set it; sections that are not loaded, and the null section,
may be anywhere.  They also ask that addresses are those of user space, that a request below the
base ends below it, and that the file does not begin with filler if it begins in an
executable section: it begins with a magic number, and offset 0 and address 0 are how
`e9_binpatch_vaddr_to_offset` and `e9_caves_alloc` report failure.
`TypeCorrect` and `Confinement` follow from `IInv`: `Confined` is not inductive
without knowing that caves are in filler (`InFiller`) and that a backup is what its
patch replaces, as long as what the patch may write (`Consistent`).
`CavesSeparate` and `FilesComplete` hold for binaries that are `WellFormed`: their
executable sections do not overlap, as in what a linker writes (in a relocatable object
file all sections have address 0).  `Searching` says why caves stay apart: a run that the search has yet to
come to is apart from those found.  `Saved` needs `Control` (an apply under way or
finished was validated), and `Progress`: the patches before the one that `apply`
is at are in the output, each hook with its code in a space of its own, but for bytes
at the place of another patch (`HoldsBut`).  `Saved` states its exclusions one by one:
`Unseen`, past the end of the file, and `LeftOut`.  The
lemmas `PlacesApart`, `KeptOutput` and `OtherKept` show that writing one patch, or
reverting it, leaves what another has written, unless the property excuses it.

`TacticsProofs` proves the safety properties of `Tactics` but `Diverts`, for every code
(with gaps), content, instruction length, base and width of displacements, window,
set of trampoline addresses and options, in batch mode and not.  The assumptions
are that instructions do not overlap, that a `Patch` saves enough bytes for the
longest instruction and a jump behind it (`PATCH_MAX`), and that opcodes are bytes.
The theorems are `TypeCorrect`, `GivesUpCleanly` (`UndoExact`), `UnpatchedIntact`
(`Intact`), `AllocationsOwned` (`NoLeak`), `BatchAssumed` (`AssumedT0`) and
`LooksFarEnough` (`LookAhead`).  None is inductive; `Inductive` is about `IInv`:

* `Control` and `Chained`: which instruction a tactic works on at each label of
  `patch`, and which patches the chain can have there;
* `Restorable`: for every byte, the *oldest* patch of the chain that saved it has
  the byte, state and lock that `patch` found, and a byte that no patch saved is as
  it was (`BytesKept`); likewise `is_patched` (`MarksKept`).  As `undo` clears
  `is_evicted` whatever it was, nothing that was evicted before may be in a chain
  that can still fail (`EvictedKept`);
* `Allocated`: the addresses in use are those of the entries and of the chain, each
  once.  The allocation of the jump that T3 hides is, until `T3Short` moves it, not
  the neighbour's own (`Own`);
* `Stores`: an unpatched instruction has its bytes (`Whole`), an evicted one or one
  with a trampoline begins with a patched byte (`Begun`), an instruction that begins
  with a patched or free byte has no other byte that a tactic could take (`Closed`),
  a queued one is untouched or in a batch (`Queued`), in the memory that `patch`
  started from and, unless it is being undone, in the present one;
* `Messages` and `LookAhead`, with `Near`: a tactic only works on instructions above
  the cursor.  For T0 this is the length of the chain of predecessors (`Distance`),
  for T3 the range of a short jump.

The lemmas of `TacticsLemmas` say what each writing operation does to a store
(`Applied`: it writes to its instruction and to free bytes, stays inside what its
patch saves, and locks nothing that is queued), and what pushing and popping a patch
does to `BytesKept` and `MarksKept`.  `NextKept` has one lemma per action, all jumps
of basic tactics sharing `JumpKept` and all ends of `patch` sharing `FinishKept`.

`TacticsDiverts` proves the remaining one, `Diverts`: `Diversion` says that every jump
in place reaches its trampoline, in the same generality.  Its hypothesis
`NoPunnedShort` is that T3 is off or no one-byte instruction is patched: with those the
property is false (`tactics_single`).  Its assumption `EncodingAssumption` is that
opcodes differ and that a byte has an even number of values, with the law of powers,
which provers do not know.  `Diverts` looks at memory
only between calls, and says nothing of why the bytes behind a jump stay what they are.
The invariant, on top of `IInv`, is `Landing`:

* `Reaches` says how an instruction gets to its trampoline, and `Jumping` that all bytes
  this relies on, punned ones too, are patched or locked (`Fixed`); `Landed` says it of
  all entries in the memory that `patch` started from;
* `Steady`: a tactic in progress has changed no fixed byte (`Keeps`), and each patch of
  its chain with a trampoline of its own jumps there.  Undoing is not steady, and need
  not be: `UndoExact` brings the memory back in which `Landed` holds;
* `Hidden`: while T3 evicts the neighbour in which it has hidden a jump, this jump stays
  in place and in reach of the short jump that is written last;
* `Taken` and `Pristine`: the members of a batch are not taken by another tactic, and the
  instruction that `patch` works on was untouched when it was called.

Two facts about displacements carry it.  Within the bounds of `makeBounds` the bytes of
the displacement that cannot be written are the ones already there, so that writing the
jump changes only bytes that are free or the instruction's own (`PunJump`); and the first
k bytes, read back, are the displacement modulo `BYTE^k`, in any base (`Encoded`).
`LandsThere` follows the processor through prefixes, short jump and jump.

Only model-checked: liveness (`Written`, `Answered`), everything about
`IntervalTree`, `Mapping` and `Loader` (their trees are recursive operators),
`Trampoline` (executions are, and sizes are folds over templates), and `Diverts` when
one-byte instructions are patched with T3.

## 5. Not modelled

Listed with reasons in `PROJECT.json`: parsing of file headers, PE output and the
PE loader, JSON text, the decoder's opcode tables, the search for indirect jump
targets, E9Tool, and the analysis, WASM and IDE parts but for patch sessions.
`OVERFLOW` bytes past the end of the file are represented by bytes that belong to
no instruction.  In
`Trampoline`, `$take`, debug traps and the bounds that `rel8` references put on a
trampoline are left out.  Callbacks and statistics are left out everywhere.

By lines, most of the repository is outside of a model's reach: the vendored
decoder and encoder (`contrib/`), the examples and their C library, E9Tool's
matching language, and the disassembler and decompiler of `analysis/` are tables
and pure transformations of data without interacting state.  What is modelled is
the part whose steps can interfere: the rewriting core, its output path, live
reload and patch sessions.  In `BinPatch`, AArch64 encodings, failing allocations
of memory and hooks past the end of the file are left out.

## 6. Plan

1. A specification of `Trampoline` without its execution semantics, so that
   `Fits` can be proved: the size of an epilogue never grows once it is fixed.
2. `$take` and the bounds of templates in `Trampoline`; the PE loader, which
   differs from `Loader` in its granularity.
