----------------------------- MODULE LiveReload -----------------------------
(***************************************************************************)
(* Live reload (e9livereload.c): source files are watched, a changed one   *)
(* is compiled, the new object is compared with the cached one, and the    *)
(* differences become patches of the target binary, which is mapped        *)
(* MAP_SHARED; patches are also applied and reverted by hand.              *)
(*                                                                         *)
(* An object is the sequence of the code of its functions.  What           *)
(* e9_binaryen_diff_objects() may return is taken from its declaration     *)
(* (e9binaryen.h): at present its body always fails, which is one of the   *)
(* outcomes.                                                               *)
(***************************************************************************)
EXTENDS Integers, Sequences, FiniteSets, FiniteSetsExt

CONSTANTS
    Byte,          \* values of a byte
    Garbage,       \* what is read outside of the mapping
    Size,          \* target_size
    Original,      \* the target file at the start
    text, rdata, data, \* sections of the target: rva, size and offset
    RvaLimit,      \* 2^32: an RVA is a uint32_t
    OffLimit,      \* 2^63: an off_t is signed
    ImageBase,     \* 0x400000
    Requests,      \* patches applied by hand: type, address and bytes
    Sources,       \* source files
    Functions,     \* for each source the addresses of its functions, in order
    Objects,       \* for each source the objects that it may be compiled to
    MAX_PATCHES,   \* length of the patch table
    MaxId,         \* bound: patch numbers given out
    MaxEvents      \* bound: file events not yet read

None == <<>>       \* no object in the cache
Offsets == 0 .. Size - 1
AllObjects == UNION {Objects[s] : s \in Sources}

-----------------------------------------------------------------------------
\* Addresses.

ToOffset(a) == IF a < OffLimit THEN a ELSE a - 2 * OffLimit

InSection(rva, sec) == sec.rva <= rva /\ rva < sec.rva + sec.size

\* An RVA in none of the sections is taken for an offset.
e9_ape_rva_to_offset(rva) ==
    IF InSection(rva, text) THEN text.offset + (rva - text.rva)
    ELSE IF InSection(rva, rdata) THEN rdata.offset + (rva - rdata.rva)
    ELSE IF InSection(rva, data) THEN data.offset + (rva - data.rva)
    ELSE rva

Resolve(type, a) ==
    CASE type = "offset" -> ToOffset(a)
      [] type = "rva" -> e9_ape_rva_to_offset(a % RvaLimit)
      [] type = "va" /\ a >= ImageBase -> e9_ape_rva_to_offset((a - ImageBase) % RvaLimit)
      [] OTHER -> ToOffset(a)

\* The offset of a function of s.
Place(s, f) == e9_ape_rva_to_offset(Functions[s][f] % RvaLimit)

ASSUME LiveReloadAssumption ==
    /\ Garbage \notin Byte /\ MAX_PATCHES \in Nat /\ Size \in Nat
    /\ Original \in [Offsets -> Byte]
    /\ {text, rdata, data} \subseteq [rva : Nat, size : Nat, offset : Nat]
    /\ RvaLimit \in Nat \ {0} /\ OffLimit \in Nat /\ ImageBase \in Nat
    /\ Requests \subseteq [type : {"offset", "rva", "va"}, address : Nat, bytes : Seq(Byte)]

\* The functions of an object have fixed sizes and do not overlap.
ASSUME ObjectsAssumption ==
    /\ \A s \in Sources : Functions[s] \in Seq(Nat)
    /\ \A s \in Sources : \A o, p \in Objects[s] :
         /\ o # None /\ o \in Seq(Seq(Byte)) /\ Len(o) = Len(Functions[s])
         /\ \A f \in 1 .. Len(o) : Len(o[f]) = Len(p[f])
         /\ \A f, g \in 1 .. Len(o) : f # g =>
              \/ Place(s, f) + Len(o[f]) <= Place(s, g)
              \/ Place(s, g) + Len(o[g]) <= Place(s, f)

VARIABLES
    initialized, watching,
    hot,           \* config.enable_hot_patch
    target,        \* the mapped target, which is also the file
    patches,       \* the table of patches
    next_patch_id,
    source,        \* source files, as what they compile to
    cache,         \* cached objects, kept in the file system
    events,        \* file events not yet read
    base,          \* history: the target when it was mapped
    tangled,       \* history: offsets reverted out of order, or patched over other bytes than saved
    missed         \* history: offsets at which the target missed a change of its source

vars == <<initialized, watching, hot, target, patches, next_patch_id, source, cache,
          events, base, tangled, missed>>

Init ==
    /\ initialized = FALSE /\ watching = FALSE /\ hot = FALSE
    /\ target = Original /\ patches = <<>> /\ next_patch_id = 0
    /\ source \in [Sources -> AllObjects]
    /\ \A s \in Sources : source[s] \in Objects[s]
    /\ cache = [s \in Sources |-> None] /\ events = <<>>
    /\ base = Original /\ tangled = {} /\ missed = {}

-----------------------------------------------------------------------------
\* Patches.

Span(p) == p.at .. p.at + Len(p.new) - 1
InBounds(p) == p.new # <<>> /\ p.at >= 0 /\ p.at + Len(p.new) <= Size
NewByte(p, x) == p.new[x - p.at + 1]
OldByte(p, x) == p.old[x - p.at + 1]

Read(at, n) == [i \in 1 .. n |-> IF at + i - 1 \in Offsets THEN target[at + i - 1] ELSE Garbage]

\* The patches of the table ps that are applied at x.
Applied(ps, x) == {i \in DOMAIN ps : ps[i].status = "APPLIED" /\ x \in Span(ps[i])}

\* v is what the patches before ps[n] that are applied show at x, over the image b.
Shows(ps, b, n, x, v) ==
    LET A == {i \in Applied(ps, x) : i < n}
    IN  \/ A = {} /\ v = b[x]
        \/ \E i \in A : v = NewByte(ps[i], x) /\ \A j \in A : j <= i

\* The byte at x once the patches ps[i], i \in I, were written in the order of the table.
Written(ps, I, x) ==
    LET W == {i \in I : x \in Span(ps[i])}
    IN  IF W = {} THEN target[x] ELSE NewByte(ps[Max(W)], x)

\* apply_patch_internal() for each of the patches ps[i], i \in I.  A byte is tangled
\* from now on when a patch would revert it to something else than it replaces.
apply_patch_internal(ps, I) ==
    LET good == {i \in I : InBounds(ps[i])}
    IN  /\ target' = [x \in Offsets |-> Written(ps, good, x)]
        /\ patches' = [i \in DOMAIN ps |-> IF i \notin I THEN ps[i]
              ELSE [ps[i] EXCEPT !.status = IF i \in good THEN "APPLIED" ELSE "FAILED"]]
        /\ tangled' = tangled \cup
              {x \in Offsets : \E i \in good : x \in Span(ps[i]) /\
                  OldByte(ps[i], x) # Written(ps, {j \in good : j < i}, x)}

\* A patch that is applied by hand saves what it replaces and is applied at once.
e9_livereload_apply_patch(r) ==
    /\ initialized /\ Len(patches) < MAX_PATCHES /\ next_patch_id < MaxId
    /\ next_patch_id' = next_patch_id + 1
    /\ LET at == Resolve(r.type, r.address)
           p == [id |-> next_patch_id', at |-> at, old |-> Read(at, Len(r.bytes)),
                 new |-> r.bytes, status |-> "PENDING"]
       IN  \/ at < 0 /\ UNCHANGED <<target, patches, tangled>>
           \/ /\ at >= 0
              /\ apply_patch_internal(Append(patches, p), {Len(patches) + 1})
    /\ missed' = missed \cup {x \in Offsets : target'[x] # target[x]}
    /\ UNCHANGED <<initialized, watching, hot, source, cache, events, base>>

\* Mutant of Revertible: a patch that was reverted is reverted again.
RevertibleTwice(p) == p.status \in {"APPLIED", "REVERTED"}

Revertible(p) == p.status = "APPLIED"

\* A patch is reverted whatever was applied after it.
e9_livereload_revert_patch(id) ==
    /\ initialized
    /\ \E i \in DOMAIN patches :
         /\ patches[i].id = id /\ Revertible(patches[i])
         /\ target' = [x \in Offsets |->
              IF x \in Span(patches[i]) THEN OldByte(patches[i], x) ELSE target[x]]
         /\ patches' = [patches EXCEPT ![i].status = "REVERTED"]
         /\ tangled' = tangled \cup {x \in Span(patches[i]) : \E j \in Applied(patches, x) : j > i}
    /\ missed' = missed \cup {x \in Offsets : target'[x] # target[x]}
    /\ UNCHANGED <<initialized, watching, hot, next_patch_id, source, cache, events, base>>

-----------------------------------------------------------------------------
\* Changes of source files.

\* The offsets of the target at which the objects old and new of s differ.
Changed(s, old, new) ==
    {x \in Offsets : \E f \in DOMAIN Functions[s] : \E k \in DOMAIN new[f] :
        x = Place(s, f) + k - 1 /\ old[f][k] # new[f][k]}

\* The results of e9_binaryen_diff_objects(), when it succeeds: the functions that
\* changed, in any order.
e9_binaryen_diff_objects(s, old, new) ==
    LET D == {f \in DOMAIN Functions[s] : old[f] # new[f]}
    IN  {q \in [1 .. Cardinality(D) -> D] : \A i, j \in DOMAIN q : q[i] = q[j] => i = j}

\* Mutant of generate_patches: the test for room is off by one.
generate_patchesPastEnd(s, old, new, diff) ==
    [i \in {k \in DOMAIN diff : Len(patches) + k <= MAX_PATCHES + 1} |->
        [id |-> next_patch_id + i, at |-> Place(s, diff[i]), old |-> old[diff[i]],
         new |-> new[diff[i]], status |-> "PENDING"]]

\* A patch for each function of diff, as many as the table has room for.
generate_patches(s, old, new, diff) ==
    [i \in {k \in DOMAIN diff : Len(patches) + k <= MAX_PATCHES} |->
        [id |-> next_patch_id + i, at |-> Place(s, diff[i]), old |-> old[diff[i]],
         new |-> new[diff[i]], status |-> "PENDING"]]

\* Mutant of UpdateCache: the new object is not cached once patches came of it.
UpdateCacheUnpatched(s) ==
    cache' = IF patches' = patches THEN [cache EXCEPT ![s] = source[s]] ELSE cache

\* rename(new_obj, old_obj)
UpdateCache(s) == cache' = [cache EXCEPT ![s] = source[s]]

FirstCompile(s) ==
    /\ cache[s] = None
    /\ missed' = missed \cup {x \in Offsets : \E f \in DOMAIN Functions[s] :
                      \E k \in DOMAIN source[s][f] :
                          x = Place(s, f) + k - 1 /\ target[x] # source[s][f][k]}
    /\ UNCHANGED <<target, patches, next_patch_id, tangled>>
    /\ UpdateCache(s)

\* The objects cannot be compared.  The new one is cached all the same.
DiffFails(s) ==
    /\ cache[s] # None
    /\ missed' = missed \cup Changed(s, cache[s], source[s])
    /\ UNCHANGED <<target, patches, next_patch_id, tangled>>
    /\ UpdateCache(s)

\* The new object is cached, then the patches are applied if hot patching is enabled,
\* with any that are still pending.
DiffSucceeds(s) ==
    /\ cache[s] # None
    /\ \E diff \in e9_binaryen_diff_objects(s, cache[s], source[s]) :
       LET new == generate_patches(s, cache[s], source[s], diff)
           ps == patches \o new
           I == {i \in DOMAIN ps : ps[i].status = "PENDING"}
       IN  /\ next_patch_id + Len(new) <= MaxId /\ next_patch_id' = next_patch_id + Len(new)
           /\ IF hot /\ new # <<>>
              THEN /\ apply_patch_internal(ps, I)
                   /\ missed' = (missed \cup Changed(s, cache[s], source[s]))
                                  \ UNION {Span(ps[i]) : i \in {j \in I : InBounds(ps[j])}}
              ELSE /\ patches' = ps /\ UNCHANGED <<target, tangled>>
                   /\ missed' = missed \cup Changed(s, cache[s], source[s])
    /\ UpdateCache(s)

CompileFails(s) ==
    UNCHANGED <<target, patches, next_patch_id, cache, tangled, missed>>

handle_file_change(s) ==
    /\ FirstCompile(s) \/ DiffFails(s) \/ DiffSucceeds(s) \/ CompileFails(s)
    /\ UNCHANGED <<initialized, watching, hot, source, base>>

\* One event of poll_inotify().
e9_livereload_poll ==
    /\ initialized /\ watching /\ events # <<>>
    /\ handle_file_change(Head(events))
    /\ events' = Tail(events)

e9_livereload_reload_file(s) ==
    /\ initialized
    /\ handle_file_change(s)
    /\ UNCHANGED events

\* The user saves a source file (external); the kernel queues an event, unless the last
\* one that is queued is the same.
Save(s, o) ==
    /\ source' = [source EXCEPT ![s] = o]
    /\ events' = IF ~watching \/ (events # <<>> /\ events[Len(events)] = s)
                 THEN events ELSE Append(events, s)
    /\ Len(events') <= MaxEvents
    /\ UNCHANGED <<initialized, watching, hot, target, patches, next_patch_id, cache,
                   base, tangled, missed>>

-----------------------------------------------------------------------------
\* Lifecycle.

\* When one of its steps fails the state is that before the call.
e9_livereload_init(enable) ==
    /\ ~initialized
    /\ initialized' = TRUE /\ watching' = FALSE /\ hot' = enable
    /\ patches' = <<>> /\ next_patch_id' = 0
    /\ base' = target /\ tangled' = {}
    /\ UNCHANGED <<target, source, cache, events, missed>>

e9_livereload_watch ==
    /\ initialized /\ ~watching
    /\ watching' = TRUE
    /\ UNCHANGED <<initialized, hot, target, patches, next_patch_id, source, cache,
                   events, base, tangled, missed>>

\* Events not yet read are lost with the descriptor.
e9_livereload_unwatch ==
    /\ watching
    /\ watching' = FALSE /\ events' = <<>>
    /\ UNCHANGED <<initialized, hot, target, patches, next_patch_id, source, cache,
                   base, tangled, missed>>

\* The table is lost; the target and the cache are files.
e9_livereload_shutdown ==
    /\ initialized
    /\ initialized' = FALSE /\ watching' = FALSE /\ events' = <<>> /\ hot' = FALSE
    /\ patches' = <<>> /\ next_patch_id' = 0
    /\ UNCHANGED <<target, source, cache, base, tangled, missed>>

Next ==
    \/ \E enable \in BOOLEAN : e9_livereload_init(enable)
    \/ e9_livereload_watch \/ e9_livereload_unwatch \/ e9_livereload_shutdown
    \/ e9_livereload_poll
    \/ \E s \in Sources : e9_livereload_reload_file(s)
    \/ \E s \in Sources : \E o \in Objects[s] : Save(s, o)
    \/ \E r \in Requests : e9_livereload_apply_patch(r)
    \/ \E id \in 1 .. MaxId : e9_livereload_revert_patch(id)

Spec == Init /\ [][Next]_vars

-----------------------------------------------------------------------------
\* Properties.

Status == {"PENDING", "APPLIED", "FAILED", "REVERTED"}

Patch == [id : Nat, at : Int, old : Seq(Byte \cup {Garbage}), new : Seq(Byte), status : Status]

\* The table of patches never has more entries than MAX_PATCHES, although a change of one
\* file makes several, and everything else is of its type.
TypeOK ==
    /\ initialized \in BOOLEAN /\ watching \in BOOLEAN /\ hot \in BOOLEAN
    /\ target \in [Offsets -> Byte] /\ base \in [Offsets -> Byte]
    /\ patches \in Seq(Patch) /\ Len(patches) <= MAX_PATCHES /\ next_patch_id \in Nat
    /\ source \in [Sources -> AllObjects]
    /\ cache \in [Sources -> AllObjects \cup {None}]
    /\ \A s \in Sources : source[s] \in Objects[s] /\ cache[s] \in Objects[s] \cup {None}
    /\ events \in Seq(Sources) /\ tangled \subseteq Offsets /\ missed \subseteq Offsets

\* The target is what the patches that are applied make of it, the later ones of the
\* table over the earlier ones, at every offset that is not tangled: that is, where patches
\* were reverted in the reverse order, and each was applied over the bytes that it had
\* saved.  (A patch of a change of a source saves those of the old object, which the target
\* need not have.)  What else failed, is pending or was lost in a restart does not matter.
Replay ==
    initialized => \A x \in Offsets \ tangled : Shows(patches, base, Len(patches) + 1, x, target[x])

\* Every byte of the target is that of the cached object of its source, unless a change of
\* it was missed: the patches of handle_file_change() for one change after the other add up.
Tracks ==
    \A s \in Sources : cache[s] # None =>
        \A f \in DOMAIN Functions[s] : \A k \in DOMAIN cache[s][f] :
            LET x == Place(s, f) + k - 1
            IN  x \in Offsets \ missed => target[x] = cache[s][f][k]

\* The inductive invariant behind Replay: an applied patch was in bounds and saved what the
\* patches before it show, and no patch is pending while hot patching is enabled.
Saved ==
    /\ ~initialized => patches = <<>>
    /\ \A i \in DOMAIN patches :
         /\ Len(patches[i].old) = Len(patches[i].new)
         /\ hot => patches[i].status # "PENDING"
         /\ patches[i].status = "APPLIED" => InBounds(patches[i]) /\ patches[i].old \in Seq(Byte)
    /\ \A x \in Offsets \ tangled : \A i \in Applied(patches, x) :
         Shows(patches, base, i, x, OldByte(patches[i], x))

IInv == TypeOK /\ Saved /\ Replay

\* What Tracks takes from the linker: functions of two sources do not overlap.
SourcesApart ==
    \A s, t \in Sources : s # t =>
        \A o \in Objects[s] : \A p \in Objects[t] :
            \A f \in DOMAIN Functions[s] : \A g \in DOMAIN Functions[t] :
                \/ Place(s, f) + Len(o[f]) <= Place(t, g)
                \/ Place(t, g) + Len(p[g]) <= Place(s, f)

====
