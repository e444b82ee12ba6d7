------------------------------ MODULE Mapping ------------------------------
(***************************************************************************)
(* From the virtual address layout to the file (e9mapping.cpp): the        *)
(* trampolines are cut into mappings of MAPPING_SIZE bytes, mappings that  *)
(* do not overlap are merged (physical page grouping, with a radix tree of *)
(* occupancy bitmaps), shrunk and flattened into buffers.                  *)
(* A byte is identified by the address at which the program expects it.    *)
(***************************************************************************)
EXTENDS Integers, Sequences, SequencesExt

CONSTANTS
    PAGE_SIZE, MAPPING_SIZE,    \* granularity, and size of a mapping
    KEY_BITS,                   \* bits of an occupancy bitmap
    BRANCH_BITS,                \* bits of a digit of the radix tree
    Layouts                     \* the layouts under consideration

UNIT_SIZE == MAPPING_SIZE \div KEY_BITS
BRANCH_MAX == 2^BRANCH_BITS

\* An allocation: a trampoline or contents (T), or just a reserved range.
Alloc == [lb : Int, ub : Int, T : BOOLEAN, prot : SUBSET {"r", "w", "x"}, preload : BOOLEAN]

Extent(a) == a.lb..(a.ub - 1)

ASSUME MappingAssumption ==
    /\ PAGE_SIZE \in Nat \ {0} /\ MAPPING_SIZE % PAGE_SIZE = 0
    /\ KEY_BITS \in Nat \ {0} /\ MAPPING_SIZE % KEY_BITS = 0 /\ UNIT_SIZE > 0
    /\ BRANCH_BITS \in Nat \ {0}
    /\ \A L \in Layouts : L \subseteq Alloc /\ \A a, b \in L :
          a.lb < a.ub /\ (a # b => Extent(a) \cap Extent(b) = {})

VARIABLES
    allocs,     \* the allocator
    step,       \* what emit does next
    mappings,   \* mappings to be merged
    tree,       \* the radix tree
    groups      \* the groups collected from the tree

mvars == <<allocs, step, mappings, tree, groups>>

\* A byte in a buffer: the int3 that fills it, or the one expected at some address.
Fill == {}
Byte(x) == {x}

-----------------------------------------------------------------------------
\* Mappings.

\* The allocations from mapping->i up to the end of the mapping.
From(m) == {a \in allocs : m.i <= a.lb /\ a.lb < m.base + m.size}
Trampolines(m) == {a \in From(m) : a.T}

Lower(a, m) == IF a.lb < m.base THEN 0 ELSE a.lb - m.base
Upper(a, m) == IF a.ub > m.base + m.size THEN m.size ELSE a.ub - m.base

LeastOf(S) == CHOOSE x \in S : \A y \in S : x <= y
GreatestOf(S) == CHOOSE x \in S : \A y \in S : y <= x

calculateBounds(m) ==
    [lb |-> LeastOf({Lower(a, m) : a \in Trampolines(m)}),
     ub |-> GreatestOf({Upper(a, m) : a \in Trampolines(m)})]

calculateProtections(m) == UNION {a.prot : a \in Trampolines(m)}

\* Mutant of calculatePreload: only the first allocation is looked at.
calculatePreloadFirst(m) == \E a \in Trampolines(m) : a.lb = m.i /\ a.preload

calculatePreload(m) == \E a \in Trampolines(m) : a.preload

\* The bits that an allocation sets in the bitmap of a mapping.
KeyOf(a, m) ==
    LET END == m.base + MAPPING_SIZE
        prologue == Lower(a, m) \div UNIT_SIZE
        overlap == (a.ub - m.base + UNIT_SIZE - 1) \div UNIT_SIZE
        postscript == IF a.ub >= END THEN 0 ELSE (END - a.ub) \div UNIT_SIZE
    IN  IF a.lb < m.base /\ a.ub < END
        THEN 0..(overlap - 1)
        ELSE prologue..(KEY_BITS - 1 - postscript)

\* Mutant of calculateKey: a unit that is partly used counts as free.
calculateKeyInner(m) ==
    UNION {(Lower(a, m) \div UNIT_SIZE)..((Upper(a, m) \div UNIT_SIZE) - 1) :
              a \in Trampolines(m)}

calculateKey(m) == UNION {KeyOf(a, m) : a \in Trampolines(m)}

allocMapping(i, base) ==
    [base |-> base, size |-> MAPPING_SIZE, i |-> i,
     lb |-> 0, ub |-> MAPPING_SIZE, prot |-> {}, preload |-> FALSE]

saveMapping(m) ==
    [m EXCEPT !.lb = calculateBounds(m).lb, !.ub = calculateBounds(m).ub,
              !.prot = calculateProtections(m), !.preload = calculatePreload(m)]

\* Every aligned range with a byte of a trampoline has a mapping, which begins with
\* the first trampoline that reaches into the range.
Build ==
    LET Ts    == {a \in allocs : a.T}
        Bases == {x - (x % MAPPING_SIZE) : x \in UNION {Extent(a) : a \in Ts}}
        First(b) == LeastOf({a.lb : a \in {c \in Ts : c.ub > b /\ c.lb < b + MAPPING_SIZE}})
    IN  [k \in 1..Cardinality(Bases) |->
            LET b == SetToSortSeq(Bases, <)[k] IN saveMapping(allocMapping(First(b), b))]

-----------------------------------------------------------------------------
\* The radix tree.  A leaf has a list of groups with the same bitmap; a group is a
\* list of mappings (mapping->merged).

NULL == [kind |-> "null"]
Leaf(key, list) == [kind |-> "leaf", key |-> key, mappings |-> list]
Inner(key, shift, child) == [kind |-> "inner", key |-> key, shift |-> shift, child |-> child]

Digits == 0..(BRANCH_MAX - 1)

\* index(): the digit of a bitmap that a node branches on.
index(shift, key) ==
    LET bit(b) == IF BRANCH_BITS * shift + b \in key THEN 2^b ELSE 0
    IN  FoldLeft(+, 0, [b \in 1..BRANCH_BITS |-> bit(b - 1)])

\* Mutant of fix: the bits that are in some child.
fixAny(child) == UNION {child[d].key : d \in {e \in Digits : child[e] # NULL}}

\* fix(): the bits that are in all children.
fix(child) ==
    {b \in 0..(KEY_BITS - 1) : \A d \in Digits : child[d] # NULL => b \in child[d].key}

RECURSIVE find(_, _)
find(node, key) ==
    CASE node.kind = "null" -> NULL
      [] node.kind = "leaf" -> IF node.key = key THEN node ELSE NULL
      [] node.kind = "inner" -> find(node.child[index(node.shift, key)], key)

\* The first leaf, in the order of the digits, whose bitmap is disjoint from key;
\* a subtree is skipped when all of its bitmaps have a bit of key.
RECURSIVE findAnyComplement(_, _)
findAnyComplement(node, key) ==
    CASE node.kind = "null" -> NULL
      [] node.kind = "leaf" -> IF node.key \cap key = {} THEN node ELSE NULL
      [] node.kind = "inner" ->
            LET Result(d) == IF node.child[d] = NULL \/ node.child[d].key \cap key # {}
                             THEN NULL ELSE findAnyComplement(node.child[d], key)
                Hits == {d \in Digits : Result(d) # NULL}
            IN  IF Hits = {} THEN NULL ELSE Result(LeastOf(Hits))

RECURSIVE insert(_, _, _)
insert(node, key, group) ==
    CASE node.kind = "null" -> Leaf(key, <<group>>)
      [] node.kind = "leaf" ->
            IF node.key = key
            THEN Leaf(key, <<group>> \o node.mappings)
            ELSE LET diff  == (node.key \ key) \cup (key \ node.key)
                     shift == LeastOf(diff) \div BRANCH_BITS
                     child == [d \in Digits |->
                                  CASE d = index(shift, key) -> Leaf(key, <<group>>)
                                    [] d = index(shift, node.key) -> node
                                    [] OTHER -> NULL]
                 IN  Inner(fix(child), shift, child)
      [] node.kind = "inner" ->
            LET d == index(node.shift, key)
                child == [node.child EXCEPT ![d] = insert(@, key, group)]
            IN  Inner(fix(child), node.shift, child)

\* An inner node with one child left is replaced by it.  With more, the bits of the
\* node itself are not recomputed.
RECURSIVE removeLeaf(_, _)
removeLeaf(node, key) ==
    CASE node.kind = "null" -> NULL
      [] node.kind = "leaf" -> IF node.key = key THEN NULL ELSE node
      [] node.kind = "inner" ->
            LET d == index(node.shift, key)
                child == [node.child EXCEPT ![d] = removeLeaf(@, key)]
                Rest == {e \in Digits : child[e] # NULL}
            IN  CASE child[d] # NULL -> Inner(fix(child), node.shift, child)
                  [] child[d] = NULL /\ Cardinality(Rest) >= 2 ->
                        Inner(node.key, node.shift, child)
                  [] OTHER -> IF Rest = {} THEN NULL ELSE child[CHOOSE e \in Rest : TRUE]

\* A leaf with another list of groups: what an assignment to leaf.mappings does.
RECURSIVE setMappings(_, _, _)
setMappings(node, key, list) ==
    CASE node.kind = "null" -> NULL
      [] node.kind = "leaf" -> IF node.key = key THEN Leaf(key, list) ELSE node
      [] node.kind = "inner" ->
            Inner(node.key, node.shift,
                  [node.child EXCEPT ![index(node.shift, key)] = setMappings(@, key, list)])

\* A mapping is put next to the groups with the same bitmap, or else merged with a
\* group that has a disjoint one, or else becomes a leaf.
merge(t, key, m) ==
    LET same == find(t, key)
        cmp  == findAnyComplement(t, key)
    IN  CASE same # NULL -> setMappings(t, key, <<(<<m>>)>> \o same.mappings)
          [] same = NULL /\ cmp # NULL ->
                LET rest == Tail(cmp.mappings)
                    t1 == IF rest = <<>> THEN removeLeaf(t, cmp.key)
                          ELSE setMappings(t, cmp.key, rest)
                IN  insert(t1, key \cup cmp.key, <<m>> \o Head(cmp.mappings))
          [] OTHER -> insert(t, key, <<m>>)

RECURSIVE Leaves(_)
Leaves(node) ==
    CASE node.kind = "null" -> <<>>
      [] node.kind = "leaf" -> <<node>>
      [] node.kind = "inner" ->
            FlattenSeq([d \in 1..BRANCH_MAX |-> Leaves(node.child[d - 1])])

collectMappings(node) == FlattenSeq([k \in 1..Len(Leaves(node)) |-> Leaves(node)[k].mappings])

\* Mutant of shrinkMapping: only the first mapping of the group is looked at.
shrinkMappingFirst(g) ==
    LET lb   == g[1].lb - (g[1].lb % PAGE_SIZE)
        size == g[1].ub + ((-g[1].ub) % PAGE_SIZE) - lb
    IN  IF g[1].size = PAGE_SIZE \/ size >= g[1].size
        THEN g
        ELSE [k \in DOMAIN g |-> [g[k] EXCEPT !.base = @ + lb, !.size = size,
                                              !.lb = @ - lb, !.ub = @ - lb]]

\* Mutant of shrinkMapping: the lower end is not rounded to a page.
shrinkMappingUnaligned(g) ==
    LET lb   == LeastOf({g[k].lb : k \in DOMAIN g})
        size == g[1].size - lb
    IN  IF g[1].size = PAGE_SIZE \/ size >= g[1].size
        THEN g
        ELSE [k \in DOMAIN g |-> [g[k] EXCEPT !.base = @ + lb, !.size = size,
                                              !.lb = @ - lb, !.ub = @ - lb]]

\* The pages at both ends that no mapping of the group uses are cut off.
shrinkMapping(g) ==
    LET lb0  == LeastOf({g[k].lb : k \in DOMAIN g})
        ub0  == GreatestOf({g[k].ub : k \in DOMAIN g})
        lb   == lb0 - (lb0 % PAGE_SIZE)
        ub   == IF ub0 % PAGE_SIZE # 0 THEN ub0 + PAGE_SIZE - (ub0 % PAGE_SIZE) ELSE ub0
        size == ub - lb
    IN  IF g[1].size = PAGE_SIZE \/ size >= g[1].size
        THEN g
        ELSE [k \in DOMAIN g |-> [g[k] EXCEPT !.base = @ + lb, !.size = size,
                                              !.lb = @ - lb, !.ub = @ - lb]]

\* The mappings of a group are copied into the same buffer, the last one on top.
flattenMapping(g) ==
    LET Has(k, o) == \E a \in Trampolines(g[k]) : g[k].base + o \in Extent(a)
    IN  [o \in 0..(g[1].size - 1) |->
            IF \E k \in DOMAIN g : Has(k, o)
            THEN Byte(g[GreatestOf({k \in DOMAIN g : Has(k, o)})].base + o)
            ELSE Fill]

\* pushBounds(): a run of trampolines, rounded to pages.
pushBounds(acc) ==
    IF acc.lb = acc.ub
    THEN acc.out
    ELSE Append(acc.out,
                [lb |-> acc.lb - (acc.lb % PAGE_SIZE),
                 ub |-> IF acc.ub % PAGE_SIZE # 0
                        THEN acc.ub + PAGE_SIZE - (acc.ub % PAGE_SIZE) ELSE acc.ub])

\* Mutant of getVirtualBounds: a reserved range does not split the mapping.
getVirtualBoundsWhole(m) ==
    LET b == calculateBounds(m) IN pushBounds([lb |-> b.lb, ub |-> b.ub, out |-> <<>>])

\* The parts of a mapping to be mapped: a reserved range splits it.
getVirtualBounds(m) ==
    LET Below(a, b) == a.lb < b.lb
        Add(acc, a) ==
            CASE ~a.T -> [lb |-> 0, ub |-> 0, out |-> pushBounds(acc)]
              [] a.T /\ acc.lb = acc.ub ->
                    [acc EXCEPT !.lb = Lower(a, m), !.ub = Upper(a, m)]
              [] OTHER -> [acc EXCEPT !.ub = Upper(a, m)]
        none == [lb |-> 0, ub |-> 0, out |-> <<>>]
    IN  pushBounds(FoldLeft(Add, none, SetToSortSeq(From(m), Below)))

-----------------------------------------------------------------------------
\* The steps of parseEmit() from the layout to the groups.

MappingInit ==
    /\ step = "build" /\ mappings = <<>> /\ tree = NULL /\ groups = <<>>

buildMappings ==
    /\ step = "build"
    /\ step' = "merge"
    /\ mappings' = Build
    /\ UNCHANGED <<allocs, tree, groups>>

\* optimizeMappings(): each mapping in turn, then all groups are collected and shrunk.
optimizeMerge ==
    /\ step = "merge" /\ mappings # <<>>
    /\ tree' = merge(tree, calculateKey(Head(mappings)), Head(mappings))
    /\ mappings' = Tail(mappings)
    /\ UNCHANGED <<allocs, step, groups>>

optimizeShrink ==
    /\ step = "merge" /\ mappings = <<>>
    /\ step' = "emit"
    /\ LET collected == collectMappings(tree)
       IN  groups' = [k \in DOMAIN collected |-> shrinkMapping(collected[k])]
    /\ tree' = NULL
    /\ UNCHANGED <<allocs, mappings>>

MappingNext == buildMappings \/ optimizeMerge \/ optimizeShrink

-----------------------------------------------------------------------------
\* Grouping, as the radix tree performs it.

\* A mapping before it is shrunk, and the offsets at which it has bytes.
Abs(m) ==
    LET base == m.base - (m.base % MAPPING_SIZE)
    IN  [base |-> base,
         occ  |-> {x - base : x \in UNION {Extent(a) : a \in Trampolines(m)}}
                      \cap 0..(MAPPING_SIZE - 1)]

AbsGroups(gs) == {{Abs(g[k]) : k \in DOMAIN g} : g \in ToSet(gs)}

G == INSTANCE Grouping WITH
        UNIT   <- UNIT_SIZE,
        todo   <- CASE step = "build" -> {Abs(m) : m \in ToSet(Build)}
                    [] step = "merge" -> {Abs(m) : m \in ToSet(mappings)}
                    [] OTHER -> {},
        groups <- CASE step = "build" -> {}
                    [] step = "merge" -> AbsGroups(collectMappings(tree))
                    [] OTHER -> AbsGroups(groups)

\* Mappings are grouped as Grouping says: none is lost or grouped twice, the bytes of
\* a group are disjoint, and the radix tree finds a group with room whenever there is
\* one.  (The key of a node from which remove() took a leaf may lack bits that all of
\* the leaves left have; a search then looks into a subtree in vain.)
Groups == G!Spec

=============================================================================
