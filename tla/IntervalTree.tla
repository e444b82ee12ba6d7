---------------------------- MODULE IntervalTree ----------------------------
(***************************************************************************)
(* The allocator of e9alloc.cpp: a red-black tree of allocated intervals,  *)
(* ordered by address, each node augmented with the bounds of its sub-tree *)
(* and with the largest free gap inside it, which insert() uses to prune   *)
(* its search.  The heap of nodes is a record of functions from node names *)
(* to fields; NIL is nullptr.                                              *)
(***************************************************************************)
EXTENDS Integers, FiniteSets, Sequences

CONSTANTS
    Nodes,            \* the nodes, each named by the address its interval starts at
    NIL,              \* nullptr
    PAGE_SIZE, TRAMPOLINE_MAX,
    RELATIVE_MIN, RELATIVE_MAX, ABSOLUTE_MIN, ABSOLUTE_MAX,
    Requests, Reservations,
    MaxNodes,         \* bound: live intervals at any one time
    Target            \* 0x70C00000 in allocate(): -Oorder tries below it first

VARIABLE t   \* the tree: its root and the fields of every node

ASSUME NodesAssumption == Nodes \subseteq Int /\ NIL \notin Nodes

RED == "red"
BLACK == "black"

EmptyTree ==
    [root |-> NIL,
     left |-> [n \in Nodes |-> NIL], right |-> [n \in Nodes |-> NIL],
     parent |-> [n \in Nodes |-> NIL], color |-> [n \in Nodes |-> BLACK],
     alb |-> [n \in Nodes |-> 0], aub |-> [n \in Nodes |-> 0],
     T |-> [n \in Nodes |-> FALSE],
     lb |-> [n \in Nodes |-> 0], ub |-> [n \in Nodes |-> 0],
     gap |-> [n \in Nodes |-> 0]]

Max2(a, b) == IF a >= b THEN a ELSE b
Min2(a, b) == IF a <= b THEN a ELSE b

\* PAGE_SIZE has type size_t, so that addresses below 0 are divided as unsigned
\* numbers: page numbers are rounded down and offsets are never negative.
Page(p)   == p \div PAGE_SIZE
Offset(p) == p % PAGE_SIZE

-----------------------------------------------------------------------------
\* The augmentation and the rotations.

\* Recompute the augmentation of one node from its children.
Fix(s, n) ==
    LET l == s.left[n]
        r == s.right[n]
        lgap == IF l = NIL THEN 0 ELSE Max2(s.gap[l], s.alb[n] - s.ub[l])
        rgap == IF r = NIL THEN 0 ELSE Max2(s.gap[r], s.lb[r] - s.aub[n])
    IN  IF n = NIL THEN s
        ELSE [s EXCEPT
                !.lb[n] = IF l = NIL THEN s.alb[n] ELSE Min2(s.lb[l], s.alb[n]),
                !.ub[n] = IF r = NIL THEN s.aub[n] ELSE Max2(s.ub[r], s.aub[n]),
                !.gap[n] = Max2(lgap, rgap)]

\* The loop that fixes a node and every ancestor of it.
RECURSIVE FixPath(_, _)
FixPath(s, n) == IF n = NIL THEN s ELSE FixPath(Fix(s, n), s.parent[n])

\* Make m the child that n was of p (or the root).
Replace(s, p, n, m) ==
    IF p = NIL THEN [s EXCEPT !.root = m]
    ELSE IF s.left[p] = n THEN [s EXCEPT !.left[p] = m]
    ELSE [s EXCEPT !.right[p] = m]

SetParent(s, n, p) == IF n = NIL THEN s ELSE [s EXCEPT !.parent[n] = p]

\* Mutant: the node that moves down keeps its augmentation.
RotateLeftStale(s, n) ==
    LET tmp == s.right[n]
        p   == s.parent[n]
        s1  == SetParent([s EXCEPT !.right[n] = s.left[tmp]], s.left[tmp], n)
        s2  == Replace([s1 EXCEPT !.parent[tmp] = p], p, n, tmp)
        s3  == Fix([s2 EXCEPT !.left[tmp] = n, !.parent[n] = tmp], tmp)
    IN  Fix(s3, p)

RotateLeft(s, n) ==
    LET tmp == s.right[n]
        p   == s.parent[n]
        s1  == Fix(SetParent([s EXCEPT !.right[n] = s.left[tmp]], s.left[tmp], n), n)
        s2  == Replace([s1 EXCEPT !.parent[tmp] = p], p, n, tmp)
        s3  == Fix([s2 EXCEPT !.left[tmp] = n, !.parent[n] = tmp], tmp)
    IN  Fix(s3, p)

RotateRight(s, n) ==
    LET tmp == s.left[n]
        p   == s.parent[n]
        s1  == Fix(SetParent([s EXCEPT !.left[n] = s.right[tmp]], s.right[tmp], n), n)
        s2  == Replace([s1 EXCEPT !.parent[tmp] = p], p, n, tmp)
        s3  == Fix([s2 EXCEPT !.right[tmp] = n, !.parent[n] = tmp], tmp)
    IN  Fix(s3, p)

\* The code is written out once for each side; here the side is an argument.
Rotate(s, n, side) == IF side = "left" THEN RotateLeft(s, n) ELSE RotateRight(s, n)
Other(side)        == IF side = "left" THEN "right" ELSE "left"
Child(s, n, side)  == IF side = "left" THEN s.left[n] ELSE s.right[n]

IsRed(s, n)   == n # NIL /\ s.color[n] = RED
IsBlack(s, n) == n = NIL \/ s.color[n] = BLACK
Paint(s, n, c) == IF n = NIL THEN s ELSE [s EXCEPT !.color[n] = c]

\* The while loop of rebalanceInsert().
RECURSIVE Recolor(_, _)
Recolor(s, n) ==
    LET parent  == s.parent[n]
        gparent == s.parent[parent]
        side    == IF parent = s.left[gparent] THEN "left" ELSE "right"
        uncle   == Child(s, gparent, Other(side))
        inner   == Child(s, parent, Other(side)) = n
        s1      == IF inner THEN Rotate(s, parent, side) ELSE s
        top     == IF inner THEN n ELSE parent
        low     == IF inner THEN parent ELSE n
    IN  IF ~IsRed(s, parent) THEN Paint(s, s.root, BLACK)
        ELSE IF IsRed(s, uncle)
             THEN Recolor(Paint(Paint(Paint(s, uncle, BLACK), parent, BLACK),
                                gparent, RED), gparent)
             ELSE Recolor(Rotate(Paint(Paint(s1, top, BLACK), gparent, RED),
                                 gparent, Other(side)), low)

\* Mutant: the augmentation is repaired, the colours are not.
RebalanceInsertFixOnly(s, n) == FixPath(s, n)

RebalanceInsert(s, n) == Recolor(FixPath(s, n), n)

\* rebalanceRemove(): n (possibly NIL) is one black node short under parent.
RECURSIVE RebalanceRemove(_, _, _)
RebalanceRemove(s, parent, n) ==
    LET side  == IF s.left[parent] = n THEN "left" ELSE "right"
        far   == Other(side)
        sib0  == Child(s, parent, far)
        s1    == IF IsRed(s, sib0)
                 THEN Rotate(Paint(Paint(s, sib0, BLACK), parent, RED), parent, side)
                 ELSE s
        sib1  == Child(s1, parent, far)
        s2    == IF IsBlack(s1, Child(s1, sib1, far))
                 THEN Rotate(Paint(Paint(s1, Child(s1, sib1, side), BLACK), sib1, RED),
                             sib1, far)
                 ELSE s1
        sib2  == Child(s2, parent, far)
        s3    == Paint(Paint(Paint(s2, sib2, s2.color[parent]), parent, BLACK),
                       Child(s2, sib2, far), BLACK)
        s4    == Rotate(s3, parent, side)
    IN  IF IsRed(s, n) \/ n = s.root THEN Paint(s, n, BLACK)
        ELSE IF IsBlack(s1, Child(s1, sib1, side)) /\ IsBlack(s1, Child(s1, sib1, far))
             THEN RebalanceRemove(Paint(s1, sib1, RED), s1.parent[parent], parent)
             ELSE Paint(s4, s4.root, BLACK)

RECURSIVE Leftmost(_, _)
Leftmost(s, n) == IF s.left[n] = NIL THEN n ELSE Leftmost(s, s.left[n])

\* remove(): a node with two children is replaced by its in-order successor.
Remove(s, old) ==
    IF s.left[old] = NIL \/ s.right[old] = NIL
    THEN LET child == IF s.left[old] = NIL THEN s.right[old] ELSE s.left[old]
             p     == s.parent[old]
             s1    == Replace(SetParent(s, child, p), p, old, child)
             s2    == FixPath(s1, p)
         IN  IF s.color[old] = BLACK THEN RebalanceRemove(s2, p, child) ELSE s2
    ELSE LET n     == Leftmost(s, s.right[old])
             child == s.right[n]
             p     == s.parent[n]
             s1    == Fix(Replace(SetParent(s, child, p), p, n, child), p)
             at    == IF p = old THEN n ELSE p
             s2    == [s1 EXCEPT !.parent[n] = s1.parent[old],
                                 !.left[n]   = s1.left[old],
                                 !.right[n]  = s1.right[old],
                                 !.color[n]  = s1.color[old]]
             s3    == Fix(Replace(s2, s.parent[old], old, n), s.parent[old])
             s4    == SetParent(SetParent(s3, s3.left[old], n), s3.right[old], n)
             s5    == FixPath(s4, at)
         IN  IF s.color[n] = BLACK THEN RebalanceRemove(s5, at, child) ELSE s5

-----------------------------------------------------------------------------
\* Searching for room.  A slot is where the new node goes: under which parent,
\* on which side, and the interval it covers.

NoSlot == [found |-> FALSE]

\* Mutant: the offset to the next page is forgotten.
NewNodeAnywhere(parent, side, lb, ub, size, flags) ==
    LET LB == IF ~flags.right /\ (flags.lb \/ ~flags.ub) THEN lb ELSE ub - size
    IN  [found |-> TRUE, parent |-> parent, side |-> side, lb |-> LB, ub |-> LB + size]

\* Place size bytes inside [lb, ub): at its low end unless the flags say the
\* high end, moved to the next page boundary if they may not cross one.
NewNode(parent, side, lb, ub, size, flags) ==
    LET alloc_left  == ~flags.right /\ (flags.lb \/ ~flags.ub)
        LB0         == IF alloc_left THEN lb ELSE ub - size
        UB0         == LB0 + size
        spans_pages == Page(LB0) # Page(UB0 - 1)
        offset      == IF ~(flags.same_page /\ spans_pages) THEN 0
                       ELSE IF alloc_left THEN PAGE_SIZE - Offset(lb)
                       ELSE -Offset(ub)
        LB          == LB0 + offset
        UB          == UB0 + offset
    IN  IF LB < lb \/ UB > ub THEN NoSlot
        ELSE [found |-> TRUE, parent |-> parent, side |-> side, lb |-> LB, ub |-> UB]

RECURSIVE Insert(_, _, _, _, _, _)

\* Mutant: a gap of exactly the right size is not used.
InsertLeftChildStrict(s, root, lb, ub0, size, flags) ==
    LET ub == Min2(ub0, s.alb[root])
        fl == [flags EXCEPT !.ub = s.alb[root] - ub < PAGE_SIZE]
    IN  IF size >= ub - lb THEN NoSlot
        ELSE IF s.left[root] = NIL THEN NewNode(root, "left", lb, ub, size, fl)
        ELSE Insert(s, s.left[root], lb, ub, size, fl)

InsertLeftChild(s, root, lb, ub0, size, flags) ==
    LET ub == Min2(ub0, s.alb[root])
        fl == [flags EXCEPT !.ub = s.alb[root] - ub < PAGE_SIZE]
    IN  IF size > ub - lb THEN NoSlot
        ELSE IF s.left[root] = NIL THEN NewNode(root, "left", lb, ub, size, fl)
        ELSE Insert(s, s.left[root], lb, ub, size, fl)

InsertRightChild(s, root, lb0, ub, size, flags) ==
    LET lb == Max2(lb0, s.aub[root])
        fl == [flags EXCEPT !.lb = lb - s.aub[root] < PAGE_SIZE]
    IN  IF size > ub - lb THEN NoSlot
        ELSE IF s.right[root] = NIL THEN NewNode(root, "right", lb, ub, size, fl)
        ELSE Insert(s, s.right[root], lb, ub, size, fl)

\* First inside the sub-tree, if its largest gap is large enough, then above
\* the sub-tree, then below it.
Insert(s, root, lb, ub, size, flags) ==
    LET rlb == Max2(lb, s.lb[root])
        rub == Min2(ub, s.ub[root])
        in1 == IF size <= s.gap[root]
               THEN InsertRightChild(s, root, rlb, rub, size, flags) ELSE NoSlot
        in2 == IF ~in1.found /\ size <= s.gap[root]
               THEN InsertLeftChild(s, root, rlb, rub, size, flags) ELSE in1
        hi  == IF ~in2.found /\ ub > s.ub[root]
               THEN InsertRightChild(s, root, Max2(lb, s.ub[root]), ub, size, flags)
               ELSE in2
    IN  IF size > ub - lb THEN NoSlot
        ELSE IF root = NIL THEN NewNode(NIL, "left", lb, ub, size, flags)
        ELSE IF ~hi.found /\ lb < s.lb[root]
             THEN InsertLeftChild(s, root, lb, Min2(ub, s.lb[root]), size, flags)
             ELSE hi

NoFlags(same_page) == [lb |-> FALSE, ub |-> FALSE, right |-> FALSE, same_page |-> same_page]

RECURSIVE SubTree(_, _)
SubTree(s, n) ==
    IF n = NIL THEN {} ELSE {n} \cup SubTree(s, s.left[n]) \cup SubTree(s, s.right[n])

Live(s) == SubTree(s, s.root)

\* Link the node for a slot into the tree and rebalance.
Link(s, slot, T) ==
    LET n  == slot.lb
        s1 == [s EXCEPT !.alb[n] = slot.lb, !.aub[n] = slot.ub, !.T[n] = T,
                        !.lb[n] = slot.lb, !.ub[n] = slot.ub, !.gap[n] = 0,
                        !.left[n] = NIL, !.right[n] = NIL,
                        !.parent[n] = slot.parent, !.color[n] = RED]
        s2 == IF slot.parent = NIL THEN [s1 EXCEPT !.root = n]
              ELSE IF slot.side = "left" THEN [s1 EXCEPT !.left[slot.parent] = n]
              ELSE [s1 EXCEPT !.right[slot.parent] = n]
    IN  RebalanceInsert(s2, n)

\* A deleted node keeps nothing (its memory is freed).
Forget(s, n) ==
    [s EXCEPT !.left[n] = NIL, !.right[n] = NIL, !.parent[n] = NIL, !.color[n] = BLACK,
              !.alb[n] = 0, !.aub[n] = 0, !.T[n] = FALSE,
              !.lb[n] = 0, !.ub[n] = 0, !.gap[n] = 0]

-----------------------------------------------------------------------------
\* The interface of the allocator.

IS_RELATIVE(p) == RELATIVE_MIN <= p /\ p <= RELATIVE_MAX
IS_ABSOLUTE(p) == ABSOLUTE_MIN <= p /\ p <= ABSOLUTE_MAX

verify(lb, ub) ==
    /\ lb <= ub
    /\ IF IS_RELATIVE(lb) THEN IS_RELATIVE(ub)
       ELSE IS_ABSOLUTE(lb) /\ IS_ABSOLUTE(ub)

Init == t = EmptyTree

\* The slot that allocate() finds for request r.
AllocateSlot(r) ==
    LET lb    == r.lo - r.presize
        ub    == r.hi + r.tmpsize
        size  == r.presize + r.tmpsize
        flags == NoFlags(~r.option_mem_multi_page)
        first == IF r.option_Oorder /\ ub > Target
                 THEN Insert(t, t.root, lb, Target, size, [flags EXCEPT !.right = TRUE])
                 ELSE NoSlot
    IN  IF ~verify(r.lo, r.hi + TRAMPOLINE_MAX) THEN NoSlot
        ELSE IF first.found THEN first
        ELSE Insert(t, t.root, lb, ub, size, flags)

Allocate(r) ==
    LET slot == AllocateSlot(r)
    IN  /\ slot.found
        /\ Cardinality(Live(t)) < MaxNodes
        /\ t' = Link(t, slot, TRUE)

\* The slot that reserve() finds: the range rounded to whole pages.
ReserveSlot(v) ==
    LET lb == v.lo - Offset(v.lo)
        ub == v.hi + (IF Offset(v.hi) = 0 THEN 0 ELSE PAGE_SIZE - Offset(v.hi))
    IN  IF ~verify(v.lo, v.hi) \/ ub - lb <= 0 THEN NoSlot
        ELSE Insert(t, t.root, lb, ub, ub - lb, NoFlags(FALSE))

Reserve(v) ==
    LET slot == ReserveSlot(v)
    IN  /\ slot.found
        /\ Cardinality(Live(t)) < MaxNodes
        /\ t' = Link(t, slot, FALSE)

Deallocate(n) ==
    /\ t.T[n]
    /\ t' = Forget(Remove(t, n), n)

Next ==
    \/ \E r \in Requests : Allocate(r)
    \/ \E v \in Reservations : Reserve(v)
    \/ \E n \in Live(t) : Deallocate(n)

Spec == Init /\ [][Next]_t

-----------------------------------------------------------------------------
\* The iterators.

RECURSIVE Climb(_, _)
Climb(s, n) ==
    LET p == s.parent[n]
    IN  IF p = NIL THEN NIL ELSE IF s.left[p] = n THEN p ELSE Climb(s, p)

\* Mutant: the right child in place of the leftmost node below it.
nextChild(s, n) == IF s.right[n] # NIL THEN s.right[n] ELSE Climb(s, n)

next(s, n) == IF s.right[n] # NIL THEN Leftmost(s, s.right[n]) ELSE Climb(s, n)

begin(s) == IF s.root = NIL THEN NIL ELSE Leftmost(s, s.root)

RECURSIVE FindFrom(_, _, _)
FindFrom(s, n, addr) ==
    IF n = NIL THEN NIL
    ELSE IF addr < s.alb[n] THEN FindFrom(s, s.left[n], addr)
    ELSE IF addr >= s.aub[n] THEN FindFrom(s, s.right[n], addr)
    ELSE n

find(s, addr) == FindFrom(s, s.root, addr)

RECURSIVE WalkFrom(_, _, _)
WalkFrom(s, n, fuel) ==
    IF n = NIL \/ fuel = 0 THEN <<>> ELSE <<n>> \o WalkFrom(s, next(s, n), fuel - 1)

Walk(s) == WalkFrom(s, begin(s), MaxNodes + 1)

-----------------------------------------------------------------------------
\* Properties.

\* The red-black invariants, which bound the depth of the recursion in
\* insert(): a black root, no red node with a red child, and the same number of
\* black nodes on every path down.
RECURSIVE BlackHeights(_, _)
BlackHeights(s, n) ==
    IF n = NIL THEN {0}
    ELSE {h + (IF s.color[n] = BLACK THEN 1 ELSE 0) :
             h \in BlackHeights(s, s.left[n]) \cup BlackHeights(s, s.right[n])}

Balanced ==
    /\ IsBlack(t, t.root)
    /\ \A n \in Live(t) : IsRed(t, n) => ~IsRed(t, t.left[n]) /\ ~IsRed(t, t.right[n])
    /\ Cardinality(BlackHeights(t, t.root)) = 1

\* The augmentation of every node is what its sub-tree says, however the tree
\* was rotated: a gap that is too small hides room from insert(), one that is too
\* large only costs time, and a wrong bound puts a node in the wrong place.
GapsOf(ns) ==
    {t.alb[m] - t.aub[n] :
        <<n, m>> \in {p \in ns \X ns :
            /\ t.aub[p[1]] <= t.alb[p[2]]
            /\ \A k \in ns : t.aub[k] <= t.aub[p[1]] \/ t.alb[k] >= t.alb[p[2]]}}

SetMax(S) == CHOOSE x \in S : \A y \in S : y <= x
SetMin(S) == CHOOSE x \in S : \A y \in S : x <= y

Augmented ==
    \A n \in Live(t) :
        LET ns == SubTree(t, n)
        IN  /\ t.lb[n] = SetMin({t.alb[m] : m \in ns})
            /\ t.ub[n] = SetMax({t.aub[m] : m \in ns})
            /\ t.gap[n] = SetMax({0} \cup GapsOf(ns))

\* Iterating from begin() with ++ visits every live interval exactly once, in
\* order of address, and find() finds the interval of every address:
\* buildMappings() depends on both.
Iterates ==
    LET w == Walk(t)
    IN  /\ {w[i] : i \in 1..Len(w)} = Live(t)
        /\ \A i \in 1..(Len(w) - 1) : t.aub[w[i]] <= t.alb[w[i + 1]]
        /\ \A n \in Live(t) : \A a \in t.alb[n]..(t.aub[n] - 1) : find(t, a) = n

\* The intervals in the tree, and what they are an implementation of.
Intervals == {[lb |-> t.alb[n], ub |-> t.aub[n], T |-> t.T[n]] : n \in Live(t)}

VS == INSTANCE VirtualSpace WITH allocs <- Intervals

\* If trampolines may cross pages, allocate() and reserve() fail only when there
\* is no room, however the tree was pruned by its gaps: a tactic that could have
\* been applied is never given up.
Complete ==
    /\ \A r \in Requests :
          r.option_mem_multi_page /\ verify(r.lo, r.hi + TRAMPOLINE_MAX)
              /\ ~AllocateSlot(r).found => \A a \in VS!Places(r) : ~VS!Free(a)
    /\ \A v \in Reservations :
          verify(v.lo, v.hi) /\ ~ReserveSlot(v).found =>
              \A a \in VS!Pages(v) : ~VS!Free(a)

\* The tree implements the abstract allocator: nothing overlaps, reservations
\* cover what was asked for, and with --mem-multi-page=false a new trampoline does
\* not cross a page, whatever the options were for the ones around it.
Refines == VS!Spec

=============================================================================
