------------------------------ MODULE Grouping ------------------------------
(***************************************************************************)
(* What physical page grouping (e9mapping.cpp) promises: mappings are put  *)
(* one after the other into groups that share one piece of the file, and   *)
(* no two mappings of a group have bytes at the same offset.  Occupancy is *)
(* known only by units of UNIT bytes.  How a group is found is left to     *)
(* Mapping, which implements this specification with a radix tree.         *)
(***************************************************************************)
EXTENDS Integers

CONSTANT UNIT       \* how many bytes a bit of the bitmap stands for

\* A mapping: where it is, and at which offsets it has bytes.
Mappings == [base : Int, occ : SUBSET Nat]

VARIABLES
    todo,      \* mappings not yet in a group
    groups     \* sets of mappings that share a piece of the file

vars == <<todo, groups>>

\* The occupancy bitmap of a mapping, and of a group.
Key(m) == {o \div UNIT : o \in m.occ}
GroupKey(g) == UNION {Key(m) : m \in g}

Init == todo \in SUBSET Mappings /\ groups = {}

\* A group with the same bitmap, and a group that leaves room.
Same(m, g) == GroupKey(g) = Key(m)
Complement(m, g) == GroupKey(g) \cap Key(m) = {}

\* A mapping starts a group of its own when there is a group just like it, or none
\* with room for it.
Alone(m) ==
    /\ m \in todo
    /\ (\E g \in groups : Same(m, g)) \/ (\A g \in groups : ~Complement(m, g))
    /\ todo' = todo \ {m}
    /\ groups' = groups \cup {{m}}

Join(m, g) ==
    /\ m \in todo /\ g \in groups
    /\ Complement(m, g) /\ \A h \in groups : ~Same(m, h)
    /\ todo' = todo \ {m}
    /\ groups' = (groups \ {g}) \cup {g \cup {m}}

Next == \E m \in todo : Alone(m) \/ \E g \in groups : Join(m, g)

Spec == Init /\ [][Next]_vars

-----------------------------------------------------------------------------
\* Properties.

TypeOK == todo \in SUBSET Mappings /\ groups \in SUBSET SUBSET Mappings

\* The mappings of a group never have bytes at the same offset, so that flattening
\* one of them does not overwrite another.
Separate ==
    \A g \in groups : \A m, n \in g : m # n => m.occ \cap n.occ = {}

\* A mapping is in one group, and no longer waits for one.
Once ==
    /\ todo \cap UNION groups = {}
    /\ \A g, h \in groups : g # h => g \cap h = {}

\* No mapping is lost.
Kept == todo' \cup UNION groups' = todo \cup UNION groups

=============================================================================
