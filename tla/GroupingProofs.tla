--------------------------- MODULE GroupingProofs ---------------------------
(***************************************************************************)
(* Grouping is correct for every size of the units and any mappings: the   *)
(* bitmaps are coarse, but disjoint bitmaps mean disjoint bytes.           *)
(***************************************************************************)
EXTENDS Grouping, TLAPS

\* Two mappings with disjoint bitmaps have no byte at the same offset: the bitmap
\* of calculateKey() over-approximates.
LEMMA KeysSeparate ==
  ASSUME NEW m, NEW n, Key(m) \cap Key(n) = {}
  PROVE  m.occ \cap n.occ = {}
BY DEF Key

\* The bitmap of a mapping is part of the bitmap of its group.
LEMMA KeyInGroup ==
  ASSUME NEW g, NEW m \in g
  PROVE  Key(m) \subseteq GroupKey(g)
BY DEF GroupKey

\* A mapping that joins a group has no byte where one of the group has.
LEMMA JoinSeparate ==
  ASSUME NEW m, NEW g, Complement(m, g)
  PROVE  \A n \in g : m.occ \cap n.occ = {} /\ n.occ \cap m.occ = {}
<1> SUFFICES ASSUME NEW n \in g
             PROVE  m.occ \cap n.occ = {} /\ n.occ \cap m.occ = {}
  OBVIOUS
<1>1. Key(m) \cap Key(n) = {}
  BY KeyInGroup DEF Complement
<1>2. m.occ \cap n.occ = {}
  BY <1>1, KeysSeparate
<1> QED BY <1>2

\* Grouping keeps its variables sets of mappings, and sets of groups.
THEOREM TypeCorrect == Spec => []TypeOK
<1>1. Init => TypeOK
  BY DEF Init, TypeOK
<1>2. TypeOK /\ [Next]_vars => TypeOK'
  <2> SUFFICES ASSUME TypeOK, [Next]_vars PROVE TypeOK'
    OBVIOUS
  <2>1. ASSUME NEW m \in todo, Alone(m) PROVE TypeOK'
    BY <2>1 DEF TypeOK, Alone
  <2>2. ASSUME NEW m \in todo, NEW g \in groups, Join(m, g) PROVE TypeOK'
    BY <2>2 DEF TypeOK, Join
  <2>3. CASE UNCHANGED vars
    BY <2>3 DEF TypeOK, vars
  <2> QED BY <2>1, <2>2, <2>3 DEF Next
<1> QED BY <1>1, <1>2, PTL DEF Spec

\* Bytes that share a piece of the file never overlap: the mappings of a group are
\* disjoint, whatever the layout that buildMappings() saw.
THEOREM GroupsSeparate == Spec => []Separate
<1>1. Init => Separate
  BY DEF Init, Separate
<1>2. Separate /\ [Next]_vars => Separate'
  <2> SUFFICES ASSUME Separate, [Next]_vars PROVE Separate'
    OBVIOUS
  <2>1. ASSUME NEW m \in todo, Alone(m) PROVE Separate'
    BY <2>1 DEF Separate, Alone
  <2>2. ASSUME NEW m \in todo, NEW g \in groups, Join(m, g) PROVE Separate'
    <3>1. \A n \in g : m.occ \cap n.occ = {} /\ n.occ \cap m.occ = {}
      BY <2>2, JoinSeparate DEF Join
    <3>2. groups' = (groups \ {g}) \cup {g \cup {m}}
      BY <2>2 DEF Join
    <3> SUFFICES ASSUME NEW h \in groups', NEW x \in h, NEW y \in h, x # y
                 PROVE  x.occ \cap y.occ = {}
      BY DEF Separate
    <3>3. CASE h \in groups
      BY <3>3 DEF Separate
    <3>4. CASE h = g \cup {m}
      <4>1. CASE x \in g /\ y \in g
        BY <4>1 DEF Separate
      <4>2. CASE x = m \/ y = m
        BY <3>1, <3>4, <4>2
      <4> QED BY <3>4, <4>1, <4>2
    <3> QED BY <3>2, <3>3, <3>4
  <2>3. CASE UNCHANGED vars
    BY <2>3 DEF Separate, vars
  <2> QED BY <2>1, <2>2, <2>3 DEF Next
<1> QED BY <1>1, <1>2, PTL DEF Spec

\* Each mapping ends up in one group only, so that it is written and mapped once.
THEOREM GroupedOnce == Spec => []Once
<1>1. Init => Once
  BY DEF Init, Once
<1>2. Once /\ [Next]_vars => Once'
  <2> SUFFICES ASSUME Once, [Next]_vars PROVE Once'
    OBVIOUS
  <2>1. ASSUME NEW m \in todo, Alone(m) PROVE Once'
    <3>1. todo' = todo \ {m} /\ groups' = groups \cup {{m}}
      BY <2>1 DEF Alone
    <3>2. todo' \cap UNION groups' = {}
      BY <3>1 DEF Once
    <3>3. \A g, h \in groups' : g # h => g \cap h = {}
      BY <3>1 DEF Once
    <3> QED BY <3>2, <3>3 DEF Once
  <2>2. ASSUME NEW m \in todo, NEW g \in groups, Join(m, g) PROVE Once'
    <3>1. todo' = todo \ {m} /\ groups' = (groups \ {g}) \cup {g \cup {m}}
      BY <2>2 DEF Join
    <3>2. todo' \cap UNION groups' = {}
      BY <3>1 DEF Once
    <3>3. \A h \in groups : h # g => h \cap (g \cup {m}) = {}
      BY DEF Once
    <3>4. \A h, k \in groups' : h # k => h \cap k = {}
      BY <3>1, <3>3 DEF Once
    <3> QED BY <3>2, <3>4 DEF Once
  <2>3. CASE UNCHANGED vars
    BY <2>3 DEF Once, vars
  <2> QED BY <2>1, <2>2, <2>3 DEF Next
<1> QED BY <1>1, <1>2, PTL DEF Spec

\* No step loses a mapping: what waits or is grouped stays the same.
THEOREM NothingLost == Spec => [][Kept]_vars
<1>1. [Next]_vars => [Kept]_vars
  <2>1. ASSUME NEW m \in todo, Alone(m) PROVE Kept
    BY <2>1 DEF Kept, Alone
  <2>2. ASSUME NEW m \in todo, NEW g \in groups, Join(m, g) PROVE Kept
    <3>1. todo' = todo \ {m} /\ groups' = (groups \ {g}) \cup {g \cup {m}}
      BY <2>2 DEF Join
    <3>2. ASSUME NEW x \in UNION groups' PROVE x \in (UNION groups) \cup {m}
      <4>1. PICK h \in groups' : x \in h
        BY <3>2
      <4>2. h \in groups \/ h = g \cup {m}
        BY <3>1
      <4>3. CASE h \in groups
        BY <4>1, <4>3
      <4>4. CASE h = g \cup {m}
        BY <4>1, <4>4
      <4> QED BY <4>2, <4>3, <4>4
    <3>3. ASSUME NEW h \in groups, NEW x \in h PROVE x \in UNION groups'
      <4>1. CASE h = g
        <5>1. x \in g \cup {m} /\ g \cup {m} \in groups'
          BY <3>1, <3>3, <4>1
        <5> QED BY <5>1
      <4>2. CASE h # g
        <5>1. x \in h /\ h \in groups'
          BY <3>1, <3>3, <4>2
        <5> QED BY <5>1
      <4> QED BY <4>1, <4>2
    <3>4. m \in UNION groups'
      <4>1. m \in g \cup {m} /\ g \cup {m} \in groups'
        BY <3>1
      <4> QED BY <4>1
    <3> QED BY <3>1, <3>2, <3>3, <3>4 DEF Kept
  <2> QED BY <2>1, <2>2 DEF Next
<1> QED BY <1>1, PTL DEF Spec

=============================================================================
