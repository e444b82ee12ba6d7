------------------------------ MODULE MCLoader ------------------------------
(***************************************************************************)
(* Loader on layouts of three or five mappings of three pages, put together *)
(* from what a mapping may hold.                                           *)
(***************************************************************************)
EXTENDS Loader

\* Trampolines, the contents of a "reserve" message with its padding, and a range
\* of the program itself.
Tr(l, u) == [lb |-> l, ub |-> u, T |-> TRUE, prot |-> {"r", "x"}, preload |-> FALSE]
Co(l, u, p) == [Tr(l, u) EXCEPT !.prot = p, !.preload = TRUE]
Re(l, u) == [Tr(l, u) EXCEPT !.T = FALSE, !.prot = {}]

Few == {{Tr(0, 2)}, {Tr(3, 5)}, {Tr(6, 9)}, {Tr(0, 4), Tr(10, 12)}}

Many == Few \cup
    {{}, {Tr(9, 12)}, {Tr(10, 15)},
     {Tr(1, 3), Tr(4, 5), Co(5, 7, {"r", "x"}), Tr(7, 8), Tr(8, 10)},
     {Tr(2, 4), Co(8, 12, {"r", "w", "x"})},
     {Tr(1, 3), Re(4, 8), Tr(9, 11)}}

Shifted(S, d) == {[a EXCEPT !.lb = @ + d, !.ub = @ + d] : a \in S}
Disjoint(L) == \A a, b \in L : a # b => a.ub <= b.lb \/ b.ub <= a.lb
Row(f) == UNION {Shifted(f[k], MAPPING_SIZE * k) : k \in DOMAIN f}

LayoutsDef == {Row(f) : f \in [0..4 -> Few] \cup {g \in [0..2 -> Many] : Disjoint(Row(g))}}

Called(L) == {a.lb : a \in {b \in L : b.preload}}
Scenario(L, d, t, s, m) ==
    [allocs |-> L, dirty |-> d, traps |-> t, static |-> s, mmap |-> m, inits |-> Called(L)]

SitesDef == 1..5
OneSegment == [p \in 10..19 |-> p - 8]
TwoSegments == [p \in (10..12) \cup (14..19) |-> IF p <= 12 THEN p - 8 ELSE p - 9]

ScenariosDef ==
    {Scenario(L, {11}, {}, FALSE, {}) : L \in LayoutsDef}
      \cup UNION {{Scenario(L, {11}, {}, FALSE, {f}) : f \in Called(L)} : L \in LayoutsDef}
      \cup {Scenario({Tr(0, 2)}, d, {}, s, {}) : d \in SUBSET {10, 12, 14, 16, 19}, s \in BOOLEAN}
      \cup {Scenario({Tr(0, 2)}, {11}, t, FALSE, {}) : t \in SUBSET SitesDef}

LayoutsAll == LayoutsDef \cup {{Tr(0, 2)}}

=============================================================================
