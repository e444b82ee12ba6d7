------------------------- MODULE VirtualSpaceProofs -------------------------
(***************************************************************************)
(* The promises of VirtualSpace hold for every address space, page size    *)
(* and set of calls.                                                       *)
(***************************************************************************)
EXTENDS VirtualSpace, TLAPS

\* Adding a free interval to pairwise disjoint intervals keeps them disjoint:
\* the one fact that allocate() and reserve() both rest on.
LEMMA AddFree ==
    ASSUME NEW S \in SUBSET Interval, NEW a \in Interval,
           \A b, c \in S : b # c => Disjoint(b, c),
           \A b \in S : Disjoint(a, b)
    PROVE  \A b, c \in S \cup {a} : b # c => Disjoint(b, c)
BY DEF Disjoint, Interval

\* Where a request may be put is a non-empty interval of integers that belongs
\* to a trampoline.
LEMMA PlacesType ==
    ASSUME NEW r \in Requests, NEW a \in Places(r)
    PROVE  a \in Interval /\ a.lb < a.ub
<1>1. r \in Request
  BY SpaceAssumption
<1>2. PICK lb \in (r.lo - r.presize)..(r.hi - r.presize) :
        a = [lb |-> lb, ub |-> lb + r.presize + r.tmpsize, T |-> TRUE]
  BY DEF Places
<1>3. lb \in Int /\ r.presize \in Nat /\ r.tmpsize \in Nat \ {0}
  BY <1>1, <1>2 DEF Request
<1> QED
  BY <1>2, <1>3 DEF Interval

\* The pages that cover a reservation are a non-empty interval of integers.
LEMMA PagesType ==
    ASSUME NEW v \in Reservations, NEW a \in Pages(v)
    PROVE  a \in Interval /\ a.lb < a.ub
<1>1. v \in Reservation /\ PAGE_SIZE \in Nat
  BY SpaceAssumption
<1>2. a \in [lb : (v.lo - PAGE_SIZE)..v.lo, ub : v.hi..(v.hi + PAGE_SIZE), T : {FALSE}]
      /\ a.lb < a.ub
  BY DEF Pages
<1>3. a.lb \in Int /\ a.ub \in Int
  BY <1>1, <1>2 DEF Reservation
<1>4. a = [lb |-> a.lb, ub |-> a.ub, T |-> a.T] /\ a.T \in BOOLEAN
  BY <1>2
<1> QED
  BY <1>2, <1>3, <1>4 DEF Interval

\* Both invariants hold initially.
LEMMA InitOK == Init => TypeOK /\ NoOverlap
BY DEF Init, TypeOK, NoOverlap

\* Every call of the allocator preserves both invariants.
LEMMA StepOK ==
    ASSUME TypeOK, NoOverlap, [Next]_allocs
    PROVE  TypeOK' /\ NoOverlap'
<1>1. ASSUME NEW a \in Interval, a.lb < a.ub, Free(a), allocs' = allocs \cup {a}
      PROVE  TypeOK' /\ NoOverlap'
  <2>1. TypeOK'
    BY <1>1 DEF TypeOK
  <2>2. \A b, c \in allocs \cup {a} : b # c => Disjoint(b, c)
    BY <1>1, AddFree DEF TypeOK, NoOverlap, Free
  <2> QED
    BY <1>1, <2>1, <2>2 DEF NoOverlap
<1>2. ASSUME NEW r \in Requests, Allocate(r)
      PROVE  TypeOK' /\ NoOverlap'
  <2>1. PICK a \in Places(r) : Free(a) /\ allocs' = allocs \cup {a}
    BY <1>2 DEF Allocate
  <2> QED
    BY <2>1, <1>1, PlacesType
<1>3. ASSUME NEW v \in Reservations, Reserve(v)
      PROVE  TypeOK' /\ NoOverlap'
  <2>1. PICK a \in Pages(v) : Free(a) /\ allocs' = allocs \cup {a}
    BY <1>3 DEF Reserve
  <2> QED
    BY <2>1, <1>1, PagesType
<1>4. ASSUME NEW a \in allocs, Deallocate(a)
      PROVE  TypeOK' /\ NoOverlap'
  BY <1>4 DEF Deallocate, TypeOK, NoOverlap
<1>5. CASE UNCHANGED allocs
  BY <1>5 DEF TypeOK, NoOverlap
<1> QED
  BY <1>2, <1>3, <1>4, <1>5 DEF Next

\* The intervals are well-formed whatever calls are made (TypeOK).
THEOREM TypeCorrect == Spec => []TypeOK
<1>1. Init => TypeOK /\ NoOverlap
  BY InitOK
<1>2. TypeOK /\ NoOverlap /\ [Next]_allocs => (TypeOK /\ NoOverlap)'
  BY StepOK
<1> QED
  BY <1>1, <1>2, PTL DEF Spec

\* No two live intervals ever overlap (NoOverlap): a trampoline never shares a
\* byte with another one, with the image or with a reserved range.
THEOREM Disjointness == Spec => []NoOverlap
<1>1. Init => TypeOK /\ NoOverlap
  BY InitOK
<1>2. TypeOK /\ NoOverlap /\ [Next]_allocs => (TypeOK /\ NoOverlap)'
  BY StepOK
<1> QED
  BY <1>1, <1>2, PTL DEF Spec

=============================================================================
