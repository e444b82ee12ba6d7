---------------------------- MODULE VirtualSpace ----------------------------
(***************************************************************************)
(* What E9Patch's virtual address space allocator promises its callers     *)
(* (the tactics, the ELF/PE parsers and the "reserve" message): a set of   *)
(* half-open intervals, each either the home of a trampoline or reserved   *)
(* for something else, that never overlap.  How a free interval is found   *)
(* is left open here; IntervalTree is the red-black interval tree of       *)
(* e9alloc.cpp and is shown to implement this specification.               *)
(***************************************************************************)
EXTENDS Integers

CONSTANTS
    PAGE_SIZE,        \* size of a page
    TRAMPOLINE_MAX,   \* upper bound on the size of a trampoline
    RELATIVE_MIN, RELATIVE_MAX,    \* addresses relative to the image base
    ABSOLUTE_MIN, ABSOLUTE_MAX,    \* addresses that are not relative to it
    Requests,         \* the calls of allocate() under consideration
    Reservations      \* the calls of reserve() under consideration

\* A call of allocate(): the entry point of the trampoline must lie in lo..hi;
\* presize bytes of prologue come before it, tmpsize bytes from it on.  An
\* "options" message may change the options between two calls, so that they are
\* part of the call: may the trampoline cross a page boundary, is -Oorder set?
Request ==
    [lo : Int, hi : Int, presize : Nat, tmpsize : Nat \ {0},
     option_mem_multi_page : BOOLEAN, option_Oorder : BOOLEAN]

\* A call of reserve().
Reservation == [lo : Int, hi : Int]

ASSUME SpaceAssumption ==
    /\ PAGE_SIZE \in Nat \ {0}
    /\ TRAMPOLINE_MAX \in Nat
    /\ RELATIVE_MIN \in Int /\ RELATIVE_MAX \in Int
    /\ ABSOLUTE_MIN \in Int /\ ABSOLUTE_MAX \in Int
    /\ Requests \subseteq Request
    /\ Reservations \subseteq Reservation

VARIABLE allocs   \* the live intervals

\* An interval [lb, ub) of the address space.  T says whether it belongs to a
\* trampoline (it can be deallocated) or is a reservation (it cannot).
Interval == [lb : Int, ub : Int, T : BOOLEAN]

IS_RELATIVE(p) == RELATIVE_MIN <= p /\ p <= RELATIVE_MAX

IS_ABSOLUTE(p) == ABSOLUTE_MIN <= p /\ p <= ABSOLUTE_MAX

\* Bounds are usable if they do not mix relative and absolute addresses.
verify(lb, ub) ==
    /\ lb <= ub
    /\ \/ IS_RELATIVE(lb) /\ IS_RELATIVE(ub)
       \/ ~IS_RELATIVE(lb) /\ IS_ABSOLUTE(lb) /\ IS_ABSOLUTE(ub)

Disjoint(a, b) == a.ub <= b.lb \/ b.ub <= a.lb

\* Mutant: only the first byte is looked up.
FreeFirstByte(a) == \A b \in allocs : a.lb < b.lb \/ b.ub <= a.lb

Free(a) == \A b \in allocs : Disjoint(a, b)

SamePage(a) == a.lb \div PAGE_SIZE = (a.ub - 1) \div PAGE_SIZE

\* Mutant: the length in place of the end.
PlacesLength(r) ==
    {[lb |-> lb, ub |-> r.presize + r.tmpsize, T |-> TRUE] :
        lb \in (r.lo - r.presize)..(r.hi - r.presize)}

\* The places where request r may be put, whatever is there now.
Places(r) ==
    {[lb |-> lb, ub |-> lb + r.presize + r.tmpsize, T |-> TRUE] :
        lb \in (r.lo - r.presize)..(r.hi - r.presize)}

Init == allocs = {}

Allocate(r) ==
    /\ verify(r.lo, r.hi + TRAMPOLINE_MAX)
    /\ \E a \in Places(r) :
          /\ Free(a)
          /\ r.option_mem_multi_page \/ SamePage(a)
          /\ allocs' = allocs \cup {a}

\* A reservation is made of whole pages that cover what was asked for.
Covers(a, v) ==
    /\ a.lb <= v.lo /\ v.hi <= a.ub
    /\ a.lb % PAGE_SIZE = 0 /\ a.ub % PAGE_SIZE = 0
    /\ v.lo - a.lb < PAGE_SIZE /\ a.ub - v.hi < PAGE_SIZE

\* There is at most one such interval, none if the range is empty.
Pages(v) ==
    {a \in [lb : (v.lo - PAGE_SIZE)..v.lo, ub : v.hi..(v.hi + PAGE_SIZE), T : {FALSE}] :
        a.lb < a.ub /\ Covers(a, v)}

Reserve(v) ==
    /\ verify(v.lo, v.hi)
    /\ \E a \in Pages(v) : Free(a) /\ allocs' = allocs \cup {a}

\* Only a trampoline is ever given back.
Deallocate(a) ==
    /\ a.T
    /\ allocs' = allocs \ {a}

Next ==
    \/ \E r \in Requests : Allocate(r)
    \/ \E v \in Reservations : Reserve(v)
    \/ \E a \in allocs : Deallocate(a)

Spec == Init /\ [][Next]_allocs

-----------------------------------------------------------------------------

TypeOK ==
    /\ allocs \subseteq Interval
    /\ \A a \in allocs : a.lb < a.ub

\* No two live intervals overlap: a trampoline is never written over another
\* trampoline, over the loaded image or over a reserved range.
NoOverlap == \A a, b \in allocs : a # b => Disjoint(a, b)

=============================================================================
