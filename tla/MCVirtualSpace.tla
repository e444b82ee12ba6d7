--------------------------- MODULE MCVirtualSpace ---------------------------
(* A small address space for VirtualSpace: relative addresses on both sides of *)
(* 0, and an absolute range.                                                   *)
EXTENDS VirtualSpace

RelMin == -8

MCRequests ==
    {[lo |-> lo, hi |-> lo + 5, presize |-> p, tmpsize |-> 2,
      option_mem_multi_page |-> lo = 0, option_Oorder |-> FALSE] :
        lo \in {-6, 0}, p \in {0, 1}}
      \cup {[lo |-> 24, hi |-> 25, presize |-> 1, tmpsize |-> 3,
             option_mem_multi_page |-> TRUE, option_Oorder |-> FALSE]}

MCReservations == {[lo |-> -5, hi |-> -3], [lo |-> 4, hi |-> 7], [lo |-> 6, hi |-> 26]}

=============================================================================
