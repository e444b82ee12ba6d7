--------------------------- MODULE MCIntervalTree ---------------------------
(***************************************************************************)
(* A small address space for IntervalTree.  Trampolines that may cross     *)
(* pages are asked for from 0 on; those that may not, with -Oorder, on     *)
(* both sides of 0.  The latter are larger, so that a step of one kind     *)
(* cannot pass for one of the other in Refines.                            *)
(***************************************************************************)
EXTENDS IntervalTree

RelMin == -20

MCNodes == -8..16

Calls(Windows, presizes, sizes, multi_page) ==
    {[lo |-> w[1], hi |-> w[2], presize |-> p, tmpsize |-> n,
      option_mem_multi_page |-> multi_page, option_Oorder |-> ~multi_page] :
        w \in Windows, p \in presizes, n \in sizes}

MCRequests ==
    Calls({<<0, 8>>, <<0, 3>>, <<5, 6>>}, {0}, {1, 2}, TRUE)
      \cup Calls({<<5, 6>>}, {1}, {1}, TRUE)
      \cup Calls({<<8, RELATIVE_MAX>>}, {0}, {1}, TRUE)
      \cup Calls({<<-6, 3>>}, {1}, {2, 3}, FALSE)

MCReservations == {[lo |-> 2, hi |-> 5], [lo |-> 8, hi |-> 8]}

=============================================================================
