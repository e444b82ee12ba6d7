----------------------------- MODULE MCPatchApi -----------------------------
(* Small message streams for PatchApi: three or four instructions, two of them *)
(* within the look-ahead of each other, and one option besides --batch.       *)
EXTENDS PatchApi

Min == -20

Incrementally == [batch |-> FALSE, x |-> FALSE]

SetX   == {[x |-> TRUE], [x |-> FALSE]}

SomeReservations ==
    {[lo |-> -3, hi |-> 2, bytes |-> TRUE, mmap |-> TRUE],
     [lo |-> 5, hi |-> 6, bytes |-> FALSE, mmap |-> FALSE],
     [lo |-> 9, hi |-> 12, bytes |-> TRUE, mmap |-> TRUE]}

=============================================================================
