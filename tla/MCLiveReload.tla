---------------------------- MODULE MCLiveReload ----------------------------
(***************************************************************************)
(* A target of two bytes.  Its .text is the byte at offset 1, with RVA 5;  *)
(* any other RVA is taken for an offset.  The functions of a.c are at RVA  *)
(* 5, and at RVA 7 where they are past the end of the target.              *)
(***************************************************************************)
EXTENDS LiveReload

MCOriginal == [x \in 0 .. 1 |-> 0]
MCtext == [rva |-> 5, size |-> 1, offset |-> 1]
MCrdata == [rva |-> 6, size |-> 0, offset |-> 0]
MCFunctions == [s \in Sources |-> <<5, 7>>]
MCObjects == [s \in Sources |-> {<< <<0>>, <<0>> >>, << <<1>>, <<0>> >>, << <<0>>, <<1>> >>}]

\* By offset, by RVA and by address; the last two fail: across
\* the end, and at an offset that is negative.
MCRequests ==
    { [type |-> "offset", address |-> 0, bytes |-> <<1, 1>>],
      [type |-> "rva", address |-> 5, bytes |-> <<0>>],
      [type |-> "va", address |-> 13, bytes |-> <<1, 1>>],
      [type |-> "offset", address |-> 100, bytes |-> <<1>>] }
=============================================================================
