----------------------------- MODULE MCBinPatch -----------------------------
(***************************************************************************)
(* An ELF file of 26 bytes, for which detect_elf() leaves the base address *)
(* 0, with branches of 2 bytes.  Opcode 1 is an instruction of 1 byte, 2   *)
(* one of 2 and 3 one of 3; there are caves of 8, 4 and 3 bytes, the last  *)
(* one at the end of the code.  The sections are the null section, the     *)
(* code, one without contents that follows the file, and one that is not   *)
(* loaded.                                                                 *)
(***************************************************************************)
EXTENDS BinPatch

Raw ==
    << 127, 3, 9, 9, 2, 9, 1, 0, 0, 204, 204, 144, 0, 0, 0, 2, 9, 204, 204, 204, 204,
       1, 0, 0, 0, 5 >>

MCData == [k \in 1 .. Len(Raw) |-> <<Raw[k]>>]
MCSections ==
    << [addr |-> 0, size |-> 0, exec |-> FALSE],
       [addr |-> 1, size |-> 24, exec |-> TRUE],
       [addr |-> 26, size |-> 4, exec |-> FALSE],
       [addr |-> 0, size |-> 3, exec |-> FALSE] >>
MCInsnSize == [b \in 0 .. 255 |-> IF b \in {2, 3} THEN b ELSE 1]

\* The theorems about caves and files ask for it.
ASSUME MCAssumption == WellFormed

Call(type, address, bytes, size, target) ==
    [type |-> type, address |-> address, bytes |-> bytes, size |-> size,
     target |-> target, backup |-> type # "CALL"]

MCRequests ==
    { Call("BYTES", 5, << <<7>> >>, 0, 0),            \* inside of an instruction
      Call("BYTES", 9, << <<7>> >>, 0, 0),            \* in a cave
      Call("NOP", 4, <<>>, 3, 0),
      Call("NOP", 25, <<>>, 2, 0),                    \* across the end of the file
      Call("NOP", 29, <<>>, 1, 0),                    \* past the capacity
      Call("NOP", 40, <<>>, 1, 0),                    \* outside of the binary
      Call("INSN", 1, << <<1>> >>, 0, 0),             \* shorter
      Call("INSN", 4, << <<3>>, <<7>>, <<7>> >>, 0, 0), \* longer
      Call("CALL", 15, <<>>, 0, 9),
      Call("JMP", 15, <<>>, 0, 1000),                 \* too far
      Call("HOOK", 1, << <<7>> >>, 0, 0),
      Call("HOOK", 6, << <<7>> >>, 0, 0),             \* too short
      Call("DETOUR", 4, << <<7>>, <<8>> >>, 0, 0) }
=============================================================================
