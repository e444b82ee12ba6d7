---------------------------- MODULE MCTrampoline ----------------------------
(***************************************************************************)
(* Programs of four instructions for Trampoline: one branch of every kind, *)
(* to every place, among plain instructions, one of which may have an      *)
(* operand relative to the program counter, with or without a return at    *)
(* the end; any instructions may be patched.                               *)
(***************************************************************************)
EXTENDS Trampoline

I(kind, size, to) == [kind |-> kind, size |-> size, to |-> to]
Branches == {I("jmp", 2, t) : t \in Instrs} \cup {I("jmp", 5, t) : t \in Instrs}
            \cup {I("jcc", 2, t) : t \in Instrs} \cup {I("call", 5, t) : t \in Instrs}
Straight(r, e) == [k \in Instrs |-> CASE k = e -> I("ret", 1, 0)
                                      [] k = r /\ k # e -> I("rip", 6, 0)
                                      [] OTHER -> I("seq", 3, 0)]
MCPrograms ==
    {[Straight(r, e) EXCEPT ![b] = x] : r \in {2, 3}, e \in {N}, b \in 1..N, x \in Branches}

MCRequests == {S \in SUBSET Instrs : Cardinality(S) \in 1..2}
TemplatesPass == {<<"call", "BREAK">>, <<"instr", "bytes", "break", "data">>}
TemplatesLabel == {<<"ref", "instr", "BREAK", "label", "data">>}
MCMacros == [call |-> <<"bytes", "instr">>]
=============================================================================
