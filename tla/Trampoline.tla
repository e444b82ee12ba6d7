----------------------------- MODULE Trampoline -----------------------------
(***************************************************************************)
(* Trampolines (e9trampoline.cpp) and the optimisation of jumps            *)
(* (e9optimize.cpp).  A trampoline is laid out twice: its size is computed *)
(* when its address is allocated, while later patches are still to come,   *)
(* and its code is generated from the same template when everything is     *)
(* patched.  It may begin with a prologue, copies of the instructions in   *)
(* front of the patched one, and its "$BREAK" may end it with an epilogue, *)
(* copies of those behind it; the jumps are then redirected past the main  *)
(* code, from trampoline to trampoline.                                    *)
(*                                                                         *)
(* What a tactic does to bytes is the subject of Tactics.  Here it is an   *)
(* outcome, any that the tactic allows, and code is a sequence of items    *)
(* with their lengths.  A location is <<0, k>>, instruction k of the main  *)
(* code, or <<a, n>>, n bytes into allocation a.                           *)
(***************************************************************************)
EXTENDS Integers, FiniteSets, FiniteSetsExt, SequencesExt

CONSTANTS
    N,                      \* number of instructions
    Programs,               \* the programs: sequences of N instructions
    Templates,              \* templates of the user's trampolines
    Macros,                 \* metadata: name |-> template without macros
    Requests,               \* sets of instructions the frontend wants patched
    T0_LIMIT, JMPQ,         \* JMPQ is sizeof(jmpq)
    CallSize,               \* length of a relocated call
    Near,                   \* the displaced instructions themselves stay in reach
    option_batch, option_Opeephole, option_Ocall,
    option_Oepilogue, option_Oepilogue_size, option_Oprologue, option_Oprologue_size,
    Steps                   \* length of the executions that are compared

Instrs == 1..N
Entries == {"bytes", "data", "label", "ref", "instr", "break", "BREAK"}

ASSUME TrampolineAssumption ==
    /\ Programs \subseteq [Instrs -> [kind : {"seq", "rip", "ret", "jmp", "jcc", "call", "bad"},
                                      size : 1..15, to : 0..N]]
    /\ Requests \subseteq SUBSET Instrs
    /\ \A M \in DOMAIN Macros : Range(Macros[M]) \subseteq Entries
    /\ \A T \in Templates : Range(T) \subseteq Entries \cup DOMAIN Macros

VARIABLES
    prog,          \* the instructions
    template,      \* the template of the patch messages
    wanted,        \* instructions with a patch message (I->T # nullptr)
    cursor,        \* the patch messages above cursor are done
    flags,         \* the sets is_patched, is_evicted and no_optimize
    Es,            \* the trampoline entry set
    allocs,        \* allocations with a trampoline, in order
    divert,        \* allocation at which the jump in place of an instruction arrives
    instrumented,  \* instructions whose patch was applied
    flat,          \* the code of the trampolines
    jumps,         \* where the jump at each instruction of the main code leads
    phase

vars == <<prog, template, wanted, cursor, flags, Es, allocs, divert, instrumented,
          flat, jumps, phase>>

program == <<prog, template, wanted>>
code == <<flat, jumps>>

NIL == 0
NOWHERE == <<>>              \* INTPTR_MIN
Main(k) == <<0, k>>

Sum(s) == FoldLeft(+, 0, s)
SizeOf(S) == MapThenSumSet(LAMBDA k : prog[k].size, S)

Kind(k) == prog[k].kind
isCFT(k, kinds) == Kind(k) \in kinds
PcRelative(k) == Kind(k) \in {"rip", "jmp", "jcc", "call"}

\* The length of instruction k once relocated; "bad" is callq *%rsp, which
\* relocateInstr() refuses with -1.
Relocated(k) ==
    CASE Kind(k) \in {"seq", "rip", "ret"} -> prog[k].size
      [] Kind(k) = "jmp"  -> JMPQ
      [] Kind(k) = "jcc"  -> JMPQ + 1
      [] Kind(k) = "call" -> CallSize
      [] Kind(k) = "bad"  -> -1

-----------------------------------------------------------------------------
\* The entry set.

InES(k) == Es[k].I # NIL

\* The request, if any, whose prologue may start at k.
OwnerOf(p, W, k) ==
    LET S == {i \in W : i >= k}
        i == Min(S)
        Between == k..(i - 1)
        size == MapThenSumSet(LAMBDA n : p[n].size, (k + 1)..i)
    IN  IF /\ S # {}
           /\ \A n \in Between : p[n].kind \notin {"call", "bad", "ret", "jmp"}
           /\ i = k \/ (i - k <= option_Oprologue /\ size <= option_Oprologue_size)
        THEN i ELSE NIL

\* The jumps that will be 32 bits wide where they are optimized.
Wide(p, n) == CASE p[n].kind = "call" -> TRUE
                [] p[n].kind \in {"jmp", "jcc"} -> p[n].size >= JMPQ \/ p[n].to <= n
                [] OTHER -> FALSE

buildEntrySet(p, W) ==
    LET on == option_batch /\ option_Opeephole /\ option_Oprologue # 0 /\ option_Oprologue_size # 0
    IN  [k \in Instrs |->
           [I |-> IF on THEN OwnerOf(p, W, k) ELSE NIL,
            target |-> on /\ \E n \in Instrs \ W : Wide(p, n) /\ p[n].to = k,
            entry |-> NOWHERE]]

\* The instructions in front of I that its prologue copies.
getTrampolinePrologueStart(I) ==
    LET chain == {k \in 1..(I - 1) : \A n \in k..(I - 1) : Es[n].I = I}
        K == {k \in chain : Es[k].target}
    IN  IF option_Opeephole /\ Es[I].I = I /\ K # {} THEN Min(K) ELSE I

Prologue(I) == [n \in 1..(I - getTrampolinePrologueStart(I)) |->
                    getTrampolinePrologueStart(I) + n - 1]

\* The entry of I becomes e.
setTrampolineEntry(E, I, e) == [E EXCEPT ![I].entry = e, ![I].I = IF @ = NIL THEN I ELSE @]

getTrampolineEntry(I) == Es[I].entry

-----------------------------------------------------------------------------
\* Size and layout of a trampoline.

evicteeTrampoline == <<"instr", "BREAK">>
RAW == <<"instr">>

\* What a trampoline consists of: one part, or one for each instruction of the
\* batch I..last.  A batch that ends with an unpatched instruction ends with a
\* "$BREAK" behind it.
Part(k, T, last) == [k |-> k, T |-> T, last |-> last]
Parts(A) ==
    IF A.last = A.I THEN <<Part(A.I, A.T, TRUE)>>
    ELSE [n \in 1..(A.last - A.I + 1) |->
            LET k == A.I + n - 1
            IN  Part(k, CASE k \in wanted -> template
                          [] k \notin wanted /\ k < A.last -> RAW
                          [] k \notin wanted /\ k = A.last -> evicteeTrampoline, k = A.last)]

\* The entries of a part with its macros expanded.  The "$break" that ends its
\* template falls through to the next part of the batch.  When an instruction
\* inside a macro cannot be relocated, getTrampolineSize() counts -1 for the
\* whole macro: it tests the wrong variable for the error.
Expand(P) ==
    LET entry(e, end, lost) ==
            [e |-> e, k |-> P.k, fallthrough |-> ~P.last /\ end,
             optimize |-> P.last /\ e = "BREAK", lost |-> lost]
        macro(U) == [m \in DOMAIN U |->
            entry(U[m], m = Len(U), "instr" \in Range(U) /\ Kind(P.k) = "bad")]
    IN  FlattenSeq([n \in DOMAIN P.T |->
            IF P.T[n] \in DOMAIN Macros THEN macro(Macros[P.T[n]])
                                        ELSE <<entry(P.T[n], n = Len(P.T), FALSE)>>])

Layout(A) == LET P == Parts(A) IN FlattenSeq([n \in DOMAIN P |-> Expand(P[n])])

\* Mutant: the jump of a patch does not end the epilogue.
StopsAtTransfer(f, k) ==
    isCFT(k, {"ret", "jmp"} \cup IF option_Ocall THEN {} ELSE {"call", "bad"})

\* An epilogue ends with a transfer of control, or before an instrumented
\* instruction; a neighbour that is only displaced is copied like any other.
Stops(f, k) ==
    \/ k \in f.is_patched \ f.is_evicted
    \/ isCFT(k, {"ret", "jmp"} \cup IF option_Ocall THEN {} ELSE {"call", "bad"})

\* The last instruction of the epilogue behind I, or NIL.
Epilogue(f, I) ==
    LET S == {k \in (I + 1)..N : Stops(f, k)}
        E == Min(S)
    IN  IF S # {} /\ E - I <= option_Oepilogue /\ SizeOf((I + 1)..(E - 1)) < option_Oepilogue_size
        THEN E ELSE NIL

Thin(f, x) == ~x.optimize \/ x.k \in f.no_optimize \/ Epilogue(f, x.k) = NIL

\* buildBreak() in mode BUILD_SIZE.
buildBreakSize(f, x) ==
    LET len(k) == IF k \in f.is_patched \ f.is_evicted THEN JMPQ ELSE Relocated(k)
    IN  IF x.fallthrough THEN 0
        ELSE IF Thin(f, x) THEN JMPQ
        ELSE MapThenSumSet(len, (x.k + 1)..Epilogue(f, x.k))

EntrySize(f, x) ==
    CASE x.e \in {"bytes", "data"} -> 1
      [] x.e = "label" -> 0
      [] x.e = "ref" -> 4
      [] x.e = "instr" -> Relocated(x.k)
      [] x.e \in {"break", "BREAK"} -> buildBreakSize(f, x)

\* The size that is allocated, or -1.
getTrampolineSize(f, A) ==
    LET X == Layout(A)
        size(x) == IF ~x.lost THEN EntrySize(f, x) ELSE IF x.e = "instr" THEN -1 ELSE 0
    IN  IF \E n \in DOMAIN X : X[n].e = "instr" /\ Kind(X[n].k) = "bad" /\ ~X[n].lost
        THEN -1
        ELSE Sum([n \in DOMAIN X |-> size(X[n])])

getTrampolinePrologueSize(I) ==
    LET P == Prologue(I) IN Sum([n \in DOMAIN P |-> Relocated(P[n])])

\* A trampoline for I, or for the batch I..last, sized under the flags f.
Allocation(f, I, last, T) ==
    LET A == [I |-> I, last |-> last, T |-> T]
    IN  [I |-> I, last |-> last, T |-> T, entry |-> getTrampolinePrologueSize(I),
         size |-> getTrampolinePrologueSize(I) + getTrampolineSize(f, A)]
Constructible(f, I, last, T) == getTrampolineSize(f, [I |-> I, last |-> last, T |-> T]) >= 0

-----------------------------------------------------------------------------
\* The outcomes of patch() for I.

Init ==
    /\ prog \in Programs
    /\ template \in Templates
    /\ wanted \in Requests
    /\ cursor = N + 1
    /\ flags = [is_patched |-> {}, is_evicted |-> {}, no_optimize |-> {}]
    /\ Es = buildEntrySet(prog, wanted)
    /\ allocs = <<>>
    /\ divert = [k \in Instrs |-> NIL]
    /\ instrumented = {}
    /\ flat = <<>>
    /\ jumps = [k \in Instrs |-> IF prog[k].to = NIL THEN NOWHERE ELSE Main(prog[k].to)]
    /\ phase = "patch"

Queued == {k \in wanted : k < cursor /\ k \notin flags.is_patched}
Patched(k) == k \in flags.is_patched
Short(k) == prog[k].size < JMPQ

\* The constructor of Patch marks I, as evicted if its trampoline is an evictee's.
Mark(f, S) == [f EXCEPT !.is_patched = @ \cup S]

\* Mutant: a displaced neighbour is only marked as evicted.
EvictOnly(f, J) == [f EXCEPT !.is_evicted = @ \cup {J}]

Evict(f, J) == [f EXCEPT !.is_patched = @ \cup {J}, !.is_evicted = @ \cup {J}]

\* commit(): the new allocations, where they are entered, and by which jumps.
commit(f, new, S) ==
    LET at(k) == CHOOSE n \in DOMAIN new : new[n].I = k
        set(E, n) == setTrampolineEntry(E, new[n].I, <<Len(allocs) + n, new[n].entry>>)
    IN  /\ flags' = f
        /\ allocs' = allocs \o new
        /\ Es' = FoldLeft(set, Es, [n \in DOMAIN new |-> n])
        /\ divert' = [k \in Instrs |-> IF \E n \in DOMAIN new : new[n].I = k
                                       THEN Len(allocs) + at(k) ELSE divert[k]]
        /\ instrumented' = instrumented \cup S
        /\ UNCHANGED <<program, code, phase>>

\* A jump or a trap in place of I (B0, B1, B2, T1).
tactic_B(I) ==
    /\ Constructible(flags, I, I, template)
    /\ commit(Mark(flags, {I}), <<Allocation(flags, I, I, template)>>, {I})

\* T2: the successor is evicted first.
tactic_T2(I) ==
    LET J == I + 1
        f == Evict(flags, J)
    IN  /\ Short(I) /\ J <= N /\ ~Patched(J) /\ Short(J)
        /\ Constructible(flags, J, J, evicteeTrampoline) /\ Constructible(f, I, I, template)
        /\ commit(Mark(f, {I}), <<Allocation(flags, J, J, evicteeTrampoline),
                                  Allocation(f, I, I, template)>>, {I})

\* Mutant: a neighbour in front of I keeps its epilogue.
KeepOptimized(f, I, J) == f

\* A neighbour in front of I is evicted without an epilogue.
NoOptimize(f, I, J) == IF J < I THEN [f EXCEPT !.no_optimize = @ \cup {J}] ELSE f

\* T3: the jump to I's trampoline is put into J, which is evicted unless the
\* bytes were free.
tactic_T3(I, J) ==
    LET f == NoOptimize(flags, I, J)
    IN  /\ Short(I) /\ J # I /\ J \notin Queued
        /\ J < I => prog[I].size = 1 \/ SizeOf(J..(I - 1)) > JMPQ
        /\ Constructible(f, I, I, template)
        /\ IF Patched(J)
           THEN commit(Mark(f, {I}), <<Allocation(f, I, I, template)>>, {I})
           ELSE /\ prog[J].size > 1
                /\ Constructible(f, J, J, evicteeTrampoline)
                /\ commit(Mark(Evict(f, J), {I}), <<Allocation(f, I, I, template),
                                Allocation(f, J, J, evicteeTrampoline)>>, {I})

\* Possible targets of jumps, as targetAnalysis() finds them.
Target(k) ==
    \/ k = 1
    \/ \E n \in Instrs : prog[n].to = k
    \/ k > 1 /\ Kind(k - 1) \in {"jcc", "call", "bad"}
    \/ k > 1 /\ Kind(k - 1) = "jmp" /\ Short(k - 1)

\* The batch of T0 around I.
BatchStart(I) == Min({J \in 1..I : /\ I - J <= T0_LIMIT
                                   /\ \A k \in (J + 1)..I : ~Target(k)
                                   /\ \A k \in J..(I - 1) : ~Patched(k)})
BatchEnd(I) ==
    LET before == {k \in BatchStart(I)..I : ~Target(k) /\ I - k < T0_LIMIT}
    IN  Max({L \in I..N : \A k \in (I + 1)..L :
                /\ ~Target(k) /\ ~Patched(k)
                /\ SizeOf(before) + SizeOf((I + 1)..(k - 1)) < JMPQ
                /\ k - 1 > I => ~isCFT(k - 1, {"call", "bad", "ret", "jmp"})})

\* T0: one trampoline for several instructions, which all count as patched.
tactic_T0(I) ==
    LET J == BatchStart(I)
        L == BatchEnd(I)
        f == Mark(flags, J..L)
    IN  /\ J # L
        /\ Constructible(f, J, L, RAW)
        /\ commit(f, <<Allocation(f, J, L, RAW)>>, wanted \cap (J..L))

patch ==
    /\ phase = "patch" /\ Queued # {}
    /\ LET I == Max(Queued)
       IN  /\ cursor' = I
           /\ \/ tactic_T0(I)
              \/ tactic_B(I)
              \/ tactic_T2(I)
              \/ \E J \in Instrs : tactic_T3(I, J)
              \/ UNCHANGED <<program, code, phase, flags, Es, allocs, divert, instrumented>>

-----------------------------------------------------------------------------
\* Code generation.  An item of generated code is bytes of the template ("user",
\* "data", "ref"), the copy of an instruction, a jump that returns to the main
\* code, or fill; saved: optimizeAllJumps() will look at it.

Item(what, k, to, len, saved) ==
    [what |-> what, k |-> k, to |-> to, len |-> len, saved |-> saved /\ option_Opeephole]
Copy(k, saved) ==
    Item("copy", k, IF prog[k].to = NIL THEN NOWHERE ELSE Main(prog[k].to),
         Relocated(k), saved /\ Kind(k) = "jmp")
Fill(n) == IF n > 0 THEN <<Item("fill", NIL, NOWHERE, n, FALSE)>> ELSE <<>>
Length(s) == Sum([n \in DOMAIN s |-> s[n].len])

\* The instructions ks cannot all be copied; far: the trampoline is out of
\* reach of their operands.
Refused(ks, far) == \E k \in ks : Kind(k) = "bad" \/ (far /\ PcRelative(k))

\* buildBreak() in mode BUILD_BYTES; to: where a jump instead of the epilogue leads.
buildBreak(f, x, to, far) ==
    LET E == Epilogue(f, x.k)
        stop == E \in f.is_patched \ f.is_evicted
        copied == (x.k + 1)..(IF stop THEN E - 1 ELSE E)
        jump(k, dest) == <<Item("jmp", k, dest, JMPQ, k < N)>>
    IN  IF x.fallthrough THEN <<>>
        ELSE IF Thin(f, x) \/ Refused(copied, far) THEN jump(x.k, to)
        ELSE [n \in 1..Cardinality(copied) |-> Copy(x.k + n, TRUE)]
             \o (IF stop THEN jump(E - 1, Main(E)) ELSE <<>>)

\* buildLabelSet(): how far the entries S of A reach, when the instructions in lost
\* cannot be relocated.
buildLabelSet(A, lost, S) ==
    LET X == Layout(A)
        size(n) == IF X[n].e = "instr" /\ X[n].k \in lost THEN -1 ELSE EntrySize(flags, X[n])
    IN  A.entry + MapThenSumSet(size, S)

Label(A, lost, k) ==
    LET X == Layout(A)
        n == CHOOSE n \in DOMAIN X : X[n].e = "label" /\ X[n].k = k
    IN  buildLabelSet(A, lost, 1..(n - 1))

\* Where "$break" leads: inside a batch, to the next instruction of the batch.
BreakTarget(a, A, lost, k) ==
    LET X == Layout(A)
    IN  IF k < A.last THEN <<a, buildLabelSet(A, lost, {n \in DOMAIN X : X[n].k <= k})>>
        ELSE Main(k + 1)

buildBytes(a, A, far, lost) ==
    LET X == Layout(A)
        items(x) ==
            CASE x.e \in {"bytes", "data"} ->
                    <<Item(IF x.e = "bytes" THEN "user" ELSE "data", x.k, NOWHERE, 1, FALSE)>>
              [] x.e = "label" -> <<>>
              [] x.e = "ref" -> <<Item("ref", x.k, <<a, Label(A, lost, x.k)>>, 4, FALSE)>>
              [] x.e = "instr" ->
                    IF x.k \in lost \/ Kind(x.k) = "bad" THEN <<>> ELSE <<Copy(x.k, FALSE)>>
              [] x.e \in {"break", "BREAK"} ->
                    buildBreak(flags, x, BreakTarget(a, A, lost, x.k), far)
    IN  FlattenSeq([n \in DOMAIN X |-> items(X[n])])

buildPrologue(A, far) ==
    LET P == Prologue(A.I)
    IN  IF Refused(Range(P), far) THEN Fill(A.entry)
        ELSE [n \in DOMAIN P |-> Copy(P[n], TRUE)]

\* The entries of the copies in a prologue.
PrologueEntries(E, a, A, far) ==
    LET P == Prologue(A.I)
        off(n) == Sum([m \in 1..(n - 1) |-> Relocated(P[m])])
    IN  IF Refused(Range(P), far) THEN E
        ELSE FoldLeft(LAMBDA F, n : setTrampolineEntry(F, P[n], <<a, off(n)>>), E,
                      [n \in DOMAIN P |-> n])

flattenTrampoline(a, A, farpro, farepi, lost) ==
    LET body == buildBytes(a, A, farepi, lost)
    IN  buildPrologue(A, farpro) \o body \o Fill(A.size - A.entry - Length(body))

\* Instructions of a batch whose operand may be out of the trampoline's reach:
\* makeBounds() looks at that of the first only.
Distant(A) ==
    IF Near THEN {} ELSE {k \in (A.I + 1)..A.last : PcRelative(k)}

\* error(): the code is longer than the allocation, or an instruction of a
\* batch cannot be relocated.
FlattenError(A, lost) ==
    \/ buildLabelSet(A, lost, DOMAIN Layout(A)) - A.entry > A.size
    \/ lost \ wanted # {}

\* Prologues and epilogues with an operand that may be out of reach.
MayBeFar ==
    {<<a, "prologue">> : a \in {a \in DOMAIN allocs : Refused(Range(Prologue(allocs[a].I)), TRUE)}}
    \cup {<<a, "epilogue">> : a \in {a \in DOMAIN allocs :
            Refused((allocs[a].last + 1)..Epilogue(flags, allocs[a].last), TRUE)}}

flattenAllTrampolines ==
    /\ phase = "patch" /\ Queued = {}
    /\ \E far \in SUBSET MayBeFar,
          lost \in SUBSET (UNION {Distant(allocs[a]) : a \in DOMAIN allocs}) :
        LET L(a) == lost \cap Distant(allocs[a])
        IN  IF \E a \in DOMAIN allocs : FlattenError(allocs[a], L(a))
            THEN phase' = "error" /\ UNCHANGED <<flat, Es>>
            ELSE /\ phase' = "optimize"
                 /\ flat' = [a \in DOMAIN allocs |->
                        flattenTrampoline(a, allocs[a], <<a, "prologue">> \in far,
                                          <<a, "epilogue">> \in far, L(a))]
                 /\ Es' = FoldLeft(LAMBDA E, a : PrologueEntries(E, a, allocs[a], <<a, "prologue">> \in far),
                                   Es, [a \in DOMAIN allocs |-> a])
    /\ UNCHANGED <<program, cursor, flags, allocs, divert, instrumented, jumps>>

-----------------------------------------------------------------------------
\* -Opeephole.

\* Where optimizeJump() makes a jump to location loc lead.
optimizeJump(J, loc) ==
    IF loc[1] # 0 \/ loc[2] > N THEN loc
    ELSE LET k == loc[2]
         IN  IF getTrampolineEntry(k) # NOWHERE THEN getTrampolineEntry(k)
             ELSE IF Kind(k) = "jmp" /\ ~Patched(k) THEN J[k]
             ELSE loc

\* A jump to the next byte becomes a NOP.
OptimizeItem(a, n) ==
    LET x == flat[a][n]
        to == optimizeJump(jumps, x.to)
        after == <<a, Length(SubSeq(flat[a], 1, n))>>
    IN  IF ~x.saved THEN x
        ELSE IF to = after THEN [x EXCEPT !.what = "nop", !.to = NOWHERE]
        ELSE [x EXCEPT !.to = to]

\* Jumps of the main code that are wide enough, unless a punned jump locks them.
Wide32(k) == \/ Kind(k) \in {"jmp", "call"} /\ prog[k].size = JMPQ
             \/ Kind(k) = "jcc" /\ prog[k].size = JMPQ + 1
Punnable == {k \in 2..N : ~Patched(k) /\ Wide32(k) /\ Patched(k - 1) /\ Short(k - 1)}

optimizeAllJumps ==
    /\ phase = "optimize"
    /\ phase' = "done"
    /\ IF option_Opeephole
       THEN /\ flat' = [a \in DOMAIN flat |-> [n \in DOMAIN flat[a] |-> OptimizeItem(a, n)]]
            /\ \E locked \in SUBSET Punnable :
                 jumps' = FoldLeft(LAMBDA J, k : IF ~Patched(k) /\ Wide32(k) /\ k \notin locked
                                                 THEN [J EXCEPT ![k] = optimizeJump(J, @)] ELSE J,
                                   jumps, [k \in Instrs |-> k])
       ELSE UNCHANGED <<flat, jumps>>
    /\ UNCHANGED <<program, cursor, flags, Es, allocs, divert, instrumented>>

Next == patch \/ flattenAllTrampolines \/ optimizeAllJumps

Spec == Init /\ [][Next]_vars

-----------------------------------------------------------------------------
\* What the code does: the events of executions, step by step.

Generated == phase \in {"optimize", "done"}

\* The item at a location of a trampoline, 0 if none begins there.
ItemAt(loc) ==
    LET s == flat[loc[1]]
        S == {n \in DOMAIN s : Length(SubSeq(s, 1, n - 1)) = loc[2] /\ s[n].len > 0}
    IN  IF S = {} THEN 0 ELSE Min(S)
After(loc) == <<loc[1], loc[2] + flat[loc[1]][ItemAt(loc)].len>>

\* Unconditional jumps, those of the program included, are followed silently.
RECURSIVE Settle(_, _)
Settle(loc, hops) ==
    IF hops = 0 THEN NOWHERE
    ELSE IF loc[1] = 0 THEN
        IF loc[2] <= N /\ divert[loc[2]] # NIL
        THEN Settle(<<divert[loc[2]], allocs[divert[loc[2]]].entry>>, hops - 1)
        ELSE IF loc[2] <= N /\ ~Patched(loc[2]) /\ Kind(loc[2]) = "jmp"
        THEN Settle(jumps[loc[2]], hops - 1)
        ELSE loc
    ELSE IF ItemAt(loc) = 0 THEN NOWHERE
    ELSE LET x == flat[loc[1]][ItemAt(loc)]
         IN  CASE x.what = "jmp" \/ (x.what = "copy" /\ Kind(x.k) = "jmp") -> Settle(x.to, hops - 1)
               [] x.what = "nop" -> Settle(After(loc), hops - 1)
               [] OTHER -> loc

Hops == 3 * (N + 1)
Prefixed(e, S) == {<<e>> \o r : r \in S}

\* The executions of n steps from loc in the patched program.
RECURSIVE Runs(_, _)
Runs(loc, n) ==
    IF n = 0 THEN {<<>>}
    ELSE LET l == Settle(loc, Hops)
             main == l # NOWHERE /\ l[1] = 0
             x == IF main THEN Item("copy", l[2], jumps[l[2]], prog[l[2]].size, FALSE)
                  ELSE flat[l[1]][ItemAt(l)]
             next == IF main THEN Main(l[2] + 1) ELSE After(l)
             from(k) == CASE Kind(k) = "ret" -> {<<>>}
                          [] Kind(k) = "jcc" -> Runs(x.to, n - 1) \cup Runs(next, n - 1)
                          [] Kind(k) = "call" -> Runs(x.to, n - 1) \cup
                                Runs(IF option_Ocall THEN next ELSE Main(k + 1), n - 1)
                          [] Kind(k) = "bad" -> Runs(IF option_Ocall THEN next ELSE Main(k + 1), n - 1)
                          [] OTHER -> Runs(next, n - 1)
         IN  IF l = NOWHERE THEN {<< <<"lost", NIL>> >>}
             ELSE IF main /\ l[2] > N THEN {<< <<"out", NIL>> >>}
             ELSE IF main /\ Patched(l[2]) THEN {<< <<"overwritten", l[2]>> >>}
             ELSE IF x.what = "copy" THEN Prefixed(<<"copy", x.k>>, from(x.k))
             ELSE IF x.what \in {"user", "ref"} THEN Prefixed(<<x.what, x.k>>, Runs(next, n - 1))
             ELSE {<< <<"lost", x.k>> >>}

\* What instruction k stands for: its template up to the "$break", or itself.
Script(k) ==
    LET X == Expand(Part(k, template, TRUE))
        upto == SelectInSeq(X, LAMBDA x : x.e \in {"break", "BREAK"})
        seen == SelectSeq(SubSeq(X, 1, upto - 1), LAMBDA x : x.e # "label")
        event(x) == CASE x.e = "bytes" -> "user" [] x.e = "instr" -> "copy" [] OTHER -> x.e
    IN  IF k \in instrumented THEN [n \in DOMAIN seen |-> event(seen[n])] ELSE <<"copy">>

\* The executions of n steps of the original program with the instrumentation
\* inserted, from step m of instruction k.
RECURSIVE Intended(_, _, _, _)
Intended(k, m, n, hops) ==
    IF n = 0 THEN {<<>>}
    ELSE IF hops = 0 THEN {<< <<"lost", NIL>> >>}
    ELSE IF k > N THEN {<< <<"out", NIL>> >>}
    ELSE IF m > Len(Script(k)) THEN Intended(k + 1, 1, n, hops)
    ELSE LET e == Script(k)[m]
             from(i, j) == Intended(i, j, n - 1, Hops)
             return == IF option_Ocall THEN from(k, m + 1) ELSE from(k + 1, 1)
         IN  IF e = "copy" /\ Kind(k) = "jmp" THEN Intended(prog[k].to, 1, n, hops - 1)
             ELSE Prefixed(<<e, k>>,
                CASE e # "copy" \/ Kind(k) \in {"seq", "rip"} -> from(k, m + 1)
                  [] e = "copy" /\ Kind(k) = "ret" -> {<<>>}
                  [] e = "copy" /\ Kind(k) = "jcc" -> from(prog[k].to, 1) \cup from(k, m + 1)
                  [] e = "copy" /\ Kind(k) = "call" -> from(prog[k].to, 1) \cup return
                  [] e = "copy" /\ Kind(k) = "bad" -> return)

-----------------------------------------------------------------------------
\* Properties.

\* Allocations, entries and generated items are of their types, and an entry
\* lies inside its trampoline.
TypeOK ==
    /\ cursor \in 1..(N + 1)
    /\ flags.is_evicted \subseteq flags.is_patched
    /\ \A f \in DOMAIN flags : flags[f] \subseteq Instrs
    /\ \A a \in DOMAIN allocs : allocs[a].entry \in 0..allocs[a].size
    /\ divert \in [Instrs -> 0..Len(allocs)]
    /\ \A k \in Instrs :
        LET e == Es[k].entry
        IN  e # NOWHERE => e[1] \in DOMAIN allocs /\ e[2] \in 0..(allocs[e[1]].size - 1)
    /\ instrumented \subseteq wanted
    /\ phase \in {"patch", "optimize", "done", "error"}

\* The size of a trampoline is fixed when it is allocated, in the middle of
\* patching.  Whatever is patched, evicted or batched afterwards, its code
\* still fits when it is generated: flattenTrampoline() neither fails nor runs
\* over the end (its assert), and it fills the allocation exactly.
Fits ==
    /\ phase # "error"
    /\ \A a \in DOMAIN flat : Length(flat[a]) = allocs[a].size

\* The patched program does what the original one does with the instrumentation
\* inserted: from every instruction of the main code that can still be reached,
\* the same executions.  No prologue, epilogue, batch or redirected jump skips
\* or repeats an instruction or an instrumentation, or arrives in overwritten
\* bytes.
Behaves ==
    Generated => \A k \in Instrs :
        ~Patched(k) \/ divert[k] # NIL => Runs(Main(k), Steps) = Intended(k, 1, Steps, Hops)

\* A label of a template stands for the place where the code behind it begins
\* ("This wastes a few bytes but is otherwise harmless").
Labels ==
    Generated => \A a \in DOMAIN flat : \A n \in DOMAIN flat[a] :
        LET x == flat[a][n]
        IN  x.what = "ref" => ItemAt(x.to) # 0 /\ flat[a][ItemAt(x.to)].what = "data"
=============================================================================
