------------------------------ MODULE Tactics -------------------------------
(***************************************************************************)
(* The heart of E9Patch (e9tactics.cpp, with the patch queue of e9api.cpp  *)
(* that drives it): instructions are replaced in place by jumps to         *)
(* trampolines.  A jump that is longer than its instruction is "punned"    *)
(* with the bytes of the instructions that follow, which are then locked;  *)
(* if no trampoline address fits the pun, neighbours are evicted to        *)
(* trampolines of their own.  Tactics are tried in a fixed order, and one  *)
(* that fails half-way is undone from its chain of patches.                *)
(*                                                                         *)
(* Bytes are digits in base BYTE and displacements have REL of them, so    *)
(* that the arithmetic of punning is that of rel8 and rel32 at a smaller   *)
(* scale.  The allocator is the one VirtualSpace specifies: any free       *)
(* address inside the bounds, or failure if there is none.                 *)
(***************************************************************************)
EXTENDS Integers, Sequences

CONSTANTS
    BYTE, REL,                         \* 256 and sizeof(int32_t)
    JMP, SHORT, PREFIX, INT3, TRAP,    \* opcodes: jmpq, jmp short, a redundant
                                       \* prefix, int3, the illegal instruction
    PATCH_MAX,                         \* bytes saved by a Patch
    Code,                              \* the instructions, in order of address
    Contents,                          \* the bytes that the code may have
    Wanted,                            \* instructions the frontend may want patched
    Space,                             \* addresses at which a trampoline can be
    TRAMPOLINE_MAX, TemplateLb, TemplateUb,
    T0_LIMIT, MaxInstr, Extra,         \* the look-ahead of queueFlush()
    option_batch, option_OCFR, option_tactic_B0, option_tactic_B1, option_tactic_B2,
    option_tactic_T0, option_tactic_T1, option_tactic_T2, option_tactic_T3,
    option_tactic_backward_T3

Instr == [addr : Nat, size : 1..MaxInstr, target : BOOLEAN, cft : BOOLEAN,
          pcrel32_idx : Nat, pcrel8_idx : Nat]

Instrs == DOMAIN Code
NIL == 0                     \* no instruction (nullptr), no allocation

Addr(I) == Code[I].addr
Size(I) == Code[I].size
Bytes(I) == Addr(I)..(Addr(I) + Size(I) - 1)
End == Addr(Len(Code)) + Size(Len(Code))

JMP_SIZE == REL + 1
SHORT_SIZE == 2
SHORT_JMP_MAX == (BYTE \div 2) - 1
SHORT_JMP_MIN == -(BYTE \div 2)
Half == BYTE^REL \div 2      \* INT32_MAX is Half - 1, INT32_MIN is -Half

\* The code and, behind it, bytes that belong to no known instruction.
Mem == 0..(End + PATCH_MAX)

Digits == 0..(BYTE - 1)

\* Instructions do not overlap; there may be gaps between them.
ASSUME CodeAssumption ==
    /\ MaxInstr \in Nat \ {0}
    /\ Code \in Seq(Instr) /\ Code # <<>>
    /\ \A I \in 1..(Len(Code) - 1) : Addr(I) + Size(I) <= Addr(I + 1)
    /\ Wanted \subseteq Instrs

ASSUME MachineAssumption ==
    /\ BYTE \in Nat /\ REL \in Nat \ {0}
    /\ \A k \in 0..REL : BYTE^k \in Nat \ {0}
    /\ Half \in Nat \ {0}
    /\ {JMP, SHORT, PREFIX, INT3, TRAP} \subseteq Digits
    /\ PATCH_MAX \in Nat /\ MaxInstr + REL + 1 <= PATCH_MAX
    /\ Contents \subseteq [0..(End - 1) -> Digits]
    /\ Space \subseteq Int /\ NIL \notin Space

\* Opcodes differ, and bytes have as many negative as other values.  (The last two are
\* facts of arithmetic that provers do not know.)
ASSUME EncodingAssumption ==
    /\ JMP # PREFIX /\ SHORT \notin {PREFIX, JMP} /\ TRAP \notin {PREFIX, JMP, SHORT}
    /\ BYTE % 2 = 0
    /\ BYTE^0 = 1
    /\ \A k \in 0..(REL - 1) : BYTE^(k + 1) = BYTE * BYTE^k

ASSUME OptionAssumption ==
    /\ T0_LIMIT \in Nat /\ Extra \in Nat
    /\ option_batch \in BOOLEAN

VARIABLES
    ORIG,      \* the original bytes of the code
    m,         \* what the tactics change: bytes, their states, allocations, flags
    chain,     \* the patches of the tactic in progress, the latest first
    pc,        \* where patch() is
    known,     \* the instruction of the last "instruction" message: the lowest so far
    before,    \* m when patch() was called; between calls, m
    Q,         \* the queue of patch messages, the oldest first
    cursor,    \* address of the last patch message (not kept in batch mode)
    asked,     \* instructions for which a patch message has arrived
    emitted,   \* the "emit" message has arrived
    Es,        \* trampoline entries of committed patches
    Traps,     \* instructions patched with an illegal instruction
    batched,   \* instructions inside a committed T0 batch
    failed     \* instructions that could not be patched

vars == <<ORIG, known, m, chain, pc, before, Q, cursor, asked, emitted, Es, Traps, batched, failed>>

-----------------------------------------------------------------------------
\* Bytes and their states.

\* The instructions that the frontend has announced.
Known == known..Len(Code)

\* The neighbours that are adjacent to I.
succ(I) == IF I = Len(Code) THEN NIL
           ELSE IF Addr(I) + Size(I) = Addr(I + 1) THEN I + 1 ELSE NIL
pred(I) == IF I = known THEN NIL
           ELSE IF Addr(I - 1) + Size(I - 1) = Addr(I) THEN I - 1 ELSE NIL

\* The state of byte a is one of S and it is not locked.
Is(s, a, S) == s.state[a] \in S /\ a \notin s.locked

SByte(b) == IF b >= BYTE \div 2 THEN b - BYTE ELSE b

\* The displacement stored, low byte first, in the REL bytes from a on.
URel(f, a) == LET V[k \in 0..REL] == IF k = 0 THEN 0 ELSE V[k-1] + f[a+k-1] * BYTE^(k-1)
              IN  V[REL]
Signed(u) == IF u >= Half THEN u - 2 * Half ELSE u

\* Byte k of the encoding of displacement rel.
RelByte(rel, k) == ((rel % (2 * Half)) \div BYTE^k) % BYTE

Max2(x, y) == IF x >= y THEN x ELSE y
Least(S) == CHOOSE x \in S : \A y \in S : x <= y

\* Function f with the value v at the points in w.
Fill(f, w, v) == [a \in DOMAIN f |-> IF a \in w THEN v ELSE f[a]]

-----------------------------------------------------------------------------
\* Patches: what a tactic saves before it changes anything, and undo().

\* The bytes that a patch of I saves.
Saved(I) == Addr(I)..(Addr(I) + PATCH_MAX - 1)

\* What is saved of byte a.
Cell(s, a) == [byte |-> s.byte[a], state |-> s.state[a], lock |-> a \in s.locked]

NewPatch(s, I, A) ==
    [I |-> I, A |-> A, is_patched |-> I \in s.patched,
     orig |-> [o \in 0..(PATCH_MAX - 1) |-> Cell(s, Addr(I) + o)]]

\* What patch P has saved of byte a.
Orig(P, a) == P.orig[a - Addr(P.I)]

\* The constructor also marks the instruction.
Mark(s, I, evictee) ==
    [s EXCEPT !.patched = @ \cup {I}, !.evicted = IF evictee THEN @ \cup {I} ELSE @]

\* Mutant: the state of the bytes is restored, the bytes are not.
UndoOneStates(s, P) ==
    LET w == Saved(P.I)
    IN  [s EXCEPT
          !.patched = IF P.is_patched THEN @ \cup {P.I} ELSE @ \ {P.I},
          !.evicted = @ \ {P.I},
          !.state  = [a \in Mem |-> IF a \in w THEN Orig(P, a).state ELSE @[a]],
          !.locked = (@ \ w) \cup {a \in w : Orig(P, a).lock},
          !.used   = @ \ {P.A}]

\* Mutant: the bytes are restored, their states are not.
UndoOneBytes(s, P) ==
    [s EXCEPT
        !.patched = IF P.is_patched THEN @ \cup {P.I} ELSE @ \ {P.I},
        !.evicted = @ \ {P.I},
        !.byte   = [a \in Mem |-> IF a \in Saved(P.I) THEN Orig(P, a).byte ELSE @[a]],
        !.used   = @ \ {P.A}]

\* Mutant: the allocation is not given back.
UndoOneLeaks(s, P) ==
    LET w == Saved(P.I)
    IN  [s EXCEPT
          !.patched = IF P.is_patched THEN @ \cup {P.I} ELSE @ \ {P.I},
          !.evicted = @ \ {P.I},
          !.byte   = [a \in Mem |-> IF a \in w THEN Orig(P, a).byte ELSE @[a]],
          !.state  = [a \in Mem |-> IF a \in w THEN Orig(P, a).state ELSE @[a]],
          !.locked = (@ \ w) \cup {a \in w : Orig(P, a).lock}]

\* Mutant: only the bytes of the instruction itself are restored.
UndoOneShort(s, P) ==
    LET w == Bytes(P.I)
    IN  [s EXCEPT
          !.patched = IF P.is_patched THEN @ \cup {P.I} ELSE @ \ {P.I},
          !.evicted = @ \ {P.I},
          !.byte   = [a \in Mem |-> IF a \in w THEN Orig(P, a).byte ELSE @[a]],
          !.state  = [a \in Mem |-> IF a \in w THEN Orig(P, a).state ELSE @[a]],
          !.locked = (@ \ w) \cup {a \in w : Orig(P, a).lock},
          !.used   = @ \ {P.A}]

\* One turn of the loop of undo().
UndoOne(s, P) ==
    LET w == Saved(P.I)
    IN  [s EXCEPT
          !.patched = IF P.is_patched THEN @ \cup {P.I} ELSE @ \ {P.I},
          !.evicted = @ \ {P.I},
          !.byte   = [a \in Mem |-> IF a \in w THEN Orig(P, a).byte ELSE @[a]],
          !.state  = [a \in Mem |-> IF a \in w THEN Orig(P, a).state ELSE @[a]],
          !.locked = (@ \ w) \cup {a \in w : Orig(P, a).lock},
          !.used   = @ \ {P.A}]

-----------------------------------------------------------------------------
\* Room for a trampoline.

\* How many displacement bytes of a jump at offset prefix of I can be chosen.
FreeBytes(s, I, prefix) ==
    LET inside == Least({k \in (prefix + 1)..Size(I) :
                            k = Size(I) \/ ~Is(s, Addr(I) + k, {"INSTRUCTION", "FREE"})})
        size   == IF inside >= JMP_SIZE THEN inside
                  ELSE Least({k \in inside..JMP_SIZE :
                                k = JMP_SIZE \/ ~Is(s, Addr(I) + k, {"FREE"})})
    IN  size - prefix - 1

\* The displacement of a position-dependent instruction, as makeBounds() reads it.
PCRel(I) ==
    IF Code[I].pcrel32_idx # 0 THEN Signed(URel(ORIG, Addr(I) + Code[I].pcrel32_idx))
    ELSE SByte(ORIG[Addr(I) + Code[I].pcrel32_idx])

\* makeBounds(): the displacement bytes that cannot be chosen are those already
\* there, the trampoline can jump back, its template and the targets of the
\* relocated instruction are in range.
InBounds(s, I, prefix, trap, e) ==
    LET from   == Addr(I) + prefix + JMP_SIZE
        target == Addr(I) + Size(I) + PCRel(I)
    IN  /\ e - from \in -(Half - 1)..(Half - 1)
        /\ ~trap => \A k \in FreeBytes(s, I, prefix)..(REL - 1) :
                       RelByte(e - from, k) = s.byte[from - REL + k]
        /\ e <= from + Half - TRAMPOLINE_MAX
        /\ TemplateLb <= e /\ e <= TemplateUb
        /\ Code[I].pcrel32_idx # 0 \/ Code[I].pcrel8_idx # 0 =>
              target - (Half - 1) <= e /\ e <= target + Half - TRAMPOLINE_MAX

\* The addresses that allocate() may return for a trap.
allocateTrap(s, I) == {e \in Space \ s.used : InBounds(s, I, 0, TRUE, e)}

\* ... and for a jump: none if the jump would run into a queued instruction.
allocatePunnedJump(s, I, prefix) ==
    {e \in Space \ s.used :
        /\ \A k \in 0..JMP_SIZE : ~Is(s, Addr(I) + prefix + k, {"QUEUED"})
        /\ InBounds(s, I, prefix, FALSE, e)}

-----------------------------------------------------------------------------
\* Writing.

patchJumpPrefix(s, I, prefix) ==
    LET w == Addr(I)..(Addr(I) + prefix - 1)
    IN  [s EXCEPT !.byte = Fill(@, w, PREFIX), !.state = Fill(@, w, "PATCHED"),
                  !.locked = @ \ w]

\* Mutant: the bytes that the pun relies on are not locked.
patchJumpUnlocked(s, I, off, e) ==
    LET at    == Addr(I) + off
        rel   == e - (at + JMP_SIZE)
        mine  == {a \in (at + 1)..(at + REL) : a \in Bytes(I) \/ Is(s, a, {"FREE"})}
    IN  [s EXCEPT
          !.byte = [a \in Mem |-> IF a = at THEN JMP
                                  ELSE IF a \in mine THEN RelByte(rel, a - at - 1) ELSE @[a]],
          !.state = Fill(@, mine \cup {at}, "PATCHED"),
          !.locked = @ \ (mine \cup {at})]

\* A jump at offset off of I to e.  Inside I every byte is written; behind I
\* free bytes are written and all others, which the pun relies on, are locked.
patchJump(s, I, off, e) ==
    LET at    == Addr(I) + off
        rel   == e - (at + JMP_SIZE)
        disp  == (at + 1)..(at + REL)
        mine  == {a \in disp : a \in Bytes(I) \/ Is(s, a, {"FREE"})}
    IN  [s EXCEPT
          !.byte = [a \in Mem |-> IF a = at THEN JMP
                                  ELSE IF a \in mine THEN RelByte(rel, a - at - 1) ELSE @[a]],
          !.state = Fill(@, mine \cup {at}, "PATCHED"),
          !.locked = (@ \ (mine \cup {at})) \cup (disp \ mine)]

patchShortJump(s, I, to) ==
    LET a   == Addr(I)
        rel == to - (a + SHORT_SIZE)
    IN  [s EXCEPT !.byte = [@ EXCEPT ![a] = SHORT, ![a + 1] = rel % BYTE],
                  !.state = Fill(@, {a, a + 1}, "PATCHED"),
                  !.locked = @ \ {a, a + 1}]

\* The short jump of a one-byte instruction: its displacement is the next byte.
patchShortPunned(s, I) ==
    [s EXCEPT !.byte = Fill(@, {Addr(I)}, SHORT), !.state = Fill(@, {Addr(I)}, "PATCHED"),
              !.locked = (@ \ {Addr(I)}) \cup {Addr(I) + 1}]

patchTrap(s, I) ==
    [s EXCEPT !.byte = Fill(@, {Addr(I)}, TRAP), !.state = Fill(@, {Addr(I)}, "PATCHED"),
              !.locked = @ \ {Addr(I)}]

\* The rest of the instruction becomes free memory.
patchUnused(s, I, off) ==
    LET w == {a \in Bytes(I) : a >= Addr(I) + off /\ Is(s, a, {"INSTRUCTION", "QUEUED"})}
    IN  [s EXCEPT !.byte = Fill(@, w, INT3), !.state = Fill(@, w, "FREE")]

canPatch(s, I) == Is(s, Addr(I), {"INSTRUCTION", "FREE"})

-----------------------------------------------------------------------------
\* The queue of patch messages.

\* Mutant: the look-ahead covers the longest instruction only.
WindowShort == MaxInstr

\* How far the queue lags behind the messages.
Window == Max2(T0_LIMIT * MaxInstr, SHORT_JMP_MAX + 2 + MaxInstr) + Extra

\* Where patch() is.  I is its instruction; J is the instruction that a basic
\* tactic is being tried on, and task says what for; i is the offset in J of a
\* jump that tactic T3 has put there, and to is where it goes.  (While T0 frees a
\* batch, J is the instruction to free and i the first of the batch.)
Idle == [at |-> "idle", task |-> "none", I |-> NIL, J |-> NIL, i |-> NIL, to |-> NIL]

At(where) == [pc EXCEPT !.at = where]

Init ==
    /\ ORIG \in Contents /\ known = Len(Code) + 1
    /\ m = [byte   |-> [a \in Mem |-> IF a < End THEN ORIG[a] ELSE 0],
            state  |-> [a \in Mem |-> "UNKNOWN"],
            locked |-> {}, used |-> {}, patched |-> {}, evicted |-> {},
            no_optimize |-> {}]
    /\ chain = <<>> /\ pc = Idle /\ before = m
    /\ Q = <<>> /\ cursor = End /\ asked = {} /\ emitted = FALSE
    /\ Es = [I \in Instrs |-> NIL] /\ Traps = {} /\ batched = {} /\ failed = {}

\* The loop of queueFlush() has an entry to take.
Flushable ==
    /\ Q # <<>>
    /\ emitted \/ (~option_batch /\ Addr(Head(Q)) > cursor + Window)

\* An "instruction" message; they come in reverse order of address.
parseInstruction ==
    /\ pc = Idle /\ ~emitted /\ ~Flushable
    /\ known > 1
    /\ known' = known - 1
    /\ \A a \in Bytes(known') : Is(m, a, {"UNKNOWN"})
    /\ m' = [m EXCEPT !.state = Fill(@, Bytes(known'), "INSTRUCTION")]
    /\ before' = m'
    /\ UNCHANGED <<ORIG, chain, pc, Q, cursor, asked, emitted, Es, Traps, batched, failed>>

\* A "patch" message.  Unless the binary is rewritten in one batch, messages come
\* in reverse order of address.
queuePatch(I) ==
    /\ pc = Idle /\ ~emitted /\ ~Flushable
    /\ I \in Known /\ I \notin asked
    /\ option_batch \/ Addr(I) < cursor
    /\ m' = [m EXCEPT !.state = Fill(@, Bytes(I), "QUEUED"), !.locked = @ \ Bytes(I)]
    /\ Q' = Append(Q, I)
    /\ asked' = asked \cup {I}
    /\ cursor' = IF option_batch THEN cursor ELSE Addr(I)
    /\ before' = m'
    /\ UNCHANGED <<ORIG, known, chain, pc, emitted, Es, Traps, batched, failed>>

\* The "emit" message flushes what is left.
emit ==
    /\ pc = Idle /\ ~emitted /\ ~Flushable
    /\ emitted' = TRUE
    /\ UNCHANGED <<ORIG, known, m, chain, pc, before, Q, cursor, asked, Es, Traps, batched, failed>>

\* queueFlush() takes the oldest entry and calls patch().
Dequeue ==
    /\ pc = Idle /\ Flushable
    /\ Is(m, Addr(Head(Q)), {"QUEUED"})
    /\ LET I == Head(Q)
       IN  /\ m' = [m EXCEPT !.state = Fill(@, Bytes(I), "INSTRUCTION"), !.locked = @ \ Bytes(I)]
           /\ pc' = [Idle EXCEPT !.at = "T0", !.I = I, !.J = I]
    /\ before' = m'
    /\ Q' = Tail(Q)
    /\ UNCHANGED <<ORIG, known, chain, cursor, asked, emitted, Es, Traps, batched, failed>>

\* An entry in any other state is taken to be part of a T0 batch.
DequeueBatched ==
    /\ pc = Idle /\ Flushable
    /\ ~Is(m, Addr(Head(Q)), {"QUEUED"})
    /\ Q' = Tail(Q)
    /\ UNCHANGED <<ORIG, known, m, chain, pc, before, cursor, asked, emitted, Es, Traps, batched, failed>>

\* A step of patch() that does not finish it.
Within == UNCHANGED <<ORIG, known, before, Q, cursor, asked, emitted, Es, Traps, batched, failed>>

\* The last steps of patch(): the patches of chain c are final.
Finish(c) ==
    /\ Es' = [I \in Instrs |->
                LET mine == {k \in DOMAIN c : c[k].I = I /\ c[k].A # NIL}
                IN  IF mine = {} THEN Es[I] ELSE c[CHOOSE k \in mine : \A l \in mine : k >= l].A]
    /\ chain' = <<>>
    /\ pc' = Idle
    /\ before' = m'
    /\ UNCHANGED <<ORIG, known, Q, cursor, asked, emitted, failed>>

-----------------------------------------------------------------------------
\* Basic tactics: B1, B2 and T1 replace instruction pc.J by a jump, to its own
\* trampoline or, if it is being evicted, to one that only relocates it.

Jump(prefix, e, unused) ==
    LET s1 == Mark([m EXCEPT !.used = @ \cup {e}], pc.J, pc.task \in {"evict2", "evict3"})
        s2 == patchJump(patchJumpPrefix(s1, pc.J, prefix), pc.J, prefix, e)
    IN  /\ m' = patchUnused(s2, pc.J, unused)
        /\ chain' = <<NewPatch(m, pc.J, e)>> \o chain
        /\ pc' = At("won")

\* The tactic is not applicable, or there is no room: try the next.
Otherwise(where) == pc' = At(where) /\ UNCHANGED <<m, chain>>

RoomB1 == IF Size(pc.J) < JMP_SIZE \/ ~option_tactic_B1 \/ ~canPatch(m, pc.J) THEN {}
          ELSE allocatePunnedJump(m, pc.J, 0)

tactic_B1 ==
    /\ pc.at = "B1"
    /\ \/ \E e \in RoomB1 : Jump(0, e, JMP_SIZE)
       \/ RoomB1 = {} /\ Otherwise("B2")
    /\ Within

RoomB2 == IF Size(pc.J) >= JMP_SIZE \/ ~option_tactic_B2 \/ ~canPatch(m, pc.J) THEN {}
          ELSE allocatePunnedJump(m, pc.J, 0)

tactic_B2 ==
    /\ pc.at = "B2"
    /\ \/ \E e \in RoomB2 : Jump(0, e, Size(pc.J))
       \/ RoomB2 = {} /\ Otherwise("T1")
    /\ Within

\* The numbers of prefixes that leave room for the jump.
PrefixCounts ==
    {p \in 1..(REL - 1) :
        /\ Size(pc.J) < JMP_SIZE /\ option_tactic_T1 /\ canPatch(m, pc.J)
        /\ p < Size(pc.J)
        /\ \A q \in 1..p : Is(m, Addr(pc.J) + q, {"INSTRUCTION", "FREE"})
        /\ allocatePunnedJump(m, pc.J, p) # {}}

tactic_T1 ==
    /\ pc.at = "T1"
    /\ \/ \E p \in PrefixCounts :
             /\ \A q \in PrefixCounts : p <= q
             /\ \E e \in allocatePunnedJump(m, pc.J, p) : Jump(p, e, Size(pc.J))
       \/ PrefixCounts = {} /\ Otherwise("lost")
    /\ Within

\* The tactic succeeded.
commit ==
    /\ pc.at = "won" /\ pc.task \in {"batch", "self", "self2"}
    /\ m' = m
    /\ Finish(chain)
    /\ batched' = IF pc.task = "batch" THEN batched \cup {chain[k].I : k \in DOMAIN chain}
                  ELSE batched
    /\ UNCHANGED Traps

\* The tactic failed: undo what it did so far, the latest patch first.  (T3 has
\* changed no_optimize as well, of the neighbour it tried.)
undo ==
    /\ pc.at = "lost" /\ chain # <<>>
    /\ m' = UndoOne([m EXCEPT !.no_optimize = before.no_optimize], Head(chain))
    /\ chain' = Tail(chain)
    /\ UNCHANGED pc /\ Within

\* Mutant: T3 starts again from the first neighbour after a failed eviction.
NextTacticRestarts ==
    /\ pc.at = "lost" /\ chain = <<>>
    /\ pc' = CASE pc.task = "batch" -> [pc EXCEPT !.at = "B1", !.task = "self", !.J = pc.I]
               [] pc.task = "self"  -> At("T2")
               [] OTHER -> [At("T3") EXCEPT !.J = Len(Code) + 1, !.i = NIL, !.to = NIL]
    /\ UNCHANGED <<m, chain>> /\ Within

\* ... and patch() tries the next one.
NextTactic ==
    /\ pc.at = "lost" /\ chain = <<>>
    /\ pc' = CASE pc.task = "batch" -> [pc EXCEPT !.at = "B1", !.task = "self", !.J = pc.I]
               [] pc.task = "self"  -> At("T2")
               [] pc.task \in {"evict2", "self2"} -> [At("T3") EXCEPT !.J = Len(Code) + 1]
               [] pc.task = "evict3" -> [At("T3") EXCEPT !.to = NIL]
    /\ UNCHANGED <<m, chain>> /\ Within

-----------------------------------------------------------------------------
\* Tactic T0: one jump for a batch of instructions that are not jump targets.

\* Step (1): the batch can grow backwards from instruction K to its predecessor.
GrowsBack(K) ==
    /\ ~Code[K].target
    /\ pred(K) # NIL
    /\ Is(m, Addr(K - 1), {"INSTRUCTION", "QUEUED"})

\* The bytes counted by step (1) when it stops at J: not those of J itself if J is
\* a jump target or the limit is reached.
SizeBack(I, J) ==
    Addr(I) + Size(I) - IF Code[J].target \/ I - J = T0_LIMIT THEN Addr(J) + Size(J) ELSE Addr(J)

\* Step (2): the batch, of instructions J to K - 1 so far, can grow to K.
GrowsForward(I, J, K) ==
    /\ SizeBack(I, J) + Addr(K) - (Addr(I) + Size(I)) < JMP_SIZE
    /\ K - 1 # I => ~Code[K - 1].cft
    /\ succ(K - 1) # NIL
    /\ ~Code[K].target /\ canPatch(m, K)
    /\ K \notin m.patched \/ K \in m.evicted

\* The batches of I: from J to L, and neither can be moved further.
Batch(I, J, L) ==
    /\ option_tactic_T0 /\ option_OCFR /\ canPatch(m, I)
    /\ I - J <= T0_LIMIT
    /\ \A K \in (J + 1)..I : GrowsBack(K)
    /\ I - J < T0_LIMIT => ~GrowsBack(J)
    /\ \A K \in (I + 1)..L : GrowsForward(I, J, K)
    /\ L < Len(Code) => ~GrowsForward(I, J, L + 1)
    /\ J # L

tactic_T0 ==
    /\ pc.at = "T0"
    /\ \/ \E J \in known..pc.I, L \in pc.I..Len(Code) :
             /\ Batch(pc.I, J, L)
             /\ pc' = [pc EXCEPT !.at = "free", !.task = "batch", !.J = L, !.i = J]
       \/ /\ \A J \in known..pc.I, L \in pc.I..Len(Code) : ~Batch(pc.I, J, L)
          /\ pc' = [pc EXCEPT !.at = "B1", !.task = "self"]
    /\ UNCHANGED <<m, chain>> /\ Within

\* Step (3): free the instructions of the batch, from the last to the first.
T0Free ==
    /\ pc.at = "free"
    /\ m' = patchUnused(Mark(m, pc.J, FALSE), pc.J, 0)
    /\ chain' = <<NewPatch(m, pc.J, NIL)>> \o chain
    /\ pc' = IF pc.J = pc.i THEN [pc EXCEPT !.at = "B1", !.i = NIL] ELSE [pc EXCEPT !.J = @ - 1]
    /\ Within

-----------------------------------------------------------------------------
\* Tactic T2: evict the successor with B2 or T1, then try those again.

tactic_T2 ==
    /\ pc.at = "T2"
    /\ pc' = IF Size(pc.I) >= JMP_SIZE \/ ~option_tactic_T2 \/ ~canPatch(m, pc.I)
                \/ succ(pc.I) = NIL
             THEN [At("T3") EXCEPT !.J = Len(Code) + 1]
             ELSE [pc EXCEPT !.at = "B2", !.task = "evict2", !.J = succ(pc.I)]
    /\ UNCHANGED <<m, chain>> /\ Within

T2Again ==
    /\ pc.at = "won" /\ pc.task = "evict2"
    /\ pc' = [pc EXCEPT !.at = "B2", !.task = "self2", !.J = pc.I]
    /\ UNCHANGED <<m, chain>> /\ Within

-----------------------------------------------------------------------------
\* Tactic T3: a jump to the trampoline is hidden inside a neighbour, which is
\* evicted, and the instruction becomes a short jump to it.

\* A jump for I may be tried at offset i of neighbour J.
CanHide(I, J, i) ==
    /\ J # I /\ i < Size(J)
    /\ J < I => option_tactic_backward_T3
    /\ Addr(J) - (Addr(I) + SHORT_SIZE) <= SHORT_JMP_MAX
    /\ (Addr(I) + SHORT_SIZE) - (Addr(J) + Size(J) - 1) <= -SHORT_JMP_MIN
    /\ \/ canPatch(m, J)
       \/ m.state[Addr(J)] = "PATCHED" /\ Is(m, Addr(J) + Size(J) - 1, {"FREE"})
    /\ i = 0 => Is(m, Addr(J), {"FREE"})
    /\ J > I => (Addr(J) + i) - (Addr(I) + SHORT_SIZE) <= SHORT_JMP_MAX
    /\ J < I => LET first == IF Is(m, Addr(J), {"FREE"}) THEN 0 ELSE 1
                IN  /\ (Addr(I) + SHORT_SIZE) - (Addr(J) + first) <= -SHORT_JMP_MIN
                    /\ Addr(I) - (Addr(J) + i) >= JMP_SIZE
    /\ Is(m, Addr(J) + i, {"FREE", "INSTRUCTION"})
    /\ allocatePunnedJump(m, J, i) # {}

Hideouts(I) == {h \in Known \X (0..(MaxInstr - 1)) : CanHide(I, h[1], h[2])}

\* The neighbours are tried from the highest address down, and each from its
\* first byte up.
Before(p, q) == p[1] > q[1] \/ (p[1] = q[1] /\ p[2] < q[2])

\* The single place that a one-byte instruction can reach: its displacement is
\* the first byte of the next instruction.
PunnedHideout(I) ==
    LET J      == succ(I)
        rel8   == SByte(m.byte[Addr(J)])
        target == Addr(I) + SHORT_SIZE + rel8
        hit    == IF target >= Addr(I)
                  THEN {K \in Known : K >= J /\ target \in Bytes(K)}
                  ELSE {K \in Known : K < I /\ target \in Bytes(K)}
    IN  IF \/ J = NIL \/ ~canPatch(m, J) \/ (~option_tactic_backward_T3 /\ rel8 < 1)
        THEN {}
        ELSE {<<K, target - Addr(K)>> : K \in
                {K \in hit : /\ target > Addr(K)
                             /\ Is(m, target, {"FREE", "INSTRUCTION"})
                             /\ allocatePunnedJump(m, K, target - Addr(K)) # {}}}

T3Candidates ==
    IF Size(pc.I) >= JMP_SIZE \/ ~option_tactic_T3 \/ ~canPatch(m, pc.I) THEN {}
    ELSE {h \in IF Size(pc.I) = 1 THEN PunnedHideout(pc.I) ELSE Hideouts(pc.I) :
             Before(<<pc.J, pc.i>>, h)}

\* Put a jump to e at offset i of J.  If the place was free that is all, otherwise
\* J has to be evicted.
Hide(J, i, e) ==
    LET s == Mark([m EXCEPT !.used = @ \cup {e},
                            !.no_optimize = IF J < pc.I THEN @ \cup {J} ELSE @], J, FALSE)
        was_free == Is(m, Addr(J) + i, {"FREE"})
    IN  /\ m' = patchJump(s, J, i, e)
        /\ chain' = <<NewPatch(m, J, e)>>
        /\ pc' = [pc EXCEPT !.at = IF was_free THEN "won" ELSE "B1",
                            !.task = "evict3", !.J = J, !.i = i, !.to = e]

tactic_T3 ==
    /\ pc.at = "T3"
    /\ \/ /\ T3Candidates = {}
          /\ pc' = [Idle EXCEPT !.at = "B0", !.I = pc.I]
          /\ UNCHANGED <<m, chain>>
       \/ \E h \in T3Candidates :
             /\ \A g \in T3Candidates : g = h \/ Before(h, g)
             /\ \E e \in allocatePunnedJump(m, h[1], h[2]) : Hide(h[1], h[2], e)
    /\ Within

\* The neighbour is out of the way: write the short jump.  The allocation moves
\* from the neighbour's patch to the instruction's.
T3Short ==
    LET I    == pc.I
        s    == Mark(m, I, FALSE)
        rest == [k \in DOMAIN chain |->
                   IF k = Len(chain) THEN [chain[k] EXCEPT !.A = NIL] ELSE chain[k]]
    IN  /\ pc.at = "won" /\ pc.task = "evict3"
        /\ m' = IF Size(I) = 1 THEN patchShortPunned(s, I)
                ELSE patchUnused(patchShortJump(s, I, Addr(pc.J) + pc.i), I, SHORT_SIZE)
        /\ Finish(<<NewPatch(m, I, pc.to)>> \o rest)
        /\ UNCHANGED <<Traps, batched>>

-----------------------------------------------------------------------------
\* Tactic B0: an illegal instruction whose signal handler finds the trampoline.

TrapRoom == IF option_tactic_B0 THEN allocateTrap(m, pc.I) ELSE {}

\* Mutant: the trap is not recorded for the signal handler.
tactic_B0Silent ==
    LET I == pc.I
    IN  /\ pc.at = "B0"
        /\ \E e \in TrapRoom :
              LET s == Mark([m EXCEPT !.used = @ \cup {e}], I, FALSE)
              IN  /\ m' = patchUnused(patchTrap(s, I), I, 1)
                  /\ Finish(<<NewPatch(m, I, e)>>)
        /\ UNCHANGED <<Traps, batched>>

tactic_B0 ==
    LET I == pc.I
    IN  /\ pc.at = "B0"
        /\ \E e \in TrapRoom :
              LET s == Mark([m EXCEPT !.used = @ \cup {e}], I, FALSE)
              IN  /\ m' = patchUnused(patchTrap(s, I), I, 1)
                  /\ Finish(<<NewPatch(m, I, e)>>)
        /\ Traps' = Traps \cup {I}
        /\ UNCHANGED batched

PatchFails ==
    /\ pc.at = "B0"
    /\ TrapRoom = {}
    /\ failed' = failed \cup {pc.I}
    /\ pc' = Idle
    /\ UNCHANGED <<ORIG, known, m, chain, before, Q, cursor, asked, emitted, Es, Traps, batched>>

\* Everything is patched; the modified binary is written.
Done == emitted /\ Q = <<>> /\ pc = Idle /\ UNCHANGED vars

\* What runs by itself once messages have arrived.
Work ==
    \/ Dequeue \/ DequeueBatched
    \/ tactic_B1 \/ tactic_B2 \/ tactic_T1 \/ commit \/ undo \/ NextTactic
    \/ tactic_T0 \/ T0Free \/ tactic_T2 \/ T2Again \/ tactic_T3 \/ T3Short
    \/ tactic_B0 \/ PatchFails

Next ==
    \/ parseInstruction
    \/ \E I \in Wanted : queuePatch(I)
    \/ emit
    \/ Work
    \/ Done

\* There is work to do.  No other step is possible then, and since there is no
\* deadlock one of them is: Busy is when Work is enabled.
Busy == pc # Idle \/ Flushable

\* Weak fairness of Work: a single-threaded process that is not stopped goes on.
Fairness == []<>~Busy \/ []<><<Work>>_vars

Spec == Init /\ [][Next]_vars /\ Fairness

-----------------------------------------------------------------------------
\* What the processor does at an instruction that was patched (external).

Nowhere == -9999

JumpsTo(a) == a + JMP_SIZE + Signed(URel(m.byte, a + 1))

Lands(I) ==
    LET a == Least({x \in Mem : x >= Addr(I) /\ m.byte[x] # PREFIX})
        b == a + SHORT_SIZE + SByte(m.byte[a + 1])
    IN  IF m.byte[a] = JMP THEN JumpsTo(a)
        ELSE IF m.byte[a] = SHORT /\ b \in Mem THEN
             (IF m.byte[b] = JMP THEN JumpsTo(b) ELSE Nowhere)
        ELSE IF a = Addr(I) /\ m.byte[a] = TRAP /\ I \in Traps THEN Es[I]
        ELSE Nowhere

-----------------------------------------------------------------------------
\* Properties.

\* Between tactics, control at every patched or evicted instruction reaches the
\* trampoline that was allocated for it: no later pun, eviction, batch or undo
\* disturbs a jump that is in place.
Diverts ==
    pc = Idle => \A I \in Instrs : Es[I] # NIL => Lands(I) = Es[I]

\* An instruction that is not patched still has its original bytes.
Intact ==
    pc = Idle =>
        \A I \in Instrs \ m.patched :
            \A a \in Bytes(I) : m.byte[a] = ORIG[a]

\* A tactic that gives up leaves no trace: bytes, states, locks, flags and
\* allocations are what they were when patch() was called.
UndoExact == chain = <<>> => m = before

\* Every allocation belongs to exactly one committed patch: undo() gives back
\* what the abandoned patches allocated, and nothing else.
NoLeak ==
    pc = Idle =>
        /\ m.used = {Es[I] : I \in {J \in Instrs : Es[J] # NIL}}
        /\ \A I, J \in Instrs : I # J /\ Es[I] # NIL => Es[I] # Es[J]

\* The look-ahead is large enough: an instruction whose "patch" message can still
\* arrive is untouched (queuePatch() asserts it), and so are the bytes of one that
\* has not been announced (parseInstruction() gives up otherwise).
LookAhead ==
    \A I \in Instrs :
        ~emitted /\ I \notin asked /\ (option_batch \/ Addr(I) < cursor) =>
            \A a \in Bytes(I) :
                Is(m, a, IF I \in Known THEN {"INSTRUCTION"} ELSE {"UNKNOWN"})

\* A queued instruction that is no longer in the queued state is part of a batch,
\* as queueFlush() assumes when it counts it as patched.
AssumedT0 ==
    pc = Idle =>
        \A k \in DOMAIN Q :
            \/ Q[k] \in batched
            \/ \A a \in Bytes(Q[k]) : Is(m, a, {"QUEUED"})

\* Once the frontend has sent "emit", every patch message is answered: the
\* instruction is patched, inside a batch, or reported as failed.
Answered ==
    \A I \in Instrs :
        emitted /\ I \in asked ~> Es[I] # NIL \/ I \in batched \/ I \in failed

-----------------------------------------------------------------------------
\* The inductive invariant.

States == {"UNKNOWN", "INSTRUCTION", "PATCHED", "FREE", "QUEUED"}
Store == [byte : [Mem -> Digits], state : [Mem -> States], locked : SUBSET Mem,
          used : SUBSET Space, patched : SUBSET Instrs, evicted : SUBSET Instrs,
          no_optimize : SUBSET Instrs]
Cells == [byte : Digits, state : States, lock : BOOLEAN]
Patch == [I : Instrs, A : Space \cup {NIL}, is_patched : BOOLEAN,
          orig : [0..(PATCH_MAX - 1) -> Cells]]

\* Where patch() tries a basic tactic on pc.J, or has just done so.
Trying == {"B1", "B2", "T1", "won", "lost"}
Places == {"idle", "T0", "free", "T2", "T3", "B0"} \cup Trying
Tasks == {"batch", "self", "evict2", "self2", "evict3"}

TypeOK ==
    /\ ORIG \in Contents /\ known \in 1..(Len(Code) + 1)
    /\ m \in Store /\ before \in Store
    /\ chain \in Seq(Patch)
    /\ pc \in [at : Places, task : Tasks \cup {"none"}, I : Nat, J : Nat, i : Nat,
               to : Space \cup {NIL}]
    /\ Q \in Seq(Instrs) /\ cursor \in Nat /\ asked \subseteq Known /\ emitted \in BOOLEAN
    /\ Es \in [Instrs -> Space \cup {NIL}]
    /\ Traps \subseteq Instrs /\ batched \subseteq Instrs /\ failed \subseteq Instrs

\* The messages that are still to come are not about the bytes from J on.
Near(J) == ~emitted => cursor < Addr(J)

\* Instruction I has a patch in the chain.
InChain(I) == \E k \in DOMAIN chain : chain[k].I = I

\* Where patch() is, and what is in the chain there.
Control ==
    /\ pc.at = "idle" => pc = Idle
    /\ pc.at # "idle" =>
          /\ pc.I \in Known
          /\ ~emitted => ~option_batch /\ Addr(pc.I) > cursor + Window
          /\ Is(before, Addr(pc.I), {"INSTRUCTION"})
          /\ \A k \in DOMAIN Q : Q[k] # pc.I
    /\ pc.at \in {"idle", "T0", "T2", "T3", "B0"} => chain = <<>>
    /\ pc.at = "T0" => pc.J = pc.I
    /\ pc.at = "free" =>
          /\ pc.task = "batch" /\ pc.i \in Known /\ pc.J \in pc.i..Len(Code) /\ Near(pc.i)
          /\ \A K \in pc.i..pc.J : K \notin before.evicted
    /\ pc.at \in Trying => pc.task \in Tasks /\ pc.J \in Known /\ Near(pc.J)
    /\ pc.at \in Trying /\ pc.task \in {"self", "self2"} => pc.J = pc.I
    /\ pc.at \in Trying /\ pc.task = "evict2" => pc.J = pc.I + 1
    /\ pc.at \in Trying /\ pc.task = "evict3" => pc.J # pc.I /\ pc.to # NIL

\* The entries of the chain that have an allocation of their own: not the jump that
\* T3 hides in a neighbour, whose allocation becomes that of pc.I.
Own(k) == chain[k].A # NIL /\ ~(pc.task = "evict3" /\ k = Len(chain))

Chained ==
    /\ \A k \in DOMAIN chain : Near(chain[k].I)
    /\ pc.at \in {"free", "B1", "B2", "T1"} => \A k \in DOMAIN chain :
          IF pc.task = "self2" THEN chain[k].I = pc.I + 1 ELSE ~Own(k)
    /\ pc.at \in Trying /\ pc.task = "evict3" /\ chain # <<>> =>
          chain[Len(chain)].I = pc.J /\ chain[Len(chain)].A = pc.to
    /\ pc.at \in Trying /\ pc.task = "evict2" => \A k \in DOMAIN chain : chain[k].I = pc.I + 1
    /\ pc.at = "won" => chain # <<>>
    /\ pc.at \in {"B1", "B2", "T1", "won"} /\ pc.task = "evict3" => chain # <<>>
    /\ pc.at \in {"B1", "B2", "T1"} /\ pc.task \in {"self", "evict2"} => chain = <<>>
    /\ pc.at # "lost" => \A k \in DOMAIN chain : Own(k) =>
          /\ Es[chain[k].I] = NIL
          /\ m.state[Addr(chain[k].I)] = "PATCHED"
          /\ chain[k].I # pc.I \/ pc.task # "evict3"
          /\ \A l \in DOMAIN chain : Own(l) /\ chain[l].I = chain[k].I => l = k

\* The oldest patch that saved a byte has it as it was when patch() was called, and a
\* byte that no patch saved is as it was.
BytesKept ==
    \A a \in Mem :
        \/ /\ Cell(m, a) = Cell(before, a)
           /\ \A k \in DOMAIN chain : a \notin Saved(chain[k].I)
        \/ \E k \in DOMAIN chain :
              /\ a \in Saved(chain[k].I) /\ Orig(chain[k], a) = Cell(before, a)
              /\ \A l \in DOMAIN chain : l > k => a \notin Saved(chain[l].I)

\* The same of is_patched.
MarksKept ==
    \A I \in Instrs :
        \/ /\ I \in m.patched <=> I \in before.patched
           /\ \A k \in DOMAIN chain : chain[k].I # I
        \/ \E k \in DOMAIN chain :
              /\ chain[k].I = I /\ (chain[k].is_patched <=> I \in before.patched)
              /\ \A l \in DOMAIN chain : l > k => chain[l].I # I

\* undo() resets is_evicted: only what was not evicted before may be undone.
EvictedKept ==
    /\ \A I \in Instrs : ~InChain(I) => (I \in m.evicted <=> I \in before.evicted)
    /\ ~(pc.at = "won" /\ pc.task = "evict3") => \A I \in before.evicted : ~InChain(I)

OptimizeKept ==
    pc.task # "evict3" \/ chain = <<>> => m.no_optimize = before.no_optimize

Restorable == BytesKept /\ MarksKept /\ EvictedKept /\ OptimizeKept

\* Allocations.
Allocated ==
    /\ before.used = {Es[I] : I \in {J \in Instrs : Es[J] # NIL}}
    /\ \A I, J \in Instrs : I # J /\ Es[I] # NIL => Es[I] # Es[J]
    /\ m.used = before.used \cup ({chain[k].A : k \in DOMAIN chain} \ {NIL})
    /\ \A k \in DOMAIN chain : chain[k].A # NIL =>
          /\ chain[k].A \notin before.used
          /\ \A l \in DOMAIN chain : chain[l].A = chain[k].A => l = k

\* An instruction that is not patched has its bytes, used by no other.
Whole(s) ==
    \A I \in Instrs \ s.patched : \A a \in Bytes(I) :
        s.byte[a] = ORIG[a] /\ s.state[a] \in {"UNKNOWN", "INSTRUCTION", "QUEUED"}

\* An instruction that is evicted or has a trampoline begins with a patched byte ...
Begun(s) == \A I \in Instrs : I \in s.evicted \/ Es[I] # NIL => s.state[Addr(I)] = "PATCHED"

\* ... and one that begins with a patched or free byte has no other that may be taken.
Closed(s) ==
    \A I \in Instrs : s.state[Addr(I)] \in {"PATCHED", "FREE"} =>
        \A a \in Bytes(I) : ~Is(s, a, {"INSTRUCTION", "QUEUED"})

\* A queued instruction is in a batch, one of those in B too, or untouched.
Queued(s, B) ==
    \A k \in DOMAIN Q : \/ Q[k] \in batched \cup B
                        \/ \A a \in Bytes(Q[k]) : Is(s, a, {"QUEUED"})

Good(s, B) == Whole(s) /\ Begun(s) /\ Closed(s) /\ Queued(s, B)

\* The instructions of the batch that is being made.
Batched == IF pc.task = "batch" THEN {I \in Instrs : InChain(I)} ELSE {}

\* What is not being undone is well formed, and so is what undo() returns to.
Stores ==
    /\ Good(before, {})
    /\ pc.at # "lost" => Good(m, Batched)
    /\ pc.at \in Trying /\ pc.task = "evict3" /\ Size(pc.I) = 1 =>
          pc.at = "lost" \/ ~Is(m, Addr(pc.I) + 1, {"QUEUED"})

\* Messages: the queue has no duplicates, and instructions lie before the cursor or not.
Messages ==
    /\ \A k \in DOMAIN Q : Q[k] \in asked
    /\ \A k, l \in DOMAIN Q : Q[k] = Q[l] => k = l
    /\ \A I \in Instrs : Addr(I) < cursor => Addr(I) + Size(I) <= cursor

IInv == /\ TypeOK /\ Control /\ Chained /\ Restorable
        /\ Allocated /\ Stores /\ Messages /\ LookAhead

=============================================================================
