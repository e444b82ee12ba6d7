--------------------------- MODULE TacticsLemmas ----------------------------
(***************************************************************************)
(* Lemmas for TacticsProofs: the layout of the code, what the operations   *)
(* that write to memory do to it, and the chain of patches.                *)
(***************************************************************************)
EXTENDS Tactics, FiniteSetTheorems, WellFoundedInduction, TLAPS

-----------------------------------------------------------------------------
\* Natural numbers and the layout of the code.

\* A non-empty set of natural numbers has a least element: the intervals up to its
\* elements are finite sets, which strict inclusion orders well.
LEMMA LeastNat ==
    ASSUME NEW T, T \subseteq Nat, T # {}
    PROVE  \E x \in T : \A y \in T : x <= y
<1> DEFINE F == {0..n : n \in T}
<1>1. F \subseteq FiniteSubsetsOf(Nat) /\ F # {}
  <2>1. \A n \in Nat : 0..n \in SUBSET Nat /\ IsFiniteSet(0..n)
    BY FS_Interval
  <2> QED
    BY <2>1 DEF FiniteSubsetsOf
<1>2. \E x \in F : \A y \in F : ~(<<y, x>> \in StrictSubsetOrdering(Nat))
  <2> HIDE DEF F
  <2> QED
    BY <1>1, FS_StrictSubsetOrderingWellFounded, WFMin, Zenon
<1>3. PICK x \in T : \A y \in F : ~(<<y, 0..x>> \in StrictSubsetOrdering(Nat))
  BY <1>2
<1>4. ASSUME NEW y \in T, y < x PROVE FALSE
  <2>1. ~(<<0..y, 0..x>> \in StrictSubsetOrdering(Nat))
    BY <1>3
  <2>2. /\ 0..y \in SUBSET Nat /\ 0..x \in SUBSET Nat
        /\ 0..y \subseteq 0..x /\ 0..y # 0..x
    <3>1. x \in 0..x /\ x \notin 0..y
      BY <1>4
    <3> QED
      BY <1>4, <3>1
  <2> QED
    BY <2>1, <2>2 DEF StrictSubsetOrdering
<1> QED
  BY <1>4

LEMMA Constants ==
    /\ Len(Code) \in Nat \ {0} /\ Instrs = 1..Len(Code)
    /\ MaxInstr \in Nat \ {0} /\ BYTE \in Nat /\ REL \in Nat \ {0}
    /\ PATCH_MAX \in Nat /\ MaxInstr + REL + 1 <= PATCH_MAX
    /\ T0_LIMIT \in Nat /\ Extra \in Nat
    /\ NIL \notin Space /\ Space \subseteq Int
    /\ \A I \in Instrs : Code[I] \in Instr
<1>1. Code \in Seq(Instr) /\ Code # <<>>
  BY CodeAssumption
<1>2. Len(Code) \in Nat /\ Len(Code) # 0 /\ DOMAIN Code = 1..Len(Code)
  BY <1>1
<1>3. \A I \in 1..Len(Code) : Code[I] \in Instr
  BY <1>1
<1> QED
  BY <1>2, <1>3, CodeAssumption, MachineAssumption, OptionAssumption DEF Instrs

LEMMA InstrFacts ==
    ASSUME NEW I \in Instrs
    PROVE  /\ Addr(I) \in Nat /\ Size(I) \in Nat /\ Size(I) >= 1 /\ Size(I) <= MaxInstr
           /\ I \in Nat /\ I >= 1 /\ I <= Len(Code)
BY Constants DEF Addr, Size, Instr

\* Instructions are in order of address.
LEMMA Ordered ==
    ASSUME NEW I \in Instrs, NEW J \in Instrs, I < J
    PROVE  Addr(I) + Size(I) <= Addr(J)
<1> DEFINE T == {n \in Nat : I + n + 1 \in Instrs /\ Addr(I) + Size(I) > Addr(I + n + 1)}
<1>1. SUFFICES ASSUME T # {} PROVE FALSE
  <2>1. J - I - 1 \in Nat /\ I + (J - I - 1) + 1 = J
    BY InstrFacts
  <2>2. Addr(I) \in Nat /\ Size(I) \in Nat /\ Addr(J) \in Nat
    BY InstrFacts
  <2> QED
    BY <2>1, <2>2
<1>2. PICK n \in T : \A k \in T : n <= k
  BY <1>1, LeastNat
<1> DEFINE K == I + n + 1
<1>3. /\ n \in Nat /\ K \in Instrs /\ Addr(I) + Size(I) > Addr(K) /\ I \in Nat
      /\ Instrs = 1..Len(Code)
  BY InstrFacts, Constants
<1>4. CASE n = 0
  <2>1. I \in 1..(Len(Code) - 1) /\ K = I + 1
    BY <1>3, <1>4, InstrFacts, Constants
  <2>2. Addr(I) + Size(I) <= Addr(I + 1)
    BY <2>1, CodeAssumption
  <2> QED
    BY <1>3, <2>1, <2>2, InstrFacts
<1>5. CASE n # 0
  <2>1. n - 1 \in Nat /\ I + (n - 1) + 1 = K - 1 /\ K - 1 \in Instrs
    BY <1>3, <1>5, InstrFacts, Constants
  <2>2. n - 1 \notin T
    BY <1>2, <1>3, <2>1
  <2>3. Addr(I) + Size(I) <= Addr(K - 1)
    <3>1. ~(Addr(I) + Size(I) > Addr(K - 1))
      BY <2>1, <2>2
    <3>2. Addr(K - 1) \in Nat /\ Addr(I) \in Nat /\ Size(I) \in Nat
      BY <2>1, InstrFacts
    <3> HIDE DEF K
    <3> QED
      BY <3>1, <3>2
  <2>4. K - 1 \in 1..(Len(Code) - 1) /\ (K - 1) + 1 = K
    BY <1>3, <2>1, Constants
  <2>5. Addr(K - 1) + Size(K - 1) <= Addr(K)
    BY <2>4, CodeAssumption
  <2> QED
    <3>1. /\ Addr(K - 1) \in Nat /\ Size(K - 1) \in Nat /\ Addr(I) \in Nat /\ Size(I) \in Nat
          /\ Addr(K) \in Nat
      BY <1>3, <2>1, InstrFacts
    <3> HIDE DEF K
    <3> QED
      BY <1>3, <2>3, <2>5, <3>1
<1> QED
  BY <1>4, <1>5

LEMMA Disjoint ==
    ASSUME NEW I \in Instrs, NEW J \in Instrs, NEW a \in Bytes(I), a \in Bytes(J)
    PROVE  I = J
<1>1. /\ Addr(I) \in Nat /\ Size(I) \in Nat /\ Addr(J) \in Nat /\ Size(J) \in Nat
      /\ I \in Nat /\ J \in Nat
  BY InstrFacts
<1>2. I < J => Addr(I) + Size(I) <= Addr(J)
  BY Ordered
<1>3. J < I => Addr(J) + Size(J) <= Addr(I)
  BY Ordered
<1>4. Addr(I) <= a /\ a < Addr(I) + Size(I) /\ Addr(J) <= a /\ a < Addr(J) + Size(J) /\ a \in Int
  BY <1>1 DEF Bytes
<1> QED
  BY <1>1, <1>2, <1>3, <1>4

LEMMA MemFacts ==
    ASSUME NEW I \in Instrs
    PROVE  /\ Addr(I) + Size(I) <= End /\ End \in Nat
           /\ Bytes(I) \subseteq Saved(I) /\ Saved(I) \subseteq Mem
           /\ Addr(I) \in Bytes(I) /\ Addr(I) \in Mem
           /\ \A a \in Bytes(I) : a \in 0..(End - 1)
           /\ Mem \subseteq Nat /\ Addr(I) + 1 \in Saved(I)
<1>1. /\ Addr(I) \in Nat /\ Size(I) \in Nat /\ Size(I) >= 1 /\ Size(I) <= MaxInstr /\ MaxInstr \in Nat
      /\ REL \in Nat /\ PATCH_MAX \in Nat /\ MaxInstr + REL + 1 <= PATCH_MAX
  BY InstrFacts, Constants
<1>2. Len(Code) \in Instrs /\ Addr(Len(Code)) \in Nat /\ Size(Len(Code)) \in Nat
  <2>1. Len(Code) \in Instrs
    BY Constants
  <2> QED
    BY <2>1, InstrFacts
<1>3. I = Len(Code) \/ I < Len(Code)
  BY InstrFacts, Constants
<1>4. End = Addr(Len(Code)) + Size(Len(Code)) /\ End \in Nat
  BY <1>2 DEF End
<1>5. Addr(I) + Size(I) <= End
  <2>1. CASE I < Len(Code)
    <3>1. Addr(I) + Size(I) <= Addr(Len(Code))
      BY <1>2, <2>1, Ordered
    <3> QED
      BY <1>1, <1>2, <1>4, <3>1
  <2> QED
    BY <1>1, <1>3, <1>4, <2>1
<1> QED
  BY <1>1, <1>4, <1>5 DEF Mem, Bytes, Saved

-----------------------------------------------------------------------------
\* What the operations do to a store.

\* Byte a is the same in both.
Same(s, t, a) ==
    t.byte[a] = s.byte[a] /\ t.state[a] = s.state[a] /\ (a \in t.locked <=> a \in s.locked)

\* From s to t, a patch of J has been applied: it stays inside the bytes that the patch
\* saves, it writes to J and to free bytes only, what is patched stays patched, and it
\* locks nothing that is queued.
Applied(s, t, J) ==
    /\ \A a \in Mem \ Saved(J) : Same(s, t, a)
    /\ \A a \in Mem : a \notin Bytes(J) /\ ~Is(s, a, {"FREE"}) =>
          t.byte[a] = s.byte[a] /\ t.state[a] = s.state[a]
    /\ \A a \in Mem : \/ t.state[a] = s.state[a]
                      \/ t.state[a] = "PATCHED"
                      \/ t.state[a] = "FREE" /\ a \in Bytes(J) /\ s.state[a] # "PATCHED"
    /\ \A a \in Mem : a \in s.locked /\ a \notin t.locked => t.state[a] = "PATCHED"
    /\ \A a \in Mem : Is(s, a, {"QUEUED"}) /\ a \notin Bytes(J) => a \notin t.locked

LEMMA AppliedTwice ==
    ASSUME NEW J, NEW s, NEW t, NEW u, Applied(s, t, J), Applied(t, u, J)
    PROVE  Applied(s, u, J)
<1>1. \A a \in Mem \ Saved(J) : Same(s, u, a)
  BY DEF Applied, Same
<1>2. ASSUME NEW a \in Mem, a \notin Bytes(J), ~Is(s, a, {"FREE"})
      PROVE  u.byte[a] = s.byte[a] /\ u.state[a] = s.state[a]
  <2>1. t.byte[a] = s.byte[a] /\ t.state[a] = s.state[a]
    BY <1>2 DEF Applied
  <2>2. ~Is(t, a, {"FREE"})
    BY <1>2, <2>1 DEF Applied, Is
  <2> QED
    BY <1>2, <2>1, <2>2 DEF Applied
<1>3. ASSUME NEW a \in Mem
      PROVE  \/ u.state[a] = s.state[a]
             \/ u.state[a] = "PATCHED"
             \/ u.state[a] = "FREE" /\ a \in Bytes(J) /\ s.state[a] # "PATCHED"
  BY DEF Applied
<1>4. ASSUME NEW a \in Mem, a \in s.locked, a \notin u.locked
      PROVE  u.state[a] = "PATCHED"
  BY <1>4 DEF Applied
<1>5. ASSUME NEW a \in Mem, Is(s, a, {"QUEUED"}), a \notin Bytes(J)
      PROVE  a \notin u.locked
  <2>1. a \notin t.locked /\ t.state[a] = s.state[a]
    BY <1>5 DEF Applied, Is
  <2>2. Is(t, a, {"QUEUED"})
    BY <1>5, <2>1 DEF Is
  <2> QED
    BY <1>5, <2>2 DEF Applied
<1> QED
  BY <1>1, <1>2, <1>3, <1>4, <1>5 DEF Applied

\* The fields of a store that a patch does not write to memory.
SameFlags(s, t) ==
    /\ t.used = s.used /\ t.patched = s.patched
    /\ t.evicted = s.evicted /\ t.no_optimize = s.no_optimize

LEMMA StoreFacts ==
    ASSUME NEW s \in Store
    PROVE  /\ s.byte \in [Mem -> Digits] /\ s.state \in [Mem -> States]
           /\ s.locked \subseteq Mem /\ s.used \subseteq Space /\ s.patched \subseteq Instrs
           /\ s.evicted \subseteq Instrs /\ s.no_optimize \subseteq Instrs
BY DEF Store

\* Function g is f with the value v on w.
IsFill(g, f, w, v) == \A a \in Mem : g[a] = IF a \in w THEN v ELSE f[a]

LEMMA FillFacts ==
    ASSUME NEW S, NEW f \in [Mem -> S], NEW w, NEW v \in S
    PROVE  Fill(f, w, v) \in [Mem -> S] /\ IsFill(Fill(f, w, v), f, w, v)
BY DEF Fill, IsFill

LEMMA Opcodes == JMP \in Digits /\ SHORT \in Digits /\ PREFIX \in Digits /\ INT3 \in Digits /\ TRAP \in Digits
BY MachineAssumption

LEMMA PatchedState == "PATCHED" \in States /\ "FREE" \in States /\ "INSTRUCTION" \in States /\ "QUEUED" \in States
BY DEF States

\* Memory with the bytes w filled and the bytes l locked.
Over(s, w, b, c, l) ==
    [s EXCEPT !.byte = Fill(s.byte, w, b), !.state = Fill(s.state, w, c), !.locked = l]

LEMMA Filled ==
    ASSUME NEW s \in Store, NEW w, NEW b \in Digits, NEW c \in States, NEW l \in SUBSET Mem,
           NEW t, t = Over(s, w, b, c, l)
    PROVE  /\ t \in Store /\ SameFlags(s, t) /\ t.locked = l
           /\ IsFill(t.byte, s.byte, w, b) /\ IsFill(t.state, s.state, w, c)
<1>0. s.byte \in [Mem -> Digits] /\ s.state \in [Mem -> States]
  BY StoreFacts
<1>1. Fill(s.byte, w, b) \in [Mem -> Digits] /\ IsFill(Fill(s.byte, w, b), s.byte, w, b)
  BY <1>0, FillFacts, Zenon
<1>2. Fill(s.state, w, c) \in [Mem -> States] /\ IsFill(Fill(s.state, w, c), s.state, w, c)
  BY <1>0, FillFacts, Zenon
<1>4. /\ t \in Store /\ SameFlags(s, t) /\ t.locked = l
      /\ t.byte = Fill(s.byte, w, b) /\ t.state = Fill(s.state, w, c)
  BY <1>1, <1>2 DEF Store, SameFlags, Over
<1> QED
  BY <1>1, <1>2, <1>4

LEMMA PrefixFacts ==
    ASSUME NEW s \in Store, NEW J \in Instrs, NEW p \in Nat, p < Size(J),
           NEW t, t = patchJumpPrefix(s, J, p)
    PROVE  /\ t \in Store /\ SameFlags(s, t) /\ Applied(s, t, J)
           /\ \A a \in Mem : IF Addr(J) <= a /\ a < Addr(J) + p
                             THEN t.state[a] = "PATCHED" /\ a \notin t.locked
                             ELSE Same(s, t, a)
<1> DEFINE w == Addr(J)..(Addr(J) + p - 1)
           l == s.locked \ w
<1>1. t = Over(s, w, PREFIX, "PATCHED", l)
  BY DEF patchJumpPrefix, Over
<1>2. l \in SUBSET Mem /\ PREFIX \in Digits /\ "PATCHED" \in States
  BY StoreFacts, Opcodes, PatchedState
<1>3. \A a \in Mem : a \in w <=> Addr(J) <= a /\ a < Addr(J) + p
  BY InstrFacts, MemFacts
<1>4. w \subseteq Bytes(J) /\ Bytes(J) \subseteq Saved(J)
  BY InstrFacts, MemFacts DEF Bytes
<1> HIDE DEF w, l
<1>5. /\ t \in Store /\ SameFlags(s, t) /\ t.locked = l
      /\ IsFill(t.byte, s.byte, w, PREFIX) /\ IsFill(t.state, s.state, w, "PATCHED")
  BY <1>1, <1>2, Filled
<1>6. Applied(s, t, J)
  BY <1>4, <1>5 DEF Applied, Same, Is, IsFill, l
<1> QED
  BY <1>3, <1>5, <1>6 DEF Same, IsFill, l

LEMMA RelByteType ==
    ASSUME NEW r \in Int, NEW k \in 0..(REL - 1)
    PROVE  RelByte(r, k) \in Digits
<1> DEFINE x == BYTE^k
           h == 2 * Half
<1>1. x \in Nat \ {0} /\ h \in Nat \ {0} /\ BYTE \in Nat \ {0}
  <2>1. k \in 0..REL /\ Half \in Nat \ {0} /\ 0 \in 0..REL
    BY MachineAssumption
  <2>2. BYTE \in Nat /\ JMP \in 0..(BYTE - 1)
    BY MachineAssumption DEF Digits
  <2> QED
    BY <2>1, <2>2, MachineAssumption
<1> HIDE DEF x, h
<1>2. (r % h) \in Int
  BY <1>1
<1>3. ((r % h) \div x) \in Int
  BY <1>1, <1>2
<1>4. ((r % h) \div x) % BYTE \in 0..(BYTE - 1)
  BY <1>1, <1>3
<1> QED
  BY <1>4 DEF RelByte, Digits, x, h

LEMMA JumpFacts ==
    ASSUME NEW s \in Store, NEW J \in Instrs, NEW off \in Nat, off < Size(J), NEW e \in Int,
           \A a \in Mem : Addr(J) + off <= a /\ a <= Addr(J) + off + JMP_SIZE => ~Is(s, a, {"QUEUED"}),
           NEW t, t = patchJump(s, J, off, e)
    PROVE  /\ t \in Store /\ SameFlags(s, t) /\ Applied(s, t, J)
           /\ t.state[Addr(J) + off] = "PATCHED"
           /\ \A a \in Bytes(J) : a < Addr(J) + off => Same(s, t, a)
           /\ \A a \in Bytes(J) : Addr(J) + off <= a /\ a <= Addr(J) + off + REL =>
                 t.state[a] = "PATCHED"
<1> DEFINE at   == Addr(J) + off
           rel  == e - (at + JMP_SIZE)
           disp == (at + 1)..(at + REL)
           mine == {a \in disp : a \in Bytes(J) \/ Is(s, a, {"FREE"})}
           f    == [a \in Mem |-> IF a = at THEN JMP
                                  ELSE IF a \in mine THEN RelByte(rel, a - at - 1) ELSE s.byte[a]]
           w    == mine \cup {at}
           l    == (s.locked \ w) \cup (disp \ mine)
<1>1. t = [s EXCEPT !.byte = f, !.state = Fill(s.state, w, "PATCHED"), !.locked = l]
  BY DEF patchJump
<1>2. /\ at \in Nat /\ at \in Bytes(J) /\ at \in Mem /\ disp \subseteq Mem
      /\ disp \subseteq Saved(J) /\ at \in Saved(J) /\ Bytes(J) \subseteq Saved(J)
      /\ Bytes(J) \subseteq Mem /\ Mem \subseteq Nat
  <2>1. /\ Addr(J) \in Nat /\ Size(J) \in Nat /\ Size(J) <= MaxInstr
        /\ MaxInstr + REL + 1 <= PATCH_MAX /\ REL \in Nat /\ MaxInstr \in Nat /\ PATCH_MAX \in Nat
    BY InstrFacts, Constants
  <2>2. disp \subseteq Saved(J) /\ at \in Bytes(J) /\ at \in Nat
    BY <2>1 DEF Saved, Bytes
  <2> QED
    BY <2>2, MemFacts
<1>3. rel \in Int /\ REL \in Nat
  BY <1>2, Constants DEF JMP_SIZE
<1>4. f \in [Mem -> Digits]
  <2>1. ASSUME NEW a \in mine PROVE RelByte(rel, a - at - 1) \in Digits
    <3>1. a - at - 1 \in 0..(REL - 1)
      BY <1>2, <1>3
    <3> HIDE DEF rel
    <3> QED
      BY <1>3, <3>1, RelByteType
  <2>2. s.byte \in [Mem -> Digits]
    BY StoreFacts
  <2> HIDE DEF mine, at, rel
  <2> QED
    BY <2>1, <2>2, Opcodes
<1>5. /\ \A a \in Mem : f[a] = s.byte[a] \/ a \in w
      /\ mine \subseteq disp /\ \A a \in mine : a \in Bytes(J) \/ Is(s, a, {"FREE"})
  OBVIOUS
<1>6. /\ \A a \in disp : a \in Bytes(J) => a \in mine
      /\ \A a \in disp : ~Is(s, a, {"QUEUED"})
      /\ \A a \in Bytes(J) : at <= a /\ a <= at + REL => a \in w
      /\ \A a \in Bytes(J) : a < at => a \notin disp /\ a # at
  <2>1. \A a \in disp : a \in Bytes(J) => a \in mine
    OBVIOUS
  <2>2. ASSUME NEW a \in disp PROVE ~Is(s, a, {"QUEUED"})
    <3>1. a \in Mem /\ Addr(J) + off <= a /\ a <= Addr(J) + off + JMP_SIZE
      BY <1>2, <1>3 DEF JMP_SIZE
    <3> QED
      BY <3>1
  <2>3. ASSUME NEW a \in Bytes(J), at <= a, a <= at + REL PROVE a \in w
    <3>1. a \in Nat /\ at \in Nat
      BY <1>2
    <3>2. a = at \/ a \in disp
      <4> HIDE DEF at
      <4> QED
        BY <1>3, <2>3, <3>1
    <3> QED
      BY <2>1, <3>2
  <2>4. ASSUME NEW a \in Bytes(J), a < at PROVE a \notin disp /\ a # at
    BY <1>2, <1>3, <2>4
  <2> HIDE DEF disp, mine, w, at
  <2> QED
    BY <2>1, <2>2, <2>3, <2>4
<1>7. Fill(s.state, w, "PATCHED") \in [Mem -> States] /\ IsFill(Fill(s.state, w, "PATCHED"), s.state, w, "PATCHED")
  <2>1. s.state \in [Mem -> States] /\ "PATCHED" \in States
    BY StoreFacts, PatchedState
  <2> HIDE DEF w
  <2> QED
    BY <2>1, FillFacts
<1>8. l \in SUBSET Mem
  BY <1>2, StoreFacts
<1>9. /\ t \in Store /\ SameFlags(s, t)
      /\ t.byte = f /\ t.state = Fill(s.state, w, "PATCHED") /\ t.locked = l
  <2> HIDE DEF f, l, w
  <2> QED
    BY <1>1, <1>4, <1>7, <1>8 DEF Store, SameFlags
<1>10. /\ at \in w /\ w \subseteq Saved(J) /\ disp \subseteq Saved(J)
       /\ \A a \in w : a \in Bytes(J) \/ Is(s, a, {"FREE"})
       /\ \A a \in w : a \notin disp \ mine
  BY <1>2, <1>5
<1> HIDE DEF f, w, mine, disp, at
<1>11. \A a \in Mem : /\ t.byte[a] = s.byte[a] \/ a \in w
                      /\ t.state[a] = IF a \in w THEN "PATCHED" ELSE s.state[a]
                      /\ a \in t.locked <=> (a \in s.locked /\ a \notin w) \/ (a \in disp /\ a \notin mine)
  BY <1>5, <1>7, <1>9 DEF IsFill
<1>12. Applied(s, t, J)
  BY <1>5, <1>6, <1>10, <1>11 DEF Applied, Same, Is
<1>13. ASSUME NEW a \in Bytes(J), a < at PROVE Same(s, t, a)
  <2>1. a \in Mem /\ a \notin disp /\ a \notin w
    BY <1>2, <1>6, <1>13 DEF w, mine
  <2> QED
    BY <1>11, <2>1 DEF Same
<1>14. \A a \in Bytes(J) : at <= a /\ a <= at + REL => t.state[a] = "PATCHED"
  BY <1>2, <1>6, <1>11
<1>15. t.state[at] = "PATCHED"
  BY <1>2, <1>10, <1>11
<1> QED
  BY <1>9, <1>12, <1>13, <1>14, <1>15 DEF at

LEMMA UnusedFacts ==
    ASSUME NEW s \in Store, NEW J \in Instrs, NEW off \in Nat,
           NEW t, t = patchUnused(s, J, off)
    PROVE  /\ t \in Store /\ SameFlags(s, t) /\ Applied(s, t, J) /\ t.locked = s.locked
           /\ \A a \in Mem : s.state[a] = "PATCHED" => t.state[a] = "PATCHED"
           /\ \A a \in Bytes(J) : Addr(J) + off <= a => ~Is(t, a, {"INSTRUCTION", "QUEUED"})
<1> DEFINE w == {a \in Bytes(J) : a >= Addr(J) + off /\ Is(s, a, {"INSTRUCTION", "QUEUED"})}
           l == s.locked
<1>1. t = Over(s, w, INT3, "FREE", l)
  <2>1. s = [s EXCEPT !.locked = s.locked]
    BY DEF Store
  <2> QED
    BY <2>1 DEF patchUnused, Over, Store
<1>2. l \in SUBSET Mem /\ INT3 \in Digits /\ "FREE" \in States
  BY StoreFacts, Opcodes, PatchedState
<1>3. Bytes(J) \subseteq Saved(J) /\ Bytes(J) \subseteq Mem /\ Mem \subseteq Nat /\ Addr(J) \in Nat
  BY MemFacts, InstrFacts
<1>4. /\ w \subseteq Bytes(J) /\ \A a \in w : Is(s, a, {"INSTRUCTION", "QUEUED"})
      /\ \A a \in Bytes(J) : Addr(J) + off <= a /\ Is(s, a, {"INSTRUCTION", "QUEUED"}) => a \in w
  BY <1>3
<1> HIDE DEF w, l
<1>5. /\ t \in Store /\ SameFlags(s, t) /\ t.locked = l
      /\ IsFill(t.byte, s.byte, w, INT3) /\ IsFill(t.state, s.state, w, "FREE")
  BY <1>1, <1>2, Filled
<1>6. Applied(s, t, J)
  BY <1>3, <1>4, <1>5 DEF Applied, Same, Is, IsFill, l
<1>7. ASSUME NEW a \in Mem, s.state[a] = "PATCHED" PROVE t.state[a] = "PATCHED"
  BY <1>4, <1>5, <1>7 DEF Is, IsFill
<1>8. ASSUME NEW a \in Bytes(J), Addr(J) + off <= a
      PROVE  ~Is(t, a, {"INSTRUCTION", "QUEUED"})
  BY <1>3, <1>4, <1>5, <1>8 DEF Is, IsFill, l
<1> QED
  BY <1>5, <1>6, <1>7, <1>8 DEF l

LEMMA TrapFacts ==
    ASSUME NEW s \in Store, NEW J \in Instrs, NEW t, t = patchTrap(s, J)
    PROVE  /\ t \in Store /\ SameFlags(s, t) /\ Applied(s, t, J)
           /\ t.state[Addr(J)] = "PATCHED"
<1> DEFINE w == {Addr(J)}
           l == s.locked \ w
<1>1. t = Over(s, w, TRAP, "PATCHED", l)
  BY DEF patchTrap, Over
<1>2. l \in SUBSET Mem /\ TRAP \in Digits /\ "PATCHED" \in States
  BY StoreFacts, Opcodes, PatchedState
<1>3. Bytes(J) \subseteq Saved(J) /\ w \subseteq Bytes(J) /\ Addr(J) \in Mem /\ Addr(J) \in w
  BY MemFacts
<1> HIDE DEF w, l
<1>4. /\ t \in Store /\ SameFlags(s, t) /\ t.locked = l
      /\ IsFill(t.byte, s.byte, w, TRAP) /\ IsFill(t.state, s.state, w, "PATCHED")
  BY <1>1, <1>2, Filled
<1>5. Applied(s, t, J)
  BY <1>3, <1>4 DEF Applied, Same, Is, IsFill, l
<1> QED
  BY <1>3, <1>4, <1>5 DEF IsFill

\* The short jump of a one-byte instruction, whose displacement is locked.
LEMMA ShortOneFacts ==
    ASSUME NEW s \in Store, NEW J \in Instrs, ~Is(s, Addr(J) + 1, {"QUEUED"}),
           NEW t, t = patchShortPunned(s, J)
    PROVE  /\ t \in Store /\ SameFlags(s, t) /\ Applied(s, t, J)
           /\ t.state[Addr(J)] = "PATCHED"
<1> DEFINE w == {Addr(J)}
           l == (s.locked \ w) \cup {Addr(J) + 1}
<1>1. t = Over(s, w, SHORT, "PATCHED", l)
  BY DEF Over, patchShortPunned
<1>2. /\ Bytes(J) \subseteq Saved(J) /\ w \subseteq Bytes(J) /\ Addr(J) \in Mem /\ Addr(J) \in w
      /\ Addr(J) + 1 \in Saved(J) /\ Saved(J) \subseteq Mem /\ Addr(J) + 1 \notin w
  BY MemFacts, InstrFacts
<1>3. l \in SUBSET Mem /\ SHORT \in Digits /\ "PATCHED" \in States
  BY <1>2, StoreFacts, Opcodes, PatchedState
<1> HIDE DEF w, l
<1>4. /\ t \in Store /\ SameFlags(s, t) /\ t.locked = l
      /\ IsFill(t.byte, s.byte, w, SHORT) /\ IsFill(t.state, s.state, w, "PATCHED")
  BY <1>1, <1>3, Filled
<1>5. Applied(s, t, J)
  BY <1>2, <1>4 DEF Applied, Same, Is, IsFill, l
<1> QED
  BY <1>2, <1>4, <1>5 DEF IsFill

LEMMA ShortFacts ==
    ASSUME NEW s \in Store, NEW J \in Instrs, Size(J) >= 2, NEW to \in Int,
           NEW t, t = patchShortJump(s, J, to)
    PROVE  /\ t \in Store /\ SameFlags(s, t) /\ Applied(s, t, J)
           /\ t.state[Addr(J)] = "PATCHED" /\ t.state[Addr(J) + 1] = "PATCHED"
<1> DEFINE x == Addr(J)
           w == {x, x + 1}
           b == (to - (x + SHORT_SIZE)) % BYTE
           f == [s.byte EXCEPT ![x] = SHORT, ![x + 1] = b]
           l == s.locked \ w
<1>1. t = [s EXCEPT !.byte = f, !.state = Fill(s.state, w, "PATCHED"), !.locked = l]
  BY DEF patchShortJump
<1>2. /\ Bytes(J) \subseteq Saved(J) /\ x \in Bytes(J) /\ x + 1 \in Bytes(J)
      /\ Bytes(J) \subseteq Mem /\ x \in Nat
  <2>1. Addr(J) + 1 \in Bytes(J) /\ Addr(J) \in Nat
    BY InstrFacts DEF Bytes
  <2> QED
    BY <2>1, MemFacts
<1>3. b \in Digits
  <2>1. BYTE \in Nat /\ JMP \in 0..(BYTE - 1)
    BY MachineAssumption DEF Digits
  <2> QED
    BY <1>2, <2>1 DEF Digits, SHORT_SIZE
<1> HIDE DEF b
<1>4. f \in [Mem -> Digits] /\ \A a \in Mem : f[a] = s.byte[a] \/ a \in w
  BY <1>2, <1>3, StoreFacts, Opcodes
<1>5. /\ Fill(s.state, w, "PATCHED") \in [Mem -> States]
      /\ IsFill(Fill(s.state, w, "PATCHED"), s.state, w, "PATCHED")
  <2>1. s.state \in [Mem -> States] /\ "PATCHED" \in States
    BY StoreFacts, PatchedState
  <2> HIDE DEF w
  <2> QED
    BY <2>1, FillFacts
<1>6. l \in SUBSET Mem
  BY StoreFacts
<1>7. /\ t \in Store /\ SameFlags(s, t)
      /\ t.byte = f /\ t.state = Fill(s.state, w, "PATCHED") /\ t.locked = l
  <2> HIDE DEF f, w, l
  <2> QED
    BY <1>1, <1>4, <1>5, <1>6 DEF Store, SameFlags
<1>8. w \subseteq Bytes(J) /\ x \in w /\ x + 1 \in w
  BY <1>2
<1> HIDE DEF f, w
<1>9. Applied(s, t, J)
  BY <1>2, <1>4, <1>5, <1>7, <1>8 DEF Applied, Same, Is, IsFill
<1> QED
  BY <1>2, <1>5, <1>7, <1>8, <1>9 DEF IsFill

\* A change of the flags alone.
Flagged(s, t, J, u, n, b) ==
    /\ t \in Store /\ Applied(s, t, J) /\ t.used = u /\ t.no_optimize = n
    /\ t.byte = s.byte /\ t.state = s.state /\ t.locked = s.locked
    /\ t.patched = s.patched \cup {J}
    /\ t.evicted = IF b THEN s.evicted \cup {J} ELSE s.evicted

LEMMA FlagsFacts ==
    ASSUME NEW s \in Store, NEW J \in Instrs, NEW u \in SUBSET Space, NEW n \in SUBSET Instrs,
           NEW b \in BOOLEAN, NEW t, t = Mark([s EXCEPT !.used = u, !.no_optimize = n], J, b)
    PROVE  Flagged(s, t, J, u, n, b)
<1>1. /\ t \in Store /\ t.used = u /\ t.no_optimize = n
      /\ t.byte = s.byte /\ t.state = s.state /\ t.locked = s.locked
      /\ t.patched = s.patched \cup {J}
      /\ t.evicted = IF b THEN s.evicted \cup {J} ELSE s.evicted
  BY DEF Mark, Store
<1>2. Applied(s, t, J)
  BY <1>1 DEF Applied, Same, Is
<1> QED
  BY <1>1, <1>2 DEF Flagged

\* Store t is s with patch P undone.
IsUndone(s, t, P) ==
    /\ t \in Store /\ t.no_optimize = s.no_optimize /\ t.used = s.used \ {P.A}
    /\ t.patched = IF P.is_patched THEN s.patched \cup {P.I} ELSE s.patched \ {P.I}
    /\ t.evicted = s.evicted \ {P.I}
    /\ \A a \in Mem : IF a \in Saved(P.I) THEN Cell(t, a) = Orig(P, a) ELSE Same(s, t, a)

LEMMA UndoFacts ==
    ASSUME NEW s \in Store, NEW P \in Patch, NEW t, t = UndoOne(s, P)
    PROVE  IsUndone(s, t, P)
<1> DEFINE w == Saved(P.I)
           f == [a \in Mem |-> IF a \in w THEN Orig(P, a).byte ELSE s.byte[a]]
           g == [a \in Mem |-> IF a \in w THEN Orig(P, a).state ELSE s.state[a]]
           l == (s.locked \ w) \cup {a \in w : Orig(P, a).lock}
           p == IF P.is_patched THEN s.patched \cup {P.I} ELSE s.patched \ {P.I}
<1>1. t = [s EXCEPT !.patched = p, !.evicted = s.evicted \ {P.I}, !.byte = f, !.state = g,
                    !.locked = l, !.used = s.used \ {P.A}]
  BY DEF UndoOne
<1>2. P.I \in Instrs /\ P.orig \in [0..(PATCH_MAX - 1) -> Cells]
  BY DEF Patch
<1>3. w \subseteq Mem
  BY <1>2, MemFacts
<1>4. ASSUME NEW a \in w PROVE Orig(P, a) \in Cells
  <2>1. a - Addr(P.I) \in 0..(PATCH_MAX - 1)
    BY <1>2, InstrFacts, Constants DEF Saved
  <2> QED
    BY <1>2, <2>1 DEF Orig
<1> HIDE DEF w
<1>5. f \in [Mem -> Digits] /\ g \in [Mem -> States] /\ l \in SUBSET Mem /\ p \in SUBSET Instrs
  <2>1. \A a \in w : Orig(P, a).byte \in Digits /\ Orig(P, a).state \in States
    BY <1>4 DEF Cells
  <2> QED
    BY <1>2, <1>3, <2>1, StoreFacts
<1>6. /\ t \in Store /\ t.no_optimize = s.no_optimize /\ t.used = s.used \ {P.A}
      /\ t.patched = p /\ t.evicted = s.evicted \ {P.I}
      /\ t.byte = f /\ t.state = g /\ t.locked = l
  <2> DEFINE v == s.evicted \ {P.I}
             u == s.used \ {P.A}
  <2>1. v \in SUBSET Instrs /\ u \in SUBSET Space
    BY StoreFacts
  <2> HIDE DEF f, g, l, p, v, u
  <2>2. t = [s EXCEPT !.patched = p, !.evicted = v, !.byte = f, !.state = g, !.locked = l, !.used = u]
    BY <1>1 DEF v, u
  <2>3. t \in Store
    BY <1>5, <2>1, <2>2 DEF Store
  <2>4. /\ t.no_optimize = s.no_optimize /\ t.used = u /\ t.patched = p /\ t.evicted = v
        /\ t.byte = f /\ t.state = g /\ t.locked = l
    BY <2>2 DEF Store
  <2> QED
    BY <2>3, <2>4 DEF v, u
<1>7. ASSUME NEW a \in Mem, a \in w PROVE Cell(t, a) = Orig(P, a)
  <2>1. /\ t.byte[a] = Orig(P, a).byte /\ t.state[a] = Orig(P, a).state
        /\ a \in t.locked <=> Orig(P, a).lock
    BY <1>6, <1>7
  <2>2. Orig(P, a) \in [byte : Digits, state : States, lock : BOOLEAN]
    BY <1>4, <1>7 DEF Cells
  <2>3. (a \in t.locked) \in BOOLEAN /\ (a \in t.locked) = Orig(P, a).lock
    BY <2>1, <2>2
  <2> QED
    BY <2>1, <2>2, <2>3 DEF Cell
<1>8. ASSUME NEW a \in Mem, a \notin w PROVE Same(s, t, a)
  BY <1>6, <1>8 DEF Same
<1> QED
  BY <1>6, <1>7, <1>8 DEF w, IsUndone

-----------------------------------------------------------------------------
\* The chain of patches.

LEMMA PushFacts ==
    ASSUME NEW S, NEW c \in Seq(S), NEW x \in S, NEW d, d = <<x>> \o c
    PROVE  /\ d \in Seq(S) /\ Len(d) = Len(c) + 1 /\ d # <<>> /\ Len(c) \in Nat
           /\ DOMAIN c = 1..Len(c) /\ DOMAIN d = 1..(Len(c) + 1)
           /\ d[1] = x /\ \A k \in 1..Len(c) : d[k + 1] = c[k]
<1>1. <<x>> \in Seq(S) /\ Len(<<x>>) = 1 /\ <<x>>[1] = x
  OBVIOUS
<1>2. /\ d \in Seq(S) /\ Len(d) = Len(c) + 1 /\ Len(c) \in Nat
      /\ DOMAIN c = 1..Len(c) /\ DOMAIN d = 1..(Len(c) + 1)
  BY <1>1
<1>3. d[1] = x
  BY <1>1, <1>2
<1>4. ASSUME NEW k \in 1..Len(c) PROVE d[k + 1] = c[k]
  BY <1>1, <1>2
<1> QED
  BY <1>2, <1>3, <1>4

LEMMA PopFacts ==
    ASSUME NEW S, NEW c \in Seq(S), c # <<>>
    PROVE  /\ Tail(c) \in Seq(S) /\ Len(c) \in Nat \ {0} /\ Len(Tail(c)) = Len(c) - 1
           /\ DOMAIN c = 1..Len(c) /\ DOMAIN Tail(c) = 1..(Len(c) - 1)
           /\ Head(c) = c[1] /\ c[1] \in S
           /\ \A k \in 1..(Len(c) - 1) : Tail(c)[k] = c[k + 1]
OBVIOUS

LEMMA NewPatchFacts ==
    ASSUME NEW s \in Store, NEW J \in Instrs, NEW A \in Space \cup {NIL},
           NEW P, P = NewPatch(s, J, A)
    PROVE  /\ P \in Patch /\ P.I = J /\ P.A = A /\ (P.is_patched <=> J \in s.patched)
           /\ \A a \in Saved(J) : Orig(P, a) = Cell(s, a)
<1>1. ASSUME NEW a \in Mem PROVE Cell(s, a) \in Cells
  BY StoreFacts DEF Cell, Cells
<1>2. ASSUME NEW o \in 0..(PATCH_MAX - 1) PROVE Addr(J) + o \in Mem
  <2>1. Addr(J) + o \in Saved(J)
    BY InstrFacts, Constants DEF Saved
  <2> QED
    BY <2>1, MemFacts
<1>3. P \in Patch /\ P.I = J /\ P.A = A /\ (P.is_patched <=> J \in s.patched)
  <2> DEFINE o == [x \in 0..(PATCH_MAX - 1) |-> Cell(s, Addr(J) + x)]
             b == J \in s.patched
  <2>1. o \in [0..(PATCH_MAX - 1) -> Cells]
    BY <1>1, <1>2
  <2>2. b \in BOOLEAN
    OBVIOUS
  <2>3. P = [I |-> J, A |-> A, is_patched |-> b, orig |-> o]
    BY DEF NewPatch
  <2> HIDE DEF o, b
  <2>4. P \in Patch /\ P.I = J /\ P.A = A /\ P.is_patched = b
    BY <2>1, <2>2, <2>3 DEF Patch
  <2> QED
    BY <2>4 DEF b
<1>4. ASSUME NEW a \in Saved(J) PROVE Orig(P, a) = Cell(s, a)
  <2>1. a - Addr(J) \in 0..(PATCH_MAX - 1) /\ Addr(J) + (a - Addr(J)) = a
    BY InstrFacts, Constants DEF Saved
  <2>2. P.orig = [o \in 0..(PATCH_MAX - 1) |-> Cell(s, Addr(J) + o)]
    BY DEF NewPatch
  <2>3. Orig(P, a) = Cell(s, Addr(J) + (a - Addr(J)))
    BY <1>3, <2>1, <2>2 DEF Orig
  <2> QED
    BY <2>1, <2>3
<1> QED
  BY <1>3, <1>4

LEMMA SameCell ==
    ASSUME NEW s, NEW t, NEW a, Same(s, t, a)
    PROVE  Cell(t, a) = Cell(s, a)
BY DEF Same, Cell

\* A step that puts a patch of J on the chain and applies it.
Pushed(J, A) ==
    /\ J \in Instrs /\ A \in Space \cup {NIL}
    /\ m' \in Store /\ before' = before
    /\ chain' = <<NewPatch(m, J, A)>> \o chain
    /\ Applied(m, m', J)
    /\ m'.patched = m.patched \cup {J}

LEMMA PushedChain ==
    ASSUME TypeOK, NEW J, NEW A, Pushed(J, A)
    PROVE  /\ chain' \in Seq(Patch) /\ Len(chain') = Len(chain) + 1 /\ chain' # <<>>
           /\ Len(chain) \in Nat /\ DOMAIN chain = 1..Len(chain)
           /\ DOMAIN chain' = 1..(Len(chain) + 1)
           /\ chain'[1].I = J /\ chain'[1].A = A
           /\ (chain'[1].is_patched <=> J \in m.patched)
           /\ \A a \in Saved(J) : Orig(chain'[1], a) = Cell(m, a)
           /\ \A k \in 1..Len(chain) : chain'[k + 1] = chain[k]
<1>1. m \in Store /\ chain \in Seq(Patch)
  BY DEF TypeOK
<1> DEFINE P == NewPatch(m, J, A)
<1>2. /\ P \in Patch /\ P.I = J /\ P.A = A /\ (P.is_patched <=> J \in m.patched)
      /\ \A a \in Saved(J) : Orig(P, a) = Cell(m, a)
  BY <1>1, NewPatchFacts DEF Pushed
<1> HIDE DEF P
<1>3. chain' = <<P>> \o chain
  BY DEF Pushed, P
<1>4. /\ chain' \in Seq(Patch) /\ Len(chain') = Len(chain) + 1 /\ chain' # <<>>
      /\ Len(chain) \in Nat /\ DOMAIN chain = 1..Len(chain)
      /\ DOMAIN chain' = 1..(Len(chain) + 1)
      /\ chain'[1] = P /\ \A k \in 1..Len(chain) : chain'[k + 1] = chain[k]
  BY <1>1, <1>2, <1>3, PushFacts
<1> QED
  BY <1>2, <1>4

\* The elements of the chain after a push.
LEMMA PushedElements ==
    ASSUME TypeOK, NEW J, NEW A, Pushed(J, A), NEW k \in DOMAIN chain'
    PROVE  k = 1 \/ (k - 1 \in DOMAIN chain /\ chain'[k] = chain[k - 1] /\ k > 1)
<1>1. /\ DOMAIN chain' = 1..(Len(chain) + 1) /\ Len(chain) \in Nat /\ DOMAIN chain = 1..Len(chain)
      /\ \A n \in 1..Len(chain) : chain'[n + 1] = chain[n]
  BY PushedChain
<1>2. CASE k # 1
  <2>1. k - 1 \in 1..Len(chain) /\ (k - 1) + 1 = k /\ k > 1
    BY <1>1, <1>2
  <2> QED
    BY <1>1, <2>1
<1> QED
  BY <1>2

LEMMA PushedBytes ==
    ASSUME TypeOK, BytesKept, NEW J, NEW A, Pushed(J, A)
    PROVE  BytesKept'
<1> SUFFICES ASSUME NEW a \in Mem
             PROVE  \/ /\ Cell(m', a) = Cell(before', a)
                       /\ \A k \in DOMAIN chain' : a \notin Saved(chain'[k].I)
                    \/ \E k \in DOMAIN chain' :
                          /\ a \in Saved(chain'[k].I) /\ Orig(chain'[k], a) = Cell(before', a)
                          /\ \A l \in DOMAIN chain' : l > k => a \notin Saved(chain'[l].I)
  BY DEF BytesKept, Mem, End, Addr, Size, Saved
<1>0. before' = before
  BY DEF Pushed
<1>1. /\ Len(chain) \in Nat /\ DOMAIN chain = 1..Len(chain) /\ DOMAIN chain' = 1..(Len(chain) + 1)
      /\ chain'[1].I = J /\ \A x \in Saved(J) : Orig(chain'[1], x) = Cell(m, x)
      /\ \A k \in 1..Len(chain) : chain'[k + 1] = chain[k]
  BY PushedChain
<1>2. CASE /\ Cell(m, a) = Cell(before, a)
           /\ \A k \in DOMAIN chain : a \notin Saved(chain[k].I)
  <2>1. \A l \in DOMAIN chain' : l > 1 => a \notin Saved(chain'[l].I)
    BY <1>2, PushedElements
  <2>2. CASE a \in Saved(J)
    <3>1. 1 \in DOMAIN chain' /\ a \in Saved(chain'[1].I) /\ Orig(chain'[1], a) = Cell(before', a)
      BY <1>0, <1>1, <1>2, <2>2
    <3> QED
      BY <2>1, <3>1
  <2>3. CASE a \notin Saved(J)
    <3>1. Cell(m', a) = Cell(m, a)
      BY <2>3, SameCell DEF Pushed, Applied
    <3>2. \A k \in DOMAIN chain' : a \notin Saved(chain'[k].I)
      BY <1>1, <2>1, <2>3
    <3> QED
      BY <1>0, <1>2, <3>1, <3>2
  <2> QED
    BY <2>2, <2>3
<1>3. CASE \E k \in DOMAIN chain :
              /\ a \in Saved(chain[k].I) /\ Orig(chain[k], a) = Cell(before, a)
              /\ \A l \in DOMAIN chain : l > k => a \notin Saved(chain[l].I)
  <2>1. PICK k \in DOMAIN chain :
              /\ a \in Saved(chain[k].I) /\ Orig(chain[k], a) = Cell(before, a)
              /\ \A l \in DOMAIN chain : l > k => a \notin Saved(chain[l].I)
    BY <1>3
  <2>2. k + 1 \in DOMAIN chain' /\ chain'[k + 1] = chain[k] /\ k \in Nat
    BY <1>1
  <2>3. ASSUME NEW l \in DOMAIN chain', l > k + 1 PROVE a \notin Saved(chain'[l].I)
    <3>1. l - 1 \in DOMAIN chain /\ chain'[l] = chain[l - 1] /\ l \in Nat
      BY <1>1, <2>2, <2>3, PushedElements
    <3>2. l - 1 > k
      BY <2>2, <2>3, <3>1
    <3> QED
      BY <2>1, <3>1, <3>2
  <2> QED
    BY <1>0, <2>1, <2>2, <2>3
<1> QED
  BY <1>2, <1>3 DEF BytesKept

LEMMA PushedMarks ==
    ASSUME TypeOK, MarksKept, NEW J, NEW A, Pushed(J, A)
    PROVE  MarksKept'
<1> SUFFICES ASSUME NEW I \in Instrs
             PROVE  \/ /\ I \in m'.patched <=> I \in before'.patched
                       /\ \A k \in DOMAIN chain' : chain'[k].I # I
                    \/ \E k \in DOMAIN chain' :
                          /\ chain'[k].I = I /\ (chain'[k].is_patched <=> I \in before'.patched)
                          /\ \A l \in DOMAIN chain' : l > k => chain'[l].I # I
  BY DEF MarksKept, Instrs
<1>0. before' = before /\ m'.patched = m.patched \cup {J}
  BY DEF Pushed
<1>1. /\ Len(chain) \in Nat /\ DOMAIN chain = 1..Len(chain) /\ DOMAIN chain' = 1..(Len(chain) + 1)
      /\ chain'[1].I = J /\ (chain'[1].is_patched <=> J \in m.patched)
      /\ \A k \in 1..Len(chain) : chain'[k + 1] = chain[k]
  BY PushedChain
<1>2. CASE /\ I \in m.patched <=> I \in before.patched
           /\ \A k \in DOMAIN chain : chain[k].I # I
  <2>1. \A l \in DOMAIN chain' : l > 1 => chain'[l].I # I
    BY <1>2, PushedElements
  <2>2. CASE I = J
    <3>1. 1 \in DOMAIN chain'
      BY <1>1
    <3> QED
      BY <1>0, <1>1, <1>2, <2>1, <2>2, <3>1
  <2>3. CASE I # J
    <3>1. \A k \in DOMAIN chain' : chain'[k].I # I
      BY <1>1, <2>1, <2>3
    <3> QED
      BY <1>0, <1>2, <2>3, <3>1
  <2> QED
    BY <2>2, <2>3
<1>3. CASE \E k \in DOMAIN chain :
              /\ chain[k].I = I /\ (chain[k].is_patched <=> I \in before.patched)
              /\ \A l \in DOMAIN chain : l > k => chain[l].I # I
  <2>1. PICK k \in DOMAIN chain :
              /\ chain[k].I = I /\ (chain[k].is_patched <=> I \in before.patched)
              /\ \A l \in DOMAIN chain : l > k => chain[l].I # I
    BY <1>3
  <2>2. k + 1 \in DOMAIN chain' /\ chain'[k + 1] = chain[k] /\ k \in Nat
    BY <1>1
  <2>3. ASSUME NEW l \in DOMAIN chain', l > k + 1 PROVE chain'[l].I # I
    <3>1. l - 1 \in DOMAIN chain /\ chain'[l] = chain[l - 1] /\ l \in Nat
      BY <1>1, <2>2, <2>3, PushedElements
    <3>2. l - 1 > k
      BY <2>2, <2>3, <3>1
    <3> QED
      BY <2>1, <3>1, <3>2
  <2> QED
    BY <1>0, <2>1, <2>2, <2>3
<1> QED
  BY <1>2, <1>3 DEF MarksKept

\* One turn of undo().
LEMMA UndoEffect ==
    ASSUME TypeOK, undo
    PROVE  /\ m' \in Store /\ before' = before /\ m'.no_optimize = before.no_optimize
           /\ m'.used = m.used \ {chain[1].A} /\ m'.evicted = m.evicted \ {chain[1].I}
           /\ m'.patched = IF chain[1].is_patched THEN m.patched \cup {chain[1].I}
                           ELSE m.patched \ {chain[1].I}
           /\ \A a \in Mem : IF a \in Saved(chain[1].I) THEN Cell(m', a) = Orig(chain[1], a)
                             ELSE Same(m, m', a)
           /\ chain \in Seq(Patch) /\ chain' = Tail(chain) /\ chain' \in Seq(Patch)
           /\ chain[1] \in Patch
           /\ Len(chain) \in Nat \ {0} /\ Len(chain') = Len(chain) - 1
           /\ DOMAIN chain = 1..Len(chain) /\ DOMAIN chain' = 1..(Len(chain) - 1)
           /\ \A k \in DOMAIN chain' : chain'[k] = chain[k + 1] /\ k + 1 \in DOMAIN chain
<1> DEFINE s == [m EXCEPT !.no_optimize = before.no_optimize]
<1>1. m \in Store /\ before \in Store /\ chain \in Seq(Patch) /\ chain # <<>>
  BY DEF TypeOK, undo
<1>2. /\ s \in Store /\ s.byte = m.byte /\ s.state = m.state /\ s.locked = m.locked
      /\ s.used = m.used /\ s.patched = m.patched /\ s.evicted = m.evicted
      /\ s.no_optimize = before.no_optimize
  BY <1>1 DEF Store
<1>3. /\ chain' = Tail(chain) /\ chain' \in Seq(Patch) /\ chain[1] \in Patch /\ Head(chain) = chain[1]
      /\ Len(chain) \in Nat \ {0} /\ Len(chain') = Len(chain) - 1
      /\ DOMAIN chain = 1..Len(chain) /\ DOMAIN chain' = 1..(Len(chain) - 1)
      /\ \A k \in 1..(Len(chain) - 1) : chain'[k] = chain[k + 1]
  BY <1>1, PopFacts DEF undo
<1>4. m' = UndoOne(s, chain[1]) /\ before' = before
  BY <1>3 DEF undo, Within
<1> HIDE DEF s
<1> DEFINE P == chain[1]
<1>5. IsUndone(s, m', P)
  <2>1. P \in Patch /\ m' = UndoOne(s, P)
    BY <1>3, <1>4
  <2> HIDE DEF P
  <2> QED
    BY <1>2, <2>1, UndoFacts
<1>6. \A a \in Mem : Same(s, m', a) => Same(m, m', a)
  BY <1>2 DEF Same
<1>7. \A k \in DOMAIN chain' : chain'[k] = chain[k + 1] /\ k + 1 \in DOMAIN chain
  BY <1>3
<1> QED
  BY <1>1, <1>2, <1>3, <1>4, <1>5, <1>6, <1>7 DEF IsUndone

LEMMA UndoneBytes ==
    ASSUME TypeOK, BytesKept, undo
    PROVE  BytesKept'
<1> SUFFICES ASSUME NEW a \in Mem
             PROVE  \/ /\ Cell(m', a) = Cell(before', a)
                       /\ \A k \in DOMAIN chain' : a \notin Saved(chain'[k].I)
                    \/ \E k \in DOMAIN chain' :
                          /\ a \in Saved(chain'[k].I) /\ Orig(chain'[k], a) = Cell(before', a)
                          /\ \A l \in DOMAIN chain' : l > k => a \notin Saved(chain'[l].I)
  BY DEF BytesKept, Mem, End, Addr, Size, Saved
<1>1. /\ before' = before
      /\ IF a \in Saved(chain[1].I) THEN Cell(m', a) = Orig(chain[1], a) ELSE Same(m, m', a)
      /\ Len(chain) \in Nat \ {0} /\ DOMAIN chain = 1..Len(chain) /\ DOMAIN chain' = 1..(Len(chain) - 1)
      /\ \A k \in DOMAIN chain' : chain'[k] = chain[k + 1] /\ k + 1 \in DOMAIN chain
  BY UndoEffect
<1>2. CASE /\ Cell(m, a) = Cell(before, a)
           /\ \A k \in DOMAIN chain : a \notin Saved(chain[k].I)
  <2>1. a \notin Saved(chain[1].I)
    BY <1>1, <1>2
  <2>2. Cell(m', a) = Cell(m, a)
    BY <1>1, <2>1, SameCell
  <2> QED
    BY <1>1, <1>2, <2>2
<1>3. CASE \E k \in DOMAIN chain :
              /\ a \in Saved(chain[k].I) /\ Orig(chain[k], a) = Cell(before, a)
              /\ \A l \in DOMAIN chain : l > k => a \notin Saved(chain[l].I)
  <2>1. PICK k \in DOMAIN chain :
              /\ a \in Saved(chain[k].I) /\ Orig(chain[k], a) = Cell(before, a)
              /\ \A l \in DOMAIN chain : l > k => a \notin Saved(chain[l].I)
    BY <1>3
  <2>2. CASE k = 1
    <3>1. \A l \in DOMAIN chain' : a \notin Saved(chain'[l].I)
      <4>1. \A l \in DOMAIN chain' : l + 1 \in DOMAIN chain /\ chain'[l] = chain[l + 1] /\ l + 1 > 1
        BY <1>1
      <4> QED
        BY <2>1, <2>2, <4>1
    <3> QED
      BY <1>1, <2>1, <2>2, <3>1
  <2>3. CASE k # 1
    <3>1. k - 1 \in DOMAIN chain' /\ (k - 1) + 1 = k /\ k \in Nat
      BY <1>1, <2>3
    <3>2. chain'[k - 1] = chain[k]
      BY <1>1, <3>1
    <3>3. ASSUME NEW l \in DOMAIN chain', l > k - 1 PROVE a \notin Saved(chain'[l].I)
      <4>1. l + 1 \in DOMAIN chain /\ chain'[l] = chain[l + 1] /\ l + 1 > k
        BY <1>1, <3>1, <3>3
      <4> QED
        BY <2>1, <4>1
    <3> QED
      BY <1>1, <2>1, <3>1, <3>2, <3>3
  <2> QED
    BY <2>2, <2>3
<1> QED
  BY <1>2, <1>3 DEF BytesKept

LEMMA UndoneMarks ==
    ASSUME TypeOK, MarksKept, undo
    PROVE  MarksKept'
<1> SUFFICES ASSUME NEW I \in Instrs
             PROVE  \/ /\ I \in m'.patched <=> I \in before'.patched
                       /\ \A k \in DOMAIN chain' : chain'[k].I # I
                    \/ \E k \in DOMAIN chain' :
                          /\ chain'[k].I = I /\ (chain'[k].is_patched <=> I \in before'.patched)
                          /\ \A l \in DOMAIN chain' : l > k => chain'[l].I # I
  BY DEF MarksKept, Instrs
<1>1. /\ before' = before
      /\ m'.patched = IF chain[1].is_patched THEN m.patched \cup {chain[1].I}
                      ELSE m.patched \ {chain[1].I}
      /\ Len(chain) \in Nat \ {0} /\ DOMAIN chain = 1..Len(chain) /\ DOMAIN chain' = 1..(Len(chain) - 1)
      /\ \A k \in DOMAIN chain' : chain'[k] = chain[k + 1] /\ k + 1 \in DOMAIN chain
  BY UndoEffect
<1>2. CASE /\ I \in m.patched <=> I \in before.patched
           /\ \A k \in DOMAIN chain : chain[k].I # I
  <2>1. 1 \in DOMAIN chain
    BY <1>1
  <2> QED
    BY <1>1, <1>2, <2>1
<1>3. CASE \E k \in DOMAIN chain :
              /\ chain[k].I = I /\ (chain[k].is_patched <=> I \in before.patched)
              /\ \A l \in DOMAIN chain : l > k => chain[l].I # I
  <2>1. PICK k \in DOMAIN chain :
              /\ chain[k].I = I /\ (chain[k].is_patched <=> I \in before.patched)
              /\ \A l \in DOMAIN chain : l > k => chain[l].I # I
    BY <1>3
  <2>2. CASE k = 1
    <3>1. \A l \in DOMAIN chain' : chain'[l].I # I
      <4>1. \A l \in DOMAIN chain' : l + 1 \in DOMAIN chain /\ chain'[l] = chain[l + 1] /\ l + 1 > 1
        BY <1>1
      <4> QED
        BY <2>1, <2>2, <4>1
    <3>2. I \in m'.patched <=> I \in before'.patched
      BY <1>1, <2>1, <2>2
    <3> QED
      BY <3>1, <3>2
  <2>3. CASE k # 1
    <3>1. k - 1 \in DOMAIN chain' /\ (k - 1) + 1 = k /\ k \in Nat
      BY <1>1, <2>3
    <3>2. chain'[k - 1] = chain[k]
      BY <1>1, <3>1
    <3>3. ASSUME NEW l \in DOMAIN chain', l > k - 1 PROVE chain'[l].I # I
      <4>1. l + 1 \in DOMAIN chain /\ chain'[l] = chain[l + 1] /\ l + 1 > k
        BY <1>1, <3>1, <3>3
      <4> QED
        BY <2>1, <4>1
    <3> QED
      BY <1>1, <2>1, <3>1, <3>2, <3>3
  <2> QED
    BY <2>2, <2>3
<1> QED
  BY <1>2, <1>3 DEF MarksKept

\* When the chain is empty nothing has happened.
LEMMA EmptyChain ==
    ASSUME TypeOK, Restorable, Allocated, chain = <<>>
    PROVE  m = before
<1>1. DOMAIN chain = {}
  OBVIOUS
<1>2. m \in Store /\ before \in Store
  BY DEF TypeOK
<1>3. \A a \in Mem : Cell(m, a) = Cell(before, a)
  BY <1>1 DEF Restorable, BytesKept
<1>4. \A a \in Mem : m.byte[a] = before.byte[a] /\ m.state[a] = before.state[a]
                     /\ (a \in m.locked <=> a \in before.locked)
  BY <1>3 DEF Cell
<1>5. m.byte = before.byte /\ m.state = before.state /\ m.locked = before.locked
  BY <1>2, <1>4, StoreFacts
<1>6. m.patched = before.patched /\ m.evicted = before.evicted
  <2>1. \A I \in Instrs : (I \in m.patched <=> I \in before.patched)
                          /\ (I \in m.evicted <=> I \in before.evicted)
    BY <1>1 DEF Restorable, MarksKept, EvictedKept, InChain
  <2> QED
    BY <1>2, <2>1, StoreFacts
<1>7. m.no_optimize = before.no_optimize
  BY DEF Restorable, OptimizeKept
<1>8. m.used = before.used
  BY <1>1 DEF Allocated
<1> QED
  BY <1>2, <1>5, <1>6, <1>7, <1>8 DEF Store

=============================================================================
