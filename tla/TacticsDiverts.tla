--------------------------- MODULE TacticsDiverts ---------------------------
(***************************************************************************)
(* The proof that every jump in place reaches its trampoline.  Jumps rely  *)
(* on bytes that are patched or locked, those of other instructions among  *)
(* them; no tactic changes such a byte, since the displacement of a jump   *)
(* that covers it agrees with it.  What the encoded displacements say is   *)
(* the arithmetic of the first part.                                       *)
(***************************************************************************)
EXTENDS TacticsProofs

-----------------------------------------------------------------------------
\* Numbers in base BYTE.

LEMMA DivDef ==
    ASSUME NEW u \in Int, NEW N \in Nat \ {0}
    PROVE  /\ u \div N \in Int /\ u % N \in 0..(N - 1) /\ u = N * (u \div N) + (u % N)
<1>1. u \div N \in Int
  OBVIOUS
<1>2. u % N \in 0..(N - 1)
  OBVIOUS
<1>3. u = N * (u \div N) + (u % N)
  OBVIOUS
<1> QED
  BY <1>1, <1>2, <1>3

LEMMA MulMono ==
    ASSUME NEW x \in Int, NEW y \in Int, NEW N \in Nat \ {0}, x < y
    PROVE  N * x + N <= N * y
<1>1. N * (y - x - 1) >= 0
  BY y - x - 1 >= 0
<1> QED
  BY <1>1

LEMMA ModUnique ==
    ASSUME NEW N \in Nat \ {0}, NEW q \in Int, NEW x \in 0..(N - 1), NEW u \in Int, u = N * q + x
    PROVE  u % N = x
<1> DEFINE p == u \div N
           y == u % N
<1>1. p \in Int /\ y \in 0..(N - 1) /\ u = N * p + y
  BY DivDef
<1> HIDE DEF p, y
<1>2. N * p \in Int /\ N * q \in Int
  BY <1>1
<1>3. ~(p < q)
  <2>1. SUFFICES ASSUME p < q PROVE FALSE
    OBVIOUS
  <2>2. N * p + N <= N * q
    BY <1>1, <2>1, MulMono
  <2> QED
    BY <1>1, <1>2, <2>2
<1>4. ~(q < p)
  <2>1. SUFFICES ASSUME q < p PROVE FALSE
    OBVIOUS
  <2>2. N * q + N <= N * p
    BY <1>1, <2>1, MulMono
  <2> QED
    BY <1>1, <1>2, <2>2
<1>5. p = q
  BY <1>1, <1>3, <1>4
<1>6. y = x
  BY <1>1, <1>2, <1>5
<1> QED
  BY <1>6 DEF y

\* One more digit: u modulo B * P from u modulo P.
LEMMA DivMod ==
    ASSUME NEW u \in Int, NEW P \in Nat \ {0}, NEW B \in Nat \ {0}
    PROVE  u % (B * P) = (u % P) + ((u \div P) % B) * P
<1> DEFINE q == u \div P
           r == u % P
           d == q % B
           k == q \div B
           x == d * P + r
<1>1. q \in Int /\ r \in 0..(P - 1) /\ u = P * q + r
  BY DivDef
<1> HIDE DEF q, r
<1>2. k \in Int /\ d \in 0..(B - 1) /\ q = B * k + d
  BY <1>1, DivDef
<1> HIDE DEF d, k
<1>3. u = (B * P) * k + x
  BY <1>1, <1>2
<1>4. B * P \in Nat \ {0}
  OBVIOUS
<1>5. P * d + P <= P * B /\ P * d >= 0
  <2>1. d < B /\ d \in Nat
    BY <1>2
  <2> QED
    BY <2>1, MulMono
<1>6. x \in 0..(B * P - 1)
  BY <1>1, <1>2, <1>5
<1> HIDE DEF x
<1>7. u % (B * P) = x
  BY <1>2, <1>3, <1>4, <1>6, ModUnique
<1> QED
  BY <1>7, <1>1, <1>2 DEF x, d, q, r

\* What the provers need to know of bytes and displacements.
LEMMA Encoding ==
    /\ BYTE \in Nat \ {0} /\ REL \in Nat \ {0} /\ Half \in Nat \ {0}
    /\ BYTE^0 = 1 /\ BYTE^REL = 2 * Half
    /\ \A k \in 0..REL : BYTE^k \in Nat \ {0}
    /\ \A k \in 0..(REL - 1) : BYTE^(k + 1) = BYTE * BYTE^k
    /\ BYTE = 2 * (BYTE \div 2) /\ BYTE \div 2 \in Nat
<1>1. BYTE \in Nat /\ JMP \in 0..(BYTE - 1) /\ REL \in Nat \ {0} /\ Half \in Nat \ {0}
  BY MachineAssumption DEF Digits
<1>2. /\ BYTE^0 = 1 /\ \A k \in 0..REL : BYTE^k \in Nat \ {0}
      /\ \A k \in 0..(REL - 1) : BYTE^(k + 1) = BYTE * BYTE^k
  BY MachineAssumption, EncodingAssumption
<1>3. BYTE = 2 * (BYTE \div 2) /\ BYTE \div 2 \in Nat
  BY <1>1, EncodingAssumption
<1>4. BYTE^REL = 2 * Half
  <2> DEFINE x == BYTE^REL
             y == BYTE^(REL - 1)
             h == BYTE \div 2
  <2>1. x \in Nat /\ y \in Nat /\ x = BYTE * y
    <3>1. REL - 1 \in 0..(REL - 1) /\ REL - 1 \in 0..REL /\ REL \in 0..REL /\ (REL - 1) + 1 = REL
      BY <1>1
    <3> QED
      BY <1>2, <3>1
  <2>2. Half = x \div 2
    BY DEF Half
  <2>3. BYTE = 2 * h /\ h \in Nat
    BY <1>3
  <2> HIDE DEF x, y, h
  <2>4. x = 2 * (h * y) /\ h * y \in Nat
    BY <2>1, <2>3
  <2>5. x = 2 * Half
    BY <2>1, <2>2, <2>4
  <2> QED
    BY <2>5 DEF x
<1> QED
  BY <1>1, <1>2, <1>3, <1>4

\* The bytes of a displacement stand for it.
LEMMA Encoded ==
    ASSUME NEW f, NEW a \in Int, NEW r \in Int, r \in -(Half - 1)..(Half - 1),
           \A k \in 0..(REL - 1) : f[a + k] = RelByte(r, k)
    PROVE  Signed(URel(f, a)) = r
<1> DEFINE u == r % (2 * Half)
           P(k) == BYTE^k
           F(v) == [k \in 0..REL |-> IF k = 0 THEN 0 ELSE v[k - 1] + f[a + k - 1] * BYTE^(k - 1)]
           w == [k \in 0..REL |-> u % P(k)]
           V == CHOOSE v : v = F(v)
<1>1. u \in 0..(2 * Half - 1) /\ BYTE \in Nat \ {0} /\ REL \in Nat \ {0} /\ Half \in Nat \ {0}
  BY Encoding
<1>2. ASSUME NEW k \in 0..(REL - 1)
      PROVE  u % P(k + 1) = (u % P(k)) + f[a + k] * P(k)
  <2>1. P(k) \in Nat \ {0} /\ P(k + 1) = BYTE * P(k)
    BY <1>1, Encoding
  <2>2. f[a + k] = (u \div P(k)) % BYTE
    BY DEF RelByte
  <2> DEFINE p == P(k)
  <2>3. p \in Nat \ {0} /\ u \in Int
    BY <1>1, <2>1
  <2> HIDE DEF u, p
  <2>4. u % (BYTE * p) = (u % p) + ((u \div p) % BYTE) * p
    BY <1>1, <2>3, DivMod
  <2> QED
    BY <2>1, <2>2, <2>4 DEF p
<1>3. u % P(0) = 0 /\ u % P(REL) = u
  <2>1. P(0) = 1 /\ P(REL) = 2 * Half
    BY Encoding
  <2> HIDE DEF u, P
  <2> QED
    BY <1>1, <2>1
<1>4. w = F(w)
  <2>1. ASSUME NEW k \in 0..REL, k # 0
        PROVE  w[k] = w[k - 1] + f[a + k - 1] * BYTE^(k - 1)
    <3>1. k - 1 \in 0..(REL - 1) /\ (k - 1) + 1 = k /\ k - 1 \in 0..REL /\ a + (k - 1) = a + k - 1
      BY <1>1, <2>1
    <3>2. u % P(k) = (u % P(k - 1)) + f[a + k - 1] * P(k - 1)
      <4> HIDE DEF u, P
      <4> QED
        BY <1>2, <3>1
    <3> QED
      BY <3>1, <3>2
  <2>2. w[0] = 0
    BY <1>1, <1>3
  <2> QED
    BY <2>1, <2>2
<1>5. V = F(V)
  <2> HIDE DEF F, w
  <2> QED
    BY <1>4
<1>6. \A k \in 0..REL : V[k] = w[k]
  <2> DEFINE D == {k \in 0..REL : V[k] # w[k]}
  <2>1. SUFFICES ASSUME D # {} PROVE FALSE
    OBVIOUS
  <2>2. D \subseteq Nat
    <3> HIDE DEF V, w
    <3> QED
      BY <1>1
  <2> HIDE DEF D
  <2>3. PICK k \in D : \A j \in D : k <= j
    BY <2>1, <2>2, LeastNat
  <2> USE DEF D
  <2>4. k \in 0..REL /\ V[k] # w[k]
    BY <2>3
  <2>5. CASE k = 0
    <3>1. V[0] = 0 /\ w[0] = 0
      <4> HIDE DEF V, w, D
      <4>1. 0 \in 0..REL
        BY <1>1
      <4>2. F(V)[0] = 0 /\ F(w)[0] = 0
        BY <4>1
      <4> QED
        BY <1>4, <1>5, <4>2
    <3> QED
      BY <2>4, <2>5, <3>1
  <2>6. CASE k # 0
    <3>1. k - 1 \in 0..REL /\ k - 1 < k
      BY <1>1, <2>4, <2>6
    <3>2. V[k - 1] = w[k - 1]
      <4> HIDE DEF V, w
      <4> QED
        BY <2>3, <2>4, <3>1
    <3>3. /\ V[k] = V[k - 1] + f[a + k - 1] * BYTE^(k - 1)
          /\ w[k] = w[k - 1] + f[a + k - 1] * BYTE^(k - 1)
      <4> HIDE DEF V, w, D
      <4>1. /\ F(V)[k] = V[k - 1] + f[a + k - 1] * BYTE^(k - 1)
            /\ F(w)[k] = w[k - 1] + f[a + k - 1] * BYTE^(k - 1)
        BY <2>4, <2>6
      <4> QED
        BY <1>4, <1>5, <4>1
    <3> QED
      BY <2>4, <3>2, <3>3
  <2> QED
    BY <2>5, <2>6
<1>7. URel(f, a) = u
  <2>1. URel(f, a) = V[REL]
    BY DEF URel
  <2>2. REL \in 0..REL
    BY <1>1
  <2>3. V[REL] = w[REL]
    <3> HIDE DEF V, w
    <3> QED
      BY <1>6, <2>2
  <2> QED
    BY <1>3, <2>1, <2>2, <2>3
<1>8. u = IF r >= 0 THEN r ELSE r + 2 * Half
  <2>1. r \in Int /\ Half \in Nat \ {0} /\ r <= Half - 1 /\ -(Half - 1) <= r
    BY Encoding
  <2>2. r >= 0 => r = (2 * Half) * 0 + r /\ r \in 0..(2 * Half - 1)
    BY <2>1
  <2>3. r < 0 => r = (2 * Half) * (-1) + (r + 2 * Half) /\ r + 2 * Half \in 0..(2 * Half - 1)
    BY <2>1
  <2>4. 2 * Half \in Nat \ {0} /\ 0 \in Int /\ -1 \in Int
    BY <2>1
  <2> QED
    BY <2>1, <2>2, <2>3, <2>4, ModUnique
<1> HIDE DEF u
<1>9. Signed(u) = r
  BY <1>1, <1>8 DEF Signed
<1> QED
  BY <1>7, <1>9

\* The same for the displacement of a short jump.
LEMMA EncodedShort ==
    ASSUME NEW r \in SHORT_JMP_MIN..SHORT_JMP_MAX
    PROVE  r \in Int /\ SByte(r % BYTE) = r /\ r % BYTE \in Digits
<1> DEFINE h == BYTE \div 2
<1>1. BYTE = 2 * h /\ h \in Nat \ {0} /\ r \in Int /\ -h <= r /\ r <= h - 1
  BY Encoding DEF SHORT_JMP_MIN, SHORT_JMP_MAX
<1>2. SByte(r % BYTE) = IF r % BYTE >= h THEN (r % BYTE) - BYTE ELSE r % BYTE
  BY DEF SByte
<1> HIDE DEF h
<1>3. r >= 0 => r = BYTE * 0 + r /\ r \in 0..(BYTE - 1)
  BY <1>1
<1>4. r < 0 => r = BYTE * (-1) + (r + BYTE) /\ r + BYTE \in 0..(BYTE - 1)
  BY <1>1
<1>5. BYTE \in Nat \ {0} /\ 0 \in Int /\ -1 \in Int
  BY <1>1
<1>6. r % BYTE = IF r >= 0 THEN r ELSE r + BYTE
  BY <1>1, <1>3, <1>4, <1>5, ModUnique
<1> QED
  BY <1>1, <1>2, <1>6 DEF Digits

-----------------------------------------------------------------------------
\* What jumps rely on.

\* The byte at a is one that no later patch may change.
Fixed(s, a) == s.state[a] = "PATCHED" \/ a \in s.locked

\* From s to t, what is fixed stays fixed and keeps its value.
Keeps(s, t) == \A a \in Mem : Fixed(s, a) => Fixed(t, a) /\ t.byte[a] = s.byte[a]

\* At a is a jump to e that no later patch can disturb, be its displacement written or
\* punned with bytes of the instructions behind it.
Jumping(s, a, e) ==
    /\ e - (a + JMP_SIZE) \in -(Half - 1)..(Half - 1)
    /\ \A x \in a..(a + REL) : x \in Mem /\ Fixed(s, x)
    /\ s.byte[a] = JMP
    /\ \A k \in 0..(REL - 1) : s.byte[a + 1 + k] = RelByte(e - (a + JMP_SIZE), k)

\* The three ways from I to its trampoline: a jump behind any number of prefixes (B1, B2,
\* T0, T1, T2), a short jump to a jump hidden in a neighbour (T3), and a trap (B0).
Prefixed(s, I, e) ==
    \E p \in 0..(Size(I) - 1) :
        /\ \A x \in Addr(I)..(Addr(I) + p - 1) : Fixed(s, x) /\ s.byte[x] = PREFIX
        /\ Jumping(s, Addr(I) + p, e)
InTwo(s, I, e) ==
    \E r \in SHORT_JMP_MIN..SHORT_JMP_MAX :
        /\ Fixed(s, Addr(I)) /\ Fixed(s, Addr(I) + 1)
        /\ s.byte[Addr(I)] = SHORT /\ s.byte[Addr(I) + 1] = r % BYTE
        /\ Jumping(s, Addr(I) + SHORT_SIZE + r, e)
Trapping(s, I, T) == I \in T /\ Fixed(s, Addr(I)) /\ s.byte[Addr(I)] = TRAP
Reaches(s, I, e, T) == Prefixed(s, I, e) \/ InTwo(s, I, e) \/ Trapping(s, I, T)

\* Every instruction with a trampoline reaches it.
Landed(s, es, T) == \A I \in Instrs : es[I] # NIL => Reaches(s, I, es[I], T)

\* No byte of I has been patched, locked or freed.
Pristine(s, I) == \A a \in Bytes(I) : Is(s, a, {"INSTRUCTION"})

\* While T3 evicts the neighbour pc.J in which it has hidden a jump, that jump is in place
\* and in range of the short jump that is yet to be written over pc.I.
Hidden ==
    pc.at \in {"B1", "B2", "T1", "won"} /\ pc.task = "evict3" =>
        /\ Size(pc.I) # 1 /\ pc.i < Size(pc.J)
        /\ Jumping(m, Addr(pc.J) + pc.i, pc.to)
        /\ Addr(pc.J) + pc.i - (Addr(pc.I) + SHORT_SIZE) \in SHORT_JMP_MIN..SHORT_JMP_MAX
        /\ pc.J < pc.I => Addr(pc.J) + pc.i + JMP_SIZE <= Addr(pc.I)
        /\ Pristine(m, pc.I)

\* I has been announced, and its first byte is patched or free.
Taken(s, I) == I \in Known /\ ~Is(s, Addr(I), {"INSTRUCTION", "QUEUED"})

\* The present memory of a tactic that has not given up: what patch() found fixed is as it
\* was, and each patch of the chain with a trampoline of its own jumps there.
Steady ==
    /\ Keeps(before, m)
    /\ \A I \in batched : Taken(m, I)
    /\ pc.task = "batch" => \A k \in DOMAIN chain : Taken(m, chain[k].I)
    /\ \A k \in DOMAIN chain : Own(k) => Prefixed(m, chain[k].I, chain[k].A)

\* With IInv, the inductive invariant.
Landing ==
    /\ asked \subseteq Wanted
    /\ \A I \in batched : Taken(before, I)
    /\ pc.at # "idle" => Pristine(before, pc.I) /\ pc.I \in Wanted
    /\ Landed(before, Es, Traps)
    /\ pc.at # "lost" => Steady
    /\ Hidden

LEMMA JumpingKept ==
    ASSUME NEW s, NEW t, NEW a \in Int, NEW e, Keeps(s, t), Jumping(s, a, e)
    PROVE  Jumping(t, a, e)
<1>1. REL \in Nat \ {0}
  BY Encoding
<1>2. \A x \in a..(a + REL) : x \in Mem /\ Fixed(t, x) /\ t.byte[x] = s.byte[x]
  BY DEF Keeps, Jumping
<1>3. a \in a..(a + REL) /\ \A k \in 0..(REL - 1) : a + 1 + k \in a..(a + REL)
  BY <1>1
<1>4. t.byte[a] = JMP /\ \A k \in 0..(REL - 1) : t.byte[a + 1 + k] = RelByte(e - (a + JMP_SIZE), k)
  BY <1>2, <1>3 DEF Jumping
<1> QED
  BY <1>2, <1>4 DEF Jumping

LEMMA PrefixedKept ==
    ASSUME NEW s, NEW t, NEW I \in Instrs, NEW e, Keeps(s, t), Prefixed(s, I, e)
    PROVE  Prefixed(t, I, e)
<1>1. Addr(I) \in Nat /\ Size(I) \in Nat /\ Bytes(I) \subseteq Mem
  BY InstrFacts, MemFacts
<1>2. PICK p \in 0..(Size(I) - 1) :
        /\ \A x \in Addr(I)..(Addr(I) + p - 1) : Fixed(s, x) /\ s.byte[x] = PREFIX
        /\ Jumping(s, Addr(I) + p, e)
  BY DEF Prefixed
<1>3. \A x \in Addr(I)..(Addr(I) + p - 1) : x \in Mem
  BY <1>1 DEF Bytes
<1>4. \A x \in Addr(I)..(Addr(I) + p - 1) : Fixed(t, x) /\ t.byte[x] = PREFIX
  BY <1>2, <1>3 DEF Keeps
<1>5. Jumping(t, Addr(I) + p, e)
  BY <1>1, <1>2, JumpingKept
<1> QED
  BY <1>4, <1>5 DEF Prefixed

LEMMA ReachesKept ==
    ASSUME NEW s, NEW t, NEW I \in Instrs, NEW e, NEW T, NEW U, Keeps(s, t), Reaches(s, I, e, T),
           I \in T => I \in U
    PROVE  Reaches(t, I, e, U)
<1>1. Addr(I) \in Nat /\ Addr(I) \in Mem /\ Addr(I) + 1 \in Mem
  BY InstrFacts, MemFacts
<1>2. CASE Prefixed(s, I, e)
  BY <1>2, PrefixedKept DEF Reaches
<1>3. CASE InTwo(s, I, e)
  <2>1. PICK r \in SHORT_JMP_MIN..SHORT_JMP_MAX :
          /\ Fixed(s, Addr(I)) /\ Fixed(s, Addr(I) + 1)
          /\ s.byte[Addr(I)] = SHORT /\ s.byte[Addr(I) + 1] = r % BYTE
          /\ Jumping(s, Addr(I) + SHORT_SIZE + r, e)
    BY <1>3 DEF InTwo
  <2>2. Addr(I) + SHORT_SIZE + r \in Int
    BY <1>1, EncodedShort DEF SHORT_SIZE
  <2>3. Jumping(t, Addr(I) + SHORT_SIZE + r, e)
    BY <2>1, <2>2, JumpingKept
  <2>4. /\ Fixed(t, Addr(I)) /\ Fixed(t, Addr(I) + 1)
        /\ t.byte[Addr(I)] = SHORT /\ t.byte[Addr(I) + 1] = r % BYTE
    BY <1>1, <2>1 DEF Keeps
  <2> QED
    BY <2>3, <2>4 DEF InTwo, Reaches
<1>4. CASE Trapping(s, I, T)
  BY <1>1, <1>4 DEF Trapping, Keeps, Reaches
<1> QED
  BY <1>2, <1>3, <1>4 DEF Reaches

LEMMA KeepsTrans ==
    ASSUME NEW s, NEW t, NEW u, Keeps(s, t), Keeps(t, u)
    PROVE  Keeps(s, u)
BY DEF Keeps

\* A store that keeps what is fixed keeps every way to a trampoline.
LEMMA LandedKept ==
    ASSUME NEW s, NEW t, NEW es, NEW T, Landed(s, es, T), Keeps(s, t)
    PROVE  Landed(t, es, T)
BY ReachesKept DEF Landed

\* What the processor does there.
LEMMA JumpsThere ==
    ASSUME NEW a \in Int, NEW e \in Int, Jumping(m, a, e)
    PROVE  JumpsTo(a) = e /\ m.byte[a] = JMP /\ a \in Mem
<1> DEFINE r == e - (a + JMP_SIZE)
<1>1. r \in Int /\ r \in -(Half - 1)..(Half - 1) /\ JMP_SIZE \in Int /\ REL \in Nat \ {0}
  BY Encoding DEF Jumping, JMP_SIZE
<1>2. \A k \in 0..(REL - 1) : m.byte[(a + 1) + k] = RelByte(r, k)
  BY DEF Jumping
<1> HIDE DEF r
<1>3. Signed(URel(m.byte, a + 1)) = r
  BY <1>1, <1>2, Encoded
<1>4. a \in a..(a + REL)
  BY <1>1
<1> QED
  BY <1>1, <1>3, <1>4 DEF JumpsTo, r, Jumping

LEMMA LeastIs ==
    ASSUME NEW S \in SUBSET Nat, NEW a \in S, \A y \in S : a <= y
    PROVE  Least(S) = a
<1> DEFINE x == Least(S)
<1>1. x \in S /\ \A y \in S : x <= y
  BY DEF Least
<1>2. x \in Nat /\ a \in Nat
  BY <1>1
<1> HIDE DEF x
<1>3. x <= a /\ a <= x
  BY <1>1
<1>4. x = a
  BY <1>2, <1>3
<1> QED
  BY <1>4 DEF x

\* The processor follows each of the three ways to its end.
LEMMA LandsThere ==
    ASSUME m \in Store, NEW I \in Instrs, Es[I] \in Int, Reaches(m, I, Es[I], Traps)
    PROVE  Lands(I) = Es[I]
<1> DEFINE S == {x \in Mem : x >= Addr(I) /\ m.byte[x] # PREFIX}
           b(a) == a + SHORT_SIZE + SByte(m.byte[a + 1])
<1>1. Addr(I) \in Nat /\ Size(I) \in Nat /\ Addr(I) \in Mem /\ Mem \subseteq Nat
  BY InstrFacts, MemFacts
<1>2. JMP # PREFIX /\ SHORT \notin {PREFIX, JMP} /\ TRAP \notin {PREFIX, JMP, SHORT}
  BY EncodingAssumption
<1>3. ASSUME NEW a \in Mem, Addr(I) <= a, m.byte[a] # PREFIX,
             \A x \in Addr(I)..(a - 1) : m.byte[x] = PREFIX
      PROVE  Least(S) = a
  <2>1. a \in S /\ S \in SUBSET Nat
    BY <1>1, <1>3
  <2>2. ASSUME NEW y \in S PROVE a <= y
    BY <1>1, <1>3
  <2> HIDE DEF S
  <2> QED
    BY <2>1, <2>2, LeastIs
<1>4. Lands(I) = LET a == Least(S)
                 IN  IF m.byte[a] = JMP THEN JumpsTo(a)
                     ELSE IF m.byte[a] = SHORT /\ b(a) \in Mem THEN
                          (IF m.byte[b(a)] = JMP THEN JumpsTo(b(a)) ELSE Nowhere)
                     ELSE IF a = Addr(I) /\ m.byte[a] = TRAP /\ I \in Traps THEN Es[I]
                     ELSE Nowhere
  BY DEF Lands
<1> HIDE DEF S
<1>5. CASE Prefixed(m, I, Es[I])
  <2>1. PICK p \in 0..(Size(I) - 1) :
          /\ \A x \in Addr(I)..(Addr(I) + p - 1) : m.byte[x] = PREFIX
          /\ Jumping(m, Addr(I) + p, Es[I])
    BY <1>5 DEF Prefixed
  <2>2. JumpsTo(Addr(I) + p) = Es[I] /\ m.byte[Addr(I) + p] = JMP /\ Addr(I) + p \in Mem
    BY <1>1, <2>1, JumpsThere
  <2>3. Least(S) = Addr(I) + p
    BY <1>1, <1>2, <1>3, <2>1, <2>2
  <2> QED
    BY <1>4, <2>2, <2>3
<1>6. CASE InTwo(m, I, Es[I])
  <2>1. PICK r \in SHORT_JMP_MIN..SHORT_JMP_MAX :
          /\ m.byte[Addr(I)] = SHORT /\ m.byte[Addr(I) + 1] = r % BYTE
          /\ Jumping(m, Addr(I) + SHORT_SIZE + r, Es[I])
    BY <1>6 DEF InTwo
  <2>2. r \in Int /\ SByte(r % BYTE) = r /\ SHORT_SIZE \in Int
    BY EncodedShort DEF SHORT_SIZE
  <2>3. b(Addr(I)) = Addr(I) + SHORT_SIZE + r
    BY <2>1, <2>2
  <2>4. JumpsTo(b(Addr(I))) = Es[I] /\ m.byte[b(Addr(I))] = JMP /\ b(Addr(I)) \in Mem
    BY <1>1, <2>1, <2>2, <2>3, JumpsThere
  <2>5. Least(S) = Addr(I)
    BY <1>1, <1>2, <1>3, <2>1
  <2> HIDE DEF b
  <2> QED
    BY <1>2, <1>4, <2>1, <2>4, <2>5
<1>7. CASE Trapping(m, I, Traps)
  <2>1. m.byte[Addr(I)] = TRAP /\ I \in Traps
    BY <1>7 DEF Trapping
  <2>2. Least(S) = Addr(I)
    BY <1>1, <1>2, <1>3, <2>1
  <2> QED
    BY <1>2, <1>4, <2>1, <2>2
<1> QED
  BY <1>5, <1>6, <1>7 DEF Reaches

-----------------------------------------------------------------------------
\* Writing a jump.

\* The byte at offset q of J is one that a jump in J may overwrite.
Writable(s, J, q) ==
    /\ Is(s, Addr(J) + q, {"INSTRUCTION", "FREE"})
    /\ q >= Size(J) => Is(s, Addr(J) + q, {"FREE"})

\* The displacement bytes that makeBounds() takes to be free can be written.
LEMMA FreeBytesFacts ==
    ASSUME NEW s, NEW J \in Instrs, NEW p \in Nat, p < Size(J)
    PROVE  /\ FreeBytes(s, J, p) \in Int
           /\ \A k \in Nat : k < FreeBytes(s, J, p) => Writable(s, J, p + 1 + k)
<1> DEFINE S == {q \in (p + 1)..Size(J) :
                    q = Size(J) \/ ~Is(s, Addr(J) + q, {"INSTRUCTION", "FREE"})}
           inside == Least(S)
           T == {q \in inside..JMP_SIZE : q = JMP_SIZE \/ ~Is(s, Addr(J) + q, {"FREE"})}
           size == IF inside >= JMP_SIZE THEN inside ELSE Least(T)
<1>1. Size(J) \in Nat /\ JMP_SIZE \in Nat
  BY InstrFacts, Constants DEF JMP_SIZE
<1>2. inside \in S /\ \A q \in S : inside <= q
  <2>1. S \subseteq Nat /\ Size(J) \in S
    BY <1>1
  <2> HIDE DEF S
  <2>2. \E y \in S : \A q \in S : y <= q
    BY <2>1, LeastNat
  <2> QED
    BY <2>2 DEF Least
<1>3. FreeBytes(s, J, p) = size - p - 1
  BY DEF FreeBytes
<1>4. inside \in (p + 1)..Size(J)
  <2> HIDE DEF inside
  <2> QED
    BY <1>2
<1>5. \A q \in (p + 1)..Size(J) : q < inside => Is(s, Addr(J) + q, {"INSTRUCTION", "FREE"})
  <2> HIDE DEF inside
  <2> QED
    BY <1>1, <1>2, <1>4
<1> HIDE DEF inside, S
<1>6. CASE inside >= JMP_SIZE
  <2>1. size = inside
    BY <1>6
  <2>2. ASSUME NEW k \in Nat, k < size - p - 1 PROVE Writable(s, J, p + 1 + k)
    <3> DEFINE x == p + 1 + k
    <3>1. x < inside /\ x \in (p + 1)..Size(J) /\ ~(x >= Size(J))
      BY <1>1, <1>4, <2>1, <2>2
    <3> HIDE DEF x
    <3>2. Writable(s, J, x)
      BY <1>5, <3>1 DEF Writable
    <3> QED
      BY <3>2 DEF x
  <2>3. size - p - 1 \in Int
    BY <1>4, <2>1
  <2> QED
    BY <1>3, <2>2, <2>3
<1>7. CASE inside < JMP_SIZE
  <2> DEFINE l == Least(T)
  <2>1. l \in T /\ \A q \in T : l <= q
    <3>1. T \subseteq Nat /\ JMP_SIZE \in T
      BY <1>1, <1>4, <1>7
    <3> HIDE DEF T
    <3>2. \E y \in T : \A q \in T : y <= q
      BY <3>1, LeastNat
    <3> QED
      BY <3>2 DEF Least
  <2>2. size = l
    BY <1>1, <1>4, <1>7
  <2> HIDE DEF l, size
  <2>3. l \in inside..JMP_SIZE
    BY <2>1
  <2>4. ASSUME NEW k \in Nat, k < size - p - 1 PROVE Writable(s, J, p + 1 + k)
    <3> DEFINE x == p + 1 + k
    <3>1. x < l /\ x \in Nat /\ p + 1 <= x
      BY <1>1, <1>4, <2>2, <2>3, <2>4
    <3> HIDE DEF x
    <3>2. Writable(s, J, x)
      <4>1. CASE x < inside
        <5>1. x \in (p + 1)..Size(J) /\ ~(x >= Size(J))
          BY <1>1, <1>4, <3>1, <4>1
        <5> QED
          BY <1>5, <4>1, <5>1 DEF Writable
      <4>2. CASE x >= inside
        <5>1. x \in inside..JMP_SIZE /\ x # JMP_SIZE
          BY <1>1, <1>4, <2>3, <3>1, <4>2
        <5>2. x \notin T
          <6> HIDE DEF T
          <6>1. l \in Int
            BY <1>1, <1>4, <2>3
          <6> QED
            BY <2>1, <3>1, <6>1
        <5>3. Is(s, Addr(J) + x, {"FREE"})
          BY <5>1, <5>2
        <5> QED
          BY <5>3 DEF Is, Writable
      <4> QED
        BY <1>1, <1>4, <3>1, <4>1, <4>2
    <3> QED
      BY <3>2 DEF x
  <2>5. size - p - 1 \in Int
    BY <1>1, <1>4, <2>2, <2>3
  <2> QED
    BY <1>3, <2>4, <2>5
<1> QED
  BY <1>1, <1>4, <1>6, <1>7

\* A jump at offset p of J, for which e is in bounds: no byte that a jump relies on
\* changes, and the new jump goes to e.
LEMMA PunJump ==
    ASSUME NEW r, NEW s \in Store, NEW J \in Instrs, NEW p \in Nat, p < Size(J), NEW e \in Int,
           \A a \in Mem : a >= Addr(J) + p => Same(r, s, a),
           InBounds(r, J, p, FALSE, e), Is(s, Addr(J) + p, {"INSTRUCTION", "FREE"}),
           NEW t, t = patchJump(s, J, p, e)
    PROVE  /\ Keeps(s, t) /\ Jumping(t, Addr(J) + p, e)
           /\ \A a \in Mem : ~(Addr(J) + p <= a /\ a <= Addr(J) + p + REL) => Same(s, t, a)
<1> DEFINE at   == Addr(J) + p
           rel  == e - (at + JMP_SIZE)
           disp == (at + 1)..(at + REL)
           mine == {a \in disp : a \in Bytes(J) \/ Is(s, a, {"FREE"})}
           f    == [a \in Mem |-> IF a = at THEN JMP
                                  ELSE IF a \in mine THEN RelByte(rel, a - at - 1) ELSE s.byte[a]]
           w    == mine \cup {at}
           l    == (s.locked \ w) \cup (disp \ mine)
           F    == FreeBytes(r, J, p)
<1>1. /\ Addr(J) \in Nat /\ Size(J) \in Nat /\ Size(J) <= MaxInstr
      /\ MaxInstr + REL + 1 <= PATCH_MAX /\ REL \in Nat \ {0} /\ MaxInstr \in Nat /\ PATCH_MAX \in Nat
      /\ Saved(J) \subseteq Mem /\ Mem \subseteq Nat /\ JMP_SIZE = REL + 1
  BY InstrFacts, Constants, MemFacts DEF JMP_SIZE
<1>2. disp \subseteq Mem /\ at \in Mem /\ at \in Nat
  <2>1. disp \subseteq Saved(J) /\ at \in Saved(J)
    BY <1>1 DEF Saved
  <2> QED
    BY <1>1, <2>1
<1>3. t = [s EXCEPT !.byte = f, !.state = Fill(s.state, w, "PATCHED"), !.locked = l]
  BY DEF patchJump
<1>4. t.byte = f /\ t.state = Fill(s.state, w, "PATCHED") /\ t.locked = l
  <2> HIDE DEF f, w, l
  <2> QED
    BY <1>3 DEF Store
<1>5. IsFill(t.state, s.state, w, "PATCHED")
  <2>1. s.state \in [Mem -> States] /\ "PATCHED" \in States
    BY StoreFacts, PatchedState
  <2> HIDE DEF f, w, l
  <2>2. IsFill(Fill(s.state, w, "PATCHED"), s.state, w, "PATCHED")
    BY <2>1, FillFacts
  <2> QED
    BY <1>4, <2>2
<1>6. rel \in -(Half - 1)..(Half - 1) /\ \A k \in F..(REL - 1) : RelByte(rel, k) = r.byte[at + 1 + k]
  <2>1. ASSUME NEW k \in F..(REL - 1)
        PROVE  RelByte(rel, k) = r.byte[(at + JMP_SIZE) - REL + k] /\ k \in Int
    <3>1. \A n \in F..(REL - 1) : RelByte(rel, n) = r.byte[(at + JMP_SIZE) - REL + n]
      BY DEF InBounds
    <3>2. k \in Int
      <4> HIDE DEF F
      <4> QED
        OBVIOUS
    <3> HIDE DEF F, rel, at
    <3> QED
      BY <3>1, <3>2
  <2>2. \A k \in F..(REL - 1) : (at + JMP_SIZE) - REL + k = at + 1 + k
    <3> HIDE DEF F, at
    <3> QED
      BY <1>1, <1>2
  <2>3. rel \in -(Half - 1)..(Half - 1)
    BY DEF InBounds
  <2> HIDE DEF rel, F, at
  <2> QED
    BY <2>1, <2>2, <2>3
<1>7. ASSUME NEW k \in 0..(REL - 1)
      PROVE  /\ at + 1 + k \in disp /\ (at + 1 + k) - at - 1 = k /\ at + 1 + k # at
             /\ \/ RelByte(rel, k) = s.byte[at + 1 + k]
                \/ at + 1 + k \in mine /\ Is(s, at + 1 + k, {"INSTRUCTION", "FREE"})
  <2>1. at + 1 + k \in disp /\ (at + 1 + k) - at - 1 = k /\ at + 1 + k # at
    BY <1>1, <1>2
  <2>2. Same(r, s, at + 1 + k)
    <3>1. at + 1 + k \in Mem /\ at + 1 + k >= at
      BY <1>2, <2>1
    <3> QED
      BY <3>1
  <2>3. CASE k < F
    <3>1. at + 1 + k = Addr(J) + (p + 1 + k) /\ k \in Nat
      BY <1>1
    <3>2. Writable(r, J, p + 1 + k)
      BY <2>3, <3>1, FreeBytesFacts
    <3>3. /\ Is(s, at + 1 + k, {"INSTRUCTION", "FREE"})
          /\ p + 1 + k >= Size(J) => Is(s, at + 1 + k, {"FREE"})
      <4>1. /\ Is(r, at + 1 + k, {"INSTRUCTION", "FREE"})
            /\ p + 1 + k >= Size(J) => Is(r, at + 1 + k, {"FREE"})
        BY <3>1, <3>2 DEF Writable
      <4> HIDE DEF at
      <4> QED
        BY <2>2, <4>1 DEF Same, Is
    <3>4. p + 1 + k < Size(J) => at + 1 + k \in Bytes(J)
      BY <1>1 DEF Bytes
    <3>5. p + 1 + k < Size(J) \/ p + 1 + k >= Size(J)
      BY <1>1
    <3>6. at + 1 + k \in mine
      <4> HIDE DEF at, disp
      <4> QED
        BY <2>1, <3>3, <3>4, <3>5
    <3> QED
      BY <2>1, <3>3, <3>6
  <2>4. CASE ~(k < F)
    <3>1. F \in Int
      BY FreeBytesFacts
    <3>2. k \in F..(REL - 1)
      <4> HIDE DEF F
      <4> QED
        BY <1>1, <2>4, <3>1
    <3>3. RelByte(rel, k) = r.byte[at + 1 + k]
      <4> HIDE DEF F, rel, at
      <4> QED
        BY <1>6, <3>2
    <3> QED
      BY <2>1, <2>2, <3>3 DEF Same
  <2> QED
    BY <2>3, <2>4
<1>8. /\ disp \subseteq Int /\ mine \subseteq disp /\ at \notin disp
      /\ \A a \in disp : a - at - 1 \in 0..(REL - 1) /\ at + 1 + (a - at - 1) = a
      /\ \A a \in Mem : a = at \/ a \in disp <=> at <= a /\ a <= at + REL
  BY <1>1, <1>2
<1>9. /\ t.byte[at] = JMP /\ at \in w
      /\ \A a \in Mem : t.byte[a] = IF a = at THEN JMP
                                    ELSE IF a \in mine THEN RelByte(rel, a - at - 1) ELSE s.byte[a]
  <2> HIDE DEF at, mine, rel
  <2> QED
    BY <1>2, <1>4
<1> HIDE DEF at, disp, mine, f, F, rel
<1>10. ASSUME NEW a \in Mem, a = at \/ a \in disp PROVE Fixed(t, a)
  BY <1>4, <1>5, <1>10 DEF Fixed, IsFill
<1>11. ASSUME NEW a \in disp
       PROVE  t.byte[a] = RelByte(rel, a - at - 1) /\ (Fixed(s, a) => t.byte[a] = s.byte[a])
  <2> DEFINE k == a - at - 1
  <2>1. k \in 0..(REL - 1) /\ at + 1 + k = a /\ a \in Mem /\ a # at
    BY <1>2, <1>8
  <2> HIDE DEF k
  <2>2. \/ RelByte(rel, k) = s.byte[a]
        \/ a \in mine /\ Is(s, a, {"INSTRUCTION", "FREE"})
    BY <1>7, <2>1
  <2>3. t.byte[a] = RelByte(rel, k)
    BY <1>9, <2>1, <2>2 DEF k
  <2> QED
    BY <2>2, <2>3 DEF k, Fixed, Is
<1>12. ~Fixed(s, at)
  BY DEF Fixed, Is, at
<1>13. ASSUME NEW a \in Mem, ~(a = at \/ a \in disp) PROVE Same(s, t, a)
  BY <1>4, <1>5, <1>8, <1>9, <1>13 DEF Same, IsFill
<1>14. Keeps(s, t)
  BY <1>10, <1>11, <1>12, <1>13 DEF Keeps, Same, Fixed
<1>15. Jumping(t, at, e)
  <2>1. rel = e - (at + JMP_SIZE)
    BY DEF rel
  <2>2. \A x \in at..(at + REL) : x \in Mem /\ Fixed(t, x)
    <3>1. \A x \in at..(at + REL) : x = at \/ x \in disp
      BY <1>1, <1>2 DEF disp
    <3> QED
      BY <1>2, <1>10, <3>1
  <2>3. \A k \in 0..(REL - 1) : t.byte[at + 1 + k] = RelByte(rel, k)
    BY <1>7, <1>11
  <2> QED
    BY <1>6, <1>9, <2>1, <2>2, <2>3 DEF Jumping
<1>16. ASSUME NEW a \in Mem, ~(at <= a /\ a <= at + REL) PROVE Same(s, t, a)
  BY <1>8, <1>13, <1>16
<1> QED
  BY <1>14, <1>15, <1>16 DEF at

\* patchUnused() frees bytes that no jump relies on.
LEMMA UnusedKeeps ==
    ASSUME NEW s \in Store, NEW J \in Instrs, NEW off \in Nat, NEW t, t = patchUnused(s, J, off)
    PROVE  Keeps(s, t) /\ \A a \in Mem \ Bytes(J) : Same(s, t, a)
<1> DEFINE w == {a \in Bytes(J) : a >= Addr(J) + off /\ Is(s, a, {"INSTRUCTION", "QUEUED"})}
           l == s.locked
<1>1. t = Over(s, w, INT3, "FREE", l)
  <2>1. s = [s EXCEPT !.locked = s.locked]
    BY DEF Store
  <2> QED
    BY <2>1 DEF patchUnused, Over, Store
<1>2. l \in SUBSET Mem /\ INT3 \in Digits /\ "FREE" \in States
  BY StoreFacts, Opcodes, PatchedState
<1>3. w \subseteq Bytes(J) /\ \A a \in w : Is(s, a, {"INSTRUCTION", "QUEUED"})
  OBVIOUS
<1> HIDE DEF w, l
<1>4. /\ t.locked = l
      /\ IsFill(t.byte, s.byte, w, INT3) /\ IsFill(t.state, s.state, w, "FREE")
  BY <1>1, <1>2, Filled
<1> QED
  BY <1>3, <1>4 DEF Keeps, Same, Fixed, IsFill, Is, l

\* patchJumpPrefix() writes prefixes over bytes that no jump relies on.
LEMMA PrefixKeeps ==
    ASSUME NEW s \in Store, NEW J \in Instrs, NEW p \in Nat, p < Size(J),
           \A q \in 0..p : Is(s, Addr(J) + q, {"INSTRUCTION", "FREE"}),
           NEW t, t = patchJumpPrefix(s, J, p)
    PROVE  /\ t \in Store /\ Keeps(s, t)
           /\ \A x \in Addr(J)..(Addr(J) + p - 1) : Fixed(t, x) /\ t.byte[x] = PREFIX
           /\ \A a \in Mem : ~(Addr(J) <= a /\ a < Addr(J) + p) => Same(s, t, a)
<1> DEFINE w == Addr(J)..(Addr(J) + p - 1)
           l == s.locked \ w
<1>1. t = Over(s, w, PREFIX, "PATCHED", l)
  BY DEF patchJumpPrefix, Over
<1>2. l \in SUBSET Mem /\ PREFIX \in Digits /\ "PATCHED" \in States
  BY StoreFacts, Opcodes, PatchedState
<1>3. \A a \in Mem : a \in w <=> Addr(J) <= a /\ a < Addr(J) + p
  BY InstrFacts, MemFacts
<1>4. w \subseteq Mem
  BY InstrFacts, MemFacts DEF Bytes
<1>5. ASSUME NEW a \in w PROVE ~Fixed(s, a)
  <2>1. a - Addr(J) \in 0..p /\ Addr(J) + (a - Addr(J)) = a
    BY InstrFacts
  <2>2. Is(s, a, {"INSTRUCTION", "FREE"})
    BY <2>1
  <2> QED
    BY <2>2 DEF Is, Fixed
<1> HIDE DEF w, l
<1>6. /\ t \in Store /\ t.locked = l
      /\ IsFill(t.byte, s.byte, w, PREFIX) /\ IsFill(t.state, s.state, w, "PATCHED")
  BY <1>1, <1>2, Filled
<1>7. Keeps(s, t)
  BY <1>5, <1>6 DEF Keeps, IsFill, Fixed, l
<1>8. \A x \in w : Fixed(t, x) /\ t.byte[x] = PREFIX
  BY <1>4, <1>6 DEF Fixed, IsFill
<1>9. \A a \in Mem : ~(Addr(J) <= a /\ a < Addr(J) + p) => Same(s, t, a)
  BY <1>3, <1>6 DEF Same, IsFill, l
<1> QED
  BY <1>6, <1>7, <1>8, <1>9 DEF w

\* What a basic tactic writes, from store r with the flags of s.
LEMMA PunStore ==
    ASSUME NEW r, NEW s \in Store, NEW J \in Instrs, NEW p \in Nat, p < Size(J), NEW e \in Int,
           r.byte = s.byte, r.state = s.state, r.locked = s.locked,
           InBounds(r, J, p, FALSE, e),
           \A q \in 0..p : Is(r, Addr(J) + q, {"INSTRUCTION", "FREE"}),
           \A a \in Mem : Addr(J) + p <= a /\ a <= Addr(J) + p + JMP_SIZE => ~Is(s, a, {"QUEUED"}),
           NEW u \in Nat,
           NEW t, t = patchUnused(patchJump(patchJumpPrefix(s, J, p), J, p, e), J, u)
    PROVE  /\ Keeps(r, t) /\ Prefixed(t, J, e)
           /\ \A a \in Mem \ Bytes(J) : a < Addr(J) \/ a > Addr(J) + p + REL => Same(r, t, a)
<1> DEFINE s1 == patchJumpPrefix(s, J, p)
           s2 == patchJump(s1, J, p, e)
<1>0. /\ Addr(J) \in Nat /\ Size(J) \in Nat /\ Mem \subseteq Nat /\ Addr(J) + p \in Mem
      /\ REL \in Nat /\ Addr(J) + p \in Nat /\ Bytes(J) \subseteq Mem
  <2>1. Addr(J) + p \in Bytes(J) /\ Bytes(J) \subseteq Mem
    BY InstrFacts, MemFacts DEF Bytes
  <2> QED
    BY <2>1, InstrFacts, MemFacts, Constants
<1>1. \A q \in 0..p : Is(s, Addr(J) + q, {"INSTRUCTION", "FREE"})
  BY DEF Is
<1>2. /\ s1 \in Store /\ Keeps(s, s1)
      /\ \A x \in Addr(J)..(Addr(J) + p - 1) : Fixed(s1, x) /\ s1.byte[x] = PREFIX
      /\ \A a \in Mem : ~(Addr(J) <= a /\ a < Addr(J) + p) => Same(s, s1, a)
  BY <1>1, PrefixKeeps
<1>13. t = patchUnused(s2, J, u)
  OBVIOUS
<1> HIDE DEF s1
<1>3. ASSUME NEW a \in Mem, a >= Addr(J) + p PROVE Same(r, s1, a) /\ Same(s, s1, a)
  <2>1. Same(s, s1, a)
    BY <1>0, <1>2, <1>3
  <2> QED
    BY <2>1 DEF Same
<1>4. Is(s1, Addr(J) + p, {"INSTRUCTION", "FREE"})
  <2>1. Same(s, s1, Addr(J) + p)
    BY <1>0, <1>3
  <2>2. Is(s, Addr(J) + p, {"INSTRUCTION", "FREE"})
    BY <1>1
  <2> QED
    BY <2>1, <2>2 DEF Same, Is
<1>5. ASSUME NEW a \in Mem, Addr(J) + p <= a, a <= Addr(J) + p + JMP_SIZE
      PROVE  ~Is(s1, a, {"QUEUED"})
  <2>1. Same(s, s1, a)
    BY <1>0, <1>3, <1>5
  <2> QED
    BY <1>5, <2>1 DEF Same, Is
<1>6. s2 \in Store
  BY <1>2, <1>5, JumpFacts
<1>7. /\ Keeps(s1, s2) /\ Jumping(s2, Addr(J) + p, e)
      /\ \A a \in Mem : ~(Addr(J) + p <= a /\ a <= Addr(J) + p + REL) => Same(s1, s2, a)
  BY <1>2, <1>3, <1>4, PunJump
<1> HIDE DEF s2
<1>8. Keeps(s2, t) /\ \A a \in Mem \ Bytes(J) : Same(s2, t, a)
  BY <1>6, <1>13, UnusedKeeps
<1>9. Keeps(s, t) /\ Keeps(s1, t)
  BY <1>2, <1>7, <1>8, KeepsTrans
<1>10. Keeps(r, t)
  BY <1>9 DEF Keeps, Fixed
<1>11. Prefixed(t, J, e)
  <2>1. Jumping(t, Addr(J) + p, e)
    BY <1>0, <1>7, <1>8, JumpingKept
  <2>2. \A x \in Addr(J)..(Addr(J) + p - 1) : Fixed(t, x) /\ t.byte[x] = PREFIX
    <3>1. \A x \in Addr(J)..(Addr(J) + p - 1) : x \in Mem
      BY <1>0 DEF Bytes
    <3> QED
      BY <1>2, <1>9, <3>1 DEF Keeps
  <2>3. p \in 0..(Size(J) - 1)
    BY <1>0
  <2> QED
    BY <2>1, <2>2, <2>3 DEF Prefixed
<1>12. ASSUME NEW a \in Mem \ Bytes(J), a < Addr(J) \/ a > Addr(J) + p + REL
       PROVE  Same(r, t, a)
  <2>1. /\ ~(Addr(J) + p <= a /\ a <= Addr(J) + p + REL)
        /\ ~(Addr(J) <= a /\ a < Addr(J) + p)
    BY <1>0, <1>12
  <2>2. Same(s, s1, a) /\ Same(s1, s2, a) /\ Same(s2, t, a)
    BY <1>2, <1>7, <1>8, <2>1
  <2> QED
    BY <2>2 DEF Same
<1> QED
  BY <1>10, <1>11, <1>12

-----------------------------------------------------------------------------
\* Steps of patch() that do not finish it.

LEMMA WithinLanding ==
    ASSUME Landing, Within, pc.at # "idle", pc'.I = pc.I, pc'.at # "lost" => Steady', Hidden'
    PROVE  Landing'
<1>1. UNCHANGED <<known, before, asked, Es, Traps, batched>>
  BY DEF Within
<1>2. Landed(before, Es, Traps)'
  BY <1>1 DEF Landing
<1>3. (asked \subseteq Wanted)' /\ (\A I \in batched : Taken(before, I))'
  BY <1>1 DEF Landing, Taken, Known
<1>4. (pc.at # "idle" => Pristine(before, pc.I) /\ pc.I \in Wanted)'
  BY <1>1 DEF Landing
<1> QED
  BY <1>2, <1>3, <1>4 DEF Landing

LEMMA TakenKept ==
    ASSUME NEW s, NEW t, NEW J, NEW I \in Instrs, Applied(s, t, J), Taken(s, I)
    PROVE  Taken(t, I)
<1>1. Addr(I) \in Mem
  BY MemFacts
<1> QED
  BY <1>1, AppliedIs DEF Taken

LEMMA BatchedSteady ==
    ASSUME IInv, Steady, NEW J, Applied(m, m', J), batched' = batched
    PROVE  \A I \in batched' : Taken(m', I)
<1> SUFFICES ASSUME NEW I \in batched PROVE Taken(m', I)
  OBVIOUS
<1>1. I \in Instrs
  BY DEF IInv, TypeOK
<1>2. Taken(m, I)
  BY DEF Steady
<1> QED
  BY <1>1, <1>2, TakenKept

\* A basic tactic finds room for its jump, whatever it is part of.
LEMMA JumpLanding ==
    ASSUME IInv, Landing, NEW p, NEW e, NEW u, JumpStep(p, e, u),
           \A q \in 0..p : Is(m, Addr(pc.J) + q, {"INSTRUCTION", "FREE"})
    PROVE  Landing'
<1> DEFINE J == pc.J
           b == pc.task \in {"evict2", "evict3"}
           n == m.no_optimize
           v == m.used \cup {e}
           s == Mark([m EXCEPT !.used = v], J, b)
<1>1. TypeOK /\ m \in Store /\ J \in Instrs /\ pc.at \in {"B1", "B2", "T1"} /\ pc \in PcType /\ Within
  BY Serving DEF IInv, TypeOK, Control, JumpStep, Trying, PcType
<1>2. Takes(J, e) /\ m'.state[Addr(J)] = "PATCHED" /\ Pushed(J, e)
  BY JumpTakes DEF Takes
<1>3. /\ e \in Space /\ e \in Int
      /\ \A k \in 0..JMP_SIZE : ~Is(m, Addr(J) + p + k, {"QUEUED"})
      /\ InBounds(m, J, p, FALSE, e)
  BY Constants DEF JumpStep, allocatePunnedJump
<1>4. b \in BOOLEAN /\ v \in SUBSET Space /\ n \in SUBSET Instrs
  BY <1>1, <1>3, StoreFacts
<1>5. /\ p \in Nat /\ p < Size(J) /\ u \in Nat
      /\ m' = patchUnused(patchJump(patchJumpPrefix(s, J, p), J, p, e), J, u)
      /\ pc' = At("won")
  BY DEF JumpStep, Jump
<1>6. s = Mark([m EXCEPT !.used = v, !.no_optimize = n], J, b)
  <2>1. [m EXCEPT !.used = v] = [m EXCEPT !.used = v, !.no_optimize = n]
    BY <1>1 DEF Store
  <2> QED
    BY <2>1
<1> HIDE DEF s, v, n, b, J
<1>7. s \in Store /\ s.byte = m.byte /\ s.state = m.state /\ s.locked = m.locked
  <2>1. Flagged(m, s, J, v, n, b)
    BY <1>1, <1>4, <1>6, FlagsFacts
  <2> QED
    BY <2>1 DEF Flagged
<1>8. ASSUME NEW a \in Mem, Addr(J) + p <= a, a <= Addr(J) + p + JMP_SIZE
      PROVE  ~Is(s, a, {"QUEUED"})
  <2>1. a \in Nat /\ Addr(J) \in Nat /\ JMP_SIZE \in Nat
    BY <1>1, InstrFacts, MemFacts, Constants DEF JMP_SIZE
  <2>2. a - (Addr(J) + p) \in 0..JMP_SIZE /\ Addr(J) + p + (a - (Addr(J) + p)) = a
    BY <1>5, <1>8, <2>1
  <2>3. ~Is(m, a, {"QUEUED"})
    BY <1>3, <2>2
  <2> QED
    BY <1>7, <2>3 DEF Is
<1>9. \A q \in 0..p : Is(m, Addr(J) + q, {"INSTRUCTION", "FREE"})
  BY DEF J
<1>10. /\ Keeps(m, m') /\ Prefixed(m', J, e)
       /\ \A a \in Mem \ Bytes(J) : a < Addr(J) \/ a > Addr(J) + p + REL => Same(m, m', a)
  BY <1>1, <1>3, <1>5, <1>7, <1>8, <1>9, PunStore
<1>11. /\ pc'.at = "won" /\ pc'.task = pc.task /\ pc'.I = pc.I /\ pc'.J = J /\ pc'.i = pc.i
       /\ pc'.to = pc.to
  BY <1>1, <1>5 DEF At, PcType, J
<1>12. Steady'
  <2>1. Keeps(before', m')
    <3>1. Keeps(before, m) /\ before' = before
      BY <1>1 DEF Landing, Steady, Within
    <3> QED
      BY <1>10, <3>1, KeepsTrans
  <2>2. ASSUME NEW k \in DOMAIN chain', pc'.task = "batch"
        PROVE  Taken(m', chain'[k].I)
    <3>1. CASE k = 1
      <4>1. chain'[k].I = J
        BY <1>1, <1>2, <3>1, PushedChain
      <4>2. J \in Known
        BY <1>1 DEF IInv, Control, Trying, J
      <4>3. ~Is(m', Addr(J), {"INSTRUCTION", "QUEUED"})
        BY <1>2 DEF Is
      <4> QED
        BY <4>1, <4>2, <4>3 DEF Taken
    <3>2. CASE k # 1
      <4>1. k - 1 \in DOMAIN chain /\ chain'[k] = chain[k - 1]
        BY <1>1, <1>2, <3>2, PushedElements
      <4>2. chain[k - 1].I \in Instrs
        BY <1>1, <4>1, ChainFacts
      <4>3. Taken(m, chain[k - 1].I)
        BY <1>1, <1>11, <2>2, <4>1 DEF Landing, Steady
      <4>4. Applied(m, m', J)
        BY <1>2 DEF Pushed
      <4> QED
        BY <4>1, <4>2, <4>3, <4>4, TakenKept
    <3> QED
      BY <3>1, <3>2
  <2>3. ASSUME NEW k \in DOMAIN chain', Own(k)'
        PROVE  Prefixed(m', chain'[k].I, chain'[k].A)
    <3>1. CASE k = 1
      <4>1. chain'[k].I = J /\ chain'[k].A = e
        BY <1>1, <1>2, <3>1, PushedChain
      <4> QED
        BY <1>10, <4>1
    <3>2. CASE k # 1
      <4>1. k - 1 \in DOMAIN chain /\ chain'[k] = chain[k - 1] /\ k > 1
        BY <1>1, <1>2, <3>2, PushedElements
      <4>2. /\ chain[k - 1].I \in Instrs /\ Len(chain') = Len(chain) + 1 /\ Len(chain) \in Nat
            /\ k \in Nat
        BY <1>1, <1>2, <4>1, ChainFacts, PushedChain
      <4>3. k - 1 = Len(chain) => k = Len(chain')
        BY <4>2
      <4>4. Own(k - 1)
        BY <1>11, <2>3, <4>1, <4>3 DEF Own
      <4>5. Prefixed(m, chain[k - 1].I, chain[k - 1].A)
        BY <1>1, <4>1, <4>4 DEF Landing, Steady
      <4> QED
        BY <1>10, <4>1, <4>2, <4>5, PrefixedKept
    <3> QED
      BY <3>1, <3>2
  <2>4. \A I \in batched' : Taken(m', I)
    <3>1. Steady /\ batched' = batched /\ Applied(m, m', J)
      BY <1>1, <1>2 DEF Landing, Within, Pushed
    <3> QED
      BY <3>1, BatchedSteady
  <2> QED
    BY <1>1, <2>1, <2>2, <2>3, <2>4 DEF Steady, Prefixed, Addr, Size, Taken, Known, Is, Within
<1>13. Hidden'
  <2> SUFFICES ASSUME pc.task = "evict3" PROVE Hidden'
    BY <1>11 DEF Hidden
  <2> DEFINE I == pc.I
             i == pc.i
  <2>1. /\ Size(I) # 1 /\ i < Size(J)
        /\ Jumping(m, Addr(J) + i, pc.to)
        /\ Addr(J) + i - (Addr(I) + SHORT_SIZE) \in SHORT_JMP_MIN..SHORT_JMP_MAX
        /\ J < I => Addr(J) + i + JMP_SIZE <= Addr(I)
        /\ Pristine(m, I)
    BY <1>1 DEF Landing, Hidden, J
  <2>2. I \in Instrs /\ J # I /\ i \in Nat
    BY <1>1, Serving DEF IInv, Control, Trying, J, PcType
  <2> HIDE DEF I, i
  <2>3. /\ Addr(J) \in Nat /\ Addr(I) \in Nat /\ Size(I) \in Nat /\ J \in Nat /\ I \in Nat
        /\ JMP_SIZE = REL + 1 /\ REL \in Nat /\ Bytes(I) \subseteq Mem
    BY <1>1, <2>2, InstrFacts, MemFacts, Constants DEF JMP_SIZE
  <2>4. Jumping(m', Addr(J) + i, pc.to)
    BY <1>10, <2>1, <2>2, <2>3, JumpingKept
  <2>5. p < i
    <3>1. Addr(J) + i \in (Addr(J) + i)..(Addr(J) + i + REL)
      BY <2>2, <2>3
    <3>2. Fixed(m, Addr(J) + i)
      BY <2>1, <3>1 DEF Jumping
    <3>3. ~Is(m, Addr(J) + i, {"INSTRUCTION", "FREE"})
      BY <3>2 DEF Fixed, Is
    <3>4. i \notin 0..p
      BY <1>9, <3>3
    <3> QED
      BY <1>5, <2>2, <3>4
  <2>6. ASSUME NEW a \in Bytes(I) PROVE Same(m, m', a)
    <3>1. a \in Mem /\ a \notin Bytes(J)
      BY <1>1, <2>2, <2>3, Disjoint
    <3>2. Addr(I) <= a /\ a < Addr(I) + Size(I) /\ a \in Nat
      BY <2>3 DEF Bytes
    <3>3. CASE I < J
      <4>1. Addr(I) + Size(I) <= Addr(J)
        BY <1>1, <2>2, <3>3, Ordered
      <4> QED
        BY <1>10, <2>3, <3>1, <3>2, <4>1
    <3>4. CASE J < I
      <4>1. Addr(J) + i + JMP_SIZE <= Addr(I)
        BY <2>1, <3>4
      <4>2. a > Addr(J) + p + REL
        BY <1>5, <2>2, <2>3, <2>5, <3>2, <4>1
      <4> QED
        BY <1>10, <3>1, <4>2
    <3> QED
      BY <2>2, <2>3, <3>3, <3>4
  <2>7. Pristine(m', I)
    BY <2>1, <2>6 DEF Pristine, Same, Is
  <2> QED
    BY <1>11, <2>1, <2>4, <2>7 DEF Hidden, Jumping, Pristine, Is, Addr, Size, Bytes, I, i, J
<1> QED
  BY <1>1, <1>11, <1>12, <1>13, WithinLanding

\* Steps that leave the store and the chain as they are.
LEMMA SteadyKept ==
    ASSUME Steady, UNCHANGED <<m, chain, before, batched, known>>,
           pc'.task = "batch" => pc.task = "batch", pc'.task = "evict3" <=> pc.task = "evict3"
    PROVE  Steady'
<1>1. Keeps(before, m)'
  BY DEF Steady, Keeps, Fixed
<1>2. (pc.task = "batch" => \A k \in DOMAIN chain : Taken(m, chain[k].I))'
  BY DEF Steady, Taken, Known, Is, Addr
<1>3. (\A k \in DOMAIN chain : Own(k) => Prefixed(m, chain[k].I, chain[k].A))'
  <2>1. \A k : Own(k)' <=> Own(k)
    BY DEF Own
  <2>2. \A I, e : Prefixed(m, I, e)' <=> Prefixed(m, I, e)
    BY DEF Prefixed, Jumping, Fixed, Addr, Size
  <2> QED
    BY <2>1, <2>2 DEF Steady
<1>4. (\A I \in batched : Taken(m, I))'
  BY DEF Steady, Taken, Known, Is, Addr
<1> QED
  BY <1>1, <1>2, <1>3, <1>4 DEF Steady

\* patch() goes on to the next tactic with nothing to undo.
LEMMA TurnLanding ==
    ASSUME IInv, Landing, Within, m' = m, chain' = chain, chain = <<>>, pc.at # "idle",
           pc'.I = pc.I, pc'.at # "won", pc'.at \in {"B1", "B2", "T1"} => pc'.task # "evict3"
    PROVE  Landing'
<1>1. m = before
  BY EmptyChain DEF IInv
<1>2. chain' = <<>> /\ m' = before'
  BY <1>1 DEF Within
<1>3. Steady'
  <2>1. \A I \in batched' : Taken(m', I)
    BY <1>1 DEF Landing, Within
  <2> QED
    BY <1>2, <2>1 DEF Steady, Keeps, Taken, Known, Is, Addr, Within
<1>4. Hidden'
  BY DEF Hidden
<1> QED
  BY <1>3, <1>4, WithinLanding

\* A basic tactic finds no room.
LEMMA OtherwiseLanding ==
    ASSUME IInv, Landing, Within, pc.at \in {"B1", "B2", "T1"}, NEW w \in {"B2", "T1", "lost"},
           Otherwise(w)
    PROVE  Landing'
<1>1. pc \in PcType
  BY DEF IInv, TypeOK, PcType
<1>2. /\ pc'.at = w /\ pc'.task = pc.task /\ pc'.I = pc.I /\ pc'.J = pc.J /\ pc'.i = pc.i
      /\ pc'.to = pc.to
  BY <1>1 DEF Otherwise, At, PcType
<1>3. UNCHANGED <<m, chain, before, batched, known>>
  BY DEF Otherwise, Within
<1>4. Steady'
  BY <1>2, <1>3, SteadyKept DEF Landing
<1>5. Hidden'
  <2>1. Hidden
    BY DEF Landing
  <2> QED
    BY <1>2, <1>3, <2>1 DEF Hidden, Jumping, Fixed, Pristine, Is, Addr, Size, Bytes
<1> QED
  BY <1>2, <1>4, <1>5, WithinLanding

LEMMA tactic_B1_Landing ==
    ASSUME IInv, Landing, tactic_B1
    PROVE  Landing'
<1>1. CASE \E e \in RoomB1 : Jump(0, e, JMP_SIZE)
  <2>1. PICK e \in RoomB1 : Jump(0, e, JMP_SIZE)
    BY <1>1
  <2>2. e \in allocatePunnedJump(m, pc.J, 0) /\ canPatch(m, pc.J)
    BY <2>1 DEF RoomB1
  <2>3. pc.J \in Instrs
    BY Serving DEF tactic_B1, IInv, Control, Trying
  <2>4. 0 < Size(pc.J) /\ JMP_SIZE \in Nat /\ JMP_SIZE <= 0 + JMP_SIZE
    BY <2>3, InstrFacts, Constants DEF JMP_SIZE
  <2>5. JumpStep(0, e, JMP_SIZE)
    BY <2>1, <2>2, <2>4 DEF JumpStep, tactic_B1
  <2>6. \A q \in 0..0 : Is(m, Addr(pc.J) + q, {"INSTRUCTION", "FREE"})
    <3>1. Addr(pc.J) + 0 = Addr(pc.J)
      BY <2>3, InstrFacts
    <3> QED
      BY <2>2, <3>1 DEF canPatch
  <2> QED
    BY <2>5, <2>6, JumpLanding
<1>2. CASE RoomB1 = {} /\ Otherwise("B2")
  BY <1>2, OtherwiseLanding DEF tactic_B1
<1> QED
  BY <1>1, <1>2 DEF tactic_B1

LEMMA tactic_B2_Landing ==
    ASSUME IInv, Landing, tactic_B2
    PROVE  Landing'
<1>1. CASE \E e \in RoomB2 : Jump(0, e, Size(pc.J))
  <2>1. PICK e \in RoomB2 : Jump(0, e, Size(pc.J))
    BY <1>1
  <2>2. e \in allocatePunnedJump(m, pc.J, 0) /\ canPatch(m, pc.J) /\ ~(Size(pc.J) >= JMP_SIZE)
    BY <2>1 DEF RoomB2
  <2>3. pc.J \in Instrs
    BY Serving DEF tactic_B2, IInv, Control, Trying
  <2>4. 0 < Size(pc.J) /\ Size(pc.J) \in Nat /\ Size(pc.J) <= 0 + JMP_SIZE
    BY <2>2, <2>3, InstrFacts, Constants DEF JMP_SIZE
  <2>5. JumpStep(0, e, Size(pc.J))
    BY <2>1, <2>2, <2>4 DEF JumpStep, tactic_B2
  <2>6. \A q \in 0..0 : Is(m, Addr(pc.J) + q, {"INSTRUCTION", "FREE"})
    <3>1. Addr(pc.J) + 0 = Addr(pc.J)
      BY <2>3, InstrFacts
    <3> QED
      BY <2>2, <3>1 DEF canPatch
  <2> QED
    BY <2>5, <2>6, JumpLanding
<1>2. CASE RoomB2 = {} /\ Otherwise("T1")
  BY <1>2, OtherwiseLanding DEF tactic_B2
<1> QED
  BY <1>1, <1>2 DEF tactic_B2

LEMMA tactic_T1_Landing ==
    ASSUME IInv, Landing, tactic_T1
    PROVE  Landing'
<1>1. CASE \E p \in PrefixCounts :
             /\ \A q \in PrefixCounts : p <= q
             /\ \E e \in allocatePunnedJump(m, pc.J, p) : Jump(p, e, Size(pc.J))
  <2>1. PICK p \in PrefixCounts : \E e \in allocatePunnedJump(m, pc.J, p) : Jump(p, e, Size(pc.J))
    BY <1>1
  <2>2. PICK e \in allocatePunnedJump(m, pc.J, p) : Jump(p, e, Size(pc.J))
    BY <2>1
  <2>3. /\ p \in Nat /\ p < Size(pc.J) /\ Size(pc.J) < JMP_SIZE /\ canPatch(m, pc.J)
        /\ \A q \in 1..p : Is(m, Addr(pc.J) + q, {"INSTRUCTION", "FREE"})
    BY Constants DEF PrefixCounts
  <2>4. pc.J \in Instrs
    BY Serving DEF tactic_T1, IInv, Control, Trying
  <2>5. Size(pc.J) \in Nat /\ Size(pc.J) <= p + JMP_SIZE
    BY <2>3, <2>4, InstrFacts, Constants DEF JMP_SIZE
  <2>6. JumpStep(p, e, Size(pc.J))
    BY <2>2, <2>3, <2>5 DEF JumpStep, tactic_T1
  <2>7. \A q \in 0..p : Is(m, Addr(pc.J) + q, {"INSTRUCTION", "FREE"})
    <3>1. Addr(pc.J) + 0 = Addr(pc.J)
      BY <2>4, InstrFacts
    <3>2. \A q \in 0..p : q = 0 \/ q \in 1..p
      BY <2>3
    <3> QED
      BY <2>3, <3>1, <3>2 DEF canPatch
  <2> QED
    BY <2>6, <2>7, JumpLanding
<1>2. CASE PrefixCounts = {} /\ Otherwise("lost")
  BY <1>2, OtherwiseLanding DEF tactic_T1
<1> QED
  BY <1>1, <1>2 DEF tactic_T1

LEMMA T2Again_Landing ==
    ASSUME IInv, Landing, T2Again
    PROVE  Landing'
<1>1. pc \in PcType /\ Within
  BY DEF IInv, TypeOK, PcType, T2Again
<1>2. pc'.at = "B2" /\ pc'.task = "self2" /\ pc'.I = pc.I /\ pc.task = "evict2" /\ pc.at = "won"
  BY <1>1 DEF T2Again, PcType
<1>3. UNCHANGED <<m, chain, before, batched, known>>
  BY DEF T2Again, Within
<1>4. Steady'
  BY <1>2, <1>3, SteadyKept DEF Landing
<1>5. Hidden'
  BY <1>2 DEF Hidden
<1> QED
  BY <1>1, <1>2, <1>4, <1>5, WithinLanding

LEMMA undo_Landing ==
    ASSUME IInv, Landing, undo
    PROVE  Landing'
<1>1. pc' = pc /\ pc.at = "lost" /\ Within
  BY DEF undo
<1>2. Hidden'
  BY <1>1 DEF Hidden
<1> QED
  BY <1>1, <1>2, WithinLanding

LEMMA NextTactic_Landing ==
    ASSUME IInv, Landing, NextTactic
    PROVE  Landing'
<1>1. pc \in PcType /\ pc.at = "lost" /\ pc.task \in Tasks
  BY DEF IInv, TypeOK, PcType, NextTactic, Control, Trying
<1>2. pc'.I = pc.I /\ \/ pc'.at = "B1" /\ pc'.task = "self"
                      \/ pc'.at \in {"T2", "T3"}
  <2>1. CASE pc.task = "batch"
    BY <1>1, <2>1 DEF NextTactic, PcType
  <2>2. CASE pc.task = "self"
    BY <1>1, <2>2 DEF NextTactic, PcType, At
  <2>3. CASE pc.task \in {"evict2", "self2"}
    BY <1>1, <2>3 DEF NextTactic, PcType, At
  <2>4. CASE pc.task = "evict3"
    BY <1>1, <2>4 DEF NextTactic, PcType, At
  <2> QED
    BY <1>1, <2>1, <2>2, <2>3, <2>4 DEF Tasks
<1> QED
  BY <1>1, <1>2, TurnLanding DEF NextTactic

LEMMA tactic_T2_Landing ==
    ASSUME IInv, Landing, tactic_T2
    PROVE  Landing'
<1>1. pc \in PcType /\ pc.at = "T2" /\ chain = <<>>
  BY DEF IInv, TypeOK, PcType, tactic_T2, Control
<1>2. pc'.I = pc.I /\ \/ pc'.at = "B2" /\ pc'.task = "evict2"
                      \/ pc'.at = "T3"
  BY <1>1 DEF tactic_T2, PcType, At
<1> QED
  BY <1>1, <1>2, TurnLanding DEF tactic_T2

LEMMA tactic_T0_Landing ==
    ASSUME IInv, Landing, tactic_T0
    PROVE  Landing'
<1>1. pc \in PcType /\ pc.at = "T0" /\ chain = <<>>
  BY DEF IInv, TypeOK, PcType, tactic_T0, Control
<1>2. pc'.I = pc.I /\ \/ pc'.at = "B1" /\ pc'.task = "self"
                      \/ pc'.at = "free"
  BY <1>1 DEF tactic_T0, PcType
<1> QED
  BY <1>1, <1>2, TurnLanding DEF tactic_T0

\* T0 makes the other instructions of the batch free.
LEMMA T0Free_Landing ==
    ASSUME IInv, Landing, T0Free
    PROVE  Landing'
<1> DEFINE J == pc.J
           s == Mark(m, J, FALSE)
<1>1. /\ pc.at = "free" /\ Within /\ m' = patchUnused(s, J, 0)
      /\ chain' = <<NewPatch(m, J, NIL)>> \o chain
  BY DEF T0Free
<1>2. /\ TypeOK /\ m \in Store /\ pc \in PcType /\ before' = before /\ pc.task = "batch"
      /\ J \in Instrs /\ J \in Known
  <2>1. pc.i \in Known /\ pc.J \in pc.i..Len(Code) /\ pc.task = "batch"
    BY <1>1 DEF IInv, Control
  <2>2. known \in Nat /\ known >= 1 /\ Len(Code) \in Nat /\ Instrs = 1..Len(Code)
    BY Constants DEF IInv, TypeOK
  <2>3. J \in Instrs /\ J \in Known
    BY <2>1, <2>2 DEF Known
  <2> QED
    BY <1>1, <2>1, <2>3 DEF IInv, TypeOK, PcType, Within
<1>3. s = Mark([m EXCEPT !.used = m.used, !.no_optimize = m.no_optimize], J, FALSE)
  <2>1. m = [m EXCEPT !.used = m.used, !.no_optimize = m.no_optimize]
    BY <1>2 DEF Store
  <2> QED
    BY <2>1
<1>4. pc'.task = "batch" /\ pc'.I = pc.I /\ pc'.at \in {"free", "B1"}
  <2>1. CASE pc.J = pc.i
    BY <1>2, <2>1 DEF T0Free, PcType
  <2>2. CASE pc.J # pc.i
    BY <1>1, <1>2, <2>2 DEF T0Free, PcType
  <2> QED
    BY <2>1, <2>2
<1> HIDE DEF s, J
<1>5. Flagged(m, s, J, m.used, m.no_optimize, FALSE)
  <2>1. m.used \in SUBSET Space /\ m.no_optimize \in SUBSET Instrs
    BY <1>2, StoreFacts
  <2> QED
    BY <1>2, <1>3, <2>1, FlagsFacts
<1>6. s \in Store /\ s.byte = m.byte /\ s.state = m.state /\ s.locked = m.locked /\ Applied(m, s, J)
      /\ s.patched = m.patched \cup {J}
  BY <1>5 DEF Flagged
<1>7. /\ m' \in Store /\ Applied(s, m', J) /\ SameFlags(s, m')
      /\ \A a \in Bytes(J) : Addr(J) + 0 <= a => ~Is(m', a, {"INSTRUCTION", "QUEUED"})
  BY <1>1, <1>2, <1>6, UnusedFacts
<1>8. Applied(m, m', J)
  BY <1>6, <1>7, AppliedTwice
<1>9. Taken(m', J)
  <2>1. Addr(J) \in Bytes(J) /\ Addr(J) + 0 <= Addr(J)
    BY <1>2, MemFacts, InstrFacts
  <2> QED
    BY <1>2, <1>7, <2>1 DEF Taken
<1>10. Keeps(m, m')
  <2>1. Keeps(s, m')
    BY <1>1, <1>2, <1>6, UnusedKeeps
  <2> QED
    BY <1>6, <2>1 DEF Keeps, Fixed
<1>11. Pushed(J, NIL)
  BY <1>1, <1>2, <1>6, <1>7, <1>8 DEF Pushed, SameFlags
<1>12. Steady'
  <2>1. Keeps(before', m')
    <3>1. Keeps(before, m)
      BY <1>1 DEF Landing, Steady
    <3> QED
      BY <1>2, <1>10, <3>1, KeepsTrans
  <2>2. ASSUME NEW k \in DOMAIN chain'
        PROVE  Taken(m', chain'[k].I) /\ ~Own(k)'
    <3>1. CASE k = 1
      <4>1. chain'[k].I = J /\ chain'[k].A = NIL
        BY <1>2, <1>11, <3>1, PushedChain
      <4> QED
        BY <1>9, <4>1 DEF Own, NIL
    <3>2. CASE k # 1
      <4>1. k - 1 \in DOMAIN chain /\ chain'[k] = chain[k - 1]
        BY <1>2, <1>11, <3>2, PushedElements
      <4>2. chain[k - 1].I \in Instrs
        BY <1>2, <4>1, ChainFacts
      <4>3. Taken(m, chain[k - 1].I)
        BY <1>1, <1>2, <4>1 DEF Landing, Steady
      <4>4. Taken(m', chain[k - 1].I)
        BY <1>8, <4>2, <4>3, TakenKept
      <4>5. chain[k - 1].A = NIL
        BY <1>1, <1>2, <4>1 DEF IInv, Chained, Own
      <4> QED
        BY <4>1, <4>4, <4>5 DEF Own, NIL
    <3> QED
      BY <3>1, <3>2
  <2>3. \A I \in batched' : Taken(m', I)
    <3>1. Steady /\ batched' = batched
      BY <1>1 DEF Landing, Within
    <3> QED
      BY <1>8, <3>1, BatchedSteady
  <2> QED
    BY <1>1, <2>1, <2>2, <2>3 DEF Steady, Addr, Taken, Known, Is, Within
<1>13. Hidden'
  BY <1>4 DEF Hidden
<1> QED
  BY <1>1, <1>4, <1>12, <1>13, WithinLanding

\* The hypothesis of the theorem: no one-byte instruction is given to tactic T3.  Its short
\* jump has the first byte of the next instruction as displacement, and that may be the
\* neighbour that T3 goes on to evict.
NoPunnedShort == option_tactic_T3 => \A I \in Wanted : Size(I) # 1

\* T3 hides the jump to its trampoline in a neighbour.
LEMMA HideLanding ==
    ASSUME IInv, Landing, NoPunnedShort, pc.at = "T3", Within, NEW h \in T3Candidates,
           NEW e \in allocatePunnedJump(m, h[1], h[2]), Hide(h[1], h[2], e)
    PROVE  Landing'
<1> DEFINE J == h[1]
           i == h[2]
           I == pc.I
           v == m.used \cup {e}
           n == IF J < pc.I THEN m.no_optimize \cup {J} ELSE m.no_optimize
           s == Mark([m EXCEPT !.used = v, !.no_optimize = n], J, FALSE)
<1>1. IsHideout(J, i)
  BY CandidateFacts
<1>2. /\ TypeOK /\ m \in Store /\ chain = <<>> /\ I \in Instrs /\ J \in Instrs /\ i \in Nat
      /\ i < Size(J) /\ before' = before /\ pc \in PcType /\ J # I
      /\ Is(m, Addr(J) + i, {"FREE", "INSTRUCTION"})
  BY <1>1, Serving DEF IInv, TypeOK, Control, IsHideout, Within, PcType
<1>3. m = before
  BY <1>2, EmptyChain DEF IInv
<1>4. Pristine(m, I) /\ I \in Wanted
  BY <1>3 DEF Landing
<1>5. Size(I) # 1 /\ CanHide(I, J, i)
  <2>1. option_tactic_T3
    BY DEF T3Candidates
  <2>2. Size(I) # 1
    BY <1>4, <2>1 DEF NoPunnedShort
  <2>3. h \in Hideouts(I)
    BY <2>2 DEF T3Candidates
  <2> QED
    BY <2>2, <2>3 DEF Hideouts
<1>6. /\ e \in Space /\ e \in Int /\ InBounds(m, J, i, FALSE, e)
  BY Constants DEF allocatePunnedJump
<1>7. /\ m' = patchJump(s, J, i, e) /\ chain' = <<NewPatch(m, J, e)>>
      /\ pc' = [pc EXCEPT !.at = IF Is(m, Addr(J) + i, {"FREE"}) THEN "won" ELSE "B1",
                          !.task = "evict3", !.J = J, !.i = i, !.to = e]
  BY DEF Hide
<1>8. /\ pc'.at \in {"won", "B1"} /\ pc'.task = "evict3" /\ pc'.J = J /\ pc'.i = i /\ pc'.to = e
      /\ pc'.I = I
  BY <1>2, <1>7 DEF PcType
<1>9. v \in SUBSET Space /\ n \in SUBSET Instrs
  BY <1>2, <1>6, StoreFacts
<1> HIDE DEF s, v, n, J, i, I
<1>10. s \in Store /\ s.byte = m.byte /\ s.state = m.state /\ s.locked = m.locked
  <2>1. Flagged(m, s, J, v, n, FALSE)
    BY <1>2, <1>9, FlagsFacts DEF s
  <2> QED
    BY <2>1 DEF Flagged
<1>11. /\ Keeps(s, m') /\ Jumping(m', Addr(J) + i, e)
       /\ \A a \in Mem : ~(Addr(J) + i <= a /\ a <= Addr(J) + i + REL) => Same(s, m', a)
  <2>1. \A a \in Mem : a >= Addr(J) + i => Same(m, s, a)
    BY <1>10 DEF Same
  <2>2. Is(s, Addr(J) + i, {"INSTRUCTION", "FREE"})
    BY <1>2, <1>10 DEF Is
  <2> QED
    BY <1>2, <1>6, <1>7, <1>10, <2>1, <2>2, PunJump
<1>12. /\ Addr(J) \in Nat /\ Addr(I) \in Nat /\ Size(I) \in Nat /\ Size(I) >= 2
       /\ J \in Nat /\ I \in Nat /\ Size(J) \in Nat /\ JMP_SIZE = REL + 1 /\ REL \in Nat
       /\ Bytes(I) \subseteq Mem /\ SHORT_SIZE = 2
       /\ SHORT_JMP_MAX \in Nat /\ SHORT_JMP_MIN \in Int /\ SHORT_JMP_MIN <= 0
  <2>1. SHORT_JMP_MAX \in Nat /\ SHORT_JMP_MIN \in Int /\ SHORT_JMP_MIN <= 0
    BY Encoding DEF SHORT_JMP_MAX, SHORT_JMP_MIN
  <2>2. Size(I) \in Nat /\ Size(I) >= 1
    BY <1>2, InstrFacts
  <2>3. Size(I) >= 2
    BY <1>5, <2>2
  <2>4. /\ Addr(J) \in Nat /\ Addr(I) \in Nat /\ J \in Nat /\ I \in Nat /\ Size(J) \in Nat
        /\ Bytes(I) \subseteq Mem
    BY <1>2, InstrFacts, MemFacts
  <2>5. JMP_SIZE = REL + 1 /\ REL \in Nat /\ SHORT_SIZE = 2
    BY Constants DEF JMP_SIZE, SHORT_SIZE
  <2> QED
    BY <2>1, <2>2, <2>3, <2>4, <2>5
<1>13. J < I => Addr(J) + i + JMP_SIZE <= Addr(I)
  <2>1. J < I => Addr(I) - (Addr(J) + i) >= JMP_SIZE
    BY <1>5 DEF CanHide
  <2> QED
    BY <1>2, <1>12, <2>1
<1>14. J > I => Addr(I) + Size(I) <= Addr(J)
  BY <1>2, <1>12, Ordered
<1>15. Addr(J) + i - (Addr(I) + SHORT_SIZE) \in SHORT_JMP_MIN..SHORT_JMP_MAX
  <2>1. CASE J > I
    <3>1. (Addr(J) + i) - (Addr(I) + SHORT_SIZE) <= SHORT_JMP_MAX
      BY <1>5, <2>1 DEF CanHide
    <3> QED
      BY <1>2, <1>12, <1>14, <2>1, <3>1
  <2>2. CASE J < I
    <3> DEFINE first == IF Is(m, Addr(J), {"FREE"}) THEN 0 ELSE 1
    <3>1. (Addr(I) + SHORT_SIZE) - (Addr(J) + first) <= -SHORT_JMP_MIN
      BY <1>5, <2>2 DEF CanHide
    <3>2. i = 0 => Is(m, Addr(J), {"FREE"})
      BY <1>5 DEF CanHide
    <3>3. first \in Nat /\ first <= i
      BY <1>2, <3>2
    <3> HIDE DEF first
    <3>4. /\ SHORT_JMP_MIN <= Addr(J) + i - (Addr(I) + SHORT_SIZE)
          /\ Addr(J) + i - (Addr(I) + SHORT_SIZE) <= 0
      <4>1. Addr(J) + i + JMP_SIZE <= Addr(I)
        BY <1>13, <2>2
      <4>2. Addr(J) + i - (Addr(I) + SHORT_SIZE) <= 0
        BY <1>2, <1>12, <4>1
      <4>3. (Addr(I) + 2) - (Addr(J) + first) <= -SHORT_JMP_MIN
        BY <1>12, <3>1
      <4>4. (Addr(I) + 2) - (Addr(J) + i) <= (Addr(I) + 2) - (Addr(J) + first)
        BY <1>2, <1>12, <3>3
      <4>5. (Addr(I) + 2) - (Addr(J) + i) <= -SHORT_JMP_MIN
        BY <1>2, <1>12, <3>3, <4>3, <4>4
      <4> QED
        BY <1>2, <1>12, <4>2, <4>5
    <3> QED
      BY <1>2, <1>12, <3>4
  <2> QED
    BY <1>2, <1>12, <2>1, <2>2
<1>16. Pristine(m', I)
  <2>1. ASSUME NEW a \in Bytes(I) PROVE Same(s, m', a)
    <3>1. Addr(I) <= a /\ a < Addr(I) + Size(I) /\ a \in Nat /\ a \in Mem
      BY <1>12 DEF Bytes
    <3>2. ~(Addr(J) + i <= a /\ a <= Addr(J) + i + REL)
      BY <1>2, <1>12, <1>13, <1>14, <3>1
    <3> QED
      BY <1>11, <3>1, <3>2
  <2> QED
    BY <1>4, <1>10, <2>1 DEF Pristine, Same, Is
<1>17. Steady'
  <2>1. Keeps(before', m')
    BY <1>2, <1>3, <1>10, <1>11 DEF Keeps, Fixed
  <2>2. \A k \in DOMAIN chain' : ~Own(k)'
    <3>1. DOMAIN chain' = {1} /\ Len(chain') = 1
      BY <1>7
    <3> QED
      BY <1>8, <3>1 DEF Own
  <2>3. \A K \in batched' : Taken(m', K)
    <3>1. Steady /\ batched' = batched
      BY DEF Landing, Within
    <3>2. Applied(m, m', J)
      BY <1>1, HideTakes DEF J, i, Takes, Pushed
    <3> QED
      BY <3>1, <3>2, BatchedSteady
  <2> QED
    BY <1>8, <2>1, <2>2, <2>3 DEF Steady, Addr, Taken, Known, Is, Within
<1>18. Hidden'
  BY <1>2, <1>5, <1>8, <1>11, <1>13, <1>15, <1>16
     DEF Hidden, Jumping, Fixed, Pristine, Is, Addr, Size, Bytes
<1> QED
  BY <1>8, <1>17, <1>18, WithinLanding DEF I

LEMMA tactic_T3_Landing ==
    ASSUME IInv, Landing, NoPunnedShort, tactic_T3
    PROVE  Landing'
<1>1. pc \in PcType /\ pc.at = "T3" /\ Within /\ chain = <<>>
  BY DEF IInv, TypeOK, PcType, tactic_T3, Control
<1>2. CASE T3Candidates = {}
  <2>1. pc' = [Idle EXCEPT !.at = "B0", !.I = pc.I] /\ UNCHANGED <<m, chain>>
    BY <1>2 DEF tactic_T3
  <2>2. pc'.I = pc.I /\ pc'.at = "B0"
    BY <2>1 DEF Idle
  <2> QED
    BY <1>1, <2>1, <2>2, TurnLanding
<1>3. CASE T3Candidates # {}
  <2>1. PICK h \in T3Candidates : \E e \in allocatePunnedJump(m, h[1], h[2]) : Hide(h[1], h[2], e)
    BY <1>3 DEF tactic_T3
  <2>2. PICK e \in allocatePunnedJump(m, h[1], h[2]) : Hide(h[1], h[2], e)
    BY <2>1
  <2> QED
    BY <1>1, <2>2, HideLanding
<1> QED
  BY <1>2, <1>3

-----------------------------------------------------------------------------
\* Steps that finish patch().

\* patchShortJump() for an instruction that has room for the displacement.
LEMMA ShortKeeps ==
    ASSUME NEW s \in Store, NEW I \in Instrs, Size(I) # 1, Pristine(s, I), NEW to \in Int,
           NEW t, t = patchShortJump(s, I, to)
    PROVE  /\ Keeps(s, t) /\ Fixed(t, Addr(I)) /\ Fixed(t, Addr(I) + 1)
           /\ t.byte[Addr(I)] = SHORT /\ t.byte[Addr(I) + 1] = (to - (Addr(I) + SHORT_SIZE)) % BYTE
<1> DEFINE a == Addr(I)
           b == (to - (a + SHORT_SIZE)) % BYTE
           f == [s.byte EXCEPT ![a] = SHORT, ![a + 1] = b]
           w == {a, a + 1}
           l == s.locked \ w
<1>1. a \in Mem /\ a + 1 \in Mem /\ a # a + 1 /\ a \in Bytes(I) /\ a + 1 \in Bytes(I)
  <2>1. Addr(I) \in Nat /\ Size(I) \in Nat /\ Size(I) >= 1 /\ Bytes(I) \subseteq Mem
    BY InstrFacts, MemFacts
  <2> QED
    BY <2>1 DEF Bytes
<1>2. t = [s EXCEPT !.byte = f, !.state = Fill(s.state, w, "PATCHED"), !.locked = l]
  BY DEF patchShortJump
<1>3. ~Fixed(s, a) /\ ~Fixed(s, a + 1)
  BY <1>1 DEF Pristine, Is, Fixed
<1>4. s.byte \in [Mem -> Digits] /\ s.state \in [Mem -> States] /\ "PATCHED" \in States
  BY StoreFacts, PatchedState
<1> HIDE DEF a, b
<1>5. f[a] = SHORT /\ f[a + 1] = b /\ \A x \in Mem : x \notin w => f[x] = s.byte[x]
  BY <1>1, <1>4
<1> HIDE DEF f, w, l
<1>6. t.byte = f /\ t.state = Fill(s.state, w, "PATCHED") /\ t.locked = l
  BY <1>2 DEF Store
<1>7. IsFill(t.state, s.state, w, "PATCHED")
  BY <1>4, <1>6, FillFacts
<1>8. Keeps(s, t)
  BY <1>3, <1>5, <1>6, <1>7 DEF Keeps, Fixed, IsFill, w, l
<1>9. Fixed(t, a) /\ Fixed(t, a + 1)
  BY <1>1, <1>7 DEF Fixed, IsFill, w
<1> QED
  BY <1>5, <1>6, <1>8, <1>9 DEF a, b

\* patchTrap() writes over a byte that no jump relies on.
LEMMA TrapKeeps ==
    ASSUME NEW s \in Store, NEW I \in Instrs, ~Fixed(s, Addr(I)), NEW t, t = patchTrap(s, I)
    PROVE  Keeps(s, t) /\ Fixed(t, Addr(I)) /\ t.byte[Addr(I)] = TRAP
<1> DEFINE w == {Addr(I)}
           l == s.locked \ w
<1>1. t = Over(s, w, TRAP, "PATCHED", l)
  BY DEF patchTrap, Over
<1>2. l \in SUBSET Mem /\ TRAP \in Digits /\ "PATCHED" \in States /\ Addr(I) \in Mem
  BY StoreFacts, Opcodes, PatchedState, MemFacts
<1>3. Addr(I) \in w /\ \A a \in w : ~Fixed(s, a)
  OBVIOUS
<1> HIDE DEF w, l
<1>4. /\ t.locked = l
      /\ IsFill(t.byte, s.byte, w, TRAP) /\ IsFill(t.state, s.state, w, "PATCHED")
  BY <1>1, <1>2, Filled
<1> QED
  BY <1>2, <1>3, <1>4 DEF Keeps, Fixed, IsFill, l

\* The end of patch(): the trampolines of the chain become entries.
LEMMA FinishLanding ==
    ASSUME IInv, Landing, NEW c, Finish(c), Ends(c), Keeps(before, m'), Traps \subseteq Traps',
           \A k \in DOMAIN c : c[k].A # NIL => Reaches(m', c[k].I, c[k].A, Traps'),
           \A I \in batched' : Taken(m', I)
    PROVE  Landing'
<1>1. before' = m' /\ pc' = Idle /\ chain' = <<>> /\ asked' = asked /\ known' = known
  BY DEF Finish
<1>2. Landed(before', Es', Traps')
  <2> SUFFICES ASSUME NEW I \in Instrs, Es'[I] # NIL
               PROVE  Reaches(m', I, Es'[I], Traps')
    BY <1>1 DEF Landed
  <2>1. CASE Es'[I] = Es[I]
    <3>1. Reaches(before, I, Es[I], Traps)
      BY <2>1 DEF Landing, Landed
    <3> QED
      BY <2>1, <3>1, ReachesKept
  <2>2. CASE \E k \in DOMAIN c : c[k].I = I /\ c[k].A # NIL /\ Es'[I] = c[k].A
    BY <2>2
  <2>3. TypeOK
    BY DEF IInv
  <2> QED
    BY <2>1, <2>2, <2>3, FinishEs
<1>3. Landed(before, Es, Traps)'
  BY <1>2 DEF Landed, Reaches, Prefixed, InTwo, Trapping, Jumping, Fixed, Instrs, Addr, Size, NIL
<1>4. pc'.at = "idle" /\ asked' \subseteq Wanted
  BY <1>1 DEF Idle, Landing
<1>5. \A I \in batched' : Taken(before', I)
  BY <1>1
<1>6. Steady'
  BY <1>1 DEF Steady, Keeps, Taken, Known, Is, Addr
<1>7. Hidden'
  BY <1>4 DEF Hidden
<1> QED
  BY <1>1, <1>3, <1>4, <1>5, <1>6, <1>7 DEF Landing, Taken, Known, Is, Addr

LEMMA commit_Landing ==
    ASSUME IInv, Landing, commit
    PROVE  Landing'
<1>1. /\ pc.at = "won" /\ pc.task \in {"batch", "self", "self2"} /\ m' = m /\ Finish(chain)
      /\ batched' = IF pc.task = "batch" THEN batched \cup {chain[k].I : k \in DOMAIN chain}
                    ELSE batched
      /\ Traps' = Traps
  BY DEF commit
<1>2. TypeOK /\ Chained /\ Allocated /\ chain \in Seq(Patch) /\ Steady
  BY <1>1 DEF IInv, TypeOK, Landing
<1>3. \A k \in DOMAIN chain : chain[k].A # NIL => Own(k)
  BY <1>1 DEF Own
<1>4. Ends(chain)
  <2>1. \A k \in DOMAIN chain : chain[k].I \in Instrs /\ chain[k].A \in Space \cup {NIL} /\ k \in Nat
    <3>1. \A k \in DOMAIN chain : k \in Nat
      BY <1>2
    <3> QED
      BY <1>2, <3>1, ChainFacts
  <2>2. ASSUME NEW k \in DOMAIN chain, chain[k].A # NIL
        PROVE  /\ Es[chain[k].I] = NIL /\ chain[k].A \notin before.used
               /\ \A l \in DOMAIN chain :
                     chain[l].A # NIL /\ (chain[l].I = chain[k].I \/ chain[l].A = chain[k].A) => l = k
    BY <1>1, <1>2, <1>3, <2>2 DEF Chained, Allocated
  <2>3. m'.used = before.used \cup ({chain[k].A : k \in DOMAIN chain} \ {NIL})
    BY <1>1, <1>2 DEF Allocated
  <2> QED
    BY <2>1, <2>2, <2>3 DEF Ends
<1>5. ASSUME NEW k \in DOMAIN chain, chain[k].A # NIL
      PROVE  Reaches(m', chain[k].I, chain[k].A, Traps')
  BY <1>1, <1>2, <1>3, <1>5 DEF Steady, Reaches
<1>6. \A I \in batched' : Taken(m', I)
  BY <1>1, <1>2 DEF Steady
<1>7. Keeps(before, m')
  BY <1>1, <1>2 DEF Steady
<1> QED
  BY <1>1, <1>4, <1>5, <1>6, <1>7, FinishLanding

\* B0: a trap, whose trampoline the handler finds.
LEMMA tactic_B0_Landing ==
    ASSUME IInv, Landing, tactic_B0
    PROVE  Landing'
<1> DEFINE I == pc.I
<1>1. pc.at = "B0" /\ Traps' = Traps \cup {I} /\ batched' = batched
  BY DEF tactic_B0
<1>2. TypeOK /\ chain = <<>> /\ m \in Store /\ Steady
  BY <1>1 DEF IInv, TypeOK, Control, Landing
<1>3. m = before /\ I \in Instrs /\ Es[I] = NIL /\ Pristine(m, I)
  <2>1. m = before
    BY <1>2, EmptyChain DEF IInv
  <2> QED
    BY <1>1, <2>1, Serving DEF Landing
<1>4. PICK e \in TrapRoom :
          /\ m' = patchUnused(patchTrap(Mark([m EXCEPT !.used = m.used \cup {e}], I, FALSE), I), I, 1)
          /\ Finish(<<NewPatch(m, I, e)>>)
  BY DEF tactic_B0
<1>5. e \in Space /\ e \notin m.used /\ e # NIL
  BY Constants DEF TrapRoom, allocateTrap
<1> DEFINE v == m.used \cup {e}
           n == m.no_optimize
           s == Mark([m EXCEPT !.used = v], I, FALSE)
           t == patchTrap(s, I)
           c == <<NewPatch(m, I, e)>>
<1>6. s = Mark([m EXCEPT !.used = v, !.no_optimize = n], I, FALSE)
  <2>1. [m EXCEPT !.used = v] = [m EXCEPT !.used = v, !.no_optimize = n]
    BY <1>2 DEF Store
  <2> QED
    BY <2>1
<1>7. m' = patchUnused(t, I, 1) /\ v \in SUBSET Space /\ n \in SUBSET Instrs /\ Finish(c)
  BY <1>2, <1>4, <1>5, StoreFacts
<1>8. DOMAIN c = {1} /\ c[1].I = I /\ c[1].A = e
  BY DEF NewPatch
<1> HIDE DEF s, v, n, I, c
<1>9. Flagged(m, s, I, v, n, FALSE)
  BY <1>2, <1>3, <1>6, <1>7, FlagsFacts
<1>10. /\ s \in Store /\ s.byte = m.byte /\ s.state = m.state /\ s.locked = m.locked
       /\ s.used = v /\ Applied(m, s, I)
  BY <1>9 DEF Flagged
<1>11. ~Fixed(s, Addr(I)) /\ Addr(I) \in Mem
  <2>1. Addr(I) \in Bytes(I) /\ Addr(I) \in Mem
    BY <1>3, MemFacts
  <2>2. Is(m, Addr(I), {"INSTRUCTION"})
    BY <1>3, <2>1 DEF Pristine
  <2> QED
    BY <1>10, <2>1, <2>2 DEF Is, Fixed
<1>12. t \in Store /\ SameFlags(s, t) /\ Applied(s, t, I)
  BY <1>3, <1>10, TrapFacts
<1>13. Keeps(s, t) /\ Fixed(t, Addr(I)) /\ t.byte[Addr(I)] = TRAP
  BY <1>3, <1>10, <1>11, TrapKeeps
<1> HIDE DEF t
<1>14. SameFlags(t, m') /\ Applied(t, m', I) /\ Keeps(t, m')
  BY <1>3, <1>7, <1>12, UnusedFacts, UnusedKeeps
<1>15. Applied(m, m', I)
  BY <1>10, <1>12, <1>14, AppliedTwice
<1>16. Keeps(before, m')
  <2>1. Keeps(s, m')
    BY <1>13, <1>14, KeepsTrans
  <2> QED
    BY <1>3, <1>10, <2>1 DEF Keeps, Fixed
<1>17. Trapping(m', I, Traps')
  BY <1>1, <1>11, <1>13, <1>14 DEF Keeps, Trapping, I
<1>18. Ends(c)
  <2>1. {c[k].A : k \in DOMAIN c} = {e} /\ m'.used = v
    BY <1>8, <1>10, <1>12, <1>14 DEF SameFlags
  <2>2. m'.used = before.used \cup ({c[k].A : k \in DOMAIN c} \ {NIL})
    BY <1>3, <1>5, <2>1 DEF v
  <2> QED
    BY <1>3, <1>5, <1>8, <2>2 DEF Ends
<1>19. \A k \in DOMAIN c : c[k].A # NIL => Reaches(m', c[k].I, c[k].A, Traps')
  BY <1>8, <1>17 DEF Reaches
<1>20. \A K \in batched' : Taken(m', K)
  BY <1>1, <1>2, <1>15, BatchedSteady
<1> QED
  BY <1>1, <1>7, <1>16, <1>18, <1>19, <1>20, FinishLanding

\* T3 writes the short jump to the hidden one.
LEMMA T3Short_Landing ==
    ASSUME IInv, Landing, T3Short
    PROVE  Landing'
<1> DEFINE I == pc.I
           to == Addr(pc.J) + pc.i
           v == m.used
           n == m.no_optimize
           s == Mark(m, I, FALSE)
           t == patchShortJump(s, I, to)
           c == <<NewPatch(m, I, pc.to)>> \o MovedRest
           r == to - (Addr(I) + SHORT_SIZE)
<1>1. pc.at = "won" /\ pc.task = "evict3" /\ Traps' = Traps /\ batched' = batched
  BY DEF T3Short
<1>2. /\ TypeOK /\ m \in Store /\ I \in Instrs /\ pc.J \in Instrs /\ pc.i \in Nat /\ Steady
      /\ chain # <<>> /\ pc.to \in Space \cup {NIL}
  BY <1>1, Serving DEF IInv, TypeOK, Control, Trying, Landing, Chained
<1>3. /\ Size(I) # 1 /\ Jumping(m, to, pc.to) /\ r \in SHORT_JMP_MIN..SHORT_JMP_MAX
      /\ Pristine(m, I) /\ to \in Int /\ Addr(I) + SHORT_SIZE + r = to /\ r \in Int
  <2>1. /\ Size(I) # 1 /\ Jumping(m, to, pc.to) /\ r \in SHORT_JMP_MIN..SHORT_JMP_MAX
        /\ Pristine(m, I)
    <3>1. Hidden
      BY DEF Landing
    <3>2. /\ Size(pc.I) # 1 /\ Jumping(m, Addr(pc.J) + pc.i, pc.to) /\ Pristine(m, pc.I)
          /\ Addr(pc.J) + pc.i - (Addr(pc.I) + SHORT_SIZE) \in SHORT_JMP_MIN..SHORT_JMP_MAX
      BY <1>1, <3>1 DEF Hidden
    <3>3. Addr(pc.J) + pc.i - (Addr(pc.I) + SHORT_SIZE) = r
      BY <1>2, InstrFacts DEF SHORT_SIZE
    <3> QED
      BY <3>2, <3>3
  <2>2. Addr(pc.J) \in Nat /\ Addr(I) \in Nat /\ SHORT_SIZE = 2
    BY <1>2, InstrFacts DEF SHORT_SIZE
  <2> QED
    BY <1>2, <2>1, <2>2
<1>4. m' = patchUnused(t, I, SHORT_SIZE) /\ Finish(c)
  BY <1>3 DEF T3Short, MovedRest
<1>5. s = Mark([m EXCEPT !.used = v, !.no_optimize = n], I, FALSE)
  <2>1. m = [m EXCEPT !.used = v, !.no_optimize = n]
    BY <1>2 DEF Store
  <2> QED
    BY <2>1
<1>6. v \in SUBSET Space /\ n \in SUBSET Instrs
  BY <1>2, StoreFacts
<1>7. c = <<NewPatch(m, pc.I, pc.to)>> \o MovedRest
  OBVIOUS
<1> HIDE DEF s, v, n, I, to, c, r
<1>8. Flagged(m, s, I, v, n, FALSE)
  BY <1>2, <1>5, <1>6, FlagsFacts
<1>9. /\ s \in Store /\ s.byte = m.byte /\ s.state = m.state /\ s.locked = m.locked
      /\ s.used = v /\ Applied(m, s, I)
  BY <1>8 DEF Flagged
<1>10. Pristine(s, I) /\ Size(I) >= 2
  <2>1. Size(I) \in Nat /\ Size(I) >= 1
    BY <1>2, InstrFacts
  <2> QED
    BY <1>3, <1>9, <2>1 DEF Pristine, Is
<1>11. t \in Store /\ SameFlags(s, t) /\ Applied(s, t, I)
  BY <1>2, <1>3, <1>9, <1>10, ShortFacts
<1>12. /\ Keeps(s, t) /\ Fixed(t, Addr(I)) /\ Fixed(t, Addr(I) + 1)
       /\ t.byte[Addr(I)] = SHORT /\ t.byte[Addr(I) + 1] = r % BYTE
  BY <1>2, <1>3, <1>9, <1>10, ShortKeeps DEF r
<1> HIDE DEF t
<1>13. SameFlags(t, m') /\ Applied(t, m', I) /\ Keeps(t, m')
  <2>1. SHORT_SIZE \in Nat
    BY DEF SHORT_SIZE
  <2> QED
    BY <1>2, <1>4, <1>11, <2>1, UnusedFacts, UnusedKeeps
<1>14. Applied(m, m', I) /\ m'.used = m.used
  BY <1>9, <1>11, <1>13, AppliedTwice DEF SameFlags, v
<1>15. Keeps(m, m')
  <2>1. Keeps(s, m')
    BY <1>12, <1>13, KeepsTrans
  <2> QED
    BY <1>9, <2>1 DEF Keeps, Fixed
<1>16. Keeps(before, m')
  BY <1>2, <1>15, KeepsTrans DEF Steady
<1>17. InTwo(m', I, pc.to)
  <2>1. Jumping(m', Addr(I) + SHORT_SIZE + r, pc.to)
    BY <1>3, <1>15, JumpingKept
  <2>2. Addr(I) \in Mem /\ Addr(I) + 1 \in Mem
    BY <1>2, MemFacts
  <2>3. /\ Fixed(m', Addr(I)) /\ Fixed(m', Addr(I) + 1)
        /\ m'.byte[Addr(I)] = SHORT /\ m'.byte[Addr(I) + 1] = r % BYTE
    BY <1>12, <1>13, <2>2 DEF Keeps
  <2> QED
    BY <1>3, <2>1, <2>3 DEF InTwo
<1>18. Ends(c)
  BY <1>1, <1>7, <1>14, MovedEnds
<1>19. ASSUME NEW k \in DOMAIN c, c[k].A # NIL
       PROVE  Reaches(m', c[k].I, c[k].A, Traps')
  <2>1. Moved(c, pc.I, pc.to) /\ Len(chain) \in Nat \ {0} /\ DOMAIN chain = 1..Len(chain)
    BY <1>2, <1>7, MovedFacts, MovedRestFacts DEF I
  <2>2. CASE k = 1
    BY <1>17, <2>1, <2>2 DEF Moved, Reaches, I
  <2>3. CASE k # 1
    <3> DEFINE l == k - 1
    <3>1. l \in 1..Len(chain) /\ k = l + 1 /\ l \in DOMAIN chain
      <4>1. k \in 1..(Len(chain) + 1) /\ Len(chain) \in Nat
        BY <1>19, <2>1 DEF Moved
      <4>2. l \in 1..Len(chain) /\ k = l + 1
        BY <2>3, <4>1
      <4> QED
        BY <2>1, <4>2
    <3> HIDE DEF l
    <3>2. l # Len(chain)
      BY <1>19, <2>1, <3>1 DEF Moved
    <3>3. c[k].I = chain[l].I /\ c[k].A = chain[l].A
      BY <2>1, <3>1, <3>2 DEF Moved
    <3>4. Own(l)
      BY <1>19, <3>2, <3>3 DEF Own
    <3>5. Prefixed(m, chain[l].I, chain[l].A) /\ chain[l].I \in Instrs
      BY <1>2, <3>1, <3>4, ChainFacts DEF Steady
    <3>6. Prefixed(m', chain[l].I, chain[l].A)
      BY <1>15, <3>5, PrefixedKept
    <3> QED
      BY <3>3, <3>6 DEF Reaches
  <2> QED
    BY <2>2, <2>3
<1>20. \A K \in batched' : Taken(m', K)
  BY <1>1, <1>2, <1>14, BatchedSteady
<1> QED
  BY <1>1, <1>4, <1>16, <1>18, <1>19, <1>20, FinishLanding

LEMMA PatchFails_Landing ==
    ASSUME IInv, Landing, PatchFails
    PROVE  Landing'
<1>1. /\ pc.at = "B0" /\ pc' = Idle
      /\ UNCHANGED <<m, chain, before, known, asked, Es, Traps, batched>>
  BY DEF PatchFails
<1>2. chain = <<>>
  BY <1>1 DEF IInv, Control
<1>3. m = before
  BY <1>2, EmptyChain DEF IInv
<1>4. pc'.at = "idle"
  BY <1>1 DEF Idle
<1>5. Landed(before, Es, Traps)'
  BY <1>1 DEF Landing
<1>6. (\A I \in batched : Taken(before, I))'
  BY <1>1 DEF Landing, Taken, Known, Is, Addr
<1>7. Steady'
  BY <1>1, <1>2, <1>3, <1>6 DEF Steady, Keeps, Is, Addr
<1>8. Hidden'
  BY <1>4 DEF Hidden
<1>9. asked' \subseteq Wanted
  BY <1>1 DEF Landing
<1> QED
  BY <1>4, <1>5, <1>6, <1>7, <1>8, <1>9 DEF Landing

-----------------------------------------------------------------------------
\* Messages.

\* Messages and the queue change only the states of bytes that no jump relies on.
LEMMA RestateLanding ==
    ASSUME IInv, Landing, pc = Idle, NEW K \in Instrs, NEW v, Restates(K, v),
           \A a \in Bytes(K) : ~Fixed(m, a), K \notin batched, before' = m',
           UNCHANGED <<chain, Es, Traps, batched>>, asked' \subseteq Wanted, Known \subseteq Known',
           pc'.at \in {"idle", "T0"}, pc'.task # "batch",
           pc'.at = "T0" => v = "INSTRUCTION" /\ pc'.I = K /\ K \in Wanted
    PROVE  Landing'
<1>1. m = before /\ chain = <<>>
  BY IdleFacts
<1>2. Keeps(before, m')
  BY <1>1 DEF Restates, Same, Keeps, Fixed
<1>3. Landed(before, Es, Traps)'
  <2>1. Landed(before, Es, Traps)
    BY DEF Landing
  <2>2. Landed(m', Es, Traps)
    BY <1>2, <2>1, LandedKept
  <2>3. Landed(before', Es', Traps')
    BY <2>2
  <2> QED
    BY <2>3 DEF Landed, Reaches, Prefixed, InTwo, Trapping, Jumping, Fixed, Instrs, Addr, Size, NIL
<1>4. ASSUME NEW I \in batched
      PROVE  I \in Known' /\ ~Is(m', Addr(I), {"INSTRUCTION", "QUEUED"})
  <2>1. I \in Instrs /\ Taken(m, I) /\ I # K
    BY <1>1 DEF IInv, TypeOK, Landing
  <2>2. Addr(I) \in Bytes(I) /\ Addr(I) \in Mem
    BY <2>1, MemFacts
  <2>3. Addr(I) \notin Bytes(K)
    BY <2>1, <2>2, Disjoint
  <2>4. Same(m, m', Addr(I))
    BY <2>2, <2>3 DEF Restates
  <2> QED
    BY <2>1, <2>4 DEF Taken, Same, Is
<1>5. (\A I \in batched : Taken(before, I))' /\ (\A I \in batched : Taken(m, I))'
  BY <1>4 DEF Taken, Is, Addr
<1>6. Steady'
  BY <1>1, <1>5 DEF Steady, Keeps
<1>7. Hidden'
  BY DEF Hidden
<1>8. (pc.at # "idle" => Pristine(before, pc.I) /\ pc.I \in Wanted)'
  <2> SUFFICES ASSUME pc'.at = "T0" PROVE (Pristine(before, pc.I) /\ pc.I \in Wanted)'
    OBVIOUS
  <2>1. \A a \in Bytes(K) : Is(m', a, {"INSTRUCTION"})
    BY DEF Restates
  <2> QED
    BY <2>1 DEF Pristine, Bytes, Addr, Size, Is
<1> QED
  BY <1>3, <1>5, <1>6, <1>7, <1>8 DEF Landing

LEMMA parseInstruction_Landing ==
    ASSUME IInv, Landing, parseInstruction
    PROVE  Landing'
<1> DEFINE K == known - 1
<1>1. /\ pc = Idle /\ known > 1 /\ known' = K /\ before' = m' /\ pc' = pc
      /\ \A a \in Bytes(K) : Is(m, a, {"UNKNOWN"})
      /\ m' = [m EXCEPT !.state = Fill(@, Bytes(K), "INSTRUCTION")]
      /\ UNCHANGED <<chain, asked, Es, Traps, batched>>
  BY DEF parseInstruction
<1>2. m \in Store /\ known \in 1..(Len(Code) + 1)
  BY DEF IInv, TypeOK
<1>3. K \in Instrs /\ K \in Nat /\ Len(Code) \in Nat
  BY <1>1, <1>2, Constants
<1>4. Restates(K, "INSTRUCTION")
  <2>1. m' = [m EXCEPT !.state = Fill(m.state, Bytes(K), "INSTRUCTION"), !.locked = m.locked]
    BY <1>1, <1>2 DEF Store
  <2>2. \A a \in Bytes(K) : a \notin m.locked
    BY <1>1 DEF Is
  <2> HIDE DEF K
  <2>3. m.locked \in SUBSET Mem
    BY <1>2, StoreFacts
  <2> QED
    BY <1>2, <1>3, <2>1, <2>2, <2>3, PatchedState, RestateStore
<1>5. Known \subseteq Known' /\ K \notin Known
  BY <1>1, <1>2, <1>3 DEF Known
<1> HIDE DEF K
<1>6. K \notin batched
  BY <1>5 DEF Landing, Taken
<1>7. \A a \in Bytes(K) : ~Fixed(m, a)
  BY <1>1 DEF Is, Fixed
<1>8. pc'.at = "idle" /\ pc'.task = "none" /\ asked' \subseteq Wanted
  BY <1>1 DEF Idle, Landing
<1> QED
  BY <1>1, <1>3, <1>4, <1>5, <1>6, <1>7, <1>8, RestateLanding

LEMMA queuePatch_Landing ==
    ASSUME IInv, Landing, NEW I \in Wanted, queuePatch(I)
    PROVE  Landing'
<1>1. /\ pc = Idle /\ ~emitted /\ I \in Known /\ I \notin asked
      /\ option_batch \/ Addr(I) < cursor
      /\ asked' = asked \cup {I} /\ before' = m' /\ pc' = pc
      /\ m' = [m EXCEPT !.state = Fill(m.state, Bytes(I), "QUEUED"), !.locked = m.locked \ Bytes(I)]
      /\ UNCHANGED <<known, chain, Es, Traps, batched>>
  BY DEF queuePatch
<1>2. LookAhead /\ m \in Store /\ I \in Instrs
  BY CodeAssumption DEF IInv, TypeOK
<1>3. Restates(I, "QUEUED")
  <2>1. m.locked \ Bytes(I) \in SUBSET Mem
    BY <1>2, StoreFacts
  <2> QED
    BY <1>1, <1>2, <2>1, PatchedState, RestateStore
<1>4. \A a \in Bytes(I) : Is(m, a, {"INSTRUCTION"})
  BY <1>1, <1>2 DEF LookAhead
<1>5. I \notin batched
  <2>1. Is(m, Addr(I), {"INSTRUCTION", "QUEUED"})
    BY <1>2, <1>4, MemFacts DEF Is
  <2>2. m = before
    BY <1>1, IdleFacts
  <2> QED
    BY <2>1, <2>2 DEF Landing, Taken
<1>6. \A a \in Bytes(I) : ~Fixed(m, a)
  BY <1>4 DEF Is, Fixed
<1>7. pc'.at = "idle" /\ pc'.task = "none" /\ asked' \subseteq Wanted /\ Known \subseteq Known'
  BY <1>1 DEF Idle, Landing, Known
<1> QED
  BY <1>1, <1>2, <1>3, <1>5, <1>6, <1>7, RestateLanding

LEMMA Dequeue_Landing ==
    ASSUME IInv, Landing, Dequeue
    PROVE  Landing'
<1> DEFINE I == Head(Q)
<1>1. /\ pc = Idle /\ Q # <<>> /\ Q' = Tail(Q) /\ before' = m'
      /\ Is(m, Addr(I), {"QUEUED"})
      /\ m' = [m EXCEPT !.state = Fill(m.state, Bytes(I), "INSTRUCTION"),
                        !.locked = m.locked \ Bytes(I)]
      /\ pc' = [Idle EXCEPT !.at = "T0", !.I = I, !.J = I]
      /\ UNCHANGED <<known, chain, cursor, asked, Es, Traps, batched>>
  BY DEF Dequeue, Flushable
<1>2. TypeOK /\ Messages /\ m \in Store /\ Q \in Seq(Instrs)
  BY DEF IInv, TypeOK
<1>3. I \in Instrs /\ I \in asked
  BY <1>1, <1>2, TailFacts
<1>4. 1 \in DOMAIN Q /\ Q[1] = I
  BY <1>1, <1>2
<1> HIDE DEF I
<1>5. Restates(I, "INSTRUCTION")
  <2>1. m.locked \ Bytes(I) \in SUBSET Mem
    BY <1>2, StoreFacts
  <2> QED
    BY <1>1, <1>2, <1>3, <2>1, PatchedState, RestateStore
<1>6. Waits(m, Q, batched) /\ m = before
  BY <1>1, IdleFacts
<1>7. I \notin batched
  <2>1. Is(m, Addr(I), {"INSTRUCTION", "QUEUED"})
    BY <1>1 DEF Is
  <2> QED
    BY <1>6, <2>1 DEF Landing, Taken
<1>8. \A a \in Bytes(I) : ~Fixed(m, a)
  <2>1. \A a \in Bytes(I) : Is(m, a, {"QUEUED"})
    BY <1>4, <1>6, <1>7 DEF Waits
  <2> QED
    BY <2>1 DEF Is, Fixed
<1>9. /\ pc'.at = "T0" /\ pc'.task = "none" /\ pc'.I = I
      /\ asked' \subseteq Wanted /\ I \in Wanted /\ Known \subseteq Known'
  BY <1>1, <1>3 DEF Idle, Landing, Known
<1> QED
  BY <1>1, <1>3, <1>5, <1>7, <1>8, <1>9, RestateLanding

\* Steps that change nothing of what Landing speaks about.
LEMMA StillLanding ==
    ASSUME Landing, UNCHANGED <<known, m, chain, pc, before, asked, Es, Traps, batched>>
    PROVE  Landing'
<1>1. pc'.at # "lost" => Steady'
  BY SteadyKept DEF Landing
<1>2. Hidden'
  <2>1. Hidden
    BY DEF Landing
  <2> QED
    BY <2>1 DEF Hidden, Jumping, Fixed, Pristine, Is, Addr, Size, Bytes
<1>3. Landed(before, Es, Traps)'
  BY DEF Landing
<1>4. (asked \subseteq Wanted)' /\ (\A I \in batched : Taken(before, I))'
  BY DEF Landing, Taken, Known, Is, Addr
<1>5. (pc.at # "idle" => Pristine(before, pc.I) /\ pc.I \in Wanted)'
  BY DEF Landing
<1> QED
  BY <1>1, <1>2, <1>3, <1>4, <1>5 DEF Landing

-----------------------------------------------------------------------------
\* The theorem.

LEMMA InitLanding ==
    ASSUME Init
    PROVE  Landing
<1>1. /\ pc.at = "idle" /\ pc.task = "none" /\ chain = <<>> /\ m = before
      /\ asked = {} /\ batched = {}
  BY DEF Init, Idle
<1>2. Landed(before, Es, Traps)
  BY DEF Init, Landed
<1>3. Steady
  BY <1>1 DEF Steady, Keeps
<1>4. Hidden
  BY <1>1 DEF Hidden
<1> QED
  BY <1>1, <1>2, <1>3, <1>4 DEF Landing

\* Every step keeps Landing: one case for each action.
LEMMA NextLanding ==
    ASSUME NoPunnedShort, IInv, Landing, [Next]_vars
    PROVE  Landing'
<1>1. CASE UNCHANGED vars
  BY <1>1, StillLanding DEF vars
<1>2. CASE emit
  BY <1>2, StillLanding DEF emit
<1>3. CASE DequeueBatched
  BY <1>3, StillLanding DEF DequeueBatched
<1>4. CASE Done
  BY <1>1, <1>4 DEF Done
<1>5. CASE \E I \in Wanted : queuePatch(I)
  BY <1>5, queuePatch_Landing
<1>6. CASE parseInstruction
  BY <1>6, parseInstruction_Landing
<1>7. CASE Dequeue \/ commit \/ undo \/ NextTactic \/ PatchFails
  BY <1>7, Dequeue_Landing, commit_Landing, undo_Landing, NextTactic_Landing, PatchFails_Landing
<1>8. CASE tactic_B1 \/ tactic_B2 \/ tactic_T1 \/ tactic_B0
  BY <1>8, tactic_B1_Landing, tactic_B2_Landing, tactic_T1_Landing, tactic_B0_Landing
<1>9. CASE tactic_T0 \/ T0Free \/ tactic_T2 \/ T2Again
  BY <1>9, tactic_T0_Landing, T0Free_Landing, tactic_T2_Landing, T2Again_Landing
<1>10. CASE tactic_T3 \/ T3Short
  BY <1>10, tactic_T3_Landing, T3Short_Landing
<1> QED
  BY <1>1, <1>2, <1>3, <1>4, <1>5, <1>6, <1>7, <1>8, <1>9, <1>10 DEF Next, Work

\* Between calls of patch(), control that comes to an instruction with a trampoline lands
\* in that trampoline, whatever tactics, evictions, hidden jumps and batches came after:
\* no later patch disturbs the bytes that a jump in place was punned with.
THEOREM Diversion == NoPunnedShort => (Spec => []Diverts)
<1> SUFFICES ASSUME NoPunnedShort PROVE Spec => []Diverts
  OBVIOUS
<1>1. Init => Landing
  BY InitLanding
<1>2. IInv /\ Landing /\ [Next]_vars => Landing'
  BY NextLanding
<1>3. IInv /\ Landing => Diverts
  <2> SUFFICES ASSUME IInv, Landing, pc = Idle, NEW I \in Instrs, Es[I] # NIL
               PROVE  Lands(I) = Es[I]
    BY DEF Diverts
  <2>1. m \in Store /\ m = before
    BY IdleFacts
  <2>2. Reaches(m, I, Es[I], Traps)
    BY <2>1 DEF Landing, Landed
  <2>3. Es[I] \in Int
    BY Constants DEF IInv, TypeOK
  <2> QED
    BY <2>1, <2>2, <2>3, LandsThere
<1>4. Spec => []IInv
  BY Inductive
<1> QED
  BY <1>1, <1>2, <1>3, <1>4, PTL DEF Spec

=============================================================================
