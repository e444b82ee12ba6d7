--------------------------- MODULE BinPatchProofs ---------------------------
(***************************************************************************)
(* Patch sessions keep their promises for every binary, every layout of    *)
(* sections and caves, and every sequence of calls.                        *)
(***************************************************************************)
EXTENDS BinPatch, SequenceTheorems, TLAPS

-----------------------------------------------------------------------------
\* Sequences of bytes, and what the generators return.

\* A function on 1 .. n is a sequence of length n.
LEMMA FunctionIsSeq ==
    ASSUME NEW S, NEW n \in Nat, NEW f \in [1 .. n -> S]
    PROVE  f \in Seq(S) /\ Len(f) = n /\ DOMAIN f = 1 .. n
<1>1. f \in Seq(S)
  BY SeqDef
<1>2. DOMAIN f = 1 .. n /\ Len(f) \in Nat /\ DOMAIN f = 1 .. Len(f)
  BY <1>1, LenProperties
<1>3. Len(f) = n
  BY <1>2
<1> QED
  BY <1>1, <1>2, <1>3

LEMMA SizeType ==
    /\ Size \in Nat \ {0} /\ Capacity \in Nat /\ Size <= Capacity
    /\ \A k \in 1 .. Size : Data[k] \in Seq(Int) /\ \E b \in 0 .. 255 : Data[k] = <<b>>
<1>1. Data \in Seq(Seq(Int)) /\ Slack \in Nat /\ Size > 0
      /\ \A k \in 1 .. Size : \E b \in 0 .. 255 : Data[k] = <<b>>
  BY BinPatchAssumption DEF Bytes
<1>2. Len(Data) \in Nat /\ \A k \in 1 .. Len(Data) : Data[k] \in Seq(Int)
  BY <1>1
<1>3. Size \in Nat \ {0} /\ Capacity \in Nat /\ Size <= Capacity
  BY <1>1, <1>2 DEF Size, Capacity
<1>4. \A k \in 1 .. Size : Data[k] \in Seq(Int)
  BY <1>2 DEF Size
<1> QED
  BY <1>1, <1>3, <1>4

\* A remainder, and a number that is its own.
LEMMA Remainder ==
    ASSUME NEW x \in Int, NEW w \in Nat \ {0}
    PROVE  x % w \in Nat /\ (0 <= x /\ x < w => x % w = x)
OBVIOUS

LEMMA AddressTypes ==
    /\ BaseAddress \in Nat /\ WORD \in Nat \ {0}
    /\ BaseAddress + Size < WORD
<1>1. BaseAddress \in Nat /\ WORD \in Nat /\ 2 * (BaseAddress + Capacity) < WORD
  BY BinPatchAssumption
<1>2. Capacity \in Nat /\ Size \in Nat /\ Size <= Capacity
  BY SizeType
<1> QED
  BY <1>1, <1>2

LEMMA OffsetType ==
    ASSUME NEW a \in Nat
    PROVE  e9_binpatch_vaddr_to_offset(a) \in Nat
<1>1. a - BaseAddress \in Int
  BY AddressTypes
<1>2. (a - BaseAddress) % WORD \in Nat
  BY <1>1, AddressTypes, Remainder
<1> QED
  BY <1>2 DEF e9_binpatch_vaddr_to_offset

LEMMA InsnSizeType ==
    ASSUME NEW a \in Nat
    PROVE  e9_binpatch_insn_size_at(a) \in Nat
<1>1. e9_binpatch_vaddr_to_offset(a) \in Nat
  BY OffsetType
<1>2. ASSUME NEW x \in Nat, x < Size PROVE InsnSize[Data[x + 1][1]] \in Nat
  <2>1. x + 1 \in 1 .. Size
    BY <1>2, SizeType
  <2>2. PICK b \in 0 .. 255 : Data[x + 1] = <<b>>
    BY <2>1, SizeType
  <2>3. InsnSize[b] \in Nat
    BY BinPatchAssumption
  <2> QED
    BY <2>2, <2>3
<1> QED
  BY <1>1, <1>2, SizeType DEF e9_binpatch_insn_size_at

\* The NOPs fill exactly the size that is asked for.
LEMMA NopsType ==
    ASSUME NEW n \in Nat
    PROVE  e9_binpatch_gen_nops(n) \in Bytes /\ Len(e9_binpatch_gen_nops(n)) = n
<1>1. ASSUME NEW m \in 1 .. 9, NEW j \in 1 .. m PROVE nop_seqs[m][j] \in Int
  BY DEF nop_seqs
<1>2. ASSUME NEW k \in 1 .. n
      PROVE  LET start == ((k - 1) \div 9) * 9
                 m     == IF n - start > 9 THEN 9 ELSE n - start
             IN  <<nop_seqs[m][k - start]>> \in Seq(Int)
  <2> DEFINE start == ((k - 1) \div 9) * 9
             m     == IF n - start > 9 THEN 9 ELSE n - start
  <2>1. start \in Int /\ k - start >= 1 /\ k - start <= 9 /\ k - start <= n - start
    OBVIOUS
  <2>2. m \in 1 .. 9 /\ k - start \in 1 .. m
    BY <2>1
  <2>3. nop_seqs[m][k - start] \in Int
    BY <1>1, <2>2
  <2> HIDE DEF m, start
  <2> QED
    BY <2>3 DEF m, start
<1>3. e9_binpatch_gen_nops(n) \in [1 .. n -> Seq(Int)]
  BY <1>2 DEF e9_binpatch_gen_nops
<1> QED
  BY <1>3, FunctionIsSeq DEF Bytes

LEMMA BranchType ==
    ASSUME NEW op \in Int, NEW to \in Int, NEW n \in Nat
    PROVE  /\ Branch(op, to, n) \in Bytes /\ Len(Branch(op, to, n)) = n
           /\ \A k \in 1 .. n : Branch(op, to, n)[k] = <<op, to, k>>
<1>1. Branch(op, to, n) \in [1 .. n -> Seq(Int)]
  BY DEF Branch
<1> QED
  BY <1>1, FunctionIsSeq DEF Bytes, Branch

LEMMA Constants ==
    /\ BranchSize \in Nat \ {0} /\ FarJmpSize \in Nat /\ FarCallSize \in Nat
    /\ HookSlack \in Nat /\ BranchSize < FarJmpSize /\ FarJmpSize <= HookSlack
    /\ BaseAddress \in Nat /\ DefaultMin \in Nat \ {0} /\ ApplyMin \in Nat \ {0}
    /\ CavesCapacity \in Nat
BY BinPatchAssumption

LEMMA JmpType ==
    ASSUME NEW from \in Int, NEW to \in Int
    PROVE  /\ e9_binpatch_gen_jmp(from, to) \in Bytes
           /\ Len(e9_binpatch_gen_jmp(from, to)) \in 1 .. FarJmpSize
           /\ \/ /\ e9_binpatch_gen_jmp(from, to) = Branch(233, to, BranchSize)
                 /\ Len(e9_binpatch_gen_jmp(from, to)) = BranchSize
              \/ /\ e9_binpatch_gen_jmp(from, to) = Branch(255, to, FarJmpSize)
                 /\ Len(e9_binpatch_gen_jmp(from, to)) = FarJmpSize
<1>0. \A op \in Int, n \in Nat : Branch(op, to, n) \in Bytes /\ Len(Branch(op, to, n)) = n
  BY BranchType
<1>1. Branch(233, to, BranchSize) \in Bytes /\ Len(Branch(233, to, BranchSize)) = BranchSize
  BY <1>0, Constants
<1>2. Branch(255, to, FarJmpSize) \in Bytes /\ Len(Branch(255, to, FarJmpSize)) = FarJmpSize
  BY <1>0, Constants
<1>3. BranchSize \in 1 .. FarJmpSize /\ FarJmpSize \in 1 .. FarJmpSize
  BY Constants
<1> QED
  BY <1>1, <1>2, <1>3 DEF e9_binpatch_gen_jmp

LEMMA CallType ==
    ASSUME NEW from \in Int, NEW to \in Int
    PROVE  e9_binpatch_gen_call(from, to) \in Bytes
<1>1. Branch(232, to, BranchSize) \in Bytes /\ Branch(72, to, FarCallSize) \in Bytes
  BY BranchType, Constants
<1> QED
  BY <1>1 DEF e9_binpatch_gen_call

LEMMA PaddedType ==
    ASSUME NEW s \in Bytes, NEW n \in Nat
    PROVE  /\ Padded(s, n) \in Bytes /\ Len(s) \in Nat
           /\ Len(Padded(s, n)) = IF Len(s) < n THEN n ELSE Len(s)
<1>1. s \in Seq(Seq(Int)) /\ Len(s) \in Nat
  BY DEF Bytes
<1>2. CASE Len(s) < n
  <2>0. n - Len(s) \in Nat
    BY <1>1, <1>2
  <2>1. /\ e9_binpatch_gen_nops(n - Len(s)) \in Seq(Seq(Int))
        /\ Len(e9_binpatch_gen_nops(n - Len(s))) = n - Len(s)
    BY <2>0, NopsType DEF Bytes
  <2>2. /\ s \o e9_binpatch_gen_nops(n - Len(s)) \in Seq(Seq(Int))
        /\ Len(s \o e9_binpatch_gen_nops(n - Len(s))) = Len(s) + (n - Len(s))
    BY <1>1, <2>1, ConcatProperties
  <2> QED
    BY <1>1, <1>2, <2>2 DEF Padded, Bytes
<1>3. CASE ~(Len(s) < n)
  BY <1>1, <1>3 DEF Padded
<1> QED
  BY <1>2, <1>3

\* What copying changes.
LEMMA CopyFacts ==
    ASSUME NEW f, NEW at \in Int, NEW s \in Bytes
    PROVE  /\ DOMAIN Copy(f, at, s) = DOMAIN f /\ Len(s) \in Nat
           /\ \A x \in DOMAIN f :
                 Copy(f, at, s)[x] =
                    IF at <= x /\ x < at + Len(s) THEN s[x - at + 1] ELSE f[x]
BY DEF Copy, Bytes

Overlaid(f, at, s, g) ==
    \A x \in 0 .. Capacity - 1 :
        g[x] = IF at <= x /\ x < at + Len(s) THEN s[x - at + 1] ELSE f[x]

LEMMA OutputCopy ==
    ASSUME NEW f, DOMAIN f = 0 .. Capacity - 1, \A x \in DOMAIN f : f[x] \in Seq(Int),
           NEW at \in Nat, NEW s \in Bytes, NEW g, g = Copy(f, at, s)
    PROVE  /\ DOMAIN g = 0 .. Capacity - 1 /\ \A x \in DOMAIN g : g[x] \in Seq(Int)
           /\ Overlaid(f, at, s, g)
<1>1. at \in Int /\ Capacity \in Nat
  BY SizeType
<1>2. /\ DOMAIN g = DOMAIN f /\ Len(s) \in Nat
      /\ \A x \in DOMAIN f : g[x] = IF at <= x /\ x < at + Len(s) THEN s[x - at + 1] ELSE f[x]
  BY <1>1, CopyFacts
<1>3. ASSUME NEW x \in DOMAIN f PROVE g[x] \in Seq(Int)
  <2>1. CASE at <= x /\ x < at + Len(s)
    <3>1. s \in Seq(Seq(Int)) /\ x \in Int
      BY <1>1 DEF Bytes
    <3>2. x - at + 1 \in 1 .. Len(s)
      BY <1>1, <1>2, <2>1, <3>1
    <3>3. s[x - at + 1] \in Seq(Int)
      BY <3>1, <3>2, ElementOfSeq
    <3> QED
      BY <1>2, <2>1, <3>3
  <2>2. CASE ~(at <= x /\ x < at + Len(s))
    BY <1>2, <2>2
  <2> QED
    BY <2>1, <2>2
<1> QED
  BY <1>2, <1>3 DEF Overlaid

\* What a patch in place writes is no longer than what it replaces.
LEMMA ContentType ==
    ASSUME NEW p \in Patch, InPlace(p), Consistent(p)
    PROVE  /\ Content(p) \in Bytes /\ Len(Content(p)) \in Nat
           /\ ~TooLarge(p) => Len(Content(p)) <= p.orig_size
<1>1. /\ p.address \in Nat /\ p.target \in Nat /\ p.orig_size \in Nat /\ p.new_size \in Nat
      /\ p.bytes \in Bytes
  BY DEF Patch
<1>2. CASE p.type = "BYTES"
  <2>1. Content(p) = p.bytes
    BY <1>2 DEF Content
  <2> QED
    BY <1>1, <1>2, <2>1 DEF Consistent, Bytes
<1>3. CASE p.type = "INSN"
  <2>1. Content(p) = Padded(p.bytes, p.orig_size)
    BY <1>3 DEF Content
  <2>2. Padded(p.bytes, p.orig_size) \in Bytes /\ Len(p.bytes) \in Nat
        /\ Len(Padded(p.bytes, p.orig_size)) = IF Len(p.bytes) < p.orig_size THEN p.orig_size ELSE Len(p.bytes)
    BY <1>1, PaddedType
  <2>3. Len(p.bytes) <= p.orig_size
    BY <1>3 DEF Consistent
  <2> QED
    BY <1>1, <2>1, <2>2, <2>3
<1>4. CASE p.type = "NOP"
  <2>1. Content(p) = e9_binpatch_gen_nops(p.new_size)
    BY <1>4 DEF Content
  <2> QED
    BY <1>1, <1>4, <2>1, NopsType DEF Consistent
<1>5. CASE p.type \in {"CALL", "JMP"}
  <2>1. PICK s \in Bytes : Content(p) = Padded(s, p.orig_size)
    <3>0. p.address \in Int /\ p.target \in Int
      BY <1>1
    <3>1. e9_binpatch_gen_call(p.address, p.target) \in Bytes
      BY <3>0, CallType, Zenon
    <3>2. e9_binpatch_gen_jmp(p.address, p.target) \in Bytes
      BY <3>0, JmpType, Zenon
    <3> QED
      BY <1>5, <3>1, <3>2 DEF Content
  <2>2. Content(p) \in Bytes
    BY <1>1, <2>1, PaddedType
  <2>3. Len(Content(p)) \in Nat
    BY <2>2 DEF Bytes
  <2>4. ~TooLarge(p) => Len(Content(p)) <= p.orig_size
    BY <1>1, <1>5, <2>3 DEF TooLarge
  <2> QED
    BY <2>2, <2>3, <2>4
<1> QED
  BY <1>2, <1>3, <1>4, <1>5 DEF InPlace

\* The code for a cave fits into the room that is asked for.
LEMMA CaveCodeType ==
    ASSUME NEW p \in Patch, NEW cave \in Nat
    PROVE  /\ CaveCode(p, cave) \in Bytes /\ Len(CaveCode(p, cave)) \in Nat
           /\ Len(HookCode(p)) \in Nat
           /\ CaveSize(p) \in Nat \ {0} /\ Len(CaveCode(p, cave)) <= CaveSize(p)
<1>1. p.address \in Nat /\ p.orig_size \in Nat /\ p.bytes \in Seq(Seq(Int))
  BY DEF Patch, Bytes
<1>2. HookCode(p) \in Seq(Seq(Int)) /\ Len(HookCode(p)) \in Nat
  BY <1>1 DEF HookCode
<1>3. CaveSize(p) \in Nat \ {0} /\ CaveSize(p) = Len(HookCode(p)) + HookSlack
  BY <1>2, Constants DEF CaveSize
<1>4. CASE p.type = "HOOK"
  <2>1. HookCode(p) = p.bytes
    BY <1>4 DEF HookCode, IsHook
  <2> DEFINE j == e9_binpatch_gen_jmp(cave + Len(p.bytes), p.address + p.orig_size)
  <2>2. j \in Seq(Seq(Int)) /\ Len(j) \in Nat /\ Len(j) <= FarJmpSize
    <3>1. cave + Len(p.bytes) \in Int /\ p.address + p.orig_size \in Int
      BY <1>1
    <3>2. j \in Bytes /\ Len(j) \in 1 .. FarJmpSize
      BY <3>1, JmpType
    <3> QED
      BY <3>2, Constants DEF Bytes
  <2>3. p.bytes \o j \in Seq(Seq(Int)) /\ Len(p.bytes \o j) = Len(p.bytes) + Len(j)
    BY <1>1, <2>2, ConcatProperties
  <2>4. CaveCode(p, cave) = p.bytes \o j
    BY <1>4 DEF CaveCode
  <2> HIDE DEF j
  <2> QED
    BY <1>2, <1>3, <2>1, <2>2, <2>3, <2>4, Constants DEF Bytes
<1>5. CASE p.type # "HOOK"
  BY <1>2, <1>3, <1>5, Constants DEF CaveCode, Bytes
<1> QED
  BY <1>4, <1>5

\* The jump to a cave stays in the place of its patch.
LEMMA DetourType ==
    ASSUME NEW p \in Patch, NEW cave \in Nat
    PROVE  /\ Detour(p, cave) \in Bytes /\ Len(Detour(p, cave)) \in Nat
           /\ Len(Detour(p, cave)) <= IF p.orig_size > 0 THEN p.orig_size ELSE FarJmpSize
<1>1. p.address \in Nat /\ p.orig_size \in Nat
  BY DEF Patch
<1> DEFINE j == e9_binpatch_gen_jmp(p.address, cave)
<1>2. j \in Bytes /\ Len(j) \in Nat /\ Len(j) <= FarJmpSize
  <2>0. p.address \in Int /\ cave \in Int
    BY <1>1
  <2>1. j \in Bytes /\ Len(j) \in 1 .. FarJmpSize
    BY <2>0, JmpType, Zenon
  <2> QED
    BY <2>1, Constants
<1>3. Padded(j, p.orig_size) \in Bytes
      /\ Len(Padded(j, p.orig_size)) = IF Len(j) < p.orig_size THEN p.orig_size ELSE Len(j)
  BY <1>1, <1>2, PaddedType
<1>4. <<>> \in Bytes /\ Len(<<>>) = 0
  BY DEF Bytes
<1>5. Detour(p, cave) = IF Len(j) <= p.orig_size \/ p.orig_size = 0 THEN Padded(j, p.orig_size)
                        ELSE <<>>
  BY DEF Detour
<1> HIDE DEF j
<1> QED
  BY <1>1, <1>2, <1>3, <1>4, <1>5, Constants

-----------------------------------------------------------------------------
\* Caves.

FinderType == [min_cave_size : Nat, capacity : Nat, caves : Seq(Cave)]

LEMMA SearchedType ==
    ASSUME NEW s \in 1 .. Len(Sections)
    PROVE  Searched(s) \subseteq 0 .. Size - 1
<1>1. Sections[s] \in [addr : Nat, size : Nat, exec : BOOLEAN]
  BY BinPatchAssumption, ElementOfSeq
<1>2. e9_binpatch_vaddr_to_offset(Sections[s].addr) \in Nat
  BY <1>1, OffsetType
<1> QED
  BY <1>1, <1>2, SizeType DEF Searched

LEMMA FillerType ==
    Filler \subseteq 0 .. Size - 1 /\ \A x \in Filler : x \in Nat /\ IsCaveByte(x)
<1>1. Filler \subseteq 0 .. Size - 1 /\ \A x \in Filler : IsCaveByte(x)
  BY SearchedType DEF Filler
<1> QED
  BY <1>1, SizeType

LEMMA RunType ==
    ASSUME NEW r \in Runs
    PROVE  /\ r.from \in Nat /\ r.to \in Nat /\ r.from <= r.to
           /\ CaveOf(r) \in Cave /\ Span(CaveOf(r)) \subseteq Filler
           /\ CaveOf(r).size > 0
<1>1. /\ r.section \in 1 .. Len(Sections) /\ r.from \in Nat /\ r.to \in Nat /\ r.from <= r.to
      /\ r.from .. r.to \subseteq {x \in Searched(r.section) : IsCaveByte(x)}
  BY SizeType DEF Runs
<1>2. r.from .. r.to \subseteq Filler
  BY <1>1 DEF Filler
<1>3. /\ CaveOf(r) \in Cave /\ CaveOf(r).size > 0
      /\ CaveOf(r).address = BaseAddress + r.from /\ CaveOf(r).size = r.to - r.from + 1
  BY <1>1, Constants DEF CaveOf, Cave
<1>4. ASSUME NEW a \in CaveOf(r).address .. CaveOf(r).address + CaveOf(r).size - 1
      PROVE  a - BaseAddress \in Filler
  <2>1. a - BaseAddress \in r.from .. r.to
    BY <1>1, <1>3, Constants
  <2> QED
    BY <1>2, <2>1
<1> QED
  BY <1>1, <1>3, <1>4 DEF Span

\* Space in filler, offset by offset.
LEMMA SpanFacts ==
    ASSUME NEW c \in Cave, Span(c) \subseteq Filler, NEW x \in Int,
           c.address - BaseAddress <= x, x < c.address - BaseAddress + c.size
    PROVE  x \in Filler
<1>1. c.address \in Nat /\ c.size \in Nat /\ BaseAddress \in Nat
  BY Constants DEF Cave
<1>2. x + BaseAddress \in c.address .. c.address + c.size - 1 /\ (x + BaseAddress) - BaseAddress = x
  BY <1>1
<1> QED
  BY <1>2 DEF Span

\* A part of a span.
LEMMA SpanPart ==
    ASSUME NEW c \in Cave, NEW d \in Cave, Span(c) \subseteq Filler,
           c.address <= d.address, d.address + d.size <= c.address + c.size
    PROVE  Span(d) \subseteq Filler
<1>1. c.address \in Nat /\ c.size \in Nat /\ d.address \in Nat /\ d.size \in Nat
  BY DEF Cave
<1>2. ASSUME NEW a \in d.address .. d.address + d.size - 1
      PROVE  a \in c.address .. c.address + c.size - 1
  BY <1>1
<1> QED
  BY <1>2 DEF Span

\* What e9_caves_alloc() finds and what it leaves.
LEMMA TakeFacts ==
    ASSUME NEW f \in FinderType, NEW size \in Nat, NEW c \in Best(f, size)
    PROVE  /\ c \in 1 .. Len(f.caves) /\ Len(f.caves) \in Nat
           /\ f.caves[c] \in Cave /\ f.caves[c].size >= size
           /\ Take(f, c, size) \in FinderType
           /\ Take(f, c, size).min_cave_size = f.min_cave_size
           /\ Len(Take(f, c, size).caves) = Len(f.caves)
           /\ Take(f, c, size).caves[c] =
                 [address |-> f.caves[c].address + size, size |-> f.caves[c].size - size]
           /\ \A d \in 1 .. Len(f.caves) : d # c => Take(f, c, size).caves[d] = f.caves[d]
           /\ Given(f, c, size) = [address |-> f.caves[c].address, size |-> size]
           /\ Given(f, c, size) \in Cave
<1>1. c \in 1 .. Len(f.caves) /\ f.caves[c].size >= size
  BY DEF Best
<1>2. f.caves \in Seq(Cave) /\ Len(f.caves) \in Nat
  BY DEF FinderType
<1>3. f.caves[c] \in Cave
  BY <1>1, <1>2, ElementOfSeq
<1> DEFINE new == [address |-> f.caves[c].address + size, size |-> f.caves[c].size - size]
<1>4. new \in Cave
  BY <1>1, <1>3 DEF Cave
<1>5. /\ [f.caves EXCEPT ![c] = new] \in Seq(Cave)
      /\ Len([f.caves EXCEPT ![c] = new]) = Len(f.caves)
      /\ \A d \in 1 .. Len(f.caves) :
            [f.caves EXCEPT ![c] = new][d] = IF d = c THEN new ELSE f.caves[d]
  BY <1>1, <1>2, <1>4, ExceptSeq
<1>6. Take(f, c, size) = [f EXCEPT !.caves = [f.caves EXCEPT ![c] = new]]
  BY DEF Take, FinderType
<1>7. Given(f, c, size) = [address |-> f.caves[c].address, size |-> size] /\ Given(f, c, size) \in Cave
  BY <1>3 DEF Given, Cave
<1> HIDE DEF new
<1>8. /\ Take(f, c, size) \in FinderType
      /\ Take(f, c, size).min_cave_size = f.min_cave_size
      /\ Take(f, c, size).caves = [f.caves EXCEPT ![c] = new]
  BY <1>5, <1>6 DEF FinderType
<1> QED
  BY <1>1, <1>2, <1>3, <1>5, <1>7, <1>8 DEF new

\* What the search adds for a run.
LEMMA AddCaveFacts ==
    ASSUME NEW f \in FinderType, NEW r \in Runs
    PROVE  /\ AddCave(f, r) \in FinderType
           /\ AddCave(f, r).min_cave_size = f.min_cave_size
           /\ \/ AddCave(f, r).caves = f.caves
              \/ /\ AddCave(f, r).caves = Append(f.caves, CaveOf(r))
                 /\ Len(AddCave(f, r).caves) = Len(f.caves) + 1
                 /\ \A c \in 1 .. Len(f.caves) : AddCave(f, r).caves[c] = f.caves[c]
                 /\ AddCave(f, r).caves[Len(f.caves) + 1] = CaveOf(r)
<1>1. f.caves \in Seq(Cave) /\ f.capacity \in Nat /\ CaveOf(r) \in Cave
  BY RunType DEF FinderType
<1>2. /\ Append(f.caves, CaveOf(r)) \in Seq(Cave)
      /\ Len(Append(f.caves, CaveOf(r))) = Len(f.caves) + 1
      /\ \A c \in 1 .. Len(f.caves) : Append(f.caves, CaveOf(r))[c] = f.caves[c]
      /\ Append(f.caves, CaveOf(r))[Len(f.caves) + 1] = CaveOf(r)
  BY <1>1
<1>3. CASE AddCave(f, r) = f
  BY <1>3
<1>4. CASE \E n \in Nat : AddCave(f, r) = [f EXCEPT !.caves = Append(f.caves, CaveOf(r)), !.capacity = n]
  <2>1. PICK n \in Nat : AddCave(f, r) = [f EXCEPT !.caves = Append(f.caves, CaveOf(r)), !.capacity = n]
    BY <1>4
  <2>2. /\ AddCave(f, r) \in FinderType
        /\ AddCave(f, r).min_cave_size = f.min_cave_size
        /\ AddCave(f, r).caves = Append(f.caves, CaveOf(r))
    BY <1>2, <2>1 DEF FinderType
  <2> QED
    BY <1>2, <2>2
<1>5. \/ AddCave(f, r) = f
      \/ \E n \in Nat : AddCave(f, r) = [f EXCEPT !.caves = Append(f.caves, CaveOf(r)), !.capacity = n]
  <2>1. 2 * f.capacity \in Nat
    BY <1>1
  <2> QED
    BY <1>1, <2>1 DEF AddCave, CaveOf, FinderType
<1> QED
  BY <1>3, <1>4, <1>5

\* The finder after a search has begun.
LEMMA SearchFacts ==
    ASSUME NEW min \in Nat, finder \in FinderType, Search(min)
    PROVE  /\ finder' \in FinderType /\ finder'.min_cave_size # 0
           /\ finder'.caves = <<>> /\ Len(finder'.caves) = 0
           /\ todo' = Runs /\ given' = {}
<1> DEFINE m == IF finder.min_cave_size # 0 THEN finder.min_cave_size
                ELSE IF min > 0 THEN min ELSE DefaultMin
<1>1. m \in Nat \ {0}
  BY Constants DEF FinderType
<1>2. finder' = [finder EXCEPT !.min_cave_size = m, !.caves = <<>>]
  BY DEF Search
<1>3. <<>> \in Seq(Cave) /\ Len(<<>>) = 0
  OBVIOUS
<1> HIDE DEF m
<1> QED
  BY <1>1, <1>2, <1>3 DEF Search, FinderType

-----------------------------------------------------------------------------
\* Type correctness, and what the output may differ in.

NewPatch(r) ==
    [type |-> Type(r), address |-> r.address, offset |-> PatchOffset(r),
     orig_size |-> OrigSize(r), new_size |-> NewSize(r),
     bytes |-> r.bytes, target |-> r.target,
     backup |-> Backup(r, PatchOffset(r))]

\* A backup is a piece of the binary.
LEMMA BackupFacts ==
    ASSUME NEW o \in Nat, NEW n \in Nat, n > 0, o + n <= Size
    PROVE  /\ SubSeq(Data, o + 1, o + n) \in Bytes /\ Len(SubSeq(Data, o + 1, o + n)) = n
           /\ \A k \in 1 .. n : SubSeq(Data, o + 1, o + n)[k] = Data[o + k]
<1>1. \A k \in o + 1 .. o + n : Data[k] \in Seq(Int)
  BY SizeType
<1>2. /\ SubSeq(Data, o + 1, o + n) \in Seq(Seq(Int))
      /\ Len(SubSeq(Data, o + 1, o + n)) = IF o + 1 <= o + n THEN (o + n) - (o + 1) + 1 ELSE 0
      /\ \A k \in 1 .. (o + n) - (o + 1) + 1 : SubSeq(Data, o + 1, o + n)[k] = Data[(o + 1) + k - 1]
  <2>1. o + 1 \in Int /\ o + n \in Int
    OBVIOUS
  <2> QED
    BY <1>1, <2>1, SubSeqProperties
<1>3. Len(SubSeq(Data, o + 1, o + n)) = n
  BY <1>2
<1>4. ASSUME NEW k \in 1 .. n PROVE SubSeq(Data, o + 1, o + n)[k] = Data[o + k]
  <2>1. k \in 1 .. (o + n) - (o + 1) + 1 /\ (o + 1) + k - 1 = o + k
    OBVIOUS
  <2>2. SubSeq(Data, o + 1, o + n)[k] = Data[(o + 1) + k - 1]
    BY <1>2, <2>1
  <2> QED
    BY <2>1, <2>2
<1> QED
  BY <1>2, <1>3, <1>4 DEF Bytes

\* A patch is added with sizes that belong together.
LEMMA NewPatchOK ==
    ASSUME NEW r \in Requests, Acceptable(r)
    PROVE  NewPatch(r) \in Patch /\ Consistent(NewPatch(r))
<1> DEFINE p == NewPatch(r)
           o == PatchOffset(r)
           z == e9_binpatch_insn_size_at(r.address)
<1>1. r \in Request
  BY BinPatchAssumption
<1>2. /\ r.type \in {"BYTES", "NOP", "INSN", "CALL", "JMP", "HOOK", "DETOUR"}
      /\ r.address \in Nat /\ r.bytes \in Seq(Seq(Int)) /\ r.size \in Nat /\ r.target \in Nat
  BY <1>1 DEF Request, Bytes
<1>3. o \in Nat /\ z \in Nat /\ Len(r.bytes) \in Nat /\ BranchSize \in Nat \ {0}
  <2>1. o \in Nat
    BY <1>2, OffsetType DEF PatchOffset
  <2>2. z \in Nat
    BY <1>2, InsnSizeType
  <2>3. Len(r.bytes) \in Nat
    BY <1>2
  <2> QED
    BY <2>1, <2>2, <2>3, Constants
<1>4. r.bytes # <<>> => Len(r.bytes) > 0
  BY <1>2, EmptySeq
<1> HIDE DEF o, z
<1>5. OrigSize(r) \in Nat /\ NewSize(r) \in Nat
  BY <1>2, <1>3 DEF OrigSize, NewSize, z
<1>6. Type(r) \in {"BYTES", "NOP", "INSN", "CALL", "JMP", "TRAMPOLINE", "HOOK", "DETOUR"}
  BY <1>2 DEF Type
<1>7. OrigSize(r) = 0 => NewSize(r) = 0 /\ r.type \in {"HOOK", "DETOUR"}
  <2>1. CASE r.type \in {"HOOK", "DETOUR"}
    BY <2>1 DEF NewSize
  <2>2. CASE r.type = "BYTES"
    BY <1>3, <1>4, <2>2 DEF OrigSize, Acceptable
  <2>3. CASE r.type = "NOP"
    BY <2>3 DEF OrigSize, Acceptable
  <2>4. CASE r.type = "INSN"
    BY <2>4 DEF OrigSize, Acceptable
  <2>5. CASE r.type \in {"CALL", "JMP"}
    BY <1>3, <2>5 DEF OrigSize
  <2> QED
    BY <1>2, <2>1, <2>2, <2>3, <2>4, <2>5
<1>8. /\ Type(r) = "BYTES" => OrigSize(r) = Len(r.bytes)
      /\ Type(r) = "INSN" => Len(r.bytes) <= OrigSize(r)
      /\ Type(r) = "NOP" => NewSize(r) = OrigSize(r)
  BY <1>2, <1>3 DEF OrigSize, NewSize, Type, z
<1>9. Type(r) \in {"BYTES", "INSN", "NOP", "CALL", "JMP"} => OrigSize(r) > 0
  BY <1>2, <1>5, <1>7 DEF Type
<1>10. /\ Backup(r, o) \in Bytes
       /\ Backup(r, o) # <<>> =>
             /\ OrigSize(r) > 0 /\ Len(Backup(r, o)) = OrigSize(r) /\ o + OrigSize(r) <= Size
             /\ \A k \in 1 .. OrigSize(r) : Backup(r, o)[k] = Data[o + k]
  <2>1. CASE OrigSize(r) > 0 /\ o + OrigSize(r) <= Size /\ r.backup
    <3>1. Backup(r, o) = SubSeq(Data, o + 1, o + OrigSize(r))
      BY <1>5, <2>1 DEF Backup
    <3>2. /\ SubSeq(Data, o + 1, o + OrigSize(r)) \in Bytes
          /\ Len(SubSeq(Data, o + 1, o + OrigSize(r))) = OrigSize(r)
          /\ \A k \in 1 .. OrigSize(r) : SubSeq(Data, o + 1, o + OrigSize(r))[k] = Data[o + k]
      BY <1>3, <1>5, <2>1, BackupFacts
    <3> QED
      BY <2>1, <3>1, <3>2
  <2>2. CASE ~(OrigSize(r) > 0 /\ o + OrigSize(r) <= Size /\ r.backup)
    <3>1. Backup(r, o) = <<>>
      BY <1>5, <1>7, <2>2 DEF Backup
    <3> QED
      BY <3>1 DEF Bytes
  <2> QED
    BY <2>1, <2>2
<1>11. p \in Patch
  BY <1>2, <1>3, <1>5, <1>6, <1>10 DEF NewPatch, Patch, Bytes, o
<1>12. /\ p.type = Type(r) /\ p.orig_size = OrigSize(r) /\ p.new_size = NewSize(r)
       /\ p.bytes = r.bytes /\ p.offset = o /\ p.backup = Backup(r, o)
  BY DEF NewPatch, o
<1> HIDE DEF p
<1> QED
  BY <1>8, <1>9, <1>10, <1>11, <1>12 DEF Consistent, InPlace, p

\* The elements of a session.
LEMMA Elements ==
    ASSUME TypeOK
    PROVE  /\ Len(patches) \in Nat /\ \A k \in 1 .. Len(patches) : patches[k] \in Patch
           /\ finder \in FinderType /\ Len(finder.caves) \in Nat
           /\ \A c \in 1 .. Len(finder.caves) : finder.caves[c] \in Cave
           /\ i \in Nat \ {0}
<1>1. patches \in Seq(Patch) /\ finder \in FinderType
  BY DEF TypeOK, FinderType
<1>2. finder.caves \in Seq(Cave)
  BY <1>1 DEF FinderType
<1>3. Len(patches) \in Nat /\ Len(finder.caves) \in Nat
  BY <1>1, <1>2
<1>4. i \in Nat \ {0}
  BY <1>3 DEF TypeOK
<1> QED
  BY <1>1, <1>2, <1>3, <1>4, ElementOfSeq

LEMMA IInit == Init => IInv
<1> SUFFICES ASSUME Init PROVE IInv
  OBVIOUS
<1>1. patches = <<>> /\ Len(patches) = 0 /\ patches \in Seq(Patch)
  BY DEF Init
<1>2. finder \in FinderType /\ Len(finder.caves) = 0
  BY Constants DEF Init, NoFinder, FinderType
<1>3. /\ DOMAIN output = 0 .. Capacity - 1
      /\ \A x \in 0 .. Capacity - 1 : output[x] = IF x < Size THEN Data[x + 1] ELSE <<0>>
  BY DEF Init
<1>4. \A x \in DOMAIN output : output[x] \in Seq(Int)
  <2> SUFFICES ASSUME NEW x \in DOMAIN output PROVE output[x] \in Seq(Int)
    OBVIOUS
  <2>1. CASE x < Size
    <3>1. x + 1 \in 1 .. Size
      BY <1>3, <2>1, SizeType
    <3>2. Data[x + 1] \in Seq(Int)
      BY <3>1, SizeType
    <3> QED
      BY <1>3, <2>1, <3>2
  <2>2. CASE ~(x < Size)
    <3>1. <<0>> \in Seq(Int)
      OBVIOUS
    <3>2. output[x] = <<0>>
      BY <1>3, <2>2
    <3> QED
      BY <3>1, <3>2
  <2> QED
    BY <2>1, <2>2
<1>5. TypeOK
  <2>1. i \in 1 .. Len(patches) + 1 /\ file.length \in {0, Size}
    BY <1>1 DEF Init, NoFile
  <2> QED
    BY <1>1, <1>2, <1>3, <1>4, <2>1 DEF Init, TypeOK, FinderType
<1>6. Confined
  <2>1. \A x \in 0 .. Size - 1 : output[x] = Data[x + 1]
    BY <1>3, SizeType
  <2> QED
    BY <2>1 DEF Confined
<1>7. InFiller
  BY <1>2 DEF Init, InFiller
<1> QED
  BY <1>1, <1>5, <1>6, <1>7 DEF IInv

\* Most steps leave the output alone.
LEMMA QuietI ==
    ASSUME IInv, UNCHANGED <<patches, finder, output, reverted, given>>, todo' \subseteq Runs,
           pc' \in {"idle", "apply", "write", "file"}, i' \in 1 .. Len(patches) + 1,
           finalized' \in BOOLEAN, file'.length \in {0, Size}
    PROVE  IInv'
<1>1. TypeOK'
  BY DEF IInv, TypeOK
<1>2. Confined' /\ InFiller'
  BY DEF IInv, Confined, InFiller
<1> QED
  BY <1>1, <1>2 DEF IInv

\* A patch that is added has not been applied.
LEMMA AddI ==
    ASSUME IInv, NEW r \in Requests, add_patch(r)
    PROVE  IInv'
<1>1. /\ NewPatch(r) \in Patch /\ Consistent(NewPatch(r))
      /\ patches' = Append(patches, NewPatch(r))
      /\ UNCHANGED <<finder, todo, output, finalized, pc, i, reverted, given>> /\ file' = NoFile
  BY NewPatchOK DEF add_patch, NewPatch, Forget
<1> HIDE DEF NewPatch
<1>2. patches \in Seq(Patch)
  BY DEF IInv, TypeOK
<1>3. /\ patches' \in Seq(Patch) /\ Len(patches) \in Nat /\ Len(patches') = Len(patches) + 1
      /\ \A k \in 1 .. Len(patches) : patches'[k] = patches[k]
      /\ patches'[Len(patches) + 1] = NewPatch(r)
  BY <1>1, <1>2
<1>4. TypeOK'
  <2>1. i' \in 1 .. Len(patches') + 1 /\ reverted' \subseteq 1 .. Len(patches')
    BY <1>1, <1>3 DEF IInv, TypeOK
  <2> QED
    BY <1>1, <1>3, <2>1 DEF IInv, TypeOK, NoFile
<1>5. Confined'
  <2> SUFFICES ASSUME NEW x \in 0 .. Size - 1, output'[x] # Data[x + 1], x \notin Filler
               PROVE  \E k \in 1 .. Len(patches') : k \notin reverted' /\ x \in Place(patches'[k])
    BY DEF Confined
  <2>1. PICK k \in 1 .. Len(patches) : k \notin reverted /\ x \in Place(patches[k])
    BY <1>1 DEF IInv, Confined
  <2> QED
    BY <1>1, <1>3, <2>1
<1>6. InFiller'
  BY <1>1 DEF IInv, InFiller
<1>7. ASSUME NEW k \in 1 .. Len(patches') PROVE Consistent(patches'[k])
  <2>1. k \in 1 .. Len(patches) \/ k = Len(patches) + 1
    BY <1>3
  <2> QED
    BY <1>1, <1>3, <2>1 DEF IInv
<1> QED
  BY <1>4, <1>5, <1>6, <1>7 DEF IInv

\* A step that only concerns the caves.
LEMMA CavesI ==
    ASSUME IInv, UNCHANGED <<patches, output, finalized, pc, i, reverted>>,
           finder' \in FinderType, todo' \subseteq Runs, \A g \in given' : g \in Cave,
           file'.length \in {0, Size}, InFiller'
    PROVE  IInv'
<1>1. TypeOK'
  BY DEF IInv, TypeOK, FinderType
<1>2. Confined'
  BY DEF IInv, Confined
<1> QED
  BY <1>1, <1>2 DEF IInv

LEMMA SearchI ==
    ASSUME IInv, NEW min \in Nat, Search(min), file'.length \in {0, Size},
           UNCHANGED <<patches, output, finalized, pc, i, reverted>>
    PROVE  IInv'
<1>1. /\ finder' \in FinderType /\ Len(finder'.caves) = 0
      /\ todo' = Runs /\ given' = {}
  BY SearchFacts, Elements DEF IInv
<1>2. InFiller'
  BY <1>1 DEF InFiller
<1> QED
  BY <1>1, <1>2, CavesI

LEMMA FindNextI ==
    ASSUME IInv, FindNext
    PROVE  IInv'
<1>1. PICK r \in todo : finder' = AddCave(finder, r) /\ todo' = todo \ {r}
  BY DEF FindNext
<1>2. r \in Runs /\ todo' \subseteq Runs
  BY <1>1 DEF IInv, TypeOK
<1>3. UNCHANGED <<patches, output, finalized, pc, i, file, reverted, given>>
  BY DEF FindNext
<1>4. finder \in FinderType
  BY Elements DEF IInv
<1>5. /\ finder' \in FinderType
      /\ \/ finder'.caves = finder.caves
         \/ /\ Len(finder'.caves) = Len(finder.caves) + 1
            /\ \A c \in 1 .. Len(finder.caves) : finder'.caves[c] = finder.caves[c]
            /\ finder'.caves[Len(finder.caves) + 1] = CaveOf(r)
  BY <1>1, <1>2, <1>4, AddCaveFacts
<1>6. Len(finder.caves) \in Nat
  BY Elements DEF IInv
<1>7. InFiller'
  <2>1. \A c \in 1 .. Len(finder'.caves) : Span(finder'.caves[c]) \subseteq Filler
    <3>1. Span(CaveOf(r)) \subseteq Filler
      BY <1>2, RunType
    <3> SUFFICES ASSUME NEW c \in 1 .. Len(finder'.caves) PROVE Span(finder'.caves[c]) \subseteq Filler
      OBVIOUS
    <3>2. c \in 1 .. Len(finder.caves) \/ (c = Len(finder.caves) + 1 /\ finder'.caves # finder.caves)
      BY <1>5, <1>6
    <3> QED
      BY <1>5, <3>1, <3>2 DEF IInv, InFiller
  <2> QED
    BY <1>3, <2>1 DEF IInv, InFiller
<1>8. (\A g \in given' : g \in Cave) /\ file'.length \in {0, Size}
  BY <1>3 DEF IInv, TypeOK
<1> QED
  BY <1>2, <1>3, <1>5, <1>7, <1>8, CavesI

\* Space is taken from a cave.
LEMMA TakeI ==
    ASSUME IInv, NEW size \in Nat \ {0}, NEW c \in Best(finder, size),
           finder' = Take(finder, c, size), given' = given \cup {Given(finder, c, size)}
    PROVE  finder' \in FinderType /\ (\A g \in given' : g \in Cave) /\ InFiller'
<1>1. finder \in FinderType
  BY Elements DEF IInv
<1>2. /\ c \in 1 .. Len(finder.caves) /\ Len(finder.caves) \in Nat
      /\ finder.caves[c] \in Cave /\ finder.caves[c].size >= size
      /\ finder' \in FinderType
      /\ Len(finder'.caves) = Len(finder.caves)
      /\ finder'.caves[c] =
            [address |-> finder.caves[c].address + size, size |-> finder.caves[c].size - size]
      /\ \A d \in 1 .. Len(finder.caves) : d # c => finder'.caves[d] = finder.caves[d]
      /\ Given(finder, c, size) = [address |-> finder.caves[c].address, size |-> size]
      /\ Given(finder, c, size) \in Cave
  BY <1>1, TakeFacts
<1> DEFINE cave == finder.caves[c]
           g == Given(finder, c, size)
<1>3. Span(cave) \subseteq Filler /\ cave.address \in Nat /\ cave.size \in Nat
  BY <1>2 DEF IInv, InFiller, Cave
<1>4. Span(g) \subseteq Filler /\ g.size > 0
  <2>1. g \in Cave /\ g.address = cave.address /\ g.size = size
    BY <1>2
  <2> HIDE DEF g
  <2>2. cave.address <= g.address /\ g.address + g.size <= cave.address + cave.size
    BY <1>2, <1>3, <2>1
  <2>3. Span(g) \subseteq Filler
    BY <1>2, <1>3, <2>1, <2>2, SpanPart
  <2> QED
    BY <2>1, <2>3
<1>5. Span(finder'.caves[c]) \subseteq Filler
  <2>1. finder'.caves[c].address = cave.address + size /\ finder'.caves[c].size = cave.size - size
    BY <1>2
  <2>2. finder'.caves[c] \in Cave
    BY <1>2, <1>3 DEF Cave
  <2>3. cave.address <= finder'.caves[c].address
        /\ finder'.caves[c].address + finder'.caves[c].size <= cave.address + cave.size
    BY <1>3, <2>1
  <2> QED
    BY <1>2, <1>3, <2>2, <2>3, SpanPart
<1> HIDE DEF g
<1>6. \A d \in 1 .. Len(finder'.caves) : Span(finder'.caves[d]) \subseteq Filler
  BY <1>2, <1>5 DEF IInv, InFiller
<1>7. \A a \in given' : a \in Cave /\ a.size > 0 /\ Span(a) \subseteq Filler
  BY <1>2, <1>4 DEF IInv, TypeOK, InFiller, g
<1> QED
  BY <1>2, <1>6, <1>7 DEF InFiller

LEMMA AllocI ==
    ASSUME IInv, NEW size \in CaveSizes, e9_caves_alloc(size)
    PROVE  IInv'
<1>1. size \in Nat \ {0}
  BY BinPatchAssumption DEF e9_caves_alloc
<1>2. PICK c \in Best(finder, size) :
         finder' = Take(finder, c, size) /\ given' = given \cup {Given(finder, c, size)}
  BY DEF e9_caves_alloc
<1>3. finder' \in FinderType /\ (\A g \in given' : g \in Cave) /\ InFiller'
  BY <1>1, <1>2, TakeI
<1>4. UNCHANGED <<patches, todo, output, finalized, pc, i, reverted>> /\ file'.length \in {0, Size}
  BY DEF e9_caves_alloc, Forget, NoFile
<1>5. todo' \subseteq Runs
  BY <1>4 DEF IInv, TypeOK
<1> QED
  BY <1>3, <1>4, <1>5, CavesI

\* The offsets of a place.
LEMMA PlaceFacts ==
    ASSUME NEW p \in Patch
    PROVE  /\ p.offset \in Nat /\ p.orig_size \in Nat
           /\ \A x \in Int : x \in Place(p) <=>
                 p.offset <= x /\ x < p.offset + IF p.orig_size > 0 THEN p.orig_size ELSE FarJmpSize
<1>1. p.offset \in Nat /\ p.orig_size \in Nat
  BY DEF Patch
<1> QED
  BY <1>1, Constants DEF Place

\* A patch is applied: bytes at its place and in filler may change.
LEMMA AppliedConfined ==
    ASSUME IInv, i <= Len(patches), UNCHANGED patches, reverted' = reverted \ {i},
           \A x \in 0 .. Size - 1 : output'[x] # output[x] => x \in Filler \/ x \in Place(patches[i])
    PROVE  Confined'
<1>1. i \in 1 .. Len(patches)
  BY Elements DEF IInv
<1> SUFFICES ASSUME NEW x \in 0 .. Size - 1, output'[x] # Data[x + 1], x \notin Filler
             PROVE  \E k \in 1 .. Len(patches) : k \notin reverted' /\ x \in Place(patches[k])
  BY DEF Confined
<1>2. CASE output'[x] = output[x]
  <2>1. PICK k \in 1 .. Len(patches) : k \notin reverted /\ x \in Place(patches[k])
    BY <1>2 DEF IInv, Confined
  <2> QED
    BY <2>1
<1>3. CASE output'[x] # output[x]
  BY <1>1, <1>3
<1> QED
  BY <1>2, <1>3

\* The rest of the invariant after a patch is applied.
LEMMA AppliedI ==
    ASSUME IInv, i <= Len(patches), UNCHANGED <<patches, todo, finalized, pc, file>>,
           i' = i + 1, reverted' = reverted \ {i},
           finder' \in FinderType, \A g \in given' : g \in Cave, InFiller',
           DOMAIN output' = 0 .. Capacity - 1, \A x \in DOMAIN output' : output'[x] \in Seq(Int),
           \A x \in 0 .. Size - 1 : output'[x] # output[x] => x \in Filler \/ x \in Place(patches[i])
    PROVE  IInv'
<1>1. Confined'
  BY AppliedConfined
<1>2. i' \in 1 .. Len(patches') + 1
  BY Elements DEF IInv
<1>3. TypeOK'
  BY <1>2 DEF IInv, TypeOK, FinderType
<1> QED
  BY <1>1, <1>3 DEF IInv

LEMMA ApplyInPlaceI ==
    ASSUME IInv, ApplyInPlace
    PROVE  IInv'
<1> DEFINE p == patches[i]
<1>1. i \in 1 .. Len(patches) /\ p \in Patch /\ Consistent(p)
  BY Elements DEF IInv, ApplyInPlace
<1>2. InPlace(p) /\ ~TooLarge(p) /\ output' = Copy(output, p.offset, Content(p))
      /\ i' = i + 1 /\ reverted' = reverted \ {i}
      /\ UNCHANGED <<patches, finder, todo, finalized, pc, file, given>>
  BY DEF ApplyInPlace
<1>3. Content(p) \in Bytes /\ Len(Content(p)) \in Nat /\ Len(Content(p)) <= p.orig_size
  BY <1>1, <1>2, ContentType
<1>4. p.offset \in Nat /\ p.orig_size \in Nat
  BY <1>1, PlaceFacts
<1>5. DOMAIN output = 0 .. Capacity - 1 /\ \A x \in DOMAIN output : output[x] \in Seq(Int)
  BY DEF IInv, TypeOK
<1> HIDE DEF p
<1>6. DOMAIN output' = 0 .. Capacity - 1
      /\ Overlaid(output, p.offset, Content(p), output')
  BY <1>2, <1>3, <1>4, <1>5, OutputCopy, Zenon
<1>7. \A x \in DOMAIN output' : output'[x] \in Seq(Int)
  BY <1>2, <1>3, <1>4, <1>5, OutputCopy, Zenon
<1>8. ASSUME NEW x \in 0 .. Size - 1, output'[x] # output[x]
      PROVE  x \in Place(p)
  <2>1. x \in 0 .. Capacity - 1
    BY SizeType
  <2>2. p.offset <= x /\ x < p.offset + Len(Content(p))
    BY <1>6, <1>8, <2>1 DEF Overlaid
  <2>3. p.orig_size > 0 /\ x < p.offset + p.orig_size
    BY <1>3, <1>4, <2>2
  <2> QED
    BY <1>1, <2>2, <2>3, PlaceFacts
<1>9. finder' \in FinderType /\ (\A g \in given' : g \in Cave) /\ InFiller'
  BY <1>2, Elements DEF IInv, TypeOK, InFiller
<1> QED
  BY <1>1, <1>2, <1>6, <1>7, <1>8, <1>9, AppliedI DEF p

\* The cave of a hook, and the offset that it is at.
LEMMA CaveOffset ==
    ASSUME NEW c \in Cave, c.size > 0, Span(c) \subseteq Filler
    PROVE  /\ e9_binpatch_vaddr_to_offset(c.address) = c.address - BaseAddress
           /\ c.address - BaseAddress \in Filler
           /\ c.address - BaseAddress + c.size <= Size
<1>1. c.address \in Nat /\ c.size \in Nat /\ BaseAddress \in Nat
  BY Constants DEF Cave
<1>2. c.address - BaseAddress \in Filler
  BY <1>1, SpanFacts
<1>3. c.address - BaseAddress + c.size - 1 \in Filler
  BY <1>1, SpanFacts
<1>4. c.address - BaseAddress \in 0 .. Size - 1 /\ c.address - BaseAddress + c.size - 1 \in 0 .. Size - 1
  BY <1>2, <1>3, FillerType
<1>5. BaseAddress <= c.address /\ c.address < BaseAddress + Size
  BY <1>1, <1>4, SizeType
<1>6. (c.address - BaseAddress) % WORD = c.address - BaseAddress
  <2>1. c.address - BaseAddress \in Int /\ 0 <= c.address - BaseAddress /\ c.address - BaseAddress < WORD
    BY <1>1, <1>5, AddressTypes, SizeType
  <2> QED
    BY <2>1, AddressTypes, Remainder
<1> QED
  BY <1>1, <1>2, <1>4, <1>5, <1>6, SizeType DEF e9_binpatch_vaddr_to_offset

LEMMA ApplyHookI ==
    ASSUME IInv, ApplyHook
    PROVE  IInv'
<1> DEFINE p == patches[i]
<1>1. i \in 1 .. Len(patches) /\ p \in Patch
  BY Elements DEF IInv, ApplyHook, AtHook
<1>2. PICK c \in Best(finder, CaveSize(p)) :
        LET cave == finder.caves[c].address
            at   == e9_binpatch_vaddr_to_offset(cave)
            ok   == at > 0 /\ at + Len(HookCode(p)) <= Size
        IN  /\ finder' = Take(finder, c, CaveSize(p))
            /\ given' = given \cup {Given(finder, c, CaveSize(p))}
            /\ output' = IF ok THEN Copy(Copy(output, at, CaveCode(p, cave)),
                                         p.offset, Detour(p, cave))
                         ELSE output
  BY DEF ApplyHook
<1>3. i' = i + 1 /\ reverted' = reverted \ {i} /\ UNCHANGED <<patches, todo, finalized, pc, file>>
  BY DEF ApplyHook
<1> DEFINE g    == finder.caves[c]
           cave == g.address
           at   == e9_binpatch_vaddr_to_offset(cave)
<1> HIDE DEF p
<1>4. CaveSize(p) \in Nat \ {0}
  BY <1>1, CaveCodeType
<1>5. finder' \in FinderType /\ (\A a \in given' : a \in Cave) /\ InFiller'
  BY <1>2, <1>4, TakeI
<1>6. g \in Cave /\ g.size >= CaveSize(p) /\ Span(g) \subseteq Filler
  <2>1. finder \in FinderType
    BY Elements DEF IInv
  <2>2. c \in 1 .. Len(finder.caves) /\ g \in Cave /\ g.size >= CaveSize(p)
    BY <1>2, <1>4, <2>1, TakeFacts
  <2> QED
    BY <2>2 DEF IInv, InFiller
<1> HIDE DEF g
<1>7. cave \in Nat /\ g.size \in Nat /\ g.size > 0
  BY <1>4, <1>6 DEF Cave
<1>8. at = cave - BaseAddress /\ at \in Nat
  <2>1. at = cave - BaseAddress /\ at \in Filler
    BY <1>6, <1>7, CaveOffset
  <2> QED
    BY <2>1, FillerType, Zenon
<1> DEFINE code == CaveCode(p, cave)
           jmp  == Detour(p, cave)
           mid  == Copy(output, at, code)
<1>9. code \in Bytes /\ Len(code) \in Nat /\ Len(code) <= CaveSize(p)
  BY <1>1, <1>7, CaveCodeType
<1>10. jmp \in Bytes /\ Len(jmp) \in Nat
       /\ Len(jmp) <= IF p.orig_size > 0 THEN p.orig_size ELSE FarJmpSize
  BY <1>1, <1>7, DetourType
<1>11. output' = Copy(mid, p.offset, jmp) \/ output' = output
  BY <1>2 DEF g
<1>12. p.offset \in Nat /\ p.orig_size \in Nat
  BY <1>1, PlaceFacts
<1> HIDE DEF code, jmp, at, cave
<1>13. DOMAIN output = 0 .. Capacity - 1 /\ \A x \in DOMAIN output : output[x] \in Seq(Int)
  BY DEF IInv, TypeOK
<1>14. DOMAIN mid = 0 .. Capacity - 1 /\ (\A x \in DOMAIN mid : mid[x] \in Seq(Int))
       /\ Overlaid(output, at, code, mid)
  BY <1>8, <1>9, <1>13, OutputCopy, Zenon
<1> HIDE DEF mid
<1>15. ASSUME output' = Copy(mid, p.offset, jmp)
       PROVE  DOMAIN output' = 0 .. Capacity - 1 /\ (\A x \in DOMAIN output' : output'[x] \in Seq(Int))
              /\ Overlaid(mid, p.offset, jmp, output')
  BY <1>10, <1>12, <1>14, <1>15, OutputCopy, Zenon
<1>16. ASSUME NEW x \in 0 .. Size - 1, output'[x] # output[x]
       PROVE  x \in Filler \/ x \in Place(p)
  <2>1. x \in 0 .. Capacity - 1
    BY SizeType
  <2>2. output' = Copy(mid, p.offset, jmp)
    BY <1>11, <1>16
  <2>3. \/ p.offset <= x /\ x < p.offset + Len(jmp)
        \/ at <= x /\ x < at + Len(code)
    BY <1>14, <1>15, <1>16, <2>1, <2>2 DEF Overlaid
  <2>4. CASE p.offset <= x /\ x < p.offset + Len(jmp)
    <3>1. x < p.offset + IF p.orig_size > 0 THEN p.orig_size ELSE FarJmpSize
      BY <1>10, <1>12, <2>4, Constants
    <3> QED
      BY <1>1, <2>4, <3>1, PlaceFacts
  <2>5. CASE at <= x /\ x < at + Len(code)
    <3>1. g.address - BaseAddress <= x /\ x < g.address - BaseAddress + g.size
      BY <1>4, <1>6, <1>7, <1>8, <1>9, <2>5, Constants DEF cave
    <3> QED
      BY <1>6, <3>1, SpanFacts
  <2> QED
    BY <2>3, <2>4, <2>5
<1>17. DOMAIN output' = 0 .. Capacity - 1 /\ \A x \in DOMAIN output' : output'[x] \in Seq(Int)
  BY <1>11, <1>13, <1>15
<1> QED
  BY <1>1, <1>3, <1>5, <1>16, <1>17, AppliedI DEF p

\* Reverting restores all that the patch has written.
LEMMA RevertI ==
    ASSUME IInv, NEW id \in 1 .. MaxPatches, e9_binpatch_revert(id)
    PROVE  IInv'
<1> DEFINE p == patches[id]
<1>1. id \in 1 .. Len(patches) /\ p \in Patch /\ Consistent(p) /\ p.backup # <<>>
  BY Elements DEF IInv, e9_binpatch_revert
<1>2. output' = Copy(output, p.offset, p.backup) /\ reverted' = reverted \cup {id}
      /\ UNCHANGED <<patches, finder, todo, finalized, pc, i, given>> /\ file' = NoFile
  BY DEF e9_binpatch_revert, Forget
<1> HIDE DEF p
<1>3. /\ p.backup \in Bytes /\ p.offset \in Nat /\ p.orig_size \in Nat
      /\ p.orig_size > 0 /\ Len(p.backup) = p.orig_size
      /\ \A k \in 1 .. p.orig_size : p.backup[k] = Data[p.offset + k]
  BY <1>1 DEF Patch, Consistent
<1>4. DOMAIN output = 0 .. Capacity - 1 /\ \A x \in DOMAIN output : output[x] \in Seq(Int)
  BY DEF IInv, TypeOK
<1>5. DOMAIN output' = 0 .. Capacity - 1 /\ (\A x \in DOMAIN output' : output'[x] \in Seq(Int))
      /\ Overlaid(output, p.offset, p.backup, output')
  BY <1>2, <1>3, <1>4, OutputCopy, Zenon
<1>6. Confined'
  <2> SUFFICES ASSUME NEW x \in 0 .. Size - 1, output'[x] # Data[x + 1], x \notin Filler
               PROVE  \E k \in 1 .. Len(patches) : k \notin reverted' /\ x \in Place(patches[k])
    BY <1>2 DEF Confined
  <2>1. x \in 0 .. Capacity - 1 /\ x \in Int
    BY SizeType
  <2>2. ~(p.offset <= x /\ x < p.offset + p.orig_size)
    <3> SUFFICES ASSUME p.offset <= x, x < p.offset + p.orig_size PROVE FALSE
      OBVIOUS
    <3>1. x - p.offset + 1 \in 1 .. p.orig_size /\ p.offset + (x - p.offset + 1) = x + 1
      BY <1>3, <2>1
    <3>2. output'[x] = p.backup[x - p.offset + 1]
      BY <1>3, <1>5, <2>1 DEF Overlaid
    <3>3. p.backup[x - p.offset + 1] = Data[p.offset + (x - p.offset + 1)]
      BY <1>3, <3>1
    <3> QED
      BY <3>1, <3>2, <3>3
  <2>3. output'[x] = output[x]
    BY <1>3, <1>5, <2>1, <2>2 DEF Overlaid
  <2>4. PICK k \in 1 .. Len(patches) : k \notin reverted /\ x \in Place(patches[k])
    BY <2>3 DEF IInv, Confined
  <2>5. x \notin Place(p)
    BY <1>1, <1>3, <2>1, <2>2, PlaceFacts
  <2> QED
    BY <1>2, <2>4, <2>5 DEF p
<1>7. TypeOK'
  BY <1>1, <1>2, <1>5 DEF IInv, TypeOK, NoFile
<1>8. InFiller'
  BY <1>2 DEF IInv, InFiller
<1> QED
  BY <1>2, <1>6, <1>7, <1>8 DEF IInv

LEMMA RevertAllI ==
    ASSUME IInv, e9_binpatch_revert_all
    PROVE  IInv'
<1>1. /\ output' = [x \in DOMAIN output |-> IF x < Size THEN Data[x + 1] ELSE output[x]]
      /\ finalized' = FALSE /\ reverted' = 1 .. Len(patches) /\ file' = NoFile
      /\ UNCHANGED <<patches, finder, todo, pc, i, given>>
  BY DEF e9_binpatch_revert_all, Forget
<1>2. DOMAIN output = 0 .. Capacity - 1 /\ \A x \in DOMAIN output : output[x] \in Seq(Int)
  BY DEF IInv, TypeOK
<1>3. ASSUME NEW x \in DOMAIN output PROVE output'[x] \in Seq(Int)
  <2>1. CASE x < Size
    <3>1. x + 1 \in 1 .. Size
      BY <1>2, <2>1, SizeType
    <3> QED
      BY <1>1, <2>1, <3>1, SizeType
  <2>2. CASE ~(x < Size)
    BY <1>1, <1>2, <2>2
  <2> QED
    BY <2>1, <2>2
<1>4. DOMAIN output' = 0 .. Capacity - 1
  BY <1>1, <1>2
<1>5. TypeOK'
  BY <1>1, <1>2, <1>3, <1>4 DEF IInv, TypeOK, NoFile
<1>6. Confined'
  <2>1. \A x \in 0 .. Size - 1 : output'[x] = Data[x + 1]
    BY <1>1, <1>2, SizeType
  <2> QED
    BY <2>1 DEF Confined
<1>7. InFiller'
  BY <1>1 DEF IInv, InFiller
<1> QED
  BY <1>1, <1>5, <1>6, <1>7 DEF IInv

LEMMA IStep == IInv /\ [Next]_vars => IInv'
<1> SUFFICES ASSUME IInv, [Next]_vars PROVE IInv'
  OBVIOUS
<1>0. /\ todo \subseteq Runs /\ pc \in {"idle", "apply", "write", "file"} /\ finalized \in BOOLEAN
      /\ i \in 1 .. Len(patches) + 1 /\ 1 \in 1 .. Len(patches) + 1
      /\ file.length \in {0, Size} /\ NoFile.length \in {0, Size}
  BY Elements DEF IInv, TypeOK, NoFile
<1>1. ASSUME NEW r \in Requests, add_patch(r) PROVE IInv'
  BY <1>1, AddI
<1>2. ASSUME NEW n \in CaveSizes, e9_caves_find(n) PROVE IInv'
  <2>1. n \in Nat
    BY BinPatchAssumption
  <2> QED
    BY <1>0, <1>2, <2>1, SearchI DEF e9_caves_find, Forget
<1>3. ASSUME NEW n \in CaveSizes, e9_caves_alloc(n) PROVE IInv'
  BY <1>3, AllocI
<1>4. ASSUME NEW call \in {"apply", "write"}, BeginApply(call) PROVE IInv'
  <2>1. UNCHANGED <<patches, finder, todo, output, finalized, i, reverted, given>>
        /\ pc' \in {"idle", "apply", "write", "file"} /\ file' = NoFile
    BY <1>4 DEF BeginApply, Forget
  <2> QED
    BY <1>0, <2>1, QuietI
<1>5. ASSUME FindNext PROVE IInv'
  BY <1>5, FindNextI
<1>6. ASSUME ApplyInPlace PROVE IInv'
  BY <1>6, ApplyInPlaceI
<1>7. ASSUME ApplyFind PROVE IInv'
  <2>1. ApplyMin \in Nat
    BY Constants
  <2> QED
    BY <1>0, <1>7, <2>1, SearchI DEF ApplyFind
<1>8. ASSUME ApplyHook PROVE IInv'
  BY <1>8, ApplyHookI
<1>9. ASSUME ApplyFail \/ EndApply PROVE IInv'
  <2>1. UNCHANGED <<patches, finder, todo, output, reverted, given, file>> /\ i' = 1
        /\ pc' \in {"idle", "apply", "write", "file"} /\ finalized' \in BOOLEAN
    BY <1>0, <1>9 DEF ApplyFail, EndApply
  <2> QED
    BY <1>0, <2>1, QuietI
<1>10. ASSUME e9_binpatch_write \/ WriteFile PROVE IInv'
  <2>1. UNCHANGED <<patches, finder, todo, output, finalized, i, reverted, given>>
        /\ pc' \in {"idle", "apply", "write", "file"} /\ file'.length \in {0, Size}
    BY <1>0, <1>10 DEF e9_binpatch_write, WriteFile, Forget
  <2> QED
    BY <1>0, <2>1, QuietI
<1>11. ASSUME NEW id \in 1 .. MaxPatches, e9_binpatch_revert(id) PROVE IInv'
  BY <1>11, RevertI
<1>12. ASSUME e9_binpatch_revert_all PROVE IInv'
  BY <1>12, RevertAllI
<1>13. ASSUME UNCHANGED vars PROVE IInv'
  BY <1>0, <1>13, QuietI DEF vars
<1> QED
  BY <1>1, <1>2, <1>3, <1>4, <1>5, <1>6, <1>7, <1>8, <1>9, <1>10, <1>11, <1>12, <1>13 DEF Next

THEOREM Inductive == Spec => []IInv
<1> QED
  BY IInit, IStep, PTL DEF Spec

\* A session keeps its types, whatever is called: the offsets, sizes and caves that
\* e9binpatch.c computes from addresses are never negative, and apply() stays
\* within the patches.
THEOREM TypeCorrect == Spec => []TypeOK
<1>1. IInv => TypeOK
  BY DEF IInv
<1> QED
  BY <1>1, Inductive, PTL

\* A byte of the program differs from the original only in filler or at the place of
\* a patch that is not reverted, after any sequence of e9_binpatch_apply(), that may
\* fail halfway, e9_binpatch_revert() and e9_binpatch_revert_all().
THEOREM Confinement == Spec => []Confined
<1>1. IInv => Confined
  BY DEF IInv
<1> QED
  BY <1>1, Inductive, PTL

-----------------------------------------------------------------------------
\* Space in caves.

LEMMA ApartSymmetric ==
    ASSUME NEW a, NEW b
    PROVE  Apart(a, b) <=> Apart(b, a)
BY DEF Apart

\* The runs of one section are as long as possible, and sections do not overlap.
LEMMA RunsApart ==
    ASSUME WellFormed, NEW r \in Runs, NEW q \in Runs, r # q
    PROVE  Apart(CaveOf(r), CaveOf(q))
<1> DEFINE F(s) == {x \in Searched(s) : IsCaveByte(x)}
<1>1. /\ r \in [section : 1 .. Len(Sections), from : 0 .. Size - 1, to : 0 .. Size - 1]
      /\ q \in [section : 1 .. Len(Sections), from : 0 .. Size - 1, to : 0 .. Size - 1]
      /\ r.from .. r.to \subseteq F(r.section) /\ q.from .. q.to \subseteq F(q.section)
      /\ r.from - 1 \notin F(r.section) /\ r.to + 1 \notin F(r.section)
      /\ q.from - 1 \notin F(q.section) /\ q.to + 1 \notin F(q.section)
  BY DEF Runs
<1> HIDE DEF F
<1>2. r.from \in Nat /\ r.to \in Nat /\ r.from <= r.to /\ q.from \in Nat /\ q.to \in Nat /\ q.from <= q.to
  BY RunType
<1>3. r.to < q.from \/ q.to < r.from
  <2> SUFFICES ASSUME q.from <= r.to, r.from <= q.to PROVE FALSE
    BY <1>2
  <2>1. CASE r.section # q.section
    <3>1. PICK x \in Int : x \in r.from .. r.to /\ x \in q.from .. q.to
      <4>1. CASE r.from <= q.from
        BY <1>2, <4>1
      <4>2. CASE q.from <= r.from
        BY <1>2, <4>2
      <4> QED
        BY <1>2, <4>1, <4>2
    <3>2. x \in Searched(r.section) /\ x \in Searched(q.section)
      BY <1>1, <3>1 DEF F
    <3> QED
      BY <1>1, <2>1, <3>2 DEF WellFormed
  <2>2. CASE r.section = q.section
    <3>1. ~(r.from < q.from)
      <4> SUFFICES ASSUME r.from < q.from PROVE FALSE
        OBVIOUS
      <4>1. q.from - 1 \in r.from .. r.to
        BY <1>2
      <4> QED
        BY <1>1, <2>2, <4>1
    <3>2. ~(q.from < r.from)
      <4> SUFFICES ASSUME q.from < r.from PROVE FALSE
        OBVIOUS
      <4>1. r.from - 1 \in q.from .. q.to
        BY <1>2
      <4> QED
        BY <1>1, <2>2, <4>1
    <3>3. ~(r.to < q.to)
      <4> SUFFICES ASSUME r.to < q.to PROVE FALSE
        OBVIOUS
      <4>1. r.to + 1 \in q.from .. q.to
        BY <1>2
      <4> QED
        BY <1>1, <2>2, <4>1
    <3>4. ~(q.to < r.to)
      <4> SUFFICES ASSUME q.to < r.to PROVE FALSE
        OBVIOUS
      <4>1. q.to + 1 \in r.from .. r.to
        BY <1>2
      <4> QED
        BY <1>1, <2>2, <4>1
    <3>5. r.from = q.from /\ r.to = q.to
      BY <1>2, <3>1, <3>2, <3>3, <3>4
    <3> QED
      BY <1>1, <2>2, <3>5
  <2> QED
    BY <2>1, <2>2
<1> QED
  BY <1>2, <1>3, Constants DEF CaveOf, Apart

\* The invariant of the caves.
Caves == CavesApart /\ Searching

LEMMA QuietC ==
    ASSUME Caves, UNCHANGED <<finder, todo, given>>
    PROVE  Caves'
BY DEF Caves, CavesApart, Searching

LEMMA SearchC ==
    ASSUME IInv, NEW min \in Nat, Search(min)
    PROVE  Caves'
<1>1. finder'.min_cave_size # 0 /\ Len(finder'.caves) = 0 /\ given' = {}
  BY SearchFacts, Elements DEF IInv
<1> QED
  BY <1>1 DEF Caves, CavesApart, Searching

LEMMA FindNextC ==
    ASSUME WellFormed, IInv, Caves, FindNext
    PROVE  Caves'
<1>1. PICK r \in todo : finder' = AddCave(finder, r) /\ todo' = todo \ {r}
  BY DEF FindNext
<1>2. r \in Runs /\ todo \subseteq Runs
  BY <1>1 DEF IInv, TypeOK
<1>3. given' = given /\ given = {}
  BY DEF FindNext, Caves, Searching
<1>4. finder \in FinderType /\ Len(finder.caves) \in Nat
  BY Elements DEF IInv
<1>5. /\ finder'.min_cave_size = finder.min_cave_size /\ finder.min_cave_size # 0
      /\ \/ finder'.caves = finder.caves
         \/ /\ Len(finder'.caves) = Len(finder.caves) + 1
            /\ \A c \in 1 .. Len(finder.caves) : finder'.caves[c] = finder.caves[c]
            /\ finder'.caves[Len(finder.caves) + 1] = CaveOf(r)
  <2>1. finder.min_cave_size # 0
    BY DEF Caves, Searching
  <2> QED
    BY <1>1, <1>2, <1>4, <2>1, AddCaveFacts
<1>6. ASSUME NEW c \in 1 .. Len(finder'.caves)
      PROVE  \/ c \in 1 .. Len(finder.caves) /\ finder'.caves[c] = finder.caves[c]
             \/ c = Len(finder.caves) + 1 /\ finder'.caves[c] = CaveOf(r)
  BY <1>4, <1>5
<1>7. \A q \in todo' : Apart(CaveOf(q), CaveOf(r))
  BY <1>1, <1>2, RunsApart
<1>8. \A c \in 1 .. Len(finder.caves) :
         Apart(CaveOf(r), finder.caves[c]) /\ Apart(finder.caves[c], CaveOf(r))
  BY <1>1, ApartSymmetric DEF Caves, Searching
<1>9. Searching'
  <2>1. ASSUME NEW q \in todo', NEW c \in 1 .. Len(finder'.caves)
        PROVE  Apart(CaveOf(q), finder'.caves[c])
    BY <1>1, <1>6, <1>7 DEF Caves, Searching
  <2> QED
    BY <1>3, <1>5, <2>1 DEF Searching
<1>10. CavesApart'
  <2>1. ASSUME NEW c \in 1 .. Len(finder'.caves), NEW d \in 1 .. Len(finder'.caves), c # d
        PROVE  Apart(finder'.caves[c], finder'.caves[d])
    <3>1. CASE c \in 1 .. Len(finder.caves) /\ d \in 1 .. Len(finder.caves)
      <4>1. finder'.caves[c] = finder.caves[c] /\ finder'.caves[d] = finder.caves[d]
        BY <1>5, <3>1
      <4> QED
        BY <2>1, <3>1, <4>1 DEF Caves, CavesApart
    <3>2. CASE ~(c \in 1 .. Len(finder.caves) /\ d \in 1 .. Len(finder.caves))
      BY <1>6, <1>8, <2>1, <3>2
    <3> QED
      BY <3>1, <3>2
  <2>2. InFiller'
    BY FindNextI DEF IInv
  <2> QED
    BY <1>3, <2>1, <2>2 DEF CavesApart, InFiller
<1> QED
  BY <1>9, <1>10 DEF Caves

\* Space that is taken is apart from all that is left and all that was taken before.
LEMMA TakeC ==
    ASSUME IInv, Caves, todo = {}, UNCHANGED todo, NEW size \in Nat \ {0}, NEW c \in Best(finder, size),
           finder' = Take(finder, c, size), given' = given \cup {Given(finder, c, size)}
    PROVE  Caves'
<1>1. finder \in FinderType
  BY Elements DEF IInv
<1>2. /\ c \in 1 .. Len(finder.caves) /\ Len(finder.caves) \in Nat
      /\ finder.caves[c] \in Cave /\ finder.caves[c].size >= size
      /\ finder'.min_cave_size = finder.min_cave_size
      /\ Len(finder'.caves) = Len(finder.caves)
      /\ finder'.caves[c] =
            [address |-> finder.caves[c].address + size, size |-> finder.caves[c].size - size]
      /\ \A d \in 1 .. Len(finder.caves) : d # c => finder'.caves[d] = finder.caves[d]
      /\ Given(finder, c, size) = [address |-> finder.caves[c].address, size |-> size]
  BY <1>1, TakeFacts
<1> DEFINE cave == finder.caves[c]
           rest == finder'.caves[c]
           g    == Given(finder, c, size)
<1>3. /\ cave.address \in Nat /\ cave.size \in Nat /\ size <= cave.size
      /\ rest.address = cave.address + size /\ rest.size = cave.size - size
      /\ g.address = cave.address /\ g.size = size
  BY <1>2 DEF Cave
<1>4. \A a \in given : a \in Cave
  BY DEF IInv, TypeOK
<1>5. \A d \in 1 .. Len(finder.caves) : finder.caves[d] \in Cave
  BY Elements DEF IInv
<1> HIDE DEF cave, rest, g
<1>6. Apart(g, rest)
  BY <1>3 DEF Apart
<1>7. ASSUME NEW a \in Cave, Apart(a, cave)
      PROVE  Apart(a, g) /\ Apart(a, rest)
  BY <1>3, <1>7 DEF Apart, Cave
<1>8. \A a \in given : Apart(a, g) /\ Apart(a, rest)
  BY <1>2, <1>4, <1>7 DEF Caves, CavesApart, cave
<1>9. \A d \in 1 .. Len(finder.caves) : d # c => Apart(finder.caves[d], g) /\ Apart(finder.caves[d], rest)
  BY <1>2, <1>5, <1>7 DEF Caves, CavesApart, cave
<1>10. given' = given \cup {g}
  BY DEF g
<1>11. ASSUME NEW d \in 1 .. Len(finder'.caves)
       PROVE  \/ d = c /\ finder'.caves[d] = rest
              \/ d \in 1 .. Len(finder.caves) /\ d # c /\ finder'.caves[d] = finder.caves[d]
  <2>1. d \in 1 .. Len(finder.caves)
    BY <1>2
  <2>2. CASE d = c
    BY <2>2 DEF rest
  <2>3. CASE d # c
    BY <1>2, <2>1, <2>3
  <2> QED
    BY <2>2, <2>3
<1>12. InFiller'
  BY TakeI
<1>13. \A a, b \in given' : a # b => Apart(a, b)
  BY <1>8, <1>10, ApartSymmetric DEF Caves, CavesApart
<1>14. ASSUME NEW d \in 1 .. Len(finder'.caves), NEW a \in given'
       PROVE  Apart(a, finder'.caves[d])
  <2>1. CASE a = g
    BY <1>6, <1>9, <1>11, <2>1, ApartSymmetric
  <2>2. CASE a \in given
    BY <1>8, <1>11, <2>2 DEF Caves, CavesApart
  <2> QED
    BY <1>10, <2>1, <2>2
<1>15. ASSUME NEW d \in 1 .. Len(finder'.caves), NEW e \in 1 .. Len(finder'.caves), d # e
       PROVE  Apart(finder'.caves[d], finder'.caves[e])
  <2>1. CASE d = c
    <3>1. finder'.caves[d] = rest /\ finder'.caves[e] = finder.caves[e] /\ e \in 1 .. Len(finder.caves) /\ e # c
      BY <1>11, <1>15, <2>1
    <3> QED
      BY <1>9, <3>1, ApartSymmetric
  <2>2. CASE e = c
    <3>1. finder'.caves[e] = rest /\ finder'.caves[d] = finder.caves[d] /\ d \in 1 .. Len(finder.caves) /\ d # c
      BY <1>11, <1>15, <2>2
    <3> QED
      BY <1>9, <3>1
  <2>3. CASE d # c /\ e # c
    BY <1>11, <1>15, <2>3 DEF Caves, CavesApart
  <2> QED
    BY <2>1, <2>2, <2>3
<1>16. CavesApart'
  BY <1>12, <1>13, <1>14, <1>15 DEF CavesApart, InFiller
<1>17. Searching'
  <2>1. finder'.min_cave_size # 0
    BY <1>2 DEF Caves, Searching
  <2> QED
    BY <2>1 DEF Searching
<1> QED
  BY <1>16, <1>17 DEF Caves

LEMMA CInit == Init => Caves
BY DEF Init, NoFinder, Caves, CavesApart, Searching

LEMMA CStep == WellFormed /\ IInv /\ Caves /\ [Next]_vars => Caves'
<1> SUFFICES ASSUME WellFormed, IInv, Caves, [Next]_vars PROVE Caves'
  OBVIOUS
<1>1. ASSUME NEW n \in CaveSizes, e9_caves_find(n) PROVE Caves'
  <2>1. n \in Nat
    BY BinPatchAssumption
  <2> QED
    BY <1>1, <2>1, SearchC DEF e9_caves_find
<1>2. ASSUME NEW n \in CaveSizes, e9_caves_alloc(n) PROVE Caves'
  <2>1. n \in Nat \ {0}
    BY <1>2, BinPatchAssumption DEF e9_caves_alloc
  <2> QED
    BY <1>2, <2>1, TakeC DEF e9_caves_alloc, Idle
<1>3. ASSUME FindNext PROVE Caves'
  BY <1>3, FindNextC
<1>4. ASSUME ApplyFind PROVE Caves'
  BY <1>4, SearchC, Constants DEF ApplyFind
<1>5. ASSUME ApplyHook PROVE Caves'
  <2>1. i \in 1 .. Len(patches) /\ patches[i] \in Patch /\ todo = {} /\ UNCHANGED todo
    BY <1>5, Elements DEF IInv, ApplyHook, AtHook, Applying
  <2>2. CaveSize(patches[i]) \in Nat \ {0}
    BY <2>1, CaveCodeType
  <2>3. PICK c \in Best(finder, CaveSize(patches[i])) :
          /\ finder' = Take(finder, c, CaveSize(patches[i]))
          /\ given' = given \cup {Given(finder, c, CaveSize(patches[i]))}
    BY <1>5 DEF ApplyHook
  <2> QED
    BY <2>1, <2>2, <2>3, TakeC
<1>6. ASSUME \/ \E r \in Requests : add_patch(r)
             \/ \E call \in {"apply", "write"} : BeginApply(call)
             \/ ApplyInPlace \/ ApplyFail \/ EndApply \/ e9_binpatch_write \/ WriteFile
             \/ \E id \in 1 .. MaxPatches : e9_binpatch_revert(id)
             \/ e9_binpatch_revert_all \/ UNCHANGED vars
      PROVE  UNCHANGED <<finder, todo, given>>
  BY <1>6 DEF add_patch, BeginApply, ApplyInPlace, ApplyFail, EndApply, e9_binpatch_write,
              WriteFile, e9_binpatch_revert, e9_binpatch_revert_all, vars
<1> QED
  BY <1>1, <1>2, <1>3, <1>4, <1>5, <1>6, QuietC DEF Next

\* The space in caves that e9_caves_alloc() and apply() hand out after a search does
\* not overlap, is never on offer again, and was filler.
THEOREM CavesSeparate == WellFormed /\ Spec => []CavesApart
<1> SUFFICES ASSUME WellFormed PROVE Spec => []CavesApart
  OBVIOUS
<1>1. IInv /\ Caves /\ [Next]_vars => Caves'
  BY CStep
<1>2. Caves => CavesApart
  BY DEF Caves
<1> QED
  BY <1>1, <1>2, CInit, Inductive, PTL DEF Spec

-----------------------------------------------------------------------------
\* What is in the output.

LEMMA ControlInit == Init => Control
BY DEF Init, Control

LEMMA ControlStep == IInv /\ Control /\ [Next]_vars => Control'
<1> SUFFICES ASSUME IInv, Control, [Next]_vars PROVE Control'
  OBVIOUS
<1>1. ASSUME NEW r \in Requests, add_patch(r) PROVE Control'
  BY <1>1 DEF Control, add_patch, Idle
<1>2. ASSUME UNCHANGED <<patches, finalized, pc, i>>, todo' = {} \/ pc # "file" PROVE Control'
  BY <1>2 DEF Control, e9_binpatch_validate
<1>3. ASSUME NEW n \in CaveSizes, e9_caves_find(n) \/ e9_caves_alloc(n) PROVE Control'
  BY <1>2, <1>3 DEF e9_caves_find, e9_caves_alloc, Idle
<1>4. ASSUME NEW call \in {"apply", "write"}, BeginApply(call) PROVE Control'
  BY <1>4 DEF Control, BeginApply, Idle, e9_binpatch_validate
<1>5. ASSUME FindNext PROVE Control'
  BY <1>2, <1>5 DEF FindNext, Control
<1>6. ASSUME ApplyInPlace \/ ApplyHook PROVE Control'
  <2>1. UNCHANGED <<patches, finalized, pc, todo>> /\ pc \in {"apply", "write"}
    BY <1>6 DEF ApplyInPlace, ApplyHook, AtHook, Applying
  <2> QED
    BY <2>1 DEF Control, e9_binpatch_validate
<1>7. ASSUME ApplyFind PROVE Control'
  BY <1>2, <1>7 DEF ApplyFind, AtHook, Applying
<1>8. ASSUME ApplyFail PROVE Control'
  <2>1. UNCHANGED <<patches, finalized>> /\ pc \in {"apply", "write"} /\ pc' = "idle" /\ i' = 1
    BY <1>8 DEF ApplyFail, AtHook, Applying
  <2> QED
    BY <2>1 DEF Control
<1>9. ASSUME EndApply PROVE Control'
  BY <1>9 DEF EndApply, Applying, Control, e9_binpatch_validate
<1>10. ASSUME e9_binpatch_write \/ WriteFile PROVE Control'
  BY <1>10 DEF e9_binpatch_write, WriteFile, Control, Idle, e9_binpatch_validate
<1>11. ASSUME NEW id \in 1 .. MaxPatches, e9_binpatch_revert(id) PROVE Control'
  BY <1>2, <1>11 DEF e9_binpatch_revert, Idle
<1>12. ASSUME e9_binpatch_revert_all PROVE Control'
  BY <1>12 DEF e9_binpatch_revert_all, Control, Idle
<1>13. ASSUME UNCHANGED vars PROVE Control'
  BY <1>2, <1>13 DEF vars, Control
<1> QED
  BY <1>1, <1>3, <1>4, <1>5, <1>6, <1>7, <1>8, <1>9, <1>10, <1>11, <1>12, <1>13 DEF Next

\* Bytes that are not written stay.
LEMMA HoldsSame ==
    ASSUME NEW f, NEW h, NEW at \in Int, NEW s \in Bytes, Holds(f, at, s),
           \A x \in Int : at <= x /\ x < at + Len(s) => h[x] = f[x]
    PROVE  Holds(h, at, s)
<1> SUFFICES ASSUME NEW k \in 1 .. Len(s) PROVE h[at + k - 1] = s[k]
  BY DEF Holds
<1>1. Len(s) \in Nat
  BY DEF Bytes
<1>2. at + k - 1 \in Int /\ at <= at + k - 1 /\ at + k - 1 < at + Len(s)
  BY <1>1
<1>3. h[at + k - 1] = f[at + k - 1]
  BY <1>2
<1> QED
  BY <1>3 DEF Holds

\* Likewise, but for bytes at the places of patches.
LEMMA HoldsButSame ==
    ASSUME NEW f, NEW h, NEW at \in Int, NEW s \in Bytes, NEW ps, HoldsBut(f, at, s, ps),
           \A x \in Int : at <= x /\ x < at + Len(s) => h[x] = f[x] \/ \E q \in ps : x \in Place(q)
    PROVE  HoldsBut(h, at, s, ps)
<1> SUFFICES ASSUME NEW k \in 1 .. Len(s)
             PROVE  h[at + k - 1] = s[k] \/ \E q \in ps : at + k - 1 \in Place(q)
  BY DEF HoldsBut
<1>1. Len(s) \in Nat
  BY DEF Bytes
<1>2. at + k - 1 \in Int /\ at <= at + k - 1 /\ at + k - 1 < at + Len(s)
  BY <1>1
<1>3. h[at + k - 1] = f[at + k - 1] \/ \E q \in ps : at + k - 1 \in Place(q)
  BY <1>2
<1> QED
  BY <1>3 DEF HoldsBut

\* Bytes that are written are there.
LEMMA HoldsWritten ==
    ASSUME NEW f, NEW at \in Nat, NEW s \in Bytes, NEW h, Overlaid(f, at, s, h), at + Len(s) <= Capacity
    PROVE  Holds(h, at, s)
<1> SUFFICES ASSUME NEW k \in 1 .. Len(s) PROVE h[at + k - 1] = s[k]
  BY DEF Holds
<1>1. Len(s) \in Nat /\ Capacity \in Nat
  BY SizeType DEF Bytes
<1>2. at + k - 1 \in 0 .. Capacity - 1 /\ at <= at + k - 1 /\ at + k - 1 < at + Len(s)
      /\ (at + k - 1) - at + 1 = k
  BY <1>1
<1>3. h[at + k - 1] = s[(at + k - 1) - at + 1]
  BY <1>2 DEF Overlaid
<1> QED
  BY <1>2, <1>3

LEMMA SpaceFacts ==
    /\ \A g \in Space : /\ g \in Cave /\ g.address \in Nat /\ g.size \in Nat /\ g.size > 0
                        /\ Span(g) \subseteq Filler
    /\ \A g \in Cave : g.size > 0 /\ Span(g) \subseteq Filler => g \in Space
<1>1. ASSUME NEW g \in Space
      PROVE  /\ g \in Cave /\ g.address \in Nat /\ g.size \in Nat /\ g.size > 0
             /\ Span(g) \subseteq Filler
  BY SizeType, Constants DEF Space, Cave
<1>2. ASSUME NEW g \in Cave, g.size > 0, Span(g) \subseteq Filler PROVE g \in Space
  <2>1. g.address - BaseAddress \in Filler /\ g.address - BaseAddress + g.size <= Size
    BY <1>2, CaveOffset
  <2>2. g.address - BaseAddress \in 0 .. Size - 1
    BY <2>1, FillerType
  <2>3. g.address \in Nat /\ g.size \in Nat /\ BaseAddress \in Nat /\ Size \in Nat
    BY Constants, SizeType DEF Cave
  <2>4. g.address \in BaseAddress .. BaseAddress + Size - 1 /\ g.size \in 1 .. Size
    BY <1>2, <2>1, <2>2, <2>3
  <2>5. g \in [address : BaseAddress .. BaseAddress + Size - 1, size : 1 .. Size]
    BY <2>4 DEF Cave
  <2> QED
    BY <1>2, <2>5 DEF Space
<1> QED
  BY <1>1, <1>2

LEMMA GivenSpace ==
    ASSUME IInv
    PROVE  given \subseteq Space
BY SpaceFacts DEF IInv, TypeOK, InFiller

\* The place of a patch that is not excused is in the binary, not in filler, and not
\* written by another patch.
LEMMA PlacesApart ==
    ASSUME TypeOK, e9_binpatch_validate,
           NEW j \in 1 .. Len(patches), NEW k \in 1 .. Len(patches), j # k,
           ~Excused(patches[k], All), patches[j] # patches[k] \/ patches[k].orig_size > 0
    PROVE  \A x \in Place(patches[k]) : x \notin Place(patches[j])
<1> DEFINE p == patches[k]
           q == patches[j]
<1>1. p \in Patch /\ q \in Patch /\ q \in All
  BY Elements DEF All
<1>2. p.offset \in Nat /\ p.orig_size \in Nat /\ q.offset \in Nat /\ q.orig_size \in Nat
  BY <1>1, PlaceFacts
<1>3. ~Unseen(p, All)
  BY DEF Excused
<1>4. \/ p.offset + p.orig_size <= q.offset
      \/ q.offset + q.orig_size <= p.offset
  <2>1. j \in Nat /\ k \in Nat
    BY Elements
  <2>2. j < k \/ k < j
    BY <2>1
  <2> QED
    BY <2>2 DEF e9_binpatch_validate
<1> HIDE DEF p, q
<1> SUFFICES ASSUME NEW x \in Place(p), x \in Place(q) PROVE FALSE
  BY DEF p, q
<1>5. Meets(p, q) /\ x \in Int
  BY <1>2, Constants DEF Meets, Place
<1>6. q # p => p.orig_size # 0 /\ q.orig_size # 0
  BY <1>1, <1>3, <1>5 DEF Unseen
<1>7. p.orig_size > 0 /\ q.orig_size > 0
  BY <1>2, <1>6 DEF p, q
<1> QED
  BY <1>1, <1>2, <1>4, <1>5, <1>7, PlaceFacts

LEMMA PlaceInside ==
    ASSUME NEW p \in Patch, NEW ps, ~Excused(p, ps)
    PROVE  \A x \in Place(p) : x \in 0 .. Size - 1 /\ x \notin Filler
<1>1. p.offset \in Nat /\ p.orig_size \in Nat /\ FarJmpSize \in Nat /\ Size \in Nat
  BY PlaceFacts, Constants, SizeType
<1> SUFFICES ASSUME NEW x \in Place(p) PROVE x \in 0 .. Size - 1 /\ x \notin Filler
  OBVIOUS
<1>2. x \in Int /\ 0 <= x
  BY <1>1 DEF Place
<1>3. ~(x >= Size) /\ x \notin Filler
  BY DEF Excused, Unseen
<1> QED
  BY <1>1, <1>2, <1>3

\* What is written at the place of a patch stays, if the place is left alone.
LEMMA KeptInPlace ==
    ASSUME NEW p \in Patch, Consistent(p), InPlace(p), ~TooLarge(p), NEW f, NEW h,
           \A x \in Place(p) : h[x] = f[x], Holds(f, p.offset, Content(p))
    PROVE  Holds(h, p.offset, Content(p))
<1>1. Content(p) \in Bytes /\ Len(Content(p)) \in Nat /\ Len(Content(p)) <= p.orig_size
  BY ContentType
<1>2. p.offset \in Nat /\ p.orig_size \in Nat
  BY PlaceFacts
<1>3. ASSUME NEW x \in Int, p.offset <= x, x < p.offset + Len(Content(p)) PROVE h[x] = f[x]
  <2>1. p.orig_size > 0 /\ x < p.offset + p.orig_size
    BY <1>1, <1>2, <1>3
  <2>2. x \in Place(p)
    BY <1>3, <2>1, PlaceFacts
  <2> QED
    BY <2>2
<1>4. p.offset \in Int
  BY <1>2
<1> QED
  BY <1>1, <1>3, <1>4, HoldsSame

LEMMA KeptHook ==
    ASSUME NEW p \in Patch, NEW ps, NEW g \in Space, NEW f, NEW h,
           \A x \in Place(p) : h[x] = f[x], Hooked(p, ps, g, f),
           \A x \in Int : g.address - BaseAddress <= x /\ x < g.address - BaseAddress + g.size
                             => h[x] = f[x] \/ \E q \in ps : x \in Place(q)
    PROVE  Hooked(p, ps, g, h)
<1>1. g.address \in Nat /\ g.size \in Nat /\ BaseAddress \in Nat
  BY SpaceFacts, Constants
<1>2. /\ Detour(p, g.address) \in Bytes /\ Len(Detour(p, g.address)) \in Nat
      /\ Len(Detour(p, g.address)) <= IF p.orig_size > 0 THEN p.orig_size ELSE FarJmpSize
  BY <1>1, DetourType
<1>3. CaveCode(p, g.address) \in Bytes /\ Len(CaveCode(p, g.address)) \in Nat
  BY <1>1, CaveCodeType
<1>4. p.offset \in Int /\ p.offset \in Nat /\ p.orig_size \in Nat
  BY PlaceFacts
<1>5. Holds(h, p.offset, Detour(p, g.address))
  <2>1. ASSUME NEW x \in Int, p.offset <= x, x < p.offset + Len(Detour(p, g.address))
        PROVE  h[x] = f[x]
    <3>1. x < p.offset + IF p.orig_size > 0 THEN p.orig_size ELSE FarJmpSize
      BY <1>2, <1>4, <2>1, Constants
    <3>2. x \in Place(p)
      BY <2>1, <3>1, PlaceFacts
    <3> QED
      BY <3>2
  <2>2. Holds(f, p.offset, Detour(p, g.address))
    BY DEF Hooked
  <2> QED
    BY <1>2, <1>4, <2>1, <2>2, HoldsSame
<1>6. /\ Len(CaveCode(p, g.address)) <= g.size
      /\ HoldsBut(f, g.address - BaseAddress, CaveCode(p, g.address), ps)
  BY DEF Hooked
<1>7. g.address - BaseAddress \in Int
  BY <1>1
<1>8. ASSUME NEW x \in Int, g.address - BaseAddress <= x,
             x < g.address - BaseAddress + Len(CaveCode(p, g.address))
      PROVE  h[x] = f[x] \/ \E q \in ps : x \in Place(q)
  <2>1. x < g.address - BaseAddress + g.size
    BY <1>1, <1>3, <1>6, <1>7, <1>8
  <2> QED
    BY <1>8, <2>1
<1>9. HoldsBut(h, g.address - BaseAddress, CaveCode(p, g.address), ps)
  BY <1>3, <1>6, <1>7, <1>8, HoldsButSame
<1> QED
  BY <1>5, <1>6, <1>9 DEF Hooked

\* What ApplyHook does: the code goes to space that was not handed out before, then the
\* jump to it is written.
LEMMA HookEffect ==
    ASSUME WellFormed, IInv, Caves, ApplyHook
    PROVE  \E g, mid :
             /\ g \in Space
             /\ given' = given \cup {g}
             /\ \A a \in given : Apart(a, g)
             /\ Len(CaveCode(patches[i], g.address)) <= g.size
             /\ Overlaid(output, g.address - BaseAddress, CaveCode(patches[i], g.address), mid)
             /\ Overlaid(mid, patches[i].offset, Detour(patches[i], g.address), output')
<1> DEFINE p == patches[i]
<1>1. i \in 1 .. Len(patches) /\ p \in Patch
  BY Elements DEF IInv, ApplyHook, AtHook
<1>2. PICK c \in Best(finder, CaveSize(p)) :
        LET cave == finder.caves[c].address
            at   == e9_binpatch_vaddr_to_offset(cave)
            ok   == at > 0 /\ at + Len(HookCode(p)) <= Size
        IN  /\ finder' = Take(finder, c, CaveSize(p))
            /\ given' = given \cup {Given(finder, c, CaveSize(p))}
            /\ output' = IF ok THEN Copy(Copy(output, at, CaveCode(p, cave)),
                                         p.offset, Detour(p, cave))
                         ELSE output
  BY DEF ApplyHook
<1> DEFINE cave == finder.caves[c]
           g    == Given(finder, c, CaveSize(p))
           at   == e9_binpatch_vaddr_to_offset(g.address)
           code == CaveCode(p, g.address)
           jmp  == Detour(p, g.address)
           mid  == Copy(output, at, code)
<1> HIDE DEF p
<1>3. CaveSize(p) \in Nat \ {0} /\ CaveSize(p) \in Nat
  BY <1>1, CaveCodeType
<1>4. /\ c \in 1 .. Len(finder.caves) /\ cave \in Cave /\ cave.size >= CaveSize(p)
      /\ g = [address |-> cave.address, size |-> CaveSize(p)] /\ g \in Cave
  <2>1. finder \in FinderType
    BY Elements DEF IInv
  <2> QED
    BY <1>2, <1>3, <2>1, TakeFacts
<1>5. g.address = cave.address /\ g.size = CaveSize(p)
  BY <1>4
<1>6. /\ finder' = Take(finder, c, CaveSize(p)) /\ given' = given \cup {g}
      /\ output' = IF at > 0 /\ at + Len(HookCode(p)) <= Size THEN Copy(mid, p.offset, jmp) ELSE output
  BY <1>2, <1>5
<1> HIDE DEF g
<1>7. Span(g) \subseteq Filler
  <2>1. InFiller'
    BY <1>2, <1>3, <1>6, TakeI
  <2> QED
    BY <1>6, <2>1 DEF InFiller
<1>8. g \in Space
  BY <1>3, <1>4, <1>5, <1>7, SpaceFacts
<1>9. /\ g.address \in Nat /\ g.size \in Nat /\ g.size > 0
  BY <1>8, SpaceFacts
<1>10. at = g.address - BaseAddress /\ at \in Filler /\ at + g.size <= Size
  <2>1. /\ e9_binpatch_vaddr_to_offset(g.address) = g.address - BaseAddress
        /\ g.address - BaseAddress \in Filler
        /\ g.address - BaseAddress + g.size <= Size
    BY <1>4, <1>7, <1>9, CaveOffset
  <2> QED
    BY <2>1
<1> HIDE DEF at
<1>11. at \in Nat /\ at > 0
  <2>1. at \in Nat
    BY <1>10, FillerType, Zenon
  <2>2. at # 0
    BY <1>10, MagicAssumption, Zenon
  <2> QED
    BY <2>1, <2>2
<1>12. /\ code \in Bytes /\ Len(code) \in Nat /\ Len(code) <= g.size
       /\ Len(HookCode(p)) \in Nat /\ Len(HookCode(p)) <= CaveSize(p)
  <2>1. /\ code \in Bytes /\ Len(code) \in Nat /\ Len(code) <= CaveSize(p)
        /\ Len(HookCode(p)) \in Nat
    BY <1>1, <1>9, CaveCodeType
  <2> QED
    BY <1>5, <2>1, Constants DEF CaveSize
<1>13. jmp \in Bytes
  BY <1>1, <1>9, DetourType
<1> HIDE DEF code, jmp
<1>14. output' = Copy(mid, p.offset, jmp)
  <2>1. at + Len(HookCode(p)) <= Size
    BY <1>5, <1>9, <1>10, <1>11, <1>12, SizeType
  <2> QED
    BY <1>6, <1>11, <2>1
<1>15. DOMAIN output = 0 .. Capacity - 1 /\ \A x \in DOMAIN output : output[x] \in Seq(Int)
  BY DEF IInv, TypeOK
<1>16. DOMAIN mid = 0 .. Capacity - 1 /\ (\A x \in DOMAIN mid : mid[x] \in Seq(Int))
       /\ Overlaid(output, at, code, mid)
  BY <1>11, <1>12, <1>15, OutputCopy, Zenon
<1> HIDE DEF mid
<1>17. p.offset \in Nat
  BY <1>1, PlaceFacts
<1>18. Overlaid(mid, p.offset, jmp, output')
  BY <1>13, <1>14, <1>16, <1>17, OutputCopy, Zenon
<1>19. \A a \in given : Apart(a, g)
  <2>1. todo = {} /\ UNCHANGED todo
    BY DEF ApplyHook, AtHook, Applying
  <2>2. \A a \in given : Apart(a, cave)
    BY <1>4 DEF Caves, CavesApart
  <2>3. \A a \in given : a \in Cave
    BY DEF IInv, TypeOK
  <2>4. ASSUME NEW a \in Cave, Apart(a, cave) PROVE Apart(a, g)
    <3>1. a.address \in Nat /\ a.size \in Nat /\ cave.address \in Nat /\ cave.size \in Nat
      BY <1>4 DEF Cave
    <3> HIDE DEF cave
    <3> QED
      BY <1>3, <1>4, <1>5, <2>4, <3>1 DEF Apart
  <2> QED
    BY <2>2, <2>3, <2>4
<1> QED
  BY <1>6, <1>8, <1>10, <1>12, <1>16, <1>18, <1>19 DEF p, code, jmp

\* What is in the output stays there.
LEMMA KeptOutput ==
    ASSUME NEW p \in Patch, Consistent(p), ~TooLarge(p), NEW ps, NEW G \in SUBSET Space, NEW f, NEW h,
           InOutput(p, ps, G, f), ~Excused(p, ps),
           \A x \in Place(p) : h[x] = f[x],
           \A g \in G : \A x \in Int :
              g.address - BaseAddress <= x /\ x < g.address - BaseAddress + g.size
                 => h[x] = f[x] \/ \E q \in ps : x \in Place(q)
    PROVE  InOutput(p, ps, G, h)
<1>1. CASE InPlace(p)
  <2>1. Holds(f, p.offset, Content(p))
    BY <1>1 DEF InOutput
  <2>2. Holds(h, p.offset, Content(p))
    BY <1>1, <2>1, KeptInPlace
  <2> QED
    BY <1>1, <2>2 DEF InOutput
<1>2. CASE ~InPlace(p)
  <2>1. PICK g \in G : Hooked(p, ps, g, f)
    BY <1>2 DEF InOutput
  <2>2. g \in Space
    OBVIOUS
  <2>3. Hooked(p, ps, g, h)
    <3>1. \A x \in Int : g.address - BaseAddress <= x /\ x < g.address - BaseAddress + g.size
                            => h[x] = f[x] \/ \E q \in ps : x \in Place(q)
      OBVIOUS
    <3> QED
      BY <2>1, <2>2, <3>1, KeptHook
  <2> QED
    BY <1>2, <2>3 DEF InOutput
<1> QED
  BY <1>1, <1>2

\* More space makes no difference.
LEMMA MoreSpace ==
    ASSUME NEW p, NEW ps, NEW G, NEW H, G \subseteq H, NEW f, InOutput(p, ps, G, f)
    PROVE  InOutput(p, ps, H, f)
BY DEF InOutput

\* A step that writes the place of one patch, and filler that is in no space of G, leaves
\* another patch in the output.
LEMMA OtherKept ==
    ASSUME IInv, e9_binpatch_validate,
           NEW j \in 1 .. Len(patches), NEW k \in 1 .. Len(patches), j # k,
           patches[j] # patches[k] \/ patches[k].orig_size > 0,
           ~TooLarge(patches[k]), NEW G \in SUBSET Space, NEW W \in SUBSET Filler, NEW h,
           \A g \in G : \A x \in Int :
              g.address - BaseAddress <= x /\ x < g.address - BaseAddress + g.size => x \notin W,
           \A x \in 0 .. Size - 1 : h[x] = output[x] \/ x \in Place(patches[j]) \/ x \in W,
           InOutput(patches[k], All, G, output)
    PROVE  InOutput(patches[k], All, G, h)
<1> DEFINE p == patches[k]
<1>1. TypeOK /\ p \in Patch /\ Consistent(p)
  BY Elements DEF IInv
<1>2. CASE Excused(p, All)
  BY <1>2 DEF InOutput
<1>3. CASE ~Excused(p, All)
  <2>1. \A x \in Place(p) : x \notin Place(patches[j])
    BY <1>1, <1>3, PlacesApart
  <2>2. \A x \in Place(p) : x \in 0 .. Size - 1 /\ x \notin Filler
    BY <1>1, <1>3, PlaceInside, Zenon
  <2>3. \A x \in Place(p) : h[x] = output[x]
    BY <2>1, <2>2
  <2>4. ASSUME NEW g \in G, NEW x \in Int, g.address - BaseAddress <= x,
               x < g.address - BaseAddress + g.size
        PROVE  h[x] = output[x] \/ \E q \in All : x \in Place(q)
    <3>1. x \in Filler
      <4>1. g \in Cave /\ Span(g) \subseteq Filler /\ g.address \in Nat /\ g.size \in Nat
        BY SpaceFacts
      <4> QED
        BY <2>4, <4>1, SpanFacts
    <3>2. x \in 0 .. Size - 1
      BY <3>1, FillerType
    <3>3. patches[j] \in All
      BY DEF All
    <3> QED
      BY <2>4, <3>2, <3>3
  <2>5. \A g \in G : \A x \in Int :
           g.address - BaseAddress <= x /\ x < g.address - BaseAddress + g.size
              => h[x] = output[x] \/ \E q \in All : x \in Place(q)
    BY <2>4
  <2> HIDE DEF p
  <2> QED
    BY <1>1, <1>3, <2>3, <2>5, KeptOutput DEF p
<1> QED
  BY <1>2, <1>3

\* The bytes that a patch in place writes.
LEMMA InPlaceEffect ==
    ASSUME IInv, ApplyInPlace
    PROVE  /\ Overlaid(output, patches[i].offset, Content(patches[i]), output')
           /\ Content(patches[i]) \in Bytes
           /\ Len(Content(patches[i])) \in Nat /\ Len(Content(patches[i])) <= patches[i].orig_size
           /\ \A x \in 0 .. Size - 1 : output'[x] = output[x] \/ x \in Place(patches[i])
<1> DEFINE p == patches[i]
<1>1. i \in 1 .. Len(patches) /\ p \in Patch /\ Consistent(p)
  BY Elements DEF IInv, ApplyInPlace
<1>2. InPlace(p) /\ ~TooLarge(p) /\ output' = Copy(output, p.offset, Content(p))
  BY DEF ApplyInPlace
<1>3. Content(p) \in Bytes /\ Len(Content(p)) \in Nat /\ Len(Content(p)) <= p.orig_size
  BY <1>1, <1>2, ContentType
<1>4. p.offset \in Nat /\ p.orig_size \in Nat
  BY <1>1, PlaceFacts
<1>5. DOMAIN output = 0 .. Capacity - 1 /\ \A x \in DOMAIN output : output[x] \in Seq(Int)
  BY DEF IInv, TypeOK
<1> HIDE DEF p
<1>6. Overlaid(output, p.offset, Content(p), output')
  BY <1>2, <1>3, <1>4, <1>5, OutputCopy, Zenon
<1>7. ASSUME NEW x \in 0 .. Size - 1, output'[x] # output[x]
      PROVE  x \in Place(p)
  <2>1. x \in 0 .. Capacity - 1
    BY SizeType
  <2>2. p.offset <= x /\ x < p.offset + Len(Content(p))
    BY <1>6, <1>7, <2>1 DEF Overlaid
  <2>3. p.orig_size > 0 /\ x < p.offset + p.orig_size
    BY <1>3, <1>4, <2>2
  <2> QED
    BY <1>1, <2>2, <2>3, PlaceFacts
<1> QED
  BY <1>3, <1>6, <1>7 DEF p

\* Progress, patch by patch, while patches are applied.
LEMMA AppliedP ==
    ASSUME IInv, Control, Progress, Applying, i <= Len(patches), ~TooLarge(patches[i]),
           UNCHANGED <<patches, finalized, pc>>, i' = i + 1,
           InOutput(patches[i], All, given', output'),
           \A k \in 1 .. i - 1 : ~TooLarge(patches[k]) /\ InOutput(patches[k], All, given, output)
                                    => InOutput(patches[k], All, given', output')
    PROVE  Progress'
<1>1. pc \in {"apply", "write"} /\ ~finalized /\ i \in Nat \ {0}
  BY Elements DEF Applying, Control, IInv
<1>2. \A k \in 1 .. i - 1 : ~TooLarge(patches[k]) /\ InOutput(patches[k], All, given, output)
  BY <1>1 DEF Progress
<1>3. ASSUME NEW k \in 1 .. i' - 1
      PROVE  ~TooLarge(patches[k]) /\ InOutput(patches[k], All, given', output')
  <2>1. k \in 1 .. i - 1 \/ k = i
    BY <1>1
  <2> QED
    BY <1>2, <2>1
<1>4. All' = All
  BY DEF All
<1> QED
  BY <1>1, <1>3, <1>4 DEF Progress

LEMMA ApplyInPlaceP ==
    ASSUME IInv, Control, Progress, ApplyInPlace
    PROVE  Progress'
<1> DEFINE p == patches[i]
<1>1. /\ Applying /\ i \in 1 .. Len(patches) /\ i <= Len(patches) /\ InPlace(p) /\ ~TooLarge(p)
      /\ i' = i + 1 /\ UNCHANGED <<patches, finalized, pc, given>> /\ p \in Patch /\ Consistent(p)
  BY Elements DEF ApplyInPlace, IInv
<1>2. /\ Overlaid(output, p.offset, Content(p), output') /\ Content(p) \in Bytes
      /\ Len(Content(p)) \in Nat /\ Len(Content(p)) <= p.orig_size
      /\ \A x \in 0 .. Size - 1 : output'[x] = output[x] \/ x \in Place(p)
  BY InPlaceEffect
<1>3. p.offset \in Nat /\ p.orig_size \in Nat /\ p.orig_size > 0
  BY <1>1, PlaceFacts DEF Consistent
<1>4. e9_binpatch_validate
  BY <1>1 DEF Control, Applying
<1>5. InOutput(p, All, given', output')
  <2>1. CASE Excused(p, All)
    BY <2>1 DEF InOutput
  <2>2. CASE ~Excused(p, All)
    <3>1. p.offset + p.orig_size - 1 \in Place(p)
      BY <1>1, <1>3, PlaceFacts
    <3>2. p.offset + p.orig_size - 1 \in 0 .. Size - 1
      BY <1>1, <2>2, <3>1, PlaceInside, Zenon
    <3>3. p.offset + Len(Content(p)) <= Capacity
      BY <1>2, <1>3, <3>2, SizeType
    <3>4. Holds(output', p.offset, Content(p))
      <4> HIDE DEF p
      <4> QED
        BY <1>2, <1>3, <3>3, HoldsWritten, Zenon
    <3> QED
      BY <1>1, <3>4 DEF InOutput
  <2> QED
    BY <2>1, <2>2
<1>6. ASSUME NEW k \in 1 .. i - 1, ~TooLarge(patches[k]), InOutput(patches[k], All, given, output)
      PROVE  InOutput(patches[k], All, given', output')
  <2>1. k \in 1 .. Len(patches) /\ i # k
    BY <1>1, Elements DEF IInv
  <2>2. p # patches[k] \/ patches[k].orig_size > 0
    BY <1>3
  <2>3. given \in SUBSET Space /\ {} \in SUBSET Filler
    BY GivenSpace
  <2>4. InOutput(patches[k], All, given, output')
    BY <1>1, <1>2, <1>4, <1>6, <2>1, <2>2, <2>3, OtherKept
  <2> QED
    BY <1>1, <2>4
<1> QED
  BY <1>1, <1>5, <1>6, AppliedP

\* A hook is in the output after its code and then the jump to it are written.
LEMMA NewHook ==
    ASSUME NEW p \in Patch, NEW ps, ~Excused(p, ps), NEW g \in Space, NEW f, NEW mid, NEW h,
           Len(CaveCode(p, g.address)) <= g.size,
           Overlaid(f, g.address - BaseAddress, CaveCode(p, g.address), mid),
           Overlaid(mid, p.offset, Detour(p, g.address), h)
    PROVE  Hooked(p, ps, g, h)
<1> DEFINE at   == g.address - BaseAddress
           code == CaveCode(p, g.address)
           jmp  == Detour(p, g.address)
<1>1. /\ g.address \in Nat /\ g.size \in Nat /\ g.size > 0 /\ g \in Cave
      /\ Span(g) \subseteq Filler /\ BaseAddress \in Nat
  BY SpaceFacts, Constants
<1>2. at \in Filler /\ at + g.size <= Size
  BY <1>1, CaveOffset
<1>3. at \in Nat /\ Size \in Nat /\ Capacity \in Nat /\ Size <= Capacity
  BY <1>2, FillerType, SizeType, Zenon
<1>4. code \in Bytes /\ Len(code) \in Nat
  BY <1>1, CaveCodeType
<1>5. /\ jmp \in Bytes /\ Len(jmp) \in Nat
      /\ Len(jmp) <= IF p.orig_size > 0 THEN p.orig_size ELSE FarJmpSize
  BY <1>1, DetourType
<1>6. p.offset \in Nat /\ p.orig_size \in Nat /\ FarJmpSize \in Nat
  BY PlaceFacts, Constants
<1> HIDE DEF code, jmp
<1>7. ASSUME NEW x \in Int, p.offset <= x, x < p.offset + Len(jmp)
      PROVE  x \in 0 .. Size - 1 /\ x \notin Filler
  <2>1. x < p.offset + IF p.orig_size > 0 THEN p.orig_size ELSE FarJmpSize
    BY <1>5, <1>6, <1>7
  <2>2. x \in Place(p)
    BY <1>7, <2>1, PlaceFacts
  <2> QED
    BY <2>2, PlaceInside, Zenon
<1>8. Holds(h, p.offset, jmp)
  <2>1. p.offset + Len(jmp) <= Capacity \/ Len(jmp) = 0
    <3>1. CASE Len(jmp) > 0
      <4>1. p.offset + Len(jmp) - 1 \in 0 .. Size - 1
        BY <1>5, <1>6, <1>7, <3>1
      <4> QED
        BY <1>3, <1>5, <1>6, <4>1
    <3> QED
      BY <1>5, <3>1
  <2>2. CASE Len(jmp) = 0
    BY <2>2 DEF Holds
  <2>3. CASE p.offset + Len(jmp) <= Capacity
    BY <1>5, <1>6, <2>3, HoldsWritten, Zenon DEF jmp
  <2> QED
    BY <2>1, <2>2, <2>3
<1>9. Holds(mid, at, code)
  <2>1. at + Len(code) <= Capacity
    BY <1>1, <1>2, <1>3, <1>4 DEF code
  <2> QED
    BY <1>3, <1>4, <2>1, HoldsWritten, Zenon DEF code
<1>10. ASSUME NEW x \in Int, at <= x, x < at + Len(code)
       PROVE  h[x] = mid[x]
  <2>1. x < at + g.size
    BY <1>1, <1>3, <1>4, <1>10 DEF code
  <2>2. x \in Filler
    BY <1>1, <1>10, <2>1, SpanFacts
  <2>3. x \in 0 .. Capacity - 1
    BY <1>3, <2>2, FillerType
  <2>4. ~(p.offset <= x /\ x < p.offset + Len(jmp))
    BY <1>7, <2>2
  <2> QED
    BY <2>3, <2>4 DEF Overlaid, jmp
<1>11. Holds(h, at, code)
  <2> HIDE DEF at
  <2>1. at \in Int
    BY <1>3
  <2> QED
    BY <1>4, <1>9, <1>10, <2>1, HoldsSame
<1>12. HoldsBut(h, at, code, ps)
  BY <1>11 DEF Holds, HoldsBut
<1> QED
  BY <1>8, <1>12 DEF Hooked, code, jmp

LEMMA ApplyHookP ==
    ASSUME WellFormed, IInv, Caves, Control, Progress, ApplyHook
    PROVE  Progress'
<1> DEFINE p == patches[i]
<1>1. /\ Applying /\ i \in 1 .. Len(patches) /\ i <= Len(patches) /\ ~InPlace(p) /\ ~TooLarge(p)
      /\ i' = i + 1 /\ UNCHANGED <<patches, finalized, pc>> /\ p \in Patch
  BY Elements DEF ApplyHook, AtHook, IInv
<1>2. PICK g, mid :
        /\ g \in Space
        /\ given' = given \cup {g} /\ \A a \in given : Apart(a, g)
        /\ Len(CaveCode(p, g.address)) <= g.size
        /\ Overlaid(output, g.address - BaseAddress, CaveCode(p, g.address), mid)
        /\ Overlaid(mid, p.offset, Detour(p, g.address), output')
  BY HookEffect
<1>3. /\ g.address \in Nat /\ g.size \in Nat /\ g \in Cave /\ Span(g) \subseteq Filler
      /\ BaseAddress \in Nat
  BY <1>2, SpaceFacts, Constants
<1>4. e9_binpatch_validate
  BY <1>1 DEF Control, Applying
<1> DEFINE W == {x \in Filler : g.address - BaseAddress <= x /\ x < g.address - BaseAddress + g.size}
<1>5. ASSUME NEW x \in 0 .. Size - 1
      PROVE  output'[x] = output[x] \/ x \in Place(p) \/ x \in W
  <2>0. x \in 0 .. Capacity - 1 /\ x \in Int
    BY SizeType
  <2>1. CASE p.offset <= x /\ x < p.offset + Len(Detour(p, g.address))
    <3>1. /\ Len(Detour(p, g.address)) \in Nat
          /\ Len(Detour(p, g.address)) <= IF p.orig_size > 0 THEN p.orig_size ELSE FarJmpSize
      BY <1>1, <1>3, DetourType
    <3>2. p.offset \in Nat /\ p.orig_size \in Nat /\ FarJmpSize \in Nat
      BY <1>1, PlaceFacts, Constants
    <3>3. x < p.offset + IF p.orig_size > 0 THEN p.orig_size ELSE FarJmpSize
      BY <2>0, <2>1, <3>1, <3>2
    <3> QED
      BY <1>1, <2>0, <2>1, <3>3, PlaceFacts
  <2>2. CASE ~(p.offset <= x /\ x < p.offset + Len(Detour(p, g.address)))
    <3>1. output'[x] = mid[x]
      BY <1>2, <2>0, <2>2 DEF Overlaid
    <3>2. CASE /\ g.address - BaseAddress <= x
               /\ x < g.address - BaseAddress + Len(CaveCode(p, g.address))
      <4>1. Len(CaveCode(p, g.address)) \in Nat
        BY <1>1, <1>3, CaveCodeType
      <4>2. x < g.address - BaseAddress + g.size
        BY <1>2, <1>3, <2>0, <3>2, <4>1
      <4>3. x \in Filler
        BY <1>3, <2>0, <3>2, <4>2, SpanFacts
      <4> QED
        BY <3>2, <4>2, <4>3
    <3>3. CASE ~(/\ g.address - BaseAddress <= x
                 /\ x < g.address - BaseAddress + Len(CaveCode(p, g.address)))
      BY <1>2, <2>0, <3>1, <3>3 DEF Overlaid
    <3> QED
      BY <3>2, <3>3
  <2> QED
    BY <2>1, <2>2
<1>6. ASSUME NEW a \in given, NEW x \in Int, a.address - BaseAddress <= x,
             x < a.address - BaseAddress + a.size
      PROVE  x \notin W
  <2>1. a.address \in Nat /\ a.size \in Nat
    BY GivenSpace, SpaceFacts
  <2>2. Apart(a, g)
    BY <1>2
  <2> QED
    BY <1>3, <1>6, <2>1, <2>2 DEF Apart
<1>7. W \in SUBSET Filler
  OBVIOUS
<1> HIDE DEF W
<1>8. InOutput(p, All, given', output')
  <2>1. CASE Excused(p, All)
    BY <2>1 DEF InOutput
  <2>2. CASE ~Excused(p, All)
    <3>1. Hooked(p, All, g, output')
      <4> HIDE DEF p
      <4> QED
        BY <1>1, <1>2, <2>2, NewHook
    <3> QED
      BY <1>1, <1>2, <3>1 DEF InOutput
  <2> QED
    BY <2>1, <2>2
<1>9. ASSUME NEW k \in 1 .. i - 1, ~TooLarge(patches[k]), InOutput(patches[k], All, given, output)
      PROVE  InOutput(patches[k], All, given', output')
  <2>1. k \in 1 .. Len(patches) /\ i # k
    BY <1>1, Elements DEF IInv
  <2>2. CASE p # patches[k] \/ patches[k].orig_size > 0
    <3>1. given \in SUBSET Space
      BY GivenSpace
    <3>2. InOutput(patches[k], All, given, output')
      BY <1>1, <1>4, <1>5, <1>6, <1>7, <1>9, <2>1, <2>2, <3>1, OtherKept
    <3>3. given \subseteq given'
      BY <1>2
    <3> QED
      BY <3>2, <3>3, MoreSpace
  <2>3. CASE p = patches[k]
    BY <1>8, <2>3
  <2> QED
    BY <2>2, <2>3
<1> QED
  BY <1>1, <1>8, <1>9, AppliedP

\* A patch that is reverted after apply() leaves the others.
LEMMA RevertP ==
    ASSUME IInv, Control, Progress, NEW id, e9_binpatch_revert(id)
    PROVE  Progress'
<1> DEFINE p == patches[id]
<1>1. /\ Idle /\ id \in 1 .. Len(patches) /\ p.backup # <<>>
      /\ output' = Copy(output, p.offset, p.backup) /\ reverted' = reverted \cup {id}
      /\ UNCHANGED <<patches, finalized, pc, i, given>>
  BY DEF e9_binpatch_revert
<1>2. p \in Patch /\ Consistent(p)
  BY <1>1, Elements DEF IInv
<1>3. /\ p.backup \in Bytes /\ Len(p.backup) = p.orig_size /\ p.orig_size > 0
      /\ p.offset \in Nat /\ p.orig_size \in Nat
  BY <1>1, <1>2 DEF Patch, Consistent
<1>4. DOMAIN output = 0 .. Capacity - 1 /\ \A x \in DOMAIN output : output[x] \in Seq(Int)
  BY DEF IInv, TypeOK
<1>5. Overlaid(output, p.offset, p.backup, output')
  <2> HIDE DEF p
  <2> QED
    BY <1>1, <1>3, <1>4, OutputCopy, Zenon
<1>6. ASSUME NEW x \in 0 .. Size - 1 PROVE output'[x] = output[x] \/ x \in Place(p)
  <2>1. x \in 0 .. Capacity - 1 /\ x \in Int
    BY SizeType
  <2>2. CASE p.offset <= x /\ x < p.offset + p.orig_size
    BY <1>2, <1>3, <2>1, <2>2, PlaceFacts
  <2>3. CASE ~(p.offset <= x /\ x < p.offset + p.orig_size)
    BY <1>3, <1>5, <2>1, <2>3 DEF Overlaid
  <2> QED
    BY <2>2, <2>3
<1>7. pc' = "idle" /\ All' = All
  BY <1>1 DEF Idle, All
<1>8. ASSUME finalized, NEW k \in 1 .. Len(patches)
      PROVE  ~TooLarge(patches[k]) /\ (k \in reverted' \/ InOutput(patches[k], All, Space, output'))
  <2>1. ~TooLarge(patches[k]) /\ (k \in reverted \/ InOutput(patches[k], All, Space, output))
    BY <1>8 DEF Progress
  <2>2. e9_binpatch_validate
    BY <1>8 DEF Control
  <2>3. CASE k # id /\ k \notin reverted
    <3>1. p # patches[k] \/ patches[k].orig_size > 0
      BY <1>3
    <3>2. Space \in SUBSET Space /\ {} \in SUBSET Filler
      OBVIOUS
    <3>3. InOutput(patches[k], All, Space, output')
      BY <1>1, <1>6, <2>1, <2>2, <2>3, <3>1, <3>2, OtherKept
    <3> QED
      BY <2>1, <3>3
  <2> QED
    BY <1>1, <2>1, <2>3
<1> QED
  BY <1>1, <1>7, <1>8 DEF Progress

LEMMA ProgressInit == Init => Progress
BY DEF Init, Progress

LEMMA ProgressStep ==
    ASSUME WellFormed, IInv, Caves, Control, Progress, [Next]_vars
    PROVE  Progress'
<1>1. ASSUME UNCHANGED <<patches, output, finalized, pc, i, reverted>>, given' = given \/ pc = "idle"
      PROVE  Progress'
  <2>1. All' = All
    BY <1>1 DEF All
  <2> QED
    BY <1>1, <2>1 DEF Progress
<1>2. ASSUME NEW r \in Requests, add_patch(r) PROVE Progress'
  BY <1>2 DEF add_patch, Idle, Progress
<1>3. ASSUME NEW n \in CaveSizes, e9_caves_find(n) \/ e9_caves_alloc(n) PROVE Progress'
  BY <1>1, <1>3 DEF e9_caves_find, e9_caves_alloc, Idle
<1>4. ASSUME NEW call \in {"apply", "write"}, BeginApply(call) PROVE Progress'
  <2>1. i' = 1 /\ finalized' = FALSE
    BY <1>4 DEF BeginApply, Idle, Control, IInv, TypeOK
  <2> QED
    BY <2>1 DEF Progress
<1>5. ASSUME FindNext PROVE Progress'
  BY <1>1, <1>5 DEF FindNext
<1>6. ASSUME ApplyFind PROVE Progress'
  <2>1. given' = given
    BY <1>6 DEF ApplyFind, Search, Caves, Searching
  <2> QED
    BY <1>1, <1>6, <2>1 DEF ApplyFind
<1>7. ASSUME ApplyFail PROVE Progress'
  <2>1. finalized' = FALSE /\ pc' = "idle"
    BY <1>7 DEF ApplyFail, AtHook, Applying, Control, IInv, TypeOK
  <2> QED
    BY <2>1 DEF Progress
<1>8. ASSUME EndApply PROVE Progress'
  <2>1. /\ pc \in {"apply", "write"} /\ i > Len(patches) /\ pc' \in {"file", "idle"}
        /\ UNCHANGED <<patches, output, reverted>>
    BY <1>8 DEF EndApply, Applying
  <2>2. ASSUME NEW k \in 1 .. Len(patches)
        PROVE  ~TooLarge(patches[k]) /\ InOutput(patches[k], All, Space, output)
    <3>1. k \in 1 .. i - 1
      BY <2>1, Elements DEF IInv
    <3>2. ~TooLarge(patches[k]) /\ InOutput(patches[k], All, given, output)
      BY <2>1, <3>1 DEF Progress
    <3> QED
      BY <3>2, GivenSpace, MoreSpace
  <2>3. All' = All
    BY <2>1 DEF All
  <2> QED
    BY <2>1, <2>2, <2>3 DEF Progress
<1>9. ASSUME e9_binpatch_write \/ WriteFile PROVE Progress'
  <2>1. UNCHANGED <<patches, output, finalized, reverted>> /\ pc' \in {"idle", "file"}
    BY <1>9 DEF e9_binpatch_write, WriteFile
  <2>2. All' = All
    BY <2>1 DEF All
  <2> QED
    BY <2>1, <2>2 DEF Progress
<1>10. ASSUME e9_binpatch_revert_all PROVE Progress'
  BY <1>10 DEF e9_binpatch_revert_all, Idle, Progress
<1>11. ASSUME UNCHANGED vars PROVE Progress'
  BY <1>1, <1>11 DEF vars
<1>12. ASSUME NEW id \in 1 .. MaxPatches, e9_binpatch_revert(id) PROVE Progress'
  BY <1>12, RevertP
<1> QED
  BY <1>2, <1>3, <1>4, <1>5, <1>6, <1>7, <1>8, <1>9, <1>10, <1>11, <1>12,
     ApplyInPlaceP, ApplyHookP DEF Next

\* Bytes in two parts.
LEMMA HoldsParts ==
    ASSUME NEW f, NEW at \in Int, NEW s \in Bytes, NEW t \in Bytes, NEW ps, HoldsBut(f, at, s \o t, ps)
    PROVE  HoldsBut(f, at, s, ps) /\ HoldsBut(f, at + Len(s), t, ps)
<1>1. s \in Seq(Seq(Int)) /\ t \in Seq(Seq(Int)) /\ Len(s) \in Nat /\ Len(t) \in Nat
  BY DEF Bytes
<1>2. /\ Len(s \o t) = Len(s) + Len(t)
      /\ \A k \in 1 .. Len(s) : (s \o t)[k] = s[k]
      /\ \A k \in 1 .. Len(t) : (s \o t)[Len(s) + k] = t[k]
  BY <1>1
<1>3. ASSUME NEW k \in 1 .. Len(s)
      PROVE  f[at + k - 1] = s[k] \/ \E q \in ps : at + k - 1 \in Place(q)
  <2>1. k \in 1 .. Len(s \o t)
    BY <1>1, <1>2
  <2> QED
    BY <1>2, <2>1 DEF HoldsBut
<1>4. ASSUME NEW k \in 1 .. Len(t)
      PROVE  \/ f[(at + Len(s)) + k - 1] = t[k]
             \/ \E q \in ps : (at + Len(s)) + k - 1 \in Place(q)
  <2>1. Len(s) + k \in 1 .. Len(s \o t) /\ (at + Len(s)) + k - 1 = at + (Len(s) + k) - 1
    BY <1>1, <1>2
  <2> QED
    BY <1>2, <2>1 DEF HoldsBut
<1> QED
  BY <1>3, <1>4 DEF HoldsBut

\* A patch that is in the output is one that a reader of the file finds there.
LEMMA OutputPresent ==
    ASSUME NEW p \in Patch, NEW ps, NEW f, ~Excused(p, ps), ~LeftOut(p), InOutput(p, ps, Space, f)
    PROVE  Present(p, ps, f)
<1>1. CASE InPlace(p)
  BY <1>1 DEF InOutput, Present
<1>2. CASE ~InPlace(p)
  <2>1. PICK g \in Space : Hooked(p, ps, g, f)
    BY <1>2 DEF InOutput
  <2> DEFINE x == g.address - BaseAddress
  <2>2. g.address \in Nat /\ BaseAddress \in Nat /\ g \in Cave /\ g.size > 0 /\ Span(g) \subseteq Filler
    BY SpaceFacts, Constants
  <2>3. x \in Filler /\ BaseAddress + x = g.address /\ x \in Int
    BY <2>2, CaveOffset
  <2>4. Holds(f, p.offset, Detour(p, BaseAddress + x))
    BY <2>1, <2>3 DEF Hooked
  <2>5. p.type \in {"HOOK", "DETOUR"}
    BY <1>2 DEF Patch, InPlace, LeftOut
  <2>6. Detour(p, BaseAddress + x) # <<>>
    BY <2>3, <2>5 DEF LeftOut, IsHook
  <2>7. HoldsBut(f, x, CaveCode(p, g.address), ps)
    BY <2>1 DEF Hooked
  <2>8. /\ HoldsBut(f, x, p.bytes, ps)
        /\ p.type = "HOOK" => \/ Returns(p, ps, f, x, 233, BranchSize)
                              \/ Returns(p, ps, f, x, 255, FarJmpSize)
    <3>1. CASE p.type = "HOOK"
      <4> DEFINE jmp == e9_binpatch_gen_jmp(g.address + Len(p.bytes), p.address + p.orig_size)
      <4>1. /\ p.bytes \in Bytes /\ Len(p.bytes) \in Nat /\ p.address + p.orig_size \in Int
            /\ g.address + Len(p.bytes) \in Int
        BY <2>2 DEF Patch, Bytes
      <4>2. CaveCode(p, g.address) = p.bytes \o jmp
        BY <3>1 DEF CaveCode
      <4>3. /\ jmp \in Bytes
            /\ \/ jmp = Branch(233, p.address + p.orig_size, BranchSize)
               \/ jmp = Branch(255, p.address + p.orig_size, FarJmpSize)
        BY <4>1, JmpType, Zenon
      <4> HIDE DEF jmp, x
      <4>4. HoldsBut(f, x, p.bytes, ps) /\ HoldsBut(f, x + Len(p.bytes), jmp, ps)
        <5>1. x \in Int /\ HoldsBut(f, x, p.bytes \o jmp, ps)
          BY <2>3, <2>7, <4>2 DEF x
        <5> QED
          BY <4>1, <4>3, <5>1, HoldsParts, Zenon
      <4> QED
        BY <4>3, <4>4 DEF Returns
    <3>2. CASE p.type = "DETOUR"
      <4>1. CaveCode(p, g.address) = p.bytes
        BY <3>2 DEF CaveCode, HookCode, IsHook
      <4> QED
        BY <2>7, <3>2, <4>1
    <3> QED
      BY <2>5, <3>1, <3>2
  <2> HIDE DEF x
  <2> QED
    BY <1>2, <2>3, <2>4, <2>6, <2>8 DEF Present
<1> QED
  BY <1>1, <1>2

\* The file that is written has what is in the output.
LEMMA WrittenPresent ==
    ASSUME IInv, Progress, finalized, NEW k \in (1 .. Len(patches)) \ reverted, NEW f,
           \A x \in 0 .. Size - 1 : f[x] = output[x], ~Excused(patches[k], All), ~LeftOut(patches[k])
    PROVE  Present(patches[k], All, f)
<1> DEFINE p == patches[k]
<1>1. p \in Patch /\ Consistent(p)
  BY Elements DEF IInv
<1>2. ~TooLarge(p) /\ InOutput(p, All, Space, output)
  BY DEF Progress
<1>3. \A x \in Place(p) : f[x] = output[x]
  BY <1>1, PlaceInside
<1>4. ASSUME NEW g \in Space, NEW x \in Int, g.address - BaseAddress <= x,
             x < g.address - BaseAddress + g.size
      PROVE  f[x] = output[x]
  <2>1. g \in Cave /\ Span(g) \subseteq Filler
    BY SpaceFacts
  <2>2. x \in Filler
    BY <1>4, <2>1, SpanFacts
  <2> QED
    BY <2>2, FillerType
<1>5. \A g \in Space : \A x \in Int :
         g.address - BaseAddress <= x /\ x < g.address - BaseAddress + g.size
            => f[x] = output[x] \/ \E q \in All : x \in Place(q)
  BY <1>4
<1>6. Space \in SUBSET Space
  OBVIOUS
<1>7. InOutput(p, All, Space, f)
  <2> HIDE DEF p
  <2> QED
    BY <1>1, <1>2, <1>3, <1>5, <1>6, KeptOutput DEF p
<1> QED
  BY <1>1, <1>7, OutputPresent

LEMMA SavedStep ==
    ASSUME IInv, Control, Progress, Saved, [Next]_vars
    PROVE  Saved'
<1>1. ASSUME UNCHANGED file PROVE Saved'
  BY <1>1 DEF Saved
<1>2. ASSUME Forget PROVE Saved'
  BY <1>2, SizeType DEF Saved, Forget, NoFile
<1>3. ASSUME WriteFile PROVE Saved'
  <2>1. CASE UNCHANGED file
    BY <1>1, <2>1
  <2>2. CASE \E n \in {0, Size} :
               file' = [length |-> n, data |-> [x \in 0 .. n - 1 |-> output[x]],
                        patches |-> All, kept |-> Kept]
    <3>1. PICK n \in {0, Size} :
               file' = [length |-> n, data |-> [x \in 0 .. n - 1 |-> output[x]],
                        patches |-> All, kept |-> Kept]
      BY <2>2
    <3>2. finalized
      BY <1>3 DEF WriteFile, Control
    <3>3. file'.length = n /\ file'.patches = All /\ file'.kept = Kept
          /\ file'.data = [x \in 0 .. n - 1 |-> output[x]]
      BY <3>1
    <3> SUFFICES ASSUME file'.length = Size, NEW p \in Kept, ~Excused(p, All), ~LeftOut(p)
                 PROVE  Present(p, All, file'.data)
      BY <3>3 DEF Saved, Excused
    <3>4. \A x \in 0 .. Size - 1 : file'.data[x] = output[x]
      BY <3>3
    <3>5. PICK k \in (1 .. Len(patches)) \ reverted : p = patches[k]
      BY DEF Kept
    <3> QED
      BY <3>2, <3>4, <3>5, WrittenPresent
  <2> QED
    BY <1>3, <2>1, <2>2 DEF WriteFile
<1>4. ASSUME \/ \E r \in Requests : add_patch(r)
             \/ \E n \in CaveSizes : e9_caves_find(n) \/ e9_caves_alloc(n)
             \/ \E call \in {"apply", "write"} : BeginApply(call)
             \/ e9_binpatch_write
             \/ \E id \in 1 .. MaxPatches : e9_binpatch_revert(id)
             \/ e9_binpatch_revert_all
      PROVE  Forget
  BY <1>4 DEF add_patch, e9_caves_find, e9_caves_alloc, BeginApply, e9_binpatch_write,
              e9_binpatch_revert, e9_binpatch_revert_all
<1>5. ASSUME FindNext \/ ApplyInPlace \/ ApplyFind \/ ApplyHook \/ ApplyFail \/ EndApply
             \/ UNCHANGED vars
      PROVE  UNCHANGED file
  BY <1>5 DEF FindNext, ApplyInPlace, ApplyFind, ApplyHook, ApplyFail, EndApply, vars
<1> QED
  BY <1>1, <1>2, <1>3, <1>4, <1>5 DEF Next

LEMMA SavedInit == Init => Saved
BY SizeType DEF Init, Saved, NoFile

\* A file that e9_binpatch_write() wrote in full has every patch that was not reverted
\* (Saved, with its exclusions): what a call of apply() that failed, a search for caves,
\* or a revert left behind never makes it miss one, and no patch is undone by another one
\* that validate() sees.
THEOREM FilesComplete == WellFormed /\ Spec => []Saved
<1> SUFFICES ASSUME WellFormed PROVE Spec => []Saved
  OBVIOUS
<1> DEFINE Inv == Caves /\ Control /\ Progress /\ Saved
<1>1. Init => Inv
  BY CInit, ControlInit, ProgressInit, SavedInit
<1>2. IInv /\ Inv /\ [Next]_vars => Inv'
  <2> SUFFICES ASSUME IInv, Inv, [Next]_vars PROVE Inv'
    OBVIOUS
  <2>1. Caves'
    BY CStep
  <2>2. Control'
    BY ControlStep
  <2>3. Progress'
    BY ProgressStep
  <2>4. Saved'
    BY SavedStep
  <2> QED
    BY <2>1, <2>2, <2>3, <2>4
<1>3. Inv => Saved
  OBVIOUS
<1> HIDE DEF Inv
<1> QED
  BY <1>1, <1>2, <1>3, Inductive, PTL DEF Spec

=============================================================================
