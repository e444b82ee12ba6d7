-------------------------- MODULE LiveReloadProofs --------------------------
(***************************************************************************)
(* Live reload keeps its promise about patches that are reverted in the    *)
(* reverse order, for every target, every set of sources and every length  *)
(* of the patch table.                                                     *)
(***************************************************************************)
EXTENDS LiveReload, FiniteSetTheorems, TLAPS

\* An element of a set of numbers that none exceeds is its maximum.
LEMMA MaxIs ==
    ASSUME NEW A, A \subseteq Int, NEW m \in A, \A j \in A : j <= m
    PROVE  Max(A) = m
<1>1. m \in A /\ \A j \in A : m >= j
  OBVIOUS
<1>2. Max(A) \in A /\ \A j \in A : Max(A) >= j
  BY <1>1 DEF Max
<1>3. \A k \in A : (\A j \in A : k >= j) => k = m
  BY <1>1
<1> QED
  BY <1>2, <1>3, Zenon

\* Elements of a sequence, and of two sequences put together.
LEMMA SeqElement ==
    ASSUME NEW S, NEW q \in Seq(S), NEW k \in 1 .. Len(q)
    PROVE  q[k] \in S
OBVIOUS

LEMMA Concat ==
    ASSUME NEW S, NEW a \in Seq(S), NEW b \in Seq(S)
    PROVE  /\ a \o b \in Seq(S) /\ Len(a \o b) = Len(a) + Len(b)
           /\ DOMAIN (a \o b) = 1 .. (Len(a) + Len(b))
           /\ \A i \in 1 .. Len(a) : (a \o b)[i] = a[i]
           /\ \A i \in Len(a) + 1 .. Len(a) + Len(b) : (a \o b)[i] = b[i - Len(a)]
OBVIOUS

\* Addresses resolve to numbers.
LEMMA Resolved ==
    /\ \A rva \in Nat : e9_ape_rva_to_offset(rva) \in Nat
    /\ \A r \in Requests : Resolve(r.type, r.address) \in Int
    /\ \A s \in Sources : \A f \in DOMAIN Functions[s] : Place(s, f) \in Nat
<1>1. \A rva \in Nat : e9_ape_rva_to_offset(rva) \in Nat
  <2>1. \A sec \in {text, rdata, data} : sec.rva \in Nat /\ sec.size \in Nat /\ sec.offset \in Nat
    BY LiveReloadAssumption
  <2> QED
    BY <2>1 DEF e9_ape_rva_to_offset, InSection
<1>2. \A r \in Requests : Resolve(r.type, r.address) \in Int
  <2> SUFFICES ASSUME NEW r \in Requests PROVE Resolve(r.type, r.address) \in Int
    OBVIOUS
  <2>1. r.address \in Nat /\ r.type \in {"offset", "rva", "va"}
    BY LiveReloadAssumption
  <2>2. ToOffset(r.address) \in Int
    BY <2>1, LiveReloadAssumption DEF ToOffset
  <2>3. r.address % RvaLimit \in Nat
    BY <2>1, LiveReloadAssumption
  <2>4. r.address >= ImageBase => (r.address - ImageBase) % RvaLimit \in Nat
    BY <2>1, LiveReloadAssumption
  <2> QED
    BY <1>1, <2>1, <2>2, <2>3, <2>4 DEF Resolve
<1>3. \A s \in Sources : \A f \in DOMAIN Functions[s] : Place(s, f) \in Nat
  <2> SUFFICES ASSUME NEW s \in Sources, NEW f \in DOMAIN Functions[s] PROVE Place(s, f) \in Nat
    OBVIOUS
  <2>1. Functions[s][f] \in Nat
    BY ObjectsAssumption
  <2>2. Functions[s][f] % RvaLimit \in Nat
    BY <2>1, LiveReloadAssumption
  <2> QED
    BY <1>1, <2>2 DEF Place
<1> QED
  BY <1>1, <1>2, <1>3

\* apply_patch_internal() of patches that come after all that are applied, with no two of
\* them at the same offset: the table and the target still agree.
LEMMA ApplyKeeps ==
    ASSUME TypeOK,
           NEW ps \in Seq(Patch), NEW I \in SUBSET DOMAIN ps,
           \A i \in I : ps[i].status = "PENDING",
           \A i \in I : \A j \in DOMAIN ps : ps[j].status = "APPLIED" => j < i,
           \A i, j \in I : \A x \in Offsets : x \in Span(ps[i]) /\ x \in Span(ps[j]) => i = j,
           \A x \in Offsets \ tangled :
              /\ Shows(ps, base, Len(ps) + 1, x, target[x])
              /\ \A i \in Applied(ps, x) : Shows(ps, base, i, x, OldByte(ps[i], x)),
           apply_patch_internal(ps, I)
    PROVE  \A x \in Offsets \ tangled' :
              /\ Shows(patches', base, Len(patches') + 1, x, target'[x])
              /\ \A i \in Applied(patches', x) :
                    Shows(patches', base, i, x, OldByte(patches'[i], x))
<1> DEFINE good == {i \in I : InBounds(ps[i])}
<1>1. /\ target' = [x \in Offsets |-> Written(ps, good, x)]
      /\ patches' = [i \in DOMAIN ps |-> IF i \notin I THEN ps[i]
              ELSE [ps[i] EXCEPT !.status = IF i \in good THEN "APPLIED" ELSE "FAILED"]]
      /\ tangled' = tangled \cup
              {x \in Offsets : \E i \in good : x \in Span(ps[i]) /\
                  OldByte(ps[i], x) # Written(ps, {j \in good : j < i}, x)}
  BY DEF apply_patch_internal
<1>2. /\ DOMAIN patches' = DOMAIN ps /\ Len(patches') = Len(ps)
      /\ DOMAIN ps = 1 .. Len(ps) /\ Len(ps) \in Nat
  BY <1>1
<1>3. \A i \in DOMAIN ps :
        /\ patches'[i].new = ps[i].new /\ patches'[i].old = ps[i].old /\ patches'[i].at = ps[i].at
        /\ i \notin I => patches'[i].status = ps[i].status
        /\ i \in I => (patches'[i].status = "APPLIED" <=> i \in good)
  BY <1>1 DEF Patch
<1> SUFFICES ASSUME NEW x \in Offsets, x \notin tangled'
             PROVE  /\ Shows(patches', base, Len(patches') + 1, x, target'[x])
                    /\ \A i \in Applied(patches', x) :
                          Shows(patches', base, i, x, OldByte(patches'[i], x))
  OBVIOUS
<1>4. \A i \in DOMAIN ps : /\ NewByte(patches'[i], x) = NewByte(ps[i], x)
                           /\ OldByte(patches'[i], x) = OldByte(ps[i], x)
                           /\ Span(patches'[i]) = Span(ps[i])
  BY <1>3 DEF NewByte, OldByte, Span
<1> DEFINE W == {i \in good : x \in Span(ps[i])}
           Before(n) == {j \in Applied(ps, x) : j < n}
<1>5. x \notin tangled /\ \A i \in W : OldByte(ps[i], x) = Written(ps, {j \in good : j < i}, x)
  BY <1>1
<1>6. Applied(patches', x) = Applied(ps, x) \cup W
  BY <1>2, <1>3, <1>4 DEF Applied
<1>7. Applied(ps, x) \subseteq DOMAIN ps /\ W \subseteq DOMAIN ps
  BY DEF Applied
<1>8. \A i \in W : \A j \in Applied(ps, x) : j < i
  BY DEF Applied
<1>9. ASSUME NEW n \in Int, NEW v, {j \in Applied(patches', x) : j < n} = Before(n),
             Shows(ps, base, n, x, v)
      PROVE  Shows(patches', base, n, x, v)
  BY <1>4, <1>7, <1>9 DEF Shows
<1>10. ASSUME NEW i \in Applied(ps, x)
       PROVE  Shows(patches', base, i, x, OldByte(patches'[i], x))
  <2>1. {j \in Applied(patches', x) : j < i} = Before(i)
    BY <1>2, <1>6, <1>7, <1>8
  <2>2. Shows(ps, base, i, x, OldByte(ps[i], x)) /\ i \in Int
    BY <1>2, <1>5, <1>7
  <2> QED
    BY <1>4, <1>7, <1>9, <2>1, <2>2
<1>11. CASE W = {}
  <2>1. target'[x] = target[x] /\ Applied(patches', x) = Applied(ps, x)
    BY <1>1, <1>6, <1>11 DEF Written
  <2>2. Shows(patches', base, Len(patches') + 1, x, target'[x])
    <3>1. {j \in Applied(patches', x) : j < Len(ps) + 1} = Before(Len(ps) + 1)
      BY <2>1
    <3> QED
      BY <1>2, <1>5, <1>9, <2>1, <3>1
  <2> QED
    BY <1>10, <2>1, <2>2
<1>12. CASE W # {}
  <2>1. PICK w : w \in W
    BY <1>12
  <2>2. W = {w}
    BY <2>1
  <2>3. w \in DOMAIN ps /\ w \in Int /\ w < Len(ps) + 1
    BY <1>2, <1>7, <2>1
  <2>4. Max(W) = w
    BY <2>2, <2>3, MaxIs
  <2>5. target'[x] = NewByte(ps[w], x)
    BY <1>1, <1>12, <2>4 DEF Written
  <2>6. Shows(patches', base, Len(patches') + 1, x, target'[x])
    <3>1. w \in {j \in Applied(patches', x) : j < Len(ps) + 1}
      BY <1>6, <2>1, <2>3
    <3>2. \A j \in Applied(patches', x) : j <= w
      BY <1>2, <1>6, <1>7, <1>8, <2>1, <2>2, <2>3
    <3>3. target'[x] = NewByte(patches'[w], x)
      BY <1>4, <2>3, <2>5
    <3> QED
      BY <1>2, <3>1, <3>2, <3>3 DEF Shows
  <2>7. Shows(patches', base, w, x, OldByte(patches'[w], x))
    <3>1. {j \in {k \in good : k < w} : x \in Span(ps[j])} = {}
      BY <2>2, <2>3
    <3>2. OldByte(ps[w], x) = target[x]
      BY <1>5, <2>1, <3>1 DEF Written
    <3>3. {j \in Applied(patches', x) : j < w} = Before(w)
      BY <1>2, <1>6, <1>7, <1>8, <2>1, <2>2, <2>3
    <3>4. Before(w) = Before(Len(ps) + 1)
      BY <1>2, <1>7, <1>8, <2>1
    <3>5. Shows(ps, base, w, x, target[x])
      BY <1>5, <3>4 DEF Shows
    <3> QED
      BY <1>4, <1>9, <2>3, <3>2, <3>3, <3>5
  <2> QED
    BY <1>6, <1>10, <2>2, <2>6, <2>7
<1> QED
  BY <1>11, <1>12

-----------------------------------------------------------------------------
\* A step that leaves the table, the target and the histories alone.
LEMMA SavedSame ==
    ASSUME IInv, TypeOK',
           UNCHANGED <<initialized, hot, target, patches, base, tangled>>
    PROVE  Saved' /\ Replay'
BY DEF IInv, Saved, Replay, Shows, Applied, InBounds, Span, NewByte, OldByte

LEMMA TypeInit == Init => IInv
<1> SUFFICES ASSUME Init PROVE IInv
  OBVIOUS
<1>1. TypeOK
  <2>1. patches \in Seq(Patch) /\ Len(patches) <= MAX_PATCHES /\ next_patch_id \in Nat
    BY LiveReloadAssumption DEF Init
  <2>2. cache \in [Sources -> AllObjects \cup {None}]
    BY DEF Init
  <2>3. \A s \in Sources : source[s] \in Objects[s] /\ cache[s] \in Objects[s] \cup {None}
    BY DEF Init
  <2>4. target \in [Offsets -> Byte] /\ base \in [Offsets -> Byte]
    BY LiveReloadAssumption DEF Init
  <2>5. events \in Seq(Sources)
    BY DEF Init
  <2> QED
    BY <2>1, <2>2, <2>3, <2>4, <2>5 DEF Init, TypeOK
<1>2. Saved
  BY DEF Init, Saved, Applied
<1> QED
  BY <1>1, <1>2 DEF Init, IInv, Replay

\* The types after apply_patch_internal(): no two patches at the same offset.
LEMMA ApplyType ==
    ASSUME TypeOK, NEW ps \in Seq(Patch), NEW I \in SUBSET DOMAIN ps,
           \A i, j \in I : \A x \in Offsets : x \in Span(ps[i]) /\ x \in Span(ps[j]) => i = j,
           apply_patch_internal(ps, I)
    PROVE  /\ target' \in [Offsets -> Byte] /\ tangled' \subseteq Offsets
           /\ patches' \in Seq(Patch) /\ Len(patches') = Len(ps)
           /\ \A i \in DOMAIN ps :
                /\ patches'[i].new = ps[i].new /\ patches'[i].old = ps[i].old
                /\ patches'[i].at = ps[i].at
                /\ i \notin I => patches'[i].status = ps[i].status
                /\ i \in I => patches'[i].status = IF InBounds(ps[i]) THEN "APPLIED" ELSE "FAILED"
<1> DEFINE good == {i \in I : InBounds(ps[i])}
<1>1. /\ target' = [x \in Offsets |-> Written(ps, good, x)]
      /\ patches' = [i \in DOMAIN ps |-> IF i \notin I THEN ps[i]
              ELSE [ps[i] EXCEPT !.status = IF i \in good THEN "APPLIED" ELSE "FAILED"]]
      /\ tangled' \subseteq tangled \cup Offsets
  BY DEF apply_patch_internal
<1>2. patches' \in Seq(Patch) /\ Len(patches') = Len(ps)
  <2>1. ASSUME NEW i \in DOMAIN ps PROVE patches'[i] \in Patch
    <3>1. ps[i] \in Patch
      OBVIOUS
    <3> QED
      BY <1>1, <3>1 DEF Patch, Status
  <2>2. DOMAIN ps = 1 .. Len(ps) /\ Len(ps) \in Nat /\ DOMAIN patches' = DOMAIN ps
    BY <1>1
  <2>3. patches' = [i \in 1 .. Len(ps) |-> patches'[i]]
    BY <1>1, <2>2
  <2> QED
    BY <2>1, <2>2, <2>3
<1>3. ASSUME NEW x \in Offsets PROVE Written(ps, good, x) \in Byte
  <2> DEFINE W == {i \in good : x \in Span(ps[i])}
  <2>1. CASE W = {}
    BY <2>1 DEF Written, TypeOK
  <2>2. CASE W # {}
    <3>1. PICK w : w \in W
      BY <2>2
    <3>2. W = {w} /\ w \in Int /\ w \in DOMAIN ps
      BY <3>1
    <3>3. Max(W) = w
      BY <3>2, MaxIs
    <3>4. x - ps[w].at + 1 \in 1 .. Len(ps[w].new) /\ ps[w].new \in Seq(Byte)
      <4>1. ps[w] \in Patch /\ x \in Int
        BY <3>2, LiveReloadAssumption DEF Offsets
      <4>2. ps[w].at \in Int /\ ps[w].new \in Seq(Byte)
        BY <4>1 DEF Patch
      <4>3. x \in ps[w].at .. ps[w].at + Len(ps[w].new) - 1
        BY <3>1 DEF Span
      <4> QED
        BY <4>1, <4>2, <4>3
    <3> QED
      BY <2>2, <3>3, <3>4 DEF Written, NewByte
  <2> QED
    BY <2>1, <2>2
<1>4. target' \in [Offsets -> Byte]
  BY <1>1, <1>3
<1>5. tangled' \subseteq Offsets
  BY <1>1 DEF TypeOK
<1>6. \A i \in DOMAIN ps :
        /\ patches'[i].new = ps[i].new /\ patches'[i].old = ps[i].old
        /\ patches'[i].at = ps[i].at
        /\ i \notin I => patches'[i].status = ps[i].status
        /\ i \in I => patches'[i].status = IF InBounds(ps[i]) THEN "APPLIED" ELSE "FAILED"
  BY <1>1 DEF Patch
<1> QED
  BY <1>2, <1>4, <1>5, <1>6

\* Patches are appended to the table and applied at once.
LEMMA ApplyStep ==
    ASSUME IInv, initialized,
           NEW ps \in Seq(Patch), Len(patches) <= Len(ps), Len(ps) <= MAX_PATCHES,
           \A i \in 1 .. Len(patches) : ps[i] = patches[i],
           NEW I, I = {i \in DOMAIN ps : Len(patches) < i},
           \A i \in I : /\ ps[i].status = "PENDING" /\ Len(ps[i].old) = Len(ps[i].new)
                        /\ InBounds(ps[i]) => ps[i].old \in Seq(Byte),
           \A i, j \in I : \A x \in Offsets : x \in Span(ps[i]) /\ x \in Span(ps[j]) => i = j,
           apply_patch_internal(ps, I), UNCHANGED <<initialized, hot, base>>
    PROVE  /\ target' \in [Offsets -> Byte] /\ tangled' \subseteq Offsets
           /\ patches' \in Seq(Patch) /\ Len(patches') <= MAX_PATCHES
           /\ Saved' /\ Replay'
<1>1. TypeOK /\ Saved /\ Replay
  BY DEF IInv
<1>2. /\ patches \in Seq(Patch) /\ Len(patches) \in Nat /\ Len(ps) \in Nat
      /\ DOMAIN patches = 1 .. Len(patches) /\ DOMAIN ps = 1 .. Len(ps)
  BY <1>1 DEF TypeOK
<1>3. I \subseteq DOMAIN ps
  OBVIOUS
<1>4. \A x : Applied(ps, x) = Applied(patches, x)
  BY <1>2 DEF Applied
<1>5. ASSUME NEW x \in Offsets \ tangled
      PROVE  /\ Shows(ps, base, Len(ps) + 1, x, target[x])
             /\ \A i \in Applied(ps, x) : Shows(ps, base, i, x, OldByte(ps[i], x))
  <2>1. \A i \in Applied(patches, x) : i \in 1 .. Len(patches) /\ ps[i] = patches[i]
    BY <1>2 DEF Applied
  <2>2. {i \in Applied(ps, x) : i < Len(ps) + 1} = {i \in Applied(patches, x) : i < Len(patches) + 1}
    BY <1>2, <1>4, <2>1
  <2>3. Shows(patches, base, Len(patches) + 1, x, target[x])
    BY <1>1 DEF Replay
  <2>4. Shows(ps, base, Len(ps) + 1, x, target[x])
    BY <2>1, <2>2, <2>3 DEF Shows
  <2>5. ASSUME NEW i \in Applied(ps, x) PROVE Shows(ps, base, i, x, OldByte(ps[i], x))
    <3>1. ps[i] = patches[i] /\ i \in Applied(patches, x)
      BY <1>4, <2>1
    <3>2. Shows(patches, base, i, x, OldByte(patches[i], x))
      BY <1>1, <3>1 DEF Saved
    <3> QED
      BY <1>4, <2>1, <3>1, <3>2 DEF Shows
  <2> QED
    BY <2>4, <2>5
<1>6. \A i \in I : \A j \in DOMAIN ps : ps[j].status = "APPLIED" => j < i
  <2> SUFFICES ASSUME NEW i \in I, NEW j \in DOMAIN ps, ps[j].status = "APPLIED" PROVE j < i
    OBVIOUS
  <2>1. j \notin I
    OBVIOUS
  <2> QED
    BY <1>2, <2>1
<1>7. \A x \in Offsets \ tangled' :
         /\ Shows(patches', base, Len(patches') + 1, x, target'[x])
         /\ \A i \in Applied(patches', x) :
               Shows(patches', base, i, x, OldByte(patches'[i], x))
  BY <1>1, <1>3, <1>5, <1>6, ApplyKeeps
<1>8. /\ target' \in [Offsets -> Byte] /\ tangled' \subseteq Offsets
      /\ patches' \in Seq(Patch) /\ Len(patches') = Len(ps)
      /\ \A i \in DOMAIN ps :
           /\ patches'[i].new = ps[i].new /\ patches'[i].old = ps[i].old
           /\ patches'[i].at = ps[i].at
           /\ i \notin I => patches'[i].status = ps[i].status
           /\ i \in I => patches'[i].status = IF InBounds(ps[i]) THEN "APPLIED" ELSE "FAILED"
  BY <1>1, <1>3, ApplyType
<1>9. Replay'
  BY <1>7 DEF Replay
<1>10. ASSUME NEW i \in DOMAIN patches'
       PROVE  /\ Len(patches'[i].old) = Len(patches'[i].new)
              /\ hot => patches'[i].status # "PENDING"
              /\ patches'[i].status = "APPLIED" =>
                    InBounds(patches'[i]) /\ patches'[i].old \in Seq(Byte)
  <2>1. i \in DOMAIN ps
    BY <1>2, <1>8
  <2>2. CASE i \in I
    BY <1>8, <2>1, <2>2 DEF InBounds
  <2>3. CASE i \notin I
    <3>1. i \in DOMAIN patches /\ ps[i] = patches[i]
      BY <1>2, <2>1, <2>3
    <3> QED
      BY <1>1, <1>8, <2>1, <2>3, <3>1 DEF Saved, InBounds
  <2> QED
    BY <2>2, <2>3
<1>11. Saved'
  BY <1>7, <1>10 DEF Saved
<1> QED
  BY <1>8, <1>9, <1>11

\* A patch that is applied by hand.
LEMMA ApplyByHand ==
    ASSUME IInv, NEW r \in Requests, e9_livereload_apply_patch(r)
    PROVE  IInv'
<1> DEFINE at == Resolve(r.type, r.address)
           p == [id |-> next_patch_id', at |-> at, old |-> Read(at, Len(r.bytes)),
                 new |-> r.bytes, status |-> "PENDING"]
           ps == Append(patches, p)
           I == {Len(patches) + 1}
<1>1. TypeOK /\ Saved /\ Replay
  BY DEF IInv
<1>2. /\ initialized /\ Len(patches) < MAX_PATCHES /\ next_patch_id' = next_patch_id + 1
      /\ missed' \subseteq missed \cup Offsets
      /\ UNCHANGED <<initialized, watching, hot, source, cache, events, base>>
      /\ \/ UNCHANGED <<target, patches, tangled>>
         \/ apply_patch_internal(ps, I)
  BY DEF e9_livereload_apply_patch
<1>3. at \in Int /\ r.bytes \in Seq(Byte) /\ Len(r.bytes) \in Nat
  BY Resolved, LiveReloadAssumption
<1>4. Read(at, Len(r.bytes)) \in Seq(Byte \cup {Garbage}) /\ Len(Read(at, Len(r.bytes))) = Len(r.bytes)
  BY <1>1, <1>3 DEF Read, TypeOK
<1>5. p \in Patch
  BY <1>1, <1>2, <1>3, <1>4 DEF Patch, Status, TypeOK
<1>6. InBounds(p) => p.old \in Seq(Byte)
  <2> SUFFICES ASSUME InBounds(p) PROVE Read(at, Len(r.bytes)) \in Seq(Byte)
    OBVIOUS
  <2>1. 0 <= at /\ at + Len(r.bytes) <= Size /\ Size \in Nat
    BY LiveReloadAssumption DEF InBounds
  <2>2. \A i \in 1 .. Len(r.bytes) : at + i - 1 \in Offsets
    BY <1>3, <2>1 DEF Offsets
  <2>3. \A i \in 1 .. Len(r.bytes) : target[at + i - 1] \in Byte
    BY <1>1, <2>2 DEF TypeOK
  <2> QED
    BY <1>3, <2>2, <2>3 DEF Read
<1>7. CASE UNCHANGED <<target, patches, tangled>>
  <2>1. TypeOK'
    BY <1>1, <1>2, <1>7 DEF TypeOK
  <2> QED
    BY <1>2, <1>7, <2>1, SavedSame DEF IInv
<1>8. CASE apply_patch_internal(ps, I)
  <2>1. /\ patches \in Seq(Patch) /\ ps \in Seq(Patch) /\ Len(patches) \in Nat
        /\ Len(ps) = Len(patches) + 1 /\ ps[Len(patches) + 1] = p
        /\ \A i \in 1 .. Len(patches) : ps[i] = patches[i]
    BY <1>1, <1>5 DEF TypeOK
  <2>2. I = {i \in DOMAIN ps : Len(patches) < i}
    BY <2>1
  <2>3. \A i \in I : /\ ps[i].status = "PENDING" /\ Len(ps[i].old) = Len(ps[i].new)
                     /\ InBounds(ps[i]) => ps[i].old \in Seq(Byte)
    BY <1>4, <1>6, <2>1
  <2>4. Len(patches) <= Len(ps) /\ Len(ps) <= MAX_PATCHES
    BY <1>2, <2>1, LiveReloadAssumption
  <2>5. /\ target' \in [Offsets -> Byte] /\ tangled' \subseteq Offsets
        /\ patches' \in Seq(Patch) /\ Len(patches') <= MAX_PATCHES
        /\ Saved' /\ Replay'
    <3> HIDE DEF ps, I
    <3> QED
      BY <1>2, <1>8, <2>1, <2>2, <2>3, <2>4, ApplyStep DEF I
  <2>6. TypeOK'
    BY <1>1, <1>2, <2>5 DEF TypeOK
  <2> QED
    BY <2>5, <2>6 DEF IInv
<1> QED
  BY <1>2, <1>7, <1>8

\* A patch that is reverted.
LEMMA Revert ==
    ASSUME IInv, NEW id \in Int, e9_livereload_revert_patch(id)
    PROVE  IInv'
<1>1. TypeOK /\ Saved /\ Replay
  BY DEF IInv
<1>2. PICK n \in DOMAIN patches :
         /\ patches[n].status = "APPLIED"
         /\ target' = [x \in Offsets |->
              IF x \in Span(patches[n]) THEN OldByte(patches[n], x) ELSE target[x]]
         /\ patches' = [patches EXCEPT ![n].status = "REVERTED"]
         /\ tangled' = tangled \cup {x \in Span(patches[n]) : \E j \in Applied(patches, x) : j > n}
  BY DEF e9_livereload_revert_patch, Revertible
<1>3. /\ initialized /\ missed' \subseteq missed \cup Offsets
      /\ UNCHANGED <<initialized, watching, hot, next_patch_id, source, cache, events, base>>
  BY DEF e9_livereload_revert_patch
<1>4. /\ patches \in Seq(Patch) /\ Len(patches) \in Nat /\ DOMAIN patches = 1 .. Len(patches)
      /\ patches[n] \in Patch
  BY <1>1 DEF TypeOK
<1>5. /\ patches[n].at \in Int /\ patches[n].new \in Seq(Byte) /\ patches[n].old \in Seq(Byte)
      /\ Len(patches[n].old) = Len(patches[n].new)
      /\ Span(patches[n]) \subseteq Offsets
  <2>1. patches[n].at \in Int /\ patches[n].new \in Seq(Byte) /\ InBounds(patches[n])
    BY <1>1, <1>2, <1>4 DEF Saved, Patch
  <2>2. Span(patches[n]) \subseteq Offsets
    <3>1. /\ 0 <= patches[n].at /\ patches[n].at + Len(patches[n].new) <= Size
          /\ Len(patches[n].new) \in Nat /\ Size \in Nat
      BY <2>1, LiveReloadAssumption DEF InBounds
    <3> QED
      BY <2>1, <3>1 DEF Span, Offsets
  <2> QED
    BY <1>1, <1>2, <2>1, <2>2 DEF Saved
<1>6. target' \in [Offsets -> Byte]
  <2>1. \A x \in Span(patches[n]) : OldByte(patches[n], x) \in Byte
    BY <1>5 DEF Span, OldByte
  <2> QED
    BY <1>1, <1>2, <2>1 DEF TypeOK
<1>7. patches' \in Seq(Patch) /\ Len(patches') = Len(patches) /\ DOMAIN patches' = DOMAIN patches
  <2>1. patches' = [patches EXCEPT ![n] = [patches[n] EXCEPT !.status = "REVERTED"]]
    BY <1>2
  <2>2. [patches[n] EXCEPT !.status = "REVERTED"] \in Patch
    BY <1>4 DEF Patch, Status
  <2> QED
    BY <1>4, <2>1, <2>2
<1>8. \A i \in DOMAIN patches :
        /\ patches'[i].new = patches[i].new /\ patches'[i].old = patches[i].old
        /\ patches'[i].at = patches[i].at
        /\ i # n => patches'[i].status = patches[i].status
        /\ i = n => patches'[i].status = "REVERTED"
  BY <1>2, <1>4 DEF Patch
<1>9. TypeOK'
  BY <1>1, <1>2, <1>3, <1>5, <1>6, <1>7 DEF TypeOK
<1>10. ASSUME NEW x \in Offsets \ tangled'
       PROVE  /\ Shows(patches', base, Len(patches') + 1, x, target'[x])
              /\ \A i \in Applied(patches', x) :
                    Shows(patches', base, i, x, OldByte(patches'[i], x))
  <2>1. \A i \in DOMAIN patches : /\ NewByte(patches'[i], x) = NewByte(patches[i], x)
                                  /\ OldByte(patches'[i], x) = OldByte(patches[i], x)
                                  /\ Span(patches'[i]) = Span(patches[i])
    BY <1>8 DEF NewByte, OldByte, Span
  <2>2. Applied(patches', x) = Applied(patches, x) \ {n} /\ Applied(patches, x) \subseteq DOMAIN patches
    BY <1>7, <1>8, <2>1 DEF Applied
  <2>3. x \in Span(patches[n]) => n \in Applied(patches, x) /\ \A j \in Applied(patches, x) : j <= n
    BY <1>2, <1>4, <2>2 DEF Applied
  <2>4. x \notin Span(patches[n]) => n \notin Applied(patches, x)
    BY DEF Applied
  <2>5. ASSUME NEW m \in Int, NEW v, Shows(patches, base, m, x, v),
               {j \in Applied(patches', x) : j < m} = {j \in Applied(patches, x) : j < m}
        PROVE  Shows(patches', base, m, x, v)
    BY <2>1, <2>2, <2>5 DEF Shows
  <2>6. \A i \in Applied(patches', x) : Shows(patches', base, i, x, OldByte(patches'[i], x))
    <3> SUFFICES ASSUME NEW i \in Applied(patches', x)
                 PROVE  Shows(patches', base, i, x, OldByte(patches'[i], x))
      OBVIOUS
    <3>1. i \in Int /\ i \in Applied(patches, x) /\ x \notin tangled
      <4>1. tangled \subseteq tangled'
        BY <1>2
      <4> QED
        BY <1>4, <2>2, <4>1
    <3>2. {j \in Applied(patches', x) : j < i} = {j \in Applied(patches, x) : j < i}
      BY <1>4, <2>2, <2>3, <2>4, <3>1
    <3>3. Shows(patches, base, i, x, OldByte(patches[i], x))
      BY <1>1, <3>1 DEF Saved
    <3> QED
      BY <2>1, <2>2, <2>5, <3>1, <3>2, <3>3
  <2>7. CASE x \notin Span(patches[n])
    <3>1. target'[x] = target[x] /\ Applied(patches', x) = Applied(patches, x)
      BY <1>2, <2>2, <2>4, <2>7
    <3>2. Shows(patches, base, Len(patches) + 1, x, target[x])
      BY <1>1, <1>2, <1>3 DEF Replay
    <3> QED
      BY <1>4, <1>7, <2>5, <2>6, <3>1, <3>2
  <2>8. CASE x \in Span(patches[n])
    <3>1. target'[x] = OldByte(patches[n], x)
      BY <1>2, <2>8
    <3>2. Shows(patches, base, n, x, OldByte(patches[n], x))
      BY <1>1, <1>2, <2>3, <2>8 DEF Saved
    <3>3. {j \in Applied(patches', x) : j < Len(patches) + 1} = {j \in Applied(patches, x) : j < n}
      BY <1>4, <2>2, <2>3, <2>8
    <3> QED
      BY <1>7, <2>1, <2>2, <2>6, <3>1, <3>2, <3>3 DEF Shows
  <2> QED
    BY <2>7, <2>8
<1>11. Replay'
  BY <1>3, <1>10 DEF Replay
<1>12. Saved'
  <2>1. ASSUME NEW i \in DOMAIN patches'
        PROVE  /\ Len(patches'[i].old) = Len(patches'[i].new)
               /\ hot => patches'[i].status # "PENDING"
               /\ patches'[i].status = "APPLIED" =>
                     InBounds(patches'[i]) /\ patches'[i].old \in Seq(Byte)
    BY <1>1, <1>7, <1>8 DEF Saved, InBounds
  <2> QED
    BY <1>3, <1>10, <2>1 DEF Saved
<1> QED
  BY <1>9, <1>11, <1>12 DEF IInv

\* The patches that a source makes when it is compiled again: their functions are places
\* of their own, and the table has room for them.
LEMMA Generated ==
    ASSUME TypeOK, NEW s \in Sources, cache[s] # None,
           NEW diff \in e9_binaryen_diff_objects(s, cache[s], source[s])
    PROVE  LET more == generate_patches(s, cache[s], source[s], diff)
               ps == patches \o more
           IN  \E m \in Nat :
                 /\ more \in Seq(Patch) /\ Len(more) = m
                 /\ ps \in Seq(Patch) /\ Len(ps) = Len(patches) + m /\ Len(ps) <= MAX_PATCHES
                 /\ DOMAIN ps = 1 .. (Len(patches) + m)
                 /\ \A i \in 1 .. Len(patches) : ps[i] = patches[i]
                 /\ \A i \in Len(patches) + 1 .. Len(patches) + m :
                       /\ ps[i].status = "PENDING" /\ ps[i].old \in Seq(Byte)
                       /\ Len(ps[i].old) = Len(ps[i].new)
                       /\ \E f \in DOMAIN Functions[s] :
                             ps[i].at = Place(s, f) /\ ps[i].new = source[s][f]
                 /\ \A i, j \in Len(patches) + 1 .. Len(patches) + m : \A x \in Offsets :
                       x \in Span(ps[i]) /\ x \in Span(ps[j]) => i = j
<1> DEFINE old == cache[s]
           new == source[s]
           D == {f \in DOMAIN Functions[s] : old[f] # new[f]}
           more == generate_patches(s, old, new, diff)
           ps == patches \o more
<1>1. TypeOK
  OBVIOUS
<1>2. old \in Objects[s] /\ new \in Objects[s]
  BY DEF TypeOK
<1>4. /\ Functions[s] \in Seq(Nat) /\ DOMAIN Functions[s] = 1 .. Len(Functions[s])
      /\ old \in Seq(Seq(Byte)) /\ new \in Seq(Seq(Byte))
      /\ Len(old) = Len(Functions[s]) /\ Len(new) = Len(Functions[s])
      /\ \A f \in DOMAIN Functions[s] : Len(old[f]) = Len(new[f])
      /\ \A f, g \in DOMAIN Functions[s] : f # g =>
           \/ Place(s, f) + Len(new[f]) <= Place(s, g)
           \/ Place(s, g) + Len(new[g]) <= Place(s, f)
  <2>1. \A o, p \in Objects[s] :
         /\ o \in Seq(Seq(Byte)) /\ Len(o) = Len(Functions[s])
         /\ \A f \in 1 .. Len(o) : Len(o[f]) = Len(p[f])
         /\ \A f, g \in 1 .. Len(o) : f # g =>
              \/ Place(s, f) + Len(o[f]) <= Place(s, g)
              \/ Place(s, g) + Len(o[g]) <= Place(s, f)
    BY ObjectsAssumption, Zenon
  <2>2. Functions[s] \in Seq(Nat) /\ DOMAIN Functions[s] = 1 .. Len(Functions[s])
    BY ObjectsAssumption
  <2>3. /\ new \in Seq(Seq(Byte)) /\ Len(new) = Len(Functions[s])
        /\ \A f, g \in 1 .. Len(new) : f # g =>
              \/ Place(s, f) + Len(new[f]) <= Place(s, g)
              \/ Place(s, g) + Len(new[g]) <= Place(s, f)
    BY <1>2, <2>1
  <2>4. /\ old \in Seq(Seq(Byte)) /\ Len(old) = Len(Functions[s])
        /\ \A f \in 1 .. Len(old) : Len(old[f]) = Len(new[f])
    BY <1>2, <2>1
  <2> QED
    BY <2>2, <2>3, <2>4
<1>5. Cardinality(D) \in Nat
  <2>1. IsFiniteSet(DOMAIN Functions[s])
    BY <1>4, FS_Interval
  <2>2. IsFiniteSet(D)
    BY <2>1, FS_Subset
  <2> QED
    BY <2>2, FS_CardinalityType
<1>6. /\ diff \in [1 .. Cardinality(D) -> D] /\ \A i, j \in DOMAIN diff : diff[i] = diff[j] => i = j
  BY DEF e9_binaryen_diff_objects
<1> HIDE DEF D
<1>7. PICK m \in Nat : {k \in DOMAIN diff : Len(patches) + k <= MAX_PATCHES} = 1 .. m
  <2>1. Len(patches) \in Nat /\ Len(patches) <= MAX_PATCHES /\ MAX_PATCHES \in Nat
    BY <1>1, LiveReloadAssumption DEF TypeOK
  <2>2. CASE Cardinality(D) <= MAX_PATCHES - Len(patches)
    <3>1. {k \in DOMAIN diff : Len(patches) + k <= MAX_PATCHES} = 1 .. Cardinality(D)
      BY <1>5, <1>6, <2>1, <2>2
    <3> QED
      BY <1>5, <3>1
  <2>3. CASE Cardinality(D) > MAX_PATCHES - Len(patches)
    <3>1. {k \in DOMAIN diff : Len(patches) + k <= MAX_PATCHES} = 1 .. (MAX_PATCHES - Len(patches))
      BY <1>5, <1>6, <2>1, <2>3
    <3> QED
      BY <2>1, <3>1
  <2>4. \/ Cardinality(D) <= MAX_PATCHES - Len(patches)
        \/ Cardinality(D) > MAX_PATCHES - Len(patches)
    BY <1>5, <2>1
  <2> QED
    BY <2>2, <2>3, <2>4, Zenon
<1>8. /\ more = [i \in 1 .. m |-> [id |-> next_patch_id + i, at |-> Place(s, diff[i]),
                  old |-> old[diff[i]], new |-> new[diff[i]], status |-> "PENDING"]]
      /\ \A i \in 1 .. m : /\ Len(patches) + i <= MAX_PATCHES /\ i \in DOMAIN diff
                           /\ diff[i] \in DOMAIN Functions[s]
  BY <1>6, <1>7 DEF generate_patches, D
<1>9. ASSUME NEW i \in 1 .. m
      PROVE  /\ more[i] \in Patch /\ more[i].status = "PENDING"
             /\ more[i].at = Place(s, diff[i]) /\ more[i].at \in Int
             /\ more[i].old \in Seq(Byte) /\ more[i].new = new[diff[i]]
             /\ Len(more[i].old) = Len(more[i].new)
  <2>1. /\ old[diff[i]] \in Seq(Byte) /\ new[diff[i]] \in Seq(Byte)
        /\ Len(old[diff[i]]) = Len(new[diff[i]])
    <3>1. diff[i] \in 1 .. Len(old) /\ diff[i] \in 1 .. Len(new)
      BY <1>4, <1>8
    <3> HIDE DEF old, new
    <3>2. old[diff[i]] \in Seq(Byte) /\ new[diff[i]] \in Seq(Byte)
      BY <1>4, <3>1, SeqElement
    <3> QED
      BY <1>4, <1>8, <3>2
  <2>2. Place(s, diff[i]) \in Nat
    BY <1>8, Resolved
  <2>3. old[diff[i]] \in Seq(Byte \cup {Garbage})
    BY <2>1
  <2>4. next_patch_id + i \in Nat
    BY <1>1 DEF TypeOK
  <2> QED
    BY <1>8, <2>1, <2>2, <2>3, <2>4 DEF Patch, Status
<1>10. more \in Seq(Patch) /\ Len(more) = m
  BY <1>8, <1>9
<1> HIDE DEF more
<1>11. /\ patches \in Seq(Patch) /\ Len(patches) \in Nat /\ ps \in Seq(Patch)
       /\ Len(ps) = Len(patches) + m /\ DOMAIN ps = 1 .. (Len(patches) + m)
       /\ \A i \in 1 .. Len(patches) : ps[i] = patches[i]
       /\ \A i \in Len(patches) + 1 .. Len(patches) + m : ps[i] = more[i - Len(patches)]
  <2>1. patches \in Seq(Patch) /\ Len(patches) \in Nat
    BY <1>1 DEF TypeOK
  <2> QED
    BY <1>10, <2>1, Concat
<1>12. Len(ps) <= MAX_PATCHES
  <2>1. m = 0 \/ m \in 1 .. m
    OBVIOUS
  <2> QED
    BY <1>1, <1>8, <1>11, <2>1, LiveReloadAssumption DEF TypeOK
<1> HIDE DEF ps
<1>15. ASSUME NEW i \in Len(patches) + 1 .. Len(patches) + m
       PROVE  /\ i - Len(patches) \in 1 .. m /\ ps[i] = more[i - Len(patches)]
              /\ ps[i].status = "PENDING" /\ ps[i].old \in Seq(Byte)
              /\ Len(ps[i].old) = Len(ps[i].new)
              /\ ps[i].at = Place(s, diff[i - Len(patches)])
              /\ ps[i].new = new[diff[i - Len(patches)]]
  <2>1. i - Len(patches) \in 1 .. m
    BY <1>11
  <2>2. ps[i] = more[i - Len(patches)]
    BY <1>11
  <2> QED
    BY <1>9, <2>1, <2>2
<1>16. ASSUME NEW i \in Len(patches) + 1 .. Len(patches) + m,
           NEW j \in Len(patches) + 1 .. Len(patches) + m, NEW x \in Offsets,
           x \in Span(ps[i]), x \in Span(ps[j])
    PROVE  i = j
  <2> DEFINE a == i - Len(patches)
             b == j - Len(patches)
  <2>1. a \in 1 .. m /\ b \in 1 .. m
    BY <1>11
  <2>2. /\ ps[i].at = Place(s, diff[a]) /\ ps[i].new = new[diff[a]]
        /\ ps[j].at = Place(s, diff[b]) /\ ps[j].new = new[diff[b]]
    BY <1>15
  <2> HIDE DEF a, b, new
  <2>3. /\ diff[a] \in DOMAIN Functions[s] /\ diff[b] \in DOMAIN Functions[s]
        /\ Place(s, diff[a]) \in Nat /\ Place(s, diff[b]) \in Nat
        /\ Len(new[diff[a]]) \in Nat /\ Len(new[diff[b]]) \in Nat
        /\ x \in Int /\ Place(s, diff[a]) <= x /\ x < Place(s, diff[a]) + Len(new[diff[a]])
        /\ Place(s, diff[b]) <= x /\ x < Place(s, diff[b]) + Len(new[diff[b]])
    <3>1. diff[a] \in DOMAIN Functions[s] /\ diff[b] \in DOMAIN Functions[s]
      BY <1>8, <2>1
    <3>2. Place(s, diff[a]) \in Nat /\ Place(s, diff[b]) \in Nat
      BY <3>1, Resolved
    <3>3. ps[i] \in Patch /\ ps[j] \in Patch
      BY <1>11
    <3>4. Len(ps[i].new) \in Nat /\ Len(ps[j].new) \in Nat
      BY <3>3 DEF Patch
    <3>5. /\ x \in ps[i].at .. ps[i].at + Len(ps[i].new) - 1
          /\ x \in ps[j].at .. ps[j].at + Len(ps[j].new) - 1
      BY <1>16 DEF Span
    <3>6. x \in Int
      BY LiveReloadAssumption DEF Offsets
    <3>7. /\ Place(s, diff[a]) <= x /\ x < Place(s, diff[a]) + Len(new[diff[a]])
          /\ Len(new[diff[a]]) \in Nat
      BY <2>2, <3>2, <3>4, <3>5, <3>6
    <3>8. /\ Place(s, diff[b]) <= x /\ x < Place(s, diff[b]) + Len(new[diff[b]])
          /\ Len(new[diff[b]]) \in Nat
      BY <2>2, <3>2, <3>4, <3>5, <3>6
    <3> QED
      BY <3>1, <3>2, <3>6, <3>7, <3>8
  <2>4. diff[a] = diff[b]
    <3> SUFFICES ASSUME diff[a] # diff[b] PROVE FALSE
      OBVIOUS
    <3>1. \/ Place(s, diff[a]) + Len(new[diff[a]]) <= Place(s, diff[b])
          \/ Place(s, diff[b]) + Len(new[diff[b]]) <= Place(s, diff[a])
      BY <1>4, <2>3
    <3> QED
      BY <2>3, <3>1
  <2>5. a = b
    BY <1>6, <1>8, <2>1, <2>4
  <2> QED
    BY <1>11, <2>5 DEF a, b
<1> QED
  <2>1. \A i \in Len(patches) + 1 .. Len(patches) + m :
           /\ ps[i].status = "PENDING" /\ ps[i].old \in Seq(Byte)
           /\ Len(ps[i].old) = Len(ps[i].new)
           /\ \E f \in DOMAIN Functions[s] : ps[i].at = Place(s, f) /\ ps[i].new = new[f]
    BY <1>8, <1>15
  <2>2. \A i, j \in Len(patches) + 1 .. Len(patches) + m : \A x \in Offsets :
           x \in Span(ps[i]) /\ x \in Span(ps[j]) => i = j
    BY <1>16
  <2> HIDE DEF more, ps
  <2>3. \E n \in Nat :
          /\ more \in Seq(Patch) /\ Len(more) = n
          /\ ps \in Seq(Patch) /\ Len(ps) = Len(patches) + n /\ Len(ps) <= MAX_PATCHES
          /\ DOMAIN ps = 1 .. (Len(patches) + n)
          /\ \A i \in 1 .. Len(patches) : ps[i] = patches[i]
          /\ \A i \in Len(patches) + 1 .. Len(patches) + n :
                /\ ps[i].status = "PENDING" /\ ps[i].old \in Seq(Byte)
                /\ Len(ps[i].old) = Len(ps[i].new)
                /\ \E f \in DOMAIN Functions[s] : ps[i].at = Place(s, f) /\ ps[i].new = new[f]
          /\ \A i, j \in Len(patches) + 1 .. Len(patches) + n : \A x \in Offsets :
                x \in Span(ps[i]) /\ x \in Span(ps[j]) => i = j
    BY <1>10, <1>11, <1>12, <2>1, <2>2
  <2> QED
    BY <2>3 DEF more, ps

\* The patches of a source that was compiled again.
LEMMA Diff ==
    ASSUME IInv, NEW s \in Sources, initialized, DiffSucceeds(s),
           UNCHANGED <<initialized, watching, hot, source, base>>, events' \in Seq(Sources)
    PROVE  IInv'
<1>1. TypeOK /\ Saved /\ Replay
  BY DEF IInv
<1>2. /\ cache[s] \in Objects[s] /\ source[s] \in Objects[s]
      /\ cache' = [cache EXCEPT ![s] = source[s]]
  BY <1>1 DEF DiffSucceeds, UpdateCache, TypeOK
<1> DEFINE old == cache[s]
           new == source[s]
<1>3. PICK diff \in e9_binaryen_diff_objects(s, old, new) :
         LET more == generate_patches(s, old, new, diff)
             ps == patches \o more
             I == {i \in DOMAIN ps : ps[i].status = "PENDING"}
         IN  /\ next_patch_id' = next_patch_id + Len(more)
             /\ IF hot /\ more # <<>>
                THEN /\ apply_patch_internal(ps, I)
                     /\ missed' = (missed \cup Changed(s, old, new))
                                    \ UNION {Span(ps[i]) : i \in {j \in I : InBounds(ps[j])}}
                ELSE /\ patches' = ps /\ UNCHANGED <<target, tangled>>
                     /\ missed' = missed \cup Changed(s, old, new)
  BY DEF DiffSucceeds
<1> DEFINE more == generate_patches(s, old, new, diff)
           ps == patches \o more
           I == {i \in DOMAIN ps : ps[i].status = "PENDING"}
<1>4. PICK m \in Nat :
        /\ more \in Seq(Patch) /\ Len(more) = m
        /\ ps \in Seq(Patch) /\ Len(ps) = Len(patches) + m /\ Len(ps) <= MAX_PATCHES
        /\ DOMAIN ps = 1 .. (Len(patches) + m)
        /\ \A i \in 1 .. Len(patches) : ps[i] = patches[i]
        /\ \A i \in Len(patches) + 1 .. Len(patches) + m :
              /\ ps[i].status = "PENDING" /\ ps[i].old \in Seq(Byte)
              /\ Len(ps[i].old) = Len(ps[i].new)
        /\ \A i, j \in Len(patches) + 1 .. Len(patches) + m : \A x \in Offsets :
              x \in Span(ps[i]) /\ x \in Span(ps[j]) => i = j
  <2>1. cache[s] # None
    BY DEF DiffSucceeds
  <2> QED
    BY <1>1, <2>1, Generated
<1>5. patches \in Seq(Patch) /\ Len(patches) \in Nat
  BY <1>1 DEF TypeOK
<1> HIDE DEF more, ps
<1>6. /\ cache' \in [Sources -> AllObjects \cup {None}]
       /\ \A t \in Sources : source'[t] \in Objects[t] /\ cache'[t] \in Objects[t] \cup {None}
  BY <1>1, <1>2 DEF TypeOK, AllObjects
<1>7. missed' \subseteq Offsets /\ next_patch_id' \in Nat
  BY <1>1, <1>3, <1>4 DEF TypeOK, Changed, more
<1>8. CASE hot /\ more # <<>>
  <2>1. apply_patch_internal(ps, I)
    BY <1>3, <1>8 DEF more, ps
  <2>2. I = {i \in DOMAIN ps : Len(patches) < i}
    <3>1. \A i \in 1 .. Len(patches) : ps[i].status # "PENDING"
      BY <1>1, <1>4, <1>5, <1>8 DEF Saved
    <3>2. \A i \in Len(patches) + 1 .. Len(patches) + m : ps[i].status = "PENDING"
      BY <1>4
    <3> QED
      BY <1>4, <1>5, <3>1, <3>2
  <2>3. \A i \in I : /\ ps[i].status = "PENDING" /\ Len(ps[i].old) = Len(ps[i].new)
                     /\ InBounds(ps[i]) => ps[i].old \in Seq(Byte)
    <3> SUFFICES ASSUME NEW i \in I
                 PROVE  /\ ps[i].status = "PENDING" /\ Len(ps[i].old) = Len(ps[i].new)
                        /\ ps[i].old \in Seq(Byte)
      OBVIOUS
    <3>1. i \in Len(patches) + 1 .. Len(patches) + m
      BY <1>4, <1>5, <2>2
    <3> QED
      BY <1>4, <3>1
  <2>4. ASSUME NEW i \in I, NEW j \in I, NEW x \in Offsets,
               x \in Span(ps[i]), x \in Span(ps[j])
        PROVE  i = j
    <3>1. i \in Len(patches) + 1 .. Len(patches) + m /\ j \in Len(patches) + 1 .. Len(patches) + m
      BY <1>4, <1>5, <2>2
    <3> QED
      BY <1>4, <2>4, <3>1
  <2>5. /\ target' \in [Offsets -> Byte] /\ tangled' \subseteq Offsets
        /\ patches' \in Seq(Patch) /\ Len(patches') <= MAX_PATCHES
        /\ Saved' /\ Replay'
    <3>1. Len(patches) <= Len(ps)
      BY <1>4, <1>5
    <3> HIDE DEF I
    <3> QED
      BY <1>4, <1>5, <2>1, <2>2, <2>3, <2>4, <3>1, ApplyStep
  <2>6. TypeOK'
    BY <1>1, <1>6, <1>7, <2>5 DEF TypeOK
  <2> QED
    BY <2>5, <2>6 DEF IInv
<1>9. CASE ~(hot /\ more # <<>>)
  <2>1. patches' = ps /\ UNCHANGED <<target, tangled>>
    BY <1>3, <1>9 DEF more, ps
  <2>2. TypeOK'
    BY <1>1, <1>4, <1>5, <1>6, <1>7, <2>1 DEF TypeOK
  <2>3. hot => ps = patches
    <3>1. hot => m = 0
      <4>1. more \in Seq(Patch) /\ Len(more) = m
        BY <1>4
      <4> QED
        BY <1>9, <4>1
    <3> QED
      BY <1>4, <1>5, <3>1
  <2>4. \A x : Applied(ps, x) = Applied(patches, x)
    <3>1. \A i \in DOMAIN ps : i \notin 1 .. Len(patches) => ps[i].status = "PENDING"
      BY <1>4, <1>5
    <3> QED
      <4>1. DOMAIN patches = 1 .. Len(patches) /\ DOMAIN patches \subseteq DOMAIN ps
        BY <1>4, <1>5
      <4>2. \A i \in DOMAIN ps : ps[i].status = "APPLIED" => i \in DOMAIN patches
        BY <3>1, <4>1
      <4>3. \A i \in DOMAIN patches : ps[i] = patches[i]
        BY <1>4, <1>5, <4>1
      <4> QED
        BY <4>1, <4>2, <4>3 DEF Applied
  <2>5. ASSUME NEW x \in Offsets \ tangled
        PROVE  /\ Shows(ps, base, Len(ps) + 1, x, target[x])
               /\ \A i \in Applied(ps, x) : Shows(ps, base, i, x, OldByte(ps[i], x))
    <3>1. \A i \in Applied(patches, x) : i \in 1 .. Len(patches) /\ ps[i] = patches[i]
      BY <1>4, <1>5 DEF Applied
    <3>2. {i \in Applied(ps, x) : i < Len(ps) + 1} = {i \in Applied(patches, x) : i < Len(patches) + 1}
      BY <1>4, <1>5, <2>4, <3>1
    <3>3. Shows(patches, base, Len(patches) + 1, x, target[x])
      BY <1>1 DEF Replay
    <3>4. Shows(ps, base, Len(ps) + 1, x, target[x])
      BY <3>1, <3>2, <3>3 DEF Shows
    <3>5. ASSUME NEW i \in Applied(ps, x) PROVE Shows(ps, base, i, x, OldByte(ps[i], x))
      <4>1. Shows(patches, base, i, x, OldByte(patches[i], x))
        BY <1>1, <2>4 DEF Saved
      <4> QED
        BY <2>4, <3>1, <4>1 DEF Shows
    <3> QED
      BY <3>4, <3>5
  <2>6. Replay'
    BY <2>1, <2>5 DEF Replay
  <2>7. ASSUME NEW i \in DOMAIN ps
        PROVE  /\ Len(ps[i].old) = Len(ps[i].new)
               /\ hot => ps[i].status # "PENDING"
               /\ ps[i].status = "APPLIED" => InBounds(ps[i]) /\ ps[i].old \in Seq(Byte)
    <3>1. CASE i \in 1 .. Len(patches)
      BY <1>1, <1>4, <1>5, <3>1 DEF Saved
    <3>2. CASE i \notin 1 .. Len(patches)
      <4>1. i \in Len(patches) + 1 .. Len(patches) + m /\ ~hot
        BY <1>4, <1>5, <2>3, <3>2
      <4> QED
        BY <1>4, <4>1
    <3> QED
      BY <3>1, <3>2
  <2>8. Saved'
    BY <2>1, <2>5, <2>7 DEF Saved
  <2> QED
    BY <2>2, <2>6, <2>8 DEF IInv
<1> QED
  BY <1>8, <1>9

-----------------------------------------------------------------------------
\* Every step keeps the inductive invariant.
LEMMA Step == IInv /\ [Next]_vars => IInv'
<1> SUFFICES ASSUME IInv, [Next]_vars PROVE IInv'
  OBVIOUS
<1>1. TypeOK
  BY DEF IInv
<1>2. ASSUME NEW enable \in BOOLEAN, e9_livereload_init(enable) PROVE IInv'
  <2>1. TypeOK'
    <3>1. patches' = <<>> /\ next_patch_id' = 0
      BY <1>2 DEF e9_livereload_init
    <3>2. patches' \in Seq(Patch) /\ Len(patches') <= MAX_PATCHES /\ next_patch_id' \in Nat
      BY <3>1, LiveReloadAssumption
    <3>3. events' \in Seq(Sources)
      BY <1>1, <1>2 DEF e9_livereload_init, TypeOK
    <3> QED
      BY <1>1, <1>2, <3>2, <3>3 DEF TypeOK, e9_livereload_init
  <2>2. Saved' /\ Replay'
    BY <1>2 DEF e9_livereload_init, Saved, Replay, Shows, Applied
  <2> QED
    BY <2>1, <2>2 DEF IInv
<1>3. ASSUME e9_livereload_watch PROVE IInv'
  <2>1. TypeOK'
    BY <1>1, <1>3 DEF TypeOK, e9_livereload_watch
  <2> QED
    BY <1>3, <2>1, SavedSame DEF e9_livereload_watch, IInv
<1>4. ASSUME e9_livereload_unwatch PROVE IInv'
  <2>1. TypeOK'
    <3>1. events' \in Seq(Sources)
      BY <1>4 DEF e9_livereload_unwatch
    <3> QED
      BY <1>1, <1>4, <3>1 DEF TypeOK, e9_livereload_unwatch
  <2> QED
    BY <1>4, <2>1, SavedSame DEF e9_livereload_unwatch, IInv
<1>5. ASSUME e9_livereload_shutdown PROVE IInv'
  <2>1. TypeOK'
    <3>1. patches' = <<>> /\ next_patch_id' = 0
      BY <1>5 DEF e9_livereload_shutdown
    <3>2. patches' \in Seq(Patch) /\ Len(patches') <= MAX_PATCHES /\ next_patch_id' \in Nat
      BY <3>1, LiveReloadAssumption
    <3>3. events' \in Seq(Sources)
      BY <1>1, <1>5 DEF e9_livereload_shutdown, TypeOK
    <3> QED
      BY <1>1, <1>5, <3>2, <3>3 DEF TypeOK, e9_livereload_shutdown
  <2>2. Saved' /\ Replay'
    BY <1>5 DEF e9_livereload_shutdown, Saved, Replay, Applied
  <2> QED
    BY <2>1, <2>2 DEF IInv
<1>6. ASSUME initialized, NEW s \in Sources, handle_file_change(s), events' \in Seq(Sources)
      PROVE  IInv'
  <2>1. UNCHANGED <<initialized, watching, hot, source, base>>
    BY <1>6 DEF handle_file_change
  <2>2. ASSUME UpdateCache(s) \/ UNCHANGED cache
        PROVE  /\ cache' \in [Sources -> AllObjects \cup {None}]
               /\ \A t \in Sources : source'[t] \in Objects[t] /\ cache'[t] \in Objects[t] \cup {None}
    BY <1>1, <2>1, <2>2 DEF UpdateCache, TypeOK, AllObjects
  <2>3. ASSUME UNCHANGED <<target, patches, next_patch_id, tangled>>, missed' \subseteq Offsets,
               UpdateCache(s) \/ UNCHANGED cache
        PROVE  IInv'
    <3>1. TypeOK'
      BY <1>1, <1>6, <2>1, <2>2, <2>3 DEF TypeOK
    <3> QED
      BY <2>1, <2>3, <3>1, SavedSame DEF IInv
  <2>4. CASE FirstCompile(s)
    <3>1. missed' \subseteq Offsets
      BY <1>1, <2>4 DEF TypeOK, FirstCompile
    <3> QED
      BY <2>3, <2>4, <3>1 DEF FirstCompile
  <2>5. CASE DiffFails(s)
    <3>1. missed' \subseteq Offsets
      BY <1>1, <2>5 DEF TypeOK, DiffFails, Changed
    <3> QED
      BY <2>3, <2>5, <3>1 DEF DiffFails
  <2>6. CASE DiffSucceeds(s)
    BY <1>6, <2>1, <2>6, Diff
  <2>7. CASE CompileFails(s)
    BY <1>1, <2>3, <2>7 DEF TypeOK, CompileFails
  <2> QED
    BY <1>6, <2>4, <2>5, <2>6, <2>7 DEF handle_file_change
<1>7. ASSUME NEW s \in Sources, NEW o \in Objects[s], Save(s, o) PROVE IInv'
  <2>1. TypeOK'
    BY <1>1, <1>7 DEF TypeOK, Save, AllObjects
  <2> QED
    BY <1>7, <2>1, SavedSame DEF Save, IInv
<1>8. CASE UNCHANGED vars
  <2>1. TypeOK'
    BY <1>1, <1>8 DEF TypeOK, vars
  <2> QED
    BY <1>8, <2>1, SavedSame DEF vars, IInv
<1> QED
  <2>1. CASE e9_livereload_poll
    <3>1. /\ initialized /\ events # <<>> /\ events \in Seq(Sources)
          /\ handle_file_change(Head(events)) /\ events' = Tail(events)
      BY <1>1, <2>1 DEF e9_livereload_poll, TypeOK
    <3>2. Head(events) \in Sources /\ events' \in Seq(Sources)
      BY <3>1
    <3> QED
      BY <1>6, <3>1, <3>2
  <2>2. ASSUME NEW s \in Sources, e9_livereload_reload_file(s) PROVE IInv'
    BY <1>1, <1>6, <2>2 DEF e9_livereload_reload_file, TypeOK
  <2> QED
    BY <1>2, <1>3, <1>4, <1>5, <1>7, <1>8, <2>1, <2>2, ApplyByHand, Revert DEF Next

\* The types of the state of e9livereload.c.
THEOREM TypeCorrect == Spec => []TypeOK
<1>1. IInv => TypeOK
  BY DEF IInv
<1> QED
  BY <1>1, TypeInit, Step, PTL DEF Spec

\* What e9_livereload_revert_patch() restores is exact for patches reverted in the reverse
\* order: for every target, sources and length of the table.
THEOREM ReplayHolds == Spec => []Replay
<1>1. IInv => Replay
  BY DEF IInv
<1> QED
  BY <1>1, TypeInit, Step, PTL DEF Spec

-----------------------------------------------------------------------------
\* The target follows its sources.

LEMMA ObjectFacts ==
    ASSUME NEW s \in Sources, NEW o \in Objects[s], NEW f \in DOMAIN Functions[s]
    PROVE  /\ o # None /\ o[f] \in Seq(Byte) /\ Len(o[f]) \in Nat /\ DOMAIN o[f] = 1 .. Len(o[f])
           /\ \A p \in Objects[s] : DOMAIN p[f] = DOMAIN o[f]
           /\ \A g \in DOMAIN Functions[s] : f # g =>
                \/ Place(s, f) + Len(o[f]) <= Place(s, g)
                \/ Place(s, g) + Len(o[g]) <= Place(s, f)
<1>1. \A p, q \in Objects[s] :
         /\ p # None /\ p \in Seq(Seq(Byte)) /\ Len(p) = Len(Functions[s])
         /\ \A h \in 1 .. Len(p) : Len(p[h]) = Len(q[h])
         /\ \A h, g \in 1 .. Len(p) : h # g =>
              \/ Place(s, h) + Len(p[h]) <= Place(s, g)
              \/ Place(s, g) + Len(p[g]) <= Place(s, h)
  BY ObjectsAssumption, Zenon
<1>2. DOMAIN Functions[s] = 1 .. Len(Functions[s])
  BY ObjectsAssumption
<1>3. ASSUME NEW p \in Objects[s] PROVE p[f] \in Seq(Byte) /\ Len(p[f]) = Len(o[f])
  <2>1. p \in Seq(Seq(Byte)) /\ f \in 1 .. Len(p)
    BY <1>1, <1>2
  <2>2. p[f] \in Seq(Byte)
    BY <2>1, SeqElement
  <2> QED
    BY <1>1, <2>1, <2>2
<1>4. \A p \in Objects[s] : DOMAIN p[f] = 1 .. Len(p[f]) /\ Len(p[f]) \in Nat
  BY <1>3
<1>5. /\ o # None
      /\ \A g \in DOMAIN Functions[s] : f # g =>
                \/ Place(s, f) + Len(o[f]) <= Place(s, g)
                \/ Place(s, g) + Len(o[g]) <= Place(s, f)
  BY <1>1, <1>2
<1> QED
  BY <1>3, <1>4, <1>5

\* A byte of the target that is not missed, at index k of function f of source t.
Follows(t, f, k, img, o, m) ==
    LET x == Place(t, f) + k - 1
    IN  x \in Offsets \ m => img[x] = o[f][k]

\* What is written to the target for one source.
LEMMA HotTracks ==
    ASSUME SourcesApart, IInv, Tracks, NEW s \in Sources, initialized, DiffSucceeds(s),
           UNCHANGED <<hot, source>>,
           ~(UNCHANGED target /\ missed' = missed \cup Changed(s, cache[s], source[s])),
           NEW t \in Sources, cache'[t] # None, NEW f \in DOMAIN Functions[t],
           NEW k \in DOMAIN cache'[t][f]
    PROVE  Follows(t, f, k, target', cache'[t], missed')
<1> DEFINE old == cache[s]
           new == source[s]
           x == Place(t, f) + k - 1
<1>1. TypeOK /\ Saved
  BY DEF IInv
<1>2. /\ cache[s] \in Objects[s] /\ source[s] \in Objects[s] /\ cache[s] # None
      /\ cache' = [cache EXCEPT ![s] = source[s]]
  BY <1>1 DEF DiffSucceeds, UpdateCache, TypeOK
<1>3. PICK diff \in e9_binaryen_diff_objects(s, old, new) :
         LET more == generate_patches(s, old, new, diff)
             ps == patches \o more
             I == {i \in DOMAIN ps : ps[i].status = "PENDING"}
         IN  IF hot /\ more # <<>>
             THEN /\ apply_patch_internal(ps, I)
                  /\ missed' = (missed \cup Changed(s, old, new))
                                 \ UNION {Span(ps[i]) : i \in {j \in I : InBounds(ps[j])}}
             ELSE UNCHANGED target /\ missed' = missed \cup Changed(s, old, new)
  BY DEF DiffSucceeds
<1> DEFINE more == generate_patches(s, old, new, diff)
           ps == patches \o more
           I == {i \in DOMAIN ps : ps[i].status = "PENDING"}
           good == {i \in I : InBounds(ps[i])}
<1>4. PICK m \in Nat :
        /\ more \in Seq(Patch) /\ Len(more) = m
        /\ ps \in Seq(Patch) /\ Len(ps) = Len(patches) + m /\ Len(ps) <= MAX_PATCHES
        /\ DOMAIN ps = 1 .. (Len(patches) + m)
        /\ \A i \in 1 .. Len(patches) : ps[i] = patches[i]
        /\ \A i \in Len(patches) + 1 .. Len(patches) + m :
             /\ ps[i].status = "PENDING" /\ ps[i].old \in Seq(Byte)
             /\ Len(ps[i].old) = Len(ps[i].new)
             /\ \E g \in DOMAIN Functions[s] : ps[i].at = Place(s, g) /\ ps[i].new = new[g]
        /\ \A i, j \in Len(patches) + 1 .. Len(patches) + m : \A y \in Offsets :
              y \in Span(ps[i]) /\ y \in Span(ps[j]) => i = j
  BY <1>1, <1>2, Generated
<1>5. /\ hot /\ target' = [y \in Offsets |-> Written(ps, good, y)]
      /\ missed' = (missed \cup Changed(s, old, new)) \ UNION {Span(ps[i]) : i \in good}
  BY <1>3 DEF apply_patch_internal
<1>6. good \subseteq Len(patches) + 1 .. Len(patches) + m /\ good \subseteq Int
  <2>1. Len(patches) \in Nat /\ DOMAIN patches = 1 .. Len(patches)
    BY <1>1 DEF TypeOK
  <2>2. \A i \in 1 .. Len(patches) : ps[i].status # "PENDING"
    BY <1>1, <1>4, <1>5, <2>1 DEF Saved
  <2> QED
    BY <1>4, <2>1, <2>2
<1> HIDE DEF more, ps, good, old, new
<1>7. /\ Place(t, f) \in Nat /\ x \in Int /\ cache'[t] \in Objects[t]
      /\ k \in 1 .. Len(cache'[t][f]) /\ Len(cache'[t][f]) \in Nat
  <2>1. cache'[t] \in Objects[t]
    BY <1>1, <1>2 DEF TypeOK
  <2>2. DOMAIN cache'[t][f] = 1 .. Len(cache'[t][f]) /\ Len(cache'[t][f]) \in Nat
    BY <2>1, ObjectFacts
  <2>3. Place(t, f) \in Nat
    BY Resolved
  <2> QED
    BY <2>1, <2>2, <2>3
<1> SUFFICES ASSUME x \in Offsets, x \notin missed' PROVE target'[x] = cache'[t][f][k]
  BY DEF Follows
<1> DEFINE W == {i \in good : x \in Span(ps[i])}
<1>8. ASSUME NEW i \in W
      PROVE  /\ t = s /\ ps[i].at = Place(t, f) /\ ps[i].new = cache'[t][f]
             /\ W = {i} /\ i \in Int
  <2>1. i \in Len(patches) + 1 .. Len(patches) + m /\ i \in Int
    BY <1>6
  <2>2. PICK g \in DOMAIN Functions[s] : ps[i].at = Place(s, g) /\ ps[i].new = new[g]
    BY <1>4, <2>1
  <2>3. /\ new \in Objects[s] /\ Place(s, g) \in Nat /\ Len(new[g]) \in Nat
    BY <1>2, ObjectFacts, Resolved DEF new
  <2>4. Place(s, g) <= x /\ x < Place(s, g) + Len(new[g])
    <3>1. x \in ps[i].at .. ps[i].at + Len(ps[i].new) - 1
      BY DEF Span
    <3> QED
      BY <1>7, <2>2, <2>3, <3>1
  <2>5. Place(t, f) <= x /\ x < Place(t, f) + Len(cache'[t][f])
    BY <1>7
  <2>6. t = s
    <3> SUFFICES ASSUME t # s PROVE FALSE
      OBVIOUS
    <3>1. \/ Place(s, g) + Len(new[g]) <= Place(t, f)
          \/ Place(t, f) + Len(cache'[t][f]) <= Place(s, g)
      BY <1>7, <2>3 DEF SourcesApart
    <3> HIDE DEF x
    <3> QED
      BY <1>7, <2>3, <2>4, <2>5, <3>1
  <2>7. cache'[t] = new
    BY <1>1, <1>2, <2>6 DEF new, TypeOK
  <2>8. g = f
    <3> SUFFICES ASSUME g # f PROVE FALSE
      OBVIOUS
    <3>1. \/ Place(s, g) + Len(new[g]) <= Place(s, f)
          \/ Place(s, f) + Len(new[f]) <= Place(s, g)
      BY <2>3, <2>6, ObjectFacts
    <3> HIDE DEF x
    <3> QED
      BY <1>7, <2>3, <2>4, <2>5, <2>6, <2>7, <3>1
  <2>9. W = {i}
    BY <1>4, <1>6, <2>1
  <2> QED
    BY <2>1, <2>2, <2>6, <2>7, <2>8, <2>9
<1>9. CASE W # {}
  <2>1. PICK i : i \in W
    BY <1>9
  <2>2. /\ ps[i].at = Place(t, f) /\ ps[i].new = cache'[t][f] /\ W = {i} /\ i \in Int
    BY <1>8, <2>1
  <2>3. Max(W) = i
    BY <2>2, MaxIs
  <2>4. target'[x] = NewByte(ps[i], x)
    BY <1>5, <1>9, <2>3 DEF Written
  <2>5. x - Place(t, f) + 1 = k
    BY <1>7
  <2> QED
    BY <2>2, <2>4, <2>5 DEF NewByte
<1>10. CASE W = {}
  <2>1. target'[x] = target[x]
    BY <1>5, <1>10 DEF Written
  <2>2. x \notin missed /\ x \notin Changed(s, old, new)
    <3>1. x \notin UNION {Span(ps[i]) : i \in good}
      BY <1>10
    <3> QED
      BY <1>5, <3>1
  <2>3. CASE t # s
    <3>1. cache'[t] = cache[t]
      BY <1>2, <2>3
    <3> QED
      BY <1>7, <2>1, <2>2, <3>1 DEF Tracks
  <2>4. CASE t = s
    <3>1. cache'[t] = new /\ old \in Objects[s] /\ new \in Objects[s] /\ old # None
      BY <1>1, <1>2, <2>4 DEF TypeOK, old, new
    <3>2. k \in DOMAIN old[f] /\ k \in DOMAIN new[f]
      BY <2>4, <3>1, ObjectFacts
    <3>3. target[x] = old[f][k]
      BY <2>2, <2>4, <3>1, <3>2 DEF Tracks, old
    <3>4. old[f][k] = new[f][k]
      BY <2>2, <2>4, <3>2 DEF Changed
    <3> QED
      BY <2>1, <3>1, <3>3, <3>4
  <2> QED
    BY <2>3, <2>4
<1> QED
  BY <1>9, <1>10

\* A step that does not write to the target for a source.
LEMMA QuietTracks ==
    ASSUME TypeOK, Tracks, UNCHANGED cache, missed \subseteq missed',
           \A x \in Offsets : target'[x] = target[x] \/ x \in missed'
    PROVE  Tracks'
BY DEF Tracks

\* The cached object is replaced and what changes is missed.
LEMMA MissedTracks ==
    ASSUME TypeOK, Tracks, NEW s \in Sources, UpdateCache(s), cache[s] # None, UNCHANGED target,
           missed' = missed \cup Changed(s, cache[s], source[s])
    PROVE  Tracks'
<1> SUFFICES ASSUME NEW t \in Sources, cache'[t] # None, NEW f \in DOMAIN Functions[t],
                    NEW k \in DOMAIN cache'[t][f]
             PROVE  Follows(t, f, k, target', cache'[t], missed')
  BY DEF Tracks, Follows
<1>1. cache' = [cache EXCEPT ![s] = source[s]] /\ cache[s] \in Objects[s] /\ source[s] \in Objects[s]
  BY DEF UpdateCache, TypeOK
<1>2. CASE t # s
  <2>1. cache'[t] = cache[t]
    BY <1>1, <1>2
  <2> QED
    BY <2>1 DEF Tracks, Follows
<1>3. CASE t = s
  <2>1. cache'[t] = source[s]
    BY <1>1, <1>3 DEF TypeOK
  <2>2. k \in DOMAIN cache[s][f] /\ k \in DOMAIN source[s][f]
    BY <1>1, <1>3, <2>1, ObjectFacts
  <2> SUFFICES ASSUME Place(s, f) + k - 1 \in Offsets, Place(s, f) + k - 1 \notin missed'
               PROVE  target'[Place(s, f) + k - 1] = source[s][f][k]
    BY <1>3, <2>1 DEF Follows
  <2>3. cache[s][f][k] = source[s][f][k]
    BY <1>3, <2>2 DEF Changed
  <2>4. target[Place(s, f) + k - 1] = cache[s][f][k]
    BY <1>3, <2>2 DEF Tracks
  <2> QED
    BY <2>3, <2>4
<1> QED
  BY <1>2, <1>3

\* The first object of a source: what it does not find in the target is missed.
LEMMA FirstTracks ==
    ASSUME TypeOK, Tracks, NEW s \in Sources, FirstCompile(s)
    PROVE  Tracks'
<1> SUFFICES ASSUME NEW t \in Sources, cache'[t] # None, NEW f \in DOMAIN Functions[t],
                    NEW k \in DOMAIN cache'[t][f],
                    Place(t, f) + k - 1 \in Offsets, Place(t, f) + k - 1 \notin missed'
             PROVE  target'[Place(t, f) + k - 1] = cache'[t][f][k]
  BY DEF Tracks
<1>1. cache' = [cache EXCEPT ![s] = source[s]] /\ UNCHANGED target
  BY DEF FirstCompile, UpdateCache
<1>2. CASE t # s
  <2>1. cache'[t] = cache[t] /\ Place(t, f) + k - 1 \notin missed
    BY <1>1, <1>2 DEF FirstCompile
  <2> QED
    BY <1>1, <2>1 DEF Tracks
<1>3. CASE t = s
  <2>1. cache'[t] = source[s]
    BY <1>1, <1>3 DEF TypeOK
  <2> QED
    BY <1>1, <1>3, <2>1 DEF FirstCompile
<1> QED
  BY <1>2, <1>3

LEMMA TracksStep ==
    ASSUME SourcesApart, IInv, Tracks, [Next]_vars
    PROVE  Tracks'
<1>1. TypeOK
  BY DEF IInv
<1>2. ASSUME initialized, NEW s \in Sources, handle_file_change(s) PROVE Tracks'
  <2>1. UNCHANGED <<hot, source>>
    BY <1>2 DEF handle_file_change
  <2>2. CASE FirstCompile(s)
    BY <1>1, <2>2, FirstTracks
  <2>3. CASE DiffFails(s)
    BY <1>1, <2>3, MissedTracks DEF DiffFails
  <2>4. CASE DiffSucceeds(s)
    <3>1. CASE UNCHANGED target /\ missed' = missed \cup Changed(s, cache[s], source[s])
      BY <1>1, <2>4, <3>1, MissedTracks DEF DiffSucceeds
    <3>2. CASE ~(UNCHANGED target /\ missed' = missed \cup Changed(s, cache[s], source[s]))
      BY <1>2, <2>1, <2>4, <3>2, HotTracks DEF Tracks, Follows
    <3> QED
      BY <3>1, <3>2
  <2>5. CASE CompileFails(s)
    BY <1>1, <2>5, QuietTracks DEF CompileFails
  <2> QED
    BY <1>2, <2>2, <2>3, <2>4, <2>5 DEF handle_file_change
<1>3. ASSUME NEW enable \in BOOLEAN, e9_livereload_init(enable) PROVE Tracks'
  BY <1>1, <1>3, QuietTracks DEF e9_livereload_init
<1>4. ASSUME \/ e9_livereload_watch \/ e9_livereload_unwatch \/ e9_livereload_shutdown
             \/ \E s \in Sources : \E o \in Objects[s] : Save(s, o)
             \/ UNCHANGED vars
      PROVE  Tracks'
  <2>1. UNCHANGED <<target, cache, missed>>
    BY <1>4 DEF e9_livereload_watch, e9_livereload_unwatch, e9_livereload_shutdown, Save, vars
  <2> QED
    BY <1>1, <2>1, QuietTracks
<1>5. ASSUME \/ \E r \in Requests : e9_livereload_apply_patch(r)
             \/ \E id \in 1 .. MaxId : e9_livereload_revert_patch(id)
      PROVE  Tracks'
  <2>1. UNCHANGED cache /\ missed' = missed \cup {x \in Offsets : target'[x] # target[x]}
    BY <1>5 DEF e9_livereload_apply_patch, e9_livereload_revert_patch
  <2> QED
    BY <1>1, <2>1, QuietTracks
<1>6. ASSUME e9_livereload_poll PROVE Tracks'
  <2>1. /\ initialized /\ events # <<>> /\ events \in Seq(Sources)
        /\ handle_file_change(Head(events))
    BY <1>1, <1>6 DEF e9_livereload_poll, TypeOK
  <2>2. Head(events) \in Sources
    BY <2>1
  <2> QED
    BY <1>2, <2>1, <2>2
<1>7. ASSUME NEW s \in Sources, e9_livereload_reload_file(s) PROVE Tracks'
  BY <1>2, <1>7 DEF e9_livereload_reload_file
<1> QED
  BY <1>3, <1>4, <1>5, <1>6, <1>7 DEF Next

\* handle_file_change() keeps the target up to date: whatever was compiled, compared,
\* applied or missed before, a byte whose changes all reached the target is that of the
\* cached object.
THEOREM TargetTracks == SourcesApart /\ Spec => []Tracks
<1> SUFFICES ASSUME SourcesApart PROVE Spec => []Tracks
  OBVIOUS
<1>1. Init => Tracks
  BY DEF Init, Tracks
<1>2. IInv /\ Tracks /\ [Next]_vars => Tracks'
  BY TracksStep
<1> QED
  BY <1>1, <1>2, TypeInit, Step, PTL DEF Spec

=============================================================================
