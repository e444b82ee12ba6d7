--------------------------- MODULE TacticsProofs ----------------------------
(***************************************************************************)
(* Proofs about Tactics: what a tactic that fails has done is undone to    *)
(* the last byte, instructions that are not patched keep their bytes,      *)
(* allocations are neither lost nor shared, queued instructions are only   *)
(* taken by batches, and the look-ahead of the queue is large enough.      *)
(***************************************************************************)
EXTENDS TacticsLemmas

-----------------------------------------------------------------------------
\* Well-formed stores after a patch.

\* What is not patched or free was so before.
LEMMA AppliedIs ==
    ASSUME NEW s, NEW t, NEW J, Applied(s, t, J), NEW a \in Mem,
           NEW S \in SUBSET {"INSTRUCTION", "QUEUED", "UNKNOWN"}, Is(t, a, S)
    PROVE  Is(s, a, S)
BY DEF Applied, Is

LEMMA AppliedPatched ==
    ASSUME NEW s, NEW t, NEW J, Applied(s, t, J), NEW a \in Mem, s.state[a] = "PATCHED"
    PROVE  t.state[a] = "PATCHED"
BY DEF Applied

LEMMA AppliedWhole ==
    ASSUME NEW s, NEW t, NEW J \in Instrs, Applied(s, t, J), Whole(s),
           t.patched = s.patched \cup {J}
    PROVE  Whole(t)
<1> SUFFICES ASSUME NEW I \in Instrs \ t.patched, NEW a \in Bytes(I)
             PROVE  t.byte[a] = ORIG[a] /\ t.state[a] \in {"UNKNOWN", "INSTRUCTION", "QUEUED"}
  BY DEF Whole
<1>1. s.byte[a] = ORIG[a] /\ s.state[a] \in {"UNKNOWN", "INSTRUCTION", "QUEUED"}
  BY DEF Whole
<1>2. a \in Mem /\ a \notin Bytes(J)
  BY MemFacts, Disjoint
<1>3. ~Is(s, a, {"FREE"})
  BY <1>1 DEF Is
<1> QED
  BY <1>1, <1>2, <1>3 DEF Applied

\* The patched instruction itself has to be closed.
LEMMA AppliedClosed ==
    ASSUME NEW s, NEW t, NEW J \in Instrs, Applied(s, t, J), Closed(s),
           t.state[Addr(J)] \in {"PATCHED", "FREE"} =>
              \A a \in Bytes(J) : ~Is(t, a, {"INSTRUCTION", "QUEUED"})
    PROVE  Closed(t)
<1> SUFFICES ASSUME NEW I \in Instrs, t.state[Addr(I)] \in {"PATCHED", "FREE"}, NEW a \in Bytes(I)
             PROVE  ~Is(t, a, {"INSTRUCTION", "QUEUED"})
  BY DEF Closed
<1>1. CASE I = J
  BY <1>1
<1>2. CASE I # J
  <2>1. /\ a \in Mem /\ a \notin Bytes(J) /\ Addr(I) \in Mem /\ Addr(I) \notin Bytes(J)
    BY <1>2, MemFacts, Disjoint
  <2>2. s.state[Addr(I)] \in {"PATCHED", "FREE"}
    <3>1. CASE Is(s, Addr(I), {"FREE"})
      BY <3>1 DEF Is
    <3>2. CASE ~Is(s, Addr(I), {"FREE"})
      BY <2>1, <3>2 DEF Applied
    <3> QED
      BY <3>1, <3>2
  <2>3. ~Is(s, a, {"INSTRUCTION", "QUEUED"})
    BY <2>2 DEF Closed
  <2> QED
    BY <2>1, <2>3, AppliedIs
<1> QED
  BY <1>1, <1>2

\* A queued instruction other than J stays queued.
LEMMA AppliedQueued ==
    ASSUME NEW s, NEW t, NEW J \in Instrs, Applied(s, t, J), NEW I \in Instrs, I # J,
           \A a \in Bytes(I) : Is(s, a, {"QUEUED"})
    PROVE  \A a \in Bytes(I) : Is(t, a, {"QUEUED"})
<1> SUFFICES ASSUME NEW a \in Bytes(I) PROVE Is(t, a, {"QUEUED"})
  OBVIOUS
<1>1. a \in Mem /\ a \notin Bytes(J) /\ Is(s, a, {"QUEUED"})
  BY MemFacts, Disjoint
<1>2. ~Is(s, a, {"FREE"})
  BY <1>1 DEF Is
<1> QED
  BY <1>1, <1>2 DEF Applied, Is

-----------------------------------------------------------------------------
\* The invariant in the next state.

\* Begun and Queued for given trampolines, queue and batches.
Begins(s, es) == \A I \in Instrs : I \in s.evicted \/ es[I] # NIL => s.state[Addr(I)] = "PATCHED"

Waits(s, q, B) ==
    \A k \in DOMAIN q : q[k] \in B \/ \A a \in Bytes(q[k]) : Is(s, a, {"QUEUED"})

LEMMA GoodNow ==
    ASSUME NEW s, NEW B
    PROVE  Good(s, B) <=> Whole(s) /\ Begins(s, Es) /\ Closed(s) /\ Waits(s, Q, batched \cup B)
BY DEF Good, Begun, Begins, Queued, Waits

LEMMA GoodNext ==
    ASSUME ORIG' = ORIG, Whole(m'), Closed(m'), Begins(m', Es'),
           Waits(m', Q', batched' \cup Batched')
    PROVE  Good(m, Batched)'
BY DEF Good, Whole, Closed, Begun, Begins, Queued, Waits, Instrs, Bytes, Addr, Size, Is, NIL

LEMMA GoodBefore ==
    ASSUME ORIG' = ORIG, Whole(before'), Closed(before'), Begins(before', Es'),
           Waits(before', Q', batched')
    PROVE  Good(before, {})'
BY DEF Good, Whole, Closed, Begun, Begins, Queued, Waits, Instrs, Bytes, Addr, Size, Is, NIL

\* Nothing of what is well formed changes.
LEMMA GoodKept ==
    ASSUME ORIG' = ORIG, before' = before, Es' = Es, Q' = Q, batched' = batched,
           Good(before, {})
    PROVE  Good(before, {})'
<1>1. Whole(before) /\ Begins(before, Es) /\ Closed(before) /\ Waits(before, Q, batched \cup {})
  BY GoodNow
<1>2. batched \cup {} = batched
  OBVIOUS
<1> QED
  BY <1>1, <1>2, GoodBefore

LEMMA RestorableNext ==
    ASSUME chain' = <<>>, m' = before'
    PROVE  Restorable'
<1>1. DOMAIN chain' = {}
  OBVIOUS
<1>2. BytesKept'
  BY <1>1 DEF BytesKept, Cell
<1>3. MarksKept'
  BY <1>1 DEF MarksKept
<1>4. EvictedKept'
  BY <1>1 DEF EvictedKept, InChain
<1> QED
  BY <1>2, <1>3, <1>4 DEF Restorable, OptimizeKept

LEMMA ChainedNext ==
    ASSUME chain' = <<>>, pc'.at # "won",
           pc'.at \in {"B1", "B2", "T1"} => pc'.task # "evict3"
    PROVE  Chained'
<1>1. DOMAIN chain' = {}
  OBVIOUS
<1> QED
  BY <1>1 DEF Chained

\* No patch reaches an instruction that can still be asked for.
LEMMA LookAheadNext ==
    ASSUME TypeOK, Control, Messages, LookAhead, pc.at # "idle", NEW J \in Instrs, Near(J),
           \A a \in Mem \ Saved(J) : Same(m, m', a),
           UNCHANGED <<known, cursor, asked, emitted>>
    PROVE  LookAhead'
<1> SUFFICES ASSUME NEW I \in Instrs, ~emitted, I \notin asked, option_batch \/ Addr(I) < cursor,
                    NEW a \in Bytes(I)
             PROVE  Is(m', a, IF I \in Known THEN {"INSTRUCTION"} ELSE {"UNKNOWN"})
  BY DEF LookAhead, Known, Instrs, Bytes, Addr, Size
<1>1. Is(m, a, IF I \in Known THEN {"INSTRUCTION"} ELSE {"UNKNOWN"})
  BY DEF LookAhead
<1>2. ~option_batch /\ Addr(I) < cursor /\ cursor < Addr(J)
  BY DEF Control, Near
<1>3. Addr(I) + Size(I) <= cursor
  BY <1>2 DEF Messages
<1>4. a \notin Saved(J) /\ a \in Mem
  <2>1. /\ a \in Mem /\ a \in Nat /\ a < Addr(I) + Size(I) /\ Addr(I) \in Nat /\ Size(I) \in Nat
        /\ Addr(J) \in Nat /\ cursor \in Nat /\ PATCH_MAX \in Nat
    <3>1. Addr(I) \in Nat /\ Size(I) \in Nat /\ Addr(J) \in Nat /\ PATCH_MAX \in Nat
      BY InstrFacts, Constants
    <3>2. a \in Mem /\ a \in Nat /\ cursor \in Nat
      BY MemFacts DEF TypeOK
    <3>3. a < Addr(I) + Size(I)
      BY <3>1, <3>2 DEF Bytes
    <3> QED
      BY <3>1, <3>2, <3>3
  <2> QED
    BY <1>2, <1>3, <2>1 DEF Saved
<1>5. Same(m, m', a)
  BY <1>4
<1> QED
  BY <1>1, <1>5 DEF Same, Is

-----------------------------------------------------------------------------
\* Steps that put a patch on the chain.

\* A step that patches J with allocation A, if any.
Takes(J, A) ==
    /\ Within /\ Pushed(J, A)
    /\ pc.at \in {"free", "B1", "B2", "T1", "T3"} /\ Near(J)
    /\ m'.used = m.used \cup ({A} \ {NIL}) /\ A \notin m.used
    /\ \A I \in Instrs \ {J} : I \in m'.evicted <=> I \in m.evicted
    /\ J \in m'.evicted => J \in m.evicted \/ m'.state[Addr(J)] = "PATCHED"
    /\ J \in before.evicted => pc'.at = "won" /\ pc'.task = "evict3"
    /\ pc'.task = "evict3" \/ (m'.no_optimize = m.no_optimize /\ pc.task # "evict3")
    /\ m'.state[Addr(J)] \in {"PATCHED", "FREE"} =>
          \A a \in Bytes(J) : ~Is(m', a, {"INSTRUCTION", "QUEUED"})
    /\ pc'.task = pc.task \/ chain = <<>>
    /\ pc'.task = "batch" \/ \E a \in Bytes(J) : ~Is(m, a, {"QUEUED"})

LEMMA ChainFacts ==
    ASSUME TypeOK, NEW k \in DOMAIN chain
    PROVE  chain[k].I \in Instrs /\ chain[k].A \in Space \cup {NIL} /\ chain # <<>>
<1>1. chain \in Seq(Patch)
  BY DEF TypeOK
<1>2. chain[k] \in Patch /\ chain # <<>>
  BY <1>1
<1> QED
  BY <1>2 DEF Patch

LEMMA TakesChain ==
    ASSUME TypeOK, NEW J, NEW A, Takes(J, A), NEW I
    PROVE  InChain(I)' <=> I = J \/ InChain(I)
<1>1. Pushed(J, A)
  BY DEF Takes
<1>2. /\ DOMAIN chain = 1..Len(chain) /\ Len(chain) \in Nat /\ DOMAIN chain' = 1..(Len(chain) + 1)
      /\ chain'[1].I = J /\ \A k \in 1..Len(chain) : chain'[k + 1] = chain[k]
  BY <1>1, PushedChain
<1>3. ASSUME NEW k \in DOMAIN chain, chain[k].I = I PROVE InChain(I)'
  <2>1. k + 1 \in DOMAIN chain' /\ chain'[k + 1].I = I
    BY <1>2, <1>3
  <2> QED
    BY <2>1 DEF InChain
<1>4. ASSUME NEW k \in DOMAIN chain', chain'[k].I = I PROVE I = J \/ InChain(I)
  BY <1>1, <1>2, <1>4, PushedElements DEF InChain
<1>5. I = J => InChain(I)'
  <2>1. 1 \in DOMAIN chain'
    BY <1>2
  <2> QED
    BY <1>2, <2>1 DEF InChain
<1> QED
  BY <1>3, <1>4, <1>5 DEF InChain

LEMMA TakesRestorable ==
    ASSUME TypeOK, Restorable, NEW J, NEW A, Takes(J, A)
    PROVE  Restorable'
<1>1. Pushed(J, A) /\ J \in Instrs /\ before' = before /\ chain' # <<>>
  <2>1. Pushed(J, A)
    BY DEF Takes
  <2> QED
    BY <2>1, PushedChain DEF Pushed
<1>2. BytesKept' /\ MarksKept'
  BY <1>1, PushedBytes, PushedMarks DEF Restorable
<1>3. EvictedKept'
  <2>1. ASSUME NEW I \in Instrs, ~InChain(I)' PROVE I \in m'.evicted <=> I \in before'.evicted
    <3>1. I # J /\ ~InChain(I)
      BY <2>1, TakesChain
    <3> QED
      BY <1>1, <3>1 DEF Takes, Restorable, EvictedKept
  <2>2. ASSUME ~(pc'.at = "won" /\ pc'.task = "evict3"), NEW I \in before'.evicted
        PROVE  ~InChain(I)'
    <3>1. I \in before.evicted /\ I # J
      BY <1>1, <2>2 DEF Takes
    <3>2. ~InChain(I)
      BY <3>1 DEF Takes, Restorable, EvictedKept
    <3> QED
      BY <3>1, <3>2, TakesChain
  <2> QED
    BY <2>1, <2>2 DEF EvictedKept, Instrs
<1>4. OptimizeKept'
  BY <1>1 DEF OptimizeKept, Restorable, Takes
<1> QED
  BY <1>2, <1>3, <1>4 DEF Restorable

LEMMA TakesGood ==
    ASSUME TypeOK, Good(m, Batched), NEW J, NEW A, Takes(J, A)
    PROVE  Good(m, Batched)'
<1>1. /\ Pushed(J, A) /\ J \in Instrs /\ Applied(m, m', J) /\ m'.patched = m.patched \cup {J}
      /\ ORIG' = ORIG /\ Es' = Es /\ Q' = Q /\ batched' = batched
  BY DEF Takes, Pushed, Within
<1>2. Whole(m) /\ Begins(m, Es) /\ Closed(m) /\ Waits(m, Q, batched \cup Batched)
  BY GoodNow
<1>3. Whole(m')
  BY <1>1, <1>2, AppliedWhole
<1>4. Closed(m')
  BY <1>1, <1>2, AppliedClosed DEF Takes
<1>5. Begins(m', Es')
  <2> SUFFICES ASSUME NEW I \in Instrs, I \in m'.evicted \/ Es[I] # NIL
               PROVE  m'.state[Addr(I)] = "PATCHED"
    BY <1>1 DEF Begins
  <2>1. CASE I \in m.evicted \/ Es[I] # NIL
    <3>1. m.state[Addr(I)] = "PATCHED" /\ Addr(I) \in Mem
      BY <1>2, <2>1, MemFacts DEF Begins
    <3> QED
      BY <1>1, <3>1, AppliedPatched
  <2>2. CASE I \notin m.evicted /\ Es[I] = NIL
    BY <2>2 DEF Takes
  <2> QED
    BY <2>1, <2>2
<1>6. Waits(m', Q', batched' \cup Batched')
  <2> SUFFICES ASSUME NEW k \in DOMAIN Q
               PROVE  Q[k] \in batched \cup Batched' \/ \A a \in Bytes(Q[k]) : Is(m', a, {"QUEUED"})
    BY <1>1 DEF Waits
  <2>0. Q[k] \in Instrs
    BY DEF TypeOK
  <2>1. Batched \subseteq Batched'
    <3> SUFFICES ASSUME NEW I \in Batched PROVE I \in Batched'
      OBVIOUS
    <3>1. pc.task = "batch" /\ I \in Instrs /\ InChain(I)
      BY DEF Batched
    <3>2. chain # <<>>
      BY <3>1 DEF InChain
    <3>3. pc'.task = "batch" /\ InChain(I)'
      BY <3>1, <3>2, TakesChain DEF Takes
    <3> QED
      BY <3>1, <3>3 DEF Batched, Instrs
  <2>2. CASE Q[k] \in batched \cup Batched
    BY <2>1, <2>2
  <2>3. CASE /\ Q[k] \notin batched \cup Batched
             /\ \A a \in Bytes(Q[k]) : Is(m, a, {"QUEUED"})
    <3>1. CASE Q[k] = J
      <4>1. pc'.task = "batch"
        BY <2>3, <3>1 DEF Takes
      <4>2. InChain(J)'
        BY TakesChain
      <4> QED
        BY <2>0, <3>1, <4>1, <4>2 DEF Batched, Instrs
    <3>2. CASE Q[k] # J
      <4> DEFINE I == Q[k]
      <4>1. I \in Instrs /\ I # J /\ \A a \in Bytes(I) : Is(m, a, {"QUEUED"})
        BY <2>0, <2>3, <3>2
      <4> HIDE DEF I
      <4>2. \A a \in Bytes(I) : Is(m', a, {"QUEUED"})
        BY <1>1, <4>1, AppliedQueued
      <4> QED
        BY <4>2 DEF I
    <3> QED
      BY <3>1, <3>2
  <2> QED
    BY <1>2, <2>2, <2>3 DEF Waits
<1> QED
  BY <1>1, <1>3, <1>4, <1>5, <1>6, GoodNext

LEMMA TakesAllocated ==
    ASSUME TypeOK, Allocated, NEW J, NEW A, Takes(J, A)
    PROVE  Allocated'
<1>1. /\ Pushed(J, A) /\ before' = before /\ Es' = Es /\ A \in Space \cup {NIL}
      /\ m'.used = m.used \cup ({A} \ {NIL}) /\ A \notin m.used
  BY DEF Takes, Pushed, Within
<1>2. /\ Len(chain) \in Nat /\ DOMAIN chain = 1..Len(chain) /\ DOMAIN chain' = 1..(Len(chain) + 1)
      /\ chain'[1].A = A /\ \A k \in 1..Len(chain) : chain'[k + 1] = chain[k]
  BY <1>1, PushedChain
<1>3. \A k \in DOMAIN chain' : k = 1 \/ (k - 1 \in DOMAIN chain /\ chain'[k] = chain[k - 1] /\ k > 1)
  BY <1>1, PushedElements
<1>4. {chain'[k].A : k \in DOMAIN chain'} = {chain[k].A : k \in DOMAIN chain} \cup {A}
  <2>1. ASSUME NEW k \in DOMAIN chain' PROVE chain'[k].A \in {chain[n].A : n \in DOMAIN chain} \cup {A}
    BY <1>2, <1>3
  <2>2. ASSUME NEW k \in DOMAIN chain PROVE chain[k].A \in {chain'[n].A : n \in DOMAIN chain'}
    <3>1. k + 1 \in DOMAIN chain' /\ chain'[k + 1].A = chain[k].A
      BY <1>2
    <3> QED
      BY <3>1
  <2>3. A \in {chain'[n].A : n \in DOMAIN chain'}
    <3>1. 1 \in DOMAIN chain'
      BY <1>2
    <3> QED
      BY <1>2, <3>1
  <2> QED
    BY <2>1, <2>2, <2>3
<1>5. m'.used = before'.used \cup ({chain'[k].A : k \in DOMAIN chain'} \ {NIL})
  BY <1>1, <1>4 DEF Allocated
<1>6. ASSUME NEW k \in DOMAIN chain', chain'[k].A # NIL
      PROVE  /\ chain'[k].A \notin before'.used
             /\ \A l \in DOMAIN chain' : chain'[l].A = chain'[k].A => l = k
  <2>1. \A n \in DOMAIN chain : chain[n].A # NIL => chain[n].A \in m.used
    BY DEF Allocated
  <2>2. before.used \subseteq m.used
    BY DEF Allocated
  <2>3. CASE k = 1
    <3>1. ASSUME NEW l \in DOMAIN chain', chain'[l].A = A PROVE l = 1
      BY <1>1, <1>2, <1>3, <1>6, <2>1, <2>3, <3>1
    <3> QED
      BY <1>1, <1>2, <2>2, <2>3, <3>1
  <2>4. CASE k # 1
    <3>1. k - 1 \in DOMAIN chain /\ chain'[k] = chain[k - 1]
      BY <1>3, <2>4
    <3>2. chain[k - 1].A \notin before.used /\ chain[k - 1].A \in m.used
      BY <1>6, <2>1, <3>1 DEF Allocated
    <3>3. ASSUME NEW l \in DOMAIN chain', chain'[l].A = chain'[k].A PROVE l = k
      <4>1. l # 1
        BY <1>1, <1>2, <3>1, <3>2, <3>3
      <4>2. l - 1 \in DOMAIN chain /\ chain'[l] = chain[l - 1]
        BY <1>3, <4>1
      <4>3. l - 1 = k - 1
        BY <1>6, <3>1, <3>3, <4>2 DEF Allocated
      <4> QED
        BY <1>2, <4>3
    <3> QED
      BY <1>1, <3>1, <3>2, <3>3
  <2> QED
    BY <2>3, <2>4
<1> QED
  BY <1>1, <1>5, <1>6 DEF Allocated, Instrs, NIL

LEMMA SameMessages ==
    ASSUME Messages, UNCHANGED <<Q, asked, cursor>>
    PROVE  Messages'
BY DEF Messages, Instrs, Addr, Size

\* All but the parts of the invariant that say where patch() is.
LEMMA TakesKept ==
    ASSUME IInv, NEW J, NEW A, Takes(J, A)
    PROVE  /\ Restorable' /\ Allocated' /\ Good(before, {})' /\ Good(m, Batched)'
           /\ Messages' /\ LookAhead'
           /\ m' \in Store /\ chain' \in Seq(Patch)
<1>1. /\ TypeOK /\ Control /\ Restorable /\ Allocated /\ Messages /\ LookAhead
      /\ Good(before, {}) /\ (pc.at # "lost" => Good(m, Batched))
  BY DEF IInv, Stores
<1>2. /\ Within /\ Pushed(J, A) /\ pc.at # "lost" /\ pc.at # "idle" /\ Near(J) /\ J \in Instrs
      /\ \A a \in Mem \ Saved(J) : Same(m, m', a)
  BY DEF Takes, Pushed, Applied
<1>3. Restorable' /\ Allocated' /\ Good(m, Batched)'
  BY <1>1, <1>2, TakesRestorable, TakesAllocated, TakesGood
<1>4. Good(before, {})'
  BY <1>1, <1>2, GoodKept DEF Within
<1>5. Messages'
  BY <1>1, <1>2, SameMessages DEF Within
<1>6. LookAhead'
  <2>1. UNCHANGED <<known, cursor, asked, emitted>>
    BY <1>2 DEF Within
  <2> QED
    BY <1>1, <1>2, <2>1, LookAheadNext
<1>7. m' \in Store /\ chain' \in Seq(Patch)
  BY <1>1, <1>2, PushedChain DEF Pushed
<1> QED
  BY <1>3, <1>4, <1>5, <1>6, <1>7

-----------------------------------------------------------------------------
\* Where patch() is.

PcType == [at : Places, task : Tasks \cup {"none"}, I : Nat, J : Nat, i : Nat,
           to : Space \cup {NIL}]

LEMMA Labels ==
    /\ {"idle", "T0", "free", "T2", "T3", "B0", "B1", "B2", "T1", "won", "lost"} \subseteq Places
    /\ {"batch", "self", "evict2", "self2", "evict3"} \subseteq Tasks
    /\ NIL \in Space \cup {NIL} /\ NIL \in Nat /\ Len(Code) \in Nat
BY Constants DEF Places, Trying, Tasks, NIL

LEMMA TypeNext ==
    ASSUME TypeOK, Within, m' \in Store, chain' \in Seq(Patch),
           pc' \in PcType
    PROVE  TypeOK'
<1>1. UNCHANGED <<ORIG, known, before, Q, cursor, asked, emitted, Es, Traps, batched, failed>>
  BY DEF Within
<1>2. Known' = Known
  BY <1>1 DEF Known
<1> QED
  BY <1>1, <1>2 DEF TypeOK, Store, Mem, End, Addr, Size, Digits, States, Instrs, Patch, Cells,
     Places, Trying, Tasks, NIL, PcType

LEMMA ControlNext ==
    ASSUME Control, Within, pc.at # "idle", pc'.at # "idle", pc'.at # "T0", pc'.I = pc.I,
           pc'.at \in {"T2", "T3", "B0"} => chain' = <<>>,
           pc'.at = "free" =>
              /\ pc'.task = "batch" /\ pc'.i \in Known /\ pc'.J \in pc'.i..Len(Code) /\ Near(pc'.i)
              /\ \A K \in pc'.i..pc'.J : K \notin before.evicted,
           pc'.at \in Trying => pc'.task \in Tasks /\ pc'.J \in Known /\ Near(pc'.J),
           pc'.at \in Trying /\ pc'.task \in {"self", "self2"} => pc'.J = pc.I,
           pc'.at \in Trying /\ pc'.task = "evict2" => pc'.J = pc.I + 1,
           pc'.at \in Trying /\ pc'.task = "evict3" => pc'.J # pc.I /\ pc'.to # NIL
    PROVE  Control'
<1>1. UNCHANGED <<ORIG, known, before, Q, cursor, asked, emitted, Es, Traps, batched, failed>>
  BY DEF Within
<1>2. Known' = Known
  BY <1>1 DEF Known
<1>3. /\ pc'.I \in Known'
      /\ ~emitted' => ~option_batch /\ Addr(pc'.I) > cursor' + Window
      /\ Is(before', Addr(pc'.I), {"INSTRUCTION"})
      /\ \A k \in DOMAIN Q' : Q'[k] # pc'.I
  BY <1>1, <1>2 DEF Control
<1>4. pc'.at = "free" =>
          /\ pc'.task = "batch" /\ pc'.i \in Known' /\ pc'.J \in pc'.i..Len(Code) /\ Near(pc.i)'
          /\ \A K \in pc'.i..pc'.J : K \notin before'.evicted
  BY <1>1, <1>2 DEF Near, Addr
<1>5. pc'.at \in Trying => pc'.task \in Tasks /\ pc'.J \in Known' /\ Near(pc.J)'
  BY <1>1, <1>2 DEF Near, Addr
<1> QED
  BY <1>3, <1>4, <1>5 DEF Control, Is, Addr, Window, Max2, SHORT_JMP_MAX, Trying, Tasks, NIL

-----------------------------------------------------------------------------
\* Basic tactics.

LEMMA JumpStore ==
    ASSUME NEW s \in Store, NEW J \in Instrs, NEW p \in Nat, p < Size(J), NEW e \in Int,
           NEW u \in Nat, u <= p + JMP_SIZE,
           \A a \in Mem : Addr(J) + p <= a /\ a <= Addr(J) + p + JMP_SIZE => ~Is(s, a, {"QUEUED"}),
           NEW t, t = patchUnused(patchJump(patchJumpPrefix(s, J, p), J, p, e), J, u)
    PROVE  /\ t \in Store /\ SameFlags(s, t) /\ Applied(s, t, J)
           /\ t.state[Addr(J)] = "PATCHED"
           /\ \A a \in Bytes(J) : ~Is(t, a, {"INSTRUCTION", "QUEUED"})
<1> DEFINE s1 == patchJumpPrefix(s, J, p)
           s2 == patchJump(s1, J, p, e)
<1>0. /\ Addr(J) \in Nat /\ Size(J) \in Nat /\ REL \in Nat /\ Bytes(J) \subseteq Mem
      /\ Addr(J) \in Bytes(J) /\ Mem \subseteq Nat /\ JMP_SIZE = REL + 1
  BY InstrFacts, Constants, MemFacts DEF JMP_SIZE
<1>1. t = patchUnused(s2, J, u)
  OBVIOUS
<1>2. /\ s1 \in Store /\ SameFlags(s, s1) /\ Applied(s, s1, J)
      /\ \A a \in Mem : IF Addr(J) <= a /\ a < Addr(J) + p
                        THEN s1.state[a] = "PATCHED" /\ a \notin s1.locked
                        ELSE Same(s, s1, a)
  BY PrefixFacts
<1>3. ASSUME NEW a \in Mem, Addr(J) + p <= a, a <= Addr(J) + p + JMP_SIZE
      PROVE  ~Is(s1, a, {"QUEUED"})
  <2>1. Same(s, s1, a)
    BY <1>0, <1>2, <1>3
  <2> QED
    BY <1>3, <2>1 DEF Same, Is
<1> HIDE DEF s1
<1>4. /\ s2 \in Store /\ SameFlags(s1, s2) /\ Applied(s1, s2, J)
      /\ s2.state[Addr(J) + p] = "PATCHED"
      /\ \A a \in Bytes(J) : a < Addr(J) + p => Same(s1, s2, a)
      /\ \A a \in Bytes(J) : Addr(J) + p <= a /\ a <= Addr(J) + p + REL => s2.state[a] = "PATCHED"
  BY <1>2, <1>3, JumpFacts
<1> HIDE DEF s2
<1>5. /\ t \in Store /\ SameFlags(s2, t) /\ Applied(s2, t, J)
      /\ \A a \in Mem : s2.state[a] = "PATCHED" => t.state[a] = "PATCHED"
      /\ \A a \in Bytes(J) : Addr(J) + u <= a => ~Is(t, a, {"INSTRUCTION", "QUEUED"})
  BY <1>1, <1>4, UnusedFacts
<1>6. Applied(s, t, J)
  BY <1>2, <1>4, <1>5, AppliedTwice
<1>7. SameFlags(s, t)
  BY <1>2, <1>4, <1>5 DEF SameFlags
<1>8. ASSUME NEW a \in Bytes(J), a <= Addr(J) + p + REL PROVE t.state[a] = "PATCHED"
  <2>1. a \in Mem /\ a \in Nat /\ Addr(J) <= a
    BY <1>0 DEF Bytes
  <2>2. CASE a < Addr(J) + p
    <3>1. s1.state[a] = "PATCHED"
      BY <1>2, <2>1, <2>2
    <3>2. s2.state[a] = "PATCHED"
      BY <1>4, <2>2, <3>1 DEF Same
    <3> QED
      BY <1>5, <2>1, <3>2
  <2>3. CASE Addr(J) + p <= a
    BY <1>4, <1>5, <1>8, <2>1, <2>3
  <2> QED
    BY <1>0, <2>1, <2>2, <2>3
<1>9. t.state[Addr(J)] = "PATCHED"
  BY <1>0, <1>8
<1>10. ASSUME NEW a \in Bytes(J) PROVE ~Is(t, a, {"INSTRUCTION", "QUEUED"})
  <2>1. a \in Nat
    BY <1>0
  <2>2. a <= Addr(J) + p + REL \/ Addr(J) + u <= a
    BY <1>0, <2>1
  <2> QED
    BY <1>5, <1>8, <2>2 DEF Is
<1> QED
  BY <1>5, <1>6, <1>7, <1>9, <1>10

\* A step that writes the jump of a basic tactic.
JumpStep(p, e, u) ==
    /\ pc.at \in {"B1", "B2", "T1"} /\ Within
    /\ Jump(p, e, u) /\ e \in allocatePunnedJump(m, pc.J, p) /\ canPatch(m, pc.J)
    /\ p \in Nat /\ p < Size(pc.J) /\ u \in Nat /\ u <= p + JMP_SIZE

LEMMA JumpTakes ==
    ASSUME IInv, NEW p, NEW e, NEW u, JumpStep(p, e, u)
    PROVE  /\ Takes(pc.J, e) /\ m'.state[Addr(pc.J)] = "PATCHED"
           /\ e # NIL /\ Es[pc.J] = NIL
<1> DEFINE J == pc.J
           b == pc.task \in {"evict2", "evict3"}
           n == m.no_optimize
           v == m.used \cup {e}
           s == Mark([m EXCEPT !.used = v], J, b)
<1>1. /\ TypeOK /\ m \in Store /\ J \in Known /\ Known \subseteq Instrs /\ Near(J)
      /\ Good(m, Batched) /\ EvictedKept
  <2>1. known \in 1..(Len(Code) + 1) /\ Len(Code) \in Nat /\ Instrs = 1..Len(Code)
    BY Constants DEF IInv, TypeOK
  <2>2. J \in Known /\ Known \subseteq Instrs /\ Near(J)
    BY <2>1 DEF IInv, Control, JumpStep, Trying, Known
  <2>3. TypeOK /\ m \in Store /\ Good(m, Batched) /\ EvictedKept
    BY DEF IInv, TypeOK, Control, JumpStep, Trying, Stores, Restorable
  <2> QED
    BY <2>2, <2>3
<1>2. /\ e \in Space /\ e \notin m.used /\ e # NIL /\ e \in Int
      /\ \A k \in 0..JMP_SIZE : ~Is(m, Addr(J) + p + k, {"QUEUED"})
  BY Constants DEF JumpStep, allocatePunnedJump
<1>3. J \in Instrs /\ b \in BOOLEAN /\ v \in SUBSET Space /\ n \in SUBSET Instrs
  BY <1>1, <1>2, StoreFacts
<1>4. /\ p \in Nat /\ p < Size(J) /\ u \in Nat /\ u <= p + JMP_SIZE /\ canPatch(m, J)
      /\ m' = patchUnused(patchJump(patchJumpPrefix(s, J, p), J, p, e), J, u)
      /\ chain' = <<NewPatch(m, J, e)>> \o chain /\ pc' = At("won")
  BY DEF JumpStep, Jump
<1>5. s = Mark([m EXCEPT !.used = v, !.no_optimize = n], J, b)
  <2>1. [m EXCEPT !.used = v] = [m EXCEPT !.used = v, !.no_optimize = n]
    BY <1>1 DEF Store
  <2> QED
    BY <2>1
<1> HIDE DEF s, v, n, b, J
<1>6. /\ s \in Store /\ Applied(m, s, J) /\ s.used = v /\ s.no_optimize = n
      /\ s.byte = m.byte /\ s.state = m.state /\ s.locked = m.locked
      /\ s.patched = m.patched \cup {J}
      /\ s.evicted = IF b THEN m.evicted \cup {J} ELSE m.evicted
  <2>1. Flagged(m, s, J, v, n, b)
    BY <1>1, <1>3, <1>5, FlagsFacts
  <2> QED
    BY <2>1 DEF Flagged
<1>7. ASSUME NEW a \in Mem, Addr(J) + p <= a, a <= Addr(J) + p + JMP_SIZE
      PROVE  ~Is(s, a, {"QUEUED"})
  <2>1. a \in Nat /\ Addr(J) \in Nat /\ JMP_SIZE \in Nat
    BY <1>3, InstrFacts, MemFacts, Constants DEF JMP_SIZE
  <2>2. a - (Addr(J) + p) \in 0..JMP_SIZE /\ Addr(J) + p + (a - (Addr(J) + p)) = a
    BY <1>4, <1>7, <2>1
  <2>3. ~Is(m, a, {"QUEUED"})
    BY <1>2, <2>2
  <2> QED
    BY <1>6, <2>3 DEF Is
<1>8. /\ m' \in Store /\ SameFlags(s, m') /\ Applied(s, m', J)
      /\ m'.state[Addr(J)] = "PATCHED"
      /\ \A a \in Bytes(J) : ~Is(m', a, {"INSTRUCTION", "QUEUED"})
  BY <1>2, <1>3, <1>4, <1>6, <1>7, JumpStore
<1>9. Applied(m, m', J)
  BY <1>6, <1>8, AppliedTwice
<1>10. before' = before /\ Within
  BY DEF JumpStep, Within
<1>11. Pushed(J, e)
  BY <1>2, <1>3, <1>4, <1>6, <1>8, <1>9, <1>10 DEF Pushed, SameFlags
<1>12. m.state[Addr(J)] # "PATCHED" /\ ~Is(m, Addr(J), {"QUEUED"}) /\ Addr(J) \in Bytes(J)
  BY <1>3, <1>4, MemFacts DEF canPatch, Is
<1>13. J \notin m.evicted /\ Es[J] = NIL
  BY <1>1, <1>3, <1>12 DEF Good, Begun
<1>14. J \notin before.evicted
  <2> SUFFICES ASSUME J \in before.evicted PROVE FALSE
    OBVIOUS
  <2>1. ~(pc.at = "won" /\ pc.task = "evict3")
    BY DEF JumpStep
  <2>2. ~InChain(J)
    BY <1>1, <2>1 DEF EvictedKept
  <2> QED
    BY <1>1, <1>3, <1>13, <2>2 DEF EvictedKept
<1>15. pc'.task = pc.task
  BY <1>1, <1>4 DEF At, TypeOK
<1>16. /\ m'.used = m.used \cup ({e} \ {NIL})
       /\ \A I \in Instrs \ {J} : I \in m'.evicted <=> I \in m.evicted
       /\ m'.no_optimize = m.no_optimize
  BY <1>2, <1>6, <1>8 DEF SameFlags, v, n
<1>17. Takes(J, e)
  BY <1>1, <1>2, <1>8, <1>10, <1>11, <1>12, <1>14, <1>15, <1>16 DEF Takes, JumpStep
<1> QED
  BY <1>2, <1>8, <1>13, <1>17 DEF J

\* What a step that takes J does to the chain, as Chained sees it.
LEMMA TakesNear ==
    ASSUME IInv, NEW J, NEW A, Takes(J, A), NEW k \in DOMAIN chain'
    PROVE  Near(chain[k].I)'
<1>1. /\ TypeOK /\ Pushed(J, A) /\ Near(J) /\ emitted' = emitted /\ cursor' = cursor
      /\ \A n \in DOMAIN chain : Near(chain[n].I)
  BY DEF IInv, Takes, Within, Chained
<1>2. chain'[1].I = J
  BY <1>1, PushedChain
<1>3. k = 1 \/ (k - 1 \in DOMAIN chain /\ chain'[k] = chain[k - 1])
  BY <1>1, PushedElements
<1>4. Near(chain'[k].I)
  BY <1>1, <1>2, <1>3
<1> QED
  BY <1>1, <1>4 DEF Near, Addr

LEMMA JumpChained ==
    ASSUME IInv, NEW p, NEW e, NEW u, JumpStep(p, e, u)
    PROVE  Chained'
<1>1. /\ TypeOK /\ Control /\ Chained /\ Takes(pc.J, e) /\ Pushed(pc.J, e)
      /\ m'.state[Addr(pc.J)] = "PATCHED" /\ e # NIL /\ Es[pc.J] = NIL /\ Es' = Es
      /\ pc.at \in {"B1", "B2", "T1"} /\ pc.at # "lost" /\ pc.at \in Trying
  BY JumpTakes DEF IInv, Takes, JumpStep, Within, Trying
<1>2. pc'.at = "won" /\ pc'.task = pc.task /\ pc'.I = pc.I /\ pc'.J = pc.J /\ pc'.to = pc.to
  BY <1>1 DEF JumpStep, Jump, At, TypeOK
<1>3. /\ Len(chain) \in Nat /\ DOMAIN chain = 1..Len(chain) /\ DOMAIN chain' = 1..(Len(chain) + 1)
      /\ Len(chain') = Len(chain) + 1 /\ chain' # <<>>
      /\ chain'[1].I = pc.J /\ chain'[1].A = e
      /\ \A k \in 1..Len(chain) : chain'[k + 1] = chain[k]
  BY <1>1, PushedChain
<1>4. \A k \in DOMAIN chain' : k = 1 \/ (k - 1 \in DOMAIN chain /\ chain'[k] = chain[k - 1] /\ k > 1)
  BY <1>1, PushedElements
<1>5. \A k \in DOMAIN chain' : Near(chain[k].I)'
  BY <1>1, TakesNear
<1>6. chain = <<>> => DOMAIN chain = {}
  OBVIOUS
<1>7. chain # <<>> => Len(chain) # 0
  BY <1>1 DEF TypeOK
<1>8. ASSUME pc.task = "evict3"
      PROVE  chain'[Len(chain')].I = pc.J /\ chain'[Len(chain')].A = pc.to
  <2>1. chain # <<>>
    BY <1>1, <1>8 DEF Chained
  <2>2. chain[Len(chain)].I = pc.J /\ chain[Len(chain)].A = pc.to
    BY <1>1, <1>8, <2>1 DEF Chained
  <2> QED
    BY <1>3, <1>7, <2>1, <2>2
<1>9. ASSUME pc.task = "evict2", NEW k \in DOMAIN chain' PROVE chain'[k].I = pc.I + 1
  <2>1. chain = <<>> /\ pc.J = pc.I + 1
    BY <1>1, <1>9 DEF Chained, Control
  <2> QED
    BY <1>3, <1>4, <1>6, <2>1
\* An older patch with an allocation of its own is the eviction of T2.
<1>10. ASSUME NEW k \in DOMAIN chain', k # 1, Own(k)'
       PROVE  /\ k - 1 \in DOMAIN chain /\ chain'[k] = chain[k - 1] /\ Own(k - 1)
              /\ pc.task = "self2" /\ chain'[k].I = pc.I + 1 /\ pc.J = pc.I
  <2>1. k - 1 \in DOMAIN chain /\ chain'[k] = chain[k - 1]
    BY <1>4, <1>10
  <2>2. Own(k - 1)
    <3>1. chain[k - 1].A # NIL /\ ~(pc.task = "evict3" /\ k = Len(chain'))
      BY <1>2, <1>10, <2>1 DEF Own, NIL
    <3>2. k = Len(chain') <=> k - 1 = Len(chain)
      BY <1>3
    <3> QED
      BY <3>1, <3>2 DEF Own
  <2>3. pc.task = "self2" /\ chain[k - 1].I = pc.I + 1
    BY <1>1, <2>1, <2>2 DEF Chained
  <2> QED
    BY <1>1, <2>1, <2>2, <2>3 DEF Control
<1>11. ASSUME NEW k \in DOMAIN chain', Own(k)'
       PROVE  /\ Es'[chain'[k].I] = NIL
              /\ m'.state[Addr(chain'[k].I)] = "PATCHED"
              /\ chain'[k].I # pc'.I \/ pc'.task # "evict3"
              /\ \A l \in DOMAIN chain' : Own(l)' /\ chain'[l].I = chain'[k].I => l = k
  <2>1. CASE k = 1
    <3>1. chain'[k].I = pc.J
      BY <1>3, <2>1
    <3>2. pc.J # pc.I \/ pc.task # "evict3"
      BY <1>1 DEF Control
    <3>3. ASSUME NEW l \in DOMAIN chain', Own(l)', chain'[l].I = pc.J PROVE l = 1
      <4>1. pc.I \in Nat
        BY <1>1 DEF TypeOK
      <4> QED
        BY <1>10, <3>3, <4>1
    <3> QED
      BY <1>1, <1>2, <2>1, <3>1, <3>2, <3>3
  <2>2. CASE k # 1
    <3>1. /\ k - 1 \in DOMAIN chain /\ chain'[k] = chain[k - 1] /\ Own(k - 1)
          /\ pc.task = "self2" /\ chain'[k].I = pc.I + 1 /\ pc.J = pc.I
      BY <1>10, <1>11, <2>2
    <3>2. /\ Es[chain[k - 1].I] = NIL /\ m.state[Addr(chain[k - 1].I)] = "PATCHED"
          /\ \A l \in DOMAIN chain : Own(l) /\ chain[l].I = chain[k - 1].I => l = k - 1
      BY <1>1, <3>1 DEF Chained
    <3>3. m'.state[Addr(chain[k - 1].I)] = "PATCHED"
      <4>1. chain[k - 1].I \in Instrs
        BY <1>1, <3>1, ChainFacts
      <4>2. Addr(chain[k - 1].I) \in Mem /\ Applied(m, m', pc.J)
        BY <1>1, <4>1, MemFacts DEF Pushed
      <4> QED
        BY <3>2, <4>2, AppliedPatched
    <3>4. ASSUME NEW l \in DOMAIN chain', Own(l)', chain'[l].I = chain'[k].I PROVE l = k
      <4>1. l # 1
        <5>1. pc.I \in Nat
          BY <1>1 DEF TypeOK
        <5> QED
          BY <1>3, <3>1, <3>4, <5>1
      <4>2. l - 1 \in DOMAIN chain /\ chain'[l] = chain[l - 1] /\ Own(l - 1)
        BY <1>10, <3>4, <4>1
      <4>3. l - 1 = k - 1
        BY <3>1, <3>2, <3>4, <4>2
      <4> QED
        BY <1>3, <4>3
    <3> QED
      BY <1>1, <1>2, <3>1, <3>2, <3>3, <3>4
  <2> QED
    BY <2>1, <2>2
<1> QED
  BY <1>2, <1>3, <1>5, <1>8, <1>9, <1>11 DEF Chained, Addr, NIL, Trying

LEMMA JumpKept ==
    ASSUME IInv, NEW p, NEW e, NEW u, JumpStep(p, e, u)
    PROVE  IInv'
<1>1. /\ TypeOK /\ Control /\ Stores /\ Within /\ Takes(pc.J, e)
      /\ pc.at \in Trying /\ pc.at # "idle" /\ pc.at # "lost"
  BY JumpTakes DEF IInv, JumpStep, Trying
<1>2. pc' = [pc EXCEPT !.at = "won"]
  BY DEF JumpStep, Jump, At
<1>3. /\ pc'.at = "won" /\ pc'.task = pc.task /\ pc'.I = pc.I /\ pc'.J = pc.J /\ pc'.to = pc.to
      /\ pc' \in PcType
  BY <1>1, <1>2, Labels DEF TypeOK, PcType
<1>4. /\ Restorable' /\ Allocated' /\ Good(before, {})' /\ Good(m, Batched)'
      /\ Messages' /\ LookAhead' /\ m' \in Store /\ chain' \in Seq(Patch)
  BY <1>1, TakesKept
<1>5. TypeOK'
  BY <1>1, <1>3, <1>4, TypeNext
<1>6. Control'
  <2>1. /\ pc.task \in Tasks /\ pc.J \in Known /\ Near(pc.J)
        /\ pc.task \in {"self", "self2"} => pc.J = pc.I
        /\ pc.task = "evict2" => pc.J = pc.I + 1
        /\ pc.task = "evict3" => pc.J # pc.I /\ pc.to # NIL
    BY <1>1 DEF Control
  <2> QED
    BY <1>1, <1>3, <2>1, ControlNext
<1>7. Stores'
  <2>1. ASSUME pc'.task = "evict3", Size(pc.I) = 1 PROVE ~Is(m', Addr(pc.I) + 1, {"QUEUED"})
    <3>1. ~Is(m, Addr(pc.I) + 1, {"QUEUED"})
      BY <1>1, <1>3, <2>1 DEF Stores
    <3>2. Addr(pc.I) + 1 \in Mem /\ Applied(m, m', pc.J)
      <4>1. pc.I \in Instrs
        BY <1>1, Constants DEF Control, Known, TypeOK
      <4> QED
        BY <1>1, <4>1, MemFacts DEF Takes, Pushed
    <3> QED
      BY <3>1, <3>2, AppliedIs
  <2> QED
    BY <1>3, <1>4, <2>1 DEF Stores, Size, Addr, Is
<1> QED
  BY <1>4, <1>5, <1>6, <1>7, JumpChained DEF IInv

-----------------------------------------------------------------------------
\* Steps that only move on.

LEMMA QuietFrame ==
    ASSUME IInv, Within, m' = m, chain' = chain,
           pc' \in PcType
    PROVE  /\ TypeOK' /\ BytesKept' /\ MarksKept' /\ Allocated' /\ Good(before, {})'
           /\ Messages' /\ LookAhead'
<1>1. UNCHANGED <<ORIG, known, before, Q, cursor, asked, emitted, Es, Traps, batched, failed>>
  BY DEF Within
<1>2. TypeOK'
  BY TypeNext DEF IInv, TypeOK, PcType
<1>3. BytesKept'
  BY <1>1 DEF IInv, Restorable, BytesKept, Mem, End, Addr, Size, Saved, Cell, Orig
<1>4. MarksKept'
  BY <1>1 DEF IInv, Restorable, MarksKept, Instrs
<1>5. Allocated'
  BY <1>1 DEF IInv, Allocated, Instrs, NIL
<1>6. Good(before, {})'
  BY <1>1, GoodKept DEF IInv, Stores
<1>7. Messages'
  BY <1>1, SameMessages DEF IInv
<1>8. LookAhead'
  BY <1>1 DEF IInv, LookAhead, Known, Instrs, Bytes, Addr, Size, Is
<1> QED
  BY <1>2, <1>3, <1>4, <1>5, <1>6, <1>7, <1>8

\* The chain is empty: what is there is what was there when patch() was called.
LEMMA TurnKept ==
    ASSUME IInv, Within, m' = m, chain' = chain, chain = <<>>,
           pc' \in PcType,
           Control', pc'.at # "won", pc'.at \in {"B1", "B2", "T1"} => pc'.task # "evict3"
    PROVE  IInv'
<1>1. TypeOK' /\ Allocated' /\ Good(before, {})' /\ Messages' /\ LookAhead'
  BY QuietFrame
<1>2. m = before /\ before' = before
  BY EmptyChain DEF IInv, Within
<1>3. Restorable'
  BY <1>2, RestorableNext
<1>4. Chained'
  BY ChainedNext
<1>5. Good(m, Batched)'
  <2>1. Batched' = {}
    BY DEF Batched, InChain
  <2>2. Good(before, {})
    BY DEF IInv, Stores
  <2>3. Whole(m) /\ Begins(m, Es) /\ Closed(m) /\ Waits(m, Q, batched \cup {})
    BY <1>2, <2>2, GoodNow
  <2>4. UNCHANGED <<ORIG, Es, Q, batched>>
    BY DEF Within
  <2>5. Waits(m', Q', batched' \cup Batched')
    BY <2>1, <2>3, <2>4
  <2> QED
    BY <2>3, <2>4, <2>5, GoodNext
<1>6. Stores'
  BY <1>1, <1>5 DEF Stores, Trying, Size
<1> QED
  BY <1>1, <1>3, <1>4, <1>6 DEF IInv

LEMMA OtherwiseKept ==
    ASSUME IInv, Within, pc.at \in {"B1", "B2", "T1"}, NEW w \in {"B2", "T1", "lost"}, Otherwise(w)
    PROVE  IInv'
<1>1. m' = m /\ chain' = chain /\ pc' = [pc EXCEPT !.at = w]
  BY DEF Otherwise, At
<1>2. TypeOK /\ Control /\ Chained /\ Stores /\ EvictedKept /\ OptimizeKept
  BY DEF IInv, Restorable
<1>3. /\ pc'.at = w /\ pc'.task = pc.task /\ pc'.I = pc.I /\ pc'.J = pc.J /\ pc'.to = pc.to
      /\ pc' \in PcType
  BY <1>1, <1>2, Labels DEF TypeOK, PcType
<1>4. /\ TypeOK' /\ BytesKept' /\ MarksKept' /\ Allocated' /\ Good(before, {})'
      /\ Messages' /\ LookAhead'
  BY <1>1, <1>3, QuietFrame
<1>5. before' = before /\ UNCHANGED <<ORIG, Es, Q, batched, emitted, cursor>>
  BY DEF Within
<1>6. EvictedKept' /\ OptimizeKept'
  BY <1>1, <1>2, <1>3, <1>5 DEF EvictedKept, OptimizeKept, InChain, Instrs
<1>7. Control'
  <2>1. /\ pc.at \in Trying /\ pc.task \in Tasks /\ pc.J \in Known /\ Near(pc.J)
        /\ pc.task \in {"self", "self2"} => pc.J = pc.I
        /\ pc.task = "evict2" => pc.J = pc.I + 1
        /\ pc.task = "evict3" => pc.J # pc.I /\ pc.to # NIL
    BY <1>2 DEF Control, Trying
  <2> QED
    BY <1>2, <1>3, <2>1, ControlNext
<1>8. Chained'
  <2>1. \A k \in DOMAIN chain : Own(k)' <=> Own(k)
    BY <1>1, <1>3 DEF Own, NIL
  <2>2. \A k \in DOMAIN chain : Near(chain[k].I)' <=> Near(chain[k].I)
    BY <1>1, <1>5 DEF Near, Addr
  <2> QED
    BY <1>1, <1>2, <1>3, <1>5, <2>1, <2>2 DEF Chained, Addr, NIL, Trying
<1>9. Stores'
  <2>1. Batched' = Batched
    BY <1>1, <1>3 DEF Batched, InChain, Instrs
  <2>2. Good(m, Batched)
    BY <1>2 DEF Stores
  <2>3. Whole(m) /\ Begins(m, Es) /\ Closed(m) /\ Waits(m, Q, batched \cup Batched)
    BY <2>2, GoodNow
  <2>4. Good(m, Batched)'
    BY <1>1, <1>5, <2>1, <2>3, GoodNext
  <2> QED
    BY <1>1, <1>2, <1>3, <1>4, <2>4 DEF Stores, Trying, Size, Addr, Is
<1> QED
  BY <1>4, <1>6, <1>7, <1>8, <1>9 DEF IInv, Restorable

\* What patch() knows of its instruction.
LEMMA Serving ==
    ASSUME IInv, pc.at # "idle"
    PROVE  /\ pc.I \in Known /\ Known \subseteq Instrs /\ pc.I \in Instrs /\ Near(pc.I)
           /\ ~emitted => ~option_batch /\ Addr(pc.I) > cursor + Window
           /\ Is(before, Addr(pc.I), {"INSTRUCTION"})
           /\ pc.I \notin before.evicted /\ Es[pc.I] = NIL
           /\ Window \in Nat /\ cursor \in Nat /\ Window >= T0_LIMIT * MaxInstr
           /\ Window >= SHORT_JMP_MAX + 2 + MaxInstr
<1>1. TypeOK /\ Control /\ Good(before, {})
  BY DEF IInv, Stores
<1>2. /\ pc.I \in Known
      /\ ~emitted => ~option_batch /\ Addr(pc.I) > cursor + Window
      /\ Is(before, Addr(pc.I), {"INSTRUCTION"})
  BY <1>1 DEF Control
<1>3. known \in 1..(Len(Code) + 1) /\ cursor \in Nat
  BY <1>1 DEF TypeOK
<1>4. Known \subseteq Instrs
  BY <1>3, Constants DEF Known
<1>5. /\ Window \in Nat /\ Window >= T0_LIMIT * MaxInstr
      /\ Window >= SHORT_JMP_MAX + 2 + MaxInstr
  <2> DEFINE x == T0_LIMIT * MaxInstr
             y == SHORT_JMP_MAX + 2 + MaxInstr
  <2>1. x \in Nat /\ y \in Int /\ Extra \in Nat
    <3>1. T0_LIMIT \in Nat /\ MaxInstr \in Nat /\ BYTE \in Nat /\ Extra \in Nat
      BY Constants
    <3>2. SHORT_JMP_MAX \in Int
      BY <3>1 DEF SHORT_JMP_MAX
    <3> QED
      BY <3>1, <3>2
  <2>2. Window = Max2(x, y) + Extra
    BY DEF Window
  <2> HIDE DEF x, y
  <2>3. Window \in Nat /\ Window >= x /\ Window >= y
    BY <2>1, <2>2 DEF Max2
  <2> QED
    BY <2>3 DEF x, y
<1>6. Near(pc.I)
  <2>1. Addr(pc.I) \in Nat
    BY <1>2, <1>4, InstrFacts
  <2> QED
    BY <1>2, <1>3, <1>5, <2>1 DEF Near
<1>7. pc.I \notin before.evicted /\ Es[pc.I] = NIL
  <2>1. before.state[Addr(pc.I)] # "PATCHED"
    BY <1>2 DEF Is
  <2> QED
    BY <1>1, <1>2, <1>4, <2>1 DEF Good, Begun
<1> QED
  BY <1>2, <1>3, <1>4, <1>5, <1>6, <1>7

LEMMA tactic_B1_Kept ==
    ASSUME IInv, tactic_B1
    PROVE  IInv'
<1>1. CASE \E e \in RoomB1 : Jump(0, e, JMP_SIZE)
  <2>1. PICK e \in RoomB1 : Jump(0, e, JMP_SIZE)
    BY <1>1
  <2>2. e \in allocatePunnedJump(m, pc.J, 0) /\ canPatch(m, pc.J)
    BY <2>1 DEF RoomB1
  <2>3. pc.J \in Instrs
    BY Serving DEF tactic_B1, IInv, Control, Trying
  <2>4. 0 < Size(pc.J) /\ JMP_SIZE \in Nat /\ JMP_SIZE <= 0 + JMP_SIZE
    BY <2>3, InstrFacts, Constants DEF JMP_SIZE
  <2>5. JumpStep(0, e, JMP_SIZE)
    BY <2>1, <2>2, <2>4 DEF JumpStep, tactic_B1
  <2> QED
    BY <2>5, JumpKept
<1>2. CASE RoomB1 = {} /\ Otherwise("B2")
  BY <1>2, OtherwiseKept DEF tactic_B1
<1> QED
  BY <1>1, <1>2 DEF tactic_B1

LEMMA tactic_B2_Kept ==
    ASSUME IInv, tactic_B2
    PROVE  IInv'
<1>1. CASE \E e \in RoomB2 : Jump(0, e, Size(pc.J))
  <2>1. PICK e \in RoomB2 : Jump(0, e, Size(pc.J))
    BY <1>1
  <2>2. e \in allocatePunnedJump(m, pc.J, 0) /\ canPatch(m, pc.J) /\ ~(Size(pc.J) >= JMP_SIZE)
    BY <2>1 DEF RoomB2
  <2>3. pc.J \in Instrs
    BY Serving DEF tactic_B2, IInv, Control, Trying
  <2>4. 0 < Size(pc.J) /\ Size(pc.J) \in Nat /\ Size(pc.J) <= 0 + JMP_SIZE
    BY <2>2, <2>3, InstrFacts, Constants DEF JMP_SIZE
  <2>5. JumpStep(0, e, Size(pc.J))
    BY <2>1, <2>2, <2>4 DEF JumpStep, tactic_B2
  <2> QED
    BY <2>5, JumpKept
<1>2. CASE RoomB2 = {} /\ Otherwise("T1")
  BY <1>2, OtherwiseKept DEF tactic_B2
<1> QED
  BY <1>1, <1>2 DEF tactic_B2

LEMMA tactic_T1_Kept ==
    ASSUME IInv, tactic_T1
    PROVE  IInv'
<1>1. CASE \E p \in PrefixCounts :
             /\ \A q \in PrefixCounts : p <= q
             /\ \E e \in allocatePunnedJump(m, pc.J, p) : Jump(p, e, Size(pc.J))
  <2>1. PICK p \in PrefixCounts : \E e \in allocatePunnedJump(m, pc.J, p) : Jump(p, e, Size(pc.J))
    BY <1>1
  <2>2. PICK e \in allocatePunnedJump(m, pc.J, p) : Jump(p, e, Size(pc.J))
    BY <2>1
  <2>3. p \in Nat /\ p < Size(pc.J) /\ Size(pc.J) < JMP_SIZE /\ canPatch(m, pc.J)
    BY Constants DEF PrefixCounts
  <2>4. pc.J \in Instrs
    BY Serving DEF tactic_T1, IInv, Control, Trying
  <2>5. Size(pc.J) \in Nat /\ Size(pc.J) <= p + JMP_SIZE
    BY <2>3, <2>4, InstrFacts, Constants DEF JMP_SIZE
  <2>6. JumpStep(p, e, Size(pc.J))
    BY <2>2, <2>3, <2>5 DEF JumpStep, tactic_T1
  <2> QED
    BY <2>6, JumpKept
<1>2. CASE PrefixCounts = {} /\ Otherwise("lost")
  BY <1>2, OtherwiseKept DEF tactic_T1
<1> QED
  BY <1>1, <1>2 DEF tactic_T1

LEMMA T2Again_Kept ==
    ASSUME IInv, T2Again
    PROVE  IInv'
<1>1. /\ m' = m /\ chain' = chain /\ pc' = [pc EXCEPT !.at = "B2", !.task = "self2", !.J = pc.I]
      /\ Within /\ pc.at = "won" /\ pc.task = "evict2" /\ pc.at # "idle" /\ pc.at \in Trying
  BY DEF T2Again, Trying
<1>2. TypeOK /\ Control /\ Chained /\ Stores /\ EvictedKept /\ OptimizeKept
  BY DEF IInv, Restorable
<1>3. /\ pc'.at = "B2" /\ pc'.task = "self2" /\ pc'.I = pc.I /\ pc'.J = pc.I /\ pc'.to = pc.to
      /\ pc' \in PcType
  BY <1>1, <1>2, Labels DEF TypeOK, PcType
<1>4. /\ TypeOK' /\ BytesKept' /\ MarksKept' /\ Allocated' /\ Good(before, {})'
      /\ Messages' /\ LookAhead'
  BY <1>1, <1>3, QuietFrame
<1>5. before' = before /\ UNCHANGED <<ORIG, Es, Q, batched, emitted, cursor>>
  BY <1>1 DEF Within
<1>6. EvictedKept' /\ OptimizeKept'
  BY <1>1, <1>2, <1>3, <1>5 DEF EvictedKept, OptimizeKept, InChain, Instrs
<1>7. Control'
  <2>1. pc.I \in Known /\ Near(pc.I)
    BY <1>1, Serving
  <2> QED
    BY <1>1, <1>2, <1>3, <2>1, ControlNext DEF Tasks
<1>8. Chained'
  <2>1. \A k \in DOMAIN chain : Own(k)' <=> Own(k)
    BY <1>1, <1>3 DEF Own, NIL
  <2>2. \A k \in DOMAIN chain : Near(chain[k].I)' <=> Near(chain[k].I)
    BY <1>1, <1>5 DEF Near, Addr
  <2> QED
    BY <1>1, <1>2, <1>3, <1>5, <2>1, <2>2 DEF Chained, Addr, NIL, Trying
<1>9. Stores'
  <2>1. Batched' = Batched
    BY <1>1, <1>3 DEF Batched
  <2>2. Good(m, Batched)
    BY <1>1, <1>2 DEF Stores
  <2>3. Whole(m) /\ Begins(m, Es) /\ Closed(m) /\ Waits(m, Q, batched \cup Batched)
    BY <2>2, GoodNow
  <2>4. Good(m, Batched)'
    BY <1>1, <1>5, <2>1, <2>3, GoodNext
  <2> QED
    BY <1>3, <1>4, <2>4 DEF Stores
<1> QED
  BY <1>4, <1>6, <1>7, <1>8, <1>9 DEF IInv, Restorable

-----------------------------------------------------------------------------
\* undo() and what follows it.

LEMMA undo_Kept ==
    ASSUME IInv, undo
    PROVE  IInv'
<1>1. /\ TypeOK /\ Control /\ Chained /\ Restorable /\ Allocated /\ Stores /\ Messages /\ LookAhead
  BY DEF IInv
<1>2. /\ pc.at = "lost" /\ pc.at \in Trying /\ pc' = pc /\ Within
  BY DEF undo, Trying
<1>3. /\ m' \in Store /\ before' = before /\ m'.no_optimize = before.no_optimize
      /\ m'.used = m.used \ {chain[1].A} /\ m'.evicted = m.evicted \ {chain[1].I}
      /\ chain \in Seq(Patch) /\ chain' \in Seq(Patch) /\ chain[1] \in Patch
      /\ Len(chain) \in Nat \ {0} /\ Len(chain') = Len(chain) - 1
      /\ DOMAIN chain = 1..Len(chain) /\ DOMAIN chain' = 1..(Len(chain) - 1)
      /\ \A k \in DOMAIN chain' : chain'[k] = chain[k + 1] /\ k + 1 \in DOMAIN chain
  BY <1>1, UndoEffect
<1>4. \A a \in Mem \ Saved(chain[1].I) : Same(m, m', a)
  BY <1>1, UndoEffect
<1>5. 1 \in DOMAIN chain /\ chain[1].I \in Instrs
  BY <1>3 DEF Patch
<1>6. UNCHANGED <<ORIG, known, before, Q, cursor, asked, emitted, Es, Traps, batched, failed>>
  BY <1>2 DEF Within
<1>7. TypeOK'
  BY <1>1, <1>2, <1>3, TypeNext DEF TypeOK, PcType
<1>8. Control'
  <2>1. /\ pc.task \in Tasks /\ pc.J \in Known /\ Near(pc.J)
        /\ pc.task \in {"self", "self2"} => pc.J = pc.I
        /\ pc.task = "evict2" => pc.J = pc.I + 1
        /\ pc.task = "evict3" => pc.J # pc.I /\ pc.to # NIL
    BY <1>1, <1>2 DEF Control
  <2> QED
    BY <1>1, <1>2, <2>1, ControlNext
<1>9. Chained'
  <2>1. \A k \in DOMAIN chain' : Near(chain[k].I)'
    BY <1>1, <1>3, <1>6 DEF Chained, Near, Addr
  <2>2. ASSUME pc.task = "evict3", chain' # <<>>
        PROVE  chain'[Len(chain')].I = pc.J /\ chain'[Len(chain')].A = pc.to
    <3>1. Len(chain') # 0
      BY <1>3, <2>2
    <3>2. chain'[Len(chain')] = chain[Len(chain)] /\ chain # <<>>
      BY <1>3, <3>1
    <3> QED
      BY <1>1, <1>2, <2>2, <3>2 DEF Chained
  <2>3. ASSUME pc.task = "evict2", NEW k \in DOMAIN chain' PROVE chain'[k].I = pc.I + 1
    BY <1>1, <1>2, <1>3, <2>3 DEF Chained
  <2> QED
    BY <1>2, <2>1, <2>2, <2>3 DEF Chained, Trying
<1>10. EvictedKept'
  <2>1. ASSUME NEW I \in Instrs, ~InChain(I)' PROVE I \in m'.evicted <=> I \in before'.evicted
    <3>1. CASE InChain(I)
      <4>1. PICK k \in DOMAIN chain : chain[k].I = I
        BY <3>1 DEF InChain
      <4>2. k = 1
        <5> SUFFICES ASSUME k # 1 PROVE FALSE
          OBVIOUS
        <5>1. k - 1 \in DOMAIN chain' /\ (k - 1) + 1 = k
          BY <1>3
        <5>2. chain'[k - 1].I = I
          BY <1>3, <4>1, <5>1
        <5> QED
          BY <2>1, <5>1, <5>2 DEF InChain
      <4>3. I \notin before.evicted
        BY <1>1, <1>2, <3>1 DEF Restorable, EvictedKept
      <4> QED
        BY <1>3, <4>1, <4>2, <4>3
    <3>2. CASE ~InChain(I)
      <4>1. I # chain[1].I
        BY <1>5, <3>2 DEF InChain
      <4>2. I \in m.evicted <=> I \in before.evicted
        BY <1>1, <3>2 DEF Restorable, EvictedKept
      <4> QED
        BY <1>3, <4>1, <4>2
    <3> QED
      BY <3>1, <3>2
  <2>2. ASSUME NEW I \in before'.evicted PROVE ~InChain(I)'
    <3>1. ~InChain(I)
      BY <1>1, <1>2, <1>3, <2>2 DEF Restorable, EvictedKept
    <3> QED
      BY <1>3, <3>1 DEF InChain
  <2> QED
    BY <2>1, <2>2 DEF EvictedKept, Instrs
<1>11. Restorable'
  BY <1>1, <1>3, <1>10, UndoneBytes, UndoneMarks DEF Restorable, OptimizeKept
<1>12. Allocated'
  <2>1. NIL \notin m.used
    BY <1>1, StoreFacts, Constants DEF TypeOK
  <2>2. m'.used = before'.used \cup ({chain'[k].A : k \in DOMAIN chain'} \ {NIL})
    <3>1. ASSUME NEW x \in m'.used
          PROVE  x \in before.used \cup ({chain'[k].A : k \in DOMAIN chain'} \ {NIL})
      <4>1. x \in m.used /\ x # chain[1].A /\ x # NIL
        BY <1>3, <2>1, <3>1
      <4>2. CASE x \in {chain[k].A : k \in DOMAIN chain}
        <5>1. PICK k \in DOMAIN chain : x = chain[k].A
          BY <4>2
        <5>2. k - 1 \in DOMAIN chain' /\ (k - 1) + 1 = k
          BY <1>3, <4>1, <5>1
        <5>3. chain'[k - 1].A = x
          BY <1>3, <5>1, <5>2
        <5> QED
          BY <4>1, <5>2, <5>3
      <4> QED
        BY <1>1, <4>1, <4>2 DEF Allocated
    <3>2. ASSUME NEW x \in before.used PROVE x \in m'.used
      <4>1. x \in m.used /\ x # NIL
        BY <1>1, <2>1, <3>2 DEF Allocated
      <4>2. x # chain[1].A
        BY <1>1, <1>5, <3>2, <4>1 DEF Allocated
      <4> QED
        BY <1>3, <4>1, <4>2
    <3>3. ASSUME NEW k \in DOMAIN chain', chain'[k].A # NIL PROVE chain'[k].A \in m'.used
      <4>1. chain'[k].A = chain[k + 1].A /\ k + 1 \in DOMAIN chain /\ k + 1 # 1
        BY <1>3
      <4>2. chain[k + 1].A \in m.used /\ chain[k + 1].A # chain[1].A
        BY <1>1, <1>5, <3>3, <4>1 DEF Allocated
      <4> QED
        BY <1>3, <4>1, <4>2
    <3> QED
      BY <1>3, <3>1, <3>2, <3>3
  <2>3. ASSUME NEW k \in DOMAIN chain', chain'[k].A # NIL
        PROVE  /\ chain'[k].A \notin before'.used
               /\ \A l \in DOMAIN chain' : chain'[l].A = chain'[k].A => l = k
    <3>1. chain'[k] = chain[k + 1] /\ k + 1 \in DOMAIN chain /\ k \in Int
      BY <1>3
    <3>2. \A l \in DOMAIN chain' : chain'[l] = chain[l + 1] /\ l + 1 \in DOMAIN chain /\ l \in Int
      BY <1>3
    <3>3. ASSUME NEW l \in DOMAIN chain', chain'[l].A = chain'[k].A PROVE l = k
      <4>1. l + 1 = k + 1
        BY <1>1, <2>3, <3>1, <3>2, <3>3 DEF Allocated
      <4> QED
        BY <3>1, <3>2, <4>1
    <3> QED
      BY <1>1, <1>3, <2>3, <3>1, <3>3 DEF Allocated
  <2> QED
    BY <1>1, <1>3, <1>6, <2>2, <2>3 DEF Allocated, Instrs, NIL
<1>13. Stores'
  <2>1. Good(before, {})'
    BY <1>1, <1>6, GoodKept DEF Stores
  <2> QED
    BY <1>2, <2>1 DEF Stores
<1>14. Messages'
  BY <1>1, <1>6, SameMessages
<1>15. LookAhead'
  <2>1. Near(chain[1].I)
    BY <1>1, <1>5 DEF Chained
  <2>2. UNCHANGED <<known, cursor, asked, emitted>>
    BY <1>6
  <2> QED
    BY <1>1, <1>2, <1>4, <1>5, <2>1, <2>2, LookAheadNext
<1> QED
  BY <1>7, <1>8, <1>9, <1>11, <1>12, <1>13, <1>14, <1>15 DEF IInv

LEMMA NextTactic_Kept ==
    ASSUME IInv, NextTactic
    PROVE  IInv'
<1>1. /\ pc.at = "lost" /\ pc.at # "idle" /\ pc.at \in Trying /\ chain = <<>> /\ m' = m
      /\ chain' = chain /\ Within
  BY DEF NextTactic, Trying
<1>2. TypeOK /\ Control /\ pc.task \in Tasks
  BY <1>1 DEF IInv, Control
<1>3. pc.I \in Known /\ Near(pc.I) /\ Len(Code) \in Nat
  BY <1>1, Serving, Constants
<1>4. /\ pc'.I = pc.I
      /\ \/ pc'.at = "B1" /\ pc'.task = "self" /\ pc'.J = pc.I
         \/ pc'.at \in {"T2", "T3"}
      /\ pc' \in PcType
  <2>0. /\ pc \in PcType /\ Len(Code) + 1 \in Nat
        /\ "B1" \in Places /\ "T2" \in Places /\ "T3" \in Places /\ "self" \in Tasks
        /\ NIL \in Space \cup {NIL}
    BY <1>2, <1>3, Labels DEF TypeOK, PcType
  <2>1. CASE pc.task = "batch"
    <3>1. pc' = [pc EXCEPT !.at = "B1", !.task = "self", !.J = pc.I]
      BY <2>1 DEF NextTactic
    <3> QED
      BY <2>0, <3>1 DEF PcType
  <2>2. CASE pc.task = "self"
    <3>1. pc' = [pc EXCEPT !.at = "T2"]
      BY <2>2 DEF NextTactic, At
    <3> QED
      BY <2>0, <3>1 DEF PcType
  <2>3. CASE pc.task \in {"evict2", "self2"}
    <3>1. pc' = [pc EXCEPT !.at = "T3", !.J = Len(Code) + 1]
      BY <2>3 DEF NextTactic, At
    <3> QED
      BY <2>0, <3>1 DEF PcType
  <2>4. CASE pc.task = "evict3"
    <3>1. pc' = [pc EXCEPT !.at = "T3", !.to = NIL]
      BY <2>4 DEF NextTactic, At
    <3> QED
      BY <2>0, <3>1 DEF PcType
  <2> QED
    BY <1>2, <2>1, <2>2, <2>3, <2>4 DEF Tasks
<1>5. Control'
  BY <1>1, <1>2, <1>3, <1>4, ControlNext DEF Trying, Tasks
<1> QED
  BY <1>1, <1>4, <1>5, TurnKept

LEMMA tactic_T2_Kept ==
    ASSUME IInv, tactic_T2
    PROVE  IInv'
<1>1. pc.at = "T2" /\ pc.at # "idle" /\ m' = m /\ chain' = chain /\ Within
  BY DEF tactic_T2
<1>2. TypeOK /\ Control /\ chain = <<>>
  BY <1>1 DEF IInv, Control
<1>3. pc.I \in Known /\ Near(pc.I) /\ pc.I \in Instrs /\ Len(Code) \in Nat /\ Instrs = 1..Len(Code)
  BY <1>1, Serving, Constants
<1>4. CASE pc' = [At("T3") EXCEPT !.J = Len(Code) + 1]
  <2>1. /\ pc'.I = pc.I /\ pc'.at = "T3"
        /\ pc' \in PcType
    <3>1. pc \in PcType /\ "T3" \in Places /\ Len(Code) + 1 \in Nat
      BY <1>2, Labels DEF TypeOK, PcType
    <3> QED
      BY <1>4, <3>1 DEF At, PcType
  <2>2. Control'
    BY <1>1, <1>2, <2>1, ControlNext DEF Trying
  <2> QED
    BY <1>1, <1>2, <2>1, <2>2, TurnKept
<1>5. CASE /\ succ(pc.I) # NIL
           /\ pc' = [pc EXCEPT !.at = "B2", !.task = "evict2", !.J = succ(pc.I)]
  <2>1. succ(pc.I) = pc.I + 1 /\ pc.I # Len(Code)
    BY <1>5 DEF succ
  <2>2. pc.I + 1 \in Known /\ pc.I + 1 \in Instrs
    <3>1. known \in Nat
      BY <1>2, Constants DEF TypeOK
    <3> QED
      BY <1>3, <2>1, <3>1 DEF Known
  <2>3. Near(pc.I + 1)
    <3>1. Addr(pc.I) + Size(pc.I) <= Addr(pc.I + 1)
      BY <1>3, <2>2, Ordered
    <3>2. /\ Addr(pc.I) \in Nat /\ Size(pc.I) \in Nat /\ Addr(pc.I + 1) \in Nat /\ cursor \in Nat
      BY <1>2, <1>3, <2>2, InstrFacts DEF TypeOK
    <3> QED
      BY <1>3, <3>1, <3>2 DEF Near
  <2>4. /\ pc'.I = pc.I /\ pc'.at = "B2" /\ pc'.task = "evict2" /\ pc'.J = pc.I + 1
        /\ pc' \in PcType
    <3>1. /\ pc \in PcType /\ "B2" \in Places /\ "evict2" \in Tasks
          /\ pc' = [pc EXCEPT !.at = "B2", !.task = "evict2", !.J = pc.I + 1] /\ pc.I + 1 \in Nat
      BY <1>2, <1>5, <2>1, Labels DEF TypeOK, PcType
    <3> QED
      BY <3>1 DEF PcType
  <2>5. Control'
    BY <1>1, <1>2, <2>2, <2>3, <2>4, ControlNext DEF Trying, Tasks
  <2> QED
    BY <1>1, <1>2, <2>4, <2>5, TurnKept
<1> QED
  BY <1>4, <1>5 DEF tactic_T2

-----------------------------------------------------------------------------
\* Tactic T0.

\* Adjacent instructions are not further apart than their number allows.
LEMMA Distance ==
    ASSUME TypeOK, NEW I \in Instrs, NEW J \in known..I, \A K \in (J + 1)..I : pred(K) # NIL
    PROVE  Addr(I) <= Addr(J) + (I - J) * MaxInstr
<1>0. /\ I \in Nat /\ J \in Nat /\ known \in Nat /\ known >= 1 /\ J <= I /\ MaxInstr \in Nat
      /\ Instrs = 1..Len(Code) /\ Len(Code) \in Nat
  BY InstrFacts, Constants DEF TypeOK
<1>1. \A n \in 0..(I - J) : I - n \in Instrs
  BY <1>0
<1> DEFINE T == {n \in 0..(I - J) : ~(Addr(I) <= Addr(I - n) + n * MaxInstr)}
<1>2. SUFFICES ASSUME T # {} PROVE FALSE
  <2>1. I - J \in 0..(I - J) /\ I - (I - J) = J
    BY <1>0
  <2> QED
    BY <2>1
<1>3. T \subseteq Nat
  OBVIOUS
<1>4. PICK n \in T : \A k \in T : n <= k
  <2> HIDE DEF T
  <2> QED
    BY <1>2, <1>3, LeastNat
<1>5. n \in 0..(I - J) /\ n \in Nat /\ ~(Addr(I) <= Addr(I - n) + n * MaxInstr)
  BY <1>4
<1>6. Addr(I) \in Nat /\ Addr(I - n) \in Nat
  BY <1>1, <1>5, InstrFacts
<1>7. n # 0
  <2>1. I - 0 = I /\ 0 * MaxInstr = 0
    BY <1>0
  <2> QED
    BY <1>5, <1>6, <2>1
<1>8. n - 1 \in 0..(I - J) /\ n - 1 \notin T
  <2> DEFINE d == I - J
  <2>1. n \in 0..d /\ d \in Nat
    BY <1>0, <1>5
  <2> HIDE DEF d
  <2>2. n - 1 \in 0..d /\ ~(n <= n - 1)
    BY <1>7, <2>1
  <2> QED
    BY <1>4, <2>2 DEF d
<1>9. Addr(I) <= Addr(I - (n - 1)) + (n - 1) * MaxInstr
  BY <1>8
<1> DEFINE K == I - (n - 1)
<1>10. K \in (J + 1)..I /\ K \in Instrs /\ K - 1 = I - n /\ K - 1 \in Instrs /\ K # known
  BY <1>0, <1>1, <1>5, <1>7, <1>8
<1>11. Addr(I - n) + Size(I - n) = Addr(K)
  <2>1. pred(K) # NIL
    BY <1>10
  <2>2. Addr(K - 1) + Size(K - 1) = Addr(K)
    <3> HIDE DEF K
    <3> QED
      BY <1>10, <2>1 DEF pred
  <2> QED
    BY <1>10, <2>2
<1>12. Size(I - n) \in Nat /\ Size(I - n) <= MaxInstr /\ Addr(K) \in Nat
  BY <1>1, <1>5, <1>10, InstrFacts
<1>13. (n - 1) * MaxInstr + MaxInstr = n * MaxInstr /\ (n - 1) * MaxInstr \in Int /\ n * MaxInstr \in Int
  BY <1>0, <1>5
<1> DEFINE x == n * MaxInstr
           y == (n - 1) * MaxInstr
<1>14. Addr(I) <= Addr(K) + y /\ ~(Addr(I) <= Addr(I - n) + x) /\ y + MaxInstr = x /\ x \in Int /\ y \in Int
  BY <1>5, <1>9, <1>13
<1> HIDE DEF x, y, K
<1> QED
  BY <1>0, <1>6, <1>11, <1>12, <1>14

LEMMA tactic_T0_Kept ==
    ASSUME IInv, tactic_T0
    PROVE  IInv'
<1>1. pc.at = "T0" /\ pc.at # "idle" /\ m' = m /\ chain' = chain /\ Within
  BY DEF tactic_T0
<1>2. TypeOK /\ Control /\ chain = <<>> /\ pc.J = pc.I /\ pc \in PcType
  BY <1>1 DEF IInv, Control, TypeOK, PcType
<1>3. /\ pc.I \in Known /\ Near(pc.I) /\ pc.I \in Instrs /\ Known \subseteq Instrs
      /\ ~emitted => Addr(pc.I) > cursor + Window
      /\ Window \in Nat /\ cursor \in Nat /\ Window >= T0_LIMIT * MaxInstr
      /\ Is(before, Addr(pc.I), {"INSTRUCTION"})
  BY <1>1, Serving
<1>4. m = before /\ Good(before, {})
  BY <1>2, EmptyChain DEF IInv, Stores
<1>5. CASE pc' = [pc EXCEPT !.at = "B1", !.task = "self"]
  <2>1. pc'.at = "B1" /\ pc'.task = "self" /\ pc'.I = pc.I /\ pc'.J = pc.I /\ pc' \in PcType
    BY <1>2, <1>5, Labels DEF PcType
  <2>2. Control'
    BY <1>1, <1>2, <1>3, <2>1, ControlNext DEF Trying, Tasks
  <2> QED
    BY <1>1, <1>2, <2>1, <2>2, TurnKept
<1>6. ASSUME NEW J \in known..pc.I, NEW L \in pc.I..Len(Code), Batch(pc.I, J, L),
             pc' = [pc EXCEPT !.at = "free", !.task = "batch", !.J = L, !.i = J]
      PROVE  IInv'
  <2>0. /\ known \in Nat /\ known >= 1 /\ Len(Code) \in Nat /\ Instrs = 1..Len(Code) /\ pc.I \in Nat
        /\ MaxInstr \in Nat /\ T0_LIMIT \in Nat
    BY <1>2, <1>3, Constants DEF TypeOK
  <2>1. J \in Known /\ J \in Instrs /\ L \in J..Len(Code) /\ J \in Nat /\ L \in Nat /\ J <= pc.I
    BY <1>3, <2>0 DEF Known
  <2>2. /\ pc'.at = "free" /\ pc'.task = "batch" /\ pc'.I = pc.I /\ pc'.J = L /\ pc'.i = J
        /\ pc' \in PcType
    BY <1>2, <1>6, <2>1, Labels DEF PcType
  <2>3. Near(J)
    <3>1. \A K \in (J + 1)..pc.I : pred(K) # NIL
      BY <1>6 DEF Batch, GrowsBack
    <3>2. Addr(pc.I) <= Addr(J) + (pc.I - J) * MaxInstr
      BY <1>2, <1>3, <3>1, Distance
    <3>3. pc.I - J <= T0_LIMIT /\ pc.I - J \in Nat
      BY <1>6, <2>0, <2>1 DEF Batch
    <3>4. \A d \in Nat : d <= T0_LIMIT => d * MaxInstr <= T0_LIMIT * MaxInstr
      BY <2>0
    <3>5. (pc.I - J) * MaxInstr <= T0_LIMIT * MaxInstr
      BY <3>3, <3>4
    <3>6. Addr(pc.I) \in Nat /\ Addr(J) \in Nat
      BY <1>3, <2>1, InstrFacts
    <3> DEFINE x == (pc.I - J) * MaxInstr
               y == T0_LIMIT * MaxInstr
    <3>7. /\ x \in Int /\ y \in Int /\ x <= y /\ Addr(pc.I) <= Addr(J) + x /\ Window >= y
      BY <1>3, <2>0, <3>2, <3>3, <3>5
    <3> HIDE DEF x, y
    <3> QED
      BY <1>3, <3>6, <3>7 DEF Near
  <2>4. ASSUME NEW K \in J..L PROVE K \notin before.evicted
    <3>1. K \in Instrs /\ K \in Nat
      BY <2>0, <2>1
    <3>2. before.state[Addr(K)] # "PATCHED"
      <4>1. CASE K < pc.I
        <5>1. K + 1 \in (J + 1)..pc.I /\ (K + 1) - 1 = K
          BY <2>0, <2>1, <3>1, <4>1
        <5>2. GrowsBack(K + 1)
          BY <1>6, <5>1 DEF Batch
        <5>3. Is(m, Addr(K), {"INSTRUCTION", "QUEUED"})
          BY <5>1, <5>2 DEF GrowsBack
        <5> QED
          BY <1>4, <5>3 DEF Is
      <4>2. CASE K = pc.I
        BY <1>3, <4>2 DEF Is
      <4>3. CASE K > pc.I
        <5>1. K \in (pc.I + 1)..L
          BY <2>0, <2>1, <3>1, <4>3
        <5>2. canPatch(m, K)
          BY <1>6, <5>1 DEF Batch, GrowsForward
        <5> QED
          BY <1>4, <5>2 DEF canPatch, Is
      <4> QED
        BY <2>0, <3>1, <4>1, <4>2, <4>3
    <3> QED
      BY <1>4, <3>1, <3>2 DEF Good, Begun
  <2>5. Control'
    BY <1>1, <1>2, <2>1, <2>2, <2>3, <2>4, ControlNext DEF Trying
  <2> QED
    BY <1>1, <1>2, <2>2, <2>5, TurnKept
<1> QED
  BY <1>5, <1>6 DEF tactic_T0

LEMMA T0Free_Kept ==
    ASSUME IInv, T0Free
    PROVE  IInv'
<1>1. /\ pc.at = "free" /\ pc.at # "idle" /\ Within
      /\ m' = patchUnused(Mark(m, pc.J, FALSE), pc.J, 0)
      /\ chain' = <<NewPatch(m, pc.J, NIL)>> \o chain
  BY DEF T0Free
<1>2. /\ TypeOK /\ Control /\ Chained /\ m \in Store /\ pc \in PcType /\ before' = before
  BY <1>1 DEF IInv, TypeOK, PcType, Within
<1>3. /\ pc.task = "batch" /\ pc.i \in Known /\ pc.J \in pc.i..Len(Code) /\ Near(pc.i)
      /\ \A K \in pc.i..pc.J : K \notin before.evicted
  BY <1>1, <1>2 DEF Control
<1>4. /\ pc.J \in Known /\ pc.J \in Instrs /\ pc.i \in Instrs /\ pc.i \in Nat /\ pc.J \in Nat
      /\ pc.i <= pc.J /\ Len(Code) \in Nat
  <2>1. known \in Nat /\ known >= 1 /\ Len(Code) \in Nat /\ Instrs = 1..Len(Code)
    BY <1>2, Constants DEF TypeOK
  <2> QED
    BY <1>3, <2>1 DEF Known
<1>5. Near(pc.J)
  <2>1. Addr(pc.i) \in Nat /\ Addr(pc.J) \in Nat /\ Size(pc.i) \in Nat /\ cursor \in Nat
    BY <1>2, <1>4, InstrFacts DEF TypeOK
  <2>2. CASE pc.i < pc.J
    <3>1. Addr(pc.i) + Size(pc.i) <= Addr(pc.J)
      BY <1>4, <2>2, Ordered
    <3> QED
      BY <1>3, <2>1, <3>1 DEF Near
  <2> QED
    BY <1>3, <1>4, <2>2
<1> DEFINE J == pc.J
           s == Mark(m, J, FALSE)
<1>6. s = Mark([m EXCEPT !.used = m.used, !.no_optimize = m.no_optimize], J, FALSE)
  <2>1. m = [m EXCEPT !.used = m.used, !.no_optimize = m.no_optimize]
    BY <1>2 DEF Store
  <2> QED
    BY <2>1
<1>7. m' = patchUnused(s, J, 0) /\ J \in Instrs
  BY <1>1, <1>4
<1> HIDE DEF s, J
<1>8. Flagged(m, s, J, m.used, m.no_optimize, FALSE)
  <2>1. m.used \in SUBSET Space /\ m.no_optimize \in SUBSET Instrs
    BY <1>2, StoreFacts
  <2> QED
    BY <1>2, <1>6, <1>7, <2>1, FlagsFacts
<1>9. s \in Store
  BY <1>8 DEF Flagged
<1>10. /\ m' \in Store /\ SameFlags(s, m') /\ Applied(s, m', J)
       /\ \A a \in Bytes(J) : Addr(J) + 0 <= a => ~Is(m', a, {"INSTRUCTION", "QUEUED"})
  BY <1>7, <1>9, UnusedFacts
<1>11. \A a \in Bytes(J) : ~Is(m', a, {"INSTRUCTION", "QUEUED"})
  <2>1. Addr(J) \in Nat /\ Size(J) \in Nat
    BY <1>7, InstrFacts
  <2>2. \A a \in Bytes(J) : Addr(J) + 0 <= a
    BY <2>1 DEF Bytes
  <2> QED
    BY <1>10, <2>2
<1>12. /\ Applied(m, m', J) /\ m'.patched = m.patched \cup {J} /\ m'.used = m.used
       /\ m'.evicted = m.evicted /\ m'.no_optimize = m.no_optimize
  BY <1>8, <1>10, AppliedTwice DEF Flagged, SameFlags
<1>13. pc'.task = "batch" /\ pc'.I = pc.I
  BY <1>2, <1>3 DEF T0Free, PcType
<1>14. Pushed(J, NIL)
  BY <1>1, <1>2, <1>7, <1>10, <1>12 DEF Pushed, J
<1>15. Takes(J, NIL)
  <2>1. NIL \notin m.used
    BY <1>2, StoreFacts, Constants
  <2>2. J \notin before.evicted
    BY <1>3, <1>4 DEF J
  <2>3. Near(J)
    BY <1>5 DEF J
  <2> QED
    BY <1>1, <1>3, <1>11, <1>12, <1>13, <1>14, <2>1, <2>2, <2>3 DEF Takes
<1>16. /\ Restorable' /\ Allocated' /\ Good(before, {})' /\ Good(m, Batched)'
       /\ Messages' /\ LookAhead' /\ m' \in Store /\ chain' \in Seq(Patch)
  BY <1>15, TakesKept
<1>17. /\ pc' \in PcType
       /\ \/ pc'.at = "B1" /\ pc'.J = pc.J /\ pc.J = pc.i
          \/ pc'.at = "free" /\ pc'.J = pc.J - 1 /\ pc'.i = pc.i /\ pc.J # pc.i
  <2>1. CASE pc.J = pc.i
    <3>1. pc' = [pc EXCEPT !.at = "B1", !.i = NIL]
      BY <2>1 DEF T0Free
    <3> QED
      BY <1>2, <2>1, <3>1, Labels DEF PcType
  <2>2. CASE pc.J # pc.i
    <3>1. pc' = [pc EXCEPT !.J = pc.J - 1] /\ pc.J - 1 \in Nat
      BY <1>4, <2>2 DEF T0Free
    <3> QED
      BY <1>1, <1>2, <2>2, <3>1 DEF PcType
  <2> QED
    BY <2>1, <2>2
<1>18. TypeOK'
  BY <1>1, <1>2, <1>16, <1>17, TypeNext
<1>19. Control'
  <2>1. CASE pc'.at = "B1" /\ pc'.J = pc.J /\ pc.J = pc.i
    BY <1>1, <1>2, <1>4, <1>5, <1>13, <2>1, ControlNext DEF Trying, Tasks
  <2>2. CASE pc'.at = "free" /\ pc'.J = pc.J - 1 /\ pc'.i = pc.i /\ pc.J # pc.i
    <3>1. pc'.J \in pc'.i..Len(Code) /\ \A K \in pc'.i..pc'.J : K \in pc.i..pc.J
      BY <1>3, <1>4, <2>2
    <3> QED
      BY <1>1, <1>2, <1>3, <1>13, <2>2, <3>1, ControlNext DEF Trying
  <2> QED
    BY <1>17, <2>1, <2>2
<1>20. Chained'
  <2>1. \A k \in DOMAIN chain' : Near(chain[k].I)'
    BY <1>15, TakesNear
  <2>2. ASSUME NEW k \in DOMAIN chain' PROVE ~Own(k)'
    <3>1. k = 1 \/ (k - 1 \in DOMAIN chain /\ chain'[k] = chain[k - 1])
      BY <1>2, <1>14, PushedElements
    <3>2. chain'[1].A = NIL
      BY <1>2, <1>14, PushedChain
    <3>3. \A n \in DOMAIN chain : chain[n].A = NIL
      BY <1>1, <1>2, <1>3 DEF Chained, Own
    <3>4. chain'[k].A = NIL
      BY <3>1, <3>2, <3>3
    <3> QED
      BY <3>4 DEF Own, NIL
  <2> QED
    BY <1>13, <1>17, <2>1, <2>2 DEF Chained, Trying
<1>21. Stores'
  BY <1>13, <1>16 DEF Stores
<1> QED
  BY <1>16, <1>18, <1>19, <1>20, <1>21 DEF IInv

-----------------------------------------------------------------------------
\* Tactic T3.

\* A place where T3 may hide a jump.
IsHideout(J, i) ==
    /\ J \in Known /\ J # pc.I /\ i \in Nat /\ i < Size(J) /\ Near(J)
    /\ Is(m, Addr(J) + i, {"FREE", "INSTRUCTION"})
    /\ i = 0 => Is(m, Addr(J), {"FREE"})
    /\ Size(pc.I) = 1 => ~Is(m, Addr(pc.I) + 1, {"QUEUED"})

LEMMA HideoutsFacts ==
    ASSUME IInv, pc.at = "T3", Size(pc.I) # 1, NEW h \in Hideouts(pc.I)
    PROVE  IsHideout(h[1], h[2])
<1>1. /\ TypeOK /\ pc.I \in Instrs /\ Known \subseteq Instrs
      /\ ~emitted => Addr(pc.I) > cursor + Window
      /\ Window \in Nat /\ cursor \in Nat /\ Window >= SHORT_JMP_MAX + 2 + MaxInstr
  BY Serving DEF IInv
<1> DEFINE I == pc.I
           J == h[1]
           i == h[2]
<1>2. h \in Known \X (0..(MaxInstr - 1)) /\ CanHide(I, J, i)
  BY DEF Hideouts
<1>3. J \in Known /\ J \in Instrs /\ i \in Nat
  <2>1. h[1] \in Known /\ h[2] \in 0..(MaxInstr - 1)
    BY <1>2
  <2>2. MaxInstr \in Nat
    BY Constants
  <2> QED
    BY <1>1, <2>1, <2>2
<1> HIDE DEF I, J, i
<1>4. /\ J # I /\ i < Size(J)
      /\ (Addr(I) + SHORT_SIZE) - (Addr(J) + Size(J) - 1) <= -SHORT_JMP_MIN
      /\ i = 0 => Is(m, Addr(J), {"FREE"})
      /\ Is(m, Addr(J) + i, {"FREE", "INSTRUCTION"})
  BY <1>2 DEF CanHide
<1>5. Near(J)
  <2>1. /\ Addr(I) \in Nat /\ Addr(J) \in Nat /\ Size(J) \in Nat /\ Size(J) <= MaxInstr
        /\ MaxInstr \in Nat /\ BYTE \in Nat
    BY <1>1, <1>3, InstrFacts, Constants DEF I
  <2> DEFINE x == BYTE \div 2
  <2>2. x \in Int /\ SHORT_JMP_MIN = -x /\ SHORT_JMP_MAX = x - 1 /\ SHORT_SIZE = 2
    BY <2>1 DEF SHORT_JMP_MIN, SHORT_JMP_MAX, SHORT_SIZE
  <2> HIDE DEF x
  <2>3. ~emitted => Addr(I) > cursor + Window
    BY <1>1 DEF I
  <2> QED
    BY <1>1, <1>4, <2>1, <2>2, <2>3 DEF Near
<1> QED
  BY <1>3, <1>4, <1>5 DEF IsHideout, I, J, i

LEMMA PunnedFacts ==
    ASSUME IInv, pc.at = "T3", Size(pc.I) = 1, NEW h \in PunnedHideout(pc.I)
    PROVE  IsHideout(h[1], h[2])
<1>1. /\ TypeOK /\ m \in Store /\ pc.I \in Instrs /\ Known \subseteq Instrs
      /\ ~emitted => Addr(pc.I) > cursor + Window
      /\ Window \in Nat /\ cursor \in Nat /\ Window >= SHORT_JMP_MAX + 2 + MaxInstr
  BY Serving DEF IInv, TypeOK
<1> DEFINE I == pc.I
           J == succ(I)
           rel8 == SByte(m.byte[Addr(J)])
           target == Addr(I) + SHORT_SIZE + rel8
           hit == IF target >= Addr(I)
                  THEN {K \in Known : K >= J /\ target \in Bytes(K)}
                  ELSE {K \in Known : K < I /\ target \in Bytes(K)}
           ok == {K \in hit : /\ target > Addr(K)
                              /\ Is(m, target, {"FREE", "INSTRUCTION"})
                              /\ allocatePunnedJump(m, K, target - Addr(K)) # {}}
<1>2. J # NIL /\ canPatch(m, J) /\ h \in {<<K, target - Addr(K)>> : K \in ok}
  BY DEF PunnedHideout
<1>3. PICK K \in ok : h = <<K, target - Addr(K)>>
  BY <1>2
<1>4. /\ K \in Known /\ target \in Bytes(K) /\ target > Addr(K)
      /\ Is(m, target, {"FREE", "INSTRUCTION"})
      /\ K >= J \/ K < I
  BY <1>3
<1>5. J = I + 1 /\ Addr(J) = Addr(I) + 1 /\ J \in Instrs
  <2>1. I # Len(Code) /\ Addr(I) + Size(I) = Addr(I + 1) /\ J = I + 1
    BY <1>2 DEF succ
  <2> QED
    BY <1>1, <2>1, Constants
<1>6. /\ Addr(I) \in Nat /\ I \in Nat /\ Addr(K) \in Nat /\ Size(K) \in Nat /\ Size(K) <= MaxInstr
      /\ K \in Instrs /\ K \in Nat /\ MaxInstr \in Nat /\ BYTE \in Nat
  BY <1>1, <1>4, InstrFacts, Constants
<1>7. m.byte[Addr(J)] \in Digits
  BY <1>1, <1>5, MemFacts, StoreFacts
<1> DEFINE x == BYTE \div 2
<1>8. rel8 \in Int /\ rel8 >= -x - 1
  <2> DEFINE b == m.byte[Addr(J)]
  <2>1. b \in 0..(BYTE - 1)
    BY <1>7 DEF Digits
  <2>2. rel8 = SByte(b)
    OBVIOUS
  <2> HIDE DEF b, rel8
  <2>3. x \in Int /\ 2 * x >= BYTE - 1
    BY <1>6
  <2> QED
    BY <1>6, <2>1, <2>2, <2>3 DEF SByte
<1> HIDE DEF rel8, J
<1>9. target = Addr(I) + 2 + rel8 /\ target \in Int
  BY <1>6, <1>8 DEF SHORT_SIZE
<1> HIDE DEF target, ok, hit
<1>10. target < Addr(K) + Size(K)
  BY <1>4, <1>6, <1>9 DEF Bytes
<1>11. x \in Int /\ SHORT_JMP_MAX = x - 1
  BY <1>6 DEF SHORT_JMP_MAX
<1> HIDE DEF x
<1>12. Near(K)
  <2>1. ~emitted => Addr(I) > cursor + Window
    BY <1>1
  <2> QED
    BY <1>1, <1>6, <1>8, <1>9, <1>10, <1>11, <2>1 DEF Near
<1>13. /\ K # I /\ target - Addr(K) \in Nat /\ target - Addr(K) < Size(K) /\ target - Addr(K) # 0
       /\ Addr(K) + (target - Addr(K)) = target
  BY <1>4, <1>5, <1>6, <1>9, <1>10
<1>14. ~Is(m, Addr(I) + 1, {"QUEUED"})
  BY <1>2, <1>5 DEF canPatch, Is
<1>15. h[1] = K /\ h[2] = target - Addr(K)
  BY <1>3
<1> QED
  BY <1>4, <1>12, <1>13, <1>14, <1>15 DEF IsHideout

LEMMA CandidateFacts ==
    ASSUME IInv, pc.at = "T3", NEW h \in T3Candidates
    PROVE  IsHideout(h[1], h[2])
<1>1. h \in IF Size(pc.I) = 1 THEN PunnedHideout(pc.I) ELSE Hideouts(pc.I)
  BY DEF T3Candidates
<1>2. CASE Size(pc.I) = 1
  BY <1>1, <1>2, PunnedFacts
<1>3. CASE Size(pc.I) # 1
  BY <1>1, <1>3, HideoutsFacts
<1> QED
  BY <1>2, <1>3

LEMMA HideTakes ==
    ASSUME IInv, pc.at = "T3", Within, NEW J, NEW i, IsHideout(J, i),
           NEW e \in allocatePunnedJump(m, J, i), Hide(J, i, e)
    PROVE  /\ Takes(J, e) /\ e # NIL
           /\ Size(pc.I) = 1 => ~Is(m', Addr(pc.I) + 1, {"QUEUED"})
<1>1. /\ TypeOK /\ m \in Store /\ Control /\ chain = <<>> /\ pc.I \in Instrs /\ Known \subseteq Instrs
      /\ J \in Instrs /\ i \in Nat /\ i < Size(J) /\ before' = before
  BY Serving DEF IInv, TypeOK, Control, IsHideout, Within
<1>2. m = before /\ Good(before, {})
  BY <1>1, EmptyChain DEF IInv, Stores
<1>3. /\ e \in Space /\ e \notin m.used /\ e # NIL /\ e \in Int
      /\ \A k \in 0..JMP_SIZE : ~Is(m, Addr(J) + i + k, {"QUEUED"})
  BY Constants DEF allocatePunnedJump
<1> DEFINE v == m.used \cup {e}
           n == IF J < pc.I THEN m.no_optimize \cup {J} ELSE m.no_optimize
           s == Mark([m EXCEPT !.used = v, !.no_optimize = n], J, FALSE)
           free == Is(m, Addr(J) + i, {"FREE"})
<1>4. /\ m' = patchJump(s, J, i, e) /\ chain' = <<NewPatch(m, J, e)>>
      /\ pc' = [pc EXCEPT !.at = IF free THEN "won" ELSE "B1",
                          !.task = "evict3", !.J = J, !.i = i, !.to = e]
  BY DEF Hide
<1>5. v \in SUBSET Space /\ n \in SUBSET Instrs
  BY <1>1, <1>3, StoreFacts
<1> HIDE DEF v, n, s, free
<1>6. Flagged(m, s, J, v, n, FALSE)
  BY <1>1, <1>5, FlagsFacts DEF s
<1>7. /\ s \in Store /\ s.state = m.state /\ s.locked = m.locked /\ Applied(m, s, J)
      /\ s.used = v /\ s.evicted = m.evicted /\ s.patched = m.patched \cup {J}
  BY <1>6 DEF Flagged
<1>8. ASSUME NEW a \in Mem, Addr(J) + i <= a, a <= Addr(J) + i + JMP_SIZE
      PROVE  ~Is(s, a, {"QUEUED"})
  <2>1. a \in Nat /\ Addr(J) \in Nat /\ JMP_SIZE \in Nat
    BY <1>1, InstrFacts, MemFacts, Constants DEF JMP_SIZE
  <2>2. a - (Addr(J) + i) \in 0..JMP_SIZE /\ Addr(J) + i + (a - (Addr(J) + i)) = a
    BY <1>1, <1>8, <2>1
  <2>3. ~Is(m, a, {"QUEUED"})
    BY <1>3, <2>2
  <2> QED
    BY <1>7, <2>3 DEF Is
<1>9. /\ m' \in Store /\ SameFlags(s, m') /\ Applied(s, m', J)
      /\ \A a \in Bytes(J) : a < Addr(J) + i => Same(s, m', a)
  BY <1>1, <1>3, <1>4, <1>7, <1>8, JumpFacts
<1>10. Applied(m, m', J)
  BY <1>7, <1>9, AppliedTwice
<1>11. /\ m'.used = m.used \cup ({e} \ {NIL}) /\ m'.patched = m.patched \cup {J}
       /\ m'.evicted = m.evicted
  BY <1>3, <1>7, <1>9 DEF SameFlags, v
<1>12. Addr(J) \in Nat /\ Addr(J) \in Bytes(J) /\ Addr(J) + i \in Bytes(J) /\ Bytes(J) \subseteq Mem
  <2>1. Addr(J) \in Nat /\ Size(J) \in Nat
    BY <1>1, InstrFacts
  <2> QED
    BY <1>1, <2>1, MemFacts DEF Bytes
<1>13. pc'.task = "evict3" /\ (free => pc'.at = "won")
  BY <1>1, <1>4 DEF TypeOK
<1>14. Pushed(J, e)
  <2>1. chain' = <<NewPatch(m, J, e)>> \o chain
    BY <1>1, <1>4
  <2> QED
    BY <1>1, <1>3, <1>9, <1>10, <1>11, <2>1 DEF Pushed
\* The first byte of J is untouched or was free.
<1>15. ASSUME m'.state[Addr(J)] \in {"PATCHED", "FREE"}, NEW a \in Bytes(J)
       PROVE  ~Is(m', a, {"INSTRUCTION", "QUEUED"})
  <2>1. m.state[Addr(J)] \in {"PATCHED", "FREE"}
    <3>1. CASE i = 0
      BY <3>1 DEF IsHideout, Is
    <3>2. CASE i # 0
      <4>1. Addr(J) < Addr(J) + i
        BY <1>1, <1>12, <3>2
      <4>2. Same(s, m', Addr(J))
        BY <1>9, <1>12, <4>1
      <4> QED
        BY <1>7, <1>15, <4>2 DEF Same
    <3> QED
      BY <3>1, <3>2
  <2>2. ~Is(m, a, {"INSTRUCTION", "QUEUED"})
    BY <1>1, <1>2, <2>1 DEF Good, Closed
  <2> QED
    BY <1>10, <1>12, <2>2, AppliedIs
<1>16. ASSUME J \in before.evicted PROVE free
  <2>1. before.state[Addr(J)] = "PATCHED"
    BY <1>1, <1>2, <1>16 DEF Good, Begun
  <2>2. ~Is(m, Addr(J) + i, {"INSTRUCTION", "QUEUED"})
    BY <1>1, <1>2, <1>12, <2>1 DEF Good, Closed
  <2> QED
    BY <2>2 DEF IsHideout, Is, free
<1>17. ~Is(m, Addr(J) + i, {"QUEUED"})
  BY DEF IsHideout, Is
<1>18. Takes(J, e)
  BY <1>1, <1>3, <1>11, <1>12, <1>13, <1>14, <1>15, <1>16, <1>17 DEF Takes, IsHideout
<1>19. ASSUME Size(pc.I) = 1 PROVE ~Is(m', Addr(pc.I) + 1, {"QUEUED"})
  <2>1. ~Is(m, Addr(pc.I) + 1, {"QUEUED"}) /\ Addr(pc.I) + 1 \in Mem
    BY <1>1, <1>19, MemFacts DEF IsHideout
  <2> QED
    BY <1>10, <2>1, AppliedIs
<1> QED
  BY <1>3, <1>18, <1>19

LEMMA HideKept ==
    ASSUME IInv, pc.at = "T3", Within, NEW J, NEW i, IsHideout(J, i),
           NEW e \in allocatePunnedJump(m, J, i), Hide(J, i, e)
    PROVE  IInv'
<1>1. /\ Takes(J, e) /\ e # NIL
      /\ Size(pc.I) = 1 => ~Is(m', Addr(pc.I) + 1, {"QUEUED"})
  BY HideTakes
<1>2. TypeOK /\ Control /\ chain = <<>> /\ pc \in PcType /\ e \in Space /\ Pushed(J, e)
  BY <1>1 DEF IInv, TypeOK, Control, PcType, allocatePunnedJump, Takes
<1>3. J \in Known /\ J \in Nat /\ i \in Nat /\ J # pc.I /\ Near(J)
  <2>1. J \in Known /\ i \in Nat /\ J # pc.I /\ Near(J)
    BY DEF IsHideout
  <2>2. J \in Instrs
    BY <2>1, Serving
  <2> QED
    BY <2>1, <2>2, InstrFacts
<1>4. /\ Restorable' /\ Allocated' /\ Good(before, {})' /\ Good(m, Batched)'
      /\ Messages' /\ LookAhead' /\ m' \in Store /\ chain' \in Seq(Patch)
  BY <1>1, TakesKept
<1>5. PICK w \in {"won", "B1"} :
          pc' = [pc EXCEPT !.at = w, !.task = "evict3", !.J = J, !.i = i, !.to = e]
  BY DEF Hide
<1>6. /\ pc'.at = w /\ pc'.task = "evict3" /\ pc'.I = pc.I /\ pc'.J = J /\ pc'.to = e
      /\ pc' \in PcType
  BY <1>2, <1>3, <1>5, Labels DEF PcType
<1>7. TypeOK'
  BY <1>2, <1>4, <1>6, TypeNext
<1>8. Control'
  BY <1>1, <1>2, <1>3, <1>6, ControlNext DEF Trying, Tasks
<1>9. Chained'
  <2>1. \A k \in DOMAIN chain' : Near(chain[k].I)'
    BY <1>1, TakesNear
  <2>2. /\ Len(chain') = 1 /\ DOMAIN chain' = 1..1 /\ chain' # <<>>
        /\ chain'[1].I = J /\ chain'[1].A = e
    <3>1. Len(chain) = 0
      BY <1>2
    <3> QED
      BY <1>2, <3>1, PushedChain
  <2>3. \A k \in DOMAIN chain' : k = 1 /\ ~Own(k)'
    BY <1>6, <2>2 DEF Own
  <2> QED
    BY <1>6, <2>1, <2>2, <2>3 DEF Chained, Trying
<1>10. Stores'
  BY <1>1, <1>4, <1>6 DEF Stores, Trying, Size, Addr, Is
<1> QED
  BY <1>4, <1>7, <1>8, <1>9, <1>10 DEF IInv

LEMMA tactic_T3_Kept ==
    ASSUME IInv, tactic_T3
    PROVE  IInv'
<1>1. pc.at = "T3" /\ Within
  BY DEF tactic_T3
<1>2. CASE /\ pc' = [Idle EXCEPT !.at = "B0", !.I = pc.I]
           /\ UNCHANGED <<m, chain>>
  <2>1. TypeOK /\ Control /\ chain = <<>> /\ pc \in PcType
    BY <1>1 DEF IInv, TypeOK, Control, PcType
  <2>2. pc'.at = "B0" /\ pc'.I = pc.I /\ pc' \in PcType
    <3>1. pc' = [at |-> "B0", task |-> "none", I |-> pc.I, J |-> NIL, i |-> NIL, to |-> NIL]
      BY <1>2 DEF Idle
    <3> QED
      BY <2>1, <3>1, Labels DEF PcType
  <2>3. Control'
    BY <1>1, <1>2, <2>1, <2>2, ControlNext DEF Trying
  <2> QED
    BY <1>1, <1>2, <2>1, <2>2, <2>3, TurnKept
<1>3. CASE \E h \in T3Candidates : \E e \in allocatePunnedJump(m, h[1], h[2]) : Hide(h[1], h[2], e)
  <2>1. PICK h \in T3Candidates :
            \E e \in allocatePunnedJump(m, h[1], h[2]) : Hide(h[1], h[2], e)
    BY <1>3
  <2>2. PICK e \in allocatePunnedJump(m, h[1], h[2]) : Hide(h[1], h[2], e)
    BY <2>1
  <2>3. IsHideout(h[1], h[2])
    BY <1>1, CandidateFacts
  <2> QED
    BY <1>1, <2>2, <2>3, HideKept
<1> QED
  BY <1>2, <1>3 DEF tactic_T3

-----------------------------------------------------------------------------
\* Steps that end in the idle state.

LEMMA SettledKept ==
    ASSUME TypeOK', pc' = Idle, chain' = <<>>, before' = m', ORIG' = ORIG, Allocated',
           Whole(m'), Closed(m'), Begins(m', Es'), Waits(m', Q', batched'), Messages', LookAhead'
    PROVE  IInv'
<1>1. pc'.at = "idle" /\ pc'.task = "none"
  BY DEF Idle
<1>2. Control'
  BY <1>1 DEF Control, Idle, NIL, Trying
<1>3. Chained'
  BY <1>1, ChainedNext
<1>4. Restorable'
  BY RestorableNext
<1>5. Good(before, {})'
  BY GoodBefore
<1>6. Good(m, Batched)'
  <2>1. Batched' = {} /\ batched' \cup {} = batched'
    BY <1>1 DEF Batched
  <2>2. Waits(m', Q', batched' \cup Batched')
    BY <2>1
  <2> QED
    BY <2>2, GoodNext
<1>7. Stores'
  BY <1>1, <1>5, <1>6 DEF Stores, Trying
<1> QED
  BY <1>2, <1>3, <1>4, <1>7 DEF IInv

\* The patches c may become final.
Ends(c) ==
    /\ \A k \in DOMAIN c : c[k].I \in Instrs /\ c[k].A \in Space \cup {NIL} /\ k \in Nat
    /\ \A k \in DOMAIN c : c[k].A # NIL =>
          /\ Es[c[k].I] = NIL /\ c[k].A \notin before.used
          /\ \A l \in DOMAIN c :
                c[l].A # NIL /\ (c[l].I = c[k].I \/ c[l].A = c[k].A) => l = k
    /\ m'.used = before.used \cup ({c[k].A : k \in DOMAIN c} \ {NIL})

\* The trampoline of I after that.
LEMMA FinishEs ==
    ASSUME TypeOK, NEW c, Finish(c), Ends(c), NEW I \in Instrs
    PROVE  \/ /\ Es'[I] = Es[I]
              /\ \A k \in DOMAIN c : c[k].I = I => c[k].A = NIL
           \/ \E k \in DOMAIN c : c[k].I = I /\ c[k].A # NIL /\ Es'[I] = c[k].A
<1> DEFINE mine == {k \in DOMAIN c : c[k].I = I /\ c[k].A # NIL}
<1>1. Es'[I] = IF mine = {} THEN Es[I] ELSE c[CHOOSE k \in mine : \A l \in mine : k >= l].A
  BY DEF Finish
<1>2. CASE mine = {}
  BY <1>1, <1>2
<1>3. CASE mine # {}
  <2>1. PICK k \in mine : TRUE
    BY <1>3
  <2>2. \A l \in mine : k >= l
    BY <2>1 DEF Ends
  <2>3. \E x \in mine : \A l \in mine : x >= l
    BY <2>1, <2>2
  <2> DEFINE x == CHOOSE n \in mine : \A l \in mine : n >= l
  <2>4. x \in mine
    <3> HIDE DEF mine
    <3> QED
      BY <2>3
  <2>5. Es'[I] = c[x].A
    BY <1>1, <1>3
  <2> HIDE DEF x
  <2> QED
    BY <2>4, <2>5
<1> QED
  BY <1>2, <1>3

LEMMA FinishAllocated ==
    ASSUME TypeOK, Allocated, NEW c, Finish(c), Ends(c)
    PROVE  Allocated' /\ Es' \in [Instrs -> Space \cup {NIL}]
<1>1. /\ chain' = <<>> /\ before' = m' /\ DOMAIN Es' = Instrs /\ Es \in [Instrs -> Space \cup {NIL}]
      /\ Es' = [I \in Instrs |-> Es'[I]]
  BY DEF Finish, TypeOK
<1>2. \A I \in Instrs :
         \/ /\ Es'[I] = Es[I]
            /\ \A k \in DOMAIN c : c[k].I = I => c[k].A = NIL
         \/ \E k \in DOMAIN c : c[k].I = I /\ c[k].A # NIL /\ Es'[I] = c[k].A
  BY FinishEs
<1>3. Es' \in [Instrs -> Space \cup {NIL}]
  <2>1. \A I \in Instrs : Es'[I] \in Space \cup {NIL}
    BY <1>1, <1>2 DEF Ends
  <2> QED
    BY <1>1, <2>1
<1>4. /\ before.used = {Es[I] : I \in {J \in Instrs : Es[J] # NIL}}
      /\ \A I, J \in Instrs : I # J /\ Es[I] # NIL => Es[I] # Es[J]
  BY DEF Allocated
<1>5. before'.used = {Es'[I] : I \in {J \in Instrs : Es'[J] # NIL}}
  <2>1. ASSUME NEW x \in before.used PROVE \E I \in Instrs : Es'[I] # NIL /\ Es'[I] = x
    <3>1. PICK I \in Instrs : Es[I] # NIL /\ x = Es[I]
      BY <1>4
    <3>2. Es'[I] = Es[I]
      BY <1>2, <3>1 DEF Ends
    <3> QED
      BY <3>1, <3>2
  <2>2. ASSUME NEW k \in DOMAIN c, c[k].A # NIL
        PROVE  \E I \in Instrs : Es'[I] # NIL /\ Es'[I] = c[k].A
    <3>1. c[k].I \in Instrs
      BY DEF Ends
    <3>2. PICK l \in DOMAIN c : c[l].I = c[k].I /\ c[l].A # NIL /\ Es'[c[k].I] = c[l].A
      BY <1>2, <2>2, <3>1
    <3>3. l = k
      BY <2>2, <3>2 DEF Ends
    <3> QED
      BY <2>2, <3>1, <3>2, <3>3
  <2>3. ASSUME NEW I \in Instrs, Es'[I] # NIL PROVE Es'[I] \in m'.used
    <3>1. CASE Es'[I] = Es[I]
      BY <1>4, <2>3, <3>1 DEF Ends
    <3>2. CASE \E k \in DOMAIN c : c[k].A # NIL /\ Es'[I] = c[k].A
      BY <3>2 DEF Ends
    <3> QED
      BY <1>2, <3>1, <3>2
  <2>4. ASSUME NEW x \in m'.used PROVE \E I \in Instrs : Es'[I] # NIL /\ Es'[I] = x
    BY <2>1, <2>2, <2>4 DEF Ends
  <2> QED
    BY <1>1, <2>3, <2>4
<1>6. ASSUME NEW I \in Instrs, NEW J \in Instrs, I # J, Es'[I] # NIL, Es'[I] = Es'[J] PROVE FALSE
  <2>1. ASSUME NEW K \in Instrs, Es'[K] = Es[K], Es'[K] # NIL PROVE Es'[K] \in before.used
    BY <1>4, <2>1
  <2>2. ASSUME NEW K \in Instrs, NEW k \in DOMAIN c, c[k].I = K, c[k].A # NIL, Es'[K] = c[k].A
        PROVE  Es'[K] \notin before.used
    BY <2>2 DEF Ends
  <2>3. CASE Es'[I] = Es[I] /\ Es'[J] = Es[J]
    BY <1>4, <1>6, <2>3
  <2>4. CASE \E k \in DOMAIN c : c[k].I = I /\ c[k].A # NIL /\ Es'[I] = c[k].A
    <3>1. CASE \E k \in DOMAIN c : c[k].I = J /\ c[k].A # NIL /\ Es'[J] = c[k].A
      BY <1>6, <2>4, <3>1 DEF Ends
    <3> QED
      BY <1>2, <1>6, <2>1, <2>2, <2>4, <3>1
  <2>5. CASE \E k \in DOMAIN c : c[k].I = J /\ c[k].A # NIL /\ Es'[J] = c[k].A
    BY <1>2, <1>6, <2>1, <2>2, <2>4, <2>5
  <2> QED
    BY <1>2, <2>3, <2>4, <2>5
<1>7. DOMAIN chain' = {}
  BY <1>1
<1> QED
  BY <1>1, <1>3, <1>5, <1>6, <1>7 DEF Allocated, Instrs, NIL

LEMMA FinishKept ==
    ASSUME IInv, NEW c, Finish(c), Ends(c), m' \in Store,
           Traps' \subseteq Instrs, batched' \subseteq Instrs,
           Whole(m'), Closed(m'), Begins(m', Es'), Waits(m', Q, batched'), LookAhead'
    PROVE  IInv'
<1>1. /\ TypeOK /\ Allocated /\ Messages
      /\ chain' = <<>> /\ pc' = Idle /\ before' = m'
      /\ UNCHANGED <<ORIG, known, Q, cursor, asked, emitted, failed>>
  BY DEF IInv, Finish
<1>2. Allocated' /\ Es' \in [Instrs -> Space \cup {NIL}]
  BY <1>1, FinishAllocated
<1>3. Messages'
  BY <1>1, SameMessages
<1>4. TypeOK'
  <2>1. Known' = Known
    BY <1>1 DEF Known
  <2>2. pc' \in PcType
    BY <1>1, Labels DEF Idle, PcType
  <2>3. chain' \in Seq(Patch)
    BY <1>1
  <2> QED
    BY <1>1, <1>2, <2>1, <2>2, <2>3 DEF TypeOK, Store, Mem, End, Addr, Size, Digits, States, Instrs,
       Patch, Cells, Places, Trying, Tasks, NIL, PcType
<1>5. Waits(m', Q', batched')
  BY <1>1
<1> QED
  BY <1>1, <1>2, <1>3, <1>4, <1>5, SettledKept

\* A patch of the instruction itself, after which patch() is done.
LEMMA PatchedKept ==
    ASSUME IInv, pc.at # "idle", pc.at # "lost", Batched = {}, NEW c, Finish(c), Ends(c),
           m' \in Store, Applied(m, m', pc.I), m'.patched = m.patched \cup {pc.I},
           m'.evicted = m.evicted, m'.state[Addr(pc.I)] = "PATCHED",
           \A a \in Bytes(pc.I) : ~Is(m', a, {"INSTRUCTION", "QUEUED"}),
           \A k \in DOMAIN c : c[k].A # NIL => m'.state[Addr(c[k].I)] = "PATCHED",
           Traps' \subseteq Instrs, batched' = batched
    PROVE  IInv'
<1>1. TypeOK /\ Control /\ Messages /\ LookAhead /\ batched' \subseteq Instrs /\ Good(m, {})
  BY DEF IInv, TypeOK, Stores
<1>2. pc.I \in Instrs /\ Near(pc.I)
  BY Serving
<1>3. Whole(m) /\ Begins(m, Es) /\ Closed(m) /\ Waits(m, Q, batched \cup {})
  BY <1>1, GoodNow
<1>4. Whole(m') /\ Closed(m')
  BY <1>2, <1>3, AppliedWhole, AppliedClosed
<1>5. Begins(m', Es')
  <2> SUFFICES ASSUME NEW I \in Instrs, I \in m'.evicted \/ Es'[I] # NIL
               PROVE  m'.state[Addr(I)] = "PATCHED"
    BY DEF Begins
  <2>1. CASE I \in m.evicted \/ Es[I] # NIL
    <3>1. m.state[Addr(I)] = "PATCHED" /\ Addr(I) \in Mem
      BY <1>3, <2>1, MemFacts DEF Begins
    <3> QED
      BY <3>1, AppliedPatched
  <2>2. CASE I \notin m.evicted /\ Es[I] = NIL
    <3>1. Es'[I] # Es[I]
      BY <2>2
    <3>2. \E k \in DOMAIN c : c[k].I = I /\ c[k].A # NIL
      BY <1>1, <3>1, FinishEs
    <3> QED
      BY <3>2
  <2> QED
    BY <2>1, <2>2
<1>6. Waits(m', Q, batched')
  <2> SUFFICES ASSUME NEW k \in DOMAIN Q, Q[k] \notin batched
               PROVE  \A a \in Bytes(Q[k]) : Is(m', a, {"QUEUED"})
    BY DEF Waits
  <2> DEFINE I == Q[k]
  <2>1. I \in Instrs /\ I # pc.I /\ \A a \in Bytes(I) : Is(m, a, {"QUEUED"})
    BY <1>1, <1>3 DEF Waits, TypeOK, Control
  <2> HIDE DEF I
  <2>2. \A a \in Bytes(I) : Is(m', a, {"QUEUED"})
    BY <1>2, <2>1, AppliedQueued
  <2> QED
    BY <2>2 DEF I
<1>7. LookAhead'
  <2>1. UNCHANGED <<known, cursor, asked, emitted>>
    BY DEF Finish
  <2>2. \A a \in Mem \ Saved(pc.I) : Same(m, m', a)
    BY DEF Applied
  <2> QED
    BY <1>1, <1>2, <2>1, <2>2, LookAheadNext
<1> QED
  BY <1>1, <1>4, <1>5, <1>6, <1>7, FinishKept

LEMMA commit_Kept ==
    ASSUME IInv, commit
    PROVE  IInv'
<1>1. /\ pc.at = "won" /\ pc.task \in {"batch", "self", "self2"} /\ m' = m /\ Finish(chain)
      /\ batched' = IF pc.task = "batch" THEN batched \cup {chain[k].I : k \in DOMAIN chain}
                    ELSE batched
      /\ Traps' = Traps
  BY DEF commit
<1>2. TypeOK /\ Chained /\ Allocated /\ Good(m, Batched) /\ LookAhead /\ chain \in Seq(Patch)
  BY <1>1 DEF IInv, Stores, TypeOK
<1>3. \A k \in DOMAIN chain : chain[k].A # NIL => Own(k)
  BY <1>1 DEF Own
<1>4. Ends(chain)
  <2>1. \A k \in DOMAIN chain : chain[k].I \in Instrs /\ chain[k].A \in Space \cup {NIL} /\ k \in Nat
    <3>1. \A k \in DOMAIN chain : k \in Nat
      BY <1>2
    <3> QED
      BY <1>2, <3>1, ChainFacts
  <2>2. ASSUME NEW k \in DOMAIN chain, chain[k].A # NIL
        PROVE  /\ Es[chain[k].I] = NIL /\ chain[k].A \notin before.used
               /\ \A l \in DOMAIN chain :
                     chain[l].A # NIL /\ (chain[l].I = chain[k].I \/ chain[l].A = chain[k].A) => l = k
    BY <1>1, <1>2, <1>3, <2>2 DEF Chained, Allocated
  <2>3. m'.used = before.used \cup ({chain[k].A : k \in DOMAIN chain} \ {NIL})
    BY <1>1, <1>2 DEF Allocated
  <2> QED
    BY <2>1, <2>2, <2>3 DEF Ends
<1>5. batched' = batched \cup Batched
  <2>1. CASE pc.task = "batch"
    <3>1. {chain[k].I : k \in DOMAIN chain} = {I \in Instrs : InChain(I)}
      BY <1>2, ChainFacts DEF InChain
    <3> QED
      BY <1>1, <2>1, <3>1 DEF Batched
  <2>2. CASE pc.task # "batch"
    BY <1>1, <2>2 DEF Batched
  <2> QED
    BY <2>1, <2>2
<1>6. Whole(m) /\ Begins(m, Es) /\ Closed(m) /\ Waits(m, Q, batched \cup Batched)
  BY <1>2, GoodNow
<1>7. Begins(m', Es')
  <2> SUFFICES ASSUME NEW I \in Instrs, I \in m.evicted \/ Es'[I] # NIL
               PROVE  m.state[Addr(I)] = "PATCHED"
    BY <1>1 DEF Begins
  <2>1. CASE I \in m.evicted \/ Es[I] # NIL
    BY <1>6, <2>1 DEF Begins
  <2>2. CASE I \notin m.evicted /\ Es[I] = NIL
    <3>1. Es'[I] # Es[I]
      BY <2>2
    <3>2. \E k \in DOMAIN chain : chain[k].I = I /\ chain[k].A # NIL
      BY <1>1, <1>2, <1>4, <3>1, FinishEs
    <3> QED
      BY <1>1, <1>2, <1>3, <3>2 DEF Chained
  <2> QED
    BY <2>1, <2>2
<1>8. LookAhead'
  BY <1>1, <1>2 DEF Finish, LookAhead, Known, Instrs, Bytes, Addr, Size, Is
<1>9. /\ m' \in Store /\ Traps' \subseteq Instrs /\ batched' \subseteq Instrs
      /\ Whole(m') /\ Closed(m') /\ Waits(m', Q, batched')
  <2>1. batched' \subseteq Instrs
    BY <1>2, <1>5 DEF TypeOK, Batched
  <2> QED
    BY <1>1, <1>2, <1>5, <1>6, <2>1 DEF TypeOK
<1> QED
  BY <1>1, <1>4, <1>7, <1>8, <1>9, FinishKept

LEMMA tactic_B0_Kept ==
    ASSUME IInv, tactic_B0
    PROVE  IInv'
<1> DEFINE I == pc.I
<1>1. /\ pc.at = "B0" /\ pc.at # "idle" /\ pc.at # "lost" /\ Traps' = Traps \cup {I}
      /\ batched' = batched
  BY DEF tactic_B0
<1>2. TypeOK /\ Control /\ chain = <<>> /\ m \in Store
  BY <1>1 DEF IInv, TypeOK, Control
<1>3. m = before /\ I \in Instrs /\ Es[I] = NIL
  BY <1>1, <1>2, EmptyChain, Serving DEF IInv
<1>4. PICK e \in TrapRoom :
          /\ m' = patchUnused(patchTrap(Mark([m EXCEPT !.used = m.used \cup {e}], I, FALSE), I), I, 1)
          /\ Finish(<<NewPatch(m, I, e)>>)
  BY DEF tactic_B0
<1>5. e \in Space /\ e \notin m.used /\ e # NIL
  BY Constants DEF TrapRoom, allocateTrap
<1> DEFINE v == m.used \cup {e}
           n == m.no_optimize
           s == Mark([m EXCEPT !.used = v], I, FALSE)
           t == patchTrap(s, I)
<1>6. s = Mark([m EXCEPT !.used = v, !.no_optimize = n], I, FALSE)
  <2>1. [m EXCEPT !.used = v] = [m EXCEPT !.used = v, !.no_optimize = n]
    BY <1>2 DEF Store
  <2> QED
    BY <2>1
<1>7. m' = patchUnused(t, I, 1) /\ v \in SUBSET Space /\ n \in SUBSET Instrs
  BY <1>2, <1>4, <1>5, StoreFacts
<1> HIDE DEF s, v, n, I
<1>8. Flagged(m, s, I, v, n, FALSE)
  BY <1>2, <1>3, <1>6, <1>7, FlagsFacts
<1>9. /\ s \in Store /\ Applied(m, s, I) /\ s.used = v /\ s.patched = m.patched \cup {I}
      /\ s.evicted = m.evicted
  BY <1>8 DEF Flagged
<1>10. t \in Store /\ SameFlags(s, t) /\ Applied(s, t, I) /\ t.state[Addr(I)] = "PATCHED"
  BY <1>3, <1>9, TrapFacts
<1> HIDE DEF t
<1>11. /\ m' \in Store /\ SameFlags(t, m') /\ Applied(t, m', I)
       /\ \A a \in Mem : t.state[a] = "PATCHED" => m'.state[a] = "PATCHED"
       /\ \A a \in Bytes(I) : Addr(I) + 1 <= a => ~Is(m', a, {"INSTRUCTION", "QUEUED"})
  BY <1>3, <1>7, <1>10, UnusedFacts
<1>12. Applied(m, m', I)
  BY <1>9, <1>10, <1>11, AppliedTwice
<1>13. /\ m'.used = v /\ m'.patched = m.patched \cup {I} /\ m'.evicted = m.evicted
  BY <1>9, <1>10, <1>11 DEF SameFlags
<1>14. m'.state[Addr(I)] = "PATCHED"
  BY <1>3, <1>10, <1>11, MemFacts
<1>15. ASSUME NEW a \in Bytes(I) PROVE ~Is(m', a, {"INSTRUCTION", "QUEUED"})
  <2>1. Addr(I) \in Nat /\ Size(I) \in Nat
    BY <1>3, InstrFacts
  <2>2. a = Addr(I) \/ Addr(I) + 1 <= a
    BY <2>1 DEF Bytes
  <2> QED
    BY <1>11, <1>14, <2>2 DEF Is
<1> DEFINE c == <<NewPatch(m, I, e)>>
<1>16. Finish(c)
  BY <1>4 DEF I
<1>17. DOMAIN c = {1} /\ c[1].I = I /\ c[1].A = e
  BY DEF NewPatch
<1> HIDE DEF c
<1>18. Ends(c)
  <2>1. {c[k].A : k \in DOMAIN c} = {e}
    BY <1>17
  <2>2. m'.used = before.used \cup ({c[k].A : k \in DOMAIN c} \ {NIL})
    BY <1>3, <1>5, <1>13, <2>1 DEF v
  <2> QED
    BY <1>3, <1>5, <1>17, <2>2 DEF Ends
<1>19. Batched = {}
  BY <1>2 DEF Batched, InChain
<1>20. Traps' \subseteq Instrs
  BY <1>1, <1>2, <1>3 DEF TypeOK, I
<1>21. \A k \in DOMAIN c : c[k].A # NIL => m'.state[Addr(c[k].I)] = "PATCHED"
  BY <1>14, <1>17
<1> QED
  BY <1>1, <1>11, <1>12, <1>13, <1>14, <1>15, <1>16, <1>18, <1>19, <1>20, <1>21, PatchedKept DEF I

\* The chain of T3 with the allocation of the hidden jump given to the instruction.
MovedRest == [k \in DOMAIN chain |->
                IF k = Len(chain) THEN [chain[k] EXCEPT !.A = NIL] ELSE chain[k]]

Moved(c, I, e) ==
    /\ DOMAIN c = 1..(Len(chain) + 1) /\ c[1].I = I /\ c[1].A = e
    /\ \A k \in 1..Len(chain) : c[k + 1].I = chain[k].I
    /\ \A k \in 1..Len(chain) : k # Len(chain) => c[k + 1].A = chain[k].A
    /\ c[Len(chain) + 1].A = NIL

LEMMA MovedRestFacts ==
    ASSUME TypeOK, chain # <<>>
    PROVE  /\ Len(chain) \in Nat \ {0} /\ DOMAIN chain = 1..Len(chain)
           /\ MovedRest \in Seq(Patch) /\ Len(MovedRest) = Len(chain)
           /\ \A k \in 1..Len(chain) : MovedRest[k].I = chain[k].I
           /\ \A k \in 1..Len(chain) : k # Len(chain) => MovedRest[k].A = chain[k].A
           /\ MovedRest[Len(chain)].A = NIL
<1> DEFINE n == Len(chain)
<1>1. n \in Nat \ {0} /\ DOMAIN chain = 1..n /\ \A k \in 1..n : chain[k] \in Patch
  BY DEF TypeOK
<1>3. ASSUME NEW k \in 1..n
      PROVE  /\ MovedRest[k] \in Patch /\ MovedRest[k].I = chain[k].I
             /\ k # n => MovedRest[k].A = chain[k].A
             /\ k = n => MovedRest[k].A = NIL
  <2>1. /\ chain[k] \in Patch
        /\ MovedRest[k] = IF k = n THEN [chain[k] EXCEPT !.A = NIL] ELSE chain[k]
    BY <1>1 DEF MovedRest
  <2> QED
    BY <2>1 DEF Patch
<1>4. MovedRest \in [1..n -> Patch]
  BY <1>1, <1>3 DEF MovedRest
<1>5. MovedRest \in Seq(Patch) /\ Len(MovedRest) = n
  <2> HIDE DEF n
  <2> QED
    BY <1>1, <1>4
<1>6. n \in 1..n
  BY <1>1
<1> QED
  BY <1>1, <1>3, <1>5, <1>6

LEMMA MovedFacts ==
    ASSUME TypeOK, chain # <<>>, NEW I \in Instrs, NEW e \in Space \cup {NIL}, NEW c,
           c = <<NewPatch(m, I, e)>> \o MovedRest
    PROVE  Moved(c, I, e)
<1> DEFINE n == Len(chain)
           P == NewPatch(m, I, e)
<1>2. P \in Patch /\ P.I = I /\ P.A = e
  BY NewPatchFacts DEF TypeOK
<1>4. /\ n \in Nat \ {0} /\ MovedRest \in Seq(Patch) /\ Len(MovedRest) = n
      /\ \A k \in 1..n : MovedRest[k].I = chain[k].I
      /\ \A k \in 1..n : k # n => MovedRest[k].A = chain[k].A
      /\ MovedRest[n].A = NIL
  BY MovedRestFacts
<1>5. c = <<P>> \o MovedRest
  OBVIOUS
<1> HIDE DEF P
<1>6. /\ DOMAIN c = 1..(Len(MovedRest) + 1) /\ c[1] = P
      /\ \A k \in 1..Len(MovedRest) : c[k + 1] = MovedRest[k]
  BY <1>2, <1>4, <1>5, PushFacts
<1>7. n \in 1..n
  BY <1>4
<1> HIDE DEF n
<1>8. /\ DOMAIN c = 1..(n + 1) /\ c[1].I = I /\ c[1].A = e
      /\ \A k \in 1..n : c[k + 1].I = chain[k].I
      /\ \A k \in 1..n : k # n => c[k + 1].A = chain[k].A
      /\ c[n + 1].A = NIL
  BY <1>2, <1>4, <1>6, <1>7
<1> QED
  BY <1>8 DEF Moved, n

LEMMA MovedEnds ==
    ASSUME IInv, pc.at = "won", pc.task = "evict3", NEW c,
           c = <<NewPatch(m, pc.I, pc.to)>> \o MovedRest,
           m'.used = m.used
    PROVE  /\ Ends(c)
           /\ \A k \in DOMAIN c : c[k].A # NIL =>
                 c[k].I = pc.I \/ (c[k].I \in Instrs /\ m.state[Addr(c[k].I)] = "PATCHED")
<1> DEFINE n == Len(chain)
<1>1. /\ TypeOK /\ Chained /\ Control /\ Allocated /\ chain # <<>> /\ pc.to # NIL
      /\ chain[n].A = pc.to /\ pc.to \in Space \cup {NIL}
  BY DEF IInv, Chained, Control, Trying, TypeOK
<1>2. pc.I \in Instrs /\ Es[pc.I] = NIL
  BY Serving
<1>3. /\ n \in Nat \ {0} /\ DOMAIN chain = 1..n
      /\ DOMAIN c = 1..(n + 1) /\ c[1].I = pc.I /\ c[1].A = pc.to
      /\ \A k \in 1..n : c[k + 1].I = chain[k].I
      /\ \A k \in 1..n : k # n => c[k + 1].A = chain[k].A
      /\ c[n + 1].A = NIL
  <2>1. Moved(c, pc.I, pc.to)
    BY <1>1, <1>2, MovedFacts
  <2> QED
    BY <1>1, <2>1, MovedRestFacts DEF Moved
<1> HIDE DEF n
<1>4. ASSUME NEW k \in DOMAIN c
      PROVE  \/ k = 1
             \/ /\ k - 1 \in 1..n /\ c[k].I = chain[k - 1].I
                /\ IF k - 1 = n THEN c[k].A = NIL ELSE c[k].A = chain[k - 1].A
  <2>1. CASE k # 1
    <3>1. k - 1 \in 1..n /\ (k - 1) + 1 = k
      BY <1>3, <2>1
    <3> QED
      BY <1>3, <3>1
  <2> QED
    BY <2>1
\* The others have allocations of their own.
<1>5. ASSUME NEW k \in DOMAIN c, k # 1, c[k].A # NIL
      PROVE  /\ k - 1 \in DOMAIN chain /\ k - 1 # n /\ Own(k - 1)
             /\ c[k].I = chain[k - 1].I /\ c[k].A = chain[k - 1].A
             /\ Es[c[k].I] = NIL /\ c[k].I # pc.I /\ c[k].A # pc.to
             /\ m.state[Addr(c[k].I)] = "PATCHED"
  <2>1. /\ k - 1 \in DOMAIN chain /\ k - 1 # n /\ c[k].I = chain[k - 1].I
        /\ c[k].A = chain[k - 1].A
    BY <1>3, <1>4, <1>5
  <2>2. Own(k - 1)
    BY <1>5, <2>1 DEF Own, n
  <2>3. /\ Es[chain[k - 1].I] = NIL /\ chain[k - 1].I # pc.I
        /\ m.state[Addr(chain[k - 1].I)] = "PATCHED"
    BY <1>1, <2>1, <2>2 DEF Chained
  <2>4. chain[k - 1].A # pc.to
    <3>1. n \in DOMAIN chain
      BY <1>3
    <3> QED
      BY <1>1, <2>1, <3>1 DEF Allocated
  <2> QED
    BY <2>1, <2>2, <2>3, <2>4
<1>6. ASSUME NEW k \in DOMAIN c PROVE c[k].I \in Instrs /\ c[k].A \in Space \cup {NIL} /\ k \in Nat
  <2>1. \A j \in DOMAIN chain : chain[j].I \in Instrs /\ chain[j].A \in Space \cup {NIL}
    BY <1>1, ChainFacts
  <2> QED
    BY <1>1, <1>2, <1>3, <1>4, <2>1
<1>7. \A j \in DOMAIN chain : chain[j].A # NIL =>
         /\ chain[j].A \notin before.used
         /\ \A l \in DOMAIN chain : chain[l].A = chain[j].A => l = j
  BY <1>1 DEF Allocated
<1>8. pc.to \notin before.used
  <2>1. n \in DOMAIN chain
    BY <1>3
  <2> QED
    BY <1>1, <1>7, <2>1
<1>9. ASSUME NEW k \in DOMAIN c, c[k].A # NIL
      PROVE  /\ Es[c[k].I] = NIL /\ c[k].A \notin before.used
             /\ \A l \in DOMAIN c : c[l].A # NIL /\ (c[l].I = c[k].I \/ c[l].A = c[k].A) => l = k
  <2>1. CASE k = 1
    <3>1. c[k].I = pc.I /\ c[k].A = pc.to
      BY <1>3, <2>1
    <3>2. ASSUME NEW l \in DOMAIN c, c[l].A # NIL, c[l].I = c[k].I \/ c[l].A = c[k].A PROVE l = k
      BY <1>5, <2>1, <3>1, <3>2
    <3> QED
      BY <1>2, <1>8, <3>1, <3>2
  <2>2. CASE k # 1
    <3>1. /\ k - 1 \in DOMAIN chain /\ Own(k - 1)
          /\ c[k].I = chain[k - 1].I /\ c[k].A = chain[k - 1].A
          /\ Es[c[k].I] = NIL /\ c[k].I # pc.I /\ c[k].A # pc.to
      BY <1>5, <1>9, <2>2
    <3>2. ASSUME NEW l \in DOMAIN c, c[l].A # NIL, c[l].I = c[k].I \/ c[l].A = c[k].A PROVE l = k
      <4>1. l # 1
        BY <1>3, <3>1, <3>2
      <4>2. /\ l - 1 \in DOMAIN chain /\ Own(l - 1)
            /\ c[l].I = chain[l - 1].I /\ c[l].A = chain[l - 1].A
        BY <1>5, <3>2, <4>1
      <4>3. l - 1 = k - 1
        <5>1. CASE c[l].A = c[k].A
          BY <1>7, <1>9, <3>1, <4>2, <5>1
        <5>2. CASE c[l].I = c[k].I
          BY <1>1, <3>1, <4>2, <5>2 DEF Chained
        <5> QED
          BY <3>2, <5>1, <5>2
      <4> QED
        BY <1>6, <4>3
    <3> QED
      BY <1>7, <1>9, <3>1, <3>2
  <2> QED
    BY <2>1, <2>2
<1>10. {c[k].A : k \in DOMAIN c} \ {NIL} = {chain[k].A : k \in DOMAIN chain} \ {NIL}
  <2>1. ASSUME NEW k \in DOMAIN c, c[k].A # NIL PROVE c[k].A \in {chain[j].A : j \in DOMAIN chain}
    <3>1. n \in DOMAIN chain
      BY <1>3
    <3>2. CASE k = 1
      BY <1>1, <1>3, <3>1, <3>2
    <3>3. CASE k # 1
      BY <1>5, <2>1, <3>3
    <3> QED
      BY <3>2, <3>3
  <2>2. ASSUME NEW j \in DOMAIN chain PROVE chain[j].A \in {c[k].A : k \in DOMAIN c}
    <3>1. CASE j = n
      <4>1. 1 \in DOMAIN c
        BY <1>3
      <4> QED
        BY <1>1, <1>3, <3>1, <4>1
    <3>2. CASE j # n
      <4>1. j + 1 \in DOMAIN c /\ c[j + 1].A = chain[j].A
        BY <1>3, <3>2
      <4> QED
        BY <4>1
    <3> QED
      BY <3>1, <3>2
  <2> QED
    BY <2>1, <2>2
<1>11. Ends(c)
  <2>1. m'.used = before.used \cup ({c[k].A : k \in DOMAIN c} \ {NIL})
    BY <1>1, <1>10 DEF Allocated
  <2> QED
    BY <1>6, <1>9, <2>1 DEF Ends
<1>12. ASSUME NEW k \in DOMAIN c, c[k].A # NIL
       PROVE  c[k].I = pc.I \/ (c[k].I \in Instrs /\ m.state[Addr(c[k].I)] = "PATCHED")
  BY <1>3, <1>5, <1>6, <1>12
<1> QED
  BY <1>11, <1>12


\* The short jump of T3 is a patch of the instruction.
LEMMA ShortStore ==
    ASSUME NEW s \in Store, NEW I \in Instrs, NEW to \in Int,
           Size(I) = 1 => ~Is(s, Addr(I) + 1, {"QUEUED"}),
           NEW t, t = IF Size(I) = 1 THEN patchShortPunned(s, I)
                      ELSE patchUnused(patchShortJump(s, I, to), I, SHORT_SIZE)
    PROVE  /\ t \in Store /\ SameFlags(s, t) /\ Applied(s, t, I)
           /\ t.state[Addr(I)] = "PATCHED"
           /\ \A a \in Bytes(I) : ~Is(t, a, {"INSTRUCTION", "QUEUED"})
<1>1. Addr(I) \in Nat /\ Size(I) \in Nat /\ Size(I) >= 1
  BY InstrFacts
<1>2. CASE Size(I) = 1
  <2>1. t = patchShortPunned(s, I)
    BY <1>2
  <2>2. t \in Store /\ SameFlags(s, t) /\ Applied(s, t, I) /\ t.state[Addr(I)] = "PATCHED"
    BY <1>2, <2>1, ShortOneFacts
  <2>3. \A a \in Bytes(I) : a = Addr(I)
    BY <1>1, <1>2 DEF Bytes
  <2> QED
    BY <2>2, <2>3 DEF Is
<1>3. CASE Size(I) # 1
  <2> DEFINE v == patchShortJump(s, I, to)
  <2>1. t = patchUnused(v, I, SHORT_SIZE) /\ Size(I) >= 2 /\ SHORT_SIZE = 2
    BY <1>1, <1>3 DEF SHORT_SIZE
  <2>2. /\ v \in Store /\ SameFlags(s, v) /\ Applied(s, v, I)
        /\ v.state[Addr(I)] = "PATCHED" /\ v.state[Addr(I) + 1] = "PATCHED"
    BY <2>1, ShortFacts
  <2> HIDE DEF v
  <2>3. /\ t \in Store /\ SameFlags(v, t) /\ Applied(v, t, I)
        /\ \A a \in Mem : v.state[a] = "PATCHED" => t.state[a] = "PATCHED"
        /\ \A a \in Bytes(I) : Addr(I) + SHORT_SIZE <= a => ~Is(t, a, {"INSTRUCTION", "QUEUED"})
    BY <2>1, <2>2, UnusedFacts
  <2>4. Applied(s, t, I)
    BY <2>2, <2>3, AppliedTwice
  <2>5. SameFlags(s, t)
    BY <2>2, <2>3 DEF SameFlags
  <2>6. t.state[Addr(I)] = "PATCHED" /\ t.state[Addr(I) + 1] = "PATCHED"
    BY <2>2, <2>3, MemFacts
  <2>7. ASSUME NEW a \in Bytes(I) PROVE ~Is(t, a, {"INSTRUCTION", "QUEUED"})
    <3>1. a = Addr(I) \/ a = Addr(I) + 1 \/ Addr(I) + SHORT_SIZE <= a
      BY <1>1, <2>1 DEF Bytes
    <3> QED
      BY <2>3, <2>6, <3>1 DEF Is
  <2> QED
    BY <2>3, <2>4, <2>5, <2>6, <2>7
<1> QED
  BY <1>2, <1>3

LEMMA T3Short_Kept ==
    ASSUME IInv, T3Short
    PROVE  IInv'
<1> DEFINE I == pc.I
           to == Addr(pc.J) + pc.i
           v == m.used
           n == m.no_optimize
           s == Mark(m, I, FALSE)
           c == <<NewPatch(m, I, pc.to)>> \o MovedRest
<1>1. /\ pc.at = "won" /\ pc.task = "evict3" /\ pc.at # "idle" /\ pc.at # "lost"
      /\ Traps' = Traps /\ batched' = batched
      /\ m' = IF Size(I) = 1 THEN patchShortPunned(s, I)
              ELSE patchUnused(patchShortJump(s, I, to), I, SHORT_SIZE)
      /\ Finish(c)
  BY DEF T3Short, MovedRest
<1>2. TypeOK /\ Control /\ Stores /\ m \in Store /\ I \in Instrs /\ pc.i \in Nat
  BY <1>1, Serving DEF IInv, TypeOK
<1>3. to \in Int
  <2>1. pc.J \in Instrs
    BY <1>1, <1>2, Serving DEF Control, Trying
  <2> QED
    BY <1>2, <2>1, InstrFacts
<1>4. Size(I) = 1 => ~Is(m, Addr(I) + 1, {"QUEUED"})
  BY <1>1, <1>2 DEF Stores, Trying
<1>5. s = Mark([m EXCEPT !.used = v, !.no_optimize = n], I, FALSE)
  <2>1. m = [m EXCEPT !.used = v, !.no_optimize = n]
    BY <1>2 DEF Store
  <2> QED
    BY <2>1
<1>6. v \in SUBSET Space /\ n \in SUBSET Instrs
  BY <1>2, StoreFacts
<1> HIDE DEF s, v, n, I, to, c
<1>7. Flagged(m, s, I, v, n, FALSE)
  BY <1>2, <1>5, <1>6, FlagsFacts
<1>8. /\ s \in Store /\ Applied(m, s, I) /\ s.used = v /\ s.patched = m.patched \cup {I}
      /\ s.evicted = m.evicted /\ s.state = m.state /\ s.locked = m.locked
  BY <1>7 DEF Flagged
<1>9. Size(I) = 1 => ~Is(s, Addr(I) + 1, {"QUEUED"})
  BY <1>4, <1>8 DEF Is
<1>10. /\ m' \in Store /\ SameFlags(s, m') /\ Applied(s, m', I)
       /\ m'.state[Addr(I)] = "PATCHED"
       /\ \A a \in Bytes(I) : ~Is(m', a, {"INSTRUCTION", "QUEUED"})
  BY <1>1, <1>2, <1>3, <1>8, <1>9, ShortStore
<1>11. Applied(m, m', I)
  BY <1>8, <1>10, AppliedTwice
<1>12. m'.used = m.used /\ m'.patched = m.patched \cup {I} /\ m'.evicted = m.evicted
  BY <1>8, <1>10 DEF SameFlags, v
<1>13. c = <<NewPatch(m, pc.I, pc.to)>> \o MovedRest
  BY DEF c, I
<1>14. /\ Ends(c)
       /\ \A k \in DOMAIN c : c[k].A # NIL =>
             c[k].I = pc.I \/ (c[k].I \in Instrs /\ m.state[Addr(c[k].I)] = "PATCHED")
  BY <1>1, <1>12, <1>13, MovedEnds
<1>15. ASSUME NEW k \in DOMAIN c, c[k].A # NIL PROVE m'.state[Addr(c[k].I)] = "PATCHED"
  <2>1. CASE c[k].I = pc.I
    BY <1>10, <2>1 DEF I
  <2>2. CASE c[k].I \in Instrs /\ m.state[Addr(c[k].I)] = "PATCHED"
    BY <1>11, <2>2, MemFacts, AppliedPatched
  <2> QED
    BY <1>14, <1>15, <2>1, <2>2
<1>16. Batched = {} /\ Traps' \subseteq Instrs
  BY <1>1, <1>2 DEF Batched, TypeOK
<1> QED
  BY <1>1, <1>10, <1>11, <1>12, <1>14, <1>15, <1>16, PatchedKept DEF I

\* patch() gives up.
LEMMA PatchFails_Kept ==
    ASSUME IInv, PatchFails
    PROVE  IInv'
<1>1. /\ pc.at = "B0" /\ pc.at # "idle" /\ pc' = Idle /\ failed' = failed \cup {pc.I}
      /\ UNCHANGED <<ORIG, known, m, chain, before, Q, cursor, asked, emitted, Es, Traps, batched>>
  BY DEF PatchFails
<1>2. TypeOK /\ chain = <<>> /\ Good(before, {})
  BY <1>1 DEF IInv, Control, Stores
<1>3. m = before /\ pc.I \in Instrs
  BY <1>1, <1>2, EmptyChain, Serving DEF IInv
<1>4. pc' \in PcType
  BY <1>1, Labels DEF PcType, Idle
<1>5. TypeOK'
  BY <1>1, <1>2, <1>3, <1>4 DEF TypeOK, PcType, Known
<1>6. Allocated'
  BY <1>1 DEF IInv, Allocated
<1>7. Whole(m') /\ Closed(m') /\ Begins(m', Es') /\ Waits(m', Q', batched')
  <2>1. m' = before /\ Es' = Es /\ Q' = Q /\ batched' = batched \cup {}
    BY <1>1, <1>3
  <2> QED
    BY <1>2, <2>1, GoodNow
<1>8. Messages'
  BY <1>1, SameMessages DEF IInv
<1>9. LookAhead'
  BY <1>1 DEF IInv, LookAhead, Known, Is
<1> QED
  BY <1>1, <1>2, <1>3, <1>5, <1>6, <1>7, <1>8, <1>9, SettledKept

-----------------------------------------------------------------------------
\* Messages.

LEMMA IdleFacts ==
    ASSUME IInv, pc = Idle
    PROVE  /\ chain = <<>> /\ m = before /\ m \in Store
           /\ Whole(m) /\ Closed(m) /\ Begins(m, Es) /\ Waits(m, Q, batched)
<1>1. TypeOK /\ Control /\ Restorable /\ Allocated /\ Good(before, {})
  BY DEF IInv, Stores
<1>2. chain = <<>>
  BY <1>1 DEF Control, Idle
<1>3. m = before
  BY <1>1, <1>2, EmptyChain
<1>4. batched \cup {} = batched
  OBVIOUS
<1> QED
  BY <1>1, <1>2, <1>3, <1>4, GoodNow DEF TypeOK

\* The bytes of instruction K get state v.
Restates(K, v) ==
    /\ m' \in Store /\ SameFlags(m, m') /\ m'.byte = m.byte
    /\ \A a \in Mem \ Bytes(K) : Same(m, m', a)
    /\ \A a \in Bytes(K) : Is(m', a, {v})

LEMMA RestateStore ==
    ASSUME m \in Store, NEW K \in Instrs, NEW v \in States, NEW l \in SUBSET Mem,
           \A a \in Bytes(K) : a \notin l,
           \A a \in Mem \ Bytes(K) : a \in l <=> a \in m.locked,
           m' = [m EXCEPT !.state = Fill(m.state, Bytes(K), v), !.locked = l]
    PROVE  Restates(K, v)
<1> DEFINE f == Fill(m.state, Bytes(K), v)
<1>1. f \in [Mem -> States] /\ IsFill(f, m.state, Bytes(K), v)
  BY StoreFacts, FillFacts
<1>2. \A a \in Bytes(K) : a \in Mem
  BY MemFacts
<1>3. m' = [m EXCEPT !.state = f, !.locked = l]
  OBVIOUS
<1> HIDE DEF f
<1>4. /\ m' \in Store /\ SameFlags(m, m') /\ m'.byte = m.byte /\ m'.state = f /\ m'.locked = l
  BY <1>1, <1>3 DEF Store, SameFlags
<1>5. \A a \in Bytes(K) : Is(m', a, {v})
  BY <1>1, <1>2, <1>4 DEF Is, IsFill
<1>6. \A a \in Mem \ Bytes(K) : Same(m, m', a)
  BY <1>1, <1>4 DEF Same, IsFill
<1> QED
  BY <1>4, <1>5, <1>6 DEF Restates

LEMMA RestatesKept ==
    ASSUME IInv, pc = Idle, NEW K \in Instrs, NEW v \in {"INSTRUCTION", "QUEUED"}, Restates(K, v),
           m.state[Addr(K)] # "PATCHED",
           ORIG' = ORIG, Es' = Es, chain' = chain, before' = m'
    PROVE  /\ Whole(m') /\ Closed(m') /\ Begins(m', Es') /\ Allocated'
           /\ \A I \in Instrs \ {K} : \A a \in Bytes(I) : Same(m, m', a)
<1>1. /\ chain = <<>> /\ m = before /\ Whole(m) /\ Closed(m) /\ Begins(m, Es) /\ Allocated
  BY IdleFacts DEF IInv
<1>2. /\ m'.byte = m.byte /\ m'.used = m.used /\ m'.patched = m.patched /\ m'.evicted = m.evicted
      /\ \A a \in Mem \ Bytes(K) : Same(m, m', a)
      /\ \A a \in Bytes(K) : m'.state[a] = v /\ a \notin m'.locked
  BY DEF Restates, SameFlags, Is
<1>3. ASSUME NEW I \in Instrs, I # K, NEW a \in Bytes(I) PROVE Same(m, m', a)
  BY <1>2, <1>3, MemFacts, Disjoint
<1>4. Whole(m')
  <2>1. ASSUME NEW I \in Instrs \ m'.patched, NEW a \in Bytes(I)
        PROVE  m'.byte[a] = ORIG[a] /\ m'.state[a] \in {"UNKNOWN", "INSTRUCTION", "QUEUED"}
    <3>1. m.byte[a] = ORIG[a] /\ m.state[a] \in {"UNKNOWN", "INSTRUCTION", "QUEUED"}
      BY <1>1, <1>2 DEF Whole
    <3> QED
      BY <1>2, <1>3, <3>1 DEF Same
  <2> QED
    BY <2>1 DEF Whole
<1>5. Closed(m')
  <2>1. ASSUME NEW I \in Instrs, m'.state[Addr(I)] \in {"PATCHED", "FREE"}, NEW a \in Bytes(I)
        PROVE  ~Is(m', a, {"INSTRUCTION", "QUEUED"})
    <3>1. Addr(I) \in Bytes(I) /\ I # K
      BY <1>2, <2>1, MemFacts
    <3>2. Same(m, m', a) /\ Same(m, m', Addr(I))
      BY <1>3, <3>1
    <3> QED
      BY <1>1, <2>1, <3>2 DEF Closed, Same, Is
  <2> QED
    BY <2>1 DEF Closed
<1>6. Begins(m', Es')
  <2>1. ASSUME NEW I \in Instrs, I \in m'.evicted \/ Es'[I] # NIL
        PROVE  m'.state[Addr(I)] = "PATCHED"
    <3>1. m.state[Addr(I)] = "PATCHED" /\ I # K /\ Addr(I) \in Bytes(I)
      BY <1>1, <1>2, <2>1, MemFacts DEF Begins
    <3> QED
      BY <1>3, <3>1 DEF Same
  <2> QED
    BY <2>1 DEF Begins
<1>7. Allocated'
  BY <1>1, <1>2 DEF Allocated
<1> QED
  BY <1>3, <1>4, <1>5, <1>6, <1>7

LEMMA parseInstruction_Kept ==
    ASSUME IInv, parseInstruction
    PROVE  IInv'
<1> DEFINE K == known - 1
<1>1. /\ pc = Idle /\ known > 1 /\ known' = K /\ before' = m'
      /\ \A a \in Bytes(K) : Is(m, a, {"UNKNOWN"})
      /\ m' = [m EXCEPT !.state = Fill(@, Bytes(K), "INSTRUCTION")]
      /\ UNCHANGED <<ORIG, chain, pc, Q, cursor, asked, emitted, Es, Traps, batched, failed>>
  BY DEF parseInstruction
<1>2. TypeOK /\ Messages /\ LookAhead /\ m \in Store /\ known \in 1..(Len(Code) + 1)
  BY DEF IInv, TypeOK
<1>3. K \in Instrs /\ K \in Nat /\ Len(Code) \in Nat
  BY <1>1, <1>2, Constants
<1>4. Restates(K, "INSTRUCTION")
  <2>1. m' = [m EXCEPT !.state = Fill(m.state, Bytes(K), "INSTRUCTION"), !.locked = m.locked]
    BY <1>1, <1>2 DEF Store
  <2>2. \A a \in Bytes(K) : a \notin m.locked
    BY <1>1 DEF Is
  <2> HIDE DEF K
  <2>3. m.locked \in SUBSET Mem
    BY <1>2, StoreFacts
  <2> QED
    BY <1>2, <1>3, <2>1, <2>2, <2>3, PatchedState, RestateStore
<1>5. m.state[Addr(K)] # "PATCHED" /\ Waits(m, Q, batched) /\ chain = <<>>
  BY <1>1, <1>3, MemFacts, IdleFacts DEF Is
<1>6. Known' = Known \cup {K} /\ K \notin Known /\ Known \subseteq Instrs
  BY <1>1, <1>2, <1>3, Constants DEF Known
<1> HIDE DEF K
<1>7. /\ Whole(m') /\ Closed(m') /\ Begins(m', Es') /\ Allocated'
      /\ \A I \in Instrs \ {K} : \A a \in Bytes(I) : Same(m, m', a)
  BY <1>1, <1>3, <1>4, <1>5, RestatesKept
<1>8. TypeOK'
  <2>1. m' \in Store /\ K \in 1..(Len(Code) + 1)
    BY <1>3, <1>4, Constants DEF Restates
  <2> QED
    BY <1>1, <1>2, <1>6, <2>1 DEF TypeOK
<1>9. Waits(m', Q', batched')
  <2>1. ASSUME NEW k \in DOMAIN Q, Q[k] \notin batched, NEW a \in Bytes(Q[k])
        PROVE  Is(m', a, {"QUEUED"})
    <3>1. Is(m, a, {"QUEUED"}) /\ Q[k] \in Instrs
      BY <1>2, <1>5, <2>1 DEF Waits, TypeOK
    <3>2. Q[k] # K
      BY <1>1, <2>1, <3>1 DEF Is
    <3> QED
      BY <1>7, <3>1, <3>2 DEF Same, Is
  <2> QED
    BY <1>1, <2>1 DEF Waits
<1>10. Messages'
  BY <1>1, <1>2, SameMessages
<1>11. LookAhead'
  <2>1. ASSUME NEW I \in Instrs, ~emitted, I \notin asked, option_batch \/ Addr(I) < cursor,
               NEW a \in Bytes(I)
        PROVE  Is(m', a, IF I \in Known' THEN {"INSTRUCTION"} ELSE {"UNKNOWN"})
    <3>1. CASE I = K
      BY <1>4, <1>6, <3>1 DEF Restates
    <3>2. CASE I # K
      <4>1. Is(m, a, IF I \in Known THEN {"INSTRUCTION"} ELSE {"UNKNOWN"})
        BY <1>2, <2>1 DEF LookAhead
      <4> QED
        BY <1>6, <1>7, <3>2, <4>1 DEF Same, Is
    <3> QED
      BY <3>1, <3>2
  <2> QED
    BY <1>1, <2>1 DEF LookAhead, Is, Addr, Bytes, Size, Instrs
<1> QED
  BY <1>1, <1>5, <1>7, <1>8, <1>9, <1>10, <1>11, SettledKept

LEMMA AppendFacts ==
    ASSUME NEW S, NEW q \in Seq(S), NEW x \in S, NEW d, d = Append(q, x)
    PROVE  /\ d \in Seq(S) /\ Len(q) \in Nat /\ DOMAIN q = 1..Len(q)
           /\ DOMAIN d = 1..(Len(q) + 1) /\ d[Len(q) + 1] = x
           /\ \A k \in 1..Len(q) : d[k] = q[k]
OBVIOUS

LEMMA queuePatch_Kept ==
    ASSUME IInv, NEW I \in Wanted, queuePatch(I)
    PROVE  IInv'
<1>1. /\ pc = Idle /\ ~emitted /\ I \in Known /\ I \notin asked
      /\ option_batch \/ Addr(I) < cursor
      /\ Q' = Append(Q, I) /\ asked' = asked \cup {I} /\ before' = m'
      /\ cursor' = IF option_batch THEN cursor ELSE Addr(I)
      /\ m' = [m EXCEPT !.state = Fill(m.state, Bytes(I), "QUEUED"), !.locked = m.locked \ Bytes(I)]
      /\ UNCHANGED <<ORIG, known, chain, pc, emitted, Es, Traps, batched, failed>>
  BY DEF queuePatch
<1>2. TypeOK /\ Messages /\ LookAhead /\ m \in Store /\ Q \in Seq(Instrs) /\ I \in Instrs
  BY CodeAssumption DEF IInv, TypeOK
<1>3. Restates(I, "QUEUED")
  <2>1. m.locked \ Bytes(I) \in SUBSET Mem
    BY <1>2, StoreFacts
  <2> QED
    BY <1>1, <1>2, <2>1, PatchedState, RestateStore
<1>4. m.state[Addr(I)] # "PATCHED" /\ Waits(m, Q, batched) /\ chain = <<>>
  <2>1. \A a \in Bytes(I) : Is(m, a, {"INSTRUCTION"})
    BY <1>1, <1>2 DEF LookAhead
  <2> QED
    BY <1>1, <1>2, <2>1, MemFacts, IdleFacts DEF Is
<1>5. /\ Whole(m') /\ Closed(m') /\ Begins(m', Es') /\ Allocated'
      /\ \A J \in Instrs \ {I} : \A a \in Bytes(J) : Same(m, m', a)
  BY <1>1, <1>2, <1>3, <1>4, RestatesKept
<1>6. /\ Q' \in Seq(Instrs) /\ Len(Q) \in Nat /\ DOMAIN Q = 1..Len(Q)
      /\ DOMAIN Q' = 1..(Len(Q) + 1) /\ Q'[Len(Q) + 1] = I
      /\ \A k \in 1..Len(Q) : Q'[k] = Q[k]
  BY <1>1, <1>2, AppendFacts
<1>7. TypeOK'
  <2>1. m' \in Store /\ cursor' \in Nat
    BY <1>1, <1>2, <1>3, InstrFacts DEF Restates, TypeOK
  <2> QED
    BY <1>1, <1>2, <1>6, <2>1 DEF TypeOK, Known
<1>8. ASSUME NEW k \in DOMAIN Q'
      PROVE  \/ k \in DOMAIN Q /\ Q'[k] = Q[k]
             \/ k = Len(Q) + 1 /\ Q'[k] = I
  <2>1. k \in 1..Len(Q) \/ k = Len(Q) + 1
    BY <1>6
  <2> QED
    BY <1>6, <2>1
<1>9. Waits(m', Q', batched')
  <2>1. ASSUME NEW k \in DOMAIN Q', Q'[k] \notin batched, NEW a \in Bytes(Q'[k])
        PROVE  Is(m', a, {"QUEUED"})
    <3>1. CASE Q'[k] = I
      BY <1>3, <2>1, <3>1 DEF Restates
    <3>2. CASE Q'[k] # I
      <4>1. k \in DOMAIN Q /\ Q'[k] = Q[k] /\ Q[k] \in Instrs
        BY <1>2, <1>8, <3>2
      <4>2. Is(m, a, {"QUEUED"})
        BY <1>4, <2>1, <4>1 DEF Waits
      <4> QED
        BY <1>5, <2>1, <3>2, <4>1, <4>2 DEF Same, Is
    <3> QED
      BY <3>1, <3>2
  <2> QED
    BY <1>1, <2>1 DEF Waits
<1>10. Messages'
  <2>1. ASSUME NEW k \in DOMAIN Q' PROVE Q'[k] \in asked'
    BY <1>1, <1>2, <1>8 DEF Messages
  <2>2. ASSUME NEW k \in DOMAIN Q', NEW l \in DOMAIN Q', Q'[k] = Q'[l] PROVE k = l
    BY <1>1, <1>2, <1>8, <2>2 DEF Messages
  <2>3. ASSUME NEW J \in Instrs, Addr(J) < cursor' PROVE Addr(J) + Size(J) <= cursor'
    <3>1. CASE option_batch
      BY <1>1, <1>2, <2>3, <3>1 DEF Messages
    <3>2. CASE ~option_batch
      <4>1. cursor' = Addr(I) /\ Addr(J) < Addr(I)
        BY <1>1, <2>3, <3>2
      <4>2. /\ Addr(I) \in Nat /\ Addr(J) \in Nat /\ Size(I) \in Nat
            /\ I \in Nat /\ J \in Nat
        BY <1>2, InstrFacts
      <4>3. J < I
        <5>1. CASE I < J
          <6>1. Addr(I) + Size(I) <= Addr(J)
            BY <1>2, <5>1, Ordered
          <6> QED
            BY <4>1, <4>2, <6>1
        <5>2. CASE I = J
          BY <4>1, <4>2, <5>2
        <5> QED
          BY <4>2, <5>1, <5>2
      <4> QED
        BY <1>2, <4>1, <4>3, Ordered
    <3> QED
      BY <3>1, <3>2
  <2> QED
    BY <2>1, <2>2, <2>3 DEF Messages, Addr, Size, Instrs
<1>11. LookAhead'
  <2>1. ASSUME NEW J \in Instrs, J \notin asked', option_batch \/ Addr(J) < cursor',
               NEW a \in Bytes(J)
        PROVE  Is(m', a, IF J \in Known THEN {"INSTRUCTION"} ELSE {"UNKNOWN"})
    <3>1. J # I /\ J \notin asked
      BY <1>1, <2>1
    <3>2. option_batch \/ Addr(J) < cursor
      <4>1. Addr(I) \in Nat /\ Addr(J) \in Nat /\ cursor \in Nat
        BY <1>2, InstrFacts DEF TypeOK
      <4> QED
        BY <1>1, <2>1, <4>1
    <3>3. Is(m, a, IF J \in Known THEN {"INSTRUCTION"} ELSE {"UNKNOWN"})
      BY <1>1, <1>2, <2>1, <3>1, <3>2 DEF LookAhead
    <3> QED
      BY <1>5, <3>1, <3>3 DEF Same, Is
  <2> QED
    BY <1>1, <2>1 DEF LookAhead, Is, Addr, Bytes, Size, Instrs, Known
<1> QED
  BY <1>1, <1>4, <1>5, <1>7, <1>9, <1>10, <1>11, SettledKept

LEMMA emit_Kept ==
    ASSUME IInv, emit
    PROVE  IInv'
<1>1. /\ pc = Idle /\ emitted' = TRUE
      /\ UNCHANGED <<ORIG, known, m, chain, pc, before, Q, cursor, asked, Es, Traps, batched, failed>>
  BY DEF emit
<1>2. /\ chain = <<>> /\ m = before
      /\ Whole(m) /\ Closed(m) /\ Begins(m, Es) /\ Waits(m, Q, batched)
  BY <1>1, IdleFacts
<1>3. TypeOK'
  BY <1>1 DEF IInv, TypeOK, Known
<1>4. Allocated'
  BY <1>1 DEF IInv, Allocated
<1>5. Messages'
  BY <1>1, SameMessages DEF IInv
<1>6. LookAhead'
  BY <1>1 DEF LookAhead
<1>7. Whole(m') /\ Closed(m') /\ Begins(m', Es') /\ Waits(m', Q', batched')
  BY <1>1, <1>2
<1> QED
  BY <1>1, <1>2, <1>3, <1>4, <1>5, <1>6, <1>7, SettledKept

\* What is left of the queue.
LEMMA TailFacts ==
    ASSUME TypeOK, Messages, Q # <<>>, Q' = Tail(Q), UNCHANGED <<asked, cursor>>
    PROVE  /\ Head(Q) \in Instrs /\ Head(Q) \in asked /\ Q' \in Seq(Instrs) /\ Messages'
           /\ \A k \in DOMAIN Q' : k + 1 \in DOMAIN Q /\ Q'[k] = Q[k + 1] /\ Q'[k] # Head(Q)
           /\ \A k \in DOMAIN Q' : Q'[k] \in Instrs
<1>1. Q \in Seq(Instrs)
  BY DEF TypeOK
<1>2. /\ Q' \in Seq(Instrs) /\ Len(Q) \in Nat \ {0} /\ DOMAIN Q = 1..Len(Q)
      /\ DOMAIN Q' = 1..(Len(Q) - 1) /\ Head(Q) = Q[1] /\ Q[1] \in Instrs
      /\ \A k \in 1..(Len(Q) - 1) : Q'[k] = Q[k + 1]
  BY <1>1, PopFacts
<1>3. ASSUME NEW k \in DOMAIN Q'
      PROVE  k \in Nat /\ k + 1 \in DOMAIN Q /\ Q'[k] = Q[k + 1] /\ k + 1 # 1 /\ 1 \in DOMAIN Q
  BY <1>2
<1>4. ASSUME NEW k \in DOMAIN Q' PROVE Q'[k] # Head(Q)
  BY <1>2, <1>3 DEF Messages
<1>5. Messages'
  <2>1. \A k \in DOMAIN Q' : Q'[k] \in asked'
    BY <1>3 DEF Messages
  <2>2. ASSUME NEW k \in DOMAIN Q', NEW l \in DOMAIN Q', Q'[k] = Q'[l] PROVE k = l
    <3>1. k + 1 = l + 1
      BY <1>3, <2>2 DEF Messages
    <3> QED
      BY <1>3, <3>1
  <2>3. \A J \in Instrs : Addr(J) < cursor' => Addr(J) + Size(J) <= cursor'
    BY DEF Messages
  <2> QED
    BY <2>1, <2>2, <2>3 DEF Messages, Addr, Size, Instrs
<1>6. Head(Q) \in asked
  BY <1>2 DEF Messages
<1>7. \A k \in DOMAIN Q' : Q'[k] \in Instrs
  BY <1>1, <1>3
<1> QED
  BY <1>2, <1>3, <1>4, <1>5, <1>6, <1>7

LEMMA DequeueBatched_Kept ==
    ASSUME IInv, DequeueBatched
    PROVE  IInv'
<1>1. /\ pc = Idle /\ Q # <<>> /\ Q' = Tail(Q)
      /\ UNCHANGED <<ORIG, known, m, chain, pc, before, cursor, asked, emitted, Es, Traps, batched, failed>>
  BY DEF DequeueBatched, Flushable
<1>2. /\ chain = <<>> /\ m = before
      /\ Whole(m) /\ Closed(m) /\ Begins(m, Es) /\ Waits(m, Q, batched)
  BY <1>1, IdleFacts
<1>3. /\ Q' \in Seq(Instrs) /\ Messages'
      /\ \A k \in DOMAIN Q' : k + 1 \in DOMAIN Q /\ Q'[k] = Q[k + 1]
  BY <1>1, TailFacts DEF IInv
<1>4. TypeOK'
  BY <1>1, <1>3 DEF IInv, TypeOK, Known
<1>5. Allocated'
  BY <1>1 DEF IInv, Allocated
<1>6. LookAhead'
  BY <1>1 DEF IInv, LookAhead, Is, Known
<1>7. Waits(m', Q', batched')
  BY <1>1, <1>2, <1>3 DEF Waits
<1>8. Whole(m') /\ Closed(m') /\ Begins(m', Es')
  BY <1>1, <1>2
<1> QED
  BY <1>1, <1>2, <1>3, <1>4, <1>5, <1>6, <1>7, <1>8, SettledKept

LEMMA Dequeue_Kept ==
    ASSUME IInv, Dequeue
    PROVE  IInv'
<1> DEFINE I == Head(Q)
<1>1. /\ pc = Idle /\ Q # <<>> /\ Q' = Tail(Q) /\ before' = m'
      /\ emitted \/ (~option_batch /\ Addr(I) > cursor + Window)
      /\ Is(m, Addr(I), {"QUEUED"})
      /\ m' = [m EXCEPT !.state = Fill(m.state, Bytes(I), "INSTRUCTION"),
                        !.locked = m.locked \ Bytes(I)]
      /\ pc' = [Idle EXCEPT !.at = "T0", !.I = I, !.J = I]
      /\ UNCHANGED <<ORIG, known, chain, cursor, asked, emitted, Es, Traps, batched, failed>>
  BY DEF Dequeue, Flushable
<1>2. TypeOK /\ Messages /\ LookAhead /\ m \in Store
  BY DEF IInv, TypeOK
<1>3. /\ I \in Instrs /\ I \in asked /\ Q' \in Seq(Instrs) /\ Messages'
      /\ \A k \in DOMAIN Q' : k + 1 \in DOMAIN Q /\ Q'[k] = Q[k + 1] /\ Q'[k] # I
      /\ \A k \in DOMAIN Q' : Q'[k] \in Instrs
  BY <1>1, <1>2, TailFacts
<1>4. I \in Known /\ I \in Nat
  BY <1>2, <1>3, InstrFacts DEF TypeOK
<1> HIDE DEF I
<1>5. Restates(I, "INSTRUCTION")
  <2>1. m.locked \ Bytes(I) \in SUBSET Mem
    BY <1>2, StoreFacts
  <2> QED
    BY <1>1, <1>2, <1>3, <2>1, PatchedState, RestateStore
<1>6. m.state[Addr(I)] # "PATCHED" /\ Waits(m, Q, batched) /\ chain = <<>>
  BY <1>1, IdleFacts DEF Is
<1>7. /\ Whole(m') /\ Closed(m') /\ Begins(m', Es') /\ Allocated'
      /\ \A J \in Instrs \ {I} : \A a \in Bytes(J) : Same(m, m', a)
  BY <1>1, <1>3, <1>5, <1>6, RestatesKept
<1>8. /\ pc'.at = "T0" /\ pc'.task = "none" /\ pc'.I = I /\ pc'.J = I /\ pc' \in PcType
  BY <1>1, <1>4, Labels DEF PcType, Idle
<1>9. TypeOK'
  <2>1. m' \in Store
    BY <1>5 DEF Restates
  <2> QED
    BY <1>1, <1>2, <1>3, <1>8, <2>1 DEF TypeOK, PcType, Known
<1>10. Waits(m', Q', batched')
  <2>1. ASSUME NEW k \in DOMAIN Q', Q'[k] \notin batched, NEW a \in Bytes(Q'[k])
        PROVE  Is(m', a, {"QUEUED"})
    <3>1. Is(m, a, {"QUEUED"})
      BY <1>3, <1>6, <2>1 DEF Waits
    <3>2. Same(m, m', a)
      BY <1>3, <1>7, <2>1
    <3> QED
      BY <3>1, <3>2 DEF Same, Is
  <2> QED
    BY <1>1, <2>1 DEF Waits
<1>11. LookAhead'
  <2>1. ASSUME NEW J \in Instrs, ~emitted, J \notin asked, option_batch \/ Addr(J) < cursor,
               NEW a \in Bytes(J)
        PROVE  Is(m', a, IF J \in Known THEN {"INSTRUCTION"} ELSE {"UNKNOWN"})
    <3>1. Is(m, a, IF J \in Known THEN {"INSTRUCTION"} ELSE {"UNKNOWN"})
      BY <1>2, <2>1 DEF LookAhead
    <3>2. Same(m, m', a)
      BY <1>3, <1>7, <2>1
    <3> QED
      BY <3>1, <3>2 DEF Same, Is
  <2> QED
    BY <1>1, <2>1 DEF LookAhead, Is, Addr, Bytes, Size, Instrs, Known
<1>12. Control'
  <2>1. Is(before', Addr(I), {"INSTRUCTION"})
    BY <1>1, <1>3, <1>5, MemFacts DEF Restates
  <2>2. \A k \in DOMAIN Q' : Q'[k] # pc'.I
    BY <1>3, <1>8
  <2>3. ~emitted' => ~option_batch /\ Addr(pc'.I) > cursor' + Window
    BY <1>1, <1>8
  <2>4. pc'.I \in Known'
    BY <1>1, <1>4, <1>8 DEF Known
  <2>5. Is(before', Addr(pc'.I), {"INSTRUCTION"})
    BY <1>8, <2>1
  <2>6. chain' = <<>>
    BY <1>1, <1>6
  <2> QED
    BY <1>8, <2>2, <2>3, <2>4, <2>5, <2>6 DEF Control, Is, Addr, Trying
<1>13. Chained' /\ Restorable'
  BY <1>1, <1>6, <1>8, ChainedNext, RestorableNext
<1>14. Stores'
  <2>1. Good(before, {})'
    BY <1>1, <1>7, <1>10, GoodBefore
  <2>2. Batched' = {} /\ batched' \cup {} = batched'
    BY <1>8 DEF Batched
  <2>3. Waits(m', Q', batched' \cup Batched')
    BY <1>10, <2>2
  <2>4. Good(m, Batched)'
    BY <1>1, <1>7, <2>3, GoodNext
  <2> QED
    BY <1>8, <2>1, <2>4 DEF Stores, Trying
<1> QED
  BY <1>3, <1>7, <1>9, <1>11, <1>12, <1>13, <1>14 DEF IInv

-----------------------------------------------------------------------------
\* The inductive invariant.

LEMMA InitKept ==
    ASSUME Init
    PROVE  IInv
<1>1. /\ ORIG \in Contents /\ known = Len(Code) + 1
      /\ m = [byte   |-> [a \in Mem |-> IF a < End THEN ORIG[a] ELSE 0],
              state  |-> [a \in Mem |-> "UNKNOWN"],
              locked |-> {}, used |-> {}, patched |-> {}, evicted |-> {},
              no_optimize |-> {}]
      /\ chain = <<>> /\ pc = Idle /\ before = m
      /\ Q = <<>> /\ cursor = End /\ asked = {} /\ emitted = FALSE
      /\ Es = [I \in Instrs |-> NIL] /\ Traps = {} /\ batched = {} /\ failed = {}
  BY DEF Init
<1>2. /\ Len(Code) \in Nat \ {0} /\ Instrs = 1..Len(Code) /\ NIL \notin Space
  BY Constants
<1>3. End \in Nat /\ Mem \subseteq Nat /\ \A I \in Instrs : Addr(I) + Size(I) <= End
  BY <1>2, MemFacts
<1>4. \A a \in Mem : a < End => a \in 0..(End - 1) /\ ORIG[a] \in Digits
  BY <1>1, <1>3, MachineAssumption
<1>5. 0 \in Digits
  BY Opcodes, Constants DEF Digits
<1>6. /\ m \in Store
      /\ m.state = [a \in Mem |-> "UNKNOWN"] /\ m.locked = {} /\ m.used = {}
      /\ m.patched = {} /\ m.evicted = {}
      /\ m.byte = [a \in Mem |-> IF a < End THEN ORIG[a] ELSE 0]
  BY <1>1, <1>4, <1>5 DEF Store, States
<1>7. \A I \in Instrs : \A a \in Bytes(I) : a \in Mem /\ a < End
  BY <1>3, MemFacts
<1>8. TypeOK
  <2>1. pc \in PcType
    BY <1>1, Labels DEF PcType, Idle
  <2>2. known \in 1..(Len(Code) + 1) /\ Known = {}
    BY <1>1, <1>2 DEF Known
  <2>3. chain \in Seq(Patch) /\ Q \in Seq(Instrs)
    BY <1>1
  <2>4. Es \in [Instrs -> Space \cup {NIL}]
    BY <1>1
  <2>5. /\ ORIG \in Contents /\ m \in Store /\ before \in Store /\ cursor \in Nat
        /\ asked \subseteq Known /\ emitted \in BOOLEAN
        /\ Traps \subseteq Instrs /\ batched \subseteq Instrs /\ failed \subseteq Instrs
    BY <1>1, <1>3, <1>6
  <2> QED
    BY <2>1, <2>2, <2>3, <2>4, <2>5 DEF TypeOK, PcType
<1>9. pc.at = "idle" /\ pc.task = "none" /\ DOMAIN chain = {} /\ DOMAIN Q = {}
  BY <1>1 DEF Idle
<1>10. Control
  BY <1>1, <1>9 DEF Control, Trying
<1>11. Chained
  BY <1>1, <1>9 DEF Chained, Trying
<1>12. Restorable
  BY <1>1, <1>9 DEF Restorable, BytesKept, MarksKept, EvictedKept, OptimizeKept, InChain
<1>13. Allocated
  BY <1>1, <1>6, <1>9 DEF Allocated
<1>14. Good(m, {})
  <2>1. Whole(m)
    BY <1>6, <1>7 DEF Whole
  <2>2. Begun(m)
    BY <1>1, <1>6 DEF Begun
  <2>3. Closed(m)
    BY <1>6, MemFacts DEF Closed
  <2>4. Queued(m, {})
    BY <1>9 DEF Queued
  <2> QED
    BY <2>1, <2>2, <2>3, <2>4 DEF Good
<1>15. Stores
  <2>1. Batched = {}
    BY <1>9 DEF Batched
  <2> QED
    BY <1>1, <1>9, <1>14, <2>1 DEF Stores, Trying
<1>16. Messages
  BY <1>1, <1>3, <1>9 DEF Messages
<1>17. LookAhead
  <2>1. Known = {}
    BY <1>1, <1>2 DEF Known
  <2> QED
    BY <1>6, <1>7, <2>1 DEF LookAhead, Is
<1> QED
  BY <1>8, <1>10, <1>11, <1>12, <1>13, <1>15, <1>16, <1>17 DEF IInv

LEMMA StutterKept ==
    ASSUME IInv, UNCHANGED vars
    PROVE  IInv'
<1>1. UNCHANGED <<ORIG, known, m, chain, pc, before, Q, cursor, asked, emitted, Es, Traps, batched, failed>>
  BY DEF vars
<1>2. TypeOK'
  BY <1>1 DEF IInv, TypeOK, Known
<1>3. Control'
  BY <1>1 DEF IInv, Control, Known, Near
<1>4. Chained'
  BY <1>1 DEF IInv, Chained, Own, Near
<1>5. Restorable'
  BY <1>1 DEF IInv, Restorable, BytesKept, MarksKept, EvictedKept, OptimizeKept, InChain
<1>6. Allocated'
  BY <1>1 DEF IInv, Allocated
<1>7. Stores'
  BY <1>1 DEF IInv, Stores, Good, Whole, Begun, Closed, Queued, Batched, InChain
<1>8. Messages'
  BY <1>1 DEF IInv, Messages
<1>9. LookAhead'
  BY <1>1 DEF IInv, LookAhead, Known
<1> QED
  BY <1>2, <1>3, <1>4, <1>5, <1>6, <1>7, <1>8, <1>9 DEF IInv

LEMMA NextKept ==
    ASSUME IInv, [Next]_vars
    PROVE  IInv'
<1>1. CASE UNCHANGED vars
  BY <1>1, StutterKept
<1>2. CASE parseInstruction
  BY <1>2, parseInstruction_Kept
<1>3. CASE \E I \in Wanted : queuePatch(I)
  BY <1>3, queuePatch_Kept
<1>4. CASE emit
  BY <1>4, emit_Kept
<1>5. CASE Work
  BY <1>5, Dequeue_Kept, DequeueBatched_Kept, tactic_B1_Kept, tactic_B2_Kept, tactic_T1_Kept,
     commit_Kept, undo_Kept, NextTactic_Kept, tactic_T0_Kept, T0Free_Kept, tactic_T2_Kept,
     T2Again_Kept, tactic_T3_Kept, T3Short_Kept, tactic_B0_Kept, PatchFails_Kept DEF Work
<1>6. CASE Done
  BY <1>6, StutterKept DEF Done
<1> QED
  BY <1>1, <1>2, <1>3, <1>4, <1>5, <1>6 DEF Next

-----------------------------------------------------------------------------
\* The theorems.

\* Whatever messages arrive and whatever the tactics do with them, the chain of patches
\* describes how to get back from the present memory to that of the start of patch(),
\* the allocations are those of the entries and of the chain, and the bytes of
\* instructions that are not patched belong to them alone.
THEOREM Inductive == Spec => []IInv
<1>1. Init => IInv
  BY InitKept
<1>2. IInv /\ [Next]_vars => IInv'
  BY NextKept
<1> QED
  BY <1>1, <1>2, PTL DEF Spec

\* patch(), its tactics and the queue keep every variable in its type: in particular no
\* write of a jump, a trap or an undo leaves the mapped bytes.
THEOREM TypeCorrect == Spec => []TypeOK
<1>1. IInv => TypeOK
  BY DEF IInv
<1> QED
  BY <1>1, Inductive, PTL

\* undo(): a tactic that gives up, after any number of evictions, freed instructions and
\* hidden jumps, leaves bytes, states, locks, flags and allocations as patch() found them.
THEOREM GivesUpCleanly == Spec => []UndoExact
<1>1. IInv => UndoExact
  BY EmptyChain DEF IInv, UndoExact
<1> QED
  BY <1>1, Inductive, PTL

\* Between calls of patch(), an instruction that is not patched has its original bytes,
\* whatever jumps were punned with them.
THEOREM UnpatchedIntact == Spec => []Intact
<1>1. ASSUME IInv PROVE Intact
  <2>1. ASSUME pc = Idle PROVE Whole(m)
    BY <1>1, <2>1, IdleFacts
  <2> QED
    BY <2>1 DEF Whole, Intact
<1> QED
  BY <1>1, Inductive, PTL

\* Between calls of patch(), the allocated addresses are those of the trampoline entries,
\* one for each: no tactic leaks an allocation or gives one to two patches.
THEOREM AllocationsOwned == Spec => []NoLeak
<1>1. ASSUME IInv PROVE NoLeak
  <2>1. ASSUME pc = Idle
        PROVE  /\ m.used = {Es[I] : I \in {J \in Instrs : Es[J] # NIL}}
               /\ \A I, J \in Instrs : I # J /\ Es[I] # NIL => Es[I] # Es[J]
    <3>1. m = before /\ Allocated
      BY <1>1, <2>1, IdleFacts DEF IInv
    <3> QED
      BY <3>1 DEF Allocated
  <2> QED
    BY <2>1 DEF NoLeak
<1> QED
  BY <1>1, Inductive, PTL

\* queueFlush() may count an entry that is no longer queued as patched by a T0 batch.
THEOREM BatchAssumed == Spec => []AssumedT0
<1>1. ASSUME IInv PROVE AssumedT0
  <2>1. ASSUME pc = Idle, NEW k \in DOMAIN Q
        PROVE  Q[k] \in batched \/ \A a \in Bytes(Q[k]) : Is(m, a, {"QUEUED"})
    <3>1. Waits(m, Q, batched)
      BY <1>1, <2>1, IdleFacts
    <3> QED
      BY <3>1 DEF Waits
  <2> QED
    BY <2>1 DEF AssumedT0
<1> QED
  BY <1>1, Inductive, PTL

\* The window of queueFlush() is wide enough for every instruction length, batch limit
\* and jump range: no tactic reaches an instruction that a message can still be about.
THEOREM LooksFarEnough == Spec => []LookAhead
<1>1. IInv => LookAhead
  BY DEF IInv
<1> QED
  BY <1>1, Inductive, PTL
=============================================================================
