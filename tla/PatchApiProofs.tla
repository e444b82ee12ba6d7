--------------------------- MODULE PatchApiProofs ---------------------------
(***************************************************************************)
(* The guarantees of the message protocol in incremental mode, for every   *)
(* set of instructions, look-ahead, set of options and message stream.     *)
(***************************************************************************)
EXTENDS PatchApi, SequenceTheorems, TLAPS

\* What push_front() does to the queue.
LEMMA AppendFacts ==
    ASSUME NEW S, NEW s \in Seq(S), NEW e \in S
    PROVE  /\ Append(s, e) \in Seq(S)
           /\ Len(s) \in Nat /\ Len(Append(s, e)) = Len(s) + 1
           /\ \A k \in 1..Len(s) : Append(s, e)[k] = s[k]
           /\ Append(s, e)[Len(s) + 1] = e
           /\ Append(s, e) # <<>>
OBVIOUS

\* What back() and pop_back() do to the queue.
LEMMA TailFacts ==
    ASSUME NEW S, NEW s \in Seq(S), s # <<>>
    PROVE  /\ Head(s) = s[1] /\ s[1] \in S
           /\ Tail(s) \in Seq(S)
           /\ Len(s) \in Nat /\ Len(s) >= 1 /\ Len(Tail(s)) = Len(s) - 1
           /\ \A k \in 1..Len(Tail(s)) : Tail(s)[k] = s[k + 1]
           /\ (Tail(s) = <<>>) <=> (Len(s) = 1)
<1>1. Len(s) \in Nat \ {0} /\ Head(s) = s[1] /\ s[1] \in S
  BY EmptySeq, ElementOfSeq
<1>2. /\ Tail(s) \in Seq(S) /\ Len(Tail(s)) = Len(s) - 1
      /\ \A k \in 1..Len(Tail(s)) : Tail(s)[k] = s[k + 1]
  BY HeadTailProperties
<1>3. (Tail(s) = <<>>) <=> (Len(Tail(s)) = 0)
  BY <1>2, EmptySeq
<1> QED
  BY <1>1, <1>2, <1>3

\* The elements of the queue and of what is done.
LEMMA ElementTypes ==
    ASSUME TypeOK
    PROVE  /\ Len(Q) \in Nat /\ Len(done) \in Nat
           /\ \A k \in Ks(Q) : Q[k] \in Entry /\ Q[k].I \in Int /\ Q[k].said \in [Flags -> BOOLEAN]
           /\ \A k \in Ks(done) : done[k] \in Record /\ done[k].I \in Int
<1>1. Q \in Seq(Entry) /\ done \in Seq(Record)
  BY DEF TypeOK
<1>2. Len(Q) \in Nat /\ Len(done) \in Nat
  BY <1>1
<1>3. \A k \in Ks(Q) : Q[k] \in Entry
  BY <1>1, ElementOfSeq DEF Ks
<1>4. \A k \in Ks(done) : done[k] \in Record
  BY <1>1, ElementOfSeq DEF Ks
<1> QED
  BY <1>2, <1>3, <1>4, ApiAssumption DEF Entry, Record

\* An argv changes some options and leaves them options.
LEMMA ApplyType ==
    ASSUME NEW v \in Argvs, NEW o \in [Flags -> BOOLEAN]
    PROVE  /\ Apply(v, o) \in [Flags -> BOOLEAN]
           /\ "batch" \notin DOMAIN v => Apply(v, o)["batch"] = o["batch"]
BY ApiAssumption DEF Apply

LEMMA InitOK == Incremental /\ Init => IInv
<1> SUFFICES ASSUME Incremental, Init PROVE IInv
  OBVIOUS
<1>1. TypeOK
  BY ApiAssumption DEF Init, TypeOK
<1>2. ~option_batch
  BY DEF Init, Incremental, option_batch
<1>3. Q = <<>> /\ done = <<>> /\ Len(Q) = 0 /\ Len(done) = 0
  BY DEF Init
<1>4. Started /\ Ahead /\ Accounted
  BY <1>3 DEF Init, Started, Ahead, Accounted, Ks
<1>5. Descending /\ Chained
  BY <1>3 DEF Init, Descending, ReverseOrder, Chained, OptionsInOrder, Ks
<1>6. Emission
  BY DEF Init, Emission
<1> QED
  BY <1>1, <1>2, <1>4, <1>5, <1>6 DEF IInv

\* Most messages touch neither the queue nor what has been patched.
LEMMA QuietOK ==
    ASSUME IInv, pc' \in {"closed", "ready", "flush", "error"}, Is' \subseteq Addresses,
           UNCHANGED <<patch, Q, cursor, options, done, emits, said>>
    PROVE  IInv'
<1>1. TypeOK'
  BY DEF IInv, TypeOK
<1>2. ~option_batch' /\ Started' /\ Ahead' /\ Accounted'
  BY DEF IInv, option_batch, Started, Ahead, Accounted, Ks
<1>3. Descending' /\ Chained'
  BY DEF IInv, Descending, ReverseOrder, Chained, SaidBefore, OptionsInOrder, Ks
<1>4. Emission'
  BY DEF IInv, Emission, Ks
<1> QED
  BY <1>1, <1>2, <1>3, <1>4 DEF IInv

\* An entry that continues from the last options keeps the chain.
LEMMA ChainAppend ==
    ASSUME Chained, Q \in Seq(Entry), NEW e \in Entry, Q' = Append(Q, e),
           options' = options, done' = done, said' = e.said,
           e.said = IF e.options THEN Apply(e.argv, said) ELSE said
    PROVE  Chained'
<1>0. PICK n : n = Len(Q) + 1
  OBVIOUS
<1>1. /\ n = Len(Q) + 1 /\ Len(Q) \in Nat /\ Len(Q') = n /\ Q' # <<>>
      /\ \A k \in 1..Len(Q) : Q'[k] = Q[k]
      /\ Q'[n] = e
  BY <1>0, AppendFacts
<1>2. SaidBefore(n)' = said
  <2>1. CASE Q = <<>>
    BY <1>1, <2>1 DEF Chained, SaidBefore
  <2>2. CASE Q # <<>>
    <3>1. Len(Q) \in 1..Len(Q)
      BY <1>1, <2>2, EmptySeq
    <3> QED
      BY <1>1, <2>2, <3>1 DEF Chained, SaidBefore
  <2> QED
    BY <2>1, <2>2
<1>3. ASSUME NEW k \in Ks(Q)'
      PROVE  Q'[k].said = IF Q'[k].options THEN Apply(Q'[k].argv, SaidBefore(k)')
                          ELSE SaidBefore(k)'
  <2>1. CASE k = n
    BY <1>1, <1>2, <2>1
  <2>2. CASE k \in 1..Len(Q)
    <3>1. k = 1 \/ k - 1 \in 1..Len(Q)
      BY <1>1, <2>2
    <3>2. SaidBefore(k)' = SaidBefore(k)
      BY <1>1, <3>1 DEF SaidBefore
    <3> QED
      BY <1>1, <2>2, <3>2 DEF Chained, Ks
  <2>3. k = n \/ k \in 1..Len(Q)
    BY <1>1 DEF Ks
  <2> QED
    BY <2>1, <2>2, <2>3
<1>4. said' = Q'[Len(Q')].said
  BY <1>1
<1>5. OptionsInOrder'
  BY DEF Chained, OptionsInOrder
<1>6. (\A k \in Ks(Q) : Q[k].said = IF Q[k].options THEN Apply(Q[k].argv, SaidBefore(k))
                                    ELSE SaidBefore(k))'
  BY <1>3 DEF Apply
<1> QED
  BY <1>1, <1>4, <1>5, <1>6 DEF Chained

\* A "patch" message that is accepted is queued behind everything else.
LEMMA PatchOK ==
    ASSUME IInv, NEW I \in Addresses, I < cursor,
           pc' = "flush", cursor' = I, patch' = patch \cup {I}, Q' = Append(Q, PatchEntry(I)),
           UNCHANGED <<Is, options, done, emits, said>>
    PROVE  IInv'
<1> DEFINE n == Len(Q) + 1
<1>1. PatchEntry(I) \in Entry /\ Q \in Seq(Entry)
      /\ PatchEntry(I).options = FALSE /\ PatchEntry(I).I = I /\ PatchEntry(I).said = said
  BY ApiAssumption DEF PatchEntry, Entry, IInv, TypeOK
<1>2. /\ Q' \in Seq(Entry) /\ Len(Q) \in Nat /\ Len(Q') = n
      /\ \A k \in 1..Len(Q) : Q'[k] = Q[k]
      /\ Q'[n] = PatchEntry(I) /\ Q' # <<>>
  BY <1>1, AppendFacts
<1>3. I \in Int /\ INTPTR_MIN < I /\ I < INTPTR_MAX /\ INTPTR_MIN + Window < I /\ cursor \in Int
      /\ Window \in Nat /\ INTPTR_MIN \in Int
  BY ApiAssumption DEF IInv, TypeOK
<1>4. TypeOK'
  BY <1>1, <1>2 DEF IInv, TypeOK
<1>5. ~option_batch' /\ Started'
  BY <1>3 DEF IInv, option_batch, Started
<1>6. Ahead'
  <2> SUFFICES ASSUME NEW k \in Ks(done) PROVE done[k].I > I + Window
    BY DEF Ahead, Ks
  <2>1. done[k].I \in Int
    BY ElementTypes DEF IInv
  <2>2. cursor # INTPTR_MIN
    BY <1>3
  <2> QED
    BY <1>3, <2>1, <2>2 DEF IInv, Ahead
<1>7. Descending'
  <2>1. \A k \in 1..Len(Q) : Q[k].I \in Int /\ (~Q[k].options => Q[k].I > I)
    BY <1>3, ElementTypes DEF IInv, Descending, Ks
  <2>2. \A k \in Ks(done) : done[k].I > I
    <3> SUFFICES ASSUME NEW k \in Ks(done) PROVE done[k].I > I
      OBVIOUS
    <3>1. done[k].I \in Int
      BY ElementTypes DEF IInv
    <3>2. cursor # INTPTR_MIN
      BY <1>3
    <3> QED
      BY <1>3, <3>1, <3>2 DEF IInv, Ahead
  <2>3. \A k, l \in 1..n : k < l /\ ~Q'[k].options /\ ~Q'[l].options => Q'[k].I > Q'[l].I
    BY <1>1, <1>2, <2>1 DEF IInv, Descending, Ks
  <2>4. \A k \in 1..n : ~Q'[k].options => Q'[k].I >= I
    BY <1>1, <1>2, <1>3, <2>1
  <2>5. \A k \in Ks(done), l \in 1..n : ~Q'[l].options => done[k].I > Q'[l].I
    BY <1>1, <1>2, <2>2 DEF IInv, Descending, Ks
  <2>6. ReverseOrder'
    BY DEF IInv, Descending, ReverseOrder
  <2> QED
    BY <1>2, <2>3, <2>4, <2>5, <2>6 DEF Descending, Ks
<1>8. Chained'
  BY <1>1, ChainAppend DEF IInv
<1>9. Accounted'
  <2> SUFFICES ASSUME NEW J \in patch'
               PROVE  \/ \E k \in 1..n : ~Q'[k].options /\ Q'[k].I = J
                      \/ \E k \in Ks(done) : done[k].I = J
    BY <1>2 DEF Accounted, Ks
  <2>1. CASE J = I
    BY <1>1, <1>2, <2>1
  <2>2. CASE J \in patch
    BY <1>2, <2>2 DEF IInv, Accounted, Ks
  <2> QED
    BY <2>1, <2>2
<1>10. Emission'
  BY <1>3 DEF IInv, Emission
<1> QED
  BY <1>4, <1>5, <1>6, <1>7, <1>8, <1>9, <1>10 DEF IInv

\* An "options" message that is queued changes nothing that is patched before.
LEMMA OptionsOK ==
    ASSUME IInv, NEW v \in Argvs, Q' = Append(Q, OptionsEntry(v)), said' = Apply(v, said),
           cursor # INTPTR_MAX,
           UNCHANGED <<pc, Is, patch, cursor, options, done, emits>>
    PROVE  IInv'
<1>1. said \in [Flags -> BOOLEAN] /\ Q \in Seq(Entry)
  BY DEF IInv, TypeOK
<1>2. /\ OptionsEntry(v) \in Entry /\ OptionsEntry(v).options = TRUE
      /\ OptionsEntry(v).argv = v /\ OptionsEntry(v).said = Apply(v, said)
  BY <1>1, ApplyType, ApiAssumption DEF OptionsEntry, Entry
<1>3. /\ Q' \in Seq(Entry) /\ Len(Q) \in Nat /\ Len(Q') = Len(Q) + 1
      /\ \A k \in 1..Len(Q) : Q'[k] = Q[k]
      /\ Q'[Len(Q) + 1] = OptionsEntry(v)
  BY <1>1, <1>2, AppendFacts
<1>4. TypeOK'
  BY <1>1, <1>2, <1>3, ApplyType DEF IInv, TypeOK
<1>5. ~option_batch' /\ Started' /\ Ahead'
  BY DEF IInv, option_batch, Started, Ahead, Ks
<1>6. \A k \in 1..Len(Q') : ~Q'[k].options => k \in Ks(Q) /\ Q'[k] = Q[k]
  BY <1>2, <1>3 DEF Ks
<1>7. Descending'
  <2>1. \A k, l \in 1..Len(Q') : k < l /\ ~Q'[k].options /\ ~Q'[l].options => Q'[k].I > Q'[l].I
    BY <1>6 DEF IInv, Descending
  <2>2. \A k \in 1..Len(Q') : ~Q'[k].options => Q'[k].I >= cursor
    BY <1>6 DEF IInv, Descending
  <2>3. \A k \in Ks(done), l \in 1..Len(Q') : ~Q'[l].options => done[k].I > Q'[l].I
    BY <1>6 DEF IInv, Descending
  <2>4. ReverseOrder'
    BY DEF IInv, Descending, ReverseOrder
  <2> QED
    BY <2>1, <2>2, <2>3, <2>4 DEF Descending, Ks
<1>8. Chained'
  BY <1>1, <1>2, ChainAppend DEF IInv
<1>9. Accounted'
  BY <1>3 DEF IInv, Accounted, Ks
<1>10. Emission'
  BY <1>2, <1>3 DEF IInv, Emission, Ks
<1> QED
  BY <1>4, <1>5, <1>7, <1>8, <1>9, <1>10 DEF IInv

\* Before the first "patch" message options take effect at once.
LEMMA AtOnceOK ==
    ASSUME IInv, Incremental, NEW v \in Argvs, cursor = INTPTR_MAX,
           options' = Apply(v, options), said' = Apply(v, said),
           UNCHANGED <<pc, Is, patch, Q, cursor, done, emits>>
    PROVE  IInv'
<1>1. Q = <<>> /\ done = <<>> /\ Ks(Q) = {} /\ Ks(done) = {} /\ Len(done) = 0
  BY DEF IInv, Started, Ks
<1>2. said \in [Flags -> BOOLEAN] /\ options \in [Flags -> BOOLEAN]
  BY DEF IInv, TypeOK
<1>3. TypeOK'
  BY <1>2, ApplyType DEF IInv, TypeOK
<1>4. ~option_batch'
  BY <1>2, ApplyType DEF IInv, option_batch, Incremental
<1>5. Started' /\ Ahead' /\ Accounted' /\ Emission'
  BY DEF IInv, Started, Ahead, Accounted, Emission, Ks
<1>6. Descending'
  BY DEF IInv, Descending, ReverseOrder, Ks
<1>7. said = options
  BY <1>1 DEF IInv, Chained
<1>8. Chained'
  BY <1>1, <1>7 DEF IInv, Chained, OptionsInOrder, Ks
<1> QED
  BY <1>3, <1>4, <1>5, <1>6, <1>8 DEF IInv

\* What pop_back() leaves of the chain and of the order in the queue.
LEMMA ChainTail ==
    ASSUME Chained, Q \in Seq(Entry), Q # <<>>, Q' = Tail(Q),
           options' = Q[1].said, said' = said, OptionsInOrder'
    PROVE  Chained'
<1>1. /\ Len(Q) \in Nat /\ Len(Q) >= 1 /\ Len(Q') = Len(Q) - 1
      /\ \A k \in 1..Len(Q') : Q'[k] = Q[k + 1]
      /\ (Q' = <<>>) <=> (Len(Q) = 1)
  BY TailFacts
<1>2. ASSUME NEW k \in 1..Len(Q')
      PROVE  Q'[k].said = IF Q'[k].options THEN Apply(Q'[k].argv, SaidBefore(k)')
                          ELSE SaidBefore(k)'
  <2>1. k + 1 \in 1..Len(Q) /\ k + 1 # 1 /\ (k + 1) - 1 = k
    BY <1>1
  <2>2. SaidBefore(k + 1) = Q[k].said
    BY <2>1 DEF SaidBefore
  <2>3. SaidBefore(k)' = SaidBefore(k + 1)
    <3>1. CASE k = 1
      BY <2>2, <3>1 DEF SaidBefore
    <3>2. CASE k # 1
      <4>1. k - 1 \in 1..Len(Q') /\ (k - 1) + 1 = k
        BY <1>1, <3>2
      <4> QED
        BY <1>1, <2>2, <3>2, <4>1 DEF SaidBefore
    <3> QED
      BY <3>1, <3>2
  <2> QED
    BY <1>1, <2>1, <2>3 DEF Chained, Ks
<1>3. (\A k \in Ks(Q) : Q[k].said = IF Q[k].options THEN Apply(Q[k].argv, SaidBefore(k))
                                    ELSE SaidBefore(k))'
  BY <1>2 DEF Ks, Apply
<1>4. said' = IF Q' = <<>> THEN options' ELSE Q'[Len(Q')].said
  <2>1. CASE Len(Q) = 1
    BY <1>1, <2>1 DEF Chained
  <2>2. CASE Len(Q) # 1
    <3>1. Len(Q') \in 1..Len(Q') /\ Len(Q') + 1 = Len(Q)
      BY <1>1, <2>2
    <3> QED
      BY <1>1, <2>2, <3>1 DEF Chained
  <2> QED
    BY <2>1, <2>2
<1> QED
  BY <1>3, <1>4 DEF Chained

\* Queued options take effect when their turn comes.
LEMMA FlushOptionsOK ==
    ASSUME IInv, Incremental, Q # <<>>, Head(Q).options,
           options' = Apply(Head(Q).argv, options), Q' = Tail(Q),
           UNCHANGED <<pc, Is, patch, cursor, done, emits, said>>
    PROVE  IInv'
<1>1. Q \in Seq(Entry) /\ options \in [Flags -> BOOLEAN]
  BY DEF IInv, TypeOK
<1>2. /\ Head(Q) = Q[1] /\ Q' \in Seq(Entry)
      /\ Len(Q) \in Nat /\ Len(Q) >= 1 /\ Len(Q') = Len(Q) - 1
      /\ \A k \in 1..Len(Q') : Q'[k] = Q[k + 1]
  BY <1>1, TailFacts
<1>3. 1 \in Ks(Q) /\ Q[1].argv \in Argvs /\ Q[1].said = options'
  BY <1>2 DEF IInv, TypeOK, Chained, SaidBefore, Ks
<1>4. \A k \in 1..Len(Q') : k + 1 \in Ks(Q) /\ Q'[k] = Q[k + 1]
  BY <1>2 DEF Ks
<1>5. TypeOK'
  <2>1. \A k \in 1..Len(Q') : IF Q'[k].options THEN Q'[k].argv \in Argvs ELSE Q'[k].I \in Addresses
    BY <1>4 DEF IInv, TypeOK, Ks
  <2>2. options' \in [Flags -> BOOLEAN]
    BY <1>1, <1>2, <1>3, ApplyType
  <2> QED
    BY <1>2, <2>1, <2>2 DEF IInv, TypeOK
<1>6. ~option_batch'
  BY <1>1, <1>2, <1>3, ApplyType DEF IInv, option_batch, Incremental
<1>7. Started' /\ Ahead'
  BY DEF IInv, Started, Ahead, Ks
<1>8. Descending'
  <2>1. ASSUME NEW k \in 1..Len(Q'), NEW l \in 1..Len(Q'), k < l, ~Q'[k].options, ~Q'[l].options
        PROVE  Q'[k].I > Q'[l].I
    <3>1. k + 1 \in Ks(Q) /\ l + 1 \in Ks(Q) /\ k + 1 < l + 1
      BY <1>4, <2>1
    <3> QED
      BY <1>4, <2>1, <3>1 DEF IInv, Descending
  <2>2. \A k \in 1..Len(Q') : ~Q'[k].options => Q'[k].I >= cursor
    BY <1>4 DEF IInv, Descending
  <2>3. \A k \in Ks(done), l \in 1..Len(Q') : ~Q'[l].options => done[k].I > Q'[l].I
    BY <1>4 DEF IInv, Descending
  <2>4. ReverseOrder'
    BY DEF IInv, Descending, ReverseOrder
  <2> QED
    BY <2>1, <2>2, <2>3, <2>4 DEF Descending, Ks
<1>9. Chained'
  <2>1. OptionsInOrder'
    BY DEF IInv, Chained, OptionsInOrder
  <2> QED
    BY <1>1, <1>3, <2>1, ChainTail DEF IInv
<1>10. Accounted'
  <2> SUFFICES ASSUME NEW J \in patch
               PROVE  \/ \E k \in 1..Len(Q') : ~Q'[k].options /\ Q'[k].I = J
                      \/ \E k \in Ks(done) : done[k].I = J
    BY DEF Accounted, Ks
  <2>1. CASE \E k \in Ks(done) : done[k].I = J
    BY <2>1
  <2>2. CASE \E k \in Ks(Q) : ~Q[k].options /\ Q[k].I = J
    <3>1. PICK k \in Ks(Q) : ~Q[k].options /\ Q[k].I = J
      BY <2>2
    <3>2. k # 1
      BY <1>2, <3>1
    <3>3. k - 1 \in 1..Len(Q') /\ (k - 1) + 1 = k
      BY <1>2, <3>2 DEF Ks
    <3> QED
      BY <1>2, <3>1, <3>3
  <2> QED
    BY <2>1, <2>2 DEF IInv, Accounted
<1>11. Emission'
  BY <1>4 DEF IInv, Emission, Ks
<1> QED
  BY <1>5, <1>6, <1>7, <1>8, <1>9, <1>10, <1>11 DEF IInv

\* An instruction is patched under the options that hold at its turn.
LEMMA FlushPatchOK ==
    ASSUME IInv, Q # <<>>, ~Head(Q).options, Head(Q).I > cursor + Window,
           done' = Append(done, [I |-> Head(Q).I, said |-> Head(Q).said, used |-> options]),
           Q' = Tail(Q),
           UNCHANGED <<pc, Is, patch, cursor, options, emits, said>>
    PROVE  IInv'
<1> DEFINE r == [I |-> Q[1].I, said |-> Q[1].said, used |-> options]
<1>1. Q \in Seq(Entry) /\ done \in Seq(Record) /\ options \in [Flags -> BOOLEAN]
  BY DEF IInv, TypeOK
<1>2. /\ Head(Q) = Q[1] /\ Q' \in Seq(Entry) /\ Q[1] \in Entry
      /\ Len(Q) \in Nat /\ Len(Q) >= 1 /\ Len(Q') = Len(Q) - 1
      /\ \A k \in 1..Len(Q') : Q'[k] = Q[k + 1]
  BY <1>1, TailFacts
<1>3. 1 \in Ks(Q) /\ Q[1].I \in Addresses /\ Q[1].said = options
  BY <1>2 DEF IInv, TypeOK, Chained, SaidBefore, Ks
<1>4. r \in Record /\ r.I = Q[1].I /\ r.said = r.used
  BY <1>1, <1>2, <1>3 DEF Record, Entry
<1>5. /\ done' \in Seq(Record) /\ Len(done) \in Nat /\ Len(done') = Len(done) + 1
      /\ \A k \in 1..Len(done) : done'[k] = done[k]
      /\ done'[Len(done) + 1] = r
  <2>1. done' = Append(done, r)
    BY <1>2
  <2> HIDE DEF r
  <2> QED
    BY <1>1, <1>4, <2>1, AppendFacts
<1> HIDE DEF r
<1>6. \A k \in 1..Len(Q') : k + 1 \in Ks(Q) /\ 1 < k + 1 /\ Q'[k] = Q[k + 1]
  BY <1>2 DEF Ks
<1>7. TypeOK'
  <2>1. \A k \in 1..Len(Q') : IF Q'[k].options THEN Q'[k].argv \in Argvs ELSE Q'[k].I \in Addresses
    BY <1>6 DEF IInv, TypeOK, Ks
  <2> QED
    BY <1>2, <1>5, <2>1 DEF IInv, TypeOK
<1>8. ~option_batch' /\ Started'
  BY DEF IInv, option_batch, Started
<1>9. Ahead'
  <2> SUFFICES ASSUME cursor # INTPTR_MIN, NEW k \in Ks(done)'
               PROVE  done'[k].I > cursor + Window
    BY DEF Ahead
  <2>1. CASE k = Len(done) + 1
    BY <1>2, <1>4, <1>5, <2>1
  <2>2. CASE k \in Ks(done)
    BY <1>5, <2>2 DEF IInv, Ahead, Ks
  <2> QED
    BY <1>5, <2>1, <2>2 DEF Ks
<1>10. Descending'
  <2>1. ASSUME NEW k \in 1..Len(Q'), NEW l \in 1..Len(Q'), k < l, ~Q'[k].options, ~Q'[l].options
        PROVE  Q'[k].I > Q'[l].I
    <3>1. k + 1 \in Ks(Q) /\ l + 1 \in Ks(Q) /\ k + 1 < l + 1
      BY <1>6, <2>1
    <3> QED
      BY <1>6, <2>1, <3>1 DEF IInv, Descending
  <2>2. \A k \in 1..Len(Q') : ~Q'[k].options => Q'[k].I >= cursor
    BY <1>6 DEF IInv, Descending
  <2>3. ASSUME NEW k \in 1..Len(done'), NEW l \in 1..Len(Q'), ~Q'[l].options
        PROVE  done'[k].I > Q'[l].I
    <3>1. CASE k = Len(done) + 1
      BY <1>2, <1>3, <1>4, <1>5, <1>6, <2>3, <3>1 DEF IInv, Descending
    <3>2. CASE k \in Ks(done)
      BY <1>5, <1>6, <2>3, <3>2 DEF IInv, Descending, Ks
    <3> QED
      BY <1>5, <3>1, <3>2 DEF Ks
  <2>4. ReverseOrder'
    <3> SUFFICES ASSUME NEW k \in 1..Len(done'), NEW l \in 1..Len(done'), k < l
                 PROVE  done'[k].I > done'[l].I
      BY DEF ReverseOrder
    <3>1. k \in Ks(done) /\ done'[k] = done[k]
      BY <1>5 DEF Ks
    <3>2. CASE l = Len(done) + 1
      BY <1>2, <1>3, <1>4, <1>5, <3>1, <3>2 DEF IInv, Descending
    <3>3. CASE l \in Ks(done)
      <4>1. done'[l] = done[l]
        BY <1>5, <3>3 DEF Ks
      <4>2. done[k].I > done[l].I
        BY <3>1, <3>3 DEF IInv, Descending, ReverseOrder, Ks
      <4> QED
        BY <3>1, <4>1, <4>2
    <3>4. l = Len(done) + 1 \/ l \in Ks(done)
      BY <1>5 DEF Ks
    <3> QED
      BY <3>2, <3>3, <3>4
  <2> QED
    BY <2>1, <2>2, <2>3, <2>4 DEF Descending, Ks
<1>11. Chained'
  <2>1. OptionsInOrder'
    <3> SUFFICES ASSUME NEW k \in 1..Len(done') PROVE done'[k].used = done'[k].said
      BY DEF OptionsInOrder
    <3>1. CASE k = Len(done) + 1
      BY <1>4, <1>5, <3>1
    <3>2. CASE k \in 1..Len(done)
      BY <1>5, <3>2 DEF IInv, Chained, OptionsInOrder
    <3> QED
      BY <1>5, <3>1, <3>2
  <2> QED
    BY <1>1, <1>3, <2>1, ChainTail DEF IInv
<1>12. Accounted'
  <2> SUFFICES ASSUME NEW J \in patch
               PROVE  \/ \E k \in 1..Len(Q') : ~Q'[k].options /\ Q'[k].I = J
                      \/ \E k \in 1..Len(done') : done'[k].I = J
    BY DEF Accounted, Ks
  <2>1. CASE \E k \in Ks(done) : done[k].I = J
    BY <1>5, <2>1 DEF Ks
  <2>2. CASE \E k \in Ks(Q) : ~Q[k].options /\ Q[k].I = J
    <3>1. PICK k \in Ks(Q) : ~Q[k].options /\ Q[k].I = J
      BY <2>2
    <3>2. CASE k = 1
      BY <1>4, <1>5, <3>1, <3>2
    <3>3. CASE k # 1
      <4>1. k - 1 \in 1..Len(Q') /\ (k - 1) + 1 = k
        BY <1>2, <3>3 DEF Ks
      <4> QED
        BY <1>2, <3>1, <4>1
    <3> QED
      BY <3>2, <3>3
  <2> QED
    BY <2>1, <2>2 DEF IInv, Accounted
<1>13. Emission'
  BY <1>6 DEF IInv, Emission, Ks
<1> QED
  BY <1>7, <1>8, <1>9, <1>10, <1>11, <1>12, <1>13 DEF IInv

\* queueFlush() returns; in parseEmit() the binary is then written.
LEMMA FlushEndOK ==
    ASSUME IInv, pc \in {"flush", "emit"}, ~Due, pc' = "ready",
           emits' = IF pc = "emit" THEN emits + 1 ELSE emits,
           UNCHANGED <<Is, patch, Q, cursor, options, done, said>>
    PROVE  IInv'
<1>1. CASE pc = "flush"
  BY <1>1, QuietOK DEF IInv, TypeOK
<1>2. CASE pc = "emit"
  <2>1. emits = 0 /\ emits' = 1 /\ cursor = INTPTR_MIN
    BY <1>2 DEF IInv, Emission
  <2>2. Q = <<>>
    <3> SUFFICES ASSUME Q # <<>> PROVE FALSE
      OBVIOUS
    <3>1. Q \in Seq(Entry)
      BY DEF IInv, TypeOK
    <3>2. Head(Q) = Q[1] /\ 1 \in 1..Len(Q)
      BY <3>1, TailFacts
    <3>3. ~Q[1].options /\ ~(Q[1].I > INTPTR_MIN + Window)
      BY <2>1, <3>2 DEF Due
    <3>4. Q[1].I \in Addresses
      BY <3>2, <3>3 DEF IInv, TypeOK
    <3> QED
      BY <3>3, <3>4, ApiAssumption
  <2>3. Ks(Q) = {}
    BY <2>2 DEF Ks
  <2>4. TypeOK'
    BY <2>1 DEF IInv, TypeOK
  <2>5. ~option_batch' /\ Started' /\ Ahead' /\ Accounted'
    BY DEF IInv, option_batch, Started, Ahead, Accounted, Ks
  <2>6. Descending' /\ Chained'
    BY DEF IInv, Descending, ReverseOrder, Chained, SaidBefore, OptionsInOrder, Ks
  <2>7. Emission'
    BY <2>1, <2>3 DEF Emission, Ks
  <2> QED
    BY <2>4, <2>5, <2>6, <2>7 DEF IInv
<1> QED
  BY <1>1, <1>2

\* An "emit" message that is accepted.
LEMMA EmitOK ==
    ASSUME IInv, INTPTR_MIN < cursor, pc' = "emit", cursor' = INTPTR_MIN,
           UNCHANGED <<Is, patch, Q, options, done, emits, said>>
    PROVE  IInv'
<1>1. emits = 0
  BY ApiAssumption DEF IInv, Emission, TypeOK
<1>2. TypeOK'
  BY DEF IInv, TypeOK
<1>3. ~option_batch' /\ Started' /\ Ahead' /\ Accounted'
  BY ApiAssumption DEF IInv, option_batch, Started, Ahead, Accounted, Ks
<1>4. Descending'
  <2>1. \A k \in Ks(Q) : ~Q[k].options => Q[k].I >= INTPTR_MIN
    BY ApiAssumption DEF IInv, TypeOK, Ks
  <2> QED
    BY <2>1 DEF IInv, Descending, ReverseOrder, Ks
<1>5. Chained'
  BY DEF IInv, Chained, SaidBefore, OptionsInOrder, Ks
<1>6. Emission'
  BY <1>1 DEF Emission
<1> QED
  BY <1>2, <1>3, <1>4, <1>5, <1>6 DEF IInv

\* Every message and every turn of the loop keeps the invariant.
LEMMA StepOK == Incremental /\ IInv /\ [Next]_vars => IInv'
<1> SUFFICES ASSUME Incremental, IInv, [Next]_vars PROVE IInv'
  OBVIOUS
<1>0. Is \subseteq Addresses /\ pc \in {"closed", "ready", "flush", "emit", "error"} /\ ~option_batch
  BY DEF IInv, TypeOK
<1>1. CASE error
  BY <1>0, <1>1, QuietOK DEF error
<1>2. CASE Malformed
  BY <1>1, <1>2 DEF Malformed
<1>3. CASE parseBinary
  BY <1>0, <1>3, QuietOK DEF parseBinary
<1>4. ASSUME NEW I \in Addresses, parseInstruction(I) PROVE IInv'
  <2>1. CASE error
    BY <1>1, <2>1
  <2>2. CASE ~error
    BY <1>0, <1>4, <2>2, QuietOK DEF parseInstruction
  <2> QED
    BY <2>1, <2>2
<1>5. ASSUME NEW I \in Addresses, parsePatch(I) PROVE IInv'
  <2>1. CASE error
    BY <1>1, <2>1
  <2>2. CASE ~error
    <3>1. I < cursor /\ pc' = "flush" /\ cursor' = I /\ patch' = patch \cup {I}
          /\ Q' = Append(Q, PatchEntry(I)) /\ UNCHANGED <<Is, options, done, emits, said>>
      BY <1>0, <1>5, <2>2 DEF parsePatch
    <3> QED
      BY <3>1, PatchOK
  <2> QED
    BY <2>1, <2>2
<1>6. ASSUME NEW v \in Argvs, parseOptions(v) PROVE IInv'
  <2>1. CASE cursor = INTPTR_MAX
    BY <1>6, <2>1, AtOnceOK DEF parseOptions
  <2>2. CASE cursor # INTPTR_MAX
    BY <1>6, <2>2, OptionsOK DEF parseOptions
  <2> QED
    BY <2>1, <2>2
<1>7. ASSUME NEW name \in Names, parseTrampoline(name) PROVE IInv'
  <2>1. CASE error
    BY <1>1, <2>1
  <2>2. CASE ~error
    BY <1>0, <1>7, <2>2, QuietOK DEF parseTrampoline
  <2> QED
    BY <2>1, <2>2
<1>8. ASSUME NEW v \in Reservations, parseReserve(v) PROVE IInv'
  <2>1. CASE error
    BY <1>1, <2>1
  <2>2. CASE ~error
    BY <1>0, <1>8, <2>2, QuietOK DEF parseReserve
  <2> QED
    BY <2>1, <2>2
<1>9. CASE parseEmit
  <2>1. CASE error
    BY <1>1, <2>1
  <2>2. CASE ~error
    BY <1>9, <2>2, EmitOK DEF parseEmit
  <2> QED
    BY <2>1, <2>2
<1>10. CASE flushOptions
  BY <1>10, FlushOptionsOK DEF flushOptions, Due
<1>11. CASE flushPatch
  BY <1>11, FlushPatchOK DEF flushPatch, Due
<1>12. CASE flushEnd
  BY <1>12, FlushEndOK DEF flushEnd, Flushing
<1>13. CASE UNCHANGED vars
  <2>1. UNCHANGED <<pc, Is, patch, Q, cursor, options, done, emits, said>>
    BY <1>13 DEF vars
  <2>2. CASE pc # "emit"
    BY <1>0, <2>1, <2>2, QuietOK
  <2>3. CASE pc = "emit"
    <3>1. TypeOK' /\ ~option_batch'
      BY <2>1 DEF IInv, TypeOK, option_batch
    <3>2. Started' /\ Ahead' /\ Accounted' /\ Emission'
      BY <2>1 DEF IInv, Started, Ahead, Accounted, Emission, Ks
    <3>3. Descending' /\ Chained'
      BY <2>1 DEF IInv, Descending, ReverseOrder, Chained, SaidBefore, OptionsInOrder, Ks
    <3> QED
      BY <3>1, <3>2, <3>3 DEF IInv
  <2> QED
    BY <2>2, <2>3
<1>14. CASE Exit
  BY <1>13, <1>14 DEF Exit
<1> QED
  BY <1>2, <1>3, <1>4, <1>5, <1>6, <1>7, <1>8, <1>9, <1>10, <1>11, <1>12, <1>13, <1>14
  DEF Next, queueFlush

\* The inductive invariant holds in every reachable state of an incremental rewriting.
THEOREM Inductive == Incremental /\ Spec => []IInv
<1>1. ASSUME Incremental PROVE Init => IInv
  BY <1>1, InitOK
<1>2. ASSUME Incremental PROVE IInv /\ [Next]_vars => IInv'
  BY <1>2, StepOK
<1>3. ASSUME Incremental PROVE Spec => []IInv
  BY <1>1, <1>2, <1>3, PTL DEF Spec
<1> QED
  BY <1>3

\* Messages, the queue and the options in force keep their types.
THEOREM TypeCorrect == Incremental /\ Spec => []TypeOK
<1>1. IInv => TypeOK
  BY DEF IInv
<1> QED
  BY <1>1, Inductive, PTL

\* patch() sees the options that the messages before its "patch" message have set,
\* however queueFlush() delays the two.
THEOREM OptionOrder == Incremental /\ Spec => []OptionsInOrder
<1>1. IInv => OptionsInOrder
  BY DEF IInv, Chained
<1> QED
  BY <1>1, Inductive, PTL

\* queueFlush() calls patch() from the highest address to the lowest.
THEOREM PatchOrder == Incremental /\ Spec => []ReverseOrder
<1>1. IInv => ReverseOrder
  BY DEF IInv, Descending
<1> QED
  BY <1>1, Inductive, PTL

\* patch() is not called within the look-ahead of a "patch" message to come.
THEOREM LookAheadMargin == Incremental /\ Spec => []Margin
<1>1. IInv => Margin
  <2> SUFFICES ASSUME IInv, cursor # INTPTR_MIN, NEW k \in 1..Len(done),
                      NEW J \in Addresses, J < cursor
               PROVE  done[k].I > J + Window
    BY DEF Margin
  <2>1. done[k].I \in Int
    BY ElementTypes DEF IInv, Ks
  <2>2. done[k].I > cursor + Window
    BY DEF IInv, Ahead, Ks
  <2>3. J \in Int /\ cursor \in Int /\ Window \in Nat
    BY ApiAssumption DEF IInv, TypeOK
  <2> QED
    BY <2>1, <2>2, <2>3
<1> QED
  BY <1>1, Inductive, PTL

\* When parseEmit() writes the binary, every accepted "patch" message was performed.
THEOREM Completeness == Incremental /\ Spec => []NothingForgotten
<1>1. IInv => NothingForgotten
  <2> SUFFICES ASSUME IInv, emits > 0, NEW I \in patch
               PROVE  \E k \in 1..Len(done) : done[k].I = I
    BY DEF NothingForgotten
  <2>1. ~\E k \in Ks(Q) : ~Q[k].options /\ Q[k].I = I
    BY DEF IInv, Emission
  <2> QED
    BY <2>1 DEF IInv, Accounted, Ks
<1> QED
  BY <1>1, Inductive, PTL

\* parseEmit() writes at most one binary.
THEOREM SingleEmission == Incremental /\ Spec => []EmitsOnce
<1>1. IInv => EmitsOnce
  BY DEF IInv, Emission, EmitsOnce, TypeOK
<1> QED
  BY <1>1, Inductive, PTL

-----------------------------------------------------------------------------
\* Reservations.  These proofs need nothing of the queue, and hold in batch mode
\* as well.

\* Division and remainder by the size of a page.
LEMMA Division ==
    ASSUME NEW P \in Nat \ {0}, NEW x \in Int
    PROVE  /\ x % P \in Int /\ 0 <= x % P /\ x % P < P /\ x \div P \in Int
           /\ x = P * (x \div P) + (x % P)
OBVIOUS

\* The page of an address, by its bounds.
LEMMA PageOf ==
    ASSUME NEW P \in Nat \ {0}, NEW x \in Int, NEW m \in Int, P * m <= x
    PROVE  m <= x \div P
<1>1. x \div P \in Int /\ x < P * (x \div P) + P
  BY Division
<1>2. P * m < P * ((x \div P) + 1)
  BY <1>1
<1>3. m < (x \div P) + 1
  BY <1>1, <1>2
<1> QED
  BY <1>1, <1>3

\* What is past a page boundary is in a later page than what is before it.
LEMMA PageBefore ==
    ASSUME NEW P \in Nat \ {0}, NEW x \in Int, NEW m \in Int, x < P * m
    PROVE  x \div P < m
<1>1. x \div P \in Int /\ P * (x \div P) <= x
  BY Division
<1>2. P * (x \div P) < P * m
  BY <1>1
<1> QED
  BY <1>1, <1>2

\* The start of the page of an address.
LEMMA RoundDown ==
    ASSUME NEW P \in Nat \ {0}, NEW x \in Int
    PROVE  \E n \in Int : x - (x % P) = P * n
<1>1. x % P \in Int /\ x \div P \in Int /\ x = P * (x \div P) + (x % P)
  BY Division
<1>2. x - (x % P) = P * (x \div P)
  BY <1>1
<1> QED
  BY <1>1, <1>2

\* A remainder is made up to a page boundary, if there is one.
LEMMA RoundUp ==
    ASSUME NEW P \in Nat \ {0}, NEW x \in Int
    PROVE  \E n \in Int : x + (IF x % P = 0 THEN 0 ELSE P - (x % P)) = P * n
<1>1. x % P \in Int /\ x \div P \in Int /\ x = P * (x \div P) + (x % P)
  BY Division
<1>2. CASE x % P = 0
  BY <1>1, <1>2
<1>3. CASE x % P # 0
  <2>1. x + (P - (x % P)) = P * ((x \div P) + 1)
    BY <1>1
  <2>2. (x \div P) + 1 \in Int
    BY <1>1
  <2> QED
    BY <1>3, <2>1, <2>2
<1> QED
  BY <1>2, <1>3

\* Padding with respect to the start of the page gives the same.
LEMMA RemainderOfSum ==
    ASSUME NEW P \in Nat \ {0}, NEW x \in Int, NEW y \in Int
    PROVE  ((x % P) + (y - x)) % P = y % P
<1>1. /\ x \div P \in Int /\ x % P \in Int /\ x = P * (x \div P) + (x % P)
      /\ y \div P \in Int /\ y % P \in Int /\ y = P * (y \div P) + (y % P)
      /\ 0 <= y % P /\ y % P < P
  BY Division
<1> DEFINE q == (y \div P) - (x \div P)
           z == (x % P) + (y - x)
<1>2. z \in Int /\ q \in Int /\ z = P * q + (y % P)
  BY <1>1
<1> HIDE DEF z, q
<1>3. \A r \in Int : z = P * q + r /\ 0 <= r /\ r < P => z % P = r
  BY <1>2
<1> QED
  BY <1>1, <1>2, <1>3 DEF z

\* Both ways to make a reservation end on page boundaries.
LEMMA IntervalAligned ==
    ASSUME NEW v \in Reservations
    PROVE  \E m, n \in Int : Interval(v) = [lb |-> PAGE_SIZE * m, ub |-> PAGE_SIZE * n]
<1>1. v.lo \in Int /\ v.hi \in Int /\ PAGE_SIZE \in Nat \ {0}
  BY ApiAssumption DEF Reservation
<1>2. PICK m \in Int : v.lo - (v.lo % PAGE_SIZE) = PAGE_SIZE * m
  BY <1>1, RoundDown
<1>3. PICK n \in Int :
        v.hi + (IF v.hi % PAGE_SIZE = 0 THEN 0 ELSE PAGE_SIZE - (v.hi % PAGE_SIZE)) = PAGE_SIZE * n
  BY <1>1, RoundUp
<1>4. v.hi % PAGE_SIZE \in Int /\ 0 <= v.hi % PAGE_SIZE /\ v.hi % PAGE_SIZE < PAGE_SIZE
  BY <1>1, Division
<1>5. ((v.lo % PAGE_SIZE) + (v.hi - v.lo)) % PAGE_SIZE = v.hi % PAGE_SIZE
  BY <1>1, RemainderOfSum
<1>6. Rounded(v) = [lb |-> PAGE_SIZE * m, ub |-> PAGE_SIZE * n]
  BY <1>2, <1>3 DEF Rounded
<1>7. (PAGE_SIZE - (v.hi % PAGE_SIZE) = PAGE_SIZE) <=> (v.hi % PAGE_SIZE = 0)
  <2>1. PICK r \in Int : r = v.hi % PAGE_SIZE
    BY <1>4
  <2>2. (PAGE_SIZE - r = PAGE_SIZE) <=> (r = 0)
    BY <1>1
  <2> QED
    BY <2>1, <2>2
<1>8. Padded(v) = [lb |-> PAGE_SIZE * m, ub |-> PAGE_SIZE * n]
  BY <1>2, <1>3, <1>5, <1>7 DEF Padded
<1> QED
  BY <1>6, <1>8 DEF Interval

\* Reservations are whole pages, none overlaps another, and no trampoline is inside
\* of one.
Apart ==
    /\ placed \subseteq Places
    /\ \A a \in reserved : \E m, n \in Int : a = [lb |-> PAGE_SIZE * m, ub |-> PAGE_SIZE * n]
    /\ \A a, b \in reserved : a # b => a.ub <= b.lb \/ b.ub <= a.lb
    /\ \A a \in reserved : \A p \in placed : ~Within(a, p)

LEMMA ApartInit == Init => Apart
BY DEF Init, Apart

LEMMA ApartStep == Apart /\ [Next]_vars => Apart'
<1> SUFFICES ASSUME Apart, [Next]_vars PROVE Apart'
  OBVIOUS
<1>1. ASSUME UNCHANGED <<reserved, placed>> PROVE Apart'
  BY <1>1 DEF Apart
<1>2. ASSUME NEW v \in Reservations, parseReserve(v) PROVE Apart'
  <2>1. CASE error
    BY <1>1, <2>1 DEF error
  <2>2. CASE Vacant(Interval(v)) /\ reserved' = reserved \cup {Interval(v)} /\ UNCHANGED placed
    BY <2>2, IntervalAligned DEF Apart, Vacant
  <2> QED
    BY <1>2, <2>1, <2>2 DEF parseReserve
<1>3. ASSUME flushPatch PROVE Apart'
  <2>1. PICK P \in SUBSET Places :
          /\ \A p \in P : p \notin placed /\ \A a \in reserved : ~Within(a, p)
          /\ placed' = placed \cup P
    BY <1>3 DEF flushPatch
  <2>2. reserved' = reserved
    BY <1>3 DEF flushPatch
  <2> QED
    BY <2>1, <2>2 DEF Apart
<1>4. ASSUME Malformed \/ parseBinary \/ (\E I \in Addresses : parseInstruction(I) \/ parsePatch(I))
             \/ (\E v \in Argvs : parseOptions(v)) \/ (\E name \in Names : parseTrampoline(name))
             \/ parseEmit \/ flushOptions \/ flushEnd \/ Exit \/ UNCHANGED vars
      PROVE  UNCHANGED <<reserved, placed>>
  BY <1>4 DEF Malformed, error, parseBinary, parseInstruction, parsePatch, parseOptions,
              parseTrampoline, parseEmit, flushOptions, flushEnd, Exit, vars
<1> QED
  BY <1>1, <1>2, <1>3, <1>4 DEF Next, queueFlush

\* The pages of a reservation are those between its bounds.
LEMMA PagesBetween ==
    ASSUME NEW m \in Int, NEW n \in Int, NEW v,
           v = [lb |-> PAGE_SIZE * m, ub |-> PAGE_SIZE * n]
    PROVE  \A q \in PagesOf(v) : q \in Int /\ m <= q /\ q < n
<1>1. v.lb = PAGE_SIZE * m /\ v.ub = PAGE_SIZE * n /\ PAGE_SIZE \in Nat \ {0}
  BY ApiAssumption
<1>2. v.lb \in Int /\ v.ub \in Int /\ v.ub - 1 \in Int
  BY <1>1
<1>3. m <= v.lb \div PAGE_SIZE /\ (v.ub - 1) \div PAGE_SIZE < n
  BY <1>1, <1>2, PageOf, PageBefore
<1>4. v.lb \div PAGE_SIZE \in Int /\ (v.ub - 1) \div PAGE_SIZE \in Int
  BY <1>1, <1>2, Division
<1> QED
  BY <1>3, <1>4 DEF PagesOf

\* What "reserve" has taken shares no page with another reservation or with a
\* trampoline, in every order and mode: parseReserve() pads each reservation to
\* page boundaries, and reserve() rounds to them.
THEOREM PagesApart == Spec => []PageDisjoint
<1>1. Apart => PageDisjoint
  <2> SUFFICES ASSUME Apart, NEW v \in reserved
               PROVE  /\ \A p \in placed : p \div PAGE_SIZE \notin PagesOf(v)
                      /\ \A w \in reserved : w # v => PagesOf(w) \cap PagesOf(v) = {}
    BY DEF PageDisjoint
  <2>1. PICK m, n \in Int : v = [lb |-> PAGE_SIZE * m, ub |-> PAGE_SIZE * n]
    BY DEF Apart
  <2>2. v.lb = PAGE_SIZE * m /\ v.ub = PAGE_SIZE * n /\ PAGE_SIZE \in Nat \ {0}
    BY <2>1, ApiAssumption
  <2>3. \A q \in PagesOf(v) : q \in Int /\ m <= q /\ q < n
    BY <2>1, PagesBetween
  <2>4. ASSUME NEW p \in placed
        PROVE  p \div PAGE_SIZE \notin PagesOf(v)
    <3>1. p \in Int
      BY ApiAssumption DEF Apart
    <3>2. p < PAGE_SIZE * m \/ PAGE_SIZE * n <= p
      BY <2>2, <3>1 DEF Apart, Within
    <3>3. p \div PAGE_SIZE < m \/ n <= p \div PAGE_SIZE
      BY <2>2, <3>1, <3>2, PageOf, PageBefore
    <3> QED
      BY <2>3, <3>3
  <2>5. ASSUME NEW w \in reserved, w # v
        PROVE  PagesOf(w) \cap PagesOf(v) = {}
    <3>1. PICK k, l \in Int : w = [lb |-> PAGE_SIZE * k, ub |-> PAGE_SIZE * l]
      BY DEF Apart
    <3>2. PAGE_SIZE * n <= PAGE_SIZE * k \/ PAGE_SIZE * l <= PAGE_SIZE * m
      BY <2>2, <2>5, <3>1 DEF Apart
    <3>3. n <= k \/ l <= m
      BY <2>2, <3>2
    <3>4. \A q \in PagesOf(w) : q \in Int /\ k <= q /\ q < l
      BY <3>1, PagesBetween
    <3> QED
      BY <2>3, <3>3, <3>4
  <2> QED
    BY <2>4, <2>5
<1> QED
  BY <1>1, ApartInit, ApartStep, PTL DEF Spec

=============================================================================
