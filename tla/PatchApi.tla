------------------------------ MODULE PatchApi ------------------------------
(***************************************************************************)
(* The message protocol of E9Patch (e9api.cpp): a frontend sends "binary", *)
(* then "instruction", "patch", "options", "trampoline" and "reserve"      *)
(* messages and at last "emit".  Patches are queued and performed once the *)
(* messages are far enough ahead, or when the binary is emitted; options   *)
(* go through the same queue.  What patch() does is the subject of         *)
(* Tactics; here it only finds a place for a trampoline or fails.          *)
(***************************************************************************)
EXTENDS Integers, Sequences

CONSTANTS
    Addresses,                  \* where the binary has instructions
    INTPTR_MIN, INTPTR_MAX,     \* the extreme values of an address
    Window,                     \* the look-ahead of queueFlush()
    CommandLine, Argvs,         \* the options at the start, and those in messages
    Names,                      \* names of trampoline templates
    PAGE_SIZE, Reservations,    \* the "reserve" messages under consideration
    Places,                     \* where a trampoline can be
    MaxQ                        \* bound: entries in the queue after an "options"

\* Options are a function; an argv gives some of them new values.
Flags == DOMAIN CommandLine

\* Mutant of Apply: the options that are not given are lost.
ApplyOnly(argv, o) == argv

Apply(argv, o) == [f \in Flags |-> IF f \in DOMAIN argv THEN argv[f] ELSE o[f]]

\* A "reserve" message: a range, whether it has contents ("bytes") or just a
\* "length", and whether it defines the mmap() function.
Reservation == [lo : Int, hi : Int, bytes : BOOLEAN, mmap : BOOLEAN]

ASSUME ApiAssumption ==
    /\ Window \in Nat /\ INTPTR_MIN \in Int /\ INTPTR_MAX \in Int
    /\ \A I \in Addresses : I \in Int /\ INTPTR_MIN + Window < I /\ I < INTPTR_MAX
    /\ INTPTR_MIN < INTPTR_MAX
    /\ "batch" \in Flags /\ CommandLine \in [Flags -> BOOLEAN]
    /\ \A v \in Argvs : DOMAIN v \subseteq Flags /\ \A f \in DOMAIN v : v[f] \in BOOLEAN
    /\ PAGE_SIZE \in Nat \ {0}
    /\ Reservations \subseteq {v \in Reservation : v.lo < v.hi}
    /\ Places \subseteq Int /\ MaxQ \in Nat

VARIABLES
    pc,        \* "closed" before the binary is open, "ready" for a message,
               \* "flush" or "emit" in queueFlush(), "error" after error()
    Is,        \* instructions announced
    patch,     \* instructions with I->patch set
    Q,         \* the queue, the oldest entry first
    cursor,    \* address of the last flush
    options,   \* the options in force
    Ts,        \* the names of the templates defined
    mmap,      \* has an mmap() function been defined?
    reserved,  \* reserved intervals
    placed,    \* addresses of trampolines
    done,      \* what patch() was called for, in this order, and with which options
    emits,     \* how many times a binary was written
    said       \* options after all messages so far, were each applied when sent

vars == <<pc, Is, patch, Q, cursor, options, Ts, mmap, reserved, placed, done, emits, said>>

option_batch == options["batch"]

\* error() terminates the process.
error ==
    /\ pc' = "error"
    /\ UNCHANGED <<Is, patch, Q, cursor, options, Ts, mmap, reserved, placed, done, emits, said>>

\* An entry records what it stands for in the message stream: said is the value
\* of the options right after its message.
PatchEntry(I) == [options |-> FALSE, I |-> I, argv |-> <<>>, said |-> said]
OptionsEntry(v) == [options |-> TRUE, I |-> INTPTR_MIN, argv |-> v, said |-> Apply(v, said)]

Init ==
    /\ pc = "closed" /\ Is = {} /\ patch = {} /\ Q = <<>> /\ cursor = INTPTR_MAX
    /\ options = CommandLine /\ said = CommandLine
    /\ Ts = {} /\ mmap = FALSE /\ reserved = {} /\ placed = {} /\ done = <<>> /\ emits = 0

-----------------------------------------------------------------------------
\* Messages.

\* A message with a missing, duplicate or invalid parameter, of an unknown method,
\* a second "binary", or any other before "binary".
Malformed == pc \in {"closed", "ready"} /\ error

parseBinary ==
    /\ pc = "closed"
    /\ pc' = "ready"
    /\ UNCHANGED <<Is, patch, Q, cursor, options, Ts, mmap, reserved, placed, done, emits, said>>

\* Instructions are announced in reverse order.
parseInstruction(I) ==
    /\ pc = "ready"
    /\ \/ /\ \A J \in Is : I < J
          /\ Is' = Is \cup {I}
          /\ UNCHANGED <<pc, patch, Q, cursor, options, Ts, mmap, reserved, placed, done,
                         emits, said>>
       \/ (\E J \in Is : J <= I) /\ error

\* Mutant of parsePatch: the order of the messages is not checked.
parsePatchUnordered(I) ==
    /\ pc = "ready" /\ I \in Is /\ I \notin patch
    /\ patch' = patch \cup {I}
    /\ Q' = Append(Q, PatchEntry(I))
    /\ pc' = IF option_batch THEN pc ELSE "flush"
    /\ cursor' = IF option_batch THEN cursor ELSE I
    /\ UNCHANGED <<Is, options, Ts, mmap, reserved, placed, done, emits, said>>

\* queuePatch(): in batch mode nothing is patched before "emit", otherwise the
\* cursor of queueFlush() follows the messages and may only go down.
parsePatch(I) ==
    /\ pc = "ready"
    /\ \/ /\ I \in Is /\ I \notin patch
          /\ option_batch \/ I < cursor
          /\ patch' = patch \cup {I}
          /\ Q' = Append(Q, PatchEntry(I))
          /\ pc' = IF option_batch THEN pc ELSE "flush"
          /\ cursor' = IF option_batch THEN cursor ELSE I
          /\ UNCHANGED <<Is, options, Ts, mmap, reserved, placed, done, emits, said>>
       \/ (I \notin Is \/ I \in patch \/ (~option_batch /\ cursor <= I)) /\ error

\* Mutant of parseOptions: options overtake what is queued.
parseOptionsAtOnce(v) ==
    /\ pc = "ready"
    /\ options' = Apply(v, options) /\ said' = Apply(v, said)
    /\ UNCHANGED <<pc, Is, patch, Q, cursor, Ts, mmap, reserved, placed, done, emits>>

\* Options are applied at once unless something has been queued and flushed.
parseOptions(v) ==
    /\ pc = "ready" /\ Len(Q) < MaxQ
    /\ IF cursor = INTPTR_MAX
       THEN options' = Apply(v, options) /\ UNCHANGED Q
       ELSE Q' = Append(Q, OptionsEntry(v)) /\ UNCHANGED options
    /\ said' = Apply(v, said)
    /\ UNCHANGED <<pc, Is, patch, cursor, Ts, mmap, reserved, placed, done, emits>>

parseTrampoline(name) ==
    /\ pc = "ready"
    /\ \/ /\ name \notin Ts
          /\ Ts' = Ts \cup {name}
          /\ UNCHANGED <<pc, Is, patch, Q, cursor, options, mmap, reserved, placed, done,
                         emits, said>>
       \/ name \in Ts /\ error

\* Mutant of Padded: no padding after the contents.
PaddedBefore(v) == [lb |-> v.lo - (v.lo % PAGE_SIZE), ub |-> v.hi]

\* The interval that a reservation takes.  With contents, it is three allocations,
\* padding on both sides of the contents up to page boundaries; without, reserve()
\* rounds the range.
Padded(v) ==
    LET length_lo == v.lo % PAGE_SIZE
        length    == v.hi - v.lo
        rest      == PAGE_SIZE - ((length_lo + length) % PAGE_SIZE)
        length_hi == IF rest = PAGE_SIZE THEN 0 ELSE rest
    IN  [lb |-> v.lo - length_lo, ub |-> v.hi + length_hi]

Rounded(v) ==
    [lb |-> v.lo - (v.lo % PAGE_SIZE),
     ub |-> v.hi + (IF v.hi % PAGE_SIZE = 0 THEN 0 ELSE PAGE_SIZE - (v.hi % PAGE_SIZE))]

Interval(v) == IF v.bytes THEN Padded(v) ELSE Rounded(v)

Within(a, p) == a.lb <= p /\ p < a.ub

\* Neither a trampoline nor another reservation is in the way.
Vacant(a) ==
    /\ \A p \in placed : ~Within(a, p)
    /\ \A b \in reserved : a.ub <= b.lb \/ b.ub <= a.lb

parseReserve(v) ==
    /\ pc = "ready"
    /\ \/ /\ Vacant(Interval(v)) /\ ~(v.mmap /\ mmap)
          /\ reserved' = reserved \cup {Interval(v)}
          /\ mmap' = (mmap \/ v.mmap)
          /\ UNCHANGED <<pc, Is, patch, Q, cursor, options, Ts, placed, done, emits, said>>
       \/ (~Vacant(Interval(v)) \/ (v.mmap /\ mmap)) /\ error

\* Mutant of parseEmit: "emit" is always accepted.
parseEmitAgain ==
    /\ pc = "ready" /\ emits < 2
    /\ pc' = "emit" /\ cursor' = INTPTR_MIN
    /\ UNCHANGED <<Is, patch, Q, options, Ts, mmap, reserved, placed, done, emits, said>>

\* The binary is written after the queue has been flushed.
parseEmit ==
    /\ pc = "ready"
    /\ \/ /\ INTPTR_MIN < cursor
          /\ pc' = "emit" /\ cursor' = INTPTR_MIN
          /\ UNCHANGED <<Is, patch, Q, options, Ts, mmap, reserved, placed, done, emits, said>>
       \/ cursor <= INTPTR_MIN /\ error

-----------------------------------------------------------------------------
\* The loop of queueFlush().

Flushing == pc \in {"flush", "emit"}

\* Mutants of Due: no look-ahead; options wait like an instruction at INTPTR_MIN.
DueAtOnce == Q # <<>> /\ (Head(Q).options \/ Head(Q).I > cursor)
DueInstructions == Q # <<>> /\ Head(Q).I > cursor + Window

\* The entry at the end of the queue is performed when it is behind the look-ahead.
Due == Q # <<>> /\ (Head(Q).options \/ Head(Q).I > cursor + Window)

\* Mutant of flushOptions: the entry stays in the queue.
flushOptionsKept ==
    /\ Flushing /\ Due /\ Head(Q).options
    /\ options' = Apply(Head(Q).argv, options)
    /\ UNCHANGED <<pc, Is, patch, Q, cursor, Ts, mmap, reserved, placed, done, emits, said>>

flushOptions ==
    /\ Flushing /\ Due /\ Head(Q).options
    /\ options' = Apply(Head(Q).argv, options)
    /\ Q' = Tail(Q)
    /\ UNCHANGED <<pc, Is, patch, cursor, Ts, mmap, reserved, placed, done, emits, said>>

\* patch() is called: it finds free places for some trampolines, or fails.
flushPatch ==
    /\ Flushing /\ Due /\ ~Head(Q).options
    /\ \E P \in SUBSET Places :
          /\ \A p \in P : p \notin placed /\ \A a \in reserved : ~Within(a, p)
          /\ placed' = placed \cup P
    /\ done' = Append(done, [I |-> Head(Q).I, said |-> Head(Q).said, used |-> options])
    /\ Q' = Tail(Q)
    /\ UNCHANGED <<pc, Is, patch, cursor, options, Ts, mmap, reserved, emits, said>>

flushEnd ==
    /\ Flushing /\ ~Due
    /\ pc' = "ready"
    /\ emits' = IF pc = "emit" THEN emits + 1 ELSE emits
    /\ UNCHANGED <<Is, patch, Q, cursor, options, Ts, mmap, reserved, placed, done, said>>

\* The end of the message stream, or exit().
Exit == pc \in {"closed", "ready", "error"} /\ UNCHANGED vars

queueFlush == flushOptions \/ flushPatch \/ flushEnd

Next ==
    \/ Malformed
    \/ parseBinary
    \/ \E I \in Addresses : parseInstruction(I)
    \/ \E I \in Addresses : parsePatch(I)
    \/ \E v \in Argvs : parseOptions(v)
    \/ \E name \in Names : parseTrampoline(name)
    \/ \E v \in Reservations : parseReserve(v)
    \/ parseEmit
    \/ queueFlush
    \/ Exit

\* A single-threaded process that is in a loop goes on with it.
Spec == Init /\ [][Next]_vars /\ WF_vars(queueFlush)

-----------------------------------------------------------------------------
\* Properties.

Entry == [options : BOOLEAN, I : Int, argv : Argvs \cup {<<>>}, said : [Flags -> BOOLEAN]]
Record == [I : Addresses, said : [Flags -> BOOLEAN], used : [Flags -> BOOLEAN]]

TypeOK ==
    /\ pc \in {"closed", "ready", "flush", "emit", "error"}
    /\ Is \subseteq Addresses /\ patch \subseteq Addresses
    /\ Q \in Seq(Entry)
    /\ \A k \in 1..Len(Q) : IF Q[k].options THEN Q[k].argv \in Argvs ELSE Q[k].I \in Addresses
    /\ cursor \in Addresses \cup {INTPTR_MIN, INTPTR_MAX}
    /\ options \in [Flags -> BOOLEAN] /\ said \in [Flags -> BOOLEAN]
    /\ done \in Seq(Record)
    /\ emits \in Nat

\* The binary is rewritten incrementally, not in one batch.
Incremental == ~CommandLine["batch"] /\ \A v \in Argvs : "batch" \notin DOMAIN v

\* An instruction is patched under the options that the messages before its
\* "patch" message have set, and no others, although both wait in the queue.
OptionsInOrder == \A k \in 1..Len(done) : done[k].used = done[k].said

\* Unless in batch mode, instructions are patched in reverse order of address: the
\* strategy that keeps the puns of one patch out of the way of the next.
ReverseOrder == \A k, l \in 1..Len(done) : k < l => done[k].I > done[l].I

\* Before the binary is emitted nothing is patched within the look-ahead of an
\* instruction for which a "patch" message can still be accepted.
Margin ==
    cursor # INTPTR_MIN =>
        \A k \in 1..Len(done) : \A J \in Addresses : J < cursor => done[k].I > J + Window

\* When a binary is written, patch() has been called for every instruction that a
\* message asked for, and later messages cannot ask for more.
NothingForgotten ==
    emits > 0 => \A I \in patch : \E k \in 1..Len(done) : done[k].I = I

\* At most one binary is written.
EmitsOnce == emits <= 1

\* What is mapped for one reservation is in no page of another, and no trampoline
\* is in a page of which a part is reserved, whichever came first.
PagesOf(v) == (v.lb \div PAGE_SIZE)..((v.ub - 1) \div PAGE_SIZE)

PageDisjoint ==
    \A v \in reserved :
        /\ \A p \in placed : p \div PAGE_SIZE \notin PagesOf(v)
        /\ \A w \in reserved : w # v => PagesOf(w) \cap PagesOf(v) = {}

\* The queue is flushed in the end: after "emit", the binary is written.
Written == pc = "emit" ~> emits = 1

-----------------------------------------------------------------------------
\* The inductive invariant of the incremental mode, part by part.

\* A position of the queue or of done, and the options before a queue entry.
Ks(s) == 1..Len(s)
SaidBefore(k) == IF k = 1 THEN options ELSE Q[k - 1].said

\* Until the first "patch" message there is nothing to wait for.
Started == cursor = INTPTR_MAX => Q = <<>> /\ done = <<>>

\* Addresses go down from the first instruction patched to the last one queued.
Descending ==
    /\ \A k, l \in Ks(Q) : k < l /\ ~Q[k].options /\ ~Q[l].options => Q[k].I > Q[l].I
    /\ \A k \in Ks(Q) : ~Q[k].options => Q[k].I >= cursor
    /\ \A k \in Ks(done), l \in Ks(Q) : ~Q[l].options => done[k].I > Q[l].I
    /\ ReverseOrder

\* What is patched is beyond the look-ahead.
Ahead == cursor # INTPTR_MIN => \A k \in Ks(done) : done[k].I > cursor + Window

\* Each entry continues where the one before it left the options, the first one
\* from the options in force.
Chained ==
    /\ \A k \in Ks(Q) :
          Q[k].said = IF Q[k].options THEN Apply(Q[k].argv, SaidBefore(k)) ELSE SaidBefore(k)
    /\ said = IF Q = <<>> THEN options ELSE Q[Len(Q)].said
    /\ OptionsInOrder

\* Nothing that was asked for is lost between the queue and patch().
Accounted ==
    \A I \in patch : \/ \E k \in Ks(Q) : ~Q[k].options /\ Q[k].I = I
                     \/ \E k \in Ks(done) : done[k].I = I

\* After "emit" only options are queued, and the cursor cannot go down again.
Emission ==
    /\ pc = "emit" => emits = 0 /\ cursor = INTPTR_MIN
    /\ emits > 0 => emits = 1 /\ cursor = INTPTR_MIN /\ \A k \in Ks(Q) : Q[k].options

IInv ==
    /\ TypeOK /\ ~option_batch
    /\ Started /\ Descending /\ Ahead /\ Chained /\ Accounted /\ Emission

=============================================================================
