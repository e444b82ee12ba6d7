------------------------------ MODULE MCTactics ------------------------------
(***************************************************************************)
(* Code fragments for Tactics.  A byte is a digit in base 16 and a jump    *)
(* has three of them, so a short jump reaches 8 bytes back and 7 ahead and *)
(* a long one 128.  The bytes of a fragment repeat a word over a few       *)
(* digits: every way in which the displacements of the puns can constrain  *)
(* each other occurs, without enumerating all contents.                    *)
(***************************************************************************)
EXTENDS Tactics

Plain(n) == [addr |-> 0, size |-> n, target |-> FALSE, cft |-> FALSE,
             pcrel32_idx |-> 0, pcrel8_idx |-> 0]
Target(n) == [Plain(n) EXCEPT !.target = TRUE]
Transfer(n) == [Plain(n) EXCEPT !.cft = TRUE]

\* Instructions one after the other, with a byte of padding behind those in gaps.
Place(s, gaps) ==
    LET A[I \in 1..Len(s)] ==
          IF I = 1 THEN 0 ELSE A[I-1] + s[I-1].size + IF I - 1 \in gaps THEN 1 ELSE 0
    IN  [I \in 1..Len(s) |-> [s[I] EXCEPT !.addr = A[I]]]

\* All contents that repeat a word of n of the given digits.
Words(n, digits) == {[a \in 0..(End - 1) |-> w[a % n]] : w \in [0..(n - 1) -> digits]}

MCLb == -200

\* Short instructions between long ones, every one of which may be patched.
CodeDense == Place(<<Plain(4), Plain(2), Plain(1), Plain(2), Plain(2), Plain(4)>>, {})
ContentsDense == Words(3, {1, 2, 10})
SpaceDense == {-27, -9, 20, 31, 40}

\* Basic blocks, longer together than the look-ahead, so that patching begins
\* before all messages are in; there is room for few trampolines.
CodeBlocks == Place(<<Plain(4), Plain(2), Target(3), Plain(4), Plain(1), Transfer(4), Plain(2), Target(2)>>, {})
ContentsBlocks == Words(2, {1, 10})
SpaceBlocks == {-20, 41}

\* A one-byte instruction whose displacement, the first byte of the next one,
\* leads into that next instruction.
CodeSingle == Place(<<Plain(2), Plain(1), Plain(4), Plain(2)>>, {})
ContentsSingle == {[a \in 0..(End - 1) |-> 1]}
SpaceSingle == {-21, -20, -19, 24}

=============================================================================
