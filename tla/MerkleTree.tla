----------------------------- MODULE MerkleTree -----------------------------
(***************************************************************************)
(* The RFC 6962 tree of go-key-service/internal/merkle: heads, inclusion   *)
(* proofs and consistency proofs (tree.go, inclusion.go, consistency.go).  *)
(*                                                                         *)
(* Hashing is symbolic and collision free: a hash is the term that was     *)
(* hashed.  Leaf and node terms are tagged, as HashLeaf and HashChildren   *)
(* prefix their input with different bytes.                                *)
(***************************************************************************)
EXTENDS Integers, Sequences

CONSTANTS Data,      (* leaf payloads                                      *)
          MaxLeaves  (* bound of the model                                 *)

ASSUME TreeBound == MaxLeaves \in Nat

VARIABLE leaves      (* Tree.leaves, hashed                                *)

HashLeaf(d) == <<"leaf", d>>

(* Slip: the left child is not written into the hash.                      *)
HashRightChild(l, r) == <<"node", r>>

HashChildren(l, r) == <<"node", l, r>>
EmptyRoot == <<"empty">>

(* The loop doubles k while that keeps it below n; below n the doubles     *)
(* are the doubles of what is below half of n, rounded up.                 *)
largestPowerOfTwoLessThan[n \in Nat] ==
  IF n <= 2 THEN 1 ELSE 2 * largestPowerOfTwoLessThan[(n + 1) \div 2]

(* The head of the n leaves of s from position off on, n > 0.              *)
Heads(s) ==
  LET head[n \in Nat] ==
        [off \in Nat |->
           IF n <= 1 THEN s[off + 1]
           ELSE LET k == largestPowerOfTwoLessThan[n]
                IN  HashChildren(head[k][off], head[n - k][off + k])]
  IN  head

mth(s) == IF s = <<>> THEN EmptyRoot ELSE Heads(s)[Len(s)][0]

RootAt(size) == mth(SubSeq(leaves, 1, size))

(* PATH(m, D[n]) of the n leaves of s from off on: siblings, bottom up.    *)
Paths(s) ==
  LET head == Heads(s)
      path[n \in Nat] ==
        [off \in Nat |-> [m \in Nat |->
           IF n <= 1 THEN <<>>
           ELSE LET k == largestPowerOfTwoLessThan[n]
                IN  IF m < k
                    THEN Append(path[k][off][m], head[n - k][off + k])
                    ELSE Append(path[n - k][off + k][m - k], head[k][off])]]
  IN  path

(* ProofAt, where it returns no error: idx < size <= Len(leaves).          *)
ProofAt(idx, size) == Paths(SubSeq(leaves, 1, size))[size][0][idx]

(* SUBPROOF(m, D[n], b) of the n leaves of s from off on, 0 < m <= n.      *)
Subproofs(s) ==
  LET head == Heads(s)
      subproof[n \in Nat] ==
        [off \in Nat |-> [m \in Nat |-> [atRoot \in BOOLEAN |->
           IF m = n \/ n <= 1
           THEN IF atRoot THEN <<>> ELSE <<head[n][off]>>
           ELSE LET k == largestPowerOfTwoLessThan[n]
                IN  IF m <= k
                    THEN Append(subproof[k][off][m][atRoot],
                                head[n - k][off + k])
                    ELSE Append(subproof[n - k][off + k][m - k][FALSE],
                                head[k][off])]]]
  IN  subproof

(* ProofForRange, where it returns no error: old <= new <= Len(leaves).    *)
ProofForRange(old, new) ==
  IF old = 0 \/ old = new THEN <<>>
  ELSE Subproofs(SubSeq(leaves, 1, new))[new][0][old][TRUE]

-----------------------------------------------------------------------------
Odd(n) == n % 2 = 1

(* for fn&1 == 0 && fn != 0 { fn >>= 1; sn >>= 1 }                         *)
ShiftToOdd[fn \in Nat] ==
  [sn \in Nat |-> IF Odd(fn) \/ fn = 0 THEN <<fn, sn>>
                  ELSE ShiftToOdd[fn \div 2][sn \div 2]]

(* Slip: the right edge of the tree is forgotten.                          *)
FromLeftIfOdd(fn, sn) == Odd(fn)

(* The step both verifiers share: whether the next proof element is a left *)
(* sibling, and the positions one level up.                                *)
FromLeft(fn, sn) == Odd(fn) \/ fn = sn

Up(fn, sn) ==
  LET at == IF FromLeft(fn, sn) THEN ShiftToOdd[fn][sn] ELSE <<fn, sn>>
  IN  <<at[1] \div 2, at[2] \div 2>>

(* The loop of verifyInclusionFromHash after i elements of the proof; long *)
(* is set once it has met one with sn = 0, and returned the error.         *)
Climb(leaf, idx, size, proof) ==
  LET at[i \in Nat] ==
        IF i = 0 THEN [r |-> leaf, fn |-> idx, sn |-> size - 1, long |-> FALSE]
        ELSE LET was == at[i - 1]
                 up == Up(was.fn, was.sn)
             IN  [r    |-> IF FromLeft(was.fn, was.sn)
                           THEN HashChildren(proof[i], was.r)
                           ELSE HashChildren(was.r, proof[i]),
                  fn   |-> up[1],
                  sn   |-> up[2],
                  long |-> was.long \/ was.sn = 0]
  IN  at

VerifyInclusionHash(leaf, idx, size, proof, root) ==
  /\ size > 0
  /\ idx < size
  /\ LET end == Climb(leaf, idx, size, proof)[Len(proof)]
     IN  ~end.long /\ end.sn = 0 /\ end.r = root

(* for fn&1 == 1 { fn >>= 1; sn >>= 1 }                                    *)
ShiftToEven[fn \in Nat] ==
  [sn \in Nat |-> IF Odd(fn) THEN ShiftToEven[fn \div 2][sn \div 2]
                  ELSE <<fn, sn>>]

(* Slip: 1 is not a power of two.                                          *)
isPowerOfTwoAboveOne(n) == n > 1 /\ n = 2 * largestPowerOfTwoLessThan[n]

isPowerOfTwo(n) == n = 1 \/ (n > 1 /\ n = 2 * largestPowerOfTwoLessThan[n])

(* Slip: the derived old root is not compared.                             *)
AgreesOnNew(fr, sr, oldRoot, newRoot) == sr = newRoot

(* The two derived roots are the claimed ones.                             *)
Agrees(fr, sr, oldRoot, newRoot) == fr = oldRoot /\ sr = newRoot

(* The loop of VerifyConsistency after i elements of the proof, skip of    *)
(* which it took before the loop; long is set once it has stopped, with    *)
(* sn = 0, before the proof's end.                                         *)
Combine(first, fn0, sn0, proof, skip) ==
  LET at[i \in Nat] ==
        IF i <= skip
        THEN [fr |-> first, sr |-> first, fn |-> fn0, sn |-> sn0, long |-> FALSE]
        ELSE LET was == at[i - 1]
                 left == FromLeft(was.fn, was.sn)
                 up == Up(was.fn, was.sn)
             IN  [fr   |-> IF left THEN HashChildren(proof[i], was.fr)
                                   ELSE was.fr,
                  sr   |-> IF left THEN HashChildren(proof[i], was.sr)
                                   ELSE HashChildren(was.sr, proof[i]),
                  fn   |-> up[1],
                  sn   |-> up[2],
                  long |-> was.long \/ was.sn = 0]
  IN  at

VerifyConsistency(oldRoot, newRoot, old, new, proof) ==
  CASE old > new -> FALSE
    [] old = new -> oldRoot = newRoot /\ proof = <<>>
    [] old < new /\ old = 0 -> proof = <<>>
    [] OTHER ->
         LET at == ShiftToEven[old - 1][new - 1]
             skip == IF isPowerOfTwo(old) THEN 0 ELSE 1
             first == IF isPowerOfTwo(old) THEN oldRoot ELSE proof[1]
             end == Combine(first, at[1], at[2], proof, skip)[Len(proof)]
         IN  /\ Len(proof) >= skip
             /\ ~end.long /\ end.sn = 0
             /\ Agrees(end.fr, end.sr, oldRoot, newRoot)

-----------------------------------------------------------------------------
Init == leaves = <<>>

(* Tree.Append                                                             *)
AppendLeaf(d) ==
  /\ Len(leaves) < MaxLeaves
  /\ leaves' = Append(leaves, HashLeaf(d))

Next == \E d \in Data : AppendLeaf(d)

Spec == Init /\ [][Next]_leaves

-----------------------------------------------------------------------------
(* Tree.Size                                                               *)
Size == Len(leaves)

(* Every proof the tree hands out for a leaf, in the live tree or at any   *)
(* earlier size, is accepted (inclusion.go 11-39 against 71-113).          *)
InclusionComplete ==
  \A size \in 1..Size : \A idx \in 0..(size - 1) :
    VerifyInclusionHash(leaves[idx + 1], idx, size, ProofAt(idx, size),
                        RootAt(size))

(* Proofs a client may hold and present for the wrong claim: those of any  *)
(* position and size of this tree, whole or cut short.                     *)
Candidates ==
  LET honest == UNION {{ProofAt(i, n) : i \in 0..(n - 1)} \cup
                       {ProofForRange(i, n) : i \in 0..(n - 1)} : n \in 1..Size}
  IN  honest \cup {SubSeq(p, 1, Len(p) - 1) : p \in honest \ {<<>>}}

(* No proof makes the verifier accept, at a position of the live tree, a   *)
(* leaf that is not there (inclusion.go 71-113).                           *)
InclusionSound ==
  \A idx \in 0..(Size - 1), d \in Data, proof \in Candidates :
    VerifyInclusionHash(HashLeaf(d), idx, Size, proof, RootAt(Size))
      => leaves[idx + 1] = HashLeaf(d)

(* The live tree proves itself an extension of every tree it ever was      *)
(* (consistency.go 13-26 against 51-125).                                  *)
ConsistencyComplete ==
  \A new \in 0..Size : \A old \in 0..new :
    VerifyConsistency(RootAt(old), RootAt(new), old, new,
                      ProofForRange(old, new))

(* Logs of a given length, the rewritten ones included.                    *)
Logs(len) == [1..len -> {HashLeaf(d) : d \in Data}]

(* No proof makes the head of a rewritten log pass as an earlier head of   *)
(* the live one, whatever size it claims (consistency.go 51-125).  Size 0, *)
(* which the code accepts with any root, is left out here.                 *)
ConsistencySound ==
  \A old \in 1..Size : \A log \in Logs(old), proof \in Candidates :
    VerifyConsistency(mth(log), RootAt(Size), old, Size, proof)
      => log = SubSeq(leaves, 1, old)

=============================================================================
