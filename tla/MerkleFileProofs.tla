-------------------------- MODULE MerkleFileProofs --------------------------
(***************************************************************************)
(* Theorems about MerkleFile, for any set of hashes, any length of the     *)
(* file and any number of crashes.                                         *)
(***************************************************************************)
EXTENDS MerkleFile, SequenceTheorems, TLAPS

(* Leaf i as the file has it.                                              *)
Pair(f, i) == <<f[2 * i - 1], f[2 * i]>>

(* A leaf is its two halves.                                               *)
LEMMA LeafFacts ==
  ASSUME NEW l \in Leaf
  PROVE  /\ l \in Seq(Half) /\ Len(l) = 2
         /\ l = <<l[1], l[2]>>
         /\ l[1] \in Half /\ l[2] \in Half
         /\ l \in Half \X Half
         /\ l # NoLeaf
<1>1. PICK h \in Hashes : l = <<<<h, "first">>, <<h, "second">>>>
  BY DEF Leaf, Halves
<1>2. <<h, "first">> \in Half /\ <<h, "second">> \in Half
  BY DEF Half
<1>. QED BY <1>1, <1>2 DEF NoLeaf

(* A whole write adds one pair at the end (persistence.go 62-75).          *)
LEMMA WriteFacts ==
  ASSUME NEW f \in Seq(Half), NEW l \in Leaf
  PROVE  /\ f \o l \in Seq(Half)
         /\ Len(f \o l) = Len(f) + 2
         /\ \A j \in 1..Len(f) : (f \o l)[j] = f[j]
         /\ (f \o l)[Len(f) + 1] = l[1] /\ (f \o l)[Len(f) + 2] = l[2]
<1>1. l \in Seq(Half) /\ Len(l) = 2 /\ Len(f) \in Nat
  BY LeafFacts
<1>0. /\ f \o l \in Seq(Half)
      /\ Len(f \o l) = Len(f) + Len(l)
      /\ \A i \in 1..(Len(f) + Len(l)) :
           (f \o l)[i] = IF i <= Len(f) THEN f[i] ELSE l[i - Len(f)]
  BY <1>1, ConcatProperties, Zenon
<1>2. /\ f \o l \in Seq(Half)
      /\ Len(f \o l) = Len(f) + 2
      /\ \A i \in 1..(Len(f) + 2) :
           (f \o l)[i] = IF i <= Len(f) THEN f[i] ELSE l[i - Len(f)]
  BY <1>0, <1>1, Zenon
<1> DEFINE g == f \o l
           n == Len(f)
<1>3. /\ n \in Nat
      /\ \A i \in 1..(n + 2) : g[i] = IF i <= n THEN f[i] ELSE l[i - n]
  BY <1>1, <1>2
<1> HIDE DEF g, n
<1>4. /\ n + 1 \in 1..(n + 2) /\ n + 2 \in 1..(n + 2)
      /\ ~(n + 1 <= n) /\ ~(n + 2 <= n)
      /\ (n + 1) - n = 1 /\ (n + 2) - n = 2
  BY <1>3
<1>5. g[n + 1] = l[1] /\ g[n + 2] = l[2]
  BY <1>3, <1>4
<1>6. \A j \in 1..n : g[j] = f[j]
  BY <1>3
<1>. QED BY <1>2, <1>5, <1>6 DEF g, n

(* A part of a write: nothing, or one half.                                *)
LEMMA PartFacts ==
  ASSUME NEW f \in Seq(Half), NEW l \in Leaf, NEW n \in 0..1
  PROVE  /\ f \o SubSeq(l, 1, n) \in Seq(Half)
         /\ Len(f \o SubSeq(l, 1, n)) = Len(f) + n
         /\ n = 0 => f \o SubSeq(l, 1, n) = f
<1>1. l \in Seq(Half) /\ Len(l) = 2
  BY LeafFacts
<1>2. SubSeq(l, 1, n) \in Seq(Half) /\ Len(SubSeq(l, 1, n)) = n
  BY <1>1
<1>3. n = 0 => SubSeq(l, 1, n) = <<>>
  BY <1>2
<1>. QED BY <1>2, <1>3

(* What a crash leaves of the file.                                        *)
LEMMA CutFacts ==
  ASSUME NEW f \in Seq(Half), NEW n \in 0..Len(f)
  PROVE  /\ SubSeq(f, 1, n) \in Seq(Half)
         /\ Len(SubSeq(f, 1, n)) = n
         /\ \A j \in 1..n : SubSeq(f, 1, n)[j] = f[j]
OBVIOUS

(* loadLocked reads a leaf for every pair (persistence.go 88-110).         *)
LEMMA LoadedFacts ==
  ASSUME file \in Seq(Half)
  PROVE  LET m == Len(file) \div 2 IN
         /\ m \in Nat /\ 2 * m <= Len(file) /\ Len(file) <= 2 * m + 1
         /\ Aligned => 2 * m = Len(file)
         /\ Loaded \in Seq(Half \X Half)
         /\ Len(Loaded) = m
         /\ \A i \in 1..m : Loaded[i] = Pair(file, i)
<1> DEFINE m == Len(file) \div 2
<1>1. Len(file) \in Nat /\ DOMAIN file = 1..Len(file)
  OBVIOUS
<1>2. m \in Nat /\ 2 * m <= Len(file) /\ Len(file) <= 2 * m + 1
  BY <1>1
<1>3. Aligned => 2 * m = Len(file)
  <2>1. \A k \in Nat : k % 2 = 0 => 2 * (k \div 2) = k
    OBVIOUS
  <2>. QED BY <1>1, <2>1 DEF Aligned
<1>4. ASSUME NEW i \in 1..m
      PROVE  Pair(file, i) \in Half \X Half
  <2>1. 2 * i - 1 \in DOMAIN file /\ 2 * i \in DOMAIN file
    <3> HIDE DEF m
    <3>. QED BY <1>1, <1>2, <1>4
  <2>. QED BY <2>1 DEF Pair
<1>5. Loaded = [i \in 1..m |-> Pair(file, i)]
  BY DEF Loaded, Pair
<1> HIDE DEF m
<1>6. Loaded \in Seq(Half \X Half) /\ Len(Loaded) = m
      /\ \A i \in 1..m : Loaded[i] = Pair(file, i)
  BY <1>2, <1>4, <1>5
<1>. QED BY <1>2, <1>3, <1>6 DEF m

(* Every step keeps the types (persistence.go 22-110).                     *)
LEMMA TypeStep == TypeOK /\ [Next]_vars => TypeOK'
<1> SUFFICES ASSUME TypeOK, [Next]_vars PROVE TypeOK'
  OBVIOUS
<1>0. /\ file \in Seq(Half) /\ Len(file) \in Nat /\ Len(file) <= MaxHalves
      /\ MaxHalves \in Nat /\ synced \in 0..Len(file)
      /\ leaves \in Seq(Half \X Half) /\ Len(leaves) \in Nat
      /\ stops \in 0..MaxStops /\ MaxStops \in Nat
  BY FileBounds DEF TypeOK
<1>1. CASE Open
  <2>1. Loaded \in Seq(Half \X Half)
    BY <1>0, LoadedFacts
  <2>. QED BY <1>1, <2>1 DEF Open, TypeOK
<1>2. ASSUME NEW l \in Leaf, Write(l) PROVE TypeOK'
  <2>1. file' \in Seq(Half) /\ Len(file') = Len(file) + 2
    BY <1>0, <1>2, WriteFacts DEF Write
  <2>2. Len(file') <= MaxHalves /\ synced' \in 0..Len(file')
    BY <1>0, <1>2, <2>1 DEF Write
  <2>3. leaf' \in Leaf /\ leaf' # NoLeaf
    BY <1>2, LeafFacts DEF Write
  <2>. QED BY <1>2, <2>1, <2>2, <2>3 DEF Write, TypeOK
<1>3. ASSUME NEW l \in Leaf, WriteFails(l) PROVE TypeOK'
  <2>1. PICK n \in 0..1 : file' = file \o SubSeq(l, 1, n)
                            /\ healthy' = (healthy /\ n = 0)
    BY <1>3 DEF WriteFails
  <2>2. file' \in Seq(Half) /\ Len(file') = Len(file) + n
    BY <1>0, <2>1, PartFacts
  <2>3. Len(file') <= MaxHalves /\ synced' \in 0..Len(file')
    BY <1>0, <1>3, <2>2 DEF WriteFails
  <2>4. healthy' \in BOOLEAN
    BY <2>1
  <2>. QED BY <1>3, <2>2, <2>3, <2>4 DEF WriteFails, TypeOK
<1>4. CASE Sync
  <2>1. leaf \in Half \X Half
    BY <1>4, LeafFacts DEF Sync, TypeOK
  <2>2. leaves' \in Seq(Half \X Half) /\ Len(leaves') \in Nat
    BY <1>0, <1>4, <2>1 DEF Sync
  <2>3. synced' \in 0..Len(file')
    BY <1>0, <1>4 DEF Sync
  <2>. QED BY <1>0, <1>4, <2>2, <2>3 DEF Sync, TypeOK
<1>5. CASE SyncFails
  BY <1>5 DEF SyncFails, TypeOK
<1>6. CASE Close
  BY <1>0, <1>6 DEF Close, TypeOK
<1>7. CASE Kill
  BY <1>0, <1>7 DEF Kill, Die, TypeOK
<1>8. CASE Crash
  <2>1. PICK n \in synced..Len(file) : file' = SubSeq(file, 1, n) /\ synced' = n
    BY <1>8 DEF Crash
  <2>2. n \in 0..Len(file)
    BY <1>0
  <2>3. file' \in Seq(Half) /\ Len(file') = n
    BY <1>0, <2>1, <2>2, CutFacts
  <2>4. Len(file') <= MaxHalves /\ synced' \in 0..Len(file')
    BY <1>0, <2>1, <2>2, <2>3
  <2>. QED BY <1>0, <1>8, <2>3, <2>4 DEF Crash, Die, TypeOK
<1>9. CASE UNCHANGED vars
  BY <1>9 DEF vars, TypeOK
<1>. QED BY <1>1, <1>2, <1>3, <1>4, <1>5, <1>6, <1>7, <1>8, <1>9 DEF Next

(* Type correctness of the file and the tree.                              *)
THEOREM FileTypeCorrect == Spec => []TypeOK
<1>1. Init => TypeOK
  BY FileBounds DEF Init, TypeOK
<1>. QED BY <1>1, TypeStep, PTL DEF Spec

-----------------------------------------------------------------------------
(* The inductive invariant: where the file, the tree in memory and what    *)
(* was last in memory agree while no call failed halfway (persistence.go   *)
(* 18-110).                                                                *)
InStep ==
  healthy =>
    /\ 2 * acked <= synced /\ acked <= Len(kept)
    /\ \A i \in 1..Len(kept) : 2 * i <= Len(file) => Pair(file, i) = kept[i]
    /\ pc \in {"open", "closed"} =>
         Len(file) = 2 * Len(leaves) /\ kept = leaves
    /\ pc = "writing" =>
         /\ Len(file) = 2 * Len(leaves) + 2 /\ kept = leaves
         /\ Pair(file, Len(leaves) + 1) = leaf
    /\ pc = "down" => Len(file) <= 2 * Len(kept) + 2

(* Every step keeps file and tree in step: a crash cuts off only what no   *)
(* append has answered for (persistence.go 18-20, 62-75).                  *)
LEMMA InStepStep == TypeOK /\ InStep /\ [Next]_vars => InStep'
<1> SUFFICES ASSUME TypeOK, InStep, [Next]_vars, healthy' PROVE InStep'
  BY DEF InStep
<1>0. /\ file \in Seq(Half) /\ Len(file) \in Nat
      /\ synced \in 0..Len(file) /\ acked \in Nat
      /\ leaves \in Seq(Half \X Half) /\ Len(leaves) \in Nat
      /\ kept \in Seq(Half \X Half) /\ Len(kept) \in Nat
  BY DEF TypeOK
<1>h. healthy
  BY DEF Next, Open, Write, WriteFails, Sync, SyncFails, Close, Kill, Crash,
     Die, vars
<1>i. /\ 2 * acked <= synced /\ acked <= Len(kept)
      /\ \A i \in 1..Len(kept) : 2 * i <= Len(file) => Pair(file, i) = kept[i]
  BY <1>h DEF InStep
<1>1. CASE Open
  <2> DEFINE m == Len(file) \div 2
  <2>1. /\ m \in Nat /\ 2 * m = Len(file)
        /\ Len(Loaded) = m
        /\ \A i \in 1..m : Loaded[i] = Pair(file, i)
    BY <1>0, <1>1, LoadedFacts DEF Open
  <2>2. leaves' = Loaded /\ kept' = Loaded /\ pc' = "open"
        /\ UNCHANGED <<file, synced, acked>>
    BY <1>1 DEF Open
  <2> HIDE DEF m
  <2>3. 2 * acked' <= synced' /\ acked' <= Len(kept')
    BY <1>0, <1>i, <2>1, <2>2
  <2>4. \A i \in 1..Len(kept') : Pair(file', i) = kept'[i]
    BY <2>1, <2>2
  <2>5. Len(file') = 2 * Len(leaves') /\ kept' = leaves'
    BY <2>1, <2>2
  <2>. QED BY <2>2, <2>3, <2>4, <2>5 DEF InStep
<1>2. ASSUME NEW l \in Leaf, Write(l) PROVE InStep'
  <2> DEFINE n == Len(leaves)
  <2>1. /\ Len(file') = Len(file) + 2
        /\ \A j \in 1..Len(file) : file'[j] = file[j]
        /\ file'[Len(file) + 1] = l[1] /\ file'[Len(file) + 2] = l[2]
    BY <1>0, <1>2, WriteFacts DEF Write
  <2>2. Len(file) = 2 * n /\ kept = leaves
    BY <1>2, <1>h DEF InStep, Write
  <2>3. pc' = "writing" /\ leaf' = l /\ UNCHANGED <<synced, leaves, kept, acked>>
    BY <1>2 DEF Write
  <2>4. Pair(file', n + 1) = leaf'
    <3>1. 2 * (n + 1) - 1 = Len(file) + 1 /\ 2 * (n + 1) = Len(file) + 2
      BY <1>0, <2>2
    <3>2. Pair(file', n + 1) = <<l[1], l[2]>>
      BY <2>1, <3>1 DEF Pair
    <3>. QED BY <2>3, <3>2, LeafFacts
  <2>5. ASSUME NEW i \in 1..Len(kept) PROVE Pair(file', i) = kept[i]
    <3>1. 2 * i \in 1..Len(file) /\ 2 * i - 1 \in 1..Len(file)
      BY <1>0, <2>2
    <3>2. Pair(file', i) = Pair(file, i)
      BY <2>1, <3>1 DEF Pair
    <3>. QED BY <1>0, <1>i, <2>2, <3>2
  <2>. QED BY <1>0, <1>i, <2>1, <2>2, <2>3, <2>4, <2>5 DEF InStep
<1>3. ASSUME NEW l \in Leaf, WriteFails(l) PROVE InStep'
  <2>1. file' = file
    BY <1>0, <1>3, PartFacts DEF WriteFails
  <2>. QED BY <1>3, <2>1 DEF WriteFails, InStep
<1>4. CASE Sync
  <2> DEFINE n == Len(leaves)
  <2>1. /\ Len(file) = 2 * n + 2 /\ kept = leaves
        /\ Pair(file, n + 1) = leaf
    BY <1>4, <1>h DEF InStep, Sync
  <2>2. leaf \in Half \X Half
    BY <1>4, LeafFacts DEF Sync, TypeOK
  <2>3. /\ leaves' = Append(leaves, leaf) /\ kept' = leaves'
        /\ acked' = Len(leaves') /\ synced' = Len(file) /\ file' = file
        /\ pc' = "open"
    BY <1>4 DEF Sync
  <2>4. /\ Len(leaves') = n + 1
        /\ \A i \in 1..n : leaves'[i] = leaves[i]
        /\ leaves'[n + 1] = leaf
    BY <1>0, <2>2, <2>3
  <2>5. ASSUME NEW i \in 1..Len(kept') PROVE Pair(file', i) = kept'[i]
    <3>1. CASE i = n + 1
      BY <2>1, <2>3, <2>4, <3>1
    <3>2. CASE i \in 1..n
      <4>1. 2 * i <= Len(file)
        BY <1>0, <2>1, <3>2
      <4>. QED BY <1>i, <2>1, <2>3, <2>4, <3>2, <4>1
    <3>. QED BY <1>0, <2>3, <2>4, <3>1, <3>2
  <2>. QED BY <1>0, <2>1, <2>3, <2>4, <2>5 DEF InStep
<1>5. CASE SyncFails
  BY <1>5 DEF SyncFails, InStep
<1>6. CASE Close
  BY <1>h, <1>6 DEF Close, InStep
<1>7. CASE Kill \/ Crash
  <2>1. Len(file) <= 2 * Len(kept) + 2
    BY <1>0, <1>h DEF InStep, TypeOK
  <2>2. pc' = "down" /\ kept' = kept /\ acked' = acked
    BY <1>7 DEF Kill, Crash, Die
  <2>3. PICK n \in synced..Len(file) :
          /\ synced' = n \/ synced' = synced
          /\ file' = SubSeq(file, 1, n) \/ (n = Len(file) /\ file' = file)
          /\ synced' >= synced
    <3>1. CASE Kill
      BY <1>0, <3>1 DEF Kill
    <3>2. CASE Crash
      BY <1>0, <3>2 DEF Crash
    <3>. QED BY <1>7, <3>1, <3>2
  <2>4. /\ Len(file') = n /\ n \in 0..Len(file)
        /\ \A j \in 1..n : file'[j] = file[j]
    BY <1>0, <2>3, CutFacts
  <2>5. ASSUME NEW i \in 1..Len(kept), 2 * i <= Len(file')
        PROVE  Pair(file', i) = kept[i]
    <3>1. 2 * i \in 1..n /\ 2 * i - 1 \in 1..n /\ 2 * i <= Len(file)
      BY <1>0, <2>4, <2>5
    <3>2. Pair(file', i) = Pair(file, i)
      BY <2>4, <3>1 DEF Pair
    <3>. QED BY <1>i, <3>1, <3>2
  <2>6. 2 * acked <= synced' /\ Len(file') <= 2 * Len(kept) + 2
    BY <1>0, <1>i, <2>1, <2>3, <2>4
  <2>. QED BY <1>i, <2>2, <2>5, <2>6 DEF InStep
<1>8. CASE UNCHANGED vars
  BY <1>8 DEF vars, InStep
<1>. QED BY <1>1, <1>2, <1>3, <1>4, <1>5, <1>6, <1>7, <1>8 DEF Next

(* An absent file and a tree not yet opened are in step (persistence.go    *)
(* 24-35).                                                                 *)
LEMMA InStepInit == Init => InStep
BY DEF Init, InStep

(* While no call failed halfway, every leaf an append has answered for is  *)
(* on disk for good, in place, whatever crashes come next, and an open     *)
(* file has the size of the tree (persistence.go 18-20, merkle/README.md   *)
(* 44-46).                                                                 *)
THEOREM AnsweredLeavesSurvive == Spec => []LeavesAreDurable
<1>1. TypeOK /\ InStep => LeavesAreDurable
  <2> SUFFICES ASSUME TypeOK, InStep, healthy
               PROVE  /\ 2 * acked <= synced
                      /\ pc = "open" => Len(file) = 2 * Len(leaves)
                      /\ \A i \in 1..acked : Pair(file, i) = kept[i]
    BY DEF LeavesAreDurable, Pair
  <2>1. /\ 2 * acked <= synced /\ acked <= Len(kept)
        /\ \A i \in 1..Len(kept) : 2 * i <= Len(file) => Pair(file, i) = kept[i]
        /\ pc = "open" => Len(file) = 2 * Len(leaves)
    BY DEF InStep
  <2>2. acked \in Nat /\ Len(kept) \in Nat /\ Len(file) \in Nat
        /\ synced \in 0..Len(file)
    BY DEF TypeOK
  <2>3. ASSUME NEW i \in 1..acked PROVE Pair(file, i) = kept[i]
    <3>1. i \in 1..Len(kept) /\ 2 * i <= Len(file)
      BY <2>1, <2>2
    <3>. QED BY <2>1, <3>1
  <2>. QED BY <2>1, <2>3
<1>. QED BY <1>1, FileTypeCorrect, InStepInit, InStepStep, PTL DEF Spec

(* Reopening finds the tree as it was: nothing answered for is missing,    *)
(* nothing has changed and at most the leaf whose append was cut off is    *)
(* new (persistence.go 88-110, merkle/README.md 44-46).                    *)
THEOREM ReopeningFindsTheTree == Spec => ReopensTheTree
<1> DEFINE Found == /\ Len(leaves') \in acked..Len(kept) + 1
                    /\ \A i \in DOMAIN leaves' \cap DOMAIN kept :
                         leaves'[i] = kept[i]
<1>1. ASSUME TypeOK, InStep, healthy, Open
      PROVE  Found
  <2> DEFINE m == Len(file) \div 2
  <2>0. /\ file \in Seq(Half) /\ Len(file) \in Nat /\ synced \in 0..Len(file)
        /\ acked \in Nat /\ kept \in Seq(Half \X Half) /\ Len(kept) \in Nat
        /\ DOMAIN kept = 1..Len(kept)
    BY <1>1 DEF TypeOK
  <2>1. /\ m \in Nat /\ 2 * m = Len(file)
        /\ Loaded \in Seq(Half \X Half) /\ Len(Loaded) = m
        /\ \A i \in 1..m : Loaded[i] = Pair(file, i)
    BY <1>1, <2>0, LoadedFacts DEF Open
  <2>2. leaves' = Loaded /\ DOMAIN Loaded = 1..m
    BY <1>1, <2>1 DEF Open
  <2>3. /\ 2 * acked <= synced
        /\ \A i \in 1..Len(kept) : 2 * i <= Len(file) => Pair(file, i) = kept[i]
        /\ Len(file) <= 2 * Len(kept) + 2
    BY <1>1, <2>0 DEF InStep, Open
  <2> HIDE DEF m
  <2>4. Len(leaves') \in acked..Len(kept) + 1
    BY <2>0, <2>1, <2>2, <2>3
  <2>5. ASSUME NEW i \in DOMAIN leaves' \cap DOMAIN kept
        PROVE  leaves'[i] = kept[i]
    <3>1. i \in 1..m /\ i \in 1..Len(kept) /\ 2 * i <= Len(file)
      BY <2>0, <2>1, <2>2
    <3>. QED BY <2>1, <2>2, <2>3, <3>1
  <2>. QED BY <2>4, <2>5
<1>2. TypeOK /\ InStep => [healthy /\ Open => Found]_vars
  BY <1>1
<1>. QED
  BY <1>2, FileTypeCorrect, InStepInit, InStepStep, PTL DEF Spec, ReopensTheTree

=============================================================================
