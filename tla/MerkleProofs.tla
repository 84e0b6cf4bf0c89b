---------------------------- MODULE MerkleProofs ----------------------------
(***************************************************************************)
(* Theorems about MerkleTree and MerkleVerifier, for trees of any size.    *)
(***************************************************************************)
EXTENDS MerkleVerifier, TLAPS

(* Half of n, rounded up: the length of the level above one of n nodes.    *)
Half(n) == (n + 1) \div 2

(* Arithmetic of halves.                                                   *)
LEMMA HalfFacts ==
  ASSUME NEW n \in Nat
  PROVE  /\ Half(n) \in Nat /\ n \div 2 \in Nat
         /\ n > 0 => Half(n) > 0
         /\ n > 1 => Half(n) < n
         /\ n > 2 => Half(n) > 1
         /\ 2 * Half(n) = n \/ 2 * Half(n) = n + 1
         /\ Odd(n) => n \div 2 + n \div 2 + 1 = n /\ 2 * Half(n) = n + 1
         /\ ~Odd(n) => n \div 2 + n \div 2 = n /\ 2 * Half(n) = n
         /\ Half(n + 1) = n \div 2 + 1
         /\ n > 0 => n \div 2 < n
BY DEF Half, Odd

-----------------------------------------------------------------------------
(* The doubling loop of largestPowerOfTwoLessThan (tree.go 148-157).       *)
PowerDef(p, f, n) == IF n <= 2 THEN 1 ELSE 2 * f[(n + 1) \div 2]

Power == INSTANCE Recursion WITH Def <- PowerDef

(* One turn of the loop (tree.go 148-157).                                 *)
LEMMA PowerUnfold ==
  \A n \in Nat : largestPowerOfTwoLessThan[n]
                   = IF n <= 2 THEN 1 ELSE 2 * largestPowerOfTwoLessThan[Half(n)]
<1>. DEFINE f == largestPowerOfTwoLessThan
<1>1. Power!Descends(0)
  BY DEF Power!Descends, PowerDef
<1>2. \E g : g = [n \in Nat |-> PowerDef(0, g, n)]
  BY <1>1, Power!RecursiveFunction
<1>3. f = CHOOSE g : g = [n \in Nat |-> PowerDef(0, g, n)]
  BY Zenon DEF largestPowerOfTwoLessThan, PowerDef
<1>. HIDE DEF f
<1>4. f = [n \in Nat |-> PowerDef(0, f, n)]
  BY <1>2, <1>3, Zenon
<1>5. \A n \in Nat : f[n] = PowerDef(0, f, n)
  BY <1>4, Zenon
<1>. QED  BY <1>5 DEF PowerDef, Half, f

(* The loop ends below n, with at least half of it, and on an even number  *)
(* unless n is at most 2 (tree.go 148-157).                                *)
LEMMA PowerBounds ==
  ASSUME NEW n \in Nat
  PROVE  /\ largestPowerOfTwoLessThan[n] \in Nat
         /\ largestPowerOfTwoLessThan[n] > 0
         /\ n > 1 => /\ largestPowerOfTwoLessThan[n] < n
                     /\ n <= 2 * largestPowerOfTwoLessThan[n]
         /\ n > 2 => largestPowerOfTwoLessThan[n]
                       = 2 * largestPowerOfTwoLessThan[Half(n)]
<1>. DEFINE f == largestPowerOfTwoLessThan
            T == {c \in Nat : /\ f[c] \in Nat /\ f[c] > 0
                              /\ c > 1 => f[c] < c /\ c <= 2 * f[c]}
<1>. HIDE DEF f
<1>0. \A c \in Nat : f[c] = IF c <= 2 THEN 1 ELSE 2 * f[Half(c)]
  BY PowerUnfold DEF f
<1>1. ASSUME NEW c \in Nat, \A m \in Nat : m < c => m \in T
      PROVE  c \in T
  <2>1. CASE c <= 2
    BY <2>1, <1>0
  <2>2. CASE c > 2
    <3>1. Half(c) \in Nat /\ Half(c) < c /\ Half(c) > 1
          /\ (2 * Half(c) = c \/ 2 * Half(c) = c + 1)
      BY <2>2, HalfFacts
    <3>2. Half(c) \in T
      BY <3>1, <1>1
    <3>. HIDE DEF Half
    <3>3. f[c] = 2 * f[Half(c)]
      BY <2>2, <1>0
    <3>. QED  BY <3>1, <3>2, <3>3, <2>2
  <2>. QED  BY <2>1, <2>2
<1>. HIDE DEF T
<1>2. \A c \in Nat : c \in T
  BY <1>1, Power!Induction
<1>3. n \in T
  BY <1>2
<1>4. n > 2 => f[n] = 2 * f[Half(n)]
  BY <1>0
<1>. QED  BY <1>3, <1>4 DEF T, f

(* isPowerOfTwo of an even number is that of its half, and no odd number   *)
(* above 1 is a power of two (consistency.go 127-129).                     *)
LEMMA PowerOfTwoHalf ==
  ASSUME NEW n \in Nat, n > 0
  PROVE  /\ Odd(n) => (isPowerOfTwo(n) <=> n = 1)
         /\ ~Odd(n) => (isPowerOfTwo(n) <=> isPowerOfTwo(n \div 2))
<1>. DEFINE f == largestPowerOfTwoLessThan
<1>1. Half(n) \in Nat /\ f[n] \in Nat /\ f[Half(n)] \in Nat
      /\ (n > 2 => f[n] = 2 * f[Half(n)])
  BY PowerBounds, HalfFacts
<1>2. f[2] = 1
  BY PowerUnfold
<1>3. Odd(n) => (isPowerOfTwo(n) <=> n = 1)
  BY <1>1 DEF isPowerOfTwo, Odd
<1>4. ASSUME ~Odd(n)
      PROVE  isPowerOfTwo(n) <=> isPowerOfTwo(n \div 2)
  <2>1. Half(n) = n \div 2 /\ 2 * (n \div 2) = n
    BY <1>4, HalfFacts DEF Half, Odd
  <2>2. CASE n = 2
    BY <2>2, <1>2, <2>1 DEF isPowerOfTwo
  <2>3. CASE n > 2
    BY <2>3, <1>1, <2>1 DEF isPowerOfTwo
  <2>. QED  BY <2>1, <2>2, <2>3
<1>. QED  BY <1>3, <1>4

-----------------------------------------------------------------------------
(* Hashing is collision free: a node has one left and one right child      *)
(* (HashChildren, tree.go 46-52).                                          *)
LEMMA HashInjective ==
  ASSUME NEW a, NEW b, NEW c, NEW d, HashChildren(a, b) = HashChildren(c, d)
  PROVE  a = c /\ b = d
BY DEF HashChildren

(* The recursion of mth (tree.go 131-144).                                 *)
HeadDef(s, f, n) ==
  [off \in Nat |->
     IF n <= 1 THEN s[off + 1]
     ELSE LET k == largestPowerOfTwoLessThan[n]
          IN  HashChildren(f[k][off], f[n - k][off + k])]

HeadRec == INSTANCE Recursion WITH Def <- HeadDef

(* The head of one leaf is the leaf; that of more is the hash of the heads *)
(* of its two parts (mth, tree.go 131-144).                                *)
LEMMA HeadUnfold ==
  ASSUME NEW s
  PROVE  /\ \A off \in Nat : Heads(s)[1][off] = s[off + 1]
         /\ \A n, off \in Nat : n > 1 =>
              Heads(s)[n][off]
                = HashChildren(Heads(s)[largestPowerOfTwoLessThan[n]][off],
                               Heads(s)[n - largestPowerOfTwoLessThan[n]]
                                       [off + largestPowerOfTwoLessThan[n]])
<1>. DEFINE f == Heads(s)
<1>0. \A n \in Nat : n > 1 => largestPowerOfTwoLessThan[n] \in 1..(n - 1)
  BY PowerBounds
<1>1. HeadRec!Descends(s)
  BY <1>0 DEF HeadRec!Descends, HeadDef
<1>2. \E g : g = [n \in Nat |-> HeadDef(s, g, n)]
  BY <1>1, HeadRec!RecursiveFunction
<1>3. f = CHOOSE g : g = [n \in Nat |-> HeadDef(s, g, n)]
  BY Zenon DEF Heads, HeadDef
<1>. HIDE DEF f
<1>4. f = [n \in Nat |-> HeadDef(s, f, n)]
  BY <1>2, <1>3, Zenon
<1>5. \A n \in Nat : f[n] = HeadDef(s, f, n)
  BY <1>4, Zenon
<1>6. \A off \in Nat : f[1][off] = s[off + 1]
  <2>1. f[1] = HeadDef(s, f, 1)
    BY <1>5
  <2>2. \A off \in Nat : HeadDef(s, f, 1)[off] = s[off + 1]
    BY DEF HeadDef
  <2>. QED  BY <2>1, <2>2
<1>7. ASSUME NEW n \in Nat, NEW off \in Nat, n > 1
      PROVE  f[n][off]
               = HashChildren(f[largestPowerOfTwoLessThan[n]][off],
                              f[n - largestPowerOfTwoLessThan[n]]
                               [off + largestPowerOfTwoLessThan[n]])
  <2>1. f[n] = HeadDef(s, f, n)
    BY <1>5
  <2>2. HeadDef(s, f, n)[off]
               = HashChildren(f[largestPowerOfTwoLessThan[n]][off],
                              f[n - largestPowerOfTwoLessThan[n]]
                               [off + largestPowerOfTwoLessThan[n]])
    BY <1>7 DEF HeadDef
  <2>. QED  BY <2>1, <2>2
<1>. QED  BY <1>6, <1>7 DEF f

(* The same, with the place of the split named.                            *)
LEMMA HeadSplit ==
  ASSUME NEW s, NEW n \in Nat, NEW off \in Nat, n > 1,
         NEW k, k = largestPowerOfTwoLessThan[n]
  PROVE  Heads(s)[n][off] = HashChildren(Heads(s)[k][off], Heads(s)[n - k][off + k])
BY HeadUnfold

(* A head is settled by its own leaves, and settles them (mth, tree.go     *)
(* 131-144): two logs of one length have the same head only if they are    *)
(* the same log.                                                           *)
LEMMA HeadLocal ==
  ASSUME NEW s, NEW t, NEW n \in Nat, n > 0
  PROVE  \A off \in Nat :
           Heads(s)[n][off] = Heads(t)[n][off]
             <=> (\A i \in (off + 1)..(off + n) : s[i] = t[i])
<1>. DEFINE f == Heads(s)
            g == Heads(t)
            Same(off, c) == \A i \in (off + 1)..(off + c) : s[i] = t[i]
            T == {c \in Nat : c > 0 => \A off \in Nat :
                                f[c][off] = g[c][off] <=> Same(off, c)}
<1>. HIDE DEF f, g
<1>1. ASSUME NEW c \in Nat, \A m \in Nat : m < c => m \in T
      PROVE  c \in T
  <2>. SUFFICES ASSUME c > 0, NEW off \in Nat
                PROVE  f[c][off] = g[c][off] <=> Same(off, c)
    OBVIOUS
  <2>1. CASE c = 1
    <3>1. f[c][off] = s[off + 1] /\ g[c][off] = t[off + 1]
      BY <2>1, HeadUnfold DEF f, g
    <3>. QED  BY <2>1, <3>1
  <2>2. CASE c > 1
    <3>1. PICK k \in Nat : k = largestPowerOfTwoLessThan[c] /\ k > 0 /\ k < c
      BY <2>2, PowerBounds
    <3>2. /\ f[c][off] = HashChildren(f[k][off], f[c - k][off + k])
          /\ g[c][off] = HashChildren(g[k][off], g[c - k][off + k])
      BY <2>2, <3>1, HeadUnfold DEF f, g
    <3>3. f[c][off] = g[c][off] <=> /\ f[k][off] = g[k][off]
                                    /\ f[c - k][off + k] = g[c - k][off + k]
      BY <3>2, HashInjective
    <3>4. f[k][off] = g[k][off] <=> Same(off, k)
      BY <3>1, <1>1
    <3>5. f[c - k][off + k] = g[c - k][off + k] <=> Same(off + k, c - k)
      <4>1. c - k \in Nat /\ c - k < c /\ c - k > 0 /\ off + k \in Nat
        BY <3>1
      <4>. QED  BY <4>1, <1>1
    <3>6. Same(off, c) <=> Same(off, k) /\ Same(off + k, c - k)
      BY <3>1
    <3>. QED  BY <3>3, <3>4, <3>5, <3>6
  <2>. QED  BY <2>1, <2>2
<1>. HIDE DEF T
<1>2. \A c \in Nat : c \in T
  BY <1>1, Power!Induction
<1>3. n \in T
  BY <1>2
<1>. QED  BY <1>3 DEF T, f, g

-----------------------------------------------------------------------------
(* The level above the n nodes of t: neighbours are hashed together, a     *)
(* last node without a neighbour is promoted as it is.                     *)
PairUp(t, n) ==
  [i \in 1..Half(n) |-> IF 2 * i <= n THEN HashChildren(t[2 * i - 1], t[2 * i])
                                      ELSE t[2 * i - 1]]

(* A part of a level the level above is made of: it starts at a left node  *)
(* and ends at a right one or where the level ends.                        *)
Aligned(o, c, n) ==
  /\ o \in Nat /\ c \in Nat /\ n \in Nat
  /\ c > 0 /\ 2 * o + c <= n
  /\ Odd(c) => 2 * o + c = n

(* Where mth splits an aligned part in two, both are aligned, and the      *)
(* level above is split at half the place (largestPowerOfTwoLessThan,      *)
(* tree.go 148-157).                                                       *)
LEMMA AlignedSplit ==
  ASSUME NEW o, NEW c, NEW n, Aligned(o, c, n), c > 2
  PROVE  \E j \in Nat :
           /\ j = largestPowerOfTwoLessThan[Half(c)]
           /\ 2 * j = largestPowerOfTwoLessThan[c]
           /\ j > 0 /\ 2 * j < c /\ j < Half(c)
           /\ Half(c) \in Nat /\ Half(c) > 1
           /\ Half(2 * j) = j /\ Half(c - 2 * j) = Half(c) - j
           /\ Aligned(o, 2 * j, n) /\ Aligned(o + j, c - 2 * j, n)
           /\ ~Odd(2 * j) /\ (Odd(c - 2 * j) <=> Odd(c))
<1>. c \in Nat /\ o \in Nat /\ n \in Nat
  BY DEF Aligned
<1>1. Half(c) \in Nat /\ Half(c) > 1
  BY HalfFacts
<1>2. PICK j \in Nat : j = largestPowerOfTwoLessThan[Half(c)] /\ j > 0 /\ j < Half(c)
  BY <1>1, PowerBounds
<1>3. 2 * j = largestPowerOfTwoLessThan[c] /\ 2 * j < c
  BY <1>2, PowerBounds
<1>4. Half(2 * j) = j /\ Half(c - 2 * j) = Half(c) - j /\ ~Odd(2 * j)
      /\ (Odd(c - 2 * j) <=> Odd(c))
  BY <1>2, <1>3 DEF Half, Odd
<1>5. Aligned(o, 2 * j, n) /\ Aligned(o + j, c - 2 * j, n)
  BY <1>2, <1>3, <1>4 DEF Aligned
<1>. QED  BY <1>1, <1>2, <1>3, <1>4, <1>5

(* The head of an aligned part is that of its part of the level above: mth *)
(* (tree.go 131-144), which splits a log from the top, hashes it level by  *)
(* level from the bottom.                                                  *)
LEMMA HeadPair ==
  ASSUME NEW t, NEW n \in Nat, NEW c \in Nat
  PROVE  \A o : Aligned(o, c, n) =>
           Heads(t)[c][2 * o] = Heads(PairUp(t, n))[Half(c)][o]
<1>. DEFINE p == PairUp(t, n)
            f == Heads(t)
            g == Heads(p)
            T == {d \in Nat : \A o : Aligned(o, d, n) => f[d][2 * o] = g[Half(d)][o]}
<1>0. /\ \A i \in 1..Half(n) : 2 * i <= n => p[i] = HashChildren(t[2 * i - 1], t[2 * i])
      /\ \A i \in 1..Half(n) : 2 * i > n => p[i] = t[2 * i - 1]
  BY HalfFacts DEF PairUp
<1>. HIDE DEF f, g, p
<1>1. ASSUME NEW d \in Nat, \A m \in Nat : m < d => m \in T
      PROVE  d \in T
  <2>. SUFFICES ASSUME NEW o, Aligned(o, d, n)
                PROVE  f[d][2 * o] = g[Half(d)][o]
    OBVIOUS
  <2>0. o \in Nat /\ 2 * o \in Nat /\ d > 0 /\ 2 * o + d <= n /\ (Odd(d) => 2 * o + d = n)
    BY DEF Aligned
  <2>1. CASE d = 1
    <3>1. Half(d) = 1 /\ 2 * o + 1 = n /\ o + 1 \in 1..Half(n)
      BY <2>1, <2>0 DEF Half, Odd
    <3>2. f[1][2 * o] = t[2 * o + 1] /\ g[1][o] = p[o + 1]
      BY <2>0, HeadUnfold DEF f, g
    <3>3. p[o + 1] = t[2 * (o + 1) - 1]
      BY <3>1, <1>0, <2>0
    <3>. QED  BY <3>1, <3>2, <3>3, <2>1, <2>0
  <2>2. CASE d = 2
    <3>1. Half(d) = 1 /\ 2 * (o + 1) <= n /\ o + 1 \in 1..Half(n)
      BY <2>2, <2>0 DEF Half
    <3>2. largestPowerOfTwoLessThan[2] = 1
      BY PowerUnfold
    <3>3. f[2][2 * o] = HashChildren(f[1][2 * o], f[1][2 * o + 1])
      BY <2>0, <3>2, HeadUnfold DEF f
    <3>4. /\ f[1][2 * o] = t[2 * o + 1] /\ f[1][2 * o + 1] = t[2 * o + 1 + 1]
          /\ g[1][o] = p[o + 1]
      BY <2>0, HeadUnfold DEF f, g
    <3>5. p[o + 1] = HashChildren(t[2 * (o + 1) - 1], t[2 * (o + 1)])
      BY <3>1, <1>0
    <3>6. 2 * (o + 1) - 1 = 2 * o + 1 /\ 2 * (o + 1) = 2 * o + 1 + 1
      BY <2>0
    <3>. QED  BY <3>1, <3>3, <3>4, <3>5, <3>6, <2>2
  <2>3. CASE d > 2
    <3>1. PICK j \in Nat :
           /\ j = largestPowerOfTwoLessThan[Half(d)]
           /\ 2 * j = largestPowerOfTwoLessThan[d]
           /\ j > 0 /\ 2 * j < d /\ j < Half(d)
           /\ Half(d) \in Nat /\ Half(d) > 1
           /\ Half(2 * j) = j /\ Half(d - 2 * j) = Half(d) - j
           /\ Aligned(o, 2 * j, n) /\ Aligned(o + j, d - 2 * j, n)
      BY <2>3, AlignedSplit
    <3>2. f[d][2 * o] = HashChildren(f[2 * j][2 * o], f[d - 2 * j][2 * o + 2 * j])
      <4>1. \A e, k \in Nat : k = largestPowerOfTwoLessThan[d]
              => f[d][e] = HashChildren(f[k][e], f[d - k][e + k])
        BY <2>3, HeadSplit DEF f
      <4>2. 2 * j \in Nat /\ 2 * j = largestPowerOfTwoLessThan[d]
        BY <3>1
      <4>. QED  BY <2>0, <4>1, <4>2
    <3>3. g[Half(d)][o] = HashChildren(g[j][o], g[Half(d) - j][o + j])
      BY <2>0, <3>1, HeadSplit, SMTT(30) DEF g
    <3>4. f[2 * j][2 * o] = g[j][o]
      <4>1. 2 * j \in T
        BY <3>1, <1>1
      <4>. QED  BY <4>1, <3>1
    <3>5. f[d - 2 * j][2 * (o + j)] = g[Half(d) - j][o + j]
      <4>1. d - 2 * j \in Nat /\ d - 2 * j < d
        BY <3>1
      <4>2. d - 2 * j \in T
        BY <4>1, <1>1
      <4>. QED  BY <4>2, <3>1
    <3>6. 2 * (o + j) = 2 * o + 2 * j
      BY <2>0
    <3>. QED  BY <3>2, <3>3, <3>4, <3>5, <3>6
  <2>. QED  BY <2>0, <2>1, <2>2, <2>3
<1>. HIDE DEF T
<1>2. \A d \in Nat : d \in T
  BY <1>1, Power!Induction
<1>3. c \in T
  BY <1>2
<1>. QED  BY <1>3 DEF T, f, g, p

-----------------------------------------------------------------------------
(* A sequence of whatever elements.                                        *)
IsList(q) == \E S : q \in Seq(S)

(* append(q, x), kept folded so that the provers treat it as a name.       *)
Put(q, x) == Append(q, x)

(* append on a slice (inclusion.go 48-51).                                 *)
LEMMA AppendList ==
  ASSUME NEW q, IsList(q), NEW x
  PROVE  /\ Len(q) \in Nat
         /\ IsList(Put(q, x))
         /\ Len(Put(q, x)) = Len(q) + 1
         /\ \A i \in 1..Len(q) : Put(q, x)[i] = q[i]
         /\ Put(q, x)[Len(q) + 1] = x
<1>1. PICK S : q \in Seq(S)
  BY DEF IsList
<1>. DEFINE U == S \cup {x}
<1>2. q \in Seq(U) /\ x \in U
  BY <1>1
<1>. HIDE DEF U
<1>3. Put(q, x) \in Seq(U)
  BY <1>2 DEF Put
<1>. QED  BY <1>2, <1>3 DEF IsList, Put

(* An empty slice and a slice of one element (consistency.go 31-35).       *)
LEMMA ShortLists ==
  ASSUME NEW x
  PROVE  /\ IsList(<<>>) /\ Len(<<>>) = 0
         /\ IsList(<<x>>) /\ Len(<<x>>) = 1 /\ <<x>>[1] = x
         /\ Put(<<>>, x) = <<x>>
<1>1. <<>> \in Seq({x}) /\ <<x>> \in Seq({x}) /\ x \in {x}
  OBVIOUS
<1>2. Put(<<>>, x) = <<x>>
  BY <1>1 DEF Put
<1>. QED  BY <1>1, <1>2 DEF IsList

(* p is q, behind x if e is 1.                                             *)
Behind(p, q, e, x) ==
  /\ IsList(p) /\ IsList(q) /\ e \in {0, 1}
  /\ Len(p) = Len(q) + e
  /\ e = 1 => p[1] = x
  /\ \A i \in 1..Len(q) : p[i + e] = q[i]

(* It stays so when both get the same last element: path and subproof      *)
(* append the sibling of a part to the proof within the part               *)
(* (inclusion.go 41-52, consistency.go 28-46).                             *)
LEMMA BehindAppend ==
  ASSUME NEW p, NEW q, NEW e, NEW x, Behind(p, q, e, x), NEW h
  PROVE  Behind(Put(p, h), Put(q, h), e, x)
<1>0. /\ IsList(p) /\ IsList(q) /\ e \in {0, 1}
      /\ Len(p) = Len(q) + e
      /\ e = 1 => p[1] = x
      /\ \A i \in 1..Len(q) : p[i + e] = q[i]
  BY DEF Behind
<1>. DEFINE a == Put(p, h)
            b == Put(q, h)
<1>1. /\ Len(p) \in Nat /\ IsList(a) /\ Len(a) = Len(p) + 1
      /\ \A i \in 1..Len(p) : a[i] = p[i]
      /\ a[Len(p) + 1] = h
  BY <1>0, AppendList
<1>2. /\ Len(q) \in Nat /\ IsList(b) /\ Len(b) = Len(q) + 1
      /\ \A i \in 1..Len(q) : b[i] = q[i]
      /\ b[Len(q) + 1] = h
  BY <1>0, AppendList
<1>. HIDE DEF a, b
<1>3. ASSUME NEW i \in 1..Len(b)
      PROVE  a[i + e] = b[i]
  <2>1. CASE i <= Len(q)
    <3>1. i + e \in 1..Len(p) /\ i \in 1..Len(q)
      BY <2>1, <1>0, <1>1, <1>2
    <3>. QED  BY <3>1, <1>0, <1>1, <1>2
  <2>2. CASE i = Len(q) + 1
    <3>1. i + e = Len(p) + 1
      BY <2>2, <1>0, <1>1, <1>2
    <3>. QED  BY <3>1, <2>2, <1>1, <1>2
  <2>. QED  BY <2>1, <2>2, <1>2
<1>4. e = 1 => a[1] = x
  <2>1. e = 1 => 1 \in 1..Len(p)
    BY <1>0, <1>2
  <2>. QED  BY <2>1, <1>0, <1>1
<1>5. Len(a) = Len(b) + e
  BY <1>0, <1>1, <1>2
<1>6. Behind(a, b, e, x)
  BY <1>0, <1>1, <1>2, <1>3, <1>4, <1>5 DEF Behind
<1>. QED  BY <1>6 DEF a, b

(* Nothing in front of q, and q behind x.                                  *)
LEMMA BehindAll ==
  ASSUME NEW p, NEW q, NEW r, NEW e, NEW x, NEW y,
         Behind(p, q, 0, y), Behind(q, r, e, x)
  PROVE  Behind(p, r, e, x)
<1>1. /\ IsList(p) /\ IsList(q) /\ IsList(r) /\ e \in {0, 1}
      /\ Len(p) = Len(q) + 0 /\ Len(q) = Len(r) + e
      /\ e = 1 => q[1] = x
      /\ \A i \in 1..Len(q) : p[i + 0] = q[i]
      /\ \A i \in 1..Len(r) : q[i + e] = r[i]
  BY DEF Behind
<1>2. Len(p) \in Nat /\ Len(q) \in Nat /\ Len(r) \in Nat
  BY <1>1, AppendList
<1>3. \A i \in 1..Len(q) : p[i] = q[i]
  BY <1>1
<1>4. \A i \in 1..Len(r) : i + e \in 1..Len(q)
  BY <1>1, <1>2
<1>5. e = 1 => 1 \in 1..Len(q)
  BY <1>1, <1>2
<1>. QED  BY <1>1, <1>2, <1>3, <1>4, <1>5 DEF Behind

(* The recursion of path (inclusion.go 41-52).                             *)
PathDef(s, f, n) ==
  [off \in Nat |-> [m \in Nat |->
     IF n <= 1 THEN <<>>
     ELSE LET k == largestPowerOfTwoLessThan[n]
          IN  IF m < k THEN Put(f[k][off][m], Heads(s)[n - k][off + k])
              ELSE Put(f[n - k][off + k][m - k], Heads(s)[k][off])]]

PathRec == INSTANCE Recursion WITH Def <- PathDef

(* path depends on itself at smaller trees only (inclusion.go 41-52).      *)
LEMMA PathDescends == ASSUME NEW s PROVE PathRec!Descends(s)
<1>. SUFFICES ASSUME NEW n \in Nat, NEW f, NEW g, \A m \in Nat : m < n => f[m] = g[m]
              PROVE  PathDef(s, f, n) = PathDef(s, g, n)
  BY DEF PathRec!Descends
<1>1. CASE n <= 1
  BY <1>1 DEF PathDef
<1>2. CASE n > 1
  <2>. DEFINE k == largestPowerOfTwoLessThan[n]
  <2>1. k \in Nat /\ k > 0 /\ k < n
    BY <1>2, PowerBounds
  <2>2. f[k] = g[k] /\ f[n - k] = g[n - k]
    BY <2>1
  <2>. QED  BY <2>2, <1>2 DEF PathDef
<1>. QED  BY <1>1, <1>2

(* Paths satisfies the recursion of path (inclusion.go 41-52).             *)
LEMMA PathUnfold ==
  ASSUME NEW s
  PROVE  \A n \in Nat : Paths(s)[n] = PathDef(s, Paths(s), n)
<1>. DEFINE f == Paths(s)
<1>2. \E g : g = [c \in Nat |-> PathDef(s, g, c)]
  BY PathDescends, PathRec!RecursiveFunction
<1>3. f = CHOOSE g : g = [c \in Nat |-> PathDef(s, g, c)]
  BY Zenon DEF Paths, PathDef, Put
<1>. HIDE DEF f
<1>4. f = [c \in Nat |-> PathDef(s, f, c)]
  BY <1>2, <1>3, Zenon
<1>5. \A n \in Nat : f[n] = PathDef(s, f, n)
  BY <1>4, Zenon
<1>. QED  BY <1>5 DEF f

(* The path of a single leaf is empty (inclusion.go 43-45).                *)
LEMMA PathOne ==
  ASSUME NEW s, NEW off \in Nat, NEW m \in Nat
  PROVE  Paths(s)[1][off][m] = <<>>
<1>1. Paths(s)[1] = PathDef(s, Paths(s), 1)
  BY PathUnfold
<1>2. PathDef(s, Paths(s), 1)[off][m] = <<>>
  BY DEF PathDef
<1>. QED  BY <1>1, <1>2

(* The path of a leaf on the left ends in the head of the right part       *)
(* (inclusion.go 46-49).                                                   *)
LEMMA PathLeft ==
  ASSUME NEW s, NEW n \in Nat, NEW off \in Nat, NEW m \in Nat, n > 1,
         m < largestPowerOfTwoLessThan[n]
  PROVE  Paths(s)[n][off][m]
         = Put(Paths(s)[largestPowerOfTwoLessThan[n]][off][m],
               Heads(s)[n - largestPowerOfTwoLessThan[n]][off + largestPowerOfTwoLessThan[n]])
<1>1. Paths(s)[n] = PathDef(s, Paths(s), n)
  BY PathUnfold
<1>2. PathDef(s, Paths(s), n)[off][m]
         = Put(Paths(s)[largestPowerOfTwoLessThan[n]][off][m],
               Heads(s)[n - largestPowerOfTwoLessThan[n]][off + largestPowerOfTwoLessThan[n]])
  BY DEF PathDef
<1>. QED  BY <1>1, <1>2

(* The path of a leaf on the right ends in the head of the left part       *)
(* (inclusion.go 51).                                                      *)
LEMMA PathRight ==
  ASSUME NEW s, NEW n \in Nat, NEW off \in Nat, NEW m \in Nat, n > 1,
         ~(m < largestPowerOfTwoLessThan[n])
  PROVE  Paths(s)[n][off][m]
         = Put(Paths(s)[n - largestPowerOfTwoLessThan[n]][off + largestPowerOfTwoLessThan[n]][m - largestPowerOfTwoLessThan[n]],
               Heads(s)[largestPowerOfTwoLessThan[n]][off])
<1>1. Paths(s)[n] = PathDef(s, Paths(s), n)
  BY PathUnfold
<1>2. PathDef(s, Paths(s), n)[off][m]
         = Put(Paths(s)[n - largestPowerOfTwoLessThan[n]][off + largestPowerOfTwoLessThan[n]][m - largestPowerOfTwoLessThan[n]],
               Heads(s)[largestPowerOfTwoLessThan[n]][off])
  BY DEF PathDef
<1>. QED  BY <1>1, <1>2

(* A path is a list, empty only in a tree of one leaf (inclusion.go        *)
(* 41-52).                                                                 *)
LEMMA PathList ==
  ASSUME NEW s, NEW n \in Nat, n > 0
  PROVE  \A off, m \in Nat : m < n =>
           /\ IsList(Paths(s)[n][off][m])
           /\ Len(Paths(s)[n][off][m]) \in Nat
           /\ Len(Paths(s)[n][off][m]) = 0 <=> n = 1
<1>. DEFINE f == Paths(s)
            Ok(c, off, m) == /\ IsList(f[c][off][m])
                             /\ Len(f[c][off][m]) \in Nat
                             /\ Len(f[c][off][m]) = 0 <=> c = 1
            T == {c \in Nat : c > 0 => \A off, m \in Nat : m < c => Ok(c, off, m)}
<1>1. ASSUME NEW c \in Nat, \A d \in Nat : d < c => d \in T
      PROVE  c \in T
  <2>. SUFFICES ASSUME c > 0, NEW off \in Nat, NEW m \in Nat, m < c
                PROVE  Ok(c, off, m)
    OBVIOUS
  <2>1. CASE c = 1
    <3>1. f[c][off][m] = <<>>
      BY <2>1, PathOne
    <3>. QED  BY <3>1, <2>1, ShortLists
  <2>2. CASE c > 1
    <3>1. PICK k \in Nat : k = largestPowerOfTwoLessThan[c] /\ k > 0 /\ k < c
      BY <2>2, PowerBounds
    <3>2. c - k \in Nat /\ c - k > 0 /\ c - k < c /\ off + k \in Nat
      BY <3>1
    <3>3. k \in T /\ c - k \in T
      BY <3>1, <3>2, <1>1
    <3>4. CASE m < k
      <4>1. f[c][off][m] = Put(f[k][off][m], Heads(s)[c - k][off + k])
        BY <2>2, <3>1, <3>4, PathLeft
      <4>2. IsList(f[k][off][m])
        BY <3>1, <3>3, <3>4
      <4>. HIDE DEF f
      <4>3. /\ Len(f[k][off][m]) \in Nat
            /\ IsList(f[c][off][m]) /\ Len(f[c][off][m]) = Len(f[k][off][m]) + 1
        BY <4>1, <4>2, AppendList
      <4>. QED  BY <4>3, <2>2
    <3>5. CASE ~(m < k)
      <4>0. m - k \in Nat /\ m - k < c - k
        BY <3>1, <3>5
      <4>1. f[c][off][m] = Put(f[c - k][off + k][m - k], Heads(s)[k][off])
        BY <2>2, <3>1, <3>5, PathRight
      <4>2. IsList(f[c - k][off + k][m - k])
        BY <3>2, <3>3, <4>0
      <4>. HIDE DEF f
      <4>3. /\ Len(f[c - k][off + k][m - k]) \in Nat
            /\ IsList(f[c][off][m])
            /\ Len(f[c][off][m]) = Len(f[c - k][off + k][m - k]) + 1
        BY <4>1, <4>2, AppendList
      <4>. QED  BY <4>3, <2>2
    <3>. QED  BY <3>1, <3>4, <3>5
  <2>. QED  BY <2>1, <2>2
<1>. HIDE DEF T
<1>2. \A c \in Nat : c \in T
  BY <1>1, Power!Induction
<1>3. n \in T
  BY <1>2
<1>. QED  BY <1>3 DEF T

(* Whether node m of c has a neighbour, and at which of the c places.      *)
HasSibling(m, c) == IF ~Odd(m) /\ m + 1 = c THEN 0 ELSE 1
Sibling(m) == IF Odd(m) THEN m - 1 ELSE m + 1

(* The path of a node is its neighbour, if it has one, and then the path   *)
(* of its parent in the level above (path, inclusion.go 41-52).            *)
LEMMA PathPair ==
  ASSUME NEW t, NEW n \in Nat, NEW c \in Nat
  PROVE  \A o : Aligned(o, c, n) => \A m \in Nat : m < c =>
           Behind(Paths(t)[c][2 * o][m],
                  Paths(PairUp(t, n))[Half(c)][o][m \div 2],
                  HasSibling(m, c), t[2 * o + Sibling(m) + 1])
<1>. DEFINE p == PairUp(t, n)
            f == Paths(t)
            g == Paths(p)
            Ok(d, o, m) == Behind(f[d][2 * o][m], g[Half(d)][o][m \div 2],
                                  HasSibling(m, d), t[2 * o + Sibling(m) + 1])
            T == {d \in Nat : \A o : Aligned(o, d, n) =>
                                \A m \in Nat : m < d => Ok(d, o, m)}
<1>. HIDE DEF f, g, p
<1>1. ASSUME NEW d \in Nat, \A e \in Nat : e < d => e \in T
      PROVE  d \in T
  <2>. SUFFICES ASSUME NEW o, Aligned(o, d, n), NEW m \in Nat, m < d
                PROVE  Ok(d, o, m)
    OBVIOUS
  <2>0. o \in Nat /\ 2 * o \in Nat /\ d > 0 /\ m \div 2 \in Nat
    BY HalfFacts DEF Aligned
  <2>1. CASE d = 1
    <3>1. Half(d) = 1 /\ HasSibling(m, d) = 0
      BY <2>1 DEF Half, HasSibling, Odd
    <3>2. f[1][2 * o][m] = <<>> /\ g[1][o][m \div 2] = <<>>
      BY <2>0, PathOne DEF f, g
    <3>3. Behind(<<>>, <<>>, 0, t[2 * o + Sibling(m) + 1])
      <4>1. IsList(<<>>) /\ Len(<<>>) = 0
        BY ShortLists
      <4>. QED  BY <4>1 DEF Behind
    <3>. QED  BY <3>1, <3>2, <3>3, <2>1
  <2>2. CASE d = 2
    <3>1. Half(d) = 1 /\ HasSibling(m, d) = 1
      BY <2>2 DEF Half, HasSibling, Odd
    <3>2. largestPowerOfTwoLessThan[2] = 1
      BY PowerUnfold
    <3>3. /\ \A q \in Nat : f[1][2 * o][q] = <<>> /\ f[1][2 * o + 1][q] = <<>>
          /\ g[1][o][m \div 2] = <<>>
      BY <2>0, PathOne DEF f, g
    <3>4. /\ Heads(t)[1][2 * o] = t[2 * o + 1]
          /\ Heads(t)[1][2 * o + 1] = t[2 * o + 1 + 1]
      BY <2>0, HeadUnfold
    <3>5. f[2][2 * o][m] = <<t[2 * o + Sibling(m) + 1]>>
      <4>1. CASE m = 0
        <5>1. f[2][2 * o][m] = Put(f[1][2 * o][m], Heads(t)[2 - 1][2 * o + 1])
          <6>1. 2 \in Nat /\ 2 > 1 /\ 1 \in Nat /\ m < 1
            BY <4>1
          <6>2. PICK x \in Nat : x = 2 * o
            BY <2>0
          <6>3. f[2][x][m] = Put(f[1][x][m], Heads(t)[2 - 1][x + 1])
            BY <3>2, <6>1, PathLeft, SMTT(30) DEF f
          <6>. QED  BY <6>2, <6>3
        <5>2. Sibling(m) = 1 /\ 2 * o + 1 + 1 = 2 * o + Sibling(m) + 1
          BY <4>1, <2>0 DEF Sibling, Odd
        <5>3. f[2][2 * o][m] = Put(<<>>, t[2 * o + Sibling(m) + 1])
          BY <5>1, <5>2, <3>3, <3>4
        <5>. QED  BY <5>3, ShortLists
      <4>2. CASE m = 1
        <5>1. f[2][2 * o][m] = Put(f[2 - 1][2 * o + 1][m - 1], Heads(t)[1][2 * o])
          <6>1. 2 \in Nat /\ 2 > 1 /\ ~(m < largestPowerOfTwoLessThan[2])
            BY <4>2, <3>2
          <6>2. PICK x \in Nat : x = 2 * o
            BY <2>0
          <6>3. f[2][x][m] = Put(f[2 - largestPowerOfTwoLessThan[2]]
                                    [x + largestPowerOfTwoLessThan[2]]
                                    [m - largestPowerOfTwoLessThan[2]],
                                  Heads(t)[largestPowerOfTwoLessThan[2]][x])
            BY <6>1, PathRight DEF f
          <6>4. f[2][x][m] = Put(f[2 - 1][x + 1][m - 1], Heads(t)[1][x])
            BY <3>2, <6>3
          <6>. QED  BY <6>2, <6>4
        <5>2. Sibling(m) = 0 /\ 2 * o + 1 = 2 * o + Sibling(m) + 1
          BY <4>2, <2>0 DEF Sibling, Odd
        <5>3. f[2][2 * o][m] = Put(<<>>, t[2 * o + Sibling(m) + 1])
          BY <5>1, <5>2, <3>3, <3>4, <4>2
        <5>. QED  BY <5>3, ShortLists
      <4>. QED  BY <4>1, <4>2, <2>2
    <3>6. Behind(<<t[2 * o + Sibling(m) + 1]>>, <<>>, 1, t[2 * o + Sibling(m) + 1])
      BY ShortLists DEF Behind
    <3>. QED  BY <3>1, <3>3, <3>5, <3>6, <2>2
  <2>3. CASE d > 2
    <3>1. PICK j \in Nat :
           /\ j = largestPowerOfTwoLessThan[Half(d)]
           /\ 2 * j = largestPowerOfTwoLessThan[d]
           /\ j > 0 /\ 2 * j < d /\ j < Half(d)
           /\ Half(d) \in Nat /\ Half(d) > 1
           /\ Half(2 * j) = j /\ Half(d - 2 * j) = Half(d) - j
           /\ Aligned(o, 2 * j, n) /\ Aligned(o + j, d - 2 * j, n)
           /\ ~Odd(2 * j) /\ (Odd(d - 2 * j) <=> Odd(d))
      BY <2>3, AlignedSplit
    <3>2. PICK k \in Nat : k = 2 * j
      OBVIOUS
    <3>3. PICK e \in Nat : e = 2 * o
      BY <2>0
    <3>4. d - k \in Nat /\ d - k < d /\ k < d
      BY <3>1, <3>2
    <3>5. k \in T /\ d - k \in T
      BY <3>4, <1>1
    <3>6. CASE m < k
      <4>1. f[d][e][m] = Put(f[k][e][m], Heads(t)[d - k][e + k])
        <5>1. d > 1 /\ k = largestPowerOfTwoLessThan[d]
          BY <2>3, <3>1, <3>2
        <5>. QED  BY <5>1, <3>6, PathLeft DEF f
      <4>2. m \div 2 < j
        BY <3>2, <3>6
      <4>3. g[Half(d)][o][m \div 2]
              = Put(g[j][o][m \div 2], Heads(p)[Half(d) - j][o + j])
        <5>1. Half(d) \in Nat /\ Half(d) > 1 /\ j = largestPowerOfTwoLessThan[Half(d)]
              /\ o \in Nat
          BY <2>0, <3>1
        <5>3. PICK q \in Nat : q = Half(d)
          BY <5>1
        <5>4. PICK b \in Nat : b = m \div 2
          BY <2>0
        <5>5. g[q][o][b] = Put(g[j][o][b], Heads(p)[q - j][o + j])
          <6>1. /\ q > 1 /\ o \in Nat /\ j = largestPowerOfTwoLessThan[q]
                /\ b < largestPowerOfTwoLessThan[q]
            BY <5>1, <5>3, <5>4, <4>2
          <6>2. g[q][o][b] = Put(g[largestPowerOfTwoLessThan[q]][o][b],
                                 Heads(p)[q - largestPowerOfTwoLessThan[q]]
                                         [o + largestPowerOfTwoLessThan[q]])
            BY <6>1, PathLeft DEF g
          <6>. QED  BY <6>1, <6>2, Zenon
        <5>. QED  BY <5>3, <5>4, <5>5
      <4>4. Heads(t)[d - k][e + k] = Heads(p)[Half(d) - j][o + j]
        <5>1. Heads(t)[d - k][2 * (o + j)] = Heads(p)[Half(d - k)][o + j]
          BY <3>1, <3>2, <3>4, HeadPair DEF p
        <5>2. 2 * (o + j) = e + k
          BY <2>0, <3>2, <3>3
        <5>. QED  BY <5>1, <5>2, <3>1, <3>2
      <4>5. Behind(f[k][e][m], g[j][o][m \div 2], HasSibling(m, k), t[e + Sibling(m) + 1])
        BY <3>1, <3>2, <3>3, <3>5, <3>6
      <4>6. HasSibling(m, k) = HasSibling(m, d)
        BY <3>1, <3>2, <3>6 DEF HasSibling, Odd
      <4>7. Behind(f[d][e][m], g[Half(d)][o][m \div 2], HasSibling(m, d),
                   t[e + Sibling(m) + 1])
        BY <4>1, <4>3, <4>4, <4>5, <4>6, BehindAppend
      <4>. QED  BY <4>7, <3>3
    <3>7. CASE ~(m < k)
      <4>0. m - k \in Nat /\ m - k < d - k /\ (m - k) \div 2 = m \div 2 - j
            /\ ~(m \div 2 < j)
        BY <3>2, <3>7
      <4>1. f[d][e][m] = Put(f[d - k][e + k][m - k], Heads(t)[k][e])
        <5>1. d > 1 /\ k = largestPowerOfTwoLessThan[d]
          BY <2>3, <3>1, <3>2
        <5>. QED  BY <5>1, <3>7, PathRight DEF f
      <4>3. g[Half(d)][o][m \div 2]
              = Put(g[Half(d) - j][o + j][m \div 2 - j], Heads(p)[j][o])
        <5>1. /\ Half(d) \in Nat /\ Half(d) > 1 /\ j = largestPowerOfTwoLessThan[Half(d)]
              /\ ~(m \div 2 < j) /\ o \in Nat
          BY <2>0, <3>1, <4>0
        <5>3. PICK q \in Nat : q = Half(d)
          BY <5>1
        <5>4. PICK b \in Nat : b = m \div 2
          BY <2>0
        <5>5. g[q][o][b] = Put(g[q - j][o + j][b - j], Heads(p)[j][o])
          <6>1. /\ q > 1 /\ o \in Nat /\ j = largestPowerOfTwoLessThan[q]
                /\ ~(b < largestPowerOfTwoLessThan[q])
            BY <5>1, <5>3, <5>4
          <6>. QED  BY <6>1, PathRight, SMTT(30) DEF g
        <5>. QED  BY <5>3, <5>4, <5>5
      <4>4. Heads(t)[k][e] = Heads(p)[j][o]
        BY <3>1, <3>2, <3>3, HeadPair DEF p
      <4>5. Ok(d - k, o + j, m - k)
        BY <3>1, <3>2, <3>5, <4>0
      <4>6. HasSibling(m - k, d - k) = HasSibling(m, d)
        BY <3>2 DEF HasSibling, Odd
      <4>7. 2 * (o + j) = e + k
        BY <2>0, <3>2, <3>3
      <4>8. e + k + Sibling(m - k) + 1 = e + Sibling(m) + 1
        BY <3>2, <4>0 DEF Sibling, Odd
      <4>9. Behind(f[d - k][e + k][m - k], g[Half(d) - j][o + j][m \div 2 - j],
                   HasSibling(m, d), t[e + Sibling(m) + 1])
        BY <4>0, <4>5, <4>6, <4>7, <4>8, <3>1, <3>2
      <4>10. Behind(f[d][e][m], g[Half(d)][o][m \div 2], HasSibling(m, d),
                    t[e + Sibling(m) + 1])
        BY <4>1, <4>3, <4>4, <4>9, BehindAppend
      <4>. QED  BY <4>10, <3>3
    <3>. QED  BY <3>6, <3>7
  <2>. QED  BY <2>0, <2>1, <2>2, <2>3
<1>. HIDE DEF T
<1>2. \A d \in Nat : d \in T
  BY <1>1, Power!Induction
<1>3. c \in T
  BY <1>2
<1>. QED  BY <1>3 DEF T, f, g, p

-----------------------------------------------------------------------------
(* The recursion of subproof (consistency.go 28-46).                       *)
SubDef(s, f, n) ==
  [off \in Nat |-> [m \in Nat |-> [atRoot \in BOOLEAN |->
     IF m = n \/ n <= 1
     THEN IF atRoot THEN <<>> ELSE <<Heads(s)[n][off]>>
     ELSE LET k == largestPowerOfTwoLessThan[n]
          IN  IF m <= k
              THEN Put(f[k][off][m][atRoot], Heads(s)[n - k][off + k])
              ELSE Put(f[n - k][off + k][m - k][FALSE], Heads(s)[k][off])]]]

SubRec == INSTANCE Recursion WITH Def <- SubDef

(* The proofs subproof returns for atRoot and otherwise: for a part the    *)
(* old log ends with (consistency.go 30-35), and for one it ends within,   *)
(* from the proofs q within the left or the right part and the other       *)
(* part's head h (consistency.go 36-45).                                   *)
EndProofs(h) == [atRoot \in BOOLEAN |-> IF atRoot THEN <<>> ELSE <<h>>]
LeftProofs(q, h) == [atRoot \in BOOLEAN |-> Put(q[atRoot], h)]
RightProofs(q, h) == [atRoot \in BOOLEAN |-> Put(q[FALSE], h)]

(* What is sent for such a part (consistency.go 30-35).                    *)
LEMMA EndProofsAt ==
  ASSUME NEW x, NEW h, x = EndProofs(h)
  PROVE  x[TRUE] = <<>> /\ x[FALSE] = <<h>>
BY DEF EndProofs

(* subproof depends on itself at smaller logs only (consistency.go 28-46). *)
LEMMA SubDescends == ASSUME NEW s PROVE SubRec!Descends(s)
<1>. SUFFICES ASSUME NEW n \in Nat, NEW f, NEW g, \A m \in Nat : m < n => f[m] = g[m]
              PROVE  SubDef(s, f, n) = SubDef(s, g, n)
  BY DEF SubRec!Descends
<1>1. CASE n <= 1
  BY <1>1 DEF SubDef
<1>2. CASE n > 1
  <2>. DEFINE k == largestPowerOfTwoLessThan[n]
  <2>1. k \in Nat /\ k > 0 /\ k < n
    BY <1>2, PowerBounds
  <2>2. f[k] = g[k] /\ f[n - k] = g[n - k]
    BY <2>1
  <2>. QED  BY <2>2, <1>2 DEF SubDef
<1>. QED  BY <1>1, <1>2

(* Subproofs satisfies the recursion of subproof (consistency.go 28-46).   *)
LEMMA SubUnfold ==
  ASSUME NEW s
  PROVE  \A n \in Nat : Subproofs(s)[n] = SubDef(s, Subproofs(s), n)
<1>. DEFINE f == Subproofs(s)
<1>2. \E g : g = [c \in Nat |-> SubDef(s, g, c)]
  BY SubDescends, SubRec!RecursiveFunction
<1>3. f = CHOOSE g : g = [c \in Nat |-> SubDef(s, g, c)]
  BY Zenon DEF Subproofs, SubDef, Put
<1>. HIDE DEF f
<1>4. f = [c \in Nat |-> SubDef(s, f, c)]
  BY <1>2, <1>3, Zenon
<1>5. \A n \in Nat : f[n] = SubDef(s, f, n)
  BY <1>4, Zenon
<1>. QED  BY <1>5 DEF f

(* Where the old log ends with the part, nothing is sent if the part is    *)
(* the whole old log, its head otherwise (consistency.go 30-35).           *)
LEMMA SubEnd ==
  ASSUME NEW s, NEW n \in Nat, NEW off \in Nat
  PROVE  Subproofs(s)[n][off][n] = EndProofs(Heads(s)[n][off])
<1>1. Subproofs(s)[n] = SubDef(s, Subproofs(s), n)
  BY SubUnfold
<1>2. SubDef(s, Subproofs(s), n)[off][n] = EndProofs(Heads(s)[n][off])
  BY DEF SubDef, EndProofs
<1>. QED  BY <1>1, <1>2

(* Where it ends in the left part, the right part's head is sent last,     *)
(* otherwise the left part's (consistency.go 36-45).                       *)
LEMMA SubSplit ==
  ASSUME NEW s, NEW n \in Nat, NEW off \in Nat, NEW m \in Nat,
         n > 1, m # n, NEW k, k = largestPowerOfTwoLessThan[n]
  PROVE  /\ ~(k < m) => Subproofs(s)[n][off][m]
               = LeftProofs(Subproofs(s)[k][off][m], Heads(s)[n - k][off + k])
         /\ k < m => Subproofs(s)[n][off][m]
               = RightProofs(Subproofs(s)[n - k][off + k][m - k], Heads(s)[k][off])
<1>. DEFINE f == Subproofs(s)
<1>0. f[n] = SubDef(s, f, n)
  BY SubUnfold
<1>. HIDE DEF f
<1>1. SubDef(s, f, n)[off][m] = [atRoot \in BOOLEAN |->
        IF m = n \/ n <= 1
        THEN IF atRoot THEN <<>> ELSE <<Heads(s)[n][off]>>
        ELSE IF m <= k
             THEN Put(f[k][off][m][atRoot], Heads(s)[n - k][off + k])
             ELSE Put(f[n - k][off + k][m - k][FALSE], Heads(s)[k][off])]
  BY DEF SubDef
<1>2. ~(m = n \/ n <= 1) /\ (m <= k <=> ~(k < m))
  <2>1. k \in Nat
    BY PowerBounds
  <2>. QED  BY <2>1
<1>3. SubDef(s, f, n)[off][m] = [atRoot \in BOOLEAN |->
        IF m <= k THEN Put(f[k][off][m][atRoot], Heads(s)[n - k][off + k])
        ELSE Put(f[n - k][off + k][m - k][FALSE], Heads(s)[k][off])]
  BY <1>1, <1>2, Zenon
<1>4. k < m => SubDef(s, f, n)[off][m]
                 = RightProofs(f[n - k][off + k][m - k], Heads(s)[k][off])
  BY <1>3, <1>2, Zenon DEF RightProofs
<1>5. ~(k < m) => SubDef(s, f, n)[off][m]
                    = LeftProofs(f[k][off][m], Heads(s)[n - k][off + k])
  BY <1>3, <1>2, Zenon DEF LeftProofs
<1>. QED  BY <1>0, <1>4, <1>5 DEF f

(* SubSplit, to the left.                                                  *)
LEMMA SubLeft ==
  ASSUME NEW s, NEW n \in Nat, NEW off \in Nat, NEW m \in Nat,
         n > 1, m # n, ~(largestPowerOfTwoLessThan[n] < m)
  PROVE  Subproofs(s)[n][off][m]
         = LeftProofs(Subproofs(s)[largestPowerOfTwoLessThan[n]][off][m],
                      Heads(s)[n - largestPowerOfTwoLessThan[n]]
                              [off + largestPowerOfTwoLessThan[n]])
BY SubSplit

(* SubSplit, to the right.                                                 *)
LEMMA SubRight ==
  ASSUME NEW s, NEW n \in Nat, NEW off \in Nat, NEW m \in Nat,
         n > 1, m # n, largestPowerOfTwoLessThan[n] < m
  PROVE  Subproofs(s)[n][off][m]
         = RightProofs(Subproofs(s)[n - largestPowerOfTwoLessThan[n]]
                                   [off + largestPowerOfTwoLessThan[n]]
                                   [m - largestPowerOfTwoLessThan[n]],
                       Heads(s)[largestPowerOfTwoLessThan[n]][off])
BY SubSplit

(* An old log of an even number of leaves is proved as its half is in the  *)
(* level above (subproof, consistency.go 28-46): the loop that shifts fn   *)
(* and sn before the verifier starts (consistency.go 73-78) climbs there.  *)
LEMMA SubPair ==
  ASSUME NEW t, NEW n \in Nat, NEW c \in Nat
  PROVE  \A o : Aligned(o, c, n) => \A m \in Nat :
           m > 0 /\ m <= c /\ ~Odd(m) =>
             Subproofs(t)[c][2 * o][m]
               = Subproofs(PairUp(t, n))[Half(c)][o][m \div 2]
<1>. DEFINE p == PairUp(t, n)
            f == Subproofs(t)
            g == Subproofs(p)
            T == {d \in Nat : \A o : Aligned(o, d, n) => \A m \in Nat :
                    m > 0 /\ m <= d /\ ~Odd(m) =>
                      f[d][2 * o][m] = g[Half(d)][o][m \div 2]}
<1>. HIDE DEF f, g, p
<1>1. ASSUME NEW d \in Nat, \A e \in Nat : e < d => e \in T
      PROVE  d \in T
  <2>. SUFFICES ASSUME NEW o, Aligned(o, d, n), NEW m \in Nat,
                       m > 0, m <= d, ~Odd(m)
                PROVE  f[d][2 * o][m] = g[Half(d)][o][m \div 2]
    OBVIOUS
  <2>0. o \in Nat /\ 2 * o \in Nat /\ d > 0 /\ m \div 2 \in Nat /\ Half(d) \in Nat
    BY DEF Aligned, Half
  <2>1. CASE m = d
    <3>1. Half(d) = m \div 2
      BY <2>1 DEF Half, Odd
    <3>2. f[d][2 * o][d] = EndProofs(Heads(t)[d][2 * o])
      BY <2>0, SubEnd DEF f
    <3>3. g[Half(d)][o][Half(d)] = EndProofs(Heads(p)[Half(d)][o])
      BY <2>0, SubEnd DEF g
    <3>4. Heads(t)[d][2 * o] = Heads(p)[Half(d)][o]
      BY HeadPair DEF p
    <3>. QED  BY <2>1, <3>1, <3>2, <3>3, <3>4
  <2>2. CASE m < d
    <3>0. d > 2
      BY <2>2 DEF Odd
    <3>1. PICK j \in Nat :
           /\ j = largestPowerOfTwoLessThan[Half(d)]
           /\ 2 * j = largestPowerOfTwoLessThan[d]
           /\ j > 0 /\ 2 * j < d /\ j < Half(d)
           /\ Half(d) \in Nat /\ Half(d) > 1
           /\ Half(2 * j) = j /\ Half(d - 2 * j) = Half(d) - j
           /\ Aligned(o, 2 * j, n) /\ Aligned(o + j, d - 2 * j, n)
      BY <3>0, AlignedSplit
    <3>2. PICK k \in Nat : k = 2 * j
      OBVIOUS
    <3>3. PICK e \in Nat : e = 2 * o
      BY <2>0
    <3>4. PICK h \in Nat : h = Half(d)
      BY <2>0
    <3>5. PICK a \in Nat : a = m \div 2
      BY <2>0
    <3>6. m = 2 * a /\ a < h
      BY <2>2, <3>4, <3>5 DEF Odd, Half
    <3>7. /\ d > 1 /\ m # d /\ k = largestPowerOfTwoLessThan[d] /\ k < d /\ k \in T
          /\ h > 1 /\ a # h /\ j = largestPowerOfTwoLessThan[h]
          /\ d - k \in T /\ o \in Nat
      <4>1. d - k \in Nat /\ d - k < d /\ k < d
        BY <3>1, <3>2
      <4>2. k \in T /\ d - k \in T
        BY <4>1, <1>1
      <4>. QED  BY <2>0, <2>2, <3>1, <3>2, <3>4, <3>5, <3>6, <4>1, <4>2
    <3>8. CASE ~(k < m)
      <4>1. f[d][e][m] = LeftProofs(f[k][e][m], Heads(t)[d - k][e + k])
        BY <3>7, <3>8, SubLeft DEF f
      <4>2. ~(j < a)
        BY <3>2, <3>6, <3>8
      <4>3. g[h][o][a] = LeftProofs(g[j][o][a], Heads(p)[h - j][o + j])
        BY <3>7, <4>2, SubLeft DEF g
      <4>4. Heads(t)[d - k][e + k] = Heads(p)[h - j][o + j]
        <5>1. Heads(t)[d - k][2 * (o + j)] = Heads(p)[Half(d - k)][o + j]
          BY <3>1, <3>2, HeadPair DEF p
        <5>2. 2 * (o + j) = e + k
          BY <2>0, <3>2, <3>3
        <5>. QED  BY <5>1, <5>2, <3>1, <3>2, <3>4
      <4>5. f[k][e][m] = g[j][o][a]
        <5>1. f[k][2 * o][m] = g[Half(k)][o][m \div 2]
          BY <3>1, <3>2, <3>7, <3>8
        <5>. QED  BY <5>1, <3>1, <3>2, <3>3, <3>5
      <4>6. f[d][e][m] = g[h][o][a]
        BY <4>1, <4>3, <4>4, <4>5
      <4>. QED  BY <4>6, <3>3, <3>4, <3>5
    <3>9. CASE k < m
      <4>0. PICK r \in Nat : r = m - k /\ r > 0 /\ r <= d - k /\ ~Odd(r)
                              /\ r \div 2 = a - j
        <5>1. m - k = 2 * (a - j) /\ a - j \in Nat /\ a - j > 0 /\ m - k <= d - k
          BY <2>2, <3>2, <3>6, <3>9
        <5>2. \A x \in Nat : 2 * x \in Nat /\ ~Odd(2 * x) /\ (2 * x) \div 2 = x
          BY DEF Odd
        <5>3. m - k \in Nat /\ ~Odd(m - k) /\ (m - k) \div 2 = a - j
          BY <5>1, <5>2
        <5>. QED  BY <5>1, <5>3
      <4>1. f[d][e][m] = RightProofs(f[d - k][e + k][m - k], Heads(t)[k][e])
        BY <3>7, <3>9, SubRight DEF f
      <4>2. j < a
        BY <3>2, <3>6, <3>9
      <4>3. g[h][o][a] = RightProofs(g[h - j][o + j][a - j], Heads(p)[j][o])
        BY <3>7, <4>2, SubRight DEF g
      <4>4. Heads(t)[k][e] = Heads(p)[j][o]
        <5>1. Heads(t)[k][2 * o] = Heads(p)[Half(k)][o]
          BY <3>1, <3>2, HeadPair DEF p
        <5>. QED  BY <5>1, <3>1, <3>2, <3>3
      <4>5. f[d - k][e + k][r] = g[h - j][o + j][a - j]
        <5>1. f[d - k][2 * (o + j)][r] = g[Half(d - k)][o + j][r \div 2]
          BY <3>1, <3>2, <3>7, <4>0
        <5>2. 2 * (o + j) = e + k
          BY <2>0, <3>2, <3>3
        <5>. QED  BY <5>1, <5>2, <3>1, <3>2, <3>4, <4>0
      <4>6. f[d][e][m] = g[h][o][a]
        BY <4>0, <4>1, <4>3, <4>4, <4>5
      <4>. QED  BY <4>6, <3>3, <3>4, <3>5
    <3>. QED  BY <3>8, <3>9
  <2>. QED  BY <2>1, <2>2
<1>. HIDE DEF T
<1>2. \A d \in Nat : d \in T
  BY <1>1, Power!Induction
<1>3. c \in T
  BY <1>2
<1>. QED  BY <1>3 DEF T, f, g, p

(* The proof for an old log of an odd number m of leaves is the path of    *)
(* its last leaf, behind that leaf itself unless it is the whole old log   *)
(* (subproof, consistency.go 28-46, against path, inclusion.go 41-52).     *)
LEMMA SubPath ==
  ASSUME NEW s, NEW n \in Nat, n > 0
  PROVE  \A off, m \in Nat : Odd(m) /\ (m < n \/ n = 1) /\ m <= n =>
           /\ Behind(Subproofs(s)[n][off][m][FALSE], Paths(s)[n][off][m - 1],
                     1, s[off + m])
           /\ Behind(Subproofs(s)[n][off][m][TRUE], Paths(s)[n][off][m - 1],
                     IF m = 1 THEN 0 ELSE 1, s[off + m])
<1>. DEFINE f == Subproofs(s)
            g == Paths(s)
            Ok(c, off, m) ==
              /\ Behind(f[c][off][m][FALSE], g[c][off][m - 1], 1, s[off + m])
              /\ Behind(f[c][off][m][TRUE], g[c][off][m - 1],
                        IF m = 1 THEN 0 ELSE 1, s[off + m])
            T == {c \in Nat : c > 0 => \A off, m \in Nat :
                    Odd(m) /\ (m < c \/ c = 1) /\ m <= c => Ok(c, off, m)}
<1>. HIDE DEF f, g
<1>1. ASSUME NEW c \in Nat, \A d \in Nat : d < c => d \in T
      PROVE  c \in T
  <2>. SUFFICES ASSUME c > 0, NEW off \in Nat, NEW m \in Nat,
                       Odd(m), m < c \/ c = 1, m <= c
                PROVE  Ok(c, off, m)
    OBVIOUS
  <2>1. CASE c = 1
    <3>1. m = 1
      BY <2>1 DEF Odd
    <3>2. f[1][off][1] = EndProofs(Heads(s)[1][off])
      BY SubEnd DEF f
    <3>3. Heads(s)[1][off] = s[off + 1]
      BY HeadUnfold
    <3>4. f[1][off][1][TRUE] = <<>> /\ f[1][off][1][FALSE] = <<s[off + 1]>>
      BY <3>2, <3>3, EndProofsAt
    <3>5. g[1][off][0] = <<>>
      BY PathOne DEF g
    <3>6. Behind(<<>>, <<>>, 0, s[off + 1]) /\ Behind(<<s[off + 1]>>, <<>>, 1, s[off + 1])
      <4>1. IsList(<<>>) /\ Len(<<>>) = 0
        BY ShortLists
      <4>2. IsList(<<s[off + 1]>>) /\ Len(<<s[off + 1]>>) = 1
            /\ <<s[off + 1]>>[1] = s[off + 1]
        BY ShortLists
      <4>. QED  BY <4>1, <4>2 DEF Behind
    <3>7. m - 1 = 0
      BY <3>1
    <3>. QED  BY <2>1, <3>1, <3>4, <3>5, <3>6, <3>7
  <2>2. CASE c > 1
    <3>0. m > 0 /\ m < c
      BY <2>2 DEF Odd
    <3>1. PICK k \in Nat : /\ k = largestPowerOfTwoLessThan[c] /\ k > 0 /\ k < c
                           /\ c <= 2 * k
                           /\ c > 2 => k = 2 * largestPowerOfTwoLessThan[Half(c)]
      BY <2>2, PowerBounds
    <3>2. c - k \in Nat /\ c - k < c /\ c - k > 0 /\ off + k \in Nat
      BY <3>1
    <3>3. k \in T /\ c - k \in T
      BY <3>1, <3>2, <1>1
    <3>4. k = 1 \/ ~Odd(k)
      <4>1. largestPowerOfTwoLessThan[Half(c)] \in Nat
        BY HalfFacts, PowerBounds
      <4>2. CASE c > 2
        BY <3>1, <4>1, <4>2 DEF Odd
      <4>. QED  BY <4>2, <3>1, <2>2
    <3>5. PICK a \in Nat : a = m - 1
      BY <3>0
    <3>8. k = largestPowerOfTwoLessThan[c]
      BY <3>1
    <3>6. CASE ~(k < m)
      <4>0. m # c /\ c > 1 /\ a < k
        BY <2>2, <3>0, <3>5, <3>6
      <4>1. f[c][off][m] = LeftProofs(f[k][off][m], Heads(s)[c - k][off + k])
        BY <3>8, <3>6, <4>0, SubLeft DEF f
      <4>2. g[c][off][a] = Put(g[k][off][a], Heads(s)[c - k][off + k])
        BY <3>8, <4>0, PathLeft DEF g
      <4>3. (m < k \/ k = 1) /\ m <= k
        <5>1. m # k \/ k = 1
          BY <3>4
        <5>. QED  BY <5>1, <3>6, <3>1
      <4>4. Ok(k, off, m)
        BY <3>1, <3>3, <4>3
      <4>. HIDE DEF Ok
      <4>5. /\ Behind(f[k][off][m][FALSE], g[k][off][a], 1, s[off + m])
            /\ Behind(f[k][off][m][TRUE], g[k][off][a],
                      IF m = 1 THEN 0 ELSE 1, s[off + m])
        BY <4>4, <3>5 DEF Ok
      <4>6. /\ f[c][off][m][FALSE] = Put(f[k][off][m][FALSE], Heads(s)[c - k][off + k])
            /\ f[c][off][m][TRUE] = Put(f[k][off][m][TRUE], Heads(s)[c - k][off + k])
        BY <4>1 DEF LeftProofs
      <4>7. /\ Behind(f[c][off][m][FALSE], g[c][off][a], 1, s[off + m])
            /\ Behind(f[c][off][m][TRUE], g[c][off][a],
                      IF m = 1 THEN 0 ELSE 1, s[off + m])
        BY <4>2, <4>5, <4>6, BehindAppend
      <4>8. m - 1 = a
        BY <3>5
      <4>. QED  BY <4>7, <4>8, Zenon DEF Ok
    <3>7. CASE k < m
      <4>0. m # c /\ c > 1 /\ ~(a < k) /\ m > 1
        BY <2>2, <3>0, <3>1, <3>5, <3>7
      <4>1. f[c][off][m] = RightProofs(f[c - k][off + k][m - k], Heads(s)[k][off])
        BY <3>8, <3>7, <4>0, SubRight DEF f
      <4>2. g[c][off][a] = Put(g[c - k][off + k][a - k], Heads(s)[k][off])
        BY <3>8, <4>0, PathRight DEF g
      <4>3. PICK r \in Nat : r = m - k
        BY <3>7
      <4>4. Odd(r) /\ r < c - k /\ r <= c - k
        <5>1. ~Odd(k)
          BY <3>0, <3>1, <3>4, <3>7
        <5>. QED  BY <5>1, <4>3, <3>0 DEF Odd
      <4>5. Ok(c - k, off + k, r)
        BY <3>2, <3>3, <4>4
      <4>. HIDE DEF Ok
      <4>6. r - 1 = a - k /\ off + k + r = off + m
        BY <4>3, <3>5
      <4>7. Behind(f[c - k][off + k][r][FALSE], g[c - k][off + k][a - k], 1, s[off + m])
        BY <4>5, <4>6 DEF Ok
      <4>8. /\ f[c][off][m][FALSE] = Put(f[c - k][off + k][r][FALSE], Heads(s)[k][off])
            /\ f[c][off][m][TRUE] = Put(f[c - k][off + k][r][FALSE], Heads(s)[k][off])
        <5>1. f[c][off][m] = RightProofs(f[c - k][off + k][r], Heads(s)[k][off])
          BY <4>1, <4>3
        <5>. QED  BY <5>1 DEF RightProofs
      <4>9. /\ Behind(f[c][off][m][FALSE], g[c][off][a], 1, s[off + m])
            /\ Behind(f[c][off][m][TRUE], g[c][off][a], 1, s[off + m])
        BY <4>2, <4>7, <4>8, BehindAppend
      <4>10. (IF m = 1 THEN 0 ELSE 1) = 1 /\ m - 1 = a
        BY <4>0, <3>5
      <4>. QED  BY <4>9, <4>10, Zenon DEF Ok
    <3>. QED  BY <3>6, <3>7
  <2>. HIDE DEF Ok
  <2>. QED  BY <2>1, <2>2
<1>. HIDE DEF T
<1>2. \A c \in Nat : c \in T
  BY <1>1, Power!Induction
<1>3. n \in T
  BY <1>2
<1>. QED  BY <1>3 DEF T, f, g

-----------------------------------------------------------------------------
(* The shifts past promoted nodes (inclusion.go 95-98, consistency.go      *)
(* 104-107) and up to the first level that ends on a left node             *)
(* (consistency.go 75-78).                                                 *)
OddDef(p, f, fn) ==
  [sn \in Nat |-> IF Odd(fn) \/ fn = 0 THEN <<fn, sn>> ELSE f[fn \div 2][sn \div 2]]

EvenDef(p, f, fn) ==
  [sn \in Nat |-> IF Odd(fn) THEN f[fn \div 2][sn \div 2] ELSE <<fn, sn>>]

OddRec == INSTANCE Recursion WITH Def <- OddDef
EvenRec == INSTANCE Recursion WITH Def <- EvenDef

(* One turn of for fn&1 == 0 && fn != 0 (inclusion.go 95-98).              *)
LEMMA ShiftToOddUnfold ==
  ASSUME NEW fn \in Nat, NEW sn \in Nat
  PROVE  /\ Odd(fn) \/ fn = 0 => ShiftToOdd[fn][sn] = <<fn, sn>>
         /\ ~Odd(fn) /\ fn # 0
              => ShiftToOdd[fn][sn] = ShiftToOdd[fn \div 2][sn \div 2]
<1>. DEFINE f == ShiftToOdd
<1>1. OddRec!Descends(0)
  <2>. SUFFICES ASSUME NEW n \in Nat, NEW g, NEW h, \A m \in Nat : m < n => g[m] = h[m]
                PROVE  OddDef(0, g, n) = OddDef(0, h, n)
    BY DEF OddRec!Descends
  <2>1. n # 0 => n \div 2 \in Nat /\ n \div 2 < n
    OBVIOUS
  <2>. QED  BY <2>1 DEF OddDef
<1>2. \E g : g = [n \in Nat |-> OddDef(0, g, n)]
  BY <1>1, OddRec!RecursiveFunction
<1>3. f = CHOOSE g : g = [n \in Nat |-> OddDef(0, g, n)]
  BY Zenon DEF ShiftToOdd, OddDef
<1>. HIDE DEF f
<1>4. f = [n \in Nat |-> OddDef(0, f, n)]
  BY <1>2, <1>3, Zenon
<1>5. f[fn] = OddDef(0, f, fn)
  BY <1>4, Zenon
<1>6. f[fn][sn] = IF Odd(fn) \/ fn = 0 THEN <<fn, sn>> ELSE f[fn \div 2][sn \div 2]
  BY <1>5 DEF OddDef
<1>. QED  BY <1>6, Zenon DEF f

(* One turn of for fn&1 == 1 (consistency.go 75-78).                       *)
LEMMA ShiftToEvenUnfold ==
  ASSUME NEW fn \in Nat, NEW sn \in Nat
  PROVE  /\ ~Odd(fn) => ShiftToEven[fn][sn] = <<fn, sn>>
         /\ Odd(fn) => ShiftToEven[fn][sn] = ShiftToEven[fn \div 2][sn \div 2]
<1>. DEFINE f == ShiftToEven
<1>1. EvenRec!Descends(0)
  <2>. SUFFICES ASSUME NEW n \in Nat, NEW g, NEW h, \A m \in Nat : m < n => g[m] = h[m]
                PROVE  EvenDef(0, g, n) = EvenDef(0, h, n)
    BY DEF EvenRec!Descends
  <2>1. Odd(n) => n \div 2 \in Nat /\ n \div 2 < n
    BY DEF Odd
  <2>. QED  BY <2>1 DEF EvenDef
<1>2. \E g : g = [n \in Nat |-> EvenDef(0, g, n)]
  BY <1>1, EvenRec!RecursiveFunction
<1>3. f = CHOOSE g : g = [n \in Nat |-> EvenDef(0, g, n)]
  BY Zenon DEF ShiftToEven, EvenDef
<1>. HIDE DEF f
<1>4. f = [n \in Nat |-> EvenDef(0, f, n)]
  BY <1>2, <1>3, Zenon
<1>5. f[fn] = EvenDef(0, f, fn)
  BY <1>4, Zenon
<1>6. f[fn][sn] = IF Odd(fn) THEN f[fn \div 2][sn \div 2] ELSE <<fn, sn>>
  BY <1>5 DEF EvenDef
<1>. QED  BY <1>6, Zenon DEF f

-----------------------------------------------------------------------------
(* The first j nodes of two levels are the same.                           *)
Agree(o, t, j) == \A i \in 1..j : o[i] = t[i]

(* They are when those of the levels above are: hashing is collision free  *)
(* (HashChildren, tree.go 46-52).                                          *)
LEMMA AgreePair ==
  ASSUME NEW o, NEW t, NEW a \in Nat, NEW b \in Nat, NEW j \in Nat,
         2 * j <= a, 2 * j <= b
  PROVE  Agree(PairUp(o, a), PairUp(t, b), j) <=> Agree(o, t, 2 * j)
<1>. DEFINE p == PairUp(o, a)
            q == PairUp(t, b)
<1>1. ASSUME NEW i \in 1..j
      PROVE  /\ p[i] = HashChildren(o[2 * i - 1], o[2 * i])
             /\ q[i] = HashChildren(t[2 * i - 1], t[2 * i])
  <2>1. i \in 1..Half(a) /\ i \in 1..Half(b) /\ 2 * i <= a /\ 2 * i <= b
    BY DEF Half
  <2>. QED  BY <2>1 DEF PairUp
<1>. HIDE DEF p, q
<1>2. ASSUME NEW i \in 1..j
      PROVE  p[i] = q[i] <=> o[2 * i - 1] = t[2 * i - 1] /\ o[2 * i] = t[2 * i]
  BY <1>1, HashInjective
<1>3. ASSUME Agree(p, q, j), NEW i \in 1..(2 * j)
      PROVE  o[i] = t[i]
  <2>1. CASE Odd(i)
    <3>1. PICK k \in 1..j : i = 2 * k - 1
      <4>1. (i + 1) \div 2 \in 1..j /\ i = 2 * ((i + 1) \div 2) - 1
        BY <2>1 DEF Odd
      <4>. QED  BY <4>1
    <3>. QED  BY <3>1, <1>2, <1>3 DEF Agree
  <2>2. CASE ~Odd(i)
    <3>1. PICK k \in 1..j : i = 2 * k
      <4>1. i \div 2 \in 1..j /\ i = 2 * (i \div 2)
        BY <2>2 DEF Odd
      <4>. QED  BY <4>1
    <3>. QED  BY <3>1, <1>2, <1>3 DEF Agree
  <2>. QED  BY <2>1, <2>2
<1>4. ASSUME Agree(o, t, 2 * j), NEW i \in 1..j
      PROVE  p[i] = q[i]
  <2>1. 2 * i - 1 \in 1..(2 * j) /\ 2 * i \in 1..(2 * j)
    OBVIOUS
  <2>2. o[2 * i - 1] = t[2 * i - 1] /\ o[2 * i] = t[2 * i]
    BY <1>4, <2>1 DEF Agree
  <2>. QED  BY <1>2, <2>2
<1>5. Agree(p, q, j) <=> Agree(o, t, 2 * j)
  BY <1>3, <1>4 DEF Agree
<1>. QED  BY <1>5 DEF p, q

(* The proof the tree gives for node f of the n nodes of t.                *)
PathOf(t, n, f) == Paths(t)[n][0][f]

(* The head of the n nodes of t.                                           *)
HeadOf(t, n) == Heads(t)[n][0]

(* HeadLocal, for whole levels.                                            *)
LEMMA HeadAgree ==
  ASSUME NEW s, NEW t, NEW n \in Nat, n > 0
  PROVE  HeadOf(s, n) = HeadOf(t, n) <=> Agree(s, t, n)
<1>1. 0 \in Nat /\ 0 + 1 = 1 /\ 0 + n = n
  OBVIOUS
<1>2. \A off \in Nat : Heads(s)[n][off] = Heads(t)[n][off]
        <=> (\A i \in (off + 1)..(off + n) : s[i] = t[i])
  BY HeadLocal
<1>3. Heads(s)[n][0] = Heads(t)[n][0]
        <=> (\A i \in (0 + 1)..(0 + n) : s[i] = t[i])
  BY <1>1, <1>2, Zenon
<1>. QED  BY <1>1, <1>3, Zenon DEF HeadOf, Agree

(* The proof that the n nodes of t go on from their first m.               *)
ProofOf(t, n, m) == Subproofs(t)[n][0][m][TRUE]

(* ProofForRange is such a proof (consistency.go 13-26).                   *)
LEMMA RangeProof ==
  ASSUME NEW old, NEW new, old # 0, old # new
  PROVE  ProofForRange(old, new) = ProofOf(SubSeq(leaves, 1, new), new, old)
BY Zenon DEF ProofForRange, ProofOf

(* For an odd number of nodes it is the last one's path, behind that node  *)
(* itself unless it is the only one (consistency.go 28-46).                *)
LEMMA ProofOfOdd ==
  ASSUME NEW t, NEW n \in Nat, NEW f \in Nat, ~Odd(f), f + 1 < n
  PROVE  Behind(ProofOf(t, n, f + 1), PathOf(t, n, f),
                IF f = 0 THEN 0 ELSE 1, t[f + 1])
<1>1. /\ n > 0 /\ 0 \in Nat /\ f + 1 \in Nat /\ Odd(f + 1) /\ f + 1 <= n
  BY DEF Odd
<1>2. /\ f + 1 - 1 = f /\ 0 + (f + 1) = f + 1 /\ (f + 1 = 1 <=> f = 0)
  OBVIOUS
<1>3. \A off, m \in Nat : Odd(m) /\ (m < n \/ n = 1) /\ m <= n =>
        /\ Behind(Subproofs(t)[n][off][m][FALSE], Paths(t)[n][off][m - 1],
                  1, t[off + m])
        /\ Behind(Subproofs(t)[n][off][m][TRUE], Paths(t)[n][off][m - 1],
                  IF m = 1 THEN 0 ELSE 1, t[off + m])
  BY <1>1, SubPath
<1>4. \A m \in Nat : Odd(m) /\ (m < n \/ n = 1) /\ m <= n =>
        Behind(ProofOf(t, n, m), PathOf(t, n, m - 1),
               IF m = 1 THEN 0 ELSE 1, t[0 + m])
  BY <1>1, <1>3, Zenon DEF ProofOf, PathOf
<1>5. Behind(ProofOf(t, n, f + 1), PathOf(t, n, f + 1 - 1),
             IF f + 1 = 1 THEN 0 ELSE 1, t[0 + (f + 1)])
  BY <1>1, <1>4
<1>6. (IF f + 1 = 1 THEN 0 ELSE 1) = (IF f = 0 THEN 0 ELSE 1)
  BY <1>2
<1>. QED  BY <1>2, <1>5, <1>6

(* Pairing a level up changes no head, and a node's path by its neighbour. *)
LEMMA PairUpWhole ==
  ASSUME NEW t, NEW n \in Nat, n > 0
  PROVE  /\ HeadOf(PairUp(t, n), Half(n)) = HeadOf(t, n)
         /\ \A f \in Nat : f < n =>
              Behind(PathOf(t, n, f), PathOf(PairUp(t, n), Half(n), f \div 2),
                     HasSibling(f, n), t[Sibling(f) + 1])
<1>1. Aligned(0, n, n)
  BY DEF Aligned
<1>2. Heads(t)[n][2 * 0] = Heads(PairUp(t, n))[Half(n)][0]
  BY <1>1, HeadPair
<1>3. \A f \in Nat : f < n =>
        Behind(Paths(t)[n][2 * 0][f], Paths(PairUp(t, n))[Half(n)][0][f \div 2],
               HasSibling(f, n), t[2 * 0 + Sibling(f) + 1])
  BY <1>1, PathPair
<1>4. 2 * 0 = 0 /\ \A f \in Nat : 2 * 0 + Sibling(f) + 1 = Sibling(f) + 1
  BY DEF Sibling
<1>. QED  BY <1>2, <1>3, <1>4 DEF HeadOf, PathOf

(* Where the last of n nodes stands in the level above.                    *)
LEMMA PairUpNode ==
  ASSUME NEW t, NEW n \in Nat, NEW f \in Nat, f < n
  PROVE  /\ Odd(f) => PairUp(t, n)[f \div 2 + 1] = HashChildren(t[f], t[f + 1])
         /\ ~Odd(f) /\ f + 1 < n
              => PairUp(t, n)[f \div 2 + 1] = HashChildren(t[f + 1], t[f + 2])
         /\ ~Odd(f) /\ f + 1 = n => PairUp(t, n)[f \div 2 + 1] = t[f + 1]
<1>1. f \div 2 + 1 \in 1..Half(n)
  BY DEF Half
<1>2. PairUp(t, n)[f \div 2 + 1]
        = IF 2 * (f \div 2 + 1) <= n
          THEN HashChildren(t[2 * (f \div 2 + 1) - 1], t[2 * (f \div 2 + 1)])
          ELSE t[2 * (f \div 2 + 1) - 1]
  BY <1>1 DEF PairUp
<1>3. Odd(f) => 2 * (f \div 2 + 1) = f + 1
  BY DEF Odd
<1>4. ~Odd(f) => 2 * (f \div 2 + 1) = f + 2
  BY DEF Odd
<1>5. Odd(f) => PairUp(t, n)[f \div 2 + 1] = HashChildren(t[f], t[f + 1])
  BY <1>2, <1>3
<1>6. ~Odd(f) /\ f + 1 < n
        => PairUp(t, n)[f \div 2 + 1] = HashChildren(t[f + 1], t[f + 2])
  BY <1>2, <1>4
<1>7. ~Odd(f) /\ f + 1 = n => PairUp(t, n)[f \div 2 + 1] = t[f + 1]
  BY <1>2, <1>4
<1>. QED  BY <1>5, <1>6, <1>7


(* o1 and t1, whose last nodes are at f1, are levels above o and t, whose  *)
(* last are at f, with nothing paired on the way with those last nodes:    *)
(* what the loop does to fn = sn while both are even (inclusion.go 95-98). *)
Raised(o, t, f, o1, t1, f1) ==
  /\ f1 \in Nat /\ Odd(f1)
  /\ ShiftToOdd[f][f] = <<f1, f1>>
  /\ HeadOf(o1, f1 + 1) = HeadOf(o, f + 1)
  /\ HeadOf(t1, f1 + 1) = HeadOf(t, f + 1)
  /\ o1[f1 + 1] = o[f + 1] /\ t1[f1 + 1] = t[f + 1]
  /\ Agree(o1, t1, f1) <=> Agree(o, t, f)
  /\ Behind(PathOf(t, f + 1, f), PathOf(t1, f1 + 1, f1), 0, 0)

(* A last node without a neighbour is the last node of the level above.    *)
LEMMA RaiseOne ==
  ASSUME NEW o, NEW t, NEW f \in Nat, f # 0, ~Odd(f),
         NEW o1, NEW t1, NEW f1,
         Raised(PairUp(o, f + 1), PairUp(t, f + 1), f \div 2, o1, t1, f1)
  PROVE  Raised(o, t, f, o1, t1, f1)
<1>. DEFINE u == PairUp(o, f + 1)
            w == PairUp(t, f + 1)
            g == f \div 2
<1>1. /\ f + 1 \in Nat /\ f + 1 > 0 /\ g \in Nat /\ Half(f + 1) = g + 1
      /\ 2 * g = f /\ 2 * g <= f + 1 /\ f < f + 1
  BY DEF Half, Odd
<1>2. /\ HeadOf(u, g + 1) = HeadOf(o, f + 1)
      /\ HeadOf(w, g + 1) = HeadOf(t, f + 1)
      /\ Behind(PathOf(t, f + 1, f), PathOf(w, g + 1, g),
                HasSibling(f, f + 1), t[Sibling(f) + 1])
  BY <1>1, PairUpWhole
<1>3. HasSibling(f, f + 1) = 0
  BY DEF HasSibling
<1>4. u[g + 1] = o[f + 1] /\ w[g + 1] = t[f + 1]
  BY <1>1, PairUpNode
<1>5. Agree(u, w, g) <=> Agree(o, t, f)
  BY <1>1, AgreePair
<1>6. ShiftToOdd[f][f] = ShiftToOdd[g][g]
  BY ShiftToOddUnfold
<1>. HIDE DEF u, w, g
<1>7. /\ f1 \in Nat /\ Odd(f1)
      /\ ShiftToOdd[g][g] = <<f1, f1>>
      /\ HeadOf(o1, f1 + 1) = HeadOf(u, g + 1)
      /\ HeadOf(t1, f1 + 1) = HeadOf(w, g + 1)
      /\ o1[f1 + 1] = u[g + 1] /\ t1[f1 + 1] = w[g + 1]
      /\ Agree(o1, t1, f1) <=> Agree(u, w, g)
      /\ Behind(PathOf(w, g + 1, g), PathOf(t1, f1 + 1, f1), 0, 0)
  BY DEF Raised, u, w, g
<1>8. Behind(PathOf(t, f + 1, f), PathOf(t1, f1 + 1, f1), 0, 0)
  BY <1>2, <1>3, <1>7, BehindAll
<1>. QED  BY <1>2, <1>4, <1>5, <1>6, <1>7, <1>8 DEF Raised

(* The loop ends at a node with a neighbour to its left (inclusion.go      *)
(* 95-98).                                                                 *)
LEMMA Promote ==
  \A f \in Nat : f # 0 => \A o, t : \E o1, t1, f1 : Raised(o, t, f, o1, t1, f1)
<1>. DEFINE Ok(f) == \A o, t : \E o1, t1, f1 : Raised(o, t, f, o1, t1, f1)
            T == {f \in Nat : f # 0 => Ok(f)}
<1>1. ASSUME NEW f \in Nat, \A d \in Nat : d < f => d \in T
      PROVE  f \in T
  <2>. SUFFICES ASSUME f # 0, NEW o, NEW t
                PROVE  \E o1, t1, f1 : Raised(o, t, f, o1, t1, f1)
    OBVIOUS
  <2>1. CASE Odd(f)
    <3>1. f + 1 \in Nat /\ f + 1 > 0 /\ f < f + 1
      OBVIOUS
    <3>2. IsList(PathOf(t, f + 1, f)) /\ Len(PathOf(t, f + 1, f)) \in Nat
      BY <3>1, PathList DEF PathOf
    <3>3. Behind(PathOf(t, f + 1, f), PathOf(t, f + 1, f), 0, 0)
      BY <3>2 DEF Behind
    <3>4. ShiftToOdd[f][f] = <<f, f>>
      BY <2>1, ShiftToOddUnfold
    <3>5. Raised(o, t, f, o, t, f)
      BY <2>1, <3>3, <3>4 DEF Raised
    <3>. QED  BY <3>5
  <2>2. CASE ~Odd(f)
    <3>1. f \div 2 \in Nat /\ f \div 2 < f /\ f \div 2 # 0
      BY <2>2 DEF Odd
    <3>2. f \div 2 \in T
      BY <3>1, <1>1
    <3>3. PICK o1, t1, f1 :
            Raised(PairUp(o, f + 1), PairUp(t, f + 1), f \div 2, o1, t1, f1)
      BY <3>1, <3>2
    <3>4. Raised(o, t, f, o1, t1, f1)
      BY <2>2, <3>3, RaiseOne
    <3>. QED  BY <3>4
  <2>. QED  BY <2>1, <2>2
<1>. HIDE DEF T
<1>2. \A f \in Nat : f \in T
  BY <1>1, Power!Induction
<1>. QED  BY <1>2 DEF T


-----------------------------------------------------------------------------
(* One step of the verifiers, from the node fn in a level o of the old log *)
(* that ends there and a level t of the new log that ends at sn, to fu in  *)
(* o2 and to su in t2.  The proof element c is the one an honest proof     *)
(* takes, a what the old log has in its place (inclusion.go 86-104,        *)
(* consistency.go 99-113).                                                 *)
Lifted(o, t, fn, sn, o2, t2, fu, su, a, c) ==
  /\ fu \in Nat /\ su \in Nat /\ fu <= su
  /\ Up(fn, sn) = <<fu, su>>
  /\ HeadOf(o2, fu + 1) = HeadOf(o, fn + 1)
  /\ HeadOf(t2, su + 1) = HeadOf(t, sn + 1)
  /\ Behind(PathOf(t, sn + 1, fn), PathOf(t2, su + 1, fu), 1, c)
  /\ FromLeft(fn, sn)
       => /\ o2[fu + 1] = HashChildren(a, o[fn + 1])
          /\ t2[fu + 1] = HashChildren(c, t[fn + 1])
          /\ (Agree(o2, t2, fu) /\ a = c) <=> Agree(o, t, fn)
  /\ ~FromLeft(fn, sn)
       => /\ o2[fu + 1] = o[fn + 1]
          /\ t2[fu + 1] = HashChildren(t[fn + 1], c)
          /\ Agree(o2, t2, fu) <=> Agree(o, t, fn)

(* The step from a right child.                                            *)
LEMMA LiftRight ==
  ASSUME NEW o, NEW t, NEW fn \in Nat, NEW sn \in Nat, fn <= sn, Odd(fn)
  PROVE  \E o2, t2, fu, su, a, c : Lifted(o, t, fn, sn, o2, t2, fu, su, a, c)
<1>. DEFINE u == PairUp(o, fn + 1)
            w == PairUp(t, sn + 1)
            g == fn \div 2
            h == sn \div 2
<1>1. /\ fn + 1 \in Nat /\ fn + 1 > 0 /\ g \in Nat /\ Half(fn + 1) = g + 1
      /\ sn + 1 \in Nat /\ sn + 1 > 0 /\ h \in Nat /\ Half(sn + 1) = h + 1
      /\ 2 * g + 1 = fn /\ 2 * g <= fn + 1 /\ 2 * g <= sn + 1
      /\ fn < fn + 1 /\ fn < sn + 1 /\ g <= h
  BY DEF Half, Odd
<1>2. /\ HeadOf(u, g + 1) = HeadOf(o, fn + 1)
      /\ HeadOf(w, h + 1) = HeadOf(t, sn + 1)
      /\ Behind(PathOf(t, sn + 1, fn), PathOf(w, h + 1, g),
                HasSibling(fn, sn + 1), t[Sibling(fn) + 1])
  BY <1>1, PairUpWhole
<1>3. HasSibling(fn, sn + 1) = 1 /\ Sibling(fn) + 1 = fn
  BY <1>1 DEF HasSibling, Sibling
<1>4. /\ u[g + 1] = HashChildren(o[fn], o[fn + 1])
      /\ w[g + 1] = HashChildren(t[fn], t[fn + 1])
  BY <1>1, PairUpNode
<1>5. Agree(u, w, g) <=> Agree(o, t, 2 * g)
  BY <1>1, AgreePair
<1>6. (Agree(o, t, 2 * g) /\ o[fn] = t[fn]) <=> Agree(o, t, fn)
  <2>1. \A i \in 1..fn : i \in 1..(2 * g) \/ i = fn
    BY <1>1
  <2>2. fn \in 1..fn /\ \A i \in 1..(2 * g) : i \in 1..fn
    BY <1>1
  <2>. QED  BY <2>1, <2>2 DEF Agree
<1>7. FromLeft(fn, sn) /\ Up(fn, sn) = <<g, h>>
  <2>1. ShiftToOdd[fn][sn] = <<fn, sn>>
    BY ShiftToOddUnfold
  <2>. QED  BY <2>1 DEF FromLeft, Up
<1>. HIDE DEF u, w, g, h
<1>8. Lifted(o, t, fn, sn, u, w, g, h, o[fn], t[fn])
  BY <1>1, <1>2, <1>3, <1>4, <1>5, <1>6, <1>7 DEF Lifted
<1>. QED  BY <1>8

(* The step from a left child that has a right sibling.                    *)
LEMMA LiftLeft ==
  ASSUME NEW o, NEW t, NEW fn \in Nat, NEW sn \in Nat, fn < sn, ~Odd(fn)
  PROVE  \E o2, t2, fu, su, a, c : Lifted(o, t, fn, sn, o2, t2, fu, su, a, c)
<1>. DEFINE u == PairUp(o, fn + 1)
            w == PairUp(t, sn + 1)
            g == fn \div 2
            h == sn \div 2
<1>1. /\ fn + 1 \in Nat /\ fn + 1 > 0 /\ g \in Nat /\ Half(fn + 1) = g + 1
      /\ sn + 1 \in Nat /\ sn + 1 > 0 /\ h \in Nat /\ Half(sn + 1) = h + 1
      /\ 2 * g = fn /\ 2 * g <= fn + 1 /\ 2 * g <= sn + 1
      /\ fn < fn + 1 /\ fn < sn + 1 /\ fn + 1 < sn + 1 /\ g <= h
  BY DEF Half, Odd
<1>2. /\ HeadOf(u, g + 1) = HeadOf(o, fn + 1)
      /\ HeadOf(w, h + 1) = HeadOf(t, sn + 1)
      /\ Behind(PathOf(t, sn + 1, fn), PathOf(w, h + 1, g),
                HasSibling(fn, sn + 1), t[Sibling(fn) + 1])
  BY <1>1, PairUpWhole
<1>3. HasSibling(fn, sn + 1) = 1 /\ Sibling(fn) + 1 = fn + 2
  BY <1>1 DEF HasSibling, Sibling
<1>4. /\ u[g + 1] = o[fn + 1]
      /\ w[g + 1] = HashChildren(t[fn + 1], t[fn + 2])
  BY <1>1, PairUpNode
<1>5. Agree(u, w, g) <=> Agree(o, t, fn)
  BY <1>1, AgreePair
<1>6. ~FromLeft(fn, sn) /\ Up(fn, sn) = <<g, h>>
  BY DEF FromLeft, Up
<1>. HIDE DEF u, w, g, h
<1>7. Lifted(o, t, fn, sn, u, w, g, h, o[fn], t[fn + 2])
  BY <1>1, <1>2, <1>3, <1>4, <1>5, <1>6 DEF Lifted
<1>. QED  BY <1>7

(* The step from the last node of both levels: past the levels it is       *)
(* alone in, and then from a right child.                                  *)
LEMMA LiftLast ==
  ASSUME NEW o, NEW t, NEW fn \in Nat, fn # 0, ~Odd(fn)
  PROVE  \E o2, t2, fu, su, a, c : Lifted(o, t, fn, fn, o2, t2, fu, su, a, c)
<1>1. PICK o1, t1, f1 : Raised(o, t, fn, o1, t1, f1)
  BY Promote
<1>2. /\ f1 \in Nat /\ Odd(f1)
      /\ ShiftToOdd[fn][fn] = <<f1, f1>>
      /\ HeadOf(o1, f1 + 1) = HeadOf(o, fn + 1)
      /\ HeadOf(t1, f1 + 1) = HeadOf(t, fn + 1)
      /\ o1[f1 + 1] = o[fn + 1] /\ t1[f1 + 1] = t[fn + 1]
      /\ Agree(o1, t1, f1) <=> Agree(o, t, fn)
      /\ Behind(PathOf(t, fn + 1, fn), PathOf(t1, f1 + 1, f1), 0, 0)
  BY <1>1 DEF Raised
<1>3. f1 <= f1
  BY <1>2
<1>4. PICK o2, t2, fu, su, a, c : Lifted(o1, t1, f1, f1, o2, t2, fu, su, a, c)
  BY <1>2, <1>3, LiftRight
<1>5. FromLeft(f1, f1) /\ FromLeft(fn, fn) /\ Up(fn, fn) = Up(f1, f1)
  <2>1. ShiftToOdd[f1][f1] = <<f1, f1>>
    BY <1>2, ShiftToOddUnfold
  <2>. QED  BY <2>1, <1>2 DEF FromLeft, Up
<1>6. /\ fu \in Nat /\ su \in Nat /\ fu <= su
      /\ Up(f1, f1) = <<fu, su>>
      /\ HeadOf(o2, fu + 1) = HeadOf(o1, f1 + 1)
      /\ HeadOf(t2, su + 1) = HeadOf(t1, f1 + 1)
      /\ Behind(PathOf(t1, f1 + 1, f1), PathOf(t2, su + 1, fu), 1, c)
      /\ o2[fu + 1] = HashChildren(a, o1[f1 + 1])
      /\ t2[fu + 1] = HashChildren(c, t1[f1 + 1])
      /\ (Agree(o2, t2, fu) /\ a = c) <=> Agree(o1, t1, f1)
  BY <1>4, <1>5 DEF Lifted
<1>7. Behind(PathOf(t, fn + 1, fn), PathOf(t2, su + 1, fu), 1, c)
  BY <1>2, <1>6, BehindAll
<1>8. Lifted(o, t, fn, fn, o2, t2, fu, su, a, c)
  BY <1>2, <1>5, <1>6, <1>7 DEF Lifted
<1>. QED  BY <1>8

(* Below the top there is always a step.                                   *)
LEMMA Lift ==
  ASSUME NEW o, NEW t, NEW fn \in Nat, NEW sn \in Nat, fn <= sn, sn # 0
  PROVE  \E o2, t2, fu, su, a, c : Lifted(o, t, fn, sn, o2, t2, fu, su, a, c)
<1>1. CASE Odd(fn)
  BY <1>1, LiftRight
<1>2. CASE ~Odd(fn) /\ fn < sn
  BY <1>2, LiftLeft
<1>3. CASE ~Odd(fn) /\ fn = sn
  <2>1. fn # 0
    BY <1>3
  <2>2. \E o2, t2, fu, su, a, c : Lifted(o, t, fn, fn, o2, t2, fu, su, a, c)
    BY <1>3, <2>1, LiftLast
  <2>. QED  BY <1>3, <2>2
<1>4. fn < sn \/ fn = sn
  OBVIOUS
<1>. QED  BY <1>1, <1>2, <1>3, <1>4


-----------------------------------------------------------------------------
(* Where the consistency verifier starts (consistency.go 73-85): f1 and s1 *)
(* are what f and s become when shifted while f is odd, in levels that     *)
(* have the same heads, agree where the logs do and have the same proof.   *)
(* The old log is a power of two exactly if it is one node there.          *)
Started(o, t, f, s, o1, t1, f1, s1) ==
  /\ f1 \in Nat /\ s1 \in Nat /\ f1 < s1 /\ ~Odd(f1)
  /\ ShiftToEven[f][s] = <<f1, s1>>
  /\ HeadOf(o1, f1 + 1) = HeadOf(o, f + 1)
  /\ HeadOf(t1, s1 + 1) = HeadOf(t, s + 1)
  /\ Agree(o1, t1, f1 + 1) <=> Agree(o, t, f + 1)
  /\ ProofOf(t, s + 1, f + 1) = ProofOf(t1, s1 + 1, f1 + 1)
  /\ isPowerOfTwo(f + 1) <=> f1 = 0
  /\ f1 = 0 => s1 * (f + 1) <= s

(* One turn of that loop climbs one level.                                 *)
LEMMA StartOne ==
  ASSUME NEW o, NEW t, NEW f \in Nat, NEW s \in Nat, f < s, Odd(f),
         NEW o1, NEW t1, NEW f1, NEW s1,
         Started(PairUp(o, f + 1), PairUp(t, s + 1), f \div 2, s \div 2,
                 o1, t1, f1, s1)
  PROVE  Started(o, t, f, s, o1, t1, f1, s1)
<1>. DEFINE u == PairUp(o, f + 1)
            w == PairUp(t, s + 1)
            g == f \div 2
            h == s \div 2
<1>1. /\ f + 1 \in Nat /\ f + 1 > 0 /\ g \in Nat /\ Half(f + 1) = g + 1
      /\ s + 1 \in Nat /\ s + 1 > 0 /\ h \in Nat /\ Half(s + 1) = h + 1
      /\ 2 * (g + 1) = f + 1 /\ 2 * (g + 1) <= f + 1 /\ 2 * (g + 1) <= s + 1
      /\ g + 1 \in Nat /\ (f + 1) \div 2 = g + 1 /\ ~Odd(f + 1) /\ 2 * h <= s
  BY DEF Half, Odd
<1>2. /\ HeadOf(u, g + 1) = HeadOf(o, f + 1)
      /\ HeadOf(w, h + 1) = HeadOf(t, s + 1)
  BY <1>1, PairUpWhole
<1>3. Agree(u, w, g + 1) <=> Agree(o, t, f + 1)
  BY <1>1, AgreePair
<1>4. ProofOf(t, s + 1, f + 1) = ProofOf(w, h + 1, g + 1)
  <2>1. Aligned(0, s + 1, s + 1) /\ f + 1 <= s + 1
    BY <1>1 DEF Aligned
  <2>2. Subproofs(t)[s + 1][2 * 0][f + 1]
          = Subproofs(w)[Half(s + 1)][0][(f + 1) \div 2]
    BY <1>1, <2>1, SubPair
  <2>3. Subproofs(t)[s + 1][0][f + 1] = Subproofs(w)[h + 1][0][g + 1]
    BY <1>1, <2>2
  <2>. QED  BY <2>3, Zenon DEF ProofOf
<1>5. isPowerOfTwo(f + 1) <=> isPowerOfTwo(g + 1)
  <2>1. isPowerOfTwo(f + 1) <=> isPowerOfTwo((f + 1) \div 2)
    BY <1>1, PowerOfTwoHalf
  <2>. QED  BY <1>1, <2>1
<1>6. ShiftToEven[f][s] = ShiftToEven[g][h]
  BY ShiftToEvenUnfold
<1>. HIDE DEF u, w, g, h
<1>7. /\ f1 \in Nat /\ s1 \in Nat /\ f1 < s1 /\ ~Odd(f1)
      /\ ShiftToEven[g][h] = <<f1, s1>>
      /\ HeadOf(o1, f1 + 1) = HeadOf(u, g + 1)
      /\ HeadOf(t1, s1 + 1) = HeadOf(w, h + 1)
      /\ Agree(o1, t1, f1 + 1) <=> Agree(u, w, g + 1)
      /\ ProofOf(w, h + 1, g + 1) = ProofOf(t1, s1 + 1, f1 + 1)
      /\ isPowerOfTwo(g + 1) <=> f1 = 0
      /\ f1 = 0 => s1 * (g + 1) <= h
  BY DEF Started, u, w, g, h
<1>8. f1 = 0 => s1 * (f + 1) <= s
  <2>1. s1 * (f + 1) = 2 * (s1 * (g + 1))
    BY <1>1, <1>7
  <2>2. s1 * (g + 1) \in Nat
    BY <1>1, <1>7
  <2>. QED  BY <1>1, <1>7, <2>1, <2>2
<1>. QED  BY <1>2, <1>3, <1>4, <1>5, <1>6, <1>7, <1>8 DEF Started

(* The loop ends in such levels (consistency.go 73-78).                    *)
LEMMA Start ==
  \A f \in Nat : \A s \in Nat : f < s =>
    \A o, t : \E o1, t1, f1, s1 : Started(o, t, f, s, o1, t1, f1, s1)
<1>. DEFINE Ok(f, s) == \A o, t : \E o1, t1, f1, s1 :
                          Started(o, t, f, s, o1, t1, f1, s1)
            T == {f \in Nat : \A s \in Nat : f < s => Ok(f, s)}
<1>1. ASSUME NEW f \in Nat, \A d \in Nat : d < f => d \in T
      PROVE  f \in T
  <2>. SUFFICES ASSUME NEW s \in Nat, f < s, NEW o, NEW t
                PROVE  \E o1, t1, f1, s1 : Started(o, t, f, s, o1, t1, f1, s1)
    OBVIOUS
  <2>1. CASE ~Odd(f)
    <3>1. ShiftToEven[f][s] = <<f, s>>
      BY <2>1, ShiftToEvenUnfold
    <3>2. isPowerOfTwo(f + 1) <=> f = 0
      <4>1. f + 1 \in Nat /\ f + 1 > 0 /\ Odd(f + 1)
        BY <2>1 DEF Odd
      <4>2. isPowerOfTwo(f + 1) <=> f + 1 = 1
        BY <4>1, PowerOfTwoHalf
      <4>. QED  BY <4>2
    <3>3. f = 0 => s * (f + 1) <= s
      OBVIOUS
    <3>4. Started(o, t, f, s, o, t, f, s)
      BY <2>1, <3>1, <3>2, <3>3 DEF Started
    <3>. QED  BY <3>4
  <2>2. CASE Odd(f)
    <3>1. f \div 2 \in Nat /\ f \div 2 < f /\ s \div 2 \in Nat
          /\ f \div 2 < s \div 2
      BY <2>2 DEF Odd
    <3>2. f \div 2 \in T
      BY <3>1, <1>1
    <3>3. PICK o1, t1, f1, s1 :
            Started(PairUp(o, f + 1), PairUp(t, s + 1), f \div 2, s \div 2,
                    o1, t1, f1, s1)
      BY <3>1, <3>2
    <3>4. Started(o, t, f, s, o1, t1, f1, s1)
      BY <2>2, <3>3, StartOne
    <3>. QED  BY <3>4
  <2>. QED  BY <2>1, <2>2
<1>. HIDE DEF T
<1>2. \A f \in Nat : f \in T
  BY <1>1, Power!Induction
<1>. QED  BY <1>2 DEF T


-----------------------------------------------------------------------------
(* One turn of the loop of verifyInclusionFromHash, on the element x of    *)
(* the proof (inclusion.go 86-104).                                        *)
Climbed(was, x) ==
  LET up == Up(was.fn, was.sn)
  IN  [r    |-> IF FromLeft(was.fn, was.sn)
                THEN HashChildren(x, was.r) ELSE HashChildren(was.r, x),
       fn   |-> up[1],
       sn   |-> up[2],
       long |-> was.long \/ was.sn = 0]

ClimbDef(p, f, i) ==
  IF i = 0 THEN [r |-> p[1], fn |-> p[2], sn |-> p[3] - 1, long |-> FALSE]
  ELSE Climbed(f[i - 1], p[4][i])

ClimbRec == INSTANCE Recursion WITH Def <- ClimbDef

(* What the loop starts from, and its turns.                               *)
LEMMA ClimbUnfold ==
  ASSUME NEW leaf, NEW idx, NEW size \in Nat, NEW proof
  PROVE  /\ Climb(leaf, idx, size, proof)[0]
              = [r |-> leaf, fn |-> idx, sn |-> size - 1, long |-> FALSE]
         /\ \A i \in Nat : i > 0 =>
              Climb(leaf, idx, size, proof)[i]
                = Climbed(Climb(leaf, idx, size, proof)[i - 1], proof[i])
<1>. DEFINE p == <<leaf, idx, size, proof>>
            F == Climb(leaf, idx, size, proof)
<1>1. ClimbRec!Descends(p)
  <2>. SUFFICES ASSUME NEW i \in Nat, NEW f, NEW g, \A m \in Nat : m < i => f[m] = g[m]
                PROVE  ClimbDef(p, f, i) = ClimbDef(p, g, i)
    BY DEF ClimbRec!Descends
  <2>1. i # 0 => f[i - 1] = g[i - 1]
    OBVIOUS
  <2>. HIDE DEF p
  <2>. QED  BY <2>1 DEF ClimbDef
<1>2. \E f : f = [i \in Nat |-> ClimbDef(p, f, i)]
  BY <1>1, ClimbRec!RecursiveFunction
<1>3. F = CHOOSE f : f = [i \in Nat |->
            IF i = 0 THEN [r |-> leaf, fn |-> idx, sn |-> size - 1, long |-> FALSE]
            ELSE Climbed(f[i - 1], proof[i])]
  BY Zenon DEF Climb, Climbed
<1>4. p[1] = leaf /\ p[2] = idx /\ p[3] = size /\ p[4] = proof
  OBVIOUS
<1>. HIDE DEF p, F
<1>5. \E f : f = [i \in Nat |->
            IF i = 0 THEN [r |-> leaf, fn |-> idx, sn |-> size - 1, long |-> FALSE]
            ELSE Climbed(f[i - 1], proof[i])]
  BY <1>2, <1>4, Zenon DEF ClimbDef
<1>6. F = [i \in Nat |->
            IF i = 0 THEN [r |-> leaf, fn |-> idx, sn |-> size - 1, long |-> FALSE]
            ELSE Climbed(F[i - 1], proof[i])]
  BY <1>3, <1>5, Zenon
<1>7. \A i \in Nat : F[i] = IF i = 0
            THEN [r |-> leaf, fn |-> idx, sn |-> size - 1, long |-> FALSE]
            ELSE Climbed(F[i - 1], proof[i])
  BY <1>6, Zenon
<1>8. F[0] = [r |-> leaf, fn |-> idx, sn |-> size - 1, long |-> FALSE]
  <2>1. 0 \in Nat
    OBVIOUS
  <2>. QED  BY <1>7, <2>1, Zenon
<1>9. \A i \in Nat : i > 0 => F[i] = Climbed(F[i - 1], proof[i])
  <2>1. \A i \in Nat : i > 0 => i # 0
    OBVIOUS
  <2>. QED  BY <1>7, <2>1, Zenon
<1>. QED  BY <1>8, <1>9 DEF F

(* The fields after a turn.                                                *)
LEMMA ClimbedFields ==
  ASSUME NEW was, NEW x
  PROVE  /\ FromLeft(was.fn, was.sn)
              => Climbed(was, x).r = HashChildren(x, was.r)
         /\ ~FromLeft(was.fn, was.sn)
              => Climbed(was, x).r = HashChildren(was.r, x)
         /\ Climbed(was, x).fn = Up(was.fn, was.sn)[1]
         /\ Climbed(was, x).sn = Up(was.fn, was.sn)[2]
         /\ Climbed(was, x).long <=> (was.long \/ was.sn = 0)
BY Zenon DEF Climbed

(* A proof that goes on past the top stays too long (inclusion.go 90-92).  *)
LEMMA ClimbedLong ==
  ASSUME NEW was, NEW x, NEW now, now = Climbed(was, x), was.long \/ was.sn = 0
  PROVE  now.long
<1>1. Climbed(was, x).long
  BY ClimbedFields, Zenon
<1>. QED  BY <1>1, Zenon

(* One turn of the loop of VerifyConsistency (consistency.go 99-113).      *)
Combined(was, x) ==
  LET left == FromLeft(was.fn, was.sn)
      up == Up(was.fn, was.sn)
  IN  [fr   |-> IF left THEN HashChildren(x, was.fr) ELSE was.fr,
       sr   |-> IF left THEN HashChildren(x, was.sr) ELSE HashChildren(was.sr, x),
       fn   |-> up[1],
       sn   |-> up[2],
       long |-> was.long \/ was.sn = 0]

CombineDef(p, f, i) ==
  IF i <= p[5]
  THEN [fr |-> p[1], sr |-> p[1], fn |-> p[2], sn |-> p[3], long |-> FALSE]
  ELSE Combined(f[i - 1], p[4][i])

CombineRec == INSTANCE Recursion WITH Def <- CombineDef

(* What the loop starts from, and its turns.                               *)
LEMMA CombineUnfold ==
  ASSUME NEW first, NEW fn0, NEW sn0, NEW proof, NEW skip \in Nat
  PROVE  /\ Combine(first, fn0, sn0, proof, skip)[skip]
              = [fr |-> first, sr |-> first, fn |-> fn0, sn |-> sn0, long |-> FALSE]
         /\ \A i \in Nat : i > skip =>
              Combine(first, fn0, sn0, proof, skip)[i]
                = Combined(Combine(first, fn0, sn0, proof, skip)[i - 1], proof[i])
<1>. DEFINE p == <<first, fn0, sn0, proof, skip>>
            F == Combine(first, fn0, sn0, proof, skip)
            S == [fr |-> first, sr |-> first, fn |-> fn0, sn |-> sn0, long |-> FALSE]
<1>0. p[1] = first /\ p[2] = fn0 /\ p[3] = sn0 /\ p[4] = proof /\ p[5] = skip
  OBVIOUS
<1>1. CombineRec!Descends(p)
  <2>. SUFFICES ASSUME NEW i \in Nat, NEW f, NEW g, \A m \in Nat : m < i => f[m] = g[m]
                PROVE  CombineDef(p, f, i) = CombineDef(p, g, i)
    BY DEF CombineRec!Descends
  <2>1. ~(i <= p[5]) => f[i - 1] = g[i - 1]
    BY <1>0
  <2>. HIDE DEF p
  <2>. QED  BY <2>1 DEF CombineDef
<1>2. \E f : f = [i \in Nat |-> CombineDef(p, f, i)]
  BY <1>1, CombineRec!RecursiveFunction
<1>3. F = CHOOSE f : f = [i \in Nat |->
            IF i <= skip THEN S ELSE Combined(f[i - 1], proof[i])]
  BY Zenon DEF Combine, Combined
<1>4. \E f : f = [i \in Nat |->
            IF i <= skip THEN S ELSE Combined(f[i - 1], proof[i])]
  <2>. HIDE DEF p
  <2>. QED  BY <1>2, <1>0, Zenon DEF CombineDef
<1>. HIDE DEF p, F, S
<1>5. F = [i \in Nat |-> IF i <= skip THEN S ELSE Combined(F[i - 1], proof[i])]
  BY <1>3, <1>4, Zenon
<1>6. \A i \in Nat : F[i] = IF i <= skip THEN S ELSE Combined(F[i - 1], proof[i])
  BY <1>5, Zenon
<1>7. F[skip] = S
  <2>1. skip <= skip
    OBVIOUS
  <2>. QED  BY <1>6, <2>1, Zenon
<1>8. \A i \in Nat : i > skip => F[i] = Combined(F[i - 1], proof[i])
  <2>1. \A i \in Nat : i > skip => ~(i <= skip)
    OBVIOUS
  <2>. QED  BY <1>6, <2>1, Zenon
<1>. QED  BY <1>7, <1>8 DEF F, S

(* The fields after a turn.                                                *)
LEMMA CombinedFields ==
  ASSUME NEW was, NEW x
  PROVE  /\ FromLeft(was.fn, was.sn)
              => /\ Combined(was, x).fr = HashChildren(x, was.fr)
                 /\ Combined(was, x).sr = HashChildren(x, was.sr)
         /\ ~FromLeft(was.fn, was.sn)
              => /\ Combined(was, x).fr = was.fr
                 /\ Combined(was, x).sr = HashChildren(was.sr, x)
         /\ Combined(was, x).fn = Up(was.fn, was.sn)[1]
         /\ Combined(was, x).sn = Up(was.fn, was.sn)[2]
         /\ Combined(was, x).long <=> (was.long \/ was.sn = 0)
BY Zenon DEF Combined

(* A proof that goes on past the top stays too long (consistency.go        *)
(* 115-117).                                                               *)
LEMMA CombinedLong ==
  ASSUME NEW was, NEW x, NEW now, now = Combined(was, x), was.long \/ was.sn = 0
  PROVE  now.long
<1>1. Combined(was, x).long
  BY CombinedFields, Zenon
<1>. QED  BY <1>1, Zenon


-----------------------------------------------------------------------------
(* The head of one node is the node.                                       *)
LEMMA HeadOne == ASSUME NEW t PROVE HeadOf(t, 1) = t[1]
<1>1. Heads(t)[1][0] = t[0 + 1]
  BY HeadUnfold
<1>. QED  BY <1>1 DEF HeadOf

(* The inclusion verifier is at a node of the level t of a log with head   *)
(* root.                                                                   *)
ClimbsIn(at, t, root) ==
  /\ at.fn \in Nat /\ at.sn \in Nat /\ at.fn <= at.sn
  /\ HeadOf(t, at.sn + 1) = root

(* p after its first i elements is q.                                      *)
Rest(p, i, q) ==
  /\ IsList(q) /\ Len(p) = Len(q) + i
  /\ \A j \in 1..Len(q) : p[i + j] = q[j]

(* A turn derives the right node of the level above from the right node    *)
(* and the right sibling, and from nothing else (inclusion.go 86-104).     *)
LEMMA ClimbTurn ==
  ASSUME NEW was, NEW x, NEW t, NEW root,
         ClimbsIn(was, t, root), was.sn # 0,
         NEW now, now = Climbed(was, x)
  PROVE  \E t2, c :
           /\ ClimbsIn(now, t2, root)
           /\ Behind(PathOf(t, was.sn + 1, was.fn),
                     PathOf(t2, now.sn + 1, now.fn), 1, c)
           /\ now.r = t2[now.fn + 1] <=> was.r = t[was.fn + 1] /\ x = c
<1>1. was.fn \in Nat /\ was.sn \in Nat /\ was.fn <= was.sn
      /\ HeadOf(t, was.sn + 1) = root
  BY DEF ClimbsIn
<1>2. PICK o2, t2, fu, su, a, c :
        Lifted(t, t, was.fn, was.sn, o2, t2, fu, su, a, c)
  BY <1>1, Lift
<1>3. /\ fu \in Nat /\ su \in Nat /\ fu <= su
      /\ Up(was.fn, was.sn) = <<fu, su>>
      /\ HeadOf(t2, su + 1) = root
      /\ Behind(PathOf(t, was.sn + 1, was.fn), PathOf(t2, su + 1, fu), 1, c)
      /\ FromLeft(was.fn, was.sn)
           => t2[fu + 1] = HashChildren(c, t[was.fn + 1])
      /\ ~FromLeft(was.fn, was.sn)
           => t2[fu + 1] = HashChildren(t[was.fn + 1], c)
  BY <1>1, <1>2 DEF Lifted
<1>4. now.fn = fu /\ now.sn = su
  <2>1. now.fn = Up(was.fn, was.sn)[1] /\ now.sn = Up(was.fn, was.sn)[2]
    BY ClimbedFields
  <2>. QED  BY <2>1, <1>3
<1>5. now.r = t2[fu + 1] <=> was.r = t[was.fn + 1] /\ x = c
  <2>1. CASE FromLeft(was.fn, was.sn)
    <3>1. now.r = HashChildren(x, was.r)
      BY <2>1, ClimbedFields
    <3>. QED  BY <2>1, <3>1, <1>3, HashInjective
  <2>2. CASE ~FromLeft(was.fn, was.sn)
    <3>1. now.r = HashChildren(was.r, x)
      BY <2>2, ClimbedFields
    <3>. QED  BY <2>2, <3>1, <1>3, HashInjective
  <2>. QED  BY <2>1, <2>2
<1>6. ClimbsIn(now, t2, root)
  BY <1>3, <1>4 DEF ClimbsIn
<1>. QED  BY <1>3, <1>4, <1>5, <1>6

(* Whatever the proof, the verifier does not accept another leaf in the    *)
(* place of one (inclusion.go 71-113).                                     *)
LEMMA InclusionProofSound ==
  ASSUME NEW t0, NEW n \in Nat, NEW idx \in Nat, NEW leaf, NEW proof,
         Len(proof) \in Nat,
         VerifyInclusionHash(leaf, idx, n, proof, HeadOf(t0, n))
  PROVE  leaf = t0[idx + 1]
<1>. DEFINE F == Climb(leaf, idx, n, proof)
            root == HeadOf(t0, n)
            Ok(i) == F[i].long \/ \E t :
                       /\ ClimbsIn(F[i], t, root)
                       /\ F[i].r = t[F[i].fn + 1] => leaf = t0[idx + 1]
            T == {i \in Nat : Ok(i)}
<1>1. /\ n > 0 /\ idx < n
      /\ ~F[Len(proof)].long /\ F[Len(proof)].sn = 0 /\ F[Len(proof)].r = root
  BY DEF VerifyInclusionHash
<1>2. /\ F[0] = [r |-> leaf, fn |-> idx, sn |-> n - 1, long |-> FALSE]
      /\ \A i \in Nat : i > 0 => F[i] = Climbed(F[i - 1], proof[i])
  BY ClimbUnfold
<1>. HIDE DEF F
<1>3. ASSUME NEW i \in Nat, \A d \in Nat : d < i => d \in T
      PROVE  i \in T
  <2>1. CASE i = 0
    <3>1. F[0].r = leaf /\ F[0].fn = idx /\ F[0].sn = n - 1
      BY <1>2
    <3>2. ClimbsIn(F[0], t0, root)
      BY <3>1, <1>1 DEF ClimbsIn
    <3>3. F[0].r = t0[F[0].fn + 1] => leaf = t0[idx + 1]
      BY <3>1
    <3>4. Ok(0)
      BY <3>2, <3>3
    <3>. QED  BY <2>1, <3>4
  <2>2. CASE i # 0
    <3>. DEFINE was == F[i - 1]
                now == F[i]
    <3>1. now = Climbed(was, proof[i])
      BY <2>2, <1>2
    <3>2. i - 1 \in Nat /\ i - 1 < i
      BY <2>2
    <3>3. Ok(i - 1)
      BY <3>2, <1>3
    <3>4. CASE was.long \/ was.sn = 0
      <4>1. now.long
        BY <3>1, <3>4, ClimbedLong
      <4>. QED  BY <4>1
    <3>5. CASE ~(was.long \/ was.sn = 0)
      <4>1. PICK t : /\ ClimbsIn(was, t, root)
                     /\ was.r = t[was.fn + 1] => leaf = t0[idx + 1]
        BY <3>3, <3>5, Zenon
      <4>2. was.sn # 0
        BY <3>5, Zenon
      <4>. HIDE DEF was, now, root
      <4>3. PICK t2, c :
              /\ ClimbsIn(now, t2, root)
              /\ Behind(PathOf(t, was.sn + 1, was.fn),
                        PathOf(t2, now.sn + 1, now.fn), 1, c)
              /\ now.r = t2[now.fn + 1]
                   <=> was.r = t[was.fn + 1] /\ proof[i] = c
        BY <3>1, <4>1, <4>2, ClimbTurn
      <4>4. now.r = t2[now.fn + 1] => leaf = t0[idx + 1]
        BY <4>1, <4>3
      <4>5. Ok(i)
        BY <4>3, <4>4, Zenon DEF now
      <4>. QED  BY <4>5
    <3>. QED  BY <3>4, <3>5
  <2>. QED  BY <2>1, <2>2
<1>. HIDE DEF T
<1>4. \A i \in Nat : i \in T
  BY <1>3, Power!Induction
<1>5. Ok(Len(proof))
  BY <1>4 DEF T
<1>. DEFINE end == F[Len(proof)]
<1>6. PICK t : /\ ClimbsIn(end, t, root)
               /\ end.r = t[end.fn + 1] => leaf = t0[idx + 1]
  BY <1>1, <1>5, Zenon
<1>7. end.sn = 0 /\ end.r = root
  BY <1>1
<1>. HIDE DEF end, root
<1>8. end.fn = 0 /\ HeadOf(t, 1) = root
  BY <1>6, <1>7 DEF ClimbsIn
<1>9. HeadOf(t, 1) = t[1]
  BY HeadOne
<1>10. end.r = t[end.fn + 1]
  BY <1>7, <1>8, <1>9
<1>. QED  BY <1>6, <1>10


(* Nothing is left of a path only at the top: one node, at sn = 0.         *)
LEMMA TopOfPath ==
  ASSUME NEW t, NEW fn \in Nat, NEW sn \in Nat, fn <= sn
  PROVE  /\ Len(PathOf(t, sn + 1, fn)) \in Nat
         /\ Len(PathOf(t, sn + 1, fn)) = 0 <=> sn = 0
<1>1. sn + 1 \in Nat /\ sn + 1 > 0 /\ fn < sn + 1 /\ (sn + 1 = 1 <=> sn = 0)
  OBVIOUS
<1>2. /\ Len(Paths(t)[sn + 1][0][fn]) \in Nat
      /\ Len(Paths(t)[sn + 1][0][fn]) = 0 <=> sn + 1 = 1
  BY <1>1, PathList, SMTT(30)
<1>. QED  BY <1>1, <1>2 DEF PathOf

(* What is left of a proof that starts with c and goes on as q.            *)
LEMMA RestNext ==
  ASSUME NEW p, NEW i \in Nat, NEW q, NEW r, NEW c,
         Rest(p, i, q), Behind(q, r, 1, c), Len(r) \in Nat
  PROVE  p[i + 1] = c /\ Rest(p, i + 1, r)
<1>1. /\ Len(p) = Len(q) + i
      /\ \A j \in 1..Len(q) : p[i + j] = q[j]
  BY DEF Rest
<1>2. /\ IsList(r) /\ Len(q) = Len(r) + 1 /\ q[1] = c
      /\ \A j \in 1..Len(r) : q[j + 1] = r[j]
  BY DEF Behind
<1>3. p[i + 1] = c
  BY <1>1, <1>2
<1>4. ASSUME NEW j \in 1..Len(r)
      PROVE  p[i + 1 + j] = r[j]
  <2>1. j + 1 \in 1..Len(q) /\ i + (j + 1) = i + 1 + j
    BY <1>2
  <2>. QED  BY <2>1, <1>1, <1>2
<1>5. Len(p) = Len(r) + (i + 1)
  BY <1>1, <1>2
<1>. QED  BY <1>2, <1>3, <1>4, <1>5 DEF Rest

(* The path of a leaf is accepted as a proof of it (inclusion.go 41-52     *)
(* against 71-113).                                                        *)
LEMMA InclusionProofComplete ==
  ASSUME NEW t0, NEW n \in Nat, NEW idx \in Nat, idx < n
  PROVE  VerifyInclusionHash(t0[idx + 1], idx, n, PathOf(t0, n, idx), HeadOf(t0, n))
<1>. DEFINE leaf == t0[idx + 1]
            proof == PathOf(t0, n, idx)
            F == Climb(leaf, idx, n, proof)
            root == HeadOf(t0, n)
            On(at, i, t) == /\ ~at.long
                            /\ ClimbsIn(at, t, root)
                            /\ at.r = t[at.fn + 1]
                            /\ Rest(proof, i, PathOf(t, at.sn + 1, at.fn))
            Ok(i) == i <= Len(proof) => \E t : On(F[i], i, t)
            T == {i \in Nat : Ok(i)}
<1>0. n > 0 /\ n - 1 \in Nat /\ n - 1 + 1 = n
  OBVIOUS
<1>1. IsList(proof) /\ Len(proof) \in Nat
  BY <1>0, PathList DEF PathOf
<1>2. /\ F[0] = [r |-> leaf, fn |-> idx, sn |-> n - 1, long |-> FALSE]
      /\ \A i \in Nat : i > 0 => F[i] = Climbed(F[i - 1], proof[i])
  BY ClimbUnfold
<1>. HIDE DEF F
<1>3. ASSUME NEW i \in Nat, \A d \in Nat : d < i => d \in T
      PROVE  i \in T
  <2>1. CASE i = 0
    <3>1. F[0].r = leaf /\ F[0].fn = idx /\ F[0].sn = n - 1 /\ F[0].long = FALSE
      BY <1>2
    <3>2. ClimbsIn(F[0], t0, root)
      BY <3>1, <1>0 DEF ClimbsIn
    <3>3. PathOf(t0, F[0].sn + 1, F[0].fn) = proof
      BY <3>1, <1>0
    <3>. HIDE DEF proof
    <3>4. Rest(proof, 0, proof)
      BY <1>1 DEF Rest
    <3>5. On(F[0], 0, t0)
      BY <3>1, <3>2, <3>3, <3>4
    <3>. QED  BY <2>1, <3>5
  <2>2. CASE i # 0
    <3>. SUFFICES ASSUME i <= Len(proof)
                  PROVE  \E t : On(F[i], i, t)
      OBVIOUS
    <3>. DEFINE was == F[i - 1]
                now == F[i]
    <3>1. now = Climbed(was, proof[i])
      BY <2>2, <1>2
    <3>2. i - 1 \in Nat /\ i - 1 < i /\ i - 1 <= Len(proof) /\ i - 1 + 1 = i
      BY <2>2, <1>1
    <3>3. PICK t : On(was, i - 1, t)
      BY <3>2, <1>3
    <3>. HIDE DEF was, now, root, proof
    <3>4. /\ was.fn \in Nat /\ was.sn \in Nat /\ was.fn <= was.sn
          /\ Rest(proof, i - 1, PathOf(t, was.sn + 1, was.fn))
      BY <3>3 DEF ClimbsIn
    <3>5. was.sn # 0
      <4>1. Len(proof) = Len(PathOf(t, was.sn + 1, was.fn)) + (i - 1)
        BY <3>4 DEF Rest
      <4>2. /\ Len(PathOf(t, was.sn + 1, was.fn)) \in Nat
            /\ Len(PathOf(t, was.sn + 1, was.fn)) = 0 <=> was.sn = 0
        BY <3>4, TopOfPath
      <4>. QED  BY <4>1, <4>2, <1>1
    <3>6. PICK t2, c :
            /\ ClimbsIn(now, t2, root)
            /\ Behind(PathOf(t, was.sn + 1, was.fn),
                      PathOf(t2, now.sn + 1, now.fn), 1, c)
            /\ now.r = t2[now.fn + 1] <=> was.r = t[was.fn + 1] /\ proof[i] = c
      BY <3>1, <3>3, <3>5, ClimbTurn
    <3>7. Len(PathOf(t2, now.sn + 1, now.fn)) \in Nat
      BY <3>6, TopOfPath DEF ClimbsIn
    <3>8. proof[i - 1 + 1] = c
          /\ Rest(proof, i - 1 + 1, PathOf(t2, now.sn + 1, now.fn))
      BY <3>2, <3>4, <3>6, <3>7, RestNext
    <3>9. proof[i] = c /\ Rest(proof, i, PathOf(t2, now.sn + 1, now.fn))
      BY <3>2, <3>8
    <3>10. now.r = t2[now.fn + 1]
      BY <3>3, <3>6, <3>9
    <3>11. ~now.long
      <4>1. now.long <=> (was.long \/ was.sn = 0)
        BY <3>1, ClimbedFields
      <4>2. ~was.long
        BY <3>3, Zenon
      <4>. QED  BY <4>1, <4>2, <3>5, Zenon
    <3>12. On(now, i, t2)
      BY <3>6, <3>9, <3>10, <3>11, Zenon
    <3>. QED  BY <3>12 DEF now
  <2>. QED  BY <2>1, <2>2
<1>. HIDE DEF T
<1>4. \A i \in Nat : i \in T
  BY <1>3, Power!Induction
<1>. DEFINE end == F[Len(proof)]
<1>5. PICK t : On(end, Len(proof), t)
  <2>1. Len(proof) \in T /\ Len(proof) <= Len(proof)
    BY <1>1, <1>4
  <2>. HIDE DEF On, end, F
  <2>. QED  BY <2>1 DEF T, end
<1>. HIDE DEF end, root, proof
<1>6. /\ end.fn \in Nat /\ end.sn \in Nat /\ end.fn <= end.sn
      /\ HeadOf(t, end.sn + 1) = root
      /\ end.r = t[end.fn + 1]
      /\ Rest(proof, Len(proof), PathOf(t, end.sn + 1, end.fn))
  BY <1>5 DEF ClimbsIn
<1>7. end.sn = 0
  <2>1. Len(proof) = Len(PathOf(t, end.sn + 1, end.fn)) + Len(proof)
    BY <1>6 DEF Rest
  <2>2. /\ Len(PathOf(t, end.sn + 1, end.fn)) \in Nat
        /\ Len(PathOf(t, end.sn + 1, end.fn)) = 0 <=> end.sn = 0
    BY <1>6, TopOfPath
  <2>. QED  BY <2>1, <2>2, <1>1
<1>8. end.r = root
  <2>1. end.fn = 0 /\ HeadOf(t, 1) = root
    BY <1>6, <1>7
  <2>2. HeadOf(t, 1) = t[1]
    BY HeadOne
  <2>. QED  BY <1>6, <2>1, <2>2
<1>9. ~end.long
  BY <1>5, Zenon
<1>. QED  BY <1>0, <1>7, <1>8, <1>9 DEF VerifyInclusionHash, end, F, proof, root, leaf


-----------------------------------------------------------------------------
(* The consistency verifier is at the last node of the level o of the old  *)
(* log, and at that place in the level t of the new log.                   *)
CombinesIn(at, o, t, oldRoot, newRoot) ==
  /\ at.fn \in Nat /\ at.sn \in Nat /\ at.fn <= at.sn
  /\ HeadOf(o, at.fn + 1) = oldRoot
  /\ HeadOf(t, at.sn + 1) = newRoot

(* What it has derived are those nodes, and the old log continues as the   *)
(* new one up to there.                                                    *)
Derived(at, o, t) ==
  /\ at.fr = o[at.fn + 1] /\ at.sr = t[at.fn + 1]
  /\ Agree(o, t, at.fn)

(* A turn that takes a node in from the left.                              *)
LEMMA CombineTurnLeft ==
  ASSUME NEW was, NEW x, NEW now, now = Combined(was, x),
         FromLeft(was.fn, was.sn),
         NEW o, NEW t, NEW o2, NEW t2, NEW fu, NEW su, NEW a, NEW c,
         Lifted(o, t, was.fn, was.sn, o2, t2, fu, su, a, c),
         now.fn = fu
  PROVE  Derived(now, o2, t2) <=> Derived(was, o, t) /\ x = c
<1>1. /\ now.fr = HashChildren(x, was.fr)
      /\ now.sr = HashChildren(x, was.sr)
  BY CombinedFields
<1>2. /\ o2[fu + 1] = HashChildren(a, o[was.fn + 1])
      /\ t2[fu + 1] = HashChildren(c, t[was.fn + 1])
      /\ (Agree(o2, t2, fu) /\ a = c) <=> Agree(o, t, was.fn)
  BY DEF Lifted
<1>3. /\ now.fr = o2[fu + 1] <=> x = a /\ was.fr = o[was.fn + 1]
      /\ now.sr = t2[fu + 1] <=> x = c /\ was.sr = t[was.fn + 1]
  BY <1>1, <1>2, HashInjective
<1>4. Derived(now, o2, t2) <=> /\ now.fr = o2[fu + 1] /\ now.sr = t2[fu + 1]
                               /\ Agree(o2, t2, fu)
  BY DEF Derived
<1>5. Derived(was, o, t) <=> /\ was.fr = o[was.fn + 1] /\ was.sr = t[was.fn + 1]
                             /\ Agree(o, t, was.fn)
  BY DEF Derived
<1>. QED  BY <1>2, <1>3, <1>4, <1>5

(* A turn that takes a node of the new log in from the right.              *)
LEMMA CombineTurnRight ==
  ASSUME NEW was, NEW x, NEW now, now = Combined(was, x),
         ~FromLeft(was.fn, was.sn),
         NEW o, NEW t, NEW o2, NEW t2, NEW fu, NEW su, NEW a, NEW c,
         Lifted(o, t, was.fn, was.sn, o2, t2, fu, su, a, c),
         now.fn = fu
  PROVE  Derived(now, o2, t2) <=> Derived(was, o, t) /\ x = c
<1>1. now.fr = was.fr /\ now.sr = HashChildren(was.sr, x)
  BY CombinedFields
<1>2. /\ o2[fu + 1] = o[was.fn + 1]
      /\ t2[fu + 1] = HashChildren(t[was.fn + 1], c)
      /\ Agree(o2, t2, fu) <=> Agree(o, t, was.fn)
  BY DEF Lifted
<1>3. /\ now.fr = o2[fu + 1] <=> was.fr = o[was.fn + 1]
      /\ now.sr = t2[fu + 1] <=> was.sr = t[was.fn + 1] /\ x = c
  BY <1>1, <1>2, HashInjective
<1>4. Derived(now, o2, t2) <=> /\ now.fr = o2[fu + 1] /\ now.sr = t2[fu + 1]
                               /\ Agree(o2, t2, fu)
  BY DEF Derived
<1>5. Derived(was, o, t) <=> /\ was.fr = o[was.fn + 1] /\ was.sr = t[was.fn + 1]
                             /\ Agree(o, t, was.fn)
  BY DEF Derived
<1>. QED  BY <1>2, <1>3, <1>4, <1>5

(* A turn derives the right nodes of the level above from the right nodes  *)
(* and the right proof element, and from nothing else (consistency.go      *)
(* 99-113).                                                                *)
LEMMA CombineTurn ==
  ASSUME NEW was, NEW x, NEW o, NEW t, NEW oldRoot, NEW newRoot,
         CombinesIn(was, o, t, oldRoot, newRoot), was.sn # 0,
         NEW now, now = Combined(was, x)
  PROVE  \E o2, t2, c :
           /\ CombinesIn(now, o2, t2, oldRoot, newRoot)
           /\ Behind(PathOf(t, was.sn + 1, was.fn),
                     PathOf(t2, now.sn + 1, now.fn), 1, c)
           /\ Derived(now, o2, t2) <=> Derived(was, o, t) /\ x = c
<1>1. /\ was.fn \in Nat /\ was.sn \in Nat /\ was.fn <= was.sn
      /\ HeadOf(o, was.fn + 1) = oldRoot
      /\ HeadOf(t, was.sn + 1) = newRoot
  BY DEF CombinesIn
<1>2. PICK o2, t2, fu, su, a, c :
        Lifted(o, t, was.fn, was.sn, o2, t2, fu, su, a, c)
  BY <1>1, Lift
<1>3. /\ fu \in Nat /\ su \in Nat /\ fu <= su
      /\ Up(was.fn, was.sn) = <<fu, su>>
      /\ HeadOf(o2, fu + 1) = oldRoot
      /\ HeadOf(t2, su + 1) = newRoot
      /\ Behind(PathOf(t, was.sn + 1, was.fn), PathOf(t2, su + 1, fu), 1, c)
  BY <1>1, <1>2 DEF Lifted
<1>4. now.fn = fu /\ now.sn = su
  <2>1. now.fn = Up(was.fn, was.sn)[1] /\ now.sn = Up(was.fn, was.sn)[2]
    BY CombinedFields
  <2>. QED  BY <2>1, <1>3
<1>5. Derived(now, o2, t2) <=> Derived(was, o, t) /\ x = c
  <2>1. CASE FromLeft(was.fn, was.sn)
    BY <2>1, <1>2, <1>4, CombineTurnLeft
  <2>2. CASE ~FromLeft(was.fn, was.sn)
    BY <2>2, <1>2, <1>4, CombineTurnRight
  <2>. QED  BY <2>1, <2>2
<1>6. CombinesIn(now, o2, t2, oldRoot, newRoot)
  BY <1>3, <1>4 DEF CombinesIn
<1>. QED  BY <1>3, <1>4, <1>5, <1>6

(* At the top the derived heads are right only if all that went into them  *)
(* was (consistency.go 95-124).                                            *)
LEMMA CombineSound ==
  ASSUME NEW first, NEW o0, NEW t0, NEW f0 \in Nat, NEW s0 \in Nat, f0 <= s0,
         NEW proof, NEW skip \in Nat, Len(proof) \in Nat, skip <= Len(proof),
         NEW end, end = Combine(first, f0, s0, proof, skip)[Len(proof)],
         ~end.long, end.sn = 0,
         end.fr = HeadOf(o0, f0 + 1), end.sr = HeadOf(t0, s0 + 1)
  PROVE  first = o0[f0 + 1] /\ first = t0[f0 + 1] /\ Agree(o0, t0, f0)
<1>. DEFINE F == Combine(first, f0, s0, proof, skip)
            old == HeadOf(o0, f0 + 1)
            new == HeadOf(t0, s0 + 1)
            Goal == first = o0[f0 + 1] /\ first = t0[f0 + 1] /\ Agree(o0, t0, f0)
            Ok(i) == skip <= i => F[i].long \/ \E o, t :
                                    /\ CombinesIn(F[i], o, t, old, new)
                                    /\ Derived(F[i], o, t) => Goal
            T == {i \in Nat : Ok(i)}
<1>1. /\ F[skip] = [fr |-> first, sr |-> first, fn |-> f0, sn |-> s0, long |-> FALSE]
      /\ \A i \in Nat : i > skip => F[i] = Combined(F[i - 1], proof[i])
  BY CombineUnfold
<1>2. end = F[Len(proof)]
  OBVIOUS
<1>. HIDE DEF F
<1>3. ASSUME NEW i \in Nat, \A d \in Nat : d < i => d \in T
      PROVE  i \in T
  <2>. SUFFICES ASSUME skip <= i
                PROVE  F[i].long \/ \E o, t :
                                    /\ CombinesIn(F[i], o, t, old, new)
                                    /\ Derived(F[i], o, t) => Goal
    OBVIOUS
  <2>1. CASE i = skip
    <3>1. F[i].fr = first /\ F[i].sr = first /\ F[i].fn = f0 /\ F[i].sn = s0
      BY <2>1, <1>1
    <3>2. CombinesIn(F[i], o0, t0, old, new)
      BY <3>1 DEF CombinesIn
    <3>3. Derived(F[i], o0, t0) => Goal
      BY <3>1 DEF Derived
    <3>. QED  BY <3>2, <3>3
  <2>2. CASE i # skip
    <3>. DEFINE was == F[i - 1]
                now == F[i]
    <3>1. /\ now = Combined(was, proof[i])
          /\ i - 1 \in Nat /\ i - 1 < i /\ skip <= i - 1
      <4>1. i > skip /\ i - 1 \in Nat /\ i - 1 < i /\ skip <= i - 1
        BY <2>2
      <4>. QED  BY <4>1, <1>1
    <3>2. was.long \/ \E o, t : /\ CombinesIn(was, o, t, old, new)
                                /\ Derived(was, o, t) => Goal
      BY <3>1, <1>3
    <3>3. CASE was.long \/ was.sn = 0
      <4>1. now.long
        BY <3>1, <3>3, CombinedLong
      <4>. QED  BY <4>1
    <3>4. CASE ~(was.long \/ was.sn = 0)
      <4>1. PICK o, t : /\ CombinesIn(was, o, t, old, new)
                        /\ Derived(was, o, t) => Goal
        BY <3>2, <3>4, Zenon
      <4>2. was.sn # 0
        BY <3>4, Zenon
      <4>. HIDE DEF was, now, old, new, Goal
      <4>3. PICK o2, t2, c :
              /\ CombinesIn(now, o2, t2, old, new)
              /\ Behind(PathOf(t, was.sn + 1, was.fn),
                        PathOf(t2, now.sn + 1, now.fn), 1, c)
              /\ Derived(now, o2, t2) <=> Derived(was, o, t) /\ proof[i] = c
        BY <3>1, <4>1, <4>2, CombineTurn
      <4>4. Derived(now, o2, t2) => Goal
        BY <4>1, <4>3
      <4>. QED  BY <4>3, <4>4, Zenon DEF now
    <3>. QED  BY <3>3, <3>4
  <2>. QED  BY <2>1, <2>2
<1>. HIDE DEF T
<1>4. \A i \in Nat : i \in T
  BY <1>3, Power!Induction
<1>5. Ok(Len(proof))
  BY <1>4 DEF T
<1>6. PICK o, t : /\ CombinesIn(end, o, t, old, new)
                  /\ Derived(end, o, t) => Goal
  <2>1. ~F[Len(proof)].long
    BY <1>2, Zenon
  <2>. QED  BY <1>2, <1>5, <2>1, Zenon
<1>7. end.fr = old /\ end.sr = new
  OBVIOUS
<1>. HIDE DEF old, new, Goal
<1>8. end.fn = 0 /\ HeadOf(o, 1) = old /\ HeadOf(t, 1) = new
  BY <1>6 DEF CombinesIn
<1>9. HeadOf(o, 1) = o[1] /\ HeadOf(t, 1) = t[1]
  BY HeadOne
<1>10. Derived(end, o, t)
  BY <1>7, <1>8, <1>9 DEF Derived, Agree
<1>11. Goal
  BY <1>6, <1>10
<1>. QED  BY <1>11 DEF Goal


(* From the right node, the rest of the proof being its path, the verifier *)
(* reaches the top with the heads of both logs (consistency.go 95-124).    *)
LEMMA CombineComplete ==
  ASSUME NEW first, NEW o0, NEW t0, NEW f0 \in Nat, NEW s0 \in Nat, f0 <= s0,
         NEW proof, NEW skip \in Nat, Len(proof) \in Nat,
         Rest(proof, skip, PathOf(t0, s0 + 1, f0)),
         first = o0[f0 + 1], first = t0[f0 + 1], Agree(o0, t0, f0),
         NEW end, end = Combine(first, f0, s0, proof, skip)[Len(proof)]
  PROVE  /\ ~end.long /\ end.sn = 0
         /\ end.fr = HeadOf(o0, f0 + 1) /\ end.sr = HeadOf(t0, s0 + 1)
         /\ skip <= Len(proof)
<1>. DEFINE F == Combine(first, f0, s0, proof, skip)
            old == HeadOf(o0, f0 + 1)
            new == HeadOf(t0, s0 + 1)
            On(at, i, o, t) == /\ ~at.long
                               /\ CombinesIn(at, o, t, old, new)
                               /\ Derived(at, o, t)
                               /\ Rest(proof, i, PathOf(t, at.sn + 1, at.fn))
            Ok(i) == skip <= i /\ i <= Len(proof) => \E o, t : On(F[i], i, o, t)
            T == {i \in Nat : Ok(i)}
<1>0. skip <= Len(proof)
  <2>1. Len(proof) = Len(PathOf(t0, s0 + 1, f0)) + skip
    BY DEF Rest
  <2>2. Len(PathOf(t0, s0 + 1, f0)) \in Nat
    BY TopOfPath
  <2>. QED  BY <2>1, <2>2
<1>1. /\ F[skip] = [fr |-> first, sr |-> first, fn |-> f0, sn |-> s0, long |-> FALSE]
      /\ \A i \in Nat : i > skip => F[i] = Combined(F[i - 1], proof[i])
  BY CombineUnfold
<1>2. end = F[Len(proof)]
  OBVIOUS
<1>. HIDE DEF F
<1>3. ASSUME NEW i \in Nat, \A d \in Nat : d < i => d \in T
      PROVE  i \in T
  <2>. SUFFICES ASSUME skip <= i, i <= Len(proof)
                PROVE  \E o, t : On(F[i], i, o, t)
    OBVIOUS
  <2>1. CASE i = skip
    <3>1. /\ F[i].fr = first /\ F[i].sr = first /\ F[i].fn = f0 /\ F[i].sn = s0
          /\ F[i].long = FALSE
      BY <2>1, <1>1
    <3>2. CombinesIn(F[i], o0, t0, old, new)
      BY <3>1 DEF CombinesIn
    <3>3. Derived(F[i], o0, t0)
      BY <3>1 DEF Derived
    <3>4. Rest(proof, i, PathOf(t0, F[i].sn + 1, F[i].fn))
      BY <3>1, <2>1
    <3>5. On(F[i], i, o0, t0)
      BY <3>1, <3>2, <3>3, <3>4, Zenon
    <3>. QED  BY <3>5
  <2>2. CASE i # skip
    <3>. DEFINE was == F[i - 1]
                now == F[i]
    <3>1. /\ now = Combined(was, proof[i])
          /\ i - 1 \in Nat /\ i - 1 < i /\ skip <= i - 1
          /\ i - 1 <= Len(proof) /\ i - 1 + 1 = i
      <4>1. /\ i > skip /\ i - 1 \in Nat /\ i - 1 < i /\ skip <= i - 1
            /\ i - 1 <= Len(proof) /\ i - 1 + 1 = i
        BY <2>2
      <4>. QED  BY <4>1, <1>1
    <3>2. PICK o, t : On(was, i - 1, o, t)
      BY <3>1, <1>3
    <3>. HIDE DEF was, now, old, new
    <3>3. /\ was.fn \in Nat /\ was.sn \in Nat /\ was.fn <= was.sn
          /\ Rest(proof, i - 1, PathOf(t, was.sn + 1, was.fn))
      BY <3>2 DEF CombinesIn
    <3>4. was.sn # 0
      <4>1. Len(proof) = Len(PathOf(t, was.sn + 1, was.fn)) + (i - 1)
        BY <3>3 DEF Rest
      <4>2. /\ Len(PathOf(t, was.sn + 1, was.fn)) \in Nat
            /\ Len(PathOf(t, was.sn + 1, was.fn)) = 0 <=> was.sn = 0
        BY <3>3, TopOfPath
      <4>. QED  BY <4>1, <4>2
    <3>5. PICK o2, t2, c :
            /\ CombinesIn(now, o2, t2, old, new)
            /\ Behind(PathOf(t, was.sn + 1, was.fn),
                      PathOf(t2, now.sn + 1, now.fn), 1, c)
            /\ Derived(now, o2, t2) <=> Derived(was, o, t) /\ proof[i] = c
      BY <3>1, <3>2, <3>4, CombineTurn
    <3>6. Len(PathOf(t2, now.sn + 1, now.fn)) \in Nat
      BY <3>5, TopOfPath DEF CombinesIn
    <3>7. proof[i - 1 + 1] = c
          /\ Rest(proof, i - 1 + 1, PathOf(t2, now.sn + 1, now.fn))
      BY <3>1, <3>3, <3>5, <3>6, RestNext
    <3>8. proof[i] = c /\ Rest(proof, i, PathOf(t2, now.sn + 1, now.fn))
      BY <3>1, <3>7
    <3>9. Derived(now, o2, t2)
      BY <3>2, <3>5, <3>8
    <3>10. ~now.long
      <4>1. now.long <=> (was.long \/ was.sn = 0)
        BY <3>1, CombinedFields
      <4>2. ~was.long
        BY <3>2, Zenon
      <4>. QED  BY <4>1, <4>2, <3>4, Zenon
    <3>11. On(now, i, o2, t2)
      BY <3>5, <3>8, <3>9, <3>10, Zenon
    <3>. QED  BY <3>11 DEF now
  <2>. QED  BY <2>1, <2>2
<1>. HIDE DEF T
<1>4. \A i \in Nat : i \in T
  BY <1>3, Power!Induction
<1>5. PICK o, t : On(end, Len(proof), o, t)
  <2>1. Len(proof) \in T /\ Len(proof) <= Len(proof)
    BY <1>4
  <2>. HIDE DEF On, F
  <2>. QED  BY <2>1, <1>0, <1>2 DEF T
<1>. HIDE DEF old, new
<1>6. /\ end.fn \in Nat /\ end.sn \in Nat /\ end.fn <= end.sn
      /\ HeadOf(o, end.fn + 1) = old /\ HeadOf(t, end.sn + 1) = new
      /\ end.fr = o[end.fn + 1] /\ end.sr = t[end.fn + 1]
      /\ Rest(proof, Len(proof), PathOf(t, end.sn + 1, end.fn))
  BY <1>5 DEF CombinesIn, Derived
<1>7. end.sn = 0
  <2>1. Len(proof) = Len(PathOf(t, end.sn + 1, end.fn)) + Len(proof)
    BY <1>6 DEF Rest
  <2>2. /\ Len(PathOf(t, end.sn + 1, end.fn)) \in Nat
        /\ Len(PathOf(t, end.sn + 1, end.fn)) = 0 <=> end.sn = 0
    BY <1>6, TopOfPath
  <2>. QED  BY <2>1, <2>2
<1>8. end.fr = old /\ end.sr = new
  <2>1. end.fn = 0 /\ HeadOf(o, 1) = old /\ HeadOf(t, 1) = new
    BY <1>6, <1>7
  <2>2. HeadOf(o, 1) = o[1] /\ HeadOf(t, 1) = t[1]
    BY HeadOne
  <2>. QED  BY <1>6, <2>1, <2>2
<1>9. ~end.long
  BY <1>5, Zenon
<1>. QED  BY <1>0, <1>7, <1>8, <1>9 DEF old, new

-----------------------------------------------------------------------------
(* Heads of one size are only consistent if equal (consistency.go 55-63).  *)
LEMMA EqualSizes ==
  ASSUME NEW r, NEW q, NEW n \in Nat, NEW proof,
         VerifyConsistency(r, q, n, n, proof)
  PROVE  r = q
<1>1. ~(n > n)
  OBVIOUS
<1>2. VerifyConsistency(r, q, n, n, proof) => r = q
  BY <1>1, Zenon DEF VerifyConsistency
<1>. QED  BY <1>2

(* No proof shows the head of one log as the head of the first leaves of   *)
(* another that does not start with it (consistency.go 51-125).            *)
LEMMA ConsistencyProofSound ==
  ASSUME NEW o, NEW t, NEW old \in Nat, NEW new \in Nat, 0 < old, old <= new,
         NEW proof, Len(proof) \in Nat,
         VerifyConsistency(HeadOf(o, old), HeadOf(t, new), old, new, proof)
  PROVE  Agree(o, t, old)
<1>1. CASE old = new
  <2>1. HeadOf(o, old) = HeadOf(t, old)
    BY <1>1, EqualSizes
  <2>. QED  BY <2>1, HeadAgree
<1>2. CASE old < new
  <2>. DEFINE f == old - 1
              s == new - 1
  <2>1. f \in Nat /\ s \in Nat /\ f < s /\ f + 1 = old /\ s + 1 = new
    BY <1>2
  <2>2. PICK o1, t1, f1, s1 : Started(o, t, f, s, o1, t1, f1, s1)
    BY <2>1, Start
  <2>3. /\ f1 \in Nat /\ s1 \in Nat /\ f1 <= s1
        /\ ShiftToEven[old - 1][new - 1] = <<f1, s1>>
        /\ HeadOf(o1, f1 + 1) = HeadOf(o, old)
        /\ HeadOf(t1, s1 + 1) = HeadOf(t, new)
        /\ Agree(o1, t1, f1 + 1) <=> Agree(o, t, old)
    BY <2>1, <2>2 DEF Started
  <2>. HIDE DEF f, s
  <2>4. PICK first, skip, end :
          /\ skip \in Nat /\ skip <= Len(proof)
          /\ end = Combine(first, f1, s1, proof, skip)[Len(proof)]
          /\ ~end.long /\ end.sn = 0
          /\ end.fr = HeadOf(o, old) /\ end.sr = HeadOf(t, new)
    <3>. DEFINE at == ShiftToEven[old - 1][new - 1]
                skip == IF isPowerOfTwo(old) THEN 0 ELSE 1
                first == IF isPowerOfTwo(old) THEN HeadOf(o, old) ELSE proof[1]
                end == Combine(first, at[1], at[2], proof, skip)[Len(proof)]
    <3>1. /\ Len(proof) >= skip
          /\ ~end.long /\ end.sn = 0
          /\ Agrees(end.fr, end.sr, HeadOf(o, old), HeadOf(t, new))
      <4>1. ~(old > new) /\ ~(old = new) /\ ~(old < new /\ old = 0)
        BY <1>2
      <4>. QED  BY <4>1, Zenon DEF VerifyConsistency
    <3>2. at[1] = f1 /\ at[2] = s1
      BY <2>3
    <3>3. skip \in Nat
      OBVIOUS
    <3>. HIDE DEF at, skip, first
    <3>4. /\ end.fr = HeadOf(o, old) /\ end.sr = HeadOf(t, new)
          /\ end = Combine(first, f1, s1, proof, skip)[Len(proof)]
      BY <3>1, <3>2 DEF Agrees
    <3>5. skip <= Len(proof)
      BY <3>1, <3>3
    <3>. HIDE DEF end
    <3>. QED  BY <3>1, <3>3, <3>4, <3>5, Zenon
  <2>5. first = o1[f1 + 1] /\ first = t1[f1 + 1] /\ Agree(o1, t1, f1)
    BY <2>3, <2>4, CombineSound
  <2>6. Agree(o1, t1, f1 + 1)
    <3>1. \A i \in 1..(f1 + 1) : i \in 1..f1 \/ i = f1 + 1
      BY <2>3
    <3>. QED  BY <3>1, <2>5 DEF Agree
  <2>. QED  BY <2>3, <2>6
<1>. QED  BY <1>1, <1>2


(* What an honest proof makes the verifier derive: with the old head it is *)
(* given if the old log is a power of two, and by itself otherwise         *)
(* (consistency.go 28-46 against 73-124).                                  *)
LEMMA HonestRun ==
  ASSUME NEW t, NEW old \in Nat, NEW new \in Nat, 0 < old, old < new,
         NEW proof, proof = ProofOf(t, new, old),
         NEW oldRoot, isPowerOfTwo(old) => oldRoot = HeadOf(t, old),
         NEW newRoot
  PROVE  VerifyConsistency(oldRoot, newRoot, old, new, proof)
           <=> oldRoot = HeadOf(t, old) /\ newRoot = HeadOf(t, new)
<1>. DEFINE f == old - 1
            s == new - 1
<1>1. f \in Nat /\ s \in Nat /\ f < s /\ f + 1 = old /\ s + 1 = new
  OBVIOUS
<1>2. PICK o1, t1, f1, s1 : Started(t, t, f, s, o1, t1, f1, s1)
  BY <1>1, Start
<1>3. /\ f1 \in Nat /\ s1 \in Nat /\ f1 < s1 /\ ~Odd(f1)
      /\ ShiftToEven[old - 1][new - 1] = <<f1, s1>>
      /\ HeadOf(o1, f1 + 1) = HeadOf(t, old)
      /\ HeadOf(t1, s1 + 1) = HeadOf(t, new)
      /\ Agree(o1, t1, f1 + 1)
      /\ proof = ProofOf(t1, s1 + 1, f1 + 1)
      /\ isPowerOfTwo(old) <=> f1 = 0
  <2>1. Agree(t, t, f + 1)
    BY DEF Agree
  <2>. QED  BY <1>1, <1>2, <2>1 DEF Started
<1>. HIDE DEF f, s
<1>4. o1[f1 + 1] = t1[f1 + 1] /\ Agree(o1, t1, f1)
  <2>1. f1 + 1 \in 1..(f1 + 1) /\ \A i \in 1..f1 : i \in 1..(f1 + 1)
    BY <1>3
  <2>. QED  BY <2>1, <1>3 DEF Agree
<1>. DEFINE skip == IF isPowerOfTwo(old) THEN 0 ELSE 1
            first == IF isPowerOfTwo(old) THEN oldRoot ELSE proof[1]
<1>5. Behind(proof, PathOf(t1, s1 + 1, f1), skip, t1[f1 + 1])
  <2>1. s1 + 1 \in Nat /\ f1 + 1 < s1 + 1
    BY <1>3
  <2>2. Behind(ProofOf(t1, s1 + 1, f1 + 1), PathOf(t1, s1 + 1, f1),
               IF f1 = 0 THEN 0 ELSE 1, t1[f1 + 1])
    BY <1>3, <2>1, ProofOfOdd
  <2>3. skip = IF f1 = 0 THEN 0 ELSE 1
    BY <1>3
  <2>. QED  BY <1>3, <2>2, <2>3
<1>6. skip \in Nat
  OBVIOUS
<1>7. first = t1[f1 + 1]
  <2>1. CASE isPowerOfTwo(old)
    <3>0. f1 = 0 /\ 0 + 1 = 1
      BY <2>1, <1>3
    <3>1. f1 = 0 /\ first = HeadOf(t, old) /\ HeadOf(o1, 1) = HeadOf(t, old)
      BY <2>1, <1>3, <3>0, Zenon
    <3>2. HeadOf(o1, 1) = o1[1]
      BY HeadOne
    <3>3. o1[f1 + 1] = first
      BY <3>0, <3>1, <3>2, Zenon
    <3>. QED  BY <3>3, <1>4
  <2>2. CASE ~isPowerOfTwo(old)
    <3>1. skip = 1 /\ first = proof[1]
      BY <2>2
    <3>. HIDE DEF skip, first
    <3>. QED  BY <3>1, <1>5 DEF Behind
  <2>. QED  BY <2>1, <2>2
<1>8. Rest(proof, skip, PathOf(t1, s1 + 1, f1)) /\ Len(proof) \in Nat
  <2>1. Len(PathOf(t1, s1 + 1, f1)) \in Nat
    BY <1>3, TopOfPath
  <2>. HIDE DEF skip
  <2>2. /\ IsList(PathOf(t1, s1 + 1, f1))
        /\ Len(proof) = Len(PathOf(t1, s1 + 1, f1)) + skip
        /\ \A j \in 1..Len(PathOf(t1, s1 + 1, f1)) :
             proof[j + skip] = PathOf(t1, s1 + 1, f1)[j]
    BY <1>5 DEF Behind
  <2>3. \A j \in 1..Len(PathOf(t1, s1 + 1, f1)) : skip + j = j + skip
    BY <1>6, <2>1
  <2>4. /\ Len(proof) \in Nat
        /\ \A j \in 1..Len(PathOf(t1, s1 + 1, f1)) :
             proof[skip + j] = PathOf(t1, s1 + 1, f1)[j]
    BY <1>6, <2>1, <2>2, <2>3
  <2>. QED  BY <2>2, <2>4 DEF Rest
<1>. DEFINE end == Combine(first, f1, s1, proof, skip)[Len(proof)]
<1>9. /\ ~end.long /\ end.sn = 0 /\ skip <= Len(proof)
      /\ end.fr = HeadOf(t, old) /\ end.sr = HeadOf(t, new)
  <2>1. first = o1[f1 + 1] /\ f1 <= s1
    BY <1>3, <1>4, <1>7
  <2>. HIDE DEF skip, first
  <2>2. /\ ~end.long /\ end.sn = 0 /\ skip <= Len(proof)
        /\ end.fr = HeadOf(o1, f1 + 1) /\ end.sr = HeadOf(t1, s1 + 1)
    BY <1>3, <1>4, <1>6, <1>7, <1>8, <2>1, CombineComplete
  <2>. QED  BY <1>3, <2>2
<1>10. VerifyConsistency(oldRoot, newRoot, old, new, proof)
         <=> /\ Len(proof) >= skip
             /\ ~end.long /\ end.sn = 0
             /\ Agrees(end.fr, end.sr, oldRoot, newRoot)
  <2>. DEFINE at == ShiftToEven[old - 1][new - 1]
              last == Combine(first, at[1], at[2], proof, skip)[Len(proof)]
  <2>1. ~(old > new) /\ ~(old = new) /\ ~(old < new /\ old = 0)
    OBVIOUS
  <2>2. VerifyConsistency(oldRoot, newRoot, old, new, proof)
          <=> /\ Len(proof) >= skip
              /\ ~last.long /\ last.sn = 0
              /\ Agrees(last.fr, last.sr, oldRoot, newRoot)
    BY <2>1, Zenon DEF VerifyConsistency
  <2>3. at[1] = f1 /\ at[2] = s1
    BY <1>3
  <2>. HIDE DEF at, skip, first
  <2>4. last = end
    BY <2>3
  <2>. HIDE DEF last, end
  <2>. QED  BY <2>2, <2>4, Zenon
<1>. HIDE DEF skip, end
<1>11. Len(proof) >= skip
  BY <1>6, <1>8, <1>9
<1>. QED  BY <1>9, <1>10, <1>11, Zenon DEF Agrees

(* The proof subproof builds is accepted for the heads of the two logs     *)
(* (consistency.go 28-46 against 51-125).                                  *)
LEMMA ConsistencyProofComplete ==
  ASSUME NEW t, NEW old \in Nat, NEW new \in Nat, 0 < old, old < new
  PROVE  VerifyConsistency(HeadOf(t, old), HeadOf(t, new), old, new,
                           ProofOf(t, new, old))
BY HonestRun


-----------------------------------------------------------------------------
(* Doubling from 1 the loop meets every power of two and stops at the      *)
(* largest below n (tree.go 148-157).                                      *)
LEMMA LargestPower ==
  \A n \in Nat : n > 1 =>
    /\ isPowerOfTwo(largestPowerOfTwoLessThan[n])
    /\ \A b \in Nat : b > 0 /\ isPowerOfTwo(b) /\ b < n
         => b <= largestPowerOfTwoLessThan[n]
<1>. DEFINE f == largestPowerOfTwoLessThan
            T == {n \in Nat : n > 1 =>
                    /\ isPowerOfTwo(f[n])
                    /\ \A b \in Nat : b > 0 /\ isPowerOfTwo(b) /\ b < n => b <= f[n]}
<1>1. ASSUME NEW n \in Nat, \A d \in Nat : d < n => d \in T
      PROVE  n \in T
  <2>. SUFFICES ASSUME n > 1
                PROVE  /\ isPowerOfTwo(f[n])
                       /\ \A b \in Nat : b > 0 /\ isPowerOfTwo(b) /\ b < n => b <= f[n]
    OBVIOUS
  <2>1. f[n] \in Nat /\ f[n] > 0 /\ (n > 2 => f[n] = 2 * f[Half(n)])
    BY PowerBounds
  <2>2. CASE n = 2
    <3>1. f[n] = 1
      BY <2>2, PowerUnfold
    <3>. QED  BY <2>2, <3>1 DEF isPowerOfTwo
  <2>3. CASE n > 2
    <3>1. Half(n) \in Nat /\ Half(n) < n /\ Half(n) > 1 /\ n <= 2 * Half(n)
      BY <2>3 DEF Half
    <3>2. /\ isPowerOfTwo(f[Half(n)])
          /\ \A b \in Nat : b > 0 /\ isPowerOfTwo(b) /\ b < Half(n) => b <= f[Half(n)]
      BY <3>1, <1>1
    <3>3. f[Half(n)] \in Nat /\ f[Half(n)] > 0
      BY <3>1, PowerBounds
    <3>4. PICK m \in Nat : m = f[Half(n)]
      BY <3>3
    <3>5. f[n] = 2 * m /\ m > 0 /\ isPowerOfTwo(m)
      BY <2>1, <2>3, <3>2, <3>3, <3>4
    <3>6. isPowerOfTwo(2 * m)
      <4>1. 2 * m \in Nat /\ 2 * m > 0 /\ ~Odd(2 * m) /\ (2 * m) \div 2 = m
        BY <3>5 DEF Odd
      <4>2. isPowerOfTwo(2 * m) <=> isPowerOfTwo((2 * m) \div 2)
        BY <4>1, PowerOfTwoHalf
      <4>. QED  BY <4>1, <4>2, <3>5
    <3>7. ASSUME NEW b \in Nat, b > 0, isPowerOfTwo(b), b < n
          PROVE  b <= 2 * m
      <4>1. CASE Odd(b)
        <5>1. b = 1
          BY <4>1, <3>7, PowerOfTwoHalf
        <5>. QED  BY <5>1, <3>5
      <4>2. CASE ~Odd(b)
        <5>1. /\ b \div 2 \in Nat /\ b \div 2 > 0 /\ b \div 2 < Half(n)
              /\ b = 2 * (b \div 2)
          BY <4>2, <3>7, <3>1 DEF Odd
        <5>2. isPowerOfTwo(b \div 2)
          BY <4>2, <3>7, PowerOfTwoHalf
        <5>3. b \div 2 <= m
          BY <5>1, <5>2, <3>2, <3>4
        <5>. QED  BY <5>1, <5>3
      <4>. QED  BY <4>1, <4>2
    <3>8. isPowerOfTwo(f[n])
      BY <3>5, <3>6
    <3>. HIDE DEF f
    <3>. QED  BY <3>5, <3>7, <3>8
  <2>4. n = 2 \/ n > 2
    OBVIOUS
  <2>. QED  BY <2>2, <2>3, <2>4
<1>. HIDE DEF T
<1>2. \A n \in Nat : n \in T
  BY <1>1, Power!Induction
<1>. QED  BY <1>2 DEF T, f

(* The left child of a head is the head of the largest power of two of     *)
(* leaves (mth, tree.go 131-144).                                          *)
LEMMA LeftChild ==
  ASSUME NEW t, NEW n \in Nat, n > 1, NEW a, NEW b,
         HeadOf(t, n) = HashChildren(a, b)
  PROVE  a = HeadOf(t, largestPowerOfTwoLessThan[n])
<1>. DEFINE k == largestPowerOfTwoLessThan[n]
<1>1. Heads(t)[n][0] = HashChildren(Heads(t)[k][0], Heads(t)[n - k][0 + k])
  BY HeadSplit
<1>. HIDE DEF k
<1>2. a = Heads(t)[k][0]
  BY <1>1, HashInjective DEF HeadOf
<1>. QED  BY <1>2 DEF HeadOf, k

(* The sizes a head on the left edge may have once b leaves are below it:  *)
(* the whole log's, or a power of two from b on.                           *)
OnEdge(z, b, n) ==
  z \in Nat /\ b <= z /\ z <= n /\ (z = n \/ isPowerOfTwo(z))

(* A step down the left edge of the log.                                   *)
LEMMA EdgeDown ==
  ASSUME NEW t, NEW n \in Nat, NEW b \in Nat, b > 0, b < n, isPowerOfTwo(b),
         NEW z, OnEdge(z, 2 * b, n) \/ z = n,
         NEW x, NEW y, HeadOf(t, z) = HashChildren(x, y)
  PROVE  \E w : OnEdge(w, b, n) /\ x = HeadOf(t, w)
<1>1. z \in Nat /\ z <= n /\ z > 1 /\ (z = n \/ (2 * b <= z /\ isPowerOfTwo(z)))
  BY DEF OnEdge
<1>2. PICK w \in Nat : w = largestPowerOfTwoLessThan[z]
  BY <1>1, PowerBounds
<1>3. x = HeadOf(t, w)
  BY <1>1, <1>2, LeftChild
<1>4. w < z /\ isPowerOfTwo(w)
  BY <1>1, <1>2, PowerBounds, LargestPower
<1>5. b <= w
  <2>1. CASE z = n
    BY <2>1, <1>1, <1>2, LargestPower
  <2>2. CASE 2 * b <= z /\ isPowerOfTwo(z)
    <3>1. z = 2 * w
      BY <2>2, <1>1, <1>2 DEF isPowerOfTwo
    <3>. QED  BY <2>2, <3>1
  <2>. QED  BY <1>1, <2>1, <2>2
<1>. QED  BY <1>1, <1>3, <1>4, <1>5 DEF OnEdge


(* The verifier climbs the left edge of the new log of n leaves, b of them *)
(* below it, and no head of that edge is derived unless the claimed head   *)
(* is one from old on.                                                     *)
EdgeClimb(at, t, n, b, Goal) ==
  /\ at.fn = 0 /\ at.sn \in Nat
  /\ b \in Nat /\ b > 0 /\ isPowerOfTwo(b) /\ at.sn * b < n
  /\ \A z : (OnEdge(z, b, n) \/ z = n) /\ at.sr = HeadOf(t, z) => Goal

(* A turn on the left edge (consistency.go 108-110).                       *)
LEMMA EdgeTurn ==
  ASSUME NEW was, NEW x, NEW now, now = Combined(was, x), was.sn # 0,
         NEW t, NEW n \in Nat, NEW b, NEW Goal,
         EdgeClimb(was, t, n, b, Goal)
  PROVE  EdgeClimb(now, t, n, 2 * b, Goal)
<1>1. /\ was.fn = 0 /\ was.sn \in Nat
      /\ b \in Nat /\ b > 0 /\ isPowerOfTwo(b) /\ was.sn * b < n
      /\ \A z : (OnEdge(z, b, n) \/ z = n) /\ was.sr = HeadOf(t, z) => Goal
  BY DEF EdgeClimb
<1>2. PICK s \in Nat : s = was.sn
  BY <1>1
<1>3. PICK h \in Nat : h = s \div 2
  BY <1>2
<1>4. s > 0 /\ 2 * h <= s
  BY <1>1, <1>2, <1>3
<1>5. b < n /\ h * (2 * b) < n
  <2>1. s * b < n /\ b <= s * b
    BY <1>1, <1>2, <1>4
  <2>2. (2 * h) * b <= s * b /\ h * (2 * b) = (2 * h) * b
    BY <1>1, <1>4
  <2>3. s * b \in Nat /\ (2 * h) * b \in Nat
    BY <1>1
  <2>. QED  BY <1>1, <2>1, <2>2, <2>3
<1>6. /\ ~FromLeft(was.fn, was.sn)
      /\ Up(was.fn, was.sn) = <<0, h>>
  <2>1. ~FromLeft(0, s) /\ Up(0, s) = <<0, h>>
    BY <1>3, <1>4 DEF FromLeft, Up, Odd
  <2>. QED  BY <2>1, <1>1, <1>2
<1>7. now.fn = 0 /\ now.sn = h /\ now.sr = HashChildren(was.sr, x)
  BY <1>6, CombinedFields
<1>8. 2 * b \in Nat /\ 2 * b > 0 /\ isPowerOfTwo(2 * b)
  <2>1. 2 * b \in Nat /\ 2 * b > 0 /\ ~Odd(2 * b) /\ (2 * b) \div 2 = b
    BY <1>1 DEF Odd
  <2>2. isPowerOfTwo(2 * b) <=> isPowerOfTwo((2 * b) \div 2)
    BY <2>1, PowerOfTwoHalf
  <2>. QED  BY <2>1, <2>2, <1>1
<1>9. ASSUME NEW z, OnEdge(z, 2 * b, n) \/ z = n, now.sr = HeadOf(t, z)
      PROVE  Goal
  <2>1. HeadOf(t, z) = HashChildren(was.sr, x)
    BY <1>7, <1>9
  <2>2. PICK w : OnEdge(w, b, n) /\ was.sr = HeadOf(t, w)
    BY <1>1, <1>5, <1>9, <2>1, EdgeDown
  <2>. QED  BY <2>2, <1>1
<1>. QED  BY <1>5, <1>7, <1>8, <1>9 DEF EdgeClimb

(* Against the head of a longer log the head of a power of two of leaves   *)
(* is accepted only if it is one the log had since (consistency.go 51-125, *)
(* verifier.go 29-30).                                                     *)
LEMMA PowerOfTwoAccepted ==
  ASSUME NEW t, NEW h, NEW old \in Nat, NEW new \in Nat, NEW n \in Nat,
         0 < old, old < new, new <= n, isPowerOfTwo(old),
         NEW proof, Len(proof) \in Nat,
         VerifyConsistency(h, HeadOf(t, n), old, new, proof)
  PROVE  \E size \in old..n : HeadOf(t, size) = h
<1>. DEFINE f == old - 1
            s == new - 1
            Goal == \E size \in old..n : HeadOf(t, size) = h
<1>1. f \in Nat /\ s \in Nat /\ f < s /\ f + 1 = old /\ s + 1 = new
  OBVIOUS
<1>2. PICK o1, t1, f1, s1 : Started(t, t, f, s, o1, t1, f1, s1)
  BY <1>1, Start
<1>3. /\ f1 = 0 /\ s1 \in Nat
      /\ ShiftToEven[old - 1][new - 1] = <<0, s1>>
      /\ s1 * old < n
  <2>1. /\ f1 = 0 /\ s1 \in Nat
        /\ ShiftToEven[old - 1][new - 1] = <<0, s1>>
        /\ s1 * old <= s
    BY <1>1, <1>2 DEF Started
  <2>2. s1 * old \in Nat
    BY <2>1
  <2>. QED  BY <2>1, <2>2
<1>. HIDE DEF f, s
<1>. DEFINE F == Combine(h, 0, s1, proof, 0)
            end == F[Len(proof)]
            Ok(i) == F[i].long \/ \E b : EdgeClimb(F[i], t, n, b, Goal)
            T == {i \in Nat : Ok(i)}
<1>4. ~end.long /\ end.sr = HeadOf(t, n)
  <2>. DEFINE at == ShiftToEven[old - 1][new - 1]
              last == Combine(h, at[1], at[2], proof, 0)[Len(proof)]
  <2>1. ~(old > new) /\ ~(old = new) /\ ~(old < new /\ old = 0)
    OBVIOUS
  <2>2. ~last.long /\ Agrees(last.fr, last.sr, h, HeadOf(t, n))
    BY <2>1, Zenon DEF VerifyConsistency
  <2>3. at[1] = 0 /\ at[2] = s1
    BY <1>3
  <2>. HIDE DEF at
  <2>4. last = end
    BY <2>3
  <2>. HIDE DEF last, end
  <2>. QED  BY <2>2, <2>4, Zenon DEF Agrees
<1>5. /\ F[0] = [fr |-> h, sr |-> h, fn |-> 0, sn |-> s1, long |-> FALSE]
      /\ \A i \in Nat : i > 0 => F[i] = Combined(F[i - 1], proof[i])
  BY CombineUnfold
<1>. HIDE DEF F
<1>6. ASSUME NEW i \in Nat, \A d \in Nat : d < i => d \in T
      PROVE  i \in T
  <2>1. CASE i = 0
    <3>1. F[0].sr = h /\ F[0].fn = 0 /\ F[0].sn = s1
      BY <1>5
    <3>2. ASSUME NEW z, OnEdge(z, old, n) \/ z = n, F[0].sr = HeadOf(t, z)
          PROVE  Goal
      <4>1. z \in old..n
        BY <3>2 DEF OnEdge
      <4>. QED  BY <3>1, <3>2, <4>1
    <3>3. EdgeClimb(F[0], t, n, old, Goal)
      <4>. HIDE DEF Goal
      <4>. QED  BY <1>3, <3>1, <3>2 DEF EdgeClimb
    <3>4. Ok(0)
      BY <3>3
    <3>. QED  BY <2>1, <3>4
  <2>2. CASE i # 0
    <3>. DEFINE was == F[i - 1]
                now == F[i]
    <3>1. now = Combined(was, proof[i]) /\ i - 1 \in Nat /\ i - 1 < i
      BY <2>2, <1>5
    <3>2. was.long \/ \E b : EdgeClimb(was, t, n, b, Goal)
      BY <3>1, <1>6
    <3>3. CASE was.long \/ was.sn = 0
      <4>1. now.long
        BY <3>1, <3>3, CombinedLong
      <4>. QED  BY <4>1
    <3>4. CASE ~(was.long \/ was.sn = 0)
      <4>. HIDE DEF Goal
      <4>1. PICK b : EdgeClimb(was, t, n, b, Goal)
        BY <3>2, <3>4, Zenon
      <4>2. was.sn # 0
        BY <3>4, Zenon
      <4>. HIDE DEF was, now
      <4>3. EdgeClimb(now, t, n, 2 * b, Goal)
        BY <3>1, <4>1, <4>2, EdgeTurn
      <4>. QED  BY <4>3, Zenon DEF now
    <3>. QED  BY <3>3, <3>4
  <2>. QED  BY <2>1, <2>2
<1>. HIDE DEF T
<1>7. \A i \in Nat : i \in T
  BY <1>6, Power!Induction
<1>8. end.long \/ \E b : EdgeClimb(end, t, n, b, Goal)
  BY <1>7 DEF T
<1>. HIDE DEF end, Goal
<1>9. PICK b : EdgeClimb(end, t, n, b, Goal)
  BY <1>4, <1>8, Zenon
<1>10. Goal
  BY <1>4, <1>9 DEF EdgeClimb
<1>. QED  BY <1>10 DEF Goal


-----------------------------------------------------------------------------
(* The head of the first n leaves of a log is that of any leaves that      *)
(* start with them (Tree.RootAt, tree.go 108-115).                         *)
LEMMA RootHead ==
  ASSUME NEW S, NEW s \in Seq(S), NEW n \in Nat, 0 < n, n <= Len(s),
         NEW t, \A i \in 1..n : t[i] = s[i]
  PROVE  /\ mth(SubSeq(s, 1, n)) = HeadOf(t, n)
         /\ mth(SubSeq(s, 1, n)) = HeadOf(SubSeq(s, 1, n), n)
<1>. DEFINE p == SubSeq(s, 1, n)
<1>1. Len(p) = n /\ (\A i \in 1..n : p[i] = s[i]) /\ p # <<>>
  OBVIOUS
<1>. HIDE DEF p
<1>2. mth(p) = Heads(p)[n][0]
  BY <1>1 DEF mth
<1>3. HeadOf(p, n) = HeadOf(t, n)
  BY <1>1, HeadAgree DEF Agree
<1>. QED  BY <1>2, <1>3 DEF HeadOf, p

(* A log of old leaves has the head of its own leaves.                     *)
LEMMA LogHead ==
  ASSUME NEW old \in Nat, 0 < old, NEW log, log \in Logs(old)
  PROVE  mth(log) = HeadOf(log, old)
<1>1. log \in Seq({HashLeaf(d) : d \in Data}) /\ Len(log) = old
  <2>1. log \in [1..old -> {HashLeaf(d) : d \in Data}]
    BY DEF Logs
  <2>. QED  BY <2>1
<1>2. log # <<>>
  BY <1>1
<1>. QED  BY <1>1, <1>2 DEF mth, HeadOf

(* Proofs within a longer log are lists (consistency.go 28-46).            *)
LEMMA SubList ==
  ASSUME NEW t, NEW old \in Nat, NEW new \in Nat, 0 < old, old < new
  PROVE  IsList(ProofOf(t, new, old))
<1>. DEFINE f == old - 1
            s == new - 1
<1>1. f \in Nat /\ s \in Nat /\ f < s /\ f + 1 = old /\ s + 1 = new
  OBVIOUS
<1>2. PICK o1, t1, f1, s1 : Started(t, t, f, s, o1, t1, f1, s1)
  BY <1>1, Start
<1>3. /\ f1 \in Nat /\ s1 \in Nat /\ f1 < s1 /\ ~Odd(f1)
      /\ ProofOf(t, new, old) = ProofOf(t1, s1 + 1, f1 + 1)
  BY <1>1, <1>2 DEF Started
<1>4. s1 + 1 \in Nat /\ f1 + 1 < s1 + 1
  BY <1>3
<1>5. Behind(ProofOf(t1, s1 + 1, f1 + 1), PathOf(t1, s1 + 1, f1),
             IF f1 = 0 THEN 0 ELSE 1, t1[f1 + 1])
  BY <1>3, <1>4, ProofOfOdd
<1>. QED  BY <1>3, <1>5 DEF Behind

(* A list cut short is a list.                                             *)
LEMMA CutList ==
  ASSUME NEW p, IsList(p)
  PROVE  /\ Len(p) \in Nat
         /\ p # <<>> => IsList(SubSeq(p, 1, Len(p) - 1))
<1>1. PICK S : p \in Seq(S)
  BY DEF IsList
<1>2. Len(p) \in Nat
  BY <1>1
<1>3. ASSUME p # <<>>
      PROVE  SubSeq(p, 1, Len(p) - 1) \in Seq(S)
  BY <1>1, <1>3
<1>. QED  BY <1>2, <1>3 DEF IsList

(* Every proof a client may present is a list.                             *)
LEMMA CandidateList ==
  ASSUME Size \in Nat, NEW proof \in Candidates
  PROVE  Len(proof) \in Nat
<1>. DEFINE honest == UNION {{ProofAt(i, n) : i \in 0..(n - 1)} \cup
                             {ProofForRange(i, n) : i \in 0..(n - 1)} : n \in 1..Size}
<1>1. ASSUME NEW q \in honest
      PROVE  IsList(q)
  <2>1. PICK n \in 1..Size : q \in {ProofAt(i, n) : i \in 0..(n - 1)} \cup
                                   {ProofForRange(i, n) : i \in 0..(n - 1)}
    BY <1>1, Zenon
  <2>2. PICK i \in 0..(n - 1) : q = ProofAt(i, n) \/ q = ProofForRange(i, n)
    BY <2>1
  <2>3. n \in Nat /\ n > 0 /\ i \in Nat /\ i < n
    BY <2>1, <2>2
  <2>4. CASE q = ProofAt(i, n)
    BY <2>3, <2>4, PathList DEF ProofAt
  <2>5. CASE q = ProofForRange(i, n)
    <3>1. CASE i = 0
      <4>1. q = <<>>
        BY <2>5, <3>1 DEF ProofForRange
      <4>2. <<>> \in Seq({})
        OBVIOUS
      <4>. QED  BY <4>1, <4>2 DEF IsList
    <3>2. CASE i # 0
      <4>1. 0 < i /\ i # n
        BY <2>3, <3>2
      <4>2. q = ProofOf(SubSeq(leaves, 1, n), n, i)
        BY <2>5, <3>2, <4>1, RangeProof
      <4>. QED  BY <2>3, <4>1, <4>2, SubList
    <3>. QED  BY <3>1, <3>2
  <2>. QED  BY <2>2, <2>4, <2>5
<1>2. Candidates = honest \cup {SubSeq(p, 1, Len(p) - 1) : p \in honest \ {<<>>}}
  BY Zenon DEF Candidates
<1>. HIDE DEF honest
<1>3. CASE proof \in honest
  BY <1>1, <1>3, CutList
<1>4. CASE proof \in {SubSeq(p, 1, Len(p) - 1) : p \in honest \ {<<>>}}
  <2>1. PICK p \in honest : p # <<>> /\ proof = SubSeq(p, 1, Len(p) - 1)
    BY <1>4
  <2>2. IsList(p)
    BY <1>1, <2>1
  <2>3. IsList(proof)
    BY <2>1, <2>2, CutList
  <2>. QED  BY <2>3, CutList
<1>. QED  BY <1>2, <1>3, <1>4


-----------------------------------------------------------------------------
(* What Tree.leaves holds.                                                 *)
LeafHashes == {HashLeaf(d) : d \in Data}

(* Every leaf's inclusion proof is accepted, at every size (inclusion.go   *)
(* 11-39 against 71-113).                                                  *)
LEMMA InclusionIsComplete ==
  ASSUME leaves \in Seq(LeafHashes)
  PROVE  InclusionComplete
<1>. SUFFICES ASSUME NEW size \in 1..Size, NEW idx \in 0..(size - 1)
              PROVE  VerifyInclusionHash(leaves[idx + 1], idx, size,
                                         ProofAt(idx, size), RootAt(size))
  BY DEF InclusionComplete
<1>. DEFINE p == SubSeq(leaves, 1, size)
<1>1. /\ Size \in Nat /\ size \in Nat /\ 0 < size /\ size <= Len(leaves)
      /\ idx \in Nat /\ idx < size
  BY DEF Size
<1>2. p[idx + 1] = leaves[idx + 1] /\ \A i \in 1..size : leaves[i] = leaves[i]
  BY <1>1
<1>3. RootAt(size) = HeadOf(p, size)
  BY <1>1, <1>2, RootHead DEF RootAt
<1>4. ProofAt(idx, size) = PathOf(p, size, idx)
  BY DEF ProofAt, PathOf
<1>. HIDE DEF p
<1>5. VerifyInclusionHash(p[idx + 1], idx, size, PathOf(p, size, idx), HeadOf(p, size))
  BY <1>1, InclusionProofComplete
<1>. QED  BY <1>2, <1>3, <1>4, <1>5

(* What a proof must never do: make a verifier accept a leaf where the     *)
(* tree has another, or the head of another log as an earlier head.        *)
Misleads(proof) ==
  \/ \E idx \in 0..(Size - 1), d \in Data :
       /\ VerifyInclusionHash(HashLeaf(d), idx, Size, proof, RootAt(Size))
       /\ leaves[idx + 1] # HashLeaf(d)
  \/ \E old \in 1..Size : \E log \in Logs(old) :
       /\ VerifyConsistency(mth(log), RootAt(Size), old, Size, proof)
       /\ log # SubSeq(leaves, 1, old)

(* No proof shows another leaf in the place of one of the tree             *)
(* (inclusion.go 71-113).                                                  *)
LEMMA InclusionIsSound ==
  ASSUME leaves \in Seq(LeafHashes), NEW proof, Len(proof) \in Nat,
         NEW idx \in 0..(Size - 1), NEW d \in Data,
         VerifyInclusionHash(HashLeaf(d), idx, Size, proof, RootAt(Size))
  PROVE  leaves[idx + 1] = HashLeaf(d)
<1>1. /\ Size \in Nat /\ Size = Len(leaves) /\ 0 < Size
      /\ idx \in Nat
  BY DEF Size
<1>2. \A i \in 1..Size : leaves[i] = leaves[i]
  OBVIOUS
<1>3. RootAt(Size) = HeadOf(leaves, Size)
  BY <1>1, <1>2, RootHead DEF RootAt
<1>4. VerifyInclusionHash(HashLeaf(d), idx, Size, proof, HeadOf(leaves, Size))
  BY <1>3
<1>. QED  BY <1>1, <1>4, InclusionProofSound

(* The proof between two sizes of the tree is accepted for their heads     *)
(* (consistency.go 13-26 against 51-125).                                  *)
LEMMA RangeProofComplete ==
  ASSUME leaves \in Seq(LeafHashes),
         NEW new \in Nat, new <= Size, NEW old \in Nat, old <= new
  PROVE  VerifyConsistency(RootAt(old), RootAt(new), old, new,
                           ProofForRange(old, new))
<1>1. CASE old = new
  <2>1. ProofForRange(old, new) = <<>>
    BY <1>1 DEF ProofForRange
  <2>2. ~(old > new) /\ RootAt(old) = RootAt(new)
    BY <1>1
  <2>. QED  BY <1>1, <2>1, <2>2 DEF VerifyConsistency
<1>2. CASE old = 0 /\ old < new
  <2>1. ProofForRange(old, new) = <<>>
    BY <1>2 DEF ProofForRange
  <2>2. ~(old > new) /\ ~(old = new)
    BY <1>2
  <2>. QED  BY <1>2, <2>1, <2>2, Zenon DEF VerifyConsistency
<1>3. CASE 0 < old /\ old < new
  <2>. DEFINE p == SubSeq(leaves, 1, new)
  <2>1. /\ new <= Len(leaves) /\ old <= Len(leaves) /\ 0 < new
        /\ \A i \in 1..old : p[i] = leaves[i]
        /\ \A i \in 1..new : p[i] = leaves[i]
    BY <1>3 DEF Size
  <2>2. ProofForRange(old, new) = ProofOf(p, new, old)
    <3>1. old # 0 /\ old # new
      BY <1>3
    <3>. QED  BY <3>1, RangeProof
  <2>. HIDE DEF p
  <2>3. RootAt(new) = HeadOf(p, new) /\ RootAt(old) = HeadOf(p, old)
    BY <1>3, <2>1, RootHead DEF RootAt
  <2>. QED  BY <1>3, <2>2, <2>3, ConsistencyProofComplete
<1>4. old = new \/ (old = 0 /\ old < new) \/ (0 < old /\ old < new)
  OBVIOUS
<1>. QED  BY <1>1, <1>2, <1>3, <1>4

(* The live tree proves itself an extension of all it ever was.            *)
LEMMA ConsistencyIsComplete ==
  ASSUME leaves \in Seq(LeafHashes)
  PROVE  ConsistencyComplete
<1>. SUFFICES ASSUME NEW new \in 0..Size, NEW old \in 0..new
              PROVE  VerifyConsistency(RootAt(old), RootAt(new), old, new,
                                       ProofForRange(old, new))
  BY DEF ConsistencyComplete
<1>1. new \in Nat /\ new <= Size /\ old \in Nat /\ old <= new
  BY DEF Size
<1>. QED  BY <1>1, RangeProofComplete

(* No proof shows the head of another log as an earlier head of the tree   *)
(* (consistency.go 51-125).                                                *)
LEMMA ConsistencyIsSound ==
  ASSUME leaves \in Seq(LeafHashes), NEW proof, Len(proof) \in Nat,
         NEW old \in 1..Size, NEW log \in Logs(old),
         VerifyConsistency(mth(log), RootAt(Size), old, Size, proof)
  PROVE  log = SubSeq(leaves, 1, old)
<1>1. /\ Size \in Nat /\ Size = Len(leaves) /\ 0 < Size
      /\ old \in Nat /\ 0 < old /\ old <= Size
  BY DEF Size
<1>2. \A i \in 1..Size : leaves[i] = leaves[i]
  OBVIOUS
<1>3. RootAt(Size) = HeadOf(leaves, Size)
  BY <1>1, <1>2, RootHead DEF RootAt
<1>4. mth(log) = HeadOf(log, old)
  BY <1>1, LogHead
<1>5. VerifyConsistency(HeadOf(log, old), HeadOf(leaves, Size), old, Size, proof)
  BY <1>3, <1>4
<1>7. Agree(log, leaves, old)
  BY <1>1, <1>5, ConsistencyProofSound
<1>8. log \in Seq(LeafHashes) /\ Len(log) = old
  <2>1. log \in [1..old -> LeafHashes]
    BY DEF Logs, LeafHashes
  <2>. QED  BY <1>1, <2>1
<1>. QED  BY <1>1, <1>7, <1>8 DEF Agree


-----------------------------------------------------------------------------
(* The verdict as a function of what the verifier read: the range proof    *)
(* it asks the tree for last is settled by the size it read first          *)
(* (verifier.go 29-58).                                                    *)
Verdict ==
  /\ hist.size <= liveSize
  /\ VerifyConsistency(hist.root, liveRoot, hist.size, liveSize,
                       ProofForRange(hist.size, liveSize))

(* The inductive invariant: the size read is one the tree had, the root    *)
(* read is that of the tree at that size or later, and the report says     *)
(* what the verdict still is, whatever was appended since.                 *)
VInv ==
  /\ leaves \in Seq(LeafHashes)
  /\ pc \in {"idle", "size", "root", "proof", "done"}
  /\ hist.size \in Nat
  /\ liveSize \in Nat /\ liveSize <= Size
  /\ pc = "proof" => hist.size <= liveSize
  /\ pc \in {"proof", "done"} =>
       \E size \in liveSize..Size : liveRoot = RootAt(size)
  /\ pc \in {"size", "root", "proof"} => ~ok
  /\ pc = "done" => (ok <=> Verdict)

(* An append leaves the first leaves where they are (Tree.Append, tree.go  *)
(* 57-66).                                                                 *)
LEMMA PrefixKept ==
  ASSUME NEW S, NEW s \in Seq(S), NEW x, NEW k \in Nat, k <= Len(s)
  PROVE  SubSeq(Append(s, x), 1, k) = SubSeq(s, 1, k)
<1>1. PICK T : s \in Seq(T) /\ x \in T
  <2>1. s \in Seq(S \cup {x}) /\ x \in S \cup {x}
    OBVIOUS
  <2>. QED  BY <2>1
<1>. QED  BY <1>1

(* VInv holds before anything is appended or asked.                        *)
LEMMA VInvInit == VInit => VInv
BY DEF VInit, VInv, Init, NoHist, Size

(* An append changes neither the heads of the sizes the tree has nor the   *)
(* proofs between them (tree.go 108-115, consistency.go 13-26).            *)
LEMMA AppendKeeps ==
  ASSUME leaves \in Seq(LeafHashes), NEW d \in Data, AppendLeaf(d)
  PROVE  /\ leaves' \in Seq(LeafHashes)
         /\ Size \in Nat /\ Size' \in Nat /\ Size <= Size'
         /\ \A k \in Nat : k <= Size => RootAt(k)' = RootAt(k)
         /\ \A old, new \in Nat : new <= Size =>
              ProofForRange(old, new)' = ProofForRange(old, new)
<1>1. leaves' = Append(leaves, HashLeaf(d)) /\ HashLeaf(d) \in LeafHashes
  BY DEF AppendLeaf, LeafHashes
<1>2. /\ leaves' \in Seq(LeafHashes) /\ Len(leaves) \in Nat
      /\ Len(leaves') = Len(leaves) + 1
  BY <1>1
<1>3. \A k \in Nat : k <= Len(leaves) => SubSeq(leaves', 1, k) = SubSeq(leaves, 1, k)
  BY <1>1, PrefixKept
<1>4. \A k \in Nat : k <= Len(leaves) => RootAt(k)' = RootAt(k)
  BY <1>3 DEF RootAt
<1>5. \A old, new \in Nat : new <= Len(leaves) =>
        ProofForRange(old, new)' = ProofForRange(old, new)
  BY <1>3 DEF ProofForRange
<1>. QED  BY <1>2, <1>4, <1>5 DEF Size

(* Each step keeps it.                                                     *)
LEMMA VInvNext == VInv /\ [VNext]_vars => VInv'
<1>. SUFFICES ASSUME VInv, [VNext]_vars
              PROVE  VInv'
  OBVIOUS
<1>0. Size \in Nat
  BY DEF VInv, Size
<1>1. ASSUME NEW d \in Data, AppendLeaf(d), UNCHANGED verifier
      PROVE  VInv'
  <2>1. /\ leaves' \in Seq(LeafHashes)
        /\ Size \in Nat /\ Size' \in Nat /\ Size <= Size'
        /\ \A k \in Nat : k <= Size => RootAt(k)' = RootAt(k)
        /\ \A old, new \in Nat : new <= Size =>
             ProofForRange(old, new)' = ProofForRange(old, new)
    BY <1>1, AppendKeeps DEF VInv
  <2>2. /\ pc' = pc /\ hist' = hist /\ liveSize' = liveSize
        /\ liveRoot' = liveRoot /\ ok' = ok
    BY <1>1 DEF verifier
  <2>3. hist.size \in Nat /\ liveSize \in Nat /\ liveSize <= Size
    BY DEF VInv
  <2>4. liveSize' <= Size'
    BY <2>1, <2>2, <2>3
  <2>5. pc' \in {"proof", "done"} =>
          \E size \in liveSize'..Size' : liveRoot' = RootAt(size)'
    <3>. SUFFICES ASSUME pc' \in {"proof", "done"}
                  PROVE  \E size \in liveSize'..Size' : liveRoot' = RootAt(size)'
      OBVIOUS
    <3>1. PICK size \in liveSize..Size : liveRoot = RootAt(size)
      BY <2>2 DEF VInv
    <3>2. size \in Nat /\ size <= Size /\ size \in liveSize'..Size'
      BY <2>1, <2>2, <2>3, <3>1
    <3>3. liveRoot' = RootAt(size)'
      BY <2>1, <2>2, <3>1, <3>2
    <3>. QED  BY <3>2, <3>3
  <2>6. Verdict' <=> Verdict
    <3>1. ProofForRange(hist.size, liveSize)' = ProofForRange(hist.size, liveSize)
      BY <2>1, <2>2, <2>3 DEF ProofForRange
    <3>. QED  BY <2>2, <3>1 DEF Verdict
  <2>. QED  BY <2>1, <2>2, <2>4, <2>5, <2>6 DEF VInv
<1>2. ASSUME NEW claim \in Claims, Ask(claim)
      PROVE  VInv'
  <2>1. claim.size \in Nat
    BY ClaimBound DEF Claims
  <2>. QED  BY <1>0, <2>1, <1>2 DEF VInv, Ask, Size
<1>3. CASE ReadSize
  BY <1>0, <1>3 DEF VInv, ReadSize, Size
<1>4. CASE ReadRoot
  <2>1. liveRoot' = RootAt(Size)
    <3>1. SubSeq(leaves, 1, Len(leaves)) = leaves
      BY DEF VInv
    <3>. QED  BY <1>4, <3>1 DEF ReadRoot, RootAt, Size
  <2>2. leaves' = leaves /\ hist' = hist /\ liveSize' = liveSize /\ ok' = ok
        /\ pc' = IF hist.size > liveSize THEN "done" ELSE "proof"
    BY <1>4 DEF ReadRoot
  <2>3. Size' = Size /\ \E size \in liveSize'..Size' : liveRoot' = RootAt(size)'
    <3>1. Size \in liveSize..Size /\ Size' = Size
      BY <1>0, <2>2 DEF VInv, Size
    <3>2. RootAt(Size)' = RootAt(Size)
      BY <2>2 DEF RootAt, Size
    <3>. QED  BY <2>1, <2>2, <3>1, <3>2
  <2>4. ~ok /\ hist.size \in Nat /\ liveSize \in Nat
    BY <1>4 DEF ReadRoot, VInv
  <2>5. pc' = "done" => ~Verdict'
    BY <2>2, <2>4 DEF Verdict
  <2>6. pc' = "proof" => hist'.size <= liveSize'
    BY <2>2, <2>4
  <2>. QED  BY <2>2, <2>3, <2>4, <2>5, <2>6 DEF VInv
<1>5. CASE Check
  <2>1. /\ leaves' = leaves /\ hist' = hist /\ liveSize' = liveSize
        /\ liveRoot' = liveRoot /\ pc = "proof" /\ pc' = "done"
        /\ ok' = VerifyConsistency(hist.root, liveRoot, hist.size, liveSize,
                                   ProofForRange(hist.size, liveSize))
    BY <1>5 DEF Check
  <2>2. hist.size <= liveSize
    BY <2>1 DEF VInv
  <2>3. ok' <=> Verdict'
    <3>1. ok' <=> Verdict
      BY <2>1, <2>2 DEF Verdict
    <3>2. ProofForRange(hist.size, liveSize)' = ProofForRange(hist.size, liveSize)
      BY <2>1 DEF ProofForRange
    <3>3. Verdict' <=> Verdict
      BY <2>1, <3>2 DEF Verdict
    <3>. QED  BY <3>1, <3>3
  <2>4. \E size \in liveSize'..Size' : liveRoot' = RootAt(size)'
    <3>1. PICK size \in liveSize..Size : liveRoot = RootAt(size)
      BY <2>1 DEF VInv
    <3>. QED  BY <2>1, <3>1 DEF RootAt, Size
  <2>5. Size' = Size
    BY <2>1 DEF Size
  <2>. QED  BY <2>1, <2>3, <2>4, <2>5 DEF VInv
<1>6. CASE UNCHANGED vars
  BY <1>6 DEF VInv, vars, verifier, Size, RootAt, Verdict, ProofForRange
<1>. QED  BY <1>1, <1>2, <1>3, <1>4, <1>5, <1>6 DEF VNext

(* The invariant of the verifier among appends.                            *)
THEOREM VerifierInvariant == VSpec => []VInv
BY VInvInit, VInvNext, PTL DEF VSpec


(* Every leaf of the tree, at every size it ever had, has an inclusion     *)
(* proof that verifies, and every earlier head is provably extended by     *)
(* every later one: path and subproof against the two verifiers            *)
(* (inclusion.go 11-113, consistency.go 13-125), for logs of any length.   *)
THEOREM ProofsAlwaysComplete == VSpec => []ProofsComplete
<1>1. VInv => ProofsComplete
  BY InclusionIsComplete, ConsistencyIsComplete DEF VInv, ProofsComplete
<1>. QED  BY <1>1, VerifierInvariant, PTL

(* No sequence of any length and content, presented as a proof to either   *)
(* verifier, makes it accept another leaf or another log than the tree's   *)
(* (inclusion.go 58-113, consistency.go 51-125), for trees of any size.    *)
THEOREM NoProofMisleads ==
  VSpec => [](\A proof : Len(proof) \in Nat => ~Misleads(proof))
<1>1. VInv => \A proof : Len(proof) \in Nat => ~Misleads(proof)
  BY InclusionIsSound, ConsistencyIsSound DEF VInv, Misleads
<1>. QED  BY <1>1, VerifierInvariant, PTL

(* So none of those the tree hands out does, whole or cut short            *)
(* (inclusion.go 58-113, consistency.go 51-125).                           *)
THEOREM ProofsAlwaysSound == VSpec => []ProofsSound
<1>1. ASSUME VInv, \A proof : Len(proof) \in Nat => ~Misleads(proof)
      PROVE  ProofsSound
  <2>1. Size \in Nat
    BY DEF VInv, Size
  <2>2. \A proof \in Candidates : ~Misleads(proof)
    BY <1>1, <2>1, CandidateList
  <2>. QED  BY <2>2 DEF ProofsSound, InclusionSound, ConsistencySound, Misleads
<1>. QED  BY <1>1, VerifierInvariant, NoProofMisleads, PTL

(* A verdict of OK about a log with leaves names a head the live log had   *)
(* at the claimed size or later (verifier.go 28-58).                       *)
LEMMA VerdictNamesHead ==
  ASSUME VInv, pc = "done", Verdict, hist.size > 0
  PROVE  \E size \in hist.size..Size : RootAt(size) = hist.root
<1>1. /\ leaves \in Seq(LeafHashes) /\ Size \in Nat /\ Size = Len(leaves)
      /\ hist.size \in Nat /\ liveSize \in Nat /\ liveSize <= Size
  BY DEF VInv, Size
<1>2. PICK n \in liveSize..Size : liveRoot = RootAt(n)
  BY DEF VInv
<1>. DEFINE old == hist.size
            proof == ProofForRange(old, liveSize)
<1>3. /\ old \in Nat /\ 0 < old /\ old <= liveSize
      /\ VerifyConsistency(hist.root, liveRoot, old, liveSize, proof)
  BY <1>1 DEF Verdict
<1>. HIDE DEF old
<1>4. n \in Nat /\ liveSize <= n /\ n <= Size
  BY <1>1, <1>2
<1>5. \A k \in Nat : 0 < k /\ k <= Size => RootAt(k) = HeadOf(leaves, k)
  <2>. SUFFICES ASSUME NEW k \in Nat, 0 < k, k <= Size
                PROVE  RootAt(k) = HeadOf(leaves, k)
    OBVIOUS
  <2>1. \A i \in 1..k : leaves[i] = leaves[i]
    OBVIOUS
  <2>. QED  BY <1>1, <2>1, RootHead DEF RootAt
<1>6. CASE old = liveSize
  <2>1. hist.root = liveRoot
    BY <1>3, <1>6 DEF VerifyConsistency
  <2>. QED  BY <1>1, <1>2, <1>4, <1>6, <2>1 DEF old
<1>7. CASE old < liveSize
  <2>. DEFINE p == SubSeq(leaves, 1, liveSize)
  <2>1. proof = ProofOf(p, liveSize, old)
    <3>1. old # 0 /\ old # liveSize
      BY <1>1, <1>3, <1>7
    <3>. QED  BY <3>1, RangeProof
  <2>2. /\ liveSize <= Len(leaves) /\ 0 < liveSize
        /\ \A i \in 1..old : p[i] = leaves[i]
    BY <1>1, <1>3
  <2>. HIDE DEF p, proof
  <2>3. CASE isPowerOfTwo(old)
    <3>1. Len(proof) \in Nat
      <4>1. IsList(ProofOf(p, liveSize, old))
        BY <1>1, <1>3, <1>7, SubList
      <4>. QED  BY <2>1, <4>1, CutList
    <3>2. VerifyConsistency(hist.root, HeadOf(leaves, n), old, liveSize, proof)
      <4>1. 0 < n
        BY <1>1, <1>4, <2>2
      <4>2. liveRoot = HeadOf(leaves, n)
        BY <1>2, <1>4, <1>5, <4>1
      <4>. QED  BY <1>3, <4>2, Zenon
    <3>3. PICK size \in old..n : HeadOf(leaves, size) = hist.root
      BY <1>1, <1>3, <1>4, <1>7, <2>3, <3>1, <3>2, PowerOfTwoAccepted
    <3>4. size \in Nat /\ 0 < size /\ size <= Size /\ size \in old..Size
      BY <1>1, <1>3, <1>4, <3>3
    <3>. QED  BY <1>5, <3>3, <3>4 DEF old
  <2>4. CASE ~isPowerOfTwo(old)
    <3>1. hist.root = HeadOf(p, old)
      BY <1>1, <1>3, <1>7, <2>1, <2>4, HonestRun
    <3>2. RootAt(old) = HeadOf(p, old)
      BY <1>1, <1>3, <2>2, RootHead DEF RootAt
    <3>3. old \in old..Size
      BY <1>1, <1>3
    <3>. QED  BY <3>1, <3>2, <3>3 DEF old
  <2>. QED  BY <2>3, <2>4
<1>8. old = liveSize \/ old < liveSize
  BY <1>1, <1>3
<1>. QED  BY <1>6, <1>7, <1>8

(* The historical-root verifier never accepts a rewritten log: what it     *)
(* reports consistent is a head of the live log, although its three reads  *)
(* of the tree are not atomic (verifier.go 28-58).                         *)
THEOREM RewriteAlwaysDetected == VSpec => []RewriteDetected
<1>1. VInv => RewriteDetected
  <2>. SUFFICES ASSUME VInv, pc = "done", ok, hist.size > 0
                PROVE  \E size \in hist.size..Size : RootAt(size) = hist.root
    BY DEF RewriteDetected
  <2>1. Verdict
    BY DEF VInv
  <2>. QED  BY <2>1, VerdictNamesHead
<1>. QED  BY <1>1, VerifierInvariant, PTL

(* A true claim is refused only when the tree grew between the verifier's  *)
(* read of its size and of its root (verifier.go 29-30).                   *)
THEOREM FalseAlarmsOnlyFromRace == VSpec => []FalseAlarmOnlyFromRace
<1>1. VInv => FalseAlarmOnlyFromRace
  <2>. SUFFICES ASSUME VInv, pc = "done", ~ok, ClaimHolds,
                       hist.size <= liveSize, liveRoot = RootAt(liveSize)
                PROVE  FALSE
    BY DEF FalseAlarmOnlyFromRace
  <2>1. /\ leaves \in Seq(LeafHashes) /\ hist.size \in Nat
        /\ liveSize \in Nat /\ liveSize <= Size
        /\ RootAt(hist.size) = hist.root
    BY DEF VInv, ClaimHolds
  <2>2. VerifyConsistency(RootAt(hist.size), RootAt(liveSize), hist.size, liveSize,
                          ProofForRange(hist.size, liveSize))
    BY <2>1, RangeProofComplete
  <2>3. Verdict
    BY <2>1, <2>2 DEF Verdict
  <2>. QED  BY <2>3 DEF VInv
<1>. QED  BY <1>1, VerifierInvariant, PTL

(* The tree is append-only: a step leaves every head the tree had, and the *)
(* proofs between them, as they were (Tree.Append, tree.go 57-66).         *)
THEOREM HeadsNeverChange ==
  VSpec => [][\A k \in 0..Size : RootAt(k)' = RootAt(k)]_vars
<1>1. VInv /\ [VNext]_vars
        => [\A k \in 0..Size : RootAt(k)' = RootAt(k)]_vars
  <2>. SUFFICES ASSUME VInv, VNext
                PROVE  \A k \in 0..Size : RootAt(k)' = RootAt(k)
    OBVIOUS
  <2>1. CASE \E d \in Data : AppendLeaf(d)
    <3>1. \A k \in Nat : k <= Size => RootAt(k)' = RootAt(k)
      BY <2>1, AppendKeeps DEF VInv
    <3>2. Size \in Nat
      BY DEF VInv, Size
    <3>. QED  BY <3>1, <3>2
  <2>2. CASE UNCHANGED leaves
    BY <2>2 DEF RootAt, Size
  <2>. QED  BY <2>1, <2>2 DEF VNext, Ask, ReadSize, ReadRoot, Check
<1>. QED  BY <1>1, VerifierInvariant, PTL DEF VSpec

=============================================================================
