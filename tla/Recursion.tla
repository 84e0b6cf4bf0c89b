----------------------------- MODULE Recursion ------------------------------
(***************************************************************************)
(* Induction and recursion over the natural numbers, in a form the other   *)
(* proof modules can use: INSTANCE gives Def its meaning.                  *)
(***************************************************************************)
EXTENDS Naturals, WellFoundedInduction, TLAPS

(* Def(p, f, n) is what a recursive function of n computes from its own    *)
(* values f at smaller numbers, p being whatever else it depends on.       *)
CONSTANT Def(_, _, _)

(* The function is settled at n by its values below n.                     *)
Descends(p) ==
  \A n \in Nat : \A f, g :
    (\A m \in Nat : m < n => f[m] = g[m]) => Def(p, f, n) = Def(p, g, n)

(* A set of naturals with a member has a least one.                        *)
LEMMA LeastNumber ==
  ASSUME NEW T, T \subseteq Nat, T # {}
  PROVE  \E x \in T : \A y \in T : x <= y
<1>1. IsWellFoundedOn(OpToRel(<, Nat), Nat)
  BY NatLessThanWellFounded
<1>2. PICK x \in T : \A y \in T : ~(<<y, x>> \in OpToRel(<, Nat))
  BY <1>1, WFMin
<1>3. OpToRel(<, Nat) = {ss \in Nat \X Nat : ss[1] < ss[2]}
  BY Zenon DEF OpToRel
<1>4. \A y \in T : ~(y < x)
  BY <1>2, <1>3
<1>. QED  BY <1>4

(* Induction: a set that takes in every natural all of whose predecessors  *)
(* it has taken in holds them all.                                         *)
LEMMA Induction ==
  ASSUME NEW T,
         \A n \in Nat : (\A m \in Nat : m < n => m \in T) => n \in T
  PROVE  \A n \in Nat : n \in T
<1>. DEFINE B == {n \in Nat : n \notin T}
<1>. SUFFICES ASSUME B # {}
              PROVE  FALSE
  OBVIOUS
<1>1. PICK x \in B : \A y \in B : x <= y
  BY LeastNumber
<1>2. \A m \in Nat : m < x => m \in T
  <2>. SUFFICES ASSUME NEW m \in Nat, m < x, m \notin T
                PROVE  FALSE
    OBVIOUS
  <2>1. x <= m
    BY <1>1
  <2>. QED  BY <2>1, <1>1
<1>. QED  BY <1>1, <1>2

(* f is the recursive function as far as n.                                *)
UpTo(p, f, n) == \A m \in Nat : m <= n => f[m] = Def(p, f, m)

(* Two functions that follow the recursion up to n agree up to n.          *)
LEMMA UpToUnique ==
  ASSUME NEW p, Descends(p), NEW n \in Nat, NEW f, NEW g,
         UpTo(p, f, n), UpTo(p, g, n)
  PROVE  \A m \in Nat : m <= n => f[m] = g[m]
<1>. DEFINE T == {m \in Nat : m <= n /\ f[m] # g[m]}
<1>. SUFFICES ASSUME T # {}
              PROVE  FALSE
  OBVIOUS
<1>1. PICK x \in T : \A y \in T : x <= y
  BY LeastNumber
<1>2. x \in Nat /\ x <= n /\ f[x] # g[x]
  BY <1>1
<1>3. \A m \in Nat : m < x => f[m] = g[m]
  <2>. SUFFICES ASSUME NEW m \in Nat, m < x, f[m] # g[m]
                PROVE  FALSE
    OBVIOUS
  <2>1. m \in T
    BY <1>2
  <2>2. x <= m
    BY <1>1, <2>1
  <2>. QED  BY <2>2, <1>2
<1>4. Def(p, f, x) = Def(p, g, x)
  BY <1>2, <1>3 DEF Descends
<1>. QED  BY <1>2, <1>4 DEF UpTo

(* The recursion can be followed as far as one likes.                      *)
LEMMA UpToExists ==
  ASSUME NEW p, Descends(p)
  PROVE  \A n \in Nat : \E f : UpTo(p, f, n)
<1>. DEFINE T == {n \in Nat : ~(\E f : UpTo(p, f, n))}
<1>. SUFFICES ASSUME T # {}
              PROVE  FALSE
  OBVIOUS
<1>1. PICK x \in T : \A y \in T : x <= y
  BY LeastNumber
<1>2. PICK f : \A m \in Nat : m < x => f[m] = Def(p, f, m)
  <2>1. CASE x = 0
    BY <2>1
  <2>2. CASE x # 0
    <3>1. x - 1 \in Nat /\ ~(x <= x - 1)
      BY <2>2
    <3>2. x - 1 \notin T
      BY <3>1, <1>1
    <3>3. PICK f : UpTo(p, f, x - 1)
      BY <3>1, <3>2
    <3>4. \A m \in Nat : m < x => m <= x - 1
      BY <3>1
    <3>. QED  BY <3>3, <3>4 DEF UpTo
  <2>. QED  BY <2>1, <2>2
<1>. DEFINE g == [m \in Nat |-> IF m < x THEN f[m] ELSE Def(p, f, x)]
<1>3. \A m \in Nat : m < x => g[m] = f[m]
  OBVIOUS
<1>4. \A m \in Nat : m <= x => Def(p, g, m) = Def(p, f, m)
  <2>. SUFFICES ASSUME NEW m \in Nat, m <= x
                PROVE  Def(p, g, m) = Def(p, f, m)
    OBVIOUS
  <2>1. \A k \in Nat : k < m => g[k] = f[k]
    BY <1>3
  <2>. HIDE DEF g
  <2>. QED  BY <2>1 DEF Descends
<1>5. \A m \in Nat : m <= x => g[m] = Def(p, g, m)
  <2>. SUFFICES ASSUME NEW m \in Nat, m <= x
                PROVE  g[m] = Def(p, f, m)
    BY <1>4
  <2>1. CASE m < x
    BY <2>1, <1>2, <1>3
  <2>2. CASE m = x
    BY <2>2
  <2>. QED  BY <2>1, <2>2
<1>6. UpTo(p, g, x)
  <2>. HIDE DEF g
  <2>. QED  BY <1>5 DEF UpTo
<1>. QED  BY <1>6, <1>1

(* A recursion that descends has its function: what f[n \in Nat] == ...    *)
(* denotes does satisfy its own equation.                                  *)
THEOREM RecursiveFunction ==
  ASSUME NEW p, Descends(p)
  PROVE  \E f : f = [n \in Nat |-> Def(p, f, n)]
<1>. DEFINE F(n) == CHOOSE f : UpTo(p, f, n)
            g == [n \in Nat |-> F(n)[n]]
<1>1. \A n \in Nat : UpTo(p, F(n), n)
  BY UpToExists
<1>. HIDE DEF F
<1>2. \A n \in Nat : \A m \in Nat : m <= n => F(n)[m] = F(m)[m]
  <2>. SUFFICES ASSUME NEW n \in Nat, NEW m \in Nat, m <= n
                PROVE  F(n)[m] = F(m)[m]
    OBVIOUS
  <2>1. UpTo(p, F(n), m)
    BY <1>1 DEF UpTo
  <2>2. UpTo(p, F(m), m)
    BY <1>1
  <2>. QED  BY <2>1, <2>2, UpToUnique
<1>3. \A n \in Nat : \A m \in Nat : m < n => g[m] = F(n)[m]
  BY <1>2
<1>4. \A n \in Nat : g[n] = Def(p, g, n)
  <2>. SUFFICES ASSUME NEW n \in Nat
                PROVE  g[n] = Def(p, g, n)
    OBVIOUS
  <2>1. g[n] = Def(p, F(n), n)
    BY <1>1 DEF UpTo
  <2>2. \A m \in Nat : m < n => g[m] = F(n)[m]
    BY <1>3
  <2>. HIDE DEF g
  <2>3. Def(p, g, n) = Def(p, F(n), n)
    BY <2>2 DEF Descends
  <2>. QED  BY <2>1, <2>3
<1>5. g = [n \in Nat |-> Def(p, g, n)]
  <2>1. g = [n \in Nat |-> g[n]]
    OBVIOUS
  <2>. HIDE DEF g
  <2>. QED  BY <2>1, <1>4
<1>. QED  BY <1>5

=============================================================================
