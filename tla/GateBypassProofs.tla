-------------------------- MODULE GateBypassProofs --------------------------
(***************************************************************************)
(* Theorems about ProposalFlow and GateBypass, for any number of threads,  *)
(* nonces, peers, nested calls and direct calls.                           *)
(***************************************************************************)
EXTENDS GateBypass, FiniteSetTheorems, TLAPS

(* The parts of a frame the properties read; a pop changes only threw.     *)
Like(f, g) ==
  /\ g.pc = f.pc /\ g.nonce = f.nonce /\ g.sigs = f.sigs
  /\ g.now = f.now /\ g.began = f.began /\ g.prev = f.prev
  /\ g.needed = f.needed /\ g.before = f.before

(* The stacks st become st2 by a step of t that leaves its first k frames  *)
(* where they are.                                                         *)
Reaches(st, st2, t, k) ==
  /\ st \in [Threads -> Seq(Frames)] /\ st2 \in [Threads -> Seq(Frames)]
  /\ \A u \in Threads \ {t} : st2[u] = st[u]
  /\ k \in Nat
  /\ Len(st[t]) \in {k, k + 1} /\ Len(st2[t]) \in {k, k + 1}
  /\ \A j \in 1..k : Like(st[t][j], st2[t][j])

(* A frame can be where it is: the i-th of its stack, at time c with the   *)
(* marks ms written.                                                       *)
FrameFits(i, f, c, ms) ==
  /\ f.now <= c
  /\ f.before \subseteq ms /\ \A m \in f.before : m.nonce = f.nonce
  /\ f.pc = "gate" => \A m \in f.before : c - m.at > Window
  /\ f.pc = "running" =>
       /\ f.prev = i - 1
       /\ Cardinality(ValidSigners(f.sigs)) >= f.needed
       /\ \A m \in f.before : f.began - m.at > Window

(* Every call under way, in every thread, knows what its place says.       *)
FramesFit ==
  \A t \in Threads : \A i \in 1..Len(stack[t]) :
    FrameFits(i, stack[t][i], clock, marks)

(* The running frames are the lowest d of the stack, and at most one other *)
(* is above them.                                                          *)
Stacked(s, d) ==
  /\ d <= Len(s) /\ Len(s) <= d + 1
  /\ \A i \in 1..Len(s) : s[i].pc = "running" <=> i <= d

Stacks == \A t \in Threads : Stacked(stack[t], depth[t])

(* What was marked is in the replay cache, or has left the window.         *)
MarksKept ==
  \A m \in marks :
    /\ m.at <= clock
    /\ executed[m.nonce] >= m.at \/ clock - m.at > Window

(* Unrecorded, of any stacks.                                              *)
Owes(f, n) == f.pc \in {"mark", "accepted"} /\ f.nonce = n

UnrecordedIn(st, n) ==
  UNION {{<<t, i>> : i \in {j \in DOMAIN st[t] :
            st[t][j].pc \in {"mark", "accepted"} /\ st[t][j].nonce = n}}
         : t \in Threads}

(* The call above the first k frames of t is one of them.                  *)
Owing(st, t, k, n) == Len(st[t]) = k + 1 /\ Owes(st[t][k + 1], n)

(* A returned function is recorded or about to be (proposal.py 358-366).   *)
Trail ==
  \A n \in Nonces :
    /\ IsFiniteSet(UnrecordedIn(stack, n))
    /\ returned[n] = accepted[n] + Cardinality(UnrecordedIn(stack, n))
    /\ executed[n] # None => returned[n] > 0

FlowTypes == TypeOK /\ stack \in [Threads -> Seq(Frames)]

FlowInv == FlowTypes /\ FramesFit /\ Stacks /\ MarksKept /\ Trail

-----------------------------------------------------------------------------
Pcs == {"collect", "enter", "prune", "check", "gate", "running",
        "mark", "accepted", "replayed", "refused"}

(* A call without locals is a frame and fits anywhere: execute has looked  *)
(* at nothing yet, or only a record is to be written.                      *)
LEMMA BlankFacts ==
  ASSUME NEW pc \in Pcs \ {"running", "gate"}, NEW n \in Nonces,
         NEW c \in Nat, NEW ms, NEW i
  PROVE  /\ Blank(pc, n) \in Frames
         /\ Blank(pc, n).pc = pc /\ Blank(pc, n).nonce = n
         /\ FrameFits(i, Blank(pc, n), c, ms)
<1>1. Blank(pc, n) \in Frames
  BY DEF Blank, Frames, Pcs
<1>2. /\ Blank(pc, n).pc = pc /\ Blank(pc, n).nonce = n
      /\ Blank(pc, n).now = 0 /\ Blank(pc, n).before = {}
  BY DEF Blank
<1>. QED BY <1>1, <1>2 DEF FrameFits

(* So does a call of execute at its beginning.                             *)
LEMMA EnteredFacts ==
  ASSUME NEW n \in Nonces, NEW sigs \in SUBSET (Keys \X BOOLEAN),
         NEW c \in Nat, NEW i, marks \subseteq [nonce : Nonces, at : Nat]
  PROVE  /\ Entered(n, sigs) \in Frames
         /\ Entered(n, sigs).pc = "enter" /\ Entered(n, sigs).nonce = n
         /\ FrameFits(i, Entered(n, sigs), c, marks)
<1> DEFINE b == {m \in marks : m.nonce = n}
<1>0. b \in SUBSET [nonce : Nonces, at : Nat]
  OBVIOUS
<1>1. Entered(n, sigs) = [Blank("enter", n) EXCEPT !.sigs = sigs, !.before = b]
  BY DEF Entered
<1> DEFINE f == Blank("enter", n)
<1>5. f \in Frames /\ f.pc = "enter" /\ f.nonce = n /\ f.now = 0
  BY DEF Frames, Blank
<1> HIDE DEF b, f
<1> DEFINE g == [f EXCEPT !.sigs = sigs, !.before = b]
<1>2. g \in Frames
  BY <1>0, <1>5 DEF Frames
<1>6. /\ g.pc = "enter" /\ g.nonce = n /\ g.now = 0 /\ g.before = b
  BY <1>5 DEF Frames
<1>7. Entered(n, sigs) = g
  BY <1>1 DEF f
<1> HIDE DEF g
<1>3. /\ Entered(n, sigs).pc = "enter" /\ Entered(n, sigs).nonce = n
      /\ Entered(n, sigs).now = 0 /\ Entered(n, sigs).before = b
  BY <1>6, <1>7
<1>4. b \subseteq marks /\ \A m \in b : m.nonce = n
  BY DEF b
<1>. QED BY <1>2, <1>3, <1>4, <1>7 DEF FrameFits

(* An answer of a peer changes nothing else (proposal.py 289-312).         *)
LEMMA AnswerFacts ==
  ASSUME NEW f \in Frames, NEW p \in Peers, NEW a \in {"signed", "refused"}
  PROVE  LET g == [f EXCEPT !.answers[p] = a]
         IN g \in Frames /\ Like(f, g)
  BY DEF Frames, Like

(* An exception that passes a frame changes only threw.                    *)
LEMMA ThrewFacts ==
  ASSUME NEW f \in Frames, NEW b \in BOOLEAN
  PROVE  LET g == [f EXCEPT !.threw = b]
         IN g \in Frames /\ Like(f, g)
  BY DEF Frames, Like

-----------------------------------------------------------------------------
(* Replacing the top frame.                                                *)
LEMMA BecomesFacts ==
  ASSUME stack \in [Threads -> Seq(Frames)], NEW t \in Threads,
         stack[t] # <<>>, NEW f \in Frames, Becomes(t, f)
  PROVE  LET k == Len(stack[t]) - 1 IN
         /\ Reaches(stack, stack', t, k)
         /\ Len(stack[t]) = k + 1 /\ Len(stack'[t]) = k + 1
         /\ stack'[t][k + 1] = f
<1> DEFINE s == stack[t]
           k == Len(s) - 1
<1>1. s \in Seq(Frames) /\ s # <<>>
  OBVIOUS
<1>2. k \in Nat /\ Len(s) = k + 1 /\ k + 1 \in 1..Len(s)
  BY <1>1
<1>3. stack' = [stack EXCEPT ![t] = [s EXCEPT ![k + 1] = f]]
  BY <1>2 DEF Becomes
<1> HIDE DEF s, k
<1> DEFINE s2 == [s EXCEPT ![k + 1] = f]
<1>4. /\ s2 \in Seq(Frames) /\ Len(s2) = k + 1 /\ s2[k + 1] = f
      /\ \A j \in 1..k : s2[j] = s[j]
  BY <1>1, <1>2
<1> HIDE DEF s2
<1>5. stack' = [stack EXCEPT ![t] = s2]
  BY <1>3 DEF s2
<1>6. /\ stack' \in [Threads -> Seq(Frames)] /\ stack'[t] = s2
      /\ \A u \in Threads \ {t} : stack'[u] = stack[u]
  BY <1>4, <1>5
<1>7. \A j \in 1..k : Like(s[j], s2[j])
  BY <1>4 DEF Like
<1>8. Reaches(stack, stack', t, k)
  BY <1>2, <1>4, <1>6, <1>7 DEF Reaches, s
<1>. QED BY <1>2, <1>4, <1>6, <1>8 DEF s, k

(* A call from outside or from inside a function.                          *)
LEMMA PushFacts ==
  ASSUME stack \in [Threads -> Seq(Frames)], NEW t \in Threads,
         NEW f \in Frames, stack' = [stack EXCEPT ![t] = Append(@, f)]
  PROVE  LET k == Len(stack[t]) IN
         /\ Reaches(stack, stack', t, k)
         /\ Len(stack'[t]) = k + 1 /\ stack'[t][k + 1] = f
<1> DEFINE s == stack[t]
           k == Len(s)
           s2 == Append(s, f)
<1>1. s \in Seq(Frames) /\ k \in Nat
  OBVIOUS
<1>2. /\ s2 \in Seq(Frames) /\ Len(s2) = k + 1 /\ s2[k + 1] = f
      /\ \A j \in 1..k : s2[j] = s[j]
  BY <1>1
<1>3. /\ stack' \in [Threads -> Seq(Frames)] /\ stack'[t] = s2
      /\ \A u \in Threads \ {t} : stack'[u] = stack[u]
  BY <1>2
<1> HIDE DEF s2
<1>4. \A j \in 1..k : Like(s[j], s2[j])
  BY <1>2 DEF Like
<1>5. Reaches(stack, stack', t, k)
  BY <1>1, <1>2, <1>3, <1>4 DEF Reaches
<1>. QED BY <1>2, <1>3, <1>5

(* The end of a call.                                                      *)
LEMMA PopsFacts ==
  ASSUME stack \in [Threads -> Seq(Frames)], NEW t \in Threads,
         stack[t] # <<>>, NEW b \in BOOLEAN, Pops(t, b)
  PROVE  LET k == Len(stack[t]) - 1 IN
         /\ Reaches(stack, stack', t, k)
         /\ Len(stack[t]) = k + 1 /\ Len(stack'[t]) = k
<1> DEFINE s == stack[t]
           k == Len(s) - 1
           rest == SubSeq(s, 1, k)
           s2 == IF rest = <<>> THEN rest
                 ELSE [rest EXCEPT ![Len(rest)].threw = b]
<1>1. s \in Seq(Frames) /\ k \in Nat /\ Len(s) = k + 1
  OBVIOUS
<1>3. stack' = [stack EXCEPT ![t] = s2]
  BY Zenon DEF Pops
<1> HIDE DEF s, k
<1>2. /\ rest \in Seq(Frames) /\ Len(rest) = k
      /\ \A j \in 1..k : rest[j] = s[j] /\ s[j] \in Frames
  BY <1>1
<1> HIDE DEF rest
<1>4. /\ s2 \in Seq(Frames) /\ Len(s2) = k
      /\ \A j \in 1..k : Like(s[j], s2[j])
  <2>1. CASE rest = <<>>
    BY <1>2, <2>1 DEF Like
  <2>2. CASE rest # <<>>
    <3> DEFINE f == rest[k]
               g == [f EXCEPT !.threw = b]
    <3>1. k \in 1..k /\ f \in Frames /\ f = s[k]
      BY <1>1, <1>2, <2>2
    <3>2. g \in Frames /\ Like(f, g)
      BY <3>1, ThrewFacts
    <3>3. s2 = [rest EXCEPT ![k] = g]
      BY <1>2, <2>2
    <3> HIDE DEF f, g, s2
    <3>4. /\ s2 \in Seq(Frames) /\ Len(s2) = k /\ s2[k] = g
          /\ \A j \in 1..k : j # k => s2[j] = rest[j]
      BY <1>2, <3>1, <3>2, <3>3
    <3>5. \A j \in 1..k : Like(s[j], s2[j])
      BY <1>2, <3>1, <3>2, <3>4 DEF Like
    <3>. QED BY <3>4, <3>5
  <2>. QED BY <2>1, <2>2
<1> HIDE DEF s2
<1>5. /\ stack' \in [Threads -> Seq(Frames)] /\ stack'[t] = s2
      /\ \A u \in Threads \ {t} : stack'[u] = stack[u]
  BY <1>3, <1>4
<1>6. Reaches(stack, stack', t, k)
  BY <1>1, <1>4, <1>5 DEF Reaches, s
<1>. QED BY <1>1, <1>4, <1>5, <1>6 DEF s, k

-----------------------------------------------------------------------------
(* A frame that fits stays so as time passes and marks are added.          *)
LEMMA FitsLater ==
  ASSUME NEW i, NEW f \in Frames, NEW g \in Frames, Like(f, g),
         NEW c \in Nat, NEW c2 \in Nat, c <= c2, NEW ms, NEW ms2,
         ms \subseteq ms2, FrameFits(i, f, c, ms)
  PROVE  FrameFits(i, g, c2, ms2)
<1>1. /\ f.now \in Nat /\ Window \in Nat
      /\ \A m \in f.before : m.at \in Nat
  BY FlowAssumption DEF Frames
<1>2. f.now <= c2
  BY <1>1 DEF FrameFits
<1>3. f.pc = "gate" => \A m \in f.before : c2 - m.at > Window
  BY <1>1 DEF FrameFits
<1>. QED BY <1>2, <1>3 DEF FrameFits, Like

(* The frames fit after a step of t if the frame it left on top does.      *)
LEMMA ReachedFits ==
  ASSUME FlowTypes, FramesFit, NEW t \in Threads, NEW k \in Nat,
         Reaches(stack, stack', t, k),
         clock' \in Nat, clock <= clock', marks \subseteq marks',
         Len(stack'[t]) = k + 1 =>
           FrameFits(k + 1, stack'[t][k + 1], clock', marks')
  PROVE  FramesFit'
<1> SUFFICES ASSUME NEW u \in Threads, NEW i \in 1..Len(stack'[u])
             PROVE  FrameFits(i, stack'[u][i], clock', marks')
  BY DEF FramesFit
<1>1. stack'[u] \in Seq(Frames) /\ stack[u] \in Seq(Frames) /\ clock \in Nat
  BY DEF Reaches, FlowTypes, TypeOK
<1>2. stack'[u][i] \in Frames
  BY <1>1
<1>3. CASE u # t
  <2>1. stack'[u] = stack[u]
    BY <1>3 DEF Reaches
  <2>2. i \in 1..Len(stack[u]) /\ stack[u][i] = stack'[u][i]
    BY <2>1
  <2>3. FrameFits(i, stack[u][i], clock, marks)
    BY <2>2 DEF FramesFit
  <2>4. Like(stack[u][i], stack'[u][i])
    BY <2>2 DEF Like
  <2>. QED BY <1>1, <1>2, <2>2, <2>3, <2>4, FitsLater
<1>4. CASE u = t /\ i \in 1..k
  <2>1. i \in 1..Len(stack[u]) /\ Like(stack[u][i], stack'[u][i])
    BY <1>1, <1>4 DEF Reaches
  <2>2. stack[u][i] \in Frames
    BY <1>1, <2>1
  <2>3. FrameFits(i, stack[u][i], clock, marks)
    BY <2>1 DEF FramesFit
  <2>. QED BY <1>1, <1>2, <2>1, <2>2, <2>3, FitsLater
<1>5. CASE u = t /\ i \notin 1..k
  <2>1. i = k + 1 /\ Len(stack'[t]) = k + 1
    BY <1>5 DEF Reaches
  <2>. QED BY <1>5, <2>1
<1>. QED BY <1>3, <1>4, <1>5

(* The depth counts the running frames after a step of t if it is set to   *)
(* the frames the step left, with or without the top one (multisig.py      *)
(* 96-107).                                                                *)
LEMMA ReachedStacks ==
  ASSUME FlowTypes, Stacks, NEW t \in Threads, NEW k \in Nat,
         Reaches(stack, stack', t, k), k <= depth[t],
         \/ /\ Len(stack'[t]) = k + 1 /\ stack'[t][k + 1].pc = "running"
            /\ depth' = [depth EXCEPT ![t] = k + 1]
         \/ /\ Len(stack'[t]) = k + 1 => stack'[t][k + 1].pc # "running"
            /\ depth' = [depth EXCEPT ![t] = k]
  PROVE  Stacks'
<1>0. depth \in [Threads -> Nat]
  BY DEF FlowTypes, TypeOK
<1> SUFFICES ASSUME NEW u \in Threads PROVE Stacked(stack'[u], depth'[u])
  BY DEF Stacks
<1>1. Stacked(stack[u], depth[u])
  BY DEF Stacks
<1>2. CASE u # t
  <2>1. stack'[u] = stack[u] /\ depth'[u] = depth[u]
    BY <1>0, <1>2 DEF Reaches
  <2>. QED BY <1>1, <2>1
<1>3. CASE u = t
  <2>0. \A j \in 1..k : j \in 1..Len(stack[t]) /\ j <= depth[t]
    BY <1>0 DEF Reaches
  <2>1. \A j \in 1..k : stack[t][j].pc = "running"
    BY <1>1, <1>3, <2>0 DEF Stacked
  <2>2. \A j \in 1..k : stack'[t][j].pc = "running"
    BY <2>1 DEF Reaches, Like
  <2>3. Len(stack'[t]) \in {k, k + 1}
    BY DEF Reaches
  <2>4. depth'[t] \in {k, k + 1}
    BY <1>0
  <2>5. /\ depth'[t] = k + 1 =>
             Len(stack'[t]) = k + 1 /\ stack'[t][k + 1].pc = "running"
        /\ depth'[t] = k =>
             (Len(stack'[t]) = k + 1 => stack'[t][k + 1].pc # "running")
    BY <1>0
  <2>. QED BY <1>3, <2>2, <2>3, <2>4, <2>5 DEF Stacked
<1>. QED BY <1>2, <1>3

(* Who is in Unrecorded.                                                   *)
LEMMA UnrecordedMember ==
  ASSUME NEW st \in [Threads -> Seq(Frames)], NEW n
  PROVE  /\ \A x \in UnrecordedIn(st, n) :
              \E t \in Threads : \E i \in 1..Len(st[t]) :
                x = <<t, i>> /\ Owes(st[t][i], n)
         /\ \A t \in Threads : \A i \in 1..Len(st[t]) :
              Owes(st[t][i], n) => <<t, i>> \in UnrecordedIn(st, n)
         /\ \A t \in Threads, i \in Nat : <<t, i>> \in UnrecordedIn(st, n) =>
              i \in 1..Len(st[t]) /\ Owes(st[t][i], n)
<1>0. \A t \in Threads : st[t] \in Seq(Frames) /\ DOMAIN st[t] = 1..Len(st[t])
  OBVIOUS
<1>1. \A x : x \in UnrecordedIn(st, n) <=>
        \E t \in Threads : \E i \in DOMAIN st[t] :
                x = <<t, i>> /\ Owes(st[t][i], n)
  BY DEF UnrecordedIn, Owes
<1>. QED BY <1>0, <1>1

(* A step of t changes only whether its top call owes a record.            *)
LEMMA ReachedUnrecorded ==
  ASSUME NEW st, NEW st2, NEW t \in Threads, NEW k \in Nat,
         Reaches(st, st2, t, k), NEW n,
         NEW x, x = <<t, k + 1>>
  PROVE  /\ UnrecordedIn(st2, n) \ {x} = UnrecordedIn(st, n) \ {x}
         /\ x \in UnrecordedIn(st, n) <=> Owing(st, t, k, n)
         /\ x \in UnrecordedIn(st2, n) <=> Owing(st2, t, k, n)
<1>0. st \in [Threads -> Seq(Frames)] /\ st2 \in [Threads -> Seq(Frames)]
  BY DEF Reaches
<1>1. \A u \in Threads, i \in Nat : <<u, i>> # x =>
        (i \in 1..Len(st[u]) <=> i \in 1..Len(st2[u]))
  BY DEF Reaches
<1>2. \A u \in Threads : \A i \in 1..Len(st[u]) : <<u, i>> # x =>
        (Owes(st[u][i], n) <=> Owes(st2[u][i], n))
  <2> SUFFICES ASSUME NEW u \in Threads, NEW i \in 1..Len(st[u]), <<u, i>> # x
               PROVE  Owes(st[u][i], n) <=> Owes(st2[u][i], n)
    OBVIOUS
  <2>1. CASE u # t
    BY <2>1 DEF Reaches
  <2>2. CASE u = t
    <3>1. i \in 1..k
      BY <2>2 DEF Reaches
    <3>. QED BY <2>2, <3>1 DEF Reaches, Like, Owes
  <2>. QED BY <2>1, <2>2
<1>3. UnrecordedIn(st2, n) \ {x} \subseteq UnrecordedIn(st, n) \ {x}
  <2> SUFFICES ASSUME NEW y \in UnrecordedIn(st2, n), y # x
               PROVE  y \in UnrecordedIn(st, n)
    OBVIOUS
  <2>0. PICK u \in Threads : \E i \in 1..Len(st2[u]) :
          y = <<u, i>> /\ Owes(st2[u][i], n)
    BY UnrecordedMember, <1>0
  <2>1. PICK i \in 1..Len(st2[u]) : y = <<u, i>> /\ Owes(st2[u][i], n)
    BY <2>0
  <2>2. i \in 1..Len(st[u]) /\ Owes(st[u][i], n)
    BY <1>1, <1>2, <2>1
  <2>. QED BY <2>1, <2>2, UnrecordedMember, <1>0
<1>4. UnrecordedIn(st, n) \ {x} \subseteq UnrecordedIn(st2, n) \ {x}
  <2> SUFFICES ASSUME NEW y \in UnrecordedIn(st, n), y # x
               PROVE  y \in UnrecordedIn(st2, n)
    OBVIOUS
  <2>0. PICK u \in Threads : \E i \in 1..Len(st[u]) :
          y = <<u, i>> /\ Owes(st[u][i], n)
    BY UnrecordedMember, <1>0
  <2>1. PICK i \in 1..Len(st[u]) : y = <<u, i>> /\ Owes(st[u][i], n)
    BY <2>0
  <2>2. i \in 1..Len(st2[u]) /\ Owes(st2[u][i], n)
    BY <1>1, <1>2, <2>1
  <2>. QED BY <2>1, <2>2, UnrecordedMember, <1>0
<1>5. x \in UnrecordedIn(st, n) <=> Len(st[t]) = k + 1 /\ Owes(st[t][k + 1], n)
  <2>1. k + 1 \in 1..Len(st[t]) <=> Len(st[t]) = k + 1
    BY DEF Reaches
  <2>. QED BY <2>1, UnrecordedMember, <1>0
<1>6. x \in UnrecordedIn(st2, n) <=>
        Len(st2[t]) = k + 1 /\ Owes(st2[t][k + 1], n)
  <2>1. k + 1 \in 1..Len(st2[t]) <=> Len(st2[t]) = k + 1
    BY DEF Reaches
  <2>. QED BY <2>1, UnrecordedMember, <1>0
<1>. QED BY <1>3, <1>4, <1>5, <1>6 DEF Owing

(* So the number of records owed changes by one at most.                   *)
LEMMA OwedFacts ==
  ASSUME NEW st, NEW st2, NEW t \in Threads, NEW k \in Nat,
         Reaches(st, st2, t, k), NEW n,
         IsFiniteSet(UnrecordedIn(st, n))
  PROVE  LET was == Owing(st, t, k, n)
             is == Owing(st2, t, k, n)
             c == Cardinality(UnrecordedIn(st, n))
             c2 == Cardinality(UnrecordedIn(st2, n))
         IN /\ IsFiniteSet(UnrecordedIn(st2, n))
            /\ c \in Nat /\ c2 \in Nat
            /\ (was <=> is) => c2 = c
            /\ (~was /\ is) => c2 = c + 1
            /\ (was /\ ~is) => c = c2 + 1
            /\ was => c > 0
<1> DEFINE x == <<t, k + 1>>
           A == UnrecordedIn(st, n)
           B == UnrecordedIn(st2, n)
           was == Owing(st, t, k, n)
           is == Owing(st2, t, k, n)
<1>6. x = <<t, k + 1>>
  OBVIOUS
<1> HIDE DEF x
<1>1. B \ {x} = A \ {x} /\ (x \in A <=> was) /\ (x \in B <=> is)
  BY <1>6, ReachedUnrecorded
<1> HIDE DEF A, B, was, is
<1>0. IsFiniteSet(A)
  BY DEF A
<1>2. Cardinality(A) \in Nat
  BY <1>0, FS_CardinalityType
<1>3. CASE was <=> is
  <2>3. x \in A <=> x \in B
    BY <1>1, <1>3
  <2>4. \A y : y \in A <=> y \in B
    BY <1>1, <2>3
  <2>1. A = B
    BY <2>4
  <2>2. was => Cardinality(A) > 0
    <3>1. was => A # {}
      BY <1>1
    <3>2. Cardinality(A) = 0 => A = {}
      BY <1>0, FS_EmptySet
    <3>. QED BY <1>2, <3>1, <3>2
  <2>. QED BY <1>0, <1>2, <1>3, <2>1, <2>2 DEF A, B, was, is
<1>4. CASE ~was /\ is
  <2>1. B = A \cup {x} /\ x \notin A
    BY <1>1, <1>4
  <2>2. IsFiniteSet(B) /\ Cardinality(B) = Cardinality(A) + 1
    BY <1>0, <2>1, FS_AddElement
  <2>. QED BY <1>2, <1>4, <2>2 DEF A, B, was, is
<1>5. CASE was /\ ~is
  <2>1. B = A \ {x} /\ x \in A
    BY <1>1, <1>5
  <2>2. IsFiniteSet(B) /\ Cardinality(B) = Cardinality(A) - 1
    BY <1>0, <2>1, FS_RemoveElement
  <2>3. Cardinality(B) \in Nat
    BY <2>2, FS_CardinalityType
  <2>. QED BY <1>2, <1>5, <2>2, <2>3 DEF A, B, was, is
<1>. QED BY <1>3, <1>4, <1>5

-----------------------------------------------------------------------------
(* What is known of the top call of a thread, k calls below it.            *)
LEMMA TopFacts ==
  ASSUME FlowInv, NEW t \in Threads, NEW pc, At(t, pc)
  PROVE  LET k == Len(stack[t]) - 1 IN
         /\ stack[t] # <<>> /\ k \in Nat /\ Len(stack[t]) = k + 1
         /\ Top(t) = stack[t][k + 1] /\ Top(t) \in Frames /\ Top(t).pc = pc
         /\ FrameFits(k + 1, Top(t), clock, marks)
         /\ k <= depth[t]
         /\ pc # "running" => depth[t] = k
         /\ pc = "running" => depth[t] = k + 1 /\ Top(t).prev = k
         /\ \A n : Owing(stack, t, k, n) <=> Owes(Top(t), n)
<1> DEFINE s == stack[t]
           k == Len(s) - 1
<1>1. s \in Seq(Frames) /\ s # <<>> /\ depth[t] \in Nat
  BY DEF FlowInv, FlowTypes, TypeOK, At
<1>2. Stacked(s, depth[t])
  BY DEF FlowInv, Stacks
<1>3. \A i \in 1..Len(s) : FrameFits(i, s[i], clock, marks)
  BY DEF FlowInv, FramesFit
<1>4. Top(t) = s[Len(s)] /\ Top(t).pc = pc
  BY DEF Top, At
<1> HIDE DEF s
<1>5. k \in Nat /\ Len(s) = k + 1 /\ k + 1 \in 1..Len(s) /\ s[k + 1] \in Frames
  BY <1>1
<1> HIDE DEF k
<1>6. Top(t) = s[k + 1] /\ Top(t) \in Frames
  BY <1>4, <1>5
<1>7. FrameFits(k + 1, Top(t), clock, marks)
  BY <1>3, <1>5, <1>6
<1>8. k <= depth[t] /\ depth[t] <= k + 1 /\ (pc = "running" <=> k + 1 <= depth[t])
  BY <1>1, <1>2, <1>4, <1>5, <1>6 DEF Stacked
<1>9. pc # "running" => depth[t] = k
  BY <1>1, <1>5, <1>8
<1>10. pc = "running" => depth[t] = k + 1 /\ Top(t).prev = k
  <2>1. pc = "running" => depth[t] = k + 1
    BY <1>1, <1>5, <1>8
  <2>2. pc = "running" => Top(t).prev = (k + 1) - 1
    BY <1>4, <1>7 DEF FrameFits
  <2>. QED BY <1>5, <2>1, <2>2
<1>11. \A n : Owing(stack, t, k, n) <=> Owes(Top(t), n)
  BY <1>5, <1>6 DEF Owing, s
<1>. QED BY <1>1, <1>4, <1>5, <1>6, <1>7, <1>8, <1>9, <1>10, <1>11 DEF s, k

(* The trail is kept by a step that sends no record, lets no function      *)
(* return, and puts a nonce in the replay cache only for a call whose      *)
(* record is to come.                                                      *)
LEMMA QuietTrail ==
  ASSUME FlowInv, NEW t \in Threads, NEW k \in Nat,
         Reaches(stack, stack', t, k),
         \A n \in Nonces : Owing(stack', t, k, n) <=> Owing(stack, t, k, n),
         \A n \in Nonces : executed'[n] # None =>
           executed[n] # None \/ Owing(stack, t, k, n),
         returned' = returned, accepted' = accepted
  PROVE  Trail'
<1> SUFFICES ASSUME NEW n \in Nonces
             PROVE  /\ IsFiniteSet(UnrecordedIn(stack', n))
                    /\ returned[n] = accepted[n]
                                     + Cardinality(UnrecordedIn(stack', n))
                    /\ executed'[n] # None => returned[n] > 0
  BY DEF Trail
<1> DEFINE c == Cardinality(UnrecordedIn(stack, n))
           c2 == Cardinality(UnrecordedIn(stack', n))
<1>1. /\ IsFiniteSet(UnrecordedIn(stack, n)) /\ returned[n] = accepted[n] + c
      /\ executed[n] # None => returned[n] > 0
  BY DEF FlowInv, Trail
<1>2. /\ IsFiniteSet(UnrecordedIn(stack', n)) /\ c \in Nat /\ c2 = c
      /\ Owing(stack, t, k, n) => c > 0
  BY <1>1, OwedFacts
<1>3. accepted[n] \in Nat
  BY DEF FlowInv, FlowTypes, TypeOK
<1> HIDE DEF c, c2
<1>4. Owing(stack, t, k, n) => returned[n] > 0
  BY <1>1, <1>2, <1>3
<1>5. executed'[n] # None => returned[n] > 0
  BY <1>1, <1>4
<1>. QED BY <1>1, <1>2, <1>5 DEF c, c2

(* Marks stay kept while time passes.                                      *)
LEMMA KeepMarks ==
  ASSUME FlowInv, clock' \in Nat, clock <= clock', marks' = marks,
         executed' = executed
  PROVE  MarksKept'
<1> SUFFICES ASSUME NEW m \in marks
             PROVE  /\ m.at <= clock'
                    /\ executed[m.nonce] >= m.at \/ clock' - m.at > Window
  BY DEF MarksKept
<1>1. m.at \in Nat /\ clock \in Nat /\ Window \in Nat
  BY FlowAssumption DEF FlowInv, FlowTypes, TypeOK
<1>2. m.at <= clock /\ (executed[m.nonce] >= m.at \/ clock - m.at > Window)
  BY DEF FlowInv, MarksKept
<1>. QED BY <1>1, <1>2

(* A step of a thread that changes only its calls and its depth.           *)
LEMMA QuietStep ==
  ASSUME FlowInv, NEW t \in Threads, NEW k \in Nat,
         Reaches(stack, stack', t, k), k <= depth[t],
         \/ /\ Len(stack'[t]) = k + 1 /\ stack'[t][k + 1].pc = "running"
            /\ depth' = [depth EXCEPT ![t] = k + 1]
         \/ /\ Len(stack'[t]) = k + 1 => stack'[t][k + 1].pc # "running"
            /\ depth' = [depth EXCEPT ![t] = k],
         Len(stack'[t]) = k + 1 =>
           FrameFits(k + 1, stack'[t][k + 1], clock, marks),
         \A n \in Nonces : Owing(stack', t, k, n) <=> Owing(stack, t, k, n),
         calls' \in Nat,
         UNCHANGED <<clock, executed, threshold, returned, marks, accepted>>
  PROVE  FlowInv'
<1>0. FlowTypes /\ FramesFit /\ Stacks
  BY DEF FlowInv
<1>1. stack' \in [Threads -> Seq(Frames)]
  BY DEF Reaches
<1>2. depth' \in [Threads -> Nat]
  BY <1>0 DEF FlowTypes, TypeOK
<1>3. FlowTypes'
  BY <1>0, <1>1, <1>2 DEF FlowTypes, TypeOK
<1>4. clock' \in Nat /\ clock <= clock' /\ marks \subseteq marks'
  BY <1>0 DEF FlowTypes, TypeOK
<1>5. FramesFit'
  BY <1>0, <1>4, ReachedFits
<1>6. Stacks'
  BY <1>0, ReachedStacks
<1>7. MarksKept'
  BY <1>4, KeepMarks
<1>8. Trail'
  BY QuietTrail
<1>. QED BY <1>3, <1>5, <1>6, <1>7, <1>8 DEF FlowInv

(* A step that replaces the top call, owes what it owed and leaves the     *)
(* depth at the calls below.                                               *)
LEMMA TurnStep ==
  ASSUME FlowInv, NEW t \in Threads, NEW pc, At(t, pc), NEW f \in Frames,
         Becomes(t, f), f.pc # "running",
         FrameFits(Len(stack[t]), f, clock, marks),
         \A n \in Nonces : Owes(f, n) <=> Owes(Top(t), n),
         depth' = [depth EXCEPT ![t] = Len(stack[t]) - 1],
         UNCHANGED <<clock, executed, threshold, history>>
  PROVE  FlowInv'
<1> DEFINE k == Len(stack[t]) - 1
<1>0. stack \in [Threads -> Seq(Frames)] /\ calls \in Nat
  BY DEF FlowInv, FlowTypes, TypeOK
<1>1. /\ stack[t] # <<>> /\ k \in Nat /\ Len(stack[t]) = k + 1
      /\ k <= depth[t]
      /\ \A n : Owing(stack, t, k, n) <=> Owes(Top(t), n)
  BY TopFacts
<1>2. /\ Reaches(stack, stack', t, k) /\ Len(stack'[t]) = k + 1
      /\ stack'[t][k + 1] = f
  BY <1>0, <1>1, BecomesFacts
<1>3. FrameFits(k + 1, f, clock, marks)
  BY <1>1
<1>4. depth' = [depth EXCEPT ![t] = k]
  OBVIOUS
<1> HIDE DEF k
<1>5. \A n \in Nonces : Owing(stack', t, k, n) <=> Owing(stack, t, k, n)
  BY <1>1, <1>2 DEF Owing
<1>6. UNCHANGED <<clock, executed, threshold, returned, marks, accepted>>
      /\ calls' \in Nat
  BY <1>0 DEF history
<1>. QED BY <1>1, <1>2, <1>3, <1>4, <1>5, <1>6, QuietStep

(* The gate keeps what it has.                                             *)
LEMMA DepthStays ==
  ASSUME FlowInv, NEW t \in Threads, NEW pc, At(t, pc), pc # "running",
         UNCHANGED depth
  PROVE  depth' = [depth EXCEPT ![t] = Len(stack[t]) - 1]
<1>1. depth[t] = Len(stack[t]) - 1
  BY TopFacts
<1>2. depth \in [Threads -> Nat]
  BY DEF FlowInv, FlowTypes, TypeOK
<1>. QED BY <1>1, <1>2

(* Execute and ProposeAndRun.                                              *)
LEMMA PushStep ==
  ASSUME FlowInv, NEW t \in Threads, NEW f \in Frames, Push(t, f),
         \A i : FrameFits(i, f, clock, marks), f.pc \in {"enter", "collect"}
  PROVE  FlowInv'
<1> DEFINE k == Len(stack[t])
<1>0. /\ stack \in [Threads -> Seq(Frames)] /\ calls \in Nat
      /\ depth \in [Threads -> Nat]
  BY DEF FlowInv, FlowTypes, TypeOK
<1>1. stack' = [stack EXCEPT ![t] = Append(@, f)]
  BY DEF Push
<1>2. /\ Reaches(stack, stack', t, k) /\ Len(stack'[t]) = k + 1
      /\ stack'[t][k + 1] = f
  BY <1>0, <1>1, PushFacts
<1>3. k \in Nat
  BY <1>0
<1>4. depth[t] = k
  <2>1. CASE At(t, "running")
    BY <1>3, <2>1, TopFacts
  <2>2. CASE stack[t] = <<>>
    <3>1. Stacked(stack[t], depth[t])
      BY DEF FlowInv, Stacks
    <3>. QED BY <1>0, <2>2, <3>1 DEF Stacked
  <2>. QED BY <2>1, <2>2 DEF Push, Free
<1>5. \A n : ~Owes(f, n)
  BY DEF Owes
<1>6. \A n \in Nonces : ~Owing(stack, t, k, n)
  BY <1>3 DEF Owing
<1> HIDE DEF k
<1>7. \A n \in Nonces : Owing(stack', t, k, n) <=> Owing(stack, t, k, n)
  BY <1>2, <1>5, <1>6 DEF Owing
<1>8. depth' = [depth EXCEPT ![t] = k]
  BY <1>0, <1>4 DEF Push, gate
<1>9. UNCHANGED <<clock, executed, threshold, returned, marks, accepted>>
      /\ calls' \in Nat
  BY <1>0 DEF Push, gate
<1>10. k <= depth[t]
  BY <1>3, <1>4
<1>. QED BY <1>2, <1>3, <1>7, <1>8, <1>9, <1>10, QuietStep

(* Collected signatures are signatures.                                    *)
LEMMA CollectedType ==
  ASSUME NEW f PROVE Collected(f) \in SUBSET (Keys \X BOOLEAN)
<1>1. \A x \in Collected(f) : \E p \in Keys : x = <<p, TRUE>>
  BY DEF Collected, Keys
<1>2. \A p \in Keys : <<p, TRUE>> \in Keys \X BOOLEAN
  BY Zenon
<1>. QED BY <1>1, <1>2, Zenon

(* The calls are made, peers answer, and the deadline of the pool passes.  *)
LEMMA CallSteps ==
  ASSUME FlowInv, NEW t \in Threads,
         \/ \E n \in Nonces, sigs \in Handed : Execute(t, n, sigs)
         \/ \E n \in Nonces : ProposeAndRun(t, n)
         \/ \E p \in Peers : PeerAnswers(t, p)
         \/ Deadline(t)
  PROVE  FlowInv'
<1>0. clock \in Nat /\ marks \subseteq [nonce : Nonces, at : Nat]
  BY DEF FlowInv, FlowTypes, TypeOK
<1>1. ASSUME NEW n \in Nonces, NEW sigs \in Handed, Execute(t, n, sigs)
      PROVE  FlowInv'
  <2>1. sigs \in SUBSET (Keys \X BOOLEAN)
    BY FlowAssumption
  <2>2. /\ Entered(n, sigs) \in Frames /\ Entered(n, sigs).pc = "enter"
        /\ \A i : FrameFits(i, Entered(n, sigs), clock, marks)
    BY <1>0, <2>1, EnteredFacts
  <2>. QED BY <1>1, <2>2, PushStep DEF Execute
<1>2. ASSUME NEW n \in Nonces, ProposeAndRun(t, n) PROVE FlowInv'
  <2>1. /\ Blank("collect", n) \in Frames
        /\ Blank("collect", n).pc = "collect"
        /\ \A i : FrameFits(i, Blank("collect", n), clock, marks)
    BY <1>0, BlankFacts DEF Pcs
  <2>. QED BY <1>2, <2>1, PushStep DEF ProposeAndRun
<1>3. ASSUME NEW p \in Peers, PeerAnswers(t, p) PROVE FlowInv'
  <2>1. PICK a \in {"signed", "refused"} :
          Becomes(t, [Top(t) EXCEPT !.answers[p] = a])
    BY <1>3 DEF PeerAnswers
  <2> DEFINE g == [Top(t) EXCEPT !.answers[p] = a]
  <2>2. At(t, "collect")
    BY <1>3 DEF PeerAnswers
  <2>3. /\ Top(t) \in Frames /\ Top(t).pc = "collect"
        /\ FrameFits((Len(stack[t]) - 1) + 1, Top(t), clock, marks)
        /\ Len(stack[t]) = (Len(stack[t]) - 1) + 1
    BY <2>2, TopFacts
  <2>4. g \in Frames /\ Like(Top(t), g)
    BY <2>3, AnswerFacts
  <2> HIDE DEF g
  <2>5. FrameFits(Len(stack[t]), g, clock, marks) /\ g.pc # "running"
    BY <2>3, <2>4 DEF FrameFits, Like
  <2>6. \A n \in Nonces : Owes(g, n) <=> Owes(Top(t), n)
    BY <2>4 DEF Owes, Like
  <2>7. depth' = [depth EXCEPT ![t] = Len(stack[t]) - 1]
    BY <1>3, <2>2, DepthStays DEF PeerAnswers, gate
  <2>8. Becomes(t, g) /\ UNCHANGED <<clock, executed, threshold, history>>
    BY <1>3, <2>1 DEF PeerAnswers, gate, g
  <2>. QED BY <2>2, <2>4, <2>5, <2>6, <2>7, <2>8, TurnStep
<1>4. CASE Deadline(t)
  <2>2. At(t, "collect")
    BY <1>4 DEF Deadline
  <2>3. Top(t) \in Frames /\ Top(t).pc = "collect"
    BY <2>2, TopFacts
  <2>4. Top(t).nonce \in Nonces
    BY <2>3 DEF Frames
  <2> DEFINE g == Entered(Top(t).nonce, Collected(Top(t)))
  <2>5. /\ g \in Frames /\ g.pc = "enter"
        /\ FrameFits(Len(stack[t]), g, clock, marks)
    BY <1>0, <2>4, CollectedType, EnteredFacts
  <2> HIDE DEF g
  <2>6. \A n \in Nonces : Owes(g, n) <=> Owes(Top(t), n)
    BY <2>3, <2>5 DEF Owes
  <2>7. depth' = [depth EXCEPT ![t] = Len(stack[t]) - 1]
    BY <1>4, <2>2, DepthStays DEF Deadline, gate
  <2>8. Becomes(t, g) /\ UNCHANGED <<clock, executed, threshold, history>>
    BY <1>4 DEF Deadline, gate, g
  <2>. QED BY <2>2, <2>5, <2>6, <2>7, <2>8, TurnStep
<1>. QED BY <1>1, <1>2, <1>3, <1>4

(* A call that is left with a record to write, or is on its way, owes none.*)
LEMMA EndsFacts ==
  ASSUME FlowInv, NEW t \in Threads, NEW pc \in Pcs \ {"running", "gate"},
         Top(t) \in Frames, NEW i
  PROVE  LET g == Blank(pc, Top(t).nonce) IN
         /\ g \in Frames /\ g.pc = pc /\ g.nonce = Top(t).nonce
         /\ FrameFits(i, g, clock, marks)
         /\ \A n : Owes(g, n) <=>
              pc \in {"mark", "accepted"} /\ Top(t).nonce = n
<1>1. clock \in Nat /\ Top(t).nonce \in Nonces
  BY DEF FlowInv, FlowTypes, TypeOK, Frames
<1>. QED BY <1>1, BlankFacts DEF Owes

(* execute up to the gate: it reads the clock, and looks its nonce up.     *)
LEMMA ReadCutoffStep ==
  ASSUME FlowInv, NEW t \in Threads, ReadCutoff(t)
  PROVE  FlowInv'
<1>1. At(t, "enter")
  BY DEF ReadCutoff
<1>2. /\ Top(t) \in Frames /\ Top(t).pc = "enter"
      /\ FrameFits((Len(stack[t]) - 1) + 1, Top(t), clock, marks)
      /\ Len(stack[t]) = (Len(stack[t]) - 1) + 1
  BY <1>1, TopFacts
<1>3. clock \in Nat
  BY DEF FlowInv, FlowTypes, TypeOK
<1> DEFINE g == [Top(t) EXCEPT !.pc = "prune", !.now = clock]
<1>4. /\ g \in Frames /\ g.pc = "prune" /\ g.now = clock
      /\ g.nonce = Top(t).nonce /\ g.before = Top(t).before
  BY <1>2, <1>3 DEF Frames
<1>5. Becomes(t, g) /\ UNCHANGED <<clock, executed, threshold, history>>
  BY DEF ReadCutoff, gate
<1> HIDE DEF g
<1>6. FrameFits(Len(stack[t]), g, clock, marks)
  BY <1>2, <1>3, <1>4 DEF FrameFits
<1>7. \A n \in Nonces : Owes(g, n) <=> Owes(Top(t), n)
  BY <1>2, <1>4 DEF Owes
<1>8. depth' = [depth EXCEPT ![t] = Len(stack[t]) - 1]
  BY <1>1, DepthStays DEF ReadCutoff, gate
<1>9. g.pc # "running"
  BY <1>4
<1>. QED BY <1>1, <1>4, <1>5, <1>6, <1>7, <1>8, <1>9, TurnStep

(* The lookup: a nonce that was executed before the call and is not in the *)
(* cache has left the window (proposal.py 349-356).                        *)
LEMMA CheckReplayStep ==
  ASSUME FlowInv, NEW t \in Threads, CheckReplay(t)
  PROVE  FlowInv'
<1>1. At(t, "check") /\ UNCHANGED <<clock, executed, threshold, history>>
  BY DEF CheckReplay, gate
<1>2. /\ Top(t) \in Frames /\ Top(t).pc = "check"
      /\ FrameFits((Len(stack[t]) - 1) + 1, Top(t), clock, marks)
      /\ Len(stack[t]) = (Len(stack[t]) - 1) + 1
  BY <1>1, TopFacts
<1>3. /\ clock \in Nat /\ Window \in Nat /\ Top(t).nonce \in Nonces
      /\ \A m \in marks : m.at \in Nat
  BY <1>2, FlowAssumption DEF FlowInv, FlowTypes, TypeOK, Frames
<1>4. depth' = [depth EXCEPT ![t] = Len(stack[t]) - 1]
  BY <1>1, DepthStays DEF CheckReplay, gate
<1>5. CASE executed[Top(t).nonce] # None /\ Ends(t, "replayed")
  <2> DEFINE g == Blank("replayed", Top(t).nonce)
  <2>1. /\ g \in Frames /\ g.pc = "replayed"
        /\ FrameFits(Len(stack[t]), g, clock, marks)
        /\ \A n \in Nonces : ~Owes(g, n)
    BY <1>2, EndsFacts DEF Pcs
  <2>2. Becomes(t, g)
    BY <1>5 DEF Ends
  <2> HIDE DEF g
  <2>3. \A n \in Nonces : Owes(g, n) <=> Owes(Top(t), n)
    BY <1>2, <2>1 DEF Owes
  <2>4. g.pc # "running"
    BY <2>1
  <2>. QED BY <1>1, <1>4, <2>1, <2>2, <2>3, <2>4, TurnStep
<1>6. CASE /\ executed[Top(t).nonce] = None
           /\ Becomes(t, [Top(t) EXCEPT !.pc = "gate"])
  <2> DEFINE g == [Top(t) EXCEPT !.pc = "gate"]
  <2>1. /\ g \in Frames /\ g.pc = "gate" /\ g.now = Top(t).now
        /\ g.nonce = Top(t).nonce /\ g.before = Top(t).before
    BY <1>2 DEF Frames
  <2>2. Becomes(t, g)
    BY <1>6
  <2> HIDE DEF g
  <2>3. \A m \in Top(t).before : clock - m.at > Window
    <3> SUFFICES ASSUME NEW m \in Top(t).before PROVE clock - m.at > Window
      OBVIOUS
    <3>1. m \in marks /\ m.nonce = Top(t).nonce
      BY <1>2 DEF FrameFits
    <3>2. executed[m.nonce] >= m.at \/ clock - m.at > Window
      BY <3>1 DEF FlowInv, MarksKept
    <3>3. executed[m.nonce] = -1 /\ m.at \in Nat
      BY <1>3, <1>6, <3>1 DEF None
    <3>. QED BY <3>2, <3>3
  <2>4. FrameFits(Len(stack[t]), g, clock, marks)
    BY <1>2, <2>1, <2>3 DEF FrameFits
  <2>5. \A n \in Nonces : Owes(g, n) <=> Owes(Top(t), n)
    BY <1>2, <2>1 DEF Owes
  <2>6. g.pc # "running"
    BY <2>1
  <2>. QED BY <1>1, <1>4, <2>1, <2>2, <2>4, <2>5, <2>6, TurnStep
<1>. QED BY <1>5, <1>6 DEF CheckReplay

(* The gate counts the signers against the threshold and raises the depth, *)
(* or refuses (multisig.py 75-107).                                        *)
LEMMA EnterGateStep ==
  ASSUME FlowInv, NEW t \in Threads, EnterGate(t)
  PROVE  FlowInv'
<1> DEFINE k == Len(stack[t]) - 1
<1>1. At(t, "gate") /\ UNCHANGED <<clock, executed, threshold, history>>
  BY DEF EnterGate
<1>2. /\ Top(t) \in Frames /\ Top(t).pc = "gate" /\ stack[t] # <<>>
      /\ FrameFits(k + 1, Top(t), clock, marks)
      /\ Len(stack[t]) = k + 1 /\ k \in Nat /\ depth[t] = k
      /\ \A n : Owing(stack, t, k, n) <=> Owes(Top(t), n)
  BY <1>1, TopFacts
<1>3. /\ clock \in Nat /\ threshold \in Nat /\ depth \in [Threads -> Nat]
      /\ stack \in [Threads -> Seq(Frames)] /\ calls \in Nat
  BY DEF FlowInv, FlowTypes, TypeOK
<1>5. CASE /\ Cardinality(ValidSigners(Top(t).sigs)) < threshold
           /\ Ends(t, "refused") /\ UNCHANGED depth
  <2> DEFINE g == Blank("refused", Top(t).nonce)
  <2>1. /\ g \in Frames /\ g.pc = "refused"
        /\ FrameFits(Len(stack[t]), g, clock, marks)
        /\ \A n \in Nonces : ~Owes(g, n)
    BY <1>2, EndsFacts DEF Pcs
  <2>2. Becomes(t, g)
    BY <1>5 DEF Ends
  <2> HIDE DEF g
  <2>3. \A n \in Nonces : Owes(g, n) <=> Owes(Top(t), n)
    BY <1>2, <2>1 DEF Owes
  <2>4. g.pc # "running"
    BY <2>1
  <2>5. depth' = [depth EXCEPT ![t] = Len(stack[t]) - 1]
    BY <1>1, <1>5, DepthStays
  <2>. QED BY <1>1, <2>1, <2>2, <2>3, <2>4, <2>5, TurnStep
<1>6. CASE /\ Cardinality(ValidSigners(Top(t).sigs)) >= threshold
           /\ Becomes(t, [Top(t) EXCEPT !.pc = "running", !.began = clock,
                            !.needed = threshold, !.prev = depth[t]])
           /\ depth' = [depth EXCEPT ![t] = @ + 1]
  <2> DEFINE g == [Top(t) EXCEPT !.pc = "running", !.began = clock,
                            !.needed = threshold, !.prev = depth[t]]
  <2>0. depth[t] \in Nat
    BY <1>3
  <2>1. /\ g \in Frames /\ g.pc = "running" /\ g.now = Top(t).now
        /\ g.nonce = Top(t).nonce /\ g.before = Top(t).before
        /\ g.sigs = Top(t).sigs
        /\ g.began = clock /\ g.needed = threshold /\ g.prev = depth[t]
    BY <1>2, <1>3, <2>0 DEF Frames
  <2>2. Becomes(t, g)
    BY <1>6
  <2> HIDE DEF g
  <2>3. /\ Reaches(stack, stack', t, k) /\ Len(stack'[t]) = k + 1
        /\ stack'[t][k + 1] = g
    BY <1>2, <1>3, <2>1, <2>2, BecomesFacts
  <2> HIDE DEF k
  <2>4. g.prev = (k + 1) - 1
    BY <1>2, <2>1
  <2>5. FrameFits(k + 1, g, clock, marks)
    BY <1>2, <1>6, <2>1, <2>4 DEF FrameFits
  <2>6. \A n \in Nonces : Owing(stack', t, k, n) <=> Owing(stack, t, k, n)
    BY <1>2, <2>1, <2>3 DEF Owing, Owes
  <2>7. depth' = [depth EXCEPT ![t] = k + 1] /\ k <= depth[t]
    BY <1>2, <1>6
  <2>8. UNCHANGED <<clock, executed, threshold, returned, marks, accepted>>
        /\ calls' \in Nat
    BY <1>1, <1>3 DEF history
  <2>9. stack'[t][k + 1].pc = "running"
    BY <2>1, <2>3
  <2>. QED BY <1>2, <2>3, <2>5, <2>6, <2>7, <2>8, <2>9, QuietStep
<1>. QED BY <1>5, <1>6 DEF EnterGate

(* Pruning with an old reading of the clock drops only what has left the   *)
(* window (proposal.py 407-412).                                           *)
LEMMA PruneStep ==
  ASSUME FlowInv, NEW t \in Threads, Prune(t)
  PROVE  FlowInv'
<1> DEFINE k == Len(stack[t]) - 1
<1>0. At(t, "prune") /\ UNCHANGED <<clock, threshold, depth, history>>
  BY DEF Prune, gate
<1>1. /\ clock \in Nat /\ depth \in [Threads -> Nat] /\ Window \in Nat
      /\ stack \in [Threads -> Seq(Frames)]
      /\ executed \in [Nonces -> Nat \cup {None}]
      /\ marks \subseteq [nonce : Nonces, at : Nat]
      /\ FlowTypes /\ FramesFit /\ Stacks
  BY FlowAssumption DEF FlowInv, FlowTypes, TypeOK
<1>2. /\ Top(t) \in Frames /\ Top(t).pc = "prune" /\ stack[t] # <<>>
      /\ FrameFits(k + 1, Top(t), clock, marks)
      /\ k \in Nat /\ depth[t] = k
      /\ \A n : Owing(stack, t, k, n) <=> Owes(Top(t), n)
  BY <1>0, TopFacts
<1>3. Top(t).now \in Nat /\ Top(t).now <= clock
  BY <1>2 DEF Frames, FrameFits
<1> DEFINE g == [Top(t) EXCEPT !.pc = "check", !.now = 0]
           now == Top(t).now
<1>4. /\ g \in Frames /\ g.pc = "check" /\ g.now = 0
      /\ g.nonce = Top(t).nonce /\ g.before = Top(t).before
  BY <1>2 DEF Frames
<1>5. Becomes(t, g)
  BY DEF Prune
<1>6. executed' = [n \in Nonces |->
         IF executed[n] # None /\ Stale(executed[n], now)
         THEN None ELSE executed[n]]
  BY DEF Prune
<1> HIDE DEF g, now
<1>7. /\ Reaches(stack, stack', t, k) /\ Len(stack'[t]) = k + 1
      /\ stack'[t][k + 1] = g
  BY <1>1, <1>2, <1>4, <1>5, BecomesFacts
<1> HIDE DEF k
<1>8. FrameFits(k + 1, g, clock, marks)
  BY <1>1, <1>2, <1>4 DEF FrameFits
<1>9. now \in Nat /\ now <= clock
  BY <1>3 DEF now
<1>10. /\ executed' \in [Nonces -> Nat \cup {None}]
       /\ \A n \in Nonces : executed'[n] = executed[n]
            \/ (executed[n] < now - Window /\ executed'[n] = None)
  BY <1>1, <1>6 DEF Stale
<1>11. FlowTypes'
  <2>1. stack' \in [Threads -> Seq(Frames)]
    BY <1>7 DEF Reaches
  <2>. QED BY <1>0, <1>1, <1>10, <2>1 DEF FlowTypes, TypeOK, history
<1>12. FramesFit'
  <2>1. clock' \in Nat /\ clock <= clock' /\ marks \subseteq marks'
    BY <1>0, <1>1 DEF history
  <2>2. FrameFits(k + 1, stack'[t][k + 1], clock', marks')
    BY <1>0, <1>7, <1>8 DEF history
  <2>. QED BY <1>1, <1>2, <1>7, <2>1, <2>2, ReachedFits
<1>13. Stacks'
  <2>1. depth' = [depth EXCEPT ![t] = k] /\ k <= depth[t]
    BY <1>0, <1>1, <1>2
  <2>. QED BY <1>1, <1>2, <1>4, <1>7, <2>1, ReachedStacks
<1>14. MarksKept'
  <2> SUFFICES ASSUME NEW m \in marks
               PROVE  /\ m.at <= clock
                      /\ executed'[m.nonce] >= m.at \/ clock - m.at > Window
    BY <1>0 DEF MarksKept, history
  <2>1. m.at \in Nat /\ m.nonce \in Nonces
    BY <1>1
  <2>2. m.at <= clock /\ (executed[m.nonce] >= m.at \/ clock - m.at > Window)
    BY DEF FlowInv, MarksKept
  <2>3. executed[m.nonce] \in Int
    BY <1>1, <2>1 DEF None
  <2>4. executed'[m.nonce] = executed[m.nonce]
            \/ executed[m.nonce] < now - Window
    BY <1>10, <2>1
  <2>. QED BY <1>1, <1>9, <2>1, <2>2, <2>3, <2>4
<1>15. Trail'
  <2>1. \A n \in Nonces : Owing(stack', t, k, n) <=> Owing(stack, t, k, n)
    BY <1>2, <1>4, <1>7 DEF Owing, Owes
  <2>2. \A n \in Nonces : executed'[n] # None => executed[n] # None
    BY <1>10
  <2>. QED BY <1>0, <1>2, <1>7, <2>1, <2>2, QuietTrail DEF history
<1>. QED BY <1>11, <1>12, <1>13, <1>14, <1>15 DEF FlowInv

(* The function returns: the depth goes back, and a record is owed.        *)
LEMMA FnReturnsStep ==
  ASSUME FlowInv, NEW t \in Threads, FnReturns(t)
  PROVE  FlowInv'
<1> DEFINE k == Len(stack[t]) - 1
           g == Blank("mark", Top(t).nonce)
<1>0. /\ At(t, "running") /\ Becomes(t, g)
      /\ UNCHANGED <<clock, executed, threshold, calls, marks, accepted>>
  BY DEF FnReturns, Ends
<1>1. /\ clock \in Nat /\ depth \in [Threads -> Nat]
      /\ stack \in [Threads -> Seq(Frames)]
      /\ returned \in [Nonces -> Nat] /\ accepted \in [Nonces -> Nat]
      /\ FlowTypes /\ FramesFit /\ Stacks
  BY DEF FlowInv, FlowTypes, TypeOK
<1>2. /\ Top(t) \in Frames /\ Top(t).pc = "running" /\ stack[t] # <<>>
      /\ k \in Nat /\ k <= depth[t] /\ Top(t).prev = k
      /\ \A n : Owing(stack, t, k, n) <=> Owes(Top(t), n)
  BY <1>0, TopFacts
<1>3. /\ g \in Frames /\ g.pc = "mark" /\ g.nonce = Top(t).nonce
      /\ FrameFits(k + 1, g, clock, marks)
  BY <1>2, EndsFacts DEF Pcs
<1>4. Top(t).nonce \in Nonces
  BY <1>2 DEF Frames
<1> HIDE DEF g
<1>5. /\ Reaches(stack, stack', t, k) /\ Len(stack'[t]) = k + 1
      /\ stack'[t][k + 1] = g
  BY <1>0, <1>1, <1>2, <1>3, BecomesFacts
<1>6. depth' = [depth EXCEPT ![t] = k]
  BY <1>2 DEF FnReturns
<1>7. returned' = [returned EXCEPT ![Top(t).nonce] = @ + 1]
  BY DEF FnReturns
<1> HIDE DEF k
<1>8. FlowTypes'
  <2>1. stack' \in [Threads -> Seq(Frames)] /\ depth' \in [Threads -> Nat]
    BY <1>1, <1>2, <1>5, <1>6 DEF Reaches
  <2>2. returned' \in [Nonces -> Nat]
    BY <1>1, <1>4, <1>7
  <2>. QED BY <1>0, <1>1, <2>1, <2>2 DEF FlowTypes, TypeOK
<1>9. FramesFit'
  <2>1. clock' \in Nat /\ clock <= clock' /\ marks \subseteq marks'
    BY <1>0, <1>1
  <2>2. FrameFits(k + 1, stack'[t][k + 1], clock', marks')
    BY <1>0, <1>3, <1>5
  <2>. QED BY <1>1, <1>2, <1>5, <2>1, <2>2, ReachedFits
<1>10. Stacks'
  BY <1>1, <1>2, <1>3, <1>5, <1>6, ReachedStacks
<1>11. MarksKept'
  <2>1. clock' \in Nat /\ clock <= clock'
    BY <1>0, <1>1
  <2>. QED BY <1>0, <2>1, KeepMarks
<1>12. Trail'
  <2> SUFFICES ASSUME NEW n \in Nonces
               PROVE  /\ IsFiniteSet(UnrecordedIn(stack', n))
                      /\ returned'[n] = accepted[n]
                           + Cardinality(UnrecordedIn(stack', n))
                      /\ executed[n] # None => returned'[n] > 0
    BY <1>0 DEF Trail
  <2> DEFINE c == Cardinality(UnrecordedIn(stack, n))
             c2 == Cardinality(UnrecordedIn(stack', n))
  <2>1. /\ IsFiniteSet(UnrecordedIn(stack, n)) /\ returned[n] = accepted[n] + c
        /\ executed[n] # None => returned[n] > 0
    BY DEF FlowInv, Trail
  <2>2. ~Owing(stack, t, k, n)
    BY <1>2 DEF Owes
  <2>3. Owing(stack', t, k, n) <=> Top(t).nonce = n
    BY <1>3, <1>5 DEF Owing, Owes
  <2>4. /\ IsFiniteSet(UnrecordedIn(stack', n)) /\ c \in Nat /\ c2 \in Nat
        /\ Top(t).nonce # n => c2 = c
        /\ Top(t).nonce = n => c2 = c + 1
    BY <1>2, <1>5, <2>1, <2>2, <2>3, OwedFacts
  <2>5. /\ Top(t).nonce # n => returned'[n] = returned[n]
        /\ Top(t).nonce = n => returned'[n] = returned[n] + 1
    BY <1>1, <1>4, <1>7
  <2>6. returned[n] \in Nat /\ accepted[n] \in Nat
    BY <1>1
  <2> HIDE DEF c, c2
  <2>7. returned'[n] = accepted[n] + c2
    BY <2>1, <2>4, <2>5, <2>6
  <2>8. executed[n] # None => returned'[n] > 0
    BY <2>1, <2>5, <2>6
  <2>. QED BY <2>4, <2>7, <2>8 DEF c2
<1>. QED BY <1>8, <1>9, <1>10, <1>11, <1>12 DEF FlowInv

(* The function raises: the depth goes back, and no record is owed.        *)
LEMMA FnRaisesStep ==
  ASSUME FlowInv, NEW t \in Threads, FnRaises(t)
  PROVE  FlowInv'
<1> DEFINE k == Len(stack[t]) - 1
<1>0. At(t, "running") /\ UNCHANGED <<clock, executed, threshold, history>>
  BY DEF FnRaises
<1>1. stack \in [Threads -> Seq(Frames)] /\ calls \in Nat
  BY DEF FlowInv, FlowTypes, TypeOK
<1>2. /\ Top(t) \in Frames /\ Top(t).pc = "running" /\ stack[t] # <<>>
      /\ k \in Nat /\ k <= depth[t] /\ Top(t).prev = k
      /\ \A n : Owing(stack, t, k, n) <=> Owes(Top(t), n)
  BY <1>0, TopFacts
<1>3. depth' = [depth EXCEPT ![t] = k]
  BY <1>2 DEF FnRaises
<1>4. CASE Ends(t, "refused")
  <2> DEFINE g == Blank("refused", Top(t).nonce)
  <2>1. /\ g \in Frames /\ g.pc = "refused"
        /\ FrameFits(Len(stack[t]), g, clock, marks)
        /\ \A n \in Nonces : ~Owes(g, n)
    BY <1>2, EndsFacts DEF Pcs
  <2>2. Becomes(t, g)
    BY <1>4 DEF Ends
  <2> HIDE DEF g
  <2>3. \A n \in Nonces : Owes(g, n) <=> Owes(Top(t), n)
    BY <1>2, <2>1 DEF Owes
  <2>4. g.pc # "running"
    BY <2>1
  <2>. QED BY <1>0, <1>3, <2>1, <2>2, <2>3, <2>4, TurnStep
<1>5. CASE Pops(t, FALSE)
  <2>1. Reaches(stack, stack', t, k) /\ Len(stack'[t]) = k
    BY <1>1, <1>2, <1>5, PopsFacts
  <2> HIDE DEF k
  <2>2. Len(stack'[t]) # k + 1
    BY <1>2, <2>1
  <2>3. \A n \in Nonces : Owing(stack', t, k, n) <=> Owing(stack, t, k, n)
    BY <1>2, <2>2 DEF Owing, Owes
  <2>4. UNCHANGED <<clock, executed, threshold, returned, marks, accepted>>
        /\ calls' \in Nat
    BY <1>0, <1>1 DEF history
  <2>. QED BY <1>2, <1>3, <2>1, <2>2, <2>3, <2>4, QuietStep
<1>. QED BY <1>4, <1>5 DEF FnRaises

(* The nonce goes into the cache for a call whose record is to come.       *)
LEMMA MarkStep ==
  ASSUME FlowInv, NEW t \in Threads, Mark(t)
  PROVE  FlowInv'
<1> DEFINE k == Len(stack[t]) - 1
           g == Blank("accepted", Top(t).nonce)
           n == Top(t).nonce
<1>0. /\ At(t, "mark") /\ Becomes(t, g)
      /\ executed' = [executed EXCEPT ![n] = clock]
      /\ marks' = marks \cup {[nonce |-> n, at |-> clock]}
      /\ UNCHANGED <<clock, threshold, depth, calls, returned, accepted>>
  BY DEF Mark, Ends, gate
<1>1. /\ clock \in Nat /\ depth \in [Threads -> Nat] /\ Window \in Nat
      /\ stack \in [Threads -> Seq(Frames)]
      /\ executed \in [Nonces -> Nat \cup {None}]
      /\ marks \subseteq [nonce : Nonces, at : Nat]
      /\ FlowTypes /\ FramesFit /\ Stacks
  BY FlowAssumption DEF FlowInv, FlowTypes, TypeOK
<1>2. /\ Top(t) \in Frames /\ Top(t).pc = "mark" /\ stack[t] # <<>>
      /\ k \in Nat /\ depth[t] = k
      /\ \A x : Owing(stack, t, k, x) <=> Owes(Top(t), x)
  BY <1>0, TopFacts
<1>3. /\ g \in Frames /\ g.pc = "accepted" /\ g.nonce = n
      /\ \A ms : FrameFits(k + 1, g, clock, ms)
  <2>1. n \in Nonces
    BY <1>2 DEF Frames
  <2>. QED BY <1>1, <2>1, BlankFacts DEF Pcs
<1>4. n \in Nonces
  BY <1>2 DEF Frames
<1> HIDE DEF g
<1>5. /\ Reaches(stack, stack', t, k) /\ Len(stack'[t]) = k + 1
      /\ stack'[t][k + 1] = g
  BY <1>0, <1>1, <1>2, <1>3, BecomesFacts
<1>6. \A x : Owing(stack, t, k, x) <=> n = x
  BY <1>2 DEF Owes
<1> HIDE DEF k, n
<1>7. /\ executed' \in [Nonces -> Nat \cup {None}]
      /\ executed'[n] = clock
      /\ \A x \in Nonces : x # n => executed'[x] = executed[x]
  BY <1>0, <1>1, <1>4
<1>8. FlowTypes'
  <2>1. stack' \in [Threads -> Seq(Frames)]
    BY <1>5 DEF Reaches
  <2>2. marks' \subseteq [nonce : Nonces, at : Nat]
    BY <1>0, <1>1, <1>4
  <2>. QED BY <1>0, <1>1, <1>7, <2>1, <2>2 DEF FlowTypes, TypeOK
<1>9. FramesFit'
  <2>1. clock' \in Nat /\ clock <= clock' /\ marks \subseteq marks'
    BY <1>0, <1>1
  <2>2. FrameFits(k + 1, stack'[t][k + 1], clock', marks')
    BY <1>0, <1>3, <1>5
  <2>. QED BY <1>1, <1>2, <1>5, <2>1, <2>2, ReachedFits
<1>10. Stacks'
  <2>1. depth' = [depth EXCEPT ![t] = k] /\ k <= depth[t]
    BY <1>0, <1>1, <1>2
  <2>. QED BY <1>1, <1>2, <1>3, <1>5, <2>1, ReachedStacks
<1>11. MarksKept'
  <2> SUFFICES ASSUME NEW m \in marks'
               PROVE  /\ m.at <= clock
                      /\ executed'[m.nonce] >= m.at \/ clock - m.at > Window
    BY <1>0 DEF MarksKept
  <2>1. CASE m \in marks
    <3>1. m.at \in Nat /\ m.nonce \in Nonces
      BY <1>1, <2>1
    <3>2. m.at <= clock /\ (executed[m.nonce] >= m.at \/ clock - m.at > Window)
      BY <2>1 DEF FlowInv, MarksKept
    <3>. QED BY <1>1, <1>7, <3>1, <3>2
  <2>2. CASE m = [nonce |-> n, at |-> clock]
    <3>1. m.at = clock /\ m.nonce = n
      BY <2>2
    <3>. QED BY <1>1, <1>7, <3>1
  <2>. QED BY <1>0, <2>1, <2>2
<1>12. Trail'
  <2>1. \A x \in Nonces : Owing(stack', t, k, x) <=> Owing(stack, t, k, x)
    BY <1>3, <1>5, <1>6 DEF Owing, Owes
  <2>2. \A x \in Nonces : executed'[x] # None =>
          executed[x] # None \/ Owing(stack, t, k, x)
    BY <1>6, <1>7
  <2>. QED BY <1>0, <1>2, <1>5, <2>1, <2>2, QuietTrail
<1>. QED BY <1>8, <1>9, <1>10, <1>11, <1>12 DEF FlowInv

(* A record is sent and the call is over (proposal.py 358-366).            *)
LEMMA RecordStep ==
  ASSUME FlowInv, NEW t \in Threads, Record(t)
  PROVE  FlowInv'
<1> DEFINE k == Len(stack[t]) - 1
<1>0. PICK pc \in {"accepted", "replayed", "refused"} : At(t, pc)
  BY DEF Record
<1>1. /\ clock \in Nat /\ depth \in [Threads -> Nat]
      /\ stack \in [Threads -> Seq(Frames)]
      /\ returned \in [Nonces -> Nat] /\ accepted \in [Nonces -> Nat]
      /\ FlowTypes /\ FramesFit /\ Stacks
  BY DEF FlowInv, FlowTypes, TypeOK
<1>2. /\ Top(t) \in Frames /\ Top(t).pc = pc /\ stack[t] # <<>>
      /\ k \in Nat /\ depth[t] = k
      /\ \A x : Owing(stack, t, k, x) <=> Owes(Top(t), x)
  BY <1>0, TopFacts
<1>3. Top(t).nonce \in Nonces
  BY <1>2 DEF Frames
<1>4. UNCHANGED <<clock, executed, threshold, depth, calls, returned, marks>>
  BY DEF Record, gate
<1>5. Reaches(stack, stack', t, k) /\ Len(stack'[t]) = k
  <2>1. At(t, "refused") \in BOOLEAN /\ Pops(t, At(t, "refused"))
    BY DEF Record, At
  <2>. QED BY <1>1, <1>2, <2>1, PopsFacts
<1>6. At(t, "accepted") <=> pc = "accepted"
  BY <1>2 DEF At
<1>7. accepted' = IF pc = "accepted"
                  THEN [accepted EXCEPT ![Top(t).nonce] = @ + 1] ELSE accepted
  BY <1>6 DEF Record
<1> HIDE DEF k
<1>8. Len(stack'[t]) # k + 1
  BY <1>2, <1>5
<1>9. FlowTypes'
  <2>1. stack' \in [Threads -> Seq(Frames)]
    BY <1>5 DEF Reaches
  <2>2. accepted' \in [Nonces -> Nat]
    BY <1>1, <1>3, <1>7
  <2>. QED BY <1>1, <1>4, <2>1, <2>2 DEF FlowTypes, TypeOK
<1>10. FramesFit'
  <2>1. clock' \in Nat /\ clock <= clock' /\ marks \subseteq marks'
    BY <1>1, <1>4
  <2>. QED BY <1>1, <1>2, <1>5, <1>8, <2>1, ReachedFits
<1>11. Stacks'
  <2>1. depth' = [depth EXCEPT ![t] = k] /\ k <= depth[t]
    BY <1>1, <1>2, <1>4
  <2>. QED BY <1>1, <1>2, <1>5, <1>8, <2>1, ReachedStacks
<1>12. MarksKept'
  <2>1. clock' \in Nat /\ clock <= clock'
    BY <1>1, <1>4
  <2>. QED BY <1>4, <2>1, KeepMarks
<1>13. Trail'
  <2> SUFFICES ASSUME NEW n \in Nonces
               PROVE  /\ IsFiniteSet(UnrecordedIn(stack', n))
                      /\ returned[n] = accepted'[n]
                           + Cardinality(UnrecordedIn(stack', n))
                      /\ executed[n] # None => returned[n] > 0
    BY <1>4 DEF Trail
  <2> DEFINE c == Cardinality(UnrecordedIn(stack, n))
             c2 == Cardinality(UnrecordedIn(stack', n))
  <2>1. /\ IsFiniteSet(UnrecordedIn(stack, n)) /\ returned[n] = accepted[n] + c
        /\ executed[n] # None => returned[n] > 0
    BY DEF FlowInv, Trail
  <2>2. Owing(stack, t, k, n) <=> (pc = "accepted" /\ Top(t).nonce = n)
    BY <1>2 DEF Owes
  <2>3. ~Owing(stack', t, k, n)
    BY <1>8 DEF Owing
  <2>4. /\ IsFiniteSet(UnrecordedIn(stack', n)) /\ c \in Nat /\ c2 \in Nat
        /\ ~Owing(stack, t, k, n) => c2 = c
        /\ Owing(stack, t, k, n) => c = c2 + 1
    BY <1>2, <1>5, <2>1, <2>3, OwedFacts
  <2>5. /\ ~Owing(stack, t, k, n) => accepted'[n] = accepted[n]
        /\ Owing(stack, t, k, n) => accepted'[n] = accepted[n] + 1
    BY <1>1, <1>3, <1>7, <2>2
  <2>6. returned[n] \in Nat /\ accepted[n] \in Nat
    BY <1>1
  <2> HIDE DEF c, c2
  <2>7. returned[n] = accepted'[n] + c2
    BY <2>1, <2>4, <2>5, <2>6
  <2>. QED BY <2>1, <2>4, <2>7 DEF c2
<1>. QED BY <1>9, <1>10, <1>11, <1>12, <1>13 DEF FlowInv

(* Time passes, or the threshold is set: no call moves.                    *)
LEMMA IdleStep ==
  ASSUME FlowInv, clock' \in Nat, clock <= clock', threshold' \in Nat \ {0},
         UNCHANGED <<executed, stack, depth, history>>
  PROVE  FlowInv'
<1>1. FlowTypes'
  BY DEF FlowInv, FlowTypes, TypeOK, history
<1>2. FramesFit'
  <2> SUFFICES ASSUME NEW t \in Threads, NEW i \in 1..Len(stack[t])
               PROVE  FrameFits(i, stack[t][i], clock', marks)
    BY DEF FramesFit, history
  <2>1. /\ stack[t] \in Seq(Frames) /\ clock \in Nat
        /\ FrameFits(i, stack[t][i], clock, marks)
    BY DEF FlowInv, FlowTypes, TypeOK, FramesFit
  <2>2. stack[t][i] \in Frames /\ Like(stack[t][i], stack[t][i])
    BY <2>1 DEF Like
  <2>. QED BY <2>1, <2>2, FitsLater
<1>3. Stacks' /\ Trail'
  BY DEF FlowInv, Stacks, Trail, history
<1>4. MarksKept'
  BY KeepMarks DEF history
<1>. QED BY <1>1, <1>2, <1>3, <1>4 DEF FlowInv

(* There are keys, and as many as can be counted.                          *)
LEMMA KeysFinite == IsFiniteSet(Keys) /\ Cardinality(Keys) \in Nat
<1>1. IsFiniteSet(Keys)
  BY FlowAssumption, FS_AddElement DEF Keys
<1>. QED BY <1>1, FS_CardinalityType

(* Every step of the flow keeps its invariant.                             *)
LEMMA FlowKept == FlowInv /\ [Next]_vars => FlowInv'
<1> SUFFICES ASSUME FlowInv, [Next]_vars PROVE FlowInv'
  OBVIOUS
<1>0. clock \in Nat /\ threshold \in Nat \ {0}
  BY DEF FlowInv, FlowTypes, TypeOK
<1>1. CASE Tick
  BY <1>0, <1>1, IdleStep DEF Tick, gate
<1>2. ASSUME NEW n \in 1..Cardinality(Keys), SetThreshold(n) PROVE FlowInv'
  BY <1>0, <1>2, IdleStep, KeysFinite DEF SetThreshold
<1>3. ASSUME NEW t \in Threads, Proceed(t) PROVE FlowInv'
  BY <1>3, CallSteps, ReadCutoffStep, PruneStep, CheckReplayStep,
     EnterGateStep, FnReturnsStep, FnRaisesStep, MarkStep, RecordStep
     DEF Proceed
<1>4. CASE UNCHANGED vars
  BY <1>0, <1>4, IdleStep DEF vars, gate
<1>. QED BY <1>1, <1>2, <1>3, <1>4, CallSteps DEF Next

(* It holds when the flow and its gate are made.                           *)
LEMMA FlowStarts == Init => FlowInv
<1> SUFFICES ASSUME Init PROVE FlowInv
  OBVIOUS
<1>1. FlowTypes
  BY KeysFinite DEF Init, FlowTypes, TypeOK
<1>2. FramesFit /\ Stacks /\ MarksKept
  BY DEF Init, FramesFit, Stacks, Stacked, MarksKept
<1>3. \A n : UnrecordedIn(stack, n) = {}
  <2>1. /\ stack \in [Threads -> Seq(Frames)]
        /\ \A t \in Threads : 1..Len(stack[t]) = {}
    BY <1>1 DEF FlowTypes, Init
  <2>. QED BY <2>1, UnrecordedMember
<1>4. Trail
  <2> SUFFICES ASSUME NEW n \in Nonces
               PROVE  /\ IsFiniteSet(UnrecordedIn(stack, n))
                      /\ returned[n] = accepted[n]
                           + Cardinality(UnrecordedIn(stack, n))
                      /\ executed[n] = None
    BY DEF Trail
  <2>1. returned[n] = 0 /\ accepted[n] = 0 /\ executed[n] = None
    BY DEF Init
  <2>2. /\ IsFiniteSet(UnrecordedIn(stack, n))
        /\ Cardinality(UnrecordedIn(stack, n)) = 0
    BY <1>3, FS_EmptySet
  <2>. QED BY <2>1, <2>2
<1>. QED BY <1>1, <1>2, <1>4 DEF FlowInv

-----------------------------------------------------------------------------
(* The variables of the flow and its gate keep their types: the stacks     *)
(* hold frames of execute and the depth never goes below zero.             *)
THEOREM FlowTypeCorrect == Spec => []TypeOK
<1>1. FlowInv => TypeOK
  BY DEF FlowInv, FlowTypes
<1>. QED BY <1>1, FlowStarts, FlowKept, PTL DEF Spec

(* The depth of a thread is the number of approved calls it is inside of,  *)
(* however they nest and end, and each had its signers (multisig.py        *)
(* 75-107): Gate.execute restores in its finally what it found, and what   *)
(* it found is the number of calls below.                                  *)
THEOREM ApprovalIsDepth == Spec => []DepthIsApproval
<1>1. FlowInv => DepthIsApproval
  <2> SUFFICES ASSUME FlowInv, NEW t \in Threads
               PROVE  /\ depth[t] = Cardinality(Running(t))
                      /\ \A i \in Running(t) :
                           Cardinality({q \in Keys :
                             <<q, TRUE>> \in stack[t][i].sigs})
                               >= stack[t][i].needed
    BY DEF DepthIsApproval
  <2>1. stack[t] \in Seq(Frames) /\ depth[t] \in Nat
    BY DEF FlowInv, FlowTypes, TypeOK
  <2>2. Stacked(stack[t], depth[t])
    BY DEF FlowInv, Stacks
  <2>3. \A i \in 1..Len(stack[t]) : FrameFits(i, stack[t][i], clock, marks)
    BY DEF FlowInv, FramesFit
  <2>4. Running(t) = 1..depth[t]
    BY <2>1, <2>2 DEF Running, Stacked
  <2>5. Cardinality(1..depth[t]) = depth[t]
    <3> DEFINE d == depth[t]
    <3> HIDE DEF d
    <3>0. d \in Nat
      BY <2>1 DEF d
    <3>1. Cardinality(1..d) = IF 1 > d THEN 0 ELSE d - 1 + 1
      BY <3>0, FS_Interval
    <3>2. Cardinality(1..d) = d
      BY <3>0, <3>1
    <3>. QED BY <3>2 DEF d
  <2>6. \A i \in Running(t) :
          i \in 1..Len(stack[t]) /\ stack[t][i].pc = "running"
    BY <2>1 DEF Running
  <2>7. \A i \in Running(t) :
          Cardinality(ValidSigners(stack[t][i].sigs)) >= stack[t][i].needed
    BY <2>3, <2>6 DEF FrameFits
  <2>. QED BY <2>4, <2>5, <2>7 DEF ValidSigners
<1>. QED BY <1>1, FlowStarts, FlowKept, PTL DEF Spec

(* A nonce executed before a call was made does not run again inside its   *)
(* window, whichever thread prunes the cache and with whichever reading of *)
(* the clock (proposal.py 349-356, 407-412).                               *)
THEOREM ExecutedIsNotReplayed == Spec => []NoReplayOfExecuted
<1>1. FlowInv => NoReplayOfExecuted
  <2> SUFFICES ASSUME FlowInv, NEW t \in Threads, NEW i \in DOMAIN stack[t],
                      stack[t][i].pc = "running"
               PROVE  \A m \in stack[t][i].before :
                        stack[t][i].began - m.at > Window
    BY DEF NoReplayOfExecuted
  <2>1. stack[t] \in Seq(Frames)
    BY DEF FlowInv, FlowTypes, TypeOK
  <2>2. i \in 1..Len(stack[t])
    BY <2>1
  <2>3. FrameFits(i, stack[t][i], clock, marks)
    BY <2>2 DEF FlowInv, FramesFit
  <2>. QED BY <2>3 DEF FrameFits
<1>. QED BY <1>1, FlowStarts, FlowKept, PTL DEF Spec

(* One acceptance is recorded for every function that returned, none for   *)
(* one that raised, and the cache names only nonces that ran (proposal.py  *)
(* 358-366).                                                               *)
THEOREM TrailIsComplete == Spec => []TrailMatchesRuns
<1>1. FlowInv => TrailMatchesRuns
  BY DEF FlowInv, Trail, TrailMatchesRuns, Unrecorded, UnrecordedIn
<1>. QED BY <1>1, FlowStarts, FlowKept, PTL DEF Spec

-----------------------------------------------------------------------------
(* Counting, of any reports.                                               *)
CountingIn(rep, a) == {t \in Threads : rep[t] # NoReport /\ rep[t].type = a}

Reports == [type : ActionTypes, read : Nat]

(* The metric falls behind only where two threads counted at once, and     *)
(* every direct call that is not over is being counted.                    *)
MetricInv ==
  /\ \A a \in ActionTypes :
       /\ IsFiniteSet(CountingIn(report, a))
       /\ direct[a] = ended[a] + Cardinality(CountingIn(report, a))
       /\ metric[a] <= ended[a] /\ (ended[a] > 0 => metric[a] > 0)
       /\ a \notin raced =>
            /\ metric[a] = ended[a]
            /\ \A t, u \in CountingIn(report, a) : t = u
            /\ \A t \in CountingIn(report, a) : report[t].read = metric[a]
  /\ \A t \in Threads : report[t] # NoReport =>
       report[t].read <= ended[report[t].type]

BypassInv == FlowInv /\ BypassTypeOK /\ MetricInv

(* A gated function of a thread without approval never runs: the depth is  *)
(* zero then (multisig.py 106-110, 136-140).                               *)
LEMMA GatedRunsStep ==
  ASSUME BypassInv, NEW t \in Threads, NEW a \in ActionTypes, GatedRuns(t, a)
  PROVE  UNCHANGED <<vars, bypass>>
<1>1. stack[t] \in Seq(Frames) /\ depth[t] \in Nat /\ depth[t] > 0
  BY DEF BypassInv, FlowInv, FlowTypes, TypeOK, GatedRuns, IsExecuting
<1>2. Stacked(stack[t], depth[t])
  BY DEF BypassInv, FlowInv, Stacks
<1>3. 1 \in DOMAIN stack[t] /\ stack[t][1].pc = "running"
  BY <1>1, <1>2 DEF Stacked
<1>4. /\ direct' = [direct EXCEPT ![a] = direct[a]]
      /\ ended' = [ended EXCEPT ![a] = ended[a]]
  BY <1>3 DEF GatedRuns
<1>5. direct \in [ActionTypes -> 0..MaxDirect]
      /\ ended \in [ActionTypes -> 0..MaxDirect]
  BY DEF BypassInv, BypassTypeOK
<1>6. direct' = direct /\ ended' = ended
  BY <1>4, <1>5
<1>. QED BY <1>6 DEF GatedRuns, bypass

(* What a thread that is counting has in hand.                             *)
LEMMA ReportFacts ==
  ASSUME BypassTypeOK, NEW t \in Threads, report[t] # NoReport
  PROVE  report[t].type \in ActionTypes /\ report[t].read \in Nat
<1>1. report[t] \in Reports
  BY DEF BypassTypeOK, Reports
<1>. QED BY <1>1 DEF Reports

(* A direct call is counted from here on.                                  *)
LEMMA ReadBypassStep ==
  ASSUME BypassInv, NEW t \in Threads, NEW a \in ActionTypes,
         ReadBypass(t, a)
  PROVE  BypassTypeOK' /\ MetricInv'
<1> DEFINE r == [type |-> a, read |-> metric[a]]
<1>0. /\ report[t] = NoReport /\ direct[a] < MaxDirect
      /\ direct' = [direct EXCEPT ![a] = @ + 1]
      /\ report' = [report EXCEPT ![t] = r]
      /\ raced' = IF Counting(a) = {} THEN raced ELSE raced \cup {a}
      /\ UNCHANGED <<vars, metric, ended>>
  BY DEF ReadBypass, Idle
<1>1. /\ BypassTypeOK /\ MetricInv /\ TypeOK /\ MaxDirect \in Nat
      /\ metric \in [ActionTypes -> Nat]
      /\ report \in [Threads -> Reports \cup {NoReport}]
      /\ direct \in [ActionTypes -> 0..MaxDirect]
      /\ ended \in [ActionTypes -> 0..MaxDirect]
      /\ raced \subseteq ActionTypes
  BY BypassAssumption DEF BypassInv, BypassTypeOK, Reports
<1>2. r \in Reports /\ r # NoReport /\ r.type = a /\ r.read = metric[a]
  BY <1>1, BypassAssumption DEF Reports
<1>3. /\ report' \in [Threads -> Reports \cup {NoReport}] /\ report'[t] = r
      /\ \A u \in Threads : u # t => report'[u] = report[u]
  BY <1>0, <1>1, <1>2
<1> HIDE DEF r
<1>4. /\ direct' \in [ActionTypes -> 0..MaxDirect] /\ direct'[a] = direct[a] + 1
      /\ \A b \in ActionTypes : b # a => direct'[b] = direct[b]
  BY <1>0, <1>1
<1>5. TypeOK'
  BY <1>0, <1>1 DEF TypeOK, vars, gate, history
<1>6. BypassTypeOK'
  BY <1>0, <1>1, <1>3, <1>4, <1>5 DEF BypassTypeOK, Reports
<1>7. /\ CountingIn(report', a) = CountingIn(report, a) \cup {t}
      /\ t \notin CountingIn(report, a)
      /\ \A b \in ActionTypes : b # a =>
           CountingIn(report', b) = CountingIn(report, b)
  <2>1. t \notin CountingIn(report, a)
    BY <1>0 DEF CountingIn
  <2>2. CountingIn(report', a) = CountingIn(report, a) \cup {t}
    BY <1>2, <1>3 DEF CountingIn
  <2>3. ASSUME NEW b \in ActionTypes, b # a
        PROVE  CountingIn(report', b) = CountingIn(report, b)
    BY <1>0, <1>2, <1>3, <2>3 DEF CountingIn
  <2>. QED BY <2>1, <2>2, <2>3
<1>8. Counting(a) = CountingIn(report, a)
  BY DEF Counting, CountingIn, Idle
<1>9. ASSUME NEW b \in ActionTypes
      PROVE  /\ IsFiniteSet(CountingIn(report', b))
             /\ direct'[b] = ended[b] + Cardinality(CountingIn(report', b))
  <2> DEFINE A == CountingIn(report, b)
  <2>0. IsFiniteSet(A) /\ direct[b] = ended[b] + Cardinality(A)
    BY <1>1 DEF MetricInv
  <2>1. CASE b # a
    BY <1>4, <1>7, <2>0, <2>1
  <2>2. CASE b = a
    <3>1. CountingIn(report', b) = A \cup {t} /\ t \notin A
      BY <1>7, <2>2
    <3>2. Cardinality(A) \in Nat /\ ended[b] \in Nat /\ direct[b] \in Nat
      BY <1>1, <2>0, FS_CardinalityType
    <3> HIDE DEF A
    <3>3. IsFiniteSet(A \cup {t}) /\ Cardinality(A \cup {t}) = Cardinality(A) + 1
      BY <2>0, <3>1, FS_AddElement
    <3>. QED BY <1>4, <2>0, <2>2, <3>1, <3>2, <3>3
  <2>. QED BY <2>1, <2>2
<1>10. ASSUME NEW b \in ActionTypes, b \notin raced'
       PROVE  /\ metric[b] = ended[b]
              /\ \A u, v \in CountingIn(report', b) : u = v
              /\ \A u \in CountingIn(report', b) : report'[u].read = metric[b]
  <2>0. b \notin raced
    BY <1>0, <1>10
  <2>1. /\ metric[b] = ended[b]
        /\ \A u, v \in CountingIn(report, b) : u = v
        /\ \A u \in CountingIn(report, b) : report[u].read = metric[b]
    BY <1>1, <2>0 DEF MetricInv
  <2>2. CASE b # a
    <3>1. CountingIn(report', b) = CountingIn(report, b)
      BY <1>7, <2>2
    <3>2. \A u \in CountingIn(report, b) : report'[u] = report[u]
      BY <1>0, <1>3 DEF CountingIn
    <3>. QED BY <2>1, <3>1, <3>2
  <2>3. CASE b = a
    <3>1. CountingIn(report, a) = {}
      BY <1>0, <1>8, <1>10, <2>3
    <3>2. CountingIn(report', b) = {t}
      BY <1>7, <2>3, <3>1
    <3>. QED BY <1>2, <1>3, <2>1, <2>3, <3>2
  <2>. QED BY <2>2, <2>3
<1>11. ASSUME NEW u \in Threads, report'[u] # NoReport
       PROVE  report'[u].read <= ended[report'[u].type]
  <2>1. CASE u = t
    BY <1>1, <1>2, <1>3, <2>1 DEF MetricInv
  <2>2. CASE u # t
    BY <1>1, <1>3, <1>11, <2>2 DEF MetricInv
  <2>. QED BY <2>1, <2>2
<1>12. metric' = metric /\ ended' = ended
  BY <1>0
<1>13. \A b \in ActionTypes :
         metric[b] <= ended[b] /\ (ended[b] > 0 => metric[b] > 0)
  BY <1>1 DEF MetricInv
<1>14. MetricInv'
  BY <1>9, <1>10, <1>11, <1>12, <1>13 DEF MetricInv
<1>. QED BY <1>6, <1>14

(* It is over when the count is written.                                   *)
LEMMA WriteBypassStep ==
  ASSUME BypassInv, NEW t \in Threads, WriteBypass(t)
  PROVE  BypassTypeOK' /\ MetricInv'
<1> DEFINE a == report[t].type
           n == report[t].read
<1>0. /\ report[t] # NoReport
      /\ metric' = [metric EXCEPT ![a] = n + 1]
      /\ ended' = [ended EXCEPT ![a] = @ + 1]
      /\ report' = [report EXCEPT ![t] = NoReport]
      /\ UNCHANGED <<vars, direct, raced>>
  BY DEF WriteBypass, Idle
<1>1. /\ BypassTypeOK /\ MetricInv /\ TypeOK /\ MaxDirect \in Nat
      /\ metric \in [ActionTypes -> Nat]
      /\ report \in [Threads -> Reports \cup {NoReport}]
      /\ direct \in [ActionTypes -> 0..MaxDirect]
      /\ ended \in [ActionTypes -> 0..MaxDirect]
      /\ raced \subseteq ActionTypes
  BY BypassAssumption DEF BypassInv, BypassTypeOK, Reports
<1>2. a \in ActionTypes /\ n \in Nat
  BY <1>0, <1>1, ReportFacts
<1>3. n <= ended[a]
  BY <1>0, <1>1 DEF MetricInv
<1>4. t \in CountingIn(report, a)
  BY DEF CountingIn, WriteBypass, Idle
<1>5. a \notin raced => metric[a] = n /\ CountingIn(report, a) = {t}
  BY <1>1, <1>2, <1>4 DEF MetricInv
<1>6. \A b \in ActionTypes : b # a => t \notin CountingIn(report, b)
  BY DEF CountingIn
<1> HIDE DEF a, n
<1>7. /\ report' \in [Threads -> Reports \cup {NoReport}]
      /\ report'[t] = NoReport
      /\ \A u \in Threads : u # t => report'[u] = report[u]
  BY <1>0, <1>1
<1>8. /\ CountingIn(report', a) = CountingIn(report, a) \ {t}
      /\ \A b \in ActionTypes : b # a =>
           CountingIn(report', b) = CountingIn(report, b)
  <2>1. CountingIn(report', a) = CountingIn(report, a) \ {t}
    BY <1>7 DEF CountingIn
  <2>2. ASSUME NEW b \in ActionTypes, b # a
        PROVE  CountingIn(report', b) = CountingIn(report, b)
    BY <1>6, <1>7, <2>2 DEF CountingIn
  <2>. QED BY <2>1, <2>2
<1>9. /\ ended'[a] = ended[a] + 1 /\ metric'[a] = n + 1
      /\ \A b \in ActionTypes : b # a =>
           ended'[b] = ended[b] /\ metric'[b] = metric[b]
  BY <1>0, <1>1, <1>2
<1>10. ASSUME NEW b \in ActionTypes
       PROVE  /\ IsFiniteSet(CountingIn(report', b))
              /\ direct[b] = ended'[b] + Cardinality(CountingIn(report', b))
              /\ ended'[b] \in 0..MaxDirect
  <2> DEFINE A == CountingIn(report, b)
  <2>0. IsFiniteSet(A) /\ direct[b] = ended[b] + Cardinality(A)
    BY <1>1 DEF MetricInv
  <2>1. CASE b # a
    BY <1>1, <1>8, <1>9, <2>0, <2>1
  <2>2. CASE b = a
    <3>1. CountingIn(report', b) = A \ {t} /\ t \in A
      BY <1>4, <1>8, <2>2
    <3>2. Cardinality(A) \in Nat /\ ended[b] \in Nat /\ direct[b] \in 0..MaxDirect
      BY <1>1, <2>0, FS_CardinalityType
    <3> HIDE DEF A
    <3>3. IsFiniteSet(A \ {t}) /\ Cardinality(A \ {t}) = Cardinality(A) - 1
      BY <2>0, <3>1, FS_RemoveElement
    <3>4. Cardinality(A \ {t}) \in Nat
      BY <3>3, FS_CardinalityType
    <3>. QED BY <1>1, <1>9, <2>0, <2>2, <3>1, <3>2, <3>3, <3>4
  <2>. QED BY <2>1, <2>2
<1>11. BypassTypeOK'
  <2>1. TypeOK'
    BY <1>0, <1>1 DEF TypeOK, vars, gate, history
  <2>2. metric' \in [ActionTypes -> Nat]
    BY <1>0, <1>1, <1>2
  <2>3. ended' \in [ActionTypes -> 0..MaxDirect]
    BY <1>0, <1>1, <1>10
  <2>. QED BY <1>0, <1>1, <1>7, <2>1, <2>2, <2>3 DEF BypassTypeOK, Reports
<1>12. ASSUME NEW b \in ActionTypes
       PROVE  metric'[b] <= ended'[b] /\ (ended'[b] > 0 => metric'[b] > 0)
  <2>1. CASE b = a
    <3>1. ended[a] \in Nat
      BY <1>1, <1>2
    <3>. QED BY <1>2, <1>3, <1>9, <2>1, <3>1
  <2>2. CASE b # a
    BY <1>1, <1>9, <2>2 DEF MetricInv
  <2>. QED BY <2>1, <2>2
<1>13. ASSUME NEW b \in ActionTypes, b \notin raced
       PROVE  /\ metric'[b] = ended'[b]
              /\ \A u, v \in CountingIn(report', b) : u = v
              /\ \A u \in CountingIn(report', b) : report'[u].read = metric'[b]
  <2>1. /\ metric[b] = ended[b]
        /\ \A u, v \in CountingIn(report, b) : u = v
        /\ \A u \in CountingIn(report, b) : report[u].read = metric[b]
    BY <1>1, <1>13 DEF MetricInv
  <2>2. CASE b # a
    <3>1. CountingIn(report', b) = CountingIn(report, b)
      BY <1>8, <2>2
    <3>2. \A u \in CountingIn(report, b) : report'[u] = report[u]
      BY <1>6, <1>7, <2>2 DEF CountingIn
    <3>. QED BY <1>9, <2>1, <2>2, <3>1, <3>2
  <2>3. CASE b = a
    <3>1. CountingIn(report', b) = {}
      BY <1>5, <1>8, <1>13, <2>3
    <3>2. metric'[b] = ended'[b]
      BY <1>5, <1>9, <1>13, <2>1, <2>3
    <3>. QED BY <3>1, <3>2
  <2>. QED BY <2>2, <2>3
<1>14. ASSUME NEW u \in Threads, report'[u] # NoReport
       PROVE  report'[u].read <= ended'[report'[u].type]
  <2>1. u # t /\ report'[u] = report[u]
    BY <1>7, <1>14
  <2>2. report[u].read <= ended[report[u].type]
    BY <1>1, <1>14, <2>1 DEF MetricInv
  <2>3. report[u].read \in Nat /\ report[u].type \in ActionTypes
    BY <1>1, <1>14, <2>1, ReportFacts
  <2>4. /\ ended[report[u].type] \in Nat
        /\ \/ ended'[report[u].type] = ended[report[u].type]
           \/ ended'[report[u].type] = ended[report[u].type] + 1
    BY <1>1, <1>9, <2>3
  <2>. QED BY <2>1, <2>2, <2>3, <2>4
<1>15. direct' = direct /\ raced' = raced
  BY <1>0
<1>16. MetricInv'
  BY <1>10, <1>12, <1>13, <1>14, <1>15 DEF MetricInv
<1>. QED BY <1>11, <1>16

(* The flow takes its own steps, or none, whatever gated calls do.         *)
LEMMA BypassStepIsFlowStep ==
  ASSUME [BypassNext]_<<vars, bypass>> PROVE [Next]_vars
  BY DEF BypassNext, FlowStep, GatedRuns, ReadBypass, WriteBypass

(* Every step of the threads keeps the invariant of flow and metric.       *)
LEMMA BypassKept == BypassInv /\ [BypassNext]_<<vars, bypass>> => BypassInv'
<1> SUFFICES ASSUME BypassInv, [BypassNext]_<<vars, bypass>> PROVE BypassInv'
  OBVIOUS
<1>1. FlowInv'
  BY BypassStepIsFlowStep, FlowKept DEF BypassInv
<1>2. ASSUME UNCHANGED bypass PROVE BypassTypeOK' /\ MetricInv'
  <2>1. TypeOK'
    BY <1>1 DEF FlowInv, FlowTypes
  <2>. QED BY <1>2, <2>1 DEF BypassInv, BypassTypeOK, MetricInv, bypass
<1>3. CASE FlowStep
  BY <1>1, <1>2, <1>3 DEF FlowStep, BypassInv
<1>4. CASE \E t \in Threads, a \in ActionTypes : GatedRuns(t, a)
  BY <1>1, <1>2, <1>4, GatedRunsStep DEF BypassInv
<1>5. CASE \E t \in Threads, a \in ActionTypes : ReadBypass(t, a)
  BY <1>1, <1>5, ReadBypassStep DEF BypassInv
<1>6. CASE \E t \in Threads : WriteBypass(t)
  BY <1>1, <1>6, WriteBypassStep DEF BypassInv
<1>7. CASE UNCHANGED <<vars, bypass>>
  BY <1>1, <1>2, <1>7 DEF BypassInv
<1>. QED BY <1>3, <1>4, <1>5, <1>6, <1>7 DEF BypassNext

(* It holds when nobody has called anything.                               *)
LEMMA BypassStarts == BypassInit => BypassInv
<1> SUFFICES ASSUME BypassInit PROVE BypassInv
  OBVIOUS
<1>1. FlowInv /\ TypeOK
  BY FlowStarts DEF BypassInit, FlowInv, FlowTypes
<1>2. /\ metric = [a \in ActionTypes |-> 0]
      /\ report = [t \in Threads |-> NoReport]
      /\ direct = [a \in ActionTypes |-> 0] /\ ended = [a \in ActionTypes |-> 0]
      /\ raced = {}
  BY DEF BypassInit
<1>3. BypassTypeOK
  BY <1>1, <1>2, BypassAssumption DEF BypassTypeOK
<1>4. \A a : CountingIn(report, a) = {}
  BY <1>2 DEF CountingIn
<1>5. \A a : /\ IsFiniteSet(CountingIn(report, a))
             /\ Cardinality(CountingIn(report, a)) = 0
  BY <1>4, FS_EmptySet
<1>6. MetricInv
  BY <1>2, <1>4, <1>5 DEF MetricInv
<1>. QED BY <1>1, <1>3, <1>6 DEF BypassInv

(* Gated calls leave the flow as it is, so what is proved of the flow      *)
(* holds of the threads that make them.                                    *)
THEOREM BypassRunsFlow == BypassSpec => Spec
<1>1. BypassInit => Init
  BY DEF BypassInit
<1>2. [BypassNext]_<<vars, bypass>> => [Next]_vars
  BY BypassStepIsFlowStep
<1>. QED BY <1>1, <1>2, PTL DEF BypassSpec, Spec

(* The metric, the reports under way and the counts of direct calls keep   *)
(* their types.                                                            *)
THEOREM BypassTypeCorrect == BypassSpec => []BypassTypeOK
<1>1. BypassInv => BypassTypeOK
  BY DEF BypassInv
<1>. QED BY <1>1, BypassStarts, BypassKept, PTL DEF BypassSpec

(* No direct call goes unnoticed: the metric is the number of direct calls *)
(* that are over unless two threads counted at once, and even then it is   *)
(* positive and not too high (multisig.py 106-110, 136-140).               *)
THEOREM DirectCallsAreNoticed == BypassSpec => []BypassNoticed
<1>1. BypassInv => BypassNoticed
  BY DEF BypassInv, MetricInv, BypassNoticed
<1>. QED BY <1>1, BypassStarts, BypassKept, PTL DEF BypassSpec

=============================================================================
